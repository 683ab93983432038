------------------------------- MODULE Words -------------------------------
(***************************************************************************)
(* Unsigned machine words of W bits (size_t, unsigned long) and the two    *)
(* bit tricks the hash table is built on: masking with a power of two in   *)
(* place of a modulo (src/src/hashtable.c:238) and rounding up to a power  *)
(* of two by smearing the highest bit downwards                            *)
(* (src/src/bitwise_functionality.c).                                      *)
(*                                                                         *)
(* The code has W = 64 and the shifts 1, 2, 4, 8, 16, 32: the last of them *)
(* is compiled for x86-64 alone, the build that is modelled.  A model has  *)
(* a small W and the shifts 1, 2, 4, ... below W.                          *)
(***************************************************************************)
EXTENDS Integers, Sequences

CONSTANTS W,        \* bits of a word
          Shifts    \* the smearing shifts, in the order they are applied

\* The powers of two up to the one a word of W bits no longer holds.
TwoTo[i \in 0 .. W] == IF i = 0 THEN 1 ELSE 2 * TwoTo[i - 1]

\* Each shift is twice the one before it, and together they reach every bit.
ASSUME WordsAssumption ==
  /\ W \in Nat \ {0}
  /\ Shifts \in Seq(1 .. W)
  /\ Len(Shifts) <= W
  /\ \A i \in 1 .. Len(Shifts) : Shifts[i] = TwoTo[i - 1]
  /\ W <= TwoTo[Len(Shifts)]

Modulus == TwoTo[W]
Word    == 0 .. Modulus - 1

\* The positions of the bits that are set in n, and the word with the bits of S.
Bits(n) == {i \in 0 .. W - 1 : (n \div TwoTo[i]) % 2 = 1}

WordOf(S) ==
  LET sum[i \in 0 .. W] ==
        IF i = 0 THEN 0 ELSE sum[i - 1] + (IF i - 1 \in S THEN TwoTo[i - 1] ELSE 0)
  IN  sum[W]

\* The operators & | and >> of C.
BitAndOf(a, b)   == WordOf(Bits(a) \cap Bits(b))
BitOrOf(a, b)    == WordOf(Bits(a) \cup Bits(b))
ShiftRight(n, s) == n \div TwoTo[s]

-----------------------------------------------------------------------------
\* n |= n >> s, for each shift in turn.
Smear(n) ==
  LET smeared[i \in 0 .. Len(Shifts)] ==
        IF i = 0 THEN n
        ELSE BitOrOf(smeared[i - 1], ShiftRight(smeared[i - 1], Shifts[i]))
  IN  smeared[Len(Shifts)]

\* Mutation: the highest bit is smeared without taking one off first, so that a
\* power of two is doubled.
NextPowerWithoutDecrement(n) == IF n = 0 THEN 1 ELSE (Smear(n) + 1) % Modulus

\* next_power_of_2: the increment wraps to 0 above the largest power of two.
NextPowerOf2(n) == IF n = 0 THEN 1 ELSE (Smear(n - 1) + 1) % Modulus

\* Mutation: n & n, which only 0 passes.
TestWithoutDecrement(n) == BitAndOf(n, n) = 0

\* The test table_create and table_resize make before rounding: (n & (n - 1)) is
\* zero.  It holds for 0 as well; the callers have excluded 0 before.
PassesPowerTest(n) == BitAndOf(n, (n + Modulus - 1) % Modulus) = 0

\* Mutation: the mask is the size itself.
MaskBySize(h, size) == BitAndOf(h, size)

\* The bucket of hash h in a table of `size` buckets: h & (size - 1).
Masked(h, size) == BitAndOf(h, (size + Modulus - 1) % Modulus)

\* The sizes a rounded table may have, said without bits.
PowersOf2 == {TwoTo[i] : i \in 0 .. W - 1}
=============================================================================
