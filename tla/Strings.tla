------------------------------ MODULE Strings -------------------------------
(***************************************************************************)
(* Keys as bytes: how src/src/string_functionality.c copies them into a    *)
(* slot and compares them there, and how src/src/hashing_functionality.c   *)
(* hashes them.  Module HashTable has keys that are equal or not, long or  *)
(* not; this is what stands behind that.                                   *)
(*                                                                         *)
(* A block of memory is the sequence of its bytes, a string in it ends     *)
(* before its first 0.                                                     *)
(***************************************************************************)
EXTENDS Integers, Sequences, SequencesExt, FiniteSetsExt

CONSTANTS KEY_MAX_LEN,      \* 255 in the code
          HashModulus       \* of unsigned long

ASSUME StringsAssumption == KEY_MAX_LEN \in Nat \ {0} /\ HashModulus \in Nat \ {0}

\* The bytes of s as C keeps them.
Terminated(s) == Append(s, 0)

ustrlen(m) == SelectInSeq(m, LAMBDA c : c = 0) - 1

is_key_valid(m) == m[1] # 0

-----------------------------------------------------------------------------
\* How many bytes of a string of len bytes fit before the 0.
\* Mutation: as many as there are bytes in the block.
KeptWithoutRoom(len, n) == IF len < n THEN len ELSE n

Kept(len, n) == IF len < n - 1 THEN len ELSE n - 1

\* Mutation: the 0 is not written.
CopyWithoutEnd(dest, src, n) ==
  [i \in DOMAIN dest |-> IF i <= Kept(ustrlen(src), n) THEN src[i] ELSE dest[i]]

\* The block after the copy; what lies behind the 0 stays as it was.
ustrncpy(dest, src, n) ==
  LET kept == Kept(ustrlen(src), n)
  IN  [i \in DOMAIN dest |->
         IF i <= kept THEN src[i] ELSE IF i = kept + 1 THEN 0 ELSE dest[i]]

\* The position at which a comparison ends: the first difference, the common end,
\* or one behind the n bytes, or behind a block that ends before.
ComparedTo(s1, s2, n) ==
  LET upto  == Min({n, Len(s1), Len(s2)})
      stops == {i \in 1 .. upto : s1[i] # s2[i] \/ s1[i] = 0}
  IN  IF stops = {} THEN upto + 1 ELSE Min(stops)

\* The difference of the bytes there.
ustrncmp(s1, s2, n) ==
  IF n = 0 THEN 0 ELSE LET i == ComparedTo(s1, s2, n) IN s1[i] - s2[i]

\* djb2.
hash(m) ==
  FoldLeft(LAMBDA h, c : (h * 33 + c) % HashModulus, 5381 % HashModulus,
           SubSeq(m, 1, ustrlen(m)))
=============================================================================
