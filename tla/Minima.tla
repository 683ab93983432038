------------------------------- MODULE Minima -------------------------------
(***************************************************************************)
(* What Min of the library is on the sets it is used for: the slots of a   *)
(* bucket, the positions in a sequence, the blocks not in use.  From it,   *)
(* induction over a set of numbers and the existence of a function defined *)
(* by recursion, each for a set or a function where the library's theorems *)
(* take an operator.                                                       *)
(***************************************************************************)
EXTENDS Integers, FiniteSetsExt, SequencesExt, TLAPS, WellFoundedInduction

\* A set of numbers that is not empty has a least one, and Min is it.
LEMMA MinIsLeast ==
  ASSUME NEW S, S \subseteq Nat, S # {}
  PROVE  Min(S) \in S /\ \A x \in S : Min(S) <= x
<1>1. PICK m \in S : \A y \in S : <<y, m>> \notin OpToRel(<, Nat)
  BY NatLessThanWellFounded, WFMin, Zenon
<1>2. \A y \in S : ~(y < m)
  BY <1>1 DEF OpToRel
<1>3. \A y \in S : m <= y
  BY <1>2
<1> QED
  BY <1>3 DEF Min

\* A number of the set that no other is below is Min of it.
LEMMA LeastIsMin ==
  ASSUME NEW S, S \subseteq Nat, NEW m \in S, \A x \in S : m <= x
  PROVE  Min(S) = m
<1> DEFINE least == Min(S)
<1>1. least \in S /\ least <= m
  BY MinIsLeast
<1> HIDE DEF least
<1>2. least \in Nat /\ m \in Nat /\ m <= least
  BY <1>1
<1> QED
  BY <1>1, <1>2 DEF least

\* A set that has 0, and with a number below n the next one, has all up to n.
LEMMA Induction ==
  ASSUME NEW n \in Nat, NEW S, 0 \in S, \A i \in 0 .. n - 1 : i \in S => i + 1 \in S
  PROVE  \A i \in 0 .. n : i \in S
<1> DEFINE missing == {i \in 0 .. n : i \notin S}
<1> SUFFICES ASSUME missing # {} PROVE FALSE
  OBVIOUS
<1>1. missing \subseteq Nat
  OBVIOUS
<1> DEFINE least == Min(missing)
<1>2. least \in missing /\ \A i \in missing : least <= i
  BY <1>1, MinIsLeast
<1> HIDE DEF least
<1>3. least \in 0 .. n /\ least # 0 /\ least - 1 \in 0 .. n - 1
  BY <1>2
<1>4. least - 1 \in S
  BY <1>2, <1>3
<1> QED
  BY <1>2, <1>3, <1>4

\* f has the first value and, up to n, takes the steps of a recursion.
Follows(f, n, first, step) ==
  \A i \in 0 .. n : f[i] = IF i = 0 THEN first ELSE step[<<f[i - 1], i>>]

\* There is a function over 0 .. n with a given first value and a given step.
LEMMA Recursion ==
  ASSUME NEW n \in Nat, NEW V, NEW first \in V, NEW step \in [V \X Nat -> V]
  PROVE  \E f \in [0 .. n -> V] : Follows(f, n, first, step)
<1> DEFINE S == {k \in Nat : \E f \in [0 .. k -> V] : Follows(f, k, first, step)}
<1>1. 0 \in S
  <2> DEFINE f == [i \in 0 .. 0 |-> first]
  <2>1. f \in [0 .. 0 -> V] /\ Follows(f, 0, first, step)
    BY DEF Follows
  <2> QED
    BY <2>1
<1>2. ASSUME NEW k \in 0 .. n - 1, k \in S PROVE k + 1 \in S
  <2>1. PICK f \in [0 .. k -> V] : Follows(f, k, first, step)
    BY <1>2
  <2> DEFINE g == [i \in 0 .. k + 1 |-> IF i <= k THEN f[i] ELSE step[<<f[k], k + 1>>]]
  <2>2. step[<<f[k], k + 1>>] \in V
    <3>1. <<f[k], k + 1>> \in V \X Nat
      OBVIOUS
    <3> QED
      BY <3>1
  <2>3. g \in [0 .. k + 1 -> V]
    BY <2>2
  <2>4. ASSUME NEW i \in 0 .. k + 1
        PROVE  g[i] = IF i = 0 THEN first ELSE step[<<g[i - 1], i>>]
    <3>1. CASE i = k + 1
      BY <3>1
    <3>2. CASE i \in 0 .. k
      <4>1. f[i] = IF i = 0 THEN first ELSE step[<<f[i - 1], i>>]
        BY <2>1, <3>2 DEF Follows
      <4>2. i # 0 => g[i - 1] = f[i - 1]
        BY <3>2
      <4>3. g[i] = f[i]
        BY <3>2
      <4> HIDE DEF g
      <4> QED
        BY <4>1, <4>2, <4>3
    <3> QED
      BY <3>1, <3>2
  <2>5. Follows(g, k + 1, first, step)
    BY <2>4, Zenon DEF Follows
  <2> HIDE DEF g
  <2> QED
    BY <2>3, <2>5
<1> HIDE DEF S
<1>3. n \in S
  BY <1>1, <1>2, Induction
<1> QED
  BY <1>3 DEF S
=============================================================================
