---------------------------- MODULE MCHashTable ----------------------------
(***************************************************************************)
(* Small instances of HashTable, with the bit operations of Words.         *)
(***************************************************************************)
EXTENDS HashTable, TLC

CONSTANTS k1, k2, k3, long, v1, v2, v3, v4

W4 == INSTANCE Words WITH W <- 4, Shifts <- <<1, 2>>

MCSizeMax == 15

\* Tables of the two functions: TLC works them out once.
AndTable   == [a \in Word, b \in Word |-> W4!BitAndOf(a, b)]
PowerTable == [n \in Word |-> W4!NextPowerOf2(n)]

MCBitAnd(a, b)      == AndTable[a, b]
MCNextPowerOf2(n)   == PowerTable[n]

MCKeys     == {k1, k2, k3}
MCLongKeys == {long}
MCAllKeys  == MCKeys \cup MCLongKeys

\* k1, k2 and long share a bucket, of two slots, in tables of one, two and four
\* buckets; in eight, k2 parts from the others, and shrinking to four is FATAL
\* when all three are there.
MCHash    == k1 :> 0 @@ k2 :> 4 @@ k3 :> 3
MCAllHash == MCHash @@ long :> 8

MCTruncated == long :> k3
NoLongKeys  == {}
NotTruncated == <<>>

MCValues == {v1, v2, v3, v4}
ValueSymmetry == Permutations(MCValues)
=============================================================================
