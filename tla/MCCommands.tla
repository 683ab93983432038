----------------------------- MODULE MCCommands ----------------------------
(***************************************************************************)
(* A small instance of Commands: two keys that share a bucket of one slot  *)
(* or part in a table of two, and blocks enough to refuse a store.         *)
(***************************************************************************)
EXTENDS Commands, TLC

CONSTANTS k1, k2, v1, v2, v3

W3 == INSTANCE Words WITH W <- 3, Shifts <- <<1, 2>>

MCSizeMax == 7

AndTable   == [a \in Word, b \in Word |-> W3!BitAndOf(a, b)]
PowerTable == [n \in Word |-> W3!NextPowerOf2(n)]

MCBitAnd(a, b)    == AndTable[a, b]
MCNextPowerOf2(n) == PowerTable[n]

MCKeys       == {k1, k2}
MCHash       == k1 :> 2 @@ k2 :> 5
NoLongKeys   == {}
NotTruncated == <<>>

MCValues      == {v1, v2, v3}
ValueSymmetry == Permutations(MCValues)
=============================================================================
