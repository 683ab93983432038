------------------------------ MODULE MCServer ------------------------------
(***************************************************************************)
(* Two clients, one key, and a table of one bucket that may be doubled.    *)
(***************************************************************************)
EXTENDS Server, TLC

CONSTANTS k1, c1, c2

W3 == INSTANCE Words WITH W <- 3, Shifts <- <<1, 2>>

MCSizeMax == 7

AndTable   == [a \in Word, b \in Word |-> W3!BitAndOf(a, b)]
PowerTable == [n \in Word |-> W3!NextPowerOf2(n)]

MCBitAnd(a, b)    == AndTable[a, b]
MCNextPowerOf2(n) == PowerTable[n]

MCKeys       == {k1}
MCHash       == k1 :> 5
NoLongKeys   == {}
NotTruncated == <<>>
MCClients    == {c1, c2}
MCBlocks     == 1 .. 5
=============================================================================
