------------------------------ MODULE ByteQueue ------------------------------
(***************************************************************************)
(* What the receive buffer promises NanoClient, which sees it as the       *)
(* sequence rx: bytes read are added behind those there are, completions   *)
(* remove bytes from the front, connect removes them all.                  *)
(***************************************************************************)
EXTENDS Naturals, Sequences

CONSTANT Capacity

VARIABLES data,     \* the bytes that were read and not removed
          got       \* the bytes the latest read reported

vars == << data, got >>

Init == data = << >> /\ got = << >>

Add ==
    /\ Len(got') <= Capacity - Len(data)
    /\ data' = data \o got'

RemovePrefix(n) == data' = SubSeq(data, n + 1, Len(data)) /\ UNCHANGED got

Reset == data' = << >> /\ UNCHANGED got

Next == Add \/ (\E n \in 1..Capacity : RemovePrefix(n)) \/ Reset

Spec == Init /\ [][Next]_vars
=============================================================================
