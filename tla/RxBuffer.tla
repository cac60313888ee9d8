------------------------------- MODULE RxBuffer -------------------------------
(***************************************************************************)
(* umqtt::nano_client::buffer::Buffer: an array of which the first used    *)
(* bytes count.  The platform reads into the rest; what it wrote there     *)
(* counts only as far as the read reported it.  A read that is dropped,    *)
(* times out or fails may have written there and reports nothing.          *)
(***************************************************************************)
EXTENDS Integers, Sequences

CONSTANTS Capacity,   \* the length of the slice the user gives the client
          Values      \* the values of a byte

VARIABLES buffer,     \* buffer
          used,       \* used
          got         \* history: the bytes the latest read reported

vars == << buffer, used, got >>

ASSUME CapacityAssumption == Capacity \in Nat

Slots == 0..(Capacity - 1)

TypeOK ==
    /\ buffer \in [Slots -> Values]
    /\ used \in 0..Capacity
    /\ got \in Seq(Values)

(* Buffer::new on a slice that may hold anything. *)
Init ==
    /\ buffer \in [Slots -> Values]
    /\ used = 0
    /\ got = << >>

-----------------------------------------------------------------------------
(* used_slice. *)
UsedSlice == [i \in 1..used |-> buffer[i - 1]]

(* A fault for the mutants: the whole buffer is offered to the platform. *)
UnusedAll == Capacity

(* The length of unused_slice_mut. *)
Unused == Capacity - used

(* The platform writes s to unused_slice_mut. *)
Overwrite(s) ==
    [i \in Slots |-> IF i \in used..(used + Len(s) - 1) THEN s[i - used + 1] ELSE buffer[i]]

(* A fault for the mutants: the copy starts at the end, so that where the  *)
(* ranges overlap it reads what it has written.                            *)
CopyWithinBackward(from, to) ==
    [i \in Slots |-> IF i < to - from
                     THEN buffer[i + from * ((to - 1 - i) \div from)]
                     ELSE buffer[i]]

(* copy_within(from..to, 0): the ranges may overlap. *)
CopyWithin(from, to) ==
    [i \in Slots |-> IF i < to - from THEN buffer[i + from] ELSE buffer[i]]

(* read_some wrote s and reported its first n bytes: advance(n). *)
ReadSome(s, n) ==
    /\ Len(s) <= Unused
    /\ buffer' = Overwrite(s)
    /\ used' = used + n
    /\ got' = SubSeq(s, 1, n)

(* It wrote s, but the future was dropped, the time was up or it failed. *)
ReadUnreported(s) ==
    /\ Len(s) <= Unused
    /\ buffer' = Overwrite(s)
    /\ UNCHANGED << used, got >>

(* remove_prefix. *)
RemovePrefix(len) ==
    /\ IF len >= used
       THEN used' = 0 /\ UNCHANGED buffer
       ELSE buffer' = CopyWithin(len, used) /\ used' = used - len
    /\ UNCHANGED got

(* reset. *)
Reset == used' = 0 /\ UNCHANGED << buffer, got >>

Next ==
    \/ \E k \in 1..Capacity : \E s \in [1..k -> Values] :
          ReadUnreported(s) \/ \E n \in 1..k : ReadSome(s, n)
    \/ \E len \in 1..Capacity : RemovePrefix(len)
    \/ Reset

Spec == Init /\ [][Next]_vars

-----------------------------------------------------------------------------
Queue == INSTANCE ByteQueue WITH data <- UsedSlice

(***************************************************************************)
(* The bytes the client parses are the bytes the reads reported, all of    *)
(* them, in order, less the prefixes removed: whatever the reads that      *)
(* reported nothing left in the array, and however far the moved bytes     *)
(* overlap the place they are moved to (remove_prefix, advance).           *)
(***************************************************************************)
ImplementsQueue == Queue!Spec
=============================================================================
