---------------------------- MODULE NanoRefinement ----------------------------
(***************************************************************************)
(* NanoClient implements FrameChannel, for a user that lets go of a        *)
(* notification before it asks for another.  The queue is made of the      *)
(* frames whose first byte is in rx_buffer or still to be read.            *)
(***************************************************************************)
EXTENDS NanoClient

(* The places where a frame starts, numbered from the front. *)
Starts(s) == {k \in 1..Len(s) : s[k].pos = 1}

Rank(s, k) == Cardinality({j \in Starts(s) : j <= k})

StartOf(s, n) == CHOOSE k \in Starts(s) : Rank(s, k) = n

FramesOf(s) == [n \in 1..Cardinality(Starts(s)) |-> s[StartOf(s, n)].frame]

(* The frame the notification in the user's hands would remove. *)
InHand ==
    IF held # << >> /\ held[1].taken > 0 THEN << held[1].bytes[1].frame >> ELSE << >>

Channel == INSTANCE FrameChannel WITH queue <- FramesOf(Stream), shown <- InHand

(***************************************************************************)
(* Frames reach the user in the order the broker sent them, each until it  *)
(* is completed and never after, through partial reads, redeliveries,      *)
(* cancelled reads, pings and reconnections.                               *)
(***************************************************************************)
ImplementsChannel == Channel!Spec
=============================================================================
