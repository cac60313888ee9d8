----------------------------- MODULE FrameChannel -----------------------------
(***************************************************************************)
(* What the receiving side of NanoClient promises its user, without bytes, *)
(* buffers or awaits: a first-in first-out channel of frames per           *)
(* connection.  The frame at its head is shown as often as the user asks,  *)
(* and only the completion of the notification that shows it removes it,   *)
(* so no frame is lost, skipped, reordered or repeated once completed.     *)
(***************************************************************************)
EXTENDS Sequences, Naturals

CONSTANT Frames

VARIABLES queue,    \* the frames of this connection that are not consumed
          shown     \* the frame the user holds a notification of, if any

vars == << queue, shown >>

TypeOK == queue \in Seq(Frames) /\ shown \in Seq(Frames)

Init == queue = << >> /\ shown = << >>

Push(f) == queue' = Append(queue, f) /\ UNCHANGED shown

(* The user is given a notification of the head of the queue. *)
Show ==
    /\ shown = << >> /\ queue # << >>
    /\ shown' = << Head(queue) >>
    /\ UNCHANGED queue

(* It completes it ... *)
Consume ==
    /\ shown # << >>
    /\ shown = << Head(queue) >>
    /\ queue' = Tail(queue)
    /\ shown' = << >>

(* ... or forgets it. *)
Forget == shown' = << >> /\ UNCHANGED queue

(* The ConnAck that answers connect is consumed without being shown. *)
Handshake ==
    /\ queue # << >> /\ Head(queue).kind = "ConnAck"
    /\ queue' = Tail(queue)
    /\ UNCHANGED shown

(* A new connection. *)
Reset ==
    /\ shown = << >>
    /\ queue' = << >>
    /\ UNCHANGED shown

Next == (\E f \in Frames : Push(f)) \/ Show \/ Consume \/ Forget \/ Handshake \/ Reset

Spec == Init /\ [][Next]_vars
=============================================================================
