----------------------------- MODULE SansIoProofs -----------------------------
(***************************************************************************)
(* Theorems about SansIo, for every set of frames and of keep-alive        *)
(* intervals, every limit and every clock range.                           *)
(***************************************************************************)
EXTENDS SansIo, TransportClientProofs

LEMMA QuietIsVerdict == Quiet \in Verdicts /\ Quiet.kind \notin PacketKinds
BY DEF Quiet, Verdict, Verdicts, States, PacketKinds

-----------------------------------------------------------------------------
(* Every variable keeps its type, the saturated deadline included. *)
LEMMA InitTypeOK == Init => TypeOK
<1> SUFFICES ASSUME Init PROVE TypeOK
  OBVIOUS
<1>1. ClientTypeOK /\ now \in Instants /\ last \in Instants /\ acks \in Nat
  BY ClientAssumption DEF Init, ClientInit, ClientTypeOK, States, Instants
<1>2. sent \in BOOLEAN /\ dead \in BOOLEAN /\ verdict \in Verdicts
  BY QuietIsVerdict, Zenon DEF Init
<1> QED
  BY <1>1, <1>2 DEF TypeOK

LEMMA NextTypeOK == TypeOK /\ [Next]_vars => TypeOK'
<1> SUFFICES ASSUME TypeOK, [Next]_vars PROVE TypeOK'
  OBVIOUS
<1> USE DEF TypeOK, ClientTypeOK
<1>1. ASSUME NEW ka \in KeepAlives, Open(ka) PROVE TypeOK'
  <2>1. ClientTypeOK' /\ now' \in Instants /\ last' \in Instants /\ acks' \in Nat
    BY <1>1, ClientAssumption, KeepAliveAssumption DEF Open, OnTransportOpened, Instants, States
  <2>2. sent' \in BOOLEAN /\ dead' \in BOOLEAN /\ verdict' \in Verdicts
    BY <1>1, QuietIsVerdict, Zenon DEF Open
  <2> QED
    BY <2>1, <2>2
<1>2. CASE Sent
  <2>1. packet_send_at' \in Instants
    BY <1>2, LaterInRange DEF Sent, OnPacketSent
  <2> QED
    BY <1>2, <2>1 DEF Sent, OnPacketSent
<1>3. CASE Closed
  BY <1>3, QuietIsVerdict DEF Closed, OnTransportClosed, States
<1>4. ASSUME NEW f \in Frames, NEW avail \in 0..FrameLength(f), Receive(f, avail)
      PROVE TypeOK'
  <2>1. FrameLength(f) \in Nat /\ avail \in Nat
    BY FramesAssumption DEF FrameSet, FrameLength
  <2>2. OnBytesReceived(f, avail) \in Verdicts
    BY <2>1, VerdictFacts DEF TypeOK
  <2> QED
    BY <1>4, <2>2 DEF Receive, Verdicts
<1>5. CASE Advance
  BY <1>5, ClientAssumption DEF Advance, Instants
<1>6. CASE UNCHANGED vars
  BY <1>6 DEF vars
<1> QED
  BY <1>1, <1>2, <1>3, <1>4, <1>5, <1>6 DEF Next

THEOREM TypeCorrect == Spec => []TypeOK
<1>1. Init => TypeOK
  BY InitTypeOK
<1>2. TypeOK /\ [Next]_vars => TypeOK'
  BY NextTypeOK
<1> QED
  BY <1>1, <1>2, PTL DEF Spec

-----------------------------------------------------------------------------
(***************************************************************************)
(* The session invariants are inductive together with the types: what      *)
(* on_bytes_received may answer depends on state alone, and state records  *)
(* what was answered before.                                               *)
(***************************************************************************)
SessionInv == ConnAckOpensSession /\ NothingAfterTheEnd

LEMMA InitSessionInv == Init => SessionInv
BY DEF Init, SessionInv, ConnAckOpensSession, NothingAfterTheEnd, ClientInit, Quiet, Verdict,
       SessionKinds, PacketKinds

LEMMA NextSessionInv == TypeOK /\ SessionInv /\ [Next]_vars => SessionInv'
<1> SUFFICES ASSUME TypeOK, SessionInv, [Next]_vars PROVE SessionInv'
  OBVIOUS
<1> USE DEF SessionInv, ConnAckOpensSession, NothingAfterTheEnd
<1>1. ASSUME NEW ka \in KeepAlives, Open(ka) PROVE SessionInv'
  BY <1>1 DEF Open, OnTransportOpened, Quiet, Verdict, SessionKinds, PacketKinds
<1>2. CASE Sent
  BY <1>2 DEF Sent, OnPacketSent
<1>3. CASE Closed
  BY <1>3 DEF Closed, OnTransportClosed, Quiet, Verdict, SessionKinds, PacketKinds
<1>4. ASSUME NEW f \in Frames, NEW avail \in 0..FrameLength(f), Receive(f, avail)
      PROVE SessionInv'
  <2> DEFINE v == OnBytesReceived(f, avail)
  <2>1. FrameLength(f) \in Nat /\ avail \in Nat
    BY FramesAssumption DEF FrameSet, FrameLength
  <2>2. /\ v.tag = "Error" \/ v.kind = "Disconnected"
              => v.next = "Disconnected" /\ v.kind \notin PacketKinds
        /\ state = "Disconnected" => v.kind = "Disconnected"
        /\ v.kind = "ConnAck" => state = "TransportConnected" /\ v.next = "Connected"
        /\ v.kind \in SessionKinds => state = "Connected" /\ v.next = "Connected"
        /\ v.next = "Connected" => state = "Connected" \/ v.kind = "ConnAck"
        /\ v.next = "TransportConnected" => state = "TransportConnected"
    BY <2>1, VerdictFacts DEF TypeOK
  <2>3. /\ state' = v.next
        /\ verdict' = v
        /\ acks' = IF v.kind = "ConnAck" THEN acks + 1 ELSE acks
        /\ dead' = (dead \/ v.tag = "Error" \/ v.kind = "Disconnected")
    BY <1>4 DEF Receive
  <2> HIDE DEF v
  <2>4. ConnAckOpensSession'
    BY <2>2, <2>3 DEF TypeOK, ClientTypeOK, States, SessionKinds, PacketKinds
  <2>5. NothingAfterTheEnd'
    BY <2>2, <2>3
  <2> QED
    BY <2>4, <2>5
<1>5. CASE Advance
  BY <1>5 DEF Advance
<1>6. CASE UNCHANGED vars
  BY <1>6 DEF vars
<1> QED
  BY <1>1, <1>2, <1>3, <1>4, <1>5, <1>6 DEF Next

(***************************************************************************)
(* Whatever the stream holds and however the caller offers it, a session   *)
(* is opened by exactly one ConnAck.                                       *)
(***************************************************************************)
THEOREM SessionOpened == Spec => []ConnAckOpensSession
<1>1. Init => SessionInv
  BY InitSessionInv
<1>2. TypeOK /\ SessionInv /\ [Next]_vars => SessionInv'
  BY NextSessionInv
<1>3. SessionInv => ConnAckOpensSession
  BY DEF SessionInv
<1> QED
  BY <1>1, <1>2, <1>3, TypeCorrect, PTL DEF Spec

(***************************************************************************)
(* And nothing is delivered after its end, until the next transport.       *)
(***************************************************************************)
THEOREM SessionEnded == Spec => []NothingAfterTheEnd
<1>1. Init => SessionInv
  BY InitSessionInv
<1>2. TypeOK /\ SessionInv /\ [Next]_vars => SessionInv'
  BY NextSessionInv
<1>3. SessionInv => NothingAfterTheEnd
  BY DEF SessionInv
<1> QED
  BY <1>1, <1>2, <1>3, TypeCorrect, PTL DEF Spec

-----------------------------------------------------------------------------
(***************************************************************************)
(* PingDeadline speaks of the present; the invariant behind it says where  *)
(* the deadline comes from: the latest packet of this transport.           *)
(***************************************************************************)
DeadlineInv ==
    /\ last <= now
    /\ HasPing /\ sent => packet_send_at = Later(last, keep_alive)
    /\ HasPing /\ ~sent => packet_send_at = 0

LEMMA NextDeadlineInv == TypeOK /\ DeadlineInv /\ [Next]_vars => DeadlineInv'
<1> SUFFICES ASSUME TypeOK, DeadlineInv, [Next]_vars PROVE DeadlineInv'
  OBVIOUS
<1> USE DEF DeadlineInv, HasPing, Later
<1>1. ASSUME NEW ka \in KeepAlives, Open(ka) PROVE DeadlineInv'
  BY <1>1, ClientAssumption DEF Open, OnTransportOpened, TypeOK, Instants
<1>2. CASE Sent
  BY <1>2, ClientAssumption DEF Sent, OnPacketSent, TypeOK, Instants
<1>3. CASE Closed
  BY <1>3 DEF Closed, OnTransportClosed
<1>4. ASSUME NEW f \in Frames, NEW avail \in 0..FrameLength(f), Receive(f, avail)
      PROVE DeadlineInv'
  BY <1>4 DEF Receive
<1>5. CASE Advance
  BY <1>5, ClientAssumption DEF Advance, TypeOK, Instants
<1>6. CASE UNCHANGED vars
  BY <1>6 DEF vars
<1> QED
  BY <1>1, <1>2, <1>3, <1>4, <1>5, <1>6 DEF Next

LEMMA DeadlineInvImplies == TypeOK /\ DeadlineInv => PingDeadline
BY ClientAssumption
   DEF TypeOK, ClientTypeOK, DeadlineInv, PingDeadline, HasPing, NextPingIn, Later, Until, Instants

(***************************************************************************)
(* A ping is due exactly keep_alive after the last packet sent on this     *)
(* transport, at once when none was, and never late: not even when the     *)
(* deadline saturates at the end of the clock.                             *)
(***************************************************************************)
THEOREM DeadlineCorrect == Spec => []PingDeadline
<1>1. Init => DeadlineInv
  BY DEF Init, ClientInit, DeadlineInv, HasPing
<1>2. TypeOK /\ DeadlineInv /\ [Next]_vars => DeadlineInv'
  BY NextDeadlineInv
<1>3. TypeOK /\ DeadlineInv => PingDeadline
  BY DeadlineInvImplies
<1> QED
  BY <1>1, <1>2, <1>3, TypeCorrect, PTL DEF Spec
=============================================================================
