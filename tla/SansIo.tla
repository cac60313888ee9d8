-------------------------------- MODULE SansIo --------------------------------
(***************************************************************************)
(* A TransportClient and a caller that may call its methods in any order,  *)
(* as its public API lets it: open and close transports, report sent       *)
(* packets, hand over received bytes, and read a monotonic clock.          *)
(***************************************************************************)
EXTENDS TransportClient

VARIABLES now,        \* the caller's clock
          sent,       \* history: a packet was reported sent since the transport opened
          last,       \* history: when the latest one was
          acks,       \* history: ConnAck notifications since the transport opened
          dead,       \* history: an error or a close was reported since it opened
          verdict     \* what the latest on_bytes_received returned, if no open or close followed

vars == << state, keep_alive, packet_send_at, now, sent, last, acks, dead, verdict >>

CONSTANT KeepAlives   \* the keep-alive intervals ConnectOptions may ask for

ASSUME KeepAliveAssumption == KeepAlives \subseteq Nat

Quiet == Verdict("Disconnected", "None", "-", 0)

TypeOK ==
    /\ ClientTypeOK
    /\ now \in Instants
    /\ sent \in BOOLEAN
    /\ last \in Instants
    /\ acks \in Nat
    /\ dead \in BOOLEAN
    /\ verdict \in Verdicts

Init ==
    /\ ClientInit
    /\ now = 0
    /\ sent = FALSE
    /\ last = 0
    /\ acks = 0
    /\ dead = FALSE
    /\ verdict = Quiet

-----------------------------------------------------------------------------
(* on_transport_opened, on a transport the caller just opened. *)
Open(ka) ==
    /\ OnTransportOpened(ka)
    /\ sent' = FALSE
    /\ last' = 0
    /\ acks' = 0
    /\ dead' = FALSE
    /\ verdict' = Quiet
    /\ UNCHANGED now

(* on_packet_sent, which the caller owes after every packet. *)
Sent ==
    /\ OnPacketSent(now)
    /\ sent' = TRUE
    /\ last' = now
    /\ UNCHANGED << now, acks, dead, verdict >>

(* on_transport_closed. *)
Closed ==
    /\ OnTransportClosed
    /\ dead' = TRUE
    /\ verdict' = Quiet
    /\ UNCHANGED << now, sent, last, acks >>

(* on_bytes_received. *)
Receive(f, avail) ==
    LET v == OnBytesReceived(f, avail) IN
    /\ state' = v.next
    /\ verdict' = v
    /\ acks' = IF v.kind = "ConnAck" THEN acks + 1 ELSE acks
    /\ dead' = (dead \/ v.tag = "Error" \/ v.kind = "Disconnected")
    /\ UNCHANGED << keep_alive, packet_send_at, now, sent, last >>

(* Time passes. *)
Advance ==
    /\ now < MaxInstant
    /\ now' = now + 1
    /\ UNCHANGED << state, keep_alive, packet_send_at, sent, last, acks, dead, verdict >>

Next ==
    \/ \E ka \in KeepAlives : Open(ka)
    \/ Sent
    \/ Closed
    \/ \E f \in Frames : \E avail \in 0..FrameLength(f) : Receive(f, avail)
    \/ Advance

Spec == Init /\ [][Next]_vars

-----------------------------------------------------------------------------
(***************************************************************************)
(* A session opens with exactly one ConnAck: however often the caller      *)
(* offers the same bytes again, and whatever follows on the stream, the    *)
(* client is Connected only after one ConnAck notification, never gives a  *)
(* second, and gives no other packet without it.                           *)
(***************************************************************************)
ConnAckOpensSession ==
    /\ acks <= 1
    /\ state = "Connected" => acks = 1
    /\ state = "TransportConnected" => acks = 0
    /\ verdict.kind \in SessionKinds => acks = 1

(***************************************************************************)
(* After a protocol error, a refused ConnAck or a close, the client gives  *)
(* no packet from that transport any more: bytes still buffered and bytes  *)
(* still arriving are answered with Disconnected until the caller opens    *)
(* another transport.                                                      *)
(***************************************************************************)
NothingAfterTheEnd ==
    dead => state = "Disconnected" /\ verdict.kind \notin PacketKinds

(***************************************************************************)
(* A ping is due exactly when no packet has been sent for keep_alive, on   *)
(* this transport and not on an earlier one; a packet sent postpones it by *)
(* keep_alive and no more.  The one exception is a clock at its maximum,   *)
(* where the saturated deadline makes a ping due early, never late.        *)
(***************************************************************************)
PingDeadline ==
    HasPing =>
        /\ sent => (NextPingIn(now) = 0 <=> now - last >= keep_alive \/ now = MaxInstant)
        /\ ~sent => NextPingIn(now) = 0
        /\ NextPingIn(now) <= keep_alive
=============================================================================
