--------------------------- MODULE TransportClient ---------------------------
(***************************************************************************)
(* umqtt::transport_client::TransportClient, the sans-IO half of the       *)
(* client.  It owns the connection state and the ping deadline; its caller *)
(* owns the transport, the clock and the receive buffer.  This module has  *)
(* one operator per method; SansIo and NanoClient build their actions from *)
(* them.                                                                   *)
(***************************************************************************)
EXTENDS Framing

CONSTANTS MaxPacketSize,    \* max_packet_size
          MaxInstant        \* the largest Instant, u64::MAX milliseconds

VARIABLES state,            \* State
          keep_alive,       \* keep_alive, in clock units; 0 turns pings off
          packet_send_at    \* packet_send_at, the instant a ping falls due

ASSUME ClientAssumption == MaxPacketSize \in Nat /\ MaxInstant \in Nat

clientVars == << state, keep_alive, packet_send_at >>

States == {"Disconnected", "TransportConnected", "Connected"}

Instants == 0..MaxInstant

ClientTypeOK ==
    /\ state \in States
    /\ keep_alive \in Nat
    /\ packet_send_at \in Instants

(* TransportClient::new. *)
ClientInit ==
    /\ state = "Disconnected"
    /\ keep_alive = 0
    /\ packet_send_at = 0

-----------------------------------------------------------------------------
(* A fault for the mutants: the sum does not saturate. *)
LaterUnbounded(t, d) == t + d

(* Instant + Duration and Instant - Instant saturate. *)
Later(t, d) == IF t + d > MaxInstant THEN MaxInstant ELSE t + d

Until(t, now) == IF t > now THEN t - now ELSE 0

(* A fault for the mutants: the deadline of the last connection is kept. *)
OnTransportOpenedStale(ka) ==
    /\ keep_alive' = ka
    /\ packet_send_at' = packet_send_at
    /\ state' = "TransportConnected"

(* on_transport_opened. *)
OnTransportOpened(ka) ==
    /\ keep_alive' = ka
    /\ packet_send_at' = 0
    /\ state' = "TransportConnected"

(* on_packet_sent. *)
OnPacketSent(now) ==
    /\ packet_send_at' = IF keep_alive > 0 THEN Later(now, keep_alive) ELSE packet_send_at
    /\ UNCHANGED << state, keep_alive >>

(* A fault for the mutants: the close is not recorded. *)
OnTransportClosedLost == UNCHANGED clientVars

(* on_transport_closed. *)
OnTransportClosed ==
    /\ state' = "Disconnected"
    /\ UNCHANGED << keep_alive, packet_send_at >>

(* next_ping_in is Some(NextPingIn(now)) when HasPing, None otherwise. *)
HasPing == keep_alive > 0

NextPingIn(now) == Until(packet_send_at, now)

(***************************************************************************)
(* on_bytes_received on avail bytes that start with frame f: the state it  *)
(* leaves, whether it returns Ok(None), Err or Ok(Some), and the           *)
(* notification and the number of bytes taken.                             *)
(***************************************************************************)
Verdict(next, tag, kind, taken) ==
    [next |-> next, tag |-> tag, kind |-> kind, taken |-> taken]

Verdicts == [next : States, tag : {"None", "Error", "Notification"},
             kind : FrameKinds \cup {"-", "Disconnected"}, taken : Nat]

(* The packets that become notifications once the session is open. *)
SessionKinds == PacketKinds \ {"ConnAck", "Refusal", "Foreign"}

(* While waiting for the ConnAck. *)
OpeningVerdict(f) ==
    IF f.kind = "ConnAck"
    THEN Verdict("Connected", "Notification", f.kind, FrameLength(f))
    ELSE IF f.kind = "Refusal"
    THEN Verdict("Disconnected", "Notification", "Disconnected", 0)
    ELSE Verdict("Disconnected", "Error", "-", 0)

(* A fault for the mutants: a second ConnAck is taken like the first. *)
SessionVerdictLenient(f) ==
    IF f.kind \in SessionKinds \cup {"ConnAck"}
    THEN Verdict("Connected", "Notification", f.kind, FrameLength(f))
    ELSE Verdict("Disconnected", "Error", "-", 0)

(* In the session. *)
SessionVerdict(f) ==
    IF f.kind \in SessionKinds
    THEN Verdict("Connected", "Notification", f.kind, FrameLength(f))
    ELSE Verdict("Disconnected", "Error", "-", 0)

(* on_bytes_received. *)
OnBytesReceived(f, avail) ==
    CASE state = "Disconnected" -> Verdict("Disconnected", "Notification", "Disconnected", 0)
      [] state # "Disconnected" /\ ReadFails(f, avail, MaxPacketSize) ->
             Verdict("Disconnected", "Error", "-", 0)
      [] state = "TransportConnected" /\ ReadOk(f, avail, MaxPacketSize) -> OpeningVerdict(f)
      [] state = "Connected" /\ ReadOk(f, avail, MaxPacketSize) -> SessionVerdict(f)
      [] OTHER -> Verdict(state, "None", "-", 0)
=============================================================================
