----------------------------- MODULE MCNanoClient -----------------------------
(* Values for model-checking NanoClient. *)
EXTENDS NanoRefinement

Frame(kind, remaining, qos, pkid) ==
    [kind |-> kind, header |-> 2, remaining |-> remaining, qos |-> qos, pkid |-> pkid]

ConnAckFrame == Frame("ConnAck", 1, 0, 0)
RefusalFrame == Frame("Refusal", 1, 0, 0)
PingRespFrame == Frame("PingResp", 0, 0, 0)
SubAckFrame == Frame("SubAck", 1, 0, 1)
Publish0 == Frame("Publish", 1, 0, 0)
Publish1 == Frame("Publish", 1, 1, 7)
Publish2 == Frame("Publish", 2, 2, 8)
PubRelFrame == Frame("PubRel", 1, 0, 8)
CorruptFrame == Frame("Corrupt", 0, 0, 0)
(* Over the limit, and just within it but too long to fit. *)
Oversized == Frame("Publish", MaxPacketSize + 1, 0, 0)
Unfitting == Frame("Publish", MaxPacketSize, 0, 0)

(* A broker that answers as MQTT says, or refuses the connection. *)
MCAnswers(p) ==
    CASE p.kind = "Connect" -> {ConnAckFrame, RefusalFrame}
      [] p.kind = "Subscribe" -> {SubAckFrame}
      [] p.kind = "PingReq" -> {PingRespFrame}
      [] p.kind = "PubRec" -> {PubRelFrame}
      [] OTHER -> {}

(* It accepts every connection. *)
WelcomingAnswers(p) == MCAnswers(p) \cap {ConnAckFrame, PingRespFrame}

Answering == {ConnAckFrame, RefusalFrame, PingRespFrame, SubAckFrame, PubRelFrame}

(* nano_stream: acknowledged publishes of two lengths and a corrupt frame. *)
StreamPushes == {Publish1, Publish2, CorruptFrame}
StreamFrames == Answering \cup StreamPushes

(* nano_acks: an acknowledged publish of each QoS, by a broker that also   *)
(* starts the second half of a QoS 2 exchange.                             *)
AckPushes == {Publish1, Publish2, PubRelFrame}
AckFrames == Answering \cup AckPushes

(* no_keep_alive, refusal: one kind of publish. *)
OnePush == {Publish1}
OneFrames == Answering \cup OnePush

(* nano_loose: few frames, for a user that breaks the stream up. *)
LooseFrames == {ConnAckFrame, PingRespFrame, CorruptFrame}
LoosePush == {CorruptFrame}

(* ping_starved: publishes that are not acknowledged. *)
ZeroPush == {Publish0}
ZeroFrames == Answering \cup ZeroPush

(* oversized: frames the receive buffer cannot take. *)
LongPushes == {Publish0, Oversized, Unfitting}
LongFrames == Answering \cup LongPushes

(* live: such frames, and publishes that are acknowledged. *)
LivePushes == {Publish1, Oversized, Unfitting}
LiveFrames == Answering \cup LivePushes

NoPush == {}
NoPackets == {}
UserAcks == {OutPacket("Publish", 7), OutPacket("PubAck", 8)}
UserPublish == {OutPacket("Publish", 7)}
=============================================================================
