---------------------------- MODULE MCQosSession ----------------------------
(* Values for model-checking QosSession. *)
EXTENDS QosSession

MCFrame(kind, remaining, qos, pkid) ==
    [kind |-> kind, header |-> 2, remaining |-> remaining, qos |-> qos, pkid |-> pkid]

ConnAckFrame == MCFrame("ConnAck", 1, 0, 0)
PingRespFrame == MCFrame("PingResp", 0, 0, 0)
MCPubRelOf(p) == MCFrame("PubRel", 1, 0, p)

(* Three messages, the second with the packet id of the first. *)
MCBacklog == << MCFrame("Publish", 1, 1, 7), MCFrame("Publish", 2, 1, 7), MCFrame("Publish", 1, 2, 8) >>

MCUnsolicited == {MCBacklog[i] : i \in 1..Len(MCBacklog)} \cup {MCPubRelOf(p) : p \in PacketIds}

MCFrames == MCUnsolicited \cup {ConnAckFrame, PingRespFrame}

MCAnswers(p) ==
    CASE p.kind = "Connect" -> {ConnAckFrame}
      [] p.kind = "PingReq" -> {PingRespFrame}
      [] p.kind = "PubRec" -> {MCPubRelOf(p.pkid)}
      [] OTHER -> {}

NoPackets == {}
=============================================================================
