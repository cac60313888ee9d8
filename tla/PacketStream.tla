----------------------------- MODULE PacketStream ------------------------------
(***************************************************************************)
(* A stream of packets between one side that writes them and one that      *)
(* reads them with Packet::read as their bytes arrive, as a client and a   *)
(* broker do with each other.  The peer need not be umqtt: it may also     *)
(* send frames no writer of packetview produces.                           *)
(***************************************************************************)
EXTENDS MqttBytesPackets

CONSTANTS Packets,     \* the packets that may be written
          Followers,   \* bound: those that may be written behind another frame
          Foreign,     \* other byte sequences a peer may send, each one frame
          Capacities,  \* of the buffers packets are written into
          MaxSize,     \* max_size of Packet::read
          MaxSent      \* bound: the number of frames sent

(* bytes are one frame: as long as its header says, or with a length that  *)
(* does not end.                                                           *)
OneFrame(bytes) ==
    LET h == ParseFixedHeader(bytes)
    IN  \/ h.error = "none" /\ Len(bytes) = h.header + h.remaining
        \/ h.error = "MalformedRemainingLength" /\ Len(bytes) = 5

ASSUME StreamAssumption ==
    /\ Packets \subseteq PacketSet
    /\ Followers \subseteq Packets
    /\ Foreign \subseteq {bytes \in Seq(Byte) : OneFrame(bytes)}
    /\ Capacities \subseteq Nat
    /\ MaxSize \in Nat
    /\ MaxSent \in Nat

VARIABLES sent,    \* what was sent: the bytes, and the packet if it was written
          net,     \* the bytes on their way
          rx,      \* the bytes that arrived and were not taken
          got,     \* the packets read
          asked,   \* NeedMoreData of the last read, 0 once more bytes arrived
          failed   \* the error that ended the reading

vars == <<sent, net, rx, got, asked, failed>>

Init ==
    /\ sent = << >>
    /\ net = << >>
    /\ rx = << >>
    /\ got = << >>
    /\ asked = 0
    /\ failed = "none"

(* Nothing is sent to a reader that gave up: it closes the connection. *)
Transfer(bytes, packet) ==
    /\ failed = "none"
    /\ Len(sent) < MaxSent
    /\ sent' = Append(sent, [frame |-> bytes, packet |-> packet])
    /\ net' = net \o bytes
    /\ UNCHANGED <<rx, got, asked, failed>>

(* What the writers make of the packets; a writer that fails sends nothing. *)
Written ==
    UNION {{[bytes |-> w.bytes, packet |-> p] : w \in {v \in Writes(p, cap) : v.error = "none"}} :
             p \in Packets, cap \in Capacities}

(* A packet is written and its bytes are sent. *)
Send(w) ==
    /\ sent = << >> \/ w.packet \in Followers
    /\ Transfer(w.bytes, <<w.packet>>)

(* The peer sends something else.  Bound: only its first frame is foreign. *)
SendForeign(bytes) ==
    /\ sent = << >>
    /\ Transfer(bytes, << >>)

(* A byte arrives; several that arrive at once are as many steps. *)
Arrive ==
    /\ failed = "none"
    /\ net # << >>
    /\ rx' = Append(rx, Head(net))
    /\ net' = Tail(net)
    /\ asked' = 0
    /\ UNCHANGED <<sent, got, failed>>

(* Packet::read on what has arrived. *)
ReadPacket ==
    /\ failed = "none"
    /\ asked = 0
    /\ rx # << >>
    /\ \E r \in {Read(rx, MaxSize)} :
       \/ /\ r.error = "none"
          /\ got' = Append(got, r.packet)
          /\ rx' = SubSeq(rx, r.taken + 1, Len(rx))
          /\ UNCHANGED <<asked, failed>>
       \/ /\ r.error = "NeedMoreData"
          /\ asked' = r.missing
          /\ UNCHANGED <<got, rx, failed>>
       \/ /\ r.error \notin {"none", "NeedMoreData"}
          /\ failed' = r.error
          /\ UNCHANGED <<got, rx, asked>>
    /\ UNCHANGED <<sent, net>>

Next ==
    \/ \E w \in Written : Send(w)
    \/ \E bytes \in Foreign : SendForeign(bytes)
    \/ Arrive
    \/ ReadPacket

Spec == Init /\ [][Next]_vars

-----------------------------------------------------------------------------
(* What is on the wire and in the buffer are bytes, wherever they come from. *)
TypeOK ==
    /\ \A i \in DOMAIN sent : sent[i].frame \in Seq(Byte)
    /\ net \in Seq(Byte)
    /\ rx \in Seq(Byte)
    /\ \A i \in DOMAIN got : got[i].type \in ToSet(PacketTypes)
    /\ asked \in Nat

(* Nothing has arrived that was not read.  sent and got do not change      *)
(* while bytes arrive, so what is said of them alone is looked at here.    *)
Idle == rx = << >>

(* The frame the reader is at. *)
AtFrame == Len(got) < Len(sent)

Current == sent[Len(got) + 1]

(***************************************************************************)
(* What a written packet looks like when it is read: no identifier where   *)
(* there is none on the wire, no login if both its fields are empty.       *)
(***************************************************************************)
Normal(p) ==
    CASE p.type = "Publish" -> IF p.qos = 0 THEN [p EXCEPT !.pkid = 0] ELSE p
      [] p.type = "Connect" -> IF p.login # << >> /\ LoginLen(p.login[1]) = 0
                               THEN [p EXCEPT !.login = << >>] ELSE p
      [] OTHER -> p

(* Packets that can be written and are refused by the reader. *)
Unreadable(p) ==
    \/ p.type = "Subscribe" /\ p.filters = << >>
    \/ p.type = "SubAck" /\ p.codes = << >>
    \/ p.type = "Connect" /\ p.protocol = 5

Oversized(frame) ==
    LET h == ParseFixedHeader(frame) IN h.error = "none" /\ h.remaining > MaxSize

(***************************************************************************)
(* Every packet that is written is read back with all its fields, from any *)
(* split of the stream and whatever follows it, unless it exceeds the size *)
(* limit or the reader refuses it (write, len and read_exact of each type).*)
(***************************************************************************)
ReadsBack ==
    /\ Len(got) <= Len(sent)
    /\ \A i \in DOMAIN got : \A j \in DOMAIN sent[i].packet :
          got[i] = Normal(sent[i].packet[j])
    /\ failed # "none" =>
          /\ AtFrame
          /\ \A j \in DOMAIN Current.packet :
                Oversized(Current.frame) \/ Unreadable(Current.packet[j])

(***************************************************************************)
(* NeedMoreData(n) is only said of a frame that is incomplete, and n never *)
(* reaches beyond its end: a caller that waits for n bytes does not wait   *)
(* for a packet that may never come (check, length).                       *)
(***************************************************************************)
AsksWithinFrame ==
    asked > 0 => AtFrame /\ Len(rx) + asked <= Len(Current.frame)

(***************************************************************************)
(* Whatever bytes a packet was read from, it can be written, and what is   *)
(* written is read as the same packet: no reader accepts a value that its  *)
(* writer cannot express (read_exact and write of each type).              *)
(***************************************************************************)
RereadsAsRead ==
    Idle => \A i \in DOMAIN got : \A w \in Writes(got[i], MaxRemaining) :
        /\ w.error = "none"
        /\ Read(w.bytes, MaxRemaining) =
              [error |-> "none", packet |-> got[i], taken |-> Len(w.bytes)]

(***************************************************************************)
(* The frames of module Framing, with which the client is modelled, are    *)
(* what Packet::read makes of the bytes: how many it takes, when it waits  *)
(* and when it fails depend on the frame at the front, the number of bytes *)
(* that arrived and the limit in the way Framing says (check, Packet::read)*)
(***************************************************************************)
F == INSTANCE Framing WITH Frames <- {}, PacketIds <- {0}

FrameOf(bytes, h) ==
    IF h.error # "none" THEN [kind |-> "EndlessLength", header |-> 5, remaining |-> 0]
    ELSE [kind |-> IF ReadExact(h.byte1, h.remaining, bytes, h.header).error = "none"
                   THEN "Foreign" ELSE "Corrupt",
          header |-> h.header, remaining |-> h.remaining]

ReadsAs(f, r) ==
    /\ r.error = "none" <=> F!ReadOk(f, Len(rx), MaxSize)
    /\ r.error = "none" => r.taken = F!FrameLength(f)
    /\ r.error \notin {"none", "NeedMoreData"} <=> F!ReadFails(f, Len(rx), MaxSize)

FramingAgrees ==
    (AtFrame /\ rx # << >>) =>
        ReadsAs(FrameOf(Current.frame, ParseFixedHeader(Current.frame)), Read(rx, MaxSize))

-----------------------------------------------------------------------------
(* Where mqttbytes and packetview part ways, by what the one made of a     *)
(* frame and the other did not: a password that is not UTF-8, the level of *)
(* MQTT 5, bits of a subscription's options beside the QoS.                *)
BinaryPassword(p) == p.type = "Connect" /\ \E i \in DOMAIN p.login : ~IsUtf8(p.login[i].password)

OtherOptions(frame) ==
    LET g == Groups(frame, ParseFixedHeader(frame).header + 2, <<"string", "u8">>)
    IN  \E i \in DOMAIN g.items : g.items[i][2] > 2

Newer(p, frame) ==
    \/ p.type = "Connect" /\ p.protocol = 5
    \/ p.type = "Subscribe" /\ OtherOptions(frame)

SameRead(data, new, old) ==
    CASE new.error = "NeedMoreData" -> old = [result |-> V4Error(new), taken |-> 0]
      [] new.error = "none" -> \/ /\ old.result = [error |-> "none", packet |-> new.packet]
                                  /\ old.taken = new.taken
                               \/ BinaryPassword(new.packet) /\ old.result.error = "TopicNotUtf8"
      [] OTHER -> /\ old.result.error # "InsufficientBytes"
                  /\ old.result.error = "none" =>
                        Newer(old.result.packet, SubSeq(data, 1, old.taken))

(***************************************************************************)
(* packetview reads what mqttbytes read: they wait for the same bytes, and *)
(* refuse the same frames and make the same packets of the others, but for *)
(* the differences named above (Packet::read of either).                   *)
(***************************************************************************)
ReadsAsMqttBytes ==
    (rx # << >> /\ asked = 0) => SameRead(rx, Read(rx, MaxSize), V4Read(rx, MaxSize))

(***************************************************************************)
(* packetview writes what mqttbytes wrote, byte for byte and with the size *)
(* it announced, into whatever buffer and by whichever way the packet was  *)
(* written (write, len and size of each type).                             *)
(***************************************************************************)
WritesAsMqttBytes ==
    Idle => \A i \in DOMAIN sent : \A j \in DOMAIN sent[i].packet :
        /\ V4Write(sent[i].packet[j], MaxRemaining) = Put(sent[i].frame)
        /\ V4Size(sent[i].packet[j]) = Len(sent[i].frame)

(* The topics and filters an application has been given. *)
TopicsRead == {got[i].topic : i \in {n \in DOMAIN got : got[n].type = "Publish"}}

FiltersRead ==
    UNION {{got[i].filters[j].path : j \in DOMAIN got[i].filters} :
             i \in {n \in DOMAIN got : got[n].type = "Subscribe"}}

(* Topics that start with "$" match nothing (topic.rs, its tests). *)
Ordinary(topic) == ValidTopic(topic) /\ (topic # << >> => topic[1] # Dollar)

(***************************************************************************)
(* The filters read that are taken to be valid are those MQTT allows, they *)
(* match the topics read that MQTT says they match, and a filter that      *)
(* matches another covers every topic the other does (valid_filter,        *)
(* matches).                                                               *)
(***************************************************************************)
FiltersMatchTopics ==
    Idle => \A f \in FiltersRead :
        /\ ValidFilter(f) <=> WellFormed(f)
        /\ ValidFilter(f) =>
             \A t \in TopicsRead :
                 /\ Ordinary(t) => (Matches(t, f) <=> Covers(f, t))
                 /\ \A g \in FiltersRead :
                       ValidFilter(g) /\ Ordinary(t) /\ Matches(g, f) /\ Covers(g, t) => Covers(f, t)
=============================================================================
