----------------------------- MODULE PacketReaders -----------------------------
(***************************************************************************)
(* How packetview reads a packet: Packet::read frames it by its fixed      *)
(* header, Packet::read_exact hands the bytes of the frame to the reader   *)
(* of its type.  Packets are the records of PacketWriters.  A reader gives *)
(* [error |-> "none", packet |-> ...] or the error it returns.             *)
(***************************************************************************)
EXTENDS WireFormat, SequencesExt

Bit(n, weight) == (n \div weight) % 2 = 1

Packet(p) == [error |-> "none", packet |-> p]

Field(b, from, kind) ==
    CASE kind = "u8"     -> ReadU8(b, from)
      [] kind = "u16"    -> ReadU16(b, from)
      [] kind = "bytes"  -> ReadBytes(b, from)
      [] kind = "string" -> ReadString(b, from)
      [] kind = "qos"    -> ReadQoS(b, from)

(* The fields of b after its first `from` bytes, up to the first error. *)
Extended(r, f) ==
    IF f.error # "none" THEN f
    ELSE [r EXCEPT !.next = f.next, !.values = Append(@, f.value)]

Fields(b, from, kinds) ==
    FoldLeft(LAMBDA r, kind :
                IF r.error # "none" THEN r ELSE Extended(r, Field(b, r.next, kind)),
             [error |-> "none", next |-> from, values |-> << >>], kinds)

(* Groups of fields, one after the other, up to the first that cannot be   *)
(* read: the iterators over the bytes of a Subscribe or an Unsubscribe.    *)
Grouped(group, i, g) ==
    IF g.error # "none" THEN [error |-> g.error, next |-> i, items |-> << >>]
    ELSE [group[g.next] EXCEPT !.items = <<g.values>> \o @]

Groups(b, from, kinds) ==
    LET group[i \in from..Len(b)] == Grouped(group, i, Fields(b, i, kinds))
    IN  group[from]

-----------------------------------------------------------------------------
(* The readers take the first byte and the bytes b of a frame whose fixed  *)
(* header is h bytes long; what they make of the fields r has an operator  *)
(* of its own.                                                             *)

(* A fault: the identifier of a publish may be zero. *)
PublishOfAnyId(byte1, qos, b, r) ==
    IF r.error # "none" THEN r
    ELSE Packet([type |-> "Publish", dup |-> Bit(byte1, 8), qos |-> qos,
                 retain |-> Bit(byte1, 1), topic |-> r.values[1],
                 pkid |-> IF qos = 0 THEN 0 ELSE r.values[2],
                 payload |-> SubSeq(b, r.next + 1, Len(b))])

PublishOf(byte1, qos, b, r) ==
    IF r.error # "none" THEN r
    ELSE IF qos # 0 /\ r.values[2] = 0 THEN Err("PacketIdZero")
    ELSE Packet([type |-> "Publish", dup |-> Bit(byte1, 8), qos |-> qos,
                 retain |-> Bit(byte1, 1), topic |-> r.values[1],
                 pkid |-> IF qos = 0 THEN 0 ELSE r.values[2],
                 payload |-> SubSeq(b, r.next + 1, Len(b))])

ReadPublish(byte1, b, h) ==
    LET qos == (byte1 \div 2) % 4
    IN  IF qos > 2 THEN Err("InvalidQoS")
        ELSE PublishOf(byte1, qos, b,
                       Fields(b, h, IF qos = 0 THEN <<"string">> ELSE <<"string", "u16">>))

(* PubAck, PubRec, PubRel and PubComp; what follows the id is ignored. *)
AckOf(type, r) ==
    IF r.error # "none" THEN r ELSE Packet([type |-> type, pkid |-> r.values[1]])

ReadAck(type, b, h) == AckOf(type, Fields(b, h, <<"u16">>))

ReadUnsubAck(remaining, b, h) ==
    IF remaining # 2 THEN Err("MalformedPacket") ELSE ReadAck("UnsubAck", b, h)

ConnAckOf(r) ==
    IF r.error # "none" THEN r
    ELSE IF r.values[2] > 5 THEN Err("InvalidConnectReturnCode")
    ELSE Packet([type |-> "ConnAck", session_present |-> Bit(r.values[1], 1),
                 code |-> r.values[2]])

ReadConnAck(b, h) == ConnAckOf(Fields(b, h, <<"u8", "u8">>))

ReasonCodes == {0, 1, 2, 128}

SubAckOf(r, codes) ==
    IF r.error # "none" THEN r
    ELSE IF codes = << >> THEN Err("MalformedPacket")
    ELSE IF ~(ToSet(codes) \subseteq ReasonCodes) THEN Err("InvalidSubscribeReasonCode")
    ELSE Packet([type |-> "SubAck", pkid |-> r.values[1], codes |-> codes])

ReadSubAck(b, h) == SubAckOf(Fields(b, h, <<"u16">>), SubSeq(b, h + 3, Len(b)))

(* g is what the iterator makes of the bytes behind the identifier. *)
SubscribeOf(b, r, g) ==
    IF r.error # "none" THEN r
    ELSE IF g.items = << >> THEN Err("EmptySubscription")
    ELSE IF g.next < Len(b) THEN Err("MalformedPacket")
    ELSE Packet([type |-> "Subscribe", pkid |-> r.values[1],
                 filters |-> [i \in DOMAIN g.items |->
                                [path |-> g.items[i][1], qos |-> g.items[i][2]]]])

ReadSubscribe(b, h) ==
    SubscribeOf(b, Fields(b, h, <<"u16">>), Groups(b, h + 2, <<"string", "qos">>))

UnsubscribeOf(b, r, g) ==
    IF r.error # "none" THEN r
    ELSE IF g.next < Len(b) THEN Err(g.error)
    ELSE Packet([type |-> "Unsubscribe", pkid |-> r.values[1],
                 topics |-> [i \in DOMAIN g.items |-> g.items[i][1]]])

ReadUnsubscribe(b, h) ==
    UnsubscribeOf(b, Fields(b, h, <<"u16">>), Groups(b, h + 2, <<"string">>))

-----------------------------------------------------------------------------
(* LastWill::read and Login::read, on the flags and the fields they chose. *)

WillFields(flags) == IF Bit(flags, 4) THEN <<"string", "bytes">> ELSE << >>

LoginFields(flags) ==
    (IF Bit(flags, 128) THEN <<"string">> ELSE << >>)
    \o (IF Bit(flags, 64) THEN <<"bytes">> ELSE << >>)

WillOf(flags, v) ==
    IF v = << >> THEN << >>
    ELSE <<[topic |-> v[1], message |-> v[2], qos |-> (flags \div 8) % 4,
            retain |-> Bit(flags, 32)]>>

LoginOf(flags, v) ==
    LET username == IF Bit(flags, 128) THEN v[1] ELSE << >>
        password == IF Bit(flags, 64) THEN v[Len(v)] ELSE << >>
    IN  IF username = << >> /\ password = << >> THEN << >>
        ELSE <<[username |-> username, password |-> password]>>

ConnectOf(flags, rest, will, login) ==
    IF login.error # "none" THEN login
    ELSE Packet([type |-> "Connect", protocol |-> 4, keep_alive |-> rest.values[2],
                 client_id |-> rest.values[3], clean_session |-> Bit(flags, 2),
                 last_will |-> WillOf(flags, will.values),
                 login |-> LoginOf(flags, login.values)])

ReadLogin(b, flags, rest, will) ==
    IF will.error # "none" THEN will
    ELSE IF Bit(flags, 4) /\ (flags \div 8) % 4 > 2 THEN Err("InvalidQoS")
    ELSE ConnectOf(flags, rest, will, Fields(b, will.next, LoginFields(flags)))

ReadWill(b, rest) ==
    IF rest.error # "none" THEN rest
    ELSE LET flags == rest.values[1]
         IN  IF ~Bit(flags, 4) /\ (flags \div 8) % 8 # 0 THEN Err("MalformedPacket")
             ELSE ReadLogin(b, flags, rest, Fields(b, rest.next, WillFields(flags)))

ReadProtocol(b, proto) ==
    IF proto.error # "none" THEN proto
    ELSE IF proto.values[1] # <<77, 81, 84, 84>> THEN Err("InvalidProtocol")
    ELSE IF proto.values[2] # 4 THEN Err("InvalidProtocolLevel")
    ELSE ReadWill(b, Fields(b, proto.next, <<"u8", "u16", "string">>))

ReadConnect(b, h) == ReadProtocol(b, Fields(b, h, <<"string", "u8">>))

-----------------------------------------------------------------------------
PacketTypes == <<"Connect", "ConnAck", "Publish", "PubAck", "PubRec", "PubRel", "PubComp",
                 "Subscribe", "SubAck", "Unsubscribe", "UnsubAck", "PingReq", "PingResp",
                 "Disconnect">>

Bodiless == {"PingReq", "PingResp", "Disconnect"}

(* Packet::read_exact. *)
ReadExact(byte1, remaining, b, h) ==
    LET type == PacketTypes[byte1 \div 16]
    IN  IF byte1 \div 16 \notin DOMAIN PacketTypes THEN Err("InvalidPacketType")
        ELSE IF type \in Bodiless THEN Packet([type |-> type])
        ELSE IF remaining = 0 THEN Err("MalformedPacket")
        ELSE CASE type = "Connect"     -> ReadConnect(b, h)
               [] type = "ConnAck"     -> ReadConnAck(b, h)
               [] type = "Publish"     -> ReadPublish(byte1, b, h)
               [] type = "Subscribe"   -> ReadSubscribe(b, h)
               [] type = "SubAck"      -> ReadSubAck(b, h)
               [] type = "Unsubscribe" -> ReadUnsubscribe(b, h)
               [] type = "UnsubAck"    -> ReadUnsubAck(remaining, b, h)
               [] OTHER                -> ReadAck(type, b, h)

(* Packet::read: the packet and the number of bytes taken. *)
Taking(r, taken) ==
    IF r.error # "none" THEN r
    ELSE [error |-> "none", packet |-> r.packet, taken |-> taken]

ReadFrame(data, fixed) ==
    IF fixed.error # "none" THEN fixed
    ELSE LET taken == fixed.header + fixed.remaining
         IN  Taking(ReadExact(fixed.byte1, fixed.remaining, SubSeq(data, 1, taken), fixed.header),
                    taken)

Read(data, max) == ReadFrame(data, Check(data, max))
=============================================================================
