--------------------------- MODULE MqttBytesPackets ----------------------------
(***************************************************************************)
(* The packets of mqttbytes, the codec of rumqttc that packetview was      *)
(* written after and that is still in the tree: Packet::read, write and    *)
(* size of mqttbytes::v4.  It reads from a stream that it takes the frame  *)
(* off before it looks into it, and writes to a buffer that grows.         *)
(* A packet is the record of PacketWriters.                                *)
(***************************************************************************)
EXTENDS PacketReaders, PacketWriters

(* mqttbytes/mod.rs has the functions of packetview/mod.rs with other      *)
(* names for their errors.                                                 *)
V4Error(r) ==
    IF r.error = "NeedMoreData" THEN [r EXCEPT !.error = "InsufficientBytes"]
    ELSE IF r.error = "BadUtf8" THEN Err("TopicNotUtf8")
    ELSE r

V4Check(data, max) == V4Error(Check(data, max))

(* A string or bytes whose length is there and exceeds what is left has    *)
(* crossed a boundary; packetview has no such error.                       *)
V4Field(b, from, kind) ==
    LET f == Field(b, from, kind)
        crossed == kind \in {"bytes", "string"} /\ f.error = "MalformedPacket" /\ Len(b) - from >= 2
    IN  IF crossed THEN Err("BoundaryCrossed") ELSE V4Error(f)

V4Fields(b, from, kinds) ==
    FoldLeft(LAMBDA r, kind :
                IF r.error # "none" THEN r ELSE Extended(r, V4Field(b, r.next, kind)),
             [error |-> "none", next |-> from, values |-> << >>], kinds)

V4QoS(q, packet) == IF q > 2 THEN Err("InvalidQoS") ELSE packet

-----------------------------------------------------------------------------
(* The readers: r is what was read of the fields, as in PacketReaders.     *)

V4PublishOf(byte1, b, r) ==
    LET qos == (byte1 \div 2) % 4
        pkid == IF qos = 0 THEN 0 ELSE r.values[2]
    IN  IF r.error # "none" THEN r
        ELSE IF qos # 0 /\ pkid = 0 THEN Err("PacketIdZero")
        ELSE Packet([type |-> "Publish", dup |-> Bit(byte1, 8), qos |-> qos,
                     retain |-> Bit(byte1, 1), topic |-> r.values[1], pkid |-> pkid,
                     payload |-> SubSeq(b, r.next + 1, Len(b))])

V4Publish(byte1, b, h) ==
    LET qos == (byte1 \div 2) % 4
    IN  V4QoS(qos, V4PublishOf(byte1, b,
                       V4Fields(b, h, IF qos = 0 THEN <<"string">> ELSE <<"string", "u16">>)))

(* PubAck, PubRec, PubRel, PubComp: the identifier, whatever the length. *)
V4AckOf(type, r) ==
    IF r.error # "none" THEN r ELSE Packet([type |-> type, pkid |-> r.values[1]])

V4Ack(type, b, h) == V4AckOf(type, V4Fields(b, h, <<"u16">>))

V4UnsubAck(remaining, b, h) ==
    IF remaining # 2 THEN Err("PayloadSizeIncorrect") ELSE V4Ack("UnsubAck", b, h)

V4ConnAckOf(r) ==
    IF r.error # "none" THEN r
    ELSE IF r.values[2] \notin 0..5 THEN Err("InvalidConnectReturnCode")
    ELSE Packet([type |-> "ConnAck", session_present |-> Bit(r.values[1], 1),
                 code |-> r.values[2]])

V4ConnAck(b, h) == V4ConnAckOf(V4Fields(b, h, <<"u8", "u8">>))

V4SubAckOf(b, r) ==
    IF r.error # "none" THEN r
    ELSE IF r.next = Len(b) THEN Err("MalformedPacket")
    ELSE IF \E i \in (r.next + 1)..Len(b) : b[i] \notin {0, 1, 2, 128}
    THEN Err("InvalidSubscribeReasonCode")
    ELSE Packet([type |-> "SubAck", pkid |-> r.values[1],
                 codes |-> SubSeq(b, r.next + 1, Len(b))])

V4SubAck(b, h) == V4SubAckOf(b, V4Fields(b, h, <<"u16">>))

(* Of the options only the two bits of the QoS are looked at.  g are the   *)
(* groups that can be read, the next of which ends the reading.            *)
V4SubscribeOf(b, r, g) ==
    IF r.error # "none" THEN r
    ELSE IF g.items = << >> /\ r.next = Len(b) THEN Err("EmptySubscription")
    ELSE IF \E i \in DOMAIN g.items : g.items[i][2] % 4 = 3 THEN Err("InvalidQoS")
    ELSE IF g.next < Len(b) THEN V4Fields(b, g.next, <<"string", "u8">>)
    ELSE Packet([type |-> "Subscribe", pkid |-> r.values[1],
                 filters |-> [i \in DOMAIN g.items |->
                                [path |-> g.items[i][1], qos |-> g.items[i][2] % 4]]])

V4Subscribe(b, h) ==
    V4SubscribeOf(b, V4Fields(b, h, <<"u16">>), Groups(b, h + 2, <<"string", "u8">>))

V4UnsubscribeOf(b, r, g) ==
    IF r.error # "none" THEN r
    ELSE IF g.next < Len(b) THEN V4Fields(b, g.next, <<"string">>)
    ELSE Packet([type |-> "Unsubscribe", pkid |-> r.values[1],
                 topics |-> [i \in DOMAIN g.items |-> g.items[i][1]]])

V4Unsubscribe(b, h) ==
    V4UnsubscribeOf(b, V4Fields(b, h, <<"u16">>), Groups(b, h + 2, <<"string">>))

-----------------------------------------------------------------------------
(* Connect::read: the protocol may be version 5 as well, and a password is *)
(* a string.                                                               *)
V4LoginFields(flags) ==
    Option(Bit(flags, 128), "string") \o Option(Bit(flags, 64), "string")

V4Login(flags, v) ==
    LET username == IF Bit(flags, 128) THEN Head(v) ELSE << >>
        password == IF Bit(flags, 64) THEN Last(v) ELSE << >>
    IN  Option(username # << >> \/ password # << >>,
               [username |-> username, password |-> password])

V4LastWill(flags, v) ==
    Option(Bit(flags, 4),
           [topic |-> v[1], message |-> v[2], qos |-> (flags \div 8) % 4,
            retain |-> Bit(flags, 32)])

V4WillFields(flags) == IF Bit(flags, 4) THEN <<"string", "bytes">> ELSE << >>

V4ConnectOf(level, head, will, login) ==
    IF login.error # "none" THEN login
    ELSE LET flags == head.values[1]
         IN  Packet([type |-> "Connect", protocol |-> level, keep_alive |-> head.values[2],
                     client_id |-> head.values[3], clean_session |-> Bit(flags, 2),
                     last_will |-> V4LastWill(flags, will.values),
                     login |-> V4Login(flags, login.values)])

V4AfterWill(level, b, head, will) ==
    LET flags == head.values[1]
    IN  IF will.error # "none" THEN will
        ELSE V4QoS(IF Bit(flags, 4) THEN (flags \div 8) % 4 ELSE 0,
                   V4ConnectOf(level, head, will, V4Fields(b, will.next, V4LoginFields(flags))))

V4AfterHead(level, b, head) ==
    IF head.error # "none" THEN head
    ELSE LET flags == head.values[1]
         IN  IF ~Bit(flags, 4) /\ (flags \div 8) % 8 # 0 THEN Err("IncorrectPacketFormat")
             ELSE V4AfterWill(level, b, head, V4Fields(b, head.next, V4WillFields(flags)))

V4AfterProtocol(b, proto) ==
    IF proto.error # "none" THEN proto
    ELSE IF proto.values[1] # MQTT THEN Err("InvalidProtocol")
    ELSE IF proto.values[2] \notin {4, 5} THEN Err("InvalidProtocolLevel")
    ELSE V4AfterHead(proto.values[2], b, V4Fields(b, proto.next, <<"u8", "u16", "string">>))

V4Connect(b, h) == V4AfterProtocol(b, V4Fields(b, h, <<"string", "u8">>))

-----------------------------------------------------------------------------
(* Packet::read, once the frame b is off the stream. *)
V4ReadFrame(byte1, remaining, b, h) ==
    LET type == PacketTypes[byte1 \div 16]
    IN  IF byte1 \div 16 \notin DOMAIN PacketTypes THEN Err("InvalidPacketType")
        ELSE IF type \in {"PingReq", "PingResp", "Disconnect"} THEN Packet([type |-> type])
        ELSE IF remaining = 0 THEN Err("PayloadRequired")
        ELSE CASE type = "Connect"     -> V4Connect(b, h)
               [] type = "ConnAck"     -> V4ConnAck(b, h)
               [] type = "Publish"     -> V4Publish(byte1, b, h)
               [] type = "Subscribe"   -> V4Subscribe(b, h)
               [] type = "SubAck"      -> V4SubAck(b, h)
               [] type = "Unsubscribe" -> V4Unsubscribe(b, h)
               [] type = "UnsubAck"    -> V4UnsubAck(remaining, b, h)
               [] OTHER                -> V4Ack(type, b, h)

(* `taken` is what is gone from the stream, also if the packet is refused. *)
V4Framed(data, fixed) ==
    IF fixed.error # "none" THEN [result |-> fixed, taken |-> 0]
    ELSE LET taken == fixed.header + fixed.remaining
         IN  [result |-> V4ReadFrame(fixed.byte1, fixed.remaining,
                                     SubSeq(data, 1, taken), fixed.header),
              taken |-> taken]

V4Read(data, max) == V4Framed(data, V4Check(data, max))

-----------------------------------------------------------------------------
(* The writers add to a buffer that grows; what was added before an error  *)
(* stays in it.                                                            *)
V4Added(written, put) ==
    IF written.error # "none" THEN written
    ELSE [error |-> put.error, bytes |-> written.bytes \o put.bytes]

V4Puts(puts) == FoldLeft(V4Added, Put(<< >>), puts)

V4Flag(condition, weight) == IF condition THEN weight ELSE 0

(* len and size, with len_len. *)
V4StringLen(s) == 2 + Len(s)

V4LoginLen(l) ==
    V4Flag(l.username # << >>, V4StringLen(l.username))
    + V4Flag(l.password # << >>, V4StringLen(l.password))

V4WillLen(w) == V4StringLen(w.topic) + V4StringLen(w.message)

V4ConnectLen(p) ==
    2 + 4 + 1 + 1 + 2 + V4StringLen(p.client_id)
    + (IF p.last_will = << >> THEN 0 ELSE V4WillLen(p.last_will[1]))
    + (IF p.login = << >> THEN 0 ELSE V4LoginLen(p.login[1]))

V4PublishLen(p) ==
    V4StringLen(p.topic) + Len(p.payload) + V4Flag(p.qos # 0 /\ p.pkid # 0, 2)

V4SubscribeLen(p) == 2 + FoldLeft(LAMBDA n, f : n + 2 + Len(f.path) + 1, 0, p.filters)

V4UnsubscribeLen(p) == 2 + FoldLeft(LAMBDA n, t : n + Len(t) + 2, 0, p.topics)

V4Len(p) ==
    CASE p.type = "Connect"     -> V4ConnectLen(p)
      [] p.type = "Publish"     -> V4PublishLen(p)
      [] p.type = "Subscribe"   -> V4SubscribeLen(p)
      [] p.type = "SubAck"      -> 2 + Len(p.codes)
      [] p.type = "Unsubscribe" -> V4UnsubscribeLen(p)
      [] p.type \in {"PingReq", "PingResp", "Disconnect"} -> 0
      [] OTHER                  -> 2

V4LenLen(n) == CHOOSE k \in 1..4 : (k = 4 \/ n < Weight[k + 1]) /\ (k = 1 \/ n >= Weight[k])

V4Size(p) == 1 + V4LenLen(V4Len(p)) + V4Len(p)

-----------------------------------------------------------------------------
(* write of each packet type, as the sequence of its puts. *)
V4PutPkid(p) ==
    IF p.qos = 0 THEN Put(<< >>)
    ELSE IF p.pkid = 0 THEN Fail("PacketIdZero") ELSE Put(U16(p.pkid))

V4WritePublish(p) ==
    <<Put(<<48 + V4Flag(p.retain, 1) + 2 * p.qos + V4Flag(p.dup, 8)>>), PutLength(V4PublishLen(p)),
      Put(MqttBytes(p.topic)), V4PutPkid(p), Put(p.payload)>>

(* The flags of a will and of a login, put in place once both are written. *)
V4WillFlags(w) == 4 + 8 * w.qos + V4Flag(w.retain, 32)

V4LoginFlags(l) == V4Flag(l.username # << >>, 128) + V4Flag(l.password # << >>, 64)

V4ConnectFlags(p) ==
    V4Flag(p.clean_session, 2)
    + (IF p.last_will = << >> THEN 0 ELSE V4WillFlags(p.last_will[1]))
    + (IF p.login = << >> THEN 0 ELSE V4LoginFlags(p.login[1]))

V4WriteWill(w) == <<Put(MqttBytes(w.topic)), Put(MqttBytes(w.message))>>

V4WriteLogin(l) ==
    Option(l.username # << >>, Put(MqttBytes(l.username)))
    \o Option(l.password # << >>, Put(MqttBytes(l.password)))

V4WriteConnect(p) ==
    <<Put(<<16>>), PutLength(V4ConnectLen(p)), Put(MqttBytes(MQTT)), Put(<<p.protocol>>),
      Put(<<V4ConnectFlags(p)>>), Put(U16(p.keep_alive)), Put(MqttBytes(p.client_id))>>
    \o (IF p.last_will = << >> THEN << >> ELSE V4WriteWill(p.last_will[1]))
    \o (IF p.login = << >> THEN << >> ELSE V4WriteLogin(p.login[1]))

V4WriteConnAck(p) ==
    <<Put(<<32>>), PutLength(2), Put(<<V4Flag(p.session_present, 1), p.code>>)>>

V4WriteSubscribe(p) ==
    <<Put(<<130>>), PutLength(V4SubscribeLen(p)), Put(U16(p.pkid))>>
    \o [i \in DOMAIN p.filters |-> Put(MqttBytes(p.filters[i].path) \o <<p.filters[i].qos>>)]

V4WriteSubAck(p) ==
    <<Put(<<144>>), PutLength(2 + Len(p.codes)), Put(U16(p.pkid)), Put(p.codes)>>

V4WriteUnsubscribe(p) ==
    <<Put(<<162>>), PutLength(V4UnsubscribeLen(p)), Put(U16(p.pkid))>>
    \o [i \in DOMAIN p.topics |-> Put(MqttBytes(p.topics[i]))]

V4WriteUnsubAck(p) == <<Put(<<176, 2>>), Put(U16(p.pkid))>>

V4AckByte1 == [PubAck |-> 64, PubRec |-> 80, PubRel |-> 98, PubComp |-> 112]

V4WriteAck(p) == <<Put(<<V4AckByte1[p.type]>>), PutLength(2), Put(U16(p.pkid))>>

V4Empty == [PingReq |-> <<192, 0>>, PingResp |-> <<208, 0>>, Disconnect |-> <<224, 0>>]

V4Packet(p) ==
    CASE p.type = "Connect"     -> V4WriteConnect(p)
      [] p.type = "ConnAck"     -> V4WriteConnAck(p)
      [] p.type = "Publish"     -> V4WritePublish(p)
      [] p.type = "Subscribe"   -> V4WriteSubscribe(p)
      [] p.type = "SubAck"      -> V4WriteSubAck(p)
      [] p.type = "Unsubscribe" -> V4WriteUnsubscribe(p)
      [] p.type = "UnsubAck"    -> V4WriteUnsubAck(p)
      [] p.type \in DOMAIN V4AckByte1 -> V4WriteAck(p)
      [] p.type \in DOMAIN V4Empty    -> <<Put(V4Empty[p.type])>>

(* Packet::write. *)
V4Write(p, max) ==
    IF V4Size(p) > max THEN Fail("OutgoingPacketTooLarge") ELSE V4Puts(V4Packet(p))
=============================================================================
