----------------------------- MODULE PacketWriters -----------------------------
(***************************************************************************)
(* How packetview writes the packets of MQTT 3.1.1 into a buffer of a      *)
(* given capacity.  A packet is a record with the fields of the struct it  *)
(* stands for; a string is the sequence of its bytes; an Option is a       *)
(* sequence of at most one value; a protocol is its level.  A writer is a sequence of puts, each of *)
(* which may fail; the first failure ends it, as `?` does.                 *)
(***************************************************************************)
EXTENDS WireFormat, Topics

Flag(condition, weight) == IF condition THEN weight ELSE 0

Option(condition, value) == IF condition THEN <<value>> ELSE << >>

-----------------------------------------------------------------------------
(* The packets, field by field: a str is UTF-8, a pkid is a u16.           *)
Text == {s \in Seq(Byte) : IsUtf8(s)}

(* u16::MAX, the longest string a length prefix can announce.             *)
MaxWord == 65535

Word16 == 0..MaxWord

Optional(S) == {o \in Seq(S) : Len(o) <= 1}

WillSet == [topic : Text, message : Seq(Byte), qos : 0..2, retain : BOOLEAN]

LoginSet == [username : Text, password : Seq(Byte)]

AckTypes == {"PubAck", "PubRec", "PubRel", "PubComp", "UnsubAck"}

PacketSet ==
    [type : {"Connect"}, protocol : {4, 5}, keep_alive : Word16, client_id : Text,
     clean_session : BOOLEAN, last_will : Optional(WillSet), login : Optional(LoginSet)]
    \cup [type : {"ConnAck"}, session_present : BOOLEAN, code : 0..5]
    \cup [type : {"Publish"}, dup : BOOLEAN, qos : 0..2, retain : BOOLEAN, topic : Text,
          pkid : Word16, payload : Seq(Byte)]
    \cup [type : {"Subscribe"}, pkid : Word16, filters : Seq([path : Text, qos : 0..2])]
    \cup [type : {"SubAck"}, pkid : Word16, codes : Seq({0, 1, 2, 128})]
    \cup [type : {"Unsubscribe"}, pkid : Word16, topics : Seq(Text)]
    \cup [type : AckTypes, pkid : Word16]
    \cup [type : {"PingReq", "PingResp", "Disconnect"}]

-----------------------------------------------------------------------------
Put(bytes) == [error |-> "none", bytes |-> bytes]

Fail(e) == [error |-> e, bytes |-> << >>]

(* WriteCursor and BorrowedBuf: a put that does not fit writes nothing. *)
PutWithin(cap, written, put) ==
    IF written.error # "none" THEN written
    ELSE IF put.error # "none" THEN put
    ELSE IF Len(written.bytes) + Len(put.bytes) > cap THEN Fail("NotEnoughCapacity")
    ELSE Put(written.bytes \o put.bytes)

Write(cap, puts) ==
    FoldLeft(LAMBDA written, put : PutWithin(cap, written, put), Put(<< >>), puts)

(* write_remaining_length. *)
PutLength(n) == IF n > MaxRemaining THEN Fail("PayloadTooLong") ELSE Put(EncodeLength(n))

(* The identifier of a publish, where there is one. *)
PutPkid(p) ==
    IF p.qos = 0 THEN Put(<< >>)
    ELSE IF p.pkid = 0 THEN Fail("MalformedPacket") ELSE Put(U16(p.pkid))

PublishByte1(p) == 48 + Flag(p.retain, 1) + 2 * p.qos + Flag(p.dup, 8)

(* A fault: the length does not count the identifier. *)
PublishLenShort(p) == 2 + Len(p.topic) + Len(p.payload)

PublishLen(p) ==
    2 + Len(p.topic) + Len(p.payload) + (IF p.qos # 0 /\ p.pkid # 0 THEN 2 ELSE 0)

WritePublish(p, cap) ==
    Write(cap, <<Put(<<PublishByte1(p)>>), PutLength(PublishLen(p)),
                 Put(MqttBytes(p.topic)), PutPkid(p), Put(p.payload)>>)

(***************************************************************************)
(* OutPublish::write.  The callbacks write topic and payload behind the    *)
(* five bytes kept for the fixed header, which is put in front of them at  *)
(* the end; the topic is written string by string, through a TopicWriter.  *)
(* split_at_mut panics on a buffer of less than five bytes.                *)
(***************************************************************************)
HeaderRoom == 5

OutPublishBody(p, strings, cap) ==
    LET topic == [i \in DOMAIN strings |-> Put(strings[i])]
    IN  Write(cap, <<Put(<<0, 0>>)>> \o topic
                   \o <<IF Len(FlattenSeq(strings)) > MaxWord THEN Fail("PayloadTooLong") ELSE Put(<< >>),
                        PutPkid(p), Put(p.payload)>>)

WriteOutPublish(p, strings, cap) ==
    IF cap < HeaderRoom THEN Fail("panic")
    ELSE LET body    == OutPublishBody(p, strings, cap - HeaderRoom)
             len     == EncodeLength(Len(body.bytes))
             start   == 4 - Len(len)
             header  == [i \in 1..HeaderRoom |->
                            IF i <= start THEN 0
                            ELSE IF i = start + 1 THEN PublishByte1(p)
                            ELSE len[i - start - 1]]
             topic   == U16(Len(FlattenSeq(strings)))
             patched == [body.bytes EXCEPT ![1] = topic[1], ![2] = topic[2]]
         IN  IF body.error # "none" THEN body
             ELSE IF Len(body.bytes) > MaxRemaining THEN Fail("PayloadTooLong")
             ELSE Put(SubSeq(header \o patched, start + 1,
                             1 + start + Len(len) + Len(body.bytes)))

(* SubscribeFilter::write, SubscribeWriter::add_str and add_separated. *)
FilterBytes(f) == MqttBytes(f.path) \o <<f.qos>>

SeparatedBytes(f) == FilterBytes([f EXCEPT !.path = Separated(Levels(@), <<Slash>>)])

SubscribeLen(p) ==
    2 + FoldLeft(LAMBDA n, f : n + 2 + Len(f.path) + 1, 0, p.filters)

WriteSubscribePacket(p, cap) ==
    Write(cap, <<Put(<<130>>), PutLength(SubscribeLen(p)), Put(U16(p.pkid))>>
               \o [i \in DOMAIN p.filters |-> Put(FilterBytes(p.filters[i]))])

(* What the user's closure adds for the filters of p, either way. *)
AddedTexts(p) ==
    IF p.pkid # 1 THEN {}
    ELSE {[i \in DOMAIN p.filters |-> FilterBytes(p.filters[i])],
          [i \in DOMAIN p.filters |-> SeparatedBytes(p.filters[i])]}

(* SubscribeWriter and NanoClient::write_subscribe: the filters fill the   *)
(* transmit buffer, the header and packet id 1 are written from an array.  *)
WriteSubscribeInPlace(p, texts, cap) ==
    LET filters == Write(cap, [i \in DOMAIN p.filters |->
                                IF Len(p.filters[i].path) > MaxWord
                                THEN Fail("PayloadTooLong")
                                ELSE Put(texts[i])])
    IN  IF filters.error # "none" THEN filters
        ELSE Write(Len(filters.bytes) + 7,
                   <<Put(<<130>>), PutLength(Len(filters.bytes) + 2), Put(<<0, 1>>), filters>>)

UnsubscribeLen(p) == 2 + FoldLeft(LAMBDA n, t : n + Len(t) + 2, 0, p.topics)

WriteUnsubscribe(p, cap) ==
    Write(cap, <<Put(<<162>>), PutLength(UnsubscribeLen(p)), Put(U16(p.pkid))>>
               \o [i \in DOMAIN p.topics |-> Put(MqttBytes(p.topics[i]))])

WriteSubAck(p, cap) ==
    Write(cap, <<Put(<<144>>), PutLength(2 + Len(p.codes)), Put(U16(p.pkid)), Put(p.codes)>>)

WriteConnAck(p, cap) ==
    Write(cap, <<Put(<<32>>), PutLength(2), Put(<<Flag(p.session_present, 1), p.code>>)>>)

(* PubAck, PubRec, PubRel, PubComp and UnsubAck. *)
AckByte1 == [PubAck |-> 64, PubRec |-> 80, PubRel |-> 98, PubComp |-> 112, UnsubAck |-> 176]

WriteAck(p, cap) == Write(cap, <<Put(<<AckByte1[p.type]>>), PutLength(2), Put(U16(p.pkid))>>)

(* PingReq, PingResp and Disconnect. *)
EmptyByte1 == [PingReq |-> 192, PingResp |-> 208, Disconnect |-> 224]

WriteEmpty(p, cap) == Write(cap, <<Put(<<EmptyByte1[p.type], 0>>)>>)

-----------------------------------------------------------------------------
(* Connect, LastWill and Login. *)

MQTT == <<77, 81, 84, 84>>

WillLen(w) == 2 + Len(w.topic) + 2 + Len(w.message)

LoginLen(l) ==
    (IF l.username = << >> THEN 0 ELSE 2 + Len(l.username))
    + (IF l.password = << >> THEN 0 ELSE 2 + Len(l.password))

ConnectLen(p) ==
    2 + Len(MQTT) + 1 + 1 + 2 + 2 + Len(p.client_id)
    + (IF p.last_will = << >> THEN 0 ELSE WillLen(p.last_will[1]))
    + (IF p.login = << >> THEN 0 ELSE LoginLen(p.login[1]))

WillFlags(w) == 4 + 8 * w.qos + Flag(w.retain, 32)

LoginFlags(l) == Flag(l.username # << >>, 128) + Flag(l.password # << >>, 64)

ConnectFlags(p) ==
    Flag(p.clean_session, 2)
    + (IF p.last_will = << >> THEN 0 ELSE WillFlags(p.last_will[1]))
    + (IF p.login = << >> THEN 0 ELSE LoginFlags(p.login[1]))

PutWill(w) == <<Put(MqttBytes(w.topic)), Put(MqttBytes(w.message))>>

PutLogin(l) ==
    Option(l.username # << >>, Put(MqttBytes(l.username)))
    \o Option(l.password # << >>, Put(MqttBytes(l.password)))

WriteConnectPacket(p, cap) ==
    Write(cap, <<Put(<<16>>), PutLength(ConnectLen(p)), Put(MqttBytes(MQTT)),
                 Put(<<p.protocol>>), Put(<<ConnectFlags(p)>>), Put(U16(p.keep_alive)),
                 Put(MqttBytes(p.client_id))>>
               \o (IF p.last_will = << >> THEN << >> ELSE PutWill(p.last_will[1]))
               \o (IF p.login = << >> THEN << >> ELSE PutLogin(p.login[1])))

(* The ways to write p into a buffer of capacity cap. *)
Writes(p, cap) ==
    CASE p.type = "Connect"     -> {WriteConnectPacket(p, cap)}
      [] p.type = "ConnAck"     -> {WriteConnAck(p, cap)}
      [] p.type = "Publish"     -> {WritePublish(p, cap), WriteOutPublish(p, <<p.topic>>, cap),
                                    WriteOutPublish(p, TopicItems(Levels(p.topic)), cap)}
      [] p.type = "Subscribe"   -> {WriteSubscribePacket(p, cap)} \cup
                                   {WriteSubscribeInPlace(p, texts, cap) : texts \in AddedTexts(p)}
      [] p.type = "SubAck"      -> {WriteSubAck(p, cap)}
      [] p.type = "Unsubscribe" -> {WriteUnsubscribe(p, cap)}
      [] p.type \in DOMAIN AckByte1   -> {WriteAck(p, cap)}
      [] p.type \in DOMAIN EmptyByte1 -> {WriteEmpty(p, cap)}
=============================================================================
