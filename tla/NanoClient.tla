------------------------------ MODULE NanoClient ------------------------------
(***************************************************************************)
(* umqtt::nano_client::NanoClient on a Platform, between a user and a      *)
(* broker.  Every method is an async fn that borrows the client mutably,   *)
(* so at most one call is in progress; pc is the await it is suspended at. *)
(* While it waits the broker, the transport and the clock move on, and the *)
(* user may drop the future.                                               *)
(*                                                                         *)
(* Instants are kept relative to the present: now is 0, and when time      *)
(* passes the ping deadline comes nearer.  Only packet_send_at - now is    *)
(* ever used.                                                              *)
(***************************************************************************)
EXTENDS TransportClient, SequencesExt

CONSTANTS
    Capacity,       \* length of rx_buffer
    NetCap,         \* bound: bytes in flight when the broker adds to them unasked
    OutCap,         \* bound: packets in flight to the broker
    KeepAlives,     \* the keep-alive intervals ConnectOptions may ask for
    MaxHeld,        \* how many completions the user may still hold when it goes on
    UserOps,        \* what the user does besides connecting and reading
    UserPackets,    \* the packets the user sends of its own accord
    Overflow,       \* the kinds of packet that may not fit in tx_buffer
    Unsolicited,    \* the frames the broker sends of its own accord
    Answers(_)      \* the frames it may answer a packet with; none if empty

VARIABLES
    rx,             \* rx_buffer.used_slice()
    net,            \* received by the transport, not yet read
    eof,            \* the broker closed the connection
    out,            \* packets written, not yet taken by the broker
    torn,           \* history: part of a packet is on the wire without the rest
    greeted,        \* history: a CONNECT was written on this transport
    pc,             \* the await the current call is suspended at
    op,             \* the packet it is writing
    subscribing,    \* it is connect_subscribe
    held,           \* the notifications (or their completions) the user holds
    ret             \* what the latest call returned

vars == << state, keep_alive, packet_send_at, rx, net, eof, out, torn, greeted,
           pc, op, subscribing, held, ret >>

-----------------------------------------------------------------------------
PacketKindsOut == {"Connect", "Subscribe", "PingReq", "PubAck", "PubRec", "PubComp", "Publish"}

OutPackets == [kind : PacketKindsOut, pkid : PacketIds]

OutPacket(kind, pkid) == [kind |-> kind, pkid |-> pkid]

NoPacket == [kind |-> "None", pkid |-> 0]

AllUserOps == {"drop", "cancel_read", "cancel_write", "no_action", "no_pub_ack",
               "with_action", "send", "rewrap", "reconnect", "subscribe"}

ASSUME NanoAssumption ==
    /\ Capacity \in Nat /\ NetCap \in Nat /\ OutCap \in Nat /\ MaxHeld \in Nat
    /\ {0, 1} \subseteq PacketIds
    /\ KeepAlives \subseteq Instants
    /\ UserOps \subseteq AllUserOps
    /\ UserPackets \subseteq OutPackets
    /\ Overflow \subseteq PacketKindsOut
    /\ Unsolicited \subseteq Frames
    /\ \A p \in OutPackets : Answers(p) \subseteq Frames

(***************************************************************************)
(* A notification in the user's hands.  taken is what completing it        *)
(* removes from rx_buffer; bytes (history) is what it was read from.       *)
(***************************************************************************)
Notified(kind, f, taken, bytes) ==
    [kind |-> kind, qos |-> f.qos, pkid |-> f.pkid, taken |-> taken, bytes |-> bytes]

SendPing == [kind |-> "SendPing", qos |-> 0, pkid |-> 0, taken |-> 0, bytes |-> << >>]

Notifications ==
    [kind : FrameKinds \cup {"Disconnected", "SendPing"}, qos : 0..2, pkid : PacketIds,
     taken : Nat, bytes : Seq(Bytes)]

(***************************************************************************)
(* A write in progress: the packet, whether the user asked for it or it is *)
(* the default action of a completion, and (history) the bytes that        *)
(* completion removed.                                                     *)
(***************************************************************************)
Writing(packet, origin, covers) == [packet |-> packet, origin |-> origin, covers |-> covers]

NoWrite == Writing(NoPacket, "none", << >>)

Writes == [packet : OutPackets \cup {NoPacket}, origin : {"none", "user", "completion"},
           covers : Seq(Bytes)]

Idle == "idle"
Reading == {"connack", "read"}
WritingPcs == {"connect", "subscribe", "filters", "write"}

Results == {"None", "Ok", "ConnAck", "Notification", "SendPing", "Cancelled", "ConnectionClosed",
            "UnexpectedPacket", "IO", "ReadError", "WriteError"}

TypeOK ==
    /\ ClientTypeOK
    /\ rx \in Seq(Bytes) /\ Len(rx) <= Capacity
    /\ net \in Seq(Bytes)
    /\ eof \in BOOLEAN /\ torn \in BOOLEAN /\ greeted \in BOOLEAN /\ subscribing \in BOOLEAN
    /\ out \in Seq(OutPackets)
    /\ pc \in {Idle} \cup Reading \cup WritingPcs
    /\ op \in Writes /\ (pc \in WritingPcs => op.packet \in OutPackets)
    /\ held \in Seq(Notifications)
    /\ ret \in Results

(* NanoClient::new, and no transport yet. *)
Init ==
    /\ ClientInit
    /\ rx = << >> /\ net = << >> /\ out = << >>
    /\ eof = FALSE /\ torn = FALSE /\ greeted = FALSE
    /\ pc = Idle /\ op = NoWrite /\ subscribing = FALSE
    /\ held = << >>
    /\ ret = "None"

-----------------------------------------------------------------------------
(* A fault for the mutants: reads go over the bytes already there. *)
FreeAll == Capacity

(* Buffer::unused_slice_mut. *)
Free == Capacity - Len(rx)

(* A fault for the mutants: the buffer keeps its bytes. *)
KeepBuffer(data) == data

(* Buffer::reset. *)
ResetBuffer(data) == << >>

(* Two faults for the mutants: one byte too few is removed, or all are. *)
RemovePrefixShort(data, n) == SubSeq(data, IF n = 0 THEN 1 ELSE n, Len(data))
RemovePrefixAll(data, n) == << >>

(* Buffer::remove_prefix. *)
RemovePrefix(data, n) == SubSeq(data, n + 1, Len(data))

(* The bytes it removes. *)
Removed(data, n) == SubSeq(data, 1, IF n < Len(data) THEN n ELSE Len(data))

Return(r) == pc' = Idle /\ op' = NoWrite /\ ret' = r

Await(where, write) == pc' = where /\ op' = write /\ ret' = "None"

(* The user may call a method that moves the stream on. *)
MayGoOn == pc = Idle /\ Len(held) <= MaxHeld

(***************************************************************************)
(* The send_* methods: the packet is laid out in tx_buffer, then           *)
(* write_buffer looks at the connection, then it awaits the platform.      *)
(***************************************************************************)
Transmit(packet, origin, covers) ==
    \/ packet.kind \in Overflow /\ Return("WriteError")
    \/ state = "Disconnected" /\ Return("ConnectionClosed")
    \/ state # "Disconnected" /\ Await("write", Writing(packet, origin, covers))

-----------------------------------------------------------------------------
(***************************************************************************)
(* connect or connect_subscribe, on a transport the user has just opened.  *)
(***************************************************************************)
ConnectCall(ka, s) ==
    /\ MayGoOn
    /\ state = "Disconnected" \/ "reconnect" \in UserOps
    /\ s => "subscribe" \in UserOps
    /\ OnTransportOpened(ka)
    /\ rx' = ResetBuffer(rx)
    /\ net' = << >> /\ eof' = FALSE /\ out' = << >>
    /\ torn' = FALSE /\ greeted' = FALSE
    /\ subscribing' = s
    /\ \/ "Connect" \in Overflow /\ Return("WriteError")
       \/ Await("connect", Writing(OutPacket("Connect", 0), "user", << >>))
    /\ UNCHANGED held

(* write_all succeeded: the bytes are on their way to the broker. *)
Written(packets) ==
    /\ Len(out) < OutCap
    /\ OnPacketSent(0)
    /\ out' = out \o packets
    /\ UNCHANGED << rx, net, eof, subscribing, held >>

WriteConnect ==
    /\ pc = "connect"
    /\ Written(<< op.packet >>)
    /\ greeted' = TRUE
    /\ Await("connack", NoWrite)
    /\ UNCHANGED torn

(* The fixed header of SUBSCRIBE and its packet id ... *)
WriteSubscribe ==
    /\ pc = "subscribe"
    /\ Written(<< >>)
    /\ torn' = TRUE
    /\ Await("filters", op)
    /\ UNCHANGED greeted

(* ... and the topic filters, in a second write. *)
WriteFilters ==
    /\ pc = "filters"
    /\ Written(<< op.packet >>)
    /\ torn' = FALSE
    /\ Return("ConnAck")
    /\ UNCHANGED greeted

WritePacket ==
    /\ pc = "write"
    /\ Written(<< op.packet >>)
    /\ Return("Ok")
    /\ UNCHANGED << torn, greeted >>

(***************************************************************************)
(* What a write that did not return Ok may have put on the wire: nothing   *)
(* more, a part of the packet, or all of it.                               *)
(***************************************************************************)
PartlyWritten ==
    \/ UNCHANGED << out, torn, greeted >>
    \/ torn' = TRUE /\ UNCHANGED << out, greeted >>
    \/ /\ pc # "subscribe"
       /\ Len(out) < OutCap
       /\ out' = Append(out, op.packet)
       /\ torn' = FALSE
       /\ greeted' = (greeted \/ pc = "connect")

(* write_all failed. *)
WriteFails ==
    /\ pc \in WritingPcs
    /\ OnTransportClosed
    /\ PartlyWritten
    /\ Return("IO")
    /\ UNCHANGED << rx, net, eof, subscribing, held >>

-----------------------------------------------------------------------------
(* write_subscribe: the user's closure formats the filters in tx_buffer. *)
StartSubscribe ==
    \/ "Subscribe" \in Overflow /\ Return("WriteError")
    \/ Await("subscribe", Writing(OutPacket("Subscribe", 1), "user", << >>))

(* read_connack, once the bytes are in the buffer. *)
ContinueConnect(f, data) ==
    LET v == OnBytesReceived(f, Len(data)) IN
    /\ state' = v.next
    /\ \/ v.tag = "None" /\ rx' = data /\ UNCHANGED << pc, op, ret >>
       \/ v.tag = "Error" /\ rx' = data /\ Return("ReadError")
       \/ v.tag = "Notification" /\ v.kind # "ConnAck" /\ rx' = data /\ Return("UnexpectedPacket")
       \/ /\ v.kind = "ConnAck"
          /\ rx' = RemovePrefix(data, v.taken)
          /\ IF subscribing THEN StartSubscribe ELSE Return("ConnAck")
    /\ UNCHANGED held

(* next_notification, once the bytes are in the buffer. *)
ContinueRead(f, data) ==
    LET v == OnBytesReceived(f, Len(data)) IN
    /\ rx' = data
    /\ \/ /\ ~Framed(f, Len(data), Capacity)
          /\ UNCHANGED << state, pc, op, ret, held >>
       \/ /\ Framed(f, Len(data), Capacity)
          /\ v.tag # "Notification"
          /\ state' = v.next
          /\ Return("ReadError")
          /\ UNCHANGED held
       \/ /\ Framed(f, Len(data), Capacity)
          /\ v.tag = "Notification"
          /\ state' = v.next
          /\ held' = Append(held, Notified(v.kind, f, v.taken, Removed(data, v.taken)))
          /\ Return("Notification")

(* read_some returned n bytes. *)
ReadBytes(n) ==
    LET data == rx \o SubSeq(net, 1, n) IN
    /\ pc \in Reading
    /\ n <= Len(net) /\ n <= Free
    /\ net' = SubSeq(net, n + 1, Len(net))
    /\ \E f \in Fronts(data) :
          IF pc = "connack" THEN ContinueConnect(f, data) ELSE ContinueRead(f, data)
    /\ UNCHANGED << keep_alive, packet_send_at, eof, out, torn, greeted, subscribing >>

ReadEnds(result) ==
    /\ pc \in Reading
    /\ OnTransportClosed
    /\ Return(result)
    /\ UNCHANGED << rx, net, eof, out, torn, greeted, subscribing, held >>

(* A fault for the mutants: 0 bytes are taken for a short read. *)
ReadEofLooping ==
    /\ pc \in Reading
    /\ (eof /\ net = << >>) \/ Free = 0
    /\ UNCHANGED vars

(* read_some returned 0 bytes: end of stream, or no room to read into. *)
ReadEof ==
    /\ (eof /\ net = << >>) \/ Free = 0
    /\ ReadEnds("ConnectionClosed")

(* read_some failed. *)
ReadErrs == ReadEnds("IO")

(* read_some timed out: nothing has arrived and the ping is due. *)
ReadTimeout ==
    /\ pc = "read"
    /\ HasPing /\ NextPingIn(0) = 0
    /\ net = << >> /\ ~eof
    /\ held' = Append(held, SendPing)
    /\ Return("SendPing")
    /\ UNCHANGED << state, keep_alive, packet_send_at, rx, net, eof, out, torn, greeted, subscribing >>

(* The user calls next_notification. *)
NextNotification ==
    /\ MayGoOn
    /\ IF state = "Disconnected" THEN Return("ConnectionClosed") ELSE Await("read", NoWrite)
    /\ UNCHANGED << state, keep_alive, packet_send_at, rx, net, eof, out, torn, greeted, subscribing, held >>

(* The user drops the future it was waiting for. *)
CancelRead ==
    /\ "cancel_read" \in UserOps
    /\ pc \in Reading
    /\ Return("Cancelled")
    /\ UNCHANGED << state, keep_alive, packet_send_at, rx, net, eof, out, torn, greeted, subscribing, held >>

CancelWrite ==
    /\ "cancel_write" \in UserOps
    /\ pc \in WritingPcs
    /\ PartlyWritten
    /\ Return("Cancelled")
    /\ UNCHANGED << state, keep_alive, packet_send_at, rx, net, eof, subscribing, held >>

-----------------------------------------------------------------------------
(* Two faults for the mutants: a due ping is not sent, and every Publish   *)
(* is answered with PubAck.                                                *)
DefaultActionNoPing(t) ==
    CASE t.kind = "Publish" /\ t.qos = 1 -> OutPacket("PubAck", t.pkid)
      [] t.kind = "Publish" /\ t.qos = 2 -> OutPacket("PubRec", t.pkid)
      [] t.kind = "PubRel" -> OutPacket("PubComp", t.pkid)
      [] OTHER -> NoPacket

DefaultActionPubAck(t) ==
    CASE t.kind = "SendPing" -> OutPacket("PingReq", 0)
      [] t.kind = "Publish" /\ t.qos > 0 -> OutPacket("PubAck", t.pkid)
      [] t.kind = "PubRel" -> OutPacket("PubComp", t.pkid)
      [] OTHER -> NoPacket

(* ClientNotification::complete. *)
DefaultAction(t) ==
    CASE t.kind = "SendPing" -> OutPacket("PingReq", 0)
      [] t.kind = "Publish" /\ t.qos = 1 -> OutPacket("PubAck", t.pkid)
      [] t.kind = "Publish" /\ t.qos = 2 -> OutPacket("PubRec", t.pkid)
      [] t.kind = "PubRel" -> OutPacket("PubComp", t.pkid)
      [] OTHER -> NoPacket

(* complete_no_pub_ack. *)
PingOnly(t) == IF t.kind = "SendPing" THEN OutPacket("PingReq", 0) ELSE NoPacket

(* The packets of NotificationAction. *)
Actions == {p \in UserPackets : p.kind \in {"PingReq", "PubAck", "PubRec", "PubComp"}}

(* The completions of t the user may make, by complete and its siblings. *)
Completions(t) ==
    {<< DefaultAction(t), "completion" >>}
        \cup (IF "no_action" \in UserOps THEN {<< NoPacket, "user" >>} ELSE {})
        \cup (IF "no_pub_ack" \in UserOps THEN {<< PingOnly(t), "user" >>} ELSE {})
        \cup (IF "with_action" \in UserOps THEN Actions \X {"user"} ELSE {})

(* complete_notification of the i-th notification the user holds. *)
Complete(i) ==
    LET t == held[i] IN
    /\ pc = Idle
    /\ rx' = RemovePrefix(rx, t.taken)
    /\ held' = RemoveAt(held, i)
    /\ \E c \in Completions(t) :
          IF c[1] = NoPacket THEN Return("Ok") ELSE Transmit(c[1], c[2], Removed(rx, t.taken))
    /\ UNCHANGED << state, keep_alive, packet_send_at, net, eof, out, torn, greeted, subscribing >>

(* The user forgets a notification: it will be received again. *)
DropNotification(i) ==
    /\ "drop" \in UserOps
    /\ pc = Idle
    /\ held' = RemoveAt(held, i)
    /\ UNCHANGED << state, keep_alive, packet_send_at, rx, net, eof, out, torn, greeted,
                    pc, op, subscribing, ret >>

(* send_publish, send_ping_request, send_pub_ack, send_pub_rec, send_pub_comp. *)
Send(packet) ==
    /\ "send" \in UserOps
    /\ pc = Idle
    /\ Transmit(packet, "user", << >>)
    /\ UNCHANGED << state, keep_alive, packet_send_at, rx, net, eof, out, torn, greeted, subscribing, held >>

(* into_inner, then from_transport_client with buffers of the same size. *)
Rewrap ==
    /\ "rewrap" \in UserOps
    /\ MayGoOn
    /\ rx' = << >>
    /\ UNCHANGED << state, keep_alive, packet_send_at, net, eof, out, torn, greeted,
                    pc, op, subscribing, held, ret >>

-----------------------------------------------------------------------------
(* The broker sends a frame of its own accord, while the client may read it. *)
BrokerSends(f) ==
    /\ ~eof /\ state # "Disconnected"
    /\ Len(net) + FrameLength(f) <= NetCap
    /\ net' = net \o Encode(f)
    /\ UNCHANGED << state, keep_alive, packet_send_at, rx, eof, out, torn, greeted,
                    pc, op, subscribing, held, ret >>

(* It takes a packet and answers it, whatever else is in flight. *)
BrokerTakes ==
    /\ out # << >> /\ ~eof
    /\ out' = Tail(out)
    /\ IF Answers(Head(out)) = {} THEN UNCHANGED net
       ELSE \E f \in Answers(Head(out)) : net' = net \o Encode(f)
    /\ UNCHANGED << state, keep_alive, packet_send_at, rx, eof, torn, greeted,
                    pc, op, subscribing, held, ret >>

BrokerCloses ==
    /\ ~eof /\ state # "Disconnected"
    /\ eof' = TRUE
    /\ UNCHANGED << state, keep_alive, packet_send_at, rx, net, out, torn, greeted,
                    pc, op, subscribing, held, ret >>

(* One unit of time passes; further ones change nothing once the ping is due. *)
Tick ==
    /\ packet_send_at > 0
    /\ packet_send_at' = packet_send_at - 1
    /\ UNCHANGED << state, keep_alive, rx, net, eof, out, torn, greeted,
                    pc, op, subscribing, held, ret >>

Next ==
    \/ \E ka \in KeepAlives, s \in BOOLEAN : ConnectCall(ka, s)
    \/ WriteConnect \/ WriteSubscribe \/ WriteFilters \/ WritePacket \/ WriteFails
    \/ \E n \in 1..Capacity : ReadBytes(n)
    \/ ReadEof \/ ReadErrs \/ ReadTimeout
    \/ NextNotification
    \/ CancelRead \/ CancelWrite
    \/ \E i \in 1..Len(held) : Complete(i) \/ DropNotification(i)
    \/ \E p \in UserPackets : Send(p)
    \/ Rewrap
    \/ \E f \in Unsolicited : BrokerSends(f)
    \/ BrokerTakes \/ BrokerCloses \/ Tick

Spec == Init /\ [][Next]_vars

-----------------------------------------------------------------------------
(***************************************************************************)
(* Fairness.  The runtime polls the call in progress, so a read or a write *)
(* the transport can serve is served; a write to a closed connection does  *)
(* not hang for ever; the broker takes what it is sent, and time passes.   *)
(* The user runs the loop of the documentation: it takes the next          *)
(* notification and completes it.                                          *)
(***************************************************************************)
WriteSome == WriteConnect \/ WriteSubscribe \/ WriteFilters \/ WritePacket

UserLoop ==
    \/ state # "Disconnected" /\ NextNotification
    \/ \E i \in 1..Len(held) : Complete(i)

Fairness ==
    /\ WF_vars(WriteSome)
    /\ WF_vars(eof /\ WriteFails)
    /\ WF_vars(\E n \in 1..Capacity : ReadBytes(n))
    /\ WF_vars(ReadEof)
    /\ WF_vars(ReadTimeout)
    /\ WF_vars(UserLoop)
    /\ WF_vars(BrokerTakes)
    /\ WF_vars(Tick)

FairSpec == Spec /\ Fairness

(* With a timer that is not missed even if data keeps arriving. *)
TimelySpec == FairSpec /\ SF_vars(ReadTimeout)

-----------------------------------------------------------------------------
Stream == rx \o net

(***************************************************************************)
(* The client keeps its place in the stream: through partial reads,        *)
(* cancelled reads, redeliveries and completions, what is buffered and     *)
(* what is still to be read is a sequence of whole frames that starts at   *)
(* the beginning of one.  It is what makes every header the client parses  *)
(* a header the broker sent.                                               *)
(***************************************************************************)
StreamIsFramed == WholeFrames(Stream)

(***************************************************************************)
(* A completion removes exactly the frame it was made for: as long as the  *)
(* user holds a notification, the bytes it would remove from rx_buffer are *)
(* still at its front, and they are one whole frame.  It is so for a user  *)
(* who completes or forgets a notification before asking for anything else *)
(* (MaxHeld = 0) and keeps its buffers (no rewrap): a completion that is   *)
(* kept outlives its frame, and another buffer starts empty.               *)
(***************************************************************************)
CompletionMatchesFrame ==
    \A i \in 1..Len(held) : held[i].taken > 0 =>
        /\ Removed(rx, held[i].taken) = held[i].bytes
        /\ \E f \in Frames : held[i].bytes = Encode(f)

(* What MQTT wants in answer to frame f, if anything. *)
AnswerTo(f, packet) ==
    \/ f.kind = "Publish" /\ f.qos = 1 /\ packet = OutPacket("PubAck", f.pkid)
    \/ f.kind = "Publish" /\ f.qos = 2 /\ packet = OutPacket("PubRec", f.pkid)
    \/ f.kind = "PubRel" /\ packet = OutPacket("PubComp", f.pkid)

(***************************************************************************)
(* An acknowledgement the client writes to complete a notification answers *)
(* the very frame that was taken from the stream for it: the right packet, *)
(* the right packet id, no frame acknowledged that was not delivered and   *)
(* removed whole (the table of ClientNotification::complete).  The user is *)
(* that of CompletionMatchesFrame.                                         *)
(***************************************************************************)
AckCoversFrame ==
    op.origin = "completion" /\ op.packet.kind # "PingReq" =>
        \E f \in Frames : op.covers = Encode(f) /\ AnswerTo(f, op.packet)

(***************************************************************************)
(* The user can rely on what a call returned: after any error but          *)
(* WriteError the client is disconnected and will not touch the transport  *)
(* again, and after a ConnAck it is connected.                             *)
(***************************************************************************)
ReturnMatchesState ==
    /\ ret \in {"ConnectionClosed", "UnexpectedPacket", "IO", "ReadError"} => state = "Disconnected"
    /\ ret = "ConnAck" => state = "Connected"
    /\ pc \in WritingPcs \cup Reading => state # "Disconnected"

(***************************************************************************)
(* Packets on the wire are never interleaved or cut short: while part of a *)
(* packet is out without the rest, the client writes nothing but the rest  *)
(* of it, or the connection is over.  It is so if no write is dropped: a   *)
(* dropped one leaves its packet cut short on an open connection.          *)
(***************************************************************************)
TornOnlyWhileClosing == torn => state = "Disconnected" \/ pc = "filters"

(***************************************************************************)
(* The first packet on a connection is CONNECT (connect writes it before   *)
(* any method can write another), if it fits tx_buffer and no write is     *)
(* dropped: after either the client is connected to a transport that has   *)
(* seen no CONNECT, and other methods write to it.                         *)
(***************************************************************************)
ConnectIsFirst == pc \in {"subscribe", "filters", "write"} => greeted

-----------------------------------------------------------------------------
(***************************************************************************)
(* "Note: The ConnAck might report an error from the server" (connect):    *)
(* a ConnAck that refuses the connection is returned, not turned into      *)
(* UnexpectedPacket.                                                       *)
(***************************************************************************)
RefusalIsReturned ==
    ret = "UnexpectedPacket" => \A f \in Frames : f.kind = "Refusal" => ~IsPrefix(Encode(f), rx)

(***************************************************************************)
(* "Disconnect them before reading all that data" (check): once the header *)
(* of an oversized packet has been read, next_notification does not wait   *)
(* for more of it.                                                         *)
(***************************************************************************)
OversizedStopsReading ==
    pc = "read" => \A f \in Fronts(rx) : ~BadHeader(f, Len(rx), Capacity)

(***************************************************************************)
(* "A new packet is received - the packet is returned to the sender"       *)
(* (next_notification): whatever the broker sent on an open connection is  *)
(* sooner or later delivered, or the connection ends.                      *)
(***************************************************************************)
FrameIsDelivered ==
    (state = "Connected" /\ Stream # << >>)
        ~> (state = "Disconnected" \/ \E i \in 1..Len(held) : held[i].kind # "SendPing")

(***************************************************************************)
(* "A ping should be sent" (next_notification): once the keep-alive        *)
(* interval has passed in silence, a packet is written, or the connection  *)
(* ends.                                                                   *)
(***************************************************************************)
PingDueIsSent ==
    (state = "Connected" /\ HasPing /\ packet_send_at = 0)
        ~> (packet_send_at > 0 \/ state = "Disconnected")

(***************************************************************************)
(* When the broker closes the connection, the client notices and says so,  *)
(* whatever it was waiting for and whatever is still buffered.             *)
(***************************************************************************)
CloseIsNoticed == eof ~> state = "Disconnected" \/ ~eof
=============================================================================
