# A TLA+ model of umqtt

umqtt is a small MQTT 3.1.1 client for embedded devices. This directory holds
TLA+ modules that model it, the TLC runs that check them on small instances, and
theorems about them that TLAPS proves for every instance. `PROJECT.json` is the
index: which definition models which lines, what each run checks, which mutation
of the model breaks which property, and which hazards of the code are covered.

Paths below are those of the repository's crate (`src/...` is `src/src/...` in
`PROJECT.json`).

## The system

| Component | State | Operations | Talks to |
|---|---|---|---|
| `transport_client.rs` `TransportClient` | `state` (Disconnected, TransportConnected, Connected), `keep_alive`, `packet_send_at` | `on_transport_opened`, `on_packet_sent`, `on_transport_closed`, `on_bytes_received`, `next_ping_in` | called by `NanoClient` or by a user with its own transport; calls `Packet::read` |
| `time.rs` `Instant` | none | saturating addition and subtraction | `TransportClient`, platforms |
| `nano_client.rs` `NanoClient` | a `TransportClient`, `tx_buffer`, `rx_buffer` | `connect`, `connect_subscribe`, `next_notification`, `complete_notification`, `send_*`, `into_inner`, `from_transport_client` | the user (futures it may drop), the `Platform` |
| `nano_client/buffer.rs` `Buffer` | an array and the number of bytes used | `reset`, `advance`, `used_slice`, `unused_slice_mut`, `remove_prefix` | `NanoClient` |
| `nano_client/notification.rs` | none: values | `complete`, `complete_no_action`, `complete_no_pub_ack`, `with_action` | the user turns a notification into a completion |
| `nano_client/platform.rs` `Platform` | the transport and the clock (outside the crate) | `write_all`, `read_some`, `now` | `NanoClient`; the broker is behind it |
| `packetview/mod.rs`, `packet.rs` | none | `check`, `parse_fixed_header`, `length`, `Packet::read`, `read_exact` | called on the bytes in `rx_buffer` |
| `packetview/*.rs` packet types | none | `read_exact`, `write`, `len` of each packet | `Packet`, `NanoClient` |
| `packetview/cursor.rs`, `borrowed_buf.rs`, `topic_iterator.rs` | a position in a slice or a list | put, take, split, commit, next | packet types |
| `mqttbytes/` | none | `read`, `write`, `size` of each packet, `valid_topic`, `valid_filter`, `matches` | nothing in the crate: its `mod` line in `lib.rs` is commented out. `packetview` was written after it |
| `publish_state.rs` | types only | none | nothing |
| `uclient.rs` | not compiled (commented out in `lib.rs`) | | |

What is hard about it:

* **Concurrency by suspension.** Every `NanoClient` method is an `async fn` that
  borrows the client mutably, so one call is in progress at a time, but while it
  is suspended the broker, the transport and the clock move, and the user may
  drop it at any await. `next_notification` must survive that. The writing methods
  do not: a dropped write leaves part of a packet on the wire of a client that
  still counts as connected. Only `complete_notification` documents it
  (`nano_client.rs:417`); `connect`, `connect_subscribe` and `send_*` behave the same.
* **A stream, not messages.** Reads return any number of bytes. The client must
  keep its place in the stream through partial reads, corrupt and oversized
  frames, redeliveries and completions.
* **Late completions.** A notification borrows the receive buffer; the completion
  made from it does not. Its `taken` is applied to whatever is at the front of
  the buffer when it is used.
* **Failure in the middle.** A write may fail after part of a packet; SUBSCRIBE
  takes two writes; a frame is removed before its acknowledgement is written.
* **Sessions over connections.** The client keeps nothing of a session: what an
  application gets of QoS 1 and 2 over reconnections follows from when a frame is
  removed, when it is shown and when it is acknowledged, with packet ids used again.
* **Time.** The ping deadline is computed from the last packet sent, survives in
  the client across connections, and is noticed only by a read that times out.

What makes each component correct: a session opens with one ConnAck and ends for
good, pings are due exactly when they should be (`TransportClient`); the place in
the stream, one removal per delivered frame, acknowledgements that match it,
whole packets on the wire, return values that tell the truth (`NanoClient`);
reads within the free room (`Buffer`); a header that frames exactly the bytes the
sender framed, packets read as they were written, nothing asked for beyond the
packet (`packetview`); no message lost, first shown out of order, or repeated
without a fault, from the broker's session to the application.

## Modules

```
Framing            frames and bytes; check and Packet::read by their outcome
TransportClient    EXTENDS Framing: one operator per method
SansIo             EXTENDS TransportClient: a caller that uses the API in any order
NanoClient         EXTENDS TransportClient: the async client, user, platform, broker
FrameChannel       what the receiving side promises: a FIFO channel of frames
NanoRefinement     EXTENDS NanoClient: the refinement mapping to FrameChannel
QosSession         EXTENDS NanoClient: a broker that keeps a QoS session
ByteQueue          what the receive buffer promises: a queue of bytes
RxBuffer           the array under the receive buffer; refines ByteQueue
WireFormat         remaining lengths, integers and strings on bytes; check on bytes
Topics             levels, TopicIterator, and how filters match topics
PacketWriters      EXTENDS WireFormat, Topics: write of every packet type
PacketReaders      EXTENDS WireFormat: read_exact of every packet type, Packet::read
MqttBytesPackets   EXTENDS both: read, write and size of mqttbytes::v4
PacketStream       EXTENDS MqttBytesPackets: a writer or a foreign peer, and a reader
MCSansIo, MCNanoClient, MCQosSession, MCPacketStream       values for the runs
TransportClientProofs  lemmas about frames, streams and TransportClient
SansIoProofs       EXTENDS SansIo: sessions and deadlines
NanoClientProofs   EXTENDS NanoRefinement: types, returns, writes, the place in
                   the stream, the refinement of FrameChannel
SessionProofs      EXTENDS QosSession, NanoClientProofs: the QoS session
RxBufferProofs     that the array is a queue
WriterProofs       EXTENDS MqttBytesPackets: lengths, strings and check on bytes,
                   that what is written is a frame, and that of mqttbytes
PacketProofs       EXTENDS PacketStream, WriterProofs: the stream of packets,
                   topics, and that fields are read where they were put
ReadBackProofs     EXTENDS PacketProofs: that what is written is read back, that
                   filters match, that mqttbytes wrote the same, and that what
                   is read can be written and read again
```

**Framing.** A frame is a record: what `Packet::read_exact` makes of it (`kind`),
the header and remaining lengths, QoS and packet id. A byte is its frame and its
place in that frame. So a stream that starts in the middle of a frame can be told
from one that does not, and `Fronts` lets the parser see *any* header there: if
the client ever lost its place, everything could follow. `BadHeader`, `Framed`,
`ReadFails` and `ReadOk` are the outcomes of `check` and `Packet::read` by the
number of bytes available.

**TransportClient and SansIo.** `OnBytesReceived` returns the next state, the kind
of result and the number of bytes taken; `OpeningVerdict` and `SessionVerdict`
are its two `match`es. `SansIo` gives every method an action of its own, and
histories of what happened since the transport was opened.

**NanoClient.** `pc` is the await at which the call in progress is suspended, `op`
the packet it writes, `held` the notifications the user holds, `rx` the used part
of the receive buffer, `net` what the transport has received, `out` what the
broker has not taken yet. One action per stretch of code between two awaits:

| Action | Code |
|---|---|
| `ConnectCall` | `connect` up to the write of CONNECT |
| `WriteConnect`, `WriteSubscribe`, `WriteFilters`, `WritePacket`, `WriteFails` | `write_buffer` after its await, and what its caller does next |
| `ReadBytes`, `ReadEof`, `ReadErrs`, `ReadTimeout` | `read_some_with_timeout` after its await, then one round of `read_connack` or `next_notification` |
| `NextNotification`, `Complete`, `Send` | the calls, up to their first await |
| `CancelRead`, `CancelWrite`, `DropNotification` | the user drops a future or a notification |
| `Rewrap` | `into_inner`, `from_transport_client` |
| `BrokerSends`, `BrokerTakes`, `BrokerCloses`, `Tick` | broker and clock |

Instants are kept relative to the present, since only `packet_send_at - now` is
ever used: `Tick` brings the deadline nearer instead of moving the clock. The
histories `torn` (part of a packet is on the wire without the rest), `greeted`
(CONNECT was written), `bytes` and `covers` (what a notification was read from,
what a completion removed) only serve the properties.

`UserOps` says what the user may do beyond the loop of the documentation,
`Overflow` which packets may not fit in `tx_buffer` (their writers then return an
error), `MaxHeld` how many old notifications or completions it may still hold
when it calls on. With `MaxHeld = 0` each notification is completed or forgotten
before the next is asked for.

**FrameChannel and NanoRefinement.** The receiving side as its user sees it: the
head of a queue of frames is shown until it is completed, and only completing it
removes it. `NanoRefinement` maps the queue to the frames whose first byte is in
`rx \o net`, in the order of those bytes (`Starts` are their places, `StartOf` the
place of the n-th), and the frame shown to the notification held (`InHand`).

**QosSession.** A broker with a backlog of QoS 1 and 2 messages and a user that
runs the loop of `examples/basic.rs`: connect, ask, complete, and connect again
when the connection has ended; with `clean_session` false, so that there is a
session to keep. A message is `queued`, then in phase `publish` (sent, not
acknowledged), for QoS 2 in `release` (PUBREC taken, PUBCOMP not), and `done`.
After a reconnection the broker sends again, in order, what is not done
(`sentNow` is what it has sent on this connection), and it never has two messages
of one packet id in flight. This broker is external to the crate: it is what
MQTT 3.1.1 asks of one. `times` counts how often the application was shown each
message and `faults` what went wrong: a transport that breaks, a read or
notification that is dropped, a reconnection of a client that is still connected.
Every step is a step of `NanoClient` (`SessionIsNano`), so what is proved of
`NanoClient` holds here, and `Client` names no new way for the client to behave.

**ByteQueue and RxBuffer.** `NanoClient` works with `rx`, a sequence.
`RxBuffer` is the array that stands for it: the platform writes into the part
that is not used and only what the read reported counts. A read that was dropped,
timed out or failed may have written there too (`ReadUnreported`), and
`remove_prefix` moves a range onto one it may overlap (`CopyWithin`). The
refinement mapping is `used_slice`.

**WireFormat, PacketWriters, PacketReaders.** The codec on numbers in 0..255.
A writer is the sequence of its puts: the first that fails or does not fit ends
it, as `?` does, so a buffer of any capacity is the parameter `cap`. A reader is
the sequence of its fields with the position after each. Where the code loops
over the seven-bit digits of a length, `EncodeLength` and `DecodeLength` say which
byte has which digit; there are at most four. UTF-8 is reduced to strings that
are ASCII or have one stray byte above 127. `protocol` of `Connect` is its level, 4
or 5: the client sends 4 (`ConnectOptions::as_connect`), but `Connect::write` writes
either, and `Connect::read_exact` refuses the other (`Unreadable`). `WriteSubscribeInPlace` is
`write_subscribe` with a `SubscribeWriter` that puts the filters straight into the
buffer, and `AddedTexts` the two ways there are to add one: `add` with a path and
`add_separated` with the parts of one.

**Topics.** `Levels` is `split('/')`. `TopicIterator` is the state machine of its
`next` (parts left, whether it is at the first one, whether a separator came
last), whose items `TopicWriter` writes. `Matches`, `ValidTopic` and
`ValidFilter` are translated from `mqttbytes/topic.rs`; `FiltersMatchTopics`
compares them with a definition of MQTT's own that quantifies over levels.

**MqttBytesPackets.** The readers and writers of `mqttbytes::v4`. Its `mod`
line in `lib.rs` is commented out: nothing of it runs, and it is a second reading of
the same format to compare `packetview` with, which was written after it. Where the
two differ on the same bytes, one of them is wrong or the difference is meant.
`ReadsAsMqttBytes` and `WritesAsMqttBytes` say where they may: `Newer` names what only
`mqttbytes` reads, a CONNECT of level 5 and a SUBSCRIBE that sets option bits beside
the QoS, and nothing else that `packetview` refuses. Errors are compared by whether
they ask for more bytes; `V4Field` keeps `BoundaryCrossed`, which `packetview` lacks.

**PacketStream.** One side writes packets, with every writer there is for them and
in buffers of several capacities, or is a peer that is not umqtt and sends what
it likes; the bytes arrive one at a time and `Packet::read` is called on what is
there whenever it could tell something new. `FramingAgrees` compares each of its
results with what `Framing` says of the same frame, so that the client's models
rest on the codec and not on an assumption about it.

Definitions marked as faults (`LaterUnbounded`, `RemovePrefixShort`, ...) are the
plausible bugs with which each property is tried: replacing the definition after
which they are named must break the property.

## Runs

| Run | Instance | Shows |
|---|---|---|
| `sansio` | six kinds of frame, clock to 5, keep-alive from a small set | `ConnAckOpensSession`, `NothingAfterTheEnd`, `PingDeadline` under any order of calls; the clock reaches its maximum, so deadlines saturate |
| `nano_stream` | buffer of 5, publishes of two lengths and a corrupt frame | `StreamIsFramed`, `CompletionMatchesFrame` and `ImplementsChannel` with dropped notifications, dropped reads and reconnections in any state |
| `nano_acks` | buffer of 4, QoS 1 and 2, PUBREL, every completion, user sends, reconnection in any state, full transmit buffers | `AckCoversFrame`, `TornOnlyWhileClosing`, `ConnectIsFirst` |
| `nano_loose` | cancelled writes, kept completions, changed buffers, subscriptions whose closure fails, a CONNECT that does not fit | `ReturnMatchesState`, which must hold even then |
| `live` | the documented loop under fairness, with frames that do not fit in the receive buffer | `FrameIsDelivered`, `PingDueIsSent`, `CloseIsNoticed` |
| `session` | three messages, QoS 1, 1 and 2, the second with the packet id of the first; two faults; a buffer that holds one message and part of another | `ShownBeforeForgotten`, `FirstShownInOrder`, `ShownOnlyWhileOwed`, `RepeatsNeedFaults`, and `AllDelivered` under `SessionFairness` |
| `rx_buffer` | an array of four bytes of three values, with any contents at the start | `ImplementsQueue` |
| `packets` | packets of all fourteen types with and without each optional field, a CONNECT of level 5, ten topics and eighteen filters of up to three levels, frames with one byte changed or the last cut off, buffers of 4, 12 and 200 bytes, limit 128 | `ReadsBack`, `RereadsAsRead`, `AsksWithinFrame`, `FramingAgrees`, `ReadsAsMqttBytes`, `WritesAsMqttBytes`, `FiltersMatchTopics` |

Bounds. Frames are of two to seven bytes and buffers hold one or two of them:
enough for a frame in several reads, for two frames in one read, for a frame
behind a delivered one, for a buffer that fills up and for a frame that cannot
fit. `NetCap` bounds what the broker sends unasked, `OutCap` the packets in flight
to it; answers to packets are not bounded. One packet in flight is enough because
the client has one call in progress. `MaxInstant` and the keep-alive are one unit
in the `NanoClient` runs: a deadline is either in the future or past.

In `session` two messages share a packet id, so that a late acknowledgement of the
first could be taken for one of the second, and the third is of QoS 2. With two
faults a message can be interrupted while it is sent for the second time.
`NetCap` leaves room for a publish behind the answers to two pings. Faults are
bounded because a connection that always breaks delivers nothing.

`rx_buffer` needs room for a prefix that is shorter, as long as and longer than
what is moved, and values enough to tell a moved byte from one left behind.

In `packets` two frames are sent: enough for bytes of the next frame to be there
while one is read, and for a reader that takes too few or too many to meet the
other. Only the first may be foreign. Remaining lengths are below, at and above
127, where the header grows, and at and above the limit; the longer headers are
left to the proofs. An access out of bounds in a reader, a panic in the code,
would be an evaluation error of TLC, so the run also shows that there is none.

`CHECK_DEADLOCK FALSE` stands in `packets` because the stream ends there, and in the `NanoClient` configurations because the
system may stop there: the user may keep a notification for ever (with
`MaxHeld = 0` it then makes no further call), the broker may say nothing, and a
client without keep-alive waits for it.

Fairness (in `FairSpec`). A read or write that the transport can serve is served,
since the runtime polls the call; a write on a closed connection fails in the end;
the timer fires when nothing has arrived (`ReadTimeout` is enabled only then, and
weak fairness asks for it only while that stays so); the user runs the loop of
the example; the broker takes what it was sent; time passes. Nothing is assumed
of `ReadErrs`, `BrokerCloses` or `ConnectCall`. `SessionFairness` says the same of
the session with fewer words: the client as a whole does not stop while it can do
something, the clock and the broker neither, and a user whose connection ended
connects again, as the outer loop of `examples/basic.rs` does. `Mishap` has no
fairness. `TimelySpec` adds strong fairness
of the timer, to show that not even that helps in `ping_starved`.

## Where code and documents differ

Four runs end in a violation, on purpose; `PROJECT.json` quotes the lines.

* `refusal`: a refused connection is `Err(UnexpectedPacket)`; the doc of `connect`
  says the ConnAck is returned, and the code that closes the transport for it
  there is never reached.
* `oversized`: `next_notification` goes on reading an oversized packet until the
  buffer is full; the comment in `check` says it is rejected before that.
* `no_keep_alive`: `next_notification` reads before it looks at what it has. A
  frame that came together with the previous one waits for more bytes, or, with
  keep-alive, for the next ping.
* `ping_starved`: a due ping is noticed only if a read times out.

More that a user should know and that no document contradicts.

* `CompletionMatchesFrame` needs `MaxHeld = 0` (and no `into_inner`): two completions of one
  delivered frame remove two frames.
* `TornOnlyWhileClosing` and `ConnectIsFirst` need writes that are not dropped, the
  second also a CONNECT that fits in `tx_buffer`: otherwise part of a packet, or
  another packet than CONNECT, goes out on a connection that counts as open.
* What was received and not parsed is lost when the connection reaches its end, and
  when the client is taken apart with `into_inner`.
* `max_packet_size` limits the remaining length, not the packet, so a frame may
  pass the limit and still not fit in the buffer.
* A string of more than 65535 bytes in a `Publish`, `Connect`, `Subscribe` or
  `Unsubscribe` is written as another packet, without an error; and
  `OutPublish::write` panics on a buffer of less than five bytes, where the other
  writers return an error.
* QoS 2 is at least once: the client keeps no packet ids, so a publish the broker
  repeats is shown again. It is repeated only after a fault (`RepeatsNeedFaults`).
* `mqttbytes` and `packetview` differ on the same bytes in three ways: `mqttbytes`
  refuses a password that is not UTF-8, reads the protocol level of MQTT 5, and
  ignores the bits of a subscription's options beside the QoS. It also takes a frame off
  its stream before it looks into it, so that a frame it refuses is gone, where
  `packetview` leaves it there.
* `topic.rs` takes the first character of a topic with `topic[..1]`, which panics
  where that character has more than one byte. Strings are ASCII here but for a
  stray byte that makes them no string at all, so no run meets it.

## Proofs

`ASSUME`s: lengths and instants are naturals, a header has at least two bytes, the
frames the broker sends are frames, a packet's fields are of their Rust types.
Everything else is arbitrary: the set of frames, the buffer, the broker's answers,
what the user does.

* `SansIoProofs`: `TypeCorrect`; `SessionOpened` and `SessionEnded` from an invariant
  that ties the state to the ConnAcks given since the transport was opened; `DeadlineCorrect`
  from `DeadlineInv`, which says where the deadline comes from (`PingDeadline`
  itself speaks of the present and is not inductive).
* `NanoClientProofs`: `TypeCorrect` (a read never overruns the receive buffer);
  `ReturnCorrect` for every user, also one that cancels writes and keeps
  completions; `WritesNotTorn` and `ConnectFirst` for a user that does not drop
  writes (the second where CONNECT fits in `tx_buffer`), each from an invariant
  about `pc`.
  `StreamFramed`, `CompletionCorrect` and `AckCorrect`, for a user that completes
  or forgets a notification before it asks for another and keeps its buffers. The
  three properties are not inductive by themselves; `StreamInv` adds that the one
  notification held is of the frame `rx` starts with and takes its length
  (`OfFront`), and that none is held while the client reads. `FrontFrame` is the
  step that matters: in a stream of whole frames the parser can see only the
  header that was sent, and removing its length leaves whole frames.
  `ChannelImplemented`, for the same user: the client implements `FrameChannel`.
  The mapping picks the bytes a frame starts with out of the stream, so its
  lemmas are about what that does to a frame put behind a stream (`FramesOfAppend`)
  or taken off it (`FramesOfFront`); then each action is a step of the channel
  or a stutter, by what it does to the stream and to the notification held.
* `SessionProofs`: `NothingLost`, `OrderKept` and `AcknowledgedIsOver`, for every
  backlog and any reuse of packet ids, with `Careful`: a user that completes or
  forgets a notification before it asks for another, keeps its buffers and does
  not write packets of its own instead of the default ones. `SessionAssumption`
  says what the broker sends unasked and that its messages can be told apart.
  None of the three is inductive. `SessionInv` follows a message through the
  system in two parts. `StreamPart`: what there is of a message in `rx \o net` is owed
  by the broker, was sent on this connection, is there at most once and stands in
  the order of the backlog; what was sent and is no longer in the stream was shown.
  `ReceiptPart`: an acknowledgement in `op` or `out` is *backed* by a message
  that is in flight, has that packet id, was sent on this connection, was shown
  and has left the stream; and no packet id has two of them. This is where
  `connect` clearing `rx_buffer` matters: a receipt made of bytes of an old
  connection would not be backed. `SessionIsNano` brings in `StreamInv`.
  `RepeatsExplained` counts: what a message was shown is at most what failed, plus
  one. It takes a broker that is `Polite`: it answers CONNECT, and only CONNECT, with a
  ConnAck, and what it sends is of a kind the client expects, within the limit and
  not larger than `rx_buffer`; and CONNECT fits in `tx_buffer`. Otherwise the client
  hangs up without anything having failed, again and again, and a message may be
  shown each time: the theorem is false without it. The constants of the run
  `session` satisfy both `Careful` and `Polite`. The invariant is `RepeatInv`: a
  connection that is over has cost a fault already, and a message that may still be
  shown on this one (`Due`) leaves room for it. The hard part is `Stuck`: a
  notification that was dropped (a fault) while its frame filled the buffer, or
  that was of a ConnAck, ends the connection only with a later call, which must not
  be charged again. `WelcomeInv` is about how a connection starts: a ConnAck is
  nowhere but at the front of the stream, and only until it was read.
* `RxBufferProofs`: `TypeCorrect` and `QueueImplemented`, for every capacity and every
  set of bytes: the initial states map to the empty queue and each step to a step
  of `ByteQueue` or a stutter; `UsedSlice` is all that later steps depend on.
* `TransportClientProofs` holds the lemmas about `Framing` and `TransportClient`
  they rest on: moving bytes between the parts of the stream, removing a frame from
  its front, and what `on_bytes_received` may return.
* `WriterProofs`, first part (`WireFormat`): `LengthRoundTrip` for every length up to 268435455, from the
  digits adding up (`DigitsAddUp`) and from only the last byte of a length ending
  it (`EndsOnce`, also for a length of which only a part has arrived);
  `PartAsksWithinFrame` and `WholeFrameAccepted`, which are what `Framing` takes
  for granted of `check`; `StringRoundTrip` for strings of up to 65535 bytes at any
  place in a stream, and `LongStringIsLost` for longer ones: `write_mqtt_bytes`
  truncates their length and reports nothing, and the reader gets another string
  without an error.

* `WriterProofs`, second part: `LengthsAnnounced`, for every packet of `PacketSet` (each field
  any value of its Rust type, strings of any length), every writer of it and every
  capacity: the bytes are one frame, as long as its header says. A writer is a
  fold of puts, so an error or a lack of room in any of them ends it; the lengths
  `len` adds up are compared with the bytes of the puts, field by field and, for
  the lists of filters and return codes, item by item. A string of more than 65535
  bytes is among them: what it is read back as is another packet
  (`LongStringIsLost`), but it does not put the stream out of step.
* `PacketProofs`: `WholeFrameDecides`, that `read_exact` of any packet type on any
  bytes asks for nothing more, whatever they are; and, for every set of packets and foreign frames,
  buffer, limit and split of the stream, `StreamTyped`, `NeverAsksBeyond` and
  `ModelOfFrames`, from one invariant. `StreamInv` says that what arrived followed
  by what is on its way is the frames that were sent and not read, end to end;
  `LengthsAnnounced` keeps it when a packet is written, `WholeFrameAccepted` when
  one is read. With it `check` of what arrived is `check` of a part of one frame
  (`HeaderAtFront`, `ReadAtFront`), which `PartAsksWithinFrame` is about. Of a foreign frame only
  `OneFrame` is assumed: it is as long as its header says, or its length does not
  end. `ModelOfFrames` is what lets `NanoClient` speak of frames where the code
  has bytes: it was a comparison on a run, and holds for every frame.
* `ReadBackProofs`: `WrittenIsRead`, for every set of packets, foreign frames, buffer,
  limit and split of the stream, and for all three ways to write a Publish and all ways to write a
  Subscribe: what is read is what was written, field by field. Its hypothesis is that
  no string is longer than 65535 bytes (`ShortFields`); without it the theorem is false,
  as `LongStringIsLost` shows. The packets of the run `packets` satisfy it. The core is
  `WrittenReads`, of one packet: `At(b, from, s)` says where the bytes a writer put
  are, `FieldReads` that a field is read from where it was put, `ListReads` that a
  list is, and each type has a lemma that follows its reader from place to place; for
  a Connect also from the bits of its flags (`ConnectBits`) to the fields that are
  there. A topic written level by level is the topic (`TopicJoined`): the levels
  with slashes between them are its bytes (`LevelsJoined`), and the iterator gives
  them all, one item a step (`ItemStep`). The lemmas about fields, topics and the packets
  without lists are at the end of `PacketProofs`, the rest here. `BackInv` adds to `StreamInv` that every
  frame on the wire is one its packet is read from.
  `FiltersMatch`, of the topics and filters an application is given, also those
  in frames no writer of `packetview` made. `matches` walks two lists of levels and
  `Covers` says what MQTT means by it: `MatchedMeans` brings the walk into closed form
  (a table filled from the last level, `MatchTable`), `WildcardLevels` says what
  `valid_filter` leaves of the levels of a filter, and `MatchesMeansCovers` and
  `MatchesCarriesOver` compare the two. That a topic read is a string of bytes, without
  which there are no levels to speak of, is `MadeInv`: every packet read was read from a
  frame that was sent, and each reader makes of any frame a packet whose fields
  are of their types (`ExactRewritable`, from a lemma for every reader).
  `WritesAlike`, of the two codecs: for every set of packets and every buffer, the bytes
  `packetview` writes are those `mqttbytes` wrote, and as many as its `size` said. Two
  writers that put the same agree (`V4Takes`, `JoinedUnique`, at the end of `WriterProofs`), which
  settles the types both write put by put; a Publish or a Subscribe written in place is
  compared as a frame (`OutPublishAsV4`, `InPlaceAsV4`), since there `packetview` puts the
  header last and takes the length from what was put. Its hypothesis is that buffers
  are at least seven bytes smaller than the largest remaining length, 268435455: `mqttbytes` is given
  that as its limit for the whole frame, so a larger frame, which
  `packetview` may write into a larger buffer, is one it refuses. No
  bound on strings is needed: both truncate the length of a long one alike.
  `RereadAsRead`, of every packet that was read, also from a frame no writer of `packetview`
  made: each writer of it has room in a buffer as long as the largest remaining length, and
  what it writes is read as the same packet, to the last byte. Two facts carry it.
  A reader makes of a frame a packet that is no longer than the frame's body (`ExactFitting`,
  from a lemma for every reader that counts the bytes its fields took, `FieldsTake`),
  and a writer given five bytes more than that never runs out of room (`RoomToWrite`;
  five are what the in-place writers of Publish and Subscribe set aside for the header). What the
  reader gives back is also a packet whose strings are short and which `Normal` leaves
  as it is (`MadeRewritable`), so `WrittenReads` applies to it. Its hypothesis
  is that the reader's limit is at least five bytes below 268435455: the property
  writes into a buffer of that many bytes, in which the fixed header needs room
  too. A client's limit is the size of its receive buffer, which is far below it.

The theorems about folds and lists are by induction on their length, which the library's
induction theorems cannot be used for: they take the property as an operator.
`LeastNumber`, that a set of naturals which is not empty has a least member (from
the library's well-founded relations), takes their place, and `UpTo` makes of it a
rule for a property given as a set of numbers.

Only model-checked: the liveness properties, which are out of the prover's reach;
and `ReadsAsMqttBytes`, which compares every reader of one codec with that of the other.

## Not modelled

* In the client's models the layout of packets: one that does not fit is
  `Overflow`, one that does not parse is `Corrupt`.
* A closure given to `connect_subscribe` that ignores the error of an `add_str` that ran
  out of room: what that call had written stays in the buffer and is sent.
* `publish_state.rs`, which has no operations; `uclient.rs`, which is not compiled
  and unfinished: its `publish_qos1` is empty, and `publish_qos0` only writes a packet; `mqttbytes/v4/codec.rs`,
  which `mqttbytes` itself comments out, and the parts of `mqttbytes` that only
  build values and format them.
* `write_mqtt_bytes` on strings longer than 65535 bytes is proved about, not run.
* Flow control: a broker that stops reading while it cannot write, with a client
  that does not read while it writes, can block both. The code cannot prevent it,
  and the model lets the broker answer whatever is in flight.

## Plan

1. Done: framing, the sans-IO client, the async client with user, platform and
   broker, the FIFO channel it implements, and the theorems above.
2. Done: the codec on bytes, that it keeps what `Framing` says, and the theorems
   about lengths, strings and `check`.
3. Done: the array under `Buffer`, `TopicIterator` and `add_separated`, `mqttbytes` and its
   topics.
4. Done: the QoS session, with its theorems.
5. Done: `ImplementsChannel`, `RepeatsNeedFaults`, and the stream of packets for
   every packet and frame.
6. Done: `ReadsBack`, each reader run on the bytes of its writer.
7. Done: `FiltersMatchTopics`, from every packet read being one of `PacketSet`,
   `WritesAsMqttBytes`, and `RereadsAsRead`.
8. Left: `ReadsAsMqttBytes`, reader by reader.
