----------------------------- MODULE SessionProofs -----------------------------
(***************************************************************************)
(* What NanoClient makes of a session: theorems for every backlog, broker, *)
(* buffer capacity and number of faults, for a user that completes or      *)
(* forgets a notification before it asks for another, with the default     *)
(* action or none, and does not move the client to other buffers.          *)
(***************************************************************************)
EXTENDS QosSession, NanoClientProofs

(* Some bytes of message i are on their way to the user. *)
InStream(i) == \E k \in 1..Len(Stream) : Stream[k].frame = Backlog[i]

(* A publish in the stream is one the broker waits to hear of ... *)
BytesOwed ==
    \A k \in 1..Len(Stream) : Stream[k].frame.kind = "Publish" =>
        \E i \in Msgs : Stream[k].frame = Backlog[i] /\ phase[i] = "publish" /\ i \in sentNow

(* ... sent once on this connection ... *)
BytesOnce ==
    \A k, l \in 1..Len(Stream) :
        Stream[k] = Stream[l] /\ Stream[k].frame.kind = "Publish" => k = l

(* ... and behind the earlier ones the application has not seen. *)
BytesInOrder ==
    \A k \in 1..Len(Stream), i \in Msgs : Stream[k].frame = Backlog[i] =>
        \A j \in 1..(i - 1) : times[j] > 0 \/ \E l \in 1..(k - 1) : Stream[l].frame = Backlog[j]

(* What was sent on this connection and not seen is still in the stream. *)
SentIsShown ==
    \A i \in sentNow : phase[i] # "queued" /\ (phase[i] = "publish" => times[i] > 0 \/ InStream(i))

StreamPart == BytesOwed /\ BytesOnce /\ BytesInOrder /\ SentIsShown

(***************************************************************************)
(* A receipt, written or being written, is for one message: it was sent on *)
(* this connection, shown, and is out of the stream.                       *)
(***************************************************************************)
Receipts == {"PubAck", "PubRec"}

ReceiptOf(p, i) ==
    /\ p.pkid = Backlog[i].pkid
    /\ p.kind = IF Backlog[i].qos = 1 THEN "PubAck" ELSE "PubRec"

Backed(p) ==
    p.kind \in Receipts =>
        \E i \in Msgs : /\ ReceiptOf(p, i)
                        /\ phase[i] = "publish" /\ i \in sentNow
                        /\ times[i] > 0 /\ ~InStream(i)

Apart(p, q) == p.kind \in Receipts /\ q.kind \in Receipts => p.pkid # q.pkid

ReceiptPart ==
    /\ Backed(op.packet)
    /\ \A k \in 1..Len(out) : Backed(out[k]) /\ Apart(out[k], op.packet)
    /\ \A k, l \in 1..Len(out) : k # l => Apart(out[k], out[l])

(* A message the user holds a notification of has been shown. *)
HeldPart ==
    \A h \in 1..Len(held), i \in Msgs : held[h].bytes = Encode(Backlog[i]) => times[i] > 0

PkidsApart ==
    \A i, j \in Msgs : InFlight(i) /\ InFlight(j) /\ i # j => Backlog[i].pkid # Backlog[j].pkid

SessionInv ==
    /\ StreamPart /\ ReceiptPart /\ HeldPart /\ PkidsApart
    /\ ShownBeforeForgotten /\ FirstShownInOrder

-----------------------------------------------------------------------------
(* Facts about the constants and the stream. *)
LEMMA BacklogFacts ==
    /\ Msgs \subseteq Nat \ {0}
    /\ \A i \in Msgs : 1..(i - 1) \subseteq Msgs
    /\ \A i \in Msgs : /\ Backlog[i] \in Unsolicited /\ Backlog[i] \in Frames
                       /\ Backlog[i].kind = "Publish" /\ Backlog[i].qos \in {1, 2}
                       /\ Backlog[i].pkid \in PacketIds
    /\ \A i, j \in Msgs : Backlog[i] = Backlog[j] => i = j
<1>1. Backlog \in Seq(Unsolicited) /\ Len(Backlog) \in Nat
  BY SessionAssumption, LenProperties
<1>2. \A i \in Msgs : Backlog[i] \in Unsolicited
  BY <1>1, ElementOfSeq DEF Msgs
<1>3. \A i \in Msgs : Backlog[i] \in Frames /\ Backlog[i].pkid \in PacketIds
  BY <1>2, NanoAssumption, FramesAssumption DEF FrameSet
<1>4. Msgs \subseteq Nat \ {0} /\ \A i \in Msgs : 1..(i - 1) \subseteq Msgs
  BY <1>1 DEF Msgs
<1> QED
  BY <1>2, <1>3, <1>4, SessionAssumption

LEMMA EncodeInjective ==
    ASSUME NEW f \in Frames, NEW g \in Frames, Encode(f) = Encode(g)
    PROVE  f = g
<1>1. 1 \in 1..FrameLength(f) /\ 1 \in 1..FrameLength(g)
  BY FrameLengthType
<1>2. Encode(f)[1] = [frame |-> f, pos |-> 1] /\ Encode(g)[1] = [frame |-> g, pos |-> 1]
  BY <1>1, EncodeType
<1> QED
  BY <1>2

LEMMA StreamType ==
    ASSUME TypeOK
    PROVE  /\ Stream \in Seq(Bytes) /\ Len(Stream) = Len(rx) + Len(net)
           /\ Len(rx) \in Nat /\ Len(net) \in Nat /\ Len(Stream) \in Nat
           /\ \A k \in 1..Len(Stream) : Stream[k] \in Bytes
           /\ \A k \in 1..Len(rx) : Stream[k] = rx[k]
<1>1. rx \in Seq(Bytes) /\ net \in Seq(Bytes)
  BY DEF TypeOK
<1>2. Len(rx) \in Nat /\ Len(net) \in Nat
  BY <1>1, LenProperties
<1>3. /\ Stream \in Seq(Bytes) /\ Len(Stream) = Len(rx) + Len(net)
      /\ \A i \in 1..(Len(rx) + Len(net)) :
            Stream[i] = IF i <= Len(rx) THEN rx[i] ELSE net[i - Len(rx)]
  BY <1>1, ConcatProperties DEF Stream
<1>4. \A k \in 1..Len(Stream) : Stream[k] \in Bytes
  BY <1>3, ElementOfSeq
<1> QED
  BY <1>2, <1>3, <1>4

(* A message of which the stream has a byte is owed. *)
LEMMA InStreamOwed ==
    ASSUME BytesOwed, NEW i \in Msgs, InStream(i)
    PROVE  phase[i] = "publish" /\ i \in sentNow
<1>1. PICK k \in 1..Len(Stream) : Stream[k].frame = Backlog[i]
  BY DEF InStream
<1>2. PICK j \in Msgs : Backlog[i] = Backlog[j] /\ phase[j] = "publish" /\ j \in sentNow
  BY <1>1, BacklogFacts DEF BytesOwed
<1> QED
  BY <1>2, BacklogFacts

Grows == \A i \in Msgs : times[i] > 0 => times'[i] > 0

(* What was published stays with the broker as long as it is in the stream. *)
StillOwed == \A i \in Msgs : InStream(i) => phase'[i] = "publish" /\ i \in sentNow'

(***************************************************************************)
(* The stream loses n bytes at its front, none if n is 0, that are not of  *)
(* a message still to be shown.                                            *)
(***************************************************************************)
Cut(n) ==
    /\ Stream' = SubSeq(Stream, n + 1, Len(Stream))
    /\ \A k \in 1..n, i \in Msgs : Stream[k].frame = Backlog[i] => times[i] > 0

LEMMA CutPlaces ==
    ASSUME TypeOK, NEW n \in 0..Len(Stream), Stream' = SubSeq(Stream, n + 1, Len(Stream))
    PROVE  /\ Len(Stream') = Len(Stream) - n
           /\ \A k \in 1..Len(Stream') : n + k \in 1..Len(Stream) /\ Stream'[k] = Stream[n + k]
           /\ \A l \in 1..Len(Stream) : l > n => l - n \in 1..Len(Stream') /\ Stream'[l - n] = Stream[l]
<1>1. Len(Stream) \in Nat /\ \A k \in 1..Len(Stream) : Stream[k] \in Bytes
  BY StreamType
<1> DEFINE s == Stream
<1> DEFINE t == Stream'
<1>2. Len(s) \in Nat /\ n \in 0..Len(s) /\ \A k \in (n + 1)..Len(s) : s[k] \in Bytes
  BY <1>1
<1>3. t = SubSeq(s, n + 1, Len(s))
  OBVIOUS
<1> HIDE DEF s, t
<1>4. /\ Len(t) = Len(s) - n
      /\ \A k \in 1..(Len(s) - n) : t[k] = s[n + k]
  BY <1>2, <1>3, SubSeqProperties
<1>5. \A k \in 1..Len(t) : n + k \in 1..Len(s) /\ t[k] = s[n + k]
  BY <1>2, <1>4
<1>6. ASSUME NEW l \in 1..Len(s), l > n PROVE l - n \in 1..Len(t) /\ t[l - n] = s[l]
  <2>1. l - n \in 1..(Len(s) - n) /\ n + (l - n) = l
    BY <1>2, <1>6
  <2> QED
    BY <1>4, <2>1
<1> QED
  BY <1>4, <1>5, <1>6 DEF s, t

LEMMA CutForgets ==
    ASSUME TypeOK, NEW n \in 0..Len(Stream), Cut(n), NEW i \in Msgs, ~InStream(i)
    PROVE  ~InStream(i)'
<1> SUFFICES ASSUME NEW k \in 1..Len(Stream'), Stream'[k].frame = Backlog[i] PROVE FALSE
  BY DEF InStream
<1>1. n + k \in 1..Len(Stream) /\ Stream'[k] = Stream[n + k]
  BY CutPlaces DEF Cut
<1> QED
  BY <1>1 DEF InStream

LEMMA CutStream ==
    ASSUME TypeOK, times \in [Msgs -> Nat], times' \in [Msgs -> Nat], sentNow' \subseteq Msgs,
           StreamPart, Grows, StillOwed, NEW n \in 0..Len(Stream), Cut(n),
           \A i \in sentNow' : /\ phase'[i] # "queued"
                               /\ phase'[i] = "publish" => times'[i] > 0 \/ InStream(i)
    PROVE  StreamPart'
<1>1. /\ \A k \in 1..Len(Stream') : n + k \in 1..Len(Stream) /\ Stream'[k] = Stream[n + k]
      /\ \A l \in 1..Len(Stream) : l > n => l - n \in 1..Len(Stream') /\ Stream'[l - n] = Stream[l]
  BY CutPlaces DEF Cut
<1>2. BytesOwed'
  <2> SUFFICES ASSUME NEW k \in 1..Len(Stream'), Stream'[k].frame.kind = "Publish"
               PROVE  \E i \in Msgs : Stream'[k].frame = Backlog[i] /\ phase'[i] = "publish" /\ i \in sentNow'
    BY DEF BytesOwed
  <2>1. PICK i \in Msgs : Stream[n + k].frame = Backlog[i]
    BY <1>1 DEF StreamPart, BytesOwed
  <2>2. InStream(i)
    BY <1>1, <2>1 DEF InStream
  <2> QED
    BY <1>1, <2>1, <2>2 DEF StillOwed
<1>3. BytesOnce'
  <2> SUFFICES ASSUME NEW k \in 1..Len(Stream'), NEW l \in 1..Len(Stream'),
                      Stream'[k] = Stream'[l], Stream'[k].frame.kind = "Publish"
               PROVE  k = l
    BY DEF BytesOnce
  <2>1. n + k = n + l
    BY <1>1, SMTT(60) DEF StreamPart, BytesOnce
  <2> QED
    BY <2>1
<1>4. BytesInOrder'
  <2> SUFFICES ASSUME NEW k \in 1..Len(Stream'), NEW i \in Msgs, Stream'[k].frame = Backlog[i],
                      NEW j \in 1..(i - 1)
               PROVE  times'[j] > 0 \/ \E l \in 1..(k - 1) : Stream'[l].frame = Backlog[j]
    BY DEF BytesInOrder
  <2>1. j \in Msgs
    BY BacklogFacts
  <2>2. n + k \in 1..Len(Stream) /\ Stream[n + k].frame = Backlog[i]
    BY <1>1
  <2>3. times[j] > 0 \/ \E l \in 1..((n + k) - 1) : Stream[l].frame = Backlog[j]
    BY <2>2 DEF StreamPart, BytesInOrder
  <2>4. CASE times[j] > 0
    BY <2>1, <2>4 DEF Grows
  <2>5. ASSUME NEW l \in 1..((n + k) - 1), Stream[l].frame = Backlog[j]
        PROVE  times'[j] > 0 \/ \E m \in 1..(k - 1) : Stream'[m].frame = Backlog[j]
    <3>1. Len(Stream) \in Nat /\ l \in 1..Len(Stream)
      BY <2>2, StreamType
    <3>2. CASE l <= n
      <4>1. l \in 1..n
        BY <3>2
      <4> QED
        BY <2>1, <2>5, <4>1 DEF Cut, Grows
    <3>3. CASE l > n
      <4>1. l - n \in 1..(k - 1) /\ Stream'[l - n] = Stream[l]
        BY <1>1, <3>1, <3>3
      <4> QED
        BY <2>5, <4>1
    <3> QED
      BY <3>2, <3>3
  <2> QED
    BY <2>3, <2>4, <2>5
<1>5. SentIsShown'
  <2> SUFFICES ASSUME NEW i \in sentNow'
               PROVE  phase'[i] # "queued" /\ (phase'[i] = "publish" => times'[i] > 0 \/ InStream(i)')
    BY DEF SentIsShown
  <2>1. CASE ~InStream(i)
    BY <2>1
  <2>2. CASE InStream(i)
    <3>1. PICK l \in 1..Len(Stream) : Stream[l].frame = Backlog[i]
      BY <2>2 DEF InStream
    <3>2. CASE l <= n
      <4>1. l \in 1..n
        BY <3>2
      <4> QED
        BY <3>1, <4>1 DEF Cut, Grows
    <3>3. CASE l > n
      <4>1. l - n \in 1..Len(Stream') /\ Stream'[l - n].frame = Backlog[i]
        BY <1>1, <3>1, <3>3
      <4>2. InStream(i)'
        BY <4>1 DEF InStream
      <4> QED
        BY <4>2
    <3> QED
      BY <3>2, <3>3
  <2> QED
    BY <2>1, <2>2
<1> QED
  BY <1>2, <1>3, <1>4, <1>5 DEF StreamPart

(***************************************************************************)
(* The broker adds frame f; if it publishes, it is a message of the        *)
(* backlog that is not in the stream, in its turn.                         *)
(***************************************************************************)
InTurn(f) ==
    f.kind = "Publish" =>
        \E i \in Msgs : /\ f = Backlog[i]
                        /\ phase'[i] = "publish" /\ i \in sentNow' /\ ~InStream(i)
                        /\ \A j \in 1..(i - 1) : times[j] > 0 \/ InStream(j)

LEMMA AddPlaces ==
    ASSUME TypeOK, NEW f \in Frames, rx' = rx, net' = net \o Encode(f)
    PROVE  /\ \A k \in 1..Len(Stream) : k \in 1..Len(Stream') /\ Stream'[k] = Stream[k]
           /\ \A k \in 1..FrameLength(f) :
                 /\ Len(Stream) + k \in 1..Len(Stream')
                 /\ Stream'[Len(Stream) + k].frame = f
           /\ \A k \in 1..Len(Stream') : k > Len(Stream) =>
                 Stream'[k].frame = f /\ Stream'[k].pos = k - Len(Stream)
<1> DEFINE s == Stream
<1> DEFINE t == Stream'
<1> DEFINE e == Encode(f)
<1>1. /\ s \in Seq(Bytes) /\ e \in Seq(Bytes) /\ Len(s) \in Nat
      /\ Len(e) = FrameLength(f) /\ FrameLength(f) \in Nat
      /\ \A k \in 1..Len(e) : e[k] = [frame |-> f, pos |-> k]
  BY StreamType, EncodeType, FrameLengthType
<1>2. t = s \o e
  <2>1. rx \in Seq(Bytes) /\ net \in Seq(Bytes) /\ e \in Seq(Bytes)
    BY <1>1 DEF TypeOK
  <2> HIDE DEF e
  <2>2. rx \o (net \o e) = (rx \o net) \o e
    BY <2>1, ConcatAssociative, SMTT(60)
  <2> QED
    BY <2>2 DEF Stream, e
<1> HIDE DEF s, t, e
<1>3. /\ Len(t) = Len(s) + Len(e)
      /\ \A k \in 1..(Len(s) + Len(e)) : t[k] = IF k <= Len(s) THEN s[k] ELSE e[k - Len(s)]
  BY <1>1, <1>2, ConcatProperties
<1>4. \A k \in 1..Len(s) : k \in 1..Len(t) /\ t[k] = s[k]
  BY <1>1, <1>3
<1>5. ASSUME NEW k \in 1..Len(t), k > Len(s) PROVE t[k].frame = f /\ t[k].pos = k - Len(s)
  <2>1. k \in 1..(Len(s) + Len(e)) /\ ~(k <= Len(s)) /\ k - Len(s) \in 1..Len(e)
    BY <1>1, <1>3, <1>5
  <2>2. t[k] = e[k - Len(s)]
    BY <1>3, <2>1
  <2>3. t[k] = [frame |-> f, pos |-> k - Len(s)]
    BY <1>1, <2>1, <2>2
  <2> QED
    BY <2>3
<1>6. ASSUME NEW k \in 1..FrameLength(f)
      PROVE  Len(s) + k \in 1..Len(t) /\ t[Len(s) + k].frame = f
  <2>1. Len(s) + k \in 1..Len(t) /\ Len(s) + k > Len(s) /\ (Len(s) + k) - Len(s) = k
    BY <1>1, <1>3
  <2> QED
    BY <1>5, <2>1
<1> QED
  BY <1>4, <1>5, <1>6 DEF s, t

LEMMA AddForgets ==
    ASSUME TypeOK, NEW f \in Frames, rx' = rx, net' = net \o Encode(f),
           NEW i \in Msgs, ~InStream(i), f # Backlog[i]
    PROVE  ~InStream(i)'
<1> SUFFICES ASSUME NEW k \in 1..Len(Stream'), Stream'[k].frame = Backlog[i] PROVE FALSE
  BY DEF InStream
<1>1. Len(Stream) \in Nat
  BY StreamType
<1>2. CASE k > Len(Stream)
  BY <1>2, AddPlaces
<1>3. CASE ~(k > Len(Stream))
  <2>1. k \in 1..Len(Stream)
    BY <1>1, <1>3
  <2> QED
    BY <2>1, AddPlaces DEF InStream
<1> QED
  BY <1>2, <1>3

LEMMA AddStream ==
    ASSUME TypeOK, sentNow' \subseteq Msgs, UNCHANGED times,
           StreamPart, StillOwed, NEW f \in Frames, InTurn(f),
           rx' = rx, net' = net \o Encode(f),
           \A i \in sentNow' : /\ phase'[i] # "queued"
                               /\ phase'[i] = "publish" => times[i] > 0 \/ InStream(i) \/ f = Backlog[i]
    PROVE  StreamPart'
<1> DEFINE m == Len(Stream)
<1>1. /\ \A k \in 1..m : k \in 1..Len(Stream') /\ Stream'[k] = Stream[k]
      /\ \A k \in 1..Len(Stream') : k > m => Stream'[k].frame = f /\ Stream'[k].pos = k - m
      /\ m + 1 \in 1..Len(Stream') /\ Stream'[m + 1].frame = f
  <2>1. 1 \in 1..FrameLength(f)
    BY FrameLengthType
  <2> QED
    BY <2>1, AddPlaces
<1>2. m \in Nat
  BY StreamType
<1> HIDE DEF m
<1>3. \A k \in 1..Len(Stream') : k \in 1..m \/ k > m
  BY <1>2
<1>4. \A i \in Msgs : InStream(i) => \E l \in 1..m : Stream'[l].frame = Backlog[i]
  BY <1>1 DEF InStream, m
<1>5. BytesOwed'
  <2> SUFFICES ASSUME NEW k \in 1..Len(Stream'), Stream'[k].frame.kind = "Publish"
               PROVE  \E i \in Msgs : Stream'[k].frame = Backlog[i] /\ phase'[i] = "publish" /\ i \in sentNow'
    BY DEF BytesOwed
  <2>1. CASE k \in 1..m
    <3>1. PICK i \in Msgs : Stream[k].frame = Backlog[i]
      BY <1>1, <2>1 DEF StreamPart, BytesOwed, m
    <3>2. InStream(i)
      BY <2>1, <3>1 DEF InStream, m
    <3> QED
      BY <1>1, <2>1, <3>1, <3>2 DEF StillOwed
  <2>2. CASE k > m
    BY <1>1, <2>2 DEF InTurn
  <2> QED
    BY <1>3, <2>1, <2>2
<1>6. BytesOnce'
  <2>1. ASSUME NEW k \in 1..m, NEW l \in 1..Len(Stream'), l > m,
               Stream[k] = Stream'[l], Stream[k].frame.kind = "Publish"
        PROVE  FALSE
    <3>1. Stream[k].frame = f
      BY <1>1, <2>1
    <3>2. \A i \in Msgs : f = Backlog[i] => InStream(i)
      BY <3>1 DEF InStream, m
    <3> QED
      BY <2>1, <3>1, <3>2 DEF InTurn
  <2> SUFFICES ASSUME NEW k \in 1..Len(Stream'), NEW l \in 1..Len(Stream'),
                      Stream'[k] = Stream'[l], Stream'[k].frame.kind = "Publish"
               PROVE  k = l
    BY DEF BytesOnce
  <2>2. CASE k \in 1..m /\ l \in 1..m
    BY <1>1, <2>2 DEF StreamPart, BytesOnce, m
  <2>3. CASE k \in 1..m /\ l > m
    BY <1>1, <2>1, <2>3
  <2>4. CASE k > m /\ l \in 1..m
    BY <1>1, <2>1, <2>4
  <2>5. CASE k > m /\ l > m
    <3>1. k - m = l - m
      BY <1>1, <2>5
    <3> QED
      BY <1>2, <3>1
  <2> QED
    BY <1>3, <2>2, <2>3, <2>4, <2>5
<1>7. BytesInOrder'
  <2> SUFFICES ASSUME NEW k \in 1..Len(Stream'), NEW i \in Msgs, Stream'[k].frame = Backlog[i],
                      NEW j \in 1..(i - 1)
               PROVE  times[j] > 0 \/ \E l \in 1..(k - 1) : Stream'[l].frame = Backlog[j]
    BY DEF BytesInOrder
  <2>1. CASE k \in 1..m
    <3>1. times[j] > 0 \/ \E l \in 1..(k - 1) : Stream[l].frame = Backlog[j]
      BY <1>1, <2>1, ZenonT(60) DEF StreamPart, BytesInOrder, m
    <3>2. \A l \in 1..(k - 1) : l \in 1..m
      BY <1>2, <2>1
    <3> QED
      BY <1>1, <3>1, <3>2
  <2>2. CASE k > m
    <3>1. f = Backlog[i]
      BY <1>1, <2>2
    <3>2. times[j] > 0 \/ InStream(j)
      BY <3>1, BacklogFacts DEF InTurn
    <3>3. j \in Msgs
      BY BacklogFacts
    <3>4. \A l \in 1..m : l \in 1..(k - 1)
      BY <1>2, <2>2
    <3> QED
      BY <1>4, <3>2, <3>3, <3>4
  <2> QED
    BY <1>3, <2>1, <2>2
<1>8. SentIsShown'
  <2> SUFFICES ASSUME NEW i \in sentNow'
               PROVE  phase'[i] # "queued" /\ (phase'[i] = "publish" => times[i] > 0 \/ InStream(i)')
    BY DEF SentIsShown
  <2>1. CASE InStream(i)
    <3>1. PICK l \in 1..m : Stream'[l].frame = Backlog[i]
      BY <1>4, <2>1
    <3>2. InStream(i)'
      BY <1>1, <3>1 DEF InStream
    <3> QED
      BY <3>2
  <2>2. CASE f = Backlog[i]
    <3>1. InStream(i)'
      BY <1>1, <2>2 DEF InStream
    <3> QED
      BY <3>1
  <2> QED
    BY <2>1, <2>2
<1> QED
  BY <1>5, <1>6, <1>7, <1>8 DEF StreamPart

-----------------------------------------------------------------------------
(* The receipts: none is lost sight of, and those that are written leave   *)
(* op for out.                                                             *)
AnyPacket == OutPackets \cup {NoPacket}

StillBacked == \A p \in AnyPacket : Backed(p) => Backed(p)'

NoReceipt(w) == w.packet.kind \notin Receipts

LEMMA PacketTypes ==
    ASSUME TypeOK
    PROVE  /\ out \in Seq(OutPackets) /\ Len(out) \in Nat
           /\ \A k \in 1..Len(out) : out[k] \in AnyPacket
           /\ op.packet \in AnyPacket
<1>1. out \in Seq(OutPackets) /\ op \in Writes
  BY DEF TypeOK
<1>2. Len(out) \in Nat /\ \A k \in 1..Len(out) : out[k] \in OutPackets
  BY <1>1, LenProperties, ElementOfSeq
<1>3. op.packet \in AnyPacket
  BY <1>1 DEF Writes, AnyPacket
<1> QED
  BY <1>1, <1>2, <1>3 DEF AnyPacket

LEMMA ReceiptsStay ==
    ASSUME TypeOK, ReceiptPart, StillBacked, out' = out, op' = op \/ NoReceipt(op')
    PROVE  ReceiptPart'
<1>1. /\ \A k \in 1..Len(out) : Backed(out[k]) /\ out[k] \in AnyPacket
      /\ Backed(op.packet) /\ op.packet \in AnyPacket
  BY PacketTypes DEF ReceiptPart
<1>2. \A k \in 1..Len(out) : Backed(out[k])'
  BY <1>1 DEF StillBacked, Backed
<1>3. Backed(op.packet)'
  <2>1. CASE op' = op
    BY <1>1, <2>1 DEF StillBacked, Backed
  <2>2. CASE NoReceipt(op')
    BY <2>2 DEF NoReceipt, Backed
  <2> QED
    BY <2>1, <2>2
<1>4. \A k \in 1..Len(out) : Apart(out[k], op'.packet)
  BY DEF ReceiptPart, NoReceipt, Apart
<1> QED
  BY <1>2, <1>3, <1>4 DEF ReceiptPart, Apart

LEMMA ReceiptWritten ==
    ASSUME TypeOK, ReceiptPart, StillBacked, pc \in WritingPcs,
           out' = Append(out, op.packet), NoReceipt(op')
    PROVE  ReceiptPart'
<1> DEFINE m == Len(out)
<1>1. /\ m \in Nat /\ out \in Seq(OutPackets) /\ op.packet \in OutPackets
      /\ \A k \in 1..m : Backed(out[k]) /\ out[k] \in AnyPacket
      /\ Backed(op.packet) /\ op.packet \in AnyPacket
  BY PacketTypes DEF ReceiptPart, TypeOK
<1>2. /\ Len(out') = m + 1
      /\ \A k \in 1..m : out'[k] = out[k]
      /\ out'[m + 1] = op.packet
  BY <1>1, AppendProperties
<1> HIDE DEF m
<1>3. \A k \in 1..Len(out') : k \in 1..m \/ k = m + 1
  BY <1>1, <1>2
<1>4. \A k \in 1..Len(out') : Backed(out[k])'
  <2>1. ASSUME NEW k \in 1..Len(out'), k \in 1..m PROVE Backed(out[k])'
    BY <1>1, <1>2, <2>1 DEF StillBacked, Backed
  <2>2. ASSUME NEW k \in 1..Len(out'), k = m + 1 PROVE Backed(out[k])'
    BY <1>1, <1>2, <2>2 DEF StillBacked, Backed
  <2> QED
    BY <1>3, <2>1, <2>2
<1>5. Backed(op.packet)' /\ \A k \in 1..Len(out') : Apart(out'[k], op'.packet)
  BY DEF NoReceipt, Backed, Apart
<1>6. ASSUME NEW k \in 1..Len(out'), NEW l \in 1..Len(out'), k # l PROVE Apart(out'[k], out'[l])
  <2>1. CASE k \in 1..m /\ l \in 1..m
    BY <1>2, <1>6, <2>1 DEF ReceiptPart, m
  <2>2. CASE k \in 1..m /\ l = m + 1
    BY <1>2, <2>2 DEF ReceiptPart, m
  <2>3. CASE k = m + 1 /\ l \in 1..m
    BY <1>2, <2>3 DEF ReceiptPart, Apart, m
  <2> QED
    BY <1>3, <1>6, <2>1, <2>2, <2>3
<1> QED
  BY <1>4, <1>5, <1>6 DEF ReceiptPart, Apart

-----------------------------------------------------------------------------
(* Steps that leave the broker's session alone. *)
LEMMA CalmStep ==
    ASSUME SessionTypeOK, SessionInv, SessionTypeOK', UNCHANGED << phase, sentNow >>, Grows,
           NEW n \in 0..Len(Stream), Cut(n)
    PROVE  StreamPart' /\ PkidsApart' /\ ShownBeforeForgotten' /\ StillBacked
<1>1. StillOwed
  BY InStreamOwed DEF StillOwed, SessionInv, StreamPart
<1>2. TypeOK /\ times \in [Msgs -> Nat] /\ times' \in [Msgs -> Nat] /\ sentNow' \subseteq Msgs
  BY DEF SessionTypeOK
<1>3. \A i \in sentNow' : /\ phase'[i] # "queued"
                          /\ phase'[i] = "publish" => times'[i] > 0 \/ InStream(i)
  BY <1>2 DEF SessionInv, StreamPart, SentIsShown, Grows
<1>4. StreamPart'
  BY <1>1, <1>2, <1>3, CutStream DEF SessionInv
<1>5. \A i \in Msgs : ~InStream(i) => ~InStream(i)'
  BY <1>2, CutForgets
<1>6. StillBacked
  <2> SUFFICES ASSUME NEW p \in AnyPacket, Backed(p), p.kind \in Receipts
               PROVE  \E i \in Msgs : /\ ReceiptOf(p, i)
                                      /\ phase'[i] = "publish" /\ i \in sentNow'
                                      /\ times'[i] > 0 /\ ~InStream(i)'
    BY DEF StillBacked, Backed, ReceiptOf
  <2> QED
    BY <1>5 DEF Backed, Grows
<1>7. PkidsApart' /\ ShownBeforeForgotten'
  BY DEF SessionInv, PkidsApart, InFlight, ShownBeforeForgotten, Grows
<1> QED
  BY <1>4, <1>6, <1>7

LEMMA NothingNew ==
    ASSUME SessionInv, UNCHANGED times
    PROVE  Grows /\ FirstShownInOrder'
BY DEF Grows, SessionInv, FirstShownInOrder

LEMMA StillCut ==
    ASSUME TypeOK, UNCHANGED << rx, net >>
    PROVE  0 \in 0..Len(Stream) /\ Cut(0)
<1>1. Stream \in Seq(Bytes) /\ Len(Stream) \in Nat
  BY StreamType
<1>2. Stream' = Stream
  BY DEF Stream
<1>3. SubSeq(Stream, 1, Len(Stream)) = Stream
  BY <1>1, SubSeqFull
<1> QED
  BY <1>1, <1>2, <1>3 DEF Cut

LEMMA HeldStays ==
    ASSUME HeldPart, UNCHANGED times, held' = held \/ Len(held') = 0
    PROVE  HeldPart'
BY DEF HeldPart

(* A step that leaves the stream alone too, and writes op if anything. *)
LEMMA QuietSession ==
    ASSUME SessionTypeOK, SessionInv, SessionTypeOK', HeldPart',
           UNCHANGED << rx, net, phase, sentNow, times >>,
           \/ out' = out /\ (op' = op \/ NoReceipt(op'))
           \/ pc \in WritingPcs /\ out' = Append(out, op.packet) /\ NoReceipt(op')
    PROVE  SessionInv'
<1>1. TypeOK
  BY DEF SessionTypeOK
<1>2. /\ StreamPart' /\ PkidsApart' /\ ShownBeforeForgotten' /\ FirstShownInOrder'
      /\ StillBacked
  BY <1>1, StillCut, CalmStep, NothingNew
<1>3. ReceiptPart'
  BY <1>1, <1>2, ReceiptsStay, ReceiptWritten DEF SessionInv
<1> QED
  BY <1>2, <1>3 DEF SessionInv

LEMMA ReturnNoReceipt == ASSUME NEW r, Return(r) PROVE NoReceipt(op')
BY DEF Return, NoReceipt, NoWrite, Writing, NoPacket, Receipts

-----------------------------------------------------------------------------
(***************************************************************************)
(* Every step is a step of NanoClient, so what is proved of NanoClient     *)
(* holds in a session.                                                     *)
(***************************************************************************)
LEMMA SessionStep == ASSUME [SessionNext]_svars PROVE [Next]_vars
<1>1. CASE Connect
  BY <1>1 DEF Connect, Next
<1>2. CASE Client
  <2>1. CASE Loop
    BY <2>1 DEF Loop, Next
  <2>2. CASE Call
    BY <2>2 DEF Call, Next
  <2>3. CASE Read
    BY <2>3 DEF Read, Next
  <2> QED
    BY <1>2, <2>1, <2>2, <2>3 DEF Client
<1>3. CASE Clock
  BY <1>3 DEF Clock, Next
<1>4. CASE Mishap
  BY <1>4 DEF Mishap, Next
<1>5. CASE Deliver
  <2>1. PICK i \in Msgs : Publish(i) \/ Release(i)
    BY <1>5 DEF Deliver
  <2>2. Backlog[i] \in Unsolicited /\ PubRelOf(Backlog[i].pkid) \in Unsolicited
    BY BacklogFacts, SessionAssumption
  <2> QED
    BY <2>1, <2>2 DEF Publish, Release, Next
<1>6. CASE Take
  BY <1>6 DEF Take, Next
<1>7. CASE UNCHANGED svars
  BY <1>7 DEF svars
<1> QED
  BY <1>1, <1>2, <1>3, <1>4, <1>5, <1>6, <1>7 DEF SessionNext

THEOREM SessionIsNano == SessionSpec => Spec
<1>1. SessionInit => Init
  BY DEF SessionInit
<1>2. [SessionNext]_svars => [Next]_vars
  BY SessionStep
<1> QED
  BY <1>1, <1>2, PTL DEF SessionSpec, Spec

LEMMA NextSessionTypeOK == SessionTypeOK /\ [SessionNext]_svars => SessionTypeOK'
<1> SUFFICES ASSUME SessionTypeOK, [SessionNext]_svars PROVE SessionTypeOK'
  OBVIOUS
<1>1. TypeOK'
  BY SessionStep, NextTypeOK DEF SessionTypeOK
<1> DEFINE BrokerOK == phase \in [Msgs -> Phases] /\ sentNow \subseteq Msgs /\ serving \in BOOLEAN
<1>2. BrokerOK /\ times \in [Msgs -> Nat] /\ faults \in 0..MaxFaults /\ MaxFaults \in Nat
  BY SessionAssumption DEF SessionTypeOK
<1>3. ASSUME BrokerOK', times' \in [Msgs -> Nat], faults' \in 0..MaxFaults PROVE SessionTypeOK'
  BY <1>1, <1>3 DEF SessionTypeOK
<1>4. NothingShown \/ NotePublish => times' \in [Msgs -> Nat]
  BY <1>2 DEF NothingShown, NotePublish
<1>5. Faultless \/ Fault => faults' \in 0..MaxFaults
  BY <1>2 DEF Faultless, Fault
<1>6. UNCHANGED session => BrokerOK'
  BY <1>2 DEF session
<1>7. CASE Connect
  <2>1. Faultless \/ Fault
    BY <1>7 DEF Connect
  <2>2. BrokerOK'
    BY <1>2, <1>7 DEF Connect
  <2> QED
    BY <1>3, <1>4, <1>5, <1>7, <2>1, <2>2 DEF Connect
<1>8. CASE Client \/ Clock \/ Mishap
  BY <1>3, <1>4, <1>5, <1>6, <1>8 DEF Client, Clock, Mishap
<1>9. ASSUME NEW i \in Msgs, Publish(i) PROVE SessionTypeOK'
  <2>1. phase' \in [Msgs -> Phases] /\ sentNow' \subseteq Msgs
    BY <1>2, <1>9 DEF Publish, Phases
  <2>2. BrokerOK'
    BY <1>2, <1>9, <2>1 DEF Publish
  <2> QED
    BY <1>3, <1>4, <1>5, <1>9, <2>2 DEF Publish
<1>10. ASSUME NEW i \in Msgs, Release(i) PROVE SessionTypeOK'
  <2>1. BrokerOK'
    BY <1>2, <1>10 DEF Release
  <2> QED
    BY <1>3, <1>4, <1>5, <1>10, <2>1 DEF Release
<1>11. CASE Take
  <2>1. \A i \in Msgs : PhaseAfter(Head(out), i) \in Phases
    BY <1>2 DEF PhaseAfter, Phases
  <2>2. phase' \in [Msgs -> Phases] /\ sentNow' \subseteq Msgs
    BY <1>2, <1>11, <2>1 DEF Take
  <2>3. serving' \in BOOLEAN
    BY <1>2, <1>11, Zenon DEF Take
  <2> QED
    BY <1>3, <1>4, <1>5, <1>11, <2>2, <2>3 DEF Take
<1>12. CASE UNCHANGED svars
  BY <1>2, <1>3, <1>6, <1>12 DEF svars, session
<1> QED
  BY <1>7, <1>8, <1>9, <1>10, <1>11, <1>12 DEF SessionNext, Deliver

LEMMA InitSession == SessionInit => SessionTypeOK /\ SessionInv
<1> SUFFICES ASSUME SessionInit PROVE SessionTypeOK /\ SessionInv
  OBVIOUS
<1>1. Init /\ sentNow = {}
  BY DEF SessionInit
<1>2. SessionTypeOK
  <2>1. MaxFaults \in Nat /\ 0 \in 0..MaxFaults
    BY SessionAssumption
  <2> QED
    BY <1>1, <2>1, InitTypeOK DEF SessionInit, SessionTypeOK, Phases
<1>3. Len(Stream) = 0
  BY <1>1, EmptySeq, ConcatEmptySeq DEF Init, Stream
<1>4. StreamPart
  BY <1>1, <1>3 DEF StreamPart, BytesOwed, BytesOnce, BytesInOrder, SentIsShown
<1>5. Len(out) = 0 /\ Len(held) = 0 /\ op.packet.kind \notin Receipts
  BY <1>1, EmptySeq DEF Init, NoWrite, Writing, NoPacket, Receipts
<1>6. ReceiptPart /\ HeldPart
  BY <1>5 DEF ReceiptPart, HeldPart, Backed
<1>7. PkidsApart /\ ShownBeforeForgotten /\ FirstShownInOrder
  BY BacklogFacts DEF SessionInit, PkidsApart, InFlight, ShownBeforeForgotten, FirstShownInOrder
<1> QED
  BY <1>2, <1>4, <1>6, <1>7 DEF SessionInv

-----------------------------------------------------------------------------
(* A new connection: nothing in the stream, nothing sent on it yet. *)
LEMMA ConnectSession ==
    ASSUME MaxHeld = 0, SessionTypeOK, SessionInv, Connect
    PROVE  SessionInv'
<1>1. PICK ka \in KeepAlives : ConnectCall(ka, FALSE)
  BY DEF Connect
<1>2. Len(held') = 0
  <2>1. held \in Seq(Notifications)
    BY DEF SessionTypeOK, TypeOK
  <2> QED
    BY <1>1, <2>1, LenProperties DEF ConnectCall, MayGoOn
<1>3. /\ rx' = << >> /\ net' = << >> /\ out' = << >>
      /\ sentNow' = {} /\ UNCHANGED << phase, times >>
  BY <1>1 DEF Connect, ConnectCall, ResetBuffer, NothingShown
<1>4. Len(Stream') = 0 /\ Len(out') = 0
  BY <1>3, EmptySeq, ConcatEmptySeq DEF Stream
<1>5. StreamPart'
  BY <1>3, <1>4 DEF StreamPart, BytesOwed, BytesOnce, BytesInOrder, SentIsShown
<1>6. NoReceipt(op')
  BY <1>1, ReturnNoReceipt DEF ConnectCall, Await, Writing, OutPacket, NoReceipt, Receipts
<1>7. ReceiptPart' /\ HeldPart'
  BY <1>2, <1>4, <1>6 DEF ReceiptPart, HeldPart, Backed, NoReceipt
<1> QED
  BY <1>3, <1>5, <1>7
     DEF SessionInv, PkidsApart, InFlight, ShownBeforeForgotten, FirstShownInOrder

(***************************************************************************)
(* A PUBLISH that is removed is in the stream no more: it was there once.  *)
(***************************************************************************)
LEMMA FrontGone ==
    ASSUME TypeOK, StreamInv, BytesOnce, Stream # << >>, NEW n,
           n = FrameLength(Stream[1].frame), n \in 0..Len(Stream),
           Stream' = SubSeq(Stream, n + 1, Len(Stream)),
           Stream[1].frame.kind = "Publish",
           NEW k \in 1..Len(Stream')
    PROVE  Stream'[k].frame # Stream[1].frame
<1> DEFINE f == Stream[1].frame
<1> SUFFICES ASSUME Stream'[k].frame = f PROVE FALSE
  OBVIOUS
<1>1. n + k \in 1..Len(Stream) /\ Stream[n + k].frame = f
  BY CutPlaces
<1> DEFINE b == Stream[n + k]
<1>2. b \in Bytes /\ b.pos \in Nat \ {0} /\ b = [frame |-> b.frame, pos |-> b.pos]
  BY <1>1, StreamType DEF Bytes
<1>3. b.pos <= FrameLength(f)
  BY <1>1 DEF StreamInv, StreamIsFramed, WholeFrames
<1>4. \A l \in 1..FrameLength(f) : Stream[l] = [frame |-> f, pos |-> l]
  BY StreamType, WholeFront DEF StreamInv, StreamIsFramed
<1>5. b.pos \in 1..n
  BY <1>2, <1>3
<1>6. Stream[b.pos] = b
  BY <1>1, <1>2, <1>4, <1>5
<1>7. b.pos = n + k
  <2>1. b.pos \in 1..Len(Stream) /\ Len(Stream) \in Nat
    BY <1>5, StreamType
  <2>2. b.frame.kind = "Publish"
    BY <1>1
  <2> QED
    BY <1>1, <1>6, <2>1, <2>2 DEF BytesOnce
<1> HIDE DEF b
<1>8. n \in Nat /\ k \in Nat \ {0} /\ Len(Stream') \in Nat
  BY StreamType, CutPlaces, SMTT(60)
<1> QED
  BY <1>5, <1>7, <1>8

(***************************************************************************)
(* Completing: the frame leaves the stream and its receipt, if the default *)
(* action is one, is for the message the user was shown.                   *)
(***************************************************************************)
LEMMA CompletionReceipt ==
    ASSUME "with_action" \notin UserOps, NEW t, NEW c \in Completions(t), c[1].kind \in Receipts
    PROVE  /\ t.kind = "Publish"
           /\ \/ t.qos = 1 /\ c[1] = OutPacket("PubAck", t.pkid)
              \/ t.qos = 2 /\ c[1] = OutPacket("PubRec", t.pkid)
<1>1. c[1] \in {DefaultAction(t), NoPacket, PingOnly(t)}
  BY DEF Completions
<1>2. c[1] = DefaultAction(t)
  BY <1>1 DEF PingOnly, NoPacket, OutPacket, Receipts
<1> QED
  BY <1>2 DEF DefaultAction, NoPacket, OutPacket, Receipts

LEMMA CompleteSession ==
    ASSUME MaxHeld = 0, "with_action" \notin UserOps, StreamInv, SessionTypeOK, SessionTypeOK',
           SessionInv, NEW i \in 1..Len(held), Complete(i), UNCHANGED << phase, sentNow, times >>
    PROVE  SessionInv'
<1> DEFINE t == held[i]
<1> DEFINE n == t.taken
<1> DEFINE f == rx[1].frame
<1>a. TypeOK
  BY DEF SessionTypeOK
<1>b. /\ Len(Stream) \in Nat /\ Len(rx) \in Nat /\ Len(rx) <= Len(Stream)
      /\ Stream \in Seq(Bytes) /\ rx \in Seq(Bytes) /\ net \in Seq(Bytes)
      /\ held \in Seq(Notifications)
  BY <1>a, StreamType DEF TypeOK
<1>c. OfFront(t)
  BY DEF StreamInv, HeldInv
<1>1. Len(held') = 0
  BY <1>b, RemoveOnly DEF Complete, StreamInv, HeldInv
<1>2. PICK c \in Completions(t) :
          IF c[1] = NoPacket THEN Return("Ok") ELSE Transmit(c[1], c[2], Removed(rx, n))
  BY DEF Complete
<1>3. NoReceipt(op') \/ op'.packet = c[1]
  BY <1>2, ReturnNoReceipt DEF Transmit, Await, Writing
(* What is removed is the frame of the notification, or nothing. *)
<1>4. /\ n \in 0..Len(rx)
      /\ \A k \in 1..n : Stream[k].frame = f /\ t.bytes = Encode(f) /\ f \in Frames
  <2>1. CASE t.kind \notin PacketKinds /\ t.taken = 0
    BY <1>b, <2>1
  <2>2. CASE /\ rx # << >> /\ t.bytes = Encode(f)
             /\ t.taken = FrameLength(f) /\ t.taken <= Len(rx)
    <3>1. WholeFrames(Stream) /\ Stream # << >> /\ Stream[1] = rx[1]
      <4>1. Len(rx) # 0 /\ 1 \in 1..Len(rx)
        BY <1>b, <2>2, EmptySeq
      <4>2. Stream[1] = rx[1] /\ Len(Stream) # 0
        BY <1>a, <1>b, <4>1, StreamType
      <4> QED
        BY <4>2, EmptySeq DEF StreamInv, StreamIsFramed
    <3>2. /\ f \in Frames
          /\ \A k \in 1..FrameLength(f) : Stream[k] = [frame |-> f, pos |-> k]
      BY <1>b, <3>1, WholeFront
    <3>3. FrameLength(f) \in Nat
      BY <3>2, FrameLengthType
    <3>4. \A k \in 1..FrameLength(f) : Stream[k].frame = f
      <4> SUFFICES ASSUME NEW k \in 1..FrameLength(f) PROVE Stream[k].frame = f
        OBVIOUS
      <4>1. Stream[k] = [frame |-> f, pos |-> k]
        BY <3>2
      <4> QED
        BY <4>1
    <3> QED
      BY <1>b, <2>2, <3>2, <3>3, <3>4
  <2> QED
    BY <1>c, <2>1, <2>2 DEF OfFront
<1>5. n \in 0..Len(Stream) /\ Cut(n)
  <2>1. n \in 0..Len(Stream)
    BY <1>b, <1>4
  <2>2. RemovePrefix(rx, n) \o net = SubSeq(Stream, n + 1, Len(Stream))
    BY <1>b, <1>4, RemoveFront DEF RemovePrefix, Stream
  <2>3. Stream' = SubSeq(Stream, n + 1, Len(Stream))
    BY <2>2 DEF Complete, Stream
  <2>4. \A k \in 1..n, j \in Msgs : Stream[k].frame = Backlog[j] => times[j] > 0
    BY <1>4 DEF SessionInv, HeldPart
  <2> QED
    BY <2>1, <2>3, <2>4 DEF Cut
<1>6. /\ StreamPart' /\ PkidsApart' /\ ShownBeforeForgotten' /\ FirstShownInOrder'
      /\ StillBacked
  BY <1>5, CalmStep, NothingNew
<1>7. out' = out
  BY DEF Complete
<1>8. CASE NoReceipt(op')
  <2>1. ReceiptPart'
    BY <1>a, <1>6, <1>7, <1>8, ReceiptsStay DEF SessionInv
  <2> QED
    BY <1>1, <1>6, <2>1 DEF SessionInv, HeldPart
<1>9. CASE op'.packet = c[1] /\ c[1].kind \in Receipts
  <2>1. /\ t.kind = "Publish"
        /\ \/ t.qos = 1 /\ c[1] = OutPacket("PubAck", t.pkid)
           \/ t.qos = 2 /\ c[1] = OutPacket("PubRec", t.pkid)
    BY <1>9, CompletionReceipt
  <2>2. /\ rx # << >>
        /\ t.kind = f.kind /\ t.qos = f.qos /\ t.pkid = f.pkid
        /\ t.bytes = Encode(f) /\ n = FrameLength(f)
    BY <1>c, <2>1 DEF OfFront, PacketKinds
  <2>3. 1 \in 1..Len(Stream) /\ Stream[1].frame = f /\ f \in Frames /\ 1 \in 1..n
    <3>1. Len(rx) # 0 /\ 1 \in 1..Len(rx)
      BY <1>b, <2>2, EmptySeq
    <3>2. Stream[1] = rx[1] /\ 1 \in 1..Len(Stream)
      BY <1>a, <1>b, <3>1, StreamType
    <3>3. rx[1] \in Bytes
      BY <1>b, <3>1, ElementOfSeq
    <3>4. f \in Frames
      BY <3>3 DEF Bytes
    <3>5. 1 \in 1..n
      BY <2>2, <3>4, FrameLengthType
    <3> QED
      BY <3>2, <3>4, <3>5
  <2>4. PICK m \in Msgs : f = Backlog[m] /\ phase[m] = "publish" /\ m \in sentNow
    BY <2>1, <2>2, <2>3 DEF SessionInv, StreamPart, BytesOwed
  <2>5. times[m] > 0
    BY <2>2, <2>4 DEF SessionInv, HeldPart
  <2>6. ReceiptOf(c[1], m)
    BY <2>1, <2>2, <2>4 DEF ReceiptOf, OutPacket
(* It was in the stream once, so it is not there any more. *)
  <2>7. ~InStream(m)'
    <3> SUFFICES ASSUME NEW k \in 1..Len(Stream'), Stream'[k].frame = f PROVE FALSE
      BY <2>4 DEF InStream
    <3>1. Stream # << >>
      <4>1. Len(Stream) # 0
        BY <1>b, <2>3
      <4> QED
        BY <4>1, EmptySeq
    <3>2. Stream[1].frame.kind = "Publish" /\ n = FrameLength(Stream[1].frame)
      BY <2>1, <2>2, <2>3
    <3>3. BytesOnce /\ Stream' = SubSeq(Stream, n + 1, Len(Stream))
      BY <1>5 DEF Cut, SessionInv, StreamPart
    <3> HIDE DEF n
    <3> QED
      BY <1>a, <1>5, <2>3, <3>1, <3>2, <3>3, FrontGone
  <2>8. Backed(op.packet)'
    BY <1>9, <2>4, <2>5, <2>6, <2>7 DEF Backed, ReceiptOf
(* And no receipt of it was written before. *)
  <2>9. ASSUME NEW k \in 1..Len(out) PROVE Apart(out[k], c[1])
    <3> SUFFICES ASSUME out[k].kind \in Receipts, out[k].pkid = c[1].pkid PROVE FALSE
      BY DEF Apart
    <3>1. PICK j \in Msgs : ReceiptOf(out[k], j) /\ phase[j] = "publish" /\ ~InStream(j)
      BY DEF SessionInv, ReceiptPart, Backed
    <3>2. j = m
      BY <2>4, <2>6, <3>1 DEF ReceiptOf, SessionInv, PkidsApart, InFlight
    <3> QED
      BY <2>3, <2>4, <3>1, <3>2 DEF InStream
  <2>10. ReceiptPart'
    <3>1. \A k \in 1..Len(out) : Backed(out[k])' /\ Apart(out[k], op'.packet)
      <4>1. \A k \in 1..Len(out) : Backed(out[k]) /\ out[k] \in AnyPacket
        BY <1>a, PacketTypes DEF SessionInv, ReceiptPart
      <4> QED
        BY <1>6, <1>7, <1>9, <2>9, <4>1 DEF StillBacked, Backed
    <3> QED
      BY <1>7, <2>8, <3>1 DEF SessionInv, ReceiptPart, Apart
  <2> QED
    BY <1>1, <1>6, <2>10 DEF SessionInv, HeldPart
<1> QED
  BY <1>3, <1>8, <1>9 DEF NoReceipt

-----------------------------------------------------------------------------
(* What is shown is the message at the front of the stream. *)
LEMMA ShownIsFront ==
    ASSUME TypeOK, StreamInv, StreamInv', NEW n \in 1..Capacity, ReadBytes(n),
           NEW i \in Msgs, Shown(i)
    PROVE  1 \in 1..Len(Stream) /\ Stream[1].frame = Backlog[i]
<1> DEFINE data == rx \o SubSeq(net, 1, n)
<1> DEFINE f == data[1].frame
<1>1. /\ data \in Seq(Bytes) /\ data # << >> /\ net' \in Seq(Bytes)
      /\ WholeFrames(data \o net') /\ Len(held) = 0
      /\ \/ pc = "connack" /\ ContinueConnect(f, data)
         \/ pc = "read" /\ ContinueRead(f, data)
  BY ReadBytesStream
<1>2. data \o net' = Stream
  <2>1. n \in 0..Len(net) /\ net' = SubSeq(net, n + 1, Len(net))
    BY DEF ReadBytes
  <2> QED
    BY <2>1, MoveBytes DEF TypeOK, Stream
<1>3. 1 \in 1..Len(Stream) /\ Stream[1] = data[1] /\ f \in Frames
  <2> HIDE DEF data
  <2>1. Len(data) \in Nat \ {0} /\ Len(net') \in Nat
    BY <1>1, EmptySeq, LenProperties
  <2>2. /\ Len(Stream) = Len(data) + Len(net')
        /\ 1 \in 1..(Len(data) + Len(net')) /\ 1 <= Len(data)
        /\ \A k \in 1..(Len(data) + Len(net')) :
              Stream[k] = IF k <= Len(data) THEN data[k] ELSE net'[k - Len(data)]
    BY <1>1, <1>2, <2>1, ConcatProperties
  <2>3. data[1] \in Bytes
    BY <1>1, <2>1, ElementOfSeq
  <2> QED
    BY <2>2, <2>3 DEF Bytes
<1> DEFINE v == OnBytesReceived(f, Len(data))
<1> DEFINE t == Notified(v.kind, f, v.taken, Removed(data, v.taken))
<1>4. held' = Append(held, t) /\ rx' = data
  <2>1. held' # held
    BY DEF Shown
  <2> QED
    BY <1>1, <2>1 DEF ContinueConnect, ContinueRead
<1>5. Len(held') = 1 /\ held'[1] = t
  <2>1. held \in Seq(Notifications)
    BY DEF TypeOK
  <2>2. held = << >>
    BY <1>1, <2>1, EmptySeq
  <2> HIDE DEF t
  <2>3. Append(<< >>, t) = << t >>
    OBVIOUS
  <2> QED
    BY <1>4, <2>2, <2>3
<1>6. t.bytes = Encode(Backlog[i]) /\ t.taken = v.taken /\ t.bytes = Removed(data, v.taken)
  <2>1. t.bytes = Encode(Backlog[i])
    <3> HIDE DEF t
    <3> QED
      BY <1>5 DEF Shown
  <2> QED
    BY <2>1 DEF Notified
<1>7. Len(Encode(Backlog[i])) # 0 /\ Backlog[i] \in Frames
  BY BacklogFacts, EncodeType, FrameLengthType
<1>8. v.taken # 0
  <2> SUFFICES ASSUME v.taken = 0 PROVE FALSE
    OBVIOUS
  <2> HIDE DEF data
  <2>1. Len(data) \in Nat \ {0}
    BY <1>1, EmptySeq, LenProperties
  <2>2. Removed(data, 0) = SubSeq(data, 1, 0)
    BY <2>1 DEF Removed
  <2>3. SubSeq(data, 1, 0) = << >>
    BY SubSeqEmpty
  <2> QED
    BY <1>6, <1>7, <2>2, <2>3, EmptySeq
<1>9. OfFront(held[1])'
  BY <1>5 DEF StreamInv, HeldInv
<1>10. t.bytes = Encode(f)
  <2>1. held'[1].taken # 0 /\ held'[1].bytes = t.bytes
    BY <1>5, <1>6, <1>8
  <2>2. held'[1].bytes = Encode(rx'[1].frame)
    BY <1>9, <2>1 DEF OfFront
  <2> QED
    BY <1>4, <2>1, <2>2
<1> QED
  BY <1>3, <1>6, <1>7, <1>10, EncodeInjective

(***************************************************************************)
(* Reading: the stream keeps its bytes, or loses the ConnAck, and what is  *)
(* shown is noted.                                                         *)
(***************************************************************************)
LEMMA ReadCut ==
    ASSUME TypeOK, StreamInv, NEW n \in 1..Capacity, ReadBytes(n)
    PROVE  \E m \in 0..Len(Stream) : Cut(m)
<1> DEFINE data == rx \o SubSeq(net, 1, n)
<1> DEFINE f == data[1].frame
<1> DEFINE v == OnBytesReceived(f, Len(data))
<1>1. /\ data \in Seq(Bytes) /\ data # << >> /\ net' \in Seq(Bytes)
      /\ WholeFrames(data \o net')
      /\ \/ pc = "connack" /\ ContinueConnect(f, data)
         \/ pc = "read" /\ ContinueRead(f, data)
  BY ReadBytesStream
<1>2. data \o net' = Stream
  <2>1. n \in 0..Len(net) /\ net' = SubSeq(net, n + 1, Len(net))
    BY DEF ReadBytes
  <2> QED
    BY <2>1, MoveBytes DEF TypeOK, Stream
<1>3. /\ Stream \in Seq(Bytes) /\ Len(Stream) \in Nat /\ Len(data) \in Nat
      /\ Len(data) <= Len(Stream)
  <2> HIDE DEF data
  <2>1. Len(Stream) = Len(data) + Len(net')
    BY <1>1, <1>2, ConcatProperties
  <2> QED
    BY <1>1, <2>1, StreamType, LenProperties
<1>4. CASE rx' = data
  <2>1. Stream' = SubSeq(Stream, 1, Len(Stream))
    BY <1>2, <1>3, <1>4, SubSeqFull DEF Stream
  <2>2. 0 \in 0..Len(Stream) /\ Cut(0)
    BY <1>3, <2>1 DEF Cut
  <2> QED
    BY <2>2
<1>5. CASE v.kind = "ConnAck" /\ rx' = RemovePrefix(data, v.taken)
  <2> HIDE DEF data
  <2>1. f \in Frames /\ Len(data) \in Nat
    BY <1>1, <1>3, FrontFrame
  <2>2. f.kind = "ConnAck" /\ v.taken = FrameLength(f) /\ FrameLength(f) \in 0..Len(data)
    BY <1>5, <2>1, VerdictFacts, FrameLengthType DEF TypeOK, ReadOk, Framed
  <2>3. RemovePrefix(data, v.taken) \o net' = SubSeq(Stream, v.taken + 1, Len(Stream))
    BY <1>1, <1>2, <2>2, RemoveFront DEF RemovePrefix
  <2>4. Stream' = SubSeq(Stream, v.taken + 1, Len(Stream))
    BY <1>5, <2>3 DEF Stream
  <2>5. WholeFrames(Stream) /\ Stream # << >> /\ Stream[1].frame = f
    <3>1. Len(data) # 0 /\ 1 \in 1..(Len(data) + Len(net')) /\ 1 <= Len(data)
      BY <1>1, EmptySeq, LenProperties
    <3>2. Stream[1] = data[1]
      BY <1>1, <1>2, <3>1, ConcatProperties
    <3>3. Len(Stream) # 0
      BY <1>3, <3>1
    <3> QED
      BY <1>1, <1>2, <3>2, <3>3, EmptySeq
  <2>6. \A k \in 1..FrameLength(f) : Stream[k].frame = f
    <3> SUFFICES ASSUME NEW k \in 1..FrameLength(f) PROVE Stream[k].frame = f
      OBVIOUS
    <3>1. Stream[k] = [frame |-> f, pos |-> k]
      BY <1>3, <2>5, WholeFront
    <3> QED
      BY <3>1
  <2>7. \A k \in 1..v.taken, i \in Msgs : Stream[k].frame # Backlog[i]
    BY <2>2, <2>6, BacklogFacts
  <2>8. v.taken \in 0..Len(Stream)
    BY <1>3, <2>2
  <2> QED
    BY <2>4, <2>7, <2>8 DEF Cut
<1> QED
  BY <1>1, <1>4, <1>5 DEF ContinueConnect, ContinueRead

LEMMA ReadSession ==
    ASSUME StreamInv, StreamInv', SessionTypeOK, SessionTypeOK', SessionInv,
           NEW n \in 1..Capacity, ReadBytes(n), NotePublish, UNCHANGED << phase, sentNow >>
    PROVE  SessionInv'
<1>1. TypeOK /\ times \in [Msgs -> Nat]
  BY DEF SessionTypeOK
<1>2. \A i \in Msgs : times'[i] = IF Shown(i) THEN times[i] + 1 ELSE times[i]
  BY DEF NotePublish
<1>3. Grows
  BY <1>1, <1>2 DEF Grows
<1>4. PICK m \in 0..Len(Stream) : Cut(m)
  BY <1>1, ReadCut
<1>5. StreamPart' /\ PkidsApart' /\ ShownBeforeForgotten' /\ StillBacked
  BY <1>3, <1>4, CalmStep
<1>6. FirstShownInOrder'
  <2> SUFFICES ASSUME NEW i \in Msgs, times'[i] > 0, NEW j \in 1..(i - 1) PROVE times'[j] > 0
    BY DEF FirstShownInOrder
  <2>1. j \in Msgs
    BY BacklogFacts
  <2>2. CASE Shown(i)
    <3>1. 1 \in 1..Len(Stream) /\ Stream[1].frame = Backlog[i]
      BY <1>1, <2>2, ShownIsFront
    <3>2. times[j] > 0 \/ \E l \in 1..(1 - 1) : Stream[l].frame = Backlog[j]
      BY <3>1 DEF SessionInv, StreamPart, BytesInOrder
    <3> QED
      BY <1>3, <2>1, <3>2 DEF Grows
  <2>3. CASE ~Shown(i)
    BY <1>2, <1>3, <2>1, <2>3 DEF SessionInv, FirstShownInOrder, Grows
  <2> QED
    BY <2>2, <2>3
<1>7. out' = out /\ (op' = op \/ NoReceipt(op'))
  <2>1. PICK f \in Frames : \/ ContinueConnect(f, rx \o SubSeq(net, 1, n))
                            \/ ContinueRead(f, rx \o SubSeq(net, 1, n))
    <3> DEFINE data == rx \o SubSeq(net, 1, n)
    <3>1. /\ data \in Seq(Bytes) /\ data # << >> /\ net' \in Seq(Bytes)
          /\ WholeFrames(data \o net')
          /\ ContinueConnect(data[1].frame, data) \/ ContinueRead(data[1].frame, data)
      BY <1>1, ReadBytesStream
    <3> HIDE DEF data
    <3>2. data[1].frame \in Frames
      BY <3>1, FrontFrame
    <3> QED
      BY <3>1, <3>2 DEF data
  <2>2. op' = op \/ NoReceipt(op')
    BY <2>1, ReturnNoReceipt
       DEF ContinueConnect, ContinueRead, StartSubscribe, Await, Writing, OutPacket, NoReceipt, Receipts
  <2> QED
    BY <2>2 DEF ReadBytes
<1>8. ReceiptPart'
  BY <1>1, <1>5, <1>7, ReceiptsStay DEF SessionInv
<1>9. HeldPart'
  <2>1. Len(held) = 0 /\ Len(held') <= 1 /\ Len(held') \in Nat
    <3>1. held' \in Seq(Notifications)
      BY DEF SessionTypeOK, TypeOK
    <3> QED
      BY <1>1, <3>1, ReadBytesStream, LenProperties DEF StreamInv, HeldInv
  <2> SUFFICES ASSUME NEW h \in 1..Len(held'), NEW i \in Msgs, held'[h].bytes = Encode(Backlog[i])
               PROVE  times'[i] > 0
    BY DEF HeldPart
  <2>2. Shown(i)
    <3>1. h = Len(held') /\ Len(held') > Len(held)
      BY <2>1
    <3> QED
      BY <3>1 DEF Shown
  <2> QED
    BY <1>1, <1>2, <2>2
<1> QED
  BY <1>5, <1>6, <1>8, <1>9 DEF SessionInv

-----------------------------------------------------------------------------
(* The other steps of the client, the clock and the mishaps. *)
LEMMA WriteSession ==
    ASSUME SessionTypeOK, SessionInv, SessionTypeOK', UNCHANGED << phase, sentNow, times >>,
           WriteConnect \/ WritePacket \/ WriteFails
    PROVE  SessionInv'
<1>1. pc \in WritingPcs /\ UNCHANGED << rx, net, held >>
  BY DEF WriteConnect, WritePacket, Written, WriteFails, WritingPcs
<1>2. out \in Seq(OutPackets) /\ op.packet \in OutPackets
  BY <1>1 DEF SessionTypeOK, TypeOK
<1>3. out \o << op.packet >> = Append(out, op.packet)
  BY <1>2, AppendIsConcat
<1>4. NoReceipt(op')
  BY ReturnNoReceipt
     DEF WriteConnect, WritePacket, WriteFails, Await, NoReceipt, NoWrite, Writing, NoPacket, Receipts
<1>5. out' = out \/ out' = Append(out, op.packet)
  BY <1>3 DEF WriteConnect, WritePacket, Written, WriteFails, PartlyWritten
<1> QED
  BY <1>1, <1>4, <1>5, QuietSession, HeldStays DEF SessionInv

LEMMA WaitSession ==
    ASSUME MaxHeld = 0, StreamInv, SessionTypeOK, SessionInv, SessionTypeOK',
           UNCHANGED << phase, sentNow, times >>,
           \/ NextNotification \/ ReadEof \/ ReadErrs \/ ReadTimeout \/ Tick
           \/ BrokerCloses \/ CancelRead \/ \E i \in 1..Len(held) : DropNotification(i)
    PROVE  SessionInv'
<1>1. held \in Seq(Notifications)
  BY DEF SessionTypeOK, TypeOK
<1>2. UNCHANGED << rx, net, out >> /\ (op' = op \/ NoReceipt(op'))
  BY ReturnNoReceipt
     DEF NextNotification, Await, NoReceipt, NoWrite, Writing, NoPacket, Receipts, ReadEof, ReadErrs,
         ReadEnds, ReadTimeout, Tick, BrokerCloses, CancelRead, DropNotification
<1>3. CASE held' = held \/ Len(held') = 0
  BY <1>2, <1>3, QuietSession, HeldStays DEF SessionInv
<1>4. CASE ReadTimeout
  <2>1. Len(held) = 0 /\ held' = Append(held, SendPing)
    <3>1. Len(held) \in Nat
      BY <1>1, LenProperties
    <3> QED
      BY <1>4, <3>1 DEF ReadTimeout, StreamInv, HeldInv, Idle
  <2>2. Len(held') = 1 /\ held'[1] = SendPing
    <3>1. held = << >>
      BY <1>1, <2>1, EmptySeq
    <3>2. Append(<< >>, SendPing) = << SendPing >>
      OBVIOUS
    <3> QED
      BY <2>1, <3>1, <3>2
  <2>3. \A i \in Msgs : Len(Encode(Backlog[i])) # 0
    BY BacklogFacts, EncodeType, FrameLengthType
  <2>4. \A i \in Msgs : SendPing.bytes # Encode(Backlog[i])
    BY <2>3, EmptySeq DEF SendPing
  <2>5. HeldPart'
    BY <2>2, <2>4 DEF HeldPart
  <2> QED
    BY <1>2, <2>5, QuietSession
<1>5. ASSUME NEW i \in 1..Len(held), DropNotification(i) PROVE Len(held') = 0
  BY <1>1, <1>5, RemoveOnly DEF DropNotification, StreamInv, HeldInv
<1>6. ReadTimeout \/ held' = held \/ Len(held') = 0
  BY <1>5 DEF NextNotification, ReadEof, ReadErrs, ReadEnds, Tick, BrokerCloses, CancelRead
<1> QED
  BY <1>3, <1>4, <1>6

-----------------------------------------------------------------------------
(***************************************************************************)
(* The broker's steps.  A receipt stays good: its message is not sent      *)
(* again on this connection, and only the receipt itself ends its phase.   *)
(***************************************************************************)
LEMMA BrokerSession ==
    ASSUME SessionTypeOK, SessionInv, UNCHANGED << times, held, op >>, ReceiptPart', StreamPart',
           PkidsApart', ShownBeforeForgotten'
    PROVE  SessionInv'
BY DEF SessionInv, HeldPart, FirstShownInOrder

LEMMA PublishSession ==
    ASSUME SessionTypeOK, SessionTypeOK', SessionInv, NEW i \in Msgs, Publish(i)
    PROVE  SessionInv'
<1>1. /\ TypeOK /\ sentNow \subseteq Msgs /\ sentNow' = sentNow \cup {i}
      /\ times \in [Msgs -> Nat] /\ phase \in [Msgs -> Phases]
      /\ Backlog[i] \in Frames
  BY BacklogFacts DEF SessionTypeOK, Publish
<1>2. /\ rx' = rx /\ net' = net \o Encode(Backlog[i])
      /\ UNCHANGED << out, op, held, times >>
  BY DEF Publish, BrokerSends, NothingShown
<1>3. /\ phase[i] \in {"queued", "publish"} /\ i \notin sentNow
      /\ \A j \in 1..(i - 1) : phase[j] \in {"queued", "publish"} => j \in sentNow
      /\ \A j \in Msgs \ {i} : InFlight(j) => Backlog[j].pkid # Backlog[i].pkid
  BY DEF Publish, MayPublish
<1>4. phase'[i] = "publish" /\ \A j \in Msgs \ {i} : phase'[j] = phase[j]
  BY <1>1 DEF Publish
<1>5. StillOwed
  <2> SUFFICES ASSUME NEW j \in Msgs, InStream(j) PROVE phase'[j] = "publish" /\ j \in sentNow'
    BY DEF StillOwed
  <2> QED
    BY <1>1, <1>4, InStreamOwed DEF SessionInv, StreamPart
<1>6. InTurn(Backlog[i])
  <2>1. ~InStream(i)
    BY <1>3, InStreamOwed DEF SessionInv, StreamPart
  <2>2. ASSUME NEW j \in 1..(i - 1) PROVE times[j] > 0 \/ InStream(j)
    <3>1. j \in Msgs /\ phase[j] \in Phases
      BY <1>1, BacklogFacts
    <3>2. CASE phase[j] \in {"queued", "publish"}
      BY <1>3, <3>2 DEF SessionInv, StreamPart, SentIsShown
    <3>3. CASE phase[j] \in {"release", "done"}
      BY <3>1, <3>3 DEF SessionInv, ShownBeforeForgotten
    <3> QED
      BY <3>1, <3>2, <3>3 DEF Phases
  <2> QED
    BY <1>1, <1>4, <2>1, <2>2 DEF InTurn
<1>7. \A j \in sentNow' : /\ phase'[j] # "queued"
                          /\ phase'[j] = "publish" => times[j] > 0 \/ InStream(j) \/ Backlog[i] = Backlog[j]
  BY <1>1, <1>4 DEF SessionInv, StreamPart, SentIsShown
<1>8. StreamPart'
  <2> DEFINE f == Backlog[i]
  <2>1. f \in Frames /\ InTurn(f) /\ net' = net \o Encode(f) /\ sentNow' \subseteq Msgs
    BY <1>1, <1>2, <1>6
  <2>2. \A j \in sentNow' : /\ phase'[j] # "queued"
                            /\ phase'[j] = "publish" => times[j] > 0 \/ InStream(j) \/ f = Backlog[j]
    BY <1>7
  <2> HIDE DEF f
  <2> QED
    BY <1>1, <1>2, <1>5, <2>1, <2>2, AddStream DEF SessionInv
<1>9. StillBacked
  <2> SUFFICES ASSUME NEW p \in AnyPacket, Backed(p), p.kind \in Receipts
               PROVE  \E j \in Msgs : /\ ReceiptOf(p, j)
                                      /\ phase'[j] = "publish" /\ j \in sentNow'
                                      /\ times'[j] > 0 /\ ~InStream(j)'
    BY DEF StillBacked, Backed, ReceiptOf
  <2>1. PICK j \in Msgs : /\ ReceiptOf(p, j)
                          /\ phase[j] = "publish" /\ j \in sentNow
                          /\ times[j] > 0 /\ ~InStream(j)
    BY DEF Backed
  <2>2. j # i /\ Backlog[i] # Backlog[j]
    BY <1>3, <2>1, BacklogFacts
  <2>3. ~InStream(j)'
    BY <1>1, <1>2, <2>1, <2>2, AddForgets
  <2> QED
    BY <1>1, <1>2, <1>4, <2>1, <2>2, <2>3
<1>10. ReceiptPart'
  BY <1>1, <1>2, <1>9, ReceiptsStay DEF SessionInv
<1>11. PkidsApart' /\ ShownBeforeForgotten'
  BY <1>2, <1>3, <1>4 DEF SessionInv, PkidsApart, InFlight, ShownBeforeForgotten
<1> QED
  BY <1>2, <1>8, <1>10, <1>11, BrokerSession

LEMMA ReleaseSession ==
    ASSUME SessionTypeOK, SessionTypeOK', SessionInv, NEW i \in Msgs, Release(i)
    PROVE  SessionInv'
<1> DEFINE f == PubRelOf(Backlog[i].pkid)
<1>1. /\ TypeOK /\ sentNow' = sentNow \cup {i} /\ sentNow' \subseteq Msgs
      /\ f \in Frames /\ f.kind = "PubRel" /\ phase[i] = "release"
      /\ phase' = phase /\ times' = times
  BY BacklogFacts, SessionAssumption, NanoAssumption DEF SessionTypeOK, Release, NothingShown
<1>2. rx' = rx /\ net' = net \o Encode(f) /\ UNCHANGED << out, op, held >>
  BY DEF Release, BrokerSends
<1>3. f \in Frames /\ f.kind # "Publish" /\ \A j \in Msgs : f # Backlog[j]
  BY <1>1, BacklogFacts
<1> HIDE DEF f
<1>4. StillOwed
  BY <1>1, InStreamOwed DEF StillOwed, SessionInv, StreamPart
<1>5. StreamPart'
  <2>1. InTurn(f)
    BY <1>3 DEF InTurn
  <2>2. \A j \in sentNow' : /\ phase'[j] # "queued"
                            /\ phase'[j] = "publish" => times[j] > 0 \/ InStream(j) \/ f = Backlog[j]
    BY <1>1 DEF SessionInv, StreamPart, SentIsShown
  <2> QED
    BY <1>1, <1>2, <1>4, <2>1, <2>2, AddStream DEF SessionInv
<1>6. StillBacked
  <2> SUFFICES ASSUME NEW p \in AnyPacket, Backed(p), p.kind \in Receipts
               PROVE  \E j \in Msgs : /\ ReceiptOf(p, j)
                                      /\ phase'[j] = "publish" /\ j \in sentNow'
                                      /\ times'[j] > 0 /\ ~InStream(j)'
    BY DEF StillBacked, Backed, ReceiptOf
  <2>1. PICK j \in Msgs : /\ ReceiptOf(p, j)
                          /\ phase[j] = "publish" /\ j \in sentNow
                          /\ times[j] > 0 /\ ~InStream(j)
    BY DEF Backed
  <2>2. ~InStream(j)'
    BY <1>1, <1>2, <1>3, <2>1, AddForgets
  <2> QED
    BY <1>1, <2>1, <2>2
<1>7. ReceiptPart'
  BY <1>1, <1>2, <1>6, ReceiptsStay DEF SessionInv
<1>8. PkidsApart' /\ ShownBeforeForgotten'
  BY <1>1 DEF SessionInv, PkidsApart, InFlight, ShownBeforeForgotten
<1> QED
  BY <1>1, <1>2, <1>5, <1>7, <1>8, BrokerSession

LEMMA PhaseFacts ==
    ASSUME NEW p, NEW i \in Msgs, phase[i] \in Phases
    PROVE  /\ phase[i] = "publish" => PhaseAfter(p, i) = "publish" \/ ReceiptOf(p, i)
           /\ PhaseAfter(p, i) = "publish" => phase[i] = "publish"
           /\ PhaseAfter(p, i) = "queued" <=> phase[i] = "queued"
           /\ phase[i] = "done" => PhaseAfter(p, i) = "done"
           /\ PhaseAfter(p, i) \in {"release", "done"} =>
                 phase[i] \in {"release", "done"} \/ (phase[i] = "publish" /\ ReceiptOf(p, i))
<1>1. CASE p.pkid # Backlog[i].pkid
  BY <1>1 DEF PhaseAfter, ReceiptOf
<1>2. CASE p.pkid = Backlog[i].pkid
  <2>1. CASE p.kind = "PubAck" /\ phase[i] = "publish" /\ Backlog[i].qos = 1
    BY <1>2, <2>1 DEF PhaseAfter, ReceiptOf
  <2>2. CASE p.kind = "PubRec" /\ phase[i] = "publish" /\ Backlog[i].qos = 2
    BY <1>2, <2>2 DEF PhaseAfter, ReceiptOf
  <2>3. CASE p.kind = "PubComp" /\ phase[i] = "release"
    BY <1>2, <2>3 DEF PhaseAfter, ReceiptOf
  <2>4. CASE /\ ~(p.kind = "PubAck" /\ phase[i] = "publish" /\ Backlog[i].qos = 1)
             /\ ~(p.kind = "PubRec" /\ phase[i] = "publish" /\ Backlog[i].qos = 2)
             /\ ~(p.kind = "PubComp" /\ phase[i] = "release")
    <3>1. PhaseAfter(p, i) = phase[i]
      BY <1>2, <2>4 DEF PhaseAfter
    <3> QED
      BY <3>1
  <2> QED
    BY <2>1, <2>2, <2>3, <2>4
<1> QED
  BY <1>1, <1>2

LEMMA TakeSession ==
    ASSUME SessionTypeOK, SessionTypeOK', SessionInv, Take
    PROVE  SessionInv'
<1> DEFINE p == out[1]
<1> DEFINE m == Len(out)
<1>1. /\ TypeOK /\ sentNow \subseteq Msgs /\ times \in [Msgs -> Nat] /\ phase \in [Msgs -> Phases]
      /\ out \in Seq(OutPackets) /\ m \in Nat
  BY PacketTypes DEF SessionTypeOK
<1>2. /\ m # 0 /\ 1 \in 1..m /\ Head(out) = p /\ p \in OutPackets
      /\ Len(out') = m - 1
      /\ \A k \in 1..Len(out') : k + 1 \in 1..m /\ k + 1 # 1 /\ out'[k] = out[k + 1]
  <2>1. out # << >> /\ out' = Tail(out)
    BY DEF Take, BrokerTakes
  <2>2. m # 0 /\ 1 \in 1..m
    BY <1>1, <2>1, EmptySeq
  <2>3. /\ Head(out) = p /\ Len(Tail(out)) = m - 1
        /\ \A k \in 1..(m - 1) : Tail(out)[k] = out[k + 1]
    BY <1>1, <2>1, HeadTailProperties
  <2>4. p \in OutPackets
    BY <1>1, <2>2, ElementOfSeq
  <2> QED
    BY <1>1, <2>1, <2>2, <2>3, <2>4
<1>3. /\ rx' = rx /\ UNCHANGED << op, held, times, sentNow >>
      /\ \A i \in Msgs : phase'[i] = PhaseAfter(p, i)
  BY <1>2 DEF Take, BrokerTakes, NothingShown
<1>4. \A i \in Msgs : phase[i] = "publish" /\ ReceiptOf(p, i) => times[i] > 0 /\ ~InStream(i)
  <2> SUFFICES ASSUME NEW i \in Msgs, phase[i] = "publish", ReceiptOf(p, i)
               PROVE  times[i] > 0 /\ ~InStream(i)
    OBVIOUS
  <2>1. p.kind \in Receipts
    BY DEF ReceiptOf, Receipts
  <2>2. PICK j \in Msgs : ReceiptOf(p, j) /\ phase[j] = "publish" /\ times[j] > 0 /\ ~InStream(j)
    BY <1>2, <2>1 DEF SessionInv, ReceiptPart, Backed
  <2>3. j = i
    BY <2>2 DEF ReceiptOf, SessionInv, PkidsApart, InFlight
  <2> QED
    BY <2>2, <2>3
<1>5. \A i \in Msgs :
         /\ phase[i] = "publish" => phase'[i] = "publish" \/ ReceiptOf(p, i)
         /\ phase'[i] = "publish" => phase[i] = "publish"
         /\ phase'[i] = "queued" <=> phase[i] = "queued"
         /\ phase[i] = "done" => phase'[i] = "done"
         /\ phase'[i] \in {"release", "done"} =>
               phase[i] \in {"release", "done"} \/ (phase[i] = "publish" /\ ReceiptOf(p, i))
  <2> HIDE DEF p
  <2> QED
    BY <1>1, <1>3, PhaseFacts
<1> HIDE DEF p, m
<1>6. StillOwed
  BY <1>3, <1>4, <1>5, InStreamOwed DEF StillOwed, SessionInv, StreamPart
<1>7. \A i \in sentNow' : /\ phase'[i] # "queued"
                          /\ phase'[i] = "publish" => times[i] > 0 \/ InStream(i)
  BY <1>1, <1>3, <1>5 DEF SessionInv, StreamPart, SentIsShown
<1>8. StreamPart' /\ \A i \in Msgs : ~InStream(i) => ~InStream(i)'
  <2>1. CASE net' = net
    <3>1. 0 \in 0..Len(Stream) /\ Cut(0)
      BY <1>1, <1>3, <2>1, StillCut
    <3>2. times' \in [Msgs -> Nat] /\ sentNow' \subseteq Msgs /\ Grows
      BY <1>1, <1>3 DEF Grows
    <3>3. \A i \in sentNow' : /\ phase'[i] # "queued"
                              /\ phase'[i] = "publish" => times'[i] > 0 \/ InStream(i)
      BY <1>3, <1>7
    <3>4. StreamPart'
      BY <1>1, <1>6, <3>1, <3>2, <3>3, CutStream DEF SessionInv
    <3> QED
      BY <1>1, <3>1, <3>4, CutForgets
  <2>2. ASSUME NEW f \in Answers(Head(out)), net' = net \o Encode(f)
        PROVE  StreamPart' /\ \A i \in Msgs : ~InStream(i) => ~InStream(i)'
    <3>1. Head(out) \in OutPackets
      BY <1>2
    <3>2. f \in Frames /\ f.kind # "Publish"
      BY <2>2, <3>1, NanoAssumption, SessionAssumption
    <3>3. \A i \in Msgs : f # Backlog[i]
      BY <3>2, BacklogFacts
    <3>4. InTurn(f) /\ sentNow' \subseteq Msgs
      BY <1>1, <1>3, <3>2 DEF InTurn
    <3>5. \A i \in sentNow' : /\ phase'[i] # "queued"
                              /\ phase'[i] = "publish" => times[i] > 0 \/ InStream(i) \/ f = Backlog[i]
      BY <1>7
    <3>6. StreamPart'
      BY <1>1, <1>3, <1>6, <2>2, <3>2, <3>4, <3>5, AddStream DEF SessionInv
    <3> QED
      BY <1>1, <1>3, <2>2, <3>2, <3>3, <3>6, AddForgets
  <2> QED
    BY <2>1, <2>2 DEF Take, BrokerTakes
(* The other receipts are for other messages. *)
<1>9. ASSUME NEW q \in AnyPacket, Backed(q), Apart(p, q) \/ Apart(q, p) PROVE Backed(q)'
  <2> SUFFICES ASSUME q.kind \in Receipts
               PROVE  \E j \in Msgs : /\ ReceiptOf(q, j)
                                      /\ phase'[j] = "publish" /\ j \in sentNow'
                                      /\ times'[j] > 0 /\ ~InStream(j)'
    BY DEF Backed, ReceiptOf
  <2>1. PICK j \in Msgs : /\ ReceiptOf(q, j)
                          /\ phase[j] = "publish" /\ j \in sentNow
                          /\ times[j] > 0 /\ ~InStream(j)
    BY <1>9 DEF Backed
  <2>2. ~ReceiptOf(p, j)
    BY <1>9, <2>1 DEF ReceiptOf, Apart, Receipts
  <2> QED
    BY <1>3, <1>5, <1>8, <2>1, <2>2
<1>10. ReceiptPart'
  <2>1. /\ Backed(op.packet) /\ op.packet \in AnyPacket /\ Apart(p, op.packet)
        /\ \A k \in 1..m : Backed(out[k]) /\ out[k] \in AnyPacket /\ Apart(out[k], op.packet)
        /\ \A k, l \in 1..m : k # l => Apart(out[k], out[l])
    BY <1>1, <1>2, PacketTypes DEF SessionInv, ReceiptPart, m, p
  <2>2. Backed(op.packet)'
    <3>1. \A q \in AnyPacket : Backed(q) /\ Apart(p, q) => Backed(q)'
      BY <1>9
    <3> QED
      BY <1>3, <2>1, <3>1 DEF Backed
  <2>3. \A k \in 1..Len(out') : Backed(out[k])'
    <3>1. \A q \in AnyPacket : Backed(q) /\ Apart(p, q) => Backed(q)'
      BY <1>9
    <3>2. ASSUME NEW k \in 1..Len(out') PROVE Backed(out[k])'
      <4>1. /\ out'[k] = out[k + 1] /\ out[k + 1] \in AnyPacket
            /\ Backed(out[k + 1]) /\ Apart(p, out[k + 1])
        BY <1>2, <2>1 DEF p
      <4> QED
        BY <3>1, <4>1 DEF Backed
    <3> QED
      BY <3>2
  <2>4. \A k \in 1..Len(out') : Apart(out'[k], op'.packet)
    BY <1>2, <1>3, <2>1
  <2>5. ASSUME NEW k \in 1..Len(out'), NEW l \in 1..Len(out'), k # l
        PROVE  Apart(out'[k], out'[l])
    <3>1. k + 1 # l + 1
      BY <2>5
    <3> QED
      BY <1>2, <2>1, <3>1
  <2> QED
    BY <2>2, <2>3, <2>4, <2>5 DEF ReceiptPart, Apart
<1>11. PkidsApart'
  <2>1. ASSUME NEW i \in Msgs, phase'[i] \in {"publish", "release"}
        PROVE  phase[i] \in {"publish", "release"}
    <3>1. phase[i] \in Phases /\ phase[i] # "queued" /\ phase[i] # "done"
      BY <1>1, <1>5, <2>1
    <3> QED
      BY <3>1 DEF Phases
  <2>2. \A i \in Msgs : InFlight(i)' => InFlight(i)
    BY <2>1 DEF InFlight
  <2> QED
    BY <2>2 DEF SessionInv, PkidsApart
<1>12. ShownBeforeForgotten'
  BY <1>3, <1>4, <1>5 DEF SessionInv, ShownBeforeForgotten
<1> QED
  BY <1>3, <1>8, <1>10, <1>11, <1>12, BrokerSession

-----------------------------------------------------------------------------
(* The user of these theorems (README.md). *)
Careful == MaxHeld = 0 /\ UserOps \cap {"rewrap", "with_action"} = {}

LEMMA NextSession ==
    ASSUME Careful, StreamInv, SessionTypeOK, SessionInv, [SessionNext]_svars
    PROVE  StreamInv' /\ SessionInv'
<1>1. MaxHeld = 0 /\ "rewrap" \notin UserOps /\ "with_action" \notin UserOps
  BY DEF Careful
<1>2. SessionTypeOK' /\ TypeOK
  BY NextSessionTypeOK DEF SessionTypeOK
<1>3. StreamInv'
  BY <1>1, <1>2, SessionStep, NextStreamInv
<1>4. CASE Connect
  BY <1>1, <1>3, <1>4, ConnectSession
<1>5. CASE Client \/ Clock \/ Mishap
  <2>1. UNCHANGED << phase, sentNow >>
    BY <1>5 DEF Client, Clock, Mishap, session
  <2>2. CASE Read /\ NotePublish
    BY <1>2, <1>3, <2>1, <2>2, ReadSession DEF Read
  <2>3. CASE NothingShown /\ \E i \in 1..Len(held) : Complete(i)
    BY <1>1, <1>2, <1>3, <2>1, <2>3, CompleteSession DEF NothingShown
  <2>4. CASE NothingShown /\ (WriteConnect \/ WritePacket \/ WriteFails)
    BY <1>2, <1>3, <2>1, <2>4, WriteSession DEF NothingShown
  <2>5. CASE /\ NothingShown
             /\ \/ NextNotification \/ ReadEof \/ ReadErrs \/ ReadTimeout \/ Tick
                \/ BrokerCloses \/ CancelRead \/ \E i \in 1..Len(held) : DropNotification(i)
    BY <1>1, <1>2, <1>3, <2>1, <2>5, WaitSession DEF NothingShown
  <2>6. \/ Read /\ NotePublish
        \/ /\ NothingShown
           /\ \/ \E i \in 1..Len(held) : Complete(i)
              \/ WriteConnect \/ WritePacket \/ WriteFails
              \/ NextNotification \/ ReadEof \/ ReadErrs \/ ReadTimeout \/ Tick
              \/ BrokerCloses \/ CancelRead \/ \E i \in 1..Len(held) : DropNotification(i)
    BY <1>5 DEF Client, Loop, Call, Clock, Mishap
  <2> QED
    BY <1>3, <2>2, <2>3, <2>4, <2>5, <2>6
<1>6. CASE Deliver
  BY <1>2, <1>3, <1>6, PublishSession, ReleaseSession DEF Deliver
<1>7. CASE Take
  BY <1>2, <1>3, <1>7, TakeSession
<1>8. CASE UNCHANGED svars
  <2>1. UNCHANGED << rx, net, phase, sentNow, times, out, op, held >>
    BY <1>8 DEF svars, vars, session
  <2> QED
    BY <1>2, <1>3, <2>1, QuietSession, HeldStays DEF SessionInv
<1> QED
  BY <1>3, <1>4, <1>5, <1>6, <1>7, <1>8 DEF SessionNext

(***************************************************************************)
(* The session keeps its types.                                            *)
(***************************************************************************)
THEOREM SessionTypeCorrect == SessionSpec => []SessionTypeOK
<1>1. SessionInit => SessionTypeOK
  BY InitSession
<1> QED
  BY <1>1, NextSessionTypeOK, PTL DEF SessionSpec

LEMMA SessionInvHolds ==
    ASSUME Careful
    PROVE  SessionSpec => [](SessionTypeOK /\ StreamInv /\ SessionInv)
<1>1. SessionInit => SessionTypeOK /\ StreamInv /\ SessionInv
  BY InitSession, InitStreamInv DEF SessionInit
<1>2. SessionTypeOK /\ StreamInv /\ SessionInv /\ [SessionNext]_svars
          => (SessionTypeOK /\ StreamInv /\ SessionInv)'
  BY NextSessionTypeOK, NextSession
<1> QED
  BY <1>1, <1>2, PTL DEF SessionSpec

(***************************************************************************)
(* Whatever fails and however often, the broker never forgets a message    *)
(* the application was not shown.                                          *)
(***************************************************************************)
THEOREM NothingLost ==
    ASSUME Careful
    PROVE  SessionSpec => []ShownBeforeForgotten
<1>1. SessionInv => ShownBeforeForgotten
  BY DEF SessionInv
<1> QED
  BY <1>1, SessionInvHolds, PTL

(***************************************************************************)
(* Through reconnections and repetitions, messages are first shown in the  *)
(* order they were published.                                              *)
(***************************************************************************)
THEOREM OrderKept ==
    ASSUME Careful
    PROVE  SessionSpec => []FirstShownInOrder
<1>1. SessionInv => FirstShownInOrder
  BY DEF SessionInv
<1> QED
  BY <1>1, SessionInvHolds, PTL

(***************************************************************************)
(* Nothing the broker was told of is shown again.                          *)
(***************************************************************************)
LEMMA ShownIsOwed ==
    ASSUME Careful, SessionTypeOK, StreamInv, SessionInv, [SessionNext]_svars,
           NEW i \in Msgs, times'[i] # times[i]
    PROVE  phase[i] = "publish"
<1>1. ~NothingShown /\ ~UNCHANGED svars
  BY DEF NothingShown, svars
<1>2. Read /\ NotePublish
  BY <1>1 DEF SessionNext, Connect, Client, Clock, Mishap, Deliver, Publish, Release, Take
<1>3. Shown(i)
  BY <1>2 DEF NotePublish
<1>4. StreamInv' /\ TypeOK
  BY NextSession DEF SessionTypeOK
<1>5. 1 \in 1..Len(Stream) /\ Stream[1].frame = Backlog[i]
  BY <1>2, <1>3, <1>4, ShownIsFront DEF Read
<1>6. InStream(i)
  BY <1>5 DEF InStream
<1> QED
  BY <1>6, InStreamOwed DEF SessionInv, StreamPart

THEOREM AcknowledgedIsOver ==
    ASSUME Careful
    PROVE  SessionSpec => ShownOnlyWhileOwed
<1>1. SessionTypeOK /\ StreamInv /\ SessionInv /\ [SessionNext]_svars
          => [\A i \in Msgs : times'[i] # times[i] => phase[i] = "publish"]_svars
  BY ShownIsOwed
<1> QED
  BY <1>1, SessionInvHolds, PTL DEF SessionSpec, ShownOnlyWhileOwed

-----------------------------------------------------------------------------
(***************************************************************************)
(* Repetitions.  The broker of the theorem below accepts every CONNECT and *)
(* sends nothing else the client would hang up on: frames a client may be  *)
(* sent, within max_packet_size, that fit in rx_buffer; and a CONNECT fits *)
(* in tx_buffer.                                                           *)
(***************************************************************************)
Readable(f) ==
    /\ f.kind \in SessionKinds \cup {"ConnAck"}
    /\ f.remaining <= MaxPacketSize /\ FrameLength(f) <= Capacity

Polite ==
    /\ "Connect" \notin Overflow
    /\ \A i \in Msgs : Readable(Backlog[i])
    /\ \A p \in PacketIds : Readable(PubRelOf(p))
    /\ \A p \in OutPackets, f \in Frames : f \in Answers(p) =>
          Readable(f) /\ (f.kind = "ConnAck" <=> p.kind = "Connect")
    /\ \A p \in OutPackets : p.kind = "Connect" => Answers(p) # {}

(* The user holds a notification that completing removes from the stream. *)
Holding == held # << >> /\ held[1].taken > 0

(* A ConnAck is nowhere but at the front of the stream. *)
StreamWelcome ==
    \A k \in 1..Len(Stream) :
        /\ Readable(Stream[k].frame)
        /\ Stream[k].frame.kind = "ConnAck" => Stream[k].pos = k

(* CONNECT is the first packet written, and written once. *)
ConnectOnce == \A k \in 1..Len(out) : out[k].kind = "Connect" => k = 1 /\ ~serving

(***************************************************************************)
(* An open connection: nothing comes from the broker before it has taken   *)
(* the CONNECT, and then the ConnAck first.                                *)
(***************************************************************************)
OpenWelcome ==
    /\ state = "Connected" => serving
    /\ ~serving => Stream = << >> /\ (pc # "connect" => out # << >> /\ out[1].kind = "Connect")
    /\ state = "TransportConnected" /\ serving => Stream # << >>
    /\ state = "TransportConnected" =>
          ~Holding /\ (Stream # << >> => Stream[1].frame.kind = "ConnAck")
    /\ ConnectOnce /\ StreamWelcome

WelcomeInv ==
    /\ IF pc = "connect" THEN ~serving /\ out = << >> /\ op.packet.kind = "Connect"
       ELSE op.packet.kind # "Connect"
    /\ state # "Disconnected" => OpenWelcome

(***************************************************************************)
(* Message i may be shown on this connection without a fault: it is to be  *)
(* sent, or is in the stream and not in the user's hands.                  *)
(***************************************************************************)
Due(i) ==
    /\ phase[i] \in {"queued", "publish"}
    /\ i \in sentNow => InStream(i) /\ ~(Holding /\ Stream[1].frame = Backlog[i])

(***************************************************************************)
(* The connection shows nothing any more: it has ended, or it will with    *)
(* the next read, because a notification was dropped that filled rx_buffer *)
(* or that was of the ConnAck.                                             *)
(***************************************************************************)
Stuck ==
    /\ ~Holding
    /\ \/ Free = 0
       \/ state = "Connected" /\ Stream # << >> /\ Stream[1].frame.kind = "ConnAck"

Over == state = "Disconnected" \/ Stuck

(***************************************************************************)
(* The invariant behind RepeatsNeedFaults.  A connection that is over has  *)
(* cost a fault; so has one the broker has closed.  What may still be      *)
(* shown leaves room for it.                                               *)
(***************************************************************************)
RepeatInv ==
    \A i \in Msgs :
        IF Over THEN times[i] <= faults
        ELSE /\ times[i] <= faults + 1
             /\ eof \/ Due(i) => times[i] <= faults
             /\ eof /\ Due(i) => times[i] < faults

RepeatTypes == times \in [Msgs -> Nat] /\ faults \in Nat

(* A step that costs nothing. *)
LEMMA CalmRepeat ==
    ASSUME RepeatTypes, RepeatInv, times' = times, faults' = faults, eof' = eof,
           Over => Over', Over' => Over \/ eof, \A i \in Msgs : Due(i)' => Due(i)
    PROVE  RepeatInv'
<1> SUFFICES ASSUME NEW i \in Msgs
             PROVE  IF Over' THEN times'[i] <= faults'
                    ELSE /\ times'[i] <= faults' + 1
                         /\ eof' \/ Due(i)' => times'[i] <= faults'
                         /\ eof' /\ Due(i)' => times'[i] < faults'
  BY DEF RepeatInv
<1>1. IF Over THEN times[i] <= faults
      ELSE /\ times[i] <= faults + 1
           /\ eof \/ Due(i) => times[i] <= faults
           /\ eof /\ Due(i) => times[i] < faults
  BY DEF RepeatInv
<1>2. Due(i)' => Due(i)
  OBVIOUS
<1> QED
  BY <1>1, <1>2

(* A step that is a fault. *)
LEMMA FaultRepeat ==
    ASSUME RepeatTypes, RepeatInv, times' = times, faults' = faults + 1, Over => Over',
           eof' = eof \/ (~eof /\ \A i \in Msgs : Due(i)' => Due(i))
    PROVE  RepeatInv'
<1> SUFFICES ASSUME NEW i \in Msgs
             PROVE  IF Over' THEN times'[i] <= faults'
                    ELSE /\ times'[i] <= faults' + 1
                         /\ eof' \/ Due(i)' => times'[i] <= faults'
                         /\ eof' /\ Due(i)' => times'[i] < faults'
  BY DEF RepeatInv
<1>1. IF Over THEN times[i] <= faults
      ELSE /\ times[i] <= faults + 1
           /\ eof \/ Due(i) => times[i] <= faults
           /\ eof /\ Due(i) => times[i] < faults
  BY DEF RepeatInv
<1>2. times[i] \in Nat /\ faults \in Nat
  BY DEF RepeatTypes
<1>3. CASE eof' = eof
  BY <1>1, <1>2, <1>3
<1>4. CASE ~eof /\ (Due(i)' => Due(i))
  BY <1>1, <1>2, <1>4
<1> QED
  BY <1>3, <1>4

-----------------------------------------------------------------------------
(* The notification in the user's hands is of the front of the stream. *)
LEMMA HoldingFront ==
    ASSUME TypeOK, StreamInv, Holding
    PROVE  /\ rx # << >> /\ Stream # << >> /\ Stream[1] = rx[1] /\ Stream[1].frame \in Frames
           /\ held[1].taken = FrameLength(Stream[1].frame)
           /\ held[1].taken \in 2..Len(rx)
           /\ Len(rx) \in Nat /\ 1 \in 1..Len(Stream)
<1>1. Len(held) \in Nat /\ 1 \in 1..Len(held)
  BY EmptySeq, LenProperties DEF TypeOK, Holding
<1>2. OfFront(held[1])
  BY <1>1 DEF StreamInv, HeldInv
<1>3. /\ rx # << >>
      /\ held[1].taken = FrameLength(rx[1].frame) /\ held[1].taken <= Len(rx)
  BY <1>2 DEF OfFront, Holding
<1>4. Stream # << >> /\ Stream[1] = rx[1] /\ Stream \in Seq(Bytes)
  BY <1>3, StreamFront DEF TypeOK, Stream
<1>5. Stream[1].frame \in Frames
  BY <1>4, WholeFront DEF StreamInv, StreamIsFramed
<1>6. FrameLength(Stream[1].frame) \in Nat /\ FrameLength(Stream[1].frame) >= 2
  BY <1>5, FrameLengthType
<1>7. Len(rx) \in Nat /\ Len(Stream) \in Nat
  BY StreamType
<1>8. 1 \in 1..Len(Stream)
  BY <1>4, <1>7, EmptySeq
<1>9. held[1].taken \in 2..Len(rx)
  BY <1>3, <1>4, <1>6, <1>7
<1> QED
  BY <1>3, <1>4, <1>5, <1>7, <1>8, <1>9

LEMMA EmptyHanded == ASSUME held \in Seq(Notifications), Len(held) = 0 PROVE ~Holding
BY EmptySeq DEF Holding

(* While the client reads, the user holds nothing. *)
LEMMA ReadingEmptyHanded ==
    ASSUME TypeOK, StreamInv, pc \in Reading
    PROVE  ~Holding /\ Len(held) = 0 /\ held = << >>
<1>1. Len(held) \in Nat /\ held \in Seq(Notifications)
  BY LenProperties DEF TypeOK
<1>2. ~(Len(held) > 0)
  BY DEF StreamInv, HeldInv, Reading, Idle
<1> QED
  BY <1>1, <1>2, EmptyHanded, EmptySeq

(* If the front of the stream is not a ConnAck, no frame of it is. *)
LEMMA FrontOnly ==
    ASSUME TypeOK, StreamInv, StreamWelcome,
           NEW k \in 1..Len(Stream), Stream[k].frame.kind = "ConnAck"
    PROVE  Stream # << >> /\ Stream[1].frame = Stream[k].frame /\ k <= FrameLength(Stream[k].frame)
<1> DEFINE f == Stream[k].frame
<1>1. Stream[k].pos = k
  BY DEF StreamWelcome
<1>2. Stream[k] \in Bytes /\ f \in Frames /\ Len(Stream) \in Nat
  BY StreamType DEF Bytes
<1>3. /\ k <= FrameLength(f)
      /\ \A j \in 1..FrameLength(f) : Stream[(k - k) + j] = [frame |-> f, pos |-> j]
  BY <1>1 DEF StreamInv, StreamIsFramed, WholeFrames
<1>4. 1 \in 1..FrameLength(f) /\ (k - k) + 1 = 1
  BY <1>2, FrameLengthType
<1>5. Stream[(k - k) + 1] = [frame |-> f, pos |-> 1]
  BY <1>3, <1>4
<1>6. Stream[1] = [frame |-> f, pos |-> 1]
  BY <1>4, <1>5
<1>7. Len(Stream) # 0
  BY <1>2
<1>8. Stream # << >>
  BY <1>7, EmptySeq
<1> QED
  BY <1>3, <1>6, <1>8

(***************************************************************************)
(* What follows the first frame of the stream, or all of it, is as welcome *)
(* as before, and after the first frame there is no ConnAck.               *)
(***************************************************************************)
LEMMA RestWelcome ==
    ASSUME TypeOK, StreamInv, StreamWelcome, Stream # << >>,
           NEW n, n = FrameLength(Stream[1].frame), n \in 0..Len(Stream),
           Stream' = SubSeq(Stream, n + 1, Len(Stream))
    PROVE  /\ StreamWelcome'
           /\ \A k \in 1..Len(Stream') : Stream'[k].frame.kind # "ConnAck"
<1>1. \A k \in 1..Len(Stream') : n + k \in 1..Len(Stream) /\ Stream'[k] = Stream[n + k]
  BY CutPlaces
<1>2. ASSUME NEW k \in 1..Len(Stream') PROVE Stream'[k].frame.kind # "ConnAck"
  <2> SUFFICES ASSUME Stream[n + k].frame.kind = "ConnAck" PROVE FALSE
    BY <1>1
  <2>1. n + k <= n
    BY <1>1, FrontOnly
  <2> QED
    BY <2>1
<1>3. ASSUME NEW k \in 1..Len(Stream') PROVE Readable(Stream'[k].frame)
  BY <1>1 DEF StreamWelcome
<1> QED
  BY <1>2, <1>3 DEF StreamWelcome, Readable

(* A frame that may be sent, added to the stream. *)
LEMMA AddWelcome ==
    ASSUME TypeOK, StreamWelcome, NEW f \in Frames, Readable(f),
           f.kind = "ConnAck" => Stream = << >>,
           rx' = rx, net' = net \o Encode(f)
    PROVE  /\ StreamWelcome' /\ Stream' # << >>
           /\ Stream # << >> => Stream'[1] = Stream[1]
           /\ Stream = << >> => Stream'[1].frame = f
<1>1. /\ \A k \in 1..Len(Stream) : k \in 1..Len(Stream') /\ Stream'[k] = Stream[k]
      /\ \A k \in 1..FrameLength(f) :
            /\ Len(Stream) + k \in 1..Len(Stream')
            /\ Stream'[Len(Stream) + k].frame = f
      /\ \A k \in 1..Len(Stream') : k > Len(Stream) =>
            Stream'[k].frame = f /\ Stream'[k].pos = k - Len(Stream)
  BY AddPlaces
<1>2. /\ Len(Stream) \in Nat /\ 1 \in 1..FrameLength(f)
      /\ Stream = << >> <=> Len(Stream) = 0
  BY StreamType, FrameLengthType, EmptySeq
<1>3. ASSUME NEW k \in 1..Len(Stream')
      PROVE  /\ Readable(Stream'[k].frame)
             /\ Stream'[k].frame.kind = "ConnAck" => Stream'[k].pos = k
  <2>1. CASE k > Len(Stream)
    <3>1. Stream'[k].frame = f /\ Stream'[k].pos = k - Len(Stream)
      BY <1>1, <2>1
    <3>2. f.kind = "ConnAck" => Len(Stream) = 0
      BY <1>2
    <3> QED
      BY <3>1, <3>2
  <2>2. CASE ~(k > Len(Stream))
    <3>1. k \in 1..Len(Stream)
      BY <1>2, <2>2
    <3> QED
      BY <1>1, <3>1 DEF StreamWelcome
  <2> QED
    BY <2>1, <2>2
<1>4. Len(Stream) + 1 \in 1..Len(Stream')
  BY <1>1, <1>2
<1>5. Stream' # << >>
  <2>1. Len(Stream') # 0
    BY <1>4
  <2> QED
    BY <2>1, EmptySeq
<1>6. Stream # << >> => Stream'[1] = Stream[1]
  <2>1. Stream # << >> => 1 \in 1..Len(Stream)
    BY <1>2
  <2> QED
    BY <1>1, <2>1
<1>7. Stream = << >> => Stream'[1].frame = f
  <2>1. Stream = << >> => Len(Stream) + 1 = 1
    BY <1>2
  <2> QED
    BY <1>1, <1>2, <2>1
<1> QED
  BY <1>3, <1>5, <1>6, <1>7 DEF StreamWelcome

(* Completing removes the front of the stream, or nothing. *)
LEMMA CompleteFront ==
    ASSUME MaxHeld = 0, TypeOK, StreamInv, NEW i \in 1..Len(held), Complete(i)
    PROVE  /\ ~Holding' /\ net' = net
           /\ \/ ~Holding /\ rx' = rx
              \/ LET n == FrameLength(Stream[1].frame) IN
                 /\ Holding
                 /\ n \in 0..Len(Stream)
                 /\ Len(rx') = Len(rx) - n /\ n >= 2
                 /\ Stream' = SubSeq(Stream, n + 1, Len(Stream))
<1>1. /\ rx \in Seq(Bytes) /\ net \in Seq(Bytes) /\ held \in Seq(Notifications)
      /\ Len(rx) \in Nat /\ Len(Stream) \in Nat /\ Len(rx) <= Len(Stream)
  BY StreamType DEF TypeOK
<1>2. i = 1 /\ held # << >> /\ held[1] \in Notifications
  BY <1>1, RemoveOnly, ElementOfSeq DEF StreamInv, HeldInv
<1>3. /\ rx' = RemovePrefix(rx, held[1].taken) /\ net' = net
      /\ Len(held') = 0 /\ held' \in Seq(Notifications)
  BY <1>1, <1>2, RemoveOnly, RemoveAtType DEF Complete, StreamInv, HeldInv
<1>4. ~Holding'
  BY <1>3, EmptySeq DEF Holding
<1>5. CASE Holding
  <2> DEFINE n == FrameLength(Stream[1].frame)
  <2>1. held[1].taken = n /\ n \in 2..Len(rx)
    BY <1>5, HoldingFront
  <2> HIDE DEF n
  <2>2. n \in 0..Len(rx) /\ n \in 0..Len(Stream) /\ n >= 2
    BY <1>1, <2>1
  <2>3. rx' = SubSeq(rx, n + 1, Len(rx))
    BY <1>3, <2>1 DEF RemovePrefix
  <2>4. Len(rx') = Len(rx) - n
    BY <1>1, <2>2, <2>3, RemoveFront
  <2>5. Stream' = SubSeq(Stream, n + 1, Len(Stream))
    <3>1. SubSeq(rx, n + 1, Len(rx)) \o net = SubSeq(rx \o net, n + 1, Len(rx \o net))
      BY <1>1, <2>2, RemoveFront
    <3> QED
      BY <1>3, <2>3, <3>1 DEF Stream
  <2> QED
    BY <1>3, <1>4, <1>5, <2>2, <2>4, <2>5 DEF n
<1>6. CASE ~Holding
  <2>1. held[1].taken = 0
    BY <1>2, <1>6 DEF Holding, Notifications
  <2>2. RemovePrefix(rx, 0) = rx
    BY <1>1, SubSeqFull DEF RemovePrefix
  <2> QED
    BY <1>3, <1>4, <1>6, <2>1, <2>2
<1> QED
  BY <1>5, <1>6

(***************************************************************************)
(* A read, with the bytes it leaves in front of the client: it waits for   *)
(* more, takes the ConnAck off, gives the user a notification to remove,   *)
(* or ends a connection that was over.                                     *)
(***************************************************************************)
Waits ==
    /\ state' = state /\ held' = held
    /\ Stream' = Stream /\ Len(rx') < Capacity

TakesConnAck ==
    LET n == FrameLength(Stream[1].frame) IN
    /\ pc = "connack" /\ state = "TransportConnected" /\ state' = "Connected" /\ held' = held
    /\ Stream[1].frame.kind = "ConnAck"
    /\ n \in 0..Len(Stream) /\ n >= 2
    /\ Stream' = SubSeq(Stream, n + 1, Len(Stream))
    /\ Len(rx') < Capacity

Notifies ==
    /\ pc = "read" /\ state # "Disconnected" /\ state' = "Connected"
    /\ Holding' /\ Stream' = Stream

Dead ==
    /\ held' = held
    /\ state' = "Disconnected" \/ (state' = state /\ Stream' = Stream)

LEMMA ReadOutcome ==
    ASSUME TypeOK, StreamInv, ReturnInv, WelcomeInv,
           NEW n \in 1..Capacity, ReadBytes(n)
    PROVE  /\ Stream # << >> /\ Free # 0 /\ pc' # "connect" /\ op'.packet.kind # "Connect"
           /\ IF Stuck THEN Dead ELSE Waits \/ TakesConnAck \/ Notifies
<1> DEFINE data == rx \o SubSeq(net, 1, n)
<1> DEFINE f == data[1].frame
<1> DEFINE v == OnBytesReceived(f, Len(data))
<1> DEFINE m == FrameLength(f)
<1>1. /\ data \in Seq(Bytes) /\ data # << >> /\ net' \in Seq(Bytes)
      /\ WholeFrames(data \o net') /\ Len(held) = 0
      /\ \/ pc = "connack" /\ ContinueConnect(f, data)
         \/ pc = "read" /\ ContinueRead(f, data)
  BY ReadBytesStream
<1>2. data \o net' = Stream
  <2>1. n \in 0..Len(net) /\ net' = SubSeq(net, n + 1, Len(net))
    BY DEF ReadBytes, TypeOK
  <2> QED
    BY <2>1, MoveBytes DEF TypeOK, Stream
<1>3. Len(data) = Len(rx) + n /\ Len(rx) \in Nat /\ n \in Nat \ {0} /\ n <= Capacity - Len(rx)
  <2>1. n \in 0..Len(net) /\ n <= Capacity - Len(rx)
    BY DEF ReadBytes, Free, TypeOK
  <2>2. SubSeq(net, 1, n) \in Seq(Bytes) /\ Len(SubSeq(net, 1, n)) = n
    BY <2>1, MoveBytes DEF TypeOK
  <2>3. Len(data) = Len(rx) + Len(SubSeq(net, 1, n)) /\ Len(rx) \in Nat
    BY <2>2, ConcatProperties, LenProperties DEF TypeOK
  <2> QED
    BY <2>1, <2>2, <2>3
<1> HIDE DEF data
<1>4. /\ Stream \in Seq(Bytes) /\ Stream # << >> /\ Stream[1] = data[1]
      /\ WholeFrames(Stream) /\ f \in Frames
  BY <1>1, <1>2, StreamFront, FrontFrame
<1>5. Capacity \in Nat /\ Free # 0 /\ Len(data) \in Nat /\ Len(data) <= Capacity
  BY <1>3, NanoAssumption DEF Free
<1>6. ~Holding /\ held = << >> /\ pc # "connect"
  BY <1>1, ReadingEmptyHanded DEF Reading
<1>7. state \in {"TransportConnected", "Connected"} /\ (pc = "connack" => state = "TransportConnected")
  BY <1>1 DEF ReturnInv, ReturnMatchesState, Reading, TypeOK, ClientTypeOK, States
<1>8. /\ Readable(f) /\ m \in Nat /\ m >= 2 /\ m <= Capacity
      /\ f.remaining \in Nat /\ f.remaining <= MaxPacketSize /\ f.remaining <= Capacity
      /\ f.kind \in SessionKinds \cup {"ConnAck"}
      /\ state = "TransportConnected" => f.kind = "ConnAck"
  <2>1. OpenWelcome
    BY <1>7 DEF WelcomeInv
  <2>2. 1 \in 1..Len(Stream)
    BY <1>4, EmptySeq, LenProperties
  <2>3. Readable(f)
    BY <1>4, <2>1, <2>2 DEF OpenWelcome, StreamWelcome
  <2>4. f.header \in Nat /\ f.remaining \in Nat /\ m \in Nat /\ m >= 2
    BY <1>4, FramesAssumption, FrameLengthType DEF FrameSet
  <2>5. m = f.header + f.remaining /\ m <= Capacity
    BY <2>3 DEF Readable, FrameLength
  <2> HIDE DEF m
  <2>6. f.remaining <= Capacity
    BY <1>5, <2>4, <2>5
  <2> QED
    BY <1>4, <2>1, <2>3, <2>4, <2>5, <2>6 DEF OpenWelcome, Readable
<1>9. pc' # "connect" /\ op'.packet.kind # "Connect"
  <2>1. \/ pc' = pc /\ op' = op
        \/ \E r : Return(r)
        \/ StartSubscribe
    BY <1>1 DEF ContinueConnect, ContinueRead
  <2>2. CASE pc' = pc /\ op' = op
    BY <1>6, <2>2 DEF WelcomeInv
  <2> QED
    BY <2>1, <2>2 DEF StartSubscribe, Return, Await, Writing, OutPacket, NoWrite, NoPacket, Idle
<1>10. ~ReadFails(f, Len(data), MaxPacketSize)
  <2>1. f.kind # "EndlessLength" /\ f.kind # "Corrupt"
    BY <1>8 DEF SessionKinds, PacketKinds
  <2>2. ~(f.remaining > MaxPacketSize)
    BY <1>8, ClientAssumption
  <2> QED
    BY <2>1, <2>2 DEF ReadFails, BadHeader
<1>11. /\ ReadOk(f, Len(data), MaxPacketSize) <=> m <= Len(data)
       /\ Framed(f, Len(data), Capacity) <=> m <= Len(data)
  <2>1. f.kind # "EndlessLength" /\ f.kind # "Corrupt"
    BY <1>8 DEF SessionKinds, PacketKinds
  <2> QED
    BY <1>5, <1>8, <2>1 DEF ReadOk, Framed
<1>12. Stuck <=> state = "Connected" /\ f.kind = "ConnAck"
  BY <1>4, <1>5, <1>6 DEF Stuck
<1>13. CASE ~(m <= Len(data))
  <2>1. v.tag = "None" /\ v.next = state /\ v.kind = "-"
    BY <1>7, <1>10, <1>11, <1>13 DEF OnBytesReceived, Verdict
  <2>2. rx' = data /\ state' = state /\ held' = held
    BY <1>1, <1>11, <1>13, <2>1 DEF ContinueConnect, ContinueRead
  <2>3. Stream' = Stream
    BY <1>2, <2>2 DEF Stream
  <2>4. Len(rx') < Capacity
    BY <1>5, <1>8, <1>13, <2>2
  <2> QED
    BY <1>4, <1>5, <1>9, <2>2, <2>3, <2>4 DEF Waits, Dead
<1>14. CASE m <= Len(data) /\ state = "TransportConnected"
  <2>1. v = Verdict("Connected", "Notification", "ConnAck", m) /\ f.kind = "ConnAck"
    BY <1>8, <1>10, <1>11, <1>14 DEF OnBytesReceived, OpeningVerdict
  <2>2. v.next = "Connected" /\ v.tag = "Notification" /\ v.kind = "ConnAck" /\ v.taken = m
    BY <2>1 DEF Verdict
  <2> HIDE DEF m
  <2>3. CASE pc = "connack" /\ ContinueConnect(f, data)
    <3>1. state' = "Connected" /\ held' = held /\ rx' = RemovePrefix(data, m)
      BY <2>2, <2>3 DEF ContinueConnect
    <3>2. m \in 0..Len(data)
      BY <1>5, <1>8, <1>14
    <3>3. rx' = SubSeq(data, m + 1, Len(data)) /\ Len(rx') = Len(data) - m
      BY <1>1, <3>1, <3>2, RemoveFront DEF RemovePrefix
    <3>4. Stream' = SubSeq(Stream, m + 1, Len(Stream))
      <4>1. SubSeq(data, m + 1, Len(data)) \o net' = SubSeq(data \o net', m + 1, Len(data \o net'))
        BY <1>1, <3>2, RemoveFront
      <4> QED
        BY <1>2, <3>3, <4>1 DEF Stream
    <3>5. Len(rx') < Capacity
      BY <1>5, <1>8, <1>14, <3>3
    <3>6. m \in 0..Len(Stream)
      <4>1. Len(Stream) = Len(data) + Len(net') /\ Len(net') \in Nat
        BY <1>1, <1>2, ConcatProperties, LenProperties
      <4> QED
        BY <1>5, <3>2, <4>1
    <3>7. TakesConnAck
      BY <1>4, <1>8, <1>14, <2>1, <2>3, <3>1, <3>4, <3>5, <3>6 DEF TakesConnAck, m
    <3> QED
      BY <1>4, <1>5, <1>9, <1>12, <1>14, <3>7
  <2>4. CASE pc = "read" /\ ContinueRead(f, data)
    <3> DEFINE t == Notified(v.kind, f, v.taken, Removed(data, v.taken))
    <3>1. rx' = data /\ state' = "Connected" /\ held' = Append(held, t)
      BY <1>11, <1>14, <2>2, <2>4 DEF ContinueRead
    <3>2. t.taken = m
      BY <2>2 DEF Notified
    <3> HIDE DEF t
    <3>3. held' = << t >>
      BY <1>6, <3>1
    <3>4. Holding'
      BY <1>8, <3>2, <3>3 DEF Holding
    <3>5. Notifies
      BY <1>2, <1>14, <2>4, <3>1, <3>4 DEF Notifies, Stream
    <3> QED
      BY <1>4, <1>5, <1>9, <1>12, <1>14, <3>5
  <2> QED
    BY <1>1, <2>3, <2>4
<1>15. CASE m <= Len(data) /\ state = "Connected"
  <2>1. v = SessionVerdict(f) /\ pc = "read" /\ ContinueRead(f, data)
    BY <1>1, <1>7, <1>10, <1>11, <1>15 DEF OnBytesReceived
  <2>2. CASE f.kind \in SessionKinds
    <3> DEFINE t == Notified(v.kind, f, v.taken, Removed(data, v.taken))
    <3>1. v.next = "Connected" /\ v.tag = "Notification" /\ v.taken = m
      BY <2>1, <2>2 DEF SessionVerdict, Verdict
    <3>2. rx' = data /\ state' = "Connected" /\ held' = Append(held, t)
      BY <1>11, <1>15, <2>1, <3>1 DEF ContinueRead
    <3>3. t.taken = m
      BY <3>1 DEF Notified
    <3> HIDE DEF t
    <3>4. held' = << t >>
      BY <1>6, <3>2
    <3>5. Holding'
      BY <1>8, <3>3, <3>4 DEF Holding
    <3>6. Notifies
      BY <1>2, <1>15, <2>1, <3>2, <3>5 DEF Notifies, Stream
    <3>7. f.kind # "ConnAck"
      BY <2>2 DEF SessionKinds
    <3> QED
      BY <1>4, <1>5, <1>9, <1>12, <3>6, <3>7
  <2>3. CASE f.kind = "ConnAck"
    <3>1. v.next = "Disconnected" /\ v.tag = "Error"
      BY <2>1, <2>3 DEF SessionVerdict, Verdict, SessionKinds
    <3>2. state' = "Disconnected" /\ held' = held
      BY <1>11, <1>15, <2>1, <3>1 DEF ContinueRead
    <3>3. Dead
      BY <3>2 DEF Dead
    <3>4. Stuck
      BY <1>12, <1>15, <2>3
    <3> QED
      BY <1>4, <1>5, <1>9, <3>3, <3>4
  <2> QED
    BY <1>8, <2>2, <2>3
<1> QED
  BY <1>7, <1>13, <1>14, <1>15

-----------------------------------------------------------------------------
(* WelcomeInv, action by action. *)
LEMMA ReturnNotConnect ==
    ASSUME NEW r, Return(r)
    PROVE  pc' # "connect" /\ op'.packet.kind # "Connect"
BY DEF Return, Idle, NoWrite, Writing, NoPacket

LEMMA AwaitNotConnect ==
    ASSUME NEW where, where # "connect", Await(where, NoWrite)
    PROVE  pc' # "connect" /\ op'.packet.kind # "Connect"
BY DEF Await, NoWrite, Writing, NoPacket

LEMMA DeadWelcome ==
    ASSUME state' = "Disconnected", pc' # "connect", op'.packet.kind # "Connect"
    PROVE  WelcomeInv'
BY DEF WelcomeInv

LEMMA QuietWelcome ==
    ASSUME WelcomeInv, UNCHANGED << state, rx, net, out, serving >>, held' = held \/ ~Holding',
           \/ pc' = pc /\ op' = op
           \/ pc # "connect" /\ pc' # "connect" /\ op'.packet.kind # "Connect"
    PROVE  WelcomeInv'
<1>1. Stream' = Stream
  BY DEF Stream
<1>2. StreamWelcome => StreamWelcome'
  BY <1>1 DEF StreamWelcome, Readable
<1>3. ConnectOnce => ConnectOnce'
  BY DEF ConnectOnce
<1>4. ~Holding => ~Holding'
  BY DEF Holding
<1>5. OpenWelcome => OpenWelcome'
  BY <1>1, <1>2, <1>3, <1>4 DEF OpenWelcome, WelcomeInv
<1> QED
  BY <1>5 DEF WelcomeInv

LEMMA ConnectWelcome ==
    ASSUME MaxHeld = 0, Polite, TypeOK, Connect
    PROVE  WelcomeInv'
<1>1. PICK ka \in KeepAlives : ConnectCall(ka, FALSE)
  BY DEF Connect
<1>2. Len(held') = 0 /\ held' \in Seq(Notifications)
  <2>1. held \in Seq(Notifications)
    BY DEF TypeOK
  <2> QED
    BY <1>1, <2>1, LenProperties DEF ConnectCall, MayGoOn
<1>3. ~Holding'
  BY <1>2, EmptySeq DEF Holding
<1>4. /\ pc' = "connect" /\ op'.packet.kind = "Connect"
      /\ state' = "TransportConnected" /\ serving' = FALSE
      /\ rx' = << >> /\ net' = << >> /\ out' = << >>
  BY <1>1 DEF Connect, ConnectCall, Polite, ResetBuffer, OnTransportOpened, Await, Writing, OutPacket
<1>5. Stream' = << >> /\ Len(Stream') = 0 /\ Len(out') = 0
  BY <1>4, EmptySeq, ConcatEmptySeq DEF Stream
<1>6. StreamWelcome' /\ ConnectOnce'
  BY <1>5 DEF StreamWelcome, ConnectOnce
<1> QED
  BY <1>3, <1>4, <1>5, <1>6 DEF WelcomeInv, OpenWelcome

LEMMA WriteWelcome ==
    ASSUME TypeOK, ReturnInv, WelcomeInv, UNCHANGED serving, WriteConnect \/ WritePacket
    PROVE  WelcomeInv'
<1>1. /\ state # "Disconnected" /\ OpenWelcome /\ pc \in {"connect", "write"}
      /\ out \in Seq(OutPackets) /\ op.packet \in OutPackets /\ Len(out) \in Nat
  BY PacketTypes
     DEF WriteConnect, WritePacket, ReturnInv, ReturnMatchesState, WritingPcs, WelcomeInv, TypeOK
<1>2. UNCHANGED << state, rx, net, held, serving >> /\ out' = out \o << op.packet >>
  BY DEF WriteConnect, WritePacket, Written, OnPacketSent
<1>3. out' = Append(out, op.packet)
  BY <1>1, <1>2, AppendIsConcat
<1>4. /\ Len(out') = Len(out) + 1
      /\ \A k \in 1..Len(out) : out'[k] = out[k]
      /\ out'[Len(out) + 1] = op.packet
  BY <1>1, <1>3, AppendProperties
<1>5. pc' # "connect" /\ op'.packet.kind # "Connect"
  BY ReturnNotConnect, AwaitNotConnect DEF WriteConnect, WritePacket
<1>6. Len(out) = 0 => out = << >>
  BY <1>1, EmptySeq
<1>7. out' # << >>
  <2>1. Len(out') # 0
    BY <1>1, <1>4
  <2> QED
    BY <2>1, EmptySeq
<1>8. pc = "connect" => Len(out) = 0 /\ ~serving
  BY EmptySeq DEF WelcomeInv
<1>9. op.packet.kind = "Connect" <=> pc = "connect"
  BY DEF WelcomeInv
<1>10. ConnectOnce'
  <2> SUFFICES ASSUME NEW k \in 1..Len(out'), out'[k].kind = "Connect" PROVE k = 1 /\ ~serving
    BY <1>2 DEF ConnectOnce
  <2>1. CASE k \in 1..Len(out)
    BY <1>1, <1>4, <2>1 DEF OpenWelcome, ConnectOnce
  <2>2. CASE k = Len(out) + 1
    BY <1>1, <1>4, <1>8, <1>9, <2>2
  <2> QED
    BY <1>1, <1>4, <2>1, <2>2
<1>11. ~serving => out'[1].kind = "Connect"
  <2>1. CASE pc = "connect"
    <3>1. Len(out) + 1 = 1
      BY <1>8, <2>1
    <3> QED
      BY <1>4, <1>9, <2>1, <3>1
  <2>2. CASE pc # "connect"
    <3> SUFFICES ASSUME ~serving PROVE out'[1].kind = "Connect"
      OBVIOUS
    <3>1. out # << >> /\ out[1].kind = "Connect"
      BY <1>1, <2>2 DEF OpenWelcome
    <3>2. 1 \in 1..Len(out)
      BY <1>1, <1>6, <3>1
    <3> QED
      BY <1>4, <3>1, <3>2
  <2> QED
    BY <2>1, <2>2
<1>12. Stream' = Stream /\ (Holding <=> Holding')
  BY <1>2 DEF Stream, Holding
<1>13. StreamWelcome'
  BY <1>1, <1>12 DEF OpenWelcome, StreamWelcome, Readable
<1>14. OpenWelcome'
  BY <1>1, <1>2, <1>7, <1>10, <1>11, <1>12, <1>13 DEF OpenWelcome
<1> QED
  BY <1>5, <1>14 DEF WelcomeInv

(* What the broker adds to a connection it serves. *)
LEMMA AddedWelcome ==
    ASSUME TypeOK, OpenWelcome, serving, NEW f \in Frames, Readable(f), f.kind # "ConnAck",
           rx' = rx, net' = net \o Encode(f), UNCHANGED << state, held >>, serving', ConnectOnce'
    PROVE  OpenWelcome'
<1>1. /\ StreamWelcome' /\ Stream' # << >>
      /\ Stream # << >> => Stream'[1] = Stream[1]
  BY AddWelcome DEF OpenWelcome
<1>2. Holding' <=> Holding
  BY DEF Holding
<1> QED
  BY <1>1, <1>2 DEF OpenWelcome

LEMMA DeliverWelcome ==
    ASSUME Polite, SessionTypeOK, WelcomeInv, Deliver
    PROVE  WelcomeInv'
<1>1. PICK i \in Msgs : Publish(i) \/ Release(i)
  BY DEF Deliver
<1>2. PICK f \in Frames : Readable(f) /\ f.kind # "ConnAck" /\ BrokerSends(f)
  <2>1. CASE Publish(i)
    <3>1. Backlog[i] \in Frames /\ Backlog[i].kind # "ConnAck" /\ Readable(Backlog[i])
      BY BacklogFacts DEF Polite
    <3> QED
      BY <2>1, <3>1 DEF Publish
  <2>2. CASE Release(i)
    <3> DEFINE g == PubRelOf(Backlog[i].pkid)
    <3>1. g \in Frames /\ g.kind # "ConnAck" /\ Readable(g)
      BY BacklogFacts, SessionAssumption, NanoAssumption DEF Polite
    <3>2. BrokerSends(g)
      BY <2>2 DEF Release
    <3> HIDE DEF g
    <3> QED
      BY <3>1, <3>2
  <2> QED
    BY <1>1, <2>1, <2>2
<1>3. serving /\ serving' = serving
  BY <1>1 DEF Publish, Release
<1>4. /\ TypeOK /\ OpenWelcome
      /\ rx' = rx /\ net' = net \o Encode(f) /\ UNCHANGED << state, held, out, pc, op >>
  BY <1>2 DEF BrokerSends, WelcomeInv, SessionTypeOK
<1>5. ConnectOnce'
  BY <1>3, <1>4 DEF OpenWelcome, ConnectOnce
<1>6. OpenWelcome'
  BY <1>2, <1>3, <1>4, <1>5, AddedWelcome
<1> QED
  BY <1>3, <1>4, <1>6 DEF WelcomeInv

LEMMA TakeWelcome ==
    ASSUME Polite, SessionTypeOK, WelcomeInv, Take
    PROVE  WelcomeInv'
<1> DEFINE p == out[1]
<1>1. TypeOK /\ out \in Seq(OutPackets) /\ Len(out) \in Nat
  BY PacketTypes DEF SessionTypeOK
<1>2. /\ out # << >> /\ 1 \in 1..Len(out) /\ Head(out) = p /\ p \in OutPackets
      /\ Len(out') = Len(out) - 1
      /\ \A k \in 1..Len(out') : k + 1 \in 1..Len(out) /\ k + 1 # 1 /\ out'[k] = out[k + 1]
  <2>1. out # << >> /\ out' = Tail(out)
    BY DEF Take, BrokerTakes
  <2>2. 1 \in 1..Len(out)
    BY <1>1, <2>1, EmptySeq
  <2>3. /\ Head(out) = p /\ Len(Tail(out)) = Len(out) - 1
        /\ \A k \in 1..(Len(out) - 1) : Tail(out)[k] = out[k + 1]
    BY <1>1, <2>1, HeadTailProperties
  <2>4. p \in OutPackets
    BY <1>1, <2>2, ElementOfSeq
  <2> QED
    BY <1>1, <2>1, <2>2, <2>3, <2>4
<1>3. /\ UNCHANGED << state, rx, held, pc, op >>
      /\ serving' = (serving \/ p.kind = "Connect")
      /\ \/ Answers(p) = {} /\ net' = net
         \/ \E f \in Answers(p) : net' = net \o Encode(f)
  BY <1>2 DEF Take, BrokerTakes
<1>4. pc # "connect" /\ pc' # "connect"
  BY <1>2, <1>3 DEF WelcomeInv
<1>5. \A f \in Answers(p) : /\ f \in Frames /\ Readable(f)
                            /\ f.kind = "ConnAck" <=> p.kind = "Connect"
  BY <1>2, NanoAssumption DEF Polite
<1>6. p.kind = "Connect" => Answers(p) # {}
  BY <1>2 DEF Polite
<1>7. ASSUME OpenWelcome PROVE OpenWelcome'
  <2>1. \A k \in 1..Len(out') : out'[k].kind # "Connect"
    BY <1>2, <1>7 DEF OpenWelcome, ConnectOnce
  <2>2. ConnectOnce'
    BY <2>1 DEF ConnectOnce
  <2>3. Holding' <=> Holding
    BY <1>3 DEF Holding
  <2>4. CASE p.kind = "Connect"
    <3>1. ~serving /\ Stream = << >> /\ serving'
      BY <1>2, <1>3, <1>7, <2>4 DEF OpenWelcome, ConnectOnce
    <3>2. PICK f \in Answers(p) : net' = net \o Encode(f)
      BY <1>3, <1>6, <2>4
    <3>3. f \in Frames /\ Readable(f) /\ f.kind = "ConnAck" /\ StreamWelcome
      BY <1>5, <1>7, <2>4 DEF OpenWelcome
    <3>4. StreamWelcome' /\ Stream' # << >> /\ Stream'[1].frame = f
      BY <1>1, <1>3, <3>1, <3>2, <3>3, AddWelcome
    <3> QED
      BY <1>3, <1>7, <2>2, <2>3, <3>1, <3>3, <3>4 DEF OpenWelcome
  <2>5. CASE p.kind # "Connect"
    <3>1. serving /\ serving'
      BY <1>3, <1>4, <1>7, <2>5 DEF OpenWelcome
    <3>2. CASE net' = net
      <4>1. Stream' = Stream
        BY <1>3, <3>2 DEF Stream
      <4>2. StreamWelcome'
        BY <1>7, <4>1 DEF OpenWelcome, StreamWelcome, Readable
      <4> QED
        BY <1>3, <1>7, <2>2, <2>3, <3>1, <4>1, <4>2 DEF OpenWelcome
    <3>3. ASSUME NEW f \in Answers(p), net' = net \o Encode(f) PROVE OpenWelcome'
      <4>1. f \in Frames /\ Readable(f) /\ f.kind # "ConnAck"
        BY <1>5, <2>5
      <4> QED
        BY <1>1, <1>3, <1>7, <2>2, <3>1, <3>3, <4>1, AddedWelcome
    <3> QED
      BY <1>3, <3>2, <3>3
  <2> QED
    BY <2>4, <2>5
<1> QED
  BY <1>3, <1>4, <1>7 DEF WelcomeInv

LEMMA CompletionNotConnect ==
    ASSUME "with_action" \notin UserOps, NEW t, NEW c \in Completions(t)
    PROVE  c[1].kind # "Connect"
<1>1. c[1] \in {DefaultAction(t), NoPacket, PingOnly(t)}
  BY DEF Completions
<1> QED
  BY <1>1 DEF DefaultAction, PingOnly, NoPacket, OutPacket

LEMMA CompleteWelcome ==
    ASSUME Careful, TypeOK, StreamInv, WelcomeInv, UNCHANGED serving,
           NEW i \in 1..Len(held), Complete(i)
    PROVE  WelcomeInv'
<1>1. MaxHeld = 0 /\ "with_action" \notin UserOps
  BY DEF Careful
<1>2. pc # "connect" /\ UNCHANGED << state, out >>
  BY DEF Complete, Idle
<1>3. pc' # "connect" /\ op'.packet.kind # "Connect"
  <2>1. PICK c \in Completions(held[i]) :
            IF c[1] = NoPacket THEN Return("Ok")
            ELSE Transmit(c[1], c[2], Removed(rx, held[i].taken))
    BY DEF Complete
  <2>2. c[1].kind # "Connect"
    BY <1>1, CompletionNotConnect
  <2> QED
    BY <2>1, <2>2, ReturnNotConnect DEF Transmit, Await, Writing
<1>4. /\ ~Holding' /\ net' = net
      /\ \/ ~Holding /\ rx' = rx
         \/ LET n == FrameLength(Stream[1].frame) IN
            /\ Holding
            /\ n \in 0..Len(Stream)
            /\ Stream' = SubSeq(Stream, n + 1, Len(Stream))
  BY <1>1, CompleteFront
<1>5. CASE rx' = rx
  BY <1>2, <1>3, <1>4, <1>5, QuietWelcome
<1>6. CASE LET n == FrameLength(Stream[1].frame) IN
           /\ Holding
           /\ n \in 0..Len(Stream)
           /\ Stream' = SubSeq(Stream, n + 1, Len(Stream))
  <2>1. Stream # << >>
    BY <1>6, HoldingFront
  <2>2. ASSUME OpenWelcome PROVE OpenWelcome'
    <3>1. StreamWelcome' /\ serving /\ serving' /\ state # "TransportConnected"
      BY <1>6, <2>1, <2>2, RestWelcome DEF OpenWelcome
    <3> QED
      BY <1>2, <2>2, <3>1 DEF OpenWelcome, ConnectOnce
  <2> QED
    BY <1>2, <1>3, <2>2 DEF WelcomeInv
<1> QED
  BY <1>4, <1>5, <1>6

LEMMA ReadWelcome ==
    ASSUME TypeOK, StreamInv, ReturnInv, WelcomeInv, UNCHANGED serving,
           NEW n \in 1..Capacity, ReadBytes(n)
    PROVE  WelcomeInv'
<1>1. /\ Stream # << >> /\ pc' # "connect" /\ op'.packet.kind # "Connect"
      /\ Dead \/ Waits \/ TakesConnAck \/ Notifies
  BY ReadOutcome
<1>2. pc # "connect" /\ out' = out /\ state # "Disconnected"
  BY DEF ReadBytes, Reading, ReturnInv, ReturnMatchesState
<1>3. OpenWelcome /\ serving /\ StreamWelcome
  BY <1>1, <1>2 DEF WelcomeInv, OpenWelcome
<1>4. ConnectOnce'
  BY <1>2, <1>3 DEF OpenWelcome, ConnectOnce
<1>5. CASE state' = "Disconnected"
  BY <1>1, <1>5, DeadWelcome
<1>6. CASE state' = state /\ Stream' = Stream /\ held' = held
  <2>1. StreamWelcome' /\ (Holding' <=> Holding)
    BY <1>3, <1>6 DEF StreamWelcome, Readable, Holding
  <2>2. OpenWelcome'
    BY <1>1, <1>2, <1>3, <1>4, <1>6, <2>1 DEF OpenWelcome
  <2> QED
    BY <1>1, <2>2 DEF WelcomeInv
<1>7. CASE TakesConnAck
  <2>1. StreamWelcome'
    BY <1>1, <1>3, <1>7, RestWelcome DEF TakesConnAck
  <2>2. OpenWelcome'
    BY <1>3, <1>4, <1>7, <2>1 DEF OpenWelcome, TakesConnAck
  <2> QED
    BY <1>1, <2>2 DEF WelcomeInv
<1>8. CASE Notifies
  <2>1. StreamWelcome'
    BY <1>3, <1>8 DEF StreamWelcome, Readable, Notifies
  <2>2. OpenWelcome'
    BY <1>3, <1>4, <1>8, <2>1 DEF OpenWelcome, Notifies
  <2> QED
    BY <1>1, <2>2 DEF WelcomeInv
<1> QED
  BY <1>1, <1>5, <1>6, <1>7, <1>8 DEF Dead, Waits

LEMMA TimeoutHand ==
    ASSUME TypeOK, StreamInv, ReadTimeout
    PROVE  ~Holding' /\ held' = << SendPing >>
<1>1. pc \in Reading
  BY DEF ReadTimeout, Reading
<1>2. held = << >>
  BY <1>1, ReadingEmptyHanded
<1>3. held' = Append(<< >>, SendPing)
  BY <1>2 DEF ReadTimeout
<1>4. held' = << SendPing >>
  BY <1>3
<1>5. held'[1] = SendPing
  BY <1>4
<1> QED
  BY <1>4, <1>5 DEF Holding, SendPing

LEMMA DropHand ==
    ASSUME TypeOK, StreamInv, NEW i \in 1..Len(held), DropNotification(i)
    PROVE  ~Holding'
<1>1. held \in Seq(Notifications)
  BY DEF TypeOK
<1>2. Len(held') = 0 /\ held' \in Seq(Notifications)
  BY <1>1, RemoveOnly, RemoveAtType DEF DropNotification, StreamInv, HeldInv
<1> QED
  BY <1>2, EmptySeq DEF Holding

LEMMA NextWelcome ==
    ASSUME Careful, Polite, SessionTypeOK, StreamInv, ReturnInv, WelcomeInv, [SessionNext]_svars
    PROVE  WelcomeInv'
<1>1. MaxHeld = 0 /\ TypeOK
  BY DEF Careful, SessionTypeOK
<1>2. CASE Connect
  BY <1>1, <1>2, ConnectWelcome
<1>3. CASE Client \/ Clock \/ Mishap
  <2>1. UNCHANGED serving
    BY <1>3 DEF Client, Clock, Mishap, session
  <2>2. CASE Read
    BY <1>1, <2>1, <2>2, ReadWelcome DEF Read
  <2>3. ASSUME NEW i \in 1..Len(held), Complete(i) PROVE WelcomeInv'
    BY <1>1, <2>1, <2>3, CompleteWelcome
  <2>4. CASE WriteConnect \/ WritePacket
    BY <1>1, <2>1, <2>4, WriteWelcome
  <2>5. CASE WriteFails \/ ReadEof \/ ReadErrs
    BY <2>5, ReturnNotConnect, DeadWelcome
       DEF WriteFails, ReadEof, ReadErrs, ReadEnds, OnTransportClosed
  <2>6. CASE ReadTimeout
    <3>1. pc # "connect" /\ pc' # "connect" /\ op'.packet.kind # "Connect"
      BY <2>6, ReturnNotConnect DEF ReadTimeout
    <3>2. UNCHANGED << state, rx, net, out >>
      BY <2>6 DEF ReadTimeout
    <3> QED
      BY <1>1, <2>1, <2>6, <3>1, <3>2, TimeoutHand, QuietWelcome
  <2>7. CASE NextNotification
    <3>1. pc # "connect" /\ pc' # "connect" /\ op'.packet.kind # "Connect"
      BY <2>7, ReturnNotConnect, AwaitNotConnect DEF NextNotification, MayGoOn, Idle
    <3>2. UNCHANGED << state, rx, net, out, held >>
      BY <2>7 DEF NextNotification
    <3> QED
      BY <2>1, <3>1, <3>2, QuietWelcome
  <2>8. CASE CancelRead
    <3>1. pc # "connect" /\ pc' # "connect" /\ op'.packet.kind # "Connect"
      BY <2>8, ReturnNotConnect DEF CancelRead, Reading
    <3>2. UNCHANGED << state, rx, net, out, held >>
      BY <2>8 DEF CancelRead
    <3> QED
      BY <2>1, <3>1, <3>2, QuietWelcome
  <2>9. CASE Tick \/ BrokerCloses
    BY <2>1, <2>9, QuietWelcome DEF Tick, BrokerCloses
  <2>10. ASSUME NEW i \in 1..Len(held), DropNotification(i) PROVE WelcomeInv'
    <3>1. UNCHANGED << state, rx, net, out, pc, op >>
      BY <2>10 DEF DropNotification
    <3> QED
      BY <1>1, <2>1, <2>10, <3>1, DropHand, QuietWelcome
  <2> QED
    BY <1>3, <2>2, <2>3, <2>4, <2>5, <2>6, <2>7, <2>8, <2>9, <2>10
       DEF Client, Loop, Call, Clock, Mishap
<1>4. CASE Deliver
  BY <1>4, DeliverWelcome
<1>5. CASE Take
  BY <1>5, TakeWelcome
<1>6. CASE UNCHANGED svars
  BY <1>6, QuietWelcome DEF svars, vars, session
<1> QED
  BY <1>2, <1>3, <1>4, <1>5, <1>6 DEF SessionNext

-----------------------------------------------------------------------------
(* RepeatInv, action by action. *)
LEMMA OverQuiet ==
    ASSUME UNCHANGED << state, rx, net >>, held' = held \/ (~Holding /\ ~Holding')
    PROVE  Over' <=> Over
<1>1. Stream' = Stream /\ Free' = Free /\ (Holding' <=> Holding)
  BY DEF Stream, Free, Holding
<1> QED
  BY <1>1 DEF Over, Stuck

LEMMA DueQuiet ==
    ASSUME UNCHANGED << phase, sentNow, rx, net >>, held' = held \/ ~Holding, NEW i \in Msgs
    PROVE  Due(i)' => Due(i)
<1>1. Stream' = Stream /\ (InStream(i)' <=> InStream(i)) /\ (Holding => Holding')
  BY DEF Stream, InStream, Holding
<1> QED
  BY <1>1 DEF Due

LEMMA RepeatTyped == ASSUME SessionTypeOK PROVE RepeatTypes
BY SessionAssumption DEF SessionTypeOK, RepeatTypes

LEMMA ConnectRepeat ==
    ASSUME SessionTypeOK, RepeatInv, Connect
    PROVE  RepeatInv'
<1>1. /\ times' = times /\ eof' = FALSE
      /\ IF state = "Disconnected" THEN faults' = faults ELSE faults' = faults + 1
  BY DEF Connect, ConnectCall, NothingShown, Faultless, Fault
<1>2. ASSUME NEW i \in Msgs PROVE times'[i] <= faults' /\ faults' \in Nat
  <2>1. times[i] \in Nat /\ faults \in Nat
    BY RepeatTyped DEF RepeatTypes
  <2>2. CASE state = "Disconnected"
    BY <1>1, <2>1, <2>2 DEF RepeatInv, Over
  <2>3. CASE state # "Disconnected"
    <3>1. times[i] <= faults + 1
      BY <2>1 DEF RepeatInv
    <3> QED
      BY <1>1, <2>1, <2>3, <3>1
  <2> QED
    BY <2>2, <2>3
<1>3. ASSUME NEW i \in Msgs PROVE times'[i] <= faults' + 1
  <2>1. times'[i] <= faults' /\ faults' \in Nat /\ times'[i] \in Nat
    BY <1>1, <1>2, RepeatTyped DEF RepeatTypes
  <2> QED
    BY <2>1
<1> QED
  BY <1>1, <1>2, <1>3 DEF RepeatInv

LEMMA CompleteRepeat ==
    ASSUME Careful, SessionTypeOK, StreamInv, SessionInv, WelcomeInv, RepeatInv,
           NEW i \in 1..Len(held), Complete(i), NothingShown, Faultless, UNCHANGED session
    PROVE  RepeatInv'
<1> DEFINE n == FrameLength(Stream[1].frame)
<1>1. MaxHeld = 0 /\ TypeOK /\ RepeatTypes
  BY RepeatTyped DEF Careful, SessionTypeOK
<1>2. UNCHANGED << state, eof, phase, sentNow, times, faults >>
  BY DEF Complete, NothingShown, Faultless, session
<1>3. /\ ~Holding' /\ net' = net
      /\ \/ ~Holding /\ rx' = rx
         \/ /\ Holding
            /\ n \in 0..Len(Stream)
            /\ Len(rx') = Len(rx) - n /\ n >= 2
            /\ Stream' = SubSeq(Stream, n + 1, Len(Stream))
  BY <1>1, CompleteFront
<1>4. CASE ~Holding /\ rx' = rx
  <2>1. Over' <=> Over
    BY <1>2, <1>3, <1>4, OverQuiet
  <2>2. \A j \in Msgs : Due(j)' => Due(j)
    BY <1>2, <1>3, <1>4, DueQuiet
  <2> QED
    BY <1>1, <1>2, <2>1, <2>2, CalmRepeat
<1>5. CASE /\ Holding
           /\ n \in 0..Len(Stream)
           /\ Len(rx') = Len(rx) - n /\ n >= 2
           /\ Stream' = SubSeq(Stream, n + 1, Len(Stream))
  <2>1. Stream # << >> /\ Len(rx) \in Nat /\ Len(Stream) \in Nat
    BY <1>1, <1>5, HoldingFront, StreamType
  <2>2. Over => Over'
    BY <1>2, <1>5 DEF Over, Stuck
  <2>3. Over' => Over
    <3> SUFFICES ASSUME state # "Disconnected" PROVE ~Stuck'
      BY <1>2 DEF Over
    <3>1. \A k \in 1..Len(Stream') : Stream'[k].frame.kind # "ConnAck"
      BY <1>1, <1>5, <2>1, RestWelcome DEF WelcomeInv, OpenWelcome
    <3>2. Stream' # << >> => 1 \in 1..Len(Stream')
      <4>1. Stream' \in Seq(Bytes) /\ Len(Stream') \in Nat
        <5>1. \E k \in 1..Len(held) : Complete(k) \/ DropNotification(k)
          OBVIOUS
        <5>2. [Next]_vars
          BY <5>1 DEF Next
        <5>3. rx' \in Seq(Bytes) /\ net' \in Seq(Bytes)
          BY <1>1, <5>2, NextTypeOK DEF TypeOK
        <5> QED
          BY <5>3, ConcatProperties, LenProperties DEF Stream
      <4> QED
        BY <4>1, EmptySeq
    <3>3. Free' # 0
      <4>1. Len(rx) <= Capacity /\ Capacity \in Nat
        BY <1>1, NanoAssumption DEF TypeOK
      <4>2. n \in Nat
        BY <1>5, <2>1
      <4> HIDE DEF n
      <4> QED
        BY <1>5, <2>1, <4>1, <4>2 DEF Free
    <3> QED
      BY <3>1, <3>2, <3>3 DEF Stuck
  <2>4. ASSUME NEW j \in Msgs, Due(j)' PROVE Due(j)
    <3>1. phase[j] \in {"queued", "publish"} /\ (j \in sentNow => InStream(j)')
      BY <1>2, <2>4 DEF Due
    <3> SUFFICES ASSUME j \in sentNow
                 PROVE  InStream(j) /\ Stream[1].frame # Backlog[j]
      BY <3>1 DEF Due
    <3>2. PICK k \in 1..Len(Stream') : Stream'[k].frame = Backlog[j]
      BY <3>1 DEF InStream
    <3>3. n + k \in 1..Len(Stream) /\ Stream'[k] = Stream[n + k]
      BY <1>1, <1>5, CutPlaces
    <3>4. InStream(j)
      BY <3>2, <3>3 DEF InStream
    <3>5. Stream[1].frame # Backlog[j]
      <4> SUFFICES ASSUME Stream[1].frame = Backlog[j] PROVE FALSE
        OBVIOUS
      <4>1. Stream[1].frame.kind = "Publish"
        BY BacklogFacts
      <4> QED
        BY <1>1, <1>5, <2>1, <3>2, <4>1, FrontGone DEF SessionInv, StreamPart
    <3> QED
      BY <3>4, <3>5
  <2> QED
    BY <1>1, <1>2, <2>2, <2>3, <2>4, CalmRepeat
<1> QED
  BY <1>3, <1>4, <1>5

LEMMA ReadRepeat ==
    ASSUME SessionTypeOK, StreamInv, StreamInv', ReturnInv, SessionInv, WelcomeInv, RepeatInv,
           NEW n \in 1..Capacity, ReadBytes(n), NotePublish, Faultless, UNCHANGED session
    PROVE  RepeatInv'
<1>1. TypeOK /\ RepeatTypes
  BY RepeatTyped DEF SessionTypeOK
<1>2. UNCHANGED << eof, phase, sentNow, faults >>
  BY DEF ReadBytes, Faultless, session
<1>3. /\ Stream # << >> /\ Free # 0
      /\ IF Stuck THEN Dead ELSE Waits \/ TakesConnAck \/ Notifies
  BY <1>1, ReadOutcome
<1>4. ~Holding /\ state # "Disconnected"
  BY <1>1, ReadingEmptyHanded DEF ReadBytes, Reading, ReturnInv, ReturnMatchesState
<1>5. ASSUME held' = held PROVE times' = times
  <2>1. \A i \in Msgs : ~Shown(i)
    <3>1. Len(held) \in Nat /\ ~(Len(held) > Len(held))
      BY <1>1, LenProperties DEF TypeOK
    <3> QED
      BY <1>5, <3>1 DEF Shown
  <2> QED
    BY <1>1, <2>1 DEF NotePublish, RepeatTypes
<1>6. Capacity \in Nat
  BY NanoAssumption
<1>7. CASE Stuck
  <2>1. Dead
    BY <1>3, <1>7
  <2>2. times' = times /\ Over
    BY <1>5, <1>7, <2>1 DEF Dead, Over
  <2>3. Over'
    <3>1. CASE state' = "Disconnected"
      BY <3>1 DEF Over
    <3>2. CASE state' = state /\ Stream' = Stream /\ held' = held
      BY <1>3, <1>7, <3>2 DEF Over, Stuck, Holding
    <3> QED
      BY <2>1, <3>1, <3>2 DEF Dead
  <2>4. \A i \in Msgs : times'[i] <= faults'
    BY <1>2, <2>2 DEF RepeatInv
  <2> QED
    BY <2>3, <2>4 DEF RepeatInv
<1>8. CASE ~Stuck /\ Waits
  <2>1. /\ state' = state /\ held' = held /\ Stream' = Stream /\ times' = times
        /\ Len(rx') < Capacity
    BY <1>5, <1>8 DEF Waits
  <2>2. Free' # 0 /\ ~Holding' /\ ~Over
    BY <1>1, <1>4, <1>6, <1>8, <2>1, ReadBytesType, LenProperties DEF Free, Holding, Over, StreamOK
  <2>3. ~Over'
    BY <1>4, <1>8, <2>1, <2>2 DEF Over, Stuck
  <2>4. \A i \in Msgs : Due(i)' => Due(i)
    BY <1>2, <1>4, <2>1 DEF Due, InStream
  <2> QED
    BY <1>1, <1>2, <2>1, <2>2, <2>3, <2>4, CalmRepeat
<1>9. CASE ~Stuck /\ TakesConnAck
  <2> DEFINE m == FrameLength(Stream[1].frame)
  <2>1. /\ state = "TransportConnected" /\ state' = "Connected" /\ held' = held /\ times' = times
        /\ m \in 0..Len(Stream)
        /\ Stream' = SubSeq(Stream, m + 1, Len(Stream)) /\ Len(rx') < Capacity
    BY <1>5, <1>9 DEF TakesConnAck
  <2>2. Free' # 0 /\ ~Over
    BY <1>1, <1>4, <1>6, <1>9, <2>1, ReadBytesType, LenProperties DEF Free, Over, StreamOK
  <2>3. \A k \in 1..Len(Stream') : Stream'[k].frame.kind # "ConnAck"
    BY <1>1, <1>3, <1>4, <2>1, RestWelcome DEF WelcomeInv, OpenWelcome
  <2>4. Stream' # << >> => 1 \in 1..Len(Stream')
    <3>1. Stream' \in Seq(Bytes) /\ Len(Stream') \in Nat
      <4>1. rx' \in Seq(Bytes) /\ net' \in Seq(Bytes)
        BY <1>1, ReadBytesType DEF StreamOK
      <4> QED
        BY <4>1, ConcatProperties, LenProperties DEF Stream
    <3> QED
      BY <3>1, EmptySeq
  <2>5. ~Over'
    BY <2>1, <2>2, <2>3, <2>4 DEF Over, Stuck
  <2>6. ASSUME NEW i \in Msgs, Due(i)' PROVE Due(i)
    <3>1. phase[i] \in {"queued", "publish"} /\ (i \in sentNow => InStream(i)')
      BY <1>2, <2>6 DEF Due
    <3>2. ASSUME InStream(i)' PROVE InStream(i)
      <4>1. PICK k \in 1..Len(Stream') : Stream'[k].frame = Backlog[i]
        BY <3>2 DEF InStream
      <4>2. m + k \in 1..Len(Stream) /\ Stream'[k] = Stream[m + k]
        BY <1>1, <2>1, CutPlaces
      <4> QED
        BY <4>1, <4>2 DEF InStream
    <3> QED
      BY <1>4, <3>1, <3>2 DEF Due
  <2> QED
    BY <1>1, <1>2, <2>1, <2>2, <2>5, <2>6, CalmRepeat
<1>10. CASE ~Stuck /\ Notifies
  <2>1. ~Over /\ ~Over' /\ Holding' /\ Stream' = Stream
    BY <1>4, <1>10 DEF Over, Stuck, Notifies
  <2>2. ASSUME NEW i \in Msgs
        PROVE  /\ times'[i] <= faults' + 1
               /\ eof' \/ Due(i)' => times'[i] <= faults'
               /\ eof' /\ Due(i)' => times'[i] < faults'
    <3>1. /\ times[i] \in Nat /\ faults \in Nat
          /\ times[i] <= faults + 1
          /\ eof \/ Due(i) => times[i] <= faults
          /\ eof /\ Due(i) => times[i] < faults
      BY <1>1, <2>1 DEF RepeatInv, RepeatTypes
    <3>2. times'[i] = IF Shown(i) THEN times[i] + 1 ELSE times[i]
      BY DEF NotePublish
    <3>3. CASE Shown(i)
      <4>1. 1 \in 1..Len(Stream) /\ Stream[1].frame = Backlog[i]
        BY <1>1, <3>3, ShownIsFront
      <4>2. InStream(i)
        BY <4>1 DEF InStream
      <4>3. phase[i] = "publish" /\ i \in sentNow
        BY <4>2, InStreamOwed DEF SessionInv, StreamPart
      <4>4. Due(i)
        BY <1>4, <4>2, <4>3 DEF Due
      <4>5. ~Due(i)'
        BY <1>2, <2>1, <4>1, <4>3 DEF Due
      <4> QED
        BY <1>2, <3>1, <3>2, <3>3, <4>4, <4>5
    <3>4. CASE ~Shown(i)
      <4>1. Due(i)' => Due(i)
        BY <1>2, <1>4, <2>1 DEF Due, InStream
      <4> QED
        BY <1>2, <3>1, <3>2, <3>4, <4>1
    <3> QED
      BY <3>3, <3>4
  <2> QED
    BY <2>1, <2>2 DEF RepeatInv
<1> QED
  BY <1>3, <1>7, <1>8, <1>9, <1>10

(* Bytes added behind the stream leave its front alone. *)
LEMMA AddFront ==
    ASSUME TypeOK, NEW f \in Frames, rx' = rx, net' = net \o Encode(f)
    PROVE  /\ Stream # << >> => Stream' # << >> /\ Stream'[1] = Stream[1]
           /\ Stream = << >> => Stream'[1].frame = f
<1>1. /\ \A k \in 1..Len(Stream) : k \in 1..Len(Stream') /\ Stream'[k] = Stream[k]
      /\ \A k \in 1..FrameLength(f) :
            Len(Stream) + k \in 1..Len(Stream') /\ Stream'[Len(Stream) + k].frame = f
  BY AddPlaces
<1>2. /\ Len(Stream) \in Nat /\ 1 \in 1..FrameLength(f)
      /\ Stream = << >> <=> Len(Stream) = 0
  BY StreamType, FrameLengthType, EmptySeq
<1>3. Stream # << >> => Stream' # << >> /\ Stream'[1] = Stream[1]
  <2> SUFFICES ASSUME Stream # << >> PROVE Stream' # << >> /\ Stream'[1] = Stream[1]
    OBVIOUS
  <2>1. 1 \in 1..Len(Stream)
    BY <1>2
  <2>2. 1 \in 1..Len(Stream') /\ Stream'[1] = Stream[1]
    BY <1>1, <2>1
  <2>3. Len(Stream') # 0
    BY <2>2
  <2> QED
    BY <2>2, <2>3, EmptySeq
<1>4. Stream = << >> => Stream'[1].frame = f
  <2>1. Stream = << >> => Len(Stream) + 1 = 1
    BY <1>2
  <2> QED
    BY <1>1, <1>2, <2>1
<1> QED
  BY <1>3, <1>4

LEMMA AddOver ==
    ASSUME UNCHANGED << state, rx, held >>, NEW f, f.kind = "ConnAck" => state # "Connected",
           Stream # << >> => Stream' # << >> /\ Stream'[1] = Stream[1],
           Stream = << >> => Stream'[1].frame = f
    PROVE  Over' <=> Over
<1>1. Free' = Free /\ (Holding' <=> Holding)
  BY DEF Free, Holding
<1> QED
  BY <1>1 DEF Over, Stuck

LEMMA PublishRepeat ==
    ASSUME SessionTypeOK, StreamInv, SessionInv, RepeatInv, NEW i \in Msgs, Publish(i)
    PROVE  RepeatInv'
<1>1. /\ TypeOK /\ RepeatTypes
      /\ sentNow' = sentNow \cup {i} /\ phase' = [phase EXCEPT ![i] = "publish"]
      /\ phase \in [Msgs -> Phases]
      /\ UNCHANGED << state, rx, eof, held, times, faults >>
      /\ net' = net \o Encode(Backlog[i])
      /\ Backlog[i] \in Frames /\ Backlog[i].kind = "Publish"
      /\ phase[i] \in {"queued", "publish"} /\ i \notin sentNow
  BY RepeatTyped, BacklogFacts
     DEF SessionTypeOK, Publish, MayPublish, BrokerSends, NothingShown, Faultless
<1>2. /\ Stream # << >> => Stream' # << >> /\ Stream'[1] = Stream[1]
      /\ Stream = << >> => Stream'[1].frame = Backlog[i]
  BY <1>1, AddFront
<1>3. Over' <=> Over
  BY <1>1, <1>2, AddOver
<1>4. ASSUME NEW j \in Msgs, Due(j)' PROVE Due(j)
  <2>1. CASE j = i
    BY <1>1, <2>1 DEF Due
  <2>2. CASE j # i
    <3>1. phase'[j] = phase[j] /\ (j \in sentNow' <=> j \in sentNow)
      BY <1>1, <2>2
    <3>2. InStream(j)' => InStream(j)
      <4>1. Backlog[i] # Backlog[j]
        BY <2>2, BacklogFacts
      <4> QED
        BY <1>1, <4>1, AddForgets
    <3>3. Holding /\ Stream[1].frame = Backlog[j] => Holding' /\ Stream'[1].frame = Backlog[j]
      BY <1>1, <1>2, HoldingFront DEF Holding
    <3> QED
      BY <1>4, <3>1, <3>2, <3>3 DEF Due
  <2> QED
    BY <2>1, <2>2
<1> QED
  BY <1>1, <1>3, <1>4, CalmRepeat

LEMMA ReleaseRepeat ==
    ASSUME SessionTypeOK, StreamInv, SessionInv, RepeatInv, NEW i \in Msgs, Release(i)
    PROVE  RepeatInv'
<1> DEFINE f == PubRelOf(Backlog[i].pkid)
<1>1. /\ TypeOK /\ RepeatTypes
      /\ sentNow' = sentNow \cup {i} /\ phase' = phase /\ phase[i] = "release"
      /\ UNCHANGED << state, rx, eof, held, times, faults >>
      /\ net' = net \o Encode(f)
      /\ f \in Frames /\ f.kind = "PubRel"
  BY RepeatTyped, BacklogFacts, SessionAssumption, NanoAssumption
     DEF SessionTypeOK, Release, BrokerSends, NothingShown, Faultless
<1> HIDE DEF f
<1>2. /\ Stream # << >> => Stream' # << >> /\ Stream'[1] = Stream[1]
      /\ Stream = << >> => Stream'[1].frame = f
  BY <1>1, AddFront
<1>3. Over' <=> Over
  BY <1>1, <1>2, AddOver
<1>4. ASSUME NEW j \in Msgs, Due(j)' PROVE Due(j)
  <2>1. j # i /\ phase'[j] = phase[j] /\ (j \in sentNow' <=> j \in sentNow)
    BY <1>1, <1>4 DEF Due
  <2>2. InStream(j)' => InStream(j)
    <3>1. f # Backlog[j]
      BY <1>1, BacklogFacts
    <3> QED
      BY <1>1, <3>1, AddForgets
  <2>3. Holding /\ Stream[1].frame = Backlog[j] => Holding' /\ Stream'[1].frame = Backlog[j]
    BY <1>1, <1>2, HoldingFront DEF Holding
  <2> QED
    BY <1>4, <2>1, <2>2, <2>3 DEF Due
<1> QED
  BY <1>1, <1>3, <1>4, CalmRepeat

LEMMA TakeRepeat ==
    ASSUME Polite, SessionTypeOK, StreamInv, SessionInv, WelcomeInv, RepeatInv, Take
    PROVE  RepeatInv'
<1> DEFINE p == Head(out)
<1>1. /\ TypeOK /\ RepeatTypes /\ phase \in [Msgs -> Phases]
      /\ out \in Seq(OutPackets) /\ out # << >> /\ Len(out) \in Nat
  BY RepeatTyped, PacketTypes DEF SessionTypeOK, Take, BrokerTakes
<1>2. p \in OutPackets /\ p = out[1] /\ 1 \in 1..Len(out)
  <2>1. 1 \in 1..Len(out)
    BY <1>1, EmptySeq
  <2> QED
    BY <1>1, <2>1, HeadTailProperties, ElementOfSeq
<1>3. /\ UNCHANGED << state, rx, eof, held, times, faults, sentNow >>
      /\ \A j \in Msgs : phase'[j] = PhaseAfter(p, j)
      /\ \/ net' = net
         \/ \E f \in Answers(p) : net' = net \o Encode(f)
  BY DEF Take, BrokerTakes, NothingShown, Faultless
<1>4. \A j \in Msgs : phase'[j] \in {"queued", "publish"} => phase[j] \in {"queued", "publish"}
  <2> HIDE DEF p
  <2> QED
    BY <1>1, <1>3, PhaseFacts
<1>5. p.kind = "Connect" => state # "Connected"
  BY <1>2 DEF WelcomeInv, OpenWelcome, ConnectOnce
<1>6. CASE net' = net
  <2>1. Over' <=> Over
    BY <1>3, <1>6, OverQuiet
  <2>2. ASSUME NEW j \in Msgs, Due(j)' PROVE Due(j)
    <3>1. Stream' = Stream /\ (InStream(j)' <=> InStream(j)) /\ (Holding' <=> Holding)
      BY <1>3, <1>6 DEF Stream, InStream, Holding
    <3> QED
      BY <1>3, <1>4, <2>2, <3>1 DEF Due
  <2> QED
    BY <1>1, <1>3, <2>1, <2>2, CalmRepeat
<1>7. ASSUME NEW f \in Answers(p), net' = net \o Encode(f) PROVE RepeatInv'
  <2>1. f \in Frames /\ f.kind # "Publish" /\ (f.kind = "ConnAck" <=> p.kind = "Connect")
    BY <1>2, NanoAssumption, SessionAssumption DEF Polite
  <2>2. /\ Stream # << >> => Stream' # << >> /\ Stream'[1] = Stream[1]
        /\ Stream = << >> => Stream'[1].frame = f
    BY <1>1, <1>3, <1>7, <2>1, AddFront
  <2>3. Over' <=> Over
    BY <1>1, <1>3, <1>5, <2>1, <2>2, AddOver
  <2>4. ASSUME NEW j \in Msgs, Due(j)' PROVE Due(j)
    <3>1. InStream(j)' => InStream(j)
      <4>1. f # Backlog[j]
        BY <2>1, BacklogFacts
      <4> QED
        BY <1>1, <1>3, <1>7, <2>1, <4>1, AddForgets
    <3>2. Holding /\ Stream[1].frame = Backlog[j] => Holding' /\ Stream'[1].frame = Backlog[j]
      BY <1>1, <1>3, <2>2, HoldingFront DEF Holding
    <3> QED
      BY <1>3, <1>4, <2>4, <3>1, <3>2 DEF Due
  <2> QED
    BY <1>1, <1>3, <2>3, <2>4, CalmRepeat
<1> QED
  BY <1>3, <1>6, <1>7

LEMMA NextRepeat ==
    ASSUME Careful, Polite, SessionTypeOK, StreamInv, ReturnInv, SessionInv, WelcomeInv, RepeatInv,
           [SessionNext]_svars
    PROVE  RepeatInv'
<1>1. TypeOK /\ RepeatTypes /\ StreamInv'
  BY NextSession, RepeatTyped DEF SessionTypeOK
<1>2. CASE Connect
  BY <1>2, ConnectRepeat
(* Steps that cost nothing and leave the stream alone. *)
<1>3. ASSUME UNCHANGED << state, eof, rx, net, phase, sentNow, times, faults >>,
             held' = held \/ (~Holding /\ ~Holding')
      PROVE  RepeatInv'
  <2>1. (Over' <=> Over) /\ \A i \in Msgs : Due(i)' => Due(i)
    BY <1>3, OverQuiet, DueQuiet
  <2> QED
    BY <1>1, <1>3, <2>1, CalmRepeat
<1>4. CASE Client
  <2>1. UNCHANGED << phase, sentNow, faults >>
    BY <1>4 DEF Client, Faultless, session
  <2>2. CASE Read /\ NotePublish
    BY <1>1, <1>4, <2>2, ReadRepeat DEF Client, Read
  <2>3. ASSUME NEW i \in 1..Len(held), Complete(i), NothingShown PROVE RepeatInv'
    BY <1>4, <2>3, CompleteRepeat DEF Client
  <2>4. CASE (WriteConnect \/ WritePacket \/ NextNotification) /\ NothingShown
    BY <1>3, <2>1, <2>4
       DEF WriteConnect, WritePacket, Written, OnPacketSent, NextNotification, NothingShown
  <2>5. CASE ReadTimeout /\ NothingShown
    <3>1. pc \in Reading
      BY <2>5 DEF ReadTimeout, Reading
    <3>2. ~Holding /\ ~Holding'
      BY <1>1, <2>5, <3>1, ReadingEmptyHanded, TimeoutHand
    <3> QED
      BY <1>3, <2>1, <2>5, <3>2 DEF ReadTimeout, NothingShown
  <2>6. CASE ((eof /\ WriteFails) \/ ReadEof) /\ NothingShown
    <3>1. UNCHANGED << rx, net, eof, held, times >> /\ state' = "Disconnected"
      BY <2>6 DEF WriteFails, ReadEof, ReadEnds, OnTransportClosed, NothingShown
    <3>2. eof \/ Over
      <4>1. CASE ReadEof
        <5>1. ~Holding
          BY <1>1, <4>1, ReadingEmptyHanded DEF ReadEof, ReadEnds
        <5> QED
          BY <4>1, <5>1 DEF ReadEof, Over, Stuck
      <4> QED
        BY <2>6, <4>1
    <3>3. \A i \in Msgs : Due(i)' => Due(i)
      BY <2>1, <3>1, DueQuiet
    <3> QED
      BY <1>1, <2>1, <3>1, <3>2, <3>3, CalmRepeat DEF Over
  <2> QED
    BY <1>4, <2>2, <2>3, <2>4, <2>5, <2>6 DEF Client, Loop, Call
<1>5. CASE Clock
  BY <1>3, <1>5 DEF Clock, Tick, NothingShown, Faultless, session
<1>6. CASE Mishap
  <2>1. faults' = faults + 1 /\ UNCHANGED << times, phase, sentNow >>
    BY <1>6 DEF Mishap, Fault, NothingShown, session
  <2>2. CASE WriteFails \/ ReadErrs
    <3>1. eof' = eof /\ Over'
      BY <2>2 DEF WriteFails, ReadErrs, ReadEnds, OnTransportClosed, Over
    <3> QED
      BY <1>1, <2>1, <3>1, FaultRepeat
  <2>3. CASE BrokerCloses
    <3>1. ~eof /\ UNCHANGED << state, rx, net, held >>
      BY <2>3 DEF BrokerCloses
    <3>2. (Over' <=> Over) /\ \A i \in Msgs : Due(i)' => Due(i)
      BY <2>1, <3>1, OverQuiet, DueQuiet
    <3> QED
      BY <1>1, <2>1, <3>1, <3>2, FaultRepeat
  <2>4. CASE CancelRead
    <3>1. UNCHANGED << eof, state, rx, net, held >>
      BY <2>4 DEF CancelRead
    <3>2. Over' <=> Over
      BY <3>1, OverQuiet
    <3> QED
      BY <1>1, <2>1, <3>1, <3>2, FaultRepeat
  <2>5. ASSUME NEW i \in 1..Len(held), DropNotification(i) PROVE RepeatInv'
    <3>1. UNCHANGED << eof, state, rx, net >> /\ ~Holding'
      BY <1>1, <2>5, DropHand DEF DropNotification
    <3>2. Stream' = Stream /\ Free' = Free
      BY <3>1 DEF Stream, Free
    <3>3. Over => Over'
      BY <3>1, <3>2 DEF Over, Stuck
    <3> QED
      BY <1>1, <2>1, <3>1, <3>3, FaultRepeat
  <2> QED
    BY <1>6, <2>2, <2>3, <2>4, <2>5 DEF Mishap
<1>7. CASE Deliver
  BY <1>7, PublishRepeat, ReleaseRepeat DEF Deliver
<1>8. CASE Take
  BY <1>8, TakeRepeat
<1>9. CASE UNCHANGED svars
  BY <1>3, <1>9 DEF svars, vars, session
<1> QED
  BY <1>2, <1>4, <1>5, <1>6, <1>7, <1>8, <1>9 DEF SessionNext

LEMMA InitRepeat ==
    ASSUME SessionInit
    PROVE  ReturnInv /\ WelcomeInv /\ RepeatInv
<1>1. /\ pc = Idle /\ op = NoWrite /\ state = "Disconnected" /\ ret = "None"
      /\ faults = 0 /\ \A i \in Msgs : times[i] = 0
  BY DEF SessionInit, Init, ClientInit
<1>2. ReturnInv
  BY <1>1 DEF ReturnInv, ReturnMatchesState, Idle, Reading, WritingPcs
<1>3. WelcomeInv
  BY <1>1 DEF WelcomeInv, Idle, NoWrite, Writing, NoPacket
<1>4. RepeatInv
  BY <1>1 DEF RepeatInv, Over
<1> QED
  BY <1>2, <1>3, <1>4

(***************************************************************************)
(* No repetition without a fault: with a broker that accepts the client    *)
(* and sends it nothing it hangs up on, the application is shown a message *)
(* at most once more than something failed.                                *)
(***************************************************************************)
THEOREM RepeatsExplained ==
    ASSUME Careful, Polite
    PROVE  SessionSpec => []RepeatsNeedFaults
<1> DEFINE Inv == ReturnInv /\ WelcomeInv /\ RepeatInv
<1>1. SessionInit => Inv
  BY InitRepeat
<1>2. SessionTypeOK /\ StreamInv /\ SessionInv /\ Inv /\ [SessionNext]_svars => Inv'
  <2> SUFFICES ASSUME SessionTypeOK, StreamInv, SessionInv, Inv, [SessionNext]_svars
               PROVE  Inv'
    OBVIOUS
  <2>1. ReturnInv'
    BY SessionStep, NextReturnInv DEF SessionTypeOK
  <2>2. WelcomeInv'
    BY NextWelcome
  <2>3. RepeatInv'
    BY NextRepeat
  <2> QED
    BY <2>1, <2>2, <2>3
<1>3. SessionTypeOK /\ Inv => RepeatsNeedFaults
  <2> SUFFICES ASSUME SessionTypeOK, Inv, NEW i \in Msgs PROVE times[i] <= 1 + faults
    BY DEF RepeatsNeedFaults
  <2>1. times[i] \in Nat /\ faults \in Nat
    BY RepeatTyped DEF RepeatTypes
  <2>2. times[i] <= faults \/ times[i] <= faults + 1
    BY DEF RepeatInv
  <2> QED
    BY <2>1, <2>2
<1> QED
  BY <1>1, <1>2, <1>3, SessionInvHolds, PTL DEF SessionSpec
=============================================================================
