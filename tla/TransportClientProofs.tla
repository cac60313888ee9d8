------------------------ MODULE TransportClientProofs ------------------------
(***************************************************************************)
(* Lemmas about streams of whole frames (what appending a frame, moving    *)
(* bytes from one buffer to the next and removing the frame at the front   *)
(* do to one) and about the methods of TransportClient, used by the proofs *)
(* about the modules that are built from them.                             *)
(***************************************************************************)
EXTENDS TransportClient, SequenceTheorems, TLAPS

LEMMA FrameLengthType == ASSUME NEW f \in Frames PROVE FrameLength(f) \in Nat /\ FrameLength(f) >= 2
BY FramesAssumption DEF FrameSet, FrameLength

LEMMA EncodeType ==
    ASSUME NEW f \in Frames
    PROVE  /\ Encode(f) \in Seq(Bytes)
           /\ Len(Encode(f)) = FrameLength(f)
           /\ \A i \in 1..FrameLength(f) : Encode(f)[i] = [frame |-> f, pos |-> i]
<1>1. FrameLength(f) \in Nat
  BY FrameLengthType
<1>2. \A i \in 1..FrameLength(f) : [frame |-> f, pos |-> i] \in Bytes
  BY <1>1 DEF Bytes
<1>3. Encode(f) \in [1..FrameLength(f) -> Bytes]
  BY <1>2 DEF Encode
<1>4. Encode(f) \in Seq(Bytes)
  BY <1>1, <1>3, SeqDef
<1>5. DOMAIN Encode(f) = 1..FrameLength(f)
  BY DEF Encode
<1>6. Len(Encode(f)) = FrameLength(f)
  BY <1>1, <1>4, <1>5, LenProperties
<1>7. \A i \in 1..FrameLength(f) : Encode(f)[i] = [frame |-> f, pos |-> i]
  BY DEF Encode
<1> QED
  BY <1>4, <1>6, <1>7

(* Bytes that move from the front of b to the end of a leave a \o b alone. *)
LEMMA MoveBytes ==
    ASSUME NEW a \in Seq(Bytes), NEW b \in Seq(Bytes), NEW n \in 0..Len(b)
    PROVE  /\ SubSeq(b, 1, n) \in Seq(Bytes)
           /\ SubSeq(b, n + 1, Len(b)) \in Seq(Bytes)
           /\ Len(SubSeq(b, 1, n)) = n
           /\ (a \o SubSeq(b, 1, n)) \o SubSeq(b, n + 1, Len(b)) = a \o b
<1>1. Len(b) \in Nat /\ \A i \in 1..Len(b) : b[i] \in Bytes
  BY LenProperties, ElementOfSeq
<1>2. SubSeq(b, 1, n) \in Seq(Bytes) /\ Len(SubSeq(b, 1, n)) = n
  <2>1. 1 \in Int /\ n \in Int /\ \A i \in 1..n : b[i] \in Bytes
    BY <1>1
  <2>2. /\ SubSeq(b, 1, n) \in Seq(Bytes)
        /\ Len(SubSeq(b, 1, n)) = IF 1 <= n THEN n - 1 + 1 ELSE 0
    BY <2>1, SubSeqProperties
  <2> QED
    BY <2>1, <2>2
<1>3. SubSeq(b, n + 1, Len(b)) \in Seq(Bytes)
  BY <1>1, SubSeqProperties
<1>4. SubSeq(b, 1, n) \o SubSeq(b, n + 1, Len(b)) = SubSeq(b, 1, Len(b))
  <2>1. 1 \in 1..(Len(b) + 1) /\ n \in (1 - 1)..Len(b) /\ Len(b) \in n..Len(b)
    BY <1>1
  <2> QED
    BY <2>1, ConcatAdjacentSubSeq
<1>5. SubSeq(b, 1, Len(b)) = b
  BY SubSeqFull
<1>6. (a \o SubSeq(b, 1, n)) \o SubSeq(b, n + 1, Len(b))
        = a \o (SubSeq(b, 1, n) \o SubSeq(b, n + 1, Len(b)))
  <2> DEFINE x == SubSeq(b, 1, n)
  <2> DEFINE y == SubSeq(b, n + 1, Len(b))
  <2>1. x \in Seq(Bytes) /\ y \in Seq(Bytes)
    BY <1>2, <1>3
  <2> HIDE DEF x, y
  <2>2. (a \o x) \o y = a \o (x \o y)
    BY <2>1, ConcatAssociative, SMTT(60)
  <2> QED
    BY <2>2 DEF x, y
<1> QED
  BY <1>2, <1>3, <1>4, <1>5, <1>6

(* Removing the front of a removes it from a \o b. *)
LEMMA RemoveFront ==
    ASSUME NEW a \in Seq(Bytes), NEW b \in Seq(Bytes), NEW n \in 0..Len(a)
    PROVE  /\ SubSeq(a, n + 1, Len(a)) \in Seq(Bytes)
           /\ Len(SubSeq(a, n + 1, Len(a))) = Len(a) - n
           /\ SubSeq(a, n + 1, Len(a)) \o b = SubSeq(a \o b, n + 1, Len(a \o b))
<1> DEFINE r == SubSeq(a, n + 1, Len(a))
<1> DEFINE c == a \o b
<1> DEFINE t == SubSeq(c, n + 1, Len(c))
<1>1. Len(a) \in Nat /\ Len(b) \in Nat /\ \A i \in 1..Len(a) : a[i] \in Bytes
  BY LenProperties, ElementOfSeq
<1>2. /\ r \in Seq(Bytes) /\ Len(r) = Len(a) - n
      /\ \A i \in 1..(Len(a) - n) : r[i] = a[n + i]
  BY <1>1, SubSeqProperties
<1>3. /\ c \in Seq(Bytes) /\ Len(c) = Len(a) + Len(b)
      /\ \A i \in 1..(Len(a) + Len(b)) : c[i] = IF i <= Len(a) THEN a[i] ELSE b[i - Len(a)]
  BY ConcatProperties
<1>4. \A i \in 1..Len(c) : c[i] \in Bytes
  BY <1>3, ElementOfSeq
<1>5. /\ t \in Seq(Bytes) /\ Len(t) = Len(c) - n
      /\ \A i \in 1..(Len(c) - n) : t[i] = c[n + i]
  BY <1>1, <1>3, <1>4, SubSeqProperties
<1>6. /\ r \o b \in Seq(Bytes) /\ Len(r \o b) = Len(r) + Len(b)
      /\ \A i \in 1..(Len(r) + Len(b)) : (r \o b)[i] = IF i <= Len(r) THEN r[i] ELSE b[i - Len(r)]
  BY <1>2, ConcatProperties
<1> HIDE DEF r, c, t
<1>7. \A i \in 1..Len(t) : (r \o b)[i] = t[i]
  <2> SUFFICES ASSUME NEW i \in 1..Len(t) PROVE (r \o b)[i] = t[i]
    OBVIOUS
  <2>1. t[i] = c[n + i]
    BY <1>1, <1>3, <1>5
  <2>2. CASE i <= Len(a) - n
    BY <1>1, <1>2, <1>3, <1>5, <1>6, <2>1, <2>2
  <2>3. CASE ~(i <= Len(a) - n)
    <3>1. /\ i \in 1..(Len(r) + Len(b)) /\ ~(i <= Len(r))
          /\ n + i \in 1..(Len(a) + Len(b)) /\ ~(n + i <= Len(a))
          /\ i - Len(r) = (n + i) - Len(a)
      BY <1>1, <1>2, <1>3, <1>5, <2>3
    <3>2. (r \o b)[i] = b[i - Len(r)]
      BY <1>6, <3>1
    <3>3. c[n + i] = b[(n + i) - Len(a)]
      BY <1>3, <3>1
    <3> QED
      BY <2>1, <3>1, <3>2, <3>3
  <2> QED
    BY <2>2, <2>3
<1>8. r \o b = t
  <2>1. Len(r \o b) = Len(t)
    BY <1>1, <1>2, <1>3, <1>5, <1>6
  <2> QED
    BY <1>5, <1>6, <1>7, <2>1, SeqEqual
<1> QED
  BY <1>2, <1>8 DEF r, t, c

LEMMA EmptyWhole == WholeFrames(<< >>)
BY DEF WholeFrames

(* A stream of whole frames starts with one. *)
LEMMA WholeFront ==
    ASSUME NEW s \in Seq(Bytes), WholeFrames(s), s # << >>
    PROVE  /\ s[1].frame \in Frames
           /\ s[1].pos = 1
           /\ FrameLength(s[1].frame) <= Len(s)
           /\ \A k \in 1..FrameLength(s[1].frame) : s[k] = [frame |-> s[1].frame, pos |-> k]
<1>1. Len(s) \in Nat /\ 1 \in 1..Len(s)
  BY EmptySeq, LenProperties
<1>2. s[1] \in Bytes
  BY <1>1, ElementOfSeq
<1>3. s[1].frame \in Frames /\ s[1].pos \in Nat \ {0}
  BY <1>2 DEF Bytes
<1>4. s[1].pos = 1
  BY <1>1, <1>3 DEF WholeFrames
<1>5. FrameLength(s[1].frame) \in Nat
  BY <1>3, FrameLengthType
<1>6. /\ (1 - 1) + FrameLength(s[1].frame) <= Len(s)
      /\ \A k \in 1..FrameLength(s[1].frame) : s[(1 - 1) + k] = [frame |-> s[1].frame, pos |-> k]
  BY <1>1, <1>4 DEF WholeFrames
<1> QED
  BY <1>3, <1>4, <1>5, <1>6

(* Without that frame it is a stream of whole frames still. *)
LEMMA WholeTail ==
    ASSUME NEW s \in Seq(Bytes), WholeFrames(s), s # << >>
    PROVE  WholeFrames(SubSeq(s, FrameLength(s[1].frame) + 1, Len(s)))
<1> DEFINE m == FrameLength(s[1].frame)
<1> DEFINE t == SubSeq(s, m + 1, Len(s))
<1>1. /\ s[1].frame \in Frames /\ m \in Nat /\ m <= Len(s) /\ Len(s) \in Nat
      /\ \A k \in 1..m : s[k] = [frame |-> s[1].frame, pos |-> k]
  BY WholeFront, FrameLengthType, LenProperties
<1>2. \A i \in 1..Len(s) : s[i] \in Bytes
  BY ElementOfSeq
<1>3. /\ Len(t) = Len(s) - m
      /\ \A i \in 1..(Len(s) - m) : t[i] = s[m + i]
  BY <1>1, <1>2, SubSeqProperties
<1> HIDE DEF m, t
<1> SUFFICES ASSUME NEW i \in 1..Len(t)
             PROVE  /\ (i - t[i].pos) \in Nat
                    /\ t[i].pos <= FrameLength(t[i].frame)
                    /\ (i - t[i].pos) + FrameLength(t[i].frame) <= Len(t)
                    /\ \A k \in 1..FrameLength(t[i].frame) :
                          t[(i - t[i].pos) + k] = [frame |-> t[i].frame, pos |-> k]
  BY DEF WholeFrames, t, m
<1> DEFINE b == s[m + i]
<1> DEFINE start == (m + i) - b.pos
<1>4. i \in Nat /\ i >= 1 /\ m + i \in 1..Len(s) /\ t[i] = b
  BY <1>1, <1>3
<1>5. /\ start \in Nat
      /\ b.pos <= FrameLength(b.frame)
      /\ start + FrameLength(b.frame) <= Len(s)
      /\ \A k \in 1..FrameLength(b.frame) : s[start + k] = [frame |-> b.frame, pos |-> k]
  BY <1>4 DEF WholeFrames
<1>6. b.frame \in Frames /\ b.pos \in Nat \ {0}
  BY <1>2, <1>4 DEF Bytes
<1>7. FrameLength(b.frame) \in Nat /\ FrameLength(b.frame) >= 2
  BY <1>6, FrameLengthType
<1> HIDE DEF b
(* The frame byte m + i belongs to cannot start inside the first frame. *)
<1>8. start >= m
  <2> SUFFICES ASSUME start < m PROVE FALSE
    BY <1>1, <1>5
  <2>1. s[start + 1] = [frame |-> b.frame, pos |-> 1]
    BY <1>5, <1>7
  <2>2. s[start + 1] = [frame |-> s[1].frame, pos |-> start + 1]
    BY <1>1, <1>5
  <2>3. start = 0 /\ b.frame = s[1].frame
    BY <1>5, <2>1, <2>2
  <2>4. FrameLength(b.frame) = m
    BY <2>3 DEF m
  <2>5. b.pos <= m
    BY <1>5, <2>4
  <2>6. (m + i) - b.pos = 0
    BY <2>3
  <2> QED
    BY <1>1, <1>4, <1>6, <2>5, <2>6
<1>9. \A k \in 1..FrameLength(b.frame) : t[(i - b.pos) + k] = [frame |-> b.frame, pos |-> k]
  <2> SUFFICES ASSUME NEW k \in 1..FrameLength(b.frame)
               PROVE  t[(i - b.pos) + k] = [frame |-> b.frame, pos |-> k]
    OBVIOUS
  <2>1. (i - b.pos) + k \in 1..(Len(s) - m) /\ m + ((i - b.pos) + k) = start + k
    <3>1. k \in Nat /\ k >= 1 /\ k <= FrameLength(b.frame) /\ b.pos \in Nat
      BY <1>6, <1>7
    <3>2. m + (i - b.pos) = start /\ i - b.pos >= 0
      BY <1>1, <1>4, <1>8, <3>1
    <3>3. start + k <= Len(s) /\ start \in Nat
      BY <1>1, <1>5, <1>7, <3>1
    <3>4. i - b.pos \in Int
      BY <1>4, <3>1
    <3> DEFINE d == i - b.pos
    <3>5. d \in Int /\ m + d = start /\ d >= 0
      BY <3>2, <3>4
    <3>6. m \in Nat /\ Len(s) \in Nat
      BY <1>1
    <3> HIDE DEF start, d
    <3>7. d + k >= 1 /\ d + k <= Len(s) - m /\ m + (d + k) = start + k
      BY <3>1, <3>3, <3>5, <3>6
    <3>8. d + k \in 1..(Len(s) - m)
      BY <3>1, <3>5, <3>6, <3>7
    <3> QED
      BY <3>7, <3>8 DEF d
  <2>2. t[(i - b.pos) + k] = s[start + k]
    BY <1>3, <2>1
  <2> QED
    BY <1>5, <2>2
<1> QED
  BY <1>1, <1>3, <1>4, <1>5, <1>6, <1>7, <1>8, <1>9, SMTT(60)

(* The broker may add a frame at the end. *)
LEMMA WholeAppend ==
    ASSUME NEW s \in Seq(Bytes), WholeFrames(s), NEW f \in Frames
    PROVE  WholeFrames(s \o Encode(f))
<1> DEFINE m == Len(s)
<1> DEFINE n == FrameLength(f)
<1> DEFINE t == s \o Encode(f)
<1>1. m \in Nat /\ n \in Nat
  BY LenProperties, FrameLengthType
<1>2. /\ Len(t) = m + n
      /\ \A i \in 1..(m + n) : t[i] = IF i <= m THEN s[i] ELSE Encode(f)[i - m]
  <2>1. Encode(f) \in Seq(Bytes) /\ Len(Encode(f)) = n
    BY EncodeType
  <2> QED
    BY <2>1, ConcatProperties
<1>3. \A i \in 1..n : t[m + i] = [frame |-> f, pos |-> i]
  <2> SUFFICES ASSUME NEW i \in 1..n PROVE t[m + i] = [frame |-> f, pos |-> i]
    OBVIOUS
  <2>1. m + i \in 1..(m + n) /\ ~(m + i <= m) /\ (m + i) - m = i
    BY <1>1
  <2>2. t[m + i] = Encode(f)[i]
    BY <1>2, <2>1
  <2> QED
    BY <2>2, EncodeType
<1> HIDE DEF t
<1> SUFFICES ASSUME NEW i \in 1..Len(t)
             PROVE  /\ (i - t[i].pos) \in Nat
                    /\ t[i].pos <= FrameLength(t[i].frame)
                    /\ (i - t[i].pos) + FrameLength(t[i].frame) <= Len(t)
                    /\ \A k \in 1..FrameLength(t[i].frame) :
                          t[(i - t[i].pos) + k] = [frame |-> t[i].frame, pos |-> k]
  BY DEF WholeFrames, t
<1>4. CASE i <= m
  <2>1. i \in 1..m /\ t[i] = s[i]
    BY <1>1, <1>2, <1>4
  <2>2. s[i] \in Bytes
    BY <2>1, ElementOfSeq
  <2>3. /\ s[i].frame \in Frames /\ s[i].pos \in Nat \ {0}
        /\ FrameLength(s[i].frame) \in Nat
    BY <2>2, FrameLengthType DEF Bytes
  <2>4. /\ (i - s[i].pos) \in Nat
        /\ s[i].pos <= FrameLength(s[i].frame)
        /\ (i - s[i].pos) + FrameLength(s[i].frame) <= m
        /\ \A k \in 1..FrameLength(s[i].frame) :
              s[(i - s[i].pos) + k] = [frame |-> s[i].frame, pos |-> k]
    BY <2>1 DEF WholeFrames
  <2>5. \A k \in 1..FrameLength(s[i].frame) :
           t[(i - s[i].pos) + k] = s[(i - s[i].pos) + k]
    <3> SUFFICES ASSUME NEW k \in 1..FrameLength(s[i].frame)
                 PROVE  t[(i - s[i].pos) + k] = s[(i - s[i].pos) + k]
      OBVIOUS
    <3> DEFINE start == i - s[i].pos
    <3> DEFINE last == FrameLength(s[i].frame)
    <3>1. start \in Nat /\ last \in Nat /\ start + last <= m /\ k \in 1..last
      BY <2>3, <2>4
    <3>2. ASSUME NEW a \in Nat, NEW b \in Nat, a + b <= m, k \in 1..b
          PROVE  a + k \in 1..(m + n) /\ a + k <= m
      <4> HIDE DEF m, n
      <4> QED
        BY <1>1, <3>2
    <3>3. start + k \in 1..(m + n) /\ start + k <= m
      <4> HIDE DEF start, last, m, n
      <4> QED
        BY <3>1, <3>2
    <3> QED
      BY <1>2, <3>3
  <2>6. (i - s[i].pos) + FrameLength(s[i].frame) <= m + n
    BY <1>1, <2>3, <2>4
  <2> QED
    BY <1>2, <2>1, <2>4, <2>5, <2>6
<1>5. CASE ~(i <= m)
  <2>1. i - m \in 1..n /\ i = m + (i - m)
    BY <1>1, <1>2, <1>5
  <2>2. t[i] = [frame |-> f, pos |-> i - m]
    BY <1>3, <2>1
  <2>3. t[i].frame = f /\ t[i].pos = i - m
    BY <2>2
  <2>4. i - (i - m) = m /\ i - m <= n
    BY <1>1, <2>1
  <2> QED
    BY <1>1, <1>2, <1>3, <2>3, <2>4
<1> QED
  BY <1>1, <1>2, <1>4, <1>5

-----------------------------------------------------------------------------
(* The saturating operators stay within the clock's range. *)
LEMMA LaterInRange ==
    ASSUME NEW t \in Instants, NEW d \in Nat
    PROVE  Later(t, d) \in Instants
BY ClientAssumption DEF Later, Instants

(* No bytes are both a packet and an error. *)
LEMMA ReadExclusive ==
    ASSUME NEW f \in Frames, NEW avail \in Nat
    PROVE  ~(ReadFails(f, avail, MaxPacketSize) /\ ReadOk(f, avail, MaxPacketSize))
BY FramesAssumption, ClientAssumption DEF FrameSet, ReadFails, ReadOk, BadHeader, Framed

(***************************************************************************)
(* What on_bytes_received may answer: a verdict; with an error or a        *)
(* Disconnected only together with the Disconnected state; a ConnAck only  *)
(* while waiting for it; any other packet only in the session; and no      *)
(* change of state otherwise.  What it takes is one whole frame.           *)
(***************************************************************************)
LEMMA VerdictFacts ==
    ASSUME NEW f \in Frames, NEW avail \in Nat, ClientTypeOK
    PROVE  LET v == OnBytesReceived(f, avail) IN
           /\ v \in Verdicts
           /\ v.tag = "Error" \/ v.kind = "Disconnected"
                 => v.next = "Disconnected" /\ v.kind \notin PacketKinds
           /\ state = "Disconnected" => v.kind = "Disconnected"
           /\ v.kind = "ConnAck" => state = "TransportConnected" /\ v.next = "Connected"
           /\ v.kind \in SessionKinds => state = "Connected" /\ v.next = "Connected"
           /\ v.next = "Connected" => state = "Connected" \/ v.kind = "ConnAck"
           /\ v.next = "TransportConnected" => state = "TransportConnected"
           /\ v.tag = "None" => v.next = state
           /\ v.tag = "Notification" => v.kind \in {"Disconnected", "ConnAck"} \cup SessionKinds
           /\ v.kind = "ConnAck" \/ v.kind \in SessionKinds
                 => /\ v.tag = "Notification" /\ v.kind = f.kind
                    /\ v.taken = FrameLength(f) /\ ReadOk(f, avail, MaxPacketSize)
           /\ v.taken > 0 => v.kind = "ConnAck" \/ v.kind \in SessionKinds
<1> DEFINE v == OnBytesReceived(f, avail)
<1>1. FrameLength(f) \in Nat
  BY FramesAssumption DEF FrameSet, FrameLength
<1>2. CASE state = "Disconnected"
  BY <1>2 DEF OnBytesReceived, Verdict, Verdicts, States, PacketKinds, SessionKinds, FrameKinds
<1>3. CASE state = "TransportConnected"
  <2>1. CASE ReadFails(f, avail, MaxPacketSize)
    BY <1>3, <2>1, ReadExclusive
       DEF OnBytesReceived, Verdict, Verdicts, States, PacketKinds, SessionKinds, FrameKinds
  <2>2. CASE ~ReadFails(f, avail, MaxPacketSize) /\ ReadOk(f, avail, MaxPacketSize)
    <3>1. v = OpeningVerdict(f)
      BY <1>3, <2>2 DEF OnBytesReceived
    <3> QED
      BY <1>1, <1>3, <2>2, <3>1 DEF OpeningVerdict, Verdict, Verdicts, States, PacketKinds,
                              SessionKinds, FrameKinds
  <2>3. CASE ~ReadFails(f, avail, MaxPacketSize) /\ ~ReadOk(f, avail, MaxPacketSize)
    BY <1>3, <2>3 DEF OnBytesReceived, Verdict, Verdicts, States, PacketKinds, SessionKinds,
                      FrameKinds
  <2> QED
    BY <2>1, <2>2, <2>3
<1>4. CASE state = "Connected"
  <2>1. CASE ReadFails(f, avail, MaxPacketSize)
    BY <1>4, <2>1, ReadExclusive
       DEF OnBytesReceived, Verdict, Verdicts, States, PacketKinds, SessionKinds, FrameKinds
  <2>2. CASE ~ReadFails(f, avail, MaxPacketSize) /\ ReadOk(f, avail, MaxPacketSize)
    <3>1. v = SessionVerdict(f)
      BY <1>4, <2>2 DEF OnBytesReceived
    <3> QED
      BY <1>1, <1>4, <2>2, <3>1 DEF SessionVerdict, Verdict, Verdicts, States, PacketKinds,
                              SessionKinds, FrameKinds
  <2>3. CASE ~ReadFails(f, avail, MaxPacketSize) /\ ~ReadOk(f, avail, MaxPacketSize)
    BY <1>4, <2>3 DEF OnBytesReceived, Verdict, Verdicts, States, PacketKinds, SessionKinds,
                      FrameKinds
  <2> QED
    BY <2>1, <2>2, <2>3
<1> QED
  BY <1>2, <1>3, <1>4 DEF ClientTypeOK, States

(* A frame that is whole for the caller is not left waiting for more data. *)
LEMMA WholeFrameAnswered ==
    ASSUME NEW f \in Frames, NEW avail \in Nat, NEW max \in Nat, Framed(f, avail, max),
           state \in States, state # "Disconnected"
    PROVE  OnBytesReceived(f, avail).tag # "None"
<1>1. f.header \in Nat /\ f.remaining \in Nat
  BY FramesAssumption DEF FrameSet
<1>2. ReadFails(f, avail, MaxPacketSize) \/ ReadOk(f, avail, MaxPacketSize)
  BY <1>1, ClientAssumption DEF Framed, FrameLength, ReadFails, ReadOk, BadHeader
<1>3. ~(ReadFails(f, avail, MaxPacketSize) /\ ReadOk(f, avail, MaxPacketSize))
  BY ReadExclusive
<1>4. CASE ReadFails(f, avail, MaxPacketSize)
  BY <1>3, <1>4 DEF OnBytesReceived, Verdict
<1>5. CASE ReadOk(f, avail, MaxPacketSize) /\ state = "TransportConnected"
  BY <1>3, <1>5 DEF OnBytesReceived, OpeningVerdict, Verdict
<1>6. CASE ReadOk(f, avail, MaxPacketSize) /\ state = "Connected"
  BY <1>3, <1>6 DEF OnBytesReceived, SessionVerdict, Verdict
<1> QED
  BY <1>2, <1>4, <1>5, <1>6 DEF States
=============================================================================
