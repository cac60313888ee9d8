---------------------------- MODULE PacketProofs ----------------------------
(***************************************************************************)
(* Theorems about PacketStream, for every set of packets, every frame a    *)
(* peer may send, every capacity and every limit: what a reader takes,     *)
(* asks for and refuses, however the bytes arrive.  Then what valid_filter *)
(* and matches make of a topic and a filter, whatever bytes they are of.   *)
(* Last, the groundwork of ReadBackProofs: a field is read from where it   *)
(* was put, and so are the packets that hold no list of texts; a topic     *)
(* that was written level by level is the topic.                           *)
(***************************************************************************)
EXTENDS PacketStream, WriterProofs

-----------------------------------------------------------------------------
(* A length decoded from a part of the bytes it is in. *)
SameBytes(u, t) == \A i \in 1..Len(u) : i <= Len(t) => u[i] = t[i]

(* A byte is a number. *)
LEMMA NatFromByte ==
    ASSUME NEW t \in Seq(Byte), NEW i \in 1..Len(t)
    PROVE  t[i] \in Nat /\ t[i] <= 255
<1>1. t[i] \in Byte
  OBVIOUS
<1>2. \A b \in Byte : b \in Nat /\ b <= 255
  BY SMT DEF Byte
<1> QED
  BY <1>1, <1>2, Zenon

(* The length ends where it ends in the whole, if that is there. *)
LEMMA EndsInPart ==
    ASSUME NEW t \in Seq(Byte), NEW u \in Seq(Byte), SameBytes(u, t),
           NEW k \in 1..4, EndsAt(t, k), NEW j \in 1..4
    PROVE  EndsAt(u, j) <=> j = k /\ k <= Len(u)
<1>1. k <= Len(t) /\ t[k] < 128 /\ (\A i \in 1..(k - 1) : t[i] >= 128)
  BY Zenon DEF EndsAt
<1>2. \A i \in 1..k : i <= Len(u) => u[i] = t[i]
  BY <1>1 DEF SameBytes
<1>3. \A i \in 1..k : t[i] \in Nat
  BY <1>1, NatFromByte
<1>4. ASSUME j = k, k <= Len(u)
      PROVE  EndsAt(u, j)
  <2>1. u[k] < 128
    BY <1>1, <1>2, <1>4
  <2>2. ASSUME NEW i \in 1..(k - 1)
        PROVE  u[i] >= 128
    <3>1. i \in 1..k /\ i <= Len(u)
      BY <1>4
    <3> QED
      BY <1>1, <1>2, <3>1
  <2> QED
    BY <1>4, <2>1, <2>2 DEF EndsAt
<1>5. ASSUME EndsAt(u, j)
      PROVE  j = k /\ k <= Len(u)
  <2>1. j <= Len(u) /\ u[j] < 128 /\ (\A i \in 1..(j - 1) : u[i] >= 128)
    BY <1>5, Zenon DEF EndsAt
  <2>2. ~(j < k)
    <3> SUFFICES ASSUME j < k PROVE FALSE
      OBVIOUS
    <3>1. j \in 1..(k - 1) /\ j \in 1..k
      OBVIOUS
    <3>2. u[j] = t[j] /\ t[j] >= 128 /\ t[j] \in Nat
      BY <1>1, <1>2, <1>3, <2>1, <3>1
    <3> QED
      BY <2>1, <3>2
  <2>3. ~(k < j)
    <3> SUFFICES ASSUME k < j PROVE FALSE
      OBVIOUS
    <3>1. k \in 1..(j - 1) /\ k \in 1..k /\ k <= Len(u)
      BY <2>1
    <3>2. u[k] = t[k] /\ u[k] >= 128 /\ t[k] \in Nat
      BY <1>2, <1>3, <2>1, <3>1
    <3> QED
      BY <1>1, <3>2
  <2> QED
    BY <2>1, <2>2, <2>3
<1> QED
  BY <1>4, <1>5

(* A length decoded from a part is that of the whole, or wants one byte    *)
(* more.                                                                   *)
LEMMA DecodePart ==
    ASSUME NEW t \in Seq(Byte), NEW u \in Seq(Byte), SameBytes(u, t),
           NEW k \in 1..4, EndsAt(t, k)
    PROVE  /\ k <= Len(u) =>
                 DecodeLength(u) = [error |-> "none", len_len |-> k, len |-> LengthValue(t, k)]
           /\ Len(u) < k => DecodeLength(u) = NeedMoreData(1)
<1>1. \A j \in 1..4 : EndsAt(u, j) <=> j = k /\ k <= Len(u)
  BY EndsInPart, Zenon
<1>2. ASSUME k <= Len(u)
      PROVE  DecodeLength(u) = [error |-> "none", len_len |-> k, len |-> LengthValue(t, k)]
  <2>1. \A j \in 1..4 : EndsAt(u, j) <=> j = k
    BY <1>1, <1>2
  <2>2. (CHOOSE j \in 1..4 : EndsAt(u, j)) = k
    BY <2>1
  <2>3. DecodeLength(u) = [error |-> "none", len_len |-> k, len |-> LengthValue(u, k)]
    BY <2>1, <2>2, Zenon DEF DecodeLength
  <2>4. \A i \in 1..4 : Digit(u, i, k) = Digit(t, i, k)
    <3>1. k <= Len(t)
      BY Zenon DEF EndsAt
    <3>2. \A i \in 1..k : u[i] = t[i]
      BY <1>2, <3>1 DEF SameBytes
    <3> QED
      BY <3>2 DEF Digit
  <2>5. LengthValue(u, k) = LengthValue(t, k)
    BY <2>4 DEF LengthValue
  <2> QED
    BY <2>3, <2>5, Zenon
<1>3. ASSUME Len(u) < k
      PROVE  DecodeLength(u) = NeedMoreData(1)
  <2>1. ~(\E j \in 1..4 : EndsAt(u, j))
    BY <1>1, <1>3
  <2>2. ~(Len(u) >= 4)
    BY <1>3
  <2> QED
    BY <2>1, <2>2, Zenon DEF DecodeLength
<1> QED
  BY <1>2, <1>3

(* A length that does not end is noticed at its fourth byte. *)
LEMMA DecodeEndless ==
    ASSUME NEW t \in Seq(Byte), NEW u \in Seq(Byte), SameBytes(u, t),
           Len(t) = 4, \A j \in 1..4 : ~EndsAt(t, j)
    PROVE  /\ 4 <= Len(u) => DecodeLength(u) = Err("MalformedRemainingLength")
           /\ Len(u) < 4 => DecodeLength(u) = NeedMoreData(1)
<1>1. \A i \in 1..4 : t[i] >= 128
  <2>1. \A i \in 1..4 : t[i] \in Nat
    BY NatFromByte
  <2>2. ~(t[1] < 128)
    <3>1. ~EndsAt(t, 1)
      OBVIOUS
    <3> QED
      BY <3>1 DEF EndsAt
  <2>3. ~(t[2] < 128)
    <3>1. ~EndsAt(t, 2) /\ \A j \in 1..(2 - 1) : j = 1
      OBVIOUS
    <3> QED
      BY <2>1, <2>2, <3>1 DEF EndsAt
  <2>4. ~(t[3] < 128)
    <3>1. ~EndsAt(t, 3) /\ \A j \in 1..(3 - 1) : j \in {1, 2}
      OBVIOUS
    <3> QED
      BY <2>1, <2>2, <2>3, <3>1 DEF EndsAt
  <2>5. ~(t[4] < 128)
    <3>1. ~EndsAt(t, 4) /\ \A j \in 1..(4 - 1) : j \in {1, 2, 3}
      OBVIOUS
    <3> QED
      BY <2>1, <2>2, <2>3, <2>4, <3>1 DEF EndsAt
  <2> QED
    BY <2>1, <2>2, <2>3, <2>4, <2>5
<1>2. ~(\E j \in 1..4 : EndsAt(u, j))
  <2> SUFFICES ASSUME NEW j \in 1..4, EndsAt(u, j)
               PROVE  FALSE
    OBVIOUS
  <2>1. j <= Len(u) /\ u[j] < 128
    BY Zenon DEF EndsAt
  <2>2. u[j] = t[j] /\ t[j] \in Nat
    BY <2>1, NatFromByte DEF SameBytes
  <2> QED
    BY <1>1, <2>1, <2>2
<1>3. ASSUME 4 <= Len(u)
      PROVE  DecodeLength(u) = Err("MalformedRemainingLength")
  <2>1. Len(u) >= 4
    BY <1>3
  <2> QED
    BY <1>2, <2>1, Zenon DEF DecodeLength
<1>4. ASSUME Len(u) < 4
      PROVE  DecodeLength(u) = NeedMoreData(1)
  <2>1. ~(Len(u) >= 4)
    BY <1>4
  <2> QED
    BY <1>2, <2>1, Zenon DEF DecodeLength
<1> QED
  BY <1>3, <1>4

-----------------------------------------------------------------------------
(* The two kinds of frames: one with a length, one whose length never ends. *)
Measured(f, k, n) ==
    /\ k \in 1..4 /\ n \in Nat /\ Len(f) = 1 + k + n
    /\ EndsAt(Tail(f), k) /\ LengthValue(Tail(f), k) = n
    /\ ParseFixedHeader(f) = [error |-> "none", byte1 |-> f[1], header |-> k + 1, remaining |-> n]

Endless(f) ==
    /\ Len(f) = 5
    /\ \A j \in 1..4 : ~EndsAt(Tail(f), j)
    /\ ParseFixedHeader(f) = Err("MalformedRemainingLength")

(* A length is a number. *)
LEMMA LengthValueNat ==
    ASSUME NEW t \in Seq(Byte), NEW k \in 1..4, k <= Len(t)
    PROVE  LengthValue(t, k) \in Nat
<1>1. ASSUME NEW i \in 1..4
      PROVE  Digit(t, i, k) \in Nat
  <2>1. Weight[i] \in Nat
    BY WeightValues, SMT
  <2>2. CASE i <= k
    <3>1. t[i] \in Nat
      BY <2>2, NatFromByte
    <3>2. \A x, y \in Nat : (x % 128) * y \in Nat
      BY SMT
    <3>3. (t[i] % 128) * Weight[i] \in Nat
      BY <2>1, <3>1, <3>2, Zenon
    <3> QED
      BY <2>2, <3>3 DEF Digit
  <2>3. CASE ~(i <= k)
    BY <2>3 DEF Digit
  <2> QED
    BY <2>2, <2>3
<1>2. /\ Digit(t, 1, k) \in Nat /\ Digit(t, 2, k) \in Nat
      /\ Digit(t, 3, k) \in Nat /\ Digit(t, 4, k) \in Nat
  BY <1>1
<1> QED
  BY <1>2 DEF LengthValue

(* Every frame is of one of the two kinds. *)
LEMMA FrameKindsOf ==
    ASSUME NEW f \in Seq(Byte), OneFrame(f)
    PROVE  (\E k, n \in Nat : Measured(f, k, n)) \/ Endless(f)
<1> DEFINE t == Tail(f)
           l == DecodeLength(t)
           h == ParseFixedHeader(f)
<1>1. \/ h.error = "none" /\ Len(f) = h.header + h.remaining
      \/ h.error = "MalformedRemainingLength" /\ Len(f) = 5
  BY DEF OneFrame
<1>2. Len(f) >= 2 /\ h = FixedHeader(f[1], l)
  <2>1. CASE Len(f) < 2
    <3>1. h.error = "NeedMoreData"
      BY <2>1 DEF ParseFixedHeader, NeedMoreData
    <3> QED
      BY <1>1, <3>1
  <2>2. CASE ~(Len(f) < 2)
    <3>1. h = FixedHeader(f[1], l)
      BY <2>2, Zenon DEF ParseFixedHeader
    <3> QED
      BY <2>2, <3>1
  <2> QED
    BY <2>1, <2>2
<1>3. t \in Seq(Byte) /\ Len(t) = Len(f) - 1
  BY <1>2
<1>4. CASE \E j \in 1..4 : EndsAt(t, j)
  <2>1. PICK k \in 1..4 : EndsAt(t, k)
    BY <1>4
  <2>2. SameBytes(t, t)
    BY DEF SameBytes
  <2>3. k <= Len(t)
    BY <2>1, Zenon DEF EndsAt
  <2> DEFINE n == LengthValue(t, k)
  <2>4. l = [error |-> "none", len_len |-> k, len |-> n]
    BY <1>3, <2>1, <2>2, <2>3, DecodePart, Zenon
  <2>5. n \in Nat
    BY <1>3, <2>3, LengthValueNat, Zenon
  <2> HIDE DEF n, l, t
  <2>6. h = [error |-> "none", byte1 |-> f[1], header |-> k + 1, remaining |-> n]
    <3> HIDE DEF h
    <3>1. l.error = "none" /\ l.len_len = k /\ l.len = n
      BY <2>4
    <3> QED
      BY <1>2, <3>1 DEF FixedHeader
  <2>7. Len(f) = 1 + k + n
    <3> HIDE DEF h
    <3>1. h.error = "none" /\ h.header = k + 1 /\ h.remaining = n
      BY <2>6
    <3>2. Len(f) = (k + 1) + n
      BY <1>1, <3>1
    <3> QED
      BY <2>5, <3>2
  <2>8. Measured(f, k, n)
    BY <2>1, <2>5, <2>6, <2>7, Zenon DEF Measured, n, t
  <2> QED
    BY <2>5, <2>8
<1>5. CASE ~(\E j \in 1..4 : EndsAt(t, j))
  <2>1. l = IF Len(t) >= 4 THEN Err("MalformedRemainingLength") ELSE NeedMoreData(1)
    BY <1>5, Zenon DEF DecodeLength
  <2>2. l.error # "none"
    <3>1. Err("MalformedRemainingLength").error # "none" /\ NeedMoreData(1).error # "none"
      BY DEF Err, NeedMoreData
    <3> HIDE DEF l
    <3> QED
      BY <2>1, <3>1
  <2>3. h = l
    BY <1>2, <2>2, Zenon DEF FixedHeader
  <2>4. Len(f) = 5
    BY <1>1, <2>2, <2>3
  <2>5. l = Err("MalformedRemainingLength")
    <3>1. Len(t) >= 4
      <4> HIDE DEF t, l, h
      <4> QED
        BY <1>3, <2>4
    <3> QED
      BY <2>1, <3>1, Zenon
  <2> QED
    BY <1>5, <2>3, <2>4, <2>5, Zenon DEF Endless
<1> QED
  BY <1>4, <1>5

-----------------------------------------------------------------------------
(* What the readers of fields return: an error that is not NeedMoreData,    *)
(* or a value and a place behind it, within the bytes.                     *)
FieldErrors == {"MalformedPacket", "BadUtf8", "InvalidQoS"}

ValueSet == Nat \cup Seq(Byte)

FieldSet(lo, hi) == [error : {"none"}, value : ValueSet, next : lo..hi] \cup [error : FieldErrors]

FieldKinds == {"u8", "u16", "bytes", "string", "qos"}

RunSet(lo, hi) ==
    [error : {"none"}, next : lo..hi, values : Seq(ValueSet)] \cup [error : FieldErrors]

NextField(b, r, kind) == IF r.error # "none" THEN r ELSE Extended(r, Field(b, r.next, kind))

(* A number of fixed width. *)
LEMMA FixedTyped ==
    ASSUME NEW hi \in Nat, NEW from \in 0..hi, NEW b, Len(b) = hi, NEW width \in 1..2, NEW value,
           from + width <= hi => value \in Nat
    PROVE  /\ Fixed(b, from, width, value) \in FieldSet(from + 1, hi)
           /\ Fixed(b, from, width, value).error = "none" =>
                 Fixed(b, from, width, value).value \in Nat
<1>1. CASE hi - from < width
  <2>1. Fixed(b, from, width, value) = [error |-> "MalformedPacket"]
    BY <1>1 DEF Fixed, Err
  <2> QED
    BY <2>1 DEF FieldSet, FieldErrors
<1>2. CASE ~(hi - from < width)
  <2>1. Fixed(b, from, width, value) = [error |-> "none", value |-> value, next |-> from + width]
    BY <1>2 DEF Fixed
  <2>2. value \in Nat /\ from + width \in (from + 1)..hi
    BY <1>2
  <2> QED
    BY <2>1, <2>2 DEF FieldSet, ValueSet
<1> QED
  BY <1>1, <1>2

(* read_u8 and read_u16. *)
LEMMA NumbersTyped ==
    ASSUME NEW b \in Seq(Byte), NEW from \in 0..Len(b)
    PROVE  /\ ReadU8(b, from) \in FieldSet(from + 1, Len(b))
           /\ ReadU8(b, from).error = "none" => ReadU8(b, from).value \in Nat
           /\ ReadU16(b, from) \in FieldSet(from + 1, Len(b))
           /\ ReadU16(b, from).error = "none" => ReadU16(b, from).value \in Nat
<1>1. from + 1 <= Len(b) => b[from + 1] \in Nat
  <2> SUFFICES ASSUME from + 1 <= Len(b)
               PROVE  b[from + 1] \in Nat
    OBVIOUS
  <2>1. from + 1 \in 1..Len(b)
    OBVIOUS
  <2> QED
    BY <2>1, NatFromByte, Zenon
<1>2. from + 2 <= Len(b) => Word(b, from + 1) \in Nat
  <2> SUFFICES ASSUME from + 2 <= Len(b)
               PROVE  Word(b, from + 1) \in Nat
    OBVIOUS
  <2>1. from + 1 \in 1..Len(b) /\ from + 1 + 1 \in 1..Len(b)
    OBVIOUS
  <2>2. b[from + 1] \in Nat /\ b[from + 1 + 1] \in Nat
    BY <2>1, NatFromByte, Zenon
  <2>3. \A x, y \in Nat : 256 * x + y \in Nat
    BY SMT
  <2>4. 256 * b[from + 1] + b[from + 1 + 1] \in Nat
    BY <2>2, <2>3, Zenon
  <2> QED
    BY <2>4, Zenon DEF Word
<1>3. 1 \in 1..2 /\ 2 \in 1..2 /\ Len(b) \in Nat
  OBVIOUS
<1> QED
  BY <1>1, <1>2, <1>3, FixedTyped, Zenon DEF ReadU8, ReadU16

(* read_mqtt_bytes. *)
LEMMA BytesTyped ==
    ASSUME NEW b \in Seq(Byte), NEW from \in 0..Len(b)
    PROVE  /\ ReadBytes(b, from) \in FieldSet(from + 1, Len(b))
           /\ ReadBytes(b, from).error = "none" => ReadBytes(b, from).value \in Seq(Byte)
<1> DEFINE l == ReadU16(b, from)
<1>1. l \in FieldSet(from + 1, Len(b)) /\ (l.error = "none" => l.value \in Nat)
  BY NumbersTyped, Zenon
<1>2. ReadBytes(b, from) = Prefixed(b, l)
  BY DEF ReadBytes
<1> HIDE DEF l
<1>3. CASE l.error # "none"
  <2>1. Prefixed(b, l) = l
    BY <1>3 DEF Prefixed
  <2> QED
    BY <1>1, <1>2, <1>3, <2>1
<1>4. CASE l.error = "none"
  <2>1. l.value \in Nat /\ l.next \in (from + 1)..Len(b)
    BY <1>1, <1>4 DEF FieldSet, FieldErrors
  <2>2. CASE l.value > Len(b) - l.next
    <3>1. Prefixed(b, l) = [error |-> "MalformedPacket"]
      BY <1>4, <2>2 DEF Prefixed, Err
    <3> QED
      BY <1>2, <3>1 DEF FieldSet, FieldErrors
  <2>3. CASE ~(l.value > Len(b) - l.next)
    <3> DEFINE v == SubSeq(b, l.next + 1, l.next + l.value)
               e == l.next + l.value
    <3>1. e \in (from + 1)..Len(b)
      BY <2>1, <2>3
    <3>2. v \in Seq(Byte)
      BY <2>1, <2>3
    <3>3. Prefixed(b, l) = [error |-> "none", next |-> e, value |-> v]
      BY <1>4, <2>3 DEF Prefixed
    <3> HIDE DEF v, e
    <3> QED
      BY <1>2, <3>1, <3>2, <3>3 DEF FieldSet, ValueSet
  <2> QED
    BY <2>2, <2>3
<1> QED
  BY <1>3, <1>4

(* Any field: it takes at least one byte. *)
LEMMA FieldTyped ==
    ASSUME NEW b \in Seq(Byte), NEW from \in 0..Len(b), NEW kind \in FieldKinds
    PROVE  Field(b, from, kind) \in FieldSet(from + 1, Len(b))
<1>1. /\ ReadU8(b, from) \in FieldSet(from + 1, Len(b))
      /\ ReadU16(b, from) \in FieldSet(from + 1, Len(b))
      /\ ReadBytes(b, from) \in FieldSet(from + 1, Len(b))
  BY NumbersTyped, BytesTyped, Zenon
<1>2. ReadString(b, from) \in FieldSet(from + 1, Len(b))
  <2>1. ReadString(b, from) = [error |-> "BadUtf8"] \/ ReadString(b, from) = ReadBytes(b, from)
    BY Zenon DEF ReadString, Utf8Only, Err
  <2>2. [error |-> "BadUtf8"] \in FieldSet(from + 1, Len(b))
    BY DEF FieldSet, FieldErrors
  <2> QED
    BY <1>1, <2>1, <2>2, Zenon
<1>3. ReadQoS(b, from) \in FieldSet(from + 1, Len(b))
  <2>1. ReadQoS(b, from) = [error |-> "InvalidQoS"] \/ ReadQoS(b, from) = ReadU8(b, from)
    BY Zenon DEF ReadQoS, QoSOnly, Err
  <2>2. [error |-> "InvalidQoS"] \in FieldSet(from + 1, Len(b))
    BY DEF FieldSet, FieldErrors
  <2> QED
    BY <1>1, <2>1, <2>2, Zenon
<1>4. \/ Field(b, from, kind) = ReadU8(b, from)
      \/ Field(b, from, kind) = ReadU16(b, from)
      \/ Field(b, from, kind) = ReadBytes(b, from)
      \/ Field(b, from, kind) = ReadString(b, from)
      \/ Field(b, from, kind) = ReadQoS(b, from)
  BY DEF Field, FieldKinds
<1> QED
  BY <1>1, <1>2, <1>3, <1>4, Zenon

(* A field more. *)
LEMMA NextFieldTyped ==
    ASSUME NEW b \in Seq(Byte), NEW from \in 0..Len(b), NEW r \in RunSet(from, Len(b)),
           NEW kind \in FieldKinds
    PROVE  /\ NextField(b, r, kind) \in RunSet(from + 1, Len(b))
           /\ NextField(b, r, kind) \in RunSet(from, Len(b))
<1>1. RunSet(from + 1, Len(b)) \subseteq RunSet(from, Len(b))
  <2>1. (from + 1)..Len(b) \subseteq from..Len(b)
    OBVIOUS
  <2> QED
    BY <2>1 DEF RunSet
<1>2. CASE r.error # "none"
  <2>1. r \in [error : FieldErrors]
    BY <1>2 DEF RunSet
  <2> QED
    BY <1>1, <1>2, <2>1 DEF NextField, RunSet
<1>3. CASE r.error = "none"
  <2> DEFINE f == Field(b, r.next, kind)
  <2>1. r \in [error : {"none"}, next : from..Len(b), values : Seq(ValueSet)]
    BY <1>3 DEF RunSet, FieldErrors
  <2>2. r.next \in from..Len(b) /\ r.next \in 0..Len(b) /\ r.values \in Seq(ValueSet)
    BY <2>1
  <2>3. f \in FieldSet(r.next + 1, Len(b))
    BY <2>2, FieldTyped, Zenon
  <2>4. NextField(b, r, kind) = Extended(r, f)
    BY <1>3, Zenon DEF NextField
  <2> HIDE DEF f
  <2>5. CASE f.error # "none"
    <3>1. Extended(r, f) = f
      BY <2>5 DEF Extended
    <3>2. f \in [error : FieldErrors]
      BY <2>3, <2>5 DEF FieldSet
    <3> QED
      BY <1>1, <2>4, <3>1, <3>2 DEF RunSet
  <2>6. CASE f.error = "none"
    <3>1. f.next \in (from + 1)..Len(b) /\ f.value \in ValueSet
      BY <2>2, <2>3, <2>6 DEF FieldSet, FieldErrors
    <3>2. Append(r.values, f.value) \in Seq(ValueSet)
      BY <2>2, <3>1
    <3>3. Extended(r, f) = [r EXCEPT !.next = f.next, !.values = Append(r.values, f.value)]
      BY <2>6 DEF Extended
    <3>4. Extended(r, f) = [error |-> "none", next |-> f.next, values |-> Append(r.values, f.value)]
      BY <2>1, <3>3
    <3> QED
      BY <1>1, <2>4, <3>1, <3>2, <3>4 DEF RunSet
  <2> QED
    BY <2>5, <2>6
<1> QED
  BY <1>2, <1>3

(* The records Fields goes through. *)
LEMMA FieldRuns ==
    ASSUME NEW b \in Seq(Byte), NEW from \in 0..Len(b), NEW kinds \in Seq(FieldKinds)
    PROVE  \E acc \in [0..Len(kinds) -> RunSet(from, Len(b))] :
              /\ acc[0] = [error |-> "none", next |-> from, values |-> << >>]
              /\ acc[Len(kinds)] = Fields(b, from, kinds)
              /\ \A i \in 1..Len(kinds) : acc[i] = NextField(b, acc[i - 1], kinds[i])
<1> DEFINE g == [xy \in RunSet(from, Len(b)) \X FieldKinds |-> NextField(b, xy[1], xy[2])]
           Table(f) == f = [s \in SUBSET DOMAIN kinds |->
                              IF s = {} THEN [error |-> "none", next |-> from, values |-> << >>]
                              ELSE NextField(b, f[s \ {Max(s)}], kinds[Max(s)])]
<1>1. Fields(b, from, kinds) = (CHOOSE f : Table(f))[DOMAIN kinds]
  BY Zenon DEF Fields, FoldLeft, MapThenFoldSet, NextField
<1>2. [error |-> "none", next |-> from, values |-> << >>] \in RunSet(from, Len(b)) /\ \A x \in RunSet(from, Len(b)), y \in FieldKinds : NextField(b, x, y) \in RunSet(from, Len(b))
  <2>1. [error |-> "none", next |-> from, values |-> << >>] \in RunSet(from, Len(b))
    <3>1. from \in from..Len(b) /\ << >> \in Seq(ValueSet)
      OBVIOUS
    <3> QED
      BY <3>1 DEF RunSet
  <2> QED
    BY <2>1, NextFieldTyped, Zenon
<1>3. /\ g \in [RunSet(from, Len(b)) \X FieldKinds -> RunSet(from, Len(b))]
      /\ \A x \in RunSet(from, Len(b)), y \in FieldKinds : g[<<x, y>>] = NextField(b, x, y)
  BY <1>2
<1> HIDE DEF g
<1>4. DOMAIN kinds = 1..Len(kinds) /\ Len(kinds) \in Nat
  OBVIOUS
<1>5. ASSUME NEW s \in SUBSET DOMAIN kinds, s # {}
      PROVE  kinds[Max(s)] \in FieldKinds /\ s \ {Max(s)} \in SUBSET DOMAIN kinds
  <2>1. Max(s) \in 1..Len(kinds)
    BY <1>4, <1>5, MaxInside
  <2>2. kinds[Max(s)] \in FieldKinds
    BY <2>1
  <2> QED
    BY <2>2, Zenon
<1>6. \E f : Table(f)
  <2>1. PICK f \in [SUBSET DOMAIN kinds -> RunSet(from, Len(b))] :
            \A s \in SUBSET DOMAIN kinds : f[s] = Folded(f, [error |-> "none", next |-> from, values |-> << >>], g, kinds, s)
    <3>1. HasTable(RunSet(from, Len(b)), [error |-> "none", next |-> from, values |-> << >>], g, kinds)
      BY <1>2, <1>3, FoldTable, Zenon
    <3> QED
      BY <3>1, Zenon DEF HasTable
  <2>2. ASSUME NEW s \in SUBSET DOMAIN kinds
        PROVE  f[s] = IF s = {} THEN [error |-> "none", next |-> from, values |-> << >>]
                      ELSE NextField(b, f[s \ {Max(s)}], kinds[Max(s)])
    <3>1. CASE s = {}
      BY <2>1, <3>1 DEF Folded
    <3>2. CASE s # {}
      <4>1. f[s \ {Max(s)}] \in RunSet(from, Len(b))
        BY <1>5, <2>1, <3>2
      <4>2. f[s] = g[<<f[s \ {Max(s)}], kinds[Max(s)]>>]
        BY <2>1, <3>2, Zenon DEF Folded
      <4> QED
        BY <1>3, <1>5, <3>2, <4>1, <4>2, Zenon
    <3> QED
      BY <3>1, <3>2
  <2> QED
    BY <2>1, <2>2, Zenon
<1>7. PICK f : f = (CHOOSE h : Table(h))
  OBVIOUS
<1>8. Table(f)
  <2> HIDE DEF Table
  <2> QED
    BY <1>6, <1>7, Zenon
<1>9. f[{}] = [error |-> "none", next |-> from, values |-> << >>]
  BY <1>8, Zenon
<1>10. ASSUME NEW i \in 1..Len(kinds), f[(1..i) \ {Max(1..i)}] \in RunSet(from, Len(b))
       PROVE  f[1..i] = g[<<f[(1..i) \ {Max(1..i)}], kinds[Max(1..i)]>>]
  <2>1. 1..i \in SUBSET DOMAIN kinds /\ 1..i # {}
    <3>1. i \in 1..i /\ \A j \in 1..i : j \in 1..Len(kinds)
      BY <1>4
    <3> QED
      BY <1>4, <3>1
  <2>2. f[1..i] = NextField(b, f[(1..i) \ {Max(1..i)}], kinds[Max(1..i)])
    BY <1>8, <2>1, Zenon
  <2> QED
    BY <1>3, <1>5, <1>10, <2>1, <2>2, Zenon
<1>11. PICK acc \in [0..Len(kinds) -> RunSet(from, Len(b))] :
          /\ acc[0] = [error |-> "none", next |-> from, values |-> << >>]
          /\ acc[Len(kinds)] = f[DOMAIN kinds]
          /\ \A i \in 1..Len(kinds) : acc[i] = g[<<acc[i - 1], kinds[i]>>]
  <2> HIDE DEF Table
  <2>1. HasRun(RunSet(from, Len(b)), [error |-> "none", next |-> from, values |-> << >>], g, kinds, f[DOMAIN kinds])
    BY <1>2, <1>3, <1>9, <1>10, FoldRuns, Zenon
  <2> QED
    BY <2>1, Zenon DEF HasRun
<1>12. acc[Len(kinds)] = Fields(b, from, kinds)
  BY <1>1, <1>7, <1>11, Zenon
<1>13. \A i \in 1..Len(kinds) : acc[i] = NextField(b, acc[i - 1], kinds[i])
  <2>1. \A i \in 1..Len(kinds) : acc[i - 1] \in RunSet(from, Len(b)) /\ kinds[i] \in FieldKinds
    BY <1>4
  <2> QED
    BY <1>3, <1>11, <2>1, Zenon
<1> QED
  BY <1>11, <1>12, <1>13, Zenon

(* A list of fields ends within the bytes, and behind its start if it is   *)
(* not empty.                                                              *)
LEMMA FieldsTyped ==
    ASSUME NEW b \in Seq(Byte), NEW from \in 0..Len(b), NEW kinds \in Seq(FieldKinds)
    PROVE  /\ Fields(b, from, kinds) \in RunSet(from, Len(b))
           /\ kinds # << >> => Fields(b, from, kinds) \in RunSet(from + 1, Len(b))
<1>1. PICK acc \in [0..Len(kinds) -> RunSet(from, Len(b))] :
          /\ acc[Len(kinds)] = Fields(b, from, kinds)
          /\ \A i \in 1..Len(kinds) : acc[i] = NextField(b, acc[i - 1], kinds[i])
  BY FieldRuns, Zenon
<1>2. PICK n \in Nat : n = Len(kinds)
  OBVIOUS
<1>3. acc[n] \in RunSet(from, Len(b))
  BY <1>1, <1>2
<1>4. ASSUME kinds # << >>
      PROVE  acc[n] \in RunSet(from + 1, Len(b))
  <2>1. n \in 1..Len(kinds) /\ n - 1 \in 0..Len(kinds)
    BY <1>2, <1>4
  <2>2. acc[n] = NextField(b, acc[n - 1], kinds[n])
    BY <1>1, <2>1, Zenon
  <2>3. acc[n - 1] \in RunSet(from, Len(b)) /\ kinds[n] \in FieldKinds
    BY <1>1, <2>1
  <2> QED
    BY <2>2, <2>3, NextFieldTyped, Zenon
<1> QED
  BY <1>1, <1>2, <1>3, <1>4, Zenon

-----------------------------------------------------------------------------
(* The iterators: a table of what they make of the bytes behind each place, *)
(* which exists because a group of fields takes at least one byte.         *)
GroupSet == [error : FieldErrors, next : Nat, items : Seq(Seq(ValueSet))]

GroupTable(b, from, kinds, group) ==
    group = [i \in from..Len(b) |-> Grouped(group, i, Fields(b, i, kinds))]

(* The group at place i, once those behind it are known. *)
LEMMA GroupTyped ==
    ASSUME NEW b \in Seq(Byte), NEW kinds \in Seq(FieldKinds), kinds # << >>,
           NEW i \in 0..Len(b), NEW group,
           \A j \in (i + 1)..Len(b) : group[j] \in GroupSet
    PROVE  Grouped(group, i, Fields(b, i, kinds)) \in GroupSet
<1> DEFINE g == Fields(b, i, kinds)
<1>1. g \in RunSet(i + 1, Len(b))
  BY FieldsTyped, Zenon
<1> HIDE DEF g
<1>2. CASE g.error # "none"
  <2>1. g.error \in FieldErrors
    BY <1>1, <1>2 DEF RunSet
  <2>2. Grouped(group, i, g) = [error |-> g.error, next |-> i, items |-> << >>]
    BY <1>2 DEF Grouped
  <2>3. << >> \in Seq(Seq(ValueSet)) /\ i \in Nat
    OBVIOUS
  <2>4. [error |-> g.error, next |-> i, items |-> << >>] \in GroupSet
    BY <2>1, <2>3 DEF GroupSet
  <2> QED
    BY <2>2, <2>4 DEF g
<1>3. CASE g.error = "none"
  <2>1. g.next \in (i + 1)..Len(b) /\ g.values \in Seq(ValueSet)
    BY <1>1, <1>3 DEF RunSet, FieldErrors
  <2>2. group[g.next] \in GroupSet
    BY <2>1
  <2>3. Grouped(group, i, g) = [group[g.next] EXCEPT !.items = <<g.values>> \o @]
    BY <1>3 DEF Grouped
  <2> DEFINE q == group[g.next]
             v == <<g.values>> \o q.items
  <2>4. v \in Seq(Seq(ValueSet))
    <3>1. q.items \in Seq(Seq(ValueSet))
      BY <2>2 DEF GroupSet
    <3>2. <<g.values>> \in Seq(Seq(ValueSet))
      BY <2>1
    <3> HIDE DEF q
    <3> QED
      BY <3>1, <3>2
  <2>5. Grouped(group, i, g) = [q EXCEPT !.items = v]
    BY <2>3, Zenon
  <2>6. q \in GroupSet
    BY <2>2
  <2> HIDE DEF q, v
  <2>7. [q EXCEPT !.items = v] \in GroupSet
    BY <2>4, <2>6 DEF GroupSet
  <2> QED
    BY <2>5, <2>7, Zenon DEF g
<1> QED
  BY <1>2, <1>3

(* Grouped looks only at the places behind i. *)
LEMMA GroupedAgrees ==
    ASSUME NEW b \in Seq(Byte), NEW kinds \in Seq(FieldKinds), kinds # << >>,
           NEW i \in 0..Len(b), NEW one, NEW two,
           \A j \in (i + 1)..Len(b) : one[j] = two[j]
    PROVE  Grouped(one, i, Fields(b, i, kinds)) = Grouped(two, i, Fields(b, i, kinds))
<1> DEFINE g == Fields(b, i, kinds)
<1>1. g \in RunSet(i + 1, Len(b))
  BY FieldsTyped, Zenon
<1> HIDE DEF g
<1>2. CASE g.error # "none"
  BY <1>2 DEF Grouped, g
<1>3. CASE g.error = "none"
  <2>1. g.next \in (i + 1)..Len(b)
    BY <1>1, <1>3 DEF RunSet, FieldErrors
  <2>2. one[g.next] = two[g.next]
    BY <2>1
  <2>3. Grouped(one, i, g) = Grouped(two, i, g)
    BY <2>2, <1>3, Zenon DEF Grouped
  <2> QED
    BY <2>3 DEF g
<1> QED
  BY <1>2, <1>3

(* The table, built from the last place to the first. *)
LEMMA GroupTableExists ==
    ASSUME NEW b \in Seq(Byte), NEW kinds \in Seq(FieldKinds), kinds # << >>,
           NEW from \in 0..Len(b)
    PROVE  \E group : GroupTable(b, from, kinds, group)
<1> DEFINE m == Len(b) - from
           Part(n, t) ==
              /\ t \in [(Len(b) - n)..Len(b) -> GroupSet]
              /\ \A i \in (Len(b) - n)..Len(b) : t[i] = Grouped(t, i, Fields(b, i, kinds))
           P == {n \in Nat : n <= m => \E t : Part(n, t)}
<1>0. m \in Nat /\ Len(b) \in Nat
  OBVIOUS
<1>1. 0 \in P
  <2> DEFINE none == [j \in {} |-> 0]
             x == Grouped(none, Len(b), Fields(b, Len(b), kinds))
             t == [j \in Len(b)..Len(b) |-> x]
  <2>1. x \in GroupSet
    <3>1. Len(b) \in 0..Len(b) /\ \A j \in (Len(b) + 1)..Len(b) : none[j] \in GroupSet
      BY <1>0
    <3> HIDE DEF none
    <3> QED
      BY <3>1, GroupTyped, Zenon
  <2>2. x = Grouped(t, Len(b), Fields(b, Len(b), kinds))
    <3>1. Len(b) \in 0..Len(b) /\ \A j \in (Len(b) + 1)..Len(b) : none[j] = t[j]
      BY <1>0
    <3> HIDE DEF none, t
    <3> QED
      BY <3>1, GroupedAgrees, Zenon
  <2>3. t[Len(b)] = x
    BY <1>0
  <2>4. t \in [Len(b)..Len(b) -> GroupSet]
    <3> HIDE DEF x
    <3> QED
      BY <2>1
  <2> HIDE DEF t, x
  <2>5. Part(0, t)
    <3>1. Len(b) - 0 = Len(b) /\ \A i \in Len(b)..Len(b) : i = Len(b)
      BY <1>0
    <3> QED
      BY <2>2, <2>3, <2>4, <3>1, Zenon
  <2> QED
    BY <2>5
<1>2. ASSUME NEW n \in 1..m, n - 1 \in P
      PROVE  n \in P
  <2> DEFINE c == Len(b) - n
             x(t) == Grouped(t, c, Fields(b, c, kinds))
  <2>0. n - 1 <= m /\ n \in Nat
    BY <1>0
  <2>1. PICK t : Part(n - 1, t)
    BY <1>2, <2>0
  <2>2. c \in 0..Len(b) /\ c + 1 = Len(b) - (n - 1)
    BY <1>0
  <2>3. \A j \in (c + 1)..Len(b) : t[j] \in GroupSet
    BY <2>1, <2>2
  <2> DEFINE y == x(t)
             u == [j \in c..Len(b) |-> IF j = c THEN y ELSE t[j]]
  <2>4. y \in GroupSet
    <3> HIDE DEF c
    <3> QED
      BY <2>2, <2>3, GroupTyped, Zenon
  <2>5. /\ u[c] = y
        /\ \A j \in (c + 1)..Len(b) : u[j] = t[j]
    <3>1. c \in c..Len(b) /\ \A j \in (c + 1)..Len(b) : j \in c..Len(b) /\ j # c
      BY <2>2
    <3> HIDE DEF c, y
    <3> QED
      BY <3>1
  <2>6. u \in [c..Len(b) -> GroupSet]
    <3>1. \A j \in c..Len(b) : j = c \/ j \in (c + 1)..Len(b)
      BY <2>2
    <3> HIDE DEF c, y
    <3> QED
      BY <2>3, <2>4, <3>1
  <2> HIDE DEF u
  <2>7. ASSUME NEW i \in c..Len(b)
        PROVE  u[i] = Grouped(u, i, Fields(b, i, kinds))
    <3>1. \A j \in (i + 1)..Len(b) : t[j] = u[j]
      <4>1. \A j \in (i + 1)..Len(b) : j \in (c + 1)..Len(b)
        BY <2>2
      <4> QED
        BY <2>5, <4>1
    <3>2. i \in 0..Len(b)
      BY <2>2
    <3>3. Grouped(t, i, Fields(b, i, kinds)) = Grouped(u, i, Fields(b, i, kinds))
      BY <3>1, <3>2, GroupedAgrees, Zenon
    <3>4. u[i] = Grouped(t, i, Fields(b, i, kinds))
      <4>1. CASE i = c
        BY <2>5, <4>1, Zenon
      <4>2. CASE i # c
        <5>1. i \in (c + 1)..Len(b) /\ i \in (Len(b) - (n - 1))..Len(b)
          BY <2>2, <4>2
        <5> QED
          BY <2>1, <2>5, <5>1, Zenon
      <4> QED
        BY <4>1, <4>2
    <3> QED
      BY <3>3, <3>4, Zenon
  <2>8. Part(n, u)
    BY <2>6, <2>7, Zenon
  <2> QED
    BY <2>0, <2>8
<1>3. m \in P
  <2>1. P \in SUBSET Nat
    OBVIOUS
  <2> HIDE DEF P
  <2>2. \A i \in 0..m : i \in P
    BY <1>0, <1>1, <1>2, <2>1, UpTo
  <2> QED
    BY <1>0, <2>2
<1>4. PICK t : Part(m, t)
  BY <1>0, <1>3
<1>5. Len(b) - m = from
  OBVIOUS
<1>6. /\ t \in [from..Len(b) -> GroupSet]
      /\ \A i \in from..Len(b) : t[i] = Grouped(t, i, Fields(b, i, kinds))
  BY <1>4, <1>5, Zenon
<1>7. t = [i \in from..Len(b) |-> Grouped(t, i, Fields(b, i, kinds))]
  BY <1>6, Zenon
<1> QED
  BY <1>7, Zenon DEF GroupTable

(* What the iterator makes of the bytes: it ends with an error of a field. *)
LEMMA GroupsTyped ==
    ASSUME NEW b \in Seq(Byte), NEW kinds \in Seq(FieldKinds), kinds # << >>,
           NEW from \in 0..Len(b)
    PROVE  Groups(b, from, kinds) \in GroupSet
<1>1. PICK group : group = (CHOOSE t : GroupTable(b, from, kinds, t))
  OBVIOUS
<1>2. GroupTable(b, from, kinds, group)
  BY <1>1, GroupTableExists, Zenon
<1>3. Groups(b, from, kinds) = group[from]
  BY <1>1, Zenon DEF Groups, GroupTable
<1>4. \A i \in from..Len(b) : group[i] = Grouped(group, i, Fields(b, i, kinds))
  BY <1>2, Zenon DEF GroupTable
<1> DEFINE m == Len(b) - from
           P == {n \in Nat : n <= m => \A i \in (Len(b) - n)..Len(b) : group[i] \in GroupSet}
<1>0. m \in Nat /\ Len(b) \in Nat
  OBVIOUS
<1>5. 0 \in P
  <2>1. /\ Len(b) \in 0..Len(b) /\ Len(b) \in from..Len(b)
        /\ \A j \in (Len(b) + 1)..Len(b) : group[j] \in GroupSet
    BY <1>0
  <2>2. group[Len(b)] \in GroupSet
    BY <1>4, <2>1, GroupTyped, Zenon
  <2>3. \A i \in (Len(b) - 0)..Len(b) : i = Len(b)
    BY <1>0
  <2> QED
    BY <2>2, <2>3
<1>6. ASSUME NEW n \in 1..m, n - 1 \in P
      PROVE  n \in P
  <2> DEFINE c == Len(b) - n
  <2>0. n - 1 <= m /\ n \in Nat
    BY <1>0
  <2>2. c \in 0..Len(b) /\ c \in from..Len(b) /\ c + 1 = Len(b) - (n - 1)
    BY <1>0
  <2>3. \A j \in (c + 1)..Len(b) : group[j] \in GroupSet
    BY <1>6, <2>0, <2>2
  <2>4. group[c] \in GroupSet
    <3> HIDE DEF c
    <3> QED
      BY <1>4, <2>2, <2>3, GroupTyped, Zenon
  <2>5. \A i \in c..Len(b) : i = c \/ i \in (c + 1)..Len(b)
    BY <2>2
  <2>6. \A i \in c..Len(b) : group[i] \in GroupSet
    BY <2>3, <2>4, <2>5, Zenon
  <2> QED
    BY <2>0, <2>6
<1>7. m \in P
  <2>1. P \in SUBSET Nat
    OBVIOUS
  <2> HIDE DEF P
  <2>2. \A i \in 0..m : i \in P
    BY <1>0, <1>5, <1>6, <2>1, UpTo
  <2> QED
    BY <1>0, <2>2
<1>8. group[from] \in GroupSet
  <2>1. from \in (Len(b) - m)..Len(b)
    BY <1>0
  <2> QED
    BY <1>0, <1>7, <2>1
<1> QED
  BY <1>3, <1>8, Zenon

-----------------------------------------------------------------------------
(* What the readers of packets return: no NeedMoreData, and a packet of one *)
(* of the types when there is no error.                                    *)
ReadErrors ==
    FieldErrors \cup {"PacketIdZero", "InvalidConnectReturnCode", "InvalidSubscribeReasonCode",
                      "EmptySubscription", "InvalidProtocol", "InvalidProtocolLevel",
                      "InvalidPacketType"}

ReadOutcome(r) ==
    \/ r.error \in ReadErrors
    \/ r.error = "none" /\ r.packet.type \in ToSet(PacketTypes)

(* Errors and packets that readers may return. *)
LEMMA ErrIsOutcome ==
    ASSUME NEW e \in ReadErrors
    PROVE  ReadOutcome(Err(e))
BY DEF ReadOutcome, Err

LEMMA RunIsOutcome ==
    ASSUME NEW lo, NEW hi, NEW r \in RunSet(lo, hi), r.error # "none"
    PROVE  ReadOutcome(r)
<1>1. r.error \in FieldErrors
  BY DEF RunSet
<1> QED
  BY <1>1 DEF ReadOutcome, ReadErrors

LEMMA PacketIsOutcome ==
    ASSUME NEW p, p.type \in ToSet(PacketTypes)
    PROVE  ReadOutcome(Packet(p))
BY DEF ReadOutcome, Packet

(* The fourteen types. *)
LEMMA TypesRead ==
    /\ DOMAIN PacketTypes = 1..14
    /\ {"Connect", "ConnAck", "Publish", "PubAck", "PubRec", "PubRel", "PubComp", "Subscribe",
        "SubAck", "Unsubscribe", "UnsubAck", "PingReq", "PingResp", "Disconnect"}
          \subseteq ToSet(PacketTypes)
    /\ \A i \in 1..14 : PacketTypes[i] \in ToSet(PacketTypes)
<1>1. DOMAIN PacketTypes = 1..14
  BY DEF PacketTypes
<1>2. \A i \in 1..14 : PacketTypes[i] \in ToSet(PacketTypes)
  BY <1>1, Zenon DEF ToSet
<1>3. /\ PacketTypes[1] = "Connect" /\ PacketTypes[2] = "ConnAck" /\ PacketTypes[3] = "Publish"
      /\ PacketTypes[4] = "PubAck" /\ PacketTypes[5] = "PubRec" /\ PacketTypes[6] = "PubRel"
      /\ PacketTypes[7] = "PubComp" /\ PacketTypes[8] = "Subscribe" /\ PacketTypes[9] = "SubAck"
      /\ PacketTypes[10] = "Unsubscribe" /\ PacketTypes[11] = "UnsubAck"
      /\ PacketTypes[12] = "PingReq" /\ PacketTypes[13] = "PingResp"
      /\ PacketTypes[14] = "Disconnect"
  BY DEF PacketTypes
<1> QED
  BY <1>1, <1>2, <1>3

(* The fields the readers ask for. *)
LEMMA KindLists ==
    /\ <<"string">> \in Seq(FieldKinds) /\ <<"u16">> \in Seq(FieldKinds)
    /\ <<"bytes">> \in Seq(FieldKinds) /\ << >> \in Seq(FieldKinds)
    /\ <<"string", "u16">> \in Seq(FieldKinds) /\ <<"u8", "u8">> \in Seq(FieldKinds)
    /\ <<"string", "qos">> \in Seq(FieldKinds) /\ <<"string", "bytes">> \in Seq(FieldKinds)
    /\ <<"string", "u8">> \in Seq(FieldKinds) /\ <<"u8", "u16", "string">> \in Seq(FieldKinds)
BY DEF FieldKinds

(* Each reader in turn. *)
LEMMA PublishOutcome ==
    ASSUME NEW b \in Seq(Byte), NEW h \in 0..Len(b), NEW byte1
    PROVE  ReadOutcome(ReadPublish(byte1, b, h))
<1> DEFINE qos == (byte1 \div 2) % 4
           kinds == IF qos = 0 THEN <<"string">> ELSE <<"string", "u16">>
           r == Fields(b, h, kinds)
           p == [type |-> "Publish", dup |-> Bit(byte1, 8), qos |-> qos,
                 retain |-> Bit(byte1, 1), topic |-> r.values[1],
                 pkid |-> IF qos = 0 THEN 0 ELSE r.values[2],
                 payload |-> SubSeq(b, r.next + 1, Len(b))]
<1>1. r \in RunSet(h, Len(b))
  <2>1. kinds \in Seq(FieldKinds)
    BY KindLists, Zenon
  <2> HIDE DEF kinds
  <2> QED
    BY <2>1, FieldsTyped, Zenon
<1>2. ReadPublish(byte1, b, h) = IF qos > 2 THEN Err("InvalidQoS") ELSE PublishOf(byte1, qos, b, r)
  BY Zenon DEF ReadPublish
<1>3. \/ r.error # "none" /\ PublishOf(byte1, qos, b, r) = r
      \/ PublishOf(byte1, qos, b, r) = Err("PacketIdZero")
      \/ PublishOf(byte1, qos, b, r) = Packet(p)
  BY Zenon DEF PublishOf
<1>4. p.type = "Publish"
  OBVIOUS
<1> HIDE DEF r, qos, p
<1>5. ReadOutcome(Packet(p))
  BY <1>4, TypesRead, PacketIsOutcome
<1>6. ReadOutcome(Err("InvalidQoS")) /\ ReadOutcome(Err("PacketIdZero"))
  BY ErrIsOutcome DEF ReadErrors, FieldErrors
<1>7. r.error # "none" => ReadOutcome(r)
  BY <1>1, RunIsOutcome, Zenon
<1> QED
  BY <1>2, <1>3, <1>5, <1>6, <1>7, Zenon

LEMMA AckOutcome ==
    ASSUME NEW b \in Seq(Byte), NEW h \in 0..Len(b), NEW type \in ToSet(PacketTypes)
    PROVE  ReadOutcome(ReadAck(type, b, h))
<1> DEFINE r == Fields(b, h, <<"u16">>)
           p == [type |-> type, pkid |-> r.values[1]]
<1>1. r \in RunSet(h, Len(b))
  BY KindLists, FieldsTyped, Zenon
<1>2. ReadAck(type, b, h) = IF r.error # "none" THEN r ELSE Packet(p)
  BY Zenon DEF ReadAck, AckOf
<1>3. p.type = type
  OBVIOUS
<1> HIDE DEF r, p
<1>4. ReadOutcome(Packet(p))
  BY <1>3, PacketIsOutcome
<1>5. r.error # "none" => ReadOutcome(r)
  BY <1>1, RunIsOutcome, Zenon
<1> QED
  BY <1>2, <1>4, <1>5, Zenon

LEMMA ConnAckOutcome ==
    ASSUME NEW b \in Seq(Byte), NEW h \in 0..Len(b)
    PROVE  ReadOutcome(ReadConnAck(b, h))
<1> DEFINE r == Fields(b, h, <<"u8", "u8">>)
           p == [type |-> "ConnAck", session_present |-> Bit(r.values[1], 1), code |-> r.values[2]]
<1>1. r \in RunSet(h, Len(b))
  BY KindLists, FieldsTyped, Zenon
<1>2. \/ r.error # "none" /\ ReadConnAck(b, h) = r
      \/ ReadConnAck(b, h) = Err("InvalidConnectReturnCode")
      \/ ReadConnAck(b, h) = Packet(p)
  BY Zenon DEF ReadConnAck, ConnAckOf
<1>3. p.type = "ConnAck"
  OBVIOUS
<1> HIDE DEF r, p
<1>4. ReadOutcome(Packet(p))
  BY <1>3, TypesRead, PacketIsOutcome
<1>5. ReadOutcome(Err("InvalidConnectReturnCode"))
  BY ErrIsOutcome DEF ReadErrors
<1>6. r.error # "none" => ReadOutcome(r)
  BY <1>1, RunIsOutcome, Zenon
<1> QED
  BY <1>2, <1>4, <1>5, <1>6, Zenon

LEMMA SubAckOutcome ==
    ASSUME NEW b \in Seq(Byte), NEW h \in 0..Len(b)
    PROVE  ReadOutcome(ReadSubAck(b, h))
<1> DEFINE r == Fields(b, h, <<"u16">>)
           codes == SubSeq(b, h + 3, Len(b))
           p == [type |-> "SubAck", pkid |-> r.values[1], codes |-> codes]
<1>1. r \in RunSet(h, Len(b))
  BY KindLists, FieldsTyped, Zenon
<1>2. \/ r.error # "none" /\ ReadSubAck(b, h) = r
      \/ ReadSubAck(b, h) = Err("MalformedPacket")
      \/ ReadSubAck(b, h) = Err("InvalidSubscribeReasonCode")
      \/ ReadSubAck(b, h) = Packet(p)
  BY Zenon DEF ReadSubAck, SubAckOf
<1>3. p.type = "SubAck"
  OBVIOUS
<1> HIDE DEF r, p, codes
<1>4. ReadOutcome(Packet(p))
  BY <1>3, TypesRead, PacketIsOutcome
<1>5. ReadOutcome(Err("MalformedPacket")) /\ ReadOutcome(Err("InvalidSubscribeReasonCode"))
  BY ErrIsOutcome DEF ReadErrors, FieldErrors
<1>6. r.error # "none" => ReadOutcome(r)
  BY <1>1, RunIsOutcome, Zenon
<1> QED
  BY <1>2, <1>4, <1>5, <1>6, Zenon

LEMMA SubscribeOutcome ==
    ASSUME NEW b \in Seq(Byte), NEW h \in 0..Len(b)
    PROVE  ReadOutcome(ReadSubscribe(b, h))
<1> DEFINE r == Fields(b, h, <<"u16">>)
           g == Groups(b, h + 2, <<"string", "qos">>)
           p == [type |-> "Subscribe", pkid |-> r.values[1],
                 filters |-> [i \in DOMAIN g.items |->
                                [path |-> g.items[i][1], qos |-> g.items[i][2]]]]
<1>1. r \in RunSet(h, Len(b))
  BY KindLists, FieldsTyped, Zenon
<1>2. \/ r.error # "none" /\ ReadSubscribe(b, h) = r
      \/ ReadSubscribe(b, h) = Err("EmptySubscription")
      \/ ReadSubscribe(b, h) = Err("MalformedPacket")
      \/ ReadSubscribe(b, h) = Packet(p)
  BY Zenon DEF ReadSubscribe, SubscribeOf
<1>3. p.type = "Subscribe"
  OBVIOUS
<1> HIDE DEF r, p, g
<1>4. ReadOutcome(Packet(p))
  BY <1>3, TypesRead, PacketIsOutcome
<1>5. ReadOutcome(Err("EmptySubscription")) /\ ReadOutcome(Err("MalformedPacket"))
  BY ErrIsOutcome DEF ReadErrors, FieldErrors
<1>6. r.error # "none" => ReadOutcome(r)
  BY <1>1, RunIsOutcome, Zenon
<1> QED
  BY <1>2, <1>4, <1>5, <1>6, Zenon

(* The identifier takes two bytes. *)
LEMMA BehindIdentifier ==
    ASSUME NEW b \in Seq(Byte), NEW h \in 0..Len(b), Fields(b, h, <<"u16">>).error = "none"
    PROVE  h + 2 \in 0..Len(b)
<1>1. PICK acc \in [0..Len(<<"u16">>) -> RunSet(h, Len(b))] :
          /\ acc[0] = [error |-> "none", next |-> h, values |-> << >>]
          /\ acc[Len(<<"u16">>)] = Fields(b, h, <<"u16">>)
          /\ \A i \in 1..Len(<<"u16">>) : acc[i] = NextField(b, acc[i - 1], <<"u16">>[i])
  BY KindLists, FieldRuns, Zenon
<1>2. Len(<<"u16">>) = 1 /\ <<"u16">>[1] = "u16" /\ 1 \in 1..1 /\ 1 - 1 = 0
  OBVIOUS
<1>3. Fields(b, h, <<"u16">>) = NextField(b, [error |-> "none", next |-> h, values |-> << >>], "u16")
  BY <1>1, <1>2, Zenon
<1> DEFINE f == ReadU16(b, h)
<1>4. NextField(b, [error |-> "none", next |-> h, values |-> << >>], "u16")
        = Extended([error |-> "none", next |-> h, values |-> << >>], f)
  BY DEF NextField, Field
<1>5. f.error = "none"
  <2> HIDE DEF f
  <2>1. f.error # "none" => Extended([error |-> "none", next |-> h, values |-> << >>], f) = f
    BY DEF Extended
  <2> QED
    BY <1>3, <1>4, <2>1, Zenon
<1>6. ~(Len(b) - h < 2)
  <2> SUFFICES ASSUME Len(b) - h < 2
               PROVE  FALSE
    OBVIOUS
  <2>1. f = [error |-> "MalformedPacket"]
    BY DEF ReadU16, Fixed, Err
  <2> HIDE DEF f
  <2> QED
    BY <1>5, <2>1
<1> QED
  BY <1>6

LEMMA UnsubscribeOutcome ==
    ASSUME NEW b \in Seq(Byte), NEW h \in 0..Len(b)
    PROVE  ReadOutcome(ReadUnsubscribe(b, h))
<1> DEFINE r == Fields(b, h, <<"u16">>)
           g == Groups(b, h + 2, <<"string">>)
           p == [type |-> "Unsubscribe", pkid |-> r.values[1],
                 topics |-> [i \in DOMAIN g.items |-> g.items[i][1]]]
<1>1. r \in RunSet(h, Len(b))
  BY KindLists, FieldsTyped, Zenon
<1>2. \/ r.error # "none" /\ ReadUnsubscribe(b, h) = r
      \/ r.error = "none" /\ ReadUnsubscribe(b, h) = Err(g.error)
      \/ ReadUnsubscribe(b, h) = Packet(p)
  BY Zenon DEF ReadUnsubscribe, UnsubscribeOf
<1>3. p.type = "Unsubscribe"
  OBVIOUS
<1>4. r.error = "none" => g \in GroupSet
  <2> SUFFICES ASSUME r.error = "none"
               PROVE  g \in GroupSet
    OBVIOUS
  <2>1. h + 2 \in 0..Len(b)
    BY BehindIdentifier, Zenon
  <2>2. <<"string">> \in Seq(FieldKinds) /\ <<"string">> # << >>
    BY KindLists
  <2> QED
    BY <2>1, <2>2, GroupsTyped, Zenon
<1> HIDE DEF r, p, g
<1>5. ReadOutcome(Packet(p))
  BY <1>3, TypesRead, PacketIsOutcome
<1>6. r.error = "none" => ReadOutcome(Err(g.error))
  <2>1. g \in GroupSet => g.error \in ReadErrors
    BY DEF GroupSet, ReadErrors
  <2> QED
    BY <1>4, <2>1, ErrIsOutcome, Zenon
<1>7. r.error # "none" => ReadOutcome(r)
  BY <1>1, RunIsOutcome, Zenon
<1> QED
  BY <1>2, <1>5, <1>6, <1>7, Zenon

(* Reading a Connect, from the last group of fields to the first. *)
LEMMA ReadLoginOutcome ==
    ASSUME NEW b \in Seq(Byte), NEW from \in 0..Len(b), NEW flags, NEW rest,
           NEW will \in RunSet(from, Len(b))
    PROVE  ReadOutcome(ReadLogin(b, flags, rest, will))
<1> DEFINE login == Fields(b, will.next, LoginFields(flags))
           p == [type |-> "Connect", protocol |-> 4, keep_alive |-> rest.values[2],
                 client_id |-> rest.values[3], clean_session |-> Bit(flags, 2),
                 last_will |-> WillOf(flags, will.values),
                 login |-> LoginOf(flags, login.values)]
<1>1. will.error = "none" => login \in RunSet(will.next, Len(b))
  <2> SUFFICES ASSUME will.error = "none"
               PROVE  login \in RunSet(will.next, Len(b))
    OBVIOUS
  <2>1. will.next \in from..Len(b)
    BY DEF RunSet, FieldErrors
  <2>2. will.next \in 0..Len(b)
    BY <2>1
  <2>3. LoginFields(flags) \in Seq(FieldKinds)
    <3>1. (IF Bit(flags, 128) THEN <<"string">> ELSE << >>) \in Seq(FieldKinds)
      BY KindLists, Zenon
    <3>2. (IF Bit(flags, 64) THEN <<"bytes">> ELSE << >>) \in Seq(FieldKinds)
      BY KindLists, Zenon
    <3>3. \A x, y \in Seq(FieldKinds) : x \o y \in Seq(FieldKinds)
      OBVIOUS
    <3> QED
      BY <3>1, <3>2, <3>3, ZenonT(60) DEF LoginFields
  <2> QED
    BY <2>2, <2>3, FieldsTyped, Zenon
<1>2. \/ will.error # "none" /\ ReadLogin(b, flags, rest, will) = will
      \/ ReadLogin(b, flags, rest, will) = Err("InvalidQoS")
      \/ /\ will.error = "none"
         /\ \/ login.error # "none" /\ ReadLogin(b, flags, rest, will) = login
            \/ ReadLogin(b, flags, rest, will) = Packet(p)
  BY Zenon DEF ReadLogin, ConnectOf
<1>3. p.type = "Connect"
  OBVIOUS
<1> HIDE DEF p, login
<1>4. ReadOutcome(Packet(p))
  BY <1>3, TypesRead, PacketIsOutcome
<1>5. ReadOutcome(Err("InvalidQoS"))
  BY ErrIsOutcome DEF ReadErrors, FieldErrors
<1>6. will.error # "none" => ReadOutcome(will)
  BY RunIsOutcome, Zenon
<1>7. will.error = "none" /\ login.error # "none" => ReadOutcome(login)
  BY <1>1, RunIsOutcome, Zenon
<1> QED
  BY <1>2, <1>4, <1>5, <1>6, <1>7, Zenon

(* LastWill::read. *)
LEMMA ReadWillOutcome ==
    ASSUME NEW b \in Seq(Byte), NEW from \in 0..Len(b), NEW rest \in RunSet(from, Len(b))
    PROVE  ReadOutcome(ReadWill(b, rest))
<1> DEFINE flags == rest.values[1]
           will == Fields(b, rest.next, WillFields(flags))
<1>1. rest.error = "none" => ReadOutcome(ReadLogin(b, flags, rest, will))
  <2> SUFFICES ASSUME rest.error = "none"
               PROVE  ReadOutcome(ReadLogin(b, flags, rest, will))
    OBVIOUS
  <2>1. rest.next \in from..Len(b)
    BY DEF RunSet, FieldErrors
  <2>2. rest.next \in 0..Len(b)
    BY <2>1
  <2>3. WillFields(flags) \in Seq(FieldKinds)
    BY KindLists, Zenon DEF WillFields
  <2>4. will \in RunSet(rest.next, Len(b))
    BY <2>2, <2>3, FieldsTyped, Zenon
  <2> QED
    BY <2>2, <2>4, ReadLoginOutcome, Zenon
<1>2. \/ rest.error # "none" /\ ReadWill(b, rest) = rest
      \/ ReadWill(b, rest) = Err("MalformedPacket")
      \/ rest.error = "none" /\ ReadWill(b, rest) = ReadLogin(b, flags, rest, will)
  BY Zenon DEF ReadWill
<1> HIDE DEF will, flags
<1>3. ReadOutcome(Err("MalformedPacket"))
  BY ErrIsOutcome DEF ReadErrors, FieldErrors
<1>4. rest.error # "none" => ReadOutcome(rest)
  BY RunIsOutcome, Zenon
<1> QED
  BY <1>1, <1>2, <1>3, <1>4, Zenon

(* Connect::read. *)
LEMMA ConnectOutcome ==
    ASSUME NEW b \in Seq(Byte), NEW h \in 0..Len(b)
    PROVE  ReadOutcome(ReadConnect(b, h))
<1> DEFINE proto == Fields(b, h, <<"string", "u8">>)
           rest == Fields(b, proto.next, <<"u8", "u16", "string">>)
<1>1. proto \in RunSet(h, Len(b))
  BY KindLists, FieldsTyped, Zenon
<1>2. proto.error = "none" => ReadOutcome(ReadWill(b, rest))
  <2> SUFFICES ASSUME proto.error = "none"
               PROVE  ReadOutcome(ReadWill(b, rest))
    OBVIOUS
  <2> HIDE DEF proto
  <2>1. proto.next \in h..Len(b)
    BY <1>1 DEF RunSet, FieldErrors
  <2>2. proto.next \in 0..Len(b)
    BY <2>1
  <2>3. rest \in RunSet(proto.next, Len(b))
    BY <2>2, KindLists, FieldsTyped, Zenon
  <2> QED
    BY <2>2, <2>3, ReadWillOutcome, Zenon
<1>3. \/ proto.error # "none" /\ ReadConnect(b, h) = proto
      \/ ReadConnect(b, h) = Err("InvalidProtocol")
      \/ ReadConnect(b, h) = Err("InvalidProtocolLevel")
      \/ proto.error = "none" /\ ReadConnect(b, h) = ReadWill(b, rest)
  BY Zenon DEF ReadConnect, ReadProtocol
<1> HIDE DEF proto, rest
<1>4. ReadOutcome(Err("InvalidProtocol")) /\ ReadOutcome(Err("InvalidProtocolLevel"))
  BY ErrIsOutcome DEF ReadErrors
<1>5. proto.error # "none" => ReadOutcome(proto)
  BY <1>1, RunIsOutcome, Zenon
<1> QED
  BY <1>2, <1>3, <1>4, <1>5, Zenon

(* UnsubAck::read. *)
LEMMA UnsubAckOutcome ==
    ASSUME NEW b \in Seq(Byte), NEW h \in 0..Len(b), NEW remaining
    PROVE  ReadOutcome(ReadUnsubAck(remaining, b, h))
<1>1. ReadOutcome(ReadAck("UnsubAck", b, h))
  BY TypesRead, AckOutcome
<1>2. ReadOutcome(Err("MalformedPacket"))
  BY ErrIsOutcome DEF ReadErrors, FieldErrors
<1> QED
  BY <1>1, <1>2, Zenon DEF ReadUnsubAck

(***************************************************************************)
(* read_exact of a whole frame, whatever its bytes: it never asks for more *)
(* bytes, and a packet it returns is of one of the fourteen types.         *)
(***************************************************************************)
THEOREM WholeFrameDecides ==
    ASSUME NEW b \in Seq(Byte), NEW h \in 0..Len(b), NEW byte1, NEW remaining
    PROVE  ReadOutcome(ReadExact(byte1, remaining, b, h))
<1> DEFINE code == byte1 \div 16
           type == PacketTypes[code]
           x == ReadExact(byte1, remaining, b, h)
<1>1. CASE code \notin DOMAIN PacketTypes
  <2>1. x = Err("InvalidPacketType")
    BY <1>1, Zenon DEF ReadExact
  <2> QED
    BY <2>1, ErrIsOutcome DEF ReadErrors
<1>2. CASE code \in DOMAIN PacketTypes
  <2>1. type \in ToSet(PacketTypes)
    BY <1>2, TypesRead, Zenon
  <2>2. CASE type \in Bodiless
    <3>1. x = Packet([type |-> type])
      BY <1>2, <2>2, Zenon DEF ReadExact
    <3>2. [type |-> type].type = type
      OBVIOUS
    <3>3. ReadOutcome(Packet([type |-> type]))
      <4> HIDE DEF type
      <4> QED
        BY <2>1, <3>2, PacketIsOutcome, Zenon
    <3> QED
      BY <3>1, <3>3, Zenon
  <2>3. CASE type \notin Bodiless /\ remaining = 0
    <3>1. x = Err("MalformedPacket")
      BY <1>2, <2>3, Zenon DEF ReadExact
    <3> QED
      BY <3>1, ErrIsOutcome DEF ReadErrors, FieldErrors
  <2>4. CASE type \notin Bodiless /\ remaining # 0
    <3> HIDE DEF type, code
    <3>1. x = CASE type = "Connect"     -> ReadConnect(b, h)
               [] type = "ConnAck"     -> ReadConnAck(b, h)
               [] type = "Publish"     -> ReadPublish(byte1, b, h)
               [] type = "Subscribe"   -> ReadSubscribe(b, h)
               [] type = "SubAck"      -> ReadSubAck(b, h)
               [] type = "Unsubscribe" -> ReadUnsubscribe(b, h)
               [] type = "UnsubAck"    -> ReadUnsubAck(remaining, b, h)
               [] OTHER                -> ReadAck(type, b, h)
      BY <1>2, <2>4, Zenon DEF ReadExact, type, code
    <3> HIDE DEF x
    <3>2. /\ type = "Connect"     => x = ReadConnect(b, h)
          /\ type = "ConnAck"     => x = ReadConnAck(b, h)
          /\ type = "Publish"     => x = ReadPublish(byte1, b, h)
          /\ type = "Subscribe"   => x = ReadSubscribe(b, h)
          /\ type = "SubAck"      => x = ReadSubAck(b, h)
          /\ type = "Unsubscribe" => x = ReadUnsubscribe(b, h)
          /\ type = "UnsubAck"    => x = ReadUnsubAck(remaining, b, h)
          /\ type \notin {"Connect", "ConnAck", "Publish", "Subscribe", "SubAck",
                          "Unsubscribe", "UnsubAck"} => x = ReadAck(type, b, h)
      BY <3>1
    <3>3. /\ ReadOutcome(ReadConnect(b, h)) /\ ReadOutcome(ReadConnAck(b, h))
          /\ ReadOutcome(ReadPublish(byte1, b, h)) /\ ReadOutcome(ReadSubscribe(b, h))
          /\ ReadOutcome(ReadSubAck(b, h)) /\ ReadOutcome(ReadUnsubscribe(b, h))
          /\ ReadOutcome(ReadUnsubAck(remaining, b, h)) /\ ReadOutcome(ReadAck(type, b, h))
      BY <2>1, ConnectOutcome, ConnAckOutcome, PublishOutcome, SubscribeOutcome, SubAckOutcome,
         UnsubscribeOutcome, UnsubAckOutcome, AckOutcome, Zenon
    <3>4. \/ type \in {"Connect", "ConnAck", "Publish", "Subscribe", "SubAck", "Unsubscribe", "UnsubAck"}
          \/ type \notin {"Connect", "ConnAck", "Publish", "Subscribe", "SubAck", "Unsubscribe", "UnsubAck"}
      OBVIOUS
    <3>5. ReadOutcome(x)
      BY <3>2, <3>3, <3>4, Zenon
    <3> QED
      BY <3>5 DEF x, type, code
  <2> QED
    BY <2>2, <2>3, <2>4
<1> QED
  BY <1>1, <1>2

-----------------------------------------------------------------------------
(* A written frame is as long as its header says.                          *)
LEMMA WrittenIsOneFrame ==
    ASSUME NEW bytes, IsFrame(bytes)
    PROVE  /\ bytes \in Seq(Byte) /\ OneFrame(bytes)
           /\ ParseFixedHeader(bytes).error = "none"
<1>1. bytes \in Seq(Byte)
  BY DEF IsFrame
<1>2. PICK n \in Nat : n <= MaxRemaining /\ BeginsFrame(bytes, n) /\ Len(bytes) = FrameSize(n)
  BY Zenon DEF IsFrame
<1>3. /\ n <= n /\ Len(bytes) >= FrameSize(n)
      /\ FrameSize(n) = 1 + LengthBytes(n) + n /\ LengthBytes(n) \in 1..4
  <2>1. LengthBytes(n) \in 1..4
    BY LengthBytesRange
  <2>2. FrameSize(n) = 1 + LengthBytes(n) + n
    BY DEF FrameSize
  <2> QED
    BY <1>2, <2>1, <2>2
<1> DEFINE k == LengthBytes(n)
           h == ParseFixedHeader(bytes)
<1>4. Check(bytes, n) = [error |-> "none", byte1 |-> bytes[1], header |-> k + 1, remaining |-> n]
  BY <1>1, <1>2, <1>3, WholeFrameAccepted, Zenon
<1>5. h = Check(bytes, n)
  <2>1. Check(bytes, n) = Checked(h, Len(bytes), n)
    BY DEF Check
  <2>2. \/ Checked(h, Len(bytes), n) = h
        \/ Checked(h, Len(bytes), n).error \in {"PayloadSizeLimitExceeded", "NeedMoreData"}
    <3> HIDE DEF h
    <3>1. \A m : NeedMoreData(m).error = "NeedMoreData"
      BY DEF NeedMoreData
    <3>2. Err("PayloadSizeLimitExceeded").error = "PayloadSizeLimitExceeded"
      BY DEF Err
    <3> QED
      BY <3>1, <3>2, Zenon DEF Checked
  <2>3. Check(bytes, n).error = "none"
    BY <1>4
  <2> QED
    BY <2>1, <2>2, <2>3
<1> HIDE DEF h, k
<1>6. h.error = "none" /\ h.header = k + 1 /\ h.remaining = n
  BY <1>4, <1>5
<1>7. Len(bytes) = h.header + h.remaining
  <2>1. Len(bytes) = 1 + k + n /\ k \in 1..4
    BY <1>2, <1>3 DEF k
  <2> QED
    BY <1>6, <2>1
<1> QED
  BY <1>1, <1>6, <1>7, Zenon DEF OneFrame, h

-----------------------------------------------------------------------------
(* The front of a stream that begins with the frame f, of which the bytes d *)
(* have arrived: the header is known as soon as its bytes are there.       *)
HeaderSize(f) == IF ParseFixedHeader(f).error = "none" THEN ParseFixedHeader(f).header ELSE 5

HeaderKnown(f, d) ==
    ParseFixedHeader(d) = IF Len(d) >= HeaderSize(f) THEN ParseFixedHeader(f) ELSE NeedMoreData(1)

FrameShape(f) ==
    /\ HeaderSize(f) \in 2..5 /\ HeaderSize(f) <= Len(f)
    /\ ParseFixedHeader(f).error = "none" =>
          /\ ParseFixedHeader(f).header = HeaderSize(f)
          /\ ParseFixedHeader(f).remaining \in Nat
          /\ Len(f) = HeaderSize(f) + ParseFixedHeader(f).remaining
    /\ ParseFixedHeader(f).error # "none" =>
          /\ ParseFixedHeader(f).error = "MalformedRemainingLength"
          /\ HeaderSize(f) = 5 /\ Len(f) = 5

(* The header of a frame is no longer than the frame. *)
LEMMA ShapeOfFrame ==
    ASSUME NEW f \in Seq(Byte), OneFrame(f)
    PROVE  FrameShape(f)
<1>1. (\E k, n \in Nat : Measured(f, k, n)) \/ Endless(f)
  BY FrameKindsOf, Zenon
<1> DEFINE h == ParseFixedHeader(f)
<1>2. CASE \E k, n \in Nat : Measured(f, k, n)
  <2>1. PICK k \in Nat, n \in Nat : Measured(f, k, n)
    BY <1>2
  <2>2. /\ k \in 1..4 /\ Len(f) = 1 + k + n
        /\ h = [error |-> "none", byte1 |-> f[1], header |-> k + 1, remaining |-> n]
    BY <2>1, Zenon DEF Measured
  <2>3. h.error = "none" /\ h.header = k + 1 /\ h.remaining = n
    BY <2>2
  <2> HIDE DEF h
  <2>4. HeaderSize(f) = k + 1
    BY <2>3 DEF HeaderSize, h
  <2>5. k + 1 \in 2..5 /\ k + 1 <= Len(f) /\ Len(f) = (k + 1) + n
    BY <2>2
  <2> QED
    BY <2>3, <2>4, <2>5, Zenon DEF FrameShape, h
<1>3. CASE Endless(f)
  <2>1. h.error = "MalformedRemainingLength" /\ Len(f) = 5
    BY <1>3 DEF Endless, Err
  <2> HIDE DEF h
  <2>2. HeaderSize(f) = 5 /\ h.error # "none"
    BY <2>1 DEF HeaderSize, h
  <2>3. 5 \in 2..5 /\ 5 <= 5
    OBVIOUS
  <2> QED
    BY <2>1, <2>2, <2>3, Zenon DEF FrameShape, h
<1> QED
  BY <1>1, <1>2, <1>3

(* Sequences that begin alike go on alike. *)
LEMMA TailsAlike ==
    ASSUME NEW f \in Seq(Byte), NEW d \in Seq(Byte), SameBytes(d, f), Len(d) >= 2, Len(f) >= 2
    PROVE  /\ Tail(d) \in Seq(Byte) /\ Tail(f) \in Seq(Byte)
           /\ Len(Tail(d)) = Len(d) - 1 /\ Len(Tail(f)) = Len(f) - 1
           /\ SameBytes(Tail(d), Tail(f))
           /\ d[1] = f[1]
<1>1. /\ Tail(d) \in Seq(Byte) /\ Tail(f) \in Seq(Byte)
      /\ Len(Tail(d)) = Len(d) - 1 /\ Len(Tail(f)) = Len(f) - 1
  OBVIOUS
<1>2. \A i \in 1..(Len(d) - 1) : Tail(d)[i] = d[i + 1]
  OBVIOUS
<1>3. \A i \in 1..(Len(f) - 1) : Tail(f)[i] = f[i + 1]
  OBVIOUS
<1>4. SameBytes(Tail(d), Tail(f))
  <2> SUFFICES ASSUME NEW i \in 1..Len(Tail(d)), i <= Len(Tail(f))
               PROVE  Tail(d)[i] = Tail(f)[i]
    BY DEF SameBytes
  <2>1. /\ i \in 1..(Len(d) - 1) /\ i \in 1..(Len(f) - 1)
        /\ i + 1 \in 1..Len(d) /\ i + 1 <= Len(f)
    BY <1>1
  <2>2. d[i + 1] = f[i + 1]
    BY <2>1 DEF SameBytes
  <2> QED
    BY <1>2, <1>3, <2>1, <2>2
<1>5. d[1] = f[1]
  <2>1. 1 \in 1..Len(d) /\ 1 <= Len(f)
    OBVIOUS
  <2> QED
    BY <2>1 DEF SameBytes
<1> QED
  BY <1>1, <1>4, <1>5

(* parse_fixed_header of a part of a frame: the frame's header, or one     *)
(* byte more is wanted.                                                    *)
LEMMA HeaderAtFront ==
    ASSUME NEW f \in Seq(Byte), OneFrame(f), NEW d \in Seq(Byte), d # << >>, SameBytes(d, f)
    PROVE  HeaderKnown(f, d)
<1>1. (\E k, n \in Nat : Measured(f, k, n)) \/ Endless(f)
  BY FrameKindsOf, Zenon
<1>2. FrameShape(f)
  BY ShapeOfFrame, Zenon
<1>3. HeaderSize(f) \in 2..5 /\ HeaderSize(f) <= Len(f) /\ Len(f) >= 2
  BY <1>2 DEF FrameShape
<1>4. Len(d) \in Nat /\ Len(d) >= 1
  OBVIOUS
<1>5. CASE Len(d) < 2
  <2>1. ParseFixedHeader(d) = NeedMoreData(2 - Len(d))
    BY <1>5 DEF ParseFixedHeader
  <2>2. 2 - Len(d) = 1 /\ ~(Len(d) >= HeaderSize(f))
    BY <1>3, <1>4, <1>5
  <2> QED
    BY <2>1, <2>2, Zenon DEF HeaderKnown
<1>6. CASE ~(Len(d) < 2)
  <2>0. Len(d) >= 2
    BY <1>4, <1>6
  <2>1. /\ Tail(d) \in Seq(Byte) /\ Tail(f) \in Seq(Byte)
        /\ Len(Tail(d)) = Len(d) - 1 /\ Len(Tail(f)) = Len(f) - 1
        /\ SameBytes(Tail(d), Tail(f))
        /\ d[1] = f[1]
    BY <1>3, <2>0, TailsAlike, Zenon
  <2>2. ParseFixedHeader(d) = FixedHeader(d[1], DecodeLength(Tail(d)))
    BY <1>6, Zenon DEF ParseFixedHeader
  <2>3. \A m : FixedHeader(d[1], NeedMoreData(m)) = NeedMoreData(m)
    <3>1. \A m : NeedMoreData(m).error # "none"
      BY DEF NeedMoreData
    <3> QED
      BY <3>1, Zenon DEF FixedHeader
  <2>4. CASE \E k, n \in Nat : Measured(f, k, n)
    <3>1. PICK k \in Nat, n \in Nat : Measured(f, k, n)
      BY <2>4
    <3>2. /\ k \in 1..4
          /\ EndsAt(Tail(f), k) /\ LengthValue(Tail(f), k) = n
          /\ ParseFixedHeader(f) = [error |-> "none", byte1 |-> f[1], header |-> k + 1, remaining |-> n]
      BY <3>1, Zenon DEF Measured
    <3>3. HeaderSize(f) = k + 1
      <4>1. ParseFixedHeader(f).error = "none" /\ ParseFixedHeader(f).header = k + 1
        BY <3>2
      <4> QED
        BY <4>1 DEF HeaderSize
    <3>4. /\ k <= Len(Tail(d)) =>
               DecodeLength(Tail(d)) = [error |-> "none", len_len |-> k, len |-> LengthValue(Tail(f), k)]
          /\ Len(Tail(d)) < k => DecodeLength(Tail(d)) = NeedMoreData(1)
      BY <2>1, <3>2, DecodePart, Zenon
    <3>5. CASE Len(d) >= k + 1
      <4>1. k <= Len(Tail(d))
        BY <2>1, <3>2, <3>5
      <4>2. DecodeLength(Tail(d)) = [error |-> "none", len_len |-> k, len |-> n]
        BY <3>2, <3>4, <4>1, Zenon
      <4>3. FixedHeader(d[1], [error |-> "none", len_len |-> k, len |-> n])
              = [error |-> "none", byte1 |-> d[1], header |-> k + 1, remaining |-> n]
        BY DEF FixedHeader
      <4>4. ParseFixedHeader(d) = ParseFixedHeader(f)
        BY <2>1, <2>2, <3>2, <4>2, <4>3, Zenon
      <4> QED
        BY <3>3, <3>5, <4>4, Zenon DEF HeaderKnown
    <3>6. CASE ~(Len(d) >= k + 1)
      <4>1. Len(Tail(d)) < k
        BY <1>4, <2>1, <3>2, <3>6
      <4>2. ParseFixedHeader(d) = NeedMoreData(1)
        BY <2>2, <2>3, <3>4, <4>1, Zenon
      <4> QED
        BY <3>3, <3>6, <4>2, Zenon DEF HeaderKnown
    <3> QED
      BY <3>5, <3>6
  <2>5. CASE Endless(f)
    <3>1. /\ Len(f) = 5
          /\ \A j \in 1..4 : ~EndsAt(Tail(f), j)
          /\ ParseFixedHeader(f) = Err("MalformedRemainingLength")
      BY <2>5, Zenon DEF Endless
    <3>2. Err("MalformedRemainingLength").error # "none"
      BY DEF Err
    <3>3. HeaderSize(f) = 5
      BY <3>1, <3>2, Zenon DEF HeaderSize
    <3>4. Len(Tail(f)) = 4
      BY <2>1, <3>1
    <3>5. /\ 4 <= Len(Tail(d)) => DecodeLength(Tail(d)) = Err("MalformedRemainingLength")
          /\ Len(Tail(d)) < 4 => DecodeLength(Tail(d)) = NeedMoreData(1)
      BY <2>1, <3>1, <3>4, DecodeEndless, Zenon
    <3>6. CASE Len(d) >= 5
      <4>1. 4 <= Len(Tail(d))
        BY <2>1, <3>6
      <4>2. ParseFixedHeader(d) = Err("MalformedRemainingLength")
        BY <2>2, <3>2, <3>5, <4>1, Zenon DEF FixedHeader
      <4> QED
        BY <3>1, <3>3, <3>6, <4>2, Zenon DEF HeaderKnown
    <3>7. CASE ~(Len(d) >= 5)
      <4>1. Len(Tail(d)) < 4
        BY <1>4, <2>1, <3>7
      <4>2. ParseFixedHeader(d) = NeedMoreData(1)
        BY <2>2, <2>3, <3>5, <4>1, Zenon
      <4> QED
        BY <3>3, <3>7, <4>2, Zenon DEF HeaderKnown
    <3> QED
      BY <3>6, <3>7
  <2> QED
    BY <1>1, <2>4, <2>5
<1> QED
  BY <1>5, <1>6

-----------------------------------------------------------------------------
(* What Packet::read makes of d, by what there is of the frame f. *)
ExactOf(f) == ReadExact(ParseFixedHeader(f).byte1, ParseFixedHeader(f).remaining, f, HeaderSize(f))

Within(f, max) == ParseFixedHeader(f).error = "none" /\ ~(ParseFixedHeader(f).remaining > max)

ReadsFront(f, d, max, r) ==
    \/ Len(d) < HeaderSize(f) /\ r = NeedMoreData(1)
    \/ Len(d) >= HeaderSize(f) /\ ~Within(f, max)
       /\ r.error \in {"MalformedRemainingLength", "PayloadSizeLimitExceeded"}
    \/ Within(f, max) /\ Len(d) >= HeaderSize(f) /\ Len(d) < Len(f) /\ r = NeedMoreData(Len(f) - Len(d))
    \/ Within(f, max) /\ Len(d) >= Len(f) /\ r = Taking(ExactOf(f), Len(f))

(* The bytes taken off the front are the frame. *)
LEMMA FrontIsFrame ==
    ASSUME NEW f \in Seq(Byte), NEW d \in Seq(Byte), SameBytes(d, f), Len(d) >= Len(f)
    PROVE  SubSeq(d, 1, Len(f)) = f
<1>1. SubSeq(d, 1, Len(f)) \in Seq(Byte) /\ Len(SubSeq(d, 1, Len(f))) = Len(f)
  OBVIOUS
<1>2. \A i \in 1..Len(f) : SubSeq(d, 1, Len(f))[i] = d[i]
  OBVIOUS
<1>3. \A i \in 1..Len(f) : i \in 1..Len(d) /\ d[i] = f[i]
  BY DEF SameBytes
<1> QED
  BY <1>1, <1>2, <1>3

(* check when bytes of the body are missing. *)
LEMMA CheckedShort ==
    ASSUME NEW h, NEW size \in Nat, NEW max \in Nat, h.error = "none", ~(h.remaining > max),
           h.header \in Nat, h.remaining \in Nat, size < h.header + h.remaining
    PROVE  Checked(h, size, max) = NeedMoreData((h.header + h.remaining) - size)
BY SMT DEF Checked

(* Packet::read: it waits, refuses the header, or reads the frame and      *)
(* nothing else.                                                           *)
LEMMA ReadAtFront ==
    ASSUME NEW f \in Seq(Byte), OneFrame(f), NEW d \in Seq(Byte), d # << >>, SameBytes(d, f),
           NEW max \in Nat
    PROVE  ReadsFront(f, d, max, Read(d, max))
<1> DEFINE h == ParseFixedHeader(f)
           r == Read(d, max)
<1>1. HeaderKnown(f, d) /\ FrameShape(f)
  BY HeaderAtFront, ShapeOfFrame, Zenon
<1>2. HeaderSize(f) \in 2..5 /\ HeaderSize(f) <= Len(f) /\ Len(d) \in Nat /\ Len(f) \in Nat
  BY <1>1 DEF FrameShape
<1>3. r = ReadFrame(d, Checked(ParseFixedHeader(d), Len(d), max))
  BY Zenon DEF Read, Check
<1>4. \A e : e.error # "none" => ReadFrame(d, e) = e
  BY Zenon DEF ReadFrame
<1>5. \A m : NeedMoreData(m).error # "none"
  BY DEF NeedMoreData
<1>6. CASE ~(Len(d) >= HeaderSize(f))
  <2>1. ParseFixedHeader(d) = NeedMoreData(1)
    BY <1>1, <1>6, Zenon DEF HeaderKnown
  <2>2. Checked(NeedMoreData(1), Len(d), max) = NeedMoreData(1)
    BY <1>5, Zenon DEF Checked
  <2>3. r = NeedMoreData(1)
    BY <1>3, <1>4, <1>5, <2>1, <2>2, Zenon
  <2>4. Len(d) < HeaderSize(f)
    BY <1>2, <1>6
  <2> QED
    BY <2>3, <2>4, Zenon DEF ReadsFront
<1>7. CASE Len(d) >= HeaderSize(f)
  <2>1. ParseFixedHeader(d) = h
    BY <1>1, <1>7, Zenon DEF HeaderKnown
  <2>2. r = ReadFrame(d, Checked(h, Len(d), max))
    BY <1>3, <2>1, Zenon
  <2>3. CASE h.error # "none"
    <3>1. r = h
      BY <1>4, <2>2, <2>3, Zenon DEF Checked
    <3>2. h.error = "MalformedRemainingLength"
      BY <1>1, <2>3, Zenon DEF FrameShape
    <3>3. ~Within(f, max)
      BY <2>3, Zenon DEF Within
    <3> QED
      BY <1>7, <3>1, <3>2, <3>3, Zenon DEF ReadsFront
  <2>4. CASE h.error = "none" /\ h.remaining > max
    <3>1. Err("PayloadSizeLimitExceeded").error = "PayloadSizeLimitExceeded"
      BY DEF Err
    <3>2. Err("PayloadSizeLimitExceeded").error # "none"
      BY DEF Err
    <3>3. Checked(h, Len(d), max) = Err("PayloadSizeLimitExceeded")
      BY <2>4, Zenon DEF Checked
    <3>4. r = Err("PayloadSizeLimitExceeded")
      BY <1>4, <2>2, <3>2, <3>3, Zenon
    <3>5. ~Within(f, max)
      BY <2>4, Zenon DEF Within
    <3> QED
      BY <1>7, <3>1, <3>4, <3>5, Zenon DEF ReadsFront
  <2>5. CASE h.error = "none" /\ ~(h.remaining > max)
    <3>1. Within(f, max)
      BY <2>5, Zenon DEF Within
    <3>2. h.header = HeaderSize(f) /\ h.remaining \in Nat /\ Len(f) = HeaderSize(f) + h.remaining
      BY <1>1, <2>5, Zenon DEF FrameShape
    <3>3. h.header + h.remaining = Len(f)
      BY <3>2, Zenon
    <3>4. CASE Len(d) < Len(f)
      <4>1. Checked(h, Len(d), max) = NeedMoreData(Len(f) - Len(d))
        <5>1. Len(d) < h.header + h.remaining
          BY <3>3, <3>4, Zenon
        <5>2. h.header \in Nat
          BY <1>2, <3>2
        <5>3. Checked(h, Len(d), max) = NeedMoreData((h.header + h.remaining) - Len(d))
          <6> HIDE DEF h
          <6> QED
            BY <1>2, <2>5, <3>2, <5>1, <5>2, CheckedShort, Zenon
        <5> QED
          BY <3>3, <5>3, Zenon
      <4>2. r = NeedMoreData(Len(f) - Len(d))
        BY <1>4, <1>5, <2>2, <4>1, Zenon
      <4> QED
        BY <1>7, <3>1, <3>4, <4>2, Zenon DEF ReadsFront
    <3>5. CASE ~(Len(d) < Len(f))
      <4>1. Checked(h, Len(d), max) = h
        BY <2>5, <3>3, <3>5, Zenon DEF Checked
      <4>2. ReadFrame(d, h) = Taking(ReadExact(h.byte1, h.remaining, SubSeq(d, 1, h.header + h.remaining), h.header),
                                     h.header + h.remaining)
        BY <2>5, Zenon DEF ReadFrame
      <4>3. Len(d) >= Len(f)
        BY <1>2, <3>5
      <4>4. SubSeq(d, 1, Len(f)) = f
        BY <4>3, FrontIsFrame, Zenon
      <4>5. r = Taking(ExactOf(f), Len(f))
        BY <2>2, <3>2, <3>3, <4>1, <4>2, <4>4, Zenon DEF ExactOf
      <4> QED
        BY <3>1, <4>3, <4>5, Zenon DEF ReadsFront
    <3> QED
      BY <3>4, <3>5
  <2> QED
    BY <2>3, <2>4, <2>5
<1> QED
  BY <1>6, <1>7

(* What a caller of read is told, by the frame at the front. *)
ReadsAsItShould(f, d, r) ==
    /\ r.error = "none" => r.taken = Len(f) /\ Len(f) <= Len(d)
                           /\ r.packet.type \in ToSet(PacketTypes)
    /\ r.error = "NeedMoreData" => r.missing \in Nat /\ Len(d) + r.missing <= Len(f)

(* What is taken is the frame; what is asked for is of the frame. *)
LEMMA ReadTells ==
    ASSUME NEW f \in Seq(Byte), OneFrame(f), NEW d \in Seq(Byte), d # << >>, SameBytes(d, f),
           NEW max \in Nat
    PROVE  ReadsAsItShould(f, d, Read(d, max))
<1> DEFINE r == Read(d, max)
           x == ExactOf(f)
<1>1. ReadsFront(f, d, max, r)
  BY ReadAtFront, Zenon
<1>2. FrameShape(f)
  BY ShapeOfFrame, Zenon
<1>3. HeaderSize(f) \in 2..5 /\ HeaderSize(f) <= Len(f) /\ Len(d) \in Nat /\ Len(f) \in Nat
  BY <1>2 DEF FrameShape
<1>4. ReadOutcome(x)
  <2>1. HeaderSize(f) \in 0..Len(f)
    BY <1>3
  <2> QED
    BY <2>1, WholeFrameDecides, Zenon DEF ExactOf
<1>5. \A m : NeedMoreData(m).error = "NeedMoreData" /\ NeedMoreData(m).missing = m
  BY DEF NeedMoreData
<1>6. ASSUME NEW m \in Nat, Len(d) + m <= Len(f), r = NeedMoreData(m)
      PROVE  ReadsAsItShould(f, d, r)
  <2>1. r.error = "NeedMoreData" /\ r.missing = m
    BY <1>5, <1>6, Zenon
  <2> HIDE DEF r
  <2> QED
    BY <1>6, <2>1 DEF ReadsAsItShould
<1>7. CASE Len(d) < HeaderSize(f) /\ r = NeedMoreData(1)
  <2>1. 1 \in Nat /\ Len(d) + 1 <= Len(f)
    BY <1>3, <1>7
  <2> QED
    BY <1>6, <1>7, <2>1, Zenon
<1>8. CASE r.error \in {"MalformedRemainingLength", "PayloadSizeLimitExceeded"}
  <2>1. ReadsAsItShould(f, d, r)
    <3> HIDE DEF r
    <3> QED
      BY <1>8 DEF ReadsAsItShould
  <2> QED
    BY <2>1, Zenon
<1>9. CASE Len(d) < Len(f) /\ r = NeedMoreData(Len(f) - Len(d))
  <2>1. Len(f) - Len(d) \in Nat /\ Len(d) + (Len(f) - Len(d)) <= Len(f)
    BY <1>3, <1>9
  <2> QED
    BY <1>6, <1>9, <2>1, Zenon
<1>10. CASE Len(d) >= Len(f) /\ r = Taking(x, Len(f))
  <2>1. CASE x.error = "none"
    <3>1. r = [error |-> "none", packet |-> x.packet, taken |-> Len(f)]
      BY <1>10, <2>1, Zenon DEF Taking
    <3>2. r.error = "none" /\ r.packet = x.packet /\ r.taken = Len(f)
      BY <3>1
    <3>3. x.packet.type \in ToSet(PacketTypes)
      <4>1. "none" \notin ReadErrors
        BY DEF ReadErrors, FieldErrors
      <4> QED
        BY <1>4, <2>1, <4>1, Zenon DEF ReadOutcome
    <3>4. Len(f) <= Len(d)
      BY <1>3, <1>10
    <3>5. ReadsAsItShould(f, d, r)
      <4> HIDE DEF r, x
      <4> QED
        BY <3>2, <3>3, <3>4 DEF ReadsAsItShould
    <3> QED
      BY <3>5, Zenon
  <2>2. CASE x.error # "none"
    <3>1. r = x
      BY <1>10, <2>2, Zenon DEF Taking
    <3>2. x.error \in ReadErrors
      BY <1>4, <2>2, Zenon DEF ReadOutcome
    <3>3. x.error # "NeedMoreData"
      <4> HIDE DEF x
      <4> QED
        BY <3>2 DEF ReadErrors, FieldErrors
    <3> QED
      BY <2>2, <3>1, <3>3, Zenon DEF ReadsAsItShould
  <2> QED
    BY <2>1, <2>2
<1> QED
  BY <1>1, <1>7, <1>8, <1>9, <1>10, Zenon DEF ReadsFront

-----------------------------------------------------------------------------
(* The stream s is the frames of q behind the first n, one after the other: *)
(* at[i] is where frame i ends.                                            *)
Cuts(s, q, n, at) ==
    /\ at \in [n..Len(q) -> Nat]
    /\ at[n] = 0
    /\ at[Len(q)] = Len(s)
    /\ \A i, j \in n..Len(q) : i <= j => at[i] <= at[j]
    /\ \A i \in (n + 1)..Len(q) :
          /\ at[i] = at[i - 1] + Len(q[i].frame)
          /\ \A j \in 1..Len(q[i].frame) : s[at[i - 1] + j] = q[i].frame[j]

StreamOf(s, q, n) == \E at : Cuts(s, q, n, at)

SentSet ==
    [frame : {bytes \in Seq(Byte) : OneFrame(bytes)}, packet : {o \in Seq(Packets) : Len(o) <= 1}]

(* Whatever was sent is a frame. *)
LEMMA FrameInSeq ==
    ASSUME NEW q \in Seq(SentSet), NEW i \in 1..Len(q)
    PROVE  /\ q[i].frame \in Seq(Byte) /\ OneFrame(q[i].frame)
           /\ Len(q[i].frame) \in Nat /\ Len(q[i].frame) >= 2
<1>1. q[i] \in SentSet
  OBVIOUS
<1>2. q[i].frame \in {bytes \in Seq(Byte) : OneFrame(bytes)}
  BY <1>1, Zenon DEF SentSet
<1> DEFINE f == q[i].frame
<1>3. f \in Seq(Byte) /\ OneFrame(f)
  BY <1>2
<1> HIDE DEF f
<1>4. FrameShape(f)
  BY <1>3, ShapeOfFrame, Zenon
<1>5. Len(f) \in Nat /\ HeaderSize(f) \in 2..5 /\ HeaderSize(f) <= Len(f)
  BY <1>3, <1>4 DEF FrameShape
<1>6. Len(f) >= 2
  BY <1>5
<1> QED
  BY <1>3, <1>5, <1>6 DEF f

(* A place in a piece is a place in the stream the piece lies in. *)
LEMMA PlaceInStream ==
    ASSUME NEW a \in Nat, NEW l \in Nat, NEW j \in 1..l, NEW z, z = a + l, NEW n \in Nat, z <= n
    PROVE  a + j \in 1..n
OBVIOUS

(* A frame more at the end. *)
LEMMA StreamGrows ==
    ASSUME NEW q \in Seq(SentSet), NEW s \in Seq(Byte), NEW n \in 0..Len(q), StreamOf(s, q, n),
           NEW e \in SentSet
    PROVE  StreamOf(s \o e.frame, Append(q, e), n)
<1> DEFINE m == Len(q)
           f == e.frame
           p == Append(q, e)
           t == s \o f
<1>1. PICK at : Cuts(s, q, n, at)
  BY DEF StreamOf
<1>2. f \in Seq(Byte) /\ Len(f) \in Nat /\ Len(s) \in Nat
  <2>1. f \in {bytes \in Seq(Byte) : OneFrame(bytes)}
    BY Zenon DEF SentSet
  <2> HIDE DEF f
  <2> QED
    BY <2>1
<1>3. /\ p \in Seq(SentSet) /\ Len(p) = m + 1 /\ p[m + 1] = e
      /\ \A i \in 1..m : p[i] = q[i]
  OBVIOUS
<1>4. /\ t \in Seq(Byte) /\ Len(t) = Len(s) + Len(f)
      /\ \A i \in 1..Len(s) : t[i] = s[i]
      /\ \A i \in 1..Len(f) : t[Len(s) + i] = f[i]
  BY <1>2, ConcatPlaces, Zenon
<1>5. m \in Nat /\ n \in Nat /\ n <= m
  OBVIOUS
<1> DEFINE to == [i \in n..(m + 1) |-> IF i = m + 1 THEN Len(t) ELSE at[i]]
<1>6. /\ at \in [n..m -> Nat] /\ at[n] = 0 /\ at[m] = Len(s)
      /\ \A i, j \in n..m : i <= j => at[i] <= at[j]
  BY <1>1, Zenon DEF Cuts
<1> HIDE DEF f, p, t, m
<1>7. to[m + 1] = Len(t) /\ \A i \in n..m : to[i] = at[i]
  <2>1. m + 1 \in n..(m + 1) /\ \A i \in n..m : i \in n..(m + 1) /\ i # m + 1
    BY <1>5
  <2> QED
    BY <2>1
<1>8. to \in [n..(m + 1) -> Nat]
  <2>1. \A i \in n..(m + 1) : i = m + 1 \/ i \in n..m
    BY <1>5
  <2>2. Len(t) \in Nat
    BY <1>4
  <2> QED
    BY <1>6, <2>1, <2>2
<1> HIDE DEF to
<1>9. to[n] = 0
  <2>1. n \in n..m
    BY <1>5
  <2> QED
    BY <1>6, <1>7, <2>1
<1>10. ASSUME NEW i \in n..(m + 1), NEW j \in n..(m + 1), i <= j
       PROVE  to[i] <= to[j]
  <2>1. CASE j \in n..m
    <3>1. i \in n..m
      BY <1>5, <1>10, <2>1
    <3> QED
      BY <1>6, <1>7, <1>10, <2>1, <3>1
  <2>2. CASE j = m + 1 /\ i = m + 1
    BY <1>4, <1>7, <2>2
  <2>3. CASE j = m + 1 /\ i \in n..m
    <3>1. m \in n..m /\ i <= m
      BY <1>5, <2>3
    <3>2. at[i] <= Len(s) /\ at[i] \in Nat
      BY <1>6, <2>3, <3>1
    <3>3. to[i] = at[i] /\ to[j] = Len(s) + Len(f)
      BY <1>4, <1>7, <2>3
    <3> QED
      BY <1>2, <3>2, <3>3
  <2> QED
    BY <1>5, <2>1, <2>2, <2>3
<1>11. ASSUME NEW i \in (n + 1)..(m + 1)
       PROVE  /\ to[i] = to[i - 1] + Len(p[i].frame)
              /\ \A j \in 1..Len(p[i].frame) : t[to[i - 1] + j] = p[i].frame[j]
  <2>1. CASE i = m + 1
    <3>1. i - 1 = m /\ m \in n..m
      BY <1>5, <2>1
    <3>2. to[i - 1] = Len(s) /\ to[i] = Len(s) + Len(f)
      BY <1>4, <1>6, <1>7, <2>1, <3>1
    <3>3. p[i].frame = f
      BY <1>3, <2>1, Zenon DEF f
    <3> QED
      BY <1>4, <3>2, <3>3, Zenon
  <2>2. CASE i \in (n + 1)..m
    <3>1. i - 1 \in n..m /\ i \in n..m /\ i \in 1..m /\ i \in 1..Len(q)
      BY <1>5, <2>2 DEF m
    <3>2. to[i - 1] = at[i - 1] /\ to[i] = at[i] /\ p[i] = q[i]
      BY <1>3, <1>7, <3>1
    <3>3. /\ at[i] = at[i - 1] + Len(q[i].frame)
          /\ \A j \in 1..Len(q[i].frame) : s[at[i - 1] + j] = q[i].frame[j]
      BY <1>1, <2>2, Zenon DEF Cuts, m
    <3>4. at[i] <= Len(s) /\ at[i - 1] \in Nat /\ Len(q[i].frame) \in Nat
      <4>1. m \in n..m /\ i <= m
        BY <1>5, <2>2
      <4> QED
        BY <1>6, <3>1, <4>1, FrameInSeq
    <3>5. ASSUME NEW j \in 1..Len(q[i].frame)
          PROVE  t[at[i - 1] + j] = s[at[i - 1] + j]
      <4>1. at[i - 1] + j \in 1..Len(s)
        <5>1. Len(s) \in Nat /\ at[i] = at[i - 1] + Len(q[i].frame)
          BY <1>2, <3>3, Zenon
        <5> QED
          BY <3>4, <5>1, PlaceInStream, Zenon
      <4> QED
        BY <1>4, <4>1
    <3> QED
      BY <3>2, <3>3, <3>5
  <2>3. i = m + 1 \/ i \in (n + 1)..m
    BY <1>5
  <2> QED
    BY <2>1, <2>2, <2>3
<1>12. Cuts(t, p, n, to)
  <2>1. Len(p) = m + 1
    BY <1>3
  <2> QED
    BY <1>7, <1>8, <1>9, <1>10, <1>11, <2>1, ZenonT(60) DEF Cuts
<1> QED
  BY <1>12, Zenon DEF StreamOf, t, p, f

(* The first frame is taken off. *)
LEMMA StreamShrinks ==
    ASSUME NEW q \in Seq(SentSet), NEW s \in Seq(Byte), NEW n \in 0..Len(q), n < Len(q),
           StreamOf(s, q, n)
    PROVE  StreamOf(SubSeq(s, Len(q[n + 1].frame) + 1, Len(s)), q, n + 1)
<1> DEFINE m == Len(q)
           c == Len(q[n + 1].frame)
           t == SubSeq(s, c + 1, Len(s))
<1>1. PICK at : Cuts(s, q, n, at)
  BY DEF StreamOf
<1>2. m \in Nat /\ n \in Nat /\ n < m /\ Len(s) \in Nat
  OBVIOUS
<1>3. c \in Nat
  <2>1. n + 1 \in 1..Len(q)
    BY <1>2
  <2> QED
    BY <2>1, FrameInSeq, Zenon
<1>4. /\ at \in [n..m -> Nat] /\ at[n] = 0 /\ at[m] = Len(s)
      /\ \A i, j \in n..m : i <= j => at[i] <= at[j]
      /\ \A i \in (n + 1)..m :
          /\ at[i] = at[i - 1] + Len(q[i].frame)
          /\ \A j \in 1..Len(q[i].frame) : s[at[i - 1] + j] = q[i].frame[j]
  BY <1>1, Zenon DEF Cuts
<1>5. at[n + 1] = c
  <2>1. n + 1 \in (n + 1)..m /\ (n + 1) - 1 = n
    BY <1>2
  <2>2. at[n + 1] = at[n] + c
    BY <1>4, <2>1, Zenon
  <2> HIDE DEF c
  <2> QED
    BY <1>3, <1>4, <2>2
<1> HIDE DEF m, c
<1>6. \A i \in (n + 1)..m : at[i] \in Nat /\ c <= at[i] /\ at[i] <= Len(s)
  <2>1. n + 1 \in n..m /\ m \in n..m /\ \A i \in (n + 1)..m : i \in n..m /\ n + 1 <= i /\ i <= m
    BY <1>2
  <2> QED
    BY <1>4, <1>5, <2>1, SMTT(60)
<1>7. /\ t \in Seq(Byte) /\ Len(t) = Len(s) - c
      /\ \A i \in 1..(Len(s) - c) : t[i] = s[c + i]
  <2>1. m \in (n + 1)..m
    BY <1>2
  <2>2. c <= Len(s)
    BY <1>4, <1>6, <2>1
  <2> QED
    BY <1>2, <1>3, <2>2
<1> HIDE DEF t
<1> DEFINE to == [i \in (n + 1)..m |-> at[i] - c]
<1>8. to \in [(n + 1)..m -> Nat]
  <2>1. \A i \in (n + 1)..m : at[i] - c \in Nat
    BY <1>3, <1>6
  <2> QED
    BY <2>1
<1>9. \A i \in (n + 1)..m : to[i] = at[i] - c
  OBVIOUS
<1> HIDE DEF to
<1>10. to[n + 1] = 0 /\ to[m] = Len(t)
  <2>1. n + 1 \in (n + 1)..m /\ m \in (n + 1)..m
    BY <1>2
  <2> QED
    BY <1>3, <1>4, <1>5, <1>7, <1>9, <2>1
<1>11. ASSUME NEW i \in (n + 1)..m, NEW j \in (n + 1)..m, i <= j
       PROVE  to[i] <= to[j]
  <2>1. i \in n..m /\ j \in n..m
    BY <1>2
  <2>2. at[i] <= at[j] /\ at[i] \in Nat /\ at[j] \in Nat
    BY <1>4, <1>11, <2>1
  <2> QED
    BY <1>3, <1>9, <2>2
<1>12. ASSUME NEW i \in ((n + 1) + 1)..m
       PROVE  /\ to[i] = to[i - 1] + Len(q[i].frame)
              /\ \A j \in 1..Len(q[i].frame) : t[to[i - 1] + j] = q[i].frame[j]
  <2>1. i \in (n + 1)..m /\ i - 1 \in (n + 1)..m /\ i \in 1..Len(q)
    BY <1>2 DEF m
  <2>2. /\ at[i] = at[i - 1] + Len(q[i].frame)
        /\ \A j \in 1..Len(q[i].frame) : s[at[i - 1] + j] = q[i].frame[j]
    BY <1>4, <2>1, Zenon
  <2>3. /\ at[i] \in Nat /\ at[i - 1] \in Nat /\ c <= at[i - 1] /\ at[i] <= Len(s)
        /\ Len(q[i].frame) \in Nat
    BY <1>6, <2>1, FrameInSeq
  <2>4. to[i] = at[i] - c /\ to[i - 1] = at[i - 1] - c
    BY <1>9, <2>1
  <2>5. to[i] = to[i - 1] + Len(q[i].frame)
    BY <1>3, <2>2, <2>3, <2>4, SMTT(60)
  <2>6. ASSUME NEW j \in 1..Len(q[i].frame)
        PROVE  t[to[i - 1] + j] = q[i].frame[j]
    <3>1. /\ to[i - 1] + j \in 1..(Len(s) - c)
          /\ c + (to[i - 1] + j) = at[i - 1] + j
      <4>1. PICK a \in Nat, y \in Nat, z \in Nat :
                a = at[i - 1] /\ y = at[i] /\ z = Len(q[i].frame)
        BY <2>3
      <4>2. y = a + z /\ c <= a /\ y <= Len(s) /\ to[i - 1] = a - c /\ j \in 1..z
        BY <2>2, <2>3, <2>4, <4>1
      <4>3. (a - c) + j \in 1..(Len(s) - c) /\ c + ((a - c) + j) = a + j
        BY <1>2, <1>3, <4>2
      <4> QED
        BY <4>1, <4>2, <4>3, Zenon
    <3>2. t[to[i - 1] + j] = s[at[i - 1] + j]
      BY <1>7, <3>1
    <3> QED
      BY <2>2, <3>2
  <2> QED
    BY <2>5, <2>6
<1>13. Cuts(t, q, n + 1, to)
  BY <1>8, <1>10, <1>11, <1>12, Zenon DEF Cuts, m
<1> QED
  BY <1>13, Zenon DEF StreamOf, t, c

(* While there is something of the stream, a frame is at its front. *)
LEMMA FrameInFront ==
    ASSUME NEW q \in Seq(SentSet), NEW s \in Seq(Byte), NEW n \in 0..Len(q), StreamOf(s, q, n),
           NEW d \in Seq(Byte), d # << >>, Len(d) <= Len(s), \A i \in 1..Len(d) : d[i] = s[i]
    PROVE  /\ n < Len(q)
           /\ q[n + 1].frame \in Seq(Byte) /\ OneFrame(q[n + 1].frame)
           /\ Len(q[n + 1].frame) <= Len(s)
           /\ SameBytes(d, q[n + 1].frame)
<1> DEFINE f == q[n + 1].frame
<1>1. PICK at : Cuts(s, q, n, at)
  BY DEF StreamOf
<1>2. /\ at \in [n..Len(q) -> Nat] /\ at[n] = 0 /\ at[Len(q)] = Len(s)
      /\ \A i, j \in n..Len(q) : i <= j => at[i] <= at[j]
      /\ \A i \in (n + 1)..Len(q) :
          /\ at[i] = at[i - 1] + Len(q[i].frame)
          /\ \A j \in 1..Len(q[i].frame) : s[at[i - 1] + j] = q[i].frame[j]
  BY <1>1, Zenon DEF Cuts
<1>3. n < Len(q)
  <2> SUFFICES ASSUME ~(n < Len(q)) PROVE FALSE
    OBVIOUS
  <2>1. n = Len(q)
    OBVIOUS
  <2>2. Len(s) = 0
    BY <1>2, <2>1
  <2>3. Len(d) > 0
    OBVIOUS
  <2> QED
    BY <2>2, <2>3
<1>4. n + 1 \in 1..Len(q) /\ n + 1 \in (n + 1)..Len(q) /\ (n + 1) - 1 = n
      /\ n + 1 \in n..Len(q) /\ Len(q) \in n..Len(q) /\ n + 1 <= Len(q)
  BY <1>3
<1>5. f \in Seq(Byte) /\ OneFrame(f) /\ Len(f) \in Nat
  BY <1>4, FrameInSeq, Zenon
<1>6. /\ at[n + 1] = at[n] + Len(f)
      /\ \A j \in 1..Len(f) : s[at[n] + j] = f[j]
  <2>1. /\ at[n + 1] = at[(n + 1) - 1] + Len(f)
        /\ \A j \in 1..Len(f) : s[at[(n + 1) - 1] + j] = f[j]
    BY <1>2, <1>4, Zenon
  <2>2. (n + 1) - 1 = n
    OBVIOUS
  <2> HIDE DEF f
  <2> QED
    BY <2>1, <2>2
<1> HIDE DEF f
<1>7. at[n + 1] = Len(f) /\ \A j \in 1..Len(f) : s[j] = f[j]
  <2>1. \A j \in 1..Len(f) : at[n] + j = j
    BY <1>2
  <2> QED
    BY <1>2, <1>5, <1>6, <2>1
<1>8. Len(f) <= Len(s)
  BY <1>2, <1>4, <1>7
<1>9. SameBytes(d, f)
  <2> SUFFICES ASSUME NEW i \in 1..Len(d), i <= Len(f)
               PROVE  d[i] = f[i]
    BY DEF SameBytes
  <2>1. i \in 1..Len(f)
    BY <1>5
  <2> QED
    BY <1>7, <2>1
<1> QED
  BY <1>3, <1>5, <1>8, <1>9 DEF f

-----------------------------------------------------------------------------
(* The inductive invariant: the bytes that arrived and those on their way   *)
(* are the frames that were sent and not read, cut nowhere else, and what  *)
(* a read asked for is of the first of them.                               *)
GotSeq(g) == \E S : g \in Seq(S) /\ \A p \in S : p.type \in ToSet(PacketTypes)

StreamInv ==
    /\ sent \in Seq(SentSet)
    /\ net \in Seq(Byte)
    /\ rx \in Seq(Byte)
    /\ GotSeq(got)
    /\ asked \in Nat
    /\ Len(got) <= Len(sent)
    /\ StreamOf(rx \o net, sent, Len(got))
    /\ AsksWithinFrame

(* What was read is a sequence, and stays one when a packet is added. *)
LEMMA GotLength ==
    ASSUME NEW g, GotSeq(g)
    PROVE  Len(g) \in Nat
<1>1. PICK S : g \in Seq(S)
  BY DEF GotSeq
<1> QED
  BY <1>1

LEMMA GotMore ==
    ASSUME NEW g, GotSeq(g), NEW p, p.type \in ToSet(PacketTypes)
    PROVE  GotSeq(Append(g, p)) /\ Len(Append(g, p)) = Len(g) + 1
<1>1. PICK S : g \in Seq(S) /\ \A x \in S : x.type \in ToSet(PacketTypes)
  BY DEF GotSeq
<1> DEFINE T == S \cup {p}
<1>2. g \in Seq(T)
  BY <1>1
<1>3. Append(g, p) \in Seq(T) /\ Len(Append(g, p)) = Len(g) + 1
  BY <1>2
<1>4. \A x \in T : x.type \in ToSet(PacketTypes)
  BY <1>1
<1> HIDE DEF T
<1> QED
  BY <1>3, <1>4, Zenon DEF GotSeq

LEMMA GotTypes ==
    ASSUME NEW g, GotSeq(g)
    PROVE  \A i \in DOMAIN g : g[i].type \in ToSet(PacketTypes)
<1>1. PICK S : g \in Seq(S) /\ \A x \in S : x.type \in ToSet(PacketTypes)
  BY DEF GotSeq
<1>2. \A i \in DOMAIN g : g[i] \in S
  BY <1>1
<1> QED
  BY <1>1, <1>2

(* The invariant holds at the start and is kept by each action. *)
LEMMA StreamInit == Init => StreamInv
<1> SUFFICES ASSUME Init PROVE StreamInv
  OBVIOUS
<1>1. /\ sent = << >> /\ net = << >> /\ rx = << >> /\ got = << >> /\ asked = 0
  BY DEF Init
<1>2. /\ sent \in Seq(SentSet) /\ net \in Seq(Byte) /\ rx \in Seq(Byte) /\ asked \in Nat
      /\ Len(got) = 0 /\ Len(sent) = 0
  BY <1>1
<1>3. GotSeq(got)
  <2>1. << >> \in Seq({})
    OBVIOUS
  <2> QED
    BY <1>1, <2>1 DEF GotSeq
<1>4. StreamOf(rx \o net, sent, Len(got))
  <2> DEFINE at == [i \in 0..0 |-> 0]
             s == rx \o net
  <2>1. Len(s) = 0
    <3>1. << >> \o << >> = << >>
      OBVIOUS
    <3> QED
      BY <1>1, <3>1
  <2>2. /\ at \in [0..0 -> Nat] /\ at[0] = 0
        /\ \A i, j \in 0..0 : at[i] <= at[j]
        /\ \A i \in (0 + 1)..0 : FALSE
    OBVIOUS
  <2> HIDE DEF s, at
  <2>3. Cuts(s, sent, 0, at)
    BY <1>2, <2>1, <2>2, Zenon DEF Cuts
  <2> QED
    BY <1>2, <2>3, Zenon DEF StreamOf, s
<1>5. AsksWithinFrame
  <2>1. ~(asked > 0)
    BY <1>1
  <2> QED
    BY <2>1 DEF AsksWithinFrame
<1> QED
  BY <1>2, <1>3, <1>4, <1>5 DEF StreamInv

(* A frame is put behind the stream, whoever wrote it. *)
LEMMA TransferKeeps ==
    ASSUME StreamInv, NEW bytes \in Seq(Byte), OneFrame(bytes),
           NEW packet \in Seq(Packets), Len(packet) <= 1, Transfer(bytes, packet)
    PROVE  StreamInv'
<1> DEFINE e == [frame |-> bytes, packet |-> packet]
           n == Len(got)
<1>1. /\ sent' = Append(sent, e) /\ net' = net \o bytes
      /\ UNCHANGED <<rx, got, asked>>
  BY DEF Transfer
<1>2. /\ sent \in Seq(SentSet) /\ net \in Seq(Byte) /\ rx \in Seq(Byte) /\ GotSeq(got)
      /\ asked \in Nat /\ n <= Len(sent) /\ StreamOf(rx \o net, sent, n) /\ AsksWithinFrame
  BY Zenon DEF StreamInv
<1>3. n \in Nat
  BY <1>2, GotLength, Zenon
<1>4. e \in SentSet /\ e.frame = bytes
  BY DEF SentSet
<1> HIDE DEF e, n
<1>5. /\ sent' \in Seq(SentSet) /\ Len(sent') = Len(sent) + 1
      /\ \A i \in 1..Len(sent) : sent'[i] = sent[i]
  BY <1>1, <1>2, <1>4
<1>6. net' \in Seq(Byte)
  BY <1>1, <1>2
<1>7. StreamOf(rx' \o net', sent', n)
  <2>1. n \in 0..Len(sent) /\ rx \o net \in Seq(Byte)
    BY <1>2, <1>3
  <2>2. StreamOf((rx \o net) \o e.frame, Append(sent, e), n)
    BY <1>2, <1>4, <2>1, StreamGrows, Zenon
  <2>3. (rx \o net) \o bytes = rx \o (net \o bytes)
    BY <1>2, BytesAssoc, Zenon
  <2>4. rx' \o net' = (rx \o net) \o e.frame
    BY <1>1, <1>4, <2>3, Zenon
  <2> QED
    BY <1>1, <2>2, <2>4, Zenon
<1>8. AsksWithinFrame'
  <2> SUFFICES ASSUME asked > 0
               PROVE  Len(got) < Len(sent') /\ Len(rx) + asked <= Len(sent'[Len(got) + 1].frame)
    BY <1>1 DEF AsksWithinFrame, AtFrame, Current
  <2>1. Len(got) < Len(sent) /\ Len(rx) + asked <= Len(sent[Len(got) + 1].frame)
    BY <1>2 DEF AsksWithinFrame, AtFrame, Current
  <2>2. Len(got) + 1 \in 1..Len(sent) /\ Len(got) < Len(sent')
    BY <1>2, <1>3, <1>5, <2>1 DEF n
  <2>3. sent'[Len(got) + 1] = sent[Len(got) + 1]
    BY <1>5, <2>2
  <2> QED
    BY <2>1, <2>2, <2>3
<1>9. n <= Len(sent') /\ Len(got') = n
  BY <1>1, <1>2, <1>3, <1>5 DEF n
<1>10. GotSeq(got') /\ asked' \in Nat /\ rx' \in Seq(Byte)
  BY <1>1, <1>2
<1> QED
  BY <1>5, <1>6, <1>7, <1>8, <1>9, <1>10, Zenon DEF StreamInv

(* What the writers make of packets can be sent. *)
LEMMA WrittenFits ==
    ASSUME NEW w \in Written
    PROVE  w.bytes \in Seq(Byte) /\ OneFrame(w.bytes) /\ w.packet \in Packets
<1>1. PICK p \in Packets, cap \in Capacities :
          w \in {[bytes |-> x.bytes, packet |-> p] : x \in {v \in Writes(p, cap) : v.error = "none"}}
  BY SMT DEF Written
<1>2. PICK v \in Writes(p, cap) : v.error = "none" /\ w = [bytes |-> v.bytes, packet |-> p]
  BY <1>1, Zenon
<1>3. p \in PacketSet /\ cap \in Nat
  BY StreamAssumption, Zenon
<1>4. IsFrame(v.bytes)
  BY <1>2, <1>3, LengthsAnnounced, Zenon
<1>5. v.bytes \in Seq(Byte) /\ OneFrame(v.bytes)
  BY <1>4, WrittenIsOneFrame, Zenon
<1>6. w.bytes = v.bytes /\ w.packet = p
  BY <1>2
<1> QED
  BY <1>5, <1>6, Zenon

(* A packet that was written. *)
LEMMA SendKeeps ==
    ASSUME StreamInv, NEW w \in Written, Send(w)
    PROVE  StreamInv'
<1>1. Transfer(w.bytes, <<w.packet>>)
  BY Zenon DEF Send
<1>2. w.bytes \in Seq(Byte) /\ OneFrame(w.bytes) /\ w.packet \in Packets
  BY WrittenFits, Zenon
<1>3. <<w.packet>> \in Seq(Packets) /\ Len(<<w.packet>>) <= 1
  <2>1. PICK p \in Packets : p = w.packet
    BY <1>2
  <2>2. <<p>> \in Seq(Packets) /\ Len(<<p>>) <= 1
    OBVIOUS
  <2> QED
    BY <2>1, <2>2
<1> QED
  BY <1>1, <1>2, <1>3, TransferKeeps, Zenon

(* A frame of another peer. *)
LEMMA SendForeignKeeps ==
    ASSUME StreamInv, NEW bytes \in Foreign, SendForeign(bytes)
    PROVE  StreamInv'
<1>1. Transfer(bytes, << >>)
  BY Zenon DEF SendForeign
<1>2. bytes \in Seq(Byte) /\ OneFrame(bytes)
  BY StreamAssumption, Zenon
<1>3. << >> \in Seq(Packets) /\ Len(<< >>) <= 1
  OBVIOUS
<1> QED
  BY <1>1, <1>2, <1>3, TransferKeeps, Zenon

(* A byte changes hands, the stream is the same. *)
LEMMA SameStream ==
    ASSUME NEW r \in Seq(Byte), NEW t \in Seq(Byte), t # << >>
    PROVE  /\ Append(r, Head(t)) \in Seq(Byte) /\ Tail(t) \in Seq(Byte)
           /\ Append(r, Head(t)) \o Tail(t) = r \o t
<1>1. Append(r, Head(t)) \in Seq(Byte) /\ Tail(t) \in Seq(Byte)
  OBVIOUS
<1>2. Append(r, Head(t)) \o Tail(t) = r \o t
  <2> DEFINE u == Append(r, Head(t)) \o Tail(t)
             v == r \o t
  <2>1. u \in Seq(Byte) /\ v \in Seq(Byte) /\ Len(u) = Len(v)
    OBVIOUS
  <2>2. \A i \in 1..Len(v) : u[i] = v[i]
    OBVIOUS
  <2> HIDE DEF u, v
  <2>3. u = v
    BY <2>1, <2>2
  <2> QED
    BY <2>3 DEF u, v
<1> QED
  BY <1>1, <1>2

(* A byte arrives. *)
LEMMA ArriveKeeps ==
    ASSUME StreamInv, Arrive
    PROVE  StreamInv'
<1>1. /\ net # << >> /\ rx' = Append(rx, Head(net)) /\ net' = Tail(net) /\ asked' = 0
      /\ sent' = sent /\ got' = got
  BY DEF Arrive
<1>2. /\ sent \in Seq(SentSet) /\ net \in Seq(Byte) /\ rx \in Seq(Byte) /\ GotSeq(got)
      /\ Len(got) <= Len(sent) /\ StreamOf(rx \o net, sent, Len(got))
  BY Zenon DEF StreamInv
<1>3. rx' \in Seq(Byte) /\ net' \in Seq(Byte) /\ rx' \o net' = rx \o net
  BY <1>1, <1>2, SameStream, Zenon
<1>4. AsksWithinFrame'
  <2>1. ~(asked' > 0)
    BY <1>1
  <2> QED
    BY <2>1 DEF AsksWithinFrame
<1>5. asked' \in Nat
  BY <1>1
<1> QED
  BY <1>1, <1>2, <1>3, <1>4, <1>5, Zenon DEF StreamInv

(* What the reader looks at begins with the frame it is at. *)
LEMMA ReaderAtFrame ==
    ASSUME StreamInv, rx # << >>
    PROVE  /\ AtFrame
           /\ Current.frame \in Seq(Byte) /\ OneFrame(Current.frame)
           /\ SameBytes(rx, Current.frame)
<1>1. /\ sent \in Seq(SentSet) /\ net \in Seq(Byte) /\ rx \in Seq(Byte) /\ GotSeq(got)
      /\ Len(got) <= Len(sent) /\ StreamOf(rx \o net, sent, Len(got))
  BY Zenon DEF StreamInv
<1>2. Len(got) \in 0..Len(sent)
  <2>1. Len(got) \in Nat
    BY <1>1, GotLength, Zenon
  <2> QED
    BY <1>1, <2>1
<1>3. /\ rx \o net \in Seq(Byte) /\ Len(rx) <= Len(rx \o net)
      /\ \A i \in 1..Len(rx) : rx[i] = (rx \o net)[i]
  <2>1. /\ rx \o net \in Seq(Byte) /\ Len(rx \o net) = Len(rx) + Len(net)
        /\ \A i \in 1..Len(rx) : (rx \o net)[i] = rx[i]
    BY <1>1, ConcatPlaces, Zenon
  <2>2. Len(rx) \in Nat /\ Len(net) \in Nat
    BY <1>1
  <2> QED
    BY <2>1, <2>2
<1>4. /\ Len(got) < Len(sent)
      /\ sent[Len(got) + 1].frame \in Seq(Byte) /\ OneFrame(sent[Len(got) + 1].frame)
      /\ Len(sent[Len(got) + 1].frame) <= Len(rx \o net)
      /\ SameBytes(rx, sent[Len(got) + 1].frame)
  BY <1>1, <1>2, <1>3, FrameInFront, Zenon
<1> QED
  BY <1>4, Zenon DEF AtFrame, Current

(* Bytes taken off what arrived are taken off the stream. *)
LEMMA CutFront ==
    ASSUME NEW r \in Seq(Byte), NEW t \in Seq(Byte), NEW c \in Nat, c <= Len(r)
    PROVE  /\ SubSeq(r, c + 1, Len(r)) \in Seq(Byte)
           /\ SubSeq(r, c + 1, Len(r)) \o t = SubSeq(r \o t, c + 1, Len(r \o t))
<1> DEFINE u == SubSeq(r, c + 1, Len(r))
           x == u \o t
           y == SubSeq(r \o t, c + 1, Len(r \o t))
<1>1. u \in Seq(Byte) /\ Len(u) = Len(r) - c /\ \A i \in 1..(Len(r) - c) : u[i] = r[c + i]
  OBVIOUS
<1>2. r \o t \in Seq(Byte) /\ Len(r \o t) = Len(r) + Len(t)
  OBVIOUS
<1>3. /\ y \in Seq(Byte) /\ Len(y) = (Len(r) + Len(t)) - c
      /\ \A i \in 1..((Len(r) + Len(t)) - c) : y[i] = (r \o t)[c + i]
  BY <1>2
<1> HIDE DEF u, y
<1>4. /\ x \in Seq(Byte) /\ Len(x) = Len(u) + Len(t)
      /\ \A i \in 1..Len(u) : x[i] = u[i]
      /\ \A i \in 1..Len(t) : x[Len(u) + i] = t[i]
  BY <1>1, ConcatPlaces, Zenon
<1>5. /\ \A i \in 1..Len(r) : (r \o t)[i] = r[i]
      /\ \A i \in 1..Len(t) : (r \o t)[Len(r) + i] = t[i]
  BY ConcatPlaces, Zenon
<1> HIDE DEF x
<1>6. Len(x) = Len(y)
  BY <1>1, <1>3, <1>4
<1>7. ASSUME NEW i \in 1..Len(y)
      PROVE  x[i] = y[i]
  <2>0. y[i] = (r \o t)[c + i]
    BY <1>3
  <2>1. CASE i <= Len(r) - c
    <3>1. i \in 1..Len(u) /\ c + i \in 1..Len(r) /\ i \in 1..(Len(r) - c)
      BY <1>1, <2>1
    <3> QED
      BY <1>1, <1>4, <1>5, <2>0, <3>1
  <2>2. CASE ~(i <= Len(r) - c)
    <3> DEFINE j == i - (Len(r) - c)
    <3>1. j \in 1..Len(t) /\ Len(u) + j = i /\ Len(r) + j = c + i
      BY <1>1, <1>3, <2>2
    <3> HIDE DEF j
    <3>2. x[Len(u) + j] = t[j] /\ (r \o t)[Len(r) + j] = t[j]
      BY <1>4, <1>5, <3>1
    <3> QED
      BY <2>0, <3>1, <3>2
  <2> QED
    BY <2>1, <2>2
<1>8. x = y
  <2>1. x \in Seq(Byte) /\ y \in Seq(Byte)
    BY <1>3, <1>4
  <2> QED
    BY <1>6, <1>7, <2>1
<1> QED
  BY <1>1, <1>8 DEF u, x, y

(* Packet::read: what is taken is the first frame, what is asked for is of *)
(* it.                                                                     *)
LEMMA ReadKeeps ==
    ASSUME StreamInv, ReadPacket
    PROVE  StreamInv'
<1> DEFINE r == Read(rx, MaxSize)
           f == Current.frame
<1>1. /\ rx # << >> /\ sent' = sent /\ net' = net
      /\ \/ /\ r.error = "none"
            /\ got' = Append(got, r.packet)
            /\ rx' = SubSeq(rx, r.taken + 1, Len(rx))
            /\ UNCHANGED <<asked, failed>>
         \/ /\ r.error = "NeedMoreData"
            /\ asked' = r.missing
            /\ UNCHANGED <<got, rx, failed>>
         \/ /\ r.error \notin {"none", "NeedMoreData"}
            /\ UNCHANGED <<got, rx, asked>>
      /\ asked = 0
  BY Zenon DEF ReadPacket
<1>2. /\ sent \in Seq(SentSet) /\ net \in Seq(Byte) /\ rx \in Seq(Byte) /\ GotSeq(got)
      /\ Len(got) <= Len(sent) /\ StreamOf(rx \o net, sent, Len(got)) /\ asked \in Nat
      /\ AsksWithinFrame
  BY Zenon DEF StreamInv
<1>3. AtFrame /\ f \in Seq(Byte) /\ OneFrame(f) /\ SameBytes(rx, f)
  BY <1>1, ReaderAtFrame, Zenon
<1>4. ReadsAsItShould(f, rx, r)
  <2>1. MaxSize \in Nat
    BY StreamAssumption, Zenon
  <2> QED
    BY <1>1, <1>2, <1>3, <2>1, ReadTells, Zenon
<1>5. Len(got) < Len(sent) /\ Len(got) \in Nat /\ Len(sent) \in Nat /\ f = sent[Len(got) + 1].frame
      /\ Len(f) \in Nat
  <2>1. Len(got) \in Nat
    BY <1>2, GotLength, Zenon
  <2> QED
    BY <1>2, <1>3, <2>1 DEF AtFrame, Current
<1> HIDE DEF r, f
<1>6. CASE /\ r.error = "none"
           /\ got' = Append(got, r.packet)
           /\ rx' = SubSeq(rx, r.taken + 1, Len(rx))
           /\ UNCHANGED <<asked, failed>>
  <2>1. r.taken = Len(f) /\ Len(f) <= Len(rx) /\ r.packet.type \in ToSet(PacketTypes)
    BY <1>4, <1>6, Zenon DEF ReadsAsItShould
  <2>2. GotSeq(got') /\ Len(got') = Len(got) + 1
    BY <1>2, <1>6, <2>1, GotMore, Zenon
  <2>3. /\ rx' \in Seq(Byte)
        /\ rx' \o net = SubSeq(rx \o net, Len(f) + 1, Len(rx \o net))
    <3>1. rx' = SubSeq(rx, Len(f) + 1, Len(rx))
      BY <1>6, <2>1, Zenon
    <3> QED
      BY <1>2, <1>5, <2>1, <3>1, CutFront, Zenon
  <2>4. StreamOf(SubSeq(rx \o net, Len(f) + 1, Len(rx \o net)), sent, Len(got) + 1)
    <3>1. rx \o net \in Seq(Byte) /\ Len(got) \in 0..Len(sent)
      BY <1>2, <1>5
    <3> QED
      BY <1>2, <1>5, <3>1, StreamShrinks, Zenon
  <2>5. StreamOf(rx' \o net', sent', Len(got'))
    BY <1>1, <2>2, <2>3, <2>4, Zenon
  <2>6. Len(got') <= Len(sent')
    BY <1>1, <1>5, <2>2
  <2>7. AsksWithinFrame'
    <3>1. ~(asked' > 0)
      BY <1>1, <1>6
    <3> QED
      BY <3>1 DEF AsksWithinFrame
  <2> QED
    BY <1>1, <1>2, <1>6, <2>2, <2>3, <2>5, <2>6, <2>7, Zenon DEF StreamInv
<1>7. CASE /\ r.error = "NeedMoreData"
           /\ asked' = r.missing
           /\ UNCHANGED <<got, rx, failed>>
  <2>1. r.missing \in Nat /\ Len(rx) + r.missing <= Len(f)
    BY <1>4, <1>7, Zenon DEF ReadsAsItShould
  <2>2. AsksWithinFrame'
    <3>1. Len(rx') + asked' <= Len(sent'[Len(got') + 1].frame) /\ Len(got') < Len(sent')
      BY <1>1, <1>5, <1>7, <2>1
    <3> QED
      BY <3>1 DEF AsksWithinFrame, AtFrame, Current
  <2> QED
    BY <1>1, <1>2, <1>7, <2>1, <2>2, Zenon DEF StreamInv
<1>8. CASE UNCHANGED <<got, rx, asked>>
  <2>1. AsksWithinFrame'
    BY <1>1, <1>2, <1>8 DEF AsksWithinFrame, AtFrame, Current
  <2> QED
    BY <1>1, <1>2, <1>8, <2>1, Zenon DEF StreamInv
<1> QED
  BY <1>1, <1>6, <1>7, <1>8

(* Every step keeps the invariant. *)
LEMMA StreamStep == StreamInv /\ [Next]_vars => StreamInv'
<1> SUFFICES ASSUME StreamInv, [Next]_vars PROVE StreamInv'
  OBVIOUS
<1>1. CASE \E w \in Written : Send(w)
  BY <1>1, SendKeeps, Zenon
<1>2. CASE \E bytes \in Foreign : SendForeign(bytes)
  BY <1>2, SendForeignKeeps, Zenon
<1>3. CASE Arrive
  BY <1>3, ArriveKeeps, Zenon
<1>4. CASE ReadPacket
  BY <1>4, ReadKeeps, Zenon
<1>5. CASE UNCHANGED vars
  <2>1. /\ sent' = sent /\ net' = net /\ rx' = rx /\ got' = got /\ asked' = asked
    BY <1>5 DEF vars
  <2>2. AsksWithinFrame => AsksWithinFrame'
    BY <2>1 DEF AsksWithinFrame, AtFrame, Current
  <2> QED
    BY <2>1, <2>2, Zenon DEF StreamInv
<1> QED
  BY <1>1, <1>2, <1>3, <1>4, <1>5, Zenon DEF Next

(* The invariant holds always. *)
LEMMA StreamAlways == Spec => []StreamInv
BY StreamInit, StreamStep, PTL DEF Spec

(***************************************************************************)
(* What is sent, on the wire and in the buffer are always bytes, and every *)
(* packet read is of one of the fourteen types.                            *)
(***************************************************************************)
THEOREM StreamTyped == Spec => []TypeOK
<1>1. StreamInv => TypeOK
  <2> SUFFICES ASSUME StreamInv PROVE TypeOK
    OBVIOUS
  <2>1. sent \in Seq(SentSet) /\ net \in Seq(Byte) /\ rx \in Seq(Byte) /\ GotSeq(got) /\ asked \in Nat
    BY Zenon DEF StreamInv
  <2>2. \A i \in DOMAIN sent : sent[i].frame \in Seq(Byte)
    <3>1. DOMAIN sent = 1..Len(sent)
      BY <2>1
    <3> QED
      BY <2>1, <3>1, FrameInSeq, Zenon
  <2> QED
    BY <2>1, <2>2, GotTypes, Zenon DEF TypeOK
<1> QED
  BY <1>1, StreamAlways, PTL

(***************************************************************************)
(* NeedMoreData is only said of a frame that is incomplete and never asks  *)
(* for a byte beyond its end, whatever was sent and however it arrives.    *)
(***************************************************************************)
THEOREM NeverAsksBeyond == Spec => []AsksWithinFrame
<1>1. StreamInv => AsksWithinFrame
  BY Zenon DEF StreamInv
<1> QED
  BY <1>1, StreamAlways, PTL

-----------------------------------------------------------------------------
(* The record of module Framing that stands for the frame c. *)
StandsFor(g, c) ==
    /\ g.header = HeaderSize(c)
    /\ g.kind = "EndlessLength" <=> ParseFixedHeader(c).error # "none"
    /\ g.kind = "Corrupt" <=> ParseFixedHeader(c).error = "none" /\ ExactOf(c).error # "none"
    /\ g.remaining \in Nat /\ g.header + g.remaining = Len(c)
    /\ ParseFixedHeader(c).error = "none" => g.remaining = ParseFixedHeader(c).remaining

(* The record FrameOf makes stands for the frame. *)
LEMMA FrameStands ==
    ASSUME NEW c \in Seq(Byte), OneFrame(c)
    PROVE  StandsFor(FrameOf(c, ParseFixedHeader(c)), c)
<1> DEFINE h == ParseFixedHeader(c)
           g == FrameOf(c, h)
           x == ReadExact(h.byte1, h.remaining, c, h.header)
<1>1. FrameShape(c)
  BY ShapeOfFrame, Zenon
<1>2. CASE h.error # "none"
  <2>1. HeaderSize(c) = 5 /\ Len(c) = 5
    BY <1>1, <1>2, Zenon DEF FrameShape
  <2>2. g = [kind |-> "EndlessLength", header |-> 5, remaining |-> 0]
    BY <1>2, Zenon DEF FrameOf
  <2>3. g.kind = "EndlessLength" /\ g.header = 5 /\ g.remaining = 0 /\ g.kind # "Corrupt"
    BY <2>2
  <2> HIDE DEF g, h
  <2>4. g.remaining \in Nat /\ g.header + g.remaining = Len(c)
    BY <2>1, <2>3
  <2>5. StandsFor(g, c)
    BY <1>2, <2>1, <2>3, <2>4, Zenon DEF StandsFor, h
  <2> QED
    BY <2>5 DEF g, h
<1>3. CASE h.error = "none"
  <2>1. h.header = HeaderSize(c) /\ h.remaining \in Nat /\ Len(c) = HeaderSize(c) + h.remaining
    BY <1>1, <1>3, Zenon DEF FrameShape
  <2>2. x = ExactOf(c)
    BY <2>1, Zenon DEF ExactOf
  <2>3. g = [kind |-> IF x.error = "none" THEN "Foreign" ELSE "Corrupt",
             header |-> h.header, remaining |-> h.remaining]
    BY <1>3, Zenon DEF FrameOf
  <2> HIDE DEF x
  <2>4. /\ g.kind = IF x.error = "none" THEN "Foreign" ELSE "Corrupt"
        /\ g.header = h.header /\ g.remaining = h.remaining
    <3> HIDE DEF h
    <3>1. PICK k : k = IF x.error = "none" THEN "Foreign" ELSE "Corrupt"
      OBVIOUS
    <3>2. g = [kind |-> k, header |-> h.header, remaining |-> h.remaining]
      BY <2>3, <3>1, Zenon
    <3> HIDE DEF g
    <3>3. g.kind = k /\ g.header = h.header /\ g.remaining = h.remaining
      BY <3>2
    <3> QED
      BY <3>1, <3>3, Zenon
  <2> HIDE DEF g
  <2>5. g.kind # "EndlessLength" /\ (g.kind = "Corrupt" <=> x.error # "none")
    BY <2>4
  <2>6. g.header + g.remaining = Len(c)
    BY <2>1, <2>4, Zenon
  <2>7. StandsFor(g, c)
    BY <1>3, <2>1, <2>2, <2>4, <2>5, <2>6, Zenon DEF StandsFor
  <2> QED
    BY <2>7 DEF g
<1> QED
  BY <1>2, <1>3

(* What module Framing says of such a record, in terms of the frame. *)
LEMMA ModelReads ==
    ASSUME NEW c \in Seq(Byte), OneFrame(c), NEW g, StandsFor(g, c), NEW n \in Nat, NEW max \in Nat
    PROVE  /\ F!FrameLength(g) = Len(c)
           /\ F!ReadOk(g, n, max) <=> Within(c, max) /\ n >= Len(c) /\ ExactOf(c).error = "none"
           /\ F!ReadFails(g, n, max) <=>
                 \/ n >= HeaderSize(c) /\ ~Within(c, max)
                 \/ Within(c, max) /\ n >= Len(c) /\ ExactOf(c).error # "none"
<1>1. F!FrameLength(g) = Len(c)
  BY Zenon DEF F!FrameLength, StandsFor
<1>2. Within(c, max) <=> g.kind # "EndlessLength" /\ g.remaining <= max
  <2>1. CASE ParseFixedHeader(c).error = "none"
    <3>1. g.kind # "EndlessLength" /\ g.remaining \in Nat
          /\ g.remaining = ParseFixedHeader(c).remaining
      BY <2>1, Zenon DEF StandsFor
    <3>2. ~(g.remaining > max) <=> g.remaining <= max
      BY <3>1
    <3> QED
      BY <2>1, <3>1, <3>2, Zenon DEF Within
  <2>2. CASE ParseFixedHeader(c).error # "none"
    BY <2>2, Zenon DEF StandsFor, Within
  <2> QED
    BY <2>1, <2>2
<1>3. F!Framed(g, n, max) <=> Within(c, max) /\ n >= Len(c)
  BY <1>1, <1>2, Zenon DEF F!Framed
<1>4. F!BadHeader(g, n, max) <=> n >= HeaderSize(c) /\ ~Within(c, max)
  <2>1. g.remaining > max <=> ~(g.remaining <= max)
    <3>1. g.remaining \in Nat
      BY Zenon DEF StandsFor
    <3> QED
      BY <3>1
  <2>2. g.header = HeaderSize(c)
    BY Zenon DEF StandsFor
  <2> QED
    BY <1>2, <2>1, <2>2, Zenon DEF F!BadHeader
<1>5. Within(c, max) => (g.kind # "Corrupt" <=> ExactOf(c).error = "none")
  BY Zenon DEF StandsFor, Within
<1> QED
  BY <1>1, <1>3, <1>4, <1>5, Zenon DEF F!ReadOk, F!ReadFails

(* Read and module Framing agree, whatever has arrived. *)
LEMMA Agrees ==
    ASSUME NEW c \in Seq(Byte), OneFrame(c), rx \in Seq(Byte), rx # << >>, SameBytes(rx, c)
    PROVE  ReadsAs(FrameOf(c, ParseFixedHeader(c)), Read(rx, MaxSize))
<1> DEFINE g == FrameOf(c, ParseFixedHeader(c))
           r == Read(rx, MaxSize)
           x == ExactOf(c)
           n == Len(rx)
           good == Within(c, MaxSize) /\ n >= Len(c) /\ x.error = "none"
           bad == \/ n >= HeaderSize(c) /\ ~Within(c, MaxSize)
                  \/ Within(c, MaxSize) /\ n >= Len(c) /\ x.error # "none"
<1>1. MaxSize \in Nat /\ n \in Nat
  BY StreamAssumption
<1>2. StandsFor(g, c)
  BY FrameStands, Zenon
<1>3. ReadsFront(c, rx, MaxSize, r)
  BY <1>1, ReadAtFront, Zenon
<1>4. FrameShape(c)
  BY ShapeOfFrame, Zenon
<1>5. HeaderSize(c) \in 2..5 /\ HeaderSize(c) <= Len(c) /\ Len(c) \in Nat
  BY <1>4 DEF FrameShape
<1>6. ReadOutcome(x)
  <2>1. HeaderSize(c) \in 0..Len(c)
    BY <1>5
  <2> QED
    BY <2>1, WholeFrameDecides, Zenon DEF ExactOf
<1> HIDE DEF g, r, x, n
<1>7. /\ F!FrameLength(g) = Len(c)
      /\ F!ReadOk(g, n, MaxSize) <=> good
      /\ F!ReadFails(g, n, MaxSize) <=> bad
  BY <1>1, <1>2, ModelReads, Zenon DEF x
<1>8. /\ r.error = "none" <=> good
      /\ r.error = "none" => r.taken = Len(c)
      /\ r.error \notin {"none", "NeedMoreData"} <=> bad
  <2>1. \A m : NeedMoreData(m).error = "NeedMoreData"
    BY DEF NeedMoreData
  <2>2. CASE n < HeaderSize(c) /\ r = NeedMoreData(1)
    <3>1. ~(n >= HeaderSize(c)) /\ ~(n >= Len(c))
      BY <1>1, <1>5, <2>2
    <3>2. r.error = "NeedMoreData"
      BY <2>1, <2>2, Zenon
    <3> QED
      BY <3>1, <3>2
  <2>3. CASE n >= HeaderSize(c) /\ ~Within(c, MaxSize)
             /\ r.error \in {"MalformedRemainingLength", "PayloadSizeLimitExceeded"}
    BY <2>3
  <2>4. CASE Within(c, MaxSize) /\ n < Len(c) /\ r = NeedMoreData(Len(c) - n)
    <3>1. ~(n >= Len(c))
      BY <1>1, <1>5, <2>4
    <3>2. r.error = "NeedMoreData"
      BY <2>1, <2>4, Zenon
    <3> QED
      BY <2>4, <3>1, <3>2
  <2>5. CASE Within(c, MaxSize) /\ n >= Len(c) /\ r = Taking(x, Len(c))
    <3>1. CASE x.error = "none"
      <4>1. r = [error |-> "none", packet |-> x.packet, taken |-> Len(c)]
        BY <2>5, <3>1, Zenon DEF Taking
      <4>2. r.error = "none" /\ r.taken = Len(c)
        BY <4>1
      <4> QED
        BY <2>5, <3>1, <4>2
    <3>2. CASE x.error # "none"
      <4>1. r.error = x.error
        BY <2>5, <3>2, Zenon DEF Taking
      <4>2. x.error \in ReadErrors
        BY <1>6, <3>2, Zenon DEF ReadOutcome
      <4>3. x.error # "NeedMoreData"
        BY <4>2 DEF ReadErrors, FieldErrors
      <4> QED
        BY <2>5, <3>2, <4>1, <4>3
    <3> QED
      BY <3>1, <3>2
  <2> QED
    BY <1>3, <2>2, <2>3, <2>4, <2>5, Zenon DEF ReadsFront, n, x
<1>9. ReadsAs(g, r)
  BY <1>7, <1>8, Zenon DEF ReadsAs, n
<1> QED
  BY <1>9 DEF g, r

(***************************************************************************)
(* The frames with which the client is modelled are what Packet::read      *)
(* makes of the bytes, of any frame and any part of it that has arrived.   *)
(***************************************************************************)
THEOREM ModelOfFrames == Spec => []FramingAgrees
<1>1. StreamInv => FramingAgrees
  <2> SUFFICES ASSUME StreamInv, rx # << >>
               PROVE  ReadsAs(FrameOf(Current.frame, ParseFixedHeader(Current.frame)), Read(rx, MaxSize))
    BY Zenon DEF FramingAgrees
  <2>1. /\ Current.frame \in Seq(Byte) /\ OneFrame(Current.frame)
        /\ SameBytes(rx, Current.frame)
    BY ReaderAtFrame, Zenon
  <2>2. rx \in Seq(Byte)
    BY Zenon DEF StreamInv
  <2> QED
    BY <2>1, <2>2, Agrees, Zenon
<1> QED
  BY <1>1, StreamAlways, PTL

-----------------------------------------------------------------------------
(* One level of the filter against the level of the topic at its place. *)
Step(topics, filters, j) ==
    /\ j <= Len(topics)
    /\ topics[j] # <<Hash>>
    /\ filters[j] = <<Plus>> \/ filters[j] = topics[j]

(* What the loop of matches returns when it has come to level i. *)
Ahead(topics, filters, i) ==
    \/ \E k \in i..Len(filters) :
          filters[k] = <<Hash>> /\ \A j \in i..(k - 1) : Step(topics, filters, j)
    \/ Len(topics) <= Len(filters) /\ \A j \in i..Len(filters) : Step(topics, filters, j)

MatchTable(topics, filters, from) ==
    from = [i \in 1..(Len(filters) + 1) |->
            IF i > Len(filters) THEN Len(topics) <= Len(filters)
            ELSE \/ filters[i] = <<Hash>>
                 \/ /\ i <= Len(topics)
                    /\ topics[i] # <<Hash>>
                    /\ filters[i] = <<Plus>> \/ filters[i] = topics[i]
                    /\ from[i + 1]]

(* Behind the last level of the filter. *)
LEMMA AheadEnds ==
    ASSUME NEW topics \in Seq(Seq(Byte)), NEW filters \in Seq(Seq(Byte))
    PROVE  Ahead(topics, filters, Len(filters) + 1) <=> Len(topics) <= Len(filters)
<1>1. \A j \in (Len(filters) + 1)..Len(filters) : FALSE
  BY SMT
<1> QED
  BY <1>1, Zenon DEF Ahead

(* At a level of the filter. *)
LEMMA AheadGoesOn ==
    ASSUME NEW topics \in Seq(Seq(Byte)), NEW filters \in Seq(Seq(Byte)), NEW i \in 1..Len(filters)
    PROVE  Ahead(topics, filters, i) <=>
              filters[i] = <<Hash>> \/ (Step(topics, filters, i) /\ Ahead(topics, filters, i + 1))
<1> DEFINE n == Len(filters)
<1>0. n \in Nat /\ i \in 1..n
  OBVIOUS
<1> HIDE DEF n
<1>1. \A j \in i..n : j = i \/ j \in (i + 1)..n
  BY ONLY <1>0, SMT
<1>2. \A j \in (i + 1)..n : j \in i..n
  BY ONLY <1>0, SMT
<1>3. i \in i..n /\ \A j \in i..(i - 1) : FALSE
  BY ONLY <1>0, SMT
<1>4. \A k \in (i + 1)..n : i \in i..(k - 1) /\ \A j \in i..(k - 1) : j = i \/ j \in (i + 1)..(k - 1)
  BY ONLY <1>0, SMT
<1>5. \A k \in (i + 1)..n : \A j \in (i + 1)..(k - 1) : j \in i..(k - 1)
  BY ONLY <1>0, SMT
<1>6. ASSUME Ahead(topics, filters, i), filters[i] # <<Hash>>
      PROVE  Step(topics, filters, i) /\ Ahead(topics, filters, i + 1)
  <2>1. CASE \E k \in i..n : filters[k] = <<Hash>> /\ \A j \in i..(k - 1) : Step(topics, filters, j)
    <3>1. PICK k \in i..n : filters[k] = <<Hash>> /\ \A j \in i..(k - 1) : Step(topics, filters, j)
      BY <2>1
    <3>2. k \in (i + 1)..n
      BY <1>1, <1>6, <3>1, Zenon
    <3> QED
      BY <1>4, <1>5, <3>1, <3>2, Zenon DEF Ahead, n
  <2>2. CASE Len(topics) <= n /\ \A j \in i..n : Step(topics, filters, j)
    BY <1>2, <1>3, <2>2, Zenon DEF Ahead, n
  <2> QED
    BY <1>6, <2>1, <2>2, Zenon DEF Ahead, n
<1>7. ASSUME filters[i] = <<Hash>>
      PROVE  Ahead(topics, filters, i)
  BY <1>3, <1>7, Zenon DEF Ahead, n
<1>8. ASSUME Step(topics, filters, i), Ahead(topics, filters, i + 1)
      PROVE  Ahead(topics, filters, i)
  <2>1. CASE \E k \in (i + 1)..n : filters[k] = <<Hash>> /\ \A j \in (i + 1)..(k - 1) : Step(topics, filters, j)
    <3>1. PICK k \in (i + 1)..n : filters[k] = <<Hash>> /\ \A j \in (i + 1)..(k - 1) : Step(topics, filters, j)
      BY <2>1
    <3>2. \A j \in i..(k - 1) : Step(topics, filters, j)
      BY <1>4, <1>8, <3>1, Zenon
    <3> QED
      BY <1>2, <3>1, <3>2, Zenon DEF Ahead, n
  <2>2. CASE Len(topics) <= n /\ \A j \in (i + 1)..n : Step(topics, filters, j)
    BY <1>1, <1>8, <2>2, Zenon DEF Ahead, n
  <2> QED
    BY <1>8, <2>1, <2>2, Zenon DEF Ahead, n
<1> QED
  BY <1>6, <1>7, <1>8, Zenon

(* There is such a table, so that CHOOSE takes one. *)
LEMMA MatchTableExists ==
    ASSUME NEW topics \in Seq(Seq(Byte)), NEW filters \in Seq(Seq(Byte))
    PROVE  \E from : MatchTable(topics, filters, from)
<1> DEFINE n == Len(filters)
           from == [i \in 1..(n + 1) |-> Ahead(topics, filters, i)]
           Body(i) == IF i > n THEN Len(topics) <= n
                      ELSE \/ filters[i] = <<Hash>>
                           \/ /\ i <= Len(topics)
                              /\ topics[i] # <<Hash>>
                              /\ filters[i] = <<Plus>> \/ filters[i] = topics[i]
                              /\ from[i + 1]
<1>0. n \in Nat
  OBVIOUS
<1>1. ASSUME NEW i \in 1..(n + 1)
      PROVE  Ahead(topics, filters, i) <=> Body(i)
  <2>1. CASE i = n + 1
    <3>1. i > n
      BY ONLY <1>0, <2>1, SMT
    <3>2. Body(i) <=> Len(topics) <= n
      BY <3>1, Zenon
    <3> QED
      BY <2>1, <3>2, AheadEnds, Zenon
  <2>2. CASE i # n + 1
    <3>1. i \in 1..n /\ ~(i > n) /\ i + 1 \in 1..(n + 1)
      <4>1. i \in 1..(n + 1)
        OBVIOUS
      <4> QED
        BY ONLY <1>0, <2>2, <4>1, SMT
    <3>2. from[i + 1] <=> Ahead(topics, filters, i + 1)
      BY <3>1, Zenon
    <3> HIDE DEF from
    <3>3. Body(i) <=> filters[i] = <<Hash>> \/ (Step(topics, filters, i) /\ Ahead(topics, filters, i + 1))
      BY <3>1, <3>2, Zenon DEF Step
    <3> QED
      BY <3>1, <3>3, AheadGoesOn, Zenon
  <2> QED
    BY <2>1, <2>2
<1>2. ASSUME NEW i \in 1..(n + 1)
      PROVE  Ahead(topics, filters, i) = Body(i)
  <2>1. Ahead(topics, filters, i) \in BOOLEAN
    BY DEF Ahead
  <2>2. Body(i) \in BOOLEAN
    <3>1. i \in 1..n => from[i + 1] \in BOOLEAN
      <4>1. i \in 1..n => i + 1 \in 1..(n + 1)
        BY ONLY <1>0, SMT
      <4>2. \A j \in 1..(n + 1) : from[j] \in BOOLEAN
        BY DEF Ahead
      <4> QED
        BY <4>1, <4>2, Zenon
    <3> HIDE DEF from
    <3>2. CASE i > n
      <4>1. Len(topics) \in Nat
        OBVIOUS
      <4>2. (Len(topics) <= n) \in BOOLEAN
        BY <1>0, <4>1
      <4>3. Body(i) = (Len(topics) <= n)
        <5> HIDE DEF n
        <5> QED
          BY <3>2
      <4> QED
        BY <4>2, <4>3, Zenon
    <3>3. CASE ~(i > n)
      <4> DEFINE x == from[i + 1]
      <4>1. x \in BOOLEAN
        <5>1. i \in 1..n
          BY ONLY <1>0, <3>3, i \in 1..(n + 1), SMT
        <5> QED
          BY <3>1, <5>1, Zenon
      <4> DEFINE y == \/ filters[i] = <<Hash>>
                      \/ /\ i <= Len(topics)
                         /\ topics[i] # <<Hash>>
                         /\ filters[i] = <<Plus>> \/ filters[i] = topics[i]
                         /\ x
      <4>2. y \in BOOLEAN
        <5> HIDE DEF x
        <5> QED
          BY <4>1
      <4>3. Body(i) = y
        <5> HIDE DEF x
        <5> QED
          BY <3>3, Zenon DEF x
      <4> QED
        BY <4>2, <4>3, Zenon
    <3> QED
      BY <3>2, <3>3
  <2> QED
    BY <1>1, <2>1, <2>2, Zenon
<1>3. from = [i \in 1..(n + 1) |-> Body(i)]
  <2> HIDE DEF Body
  <2> QED
    BY <1>2, Zenon
<1>4. MatchTable(topics, filters, from)
  <2> HIDE DEF from
  <2> QED
    BY <1>3, Zenon DEF MatchTable
<1> QED
  BY <1>4, Zenon

(* The loop of matches, without the loop. *)
LEMMA MatchedMeans ==
    ASSUME NEW topics \in Seq(Seq(Byte)), NEW filters \in Seq(Seq(Byte))
    PROVE  Matched(topics, filters) <=> Ahead(topics, filters, 1)
<1>1. PICK from : from = (CHOOSE t : MatchTable(topics, filters, t))
  OBVIOUS
<1>2. MatchTable(topics, filters, from)
  BY <1>1, MatchTableExists, Zenon
<1>3. Matched(topics, filters) <=> from[1]
  BY <1>1, Zenon DEF Matched, MatchTable
<1> DEFINE n == Len(filters)
           P == {m \in Nat : m <= n => (from[n + 1 - m] <=> Ahead(topics, filters, n + 1 - m))}
<1>0. n \in Nat
  OBVIOUS
<1>4. 0 \in P
  <2>1. n + 1 \in 1..(n + 1) /\ n + 1 - 0 = n + 1 /\ n + 1 > n
    BY ONLY <1>0, SMT
  <2>2. from[n + 1] <=> Len(topics) <= n
    BY <1>2, <2>1, Zenon DEF MatchTable
  <2>3. from[n + 1 - 0] <=> Ahead(topics, filters, n + 1 - 0)
    BY <2>1, <2>2, AheadEnds, Zenon
  <2> QED
    BY <2>3
<1>5. ASSUME NEW m \in 1..n, m - 1 \in P
      PROVE  m \in P
  <2> DEFINE i == n + 1 - m
  <2>0. /\ i \in 1..n /\ i \in 1..(n + 1) /\ ~(i > n) /\ n + 1 - (m - 1) = i + 1 /\ m - 1 <= n
        /\ m \in Nat
    <3>1. m \in 1..n
      OBVIOUS
    <3> QED
      BY ONLY <1>0, <3>1, SMT
  <2>1. from[i + 1] <=> Ahead(topics, filters, i + 1)
    BY <1>5, <2>0, Zenon
  <2> HIDE DEF i
  <2>2. from[i] <=> filters[i] = <<Hash>> \/ (Step(topics, filters, i) /\ from[i + 1])
    BY <1>2, <2>0, Zenon DEF MatchTable, Step
  <2>3. from[i] <=> Ahead(topics, filters, i)
    BY <2>0, <2>1, <2>2, AheadGoesOn, Zenon
  <2> QED
    BY <2>0, <2>3, Zenon DEF i
<1>6. n \in P
  <2>1. P \in SUBSET Nat
    OBVIOUS
  <2> HIDE DEF P
  <2>2. \A m \in 0..n : m \in P
    BY <1>0, <1>4, <1>5, <2>1, UpTo
  <2> QED
    BY <1>0, <2>2
<1>7. n <= n /\ n + 1 - n = 1
  BY ONLY <1>0, SMT
<1> QED
  BY <1>3, <1>6, <1>7, Zenon

-----------------------------------------------------------------------------
(* A level has no byte that the topic does not have. *)
LEMMA LevelsWithin ==
    ASSUME NEW s \in Seq(Byte), NEW c \in Byte, ~Contains(s, c)
    PROVE  \A i \in 1..Len(Levels(s)) : ~Contains(Levels(s)[i], c)
<1> DEFINE Without(levels) ==
              \A i \in 1..Len(levels) : \A k \in 1..Len(levels[i]) : levels[i][k] # c
<1>1. PICK acc \in [0..Len(s) -> LevelSet] :
          /\ acc[0] = << << >> >>
          /\ acc[Len(s)] = Levels(s)
          /\ \A i \in 1..Len(s) : acc[i] = NextLevels(acc[i - 1], s[i])
  BY LevelRuns
<1>2. Without(<< << >> >>)
  OBVIOUS
<1>3. ASSUME NEW levels \in LevelSet, NEW d \in Byte, d # c, Without(levels)
      PROVE  Without(NextLevels(levels, d))
  <2>1. levels \in Seq(Seq(Byte)) /\ Len(levels) \in Nat /\ Len(levels) \in 1..Len(levels)
    BY <1>3, EmptySeq DEF LevelSet
  <2>2. CASE d = Slash
    <3>1. NextLevels(levels, d) = Append(levels, << >>)
      BY <2>2 DEF NextLevels
    <3>2. /\ Len(Append(levels, << >>)) = Len(levels) + 1
          /\ Append(levels, << >>)[Len(levels) + 1] = << >>
          /\ \A i \in 1..Len(levels) : Append(levels, << >>)[i] = levels[i]
      BY <2>1
    <3>3. \A i \in 1..(Len(levels) + 1) : i = Len(levels) + 1 \/ i \in 1..Len(levels)
      BY ONLY <2>1, SMT
    <3>4. \A k \in 1..Len(<< >>) : FALSE
      OBVIOUS
    <3>5. ASSUME NEW i \in 1..(Len(levels) + 1), NEW k \in 1..Len(Append(levels, << >>)[i])
          PROVE  Append(levels, << >>)[i][k] # c
      <4>1. CASE i = Len(levels) + 1
        BY <3>2, <3>4, <4>1, Zenon
      <4>2. CASE i \in 1..Len(levels)
        BY <1>3, <3>2, <4>2, Zenon
      <4> QED
        BY <3>3, <4>1, <4>2
    <3> QED
      BY <3>1, <3>2, <3>5, Zenon
  <2>3. CASE d # Slash
    <3> DEFINE m == Len(levels)
               l == levels[m]
               e == Append(l, d)
               new == [levels EXCEPT ![m] = e]
    <3>1. NextLevels(levels, d) = new
      BY <2>3 DEF NextLevels
    <3>2. l \in Seq(Byte) /\ m \in 1..m
      BY <2>1
    <3>3. /\ Len(e) = Len(l) + 1
          /\ e[Len(l) + 1] = d
          /\ \A k \in 1..Len(l) : e[k] = l[k]
      <4> HIDE DEF l
      <4> QED
        BY <3>2
    <3>4. \A k \in 1..(Len(l) + 1) : k = Len(l) + 1 \/ k \in 1..Len(l)
      <4>1. Len(l) \in Nat
        <5> HIDE DEF l
        <5> QED
          BY <3>2
      <4> HIDE DEF l
      <4> QED
        BY ONLY <4>1, SMT
    <3>5. \A k \in 1..Len(l) : l[k] # c
      BY <1>3, <3>2, Zenon
    <3>6. \A k \in 1..Len(e) : e[k] # c
      <4> HIDE DEF e, l
      <4> QED
        BY <1>3, <3>3, <3>4, <3>5, Zenon
    <3>7. Len(new) = m /\ new[m] = e /\ \A i \in 1..m : i # m => new[i] = levels[i]
      <4> HIDE DEF e
      <4> QED
        BY <2>1
    <3> HIDE DEF e, l, new
    <3>8. ASSUME NEW i \in 1..Len(new), NEW k \in 1..Len(new[i])
          PROVE  new[i][k] # c
      <4>1. CASE i = m
        BY <3>6, <3>7, <4>1, Zenon
      <4>2. CASE i # m
        BY <1>3, <3>7, <4>2, Zenon
      <4> QED
        BY <4>1, <4>2
    <3> QED
      BY <3>1, <3>8, Zenon
  <2> QED
    BY <2>2, <2>3
<1> DEFINE P == {n \in Nat : n <= Len(s) => Without(acc[n])}
<1>0. Len(s) \in Nat
  OBVIOUS
<1> HIDE DEF Without
<1>4. 0 \in P
  BY <1>1, <1>2, Zenon
<1>5. ASSUME NEW n \in 1..Len(s), n - 1 \in P
      PROVE  n \in P
  <2>1. n \in Nat /\ n - 1 \in 0..Len(s) /\ n - 1 <= Len(s)
    BY <1>0
  <2>2. Without(acc[n - 1])
    BY <1>5, <2>1
  <2>3. s[n] \in Byte /\ s[n] # c
    <3>1. \A i \in 1..Len(s) : s[i] \in Byte
      OBVIOUS
    <3>2. \A i \in 1..Len(s) : s[i] # c
      BY Zenon DEF Contains
    <3> QED
      BY <3>1, <3>2, Zenon
  <2>4. acc[n - 1] \in LevelSet
    BY <1>1, <2>1, Zenon
  <2>5. Without(acc[n])
    BY <1>1, <1>3, <2>2, <2>3, <2>4, Zenon
  <2> QED
    BY <2>1, <2>5
<1>6. Len(s) \in P
  <2>1. P \in SUBSET Nat
    OBVIOUS
  <2> HIDE DEF P
  <2>2. \A n \in 0..Len(s) : n \in P
    BY <1>0, <1>4, <1>5, <2>1, UpTo
  <2> QED
    BY <1>0, <2>2
<1>7. Without(Levels(s))
  <2>1. Len(s) <= Len(s)
    BY <1>0
  <2> QED
    BY <1>1, <1>6, <2>1, Zenon
<1> QED
  BY <1>7, Zenon DEF Without, Contains

(* What a level can be. *)
LEMMA WildcardLevels ==
    ASSUME NEW l \in Seq(Byte), NEW c \in Byte
    PROVE  /\ l = <<c>> => Contains(l, c) /\ Len(l) = 1
           /\ Contains(l, c) /\ Len(l) = 1 => l = <<c>>
           /\ Contains(l, c) /\ ~(Len(l) > 1) => l = <<c>>
<1>0. Len(l) \in Nat
  OBVIOUS
<1>1. ASSUME l = <<c>>
      PROVE  Contains(l, c) /\ Len(l) = 1
  <2>1. Len(l) = 1 /\ l[1] = c /\ 1 \in 1..1
    BY <1>1
  <2> QED
    BY <2>1, Zenon DEF Contains
<1>2. ASSUME Contains(l, c), Len(l) = 1
      PROVE  l = <<c>>
  <2>1. PICK i \in 1..Len(l) : l[i] = c
    BY <1>2, Zenon DEF Contains
  <2>2. i = 1
    BY <1>2
  <2> QED
    BY <1>2, <2>1, <2>2
<1>3. ASSUME Contains(l, c), ~(Len(l) > 1)
      PROVE  Len(l) = 1
  <2>1. PICK i : i \in 1..Len(l)
    BY <1>3, Zenon DEF Contains
  <2>2. \A m \in Nat : \A j \in 1..m : ~(m > 1) => m = 1
    BY ONLY SMT
  <2> QED
    BY <1>0, <1>3, <2>1, <2>2, Zenon
<1> QED
  BY <1>1, <1>2, <1>3, Zenon

(* The filters taken to be valid are those MQTT allows. *)
LEMMA ValidMeansWellFormed ==
    ASSUME NEW filter \in Seq(Byte)
    PROVE  ValidFilter(filter) <=> WellFormed(filter)
<1> DEFINE levels == Levels(filter)
           n == Len(levels)
<1>1. /\ levels \in Seq(Seq(Byte)) /\ levels # << >> /\ n \in Nat
      /\ DOMAIN levels = 1..n /\ \A i \in 1..n : levels[i] \in Seq(Byte)
  <2>1. levels \in Seq(Seq(Byte)) /\ levels # << >>
    BY LevelsTyped, Zenon
  <2> HIDE DEF levels
  <2> QED
    BY <2>1
<1>2. n \in 1..n /\ n - 1 \in Nat /\ \A i \in 1..n : i = n \/ (i # n /\ i \in 1..(n - 1))
  <2>1. n # 0
    BY <1>1, EmptySeq
  <2>2. n \in Nat
    BY <1>1
  <2> HIDE DEF n
  <2> QED
    BY ONLY <2>1, <2>2, SMT
<1>3. \A i \in 1..(n - 1) : i \in 1..n /\ i # n
  <2>1. n \in Nat
    BY <1>1
  <2> HIDE DEF n
  <2> QED
    BY ONLY <2>1, SMT
<1>4. Plus \in Byte /\ Hash \in Byte
  BY DEF Plus, Hash, Byte
<1>5. Last(levels) = levels[n]
  BY DEF Last
<1> HIDE DEF levels
<1>6. ASSUME ValidFilter(filter), NEW i \in 1..n
      PROVE  /\ Contains(levels[i], Plus) => levels[i] = <<Plus>>
             /\ Contains(levels[i], Hash) => levels[i] = <<Hash>> /\ i = n
  <2>1. CASE i = n
    <3>1. Len(levels[n]) = 1 \/ ~HasWildcards(levels[n])
      BY <1>5, <1>6, Zenon DEF ValidFilter, levels
    <3> QED
      BY <1>1, <1>4, <2>1, <3>1, WildcardLevels, Zenon DEF HasWildcards
  <2>2. CASE i # n
    <3>1. /\ ~Contains(levels[i], Hash)
          /\ ~(Len(levels[i]) > 1 /\ Contains(levels[i], Plus))
      BY <1>2, <1>6, <2>2, Zenon DEF ValidFilter, levels
    <3> QED
      BY <1>1, <1>4, <3>1, WildcardLevels, Zenon
  <2> QED
    BY <2>1, <2>2
<1>7. ASSUME WellFormed(filter)
      PROVE  /\ Len(levels[n]) = 1 \/ ~HasWildcards(levels[n])
             /\ \A i \in 1..(n - 1) :
                  /\ ~Contains(levels[i], Hash)
                  /\ ~(Len(levels[i]) > 1 /\ Contains(levels[i], Plus))
  <2>1. \A i \in 1..n : /\ Contains(levels[i], Plus) => levels[i] = <<Plus>>
                        /\ Contains(levels[i], Hash) => levels[i] = <<Hash>> /\ i = n
    BY <1>1, <1>7, Zenon DEF WellFormed, levels
  <2>2. Len(levels[n]) = 1 \/ ~HasWildcards(levels[n])
    BY <1>1, <1>2, <1>4, <2>1, WildcardLevels, Zenon DEF HasWildcards
  <2>3. ASSUME NEW i \in 1..(n - 1)
        PROVE  /\ ~Contains(levels[i], Hash)
               /\ ~(Len(levels[i]) > 1 /\ Contains(levels[i], Plus))
    <3>1. i \in 1..n /\ i # n
      BY <1>3
    <3>2. ~(1 > 1)
      OBVIOUS
    <3>3. levels[i] = <<Plus>> => Len(levels[i]) = 1
      BY <1>1, <1>4, <3>1, WildcardLevels, Zenon
    <3> QED
      BY <2>1, <3>1, <3>2, <3>3, Zenon
  <2> QED
    BY <2>2, <2>3
<1> QED
  BY <1>1, <1>5, <1>6, <1>7, Zenon DEF ValidFilter, WellFormed, levels

-----------------------------------------------------------------------------
(* What the loop of matches returns for a filter that MQTT allows: only its *)
(* last level may be "#".                                                  *)
LEMMA WholeMatch ==
    ASSUME NEW filter \in Seq(Byte), WellFormed(filter), NEW topics \in Seq(Seq(Byte))
    PROVE  LET filters == Levels(filter)
               n == Len(filters)
           IN  /\ n \in Nat /\ n \in 1..n
               /\ \A i \in 1..n : filters[i] = <<Hash>> => i = n
               /\ Last(filters) = <<Hash>> =>
                     (Matched(topics, filters) <=> \A j \in 1..(n - 1) : Step(topics, filters, j))
               /\ Last(filters) # <<Hash>> =>
                     (Matched(topics, filters) <=>
                         Len(topics) <= n /\ \A j \in 1..n : Step(topics, filters, j))
<1> DEFINE filters == Levels(filter)
           n == Len(filters)
<1>1. /\ filters \in Seq(Seq(Byte)) /\ filters # << >> /\ n \in Nat
      /\ DOMAIN filters = 1..n /\ \A i \in 1..n : filters[i] \in Seq(Byte)
  <2>1. filters \in Seq(Seq(Byte)) /\ filters # << >>
    BY LevelsTyped, Zenon
  <2> HIDE DEF filters
  <2> QED
    BY <2>1
<1>2. n \in 1..n
  BY <1>1, EmptySeq
<1>3. Last(filters) = filters[n]
  BY DEF Last
<1> HIDE DEF filters
<1>4. \A i \in 1..n : filters[i] = <<Hash>> => i = n
  <2>1. Hash \in Byte
    BY DEF Hash, Byte
  <2> QED
    BY <1>1, <2>1, WildcardLevels, Zenon DEF WellFormed, filters
<1>5. Matched(topics, filters) <=> Ahead(topics, filters, 1)
  BY <1>1, MatchedMeans, Zenon
<1>6. ASSUME filters[n] = <<Hash>>
      PROVE  Ahead(topics, filters, 1) <=> \A j \in 1..(n - 1) : Step(topics, filters, j)
  <2>1. ASSUME Step(topics, filters, n)
        PROVE  FALSE
    <3>1. <<Hash>> # <<Plus>>
      BY DEF Hash, Plus
    <3> QED
      BY <1>6, <2>1, <3>1, Zenon DEF Step
  <2> QED
    BY <1>2, <1>4, <1>6, <2>1, Zenon DEF Ahead
<1>7. ASSUME filters[n] # <<Hash>>
      PROVE  Ahead(topics, filters, 1) <=> Len(topics) <= n /\ \A j \in 1..n : Step(topics, filters, j)
  BY <1>4, <1>7, Zenon DEF Ahead
<1> QED
  BY <1>1, <1>2, <1>3, <1>4, <1>5, <1>6, <1>7, Zenon DEF filters

(* No level of a topic without wildcards is "#". *)
LEMMA OrdinaryLevels ==
    ASSUME NEW t \in Seq(Byte), Ordinary(t)
    PROVE  /\ Levels(t) \in Seq(Seq(Byte)) /\ Len(Levels(t)) \in Nat
           /\ \A j \in 1..Len(Levels(t)) : Levels(t)[j] # <<Hash>>
<1>1. Levels(t) \in Seq(Seq(Byte)) /\ Len(Levels(t)) \in Nat
  BY LevelsTyped
<1>2. Hash \in Byte
  BY DEF Hash, Byte
<1>3. ~Contains(t, Hash)
  BY Zenon DEF Ordinary, ValidTopic, HasWildcards
<1>4. \A j \in 1..Len(Levels(t)) : ~Contains(Levels(t)[j], Hash)
  BY <1>2, <1>3, LevelsWithin, Zenon
<1>5. Contains(<<Hash>>, Hash)
  <2>1. <<Hash>> \in Seq(Byte)
    BY <1>2
  <2> QED
    BY <1>2, <2>1, WildcardLevels, Zenon
<1> QED
  BY <1>1, <1>4, <1>5, Zenon

(* All of 1..p are at most q. *)
LEMMA AtMost ==
    ASSUME NEW p \in Nat, NEW q \in Nat
    PROVE  (\A j \in 1..p : j <= q) <=> p <= q
<1>1. CASE p = 0
  BY <1>1
<1>2. CASE p # 0
  <2>1. p \in 1..p
    BY <1>2
  <2>2. \A j \in 1..p : j <= p /\ j \in Nat
    OBVIOUS
  <2>3. p <= q => \A j \in 1..p : j <= q
    OBVIOUS
  <2> QED
    BY <2>1, <2>3, Zenon
<1> QED
  BY <1>1, <1>2

(* A filter that is valid matches the topics MQTT says it does. *)
LEMMA MatchesMeansCovers ==
    ASSUME NEW f \in Seq(Byte), WellFormed(f), NEW t \in Seq(Byte), Ordinary(t)
    PROVE  Matches(t, f) <=> Covers(f, t)
<1> DEFINE filters == Levels(f)
           topics == Levels(t)
           n == Len(filters)
           k == Len(topics)
           Same(j) == filters[j] \in {<<Plus>>, topics[j]}
<1>1. topics \in Seq(Seq(Byte)) /\ k \in Nat /\ \A j \in 1..k : topics[j] # <<Hash>>
  BY OrdinaryLevels, Zenon
<1>2. /\ n \in Nat /\ n \in 1..n
      /\ Last(filters) = <<Hash>> =>
            (Matched(topics, filters) <=> \A j \in 1..(n - 1) : Step(topics, filters, j))
      /\ Last(filters) # <<Hash>> =>
            (Matched(topics, filters) <=>
                Len(topics) <= n /\ \A j \in 1..n : Step(topics, filters, j))
  BY <1>1, WholeMatch, Zenon
<1>3. Matches(t, f) <=> Matched(topics, filters)
  BY Zenon DEF Matches, Ordinary
<1>4. \A j \in Nat \ {0} : Step(topics, filters, j) <=> j <= k /\ Same(j)
  <2>1. \A j \in Nat \ {0} : j <= k => j \in 1..k
    BY <1>1
  <2> QED
    BY <1>1, <2>1, Zenon DEF Step
<1>5. Covers(f, t) <=>
         IF Last(filters) = <<Hash>> THEN k >= n - 1 /\ \A j \in 1..(n - 1) : Same(j)
         ELSE k = n /\ \A j \in 1..n : Same(j)
  BY Zenon DEF Covers
<1> HIDE DEF filters, topics, Same, n, k
<1>6. \A m \in Nat : \A j \in 1..m : j \in Nat \ {0}
  BY ONLY SMT
<1>7. n - 1 \in Nat
  BY ONLY <1>2, SMT
<1>8. (\A j \in 1..(n - 1) : j <= k) <=> k >= n - 1
  <2>1. (\A j \in 1..(n - 1) : j <= k) <=> n - 1 <= k
    BY <1>1, <1>7, AtMost, Zenon
  <2>2. n - 1 <= k <=> k >= n - 1
    BY ONLY <1>1, <1>2, SMT
  <2> QED
    BY <2>1, <2>2, Zenon
<1>9. (k <= n /\ \A j \in 1..n : j <= k) <=> k = n
  <2>1. (\A j \in 1..n : j <= k) <=> n <= k
    BY <1>1, <1>2, AtMost, Zenon
  <2>2. (k <= n /\ n <= k) <=> k = n
    BY ONLY <1>1, <1>2, SMT
  <2> QED
    BY <2>1, <2>2, Zenon
<1>10. CASE Last(filters) = <<Hash>>
  BY <1>2, <1>3, <1>4, <1>5, <1>6, <1>7, <1>8, <1>10, Zenon
<1>11. CASE Last(filters) # <<Hash>>
  BY <1>2, <1>3, <1>4, <1>5, <1>6, <1>9, <1>11, Zenon DEF k
<1> QED
  BY <1>10, <1>11

(* What a filter that is matched covers is covered by the filter it matches. *)
LEMMA MatchesCarriesOver ==
    ASSUME NEW f \in Seq(Byte), WellFormed(f), NEW g \in Seq(Byte), WellFormed(g),
           NEW t \in Seq(Byte), Matches(g, f), Covers(g, t)
    PROVE  Covers(f, t)
<1> DEFINE fs == Levels(f)
           gs == Levels(g)
           ts == Levels(t)
           n == Len(fs)
           m == Len(gs)
           k == Len(ts)
<1>1. ts \in Seq(Seq(Byte)) /\ k \in Nat /\ gs \in Seq(Seq(Byte))
  BY LevelsTyped
<1>2. /\ n \in Nat /\ n \in 1..n
      /\ Last(fs) = <<Hash>> =>
            (Matched(gs, fs) <=> \A j \in 1..(n - 1) : Step(gs, fs, j))
      /\ Last(fs) # <<Hash>> =>
            (Matched(gs, fs) <=> Len(gs) <= n /\ \A j \in 1..n : Step(gs, fs, j))
  BY <1>1, WholeMatch, Zenon
<1>3. m \in Nat /\ m \in 1..m
  BY <1>1, WholeMatch, Zenon
<1>4. Matched(gs, fs)
  BY Zenon DEF Matches
<1>5. IF Last(gs) = <<Hash>> THEN k >= m - 1 /\ \A j \in 1..(m - 1) : gs[j] \in {<<Plus>>, ts[j]}
      ELSE k = m /\ \A j \in 1..m : gs[j] \in {<<Plus>>, ts[j]}
  BY Zenon DEF Covers
<1>6. Last(gs) = gs[m] /\ Last(fs) = fs[n]
  BY DEF Last
<1>7. Covers(f, t) <=>
         IF Last(fs) = <<Hash>> THEN k >= n - 1 /\ \A j \in 1..(n - 1) : fs[j] \in {<<Plus>>, ts[j]}
         ELSE k = n /\ \A j \in 1..n : fs[j] \in {<<Plus>>, ts[j]}
  BY Zenon DEF Covers
<1> HIDE DEF fs, gs, ts, n, m, k
(* A level of f that matches one of g is not at the "#" of g. *)
<1>8. ASSUME NEW j \in Nat \ {0}, Step(gs, fs, j)
      PROVE  j <= m /\ j <= k /\ fs[j] \in {<<Plus>>, ts[j]} /\ (j = m => k = m /\ Last(gs) # <<Hash>>)
  <2>1. j <= m /\ gs[j] # <<Hash>> /\ (fs[j] = <<Plus>> \/ fs[j] = gs[j])
    BY <1>8, Zenon DEF Step, m
  <2>2. CASE Last(gs) = <<Hash>>
    <3>1. j # m
      BY <1>6, <2>1, <2>2, Zenon
    <3>2. k >= m - 1 /\ \A i \in 1..(m - 1) : gs[i] \in {<<Plus>>, ts[i]}
      BY <1>5, <2>2, Zenon
    <3>3. j \in 1..(m - 1) /\ j <= k
      BY ONLY <1>1, <1>3, <1>8, <2>1, <3>1, <3>2, SMT
    <3> QED
      BY <2>1, <3>1, <3>2, <3>3, Zenon
  <2>3. CASE Last(gs) # <<Hash>>
    <3>1. k = m /\ \A i \in 1..m : gs[i] \in {<<Plus>>, ts[i]}
      BY <1>5, <2>3, Zenon
    <3>2. j \in 1..m
      BY ONLY <1>3, <1>8, <2>1, SMT
    <3> QED
      BY <2>1, <2>3, <3>1, <3>2, Zenon
  <2> QED
    BY <2>2, <2>3
<1>9. \A i \in Nat : \A j \in 1..i : j \in Nat \ {0}
  BY ONLY SMT
<1>10. n - 1 \in Nat
  BY ONLY <1>2, SMT
<1>11. CASE Last(fs) = <<Hash>>
  <2>1. \A j \in 1..(n - 1) : Step(gs, fs, j)
    BY <1>2, <1>4, <1>11, Zenon
  <2>2. \A j \in 1..(n - 1) : j <= k /\ fs[j] \in {<<Plus>>, ts[j]}
    BY <1>8, <1>9, <1>10, <2>1, Zenon
  <2>3. k >= n - 1
    <3>1. n - 1 <= k
      BY <1>1, <1>10, <2>2, AtMost, Zenon
    <3> QED
      BY ONLY <1>1, <1>2, <3>1, SMT
  <2> QED
    BY <1>7, <1>11, <2>2, <2>3, Zenon
<1>12. CASE Last(fs) # <<Hash>>
  <2>1. m <= n /\ \A j \in 1..n : Step(gs, fs, j)
    BY <1>2, <1>4, <1>12, Zenon DEF m
  <2>2. \A j \in 1..n : /\ j <= m /\ fs[j] \in {<<Plus>>, ts[j]}
                        /\ j = m => k = m
    BY <1>2, <1>8, <1>9, <2>1, Zenon
  <2>3. n = m
    <3>1. n <= m
      BY <1>2, <2>2, Zenon
    <3> QED
      BY ONLY <1>2, <1>3, <2>1, <3>1, SMT
  <2>4. k = n
    BY <1>2, <2>2, <2>3, Zenon
  <2> QED
    BY <1>7, <1>12, <2>2, <2>4, Zenon
<1> QED
  BY <1>11, <1>12

-----------------------------------------------------------------------------
(* What is read takes its room: the bytes a field of a kind takes.         *)
Width(kind, v) ==
    CASE kind \in {"u8", "qos"} -> 1
      [] kind = "u16" -> 2
      [] kind \in {"bytes", "string"} -> 2 + Len(v)

(* A number ends behind its bytes. *)
LEMMA NumbersTake ==
    ASSUME NEW b \in Seq(Byte), NEW from \in 0..Len(b)
    PROVE  /\ ReadU8(b, from).error = "none" => ReadU8(b, from).next = from + 1
           /\ ReadU16(b, from).error = "none" => ReadU16(b, from).next = from + 2
<1>1. ASSUME NEW width, NEW value, Fixed(b, from, width, value).error = "none"
      PROVE  Fixed(b, from, width, value).next = from + width
  <2>1. CASE Len(b) - from < width
    <3>1. Fixed(b, from, width, value) = [error |-> "MalformedPacket"]
      BY <2>1, Zenon DEF Fixed, Err
    <3>2. [error |-> "MalformedPacket"].error = "MalformedPacket"
      OBVIOUS
    <3> QED
      BY <1>1, <3>1, <3>2
  <2>2. CASE ~(Len(b) - from < width)
    <3> DEFINE next == from + width
    <3>1. Fixed(b, from, width, value) = [error |-> "none", value |-> value, next |-> next]
      BY <2>2, Zenon DEF Fixed
    <3> HIDE DEF next
    <3>2. Fixed(b, from, width, value).next = next
      BY <3>1
    <3> QED
      BY <3>2, Zenon DEF next
  <2> QED
    BY <2>1, <2>2, Zenon
<1> QED
  BY <1>1, Zenon DEF ReadU8, ReadU16

(* A byte string ends behind its length prefix and its bytes. *)
LEMMA BytesTake ==
    ASSUME NEW b \in Seq(Byte), NEW from \in 0..Len(b), ReadBytes(b, from).error = "none"
    PROVE  ReadBytes(b, from).next = from + (2 + Len(ReadBytes(b, from).value))
<1> DEFINE l == ReadU16(b, from)
<1>1. /\ l \in FieldSet(from + 1, Len(b))
      /\ l.error = "none" => l.value \in Nat /\ l.next = from + 2
  BY NumbersTyped, NumbersTake, Zenon
<1>2. ReadBytes(b, from) = Prefixed(b, l)
  BY DEF ReadBytes
<1> HIDE DEF l
<1>4. l.error = "none"
  <2> SUFFICES ASSUME l.error # "none"
               PROVE  FALSE
    OBVIOUS
  <2>1. Prefixed(b, l) = l
    BY DEF Prefixed
  <2> QED
    BY <1>2, <2>1
<1>5. l.value \in Nat /\ l.next \in (from + 1)..Len(b)
  BY <1>1, <1>4 DEF FieldSet, FieldErrors
<1>6. ~(l.value > Len(b) - l.next)
  <2> SUFFICES ASSUME l.value > Len(b) - l.next
               PROVE  FALSE
    OBVIOUS
  <2>1. Prefixed(b, l) = [error |-> "MalformedPacket"]
    BY <1>4 DEF Prefixed, Err
  <2> QED
    BY <1>2, <2>1
<1> DEFINE v == SubSeq(b, l.next + 1, l.next + l.value)
           m == l.next + l.value
<1>7. Prefixed(b, l) = [error |-> "none", next |-> m, value |-> v]
  BY <1>4, <1>6, Zenon DEF Prefixed
<1>8. Prefixed(b, l).value = v /\ Prefixed(b, l).next = m
  <2> HIDE DEF v, m
  <2> QED
    BY <1>7
<1>9. Len(v) = l.value
  BY <1>5, <1>6
<1>10. m = from + (2 + l.value)
  <2>1. l.value \in Nat /\ from \in Nat /\ l.next = from + 2
    BY <1>1, <1>4, <1>5
  <2> QED
    BY ONLY <2>1, SMT
<1> HIDE DEF v, m
<1> QED
  BY <1>2, <1>8, <1>9, <1>10, Zenon

(* Every field ends its width behind its start. *)
LEMMA FieldTakes ==
    ASSUME NEW b \in Seq(Byte), NEW from \in 0..Len(b), NEW kind \in FieldKinds,
           Field(b, from, kind).error = "none"
    PROVE  Field(b, from, kind).next = from + Width(kind, Field(b, from, kind).value)
<1>1. CASE kind = "u8"
  <2>1. Field(b, from, kind) = ReadU8(b, from) /\ \A v : Width(kind, v) = 1
    BY <1>1 DEF Field, Width
  <2> QED
    BY <2>1, NumbersTake, Zenon
<1>2. CASE kind = "u16"
  <2>1. Field(b, from, kind) = ReadU16(b, from) /\ \A v : Width(kind, v) = 2
    BY <1>2 DEF Field, Width
  <2> QED
    BY <2>1, NumbersTake, Zenon
<1>3. CASE kind = "bytes"
  <2>1. Field(b, from, kind) = ReadBytes(b, from) /\ \A v : Width(kind, v) = 2 + Len(v)
    BY <1>3 DEF Field, Width
  <2> QED
    BY <2>1, BytesTake, Zenon
<1>4. CASE kind = "string"
  <2>1. Field(b, from, kind) = ReadString(b, from) /\ \A v : Width(kind, v) = 2 + Len(v)
    BY <1>4 DEF Field, Width
  <2> DEFINE s == ReadBytes(b, from)
  <2>2. Utf8Only(s).error = "none"
    BY <2>1, Zenon DEF ReadString
  <2> HIDE DEF s
  <2>3. s.error = "none" /\ Utf8Only(s) = s
    BY <2>2 DEF Utf8Only, Err
  <2>4. s.next = from + (2 + Len(s.value)) /\ Field(b, from, kind) = s
    BY <2>1, <2>3, BytesTake, Zenon DEF s, ReadString
  <2> QED
    BY <2>1, <2>4, Zenon
<1>5. CASE kind = "qos"
  <2>1. Field(b, from, kind) = ReadQoS(b, from) /\ \A v : Width(kind, v) = 1
    BY <1>5 DEF Field, Width
  <2> DEFINE q == ReadU8(b, from)
  <2>2. QoSOnly(q).error = "none"
    BY <2>1, Zenon DEF ReadQoS
  <2> HIDE DEF q
  <2>3. q.error = "none" /\ QoSOnly(q) = q
    BY <2>2 DEF QoSOnly, Err
  <2>4. q.next = from + 1 /\ Field(b, from, kind) = q
    BY <2>1, <2>3, NumbersTake, Zenon DEF q, ReadQoS
  <2> QED
    BY <2>1, <2>4, Zenon
<1> QED
  BY <1>1, <1>2, <1>3, <1>4, <1>5 DEF FieldKinds

(* The values take the bytes from one place to another. *)
Taken(kinds, values, from, next) ==
    \E at \in [0..Len(kinds) -> Nat] :
        /\ at[0] = from /\ at[Len(kinds)] = next
        /\ \A i \in 1..Len(kinds) : at[i] = at[i - 1] + Width(kinds[i], values[i])

(* So do all fields of a list, by induction on the kinds. *)
LEMMA FieldsTake ==
    ASSUME NEW b \in Seq(Byte), NEW from \in 0..Len(b), NEW kinds \in Seq(FieldKinds),
           Fields(b, from, kinds).error = "none"
    PROVE  Taken(kinds, Fields(b, from, kinds).values, from, Fields(b, from, kinds).next)
<1>1. PICK acc \in [0..Len(kinds) -> RunSet(from, Len(b))] :
          /\ acc[0] = [error |-> "none", next |-> from, values |-> << >>]
          /\ acc[Len(kinds)] = Fields(b, from, kinds)
          /\ \A i \in 1..Len(kinds) : acc[i] = NextField(b, acc[i - 1], kinds[i])
  BY FieldRuns, Zenon
<1> DEFINE n == Len(kinds)
           Grows(i, v) == acc[i].next = acc[i - 1].next + Width(kinds[i], v[i])
           Done(i, v) == /\ Len(v) = i
                         /\ \A j \in 0..i : acc[j].error = "none"
                         /\ \A j \in 1..i : Grows(j, v)
           P == {i \in Nat : i <= n => (acc[i].error = "none" => Done(i, acc[i].values))}
<1>2. n \in Nat /\ \A i \in 1..n : kinds[i] \in FieldKinds
  OBVIOUS
<1> HIDE DEF n
<1>3. 0 \in P
  <2>1. acc[0].values = << >> /\ acc[0].error = "none"
    BY <1>1
  <2>2. \A j \in 0..0 : j = 0
    OBVIOUS
  <2>3. \A j \in 1..0 : FALSE
    OBVIOUS
  <2>4. Len(<< >>) = 0
    OBVIOUS
  <2>5. Done(0, acc[0].values)
    <3> HIDE DEF Grows
    <3> QED
      BY <2>1, <2>2, <2>3, <2>4, Zenon
  <2> HIDE DEF Done
  <2> QED
    BY <2>5
<1>4. ASSUME NEW i \in 1..n, i - 1 \in P
      PROVE  i \in P
  <2>0. /\ i \in Nat /\ i - 1 \in Nat /\ i - 1 \in 0..n /\ i - 1 <= n /\ i \in 0..n
        /\ i - 1 + 1 = i
    BY <1>2
  <2>1. SUFFICES ASSUME acc[i].error = "none"
                 PROVE  Done(i, acc[i].values)
    <3> HIDE DEF Done
    <3> QED
      BY <2>0
  <2> DEFINE r == acc[i - 1]
             f == Field(b, r.next, kinds[i])
  <2>2. acc[i] = NextField(b, r, kinds[i])
    BY <1>1, Zenon DEF n
  <2>3. r \in RunSet(from, Len(b))
    BY <1>1, <2>0, Zenon DEF n
  <2> HIDE DEF r
  <2>4. r.error = "none"
    <3> SUFFICES ASSUME r.error # "none"
                 PROVE  FALSE
      OBVIOUS
    <3>1. acc[i] = r
      BY <2>2, Zenon DEF NextField
    <3> QED
      BY <2>1, <3>1, Zenon
  <2>5. r.next \in 0..Len(b) /\ r.values \in Seq(ValueSet)
    <3>1. r.next \in from..Len(b) /\ r.values \in Seq(ValueSet)
      BY <2>3, <2>4 DEF RunSet, FieldErrors
    <3> QED
      BY <3>1
  <2>6. acc[i] = Extended(r, f)
    BY <2>2, <2>4, Zenon DEF NextField
  <2>7. /\ f \in FieldSet(r.next + 1, Len(b))
        /\ f.error = "none" => f.next = r.next + Width(kinds[i], f.value)
    <3>1. kinds[i] \in FieldKinds
      BY <1>2, Zenon
    <3> QED
      BY <2>5, <3>1, FieldTyped, FieldTakes, Zenon
  <2> HIDE DEF f
  <2>8. f.error = "none"
    <3> SUFFICES ASSUME f.error # "none"
                 PROVE  FALSE
      OBVIOUS
    <3>1. acc[i] = f
      BY <2>6, Zenon DEF Extended
    <3> QED
      BY <2>1, <3>1, Zenon
  <2> DEFINE v == Append(r.values, f.value)
  <2>9. acc[i].values = v /\ acc[i].next = f.next
    <3>1. acc[i] = [r EXCEPT !.next = f.next, !.values = Append(r.values, f.value)]
      BY <2>6, <2>8 DEF Extended
    <3>2. r \in [error : {"none"}, next : from..Len(b), values : Seq(ValueSet)]
      BY <2>3, <2>4 DEF RunSet, FieldErrors
    <3> QED
      BY <3>1, <3>2
  <2>10. Done(i - 1, r.values)
    <3>1. i - 1 \in P /\ i - 1 <= n
      BY <1>4, <2>0
    <3> HIDE DEF Done
    <3> QED
      BY <2>4, <3>1 DEF r
  <2>11. f.value \in ValueSet
    BY <2>7, <2>8 DEF FieldSet, FieldErrors
  <2>12. Len(v) = i /\ v[i] = f.value /\ \A j \in 1..(i - 1) : v[j] = r.values[j]
    <3>1. Len(r.values) = i - 1
      BY <2>10, Zenon
    <3> QED
      BY <2>0, <2>5, <2>11, <3>1
  <2> HIDE DEF v
  <2>13. ASSUME NEW j \in 1..i
         PROVE  Grows(j, v)
    <3>1. CASE j = i
      BY <2>7, <2>8, <2>9, <2>12, <3>1, Zenon DEF r
    <3>2. CASE j # i
      <4>1. j \in 1..(i - 1)
        BY <2>0, <3>2
      <4> QED
        BY <2>10, <2>12, <4>1, Zenon
    <3> QED
      BY <3>1, <3>2
  <2>14. ASSUME NEW j \in 0..i
         PROVE  acc[j].error = "none"
    <3>1. j = i \/ j \in 0..(i - 1)
      BY <2>0
    <3> QED
      BY <2>1, <2>10, <3>1, Zenon
  <2> HIDE DEF Grows
  <2> QED
    BY <2>9, <2>12, <2>13, <2>14, Zenon
<1>5. \A i \in 0..n : i \in P
  <2>1. P \in SUBSET Nat
    OBVIOUS
  <2> HIDE DEF P
  <2> QED
    BY <1>2, <1>3, <1>4, <2>1, UpTo
<1>6. Done(n, acc[n].values)
  <2>1. n \in P /\ n \in 0..n /\ acc[n].error = "none"
    BY <1>1, <1>2, <1>5 DEF n
  <2> HIDE DEF Done
  <2> QED
    BY <1>2, <2>1
<1> DEFINE at == [j \in 0..n |-> acc[j].next]
           values == acc[n].values
<1>7. at \in [0..n -> Nat]
  <2>1. ASSUME NEW j \in 0..n
        PROVE  acc[j].next \in Nat
    <3>1. acc[j] \in RunSet(from, Len(b)) /\ acc[j].error = "none"
      BY <1>1, <1>6, Zenon DEF n
    <3>2. acc[j].next \in from..Len(b)
      BY <3>1 DEF RunSet, FieldErrors
    <3> QED
      BY <3>2
  <2> QED
    BY <2>1, Zenon
<1>8. at[0] = from /\ at[n] = acc[n].next
  <2>1. 0 \in 0..n /\ n \in 0..n
    BY <1>2
  <2>2. acc[0].next = from
    BY <1>1
  <2> QED
    BY <2>1, <2>2, Zenon
<1>9. ASSUME NEW i \in 1..n
      PROVE  at[i] = at[i - 1] + Width(kinds[i], values[i])
  <2>1. i \in 0..n /\ i - 1 \in 0..n
    BY <1>2
  <2>2. at[i] = acc[i].next /\ at[i - 1] = acc[i - 1].next
    BY <2>1, Zenon
  <2> QED
    BY <1>6, <2>2, Zenon
<1>10. acc[n] = Fields(b, from, kinds)
  BY <1>1, Zenon DEF n
<1> HIDE DEF at, values
<1>11. Taken(kinds, values, from, acc[n].next)
  BY <1>7, <1>8, <1>9, Zenon DEF Taken, n
<1> QED
  BY <1>10, <1>11, Zenon DEF values

(* Lists of up to three fields. *)
LEMMA TakenNone ==
    ASSUME NEW v, NEW from, NEW next, Taken(<< >>, v, from, next)
    PROVE  next = from
<1>1. Len(<< >>) = 0
  OBVIOUS
<1> QED
  BY <1>1, Zenon DEF Taken

LEMMA TakenOne ==
    ASSUME NEW k, NEW v, NEW from, NEW next, Taken(<<k>>, v, from, next)
    PROVE  next = from + Width(k, v[1])
<1>1. Len(<<k>>) = 1 /\ <<k>>[1] = k /\ 1 \in 1..1 /\ 1 - 1 = 0
  OBVIOUS
<1> QED
  BY <1>1, Zenon DEF Taken

LEMMA TakenTwo ==
    ASSUME NEW k, NEW l, NEW v, NEW from, NEW next, Taken(<<k, l>>, v, from, next)
    PROVE  next = (from + Width(k, v[1])) + Width(l, v[2])
<1>1. /\ Len(<<k, l>>) = 2 /\ <<k, l>>[1] = k /\ <<k, l>>[2] = l
      /\ 1 \in 1..2 /\ 2 \in 1..2 /\ 1 - 1 = 0 /\ 2 - 1 = 1
  OBVIOUS
<1>2. PICK at : /\ at[0] = from /\ at[2] = next
                /\ \A i \in 1..2 : at[i] = at[i - 1] + Width(<<k, l>>[i], v[i])
  BY <1>1, Zenon DEF Taken
<1>3. at[1] = at[0] + Width(k, v[1]) /\ at[2] = at[1] + Width(l, v[2])
  BY <1>1, <1>2, Zenon
<1> QED
  BY <1>2, <1>3, Zenon

LEMMA TakenThree ==
    ASSUME NEW k, NEW l, NEW m, NEW v, NEW from, NEW next, Taken(<<k, l, m>>, v, from, next)
    PROVE  next = ((from + Width(k, v[1])) + Width(l, v[2])) + Width(m, v[3])
<1>1. /\ Len(<<k, l, m>>) = 3 /\ <<k, l, m>>[1] = k /\ <<k, l, m>>[2] = l /\ <<k, l, m>>[3] = m
      /\ 1 \in 1..3 /\ 2 \in 1..3 /\ 3 \in 1..3 /\ 1 - 1 = 0 /\ 2 - 1 = 1 /\ 3 - 1 = 2
  OBVIOUS
<1>2. PICK at : /\ at[0] = from /\ at[3] = next
                /\ \A i \in 1..3 : at[i] = at[i - 1] + Width(<<k, l, m>>[i], v[i])
  BY <1>1, Zenon DEF Taken
<1>3. /\ at[1] = at[0] + Width(k, v[1]) /\ at[2] = at[1] + Width(l, v[2])
      /\ at[3] = at[2] + Width(m, v[3])
  BY <1>1, <1>2, Zenon
<1> QED
  BY <1>2, <1>3, Zenon

(* Groups lie one behind the other, and end within the bytes. *)
Laid(kinds, items, from, end) ==
    \E at \in [1..(Len(items) + 1) -> Nat] :
        /\ at[1] = from /\ at[Len(items) + 1] <= end
        /\ \A i \in 1..Len(items) : Taken(kinds, items[i], at[i], at[i + 1])

(* One group in front of the groups behind it. *)
LEMMA GroupLies ==
    ASSUME NEW b \in Seq(Byte), NEW kinds \in Seq(FieldKinds), kinds # << >>,
           NEW i \in 0..Len(b), NEW group,
           \A j \in (i + 1)..Len(b) : group[j] \in GroupSet /\ Laid(kinds, group[j].items, j, Len(b))
    PROVE  Laid(kinds, Grouped(group, i, Fields(b, i, kinds)).items, i, Len(b))
<1> DEFINE g == Fields(b, i, kinds)
<1>1. g \in RunSet(i + 1, Len(b))
  BY FieldsTyped, Zenon
<1>2. g.error = "none" => Taken(kinds, g.values, i, g.next)
  BY FieldsTake, Zenon
<1>0. i \in Nat /\ Len(b) \in Nat /\ i <= Len(b)
  OBVIOUS
<1> HIDE DEF g
<1>3. CASE g.error # "none"
  <2>1. Grouped(group, i, g).items = << >>
    BY <1>3 DEF Grouped
  <2>2. Laid(kinds, << >>, i, Len(b))
    <3> DEFINE at == [j \in 1..1 |-> i]
    <3>1. at \in [1..1 -> Nat] /\ at[1] = i /\ at[1] <= Len(b)
      BY <1>0
    <3>2. Len(<< >>) = 0 /\ Len(<< >>) + 1 = 1 /\ \A j \in 1..0 : FALSE
      OBVIOUS
    <3> HIDE DEF at
    <3> QED
      BY <3>1, <3>2, Zenon DEF Laid
  <2> QED
    BY <2>1, <2>2, Zenon DEF g
<1>4. CASE g.error = "none"
  <2>1. g.next \in (i + 1)..Len(b) /\ g.values \in Seq(ValueSet)
    BY <1>1, <1>4 DEF RunSet, FieldErrors
  <2> DEFINE q == group[g.next]
             v == <<g.values>> \o q.items
  <2>2. q \in GroupSet /\ Laid(kinds, q.items, g.next, Len(b))
    BY <2>1, Zenon
  <2>3. Grouped(group, i, g) = [q EXCEPT !.items = v]
    BY <1>4, Zenon DEF Grouped
  <2>4. q.items \in Seq(Seq(ValueSet))
    BY <2>2 DEF GroupSet
  <2>5. /\ Len(v) = Len(q.items) + 1 /\ v[1] = g.values
        /\ \A k \in 1..Len(q.items) : v[k + 1] = q.items[k]
    <3> HIDE DEF q
    <3> QED
      BY <2>1, <2>4
  <2>6. Grouped(group, i, g).items = v
    <3> HIDE DEF q, v
    <3> QED
      BY <2>2, <2>3 DEF GroupSet
  <2>7. PICK m \in Nat : m = Len(q.items)
    BY <2>4
  <2> HIDE DEF q, v
  <2>8. PICK at \in [1..(m + 1) -> Nat] :
           /\ at[1] = g.next /\ at[m + 1] <= Len(b)
           /\ \A k \in 1..m : Taken(kinds, q.items[k], at[k], at[k + 1])
    BY <2>2, <2>7, Zenon DEF Laid
  <2> DEFINE to == [k \in 1..(m + 2) |-> IF k = 1 THEN i ELSE at[k - 1]]
  <2>9. ASSUME NEW k \in 1..(m + 2)
        PROVE  /\ k = 1 => to[k] = i
               /\ k # 1 => k - 1 \in 1..(m + 1) /\ to[k] = at[k - 1]
    BY <2>7
  <2>10. to \in [1..(m + 2) -> Nat]
    <3>1. ASSUME NEW k \in 1..(m + 2)
          PROVE  (IF k = 1 THEN i ELSE at[k - 1]) \in Nat
      <4>1. k # 1 => at[k - 1] \in Nat
        BY <2>8, <2>9, Zenon
      <4> QED
        BY <1>0, <4>1, Zenon
    <3> QED
      BY <3>1, Zenon
  <2> HIDE DEF to
  <2>11. to[1] = i /\ to[m + 2] <= Len(b)
    <3>1. 1 \in 1..(m + 2) /\ m + 2 \in 1..(m + 2) /\ m + 2 # 1 /\ (m + 2) - 1 = m + 1
      BY <2>7
    <3> QED
      BY <2>8, <2>9, <3>1, Zenon
  <2>12. ASSUME NEW k \in 1..(m + 1)
         PROVE  Taken(kinds, v[k], to[k], to[k + 1])
    <3>1. k \in 1..(m + 2) /\ k + 1 \in 1..(m + 2) /\ k + 1 # 1 /\ (k + 1) - 1 = k
      BY <2>7
    <3>2. to[k + 1] = at[k]
      BY <2>9, <3>1, Zenon
    <3>3. CASE k = 1
      BY <1>2, <1>4, <2>5, <2>8, <2>9, <3>1, <3>2, <3>3, Zenon
    <3>4. CASE k # 1
      <4>1. k - 1 \in 1..m /\ (k - 1) + 1 = k
        BY <2>7, <3>4
      <4>2. v[k] = q.items[k - 1]
        BY <2>5, <2>7, <4>1, Zenon
      <4>3. to[k] = at[k - 1]
        BY <2>9, <3>1, <3>4, Zenon
      <4> QED
        BY <2>8, <3>2, <4>1, <4>2, <4>3, Zenon
    <3> QED
      BY <3>3, <3>4, Zenon
  <2>13. Len(v) = m + 1 /\ Len(v) + 1 = m + 2
    BY <2>5, <2>7
  <2>14. Laid(kinds, v, i, Len(b))
    BY <2>10, <2>11, <2>12, <2>13, Zenon DEF Laid
  <2> QED
    BY <2>6, <2>14, Zenon DEF g
<1> QED
  BY <1>3, <1>4, Zenon

(* All groups, by induction from the end of the bytes. *)
LEMMA GroupsLie ==
    ASSUME NEW b \in Seq(Byte), NEW kinds \in Seq(FieldKinds), kinds # << >>,
           NEW from \in 0..Len(b)
    PROVE  Laid(kinds, Groups(b, from, kinds).items, from, Len(b))
<1>1. PICK group : group = (CHOOSE t : GroupTable(b, from, kinds, t))
  OBVIOUS
<1>2. GroupTable(b, from, kinds, group)
  BY <1>1, GroupTableExists, Zenon
<1>3. Groups(b, from, kinds) = group[from]
  BY <1>1, Zenon DEF Groups, GroupTable
<1>4. \A i \in from..Len(b) : group[i] = Grouped(group, i, Fields(b, i, kinds))
  BY <1>2, Zenon DEF GroupTable
<1> DEFINE m == Len(b) - from
           Lies(i) == group[i] \in GroupSet /\ Laid(kinds, group[i].items, i, Len(b))
           P == {n \in Nat : n <= m => \A i \in (Len(b) - n)..Len(b) : Lies(i)}
<1>0. m \in Nat /\ Len(b) \in Nat
  OBVIOUS
<1>5. ASSUME NEW i \in from..Len(b), \A j \in (i + 1)..Len(b) : Lies(j)
      PROVE  Lies(i)
  <2>1. i \in 0..Len(b)
    BY <1>0
  <2> QED
    BY <1>4, <1>5, <2>1, GroupTyped, GroupLies, ZenonT(30)
<1>6. 0 \in P
  <2>1. Len(b) \in from..Len(b) /\ \A j \in (Len(b) + 1)..Len(b) : FALSE
    BY <1>0
  <2>2. Lies(Len(b))
    <3> HIDE DEF Lies
    <3> QED
      BY <1>5, <2>1, Zenon
  <2>3. \A i \in (Len(b) - 0)..Len(b) : i = Len(b)
    BY <1>0
  <2> HIDE DEF Lies
  <2> QED
    BY <2>2, <2>3
<1>7. ASSUME NEW n \in 1..m, n - 1 \in P
      PROVE  n \in P
  <2> DEFINE c == Len(b) - n
  <2>1. n - 1 <= m /\ n \in Nat /\ c \in from..Len(b) /\ c + 1 = Len(b) - (n - 1)
    BY <1>0
  <2>2. \A j \in (c + 1)..Len(b) : Lies(j)
    <3> HIDE DEF Lies
    <3> QED
      BY <1>7, <2>1
  <2>3. Lies(c)
    <3> HIDE DEF c, Lies
    <3> QED
      BY <1>5, <2>1, <2>2, Zenon
  <2>4. \A i \in c..Len(b) : i = c \/ i \in (c + 1)..Len(b)
    BY <2>1
  <2>5. \A i \in c..Len(b) : Lies(i)
    <3> HIDE DEF Lies, c
    <3> QED
      BY <2>2, <2>3, <2>4, Zenon
  <2> HIDE DEF Lies
  <2> QED
    BY <2>1, <2>5
<1>8. m \in P
  <2>1. P \in SUBSET Nat
    OBVIOUS
  <2> HIDE DEF P
  <2>2. \A i \in 0..m : i \in P
    BY <1>0, <1>6, <1>7, <2>1, UpTo
  <2> QED
    BY <1>0, <2>2
<1>9. Lies(from)
  <2>1. from \in (Len(b) - m)..Len(b)
    BY <1>0
  <2> HIDE DEF Lies
  <2> QED
    BY <1>0, <1>8, <2>1
<1> QED
  BY <1>3, <1>9, Zenon

-----------------------------------------------------------------------------
(* The bytes s are in b behind the first `from` bytes.                     *)
At(b, from, s) ==
    /\ from \in Nat
    /\ from + Len(s) <= Len(b)
    /\ \A i \in 1..Len(s) : b[from + i] = s[i]

(* What is at a place, in two parts. *)
LEMMA AtBoth ==
    ASSUME NEW b \in Seq(Byte), NEW from, NEW s \in Seq(Byte), NEW t \in Seq(Byte),
           At(b, from, s \o t)
    PROVE  At(b, from, s) /\ At(b, from + Len(s), t)
<1> DEFINE u == s \o t
<1>1. /\ Len(u) = Len(s) + Len(t)
      /\ \A i \in 1..Len(s) : u[i] = s[i]
      /\ \A i \in 1..Len(t) : u[Len(s) + i] = t[i]
  BY ConcatPlaces, Zenon
<1> HIDE DEF u
<1>2. /\ from \in Nat /\ from + Len(u) <= Len(b)
      /\ \A i \in 1..Len(u) : b[from + i] = u[i]
  BY Zenon DEF At, u
<1>3. Len(s) \in Nat /\ Len(t) \in Nat /\ Len(b) \in Nat
  OBVIOUS
<1>4. At(b, from, s)
  <2>1. from + Len(s) <= Len(b)
    BY <1>1, <1>2, <1>3
  <2>2. ASSUME NEW i \in 1..Len(s)
        PROVE  b[from + i] = s[i]
    <3>1. i \in 1..Len(u)
      BY <1>1, <1>3
    <3> QED
      BY <1>1, <1>2, <3>1
  <2> QED
    BY <1>2, <2>1, <2>2, Zenon DEF At
<1>5. At(b, from + Len(s), t)
  <2>1. from + Len(s) \in Nat /\ (from + Len(s)) + Len(t) <= Len(b)
    BY <1>1, <1>2, <1>3
  <2>2. ASSUME NEW i \in 1..Len(t)
        PROVE  b[(from + Len(s)) + i] = t[i]
    <3>1. Len(s) + i \in 1..Len(u) /\ (from + Len(s)) + i = from + (Len(s) + i)
      BY <1>1, <1>2, <1>3
    <3> QED
      BY <1>1, <1>2, <3>1
  <2> QED
    BY <2>1, <2>2, Zenon DEF At
<1> QED
  BY <1>4, <1>5

(* A part of the bytes, and the bytes from a place to the end. *)
LEMMA AtCut ==
    ASSUME NEW b \in Seq(Byte), NEW from, NEW s \in Seq(Byte), At(b, from, s)
    PROVE  SubSeq(b, from + 1, from + Len(s)) = s
<1>1. from \in Nat /\ Len(b) >= from + Len(s) /\ \A i \in 1..Len(s) : b[from + i] = s[i]
  <2>1. from \in Nat /\ from + Len(s) <= Len(b) /\ \A i \in 1..Len(s) : b[from + i] = s[i]
    BY Zenon DEF At
  <2> QED
    BY <2>1
<1> QED
  BY <1>1, CutOut, Zenon

-----------------------------------------------------------------------------
(* The fields that are in the bytes are read. *)
Good(value, next) == [error |-> "none", value |-> value, next |-> next]

(* One or two bytes are there, so they are read. *)
LEMMA FixedRead ==
    ASSUME NEW b \in Seq(Byte), NEW from \in Nat, NEW width \in 1..2, NEW value,
           from + width <= Len(b)
    PROVE  Fixed(b, from, width, value) = Good(value, from + width)
<1>1. ~(Len(b) - from < width)
  OBVIOUS
<1> QED
  BY <1>1 DEF Fixed, Good

(* A byte. *)
LEMMA ReadsU8 ==
    ASSUME NEW b \in Seq(Byte), NEW from, NEW x \in Byte, At(b, from, <<x>>)
    PROVE  ReadU8(b, from) = Good(x, from + 1)
<1>1. <<x>> \in Seq(Byte) /\ Len(<<x>>) = 1 /\ <<x>>[1] = x /\ 1 \in 1..1
  OBVIOUS
<1>2. from \in Nat /\ from + 1 <= Len(b) /\ b[from + 1] = x
  BY <1>1 DEF At
<1> QED
  BY <1>2, FixedRead DEF ReadU8

(* A 16-bit number, high byte first. *)
LEMMA ReadsU16 ==
    ASSUME NEW b \in Seq(Byte), NEW from, NEW x \in 0..MaxWord, At(b, from, U16(x))
    PROVE  ReadU16(b, from) = Good(x, from + 2)
<1>1. /\ Len(U16(x)) = 2
      /\ 256 * U16(x)[1] + U16(x)[2] = x % (MaxWord + 1)
  BY CastLength
<1>2. x % (MaxWord + 1) = x
  <2>1. x \in Nat /\ x <= MaxWord
    BY MaxWordIsNat, SMT
  <2> QED
    BY <2>1, WordMod, Zenon
<1>3. from \in Nat /\ from + 2 <= Len(b) /\ b[from + 1] = U16(x)[1] /\ b[from + 2] = U16(x)[2]
  BY <1>1 DEF At
<1>4. (from + 1) + 1 = from + 2
  BY <1>3
<1>5. Word(b, from + 1) = x
  <2>1. Word(b, from + 1) = 256 * U16(x)[1] + U16(x)[2]
    BY <1>3, <1>4, Zenon DEF Word
  <2> QED
    BY <1>1, <1>2, <2>1, Zenon
<1> QED
  BY <1>3, <1>5, FixedRead DEF ReadU16

(* Bytes behind their length. *)
LEMMA ReadsBytes ==
    ASSUME NEW b \in Seq(Byte), NEW from, NEW s \in Seq(Byte), Len(s) <= MaxWord,
           At(b, from, MqttBytes(s))
    PROVE  ReadBytes(b, from) = Good(s, from + (2 + Len(s)))
<1>1. Len(s) \in 0..MaxWord /\ Len(s) \in Nat
  <2>1. Len(s) \in Nat
    OBVIOUS
  <2> QED
    BY <2>1, MaxWordIsNat
<1>2. U16(Len(s)) \in Seq(Byte) /\ Len(U16(Len(s))) = 2
  BY <1>1, CastLength, Zenon
<1>3. At(b, from, U16(Len(s))) /\ At(b, from + 2, s)
  BY <1>2, AtBoth, Zenon DEF MqttBytes
<1> DEFINE l == ReadU16(b, from)
<1>4. l = Good(Len(s), from + 2)
  BY <1>1, <1>3, ReadsU16, Zenon
<1>5. l.error = "none" /\ l.value = Len(s) /\ l.next = from + 2
  BY <1>4 DEF Good
<1>6. SubSeq(b, (from + 2) + 1, (from + 2) + Len(s)) = s
  BY <1>3, AtCut, Zenon
<1>7. from \in Nat /\ (from + 2) + Len(s) <= Len(b)
  BY <1>3, Zenon DEF At
<1>8. ~(Len(s) > Len(b) - (from + 2)) /\ (from + 2) + Len(s) = from + (2 + Len(s))
  BY <1>1, <1>7
<1> HIDE DEF l
<1>9. Prefixed(b, l) = Good(s, (from + 2) + Len(s))
  BY <1>5, <1>6, <1>8 DEF Prefixed, Good
<1> QED
  BY <1>8, <1>9 DEF ReadBytes, l

(* A value of each kind, and its bytes. *)
Fits(kind, v) ==
    CASE kind = "u8"     -> v \in Byte
      [] kind = "u16"    -> v \in 0..MaxWord
      [] kind = "bytes"  -> v \in Seq(Byte) /\ Len(v) <= MaxWord
      [] kind = "string" -> v \in Text /\ Len(v) <= MaxWord
      [] kind = "qos"    -> v \in 0..2

Encoded(kind, v) ==
    CASE kind \in {"u8", "qos"}       -> <<v>>
      [] kind = "u16"                 -> U16(v)
      [] kind \in {"bytes", "string"} -> MqttBytes(v)

(* A field that was written is read. *)
LEMMA FieldReads ==
    ASSUME NEW b \in Seq(Byte), NEW from, NEW kind \in FieldKinds, NEW v, Fits(kind, v),
           At(b, from, Encoded(kind, v))
    PROVE  Field(b, from, kind) = Good(v, from + Len(Encoded(kind, v)))
<1>1. CASE kind = "u8"
  <2>1. v \in Byte /\ Encoded(kind, v) = <<v>> /\ Field(b, from, kind) = ReadU8(b, from)
    BY <1>1 DEF Fits, Encoded, Field
  <2>2. Len(<<v>>) = 1
    OBVIOUS
  <2> QED
    BY <2>1, <2>2, ReadsU8, Zenon
<1>2. CASE kind = "u16"
  <2>1. v \in 0..MaxWord /\ Encoded(kind, v) = U16(v) /\ Field(b, from, kind) = ReadU16(b, from)
    BY <1>2 DEF Fits, Encoded, Field
  <2>2. v \in Nat
    BY <2>1
  <2>3. Len(U16(v)) = 2
    BY <2>2, CastLength, Zenon
  <2> QED
    BY <2>1, <2>3, ReadsU16, Zenon
<1>3. CASE kind = "bytes"
  <2>1. /\ v \in Seq(Byte) /\ Len(v) <= MaxWord /\ Encoded(kind, v) = MqttBytes(v)
        /\ Field(b, from, kind) = ReadBytes(b, from)
    BY <1>3 DEF Fits, Encoded, Field
  <2>2. Len(MqttBytes(v)) = 2 + Len(v)
    BY <2>1, MqttBytesTyped, Zenon
  <2> QED
    BY <2>1, <2>2, ReadsBytes, Zenon
<1>4. CASE kind = "string"
  <2>1. /\ v \in Text /\ Len(v) <= MaxWord /\ Encoded(kind, v) = MqttBytes(v)
        /\ Field(b, from, kind) = ReadString(b, from)
    BY <1>4 DEF Fits, Encoded, Field
  <2>2. v \in Seq(Byte) /\ IsUtf8(v)
    BY <2>1, TextIsBytes, Zenon
  <2>3. Len(MqttBytes(v)) = 2 + Len(v)
    BY <2>2, MqttBytesTyped, Zenon
  <2>4. ReadBytes(b, from) = Good(v, from + (2 + Len(v)))
    BY <2>1, <2>2, ReadsBytes, Zenon
  <2>5. Good(v, from + (2 + Len(v))).value = v
    BY DEF Good
  <2>6. ReadString(b, from) = ReadBytes(b, from)
    BY <2>2, <2>4, <2>5, Zenon DEF ReadString, Utf8Only
  <2> QED
    BY <2>1, <2>3, <2>4, <2>6, Zenon
<1>5. CASE kind = "qos"
  <2>1. v \in 0..2 /\ Encoded(kind, v) = <<v>> /\ Field(b, from, kind) = ReadQoS(b, from)
    BY <1>5 DEF Fits, Encoded, Field
  <2>2. v \in Byte /\ ~(v > 2)
    BY <2>1 DEF Byte
  <2>6. Len(<<v>>) = 1
    OBVIOUS
  <2>3. ReadU8(b, from) = Good(v, from + 1)
    BY <2>1, <2>2, ReadsU8, Zenon
  <2>4. Good(v, from + 1).value = v
    BY DEF Good
  <2>5. ReadQoS(b, from) = ReadU8(b, from)
    BY <2>2, <2>3, <2>4, Zenon DEF ReadQoS, QoSOnly
  <2> QED
    BY <2>1, <2>3, <2>5, <2>6, Zenon
<1> QED
  BY <1>1, <1>2, <1>3, <1>4, <1>5 DEF FieldKinds

(* The bytes of a field. *)
LEMMA EncodedTyped ==
    ASSUME NEW kind \in FieldKinds, NEW v, Fits(kind, v)
    PROVE  Encoded(kind, v) \in Seq(Byte)
<1>1. CASE kind \in {"u8", "qos"}
  <2>1. v \in Byte
    <3>1. CASE kind = "u8"
      BY <3>1 DEF Fits
    <3>2. CASE kind = "qos"
      <4>1. v \in 0..2
        BY <3>2 DEF Fits
      <4> QED
        BY <4>1 DEF Byte
    <3> QED
      BY <1>1, <3>1, <3>2
  <2>2. Encoded(kind, v) = <<v>>
    BY <1>1 DEF Encoded
  <2> QED
    BY <2>1, <2>2
<1>2. CASE kind = "u16"
  <2>1. v \in Nat /\ Encoded(kind, v) = U16(v)
    BY <1>2 DEF Fits, Encoded
  <2> QED
    BY <2>1, CastLength, Zenon
<1>3. CASE kind \in {"bytes", "string"}
  <2>1. v \in Seq(Byte) /\ Encoded(kind, v) = MqttBytes(v)
    BY <1>3 DEF Fits, Encoded, Text
  <2> QED
    BY <2>1, MqttBytesTyped, Zenon
<1> QED
  BY <1>1, <1>2, <1>3 DEF FieldKinds

-----------------------------------------------------------------------------
(* Several fields in a row. *)
Run(next, values) == [error |-> "none", next |-> next, values |-> values]

(* One field more is read. *)
LEMMA NextGood ==
    ASSUME NEW b, NEW next, NEW values, NEW kind, NEW v, NEW n, Field(b, next, kind) = Good(v, n)
    PROVE  NextField(b, Run(next, values), kind) = Run(n, Append(values, v))
<1> DEFINE r == Run(next, values)
           f == Field(b, next, kind)
<1>1. r.error = "none" /\ r.next = next /\ r.values = values
  BY DEF Run
<1>2. f.error = "none" /\ f.next = n /\ f.value = v
  BY DEF Good
<1>3. NextField(b, r, kind) = Extended(r, f)
  BY <1>1, Zenon DEF NextField
<1> DEFINE vs == Append(values, v)
           x == [r EXCEPT !.next = n]
<1>4. r = [error |-> "none", next |-> next, values |-> values]
  BY DEF Run
<1> HIDE DEF r, f, vs
<1>7. x = Run(n, values)
  BY <1>4 DEF Run
<1> HIDE DEF x
<1>8. [x EXCEPT !.values = vs] = Run(n, vs)
  BY <1>7 DEF Run
<1>9. [r EXCEPT !.next = n, !.values = vs] = [x EXCEPT !.values = vs]
  BY DEF x
<1>5. Extended(r, f) = [r EXCEPT !.next = f.next, !.values = Append(@, f.value)]
  BY <1>2, Zenon DEF Extended
<1>6. Extended(r, f) = [r EXCEPT !.next = n, !.values = vs]
  BY <1>1, <1>2, <1>5 DEF vs
<1> QED
  BY <1>3, <1>6, <1>8, <1>9, Zenon DEF r, vs

(* No field at all. *)
LEMMA NoFields ==
    ASSUME NEW b \in Seq(Byte), NEW from \in 0..Len(b)
    PROVE  Fields(b, from, << >>) = Run(from, << >>)
<1>1. << >> \in Seq(FieldKinds) /\ Len(<< >>) = 0
  OBVIOUS
<1>2. PICK acc \in [0..Len(<< >>) -> RunSet(from, Len(b))] :
          /\ acc[0] = [error |-> "none", next |-> from, values |-> << >>]
          /\ acc[Len(<< >>)] = Fields(b, from, << >>)
  BY <1>1, FieldRuns, ZenonT(60)
<1> QED
  BY <1>1, <1>2, Zenon DEF Run

(* A place in the bytes. *)
LEMMA AtPlace ==
    ASSUME NEW b \in Seq(Byte), NEW from, NEW s \in Seq(Byte), At(b, from, s)
    PROVE  from \in 0..Len(b) /\ from + Len(s) \in 0..Len(b) /\ from \in Nat
<1>1. from \in Nat /\ from + Len(s) <= Len(b)
  BY Zenon DEF At
<1>2. Len(s) \in Nat /\ Len(b) \in Nat
  OBVIOUS
<1> QED
  BY <1>1, <1>2

(* A field that was written is read, *)
LEMMA OneField ==
    ASSUME NEW b \in Seq(Byte), NEW from, NEW k \in FieldKinds, NEW v, Fits(k, v),
           At(b, from, Encoded(k, v))
    PROVE  Fields(b, from, <<k>>) = Run(from + Len(Encoded(k, v)), <<v>>)
<1> DEFINE kinds == <<k>>
           n1 == from + Len(Encoded(k, v))
<1>1. kinds \in Seq(FieldKinds) /\ Len(kinds) = 1 /\ kinds[1] = k
  OBVIOUS
<1>2. from \in 0..Len(b)
  BY EncodedTyped, AtPlace, Zenon
<1> HIDE DEF kinds
<1>3. PICK acc \in [0..Len(kinds) -> RunSet(from, Len(b))] :
          /\ acc[0] = [error |-> "none", next |-> from, values |-> << >>]
          /\ acc[Len(kinds)] = Fields(b, from, kinds)
          /\ \A i \in 1..Len(kinds) : acc[i] = NextField(b, acc[i - 1], kinds[i])
  BY <1>1, <1>2, FieldRuns, Zenon
<1>4. acc[0] = Run(from, << >>)
  BY <1>3, Zenon DEF Run
<1>5. acc[1] = NextField(b, acc[0], k)
  <2>1. 1 \in 1..Len(kinds) /\ 1 - 1 = 0
    BY <1>1
  <2> QED
    BY <1>1, <1>3, <2>1, Zenon
<1>6. Field(b, from, k) = Good(v, n1)
  BY FieldReads
<1> HIDE DEF n1
<1>7. acc[1] = Run(n1, Append(<< >>, v))
  <2>1. PICK e : e = << >>
    OBVIOUS
  <2>2. NextField(b, Run(from, e), k) = Run(n1, Append(e, v))
    BY <1>6, NextGood
  <2> QED
    BY <1>4, <1>5, <2>1, <2>2, Zenon
<1>8. Append(<< >>, v) = <<v>>
  OBVIOUS
<1> QED
  BY <1>1, <1>3, <1>7, <1>8, Zenon DEF kinds, n1

(* two of them, *)
LEMMA TwoFields ==
    ASSUME NEW b \in Seq(Byte), NEW from,
           NEW k \in FieldKinds, NEW v, Fits(k, v), NEW l \in FieldKinds, NEW w, Fits(l, w),
           At(b, from, Encoded(k, v) \o Encoded(l, w))
    PROVE  Fields(b, from, <<k, l>>) =
              Run((from + Len(Encoded(k, v))) + Len(Encoded(l, w)), <<v, w>>)
<1> DEFINE kinds == <<k, l>>
           n1 == from + Len(Encoded(k, v))
           n2 == n1 + Len(Encoded(l, w))
<1>1. kinds \in Seq(FieldKinds) /\ Len(kinds) = 2 /\ kinds[1] = k /\ kinds[2] = l
  OBVIOUS
<1>2. /\ Encoded(k, v) \in Seq(Byte) /\ Encoded(l, w) \in Seq(Byte)
      /\ At(b, from, Encoded(k, v)) /\ At(b, n1, Encoded(l, w))
  BY EncodedTyped, AtBoth, Zenon
<1>3. from \in 0..Len(b)
  BY <1>2, AtPlace, Zenon
<1> HIDE DEF kinds
<1>4. PICK acc \in [0..Len(kinds) -> RunSet(from, Len(b))] :
          /\ acc[0] = [error |-> "none", next |-> from, values |-> << >>]
          /\ acc[Len(kinds)] = Fields(b, from, kinds)
          /\ \A i \in 1..Len(kinds) : acc[i] = NextField(b, acc[i - 1], kinds[i])
  BY <1>1, <1>3, FieldRuns, Zenon
<1>5. acc[0] = Run(from, << >>)
  BY <1>4, Zenon DEF Run
<1>6. acc[1] = NextField(b, acc[0], k) /\ acc[2] = NextField(b, acc[1], l)
  <2>1. 1 \in 1..Len(kinds) /\ 1 - 1 = 0 /\ 2 \in 1..Len(kinds) /\ 2 - 1 = 1
    BY <1>1
  <2> QED
    BY <1>1, <1>4, <2>1, Zenon
<1>7. Field(b, from, k) = Good(v, n1) /\ Field(b, n1, l) = Good(w, n2)
  <2>1. Field(b, from, k) = Good(v, n1)
    BY <1>2, FieldReads
  <2> HIDE DEF n1
  <2>2. Field(b, n1, l) = Good(w, n2)
    BY <1>2, FieldReads
  <2> QED
    BY <2>1, <2>2
<1> HIDE DEF n1, n2
<1>8. acc[1] = Run(n1, Append(<< >>, v))
  <2>1. PICK e : e = << >>
    OBVIOUS
  <2>2. NextField(b, Run(from, e), k) = Run(n1, Append(e, v))
    BY <1>7, NextGood
  <2> QED
    BY <1>5, <1>6, <2>1, <2>2, Zenon
<1>9. acc[2] = Run(n2, Append(Append(<< >>, v), w))
  BY <1>6, <1>7, <1>8, NextGood
<1>10. Append(Append(<< >>, v), w) = <<v, w>>
  OBVIOUS
<1> QED
  BY <1>1, <1>4, <1>9, <1>10, Zenon DEF kinds, n1, n2

(* or three, one behind the other. *)
LEMMA ThreeFields ==
    ASSUME NEW b \in Seq(Byte), NEW from,
           NEW k \in FieldKinds, NEW v, Fits(k, v), NEW l \in FieldKinds, NEW w, Fits(l, w),
           NEW m \in FieldKinds, NEW x, Fits(m, x),
           At(b, from, Encoded(k, v) \o (Encoded(l, w) \o Encoded(m, x)))
    PROVE  Fields(b, from, <<k, l, m>>) =
              Run(((from + Len(Encoded(k, v))) + Len(Encoded(l, w))) + Len(Encoded(m, x)), <<v, w, x>>)
<1> DEFINE kinds == <<k, l, m>>
           n1 == from + Len(Encoded(k, v))
           n2 == n1 + Len(Encoded(l, w))
           n3 == n2 + Len(Encoded(m, x))
           rest == Encoded(l, w) \o Encoded(m, x)
<1>1. kinds \in Seq(FieldKinds) /\ Len(kinds) = 3 /\ kinds[1] = k /\ kinds[2] = l /\ kinds[3] = m
  OBVIOUS
<1>2. Encoded(k, v) \in Seq(Byte) /\ Encoded(l, w) \in Seq(Byte) /\ Encoded(m, x) \in Seq(Byte)
  BY EncodedTyped, Zenon
<1>3. rest \in Seq(Byte)
  BY <1>2, ConcatTyped, Zenon
<1>4. At(b, from, Encoded(k, v)) /\ At(b, n1, rest)
  BY <1>2, <1>3, AtBoth, Zenon
<1>5. At(b, n1, Encoded(l, w)) /\ At(b, n2, Encoded(m, x))
  BY <1>2, <1>4, AtBoth, Zenon
<1>6. from \in 0..Len(b)
  BY <1>2, <1>4, AtPlace, Zenon
<1> HIDE DEF kinds
<1>7. PICK acc \in [0..Len(kinds) -> RunSet(from, Len(b))] :
          /\ acc[0] = [error |-> "none", next |-> from, values |-> << >>]
          /\ acc[Len(kinds)] = Fields(b, from, kinds)
          /\ \A i \in 1..Len(kinds) : acc[i] = NextField(b, acc[i - 1], kinds[i])
  BY <1>1, <1>6, FieldRuns, Zenon
<1>8. acc[0] = Run(from, << >>)
  BY <1>7, Zenon DEF Run
<1>9. /\ acc[1] = NextField(b, acc[0], k) /\ acc[2] = NextField(b, acc[1], l)
      /\ acc[3] = NextField(b, acc[2], m)
  <2>1. /\ 1 \in 1..Len(kinds) /\ 1 - 1 = 0 /\ 2 \in 1..Len(kinds) /\ 2 - 1 = 1
        /\ 3 \in 1..Len(kinds) /\ 3 - 1 = 2
    BY <1>1
  <2> QED
    BY <1>1, <1>7, <2>1, Zenon
<1>10. /\ Field(b, from, k) = Good(v, n1) /\ Field(b, n1, l) = Good(w, n2)
       /\ Field(b, n2, m) = Good(x, n3)
  <2>1. Field(b, from, k) = Good(v, n1)
    BY <1>4, FieldReads
  <2> HIDE DEF n1
  <2>2. Field(b, n1, l) = Good(w, n2)
    BY <1>5, FieldReads
  <2> HIDE DEF n2
  <2>3. Field(b, n2, m) = Good(x, n3)
    BY <1>5, FieldReads
  <2> QED
    BY <2>1, <2>2, <2>3
<1> HIDE DEF n1, n2, n3
<1>11. acc[1] = Run(n1, Append(<< >>, v))
  <2>1. PICK e : e = << >>
    OBVIOUS
  <2>2. NextField(b, Run(from, e), k) = Run(n1, Append(e, v))
    BY <1>10, NextGood
  <2> QED
    BY <1>8, <1>9, <2>1, <2>2, Zenon
<1>12. acc[2] = Run(n2, Append(Append(<< >>, v), w))
  BY <1>9, <1>10, <1>11, NextGood
<1>13. acc[3] = Run(n3, Append(Append(Append(<< >>, v), w), x))
  BY <1>9, <1>10, <1>12, NextGood
<1>14. Append(Append(Append(<< >>, v), w), x) = <<v, w, x>>
  OBVIOUS
<1> QED
  BY <1>1, <1>7, <1>13, <1>14, Zenon DEF kinds, n1, n2, n3

-----------------------------------------------------------------------------
(* A frame that was written: what read_exact is given, and where its body is. *)
LEMMA FrameReads ==
    ASSUME NEW b1 \in Byte, NEW n \in Nat, n <= MaxRemaining, NEW body \in Seq(Byte), Len(body) = n
    PROVE  LET f == FrameBytes(b1, n, body)
               h == 1 + LengthBytes(n)
           IN  /\ f \in Seq(Byte)
               /\ At(f, h, body) /\ h + n = Len(f)
               /\ ExactOf(f) = ReadExact(b1, n, f, h)
<1> DEFINE f == FrameBytes(b1, n, body)
           k == LengthBytes(n)
           h == 1 + k
<1>0. b1 \in Byte /\ n \in Nat /\ n <= MaxRemaining /\ body \in Seq(Byte)
  OBVIOUS
<1>1. /\ f \in Seq(Byte) /\ Len(f) = h + Len(body) /\ f[1] = b1
      /\ \A i \in 1..k : f[i + 1] = EncodeLength(n)[i]
      /\ \A i \in 1..Len(body) : f[h + i] = body[i]
  BY ONLY <1>0, FrameParts, ZenonT(60)
<1>2. k \in 1..4
  BY LengthBytesRange, Zenon
<1>3. IsFrame(f)
  BY FrameBytesIsFrame, Zenon
<1> HIDE DEF f
<1>4. BeginsFrame(f, n)
  BY <1>1 DEF BeginsFrame
<1>5. Len(f) = FrameSize(n) /\ n <= n /\ Len(f) >= FrameSize(n)
  <2>1. FrameSize(n) = 1 + k + n
    BY DEF FrameSize
  <2> QED
    BY <1>1, <1>2, <2>1
<1>6. Check(f, n) = [error |-> "none", byte1 |-> f[1], header |-> k + 1, remaining |-> n]
  BY <1>1, <1>4, <1>5, WholeFrameAccepted, Zenon
<1> DEFINE p == ParseFixedHeader(f)
<1>7. p = Check(f, n)
  <2>1. Check(f, n) = Checked(p, Len(f), n)
    BY DEF Check
  <2>2. Check(f, n).error = "none"
    BY <1>6
  <2> HIDE DEF p
  <2>3. \/ Checked(p, Len(f), n) = p
        \/ Checked(p, Len(f), n).error \in {"PayloadSizeLimitExceeded", "NeedMoreData"}
    <3>1. \A m : NeedMoreData(m).error = "NeedMoreData"
      BY DEF NeedMoreData
    <3>2. Err("PayloadSizeLimitExceeded").error = "PayloadSizeLimitExceeded"
      BY DEF Err
    <3> QED
      BY <3>1, <3>2, Zenon DEF Checked
  <2> QED
    BY <2>1, <2>2, <2>3
<1> HIDE DEF p
<1>8. p.error = "none" /\ p.byte1 = b1 /\ p.header = h /\ p.remaining = n
  <2>1. k + 1 = h
    BY <1>2
  <2> QED
    BY <1>1, <1>6, <1>7, <2>1
<1>9. ExactOf(f) = ReadExact(b1, n, f, h)
  BY <1>8, Zenon DEF ExactOf, HeaderSize, p
<1>10. At(f, h, body) /\ h + n = Len(f)
  <2>1. h \in Nat /\ h + n = Len(f) /\ h + Len(body) <= Len(f)
    BY <1>1, <1>2
  <2> QED
    BY <1>1, <2>1, Zenon DEF At
<1> QED
  BY <1>1, <1>9, <1>10, Zenon DEF f

-----------------------------------------------------------------------------
(* The type a first byte stands for. *)
LEMMA TypeNames ==
    /\ DOMAIN PacketTypes = 1..14
    /\ PacketTypes[1] = "Connect" /\ PacketTypes[2] = "ConnAck" /\ PacketTypes[3] = "Publish"
    /\ PacketTypes[4] = "PubAck" /\ PacketTypes[5] = "PubRec" /\ PacketTypes[6] = "PubRel"
    /\ PacketTypes[7] = "PubComp" /\ PacketTypes[8] = "Subscribe" /\ PacketTypes[9] = "SubAck"
    /\ PacketTypes[10] = "Unsubscribe" /\ PacketTypes[11] = "UnsubAck"
    /\ PacketTypes[12] = "PingReq" /\ PacketTypes[13] = "PingResp" /\ PacketTypes[14] = "Disconnect"
BY DEF PacketTypes

(* What read_exact hands the bytes to, for a body that is not empty. *)
ReaderOf(type, byte1, n, b, h) ==
    CASE type = "Connect"     -> ReadConnect(b, h)
      [] type = "ConnAck"     -> ReadConnAck(b, h)
      [] type = "Publish"     -> ReadPublish(byte1, b, h)
      [] type = "Subscribe"   -> ReadSubscribe(b, h)
      [] type = "SubAck"      -> ReadSubAck(b, h)
      [] type = "Unsubscribe" -> ReadUnsubscribe(b, h)
      [] type = "UnsubAck"    -> ReadUnsubAck(n, b, h)
      [] OTHER                -> ReadAck(type, b, h)

(* A packet with a body is handed to the reader of its type. *)
LEMMA HandedOn ==
    ASSUME NEW byte1, NEW code \in 1..14, byte1 \div 16 = code,
           NEW type, PacketTypes[code] = type, type \notin Bodiless, NEW n, n # 0, NEW b, NEW h
    PROVE  ReadExact(byte1, n, b, h) = ReaderOf(type, byte1, n, b, h)
<1>1. byte1 \div 16 \in DOMAIN PacketTypes
  <2>1. DOMAIN PacketTypes = 1..14
    BY TypeNames, Zenon
  <2> QED
    BY <2>1
<1>2. PacketTypes[byte1 \div 16] = type
  OBVIOUS
<1> QED
  BY <1>1, <1>2, Zenon DEF ReadExact, ReaderOf

(* A packet without a body is known by its first byte. *)
LEMMA Bare ==
    ASSUME NEW byte1, NEW code \in 1..14, byte1 \div 16 = code,
           NEW type, PacketTypes[code] = type, type \in Bodiless, NEW n, NEW b, NEW h
    PROVE  ReadExact(byte1, n, b, h) = Packet([type |-> type])
<1>1. byte1 \div 16 \in DOMAIN PacketTypes
  <2>1. DOMAIN PacketTypes = 1..14
    BY TypeNames, Zenon
  <2> QED
    BY <2>1
<1>2. PacketTypes[byte1 \div 16] = type
  OBVIOUS
<1> QED
  BY <1>1, <1>2, Zenon DEF ReadExact

(* The bytes of a number, of a string. *)
LEMMA EncodedAs ==
    ASSUME NEW v
    PROVE  /\ Encoded("u8", v) = <<v>> /\ Encoded("qos", v) = <<v>>
           /\ Encoded("u16", v) = U16(v)
           /\ Encoded("bytes", v) = MqttBytes(v) /\ Encoded("string", v) = MqttBytes(v)
           /\ "u8" \in FieldKinds /\ "qos" \in FieldKinds /\ "u16" \in FieldKinds
           /\ "bytes" \in FieldKinds /\ "string" \in FieldKinds
BY DEF Encoded, FieldKinds

(* What may be written as a field of each kind. *)
LEMMA FitsAs ==
    ASSUME NEW v
    PROVE  /\ v \in Byte => Fits("u8", v)
           /\ v \in 0..2 => Fits("qos", v)
           /\ v \in 0..MaxWord => Fits("u16", v)
           /\ v \in Seq(Byte) /\ Len(v) <= MaxWord => Fits("bytes", v)
           /\ v \in Text /\ Len(v) <= MaxWord => Fits("string", v)
BY DEF Fits

(* An identifier fits in two bytes. *)
LEMMA WordFits ==
    ASSUME NEW x \in Word16
    PROVE  x \in Nat /\ x \in 0..MaxWord
<1>1. x \in 0..MaxWord
  BY Zenon DEF Word16
<1> QED
  BY <1>1, MaxWordIsNat, SMT

(* The identifier a body begins with. *)
LEMMA ReadsPkid ==
    ASSUME NEW b \in Seq(Byte), NEW h, NEW id \in Word16, NEW rest \in Seq(Byte),
           At(b, h, U16(id) \o rest)
    PROVE  /\ Fields(b, h, <<"u16">>) = Run(h + 2, <<id>>)
           /\ At(b, h + 2, rest)
<1>1. id \in Nat /\ id \in 0..MaxWord
  BY WordFits, Zenon
<1>2. U16(id) \in Seq(Byte) /\ Len(U16(id)) = 2
  BY <1>1, CastLength, Zenon
<1>3. At(b, h, U16(id)) /\ At(b, h + 2, rest)
  BY <1>2, AtBoth, Zenon
<1>4. "u16" \in FieldKinds /\ Fits("u16", id) /\ Encoded("u16", id) = U16(id)
  BY <1>1, EncodedAs, FitsAs, Zenon
<1>5. Fields(b, h, <<"u16">>) = Run(h + Len(Encoded("u16", id)), <<id>>)
  BY <1>3, <1>4, OneField
<1> QED
  BY <1>2, <1>3, <1>4, <1>5, Zenon

(* A packet that is nothing but an identifier. *)
LEMMA AckReads ==
    ASSUME NEW b \in Seq(Byte), NEW h, NEW id \in Word16, At(b, h, U16(id)), NEW type
    PROVE  ReadAck(type, b, h) = Packet([type |-> type, pkid |-> id])
<1>1. U16(id) \in Seq(Byte) /\ << >> \in Seq(Byte)
  <2>1. id \in Nat
    BY WordIsNat
  <2> QED
    BY <2>1, CastLength
<1>2. U16(id) \o << >> = U16(id)
  BY <1>1, ConcatEmptySeq, Zenon
<1>3. Fields(b, h, <<"u16">>) = Run(h + 2, <<id>>)
  <2>1. PICK e : e = << >>
    OBVIOUS
  <2>2. At(b, h, U16(id) \o e) /\ e \in Seq(Byte)
    BY <1>1, <1>2, <2>1, Zenon
  <2> QED
    BY <2>2, ReadsPkid
<1>4. Run(h + 2, <<id>>).error = "none" /\ Run(h + 2, <<id>>).values[1] = id
  BY DEF Run
<1> QED
  BY <1>3, <1>4, Zenon DEF ReadAck, AckOf

(* PubAck, PubRec, PubRel, PubComp and UnsubAck. *)
LEMMA AckRead ==
    ASSUME NEW p \in PacketSet, p.type \in AckTypes
    PROVE  ExactOf(FrameBytes(AckByte1[p.type], 2, U16(p.pkid))) = Packet(p)
<1> DEFINE b1 == AckByte1[p.type]
           body == U16(p.pkid)
           f == FrameBytes(b1, 2, body)
           h == 1 + LengthBytes(2)
<1>1. p.pkid \in Word16 /\ p = [type |-> p.type, pkid |-> p.pkid]
  BY AckFields
<1>2. p.pkid \in Nat
  BY <1>1, WordIsNat
<1>3. body \in Seq(Byte) /\ Len(body) = 2
  BY <1>2, CastLength, Zenon
<1>4. PICK code \in {4, 5, 6, 7, 11} :
          b1 \in Byte /\ b1 \div 16 = code /\ PacketTypes[code] = p.type
  <2>1. \/ p.type = "PubAck" /\ b1 = 64
        \/ p.type = "PubRec" /\ b1 = 80
        \/ p.type = "PubRel" /\ b1 = 98
        \/ p.type = "PubComp" /\ b1 = 112
        \/ p.type = "UnsubAck" /\ b1 = 176
    BY DEF AckTypes, AckByte1
  <2> HIDE DEF b1
  <2> QED
    BY <2>1, TypeNames, SMT DEF Byte
<1>5. /\ f \in Seq(Byte) /\ At(f, h, body) /\ ExactOf(f) = ReadExact(b1, 2, f, h)
  <2>1. 2 \in Nat /\ 2 <= MaxRemaining
    BY SMT DEF MaxRemaining
  <2> QED
    BY <1>3, <1>4, <2>1, FrameReads, Zenon
<1> HIDE DEF f, h, b1
<1>6. ReadAck(p.type, f, h) = Packet(p)
  BY <1>1, <1>5, AckReads, Zenon
<1>7. ReadExact(b1, 2, f, h) = ReaderOf(p.type, b1, 2, f, h)
  <2>1. code \in 1..14 /\ 2 # 0
    BY <1>4
  <2>2. p.type \notin Bodiless
    BY DEF AckTypes, Bodiless
  <2> QED
    BY <1>4, <2>1, <2>2, HandedOn
<1>8. ReaderOf(p.type, b1, 2, f, h) = ReadAck(p.type, f, h)
  <2>1. CASE p.type = "UnsubAck"
    <3>1. ReaderOf(p.type, b1, 2, f, h) = ReadUnsubAck(2, f, h)
      BY <2>1 DEF ReaderOf
    <3> QED
      BY <2>1, <3>1 DEF ReadUnsubAck
  <2>2. CASE p.type # "UnsubAck"
    BY <2>2 DEF ReaderOf, AckTypes
  <2> QED
    BY <2>1, <2>2
<1> QED
  BY <1>5, <1>6, <1>7, <1>8, Zenon DEF f, b1

(* PingReq, PingResp and Disconnect. *)
LEMMA EmptyRead ==
    ASSUME NEW p \in PacketSet, p.type \in {"PingReq", "PingResp", "Disconnect"}
    PROVE  ExactOf(FrameBytes(EmptyByte1[p.type], 0, << >>)) = Packet(p)
<1> DEFINE b1 == EmptyByte1[p.type]
           body == << >>
           f == FrameBytes(b1, 0, body)
           h == 1 + LengthBytes(0)
<1>1. p = [type |-> p.type]
  BY DEF PacketSet, AckTypes
<1>2. body \in Seq(Byte) /\ Len(body) = 0
  OBVIOUS
<1>3. PICK code \in {12, 13, 14} : b1 \in Byte /\ b1 \div 16 = code /\ PacketTypes[code] = p.type
  <2>1. \/ p.type = "PingReq" /\ b1 = 192
        \/ p.type = "PingResp" /\ b1 = 208
        \/ p.type = "Disconnect" /\ b1 = 224
    BY DEF EmptyByte1
  <2> HIDE DEF b1
  <2> QED
    BY <2>1, TypeNames, SMT DEF Byte
<1>4. ExactOf(f) = ReadExact(b1, 0, f, h)
  <2>1. 0 \in Nat /\ 0 <= MaxRemaining
    BY SMT DEF MaxRemaining
  <2> QED
    BY <1>2, <1>3, <2>1, FrameReads, Zenon
<1> HIDE DEF f, h, b1
<1>5. ReadExact(b1, 0, f, h) = Packet([type |-> p.type])
  <2>1. code \in 1..14
    BY <1>3
  <2>2. p.type \in Bodiless
    BY DEF Bodiless
  <2> QED
    BY <1>3, <2>1, <2>2, Bare
<1> QED
  BY <1>1, <1>4, <1>5, Zenon DEF f, b1

(* ConnAck. *)
LEMMA ConnAckRead ==
    ASSUME NEW p \in PacketSet, p.type = "ConnAck", NEW b1, b1 = 32
    PROVE  ExactOf(FrameBytes(b1, 2, ConnAckBody(p))) = Packet(p)
<1> DEFINE body == ConnAckBody(p)
           x == Flag(p.session_present, 1)
           f == FrameBytes(b1, 2, body)
           h == 1 + LengthBytes(2)
<1>1. /\ p.session_present \in BOOLEAN /\ p.code \in 0..5
      /\ p = [type |-> "ConnAck", session_present |-> p.session_present, code |-> p.code]
  BY ConnAckFields
<1>2. x \in Byte /\ p.code \in Byte /\ body \in Seq(Byte) /\ Len(body) = 2
  BY ConnAckBytes, Zenon
<1>3. b1 \in Byte /\ b1 \div 16 = 2 /\ 2 \in 1..14 /\ 2 \in Nat /\ 2 # 0
  BY DEF Byte
<1>4. /\ f \in Seq(Byte) /\ At(f, h, body) /\ ExactOf(f) = ReadExact(b1, 2, f, h)
  <2>1. 2 <= MaxRemaining
    BY SMT DEF MaxRemaining
  <2> QED
    BY <1>2, <1>3, <2>1, FrameReads, ZenonT(60)
<1> HIDE DEF f, h
<1>5. ReadExact(b1, 2, f, h) = ReadConnAck(f, h)
  <2>1. PacketTypes[2] = "ConnAck" /\ "ConnAck" \notin Bodiless
    BY TypeNames DEF Bodiless
  <2>2. ReadExact(b1, 2, f, h) = ReaderOf("ConnAck", b1, 2, f, h)
    <3>1. PICK code \in 1..14, n \in Nat : code = 2 /\ n = 2 /\ n # 0
      BY <1>3
    <3>2. PICK type : type = "ConnAck"
      OBVIOUS
    <3> QED
      BY <1>3, <2>1, <3>1, <3>2, HandedOn
  <2>3. ReaderOf("ConnAck", b1, 2, f, h) = ReadConnAck(f, h)
    BY DEF ReaderOf
  <2> QED
    BY <2>2, <2>3, Zenon
<1> DEFINE r == Fields(f, h, <<"u8", "u8">>)
<1>6. r = Run((h + Len(<<x>>)) + Len(<<p.code>>), <<x, p.code>>)
  <2>1. body = <<x>> \o <<p.code>>
    BY <1>2, PairOf, Zenon DEF ConnAckBody
  <2>2. /\ "u8" \in FieldKinds /\ Fits("u8", x) /\ Fits("u8", p.code)
        /\ Encoded("u8", x) = <<x>> /\ Encoded("u8", p.code) = <<p.code>>
    BY <1>2, EncodedAs, FitsAs, Zenon
  <2>3. At(f, h, Encoded("u8", x) \o Encoded("u8", p.code))
    BY <1>4, <2>1, <2>2, Zenon
  <2> HIDE DEF x
  <2>4. r = Run((h + Len(Encoded("u8", x))) + Len(Encoded("u8", p.code)), <<x, p.code>>)
    BY <1>4, <2>2, <2>3, TwoFields
  <2> QED
    BY <2>2, <2>4, Zenon
<1> HIDE DEF r
<1>7. r.error = "none" /\ r.values = <<x, p.code>>
  <2> HIDE DEF x
  <2> QED
    BY <1>6 DEF Run
<1>8. r.values[1] = x /\ r.values[2] = p.code
  <2> HIDE DEF x
  <2> QED
    BY <1>7
<1>9. Bit(x, 1) = p.session_present
  BY <1>1, SMT DEF Bit, Flag
<1>10. ~(p.code > 5)
  BY <1>1
<1> HIDE DEF x
<1>11. ConnAckOf(r) = Packet([type |-> "ConnAck", session_present |-> p.session_present, code |-> p.code])
  BY <1>7, <1>8, <1>9, <1>10, Zenon DEF ConnAckOf
<1> QED
  BY <1>1, <1>4, <1>5, <1>11, Zenon DEF ReadConnAck, r, f

(* SubAck: a list without codes is refused. *)
LEMMA SubAckRead ==
    ASSUME NEW p \in PacketSet, p.type = "SubAck", NEW b1, b1 = 144,
           2 + Len(p.codes) <= MaxRemaining
    PROVE  LET r == ExactOf(FrameBytes(b1, 2 + Len(p.codes), SubAckBody(p)))
           IN  IF p.codes = << >> THEN r.error # "none" ELSE r = Packet(p)
<1> DEFINE body == SubAckBody(p)
           n == 2 + Len(p.codes)
           f == FrameBytes(b1, n, body)
           h == 1 + LengthBytes(n)
<1>1. /\ p.pkid \in Word16 /\ p.codes \in Seq({0, 1, 2, 128})
      /\ p = [type |-> "SubAck", pkid |-> p.pkid, codes |-> p.codes]
  BY SubAckFields
<1>2. p.pkid \in Nat /\ p.codes \in Seq(Byte) /\ Len(p.codes) \in Nat
  BY <1>1, CodesAreBytes
<1>3. body \in Seq(Byte) /\ Len(body) = n
  <2>1. U16(p.pkid) \in Seq(Byte) /\ Len(U16(p.pkid)) = 2
    BY <1>2, CastLength, Zenon
  <2> QED
    BY <1>2, <2>1, ConcatTyped, Zenon DEF SubAckBody
<1>4. b1 \in Byte /\ b1 \div 16 = 9 /\ 9 \in 1..14 /\ n \in Nat /\ n # 0
  BY <1>2 DEF Byte
<1>5. /\ f \in Seq(Byte) /\ At(f, h, body) /\ h + n = Len(f) /\ ExactOf(f) = ReadExact(b1, n, f, h)
  BY <1>3, <1>4, FrameReads
<1> HIDE DEF f, h
<1>6. ReadExact(b1, n, f, h) = ReadSubAck(f, h)
  <2>1. PacketTypes[9] = "SubAck" /\ "SubAck" \notin Bodiless
    BY TypeNames DEF Bodiless
  <2>2. ReadExact(b1, n, f, h) = ReaderOf("SubAck", b1, n, f, h)
    <3>1. PICK code \in 1..14 : code = 9
      BY <1>4
    <3>2. PICK type : type = "SubAck"
      OBVIOUS
    <3>3. PICK m \in Nat : m = n
      BY <1>4
    <3>4. /\ b1 \div 16 = code /\ PacketTypes[code] = type /\ type \notin Bodiless /\ m # 0
      BY <1>4, <2>1, <3>1, <3>2, <3>3, Zenon
    <3>5. ReadExact(b1, m, f, h) = ReaderOf(type, b1, m, f, h)
      <4> HIDE DEF n
      <4> QED
        BY ONLY <3>4, HandedOn, code \in 1..14, m \in Nat
    <3> QED
      BY <3>2, <3>3, <3>5, Zenon
  <2>3. ReaderOf("SubAck", b1, n, f, h) = ReadSubAck(f, h)
    BY DEF ReaderOf
  <2> QED
    BY <2>2, <2>3, Zenon
<1> DEFINE r == Fields(f, h, <<"u16">>)
<1>7. r = Run(h + 2, <<p.pkid>>) /\ At(f, h + 2, p.codes)
  BY <1>1, <1>2, <1>5, ReadsPkid DEF SubAckBody
<1>8. SubSeq(f, h + 3, Len(f)) = p.codes
  <2>1. SubSeq(f, (h + 2) + 1, (h + 2) + Len(p.codes)) = p.codes
    BY <1>2, <1>5, <1>7, AtCut, Zenon
  <2>2. h \in Nat
    BY <1>5, Zenon DEF At
  <2>3. (h + 2) + 1 = h + 3 /\ (h + 2) + Len(p.codes) = Len(f)
    <3>1. PICK m \in Nat : m = Len(p.codes)
      BY <1>2
    <3>2. h + (2 + m) = Len(f)
      BY <1>5, <3>1, Zenon
    <3>3. (h + 2) + 1 = h + 3 /\ (h + 2) + m = h + (2 + m)
      BY <2>2
    <3> QED
      BY <3>1, <3>2, <3>3, Zenon
  <2> QED
    BY <2>1, <2>3, Zenon
<1> HIDE DEF r
<1>9. r.error = "none" /\ r.values[1] = p.pkid
  BY <1>7 DEF Run
<1>10. ToSet(p.codes) \subseteq ReasonCodes
  BY <1>1 DEF ToSet, ReasonCodes
<1>11. ExactOf(f) = SubAckOf(r, p.codes)
  BY <1>5, <1>6, <1>8, Zenon DEF ReadSubAck, r
<1>12. CASE p.codes = << >>
  <2>1. ExactOf(f) = Err("MalformedPacket")
    BY <1>9, <1>11, <1>12, Zenon DEF SubAckOf
  <2>2. ExactOf(f).error # "none"
    BY <2>1 DEF Err
  <2> QED
    BY <1>12, <2>2 DEF f
<1>13. CASE p.codes # << >>
  <2>1. ExactOf(f) = Packet([type |-> "SubAck", pkid |-> p.pkid, codes |-> p.codes])
    BY <1>9, <1>10, <1>11, <1>13, Zenon DEF SubAckOf
  <2> QED
    BY <1>1, <1>13, <2>1, Zenon DEF f
<1> QED
  BY <1>12, <1>13

-----------------------------------------------------------------------------
(* What is behind the fields of a frame. *)
LEMMA RestOfFrame ==
    ASSUME NEW b \in Seq(Byte), NEW from, NEW s \in Seq(Byte), NEW t \in Seq(Byte),
           At(b, from, s \o t), from + Len(s \o t) = Len(b)
    PROVE  SubSeq(b, (from + Len(s)) + 1, Len(b)) = t
<1>1. At(b, from + Len(s), t)
  BY AtBoth, Zenon
<1>2. SubSeq(b, (from + Len(s)) + 1, (from + Len(s)) + Len(t)) = t
  BY <1>1, AtCut, Zenon
<1>3. (from + Len(s)) + Len(t) = Len(b)
  <2>1. Len(s \o t) = Len(s) + Len(t)
    BY ConcatTyped, Zenon
  <2>2. from + (Len(s) + Len(t)) = Len(b)
    BY <2>1
  <2>3. from \in Nat
    BY Zenon DEF At
  <2>4. PICK x \in Nat, y \in Nat : x = Len(s) /\ y = Len(t)
    OBVIOUS
  <2>5. (from + x) + y = from + (x + y)
    BY <2>3
  <2> QED
    BY <2>2, <2>4, <2>5, Zenon
<1> QED
  BY <1>2, <1>3, Zenon

(* The flags in the first byte of a publish. *)
LEMMA PublishBits ==
    ASSUME NEW p \in PacketSet, p.type = "Publish"
    PROVE  /\ PublishByte1(p) \in Byte /\ PublishByte1(p) \div 16 = 3
           /\ (PublishByte1(p) \div 2) % 4 = p.qos
           /\ Bit(PublishByte1(p), 8) = p.dup /\ Bit(PublishByte1(p), 1) = p.retain
<1> DEFINE x == Flag(p.retain, 1)
           y == Flag(p.dup, 8)
<1>1. /\ p.qos \in 0..2 /\ p.dup \in BOOLEAN /\ p.retain \in BOOLEAN /\ PublishByte1(p) \in Byte
      /\ PublishByte1(p) = 48 + x + 2 * p.qos + y
  BY PublishTyped
<1>2. x \in {0, 1} /\ y \in {0, 8}
  BY <1>1, FlagValue
<1>3. (x = 1 <=> p.retain) /\ (y = 8 <=> p.dup)
  BY DEF Flag
<1>4. PICK n : n = PublishByte1(p)
  OBVIOUS
<1> HIDE DEF x, y
<1>5. /\ n \div 16 = 3 /\ (n \div 2) % 4 = p.qos
      /\ (n \div 8) % 2 = 1 <=> p.dup
      /\ (n \div 1) % 2 = 1 <=> p.retain
  <2>1. n = 48 + x + 2 * p.qos + y /\ n \in Nat
    BY <1>1, <1>4 DEF Byte
  <2>2. PICK q \in 0..2 : q = p.qos
    BY <1>1
  <2>3. n = 48 + x + 2 * q + y
    BY <2>1, <2>2
  <2>4. /\ n \div 16 = 3 /\ (n \div 2) % 4 = q
        /\ (n \div 8) % 2 = 1 <=> y = 8
        /\ (n \div 1) % 2 = 1 <=> x = 1
    <3>1. (x = 0 \/ x = 1) /\ (y = 0 \/ y = 8) /\ (q = 0 \/ q = 1 \/ q = 2)
      BY <1>2
    <3> QED
      BY <2>1, <2>3, <3>1, SMT
  <2> QED
    BY <1>3, <2>2, <2>4
<1>6. Bit(n, 8) = p.dup /\ Bit(n, 1) = p.retain
  <2>1. Bit(n, 8) <=> p.dup
    BY <1>5, Zenon DEF Bit
  <2>2. Bit(n, 1) <=> p.retain
    BY <1>5, Zenon DEF Bit
  <2>3. Bit(n, 8) \in BOOLEAN /\ Bit(n, 1) \in BOOLEAN
    BY DEF Bit
  <2> QED
    BY <1>1, <2>1, <2>2, <2>3
<1> QED
  BY <1>1, <1>4, <1>5, <1>6, Zenon

(* A publish without and with an identifier. *)
LEMMA PublishReads ==
    ASSUME NEW p \in PacketSet, p.type = "Publish", Len(p.topic) <= MaxWord,
           p.qos # 0 => p.pkid # 0,
           NEW b \in Seq(Byte), NEW h, At(b, h, PublishBody(p)), h + Len(PublishBody(p)) = Len(b)
    PROVE  ReadPublish(PublishByte1(p), b, h) = Packet(Normal(p))
<1> DEFINE b1 == PublishByte1(p)
           s == MqttBytes(p.topic)
           id == U16(p.pkid)
           z == p.payload
           r == Fields(b, h, IF p.qos = 0 THEN <<"string">> ELSE <<"string", "u16">>)
           out(k) == [type |-> "Publish", dup |-> p.dup, qos |-> p.qos, retain |-> p.retain,
                      topic |-> p.topic, pkid |-> k, payload |-> z]
<1>1. /\ p.qos \in 0..2 /\ p.topic \in Text /\ p.pkid \in Word16 /\ z \in Seq(Byte)
      /\ p.dup \in BOOLEAN /\ p.retain \in BOOLEAN
      /\ p = out(p.pkid)
  BY PublishFields
<1>2. p.topic \in Seq(Byte) /\ p.pkid \in Nat /\ p.pkid \in 0..MaxWord
  BY <1>1, TextIsBytes, WordFits, Zenon
<1>3. s \in Seq(Byte) /\ id \in Seq(Byte)
  BY <1>2, MqttBytesTyped, CastLength, Zenon
<1>4. /\ (b1 \div 2) % 4 = p.qos /\ ~(p.qos > 2)
      /\ Bit(b1, 8) = p.dup /\ Bit(b1, 1) = p.retain
  BY <1>1, PublishBits
<1> HIDE DEF b1
<1>5. ReadPublish(b1, b, h) = PublishOf(b1, p.qos, b, r)
  BY <1>4, Zenon DEF ReadPublish
<1>6. /\ "string" \in FieldKinds /\ Fits("string", p.topic) /\ Encoded("string", p.topic) = s
      /\ "u16" \in FieldKinds /\ Fits("u16", p.pkid) /\ Encoded("u16", p.pkid) = id
  BY <1>1, <1>2, EncodedAs, FitsAs, Zenon
<1>7. CASE p.qos = 0
  <2>1. PublishBody(p) = s \o z
    <3>1. PkidBytes(p) = << >>
      BY <1>7 DEF PkidBytes
    <3>2. << >> \o z = z
      BY <1>1, ConcatEmptySeq, Zenon
    <3> QED
      BY <3>1, <3>2, Zenon DEF PublishBody
  <2>2. r = Run(h + Len(s), <<p.topic>>)
    <3>1. r = Fields(b, h, <<"string">>)
      BY <1>7, Zenon
    <3>2. At(b, h, s)
      BY <1>1, <1>3, <2>1, AtBoth, ZenonT(60)
    <3> HIDE DEF r, s
    <3>3. PICK k : k = "string"
      OBVIOUS
    <3>4. Fields(b, h, <<k>>) = Run(h + Len(Encoded(k, p.topic)), <<p.topic>>)
      BY <1>6, <3>2, <3>3, OneField
    <3> QED
      BY <1>6, <3>1, <3>3, <3>4, Zenon
  <2>3. SubSeq(b, (h + Len(s)) + 1, Len(b)) = z
    BY <1>1, <1>3, <2>1, RestOfFrame, ZenonT(60)
  <2> HIDE DEF r, s
  <2>4. r.error = "none" /\ r.values[1] = p.topic /\ r.next = h + Len(s)
    BY <2>2 DEF Run
  <2>5. PublishOf(b1, p.qos, b, r) = Packet(out(0))
    BY <1>4, <1>7, <2>3, <2>4, Zenon DEF PublishOf
  <2>6. Normal(p) = out(0)
    <3>1. Normal(p) = [p EXCEPT !.pkid = 0]
      BY <1>7 DEF Normal
    <3> QED
      BY <1>1, <3>1
  <2> QED
    BY <1>5, <2>5, <2>6, Zenon DEF b1
<1>8. CASE p.qos # 0
  <2>1. PublishBody(p) = s \o (id \o z) /\ PublishBody(p) = (s \o id) \o z
    <3>1. PkidBytes(p) = id
      BY <1>8 DEF PkidBytes
    <3>2. PublishBody(p) = s \o (id \o z)
      BY <3>1, Zenon DEF PublishBody
    <3> QED
      BY <1>1, <1>3, <3>2, BytesAssoc, ZenonT(60)
  <2>2. s \o id \in Seq(Byte) /\ Len(s \o id) = Len(s) + Len(id)
    BY <1>3, ConcatTyped, Zenon
  <2>3. At(b, h, s \o id)
    BY <1>1, <2>1, <2>2, AtBoth, Zenon
  <2>4. r = Run((h + Len(s)) + Len(id), <<p.topic, p.pkid>>)
    <3>1. r = Fields(b, h, <<"string", "u16">>)
      BY <1>8, Zenon
    <3> HIDE DEF r, s, id
    <3>2. PICK k, l : k = "string" /\ l = "u16"
      OBVIOUS
    <3>3. At(b, h, Encoded(k, p.topic) \o Encoded(l, p.pkid))
      BY <1>6, <2>3, <3>2, Zenon
    <3>4. k \in FieldKinds /\ l \in FieldKinds /\ Fits(k, p.topic) /\ Fits(l, p.pkid)
      BY <1>6, <3>2, Zenon
    <3>5. Fields(b, h, <<k, l>>) =
              Run((h + Len(Encoded(k, p.topic))) + Len(Encoded(l, p.pkid)), <<p.topic, p.pkid>>)
      BY <3>3, <3>4, TwoFields
    <3> QED
      BY <1>6, <3>1, <3>2, <3>5, Zenon
  <2>5. SubSeq(b, (h + Len(s \o id)) + 1, Len(b)) = z
    <3>1. At(b, h, (s \o id) \o z) /\ h + Len((s \o id) \o z) = Len(b)
      BY <2>1
    <3> QED
      BY <1>1, <2>2, <3>1, RestOfFrame, Zenon
  <2>6. h + Len(s \o id) = (h + Len(s)) + Len(id)
    <3>1. h \in Nat
      BY Zenon DEF At
    <3>2. PICK x \in Nat, y \in Nat : x = Len(s) /\ y = Len(id)
      BY <1>3
    <3>3. (h + x) + y = h + (x + y)
      BY <3>1
    <3> QED
      BY <2>2, <3>2, <3>3, Zenon
  <2> HIDE DEF r, s, id
  <2>7. PICK n : n = (h + Len(s)) + Len(id)
    OBVIOUS
  <2>8. r.error = "none" /\ r.values[1] = p.topic /\ r.values[2] = p.pkid /\ r.next = n
    <3>1. r = Run(n, <<p.topic, p.pkid>>)
      BY <2>4, <2>7, Zenon
    <3> QED
      BY <3>1 DEF Run
  <2>9. SubSeq(b, n + 1, Len(b)) = z
    BY <2>5, <2>6, <2>7, Zenon
  <2>10. PublishOf(b1, p.qos, b, r) = Packet(out(p.pkid))
    BY <1>4, <1>8, <2>8, <2>9, Zenon DEF PublishOf
  <2>11. Normal(p) = p
    BY <1>8 DEF Normal
  <2> QED
    BY <1>1, <1>5, <2>10, <2>11, Zenon DEF b1
<1> QED
  BY <1>7, <1>8

-----------------------------------------------------------------------------
(* A publish that was written, whichever way. *)
LEMMA PublishRead ==
    ASSUME NEW p \in PacketSet, p.type = "Publish", Len(p.topic) <= MaxWord,
           p.qos # 0 => p.pkid # 0, PublishBody(p) \in Seq(Byte),
           NEW n \in Nat, n = Len(PublishBody(p)), n # 0, n <= MaxRemaining
    PROVE  ExactOf(FrameBytes(PublishByte1(p), n, PublishBody(p))) = Packet(Normal(p))
<1> DEFINE b1 == PublishByte1(p)
           body == PublishBody(p)
           f == FrameBytes(b1, n, body)
           h == 1 + LengthBytes(n)
<1>1. b1 \in Byte /\ b1 \div 16 = 3
  BY PublishBits
<1>2. f \in Seq(Byte) /\ At(f, h, body) /\ h + n = Len(f) /\ ExactOf(f) = ReadExact(b1, n, f, h)
  BY <1>1, FrameReads
<1> HIDE DEF f, h
<1>3. ReadPublish(b1, f, h) = Packet(Normal(p))
  <2>1. h + Len(body) = Len(f)
    BY <1>2
  <2> QED
    BY <1>2, <2>1, PublishReads, Zenon
<1> HIDE DEF b1, body
<1>4. ReadExact(b1, n, f, h) = ReadPublish(b1, f, h)
  <2>1. PICK type : type = "Publish"
    OBVIOUS
  <2>2. PICK code \in 1..14 : code = 3
    OBVIOUS
  <2>3. b1 \div 16 = code /\ PacketTypes[code] = type /\ type \notin Bodiless /\ n # 0
    BY <1>1, <2>1, <2>2, TypeNames DEF Bodiless
  <2>4. ReadExact(b1, n, f, h) = ReaderOf(type, b1, n, f, h)
    BY ONLY <2>3, HandedOn, code \in 1..14, n \in Nat
  <2>5. ReaderOf("Publish", b1, n, f, h) = ReadPublish(b1, f, h)
    BY DEF ReaderOf
  <2> QED
    BY <2>1, <2>4, <2>5, Zenon
<1> QED
  BY <1>2, <1>3, <1>4, Zenon DEF f, b1, body

-----------------------------------------------------------------------------
(* Strings put behind one another. *)
Strings == Seq(Seq(Byte))

(* One string behind strings that are joined. *)
LEMMA FlattenAppend ==
    ASSUME NEW x \in Strings, NEW e \in Seq(Byte)
    PROVE  FlattenSeq(Append(x, e)) = FlattenSeq(x) \o e
<1> DEFINE n == Len(x)
           y == Append(x, e)
<1>1. /\ n \in Nat /\ y \in Strings /\ Len(y) = n + 1 /\ y[n + 1] = e
      /\ \A i \in 1..n : y[i] = x[i]
  BY DEF Strings
<1>2. PICK a \in [0..n -> Seq(Byte)] :
          /\ a[0] = << >> /\ a[n] = FlattenSeq(x)
          /\ \A i \in 1..n : a[i] = a[i - 1] \o x[i]
  BY FlattenRuns, Zenon DEF Strings
<1> HIDE DEF y
<1>3. PICK b \in [0..Len(y) -> Seq(Byte)] :
          /\ b[0] = << >> /\ b[Len(y)] = FlattenSeq(y)
          /\ \A i \in 1..Len(y) : b[i] = b[i - 1] \o y[i]
  BY <1>1, FlattenRuns, Zenon DEF Strings
<1> HIDE DEF n
<1> DEFINE P == {i \in Nat : i <= n => b[i] = a[i]}
<1>4. \A i \in 0..n : i \in P
  <2>1. 0 \in P
    BY <1>2, <1>3
  <2>2. ASSUME NEW i \in 1..n, i - 1 \in P
        PROVE  i \in P
    <3>1. i \in Nat /\ i - 1 \in Nat /\ i - 1 <= n /\ i \in 1..Len(y)
      BY <1>1
    <3>2. b[i - 1] = a[i - 1]
      BY <2>2, <3>1
    <3>3. b[i] = a[i]
      BY <1>1, <1>2, <1>3, <3>1, <3>2, Zenon
    <3> QED
      BY <3>1, <3>3
  <2>3. P \in SUBSET Nat
    OBVIOUS
  <2> HIDE DEF P
  <2> QED
    BY <1>1, <2>1, <2>2, <2>3, UpTo
<1>5. b[n] = a[n]
  BY <1>1, <1>4
<1>6. b[n + 1] = b[n] \o e
  <2>1. n + 1 \in 1..Len(y) /\ (n + 1) - 1 = n
    BY <1>1
  <2> QED
    BY <1>1, <1>3, <2>1, Zenon
<1> QED
  BY <1>1, <1>2, <1>3, <1>5, <1>6, Zenon DEF y

(* No strings, joined. *)
LEMMA FlattenNone == FlattenSeq(<< >>) = << >>
<1>1. PICK x : x = << >>
  OBVIOUS
<1>2. PICK a \in [0..Len(x) -> Seq(Byte)] : a[0] = << >> /\ a[Len(x)] = FlattenSeq(x)
  <2>1. x \in Seq(Seq(Byte))
    BY <1>1
  <2> QED
    BY <2>1, FlattenRuns, Zenon
<1>3. Len(x) = 0
  BY <1>1
<1> QED
  BY <1>1, <1>2, <1>3, Zenon

(* One string, joined. *)
LEMMA FlattenOne ==
    ASSUME NEW e \in Seq(Byte)
    PROVE  <<e>> \in Strings /\ FlattenSeq(<<e>>) = e
<1>1. << >> \in Strings /\ <<e>> \in Strings /\ Append(<< >>, e) = <<e>>
  BY DEF Strings
<1>2. FlattenSeq(Append(<< >>, e)) = FlattenSeq(<< >>) \o e
  BY <1>1, FlattenAppend, Zenon
<1>3. << >> \o e = e
  BY ConcatEmptySeq, Zenon
<1> QED
  BY <1>1, <1>2, <1>3, FlattenNone, Zenon

(* One string in front of others. *)
LEMMA FlattenCons ==
    ASSUME NEW x \in Strings, NEW e \in Seq(Byte)
    PROVE  <<e>> \o x \in Strings /\ FlattenSeq(<<e>> \o x) = e \o FlattenSeq(x)
<1> DEFINE n == Len(x)
           y == <<e>> \o x
<1>1. /\ n \in Nat /\ y \in Strings /\ Len(y) = n + 1 /\ y[1] = e
      /\ \A i \in 1..n : y[i + 1] = x[i]
  BY DEF Strings
<1>2. PICK a \in [0..n -> Seq(Byte)] :
          /\ a[0] = << >> /\ a[n] = FlattenSeq(x)
          /\ \A i \in 1..n : a[i] = a[i - 1] \o x[i]
  BY FlattenRuns, Zenon DEF Strings
<1> HIDE DEF y
<1>3. PICK b \in [0..Len(y) -> Seq(Byte)] :
          /\ b[0] = << >> /\ b[Len(y)] = FlattenSeq(y)
          /\ \A i \in 1..Len(y) : b[i] = b[i - 1] \o y[i]
  BY <1>1, FlattenRuns, Zenon DEF Strings
<1>4. \A i \in 1..n : x[i] \in Seq(Byte)
  BY DEF Strings
<1> HIDE DEF n
<1> DEFINE P == {i \in Nat : i <= n => b[i + 1] = e \o a[i]}
<1>5. \A i \in 0..n : i \in P
  <2>1. 0 \in P
    <3>1. 1 \in 1..Len(y) /\ 1 - 1 = 0 /\ 0 + 1 = 1
      BY <1>1
    <3>2. b[1] = << >> \o e
      BY <1>1, <1>3, <3>1, Zenon
    <3>3. << >> \o e = e /\ e \o << >> = e
      BY ConcatEmptySeq, Zenon
    <3>4. b[0 + 1] = e \o a[0]
      BY <1>2, <3>1, <3>2, <3>3, Zenon
    <3> QED
      BY <3>4
  <2>2. ASSUME NEW i \in 1..n, i - 1 \in P
        PROVE  i \in P
    <3>1. /\ i \in Nat /\ i - 1 \in Nat /\ i - 1 <= n /\ i + 1 \in 1..Len(y)
          /\ (i - 1) + 1 = i /\ (i + 1) - 1 = i /\ i - 1 \in 0..n
      BY <1>1
    <3>2. b[i] = e \o a[i - 1]
      BY <2>2, <3>1
    <3>3. b[i + 1] = (e \o a[i - 1]) \o x[i]
      BY <1>1, <1>3, <3>1, <3>2, Zenon
    <3>4. a[i - 1] \in Seq(Byte) /\ x[i] \in Seq(Byte)
      BY <1>2, <1>4, <3>1, Zenon
    <3>5. (e \o a[i - 1]) \o x[i] = e \o (a[i - 1] \o x[i])
      BY <3>4, BytesAssoc, Zenon
    <3>6. b[i + 1] = e \o a[i]
      BY <1>2, <3>3, <3>5, Zenon
    <3> QED
      BY <3>1, <3>6
  <2>3. P \in SUBSET Nat
    OBVIOUS
  <2> HIDE DEF P
  <2> QED
    BY <1>1, <2>1, <2>2, <2>3, UpTo
<1>6. b[n + 1] = e \o a[n]
  BY <1>1, <1>5
<1> QED
  BY <1>1, <1>2, <1>3, <1>6, Zenon DEF y

-----------------------------------------------------------------------------
(* The levels of a topic, each but the last with its slash. *)
Slashed(x) == [i \in DOMAIN x |-> x[i] \o <<Slash>>]

Pieces(parts) == [i \in DOMAIN parts |-> IF i # Len(parts) THEN parts[i] \o <<Slash>> ELSE parts[i]]

(* A separator is a byte. *)
LEMMA OneSlash == <<Slash>> \in Seq(Byte)
<1>1. Slash \in Byte
  BY DEF Slash, Byte
<1> QED
  BY <1>1

(* Levels with their slashes are strings. *)
LEMMA SlashedTyped ==
    ASSUME NEW x \in Strings
    PROVE  Slashed(x) \in Strings
<1>1. ASSUME NEW i \in DOMAIN x
      PROVE  x[i] \o <<Slash>> \in Seq(Byte)
  <2>1. x[i] \in Seq(Byte)
    BY DEF Strings
  <2> QED
    BY <2>1, OneSlash, ConcatTyped, Zenon
<1>2. PICK s : s = <<Slash>>
  OBVIOUS
<1>3. \A i \in DOMAIN x : x[i] \o s \in Seq(Byte)
  BY <1>1, <1>2, Zenon
<1>4. DOMAIN x = 1..Len(x) /\ Len(x) \in Nat
  BY DEF Strings
<1>5. [i \in DOMAIN x |-> x[i] \o s] \in Strings
  <2> DEFINE g(i) == x[i] \o s
  <2>1. \A i \in 1..Len(x) : g(i) \in Seq(Byte)
    BY <1>3, <1>4
  <2> HIDE DEF g
  <2>2. [i \in 1..Len(x) |-> g(i)] \in Strings
    BY <1>4, <2>1 DEF Strings
  <2> QED
    BY <1>4, <2>2, Zenon DEF g
<1> QED
  BY <1>2, <1>5, Zenon DEF Slashed

(* One more level with its slash. *)
LEMMA SlashedAppend ==
    ASSUME NEW x \in Strings, NEW e \in Seq(Byte)
    PROVE  Slashed(Append(x, e)) = Append(Slashed(x), e \o <<Slash>>)
<1> DEFINE y == Append(x, e)
           n == Len(x)
           d == e \o <<Slash>>
<1>1. /\ n \in Nat /\ DOMAIN x = 1..n /\ y \in Strings /\ DOMAIN y = 1..(n + 1) /\ y[n + 1] = e
      /\ \A i \in 1..n : y[i] = x[i]
  BY DEF Strings
<1>2. d \in Seq(Byte)
  BY OneSlash, ConcatTyped, Zenon
<1>3. Slashed(x) \in Strings /\ Slashed(y) \in Strings
  BY <1>1, SlashedTyped, Zenon
<1>4. /\ DOMAIN Slashed(y) = 1..(n + 1) /\ DOMAIN Slashed(x) = 1..n
      /\ \A i \in 1..(n + 1) : Slashed(y)[i] = y[i] \o <<Slash>>
      /\ \A i \in 1..n : Slashed(x)[i] = x[i] \o <<Slash>>
  BY <1>1, Zenon DEF Slashed
<1> DEFINE u == Slashed(y)
           v == Slashed(x)
           w == Append(v, d)
<1>5. \A i \in 1..n : u[i] = v[i]
  <2>1. \A i \in 1..n : i \in 1..(n + 1)
    BY <1>1
  <2> QED
    BY <1>1, <1>4, <2>1, Zenon
<1>6. u[n + 1] = d
  <2>1. n + 1 \in 1..(n + 1)
    BY <1>1
  <2> QED
    BY <1>1, <1>4, <2>1, Zenon
<1>7. u \in Strings /\ v \in Strings /\ DOMAIN u = 1..(n + 1) /\ DOMAIN v = 1..n
  BY <1>3, <1>4, Zenon
<1> HIDE DEF u, v, d, y, n
<1>8. Len(u) = n + 1 /\ Len(v) = n
  BY <1>1, <1>7 DEF Strings
<1>9. /\ w \in Strings /\ Len(w) = n + 1 /\ w[n + 1] = d
      /\ \A i \in 1..n : w[i] = v[i]
  <2>1. n \in Nat /\ d \in Seq(Byte) /\ v \in Seq(Seq(Byte))
    BY <1>1, <1>2, <1>7, Zenon DEF Strings
  <2>2. w \in Seq(Seq(Byte)) /\ Len(w) = n + 1
    BY <1>8, <2>1
  <2>3. w[n + 1] = d /\ \A i \in 1..n : w[i] = v[i]
    BY <1>8, <2>1
  <2> QED
    BY <2>2, <2>3, Zenon DEF Strings
<1> HIDE DEF w
<1>10. \A i \in 1..Len(u) : u[i] = w[i]
  <2>1. \A i \in 1..(n + 1) : i \in 1..n \/ i = n + 1
    BY <1>1
  <2> QED
    BY <1>5, <1>6, <1>8, <1>9, <2>1, Zenon
<1>11. u = w
  BY <1>7, <1>8, <1>9, <1>10, SeqEqual, Zenon DEF Strings
<1> QED
  BY <1>11, Zenon DEF u, v, w, d, y

(* So they are if the last has none. *)
LEMMA PiecesTyped ==
    ASSUME NEW x \in Strings
    PROVE  Pieces(x) \in Strings
<1> DEFINE n == Len(x)
           v == Pieces(x)
<1>1. n \in Nat /\ DOMAIN x = 1..n
  BY DEF Strings
<1>2. /\ DOMAIN v = 1..n
      /\ \A i \in 1..n : v[i] = IF i # n THEN x[i] \o <<Slash>> ELSE x[i]
  BY <1>1, Zenon DEF Pieces
<1>3. ASSUME NEW i \in 1..n
      PROVE  v[i] \in Seq(Byte)
  <2>1. x[i] \in Seq(Byte)
    BY <1>1 DEF Strings
  <2>2. x[i] \o <<Slash>> \in Seq(Byte)
    BY <2>1, OneSlash, ConcatTyped, Zenon
  <2> QED
    BY <1>2, <2>1, <2>2, Zenon
<1>4. v = [i \in 1..n |-> v[i]]
  BY <1>2 DEF Pieces
<1> HIDE DEF v
<1>5. [i \in 1..n |-> v[i]] \in Seq(Seq(Byte))
  BY <1>1, <1>3
<1> QED
  BY <1>4, <1>5, Zenon DEF Strings, v

(* The pieces, when the last level is taken apart, and when the first is. *)
LEMMA PiecesAppend ==
    ASSUME NEW x \in Strings, NEW e \in Seq(Byte)
    PROVE  Pieces(Append(x, e)) = Append(Slashed(x), e)
<1> DEFINE y == Append(x, e)
           n == Len(x)
<1>1. /\ n \in Nat /\ DOMAIN x = 1..n /\ y \in Strings /\ DOMAIN y = 1..(n + 1) /\ Len(y) = n + 1
      /\ y[n + 1] = e /\ \A i \in 1..n : y[i] = x[i]
  BY DEF Strings
<1> DEFINE u == Pieces(y)
           v == Slashed(x)
           w == Append(v, e)
<1>2. v \in Strings /\ DOMAIN v = 1..n /\ \A i \in 1..n : v[i] = x[i] \o <<Slash>>
  BY <1>1, SlashedTyped, Zenon DEF Slashed
<1> HIDE DEF v, n
<1>3. /\ w \in Strings /\ Len(w) = n + 1 /\ DOMAIN w = 1..(n + 1) /\ w[n + 1] = e
      /\ \A i \in 1..n : w[i] = v[i]
  <2>1. Len(v) = n
    BY <1>1, <1>2 DEF Strings
  <2> QED
    BY <1>2, <2>1 DEF Strings
<1> HIDE DEF w, y
<1>4. /\ DOMAIN u = 1..(n + 1)
      /\ \A i \in 1..(n + 1) : u[i] = IF i # n + 1 THEN y[i] \o <<Slash>> ELSE y[i]
  BY <1>1, Zenon DEF Pieces
<1>5. \A i \in 1..(n + 1) : u[i] = w[i]
  <2>1. ASSUME NEW i \in 1..n
        PROVE  u[i] = w[i]
    <3>1. i \in 1..(n + 1) /\ i # n + 1
      BY <1>1
    <3> QED
      BY <1>1, <1>2, <1>3, <1>4, <3>1, Zenon
  <2>2. n + 1 \in 1..(n + 1) /\ \A i \in 1..(n + 1) : i \in 1..n \/ i = n + 1
    BY <1>1
  <2>3. u[n + 1] = w[n + 1]
    BY <1>1, <1>3, <1>4, <2>2, Zenon
  <2> QED
    BY <2>1, <2>2, <2>3, Zenon
<1>6. u = w
  <2>1. u = [i \in 1..(n + 1) |-> u[i]] /\ w = [i \in 1..(n + 1) |-> w[i]]
    <3>1. w = [i \in 1..(n + 1) |-> w[i]]
      BY <1>3 DEF Strings
    <3>2. u = [i \in 1..(n + 1) |-> u[i]]
      BY <1>4 DEF Pieces
    <3> QED
      BY <3>1, <3>2
  <2> HIDE DEF u
  <2> QED
    BY <1>5, <2>1
<1> QED
  BY <1>6, Zenon DEF u, w, v, y

(* One level in front of others. *)
LEMMA PiecesCons ==
    ASSUME NEW x \in Strings, x # << >>, NEW e \in Seq(Byte)
    PROVE  Pieces(<<e>> \o x) = <<e \o <<Slash>> >> \o Pieces(x)
<1> DEFINE y == <<e>> \o x
           n == Len(x)
           d == e \o <<Slash>>
           u == Pieces(y)
           v == Pieces(x)
           w == <<d>> \o v
<1>1. /\ n \in Nat /\ n # 0 /\ DOMAIN x = 1..n /\ y \in Strings /\ DOMAIN y = 1..(n + 1)
      /\ Len(y) = n + 1 /\ y[1] = e /\ \A i \in 1..n : y[i + 1] = x[i]
  BY DEF Strings
<1>2. d \in Seq(Byte)
  BY OneSlash, ConcatTyped, Zenon
<1>3. /\ DOMAIN v = 1..n
      /\ \A i \in 1..n : v[i] = IF i # n THEN x[i] \o <<Slash>> ELSE x[i]
  BY <1>1, Zenon DEF Pieces
<1> HIDE DEF y, d
<1>4. /\ DOMAIN u = 1..(n + 1)
      /\ \A i \in 1..(n + 1) : u[i] = IF i # n + 1 THEN y[i] \o <<Slash>> ELSE y[i]
  BY <1>1, Zenon DEF Pieces
<1>5. v \in Strings
  BY PiecesTyped, Zenon
<1>6. u = [i \in 1..(n + 1) |-> u[i]]
  BY <1>4 DEF Pieces
<1> HIDE DEF n, u, v
<1>7. Len(v) = n
  BY <1>1, <1>3, <1>5 DEF Strings
<1>8. w = [i \in 1..(n + 1) |-> w[i]] /\ w[1] = d /\ \A i \in 1..n : w[i + 1] = v[i]
  BY <1>1, <1>2, <1>5, <1>7 DEF Strings
<1> HIDE DEF w
<1>9. \A i \in 1..(n + 1) : u[i] = w[i]
  <2>1. u[1] = w[1]
    <3>1. 1 \in 1..(n + 1) /\ 1 # n + 1
      BY <1>1
    <3> QED
      BY <1>1, <1>4, <1>8, <3>1, Zenon DEF d
  <2>2. ASSUME NEW i \in 1..n
        PROVE  u[i + 1] = w[i + 1]
    <3>1. i + 1 \in 1..(n + 1) /\ (i + 1 # n + 1 <=> i # n)
      BY <1>1
    <3>2. u[i + 1] = IF i # n THEN x[i] \o <<Slash>> ELSE x[i]
      BY <1>1, <1>4, <3>1, Zenon
    <3> QED
      BY <1>3, <1>8, <3>2, Zenon
  <2>3. \A i \in 1..(n + 1) : i = 1 \/ (i - 1 \in 1..n /\ (i - 1) + 1 = i)
    BY <1>1
  <2> QED
    BY <2>1, <2>2, <2>3, Zenon
<1>10. u = w
  BY <1>6, <1>8, <1>9
<1> QED
  BY <1>10, Zenon DEF u, w, v, d, y

-----------------------------------------------------------------------------
(* One byte more. *)
LEMMA OneMore ==
    ASSUME NEW s \in Seq(Byte), NEW c \in Byte
    PROVE  /\ <<c>> \in Seq(Byte) /\ s \o << >> = s /\ << >> \o s = s
           /\ Append(s, c) = s \o <<c>> /\ Append(s, c) \in Seq(Byte)
<1>1. s \o << >> = s /\ << >> \o s = s
  BY ConcatEmptySeq, Zenon
<1>2. <<c>> \in Seq(Byte) /\ Append(s, c) = s \o <<c>> /\ Append(s, c) \in Seq(Byte)
  OBVIOUS
<1> QED
  BY <1>1, <1>2

(* The levels of the bytes so far, put together again. *)
Together(levels, bytes) ==
    \E front \in Strings, last \in Seq(Byte) :
       levels = Append(front, last) /\ FlattenSeq(Slashed(front)) \o last = bytes

(* One byte more of the topic, and the levels still make it up. *)
LEMMA TogetherStep ==
    ASSUME NEW levels, NEW bytes \in Seq(Byte), Together(levels, bytes), NEW c \in Byte
    PROVE  Together(NextLevels(levels, c), bytes \o <<c>>)
<1>1. PICK front \in Strings, last \in Seq(Byte) :
          levels = Append(front, last) /\ FlattenSeq(Slashed(front)) \o last = bytes
  BY Zenon DEF Together
<1> DEFINE start == FlattenSeq(Slashed(front))
<1>2. Slashed(front) \in Strings /\ start \in Seq(Byte)
  <2>1. Slashed(front) \in Strings
    BY SlashedTyped, Zenon
  <2> QED
    BY <2>1, FlattenTyped, Zenon DEF Strings
<1>3. <<c>> \in Seq(Byte) /\ Append(last, c) = last \o <<c>> /\ Append(last, c) \in Seq(Byte)
  BY OneMore, Zenon
<1>4. CASE c = Slash
  <2>1. NextLevels(levels, c) = Append(levels, << >>)
    BY <1>4, Zenon DEF NextLevels
  <2>2. Slashed(levels) = Append(Slashed(front), last \o <<c>>)
    BY <1>1, <1>4, SlashedAppend, Zenon
  <2>3. FlattenSeq(Slashed(levels)) = start \o (last \o <<c>>)
    <3>1. last \o <<c>> \in Seq(Byte)
      BY <1>3, Zenon
    <3> QED
      BY <1>2, <2>2, <3>1, FlattenAppend, Zenon
  <2>4. start \o (last \o <<c>>) = bytes \o <<c>>
    BY <1>1, <1>2, <1>3, BytesAssoc, ZenonT(60)
  <2>5. bytes \o <<c>> \in Seq(Byte)
    BY <1>3, ConcatTyped, Zenon
  <2>6. (bytes \o <<c>>) \o << >> = bytes \o <<c>>
    BY <2>5, ConcatEmptySeq, Zenon
  <2>7. levels \in Strings /\ << >> \in Seq(Byte)
    BY <1>1 DEF Strings
  <2> QED
    BY <2>1, <2>3, <2>4, <2>6, <2>7, Zenon DEF Together
<1>5. CASE c # Slash
  <2> DEFINE w == [levels EXCEPT ![Len(levels)] = Append(@, c)]
  <2>1. NextLevels(levels, c) = w
    BY <1>5, Zenon DEF NextLevels
  <2>2. w = Append(front, Append(last, c))
    <3>1. PICK z \in Seq(Byte) : z = Append(last, c)
      BY <1>3
    <3> DEFINE n == Len(front)
               u == [levels EXCEPT ![n + 1] = z]
               v == Append(front, z)
    <3>2. /\ n \in Nat /\ levels \in Seq(Seq(Byte)) /\ Len(levels) = n + 1
          /\ levels[n + 1] = last /\ \A i \in 1..n : levels[i] = front[i]
      BY <1>1 DEF Strings
    <3>3. /\ v \in Seq(Seq(Byte)) /\ Len(v) = n + 1 /\ v[n + 1] = z
          /\ \A i \in 1..n : v[i] = front[i]
      BY DEF Strings
    <3> HIDE DEF n, v
    <3>4. n + 1 \in 1..Len(levels)
      BY <3>2
    <3>5. /\ u \in Seq(Seq(Byte)) /\ Len(u) = n + 1
          /\ \A i \in 1..(n + 1) : u[i] = IF i = n + 1 THEN z ELSE levels[i]
      BY <3>2, <3>4
    <3> HIDE DEF u
    <3>6. \A i \in 1..(n + 1) : u[i] = v[i]
      <4>1. \A i \in 1..(n + 1) : i \in 1..n \/ i = n + 1
        BY <3>2
      <4> QED
        BY <3>2, <3>3, <3>5, <4>1
    <3>7. u = v
      BY <3>3, <3>5, <3>6, SeqEqual, Zenon
    <3>8. w = u
      BY <3>1, <3>2 DEF u
    <3> HIDE DEF w
    <3>9. v = Append(front, Append(last, c))
      BY <3>1, Zenon DEF v
    <3> QED
      BY <3>7, <3>8, <3>9
  <2>3. start \o Append(last, c) = bytes \o <<c>>
    <3>1. (start \o last) \o <<c>> = start \o (last \o <<c>>)
      BY <1>2, <1>3, BytesAssoc, Zenon
    <3>2. start \o last = bytes
      BY <1>1, Zenon
    <3>3. start \o Append(last, c) = start \o (last \o <<c>>)
      BY <1>3, Zenon
    <3> HIDE DEF start
    <3> QED
      BY <3>1, <3>2, <3>3
  <2> QED
    BY <1>1, <1>3, <2>1, <2>2, <2>3, Zenon DEF Together
<1> QED
  BY <1>4, <1>5

(* The levels of a topic, with slashes between them, are the topic. *)
LEMMA LevelsJoined ==
    ASSUME NEW s \in Seq(Byte)
    PROVE  Separated(Levels(s), <<Slash>>) = s
<1>1. PICK acc \in [0..Len(s) -> LevelSet] :
          /\ acc[0] = << << >> >>
          /\ acc[Len(s)] = Levels(s)
          /\ \A i \in 1..Len(s) : acc[i] = NextLevels(acc[i - 1], s[i])
  BY LevelRuns, Zenon
<1>2. Len(s) \in Nat
  OBVIOUS
<1> DEFINE P == {i \in Nat : i <= Len(s) => Together(acc[i], SubSeq(s, 1, i))}
<1>3. \A i \in 0..Len(s) : i \in P
  <2>1. 0 \in P
    <3>1. PICK e : e = << >>
      OBVIOUS
    <3>2. e \in Strings /\ e \in Seq(Byte) /\ Append(e, e) = << << >> >> /\ SubSeq(s, 1, 0) = e
      BY <3>1 DEF Strings
    <3>3. Slashed(e) = << >>
      BY <3>1 DEF Slashed
    <3>4. FlattenSeq(Slashed(e)) \o e = e
      <4>1. << >> \o e = e
        BY <3>2, ConcatEmptySeq, Zenon
      <4> QED
        BY <3>1, <3>3, <4>1, FlattenNone, Zenon
    <3>5. Together(acc[0], SubSeq(s, 1, 0))
      BY <1>1, <3>2, <3>4, Zenon DEF Together
    <3> QED
      BY <3>5
  <2>2. ASSUME NEW i \in 1..Len(s), i - 1 \in P
        PROVE  i \in P
    <3>1. /\ i \in Nat /\ i - 1 \in Nat /\ i - 1 <= Len(s) /\ s[i] \in Byte
          /\ SubSeq(s, 1, i - 1) \in Seq(Byte)
      BY <1>2
    <3>2. Together(acc[i - 1], SubSeq(s, 1, i - 1))
      BY <2>2, <3>1
    <3>3. SubSeq(s, 1, i) = SubSeq(s, 1, i - 1) \o <<s[i]>>
      <4>1. 1 \in 1..Len(s) /\ i \in 1..Len(s)
        BY <1>2
      <4> QED
        BY <4>1, SubSeqRecursiveSecond, Zenon
    <3>4. Together(acc[i], SubSeq(s, 1, i))
      BY <1>1, <3>1, <3>2, <3>3, TogetherStep, Zenon
    <3> QED
      BY <3>1, <3>4
  <2>3. P \in SUBSET Nat
    OBVIOUS
  <2> HIDE DEF P
  <2> QED
    BY <1>2, <2>1, <2>2, <2>3, UpTo
<1>4. Together(Levels(s), s)
  <2>1. Together(acc[Len(s)], SubSeq(s, 1, Len(s)))
    BY <1>2, <1>3
  <2>2. SubSeq(s, 1, Len(s)) = s
    BY SubSeqFull, Zenon
  <2> QED
    BY <1>1, <2>1, <2>2, Zenon
<1>5. PICK front \in Strings, last \in Seq(Byte) :
          Levels(s) = Append(front, last) /\ FlattenSeq(Slashed(front)) \o last = s
  BY <1>4, Zenon DEF Together
<1>6. Separated(Levels(s), <<Slash>>) = FlattenSeq(Pieces(Levels(s)))
  BY Zenon DEF Separated, Pieces
<1>7. FlattenSeq(Append(Slashed(front), last)) = FlattenSeq(Slashed(front)) \o last
  BY SlashedTyped, FlattenAppend, Zenon
<1> QED
  BY <1>5, <1>6, <1>7, PiecesAppend, Zenon

-----------------------------------------------------------------------------
(* What the iterator has still to give, and in how many steps. *)
Sep(parts) == FlattenSeq(Pieces(parts))

Rest(it) ==
    IF it.rest = << >> THEN << >>
    ELSE IF it.first \/ it.prev_was_separator THEN Sep(it.rest)
    ELSE <<Slash>> \o Sep(it.rest)

Left(it) ==
    IF it.rest = << >> THEN 0
    ELSE 2 * Len(it.rest) - (IF it.first \/ it.prev_was_separator THEN 1 ELSE 0)

(* Levels with separators between them are bytes. *)
LEMMA SepTyped ==
    ASSUME NEW x \in Strings
    PROVE  Sep(x) \in Seq(Byte)
<1>1. Pieces(x) \in Seq(Seq(Byte))
  BY PiecesTyped, Zenon DEF Strings
<1> QED
  BY <1>1, FlattenTyped, Zenon DEF Sep

(* The first of the parts, and the others. *)
LEMMA SepHead ==
    ASSUME NEW x \in Strings, x # << >>
    PROVE  /\ Head(x) \in Seq(Byte) /\ Tail(x) \in Strings /\ Len(Tail(x)) = Len(x) - 1
           /\ Sep(x) = IF Tail(x) = << >> THEN Head(x)
                       ELSE Head(x) \o (<<Slash>> \o Sep(Tail(x)))
<1> DEFINE e == Head(x)
           y == Tail(x)
<1>1. e \in Seq(Byte) /\ y \in Strings /\ Len(y) = Len(x) - 1
  BY HeadTailProperties DEF Strings
<1>2. x = <<e>> \o y
  BY DEF Strings
<1> HIDE DEF e, y
<1>3. CASE y = << >>
  <2>1. PICK z : z = << >>
    OBVIOUS
  <2>2. z \in Strings /\ Append(z, e) = <<e>> /\ <<e>> \o y = <<e>>
    BY <1>1, <1>3, <2>1 DEF Strings
  <2>3. Slashed(z) = z
    BY <2>1 DEF Slashed
  <2>4. Pieces(x) = <<e>>
    BY <1>1, <1>2, <2>2, <2>3, PiecesAppend, Zenon
  <2>5. Sep(x) = e
    BY <1>1, <2>4, FlattenOne, Zenon DEF Sep
  <2> QED
    BY <1>1, <1>3, <2>5 DEF e, y
<1>4. CASE y # << >>
  <2> DEFINE d == e \o <<Slash>>
  <2>1. d \in Seq(Byte)
    BY <1>1, OneSlash, ConcatTyped, Zenon
  <2>2. Pieces(x) = <<d>> \o Pieces(y)
    BY <1>1, <1>2, <1>4, PiecesCons, Zenon
  <2>3. Sep(x) = d \o Sep(y)
    <3> HIDE DEF d
    <3> QED
      BY <1>1, <2>1, <2>2, PiecesTyped, FlattenCons, Zenon DEF Sep
  <2>4. d \o Sep(y) = e \o (<<Slash>> \o Sep(y))
    BY <1>1, OneSlash, SepTyped, BytesAssoc, Zenon
  <2>5. Sep(x) = e \o (<<Slash>> \o Sep(y))
    BY <2>3, <2>4, Zenon
  <2> QED
    BY <1>1, <1>4, <2>5 DEF e, y
<1> QED
  BY <1>3, <1>4

(* An item moves from what is left to what was given. *)
LEMMA ItemStep ==
    ASSUME NEW it \in IteratorSet, NEW items \in Strings
    PROVE  /\ FlattenSeq(items \o Item(it)) \o Rest(After(it)) = FlattenSeq(items) \o Rest(it)
           /\ Left(it) \in Nat
           /\ Left(After(it)) = IF Left(it) = 0 THEN 0 ELSE Left(it) - 1
<1> DEFINE rest == it.rest
           given == FlattenSeq(items)
           x == After(it)
<1>1. rest \in Strings /\ it.first \in BOOLEAN /\ it.prev_was_separator \in BOOLEAN /\ Len(rest) \in Nat
  BY DEF IteratorSet, Strings
<1>2. given \in Seq(Byte)
  BY FlattenTyped, Zenon DEF Strings
<1>3. \A e \in Seq(Byte) : FlattenSeq(items \o <<e>>) = given \o e
  <2>1. ASSUME NEW e \in Seq(Byte)
        PROVE  FlattenSeq(items \o <<e>>) = given \o e
    <3>1. items \o <<e>> = Append(items, e)
      BY DEF Strings
    <3> QED
      BY <3>1, FlattenAppend, Zenon
  <2> QED
    BY <2>1
<1>4. CASE rest = << >>
  <2>1. x = [it EXCEPT !.first = FALSE] /\ Item(it) = << >>
    BY <1>4, Zenon DEF After, Item
  <2>2. x.rest = << >>
    BY <1>4, <2>1 DEF IteratorSet
  <2>3. Rest(x) = << >> /\ Rest(it) = << >> /\ Left(x) = 0 /\ Left(it) = 0
    BY <1>4, <2>2, Zenon DEF Rest, Left
  <2>4. items \o << >> = items
    BY ConcatEmptySeq, Zenon DEF Strings
  <2> HIDE DEF x
  <2>5. FlattenSeq(items \o Item(it)) \o Rest(x) = given \o Rest(it)
    BY <2>1, <2>3, <2>4, Zenon
  <2>6. 0 \in Nat
    OBVIOUS
  <2> QED
    BY <2>3, <2>5, <2>6, Zenon DEF x
<1>5. CASE rest # << >> /\ (it.first \/ it.prev_was_separator)
  <2> DEFINE e == Head(rest)
             y == Tail(rest)
  <2>1. x = [rest |-> y, first |-> FALSE, prev_was_separator |-> FALSE] /\ Item(it) = <<e>>
    BY <1>5, Zenon DEF After, Item
  <2>2. /\ e \in Seq(Byte) /\ y \in Strings /\ Len(y) = Len(rest) - 1
        /\ Sep(rest) = IF y = << >> THEN e ELSE e \o (<<Slash>> \o Sep(y))
    BY <1>1, <1>5, SepHead, Zenon
  <2> HIDE DEF e, y
  <2>3. x.rest = y /\ ~x.first /\ ~x.prev_was_separator
    BY <2>1
  <2> HIDE DEF x
  <2>4. Rest(it) = Sep(rest) /\ Left(it) = 2 * Len(rest) - 1
    BY <1>5 DEF Rest, Left
  <2>5. /\ Rest(x) = IF y = << >> THEN << >> ELSE <<Slash>> \o Sep(y)
        /\ Left(x) = IF y = << >> THEN 0 ELSE 2 * Len(y)
    <3>1. /\ Rest(x) = IF y = << >> THEN << >> ELSE <<Slash>> \o Sep(y)
          /\ Left(x) = IF y = << >> THEN 0 ELSE 2 * Len(y) - 0
      BY <2>3, Zenon DEF Rest, Left
    <3>2. 2 * Len(y) - 0 = 2 * Len(y)
      BY <2>2 DEF Strings
    <3> QED
      BY <3>1, <3>2
  <2>6. Len(rest) # 0 /\ (y = << >> <=> Len(rest) = 1)
    <3>1. Len(rest) # 0
      BY <1>1, <1>5 DEF Strings
    <3>2. y \in Strings /\ Len(y) = Len(rest) - 1
      BY <2>2, Zenon
    <3>3. y = << >> <=> Len(y) = 0
      <4>1. PICK z \in Strings : z = y
        BY <3>2
      <4>2. z = << >> <=> Len(z) = 0
        BY DEF Strings
      <4> QED
        BY <4>1, <4>2, Zenon
    <3>4. Len(y) = 0 <=> Len(rest) = 1
      BY <1>1, <3>2
    <3> QED
      BY <3>1, <3>3, <3>4, Zenon
  <2>7. Left(it) \in Nat /\ Left(x) = IF Left(it) = 0 THEN 0 ELSE Left(it) - 1
    <3>1. PICK n \in Nat : n = Len(rest)
      BY <1>1
    <3>2. n # 0 /\ Left(it) = 2 * n - 1
      BY <2>4, <2>6, <3>1
    <3>3. Left(x) = IF n = 1 THEN 0 ELSE 2 * (n - 1)
      BY <2>2, <2>5, <2>6, <3>1, Zenon
    <3>4. CASE n = 1
      <4>1. Left(x) = 0
        BY <3>3, <3>4, Zenon
      <4> QED
        BY <3>2, <3>4, <4>1
    <3>5. CASE n # 1
      <4>1. Left(x) = 2 * (n - 1)
        BY <3>3, <3>5, Zenon
      <4>2. 2 * n - 1 # 0 /\ 2 * n - 1 \in Nat /\ (2 * n - 1) - 1 = 2 * (n - 1)
        BY <3>2
      <4> QED
        BY <3>2, <4>1, <4>2, Zenon
    <3> QED
      BY <3>4, <3>5
  <2>8. FlattenSeq(items \o Item(it)) \o Rest(x) = given \o Rest(it)
    <3>1. FlattenSeq(items \o Item(it)) = given \o e
      BY <1>3, <2>1, <2>2, Zenon
    <3>2. (given \o e) \o Rest(x) = given \o (e \o Rest(x))
      <4>1. <<Slash>> \o Sep(y) \in Seq(Byte) /\ << >> \in Seq(Byte)
        <5>1. << >> \in Seq(Byte)
          OBVIOUS
        <5> QED
          BY <2>2, <5>1, OneSlash, SepTyped, ConcatTyped, Zenon
      <4>2. Rest(x) \in Seq(Byte)
        BY <2>5, <4>1, Zenon
      <4> QED
        BY <1>2, <2>2, <4>2, BytesAssoc, Zenon
    <3>3. e \o Rest(x) = Sep(rest)
      <4>1. e \o << >> = e
        BY <2>2, ConcatEmptySeq, Zenon
      <4> QED
        BY <2>2, <2>5, <4>1, Zenon
    <3> QED
      BY <2>4, <3>1, <3>2, <3>3, Zenon
  <2> QED
    BY <2>7, <2>8, Zenon DEF x
<1>6. CASE rest # << >> /\ ~(it.first \/ it.prev_was_separator)
  <2>1. x = [it EXCEPT !.prev_was_separator = TRUE] /\ Item(it) = << <<Slash>> >>
    BY <1>6, Zenon DEF After, Item
  <2>2. x.rest = rest /\ x.prev_was_separator
    BY <2>1 DEF IteratorSet
  <2> HIDE DEF x
  <2>3. Rest(x) = Sep(rest) /\ Rest(it) = <<Slash>> \o Sep(rest)
    BY <1>6, <2>2, Zenon DEF Rest
  <2>4. Left(x) = 2 * Len(rest) - 1 /\ Left(it) = 2 * Len(rest) - 0
    BY <1>6, <2>2, Zenon DEF Left
  <2>5. Left(it) \in Nat /\ Left(x) = IF Left(it) = 0 THEN 0 ELSE Left(it) - 1
    <3>1. Len(rest) # 0
      BY <1>1, <1>6 DEF Strings
    <3> QED
      BY <1>1, <2>4, <3>1
  <2>6. FlattenSeq(items \o Item(it)) \o Rest(x) = given \o Rest(it)
    <3>1. FlattenSeq(items \o Item(it)) = given \o <<Slash>>
      BY <1>3, <2>1, OneSlash, Zenon
    <3>2. (given \o <<Slash>>) \o Sep(rest) = given \o (<<Slash>> \o Sep(rest))
      BY <1>1, <1>2, OneSlash, SepTyped, BytesAssoc, Zenon
    <3> QED
      BY <2>3, <3>1, <3>2, Zenon
  <2> QED
    BY <2>5, <2>6, Zenon DEF x
<1> QED
  BY <1>4, <1>5, <1>6

(* The items of a TopicIterator are the parts with slashes between them. *)
LEMMA ItemsJoined ==
    ASSUME NEW parts \in Strings, parts # << >>
    PROVE  FlattenSeq(TopicItems(parts)) = Sep(parts)
<1> DEFINE m == 2 * Len(parts)
           ns == [n \in 1..m |-> n]
<1>1. m \in Nat /\ ns \in Seq(Nat) /\ Len(ns) = m
  <2>1. m \in Nat
    BY DEF Strings
  <2> HIDE DEF m
  <2> QED
    BY <2>1
<1>2. PICK acc \in [0..Len(ns) -> ItemsSet] :
          /\ acc[0] = [it |-> Iterator(parts), items |-> << >>]
          /\ acc[Len(ns)] = FoldLeft(LAMBDA got_, n : [it |-> After(got_.it), items |-> got_.items \o Item(got_.it)], [it |-> Iterator(parts), items |-> << >>], ns)
          /\ \A i \in 1..Len(ns) : acc[i] = NextItems(acc[i - 1])
  <2> HIDE DEF ns
  <2> QED
    BY <1>1, ItemRuns DEF Strings
<1>3. TopicItems(parts) = acc[m].items
  BY <1>1, <1>2, Zenon DEF TopicItems
<1> HIDE DEF ns
<1> DEFINE Q(i) == /\ FlattenSeq(acc[i].items) \o Rest(acc[i].it) = Sep(parts)
                   /\ Left(acc[i].it) \in Nat
                   /\ Left(acc[i].it) <= m - i
           P == {i \in Nat : i <= m => Q(i)}
<1>4. \A i \in 0..m : i \in P
  <2>1. 0 \in P
    <3>1. acc[0].it = Iterator(parts) /\ acc[0].items = << >>
      <4>1. acc[0] = [it |-> Iterator(parts), items |-> << >>]
        BY <1>2, Zenon
      <4> QED
        BY <4>1
    <3>2. Rest(Iterator(parts)) = Sep(parts) /\ Left(Iterator(parts)) = m - 1
      <4>1. Iterator(parts).rest = parts /\ Iterator(parts).first
        BY DEF Iterator
      <4> QED
        BY <4>1, Zenon DEF Rest, Left, m
    <3>3. << >> \o Sep(parts) = Sep(parts)
      BY SepTyped, ConcatEmptySeq, Zenon
    <3>4. FlattenSeq(acc[0].items) \o Rest(acc[0].it) = Sep(parts)
      BY <3>1, <3>2, <3>3, FlattenNone, Zenon
    <3>5. m - 1 \in Nat /\ m - 1 <= m - 0
      <4>1. Len(parts) \in Nat /\ Len(parts) # 0
        BY DEF Strings
      <4> QED
        BY <4>1 DEF m
    <3>6. Q(0)
      BY <3>1, <3>2, <3>4, <3>5, Zenon
    <3> HIDE DEF Q
    <3> QED
      BY <3>6
  <2>2. ASSUME NEW i \in 1..m, i - 1 \in P
        PROVE  i \in P
    <3> DEFINE a == acc[i - 1]
               b == acc[i]
    <3>1. i \in Nat /\ i - 1 \in Nat /\ i - 1 <= m /\ i - 1 \in 0..m /\ i \in 1..m
      BY <1>1
    <3>2. Q(i - 1)
      <4> HIDE DEF Q
      <4> QED
        BY <2>2, <3>1
    <3>3. a \in ItemsSet /\ b = NextItems(a)
      BY <1>1, <1>2, <3>1, Zenon
    <3> HIDE DEF a, b
    <3>4. a.it \in IteratorSet /\ a.items \in Strings /\ b.it = After(a.it) /\ b.items = a.items \o Item(a.it)
      BY <3>3 DEF ItemsSet, NextItems, Strings
    <3>5. FlattenSeq(b.items) \o Rest(b.it) = Sep(parts)
      BY <3>2, <3>4, ItemStep, Zenon DEF a
    <3>6. Left(b.it) = IF Left(a.it) = 0 THEN 0 ELSE Left(a.it) - 1
      BY <3>4, ItemStep, Zenon
    <3>7. Left(a.it) \in Nat /\ Left(a.it) <= m - (i - 1)
      BY <3>2, Zenon DEF a
    <3>8. Left(b.it) \in Nat /\ Left(b.it) <= m - i
      BY <1>1, <3>1, <3>6, <3>7, SMTT(60)
    <3>9. Q(i)
      BY <3>5, <3>8, Zenon DEF b
    <3> HIDE DEF Q
    <3> QED
      BY <3>1, <3>9
  <2>3. P \in SUBSET Nat
    OBVIOUS
  <2> HIDE DEF P, m
  <2> QED
    BY <1>1, <2>1, <2>2, <2>3, UpTo
<1>5. Q(m)
  <2> HIDE DEF Q
  <2>1. m \in 0..m
    BY <1>1
  <2> QED
    BY <1>1, <1>4, <2>1
<1>6. acc[m] \in ItemsSet
  <2>1. m \in 0..Len(ns)
    BY <1>1
  <2> QED
    BY <1>2, <2>1, Zenon
<1> DEFINE it == acc[m].it
<1>7. it \in IteratorSet /\ acc[m].items \in Strings
  BY <1>6 DEF ItemsSet, Strings
<1>8. Left(it) = 0
  BY <1>1, <1>5
<1> HIDE DEF it
<1>9. it.rest = << >>
  <2>1. SUFFICES ASSUME it.rest # << >>
                 PROVE  FALSE
    OBVIOUS
  <2>2. it.rest \in Strings
    BY <1>7 DEF IteratorSet, Strings
  <2>3. Len(it.rest) \in Nat /\ Len(it.rest) # 0
    BY <2>1, <2>2 DEF Strings
  <2>4. Left(it) = 2 * Len(it.rest) - (IF it.first \/ it.prev_was_separator THEN 1 ELSE 0)
    BY <2>1, Zenon DEF Left
  <2>5. PICK n \in Nat : n = Len(it.rest) /\ n # 0
    BY <2>3
  <2>6. 0 = 2 * n - 1 \/ 0 = 2 * n - 0
    BY <1>8, <2>4, <2>5, Zenon
  <2> QED
    BY <2>5, <2>6
<1>10. Rest(it) = << >>
  BY <1>9, Zenon DEF Rest
<1>11. FlattenSeq(acc[m].items) \o << >> = FlattenSeq(acc[m].items)
  BY <1>7, FlattenTyped, ConcatEmptySeq, Zenon DEF Strings
<1> QED
  BY <1>3, <1>5, <1>10, <1>11, Zenon DEF it

(* A topic that is written level by level is the topic. *)
LEMMA TopicJoined ==
    ASSUME NEW s \in Seq(Byte)
    PROVE  /\ TopicItems(Levels(s)) \in Seq(Seq(Byte))
           /\ FlattenSeq(TopicItems(Levels(s))) = s
<1>1. Levels(s) \in Strings /\ Levels(s) # << >>
  BY LevelsTyped, Zenon DEF Strings
<1>2. Sep(Levels(s)) = Separated(Levels(s), <<Slash>>)
  BY Zenon DEF Sep, Separated, Pieces
<1>3. FlattenSeq(TopicItems(Levels(s))) = Sep(Levels(s))
  BY <1>1, ItemsJoined, Zenon
<1>4. TopicItems(Levels(s)) \in Seq(Seq(Byte))
  BY <1>1, ItemsTyped, Zenon DEF Strings
<1> QED
  BY <1>2, <1>3, <1>4, LevelsJoined, Zenon

-----------------------------------------------------------------------------
(* A publish is read as it was, whichever way it was written. *)
LEMMA BodyNotEmpty ==
    ASSUME NEW p \in PacketSet, p.type = "Publish", PublishBody(p) \in Seq(Byte)
    PROVE  Len(PublishBody(p)) # 0
<1>1. p.topic \in Seq(Byte) /\ p.payload \in Seq(Byte) /\ PkidBytes(p) \in Seq(Byte)
  <2>1. p.topic \in Seq(Byte) /\ p.payload \in Seq(Byte) /\ p.pkid \in Nat
    BY PublishTyped
  <2>2. U16(p.pkid) \in Seq(Byte)
    BY <2>1, CastLength, Zenon
  <2>3. << >> \in Seq(Byte)
    OBVIOUS
  <2> QED
    BY <2>1, <2>2, <2>3, Zenon DEF PkidBytes
<1> DEFINE s == MqttBytes(p.topic)
           t == PkidBytes(p) \o p.payload
<1>2. s \in Seq(Byte) /\ Len(s) = 2 + Len(p.topic) /\ t \in Seq(Byte)
  BY <1>1, MqttBytesTyped, ConcatTyped, Zenon
<1> HIDE DEF s, t
<1>3. Len(s \o t) = Len(s) + Len(t)
  BY <1>2, ConcatTyped, Zenon
<1>4. Len(s) + Len(t) # 0
  BY <1>1, <1>2
<1> QED
  BY <1>3, <1>4, Zenon DEF PublishBody, s, t

(* Whichever way a Publish was written, it is read. *)
LEMMA PublishWritten ==
    ASSUME NEW cap \in Nat, NEW p \in PacketSet, p.type = "Publish", Len(p.topic) <= MaxWord,
           NEW w \in Writes(p, cap), w.error = "none"
    PROVE  ExactOf(w.bytes) = Packet(Normal(p))
<1>0. Writes(p, cap) = {WritePublish(p, cap), WriteOutPublish(p, <<p.topic>>, cap),
               WriteOutPublish(p, TopicItems(Levels(p.topic)), cap)}
  BY DomainsOfBytes1 DEF Writes, AckTypes
<1>1. w \in {WritePublish(p, cap), WriteOutPublish(p, <<p.topic>>, cap),
             WriteOutPublish(p, TopicItems(Levels(p.topic)), cap)}
  BY <1>0
<1> DEFINE body == PublishBody(p)
           items == TopicItems(Levels(p.topic))
<1>2. p.topic \in Seq(Byte)
  BY PublishTyped
<1>3. /\ body \in Seq(Byte) /\ Len(body) <= MaxRemaining
      /\ p.qos # 0 => p.pkid # 0
      /\ w.bytes = FrameBytes(PublishByte1(p), Len(body), body)
  <2>1. CASE w = WritePublish(p, cap)
    BY <2>1, PublishFrame, Zenon
  <2>2. ASSUME NEW strings \in Seq(Seq(Byte)), FlattenSeq(strings) = p.topic,
               w = WriteOutPublish(p, strings, cap)
        PROVE  /\ body \in Seq(Byte) /\ Len(body) <= MaxRemaining
               /\ p.qos # 0 => p.pkid # 0
               /\ w.bytes = FrameBytes(PublishByte1(p), Len(body), body)
    <3>1. /\ Len(InPlaceBody(p, strings)) <= MaxRemaining
          /\ p.qos # 0 => p.pkid # 0
          /\ w.bytes = FrameBytes(PublishByte1(p), Len(InPlaceBody(p, strings)), InPlaceBody(p, strings))
      BY <2>2, OutPublishFrame, Zenon
    <3>2. InPlaceBody(p, strings) = body
      BY <2>2, Zenon DEF InPlaceBody, InPlaceRest, PublishBody
    <3>3. InPlaceBody(p, strings) \in Seq(Byte)
      BY InPlaceTyped, Zenon
    <3> HIDE DEF body
    <3> QED
      BY <3>1, <3>2, <3>3, Zenon
  <2>3. <<p.topic>> \in Seq(Seq(Byte)) /\ FlattenSeq(<<p.topic>>) = p.topic
    BY <1>2, FlattenOne, Zenon DEF Strings
  <2>4. items \in Seq(Seq(Byte)) /\ FlattenSeq(items) = p.topic
    BY <1>2, TopicJoined, Zenon
  <2> QED
    BY <1>1, <2>1, <2>2, <2>3, <2>4, Zenon
<1>4. Len(body) \in Nat /\ Len(body) # 0
  BY <1>3, BodyNotEmpty
<1> HIDE DEF body
<1>5. ExactOf(FrameBytes(PublishByte1(p), Len(body), body)) = Packet(Normal(p))
  BY <1>3, <1>4, PublishRead, Zenon DEF body
<1> QED
  BY <1>3, <1>5, Zenon

=============================================================================
