---------------------------- MODULE WriterProofs ----------------------------
(***************************************************************************)
(* Theorems about the writers of packetview, and the primitives they share *)
(* with the readers.  First what the primitives do for every length,       *)
(* string and position in a stream: the runs of PacketStream see a few of  *)
(* each.  Then, for every packet and every capacity, that what is written  *)
(* is one frame, as long as its header says.  A writer is a fold over a    *)
(* list of puts; what it writes is followed put by put, by induction on    *)
(* the number of puts.  Last, that the writers of mqttbytes, whose buffers *)
(* grow, make the same bytes of the same puts.                             *)
(***************************************************************************)
EXTENDS MqttBytesPackets, SequenceTheorems, WellFoundedInduction, TLAPS

LEMMA WeightValues ==
    /\ Weight[1] = 1
    /\ Weight[2] = 128
    /\ Weight[3] = 16384
    /\ Weight[4] = 2097152
BY SMT DEF Weight

LEMMA ByteIsInt ==
    ASSUME NEW b \in Byte
    PROVE  b \in Int
BY SMT DEF Byte

(* A remaining length takes one to four bytes. *)
LEMMA LengthBytesRange ==
    ASSUME NEW n \in Nat
    PROVE  LengthBytes(n) \in 1..4
BY SMT DEF LengthBytes

(* Each byte of an encoded length is a byte, and the bytes but the last    *)
(* have the continuation bit.                                              *)
LEMMA EncodedBytes ==
    ASSUME NEW n \in Nat, n <= MaxRemaining
    PROVE  /\ EncodeLength(n) \in Seq(Byte)
           /\ Len(EncodeLength(n)) = LengthBytes(n)
           /\ EncodeLength(n)[LengthBytes(n)] < 128
           /\ \A i \in 1..(LengthBytes(n) - 1) : EncodeLength(n)[i] >= 128
<1> DEFINE k == LengthBytes(n)
           e(i) == ((n \div Weight[i]) % 128) + (IF i < k THEN 128 ELSE 0)
<1>1. k \in 1..4
  BY SMT, LengthBytesRange DEF MaxRemaining
<1>2. \A i \in 1..4 : Weight[i] \in Nat \ {0}
  BY SMT, WeightValues
<1>3. \A i \in 1..4 : /\ (n \div Weight[i]) % 128 \in 0..127
                      /\ e(i) \in Byte
                      /\ i < k => e(i) >= 128
                      /\ i = k => e(i) < 128
  <2> SUFFICES ASSUME NEW i \in 1..4
               PROVE  /\ (n \div Weight[i]) % 128 \in 0..127
                      /\ e(i) \in Byte
                      /\ i < k => e(i) >= 128
                      /\ i = k => e(i) < 128
    OBVIOUS
  <2>1. n \div Weight[i] \in Nat
    BY SMT, WeightValues DEF MaxRemaining
  <2>2. (n \div Weight[i]) % 128 \in 0..127
    BY <2>1
  <2> QED
    BY <1>1, <2>2 DEF Byte
<1>4. EncodeLength(n) = [i \in 1..k |-> e(i)]
  BY SMT DEF EncodeLength
<1> HIDE DEF k, e
<1>5. EncodeLength(n) \in Seq(Byte) /\ Len(EncodeLength(n)) = k
  BY <1>1, <1>3, <1>4
<1>6. \A i \in 1..k : EncodeLength(n)[i] = e(i)
  BY <1>1, <1>4
<1> QED
  BY <1>1, <1>3, <1>5, <1>6 DEF k

(* The digits of a length add up to it. *)
LEMMA DigitsAddUp ==
    ASSUME NEW n \in Nat, n <= MaxRemaining
    PROVE  LengthValue(EncodeLength(n), LengthBytes(n)) = n
<1> DEFINE k == LengthBytes(n)
           q(i) == (n \div Weight[i]) % 128
<1>1. k \in 1..4
  BY SMT, LengthBytesRange DEF MaxRemaining
<1>2. \A i \in 1..k : EncodeLength(n)[i] % 128 = q(i)
  <2> SUFFICES ASSUME NEW i \in 1..k
               PROVE  EncodeLength(n)[i] % 128 = q(i)
    OBVIOUS
  <2>1. n \div Weight[i] \in Nat
    BY SMT, <1>1, WeightValues DEF MaxRemaining
  <2>2. q(i) \in 0..127
    BY <2>1
  <2>3. EncodeLength(n)[i] = q(i) + (IF i < k THEN 128 ELSE 0)
    BY SMT, <1>1 DEF EncodeLength
  <2> HIDE DEF q, k
  <2> QED
    BY <2>2, <2>3
<1>3. \A i \in 1..4 : Digit(EncodeLength(n), i, k) = IF i <= k THEN q(i) * Weight[i] ELSE 0
  BY SMT, <1>1, <1>2 DEF Digit
<1>4. LengthValue(EncodeLength(n), k) =
          (IF 1 <= k THEN n % 128 ELSE 0)
        + (IF 2 <= k THEN ((n \div 128) % 128) * 128 ELSE 0)
        + (IF 3 <= k THEN ((n \div 16384) % 128) * 16384 ELSE 0)
        + (IF 4 <= k THEN ((n \div 2097152) % 128) * 2097152 ELSE 0)
  <2>1. n \div 1 = n
    BY SMT DEF MaxRemaining
  <2>2. Digit(EncodeLength(n), 1, k) = IF 1 <= k THEN n % 128 ELSE 0
    BY SMT, <1>1, <1>3, <2>1, WeightValues
  <2>3. Digit(EncodeLength(n), 2, k) = IF 2 <= k THEN ((n \div 128) % 128) * 128 ELSE 0
    BY SMT, <1>1, <1>3, WeightValues
  <2>4. Digit(EncodeLength(n), 3, k) = IF 3 <= k THEN ((n \div 16384) % 128) * 16384 ELSE 0
    BY SMT, <1>1, <1>3, WeightValues
  <2>5. Digit(EncodeLength(n), 4, k) = IF 4 <= k THEN ((n \div 2097152) % 128) * 2097152 ELSE 0
    BY SMT, <1>1, <1>3, WeightValues
  <2> HIDE DEF k
  <2> QED
    BY SMT, <2>2, <2>3, <2>4, <2>5 DEF LengthValue
<1>5. CASE n < 128
  BY SMT, <1>4, <1>5 DEF LengthBytes, MaxRemaining
<1>6. CASE n >= 128 /\ n < 16384
  BY SMT, <1>4, <1>6 DEF LengthBytes, MaxRemaining
<1>7. CASE n >= 16384 /\ n < 2097152
  BY SMT, <1>4, <1>7 DEF LengthBytes, MaxRemaining
<1>8. CASE n >= 2097152
  BY SMT, <1>4, <1>8 DEF LengthBytes, MaxRemaining
<1> QED
  BY SMT, <1>5, <1>6, <1>7, <1>8 DEF MaxRemaining

-----------------------------------------------------------------------------
(* The bytes of t are those of the encoded length n, as far as they go; what *)
(* follows them is anything.                                               *)
StartsLike(t, n) ==
    \A i \in 1..LengthBytes(n) : i <= Len(t) => t[i] = EncodeLength(n)[i]

(***************************************************************************)
(* Of the bytes of such a sequence, only the last of the length ends one.  *)
(***************************************************************************)
LEMMA EndsOnce ==
    ASSUME NEW n \in Nat, n <= MaxRemaining,
           NEW t \in Seq(Byte), StartsLike(t, n)
    PROVE  \A j \in 1..4 : EndsAt(t, j) <=> (j = LengthBytes(n) /\ j <= Len(t))
<1> DEFINE k == LengthBytes(n)
           e == EncodeLength(n)
<1>1. k \in 1..4
  BY LengthBytesRange
<1>2. e \in Seq(Byte) /\ Len(e) = k /\ e[k] < 128 /\ \A i \in 1..(k - 1) : e[i] >= 128
  BY EncodedBytes
<1>3. \A i \in 1..k : i <= Len(t) => t[i] = e[i]
  BY DEF StartsLike
<1> HIDE DEF k, e
<1>4. \A i \in 1..k : e[i] \in Int
  <2>1. \A i \in 1..k : e[i] \in Byte
    BY <1>1, <1>2, SMT
  <2> QED
    BY <2>1, ByteIsInt
<1> SUFFICES ASSUME NEW j \in 1..4
             PROVE  EndsAt(t, j) <=> (j = k /\ j <= Len(t))
  BY DEF k
<1>5. ASSUME j = k, j <= Len(t) PROVE EndsAt(t, j)
  <2>1. t[k] < 128
    BY <1>1, <1>2, <1>3, <1>5, SMT
  <2>2. ASSUME NEW i \in 1..(k - 1) PROVE t[i] >= 128
    <3>1. i \in 1..k /\ i <= Len(t)
      BY <1>1, <1>5, SMT
    <3> QED
      BY <1>2, <1>3, <3>1
  <2> QED
    BY <1>5, <2>1, <2>2 DEF EndsAt
<1>6. ASSUME EndsAt(t, j), j < k PROVE FALSE
  <2>1. j \in 1..(k - 1) /\ j \in 1..k
    BY <1>1, <1>6, SMT
  <2>2. j <= Len(t) /\ t[j] < 128
    BY <1>6, Zenon DEF EndsAt
  <2>3. t[j] = e[j] /\ e[j] \in Int /\ e[j] >= 128
    BY <1>2, <1>3, <1>4, <2>1, <2>2, Zenon
  <2> QED
    BY <2>2, <2>3, SMT
<1>7. ASSUME EndsAt(t, j), j > k PROVE FALSE
  <2>1. k \in 1..(j - 1) /\ k \in 1..k /\ (j <= Len(t) => k <= Len(t))
    BY <1>1, <1>7, SMT
  <2>2. t[k] >= 128 /\ j <= Len(t)
    BY <1>7, <2>1, Zenon DEF EndsAt
  <2>3. t[k] = e[k] /\ e[k] \in Int
    BY <1>3, <1>4, <2>1, <2>2, Zenon
  <2> QED
    BY <1>2, <2>2, <2>3, SMT
<1>8. ASSUME EndsAt(t, j) PROVE j <= Len(t)
  BY <1>8, Zenon DEF EndsAt
<1> QED
  BY <1>1, <1>5, <1>6, <1>7, <1>8, SMT

(* Once all bytes of the length are there, length reads it.                *)
LEMMA ReadsLength ==
    ASSUME NEW n \in Nat, n <= MaxRemaining,
           NEW t \in Seq(Byte), StartsLike(t, n), LengthBytes(n) <= Len(t)
    PROVE  DecodeLength(t) = [error |-> "none", len_len |-> LengthBytes(n), len |-> n]
<1> DEFINE k == LengthBytes(n)
           e == EncodeLength(n)
<1>1. k \in 1..4
  BY LengthBytesRange
<1>2. \A i \in 1..k : t[i] = e[i]
  <2>1. \A i \in 1..k : i <= Len(t) => t[i] = e[i]
    BY DEF StartsLike
  <2> HIDE DEF k, e
  <2>2. k <= Len(t)
    BY DEF k
  <2> QED
    BY <1>1, <2>1, <2>2, SMT
<1>3. \A j \in 1..4 : EndsAt(t, j) <=> j = k
  BY EndsOnce
<1>4. (CHOOSE j \in 1..4 : EndsAt(t, j)) = k
  BY <1>1, <1>3
<1>5. LengthValue(t, k) = LengthValue(e, k)
  <2> HIDE DEF k, e
  <2>1. \A i \in 1..4 : Digit(t, i, k) = Digit(e, i, k)
    BY <1>1, <1>2, SMT DEF Digit
  <2> QED
    BY <2>1, SMT DEF LengthValue
<1>6. LengthValue(e, k) = n
  BY DigitsAddUp
<1> HIDE DEF k, e
<1>7. DecodeLength(t) = [error |-> "none", len_len |-> k, len |-> LengthValue(t, k)]
  BY <1>1, <1>3, <1>4, Zenon DEF DecodeLength
<1> QED
  BY <1>5, <1>6, <1>7 DEF k

(***************************************************************************)
(* length reads back what write_remaining_length wrote, for every length   *)
(* it accepts and whatever bytes follow.                                   *)
(***************************************************************************)
THEOREM LengthRoundTrip ==
    ASSUME NEW n \in Nat, n <= MaxRemaining, NEW s \in Seq(Byte)
    PROVE  DecodeLength(EncodeLength(n) \o s) =
               [error |-> "none", len_len |-> LengthBytes(n), len |-> n]
<1> DEFINE k == LengthBytes(n)
           e == EncodeLength(n)
           t == e \o s
<1>1. k \in 1..4
  BY LengthBytesRange
<1>2. e \in Seq(Byte) /\ Len(e) = k
  BY EncodedBytes
<1>3. t \in Seq(Byte) /\ k <= Len(t) /\ \A i \in 1..k : t[i] = e[i]
  <2> HIDE DEF k, e
  <2> QED
    BY <1>1, <1>2, SMT
<1>4. StartsLike(t, n)
  BY <1>3, Zenon DEF StartsLike
<1> QED
  BY <1>3, <1>4, ReadsLength

-----------------------------------------------------------------------------
(* The first Len(d) bytes of a stream that starts with a frame of remaining *)
(* length n: the first byte is anything, the body is anything.             *)
BeginsFrame(d, n) ==
    \A i \in 1..LengthBytes(n) : i + 1 <= Len(d) => d[i + 1] = EncodeLength(n)[i]

FrameSize(n) == 1 + LengthBytes(n) + n

(* What follows the first byte of such a stream starts like the length.    *)
LEMMA AfterFirstByte ==
    ASSUME NEW n \in Nat, NEW d \in Seq(Byte), BeginsFrame(d, n), Len(d) >= 2
    PROVE  /\ Tail(d) \in Seq(Byte)
           /\ Len(Tail(d)) = Len(d) - 1
           /\ StartsLike(Tail(d), n)
<1>1. Tail(d) \in Seq(Byte) /\ Len(Tail(d)) = Len(d) - 1
  BY SMT
<1>2. \A i \in 1..(Len(d) - 1) : Tail(d)[i] = d[i + 1]
  BY SMT
<1>3. LengthBytes(n) \in 1..4
  BY LengthBytesRange
<1>4. StartsLike(Tail(d), n)
  <2> SUFFICES ASSUME NEW i \in 1..LengthBytes(n), i <= Len(Tail(d))
               PROVE  Tail(d)[i] = EncodeLength(n)[i]
    BY DEF StartsLike
  <2>1. i \in 1..(Len(d) - 1) /\ i + 1 <= Len(d)
    BY <1>1, <1>3, SMT
  <2>2. d[i + 1] = EncodeLength(n)[i]
    BY <2>1 DEF BeginsFrame
  <2> QED
    BY <1>2, <2>1, <2>2
<1> QED
  BY <1>1, <1>4

(***************************************************************************)
(* check of a part of a frame within the limit asks for at least one byte  *)
(* and never for one that is not of the frame: reading what it asks for    *)
(* makes progress and takes nothing of the next packet from the transport. *)
(***************************************************************************)
THEOREM PartAsksWithinFrame ==
    ASSUME NEW n \in Nat, n <= MaxRemaining, NEW max \in Nat, n <= max,
           NEW d \in Seq(Byte), BeginsFrame(d, n), Len(d) < FrameSize(n)
    PROVE  \E missing \in 1..(FrameSize(n) - Len(d)) :
               Check(d, max) = [error |-> "NeedMoreData", missing |-> missing]
<1> DEFINE k == LengthBytes(n)
           c == Len(d)
<1>1. k \in 1..4 /\ c \in Nat
  BY LengthBytesRange
<1>2. FrameSize(n) = 1 + k + n
  BY DEF FrameSize
<1>3. CASE c < 2
  <2>1. ParseFixedHeader(d) = [error |-> "NeedMoreData", missing |-> 2 - c]
    BY <1>3, SMT DEF ParseFixedHeader, NeedMoreData
  <2> HIDE DEF k, c
  <2>2. 2 - c \in 1..(FrameSize(n) - c)
    BY <1>1, <1>2, <1>3, SMT
  <2>3. Check(d, max) = [error |-> "NeedMoreData", missing |-> 2 - c]
    BY <2>1, SMT DEF Check, Checked
  <2> QED
    BY <2>2, <2>3 DEF c
<1>4. CASE c >= 2
  <2>1. /\ Tail(d) \in Seq(Byte) /\ Len(Tail(d)) = c - 1
        /\ StartsLike(Tail(d), n)
    BY <1>4, AfterFirstByte
  <2>2. \A j \in 1..4 : EndsAt(Tail(d), j) <=> (j = k /\ j <= c - 1)
    BY <2>1, EndsOnce
  <2>3. ParseFixedHeader(d) = FixedHeader(d[1], DecodeLength(Tail(d)))
    BY <1>4, SMT DEF ParseFixedHeader
  <2>4. CASE c - 1 < k
    <3> HIDE DEF k, c
    <3>1. Len(Tail(d)) < 4 /\ ~(\E j \in 1..4 : EndsAt(Tail(d), j))
      BY <1>1, <2>1, <2>2, <2>4, SMT
    <3>2. DecodeLength(Tail(d)) = [error |-> "NeedMoreData", missing |-> 1]
      BY <2>1, <3>1, SMT DEF DecodeLength, NeedMoreData
    <3>3. Check(d, max) = [error |-> "NeedMoreData", missing |-> 1]
      BY <2>3, <3>2, SMT DEF Check, Checked, FixedHeader
    <3>4. 1 \in 1..(FrameSize(n) - c)
      BY <1>1, <1>2, SMT DEF c
    <3> QED
      BY <3>3, <3>4 DEF c
  <2>5. CASE c - 1 >= k
    <3>1. DecodeLength(Tail(d)) = [error |-> "none", len_len |-> k, len |-> n]
      BY <1>1, <2>1, <2>5, ReadsLength
    <3> HIDE DEF k, c
    <3>2. ParseFixedHeader(d) =
              [error |-> "none", byte1 |-> d[1], header |-> k + 1, remaining |-> n]
      BY <2>3, <3>1, SMT DEF FixedHeader
    <3>3. c < (k + 1) + n /\ ~(n > max)
      BY <1>1, <1>2, SMT DEF c
    <3>4. Check(d, max) = [error |-> "NeedMoreData", missing |-> (k + 1) + n - c]
      BY <3>2, <3>3, SMT DEF Check, Checked, NeedMoreData, c
    <3>5. (k + 1) + n - c \in 1..(FrameSize(n) - c)
      BY <1>1, <1>2, <3>3, SMT
    <3> QED
      BY <3>4, <3>5 DEF c
  <2> QED
    BY <1>1, <2>4, <2>5, SMT
<1> QED
  BY <1>1, <1>3, <1>4, SMT

(***************************************************************************)
(* check of at least a whole frame accepts it with the frame's own size,   *)
(* whatever follows: the bytes behind it stay for the next packet.         *)
(***************************************************************************)
THEOREM WholeFrameAccepted ==
    ASSUME NEW n \in Nat, n <= MaxRemaining, NEW max \in Nat, n <= max,
           NEW d \in Seq(Byte), BeginsFrame(d, n), Len(d) >= FrameSize(n)
    PROVE  Check(d, max) = [error |-> "none", byte1 |-> d[1],
                            header |-> LengthBytes(n) + 1, remaining |-> n]
<1> DEFINE k == LengthBytes(n)
<1>1. k \in 1..4
  BY LengthBytesRange
<1>2. Len(d) >= 1 + k + n /\ Len(d) >= 2
  BY <1>1, SMT DEF FrameSize
<1>3. /\ Tail(d) \in Seq(Byte) /\ k <= Len(Tail(d))
      /\ StartsLike(Tail(d), n)
  <2> HIDE DEF k
  <2>1. Tail(d) \in Seq(Byte) /\ Len(Tail(d)) = Len(d) - 1 /\ StartsLike(Tail(d), n)
    BY <1>2, AfterFirstByte
  <2> QED
    BY <1>1, <1>2, <2>1, SMT
<1>4. DecodeLength(Tail(d)) = [error |-> "none", len_len |-> k, len |-> n]
  BY <1>3, ReadsLength
<1> HIDE DEF k
<1>5. ParseFixedHeader(d) =
          [error |-> "none", byte1 |-> d[1], header |-> k + 1, remaining |-> n]
  BY <1>2, <1>4, SMT DEF ParseFixedHeader, FixedHeader
<1>6. ~(n > max) /\ ~(Len(d) < (k + 1) + n)
  BY <1>1, <1>2, SMT
<1> QED
  BY <1>5, <1>6, SMT DEF Check, Checked, k

-----------------------------------------------------------------------------
(* The longest string that a length prefix can announce is of a finite length. *)
LEMMA MaxWordIsNat == MaxWord \in Nat
BY DEF MaxWord

(* A number that fits in 16 bits is not changed by the cast. *)
LEMMA WordMod ==
    ASSUME NEW x \in Nat, x <= MaxWord
    PROVE  x % (MaxWord + 1) = x
BY SMTT(60) DEF MaxWord

(* A length cast to u16 is read back modulo 2^16. *)
LEMMA CastLength ==
    ASSUME NEW n \in Nat
    PROVE  /\ U16(n) \in Seq(Byte)
           /\ Len(U16(n)) = 2
           /\ 256 * U16(n)[1] + U16(n)[2] = n % (MaxWord + 1)
<1>1. /\ n \div 256 \in Nat
      /\ (n \div 256) % 256 \in Nat /\ (n \div 256) % 256 <= 255
      /\ n % 256 \in Nat /\ n % 256 <= 255
  BY SMT
<1>2. 256 * ((n \div 256) % 256) + (n % 256) = n % (MaxWord + 1)
  BY SMTT(60) DEF MaxWord
<1>3. (n \div 256) % 256 \in Byte /\ n % 256 \in Byte
  BY <1>1, SMT DEF Byte
<1> QED
  BY <1>2, <1>3, SMT DEF U16

(* Where the elements of two sequences are in their concatenation. *)
LEMMA ConcatPlaces ==
    ASSUME NEW a \in Seq(Byte), NEW b \in Seq(Byte)
    PROVE  /\ a \o b \in Seq(Byte)
           /\ Len(a \o b) = Len(a) + Len(b)
           /\ \A i \in 1..Len(a) : (a \o b)[i] = a[i]
           /\ \A i \in 1..Len(b) : (a \o b)[Len(a) + i] = b[i]
<1>1. a \o b \in Seq(Byte) /\ Len(a \o b) = Len(a) + Len(b)
  BY SMT
<1>2. \A i \in 1..Len(a) : (a \o b)[i] = a[i]
  BY SMT
<1>3. \A i \in 1..Len(b) : (a \o b)[Len(a) + i] = b[i]
  BY SMT
<1> QED
  BY <1>1, <1>2, <1>3

(* The part of t that holds s is s. *)
LEMMA CutOut ==
    ASSUME NEW t \in Seq(Byte), NEW s \in Seq(Byte), NEW a \in Nat,
           Len(t) >= a + Len(s), \A i \in 1..Len(s) : t[a + i] = s[i]
    PROVE  SubSeq(t, a + 1, a + Len(s)) = s
<1> DEFINE q == SubSeq(t, a + 1, a + Len(s))
<1>1. q \in Seq(Byte) /\ Len(q) = Len(s)
  BY SMT
<1>2. \A i \in 1..Len(s) : q[i] = t[a + i]
  BY SMT
<1> HIDE DEF q
<1>3. q = s
  BY <1>1, <1>2, SMT
<1> QED
  BY <1>3 DEF q

(* The string s as a field of a stream, between pre and rest. *)
Around(pre, s, rest) == (pre \o MqttBytes(s)) \o rest

(* Where the parts of a string field are in the stream. *)
LEMMA FieldPlaces ==
    ASSUME NEW pre \in Seq(Byte), NEW s \in Seq(Byte), NEW rest \in Seq(Byte)
    PROVE  /\ Around(pre, s, rest) \in Seq(Byte)
           /\ Len(Around(pre, s, rest)) = Len(pre) + 2 + Len(s) + Len(rest)
           /\ Around(pre, s, rest)[Len(pre) + 1] = U16(Len(s))[1]
           /\ Around(pre, s, rest)[Len(pre) + 2] = U16(Len(s))[2]
           /\ \A i \in 1..Len(s) : Around(pre, s, rest)[Len(pre) + 2 + i] = s[i]
<1> DEFINE t == Around(pre, s, rest)
           u == U16(Len(s))
           m == MqttBytes(s)
           w == pre \o m
           p == Len(pre)
<1>1. u \in Seq(Byte) /\ Len(u) = 2
  BY CastLength, Len(s) \in Nat
<1>2. m = u \o s
  BY DEF MqttBytes
<1> HIDE DEF u, m
<1>3. /\ m \in Seq(Byte) /\ Len(m) = 2 + Len(s)
      /\ \A i \in 1..2 : m[i] = u[i]
      /\ \A i \in 1..Len(s) : m[2 + i] = s[i]
  <2>1. /\ u \o s \in Seq(Byte) /\ Len(u \o s) = Len(u) + Len(s)
        /\ \A i \in 1..Len(u) : (u \o s)[i] = u[i]
        /\ \A i \in 1..Len(s) : (u \o s)[Len(u) + i] = s[i]
    BY <1>1, ConcatPlaces, Zenon
  <2> QED
    BY <1>1, <1>2, <2>1, Zenon
<1>4. /\ w \in Seq(Byte) /\ Len(w) = p + Len(m)
      /\ \A i \in 1..Len(m) : w[p + i] = m[i]
  BY <1>3, ConcatPlaces, Zenon
<1>5. t = w \o rest
  BY DEF m, Around
<1> HIDE DEF w, t
<1>6. /\ t \in Seq(Byte) /\ Len(t) = Len(w) + Len(rest)
      /\ \A i \in 1..Len(w) : t[i] = w[i]
  <2>1. /\ w \o rest \in Seq(Byte) /\ Len(w \o rest) = Len(w) + Len(rest)
        /\ \A i \in 1..Len(w) : (w \o rest)[i] = w[i]
    BY <1>4, ConcatPlaces, Zenon
  <2> QED
    BY <1>5, <2>1, Zenon
<1>7. \A i \in 1..Len(m) : t[p + i] = m[i]
  <2> SUFFICES ASSUME NEW i \in 1..Len(m)
               PROVE  t[p + i] = m[i]
    OBVIOUS
  <2>1. p + i \in 1..Len(w)
    BY <1>3, <1>4, SMT
  <2> QED
    BY <1>4, <1>6, <2>1
<1>8. \A i \in 1..Len(s) : t[p + 2 + i] = s[i]
  <2> SUFFICES ASSUME NEW i \in 1..Len(s)
               PROVE  t[p + 2 + i] = s[i]
    OBVIOUS
  <2>1. 2 + i \in 1..Len(m) /\ p + 2 + i = p + (2 + i)
    BY <1>3, SMT
  <2> QED
    BY <1>3, <1>7, <2>1
<1>9. 1 \in 1..2 /\ 2 \in 1..2 /\ 1 \in 1..Len(m) /\ 2 \in 1..Len(m)
  BY <1>3, SMT
<1>10. t[p + 1] = u[1] /\ t[p + 2] = u[2]
  BY <1>3, <1>7, <1>9, Zenon
<1>11. Len(t) = p + 2 + Len(s) + Len(rest)
  BY <1>3, <1>4, <1>6, SMT
<1> QED
  BY <1>6, <1>8, <1>10, <1>11, Zenon DEF t, u

(***************************************************************************)
(* read_mqtt_bytes reads back what write_mqtt_bytes wrote and nothing of   *)
(* what surrounds it, for every string whose length fits in 16 bits.       *)
(***************************************************************************)
THEOREM StringRoundTrip ==
    ASSUME NEW pre \in Seq(Byte), NEW s \in Seq(Byte), NEW rest \in Seq(Byte),
           Len(s) <= MaxWord
    PROVE  ReadBytes(Around(pre, s, rest), Len(pre)) =
               [error |-> "none", next |-> Len(pre) + 2 + Len(s), value |-> s]
<1> DEFINE t == Around(pre, s, rest)
           p == Len(pre)
<1>1. /\ t \in Seq(Byte)
      /\ Len(t) = p + 2 + Len(s) + Len(rest)
      /\ t[p + 1] = U16(Len(s))[1] /\ t[p + 2] = U16(Len(s))[2]
      /\ \A i \in 1..Len(s) : t[p + 2 + i] = s[i]
  BY FieldPlaces, ZenonT(60)
<1> HIDE DEF t
<1>2. 256 * U16(Len(s))[1] + U16(Len(s))[2] = Len(s)
  <2>1. 256 * U16(Len(s))[1] + U16(Len(s))[2] = Len(s) % (MaxWord + 1)
    BY CastLength, Len(s) \in Nat, Zenon
  <2>2. Len(s) % (MaxWord + 1) = Len(s)
    BY WordMod
  <2> QED
    BY <2>1, <2>2
<1>3. Word(t, p + 1) = Len(s)
  <2>1. p + 1 + 1 = p + 2
    BY SMT
  <2> QED
    BY <1>1, <1>2, <2>1 DEF Word
<1>4. ReadU16(t, p) = [error |-> "none", value |-> Len(s), next |-> p + 2]
  BY <1>1, <1>3, SMT DEF ReadU16, Fixed
<1>5. SubSeq(t, p + 2 + 1, p + 2 + Len(s)) = s
  <2>1. /\ p + 2 \in Nat /\ Len(t) >= (p + 2) + Len(s)
        /\ \A i \in 1..Len(s) : t[(p + 2) + i] = s[i]
    BY <1>1, SMT
  <2> QED
    BY <1>1, <2>1, CutOut, Zenon
<1>6. ~(Len(s) > Len(t) - (p + 2))
  BY <1>1, SMT
<1>7. ReadBytes(t, p) = [error |-> "none", next |-> p + 2 + Len(s),
                         value |-> SubSeq(t, p + 2 + 1, p + 2 + Len(s))]
  BY <1>4, <1>6, SMT DEF ReadBytes, Prefixed
<1> QED
  BY <1>5, <1>7, Zenon DEF t

(***************************************************************************)
(* A longer string is never read back: write_mqtt_bytes casts its length   *)
(* to u16 and reports no error.                                            *)
(***************************************************************************)
THEOREM LongStringIsLost ==
    ASSUME NEW pre \in Seq(Byte), NEW s \in Seq(Byte), NEW rest \in Seq(Byte),
           Len(s) > MaxWord
    PROVE  LET r == ReadBytes(Around(pre, s, rest), Len(pre))
           IN  r.error = "none" /\ r.value # s
<1> DEFINE t == Around(pre, s, rest)
           p == Len(pre)
           u == U16(Len(s))
           n == Len(s) % (MaxWord + 1)
<1>1. /\ t \in Seq(Byte)
      /\ Len(t) = p + 2 + Len(s) + Len(rest)
      /\ t[p + 1] = u[1] /\ t[p + 2] = u[2]
  BY FieldPlaces, ZenonT(60)
<1>2. 256 * u[1] + u[2] = n
  BY CastLength, Len(s) \in Nat
<1>3. n \in Nat /\ n < Len(s)
  BY SMT DEF MaxWord
<1> HIDE DEF t, u, n
<1>4. Word(t, p + 1) = n
  <2>1. p + 1 + 1 = p + 2
    BY SMT
  <2> QED
    BY <1>1, <1>2, <2>1 DEF Word
<1>5. ReadU16(t, p) = [error |-> "none", value |-> n, next |-> p + 2]
  BY <1>1, <1>4, SMT DEF ReadU16, Fixed
<1>6. ~(n > Len(t) - (p + 2))
  BY <1>1, <1>3, SMT
<1>7. ReadBytes(t, p) = [error |-> "none", next |-> p + 2 + n,
                         value |-> SubSeq(t, p + 2 + 1, p + 2 + n)]
  BY <1>5, <1>6, SMT DEF ReadBytes, Prefixed
<1>8. Len(SubSeq(t, p + 2 + 1, p + 2 + n)) = n
  BY <1>1, <1>3, SMT
<1> QED
  BY <1>3, <1>7, <1>8, SMT DEF t

-----------------------------------------------------------------------------
(* A non-empty set of numbers has a least one. *)
LEMMA LeastNumber == ASSUME NEW T \in SUBSET Nat, T # {} PROVE \E x \in T : \A y \in T : x <= y
<1>1. IsWellFoundedOn(OpToRel(<,Nat), Nat)
  BY NatLessThanWellFounded
<1> DEFINE R == OpToRel(<,Nat)
<1>2. IsWellFoundedOn(R, Nat)
  BY <1>1
<1>3. \A x, y \in Nat : x < y => <<x,y>> \in R
  BY DEF OpToRel
<1> HIDE DEF R
<1>4. PICK x \in T : \A y \in T : ~(<<y,x>> \in R)
  BY <1>2, WFMin
<1>5. ASSUME NEW y \in T
      PROVE x <= y
  <2>1. x \in Nat /\ y \in Nat
    OBVIOUS
  <2>2. ~(y < x)
    BY <1>3, <1>4, <2>1
  <2> QED
    BY <2>1, <2>2
<1> QED
  BY <1>5

(* Induction up to n, for a set of numbers. *)
LEMMA UpTo ==
    ASSUME NEW n \in Nat, NEW P \in SUBSET Nat, 0 \in P,
           \A i \in 1..n : i - 1 \in P => i \in P
    PROVE  \A i \in 0..n : i \in P
<1> SUFFICES ASSUME NEW b \in 0..n, b \notin P
             PROVE  FALSE
  OBVIOUS
<1> DEFINE T == {i \in 0..n : i \notin P}
<1>1. PICK x \in T : \A y \in T : x <= y
  <2>1. T \in SUBSET Nat /\ T # {}
    OBVIOUS
  <2> HIDE DEF T
  <2> QED
    BY <2>1, LeastNumber
<1>2. x # 0 /\ x \in 1..n
  OBVIOUS
<1>3. x - 1 \in P
  <2>1. x - 1 \in 0..n /\ ~(x <= x - 1)
    BY <1>2
  <2> QED
    BY <1>1, <2>1
<1> QED
  BY <1>2, <1>3

(* Folding seq from base with the function g, as FoldLeft does it: a table *)
(* of the results of the sets of indices.                                  *)
Folded(f, base, g, seq, s) ==
    IF s = {} THEN base ELSE g[<<f[s \ {Max(s)}], seq[Max(s)]>>]

(* The last index is the greatest of any set of indices it is in. *)
LEMMA MaxOfUpTo ==
    ASSUME NEW n \in Nat, n # 0, NEW s \in SUBSET (1..n), n \in s
    PROVE  Max(s) = n
<1>1. \A y \in s : n >= y
  OBVIOUS
<1>2. \E x \in s : \A y \in s : x >= y
  BY <1>1
<1>3. PICK m : m = Max(s)
  OBVIOUS
<1>4. m \in s /\ \A y \in s : m >= y
  BY <1>2, <1>3, Zenon DEF Max
<1> QED
  BY <1>1, <1>3, <1>4

(* A non-empty set of indices has its greatest element in it. *)
LEMMA MaxInside ==
    ASSUME NEW n \in Nat, NEW s \in SUBSET (1..n), s # {}
    PROVE  Max(s) \in s
<1> DEFINE T == {n - y : y \in s}
<1>1. PICK x \in T : \A y \in T : x <= y
  <2>1. \A y \in s : n - y \in Nat
    OBVIOUS
  <2>2. T \in SUBSET Nat /\ T # {}
    BY <2>1
  <2> HIDE DEF T
  <2> QED
    BY <2>2, LeastNumber
<1>2. PICK m \in s : x = n - m
  OBVIOUS
<1>3. \A y \in s : n - m <= n - y
  BY <1>1, <1>2
<1>4. \A y \in s : m >= y
  BY <1>3
<1> QED
  BY <1>4, Zenon DEF Max

HasTable(A, base, g, seq) ==
    \E f \in [SUBSET DOMAIN seq -> A] :
       \A s \in SUBSET DOMAIN seq : f[s] = Folded(f, base, g, seq, s)

(* One step more for the sets with n in them. *)
LEMMA OneMoreStep ==
    ASSUME NEW A, NEW B, NEW g \in [A \X B -> A], NEW v \in B, NEW f, NEW D, NEW E, NEW n,
           \A s \in E : f[s] \in A,
           \A s \in D : s \ {n} \in E /\ (n \notin s => s \in E)
    PROVE  \A s \in D : [t \in D |-> IF n \in t THEN g[<<f[t \ {n}], v>>] ELSE f[t]][s] \in A
<1> SUFFICES ASSUME NEW s \in D
             PROVE  (IF n \in s THEN g[<<f[s \ {n}], v>>] ELSE f[s]) \in A
  OBVIOUS
<1>1. CASE n \in s
  <2>1. f[s \ {n}] \in A
    OBVIOUS
  <2>2. <<f[s \ {n}], v>> \in A \X B
    BY <2>1
  <2> QED
    BY <1>1, <2>2
<1>2. CASE n \notin s
  BY <1>2
<1> QED
  BY <1>1, <1>2

(* The table exists: it is built from the results of the initial segments. *)
LEMMA FoldTable ==
    ASSUME NEW A, NEW B, NEW base \in A, NEW g \in [A \X B -> A], NEW seq \in Seq(B)
    PROVE  HasTable(A, base, g, seq)
<1> DEFINE Good(n, f) == /\ f \in [SUBSET (1..n) -> A]
                         /\ \A s \in SUBSET (1..n) : f[s] = Folded(f, base, g, seq, s)
           P == {n \in Nat : n <= Len(seq) => \E f : Good(n, f)}
<1>1. 0 \in P
  <2>1. 1..0 = {}
    OBVIOUS
  <2>2. Good(0, [s \in SUBSET (1..0) |-> base])
    BY <2>1 DEF Folded
  <2> QED
    BY <2>2
<1>2. ASSUME NEW n \in 1..Len(seq), n - 1 \in P
      PROVE  n \in P
  <2>1. PICK f : Good(n - 1, f)
    <3>1. n - 1 <= Len(seq)
      OBVIOUS
    <3> HIDE DEF Good
    <3> QED
      BY <1>2, <3>1
  <2> DEFINE new == [s \in SUBSET (1..n) |->
                        IF n \in s THEN g[<<f[s \ {n}], seq[n]>>] ELSE f[s]]
  <2>2. n - 1 \in Nat /\ n \in Nat \ {0} /\ seq[n] \in B
    OBVIOUS
  <2>3. \A s \in SUBSET (1..n) : /\ s \ {n} \in SUBSET (1..(n - 1))
                                /\ n \notin s => s \in SUBSET (1..(n - 1))
    BY <2>2
  <2>4. \A s \in SUBSET (1..n) : new[s] \in A
    <3>1. \A t \in SUBSET (1..(n - 1)) : f[t] \in A
      BY <2>1
    <3> HIDE DEF Good
    <3> QED
      BY ONLY g \in [A \X B -> A], <2>2, <2>3, <3>1, OneMoreStep
  <2>5. /\ new \in [SUBSET (1..n) -> A]
        /\ \A s \in SUBSET (1..(n - 1)) : new[s] = f[s]
        /\ \A s \in SUBSET (1..n) : n \in s => new[s] = g[<<f[s \ {n}], seq[n]>>]
    <3>1. \A s \in SUBSET (1..(n - 1)) : s \in SUBSET (1..n) /\ n \notin s
      BY <2>2
    <3> QED
      BY <2>4, <3>1
  <2> HIDE DEF new
  <2>6. ASSUME NEW s \in SUBSET (1..n)
        PROVE  new[s] = Folded(new, base, g, seq, s)
    <3>1. CASE n \in s
      <4>1. Max(s) = n
        BY <2>2, <3>1, MaxOfUpTo
      <4>2. new[s \ {n}] = f[s \ {n}]
        <5>1. s \ {n} \in SUBSET (1..(n - 1))
          BY <2>3
        <5>2. \A y \in SUBSET (1..(n - 1)) : new[y] = f[y]
          BY <2>5
        <5> QED
          BY <5>1, <5>2
      <4>3. Folded(new, base, g, seq, s) = g[<<new[s \ {n}], seq[n]>>]
        BY <3>1, <4>1, Zenon DEF Folded
      <4> QED
        BY <2>5, <3>1, <4>2, <4>3, Zenon
    <3>2. CASE n \notin s
      <4>0. s \in SUBSET (1..(n - 1))
        BY <2>3, <3>2
      <4>1. s \in SUBSET (1..(n - 1)) /\ s \ {Max(s)} \in SUBSET (1..(n - 1))
        BY <4>0, Zenon
      <4>2. f[s] = Folded(f, base, g, seq, s)
        BY <2>1, <4>1
      <4>3. new[s] = f[s] /\ new[s \ {Max(s)}] = f[s \ {Max(s)}]
        BY <2>5, <4>1
      <4> QED
        BY <4>2, <4>3 DEF Folded
    <3> QED
      BY <3>1, <3>2
  <2>7. Good(n, new)
    BY <2>5, <2>6
  <2> HIDE DEF Good
  <2> QED
    BY <2>2, <2>7
<1>3. Len(seq) \in P /\ Len(seq) \in Nat
  <2>1. P \in SUBSET Nat /\ Len(seq) \in Nat /\ Len(seq) \in 0..Len(seq)
    OBVIOUS
  <2> HIDE DEF P
  <2>2. \A i \in 0..Len(seq) : i \in P
    BY <1>1, <1>2, <2>1, UpTo
  <2> QED
    BY <2>1, <2>2
<1>4. DOMAIN seq = 1..Len(seq)
  OBVIOUS
<1> QED
  <2>1. PICK f : Good(Len(seq), f)
    <3>1. Len(seq) <= Len(seq)
      BY <1>3
    <3> HIDE DEF Good
    <3> QED
      BY <1>3, <3>1
  <2> QED
    BY <1>4, <2>1 DEF HasTable

(* Folding seq from base with g goes through acc and ends in last. *)
HasRun(A, base, g, seq, last) ==
    \E acc \in [0..Len(seq) -> A] :
       /\ acc[0] = base
       /\ acc[Len(seq)] = last
       /\ \A i \in 1..Len(seq) : acc[i] = g[<<acc[i - 1], seq[i]>>]

(* The sets of the first indices are where the table is what the fold went *)
(* through.                                                                *)
LEMMA FoldRuns ==
    ASSUME NEW A, NEW B, NEW base \in A, NEW g \in [A \X B -> A], NEW seq \in Seq(B), NEW f,
           f[{}] = base,
           \A i \in 1..Len(seq) :
              f[(1..i) \ {Max(1..i)}] \in A =>
                 f[1..i] = g[<<f[(1..i) \ {Max(1..i)}], seq[Max(1..i)]>>]
    PROVE  HasRun(A, base, g, seq, f[DOMAIN seq])
<1> DEFINE n == Len(seq)
           P == {i \in Nat : i <= n => f[1..i] \in A}
<1>1. n \in Nat /\ DOMAIN seq = 1..n /\ \A i \in 1..n : seq[i] \in B
  OBVIOUS
<1>2. ASSUME NEW i \in 1..n
      PROVE  Max(1..i) = i /\ (1..i) \ {Max(1..i)} = 1..(i - 1)
  <2>1. i \in Nat /\ i # 0 /\ 1..i \in SUBSET (1..i) /\ i \in 1..i
    BY <1>1
  <2>2. Max(1..i) = i
    BY <2>1, MaxOfUpTo
  <2>3. (1..i) \ {i} = 1..(i - 1)
    BY <2>1
  <2> QED
    BY <2>2, <2>3
<1>3. \A i \in 1..n : f[1..(i - 1)] \in A => f[1..i] = g[<<f[1..(i - 1)], seq[i]>>]
  BY <1>2
<1>4. 1..0 = {}
  OBVIOUS
<1>5. \A i \in 0..n : i \in P
  <2>1. 0 \in P
    BY <1>4
  <2>2. ASSUME NEW i \in 1..n, i - 1 \in P
        PROVE  i \in P
    <3>1. i \in Nat /\ i - 1 <= n
      BY <1>1
    <3>2. f[1..(i - 1)] \in A /\ seq[i] \in B
      BY <1>1, <2>2, <3>1
    <3>3. g[<<f[1..(i - 1)], seq[i]>>] \in A
      BY <3>2
    <3> QED
      BY <1>3, <3>1, <3>2, <3>3
  <2>3. P \in SUBSET Nat
    OBVIOUS
  <2> HIDE DEF P
  <2> QED
    BY <1>1, <2>1, <2>2, <2>3, UpTo
<1> DEFINE acc == [i \in 0..n |-> f[1..i]]
<1>6. acc \in [0..n -> A] /\ acc[0] = base /\ acc[n] = f[DOMAIN seq]
  BY <1>1, <1>4, <1>5
<1>7. ASSUME NEW i \in 1..n
      PROVE  acc[i] = g[<<acc[i - 1], seq[i]>>]
  <2>1. i \in 0..n /\ i - 1 \in 0..n
    BY <1>1
  <2>2. f[1..(i - 1)] \in A
    BY <1>5, <2>1
  <2> QED
    BY <1>3, <2>1, <2>2
<1> QED
  BY <1>6, <1>7 DEF HasRun

-----------------------------------------------------------------------------
(* What a put gives: an error, or bytes. *)
PutErrors == {"none", "NotEnoughCapacity", "PayloadTooLong", "MalformedPacket", "panic"}

PutSet == [error : PutErrors, bytes : Seq(Byte)]

(* A put of bytes is a put. *)
LEMMA PutTyped ==
    /\ \A b \in Seq(Byte) : Put(b) \in PutSet /\ Put(b).error = "none" /\ Put(b).bytes = b
    /\ \A e \in PutErrors : Fail(e) \in PutSet /\ Fail(e).error = e
<1>1. << >> \in Seq(Byte)
  OBVIOUS
<1>2. "none" \in PutErrors
  BY DEF PutErrors
<1> QED
  BY <1>1, <1>2 DEF Put, Fail, PutSet

(* Bytes behind bytes are bytes. *)
LEMMA ConcatTyped ==
    ASSUME NEW a \in Seq(Byte), NEW b \in Seq(Byte)
    PROVE  a \o b \in Seq(Byte) /\ Len(a \o b) = Len(a) + Len(b)
BY SMT

(* One put after another is a put. *)
LEMMA PutWithinTyped ==
    ASSUME NEW cap \in Nat, NEW written \in PutSet, NEW put \in PutSet
    PROVE  PutWithin(cap, written, put) \in PutSet
<1>1. written.bytes \o put.bytes \in Seq(Byte)
  BY SMT DEF PutSet
<1>2. Put(written.bytes \o put.bytes) \in PutSet
  BY <1>1, PutTyped
<1>3. Fail("NotEnoughCapacity") \in PutSet
  <2>1. "NotEnoughCapacity" \in PutErrors
    BY DEF PutErrors
  <2> QED
    BY <2>1, PutTyped, Zenon
<1> QED
  BY <1>2, <1>3 DEF PutWithin

(* The buffers a writer has between its puts. *)
LEMMA WriteRuns ==
    ASSUME NEW cap \in Nat, NEW puts \in Seq(PutSet)
    PROVE  \E acc \in [0..Len(puts) -> PutSet] :
              /\ acc[0] = Put(<< >>)
              /\ acc[Len(puts)] = Write(cap, puts)
              /\ \A i \in 1..Len(puts) : acc[i] = PutWithin(cap, acc[i - 1], puts[i])
<1> DEFINE g == [xy \in PutSet \X PutSet |-> PutWithin(cap, xy[1], xy[2])]
           Is(f, s) == f[s] = IF s = {} THEN Put(<< >>)
                              ELSE PutWithin(cap, f[s \ {Max(s)}], puts[Max(s)])
           Table(f) == f = [s \in SUBSET DOMAIN puts |->
                              IF s = {} THEN Put(<< >>)
                              ELSE PutWithin(cap, f[s \ {Max(s)}], puts[Max(s)])]
<1>1. Write(cap, puts) = (CHOOSE f : Table(f))[DOMAIN puts]
  BY Zenon DEF Write, FoldLeft, MapThenFoldSet
<1>2. /\ << >> \in Seq(Byte) /\ Put(<< >>) \in PutSet
      /\ g \in [PutSet \X PutSet -> PutSet]
      /\ \A x, y \in PutSet : g[<<x, y>>] = PutWithin(cap, x, y)
  <2>1. << >> \in Seq(Byte)
    OBVIOUS
  <2> QED
    BY <2>1, PutTyped, PutWithinTyped
<1> HIDE DEF g
<1>3. DOMAIN puts = 1..Len(puts) /\ Len(puts) \in Nat
  OBVIOUS
<1>4. ASSUME NEW s \in SUBSET DOMAIN puts, s # {}
      PROVE  Max(s) \in s /\ puts[Max(s)] \in PutSet /\ s \ {Max(s)} \in SUBSET DOMAIN puts
  <2>1. Max(s) \in s
    BY <1>3, <1>4, MaxInside
  <2>2. Max(s) \in 1..Len(puts)
    BY <1>3, <2>1
  <2>3. puts[Max(s)] \in PutSet
    BY <2>2
  <2> QED
    BY <2>1, <2>3, Zenon
<1>5. \E f : Table(f)
  <2>1. PICK f \in [SUBSET DOMAIN puts -> PutSet] :
            \A s \in SUBSET DOMAIN puts : f[s] = Folded(f, Put(<< >>), g, puts, s)
    <3>1. HasTable(PutSet, Put(<< >>), g, puts)
      BY <1>2, FoldTable, Zenon
    <3> QED
      BY <3>1, Zenon DEF HasTable
  <2>2. ASSUME NEW s \in SUBSET DOMAIN puts
        PROVE  Is(f, s)
    <3>1. CASE s = {}
      BY <2>1, <3>1 DEF Folded
    <3>2. CASE s # {}
      <4>1. f[s \ {Max(s)}] \in PutSet
        BY <1>4, <2>1, <3>2
      <4>2. f[s] = g[<<f[s \ {Max(s)}], puts[Max(s)]>>]
        BY <2>1, <3>2, Zenon DEF Folded
      <4> QED
        BY <1>2, <1>4, <3>2, <4>1, <4>2, Zenon
    <3> QED
      BY <3>1, <3>2
  <2> QED
    BY <2>1, <2>2
<1>6. PICK f : f = (CHOOSE h : Table(h))
  OBVIOUS
<1>7. Table(f)
  <2> HIDE DEF Table
  <2> QED
    BY <1>5, <1>6, Zenon
<1>8. f[{}] = Put(<< >>)
  BY <1>7, Zenon
<1>9. ASSUME NEW i \in 1..Len(puts), f[(1..i) \ {Max(1..i)}] \in PutSet
      PROVE  f[1..i] = g[<<f[(1..i) \ {Max(1..i)}], puts[Max(1..i)]>>]
  <2>1. 1..i \in SUBSET DOMAIN puts /\ 1..i # {}
    <3>1. i \in 1..i /\ \A j \in 1..i : j \in 1..Len(puts)
      BY <1>3
    <3> QED
      BY <1>3, <3>1
  <2>2. f[1..i] = PutWithin(cap, f[(1..i) \ {Max(1..i)}], puts[Max(1..i)])
    BY <1>7, <2>1, Zenon
  <2> QED
    BY <1>2, <1>4, <1>9, <2>1, <2>2, Zenon
<1>10. PICK acc \in [0..Len(puts) -> PutSet] :
          /\ acc[0] = Put(<< >>)
          /\ acc[Len(puts)] = f[DOMAIN puts]
          /\ \A i \in 1..Len(puts) : acc[i] = g[<<acc[i - 1], puts[i]>>]
  <2>1. HasRun(PutSet, Put(<< >>), g, puts, f[DOMAIN puts])
    BY <1>2, <1>8, <1>9, FoldRuns, Zenon
  <2> QED
    BY <2>1, Zenon DEF HasRun
<1>11. acc[Len(puts)] = Write(cap, puts)
  BY <1>1, <1>6, <1>10, Zenon
<1>12. \A i \in 1..Len(puts) : acc[i] = PutWithin(cap, acc[i - 1], puts[i])
  <2>1. \A i \in 1..Len(puts) : acc[i - 1] \in PutSet /\ puts[i] \in PutSet
    BY <1>3
  <2> QED
    BY <1>2, <1>10, <2>1, Zenon
<1> QED
  BY <1>10, <1>11, <1>12

(* Where a sequence of bytes is cut makes no difference. *)
LEMMA BytesAssoc ==
    ASSUME NEW a \in Seq(Byte), NEW b \in Seq(Byte), NEW c \in Seq(Byte)
    PROVE  (a \o b) \o c = a \o (b \o c)
BY ConcatAssociative

(* What is behind the same bytes is the same. *)
LEMMA BytesCancel ==
    ASSUME NEW a \in Seq(Byte), NEW b \in Seq(Byte), NEW c \in Seq(Byte), a \o b = a \o c
    PROVE  b = c
<1>1. /\ Len(a \o b) = Len(a) + Len(b)
      /\ Len(a \o c) = Len(a) + Len(c)
      /\ \A i \in 1..Len(b) : (a \o b)[Len(a) + i] = b[i]
      /\ \A i \in 1..Len(c) : (a \o c)[Len(a) + i] = c[i]
  BY ConcatPlaces, Zenon
<1>2. Len(b) = Len(c)
  BY <1>1
<1>3. \A i \in 1..Len(b) : b[i] = c[i]
  BY <1>1, <1>2
<1> QED
  BY <1>2, <1>3, SeqEqual

(***************************************************************************)
(* What a sequence of puts writes if none of them fails: w[i] is what the  *)
(* first i of them give.                                                   *)
(***************************************************************************)
Growth(w, puts, bytes) ==
    /\ w \in [0..Len(puts) -> Seq(Byte)]
    /\ w[0] = << >>
    /\ w[Len(puts)] = bytes
    /\ \A i \in 1..Len(puts) : puts[i].error = "none" /\ w[i] = w[i - 1] \o puts[i].bytes

Joined(puts, bytes) == \E w : Growth(w, puts, bytes)

(* A writer that ends without an error has written every put, whole and in *)
(* order, into the capacity it had.                                        *)
LEMMA WriteJoins ==
    ASSUME NEW cap \in Nat, NEW puts \in Seq(PutSet), Write(cap, puts).error = "none"
    PROVE  /\ Write(cap, puts) \in PutSet
           /\ Joined(puts, Write(cap, puts).bytes)
<1> DEFINE n == Len(puts)
<1>1. PICK acc \in [0..n -> PutSet] :
          /\ acc[0] = Put(<< >>)
          /\ acc[n] = Write(cap, puts)
          /\ \A i \in 1..n : acc[i] = PutWithin(cap, acc[i - 1], puts[i])
  BY WriteRuns
<1>2. n \in Nat /\ \A i \in 1..n : i \in 0..n /\ i - 1 \in 0..n /\ puts[i] \in PutSet
  OBVIOUS
<1> HIDE DEF n
<1>3. acc[n] \in PutSet
  BY <1>1, <1>2
<1>4. \A i \in 1..n : acc[i].error = "none" =>
          /\ acc[i - 1].error = "none" /\ puts[i].error = "none"
          /\ acc[i].bytes = acc[i - 1].bytes \o puts[i].bytes
  <2> SUFFICES ASSUME NEW i \in 1..n, acc[i].error = "none"
               PROVE  /\ acc[i - 1].error = "none" /\ puts[i].error = "none"
                      /\ acc[i].bytes = acc[i - 1].bytes \o puts[i].bytes
    OBVIOUS
  <2>1. acc[i] = PutWithin(cap, acc[i - 1], puts[i])
    BY <1>1
  <2>2. Fail("NotEnoughCapacity").error # "none"
    BY DEF Fail
  <2>3. acc[i - 1].error = "none" /\ puts[i].error = "none"
    BY <2>1, Zenon DEF PutWithin
  <2>4. acc[i] = Put(acc[i - 1].bytes \o puts[i].bytes)
    BY <2>1, <2>2, <2>3, Zenon DEF PutWithin
  <2>5. acc[i].bytes = acc[i - 1].bytes \o puts[i].bytes
    <3>1. acc[i - 1].bytes \in Seq(Byte) /\ puts[i].bytes \in Seq(Byte)
      BY <1>1, <1>2 DEF PutSet
    <3> QED
      BY <2>4, <3>1, ConcatTyped, PutTyped, Zenon
  <2> QED
    BY <2>3, <2>5
<1>5. \A i \in 0..n : acc[n - i].error = "none"
  <2> DEFINE P == {i \in Nat : i <= n => acc[n - i].error = "none"}
  <2>1. 0 \in P
    BY <1>1, <1>2
  <2>2. ASSUME NEW i \in 1..n, i - 1 \in P
        PROVE  i \in P
    <3>1. n - (i - 1) \in 1..n /\ (n - (i - 1)) - 1 = n - i /\ i - 1 <= n
      BY <1>2
    <3> QED
      <4>1. acc[n - (i - 1)].error = "none"
        BY <1>2, <2>2, <3>1
      <4>2. acc[(n - (i - 1)) - 1].error = "none"
        BY <1>4, <3>1, <4>1
      <4> QED
        BY <1>2, <3>1, <4>2
  <2>3. P \in SUBSET Nat
    OBVIOUS
  <2> HIDE DEF P
  <2>4. \A i \in 0..n : i \in P
    BY <1>2, <2>1, <2>2, <2>3, UpTo
  <2> QED
    BY <2>4, <1>2 DEF P
<1>6. \A i \in 0..n : acc[i].error = "none"
  <2>1. \A i \in 0..n : n - i \in 0..n /\ n - (n - i) = i
    BY <1>2
  <2> QED
    BY <1>5, <2>1
<1> DEFINE w == [i \in 0..n |-> acc[i].bytes]
<1>7. Growth(w, puts, acc[n].bytes)
  <2>1. \A i \in 0..n : acc[i].bytes \in Seq(Byte)
    BY <1>1 DEF PutSet
  <2>2. w \in [0..n -> Seq(Byte)] /\ w[0] = << >> /\ w[n] = acc[n].bytes
    BY <1>1, <1>2, <2>1 DEF Put
  <2>3. \A i \in 1..n : puts[i].error = "none" /\ w[i] = w[i - 1] \o puts[i].bytes
    BY <1>2, <1>4, <1>6
  <2> QED
    BY <2>2, <2>3 DEF Growth, n
<1> QED
  BY <1>1, <1>3, <1>7 DEF Joined

(* One put. *)
LEMMA JoinedOne ==
    ASSUME NEW a \in PutSet, NEW y, Joined(<<a>>, y)
    PROVE  a.error = "none" /\ y = a.bytes
<1>1. PICK w : Growth(w, <<a>>, y)
  BY DEF Joined
<1>2. Len(<<a>>) = 1 /\ <<a>>[1] = a /\ a.bytes \in Seq(Byte)
  BY DEF PutSet
<1>3. 1 \in 1..1 /\ 1 - 1 = 0
  OBVIOUS
<1>4. w[1] = w[0] \o a.bytes /\ w[0] = << >> /\ w[1] = y /\ a.error = "none"
  BY <1>1, <1>2, <1>3 DEF Growth
<1> QED
  BY <1>2, <1>4, ConcatEmptySeq

(* No put. *)
LEMMA JoinedNone ==
    ASSUME NEW y, Joined(<< >>, y)
    PROVE  y = << >>
<1>1. PICK w : Growth(w, << >>, y)
  BY DEF Joined
<1>2. Len(<< >>) = 0
  OBVIOUS
<1> QED
  BY <1>1, <1>2 DEF Growth

(* What two sequences of puts write is what the first writes and then what *)
(* the second writes.                                                      *)
Splits(a, b, bytes) ==
    \E x, y \in Seq(Byte) : Joined(a, x) /\ Joined(b, y) /\ bytes = x \o y

(* What two lists of puts write is what each writes, one after the other. *)
LEMMA JoinedSplit ==
    ASSUME NEW a \in Seq(PutSet), NEW b \in Seq(PutSet), NEW bytes, Joined(a \o b, bytes)
    PROVE  Splits(a, b, bytes)
<1>1. PICK w : Growth(w, a \o b, bytes)
  BY DEF Joined
<1> DEFINE m == Len(a)
           n == Len(b)
           x == w[m]
<1>2. /\ m \in Nat /\ n \in Nat /\ Len(a \o b) = m + n
      /\ \A i \in 1..m : (a \o b)[i] = a[i]
      /\ \A i \in 1..n : (a \o b)[m + i] = b[i] /\ b[i].bytes \in Seq(Byte)
  <2>1. ASSUME NEW i \in 1..n
        PROVE  b[i].bytes \in Seq(Byte)
    <3>1. b[i] \in PutSet
      OBVIOUS
    <3> QED
      BY <3>1 DEF PutSet
  <2>2. \A i \in 1..(m + n) : (a \o b)[i] = IF i <= m THEN a[i] ELSE b[i - m]
    BY ConcatProperties
  <2>3. m \in Nat /\ n \in Nat /\ Len(a \o b) = m + n
    BY ConcatProperties
  <2>4. ASSUME NEW i \in 1..n
        PROVE  (a \o b)[m + i] = b[i]
    <3> HIDE DEF m, n
    <3>1. m + i \in 1..(m + n) /\ ~(m + i <= m) /\ (m + i) - m = i
      BY <2>3
    <3> QED
      BY <2>2, <3>1
  <2> HIDE DEF n
  <2>5. \A i \in 1..m : i \in 1..(m + n) /\ i <= m
    BY <2>3
  <2> QED
    BY <2>1, <2>2, <2>3, <2>4, <2>5
<1> HIDE DEF m, n
<1>3. /\ \A i \in 0..(m + n) : w[i] \in Seq(Byte)
      /\ w[0] = << >> /\ w[m + n] = bytes
      /\ \A i \in 1..(m + n) : (a \o b)[i].error = "none" /\ w[i] = w[i - 1] \o (a \o b)[i].bytes
  BY <1>1, <1>2 DEF Growth
<1>4. x \in Seq(Byte)
  BY <1>2, <1>3
<1>5. Joined(a, x)
  <2> DEFINE v == [i \in 0..m |-> w[i]]
  <2>1. v \in [0..m -> Seq(Byte)] /\ v[0] = << >> /\ v[m] = x
    BY <1>2, <1>3
  <2>2. ASSUME NEW i \in 1..m
        PROVE  a[i].error = "none" /\ v[i] = v[i - 1] \o a[i].bytes
    <3>1. i \in 1..(m + n) /\ i \in 0..m /\ i - 1 \in 0..m
      BY <1>2
    <3> QED
      BY <1>2, <1>3, <3>1
  <2>3. Growth(v, a, x)
    BY <2>1, <2>2 DEF Growth, m
  <2> QED
    BY <2>3 DEF Joined
<1> HIDE DEF x
<1> DEFINE tail(i) == CHOOSE y \in Seq(Byte) : w[m + i] = x \o y
           P == {i \in Nat : i <= n => \E y \in Seq(Byte) : w[m + i] = x \o y}
<1>6. \A i \in 0..n : \E y \in Seq(Byte) : w[m + i] = x \o y
  <2>1. 0 \in P
    <3>1. << >> \in Seq(Byte) /\ m + 0 = m
      BY <1>2
    <3>2. w[m + 0] = x \o << >>
      BY <1>4, <3>1, ConcatEmptySeq DEF x
    <3> QED
      BY <3>1, <3>2
  <2>2. ASSUME NEW i \in 1..n, i - 1 \in P
        PROVE  i \in P
    <3>1. i - 1 <= n /\ (m + i) - 1 = m + (i - 1) /\ m + i \in 1..(m + n)
      BY <1>2
    <3>2. PICK y \in Seq(Byte) : w[m + (i - 1)] = x \o y
      BY <2>2, <3>1
    <3>3. PICK c \in Seq(Byte) : c = b[i].bytes
      BY <1>2
    <3>4. w[m + i] = (x \o y) \o c
      BY <1>2, <1>3, <3>1, <3>2, <3>3
    <3>5. w[m + i] = x \o (y \o c) /\ y \o c \in Seq(Byte)
      BY <1>4, <3>4, BytesAssoc, ConcatTyped, Zenon
    <3>6. i <= n => \E z \in Seq(Byte) : w[m + i] = x \o z
      BY <3>5, Zenon
    <3>7. i \in Nat
      BY <1>2
    <3> QED
      BY <3>6, <3>7, Zenon
  <2>3. P \in SUBSET Nat
    OBVIOUS
  <2> HIDE DEF P
  <2>4. \A i \in 0..n : i \in P
    BY <1>2, <2>1, <2>2, <2>3, UpTo
  <2>5. \A i \in 0..n : i \in Nat /\ i <= n
    BY <1>2
  <2> QED
    BY <2>4, <2>5 DEF P
<1>7. \A i \in 0..n : tail(i) \in Seq(Byte) /\ w[m + i] = x \o tail(i)
  BY <1>6
<1> HIDE DEF tail, P
<1>8. Joined(b, tail(n))
  <2> DEFINE v == [i \in 0..n |-> tail(i)]
  <2>1. 0 \in 0..n /\ n \in 0..n /\ m + 0 = m
    BY <1>2
  <2>2. tail(0) = << >>
    <3>1. x = x \o tail(0) /\ tail(0) \in Seq(Byte)
      BY <1>7, <2>1 DEF x
    <3> QED
      BY <1>4, <3>1, ConcatEqualIffEmpty
  <2>3. v \in [0..n -> Seq(Byte)] /\ v[0] = << >> /\ v[n] = tail(n)
    BY <1>7, <2>1, <2>2
  <2>4. ASSUME NEW i \in 1..n
        PROVE  b[i].error = "none" /\ v[i] = v[i - 1] \o b[i].bytes
    <3>1. i - 1 \in 0..n /\ i \in 0..n /\ (m + i) - 1 = m + (i - 1) /\ m + i \in 1..(m + n)
      BY <1>2
    <3>2. w[m + i] = w[m + (i - 1)] \o b[i].bytes /\ b[i].error = "none"
      BY <1>2, <1>3, <3>1
    <3>3. PICK c, t, u \in Seq(Byte) : c = b[i].bytes /\ t = tail(i - 1) /\ u = tail(i)
      BY <1>2, <1>7, <3>1
    <3>4. x \o u = (x \o t) \o c
      BY <1>7, <3>1, <3>2, <3>3
    <3>5. x \o u = x \o (t \o c) /\ t \o c \in Seq(Byte)
      BY <1>4, <3>4, BytesAssoc, ConcatTyped, Zenon
    <3>6. u = t \o c
      BY <1>4, <3>5, BytesCancel, Zenon
    <3> QED
      BY <3>1, <3>2, <3>3, <3>6
  <2>5. Growth(v, b, tail(n))
    BY <2>3, <2>4 DEF Growth, n
  <2> QED
    BY <2>5 DEF Joined
<1>9. bytes = x \o tail(n) /\ tail(n) \in Seq(Byte)
  <2>1. n \in 0..n
    BY <1>2
  <2>2. w[m + n] = x \o tail(n) /\ tail(n) \in Seq(Byte)
    BY <1>7, <2>1, Zenon
  <2> QED
    BY <1>3, <2>2, Zenon
<1> QED
  BY <1>4, <1>5, <1>8, <1>9 DEF Splits

-----------------------------------------------------------------------------
(* A first byte, a length and what follows it. *)
FrameBytes(b1, n, body) == (<<b1>> \o EncodeLength(n)) \o body

(* Where the parts of a frame are. *)
LEMMA FrameParts ==
    ASSUME NEW b1 \in Byte, NEW n \in Nat, n <= MaxRemaining, NEW body \in Seq(Byte)
    PROVE  /\ FrameBytes(b1, n, body) \in Seq(Byte)
           /\ Len(FrameBytes(b1, n, body)) = 1 + LengthBytes(n) + Len(body)
           /\ FrameBytes(b1, n, body)[1] = b1
           /\ \A i \in 1..LengthBytes(n) : FrameBytes(b1, n, body)[i + 1] = EncodeLength(n)[i]
           /\ \A i \in 1..Len(body) : FrameBytes(b1, n, body)[1 + LengthBytes(n) + i] = body[i]
<1> DEFINE e == EncodeLength(n)
           k == LengthBytes(n)
           o == <<b1>>
           h == o \o e
<1>1. e \in Seq(Byte) /\ Len(e) = k /\ k \in 1..4
  BY EncodedBytes, LengthBytesRange
<1>2. o \in Seq(Byte) /\ Len(o) = 1 /\ o[1] = b1
  OBVIOUS
<1> HIDE DEF e, k, o
<1>3. /\ h \in Seq(Byte) /\ Len(h) = 1 + k
      /\ h[1] = b1
      /\ \A i \in 1..k : h[1 + i] = e[i]
  <2>1. /\ h \in Seq(Byte) /\ Len(h) = Len(o) + Len(e)
        /\ \A i \in 1..Len(o) : h[i] = o[i]
        /\ \A i \in 1..Len(e) : h[Len(o) + i] = e[i]
    BY <1>1, <1>2, ConcatPlaces, Zenon
  <2> HIDE DEF h
  <2> QED
    BY <1>1, <1>2, <2>1
<1> HIDE DEF h
<1>4. /\ h \o body \in Seq(Byte) /\ Len(h \o body) = Len(h) + Len(body)
      /\ \A i \in 1..Len(h) : (h \o body)[i] = h[i]
      /\ \A i \in 1..Len(body) : (h \o body)[Len(h) + i] = body[i]
  BY <1>3, ConcatPlaces, Zenon
<1>5. FrameBytes(b1, n, body) = h \o body
  BY DEF FrameBytes, h, o, e
<1> DEFINE f == h \o body
<1>6. /\ f[1] = b1
      /\ \A i \in 1..k : f[i + 1] = e[i]
  <2> HIDE DEF f
  <2>1. \A i \in 1..(1 + k) : f[i] = h[i]
    BY <1>1, <1>3, <1>4 DEF f
  <2>2. 1 \in 1..(1 + k) /\ \A i \in 1..k : i + 1 \in 1..(1 + k) /\ 1 + i = i + 1
    BY <1>1
  <2> QED
    BY <1>3, <2>1, <2>2
<1> QED
  BY <1>3, <1>4, <1>5, <1>6 DEF e, k

(* bytes are a frame of the length it announces. *)
IsFrame(bytes) ==
    /\ bytes \in Seq(Byte)
    /\ \E n \in Nat : n <= MaxRemaining /\ BeginsFrame(bytes, n) /\ Len(bytes) = FrameSize(n)

(* A frame whose body has the length that was encoded is one. *)
LEMMA FrameBytesIsFrame ==
    ASSUME NEW b1 \in Byte, NEW n \in Nat, n <= MaxRemaining,
           NEW body \in Seq(Byte), Len(body) = n
    PROVE  IsFrame(FrameBytes(b1, n, body))
<1> DEFINE f == FrameBytes(b1, n, body)
<1>1. /\ f \in Seq(Byte) /\ Len(f) = 1 + LengthBytes(n) + Len(body)
      /\ \A i \in 1..LengthBytes(n) : f[i + 1] = EncodeLength(n)[i]
  BY FrameParts
<1> HIDE DEF f
<1>2. BeginsFrame(f, n) /\ Len(f) = FrameSize(n)
  BY <1>1 DEF BeginsFrame, FrameSize
<1> QED
  BY <1>1, <1>2 DEF IsFrame, f

(* The length is written whole or not at all. *)
LEMMA PutLengthTyped ==
    ASSUME NEW n \in Nat
    PROVE  /\ PutLength(n) \in PutSet
           /\ PutLength(n).error = "none" =>
                 n <= MaxRemaining /\ PutLength(n).bytes = EncodeLength(n)
<1>1. CASE n > MaxRemaining
  <2>1. "PayloadTooLong" \in PutErrors /\ "PayloadTooLong" # "none"
    BY DEF PutErrors
  <2>2. PutLength(n) = Fail("PayloadTooLong")
    BY <1>1 DEF PutLength
  <2> QED
    BY <2>1, <2>2, PutTyped, Zenon
<1>2. CASE n <= MaxRemaining
  <2>1. EncodeLength(n) \in Seq(Byte)
    BY <1>2, EncodedBytes
  <2>2. PutLength(n) = Put(EncodeLength(n))
    BY <1>2 DEF PutLength, MaxRemaining
  <2> QED
    BY <1>2, <2>1, <2>2, PutTyped, Zenon
<1> QED
  BY <1>1, <1>2 DEF MaxRemaining

(* A writer that puts a first byte, a length and the puts of a body. *)
Headed(b1, n, body, bytes) ==
    /\ n <= MaxRemaining
    /\ \E rest \in Seq(Byte) : Joined(body, rest) /\ bytes = FrameBytes(b1, n, rest)

(* Puts that begin with a first byte and a length make a frame with the    *)
(* rest as its body.                                                       *)
LEMMA HeaderJoined ==
    ASSUME NEW b1 \in Byte, NEW n \in Nat, NEW body \in Seq(PutSet), NEW bytes,
           Joined(<<Put(<<b1>>), PutLength(n)>> \o body, bytes)
    PROVE  Headed(b1, n, body, bytes)
<1> DEFINE head == <<Put(<<b1>>), PutLength(n)>>
           a == <<Put(<<b1>>)>>
           b == <<PutLength(n)>>
<1>1. <<b1>> \in Seq(Byte)
  OBVIOUS
<1>2. Put(<<b1>>) \in PutSet /\ PutLength(n) \in PutSet /\ Put(<<b1>>).bytes = <<b1>>
  BY <1>1, PutTyped, PutLengthTyped, Zenon
<1>3. a \in Seq(PutSet) /\ b \in Seq(PutSet) /\ head \in Seq(PutSet) /\ head = a \o b
  BY <1>2
<1>6. PICK x, rest \in Seq(Byte) :
          Joined(head, x) /\ Joined(body, rest) /\ bytes = x \o rest
  <2>1. body \in Seq(PutSet) /\ head \in Seq(PutSet)
    BY <1>3
  <2>2. Splits(head, body, bytes)
    BY <2>1, JoinedSplit, Zenon
  <2> QED
    BY <2>2, Zenon DEF Splits
<1>7. PICK y, z \in Seq(Byte) : Joined(a, y) /\ Joined(b, z) /\ x = y \o z
  <2>1. Joined(a \o b, x)
    BY <1>3, <1>6
  <2>2. Splits(a, b, x)
    BY <1>3, <2>1, JoinedSplit, Zenon
  <2> QED
    BY <2>2, Zenon DEF Splits
<1>8. y = <<b1>> /\ z = EncodeLength(n) /\ n <= MaxRemaining
  <2>1. y = Put(<<b1>>).bytes
    BY <1>2, <1>7, JoinedOne
  <2>2. PutLength(n).error = "none" /\ z = PutLength(n).bytes
    BY <1>2, <1>7, JoinedOne
  <2> QED
    BY <1>2, <2>1, <2>2, PutLengthTyped
<1>9. bytes = FrameBytes(b1, n, rest)
  BY <1>6, <1>7, <1>8, Zenon DEF FrameBytes
<1> QED
  BY <1>6, <1>8, <1>9, Zenon DEF Headed

(* So does a write of them that ends without an error. *)
LEMMA HeaderThenBody ==
    ASSUME NEW cap \in Nat, NEW b1 \in Byte, NEW n \in Nat, NEW body \in Seq(PutSet),
           Write(cap, <<Put(<<b1>>), PutLength(n)>> \o body).error = "none"
    PROVE  Headed(b1, n, body, Write(cap, <<Put(<<b1>>), PutLength(n)>> \o body).bytes)
<1> DEFINE head == <<Put(<<b1>>), PutLength(n)>>
           out == Write(cap, head \o body)
<1>1. <<b1>> \in Seq(Byte)
  OBVIOUS
<1>2. Put(<<b1>>) \in PutSet /\ PutLength(n) \in PutSet
  BY <1>1, PutTyped, PutLengthTyped, Zenon
<1>3. head \in Seq(PutSet)
  BY <1>2
<1>4. head \o body \in Seq(PutSet)
  BY <1>3, ConcatProperties
<1>5. Joined(head \o body, out.bytes)
  BY <1>4, WriteJoins
<1> QED
  BY <1>5, HeaderJoined, Zenon

-----------------------------------------------------------------------------
(* The fields of the packets of each type. *)
LEMMA WordIsNat ==
    ASSUME NEW x \in Word16
    PROVE  x \in Nat /\ x <= MaxWord
BY MaxWordIsNat, SMT DEF Word16

(* A string is a sequence of bytes. *)
LEMMA TextIsBytes ==
    ASSUME NEW s \in Text
    PROVE  s \in Seq(Byte) /\ IsUtf8(s) /\ Len(s) \in Nat
BY DEF Text

(* The fields of a packet, by its type. *)
LEMMA ConnectFields ==
    ASSUME NEW p \in PacketSet, p.type = "Connect"
    PROVE  p \in [type : {"Connect"}, protocol : {4, 5}, keep_alive : Word16, client_id : Text,
                  clean_session : BOOLEAN, last_will : Optional(WillSet),
                  login : Optional(LoginSet)]
BY DEF PacketSet, AckTypes

(* The level of a protocol is a byte. *)
LEMMA LevelTyped ==
    ASSUME NEW p \in PacketSet, p.type = "Connect"
    PROVE  p.protocol \in {4, 5} /\ p.protocol \in Byte
<1>1. p.protocol \in {4, 5}
  BY ConnectFields
<1>2. \A n \in {4, 5} : n \in Byte
  BY DEF Byte
<1> QED
  BY <1>1, <1>2, Zenon

LEMMA PublishFields ==
    ASSUME NEW p \in PacketSet, p.type = "Publish"
    PROVE  p \in [type : {"Publish"}, dup : BOOLEAN, qos : 0..2, retain : BOOLEAN,
                  topic : Text, pkid : Word16, payload : Seq(Byte)]
BY DEF PacketSet, AckTypes

LEMMA ConnAckFields ==
    ASSUME NEW p \in PacketSet, p.type = "ConnAck"
    PROVE  p \in [type : {"ConnAck"}, session_present : BOOLEAN, code : 0..5]
BY DEF PacketSet, AckTypes

LEMMA SubscribeFields ==
    ASSUME NEW p \in PacketSet, p.type = "Subscribe"
    PROVE  p \in [type : {"Subscribe"}, pkid : Word16,
                  filters : Seq([path : Text, qos : 0..2])]
BY DEF PacketSet, AckTypes

LEMMA SubAckFields ==
    ASSUME NEW p \in PacketSet, p.type = "SubAck"
    PROVE  p \in [type : {"SubAck"}, pkid : Word16, codes : Seq({0, 1, 2, 128})]
BY DEF PacketSet, AckTypes

LEMMA UnsubscribeFields ==
    ASSUME NEW p \in PacketSet, p.type = "Unsubscribe"
    PROVE  p \in [type : {"Unsubscribe"}, pkid : Word16, topics : Seq(Text)]
BY DEF PacketSet, AckTypes

LEMMA AckFields ==
    ASSUME NEW p \in PacketSet, p.type \in AckTypes
    PROVE  p \in [type : AckTypes, pkid : Word16]
BY DEF PacketSet, AckTypes

(* There are no other packets. *)
LEMMA TypesOfPackets ==
    ASSUME NEW p \in PacketSet
    PROVE  p.type \in {"Connect", "ConnAck", "Publish", "Subscribe", "SubAck", "Unsubscribe"}
                      \cup AckTypes \cup {"PingReq", "PingResp", "Disconnect"}
BY DEF PacketSet, AckTypes

-----------------------------------------------------------------------------
(* The bytes of a string with its length. *)
LEMMA MqttBytesTyped ==
    ASSUME NEW s \in Seq(Byte)
    PROVE  MqttBytes(s) \in Seq(Byte) /\ Len(MqttBytes(s)) = 2 + Len(s)
<1>1. Len(s) \in Nat
  OBVIOUS
<1>2. U16(Len(s)) \in Seq(Byte) /\ Len(U16(Len(s))) = 2
  BY <1>1, CastLength
<1> QED
  BY <1>2, ConcatTyped DEF MqttBytes

FirstThen(a, b, bytes) ==
    /\ a.error = "none"
    /\ \E z \in Seq(Byte) : Joined(b, z) /\ bytes = a.bytes \o z

(* The first put comes first. *)
LEMMA JoinedCons ==
    ASSUME NEW a \in PutSet, NEW b \in Seq(PutSet), NEW bytes, Joined(<<a>> \o b, bytes)
    PROVE  FirstThen(a, b, bytes)
<1>1. <<a>> \in Seq(PutSet)
  OBVIOUS
<1>2. Splits(<<a>>, b, bytes)
  BY <1>1, JoinedSplit, Zenon
<1>3. PICK x, y \in Seq(Byte) : Joined(<<a>>, x) /\ Joined(b, y) /\ bytes = x \o y
  BY <1>2, Zenon DEF Splits
<1>4. a.error = "none" /\ x = a.bytes
  BY <1>3, JoinedOne, Zenon
<1> QED
  BY <1>3, <1>4, Zenon DEF FirstThen

(* Tuples are one-element tuples put together. *)
LEMMA PairOf ==
    ASSUME NEW S, NEW a \in S, NEW b \in S
    PROVE  <<a, b>> = <<a>> \o <<b>>
<1>1. <<a, b>> = Append(<<a>>, b)
  OBVIOUS
<1>2. <<a>> \in Seq(S)
  OBVIOUS
<1> QED
  BY <1>1, <1>2, AppendIsConcat, Zenon

(* Tuples cut after their first or second element. *)
LEMMA Pair ==
    ASSUME NEW a \in PutSet, NEW b \in PutSet
    PROVE  <<a, b>> = <<a>> \o <<b>> /\ <<b>> \in Seq(PutSet) /\ <<a, b>> \in Seq(PutSet)
<1>1. <<a, b>> = Append(<<a>>, b) /\ <<a>> \in Seq(PutSet) /\ <<b>> \in Seq(PutSet)
  OBVIOUS
<1>2. <<a, b>> = <<a>> \o <<b>>
  BY <1>1, AppendIsConcat, Zenon
<1>3. <<a, b>> \in Seq(PutSet)
  OBVIOUS
<1> QED
  BY <1>1, <1>2, <1>3

LEMMA Triple ==
    ASSUME NEW a \in PutSet, NEW b \in PutSet, NEW c \in PutSet
    PROVE  <<a, b, c>> = <<a>> \o <<b, c>> /\ <<a, b, c>> \in Seq(PutSet)
<1>1. <<a, b, c>> \in Seq(PutSet)
  OBVIOUS
<1>2. <<a, b, c>> = <<a>> \o <<b, c>>
  OBVIOUS
<1> QED
  BY <1>1, <1>2

LEMMA AfterTwo ==
    ASSUME NEW a, NEW b, NEW c
    PROVE  <<a, b, c>> = <<a, b>> \o <<c>>
OBVIOUS

(* Two and three puts. *)
LEMMA JoinedTwo ==
    ASSUME NEW a \in PutSet, NEW b \in PutSet, NEW bytes, Joined(<<a, b>>, bytes)
    PROVE  a.error = "none" /\ b.error = "none" /\ bytes = a.bytes \o b.bytes
<1>1. Joined(<<a>> \o <<b>>, bytes) /\ <<b>> \in Seq(PutSet)
  BY Pair, Zenon
<1>2. FirstThen(a, <<b>>, bytes)
  BY <1>1, JoinedCons, Zenon
<1>3. PICK z \in Seq(Byte) : Joined(<<b>>, z) /\ bytes = a.bytes \o z
  BY <1>2, Zenon DEF FirstThen
<1>4. b.error = "none" /\ z = b.bytes
  BY <1>3, JoinedOne, Zenon
<1> QED
  BY <1>2, <1>3, <1>4, Zenon DEF FirstThen

LEMMA JoinedThree ==
    ASSUME NEW a \in PutSet, NEW b \in PutSet, NEW c \in PutSet, NEW bytes,
           Joined(<<a, b, c>>, bytes)
    PROVE  /\ a.error = "none" /\ b.error = "none" /\ c.error = "none"
           /\ bytes = a.bytes \o (b.bytes \o c.bytes)
<1>1. Joined(<<a>> \o <<b, c>>, bytes) /\ <<b, c>> \in Seq(PutSet)
  BY Pair, Triple, Zenon
<1>2. FirstThen(a, <<b, c>>, bytes)
  BY <1>1, JoinedCons, Zenon
<1>3. PICK z \in Seq(Byte) : Joined(<<b, c>>, z) /\ bytes = a.bytes \o z
  BY <1>2, Zenon DEF FirstThen
<1>4. b.error = "none" /\ c.error = "none" /\ z = b.bytes \o c.bytes
  BY <1>3, JoinedTwo, Zenon
<1> QED
  BY <1>2, <1>3, <1>4, Zenon DEF FirstThen

-----------------------------------------------------------------------------
(* What each writer writes, if it writes anything. *)
LEMMA SomeBytes ==
    ASSUME NEW b \in Byte, NEW c \in Byte, NEW n \in Nat
    PROVE  /\ <<b>> \in Seq(Byte) /\ <<b, c>> \in Seq(Byte) /\ U16(n) \in Seq(Byte)
           /\ Len(<<b, c>>) = 2 /\ Len(U16(n)) = 2
           /\ Put(<<b>>) \in PutSet /\ Put(<<b, c>>) \in PutSet /\ Put(U16(n)) \in PutSet
<1>1. <<b>> \in Seq(Byte) /\ <<b, c>> \in Seq(Byte) /\ Len(<<b, c>>) = 2
  OBVIOUS
<1>2. U16(n) \in Seq(Byte) /\ Len(U16(n)) = 2
  BY CastLength
<1> QED
  BY <1>1, <1>2, PutTyped, Zenon

(* Each writer in turn: the frame it makes, when it makes one. *)
LEMMA AckFrame ==
    ASSUME NEW cap \in Nat, NEW p \in PacketSet, p.type \in AckTypes,
           WriteAck(p, cap).error = "none"
    PROVE  /\ AckByte1[p.type] \in Byte
           /\ WriteAck(p, cap).bytes = FrameBytes(AckByte1[p.type], 2, U16(p.pkid))
<1> DEFINE b1 == AckByte1[p.type]
           c == Put(U16(p.pkid))
<1>1. b1 \in Byte /\ p.pkid \in Nat
  <2>1. p.pkid \in Word16
    BY AckFields
  <2>2. b1 \in {64, 80, 98, 112, 176}
    BY DEF AckTypes, AckByte1
  <2> QED
    BY <2>1, <2>2, WordIsNat DEF Byte
<1> HIDE DEF b1
<1>2. Put(<<b1>>) \in PutSet /\ c \in PutSet /\ PutLength(2) \in PutSet /\ <<c>> \in Seq(PutSet)
      /\ c.bytes = U16(p.pkid)
  <2>1. Put(<<b1>>) \in PutSet /\ c \in PutSet /\ U16(p.pkid) \in Seq(Byte)
    BY <1>1, SomeBytes, Zenon
  <2>2. PutLength(2) \in PutSet
    BY PutLengthTyped
  <2>3. <<c>> \in Seq(PutSet)
    BY <2>1
  <2>4. c.bytes = U16(p.pkid)
    BY <2>1, PutTyped, Zenon
  <2> QED
    BY <2>1, <2>2, <2>3, <2>4
<1>3. WriteAck(p, cap) = Write(cap, <<Put(<<b1>>), PutLength(2)>> \o <<c>>)
  BY AfterTwo, Zenon DEF WriteAck, b1
<1> HIDE DEF c
<1>4. PICK rest \in Seq(Byte) :
          Joined(<<c>>, rest) /\ WriteAck(p, cap).bytes = FrameBytes(b1, 2, rest)
  <2>1. 2 \in Nat
    OBVIOUS
  <2>2. Headed(b1, 2, <<c>>, WriteAck(p, cap).bytes)
    BY <1>1, <1>2, <1>3, <2>1, HeaderThenBody, Zenon
  <2> QED
    BY <2>2, Zenon DEF Headed
<1>5. rest = c.bytes
  BY <1>2, <1>4, JoinedOne, Zenon
<1> QED
  BY <1>1, <1>2, <1>4, <1>5, Zenon DEF b1

(* A flag is zero or its weight. *)
LEMMA FlagValue ==
    ASSUME NEW c \in BOOLEAN, NEW weight \in Nat
    PROVE  Flag(c, weight) \in {0, weight} /\ (Flag(c, weight) = weight <=> c \/ weight = 0)
BY DEF Flag

(* The bytes of a ConnAck behind its header. *)
ConnAckBody(p) == <<Flag(p.session_present, 1), p.code>>

(* The two bytes of a ConnAck. *)
LEMMA ConnAckBytes ==
    ASSUME NEW p \in PacketSet, p.type = "ConnAck"
    PROVE  /\ Flag(p.session_present, 1) \in Byte /\ p.code \in Byte
           /\ ConnAckBody(p) \in Seq(Byte) /\ Len(ConnAckBody(p)) = 2
<1>1. p.session_present \in BOOLEAN /\ p.code \in 0..5
  BY ConnAckFields
<1>2. Flag(p.session_present, 1) \in {0, 1}
  BY <1>1, FlagValue
<1>3. Flag(p.session_present, 1) \in Byte /\ p.code \in Byte
  BY <1>1, <1>2 DEF Byte
<1> QED
  BY <1>3, SomeBytes DEF ConnAckBody

(* ConnAck::write. *)
LEMMA ConnAckFrame ==
    ASSUME NEW cap \in Nat, NEW p \in PacketSet, p.type = "ConnAck",
           WriteConnAck(p, cap).error = "none"
    PROVE  WriteConnAck(p, cap).bytes = FrameBytes(32, 2, ConnAckBody(p))
<1> DEFINE c == Put(ConnAckBody(p))
<1>1. 32 \in Byte /\ 2 \in Nat
  BY DEF Byte
<1>2. c \in PutSet /\ c.bytes = ConnAckBody(p)
  BY ConnAckBytes, PutTyped, Zenon
<1>3. <<c>> \in Seq(PutSet)
  BY <1>2
<1>4. WriteConnAck(p, cap) = Write(cap, <<Put(<<32>>), PutLength(2)>> \o <<c>>)
  BY AfterTwo, Zenon DEF WriteConnAck, ConnAckBody
<1> HIDE DEF c
<1>5. Headed(32, 2, <<c>>, WriteConnAck(p, cap).bytes)
  BY <1>1, <1>3, <1>4, HeaderThenBody, Zenon
<1>6. PICK rest \in Seq(Byte) :
          Joined(<<c>>, rest) /\ WriteConnAck(p, cap).bytes = FrameBytes(32, 2, rest)
  BY <1>5, Zenon DEF Headed
<1>7. rest = c.bytes
  BY <1>2, <1>6, JoinedOne, Zenon
<1> QED
  BY <1>2, <1>6, <1>7, Zenon

(* The length zero takes one byte. *)
LEMMA ZeroLength ==
    ASSUME NEW z \in Nat, z = 0
    PROVE  EncodeLength(z) = <<z>>
<1>1. LengthBytes(z) = 1
  BY DEF LengthBytes
<1>2. EncodeLength(z) \in Seq(Byte) /\ Len(EncodeLength(z)) = 1
  <2>1. z <= MaxRemaining
    BY SMT DEF MaxRemaining
  <2> QED
    BY <1>1, <2>1, EncodedBytes, Zenon
<1>3. EncodeLength(z) = [i \in 1..1 |-> ((z \div Weight[i]) % 128) + (IF i < 1 THEN 128 ELSE 0)]
  BY <1>1, ZenonT(60) DEF EncodeLength
<1>4. EncodeLength(z)[1] = ((z \div Weight[1]) % 128) + 0
  BY <1>3, SMT
<1>5. Weight[1] = 1
  BY WeightValues, SMT
<1>6. EncodeLength(z)[1] = z
  BY <1>4, <1>5, SMT
<1> QED
  BY <1>2, <1>6, SMT

(* A frame without a body. *)
LEMMA EmptyBody ==
    ASSUME NEW b1 \in Byte, NEW z \in Nat, z = 0
    PROVE  FrameBytes(b1, z, << >>) = <<b1, z>>
<1>1. <<b1>> \in Seq(Byte) /\ z \in Byte
  BY DEF Byte
<1>3. <<b1>> \o <<z>> = <<b1, z>>
  BY <1>1, PairOf, Zenon
<1>4. <<b1, z>> \in Seq(Byte)
  BY <1>1
<1>5. <<b1, z>> \o << >> = <<b1, z>>
  BY <1>4, ConcatEmptySeq, Zenon
<1> QED
  BY <1>3, <1>5, ZeroLength, Zenon DEF FrameBytes

(* The packets without a body. *)
LEMMA EmptyFrame ==
    ASSUME NEW cap \in Nat, NEW p \in PacketSet,
           p.type \in {"PingReq", "PingResp", "Disconnect"}, WriteEmpty(p, cap).error = "none"
    PROVE  /\ EmptyByte1[p.type] \in Byte
           /\ WriteEmpty(p, cap).bytes = FrameBytes(EmptyByte1[p.type], 0, << >>)
<1> DEFINE b1 == EmptyByte1[p.type]
           c == Put(<<b1, 0>>)
<1>1. b1 \in Byte /\ 0 \in Byte
  <2>1. b1 \in {192, 208, 224}
    BY DEF EmptyByte1
  <2> QED
    BY <2>1 DEF Byte
<1> HIDE DEF b1
<1>2. c \in PutSet /\ c.bytes = <<b1, 0>>
  <2>1. <<b1, 0>> \in Seq(Byte)
    BY <1>1
  <2> QED
    BY <2>1, PutTyped, Zenon
<1>3. <<c>> \in Seq(PutSet)
  BY <1>2
<1>4. WriteEmpty(p, cap) = Write(cap, <<c>>)
  BY Zenon DEF WriteEmpty, b1
<1> HIDE DEF c
<1>5. WriteEmpty(p, cap).bytes = <<b1, 0>>
  <2>1. Joined(<<c>>, WriteEmpty(p, cap).bytes)
    BY <1>3, <1>4, WriteJoins, Zenon
  <2> QED
    BY <1>2, <2>1, JoinedOne, Zenon
<1>6. FrameBytes(b1, 0, << >>) = <<b1, 0>>
  <2>1. 0 \in Nat /\ 0 = 0
    OBVIOUS
  <2> QED
    BY <1>1, <2>1, EmptyBody, Zenon
<1> QED
  BY <1>1, <1>5, <1>6, Zenon DEF b1

(* The bytes of a SubAck behind its header. *)
SubAckBody(p) == U16(p.pkid) \o p.codes

(* Return codes fit in a byte. *)
LEMMA CodesAreBytes ==
    ASSUME NEW p \in PacketSet, p.type = "SubAck"
    PROVE  p.pkid \in Nat /\ p.codes \in Seq({0, 1, 2, 128}) /\ p.codes \in Seq(Byte)
<1>1. p.pkid \in Word16 /\ p.codes \in Seq({0, 1, 2, 128})
  BY SubAckFields
<1>2. {0, 1, 2, 128} \subseteq Byte
  BY DEF Byte
<1>3. p.codes \in Seq(Byte)
  <2> DEFINE S == {0, 1, 2, 128}
  <2>1. p.codes \in Seq(S) /\ S \subseteq Byte
    BY <1>1, <1>2
  <2> HIDE DEF S
  <2> QED
    BY <2>1
<1> QED
  BY <1>1, <1>3, WordIsNat

(* SubAck::write. *)
LEMMA SubAckFrame ==
    ASSUME NEW cap \in Nat, NEW p \in PacketSet, p.type = "SubAck",
           WriteSubAck(p, cap).error = "none"
    PROVE  /\ SubAckBody(p) \in Seq(Byte) /\ Len(SubAckBody(p)) = 2 + Len(p.codes)
           /\ 2 + Len(p.codes) <= MaxRemaining
           /\ WriteSubAck(p, cap).bytes = FrameBytes(144, 2 + Len(p.codes), SubAckBody(p))
<1> DEFINE c == Put(U16(p.pkid))
           d == Put(p.codes)
           n == 2 + Len(p.codes)
<1>1. 144 \in Byte /\ n \in Nat
  BY CodesAreBytes DEF Byte
<1>2. p.codes \in Seq(Byte) /\ U16(p.pkid) \in Seq(Byte) /\ Len(U16(p.pkid)) = 2
  BY CodesAreBytes, CastLength
<1>3. c \in PutSet /\ c.bytes = U16(p.pkid) /\ d \in PutSet /\ d.bytes = p.codes
  BY <1>2, PutTyped, Zenon
<1>4. WriteSubAck(p, cap) = Write(cap, <<Put(<<144>>), PutLength(n)>> \o <<c, d>>)
  <2>1. <<Put(<<144>>), PutLength(n), c, d>> = <<Put(<<144>>), PutLength(n)>> \o <<c, d>>
    BY SMT
  <2> QED
    BY <2>1, Zenon DEF WriteSubAck
<1> HIDE DEF c, d
<1>5. Headed(144, n, <<c, d>>, WriteSubAck(p, cap).bytes)
  <2>1. <<c, d>> \in Seq(PutSet)
    BY <1>3, Pair, Zenon
  <2> HIDE DEF n
  <2> QED
    BY <1>1, <1>4, <2>1, HeaderThenBody, ZenonT(60)
<1>6. PICK rest \in Seq(Byte) :
          Joined(<<c, d>>, rest) /\ WriteSubAck(p, cap).bytes = FrameBytes(144, n, rest)
  BY <1>5, Zenon DEF Headed
<1>7. rest = SubAckBody(p)
  BY <1>3, <1>6, JoinedTwo, Zenon DEF SubAckBody
<1>8. SubAckBody(p) \in Seq(Byte) /\ Len(SubAckBody(p)) = n
  BY <1>2, ConcatTyped DEF SubAckBody
<1> QED
  BY <1>5, <1>6, <1>7, <1>8 DEF Headed

(* The bytes of a Publish behind its header. *)
PkidBytes(p) == IF p.qos = 0 THEN << >> ELSE U16(p.pkid)

PublishBody(p) == MqttBytes(p.topic) \o (PkidBytes(p) \o p.payload)

(* The parts of a publish are bytes, as many as PublishLen counts. *)
LEMMA PublishTyped ==
    ASSUME NEW p \in PacketSet, p.type = "Publish"
    PROVE  /\ p.qos \in 0..2 /\ p.pkid \in Nat /\ p.pkid <= MaxWord
           /\ p.topic \in Seq(Byte) /\ p.payload \in Seq(Byte)
           /\ p.dup \in BOOLEAN /\ p.retain \in BOOLEAN
           /\ PublishByte1(p) \in Byte
           /\ PublishByte1(p) = 48 + Flag(p.retain, 1) + 2 * p.qos + Flag(p.dup, 8)
<1>1. /\ p.qos \in 0..2 /\ p.pkid \in Word16 /\ p.topic \in Text /\ p.payload \in Seq(Byte)
      /\ p.dup \in BOOLEAN /\ p.retain \in BOOLEAN
  BY PublishFields
<1>2. p.topic \in Seq(Byte)
  BY <1>1, TextIsBytes
<1>3. p.pkid \in Nat /\ p.pkid <= MaxWord
  BY <1>1, WordIsNat, SMT
<1>4. Flag(p.retain, 1) \in {0, 1} /\ Flag(p.dup, 8) \in {0, 8}
  BY <1>1, FlagValue
<1>5. PublishByte1(p) = 48 + Flag(p.retain, 1) + 2 * p.qos + Flag(p.dup, 8)
  BY Zenon DEF PublishByte1
<1>6. PublishByte1(p) \in Byte
  <2>1. \A x \in {0, 1}, y \in {0, 8}, q \in 0..2 : 48 + x + 2 * q + y \in Byte
    BY SMT DEF Byte
  <2> QED
    BY <1>1, <1>4, <1>5, <2>1, Zenon
<1> QED
  BY <1>1, <1>2, <1>3, <1>5, <1>6

(* The identifier of a publish is written, or refused. *)
LEMMA PutPkidTyped ==
    ASSUME NEW p \in PacketSet, p.type = "Publish"
    PROVE  /\ PutPkid(p) \in PutSet
           /\ PutPkid(p).error = "none" =>
                 /\ p.qos # 0 => p.pkid # 0
                 /\ PutPkid(p).bytes = PkidBytes(p)
<1>1. CASE p.qos = 0
  <2>1. << >> \in Seq(Byte) /\ PutPkid(p) = Put(<< >>) /\ PkidBytes(p) = << >>
    BY <1>1 DEF PutPkid, PkidBytes
  <2> QED
    BY <1>1, <2>1, PutTyped, Zenon
<1>2. CASE p.qos # 0 /\ p.pkid = 0
  <2>1. PutPkid(p) = Fail("MalformedPacket")
    BY <1>2 DEF PutPkid
  <2>2. "MalformedPacket" \in PutErrors /\ "MalformedPacket" # "none"
    BY DEF PutErrors
  <2> QED
    BY <2>1, <2>2, PutTyped, Zenon
<1>3. CASE p.qos # 0 /\ p.pkid # 0
  <2>1. PutPkid(p) = Put(U16(p.pkid)) /\ PkidBytes(p) = U16(p.pkid)
    BY <1>3 DEF PutPkid, PkidBytes
  <2>2. U16(p.pkid) \in Seq(Byte)
    BY PublishTyped, CastLength
  <2> QED
    BY <1>3, <2>1, <2>2, PutTyped, Zenon
<1> QED
  BY <1>1, <1>2, <1>3

(* Publish::write. *)
LEMMA PublishFrame ==
    ASSUME NEW cap \in Nat, NEW p \in PacketSet, p.type = "Publish",
           WritePublish(p, cap).error = "none"
    PROVE  /\ PublishBody(p) \in Seq(Byte) /\ Len(PublishBody(p)) = PublishLen(p)
           /\ PublishLen(p) \in Nat /\ PublishLen(p) <= MaxRemaining
           /\ p.qos # 0 => p.pkid # 0
           /\ WritePublish(p, cap).bytes =
                 FrameBytes(PublishByte1(p), PublishLen(p), PublishBody(p))
<1> DEFINE c == Put(MqttBytes(p.topic))
           d == PutPkid(p)
           e == Put(p.payload)
           n == PublishLen(p)
           b1 == PublishByte1(p)
<1>1. p.topic \in Seq(Byte) /\ p.payload \in Seq(Byte) /\ b1 \in Byte /\ p.pkid \in Nat /\ p.qos \in 0..2
  BY PublishTyped
<1>2. n \in Nat /\ n = 2 + Len(p.topic) + Len(p.payload) + (IF p.qos # 0 /\ p.pkid # 0 THEN 2 ELSE 0)
  <2>1. n = 2 + Len(p.topic) + Len(p.payload) + (IF p.qos # 0 /\ p.pkid # 0 THEN 2 ELSE 0)
    BY Zenon DEF PublishLen
  <2>2. Len(p.topic) \in Nat /\ Len(p.payload) \in Nat
    BY <1>1
  <2>3. (IF p.qos # 0 /\ p.pkid # 0 THEN 2 ELSE 0) \in Nat
    OBVIOUS
  <2> HIDE DEF n
  <2>4. n \in Nat
    <3>1. \A t, y, k \in Nat : 2 + t + y + k \in Nat
      OBVIOUS
    <3> QED
      BY <2>1, <2>2, <2>3, <3>1, Zenon
  <2> QED
    BY <2>1, <2>4, Zenon
<1>3. MqttBytes(p.topic) \in Seq(Byte) /\ Len(MqttBytes(p.topic)) = 2 + Len(p.topic)
  BY <1>1, MqttBytesTyped
<1>4. c \in PutSet /\ c.bytes = MqttBytes(p.topic) /\ d \in PutSet
      /\ e \in PutSet /\ e.bytes = p.payload
  BY <1>1, <1>3, PutTyped, PutPkidTyped, Zenon
<1>5. WritePublish(p, cap) = Write(cap, <<Put(<<b1>>), PutLength(n)>> \o <<c, d, e>>)
  <2>1. <<Put(<<b1>>), PutLength(n), c, d, e>> = <<Put(<<b1>>), PutLength(n)>> \o <<c, d, e>>
    BY SMT
  <2> QED
    BY <2>1, Zenon DEF WritePublish
<1> HIDE DEF b1, c, d, e, n
<1>6. Headed(b1, n, <<c, d, e>>, WritePublish(p, cap).bytes)
  <2>1. <<c, d, e>> \in Seq(PutSet)
    BY <1>4, Triple, Zenon
  <2> QED
    BY <1>1, <1>2, <1>5, <2>1, HeaderThenBody, Zenon
<1>7. PICK rest \in Seq(Byte) :
          Joined(<<c, d, e>>, rest) /\ WritePublish(p, cap).bytes = FrameBytes(b1, n, rest)
  BY <1>6, Zenon DEF Headed
<1>8. d.error = "none" /\ rest = c.bytes \o (d.bytes \o e.bytes)
  BY <1>4, <1>7, JoinedThree, ZenonT(60)
<1>9. (p.qos # 0 => p.pkid # 0) /\ d.bytes = PkidBytes(p)
  BY <1>8, PutPkidTyped, Zenon DEF d
<1>10. rest = PublishBody(p)
  BY <1>4, <1>8, <1>9, Zenon DEF PublishBody
<1>11. /\ PkidBytes(p) \in Seq(Byte)
       /\ Len(PkidBytes(p)) = IF p.qos # 0 /\ p.pkid # 0 THEN 2 ELSE 0
  <2>1. << >> \in Seq(Byte) /\ Len(<< >>) = 0
    OBVIOUS
  <2>2. U16(p.pkid) \in Seq(Byte) /\ Len(U16(p.pkid)) = 2
    BY <1>1, CastLength
  <2> QED
    BY <1>9, <2>1, <2>2 DEF PkidBytes
<1>12. PublishBody(p) \in Seq(Byte) /\ Len(PublishBody(p)) = n
  <2>1. /\ PkidBytes(p) \o p.payload \in Seq(Byte)
        /\ Len(PkidBytes(p) \o p.payload) = Len(PkidBytes(p)) + Len(p.payload)
    BY <1>1, <1>11, ConcatTyped, Zenon
  <2>2. /\ PublishBody(p) \in Seq(Byte)
        /\ Len(PublishBody(p)) = Len(MqttBytes(p.topic)) + Len(PkidBytes(p) \o p.payload)
    BY <1>3, <2>1, ConcatTyped, Zenon DEF PublishBody
  <2>3. Len(p.topic) \in Nat /\ Len(p.payload) \in Nat
    BY <1>1
  <2>4. Len(PublishBody(p)) = (2 + Len(p.topic)) + ((IF p.qos # 0 /\ p.pkid # 0 THEN 2 ELSE 0) + Len(p.payload))
    BY <1>3, <1>11, <2>1, <2>2, Zenon
  <2> QED
    <3>1. \A t, y \in Nat : \A k \in {0, 2} : (2 + t) + (k + y) = 2 + t + y + k
      OBVIOUS
    <3>2. (IF p.qos # 0 /\ p.pkid # 0 THEN 2 ELSE 0) \in {0, 2}
      OBVIOUS
    <3> QED
      BY <1>2, <2>2, <2>3, <2>4, <3>1, <3>2, Zenon
<1>13. n <= MaxRemaining
  BY <1>6, Zenon DEF Headed
<1> QED
  BY <1>2, <1>7, <1>9, <1>10, <1>12, <1>13 DEF n, b1

-----------------------------------------------------------------------------
(* The length of the filters of a Subscribe and the topics of an Unsubscribe. *)
FilterSet == [path : Text, qos : 0..2]

(* The fields of a filter. *)
LEMMA FilterTyped ==
    ASSUME NEW f \in FilterSet
    PROVE  f.path \in Seq(Byte) /\ IsUtf8(f.path) /\ Len(f.path) \in Nat /\ f.qos \in 0..2
<1>1. f.path \in Text /\ f.qos \in 0..2
  BY DEF FilterSet
<1> QED
  BY <1>1, TextIsBytes

(* The length of a Subscribe is a sum over its filters: a table of the     *)
(* partial sums.                                                           *)
LEMMA FilterLengths ==
    ASSUME NEW fs \in Seq(FilterSet)
    PROVE  \E acc \in [0..Len(fs) -> Nat] :
              /\ acc[0] = 0
              /\ acc[Len(fs)] = FoldLeft(LAMBDA n, f : n + 2 + Len(f.path) + 1, 0, fs)
              /\ \A i \in 1..Len(fs) : acc[i] = acc[i - 1] + 2 + Len(fs[i].path) + 1
<1> DEFINE g == [xy \in Nat \X FilterSet |-> xy[1] + 2 + Len(xy[2].path) + 1]
           Table(f) == f = [s \in SUBSET DOMAIN fs |->
                              IF s = {} THEN 0
                              ELSE f[s \ {Max(s)}] + 2 + Len(fs[Max(s)].path) + 1]
<1>1. FoldLeft(LAMBDA n, f : n + 2 + Len(f.path) + 1, 0, fs) = (CHOOSE f : Table(f))[DOMAIN fs]
  BY Zenon DEF FoldLeft, MapThenFoldSet
<1>2. 0 \in Nat /\ \A x \in Nat, y \in FilterSet : x + 2 + Len(y.path) + 1 \in Nat
  <2>1. ASSUME NEW x \in Nat, NEW y \in FilterSet
        PROVE  x + 2 + Len(y.path) + 1 \in Nat
    <3>1. Len(y.path) \in Nat
      BY FilterTyped
    <3>2. \A k \in Nat : x + 2 + k + 1 \in Nat
      OBVIOUS
    <3> QED
      BY <3>1, <3>2, Zenon
  <2> QED
    BY <2>1
<1>3. /\ g \in [Nat \X FilterSet -> Nat]
      /\ \A x \in Nat, y \in FilterSet : g[<<x, y>>] = x + 2 + Len(y.path) + 1
  BY <1>2
<1> HIDE DEF g
<1>4. DOMAIN fs = 1..Len(fs) /\ Len(fs) \in Nat
  OBVIOUS
<1>5. ASSUME NEW s \in SUBSET DOMAIN fs, s # {}
      PROVE  fs[Max(s)] \in FilterSet /\ s \ {Max(s)} \in SUBSET DOMAIN fs
  <2>1. Max(s) \in 1..Len(fs)
    BY <1>4, <1>5, MaxInside
  <2>2. fs[Max(s)] \in FilterSet
    BY <2>1
  <2> QED
    BY <2>2, Zenon
<1>6. \E f : Table(f)
  <2>1. PICK f \in [SUBSET DOMAIN fs -> Nat] :
            \A s \in SUBSET DOMAIN fs : f[s] = Folded(f, 0, g, fs, s)
    <3>1. HasTable(Nat, 0, g, fs)
      BY <1>2, <1>3, FoldTable, Zenon
    <3> QED
      BY <3>1, Zenon DEF HasTable
  <2>2. ASSUME NEW s \in SUBSET DOMAIN fs
        PROVE  f[s] = IF s = {} THEN 0
                      ELSE f[s \ {Max(s)}] + 2 + Len(fs[Max(s)].path) + 1
    <3>1. CASE s = {}
      BY <2>1, <3>1 DEF Folded
    <3>2. CASE s # {}
      <4>1. f[s \ {Max(s)}] \in Nat
        BY <1>5, <2>1, <3>2
      <4>2. f[s] = g[<<f[s \ {Max(s)}], fs[Max(s)]>>]
        BY <2>1, <3>2, Zenon DEF Folded
      <4> QED
        BY <1>3, <1>5, <3>2, <4>1, <4>2, Zenon
    <3> QED
      BY <3>1, <3>2
  <2> QED
    BY <2>1, <2>2, Zenon
<1>7. PICK f : f = (CHOOSE h : Table(h))
  OBVIOUS
<1>8. Table(f)
  <2> HIDE DEF Table
  <2> QED
    BY <1>6, <1>7, Zenon
<1>9. f[{}] = 0
  BY <1>8, Zenon
<1>10. ASSUME NEW i \in 1..Len(fs), f[(1..i) \ {Max(1..i)}] \in Nat
       PROVE  f[1..i] = g[<<f[(1..i) \ {Max(1..i)}], fs[Max(1..i)]>>]
  <2>1. 1..i \in SUBSET DOMAIN fs /\ 1..i # {}
    <3>1. i \in 1..i /\ \A j \in 1..i : j \in 1..Len(fs)
      BY <1>4
    <3> QED
      BY <1>4, <3>1
  <2>2. f[1..i] = f[(1..i) \ {Max(1..i)}] + 2 + Len(fs[Max(1..i)].path) + 1
    BY <1>8, <2>1, Zenon
  <2> QED
    BY <1>3, <1>5, <1>10, <2>1, <2>2, Zenon
<1>11. PICK acc \in [0..Len(fs) -> Nat] :
          /\ acc[0] = 0
          /\ acc[Len(fs)] = f[DOMAIN fs]
          /\ \A i \in 1..Len(fs) : acc[i] = g[<<acc[i - 1], fs[i]>>]
  <2> HIDE DEF Table
  <2>1. HasRun(Nat, 0, g, fs, f[DOMAIN fs])
    BY <1>2, <1>3, <1>9, <1>10, FoldRuns, Zenon
  <2> QED
    BY <2>1, Zenon DEF HasRun
<1>12. acc[Len(fs)] = FoldLeft(LAMBDA n, u : n + 2 + Len(u.path) + 1, 0, fs)
  BY <1>1, <1>7, <1>11, Zenon
<1>13. \A i \in 1..Len(fs) : acc[i] = acc[i - 1] + 2 + Len(fs[i].path) + 1
  <2>1. \A i \in 1..Len(fs) : acc[i - 1] \in Nat /\ fs[i] \in FilterSet
    BY <1>4
  <2> QED
    BY <1>3, <1>11, <2>1, Zenon
<1> QED
  BY <1>11, <1>12, <1>13, Zenon

(* The same for the topics of an Unsubscribe. *)
LEMMA TopicLengths ==
    ASSUME NEW ts \in Seq(Text)
    PROVE  \E acc \in [0..Len(ts) -> Nat] :
              /\ acc[0] = 0
              /\ acc[Len(ts)] = FoldLeft(LAMBDA n, t : n + Len(t) + 2, 0, ts)
              /\ \A i \in 1..Len(ts) : acc[i] = acc[i - 1] + Len(ts[i]) + 2
<1> DEFINE g == [xy \in Nat \X Text |-> xy[1] + Len(xy[2]) + 2]
           Table(f) == f = [s \in SUBSET DOMAIN ts |->
                              IF s = {} THEN 0
                              ELSE f[s \ {Max(s)}] + Len(ts[Max(s)]) + 2]
<1>1. FoldLeft(LAMBDA n, t : n + Len(t) + 2, 0, ts) = (CHOOSE f : Table(f))[DOMAIN ts]
  BY Zenon DEF FoldLeft, MapThenFoldSet
<1>2. 0 \in Nat /\ \A x \in Nat, y \in Text : x + Len(y) + 2 \in Nat
  <2>1. ASSUME NEW x \in Nat, NEW y \in Text
        PROVE  x + Len(y) + 2 \in Nat
    <3>1. Len(y) \in Nat
      BY TextIsBytes
    <3> QED
      BY <3>1
  <2> QED
    BY <2>1
<1>3. /\ g \in [Nat \X Text -> Nat]
      /\ \A x \in Nat, y \in Text : g[<<x, y>>] = x + Len(y) + 2
  BY <1>2
<1> HIDE DEF g
<1>4. DOMAIN ts = 1..Len(ts) /\ Len(ts) \in Nat
  OBVIOUS
<1>5. ASSUME NEW s \in SUBSET DOMAIN ts, s # {}
      PROVE  ts[Max(s)] \in Text /\ s \ {Max(s)} \in SUBSET DOMAIN ts
  <2>1. Max(s) \in 1..Len(ts)
    BY <1>4, <1>5, MaxInside
  <2>2. ts[Max(s)] \in Text
    BY <2>1
  <2> QED
    BY <2>2, Zenon
<1>6. \E f : Table(f)
  <2>1. PICK f \in [SUBSET DOMAIN ts -> Nat] :
            \A s \in SUBSET DOMAIN ts : f[s] = Folded(f, 0, g, ts, s)
    <3>1. HasTable(Nat, 0, g, ts)
      BY <1>2, <1>3, FoldTable, Zenon
    <3> QED
      BY <3>1, Zenon DEF HasTable
  <2>2. ASSUME NEW s \in SUBSET DOMAIN ts
        PROVE  f[s] = IF s = {} THEN 0
                      ELSE f[s \ {Max(s)}] + Len(ts[Max(s)]) + 2
    <3>1. CASE s = {}
      BY <2>1, <3>1 DEF Folded
    <3>2. CASE s # {}
      <4>1. f[s \ {Max(s)}] \in Nat
        BY <1>5, <2>1, <3>2
      <4>2. f[s] = g[<<f[s \ {Max(s)}], ts[Max(s)]>>]
        BY <2>1, <3>2, Zenon DEF Folded
      <4> QED
        BY <1>3, <1>5, <3>2, <4>1, <4>2, Zenon
    <3> QED
      BY <3>1, <3>2
  <2> QED
    BY <2>1, <2>2, Zenon
<1>7. PICK f : f = (CHOOSE h : Table(h))
  OBVIOUS
<1>8. Table(f)
  <2> HIDE DEF Table
  <2> QED
    BY <1>6, <1>7, Zenon
<1>9. f[{}] = 0
  BY <1>8, Zenon
<1>10. ASSUME NEW i \in 1..Len(ts), f[(1..i) \ {Max(1..i)}] \in Nat
       PROVE  f[1..i] = g[<<f[(1..i) \ {Max(1..i)}], ts[Max(1..i)]>>]
  <2>1. 1..i \in SUBSET DOMAIN ts /\ 1..i # {}
    <3>1. i \in 1..i /\ \A j \in 1..i : j \in 1..Len(ts)
      BY <1>4
    <3> QED
      BY <1>4, <3>1
  <2>2. f[1..i] = f[(1..i) \ {Max(1..i)}] + Len(ts[Max(1..i)]) + 2
    BY <1>8, <2>1, Zenon
  <2> QED
    BY <1>3, <1>5, <1>10, <2>1, <2>2, Zenon
<1>11. PICK acc \in [0..Len(ts) -> Nat] :
          /\ acc[0] = 0
          /\ acc[Len(ts)] = f[DOMAIN ts]
          /\ \A i \in 1..Len(ts) : acc[i] = g[<<acc[i - 1], ts[i]>>]
  <2> HIDE DEF Table
  <2>1. HasRun(Nat, 0, g, ts, f[DOMAIN ts])
    BY <1>2, <1>3, <1>9, <1>10, FoldRuns, Zenon
  <2> QED
    BY <2>1, Zenon DEF HasRun
<1>12. acc[Len(ts)] = FoldLeft(LAMBDA n, t : n + Len(t) + 2, 0, ts)
  BY <1>1, <1>7, <1>11, Zenon
<1>13. \A i \in 1..Len(ts) : acc[i] = acc[i - 1] + Len(ts[i]) + 2
  <2>1. \A i \in 1..Len(ts) : acc[i - 1] \in Nat /\ ts[i] \in Text
    BY <1>4
  <2> QED
    BY <1>3, <1>11, <2>1, Zenon
<1> QED
  BY <1>11, <1>12, <1>13, Zenon

LevelSet == {l \in Seq(Seq(Byte)) : l # << >>}

NextLevels(levels, c) ==
    IF c = Slash THEN Append(levels, << >>)
    ELSE [levels EXCEPT ![Len(levels)] = Append(@, c)]

(* Levels goes through the bytes of a topic. *)
LEMMA LevelRuns ==
    ASSUME NEW str \in Seq(Byte)
    PROVE  \E acc \in [0..Len(str) -> LevelSet] :
              /\ acc[0] = << << >> >>
              /\ acc[Len(str)] = Levels(str)
              /\ \A i \in 1..Len(str) : acc[i] = NextLevels(acc[i - 1], str[i])
<1> DEFINE g == [xy \in LevelSet \X Byte |-> NextLevels(xy[1], xy[2])]
           Table(f) == f = [s \in SUBSET DOMAIN str |->
                              IF s = {} THEN << << >> >>
                              ELSE NextLevels(f[s \ {Max(s)}], str[Max(s)])]
<1>1. Levels(str) = (CHOOSE f : Table(f))[DOMAIN str]
  BY Zenon DEF Levels, FoldLeft, MapThenFoldSet, NextLevels
<1>2. << << >> >> \in LevelSet /\ \A x \in LevelSet, y \in Byte : NextLevels(x, y) \in LevelSet
  <2>1. << << >> >> \in LevelSet
    BY DEF LevelSet
  <2>2. ASSUME NEW x \in LevelSet, NEW y \in Byte
        PROVE  NextLevels(x, y) \in LevelSet
    <3>1. x \in Seq(Seq(Byte)) /\ x # << >> /\ Len(x) \in 1..Len(x)
      BY DEF LevelSet
    <3>2. CASE y = Slash
      <4>1. << >> \in Seq(Byte)
        OBVIOUS
      <4>2. Append(x, << >>) \in Seq(Seq(Byte)) /\ Append(x, << >>) # << >>
        BY <3>1, <4>1
      <4> QED
        BY <3>2, <4>2 DEF LevelSet, NextLevels
    <3>3. CASE y # Slash
      <4>1. x[Len(x)] \in Seq(Byte)
        BY <3>1
      <4>2. Append(x[Len(x)], y) \in Seq(Byte)
        BY <4>1
      <4>3. [x EXCEPT ![Len(x)] = Append(@, y)] \in Seq(Seq(Byte))
        BY <3>1, <4>2
      <4>4. Len([x EXCEPT ![Len(x)] = Append(@, y)]) = Len(x)
        BY <3>1, <4>2
      <4>5. [x EXCEPT ![Len(x)] = Append(@, y)] # << >>
        BY <3>1, <4>3, <4>4
      <4> QED
        BY <3>3, <4>3, <4>5 DEF LevelSet, NextLevels
    <3> QED
      BY <3>2, <3>3
  <2> QED
    BY <2>1, <2>2
<1>3. /\ g \in [LevelSet \X Byte -> LevelSet]
      /\ \A x \in LevelSet, y \in Byte : g[<<x, y>>] = NextLevels(x, y)
  BY <1>2
<1> HIDE DEF g
<1>4. DOMAIN str = 1..Len(str) /\ Len(str) \in Nat
  OBVIOUS
<1>5. ASSUME NEW s \in SUBSET DOMAIN str, s # {}
      PROVE  str[Max(s)] \in Byte /\ s \ {Max(s)} \in SUBSET DOMAIN str
  <2>1. Max(s) \in 1..Len(str)
    BY <1>4, <1>5, MaxInside
  <2>2. str[Max(s)] \in Byte
    BY <2>1
  <2> QED
    BY <2>2, Zenon
<1>6. \E f : Table(f)
  <2>1. PICK f \in [SUBSET DOMAIN str -> LevelSet] :
            \A s \in SUBSET DOMAIN str : f[s] = Folded(f, << << >> >>, g, str, s)
    <3>1. HasTable(LevelSet, << << >> >>, g, str)
      BY <1>2, <1>3, FoldTable, Zenon
    <3> QED
      BY <3>1, Zenon DEF HasTable
  <2>2. ASSUME NEW s \in SUBSET DOMAIN str
        PROVE  f[s] = IF s = {} THEN << << >> >>
                      ELSE NextLevels(f[s \ {Max(s)}], str[Max(s)])
    <3>1. CASE s = {}
      BY <2>1, <3>1 DEF Folded
    <3>2. CASE s # {}
      <4>1. f[s \ {Max(s)}] \in LevelSet
        BY <1>5, <2>1, <3>2
      <4>2. f[s] = g[<<f[s \ {Max(s)}], str[Max(s)]>>]
        BY <2>1, <3>2, Zenon DEF Folded
      <4> QED
        BY <1>3, <1>5, <3>2, <4>1, <4>2, Zenon
    <3> QED
      BY <3>1, <3>2
  <2> QED
    BY <2>1, <2>2, Zenon
<1>7. PICK f : f = (CHOOSE h : Table(h))
  OBVIOUS
<1>8. Table(f)
  <2> HIDE DEF Table
  <2> QED
    BY <1>6, <1>7, Zenon
<1>9. f[{}] = << << >> >>
  BY <1>8, Zenon
<1>10. ASSUME NEW i \in 1..Len(str), f[(1..i) \ {Max(1..i)}] \in LevelSet
       PROVE  f[1..i] = g[<<f[(1..i) \ {Max(1..i)}], str[Max(1..i)]>>]
  <2>1. 1..i \in SUBSET DOMAIN str /\ 1..i # {}
    <3>1. i \in 1..i /\ \A j \in 1..i : j \in 1..Len(str)
      BY <1>4
    <3> QED
      BY <1>4, <3>1
  <2>2. f[1..i] = NextLevels(f[(1..i) \ {Max(1..i)}], str[Max(1..i)])
    BY <1>8, <2>1, Zenon
  <2> QED
    BY <1>3, <1>5, <1>10, <2>1, <2>2, Zenon
<1>11. PICK acc \in [0..Len(str) -> LevelSet] :
          /\ acc[0] = << << >> >>
          /\ acc[Len(str)] = f[DOMAIN str]
          /\ \A i \in 1..Len(str) : acc[i] = g[<<acc[i - 1], str[i]>>]
  <2> HIDE DEF Table
  <2>1. HasRun(LevelSet, << << >> >>, g, str, f[DOMAIN str])
    BY <1>2, <1>3, <1>9, <1>10, FoldRuns, Zenon
  <2> QED
    BY <2>1, Zenon DEF HasRun
<1>12. acc[Len(str)] = Levels(str)
  BY <1>1, <1>7, <1>11, Zenon
<1>13. \A i \in 1..Len(str) : acc[i] = NextLevels(acc[i - 1], str[i])
  <2>1. \A i \in 1..Len(str) : acc[i - 1] \in LevelSet /\ str[i] \in Byte
    BY <1>4
  <2> QED
    BY <1>3, <1>11, <2>1, Zenon
<1> QED
  BY <1>11, <1>12, <1>13, Zenon

(* TopicItems goes through the parts with a TopicIterator. *)
IteratorSet == [rest : Seq(Seq(Byte)), first : BOOLEAN, prev_was_separator : BOOLEAN]

ItemsSet == [it : IteratorSet, items : Seq(Seq(Byte))]

NextItems(x) == [it |-> After(x.it), items |-> x.items \o Item(x.it)]

(* One step of the iterator over the levels of a filter. *)
LEMMA IteratorStep ==
    ASSUME NEW it \in IteratorSet
    PROVE  After(it) \in IteratorSet /\ Item(it) \in Seq(Seq(Byte))
<1>1. it.rest \in Seq(Seq(Byte)) /\ it.first \in BOOLEAN /\ it.prev_was_separator \in BOOLEAN
  BY DEF IteratorSet
<1>2. CASE it.rest = << >>
  <2>1. After(it) = [it EXCEPT !.first = FALSE] /\ Item(it) = << >>
    BY <1>2 DEF After, Item
  <2>2. << >> \in Seq(Seq(Byte))
    OBVIOUS
  <2>3. [it EXCEPT !.first = FALSE] \in IteratorSet
    BY DEF IteratorSet
  <2> QED
    BY <2>1, <2>2, <2>3
<1>3. CASE it.rest # << >> /\ (it.first \/ it.prev_was_separator)
  <2>1. /\ After(it) = [rest |-> Tail(it.rest), first |-> FALSE, prev_was_separator |-> FALSE]
        /\ Item(it) = <<Head(it.rest)>>
    BY <1>3 DEF After, Item
  <2>2. Head(it.rest) \in Seq(Byte) /\ Tail(it.rest) \in Seq(Seq(Byte))
    BY <1>1, <1>3, HeadTailProperties
  <2>3. <<Head(it.rest)>> \in Seq(Seq(Byte))
    BY <2>2
  <2> QED
    BY <2>1, <2>2, <2>3 DEF IteratorSet
<1>4. CASE it.rest # << >> /\ ~(it.first \/ it.prev_was_separator)
  <2>1. After(it) = [it EXCEPT !.prev_was_separator = TRUE] /\ Item(it) = << <<Slash>> >>
    BY <1>4 DEF After, Item
  <2>2. Slash \in Byte
    BY DEF Slash, Byte
  <2>3. <<Slash>> \in Seq(Byte)
    BY <2>2
  <2>4. << <<Slash>> >> \in Seq(Seq(Byte))
    BY <2>3
  <2>5. [it EXCEPT !.prev_was_separator = TRUE] \in IteratorSet
    BY DEF IteratorSet
  <2> QED
    BY <2>1, <2>4, <2>5
<1> QED
  BY <1>2, <1>3, <1>4

(* The iterator's states and the items it gave, step by step. *)
LEMMA ItemRuns ==
    ASSUME NEW parts \in Seq(Seq(Byte)), NEW ns \in Seq(Nat)
    PROVE  \E acc \in [0..Len(ns) -> ItemsSet] :
              /\ acc[0] = [it |-> Iterator(parts), items |-> << >>]
              /\ acc[Len(ns)] = FoldLeft(LAMBDA got_, n : [it |-> After(got_.it), items |-> got_.items \o Item(got_.it)], [it |-> Iterator(parts), items |-> << >>], ns)
              /\ \A i \in 1..Len(ns) : acc[i] = NextItems(acc[i - 1])
<1> DEFINE g == [xy \in ItemsSet \X Nat |-> NextItems(xy[1])]
           Table(f) == f = [s \in SUBSET DOMAIN ns |->
                              IF s = {} THEN [it |-> Iterator(parts), items |-> << >>]
                              ELSE NextItems(f[s \ {Max(s)}])]
<1>1. FoldLeft(LAMBDA got_, n : [it |-> After(got_.it), items |-> got_.items \o Item(got_.it)], [it |-> Iterator(parts), items |-> << >>], ns) = (CHOOSE f : Table(f))[DOMAIN ns]
  BY Zenon DEF FoldLeft, MapThenFoldSet, NextItems
<1>2. [it |-> Iterator(parts), items |-> << >>] \in ItemsSet /\ \A x \in ItemsSet, y \in Nat : NextItems(x) \in ItemsSet
  <2>1. [it |-> Iterator(parts), items |-> << >>] \in ItemsSet
    <3>1. << >> \in Seq(Seq(Byte))
      OBVIOUS
    <3>2. Iterator(parts) \in IteratorSet
      BY DEF Iterator, IteratorSet
    <3> QED
      BY <3>1, <3>2 DEF ItemsSet
  <2>2. ASSUME NEW x \in ItemsSet
        PROVE  NextItems(x) \in ItemsSet
    <3>1. x.it \in IteratorSet /\ x.items \in Seq(Seq(Byte))
      BY DEF ItemsSet
    <3>2. After(x.it) \in IteratorSet /\ Item(x.it) \in Seq(Seq(Byte))
      BY <3>1, IteratorStep
    <3>3. x.items \o Item(x.it) \in Seq(Seq(Byte))
      BY <3>1, <3>2, ConcatProperties
    <3> QED
      BY <3>2, <3>3 DEF NextItems, ItemsSet
  <2> QED
    BY <2>1, <2>2
<1>3. /\ g \in [ItemsSet \X Nat -> ItemsSet]
      /\ \A x \in ItemsSet, y \in Nat : g[<<x, y>>] = NextItems(x)
  BY <1>2
<1> HIDE DEF g
<1>4. DOMAIN ns = 1..Len(ns) /\ Len(ns) \in Nat
  OBVIOUS
<1>5. ASSUME NEW s \in SUBSET DOMAIN ns, s # {}
      PROVE  ns[Max(s)] \in Nat /\ s \ {Max(s)} \in SUBSET DOMAIN ns
  <2>1. Max(s) \in 1..Len(ns)
    BY <1>4, <1>5, MaxInside
  <2>2. ns[Max(s)] \in Nat
    BY <2>1
  <2> QED
    BY <2>2, Zenon
<1>6. \E f : Table(f)
  <2>1. PICK f \in [SUBSET DOMAIN ns -> ItemsSet] :
            \A s \in SUBSET DOMAIN ns : f[s] = Folded(f, [it |-> Iterator(parts), items |-> << >>], g, ns, s)
    <3>1. HasTable(ItemsSet, [it |-> Iterator(parts), items |-> << >>], g, ns)
      BY <1>2, <1>3, FoldTable, Zenon
    <3> QED
      BY <3>1, Zenon DEF HasTable
  <2>2. ASSUME NEW s \in SUBSET DOMAIN ns
        PROVE  f[s] = IF s = {} THEN [it |-> Iterator(parts), items |-> << >>]
                      ELSE NextItems(f[s \ {Max(s)}])
    <3>1. CASE s = {}
      BY <2>1, <3>1 DEF Folded
    <3>2. CASE s # {}
      <4>1. f[s \ {Max(s)}] \in ItemsSet
        BY <1>5, <2>1, <3>2
      <4>2. f[s] = g[<<f[s \ {Max(s)}], ns[Max(s)]>>]
        BY <2>1, <3>2, Zenon DEF Folded
      <4> QED
        BY <1>3, <1>5, <3>2, <4>1, <4>2, Zenon
    <3> QED
      BY <3>1, <3>2
  <2> QED
    BY <2>1, <2>2, Zenon
<1>7. PICK f : f = (CHOOSE h : Table(h))
  OBVIOUS
<1>8. Table(f)
  <2> HIDE DEF Table
  <2> QED
    BY <1>6, <1>7, Zenon
<1>9. f[{}] = [it |-> Iterator(parts), items |-> << >>]
  BY <1>8, Zenon
<1>10. ASSUME NEW i \in 1..Len(ns), f[(1..i) \ {Max(1..i)}] \in ItemsSet
       PROVE  f[1..i] = g[<<f[(1..i) \ {Max(1..i)}], ns[Max(1..i)]>>]
  <2>1. 1..i \in SUBSET DOMAIN ns /\ 1..i # {}
    <3>1. i \in 1..i /\ \A j \in 1..i : j \in 1..Len(ns)
      BY <1>4
    <3> QED
      BY <1>4, <3>1
  <2>2. f[1..i] = NextItems(f[(1..i) \ {Max(1..i)}])
    BY <1>8, <2>1, Zenon
  <2> QED
    BY <1>3, <1>5, <1>10, <2>1, <2>2, Zenon
<1>11. PICK acc \in [0..Len(ns) -> ItemsSet] :
          /\ acc[0] = [it |-> Iterator(parts), items |-> << >>]
          /\ acc[Len(ns)] = f[DOMAIN ns]
          /\ \A i \in 1..Len(ns) : acc[i] = g[<<acc[i - 1], ns[i]>>]
  <2> HIDE DEF Table
  <2>1. HasRun(ItemsSet, [it |-> Iterator(parts), items |-> << >>], g, ns, f[DOMAIN ns])
    BY <1>2, <1>3, <1>9, <1>10, FoldRuns, Zenon
  <2> QED
    BY <2>1, Zenon DEF HasRun
<1>12. acc[Len(ns)] = FoldLeft(LAMBDA got_, n : [it |-> After(got_.it), items |-> got_.items \o Item(got_.it)], [it |-> Iterator(parts), items |-> << >>], ns)
  BY <1>1, <1>7, <1>11, Zenon
<1>13. \A i \in 1..Len(ns) : acc[i] = NextItems(acc[i - 1])
  <2>1. \A i \in 1..Len(ns) : acc[i - 1] \in ItemsSet /\ ns[i] \in Nat
    <3>1. \A i \in 1..Len(ns) : ns[i] \in Nat
      OBVIOUS
    <3>2. \A i \in 1..Len(ns) : i - 1 \in 0..Len(ns)
      BY <1>4
    <3>3. \A i \in 1..Len(ns) : acc[i - 1] \in ItemsSet
      BY <1>11, <3>2, Zenon
    <3> QED
      BY <3>1, <3>3, Zenon
  <2> QED
    BY <1>3, <1>11, <2>1, Zenon
<1> QED
  BY <1>11, <1>12, <1>13, Zenon

(* The items of a filter are bytes. *)
LEMMA ItemsTyped ==
    ASSUME NEW parts \in Seq(Seq(Byte))
    PROVE  TopicItems(parts) \in Seq(Seq(Byte))
<1> DEFINE ns == [n \in 1..(2 * Len(parts)) |-> n]
<1>1. ns \in Seq(Nat)
  <2>1. 2 * Len(parts) \in Nat
    OBVIOUS
  <2> QED
    BY <2>1
<1> HIDE DEF ns
<1>2. PICK acc \in [0..Len(ns) -> ItemsSet] :
          acc[Len(ns)] = FoldLeft(LAMBDA got_, n : [it |-> After(got_.it), items |-> got_.items \o Item(got_.it)],
                                  [it |-> Iterator(parts), items |-> << >>], ns)
  BY <1>1, ItemRuns
<1>3. acc[Len(ns)] \in ItemsSet
  <2>1. Len(ns) \in 0..Len(ns)
    BY <1>1
  <2> QED
    BY <2>1
<1>4. TopicItems(parts) = acc[Len(ns)].items
  BY <1>2, Zenon DEF TopicItems, ns
<1> QED
  BY <1>3, <1>4 DEF ItemsSet

(* The levels of a filter are bytes. *)
LEMMA LevelsTyped ==
    ASSUME NEW s \in Seq(Byte)
    PROVE  Levels(s) \in Seq(Seq(Byte)) /\ Levels(s) # << >>
<1>1. PICK acc \in [0..Len(s) -> LevelSet] : acc[Len(s)] = Levels(s)
  BY LevelRuns
<1>2. Len(s) \in 0..Len(s)
  OBVIOUS
<1>3. Levels(s) \in LevelSet
  BY <1>1, <1>2
<1> QED
  BY <1>3 DEF LevelSet

-----------------------------------------------------------------------------
(* FlattenSeq, of what is written string by string. *)
LEMMA FlattenRuns ==
    ASSUME NEW strings \in Seq(Seq(Byte))
    PROVE  \E acc \in [0..Len(strings) -> Seq(Byte)] :
              /\ acc[0] = << >>
              /\ acc[Len(strings)] = FlattenSeq(strings)
              /\ \A i \in 1..Len(strings) : acc[i] = acc[i - 1] \o strings[i]
<1> DEFINE n == Len(strings)
           S == Seq(Byte)
           g == [xy \in S \X S |-> xy[1] \o xy[2]]
           Table(f) == f = [i \in 1..n |-> IF i = 1 THEN strings[i] ELSE f[i - 1] \o strings[i]]
<1>1. n \in Nat /\ << >> \in S /\ \A i \in 1..n : strings[i] \in S
  OBVIOUS
<1>2. \A x, y \in S : x \o y \in S
  BY ConcatTyped
<1> HIDE DEF S
<1>3. g \in [S \X S -> S] /\ \A x, y \in S : g[<<x, y>>] = x \o y
  BY <1>2
<1> HIDE DEF g
<1>4. PICK a \in [0..n -> S] : /\ a[0] = << >>
                               /\ \A i \in 1..n : a[i] = a[i - 1] \o strings[i]
  <2>1. HasTable(S, << >>, g, strings)
    BY <1>1, <1>3, FoldTable, Zenon DEF S
  <2>2. PICK f \in [SUBSET DOMAIN strings -> S] :
            \A s \in SUBSET DOMAIN strings : f[s] = Folded(f, << >>, g, strings, s)
    BY <2>1, Zenon DEF HasTable
  <2>3. f[{}] = << >>
    BY <2>2, Zenon DEF Folded
  <2>4. ASSUME NEW i \in 1..n
        PROVE  f[1..i] = g[<<f[(1..i) \ {Max(1..i)}], strings[Max(1..i)]>>]
    <3>1. 1..i \in SUBSET DOMAIN strings /\ 1..i # {}
      <4>1. i \in 1..i /\ \A j \in 1..i : j \in 1..n
        BY <1>1
      <4>2. DOMAIN strings = 1..n
        OBVIOUS
      <4> QED
        BY <4>1, <4>2, Zenon
    <3> QED
      BY <2>2, <3>1, Zenon DEF Folded
  <2>5. HasRun(S, << >>, g, strings, f[DOMAIN strings])
    BY <1>1, <1>3, <2>3, <2>4, FoldRuns, Zenon DEF S, n
  <2>6. PICK a \in [0..n -> S] : /\ a[0] = << >>
                                 /\ \A i \in 1..n : a[i] = g[<<a[i - 1], strings[i]>>]
    BY <2>5, Zenon DEF HasRun, n
  <2>7. \A i \in 1..n : a[i] = a[i - 1] \o strings[i]
    <3>1. \A i \in 1..n : a[i - 1] \in S /\ strings[i] \in S
      BY <1>1, SMTT(60)
    <3> QED
      BY <1>3, <2>6, <3>1, Zenon
  <2> QED
    BY <2>6, <2>7, Zenon
<1> HIDE DEF n
<1>5. CASE n = 0
  <2>1. strings = << >> /\ FlattenSeq(strings) = strings
    BY <1>5 DEF FlattenSeq, n
  <2> QED
    BY <1>4, <1>5, <2>1 DEF n, S
<1>6. CASE n # 0
  <2>1. \E f : Table(f)
    <3> DEFINE f == [i \in 1..n |-> a[i]]
    <3>1. ASSUME NEW i \in 1..n
          PROVE  f[i] = IF i = 1 THEN strings[i] ELSE f[i - 1] \o strings[i]
      <4>1. CASE i = 1
        <5>1. a[1] = << >> \o strings[1]
          BY <1>1, <1>4, <4>1
        <5>2. << >> \o strings[1] = strings[1]
          BY <1>1, <4>1, ConcatEmptySeq DEF S
        <5> QED
          BY <4>1, <5>1, <5>2
      <4>2. CASE i # 1
        <5>1. i - 1 \in 1..n
          BY <1>1, <4>2
        <5> QED
          BY <1>4, <4>2, <5>1
      <4> QED
        BY <4>1, <4>2
    <3>2. Table(f)
      BY <3>1, Zenon
    <3> QED
      BY <3>2, Zenon
  <2>2. PICK f : f = (CHOOSE h : Table(h))
    OBVIOUS
  <2>3. Table(f)
    <3> HIDE DEF Table
    <3> QED
      BY <2>1, <2>2, Zenon
  <2>4. FlattenSeq(strings) = f[n]
    <3>1. FlattenSeq(strings) = (CHOOSE h : Table(h))[n]
      BY <1>6, Zenon DEF FlattenSeq, n
    <3> QED
      BY <2>2, <3>1, Zenon
  <2>5. \A i \in 1..n : f[i] = IF i = 1 THEN strings[i] ELSE f[i - 1] \o strings[i]
    BY <2>3, Zenon
  <2> DEFINE P == {i \in Nat : i + 1 <= n => f[i + 1] = a[i + 1]}
  <2>6. 0 \in P
    <3>1. 1 \in 1..n /\ 0 + 1 = 1 /\ 1 - 1 = 0
      BY <1>1, <1>6
    <3>2. f[1] = strings[1] /\ a[1] = << >> \o strings[1]
      BY <1>4, <2>5, <3>1
    <3>3. << >> \o strings[1] = strings[1]
      BY <1>1, <3>1, ConcatEmptySeq DEF S
    <3> QED
      BY <3>1, <3>2, <3>3
  <2>7. ASSUME NEW i \in 1..(n - 1), i - 1 \in P
        PROVE  i \in P
    <3>1. i \in Nat /\ (i - 1) + 1 = i /\ i <= n /\ i + 1 \in 1..n /\ i + 1 # 1 /\ (i + 1) - 1 = i
      BY <1>1
    <3>2. f[i] = a[i]
      BY <2>7, <3>1
    <3>3. f[i + 1] = f[i] \o strings[i + 1] /\ a[i + 1] = a[i] \o strings[i + 1]
      BY <1>4, <2>5, <3>1
    <3> QED
      BY <3>1, <3>2, <3>3
  <2>8. f[n] = a[n]
    <3>1. P \in SUBSET Nat /\ n - 1 \in Nat /\ n - 1 \in 0..(n - 1) /\ (n - 1) + 1 = n
      BY <1>1, <1>6
    <3>2. n - 1 \in P
      <4> HIDE DEF P
      <4>1. \A i \in 0..(n - 1) : i \in P
        BY <2>6, <2>7, <3>1, UpTo
      <4> QED
        BY <3>1, <4>1
    <3> QED
      BY <1>1, <3>1, <3>2
  <2> QED
    BY <1>4, <2>4, <2>8, Zenon DEF n, S
<1> QED
  BY <1>5, <1>6

(* Sequences put behind one another are a sequence. *)
LEMMA FlattenTyped ==
    ASSUME NEW strings \in Seq(Seq(Byte))
    PROVE  FlattenSeq(strings) \in Seq(Byte) /\ Len(FlattenSeq(strings)) \in Nat
<1>1. PICK acc \in [0..Len(strings) -> Seq(Byte)] : acc[Len(strings)] = FlattenSeq(strings)
  BY FlattenRuns
<1>2. Len(strings) \in 0..Len(strings)
  OBVIOUS
<1>3. FlattenSeq(strings) \in Seq(Byte)
  BY <1>1, <1>2
<1> QED
  BY <1>3

(* The puts of some strings are their concatenation. *)
LEMMA FlattenJoined ==
    ASSUME NEW strings \in Seq(Seq(Byte)), NEW puts, NEW bytes,
           puts = [i \in DOMAIN strings |-> Put(strings[i])], Joined(puts, bytes)
    PROVE  bytes = FlattenSeq(strings)
<1> DEFINE n == Len(strings)
<1>1. /\ n \in Nat /\ DOMAIN strings = 1..n /\ Len(puts) = n
      /\ \A i \in 1..n : strings[i] \in Seq(Byte) /\ puts[i] = Put(strings[i])
  OBVIOUS
<1>2. \A i \in 1..n : puts[i].bytes = strings[i]
  BY <1>1, PutTyped, Zenon
<1>3. PICK acc \in [0..n -> Seq(Byte)] :
          /\ acc[0] = << >>
          /\ acc[n] = FlattenSeq(strings)
          /\ \A i \in 1..n : acc[i] = acc[i - 1] \o strings[i]
  BY FlattenRuns
<1>4. PICK w : Growth(w, puts, bytes)
  BY DEF Joined
<1> HIDE DEF n
<1>5. /\ w[0] = << >> /\ w[n] = bytes
      /\ \A i \in 1..n : w[i] = w[i - 1] \o puts[i].bytes
  BY <1>1, <1>4 DEF Growth
<1> DEFINE P == {i \in Nat : i <= n => w[i] = acc[i]}
<1>6. \A i \in 0..n : i \in P
  <2>1. 0 \in P
    BY <1>3, <1>5
  <2>2. ASSUME NEW i \in 1..n, i - 1 \in P
        PROVE  i \in P
    <3>1. i \in Nat /\ i - 1 \in Nat /\ i - 1 <= n
      BY <1>1
    <3>2. w[i - 1] = acc[i - 1]
      BY <2>2, <3>1
    <3> QED
      BY <1>2, <1>3, <1>5, <3>1, <3>2
  <2>3. P \in SUBSET Nat
    OBVIOUS
  <2> HIDE DEF P
  <2> QED
    BY <1>1, <2>1, <2>2, <2>3, UpTo
<1> QED
  <2>1. n \in 0..n /\ n \in Nat /\ n <= n
    BY <1>1
  <2>2. w[n] = acc[n]
    BY <1>6, <2>1
  <2> QED
    BY <1>3, <1>5, <2>2, Zenon

-----------------------------------------------------------------------------
(* The length of what some puts write together. *)
Sized(bytes, n) == bytes \in Seq(Byte) /\ Len(bytes) = n

(* Puts of known lengths write the sum of them. *)
LEMMA JoinedLength ==
    ASSUME NEW n \in Nat, NEW puts, Len(puts) = n, NEW bytes, Joined(puts, bytes),
           NEW acc \in [0..n -> Nat], acc[0] = 0,
           \A i \in 1..n : puts[i].bytes \in Seq(Byte),
           \A i \in 1..n : acc[i] = acc[i - 1] + Len(puts[i].bytes)
    PROVE  Sized(bytes, acc[n])
<1>1. PICK w : Growth(w, puts, bytes)
  BY DEF Joined
<1>2. /\ w \in [0..n -> Seq(Byte)] /\ w[0] = << >> /\ w[n] = bytes
      /\ \A i \in 1..n : w[i] = w[i - 1] \o puts[i].bytes
  BY <1>1 DEF Growth
<1> DEFINE P == {i \in Nat : i <= n => Len(w[i]) = acc[i]}
<1>3. \A i \in 0..n : i \in P
  <2>1. 0 \in P
    BY <1>2
  <2>2. ASSUME NEW i \in 1..n, i - 1 \in P
        PROVE  i \in P
    <3>1. i \in Nat /\ i - 1 \in 0..n /\ i - 1 \in Nat /\ i - 1 <= n
      OBVIOUS
    <3>2. Len(w[i - 1]) = acc[i - 1] /\ w[i - 1] \in Seq(Byte)
      BY <1>2, <2>2, <3>1
    <3>3. Len(w[i]) = Len(w[i - 1]) + Len(puts[i].bytes)
      <4>1. puts[i].bytes \in Seq(Byte) /\ w[i] = w[i - 1] \o puts[i].bytes
        BY <1>2
      <4>2. /\ w[i - 1] \o puts[i].bytes \in Seq(Byte)
            /\ Len(w[i - 1] \o puts[i].bytes) = Len(w[i - 1]) + Len(puts[i].bytes)
        BY <3>2, <4>1, ConcatTyped, Zenon
      <4> QED
        BY <4>1, <4>2
    <3> QED
      BY <3>1, <3>2, <3>3
  <2>3. P \in SUBSET Nat
    OBVIOUS
  <2> HIDE DEF P
  <2> QED
    BY <2>1, <2>2, <2>3, UpTo
<1>4. n \in 0..n /\ n <= n
  OBVIOUS
<1> QED
  BY <1>2, <1>3, <1>4 DEF Sized

(* A filter takes its length, its bytes and its options. *)
LEMMA FilterBytesTyped ==
    ASSUME NEW f \in FilterSet
    PROVE  FilterBytes(f) \in Seq(Byte) /\ Len(FilterBytes(f)) = Len(f.path) + 2 + 1
<1>1. f.path \in Seq(Byte) /\ Len(f.path) \in Nat /\ f.qos \in Byte
  <2>1. \A q \in 0..2 : q \in Byte
    BY DEF Byte
  <2> QED
    BY <2>1, FilterTyped
<1>2. MqttBytes(f.path) \in Seq(Byte) /\ Len(MqttBytes(f.path)) = 2 + Len(f.path)
  BY <1>1, MqttBytesTyped
<1>3. <<f.qos>> \in Seq(Byte) /\ Len(<<f.qos>>) = 1
  BY <1>1
<1>4. /\ FilterBytes(f) \in Seq(Byte)
      /\ Len(FilterBytes(f)) = Len(MqttBytes(f.path)) + Len(<<f.qos>>)
  BY <1>2, <1>3, ConcatTyped, Zenon DEF FilterBytes
<1> QED
  <2>1. \A k \in Nat : (2 + k) + 1 = k + 2 + 1
    OBVIOUS
  <2> QED
    BY <1>1, <1>2, <1>3, <1>4, <2>1, Zenon

(* The puts of a list write n bytes together with the two of an identifier. *)
Spans(list, n) == \A bytes : Joined(list, bytes) => bytes \in Seq(Byte) /\ 2 + Len(bytes) = n

FilterPuts(p) == [i \in DOMAIN p.filters |-> Put(FilterBytes(p.filters[i]))]

TopicPuts(p) == [i \in DOMAIN p.topics |-> Put(MqttBytes(p.topics[i]))]

(* The filters of a Subscribe take the bytes its length counts. *)
LEMMA PutsOfFilters ==
    ASSUME NEW p \in PacketSet, p.type = "Subscribe"
    PROVE  /\ FilterPuts(p) \in Seq(PutSet)
           /\ SubscribeLen(p) \in Nat /\ SubscribeLen(p) >= 2
           /\ Spans(FilterPuts(p), SubscribeLen(p))
<1> DEFINE fs == p.filters
           n == Len(fs)
           puts == FilterPuts(p)
<1>1. fs \in Seq(FilterSet)
  BY SubscribeFields DEF FilterSet
<1>2. n \in Nat /\ DOMAIN fs = 1..n /\ \A i \in 1..n : fs[i] \in FilterSet
  BY <1>1
<1>3. PICK acc \in [0..n -> Nat] :
          /\ acc[0] = 0
          /\ acc[n] = FoldLeft(LAMBDA m, f : m + 2 + Len(f.path) + 1, 0, fs)
          /\ \A i \in 1..n : acc[i] = acc[i - 1] + 2 + Len(fs[i].path) + 1
  BY <1>1, FilterLengths
<1>4. SubscribeLen(p) = 2 + acc[n]
  BY <1>3, Zenon DEF SubscribeLen
<1> HIDE DEF fs, n
<1>5. \A i \in 1..n : FilterBytes(fs[i]) \in Seq(Byte)
  BY <1>2, FilterBytesTyped
<1>6. puts = [i \in 1..n |-> Put(FilterBytes(fs[i]))]
  BY <1>2, Zenon DEF FilterPuts, fs
<1> HIDE DEF puts
<1>7. \A i \in 1..n : puts[i] \in PutSet /\ puts[i].bytes = FilterBytes(fs[i])
  BY <1>5, <1>6, PutTyped, Zenon
<1>8. puts \in Seq(PutSet) /\ Len(puts) = n
  <2>1. \A i \in 1..n : Put(FilterBytes(fs[i])) \in PutSet
    BY <1>5, PutTyped, Zenon
  <2> QED
    BY <1>2, <1>6, <2>1
<1>12. acc \in [0..n -> Nat] /\ acc[0] = 0
  BY <1>3, Zenon
<1>9. acc[n] \in Nat
  <2>1. n \in 0..n
    BY <1>2
  <2> QED
    BY <1>12, <2>1
<1>10. \A i \in 1..n : acc[i] = acc[i - 1] + Len(puts[i].bytes)
  <2>1. ASSUME NEW i \in 1..n
        PROVE  acc[i] = acc[i - 1] + Len(puts[i].bytes)
    <3>1. acc[i - 1] \in Nat
      <4>1. i - 1 \in 0..n
        BY <1>2
      <4> QED
        BY <1>12, <4>1
    <3>2. Len(fs[i].path) \in Nat /\ Len(puts[i].bytes) = Len(fs[i].path) + 2 + 1
      BY <1>2, <1>7, FilterTyped, FilterBytesTyped
    <3>3. \A a, k \in Nat : a + 2 + k + 1 = a + (k + 2 + 1)
      OBVIOUS
    <3> QED
      BY <1>3, <3>1, <3>2, <3>3, Zenon
  <2> QED
    BY <2>1
<1>11. ASSUME NEW bytes, Joined(puts, bytes)
       PROVE  bytes \in Seq(Byte) /\ Len(bytes) = acc[n]
  <2>1. \A i \in 1..n : puts[i].bytes \in Seq(Byte)
    BY <1>5, <1>7
  <2>2. Sized(bytes, acc[n])
    BY <1>2, <1>8, <1>10, <1>11, <1>12, <2>1, JoinedLength, Zenon
  <2> QED
    BY <2>2 DEF Sized
<1>13. Spans(puts, SubscribeLen(p))
  BY <1>4, <1>11, Zenon DEF Spans
<1> QED
  BY <1>4, <1>8, <1>9, <1>13 DEF puts

(* The topics of an Unsubscribe take the bytes its length counts. *)
LEMMA PutsOfTopics ==
    ASSUME NEW p \in PacketSet, p.type = "Unsubscribe"
    PROVE  /\ TopicPuts(p) \in Seq(PutSet)
           /\ UnsubscribeLen(p) \in Nat
           /\ Spans(TopicPuts(p), UnsubscribeLen(p))
<1> DEFINE ts == p.topics
           n == Len(ts)
           puts == TopicPuts(p)
<1>1. ts \in Seq(Text)
  BY UnsubscribeFields
<1>2. n \in Nat /\ DOMAIN ts = 1..n /\ \A i \in 1..n : ts[i] \in Text
  BY <1>1
<1>3. PICK acc \in [0..n -> Nat] :
          /\ acc[0] = 0
          /\ acc[n] = FoldLeft(LAMBDA m, t : m + Len(t) + 2, 0, ts)
          /\ \A i \in 1..n : acc[i] = acc[i - 1] + Len(ts[i]) + 2
  BY <1>1, TopicLengths
<1>4. UnsubscribeLen(p) = 2 + acc[n]
  BY <1>3, Zenon DEF UnsubscribeLen
<1> HIDE DEF ts, n
<1>5. \A i \in 1..n : /\ MqttBytes(ts[i]) \in Seq(Byte)
                      /\ Len(MqttBytes(ts[i])) = 2 + Len(ts[i]) /\ Len(ts[i]) \in Nat
  BY <1>2, TextIsBytes, MqttBytesTyped, Zenon
<1>6. puts = [i \in 1..n |-> Put(MqttBytes(ts[i]))]
  BY <1>2, Zenon DEF TopicPuts, ts
<1> HIDE DEF puts
<1>7. \A i \in 1..n : puts[i] \in PutSet /\ puts[i].bytes = MqttBytes(ts[i])
  BY <1>5, <1>6, PutTyped, Zenon
<1>8. puts \in Seq(PutSet) /\ Len(puts) = n
  <2>1. \A i \in 1..n : Put(MqttBytes(ts[i])) \in PutSet
    BY <1>5, PutTyped, Zenon
  <2> QED
    BY <1>2, <1>6, <2>1
<1>12. acc \in [0..n -> Nat] /\ acc[0] = 0
  BY <1>3, Zenon
<1>9. acc[n] \in Nat
  <2>1. n \in 0..n
    BY <1>2
  <2> QED
    BY <1>12, <2>1
<1>10. \A i \in 1..n : acc[i] = acc[i - 1] + Len(puts[i].bytes)
  <2>1. ASSUME NEW i \in 1..n
        PROVE  acc[i] = acc[i - 1] + Len(puts[i].bytes)
    <3>1. acc[i - 1] \in Nat
      <4>1. i - 1 \in 0..n
        BY <1>2
      <4> QED
        BY <1>12, <4>1
    <3>3. \A a, k \in Nat : a + k + 2 = a + (2 + k)
      OBVIOUS
    <3> QED
      BY <1>3, <1>5, <1>7, <3>1, <3>3, ZenonT(60)
  <2> QED
    BY <2>1
<1>11. ASSUME NEW bytes, Joined(puts, bytes)
       PROVE  bytes \in Seq(Byte) /\ Len(bytes) = acc[n]
  <2>1. \A i \in 1..n : puts[i].bytes \in Seq(Byte)
    BY <1>5, <1>7
  <2>2. Sized(bytes, acc[n])
    BY <1>2, <1>8, <1>10, <1>11, <1>12, <2>1, JoinedLength, Zenon
  <2> QED
    BY <2>2 DEF Sized
<1>13. Spans(puts, UnsubscribeLen(p))
  BY <1>4, <1>11, Zenon DEF Spans
<1> QED
  BY <1>4, <1>8, <1>9, <1>13 DEF puts

PutsRegroup(a, b, c) == (a \o b) \o c = a \o (b \o c)

(* Where a list of puts is cut makes no difference. *)
LEMMA PutsAssoc ==
    ASSUME NEW a \in Seq(PutSet), NEW b \in Seq(PutSet), NEW c \in Seq(PutSet)
    PROVE  PutsRegroup(a, b, c)
BY ConcatAssociative DEF PutsRegroup

(* A list of puts behind another is one. *)
LEMMA PutsTyped ==
    ASSUME NEW a \in Seq(PutSet), NEW b \in Seq(PutSet)
    PROVE  a \o b \in Seq(PutSet)
BY ConcatProperties

(* What follows the first three puts. *)
LEMMA AfterThree ==
    ASSUME NEW a \in PutSet, NEW b \in PutSet, NEW c \in PutSet, NEW rest \in Seq(PutSet)
    PROVE  <<a, b, c>> \o rest = <<a, b>> \o (<<c>> \o rest)
<1>1. <<a, b>> \in Seq(PutSet) /\ <<c>> \in Seq(PutSet)
  OBVIOUS
<1>2. <<a, b, c>> = <<a, b>> \o <<c>>
  BY AfterTwo, Zenon
<1>3. (<<a, b>> \o <<c>>) \o rest = <<a, b>> \o (<<c>> \o rest)
  BY <1>1, PutsAssoc, Zenon DEF PutsRegroup
<1> QED
  BY <1>2, <1>3, Zenon

(* A writer that puts a first byte, a length, a packet identifier and a    *)
(* list of texts.                                                          *)
LEMMA ListFrame ==
    ASSUME NEW cap \in Nat, NEW b1 \in Byte, NEW n \in Nat, NEW pkid \in Nat,
           NEW list \in Seq(PutSet), Spans(list, n),
           Write(cap, <<Put(<<b1>>), PutLength(n), Put(U16(pkid))>> \o list).error = "none"
    PROVE  IsFrame(Write(cap, <<Put(<<b1>>), PutLength(n), Put(U16(pkid))>> \o list).bytes)
<1> DEFINE a == Put(<<b1>>)
           b == PutLength(n)
           c == Put(U16(pkid))
           out == Write(cap, <<a, b, c>> \o list)
<1>1. /\ a \in PutSet /\ b \in PutSet /\ c \in PutSet
      /\ c.bytes = U16(pkid) /\ U16(pkid) \in Seq(Byte) /\ Len(U16(pkid)) = 2
  <2>1. a \in PutSet /\ c \in PutSet /\ U16(pkid) \in Seq(Byte) /\ Len(U16(pkid)) = 2
    BY SomeBytes, Zenon
  <2> QED
    BY <2>1, PutTyped, PutLengthTyped, Zenon
<1>2. <<a, b, c>> \o list = <<a, b>> \o (<<c>> \o list)
  <2> HIDE DEF a, b, c
  <2> QED
    BY <1>1, AfterThree, Zenon
<1>3. <<c>> \o list \in Seq(PutSet)
  <2>1. <<c>> \in Seq(PutSet)
    BY <1>1
  <2> HIDE DEF c
  <2> QED
    BY <2>1, PutsTyped, Zenon
<1> DEFINE body == <<c>> \o list
<1>4. /\ Write(cap, <<Put(<<b1>>), PutLength(n)>> \o body).error = "none"
      /\ out = Write(cap, <<Put(<<b1>>), PutLength(n)>> \o body)
  BY <1>2, Zenon
<1>5. Headed(b1, n, body, out.bytes)
  <2> HIDE DEF body, out
  <2> QED
    BY <1>3, <1>4, HeaderThenBody, Zenon DEF body
<1> HIDE DEF c, out
<1>6. PICK rest \in Seq(Byte) : Joined(<<c>> \o list, rest) /\ out.bytes = FrameBytes(b1, n, rest)
  BY <1>5, Zenon DEF Headed
<1>7. PICK z \in Seq(Byte) : Joined(list, z) /\ rest = c.bytes \o z
  <2>1. FirstThen(c, list, rest)
    BY <1>1, <1>6, JoinedCons, Zenon
  <2> QED
    BY <2>1, Zenon DEF FirstThen
<1>8. Len(rest) = n
  <2>1. c.bytes \in Seq(Byte) /\ Len(c.bytes) = 2
    BY <1>1, Zenon
  <2>2. c.bytes \o z \in Seq(Byte) /\ Len(c.bytes \o z) = Len(c.bytes) + Len(z)
    BY <2>1, ConcatTyped, Zenon
  <2>3. 2 + Len(z) = n
    BY <1>7, Zenon DEF Spans
  <2> QED
    BY <1>7, <2>1, <2>2, <2>3
<1>9. n <= MaxRemaining
  BY <1>5, Zenon DEF Headed
<1>10. IsFrame(FrameBytes(b1, n, rest))
  BY <1>8, <1>9, FrameBytesIsFrame, Zenon
<1> QED
  BY <1>6, <1>10, Zenon DEF c, out

(* Subscribe::write. *)
LEMMA SubscribeFrame ==
    ASSUME NEW cap \in Nat, NEW p \in PacketSet, p.type = "Subscribe",
           WriteSubscribePacket(p, cap).error = "none"
    PROVE  IsFrame(WriteSubscribePacket(p, cap).bytes)
<1>0. PICK b1 : b1 = 130
  OBVIOUS
<1>1. b1 \in Byte /\ p.pkid \in Nat
  <2>1. p.pkid \in Word16
    BY SubscribeFields
  <2> QED
    BY <1>0, <2>1, WordIsNat DEF Byte
<1>2. WriteSubscribePacket(p, cap) =
        Write(cap, <<Put(<<b1>>), PutLength(SubscribeLen(p)), Put(U16(p.pkid))>> \o FilterPuts(p))
  BY <1>0 DEF WriteSubscribePacket, FilterPuts
<1>3. FilterPuts(p) \in Seq(PutSet) /\ SubscribeLen(p) \in Nat /\ Spans(FilterPuts(p), SubscribeLen(p))
  BY PutsOfFilters, Zenon
<1>4. Write(cap, <<Put(<<b1>>), PutLength(SubscribeLen(p)), Put(U16(p.pkid))>> \o FilterPuts(p)).error = "none"
  BY <1>2, Zenon
<1>5. IsFrame(Write(cap, <<Put(<<b1>>), PutLength(SubscribeLen(p)), Put(U16(p.pkid))>> \o FilterPuts(p)).bytes)
  BY <1>1, <1>3, <1>4, ListFrame, Zenon
<1> QED
  BY <1>2, <1>5, Zenon

(* Unsubscribe::write. *)
LEMMA UnsubscribeFrame ==
    ASSUME NEW cap \in Nat, NEW p \in PacketSet, p.type = "Unsubscribe",
           WriteUnsubscribe(p, cap).error = "none"
    PROVE  IsFrame(WriteUnsubscribe(p, cap).bytes)
<1>0. PICK b1 : b1 = 162
  OBVIOUS
<1>1. b1 \in Byte /\ p.pkid \in Nat
  <2>1. p.pkid \in Word16
    BY UnsubscribeFields
  <2> QED
    BY <1>0, <2>1, WordIsNat DEF Byte
<1>2. WriteUnsubscribe(p, cap) =
        Write(cap, <<Put(<<b1>>), PutLength(UnsubscribeLen(p)), Put(U16(p.pkid))>> \o TopicPuts(p))
  BY <1>0 DEF WriteUnsubscribe, TopicPuts
<1>3. TopicPuts(p) \in Seq(PutSet) /\ UnsubscribeLen(p) \in Nat /\ Spans(TopicPuts(p), UnsubscribeLen(p))
  BY PutsOfTopics, Zenon
<1>4. Write(cap, <<Put(<<b1>>), PutLength(UnsubscribeLen(p)), Put(U16(p.pkid))>> \o TopicPuts(p)).error = "none"
  BY <1>2, Zenon
<1>5. IsFrame(Write(cap, <<Put(<<b1>>), PutLength(UnsubscribeLen(p)), Put(U16(p.pkid))>> \o TopicPuts(p)).bytes)
  BY <1>1, <1>3, <1>4, ListFrame, Zenon
<1> QED
  BY <1>2, <1>5, Zenon

-----------------------------------------------------------------------------
(* A filter that is added level by level. *)
LEMMA SeparatedTyped ==
    ASSUME NEW f \in FilterSet
    PROVE  SeparatedBytes(f) \in Seq(Byte)
<1> DEFINE parts == Levels(f.path)
           strings == [i \in DOMAIN parts |->
                         IF i # Len(parts) THEN parts[i] \o <<Slash>> ELSE parts[i]]
           path == Separated(parts, <<Slash>>)
           g == [f EXCEPT !.path = path]
<1>1. parts \in Seq(Seq(Byte))
  BY FilterTyped, LevelsTyped, Zenon
<1> HIDE DEF parts
<1>2. strings \in Seq(Seq(Byte))
  <2>1. <<Slash>> \in Seq(Byte)
    BY DEF Slash, Byte
  <2>2. ASSUME NEW i \in DOMAIN parts
        PROVE  (IF i # Len(parts) THEN parts[i] \o <<Slash>> ELSE parts[i]) \in Seq(Byte)
    <3>1. parts[i] \in Seq(Byte)
      BY <1>1
    <3>2. parts[i] \o <<Slash>> \in Seq(Byte)
      BY <2>1, <3>1, ConcatTyped, Zenon
    <3> QED
      BY <3>1, <3>2
  <2>3. DOMAIN parts = 1..Len(parts) /\ Len(parts) \in Nat
    BY <1>1
  <2> QED
    BY <2>2, <2>3
<1>3. path \in Seq(Byte)
  <2>1. path = FlattenSeq(strings)
    BY Zenon DEF Separated
  <2> HIDE DEF strings, path
  <2> QED
    BY <1>2, <2>1, FlattenTyped, Zenon
<1> HIDE DEF path
<1>4. g.path = path /\ g.qos = f.qos
  BY DEF FilterSet
<1>5. SeparatedBytes(f) = MqttBytes(path) \o <<f.qos>>
  <2>1. SeparatedBytes(f) = FilterBytes(g)
    BY Zenon DEF SeparatedBytes, path, parts
  <2> HIDE DEF g
  <2> QED
    BY <1>4, <2>1, Zenon DEF FilterBytes
<1>6. <<f.qos>> \in Seq(Byte)
  <2>1. \A q \in 0..2 : q \in Byte
    BY DEF Byte
  <2> QED
    BY <2>1, FilterTyped
<1>7. MqttBytes(path) \in Seq(Byte)
  BY <1>3, MqttBytesTyped, Zenon
<1>8. MqttBytes(path) \o <<f.qos>> \in Seq(Byte)
  BY <1>6, <1>7, ConcatTyped, Zenon
<1> QED
  BY <1>5, <1>8, Zenon

(* The filters written level by level take the same bytes. *)
LEMMA PutsInPlace ==
    ASSUME NEW p \in PacketSet, p.type = "Subscribe", NEW texts \in AddedTexts(p)
    PROVE  [i \in DOMAIN p.filters |->
              IF Len(p.filters[i].path) > MaxWord THEN Fail("PayloadTooLong") ELSE Put(texts[i])]
           \in Seq(PutSet)
<1> DEFINE fs == p.filters
           a == [i \in DOMAIN fs |-> FilterBytes(fs[i])]
           b == [i \in DOMAIN fs |-> SeparatedBytes(fs[i])]
<1>1. fs \in Seq(FilterSet)
  BY SubscribeFields DEF FilterSet
<1>2. texts \in {a, b}
  <2>1. CASE p.pkid # 1
    BY <2>1, Zenon DEF AddedTexts
  <2>2. CASE p.pkid = 1
    BY <2>2, Zenon DEF AddedTexts
  <2> QED
    BY <2>1, <2>2
<1> HIDE DEF fs
<1>3. DOMAIN fs = 1..Len(fs) /\ Len(fs) \in Nat /\ \A i \in DOMAIN fs : fs[i] \in FilterSet
  BY <1>1
<1>4. ASSUME NEW i \in DOMAIN fs
      PROVE  texts[i] \in Seq(Byte)
  <2>1. CASE texts = a
    <3>1. FilterBytes(fs[i]) \in Seq(Byte)
      BY <1>3, FilterBytesTyped
    <3> QED
      BY <2>1, <3>1
  <2>2. CASE texts = b
    <3>1. SeparatedBytes(fs[i]) \in Seq(Byte)
      BY <1>3, SeparatedTyped
    <3> QED
      BY <2>2, <3>1
  <2> QED
    BY <1>2, <2>1, <2>2
<1>5. ASSUME NEW i \in DOMAIN fs
      PROVE  (IF Len(fs[i].path) > MaxWord THEN Fail("PayloadTooLong") ELSE Put(texts[i])) \in PutSet
  <2>1. "PayloadTooLong" \in PutErrors
    BY DEF PutErrors
  <2>2. Fail("PayloadTooLong") \in PutSet
    BY <2>1, PutTyped, Zenon
  <2>3. Put(texts[i]) \in PutSet
    BY <1>4, PutTyped, Zenon
  <2> QED
    BY <2>2, <2>3
<1> HIDE DEF a, b
<1>6. [i \in DOMAIN fs |->
         IF Len(fs[i].path) > MaxWord THEN Fail("PayloadTooLong") ELSE Put(texts[i])] \in Seq(PutSet)
  BY <1>3, <1>5
<1> QED
  BY <1>6 DEF fs

(* OutSubscribe, which writes its filters level by level. *)
LEMMA SubscribeInPlaceFrame ==
    ASSUME NEW cap \in Nat, NEW p \in PacketSet, p.type = "Subscribe", NEW texts \in AddedTexts(p),
           WriteSubscribeInPlace(p, texts, cap).error = "none"
    PROVE  IsFrame(WriteSubscribeInPlace(p, texts, cap).bytes)
<1> DEFINE puts == [i \in DOMAIN p.filters |->
                      IF Len(p.filters[i].path) > MaxWord
                      THEN Fail("PayloadTooLong") ELSE Put(texts[i])]
           filters == Write(cap, puts)
<1>1. puts \in Seq(PutSet)
  BY PutsInPlace
<1>2. PICK b1 : b1 = 130
  OBVIOUS
<1>3. PICK k : k = 7
  OBVIOUS
<1> DEFINE id == <<0, 1>>
           size == Len(filters.bytes)
           whole == Write(size + k, <<Put(<<b1>>), PutLength(size + 2), Put(id), filters>>)
<1>4. WriteSubscribeInPlace(p, texts, cap) = IF filters.error # "none" THEN filters ELSE whole
  BY <1>2, <1>3 DEF WriteSubscribeInPlace
<1> HIDE DEF puts
<1>5. filters.error = "none" /\ whole.error = "none" /\ WriteSubscribeInPlace(p, texts, cap) = whole
  <2> HIDE DEF whole, filters
  <2> QED
    BY <1>4
<1>6. filters \in PutSet
  BY <1>1, <1>5, WriteJoins, Zenon
<1> HIDE DEF filters
<1>7. filters.bytes \in Seq(Byte) /\ size \in Nat /\ size + k \in Nat /\ size + 2 \in Nat
  <2>1. filters.bytes \in Seq(Byte)
    BY <1>6 DEF PutSet
  <2> QED
    BY <1>3, <2>1
<1>8. id \in Seq(Byte) /\ Len(id) = 2 /\ b1 \in Byte
  BY <1>2 DEF Byte
<1> HIDE DEF id
<1> DEFINE c == Put(id)
           n == size + 2
<1>9. c \in PutSet /\ c.bytes = id
  BY <1>8, PutTyped, Zenon
<1> HIDE DEF c, size
<1>10. whole = Write(size + k, <<Put(<<b1>>), PutLength(n)>> \o <<c, filters>>)
  <2>1. <<Put(<<b1>>), PutLength(n), c, filters>> = <<Put(<<b1>>), PutLength(n)>> \o <<c, filters>>
    BY SMT
  <2> QED
    BY <2>1, Zenon DEF c, n
<1>11. <<c, filters>> \in Seq(PutSet)
  BY <1>6, <1>9, Pair, Zenon
<1> HIDE DEF n
<1>12. /\ Write(size + k, <<Put(<<b1>>), PutLength(n)>> \o <<c, filters>>).error = "none"
       /\ whole = Write(size + k, <<Put(<<b1>>), PutLength(n)>> \o <<c, filters>>)
  BY <1>5, <1>10, Zenon DEF c, n
<1>13. n \in Nat
  BY <1>7 DEF n
<1>14. Headed(b1, n, <<c, filters>>, whole.bytes)
  <2> HIDE DEF whole
  <2> QED
    BY <1>7, <1>8, <1>11, <1>12, <1>13, HeaderThenBody, Zenon
<1> HIDE DEF whole
<1>15. PICK rest \in Seq(Byte) :
           Joined(<<c, filters>>, rest) /\ whole.bytes = FrameBytes(b1, n, rest)
  BY <1>14, Zenon DEF Headed
<1>16. rest = id \o filters.bytes
  BY <1>6, <1>9, <1>15, JoinedTwo, Zenon
<1>17. Len(rest) = n
  <2>1. Len(id \o filters.bytes) = Len(id) + Len(filters.bytes)
    BY <1>7, <1>8, ConcatTyped
  <2> QED
    BY <1>7, <1>8, <1>16, <2>1 DEF n, size
<1>18. n <= MaxRemaining
  BY <1>14, Zenon DEF Headed
<1>19. IsFrame(FrameBytes(b1, n, rest))
  BY <1>8, <1>13, <1>17, <1>18, FrameBytesIsFrame, Zenon
<1> QED
  BY <1>5, <1>15, <1>19, Zenon

-----------------------------------------------------------------------------
(* The header of a publish that is written in place, in front of its body. *)
HeaderArea(b1, n) ==
    [i \in 1..HeaderRoom |->
        IF i <= 4 - LengthBytes(n) THEN 0
        ELSE IF i = (4 - LengthBytes(n)) + 1 THEN b1
        ELSE EncodeLength(n)[i - (4 - LengthBytes(n)) - 1]]

(* The place kept for the fixed header, with the header put at its end. *)
LEMMA FiveBytes ==
    ASSUME NEW h \in [1..5 -> Byte]
    PROVE  h \in Seq(Byte) /\ Len(h) = 5
<1>1. ASSUME NEW m \in Nat, NEW g \in [1..m -> Byte]
      PROVE  g \in Seq(Byte) /\ Len(g) = m
  OBVIOUS
<1>2. 5 \in Nat
  OBVIOUS
<1> QED
  BY <1>1, <1>2, Zenon

(* Header and body, once the unused bytes in front are left out. *)
LEMMA HeaderInFront ==
    ASSUME NEW b1 \in Byte, NEW n \in Nat, n <= MaxRemaining, NEW body \in Seq(Byte)
    PROVE  SubSeq(HeaderArea(b1, n) \o body, (4 - LengthBytes(n)) + 1, 5 + Len(body))
             = FrameBytes(b1, n, body)
<1> DEFINE k == LengthBytes(n)
           e == EncodeLength(n)
           h == HeaderArea(b1, n)
           s == 4 - k
           t == h \o body
           m == Len(body)
           r == SubSeq(t, s + 1, 5 + m)
           f == FrameBytes(b1, n, body)
<1>1. e \in Seq(Byte) /\ Len(e) = k /\ k \in 1..4
  BY EncodedBytes, LengthBytesRange
<1>2. /\ f \in Seq(Byte) /\ Len(f) = 1 + k + m /\ f[1] = b1
      /\ \A i \in 1..k : f[i + 1] = e[i]
      /\ \A i \in 1..m : f[1 + k + i] = body[i]
  <2>1. b1 \in Byte /\ n \in Nat /\ n <= MaxRemaining /\ body \in Seq(Byte)
    OBVIOUS
  <2> QED
    BY ONLY <2>1, FrameParts, SMT
<1> HIDE DEF f, e, k
<1>3. s \in 0..3 /\ s + 1 + k = 5
  BY <1>1
<1> HIDE DEF s
<1>4. /\ h \in Seq(Byte) /\ Len(h) = 5 /\ h[s + 1] = b1
      /\ \A i \in 1..k : h[s + 1 + i] = e[i]
  <2>1. h = [i \in 1..5 |-> IF i <= s THEN 0 ELSE IF i = s + 1 THEN b1 ELSE e[i - s - 1]]
    BY DEF HeaderArea, HeaderRoom, s, e, k
  <2>2. \A i \in 1..k : e[i] \in Byte
    BY <1>1
  <2>3. 0 \in Byte
    BY DEF Byte
  <2>4. ASSUME NEW i \in 1..5, ~(i <= s), i # s + 1
        PROVE  i - s - 1 \in 1..k
    BY <1>1, <1>3, <2>4
  <2>5. \A i \in 1..5 : (IF i <= s THEN 0 ELSE IF i = s + 1 THEN b1 ELSE e[i - s - 1]) \in Byte
    BY <2>2, <2>3, <2>4
  <2> HIDE DEF h
  <2>6. h \in Seq(Byte) /\ Len(h) = 5
    <3>1. h \in [1..5 -> Byte]
      BY <2>1, <2>5
    <3> QED
      BY <3>1, FiveBytes
  <2>7. h[s + 1] = b1
    BY <1>3, <2>1
  <2>8. ASSUME NEW i \in 1..k
        PROVE  h[s + 1 + i] = e[i]
    <3>1. s + 1 + i \in 1..5 /\ ~(s + 1 + i <= s) /\ s + 1 + i # s + 1 /\ (s + 1 + i) - s - 1 = i
      BY <1>1, <1>3
    <3> QED
      BY <2>1, <3>1
  <2> QED
    BY <2>6, <2>7, <2>8
<1> HIDE DEF h, m
<1>5. m \in Nat /\ m = Len(body)
  BY DEF m
<1>6. /\ t \in Seq(Byte) /\ Len(t) = 5 + m
      /\ \A i \in 1..5 : t[i] = h[i]
      /\ \A i \in 1..m : t[5 + i] = body[i]
  <2>1. /\ t \in Seq(Byte) /\ Len(t) = Len(h) + Len(body)
        /\ \A i \in 1..Len(h) : t[i] = h[i]
        /\ \A i \in 1..Len(body) : t[Len(h) + i] = body[i]
    BY <1>4, ConcatPlaces, Zenon
  <2> HIDE DEF t
  <2> QED
    BY <1>4, <1>5, <2>1
<1> HIDE DEF t
<1>7. /\ r \in Seq(Byte) /\ Len(r) = 1 + k + m
      /\ \A i \in 1..(1 + k + m) : r[i] = t[s + i]
  <2>1. s + 1 \in 1..(Len(t) + 1) /\ 5 + m \in s..Len(t) /\ (5 + m) - (s + 1) + 1 = 1 + k + m
    BY <1>1, <1>3, <1>5, <1>6
  <2>2. r \in Seq(Byte) /\ Len(r) = 1 + k + m
    BY <1>1, <1>3, <1>5, <1>6
  <2>3. \A i \in 1..(1 + k + m) : r[i] = t[s + i]
    BY <1>1, <1>3, <1>5, <1>6
  <2> QED
    BY <2>2, <2>3
<1> HIDE DEF r
<1>8. ASSUME NEW i \in 1..(1 + k + m)
      PROVE  r[i] = f[i]
  <2>1. CASE i = 1
    <3>1. r[1] = t[s + 1] /\ s + 1 \in 1..5
      BY <1>1, <1>3, <1>5, <1>7
    <3> QED
      BY <1>2, <1>4, <1>6, <2>1, <3>1
  <2>2. CASE i \in 2..(1 + k)
    <3>1. PICK j \in 1..k : i = j + 1
      <4>1. i - 1 \in 1..k /\ i = (i - 1) + 1
        BY <1>1, <2>2
      <4> QED
        BY <4>1
    <3>2. s + i = s + 1 + j /\ s + i \in 1..5
      BY <1>1, <1>3, <3>1
    <3>3. r[i] = h[s + 1 + j]
      BY <1>6, <1>7, <3>2
    <3> QED
      BY <1>2, <1>4, <3>1, <3>3
  <2>3. CASE i \in (2 + k)..(1 + k + m)
    <3>1. PICK j \in 1..m : i = 1 + k + j
      <4>1. i - 1 - k \in 1..m /\ i = 1 + k + (i - 1 - k)
        BY <1>1, <1>5, <2>3
      <4> QED
        BY <4>1
    <3>2. s + i = 5 + j
      BY <1>1, <1>3, <1>5, <3>1
    <3>3. r[i] = body[j]
      BY <1>6, <1>7, <3>2
    <3> QED
      BY <1>2, <3>1, <3>3
  <2> QED
    BY <1>1, <1>5, <2>1, <2>2, <2>3
<1>9. r = f
  BY <1>1, <1>2, <1>5, <1>7, <1>8, SeqEqual
<1> QED
  BY <1>9 DEF r, t, f, h, s, m, k

(* The body of a publish that is written in place, before and after the    *)
(* length of the topic is known.                                           *)
TwoSet(a, b, x, y) ==
    /\ b \in Seq(Byte) /\ Len(b) = Len(a)
    /\ b[1] = x /\ b[2] = y
    /\ \A i \in 3..Len(a) : b[i] = a[i]

(* Two bytes are replaced, the others stay. *)
LEMMA ExceptTwo ==
    ASSUME NEW a \in Seq(Byte), Len(a) >= 2, NEW x \in Byte, NEW y \in Byte,
           NEW b, b = [a EXCEPT ![1] = x, ![2] = y]
    PROVE  TwoSet(a, b, x, y)
<1> DEFINE n == Len(a)
<1>1. n \in Nat /\ a \in [1..n -> Byte] /\ 1 \in 1..n /\ 2 \in 1..n
  OBVIOUS
<1> HIDE DEF n
<1>2. b \in [1..n -> Byte]
  BY <1>1
<1>3. b[1] = x /\ b[2] = y /\ \A i \in 3..n : b[i] = a[i]
  BY <1>1
<1>4. b \in Seq(Byte) /\ Len(b) = n
  BY <1>1, <1>2
<1> QED
  BY <1>3, <1>4 DEF n, TwoSet

(* The length of the topic is written over the two bytes kept for it. *)
LEMMA PatchedBytes ==
    ASSUME NEW t \in Seq(Byte), NEW u \in Seq(Byte), Len(u) = 2
    PROVE  [<<0, 0>> \o t EXCEPT ![1] = u[1], ![2] = u[2]] = u \o t
<1> DEFINE z == <<0, 0>>
           a == z \o t
           b == [a EXCEPT ![1] = u[1], ![2] = u[2]]
           c == u \o t
<1>1. z \in Seq(Byte) /\ Len(z) = 2
  BY DEF Byte
<1> HIDE DEF z
<1>2. /\ a \in Seq(Byte) /\ Len(a) = Len(z) + Len(t)
      /\ \A i \in 1..Len(t) : a[Len(z) + i] = t[i]
  BY <1>1, ConcatPlaces, Zenon
<1>3. /\ c \in Seq(Byte) /\ Len(c) = Len(u) + Len(t)
      /\ \A i \in 1..Len(u) : c[i] = u[i]
      /\ \A i \in 1..Len(t) : c[Len(u) + i] = t[i]
  BY ConcatPlaces, Zenon
<1>4. u[1] \in Byte /\ u[2] \in Byte
  OBVIOUS
<1> HIDE DEF a, c
<1>5. Len(t) \in Nat
  OBVIOUS
<1>6. /\ b \in Seq(Byte) /\ Len(b) = 2 + Len(t)
      /\ b[1] = u[1] /\ b[2] = u[2]
      /\ \A i \in 1..Len(t) : b[2 + i] = a[2 + i]
  <2>1. Len(a) = 2 + Len(t)
    BY <1>1, <1>2
  <2>2. /\ b \in Seq(Byte) /\ Len(b) = Len(a)
        /\ b[1] = u[1] /\ b[2] = u[2]
        /\ \A i \in 3..Len(a) : b[i] = a[i]
    <3>1. Len(a) >= 2
      BY <1>5, <2>1
    <3>2. b = [a EXCEPT ![1] = u[1], ![2] = u[2]]
      OBVIOUS
    <3> HIDE DEF b
    <3>3. TwoSet(a, b, u[1], u[2])
      BY <1>2, <1>4, <3>1, <3>2, ExceptTwo, Zenon
    <3> QED
      BY <3>3 DEF TwoSet
  <2>3. \A i \in 1..Len(t) : 2 + i \in 3..Len(a)
    BY <1>5, <2>1
  <2> QED
    BY <2>1, <2>2, <2>3
<1> HIDE DEF b
<1>7. ASSUME NEW i \in 1..(2 + Len(t))
      PROVE  b[i] = c[i]
  <2>1. CASE i \in {1, 2}
    BY <1>3, <1>6, <2>1
  <2>2. CASE i \in 3..(2 + Len(t))
    <3>1. PICK j \in 1..Len(t) : i = 2 + j
      <4>1. i - 2 \in 1..Len(t) /\ i = 2 + (i - 2)
        BY <1>5, <2>2
      <4> QED
        BY <4>1
    <3> QED
      BY <1>1, <1>2, <1>3, <1>6, <3>1
  <2> QED
    BY <1>5, <2>1, <2>2
<1>8. b = c
  BY <1>3, <1>5, <1>6, <1>7, SeqEqual
<1> QED
  BY <1>8 DEF b, c, a, z

(* The body OutPublish::write fills in, before and after it is patched. *)
InPlaceRest(p) == PkidBytes(p) \o p.payload

InPlaceBody(p, strings) == MqttBytes(FlattenSeq(strings)) \o InPlaceRest(p)

InPlace(p, strings, body) ==
    /\ Len(FlattenSeq(strings)) <= MaxWord
    /\ p.qos # 0 => p.pkid # 0
    /\ body.bytes = <<0, 0>> \o (FlattenSeq(strings) \o InPlaceRest(p))

(* The body an OutPublish leaves behind its five bytes. *)
LEMMA InPlaceTyped ==
    ASSUME NEW p \in PacketSet, p.type = "Publish", NEW strings \in Seq(Seq(Byte))
    PROVE  /\ FlattenSeq(strings) \in Seq(Byte)
           /\ InPlaceRest(p) \in Seq(Byte)
           /\ FlattenSeq(strings) \o InPlaceRest(p) \in Seq(Byte)
           /\ InPlaceBody(p, strings) \in Seq(Byte)
           /\ InPlaceBody(p, strings) =
                 U16(Len(FlattenSeq(strings))) \o (FlattenSeq(strings) \o InPlaceRest(p))
<1> DEFINE flat == FlattenSeq(strings)
           rest == InPlaceRest(p)
           u == U16(Len(flat))
<1>1. flat \in Seq(Byte) /\ Len(flat) \in Nat
  BY FlattenTyped, Zenon
<1>2. PkidBytes(p) \in Seq(Byte) /\ p.payload \in Seq(Byte)
  <2>1. << >> \in Seq(Byte)
    OBVIOUS
  <2>2. U16(p.pkid) \in Seq(Byte) /\ p.payload \in Seq(Byte)
    BY PublishTyped, CastLength
  <2> QED
    BY <2>1, <2>2 DEF PkidBytes
<1>3. rest \in Seq(Byte)
  BY <1>2, ConcatTyped, Zenon DEF InPlaceRest
<1>4. u \in Seq(Byte)
  BY <1>1, CastLength, Zenon
<1> HIDE DEF flat, rest, u
<1>5. flat \o rest \in Seq(Byte)
  BY <1>1, <1>3, ConcatTyped, Zenon
<1>6. u \o (flat \o rest) \in Seq(Byte)
  BY <1>4, <1>5, ConcatTyped, Zenon
<1>7. (u \o flat) \o rest = u \o (flat \o rest)
  BY <1>1, <1>3, <1>4, BytesAssoc, Zenon
<1>8. InPlaceBody(p, strings) = (u \o flat) \o rest
  BY Zenon DEF InPlaceBody, MqttBytes, u, flat, rest
<1> QED
  BY <1>1, <1>3, <1>5, <1>6, <1>7, <1>8 DEF u, flat, rest

(* A topic written string by string. *)
LEMMA StringPuts ==
    ASSUME NEW strings \in Seq(Seq(Byte))
    PROVE  [i \in DOMAIN strings |-> Put(strings[i])] \in Seq(PutSet)
<1>1. DOMAIN strings = 1..Len(strings) /\ Len(strings) \in Nat
  OBVIOUS
<1>2. ASSUME NEW i \in DOMAIN strings
      PROVE  Put(strings[i]) \in PutSet
  <2>1. strings[i] \in Seq(Byte)
    OBVIOUS
  <2> QED
    BY <2>1, PutTyped, Zenon
<1> QED
  BY <1>1, <1>2

(* What the callbacks write, once the topic's length is patched. *)
LEMMA OutPublishBodyWritten ==
    ASSUME NEW cap \in Nat, NEW p \in PacketSet, p.type = "Publish",
           NEW strings \in Seq(Seq(Byte)), OutPublishBody(p, strings, cap).error = "none"
    PROVE  InPlace(p, strings, OutPublishBody(p, strings, cap))
<1> DEFINE flat == FlattenSeq(strings)
           topic == [i \in DOMAIN strings |-> Put(strings[i])]
           a == Put(<<0, 0>>)
           b == IF Len(flat) > MaxWord THEN Fail("PayloadTooLong") ELSE Put(<< >>)
           c == PutPkid(p)
           d == Put(p.payload)
           first == <<a>> \o topic
           last == <<b, c, d>>
           body == OutPublishBody(p, strings, cap)
<1>1. flat \in Seq(Byte) /\ Len(flat) \in Nat
  BY FlattenTyped, Zenon
<1>2. topic \in Seq(PutSet)
  BY StringPuts
<1>3. a \in PutSet /\ a.bytes = <<0, 0>>
  <2>1. <<0, 0>> \in Seq(Byte)
    BY DEF Byte
  <2> QED
    BY <2>1, PutTyped, Zenon
<1>4. b \in PutSet /\ (b.error = "none" => Len(flat) <= MaxWord /\ b.bytes = << >>)
  <2>1. "PayloadTooLong" \in PutErrors /\ "PayloadTooLong" # "none" /\ << >> \in Seq(Byte)
    BY DEF PutErrors
  <2>2. Fail("PayloadTooLong") \in PutSet /\ Fail("PayloadTooLong").error # "none"
    BY <2>1, PutTyped, Zenon
  <2>3. Put(<< >>) \in PutSet /\ Put(<< >>).bytes = << >>
    BY <2>1, PutTyped, Zenon
  <2> HIDE DEF flat
  <2>4. CASE Len(flat) > MaxWord
    BY <2>2, <2>4
  <2>5. CASE ~(Len(flat) > MaxWord)
    <3>1. Len(flat) <= MaxWord
      <4>1. Len(flat) \in Nat
        BY <1>1
      <4> QED
        BY ONLY <2>5, <4>1, MaxWordIsNat, SMT
    <3> QED
      BY <2>3, <2>5, <3>1, Zenon
  <2> QED
    BY <2>4, <2>5
<1>5. c \in PutSet /\ (c.error = "none" => (p.qos # 0 => p.pkid # 0) /\ c.bytes = PkidBytes(p))
  BY PutPkidTyped, Zenon
<1>6. d \in PutSet /\ d.bytes = p.payload
  <2>1. p.payload \in Seq(Byte)
    BY PublishTyped
  <2> QED
    BY <2>1, PutTyped, Zenon
<1>7. body = Write(cap, first \o last)
  BY DEF OutPublishBody
<1> HIDE DEF topic, a, b, c, d, flat, body
<1>8. <<a>> \in Seq(PutSet) /\ last \in Seq(PutSet) /\ first \in Seq(PutSet) /\ first \o last \in Seq(PutSet)
  <2>1. <<a>> \in Seq(PutSet)
    BY <1>3
  <2>2. last \in Seq(PutSet)
    BY <1>4, <1>5, <1>6, Triple, Zenon
  <2>3. first \in Seq(PutSet)
    BY <1>2, <2>1, PutsTyped, Zenon
  <2>4. first \o last \in Seq(PutSet)
    BY <2>2, <2>3, PutsTyped, Zenon
  <2> QED
    BY <2>1, <2>2, <2>3, <2>4
<1>9. Joined(first \o last, body.bytes)
  <2>1. Write(cap, first \o last).error = "none"
    BY <1>7, Zenon DEF body
  <2>2. Joined(first \o last, Write(cap, first \o last).bytes)
    BY <1>8, <2>1, WriteJoins, Zenon
  <2> QED
    BY <1>7, <2>2, Zenon
<1>10. PICK x, y \in Seq(Byte) : Joined(first, x) /\ Joined(last, y) /\ body.bytes = x \o y
  <2>1. Splits(first, last, body.bytes)
    BY <1>8, <1>9, JoinedSplit, Zenon
  <2> QED
    BY <2>1, Zenon DEF Splits
<1>11. PICK z \in Seq(Byte) : Joined(topic, z) /\ x = a.bytes \o z
  <2>1. FirstThen(a, topic, x)
    BY <1>2, <1>3, <1>10, JoinedCons, Zenon
  <2> QED
    BY <2>1, Zenon DEF FirstThen
<1>12. z = flat
  BY <1>11, FlattenJoined, Zenon DEF topic, flat
<1>13. b.error = "none" /\ c.error = "none" /\ y = b.bytes \o (c.bytes \o d.bytes)
  BY <1>4, <1>5, <1>6, <1>10, JoinedThree, Zenon
<1>14. y = InPlaceRest(p)
  <2>1. y = << >> \o (PkidBytes(p) \o p.payload)
    BY <1>4, <1>5, <1>6, <1>13, Zenon
  <2>2. y = << >> \o InPlaceRest(p)
    BY <2>1, Zenon DEF InPlaceRest
  <2>3. InPlaceRest(p) \in Seq(Byte)
    BY InPlaceTyped, Zenon
  <2> QED
    BY <2>2, <2>3, ConcatEmptySeq
<1>15. body.bytes = <<0, 0>> \o (flat \o InPlaceRest(p))
  <2> DEFINE o == <<0, 0>>
             r == InPlaceRest(p)
  <2>1. o \in Seq(Byte)
    BY DEF Byte
  <2>2. body.bytes = (o \o flat) \o r
    BY <1>3, <1>10, <1>11, <1>12, <1>14, Zenon
  <2>3. r \in Seq(Byte)
    BY InPlaceTyped, Zenon
  <2> HIDE DEF o, r
  <2>4. (o \o flat) \o r = o \o (flat \o r)
    BY <1>1, <2>1, <2>3, BytesAssoc, ZenonT(60)
  <2>5. body.bytes = o \o (flat \o r)
    BY <2>2, <2>4, Zenon
  <2> QED
    BY <2>5 DEF o, r
<1>16. Len(flat) <= MaxWord /\ (p.qos # 0 => p.pkid # 0)
  BY <1>4, <1>5, <1>13
<1> QED
  BY <1>15, <1>16 DEF InPlace, flat, body

(* OutPublish::write. *)
LEMMA OutPublishFrame ==
    ASSUME NEW cap \in Nat, NEW p \in PacketSet, p.type = "Publish",
           NEW strings \in Seq(Seq(Byte)), WriteOutPublish(p, strings, cap).error = "none"
    PROVE  /\ Len(InPlaceBody(p, strings)) <= MaxRemaining
           /\ Len(FlattenSeq(strings)) <= MaxWord
           /\ p.qos # 0 => p.pkid # 0
           /\ WriteOutPublish(p, strings, cap).bytes =
                 FrameBytes(PublishByte1(p), Len(InPlaceBody(p, strings)), InPlaceBody(p, strings))
<1> DEFINE flat == FlattenSeq(strings)
           room == cap - HeaderRoom
           body == OutPublishBody(p, strings, room)
           n == Len(body.bytes)
           b1 == PublishByte1(p)
           u == U16(Len(flat))
           t == flat \o InPlaceRest(p)
           patched == [body.bytes EXCEPT ![1] = u[1], ![2] = u[2]]
           s == 4 - Len(EncodeLength(n))
           header == [i \in 1..HeaderRoom |-> IF i <= s THEN 0
                                              ELSE IF i = s + 1 THEN b1
                                              ELSE EncodeLength(n)[i - s - 1]]
           whole == SubSeq(header \o patched, s + 1, 1 + s + Len(EncodeLength(n)) + n)
           out == WriteOutPublish(p, strings, cap)
<1>1. out = IF cap < HeaderRoom THEN Fail("panic")
            ELSE IF body.error # "none" THEN body
            ELSE IF n > MaxRemaining THEN Fail("PayloadTooLong")
            ELSE Put(whole)
  BY Zenon DEF WriteOutPublish
<1>2. Fail("panic").error # "none" /\ Fail("PayloadTooLong").error # "none"
  BY DEF Fail
<1>3. out.error = "none"
  OBVIOUS
<1>4. ~(cap < HeaderRoom) /\ body.error = "none" /\ ~(n > MaxRemaining) /\ out = Put(whole)
  <2> HIDE DEF out, body, whole, n
  <2> QED
    BY <1>1, <1>2, <1>3
<1>5. room \in Nat
  BY <1>4 DEF HeaderRoom
<1> HIDE DEF out, room
<1>6. InPlace(p, strings, body)
  BY <1>4, <1>5, OutPublishBodyWritten, Zenon
<1> HIDE DEF body
<1>7. flat \in Seq(Byte) /\ Len(flat) \in Nat /\ t \in Seq(Byte) /\ InPlaceBody(p, strings) = u \o t
  BY InPlaceTyped, FlattenTyped, Zenon
<1>8. u \in Seq(Byte) /\ Len(u) = 2
  BY <1>7, CastLength, Zenon
<1> HIDE DEF u, t, flat
<1>9. body.bytes = <<0, 0>> \o t /\ Len(flat) <= MaxWord /\ (p.qos # 0 => p.pkid # 0)
  BY <1>6, Zenon DEF InPlace, t, flat
<1>10. patched = u \o t
  <2>1. [<<0, 0>> \o t EXCEPT ![1] = u[1], ![2] = u[2]] = u \o t
    BY <1>7, <1>8, PatchedBytes, Zenon
  <2> QED
    BY <1>9, <2>1, Zenon
<1>11. u \o t \in Seq(Byte) /\ Len(u \o t) = n /\ n \in Nat
  <2>1. u \o t \in Seq(Byte) /\ Len(u \o t) = Len(u) + Len(t)
    BY <1>7, <1>8, ConcatTyped, Zenon
  <2>2. <<0, 0>> \in Seq(Byte) /\ Len(<<0, 0>>) = 2
    BY DEF Byte
  <2>3. Len(<<0, 0>> \o t) = Len(<<0, 0>>) + Len(t)
    BY <1>7, <2>2, ConcatTyped
  <2>4. Len(t) \in Nat
    BY <1>7
  <2> QED
    BY <1>8, <1>9, <2>1, <2>2, <2>3, <2>4
<1> HIDE DEF n, patched
<1>12. n <= MaxRemaining
  BY <1>4, <1>11, SMT DEF MaxRemaining
<1>13. Len(EncodeLength(n)) = LengthBytes(n) /\ LengthBytes(n) \in 1..4
  BY <1>11, <1>12, EncodedBytes, LengthBytesRange
<1>14. header = HeaderArea(b1, n)
  BY <1>13, Zenon DEF HeaderArea
<1> HIDE DEF header
<1>15. 1 + s + Len(EncodeLength(n)) + n = 5 + n
  BY <1>11, <1>13
<1>16. whole = SubSeq(HeaderArea(b1, n) \o (u \o t), (4 - LengthBytes(n)) + 1, 5 + n)
  BY <1>10, <1>13, <1>14, <1>15, Zenon
<1>17. b1 \in Byte
  BY PublishTyped
<1> HIDE DEF whole, b1
<1>18. whole = FrameBytes(b1, n, u \o t)
  <2>1. n = Len(u \o t)
    BY <1>11
  <2>2. SubSeq(HeaderArea(b1, n) \o (u \o t), (4 - LengthBytes(n)) + 1, 5 + Len(u \o t)) = FrameBytes(b1, n, u \o t)
    BY <1>11, <1>12, <1>17, HeaderInFront, Zenon
  <2> QED
    BY <1>16, <2>1, <2>2, Zenon
<1>19. out.bytes = whole
  BY <1>4 DEF Put
<1> QED
  BY <1>7, <1>9, <1>11, <1>12, <1>18, <1>19, Zenon DEF out, b1, flat

-----------------------------------------------------------------------------
(* Connect. *)
Only(puts, bytes) == \A x : Joined(puts, x) => x = bytes

WillPuts(p) == IF p.last_will = << >> THEN << >> ELSE PutWill(p.last_will[1])

LoginPuts(p) == IF p.login = << >> THEN << >> ELSE PutLogin(p.login[1])

WillBytes(p) ==
    IF p.last_will = << >> THEN << >>
    ELSE MqttBytes(p.last_will[1].topic) \o MqttBytes(p.last_will[1].message)

OptionBytes(s) == IF s = << >> THEN << >> ELSE MqttBytes(s)

LoginBytes(p) ==
    IF p.login = << >> THEN << >>
    ELSE OptionBytes(p.login[1].username) \o OptionBytes(p.login[1].password)

(* An Option holds nothing or one value. *)
LEMMA OptionalFirst ==
    ASSUME NEW S, NEW o \in Optional(S), o # << >>
    PROVE  o[1] \in S /\ o = <<o[1]>>
<1>1. o \in Seq(S) /\ Len(o) <= 1
  BY DEF Optional
<1>2. Len(o) = 1
  <2>1. Len(o) \in Nat \ {0}
    BY <1>1, EmptySeq, Zenon
  <2>2. \A n \in Nat \ {0} : n <= 1 => n = 1
    OBVIOUS
  <2> QED
    BY <1>1, <2>1, <2>2, Zenon
<1> QED
  BY <1>1, <1>2

(* The last will of a Connect, if there is one. *)
LEMMA WillWritten ==
    ASSUME NEW p \in PacketSet, p.type = "Connect"
    PROVE  /\ WillPuts(p) \in Seq(PutSet)
           /\ WillBytes(p) \in Seq(Byte)
           /\ Len(WillBytes(p)) = IF p.last_will = << >> THEN 0 ELSE WillLen(p.last_will[1])
           /\ Only(WillPuts(p), WillBytes(p))
<1>1. p.last_will \in Optional(WillSet)
  BY ConnectFields
<1>2. CASE p.last_will = << >>
  <2>1. /\ << >> \in Seq(PutSet) /\ << >> \in Seq(Byte) /\ Len(<< >>) = 0
        /\ WillPuts(p) = << >> /\ WillBytes(p) = << >>
    BY <1>2 DEF WillPuts, WillBytes
  <2>2. Only(<< >>, << >>)
    BY JoinedNone, Zenon DEF Only
  <2> QED
    BY <1>2, <2>1, <2>2
<1>3. CASE p.last_will # << >>
  <2> DEFINE w == p.last_will[1]
             a == Put(MqttBytes(w.topic))
             b == Put(MqttBytes(w.message))
  <2>1. w.topic \in Text /\ w.message \in Seq(Byte)
    <3>1. w \in WillSet
      BY <1>1, <1>3, OptionalFirst
    <3> HIDE DEF w
    <3> QED
      BY <3>1 DEF WillSet
  <2>2. WillPuts(p) = <<a, b>> /\ WillBytes(p) = MqttBytes(w.topic) \o MqttBytes(w.message)
    BY <1>3 DEF WillPuts, WillBytes, PutWill
  <2>3. WillLen(w) = 2 + Len(w.topic) + 2 + Len(w.message)
    BY DEF WillLen
  <2> HIDE DEF w
  <2>4. w.topic \in Seq(Byte) /\ Len(w.topic) \in Nat /\ Len(w.message) \in Nat
    BY <2>1, TextIsBytes
  <2>5. /\ MqttBytes(w.topic) \in Seq(Byte) /\ Len(MqttBytes(w.topic)) = 2 + Len(w.topic)
        /\ MqttBytes(w.message) \in Seq(Byte) /\ Len(MqttBytes(w.message)) = 2 + Len(w.message)
    BY <2>1, <2>4, MqttBytesTyped, Zenon
  <2>6. /\ a \in PutSet /\ a.bytes = MqttBytes(w.topic)
        /\ b \in PutSet /\ b.bytes = MqttBytes(w.message)
    BY <2>5, PutTyped, Zenon
  <2> HIDE DEF a, b
  <2>7. <<a, b>> \in Seq(PutSet)
    BY <2>6, Pair, Zenon
  <2>8. ASSUME NEW bytes, Joined(<<a, b>>, bytes)
        PROVE  bytes = MqttBytes(w.topic) \o MqttBytes(w.message)
    BY <2>6, <2>8, JoinedTwo, Zenon
  <2>9. /\ MqttBytes(w.topic) \o MqttBytes(w.message) \in Seq(Byte)
        /\ Len(MqttBytes(w.topic) \o MqttBytes(w.message)) =
              Len(MqttBytes(w.topic)) + Len(MqttBytes(w.message))
    BY <2>5, ConcatTyped, Zenon
  <2>10. Len(MqttBytes(w.topic) \o MqttBytes(w.message)) = WillLen(w)
    <3>1. \A x, y \in Nat : (2 + x) + (2 + y) = 2 + x + 2 + y
      OBVIOUS
    <3> QED
      BY <2>3, <2>4, <2>5, <2>9, <3>1, Zenon
  <2>11. /\ WillPuts(p) \in Seq(PutSet) /\ WillBytes(p) \in Seq(Byte)
         /\ Len(WillBytes(p)) = WillLen(w)
    BY <2>2, <2>7, <2>9, <2>10, Zenon
  <2>12. Only(WillPuts(p), WillBytes(p))
    BY <2>2, <2>8, Zenon DEF Only
  <2> QED
    BY <1>3, <2>11, <2>12 DEF w
<1> QED
  BY <1>2, <1>3, Zenon

(* A part of the login, if it is not empty. *)
LEMMA OptionWritten ==
    ASSUME NEW s \in Seq(Byte)
    PROVE  /\ Option(s # << >>, Put(MqttBytes(s))) \in Seq(PutSet)
           /\ OptionBytes(s) \in Seq(Byte)
           /\ Len(OptionBytes(s)) = IF s = << >> THEN 0 ELSE 2 + Len(s)
           /\ Only(Option(s # << >>, Put(MqttBytes(s))), OptionBytes(s))
<1>1. CASE s = << >>
  <2>1. /\ << >> \in Seq(PutSet) /\ << >> \in Seq(Byte) /\ Len(<< >>) = 0
        /\ Option(s # << >>, Put(MqttBytes(s))) = << >> /\ OptionBytes(s) = << >>
    BY <1>1 DEF Option, OptionBytes
  <2>6. Len(OptionBytes(s)) = 0
    BY <2>1, Zenon
  <2>2. Only(<< >>, << >>)
    BY JoinedNone, Zenon DEF Only
  <2>3. Len(OptionBytes(s)) = IF s = << >> THEN 0 ELSE 2 + Len(s)
    BY <1>1, <2>6
  <2>4. Only(Option(s # << >>, Put(MqttBytes(s))), OptionBytes(s))
    BY <2>1, <2>2, Zenon
  <2>5. Option(s # << >>, Put(MqttBytes(s))) \in Seq(PutSet) /\ OptionBytes(s) \in Seq(Byte)
    BY <2>1, Zenon
  <2> QED
    BY <2>3, <2>4, <2>5, Zenon
<1>2. CASE s # << >>
  <2> DEFINE a == Put(MqttBytes(s))
             o == Option(s # << >>, a)
  <2>1. MqttBytes(s) \in Seq(Byte) /\ Len(MqttBytes(s)) = 2 + Len(s)
    BY MqttBytesTyped, Zenon
  <2>2. a \in PutSet /\ a.bytes = MqttBytes(s)
    BY <2>1, PutTyped, Zenon
  <2> HIDE DEF a
  <2>3. o = <<a>> /\ OptionBytes(s) = MqttBytes(s)
    BY <1>2 DEF Option, OptionBytes
  <2>4. <<a>> \in Seq(PutSet)
    BY <2>2
  <2>5. ASSUME NEW bytes, Joined(<<a>>, bytes)
        PROVE  bytes = MqttBytes(s)
    BY <2>2, <2>5, JoinedOne, Zenon
  <2> HIDE DEF o
  <2>6. o \in Seq(PutSet) /\ Only(o, OptionBytes(s))
    BY <2>3, <2>4, <2>5, Zenon DEF Only
  <2>7. OptionBytes(s) \in Seq(Byte) /\ Len(OptionBytes(s)) = IF s = << >> THEN 0 ELSE 2 + Len(s)
    BY <1>2, <2>1, <2>3
  <2> QED
    BY <2>6, <2>7 DEF o, a
<1> QED
  BY <1>1, <1>2, Zenon

(* The login of a Connect, if there is one. *)
LEMMA LoginWritten ==
    ASSUME NEW p \in PacketSet, p.type = "Connect"
    PROVE  /\ LoginPuts(p) \in Seq(PutSet)
           /\ LoginBytes(p) \in Seq(Byte)
           /\ Len(LoginBytes(p)) = IF p.login = << >> THEN 0 ELSE LoginLen(p.login[1])
           /\ Only(LoginPuts(p), LoginBytes(p))
<1>1. p.login \in Optional(LoginSet)
  BY ConnectFields
<1>2. CASE p.login = << >>
  <2>1. /\ << >> \in Seq(PutSet) /\ << >> \in Seq(Byte) /\ Len(<< >>) = 0
        /\ LoginPuts(p) = << >> /\ LoginBytes(p) = << >>
    BY <1>2 DEF LoginPuts, LoginBytes
  <2>2. Only(<< >>, << >>)
    BY JoinedNone, Zenon DEF Only
  <2> QED
    BY <1>2, <2>1, <2>2
<1>3. CASE p.login # << >>
  <2> DEFINE l == p.login[1]
             u == l.username
             v == l.password
             a == Option(u # << >>, Put(MqttBytes(u)))
             b == Option(v # << >>, Put(MqttBytes(v)))
             x == OptionBytes(u)
             y == OptionBytes(v)
  <2>1. u \in Seq(Byte) /\ v \in Seq(Byte)
    <3>1. l \in LoginSet
      BY <1>1, <1>3, OptionalFirst
    <3>2. u \in Text /\ v \in Seq(Byte)
      <4> HIDE DEF l
      <4> QED
        BY <3>1 DEF LoginSet
    <3> QED
      BY <3>2, TextIsBytes, Zenon
  <2>2. LoginPuts(p) = a \o b /\ LoginBytes(p) = x \o y
    BY <1>3 DEF LoginPuts, LoginBytes, PutLogin
  <2>3. LoginLen(l) = (IF u = << >> THEN 0 ELSE 2 + Len(u)) + (IF v = << >> THEN 0 ELSE 2 + Len(v))
    BY DEF LoginLen
  <2> HIDE DEF u, v
  <2>4. /\ a \in Seq(PutSet) /\ x \in Seq(Byte)
        /\ Len(x) = IF u = << >> THEN 0 ELSE 2 + Len(u)
        /\ Only(a, x)
    BY <2>1, OptionWritten, Zenon
  <2>5. /\ b \in Seq(PutSet) /\ y \in Seq(Byte)
        /\ Len(y) = IF v = << >> THEN 0 ELSE 2 + Len(v)
        /\ Only(b, y)
    BY <2>1, OptionWritten, Zenon
  <2> HIDE DEF a, b, x, y, l
  <2>6. a \o b \in Seq(PutSet)
    BY <2>4, <2>5, PutsTyped, Zenon
  <2>7. x \o y \in Seq(Byte) /\ Len(x \o y) = Len(x) + Len(y)
    BY <2>4, <2>5, ConcatTyped, Zenon
  <2>8. ASSUME NEW bytes, Joined(a \o b, bytes)
        PROVE  bytes = x \o y
    <3>1. Splits(a, b, bytes)
      BY <2>4, <2>5, <2>8, JoinedSplit, Zenon
    <3>2. PICK s, t \in Seq(Byte) : Joined(a, s) /\ Joined(b, t) /\ bytes = s \o t
      BY <3>1, Zenon DEF Splits
    <3> QED
      BY <2>4, <2>5, <3>2, Zenon DEF Only
  <2>9. Len(x \o y) = LoginLen(l)
    BY <2>3, <2>4, <2>5, <2>7, Zenon
  <2>10. /\ LoginPuts(p) \in Seq(PutSet) /\ LoginBytes(p) \in Seq(Byte)
         /\ Len(LoginBytes(p)) = LoginLen(l)
    BY <2>2, <2>6, <2>7, <2>9, Zenon
  <2>11. Only(LoginPuts(p), LoginBytes(p))
    BY <2>2, <2>8, Zenon DEF Only
  <2> QED
    BY <1>3, <2>10, <2>11 DEF l
<1> QED
  BY <1>2, <1>3, Zenon

(* The flags of a Connect fit in a byte. *)
LEMMA ConnectFlagsTyped ==
    ASSUME NEW p \in PacketSet, p.type = "Connect"
    PROVE  ConnectFlags(p) \in Byte
<1>1. p.last_will \in Optional(WillSet) /\ p.login \in Optional(LoginSet) /\ p.clean_session \in BOOLEAN
  BY ConnectFields
<1> DEFINE x == Flag(p.clean_session, 2)
           y == IF p.last_will = << >> THEN 0 ELSE WillFlags(p.last_will[1])
           z == IF p.login = << >> THEN 0 ELSE LoginFlags(p.login[1])
<1>2. x \in {0, 2}
  BY <1>1 DEF Flag
<1>3. y \in 0..52
  <2>1. CASE p.last_will = << >>
    BY <2>1
  <2>2. CASE p.last_will # << >>
    <3> DEFINE w == p.last_will[1]
    <3>1. w \in WillSet
      BY <1>1, <2>2, OptionalFirst
    <3> HIDE DEF w
    <3>2. w.qos \in 0..2 /\ w.retain \in BOOLEAN
      BY <3>1 DEF WillSet
    <3>3. Flag(w.retain, 32) \in {0, 32}
      BY <3>2 DEF Flag
    <3>4. \A q \in 0..2, f \in {0, 32} : 4 + 8 * q + f \in 0..52
      OBVIOUS
    <3>5. WillFlags(w) \in 0..52
      BY <3>2, <3>3, <3>4, Zenon DEF WillFlags
    <3> QED
      BY <2>2, <3>5 DEF w
  <2> QED
    BY <2>1, <2>2
<1>4. z \in 0..192
  <2>1. CASE p.login = << >>
    BY <2>1
  <2>2. CASE p.login # << >>
    <3> DEFINE l == p.login[1]
    <3>1. Flag(l.username # << >>, 128) \in {0, 128} /\ Flag(l.password # << >>, 64) \in {0, 64}
      BY DEF Flag
    <3>2. PICK f, g : f = Flag(l.username # << >>, 128) /\ g = Flag(l.password # << >>, 64)
      OBVIOUS
    <3>3. f \in {0, 128} /\ g \in {0, 64}
      BY <3>1, <3>2
    <3>4. LoginFlags(l) = f + g
      BY <3>2, Zenon DEF LoginFlags
    <3>6. f + g \in 0..192
      BY <3>3
    <3>5. LoginFlags(l) \in 0..192
      BY <3>4, <3>6, Zenon
    <3> QED
      BY <2>2, <3>5 DEF l
  <2> QED
    BY <2>1, <2>2
<1>5. ConnectFlags(p) = x + y + z
  BY DEF ConnectFlags
<1> HIDE DEF x, y, z
<1> QED
  BY <1>2, <1>3, <1>4, <1>5 DEF Byte

(* What follows the header of a Connect. *)
ConnectBody(p) ==
    MqttBytes(MQTT) \o (<<p.protocol>> \o (<<ConnectFlags(p)>> \o (U16(p.keep_alive)
        \o (MqttBytes(p.client_id) \o (WillBytes(p) \o LoginBytes(p))))))

CutOfSeven(a, b, c, d, e, f, g) ==
    <<a, b, c, d, e, f, g>> = <<a, b>> \o (<<c>> \o (<<d>> \o (<<e>> \o (<<f>> \o <<g>>))))

(* A tuple of eight is its first followed by the other seven. *)
LEMMA LongTuples ==
    ASSUME NEW a, NEW b, NEW c, NEW d, NEW e, NEW f, NEW g
    PROVE  CutOfSeven(a, b, c, d, e, f, g)
<1>1. <<f, g>> = <<f>> \o <<g>>
  <2>1. f \in {f, g} /\ g \in {f, g}
    OBVIOUS
  <2> QED
    BY <2>1, PairOf, Zenon
<1>2. <<e, f, g>> = <<e>> \o <<f, g>>
  OBVIOUS
<1>3. <<d, e, f, g>> = <<d>> \o <<e, f, g>>
  OBVIOUS
<1>4. <<c, d, e, f, g>> = <<c>> \o <<d, e, f, g>>
  OBVIOUS
<1>5. <<a, b, c, d, e, f, g>> = <<a, b>> \o <<c, d, e, f, g>>
  OBVIOUS
<1> QED
  BY <1>1, <1>2, <1>3, <1>4, <1>5, Zenon DEF CutOfSeven

CutPuts(a, b, c, d, e, f, g, w, l) ==
    (<<a, b, c, d, e, f, g>> \o w) \o l =
        <<a, b>> \o (<<c>> \o (<<d>> \o (<<e>> \o (<<f>> \o (<<g>> \o (w \o l))))))

(* What a Connect puts behind its first byte and length. *)
LEMMA SevenPuts ==
    ASSUME NEW a \in PutSet, NEW b \in PutSet, NEW c \in PutSet, NEW d \in PutSet,
           NEW e \in PutSet, NEW f \in PutSet, NEW g \in PutSet,
           NEW w \in Seq(PutSet), NEW l \in Seq(PutSet)
    PROVE  CutPuts(a, b, c, d, e, f, g, w, l)
<1> DEFINE h == <<a, b>>
           q == <<c>>
           r == <<d>>
           s == <<e>>
           t == <<f>>
           u == <<g>>
<1>1. /\ h \in Seq(PutSet) /\ q \in Seq(PutSet) /\ r \in Seq(PutSet) /\ s \in Seq(PutSet)
      /\ t \in Seq(PutSet) /\ u \in Seq(PutSet)
  OBVIOUS
<1>2. <<a, b, c, d, e, f, g>> = h \o (q \o (r \o (s \o (t \o u))))
  <2>1. CutOfSeven(a, b, c, d, e, f, g)
    BY LongTuples, Zenon
  <2> QED
    BY <2>1, Zenon DEF CutOfSeven
<1> HIDE DEF h, q, r, s, t, u
<1> DEFINE m == w \o l
           v1 == t \o u
           v2 == s \o v1
           v3 == r \o v2
           v4 == q \o v3
<1>3. /\ m \in Seq(PutSet) /\ v1 \in Seq(PutSet) /\ v2 \in Seq(PutSet)
      /\ v3 \in Seq(PutSet) /\ v4 \in Seq(PutSet)
  <2>1. m \in Seq(PutSet)
    BY PutsTyped, Zenon
  <2>2. v1 \in Seq(PutSet)
    BY <1>1, PutsTyped, Zenon
  <2>3. v2 \in Seq(PutSet)
    BY <1>1, <2>2, PutsTyped, Zenon
  <2>4. v3 \in Seq(PutSet)
    BY <1>1, <2>3, PutsTyped, Zenon
  <2>5. v4 \in Seq(PutSet)
    BY <1>1, <2>4, PutsTyped, Zenon
  <2> QED
    BY <2>1, <2>2, <2>3, <2>4, <2>5
<1>4. h \o v4 \in Seq(PutSet)
  BY <1>1, <1>3, PutsTyped, Zenon
<1> HIDE DEF m, v1, v2, v3, v4
<1>5. ((h \o v4) \o w) \o l = (h \o v4) \o m
  <2>1. PutsRegroup(h \o v4, w, l)
    BY <1>4, PutsAssoc, Zenon
  <2> QED
    BY <2>1, Zenon DEF PutsRegroup, m
<1>6. (h \o v4) \o m = h \o (v4 \o m)
  <2>1. PutsRegroup(h, v4, m)
    BY <1>1, <1>3, PutsAssoc, Zenon
  <2> QED
    BY <2>1, Zenon DEF PutsRegroup
<1>7. v4 \o m = q \o (v3 \o m)
  <2>1. PutsRegroup(q, v3, m)
    BY <1>1, <1>3, PutsAssoc, Zenon
  <2> QED
    BY <2>1, Zenon DEF PutsRegroup, v4
<1>8. v3 \o m = r \o (v2 \o m)
  <2>1. PutsRegroup(r, v2, m)
    BY <1>1, <1>3, PutsAssoc, Zenon
  <2> QED
    BY <2>1, Zenon DEF PutsRegroup, v3
<1>9. v2 \o m = s \o (v1 \o m)
  <2>1. PutsRegroup(s, v1, m)
    BY <1>1, <1>3, PutsAssoc, Zenon
  <2> QED
    BY <2>1, Zenon DEF PutsRegroup, v2
<1>10. v1 \o m = t \o (u \o m)
  <2>1. PutsRegroup(t, u, m)
    BY <1>1, <1>3, PutsAssoc, Zenon
  <2> QED
    BY <2>1, Zenon DEF PutsRegroup, v1
<1>11. <<a, b, c, d, e, f, g>> = h \o v4
  BY <1>2, Zenon DEF v4, v3, v2, v1
<1>12. (<<a, b, c, d, e, f, g>> \o w) \o l = h \o (q \o (r \o (s \o (t \o (u \o m)))))
  BY <1>5, <1>6, <1>7, <1>8, <1>9, <1>10, <1>11, Zenon
<1> QED
  BY <1>12, Zenon DEF CutPuts, h, q, r, s, t, u, m

(* Two lists of puts, one after the other. *)
LEMMA JoinedBoth ==
    ASSUME NEW a \in Seq(PutSet), NEW b \in Seq(PutSet), NEW x, NEW y, Only(a, x), Only(b, y)
    PROVE  Only(a \o b, x \o y)
<1> SUFFICES ASSUME NEW bytes, Joined(a \o b, bytes)
             PROVE  bytes = x \o y
  BY Zenon DEF Only
<1>1. Splits(a, b, bytes)
  BY JoinedSplit, Zenon
<1> QED
  BY <1>1, Zenon DEF Splits, Only

(* A put in front of a list. *)
LEMMA JoinedFront ==
    ASSUME NEW a \in PutSet, NEW b \in Seq(PutSet), NEW x, NEW y, a.bytes = x, Only(b, y)
    PROVE  Only(<<a>> \o b, x \o y)
<1>1. ASSUME NEW bytes, Joined(<<a>> \o b, bytes)
      PROVE  bytes = x \o y
  <2>1. FirstThen(a, b, bytes)
    BY <1>1, JoinedCons, Zenon
  <2> QED
    BY <2>1, Zenon DEF FirstThen, Only
<1> QED
  BY <1>1, Zenon DEF Only

(* A put in front of a list is a list. *)
LEMMA PutsCons ==
    ASSUME NEW a \in PutSet, NEW b \in Seq(PutSet)
    PROVE  <<a>> \o b \in Seq(PutSet)
<1>1. <<a>> \in Seq(PutSet)
  OBVIOUS
<1> QED
  BY <1>1, PutsTyped, Zenon

(* Connect::write. *)
LEMMA ConnectFrame ==
    ASSUME NEW cap \in Nat, NEW p \in PacketSet, p.type = "Connect",
           WriteConnectPacket(p, cap).error = "none"
    PROVE  /\ ConnectBody(p) \in Seq(Byte) /\ Len(ConnectBody(p)) = ConnectLen(p)
           /\ ConnectLen(p) \in Nat /\ ConnectLen(p) <= MaxRemaining
           /\ WriteConnectPacket(p, cap).bytes = FrameBytes(16, ConnectLen(p), ConnectBody(p))
<1> DEFINE b1 == 16
           n == ConnectLen(p)
           a == Put(<<b1>>)
           b == PutLength(n)
           w == WillPuts(p)
           l == LoginPuts(p)
           wb == WillBytes(p)
           lb == LoginBytes(p)
           out == WriteConnectPacket(p, cap)
           xc == MqttBytes(MQTT)
           c == Put(xc)
           xd == <<p.protocol>>
           d == Put(xd)
           xe == <<ConnectFlags(p)>>
           e == Put(xe)
           xf == U16(p.keep_alive)
           f == Put(xf)
           xg == MqttBytes(p.client_id)
           g == Put(xg)
<1>1. p.client_id \in Seq(Byte) /\ Len(p.client_id) \in Nat /\ p.keep_alive \in Nat
  <2>1. p.client_id \in Text /\ p.keep_alive \in Word16
    BY ConnectFields
  <2> QED
    BY <2>1, TextIsBytes, WordIsNat
<1>2. MQTT \in Seq(Byte) /\ Len(MQTT) = 4
  BY DEF MQTT, Byte
<1>3. /\ xc \in Seq(Byte) /\ Len(xc) = 6
      /\ xd \in Seq(Byte) /\ Len(xd) = 1
      /\ xe \in Seq(Byte) /\ Len(xe) = 1
      /\ xf \in Seq(Byte) /\ Len(xf) = 2
      /\ xg \in Seq(Byte) /\ Len(xg) = 2 + Len(p.client_id)
  <2>1. xc \in Seq(Byte) /\ Len(xc) = 2 + Len(MQTT)
    BY <1>2, MqttBytesTyped, Zenon
  <2>2. xd \in Seq(Byte) /\ Len(xd) = 1
    <3>1. p.protocol \in Byte
      BY LevelTyped
    <3> QED
      BY <3>1
  <2>3. xe \in Seq(Byte) /\ Len(xe) = 1
    <3>1. ConnectFlags(p) \in Byte
      BY ConnectFlagsTyped
    <3> QED
      BY <3>1
  <2>4. xf \in Seq(Byte) /\ Len(xf) = 2
    BY <1>1, SomeBytes, CastLength, Zenon
  <2>5. xg \in Seq(Byte) /\ Len(xg) = 2 + Len(p.client_id)
    BY <1>1, MqttBytesTyped, Zenon
  <2>6. Len(xc) = 6
    <3> HIDE DEF xc
    <3> QED
      BY <1>2, <2>1
  <2> QED
    BY <2>1, <2>2, <2>3, <2>4, <2>5, <2>6, Zenon
<1>4. /\ w \in Seq(PutSet) /\ wb \in Seq(Byte)
      /\ Len(wb) = IF p.last_will = << >> THEN 0 ELSE WillLen(p.last_will[1])
      /\ Only(w, wb)
  BY WillWritten, Zenon
<1>5. /\ l \in Seq(PutSet) /\ lb \in Seq(Byte)
      /\ Len(lb) = IF p.login = << >> THEN 0 ELSE LoginLen(p.login[1])
      /\ Only(l, lb)
  BY LoginWritten, Zenon
<1>6. n = 2 + Len(MQTT) + 1 + 1 + 2 + 2 + Len(p.client_id) + Len(wb) + Len(lb)
  BY <1>4, <1>5, Zenon DEF ConnectLen
<1>7. n \in Nat /\ n = 6 + (1 + (1 + (2 + ((2 + Len(p.client_id)) + (Len(wb) + Len(lb))))))
  <2> HIDE DEF n, wb, lb
  <2>1. Len(wb) \in Nat /\ Len(lb) \in Nat
    BY <1>4, <1>5
  <2>2. \A x, y, z \in Nat : /\ 2 + 4 + 1 + 1 + 2 + 2 + x + y + z = 6 + (1 + (1 + (2 + ((2 + x) + (y + z)))))
                             /\ 6 + (1 + (1 + (2 + ((2 + x) + (y + z))))) \in Nat
    OBVIOUS
  <2> QED
    <3>1. PICK x, y, z \in Nat : x = Len(p.client_id) /\ y = Len(wb) /\ z = Len(lb)
      BY <1>1, <2>1
    <3>2. n = 2 + 4 + 1 + 1 + 2 + 2 + x + y + z
      BY <1>2, <1>6, <3>1
    <3>3. n \in Nat /\ n = 6 + (1 + (1 + (2 + ((2 + x) + (y + z)))))
      BY <2>2, <3>2
    <3> QED
      BY <3>1, <3>3
<1>8. b1 \in Byte
  BY DEF Byte
<1>9. out = Write(cap, (<<a, b, c, d, e, f, g>> \o w) \o l)
  BY Zenon DEF WriteConnectPacket, WillPuts, LoginPuts
<1>10. /\ a \in PutSet /\ b \in PutSet /\ c \in PutSet /\ d \in PutSet /\ e \in PutSet
       /\ f \in PutSet /\ g \in PutSet
       /\ c.bytes = xc /\ d.bytes = xd /\ e.bytes = xe /\ f.bytes = xf /\ g.bytes = xg
  <2>1. a \in PutSet /\ b \in PutSet
    BY <1>7, <1>8, SomeBytes, PutLengthTyped, Zenon
  <2> HIDE DEF xc, xd, xe, xf, xg
  <2>2. /\ c \in PutSet /\ d \in PutSet /\ e \in PutSet
        /\ f \in PutSet /\ g \in PutSet
        /\ c.bytes = xc /\ d.bytes = xd /\ e.bytes = xe /\ f.bytes = xf /\ g.bytes = xg
    BY <1>3, PutTyped, Zenon
  <2> QED
    BY <2>1, <2>2, Zenon
<1> HIDE DEF c, d, e, f, g, w, l, wb, lb, n
<1> DEFINE v5 == w \o l
           v4 == <<g>> \o v5
           v3 == <<f>> \o v4
           v2 == <<e>> \o v3
           v1 == <<d>> \o v2
           v0 == <<c>> \o v1
           y5 == wb \o lb
           y4 == xg \o y5
           y3 == xf \o y4
           y2 == xe \o y3
           y1 == xd \o y2
           y0 == xc \o y1
<1>11. (<<a, b, c, d, e, f, g>> \o w) \o l = <<a, b>> \o v0
  <2> HIDE DEF a, b
  <2> QED
    <3>1. CutPuts(a, b, c, d, e, f, g, w, l)
      BY <1>4, <1>5, <1>10, SevenPuts, Zenon
    <3> QED
      BY <3>1, Zenon DEF CutPuts
<1> HIDE DEF xc, xd, xe, xf, xg
<1>12. v5 \in Seq(PutSet) /\ Only(v5, y5)
       /\ y5 \in Seq(Byte) /\ Len(y5) = Len(wb) + Len(lb)
  <2>1. v5 \in Seq(PutSet)
    BY <1>4, <1>5, PutsTyped, Zenon
  <2>2. Only(v5, y5)
    BY <1>4, <1>5, JoinedBoth, Zenon
  <2>3. y5 \in Seq(Byte) /\ Len(y5) = Len(wb) + Len(lb)
    BY <1>4, <1>5, ConcatTyped, Zenon
  <2> QED
    BY <2>1, <2>2, <2>3, Zenon
<1> HIDE DEF v5, y5
<1>13. v4 \in Seq(PutSet) /\ Only(v4, y4)
       /\ y4 \in Seq(Byte) /\ Len(y4) = Len(xg) + Len(y5)
  <2>1. v4 \in Seq(PutSet)
    BY <1>10, <1>12, PutsCons, Zenon
  <2>2. Only(v4, y4)
    BY <1>10, <1>12, JoinedFront, Zenon
  <2>3. y4 \in Seq(Byte) /\ Len(y4) = Len(xg) + Len(y5)
    BY <1>3, <1>12, ConcatTyped, Zenon
  <2> QED
    BY <2>1, <2>2, <2>3, Zenon
<1> HIDE DEF v4, y4
<1>14. v3 \in Seq(PutSet) /\ Only(v3, y3)
       /\ y3 \in Seq(Byte) /\ Len(y3) = Len(xf) + Len(y4)
  <2>1. v3 \in Seq(PutSet)
    BY <1>10, <1>13, PutsCons, Zenon
  <2>2. Only(v3, y3)
    BY <1>10, <1>13, JoinedFront, Zenon
  <2>3. y3 \in Seq(Byte) /\ Len(y3) = Len(xf) + Len(y4)
    BY <1>3, <1>13, ConcatTyped, Zenon
  <2> QED
    BY <2>1, <2>2, <2>3, Zenon
<1> HIDE DEF v3, y3
<1>15. v2 \in Seq(PutSet) /\ Only(v2, y2)
       /\ y2 \in Seq(Byte) /\ Len(y2) = Len(xe) + Len(y3)
  <2>1. v2 \in Seq(PutSet)
    BY <1>10, <1>14, PutsCons, Zenon
  <2>2. Only(v2, y2)
    BY <1>10, <1>14, JoinedFront, Zenon
  <2>3. y2 \in Seq(Byte) /\ Len(y2) = Len(xe) + Len(y3)
    BY <1>3, <1>14, ConcatTyped, Zenon
  <2> QED
    BY <2>1, <2>2, <2>3, Zenon
<1> HIDE DEF v2, y2
<1>16. v1 \in Seq(PutSet) /\ Only(v1, y1)
       /\ y1 \in Seq(Byte) /\ Len(y1) = Len(xd) + Len(y2)
  <2>1. v1 \in Seq(PutSet)
    BY <1>10, <1>15, PutsCons, Zenon
  <2>2. Only(v1, y1)
    BY <1>10, <1>15, JoinedFront, Zenon
  <2>3. y1 \in Seq(Byte) /\ Len(y1) = Len(xd) + Len(y2)
    BY <1>3, <1>15, ConcatTyped, Zenon
  <2> QED
    BY <2>1, <2>2, <2>3, Zenon
<1> HIDE DEF v1, y1
<1>17. v0 \in Seq(PutSet) /\ Only(v0, y0)
       /\ y0 \in Seq(Byte) /\ Len(y0) = Len(xc) + Len(y1)
  <2>1. v0 \in Seq(PutSet)
    BY <1>10, <1>16, PutsCons, Zenon
  <2>2. Only(v0, y0)
    BY <1>10, <1>16, JoinedFront, Zenon
  <2>3. y0 \in Seq(Byte) /\ Len(y0) = Len(xc) + Len(y1)
    BY <1>3, <1>16, ConcatTyped, Zenon
  <2> QED
    BY <2>1, <2>2, <2>3, Zenon
<1> HIDE DEF v0, y0
<1>18. Len(y0) = n
  BY <1>3, <1>7, <1>12, <1>13, <1>14, <1>15, <1>16, <1>17, Zenon
<1>19. Headed(b1, n, v0, out.bytes)
  <2>1. Write(cap, <<a, b>> \o v0).error = "none" /\ out = Write(cap, <<a, b>> \o v0)
    BY <1>9, <1>11, Zenon
  <2> HIDE DEF out, b1
  <2> QED
    BY <1>7, <1>8, <1>17, <2>1, HeaderThenBody, Zenon
<1> HIDE DEF out, b1
<1>20. n <= MaxRemaining /\ \E rest \in Seq(Byte) : Joined(v0, rest) /\ out.bytes = FrameBytes(b1, n, rest)
  BY <1>19, Zenon DEF Headed
<1>21. out.bytes = FrameBytes(b1, n, y0)
  BY <1>17, <1>20, Zenon DEF Only
<1>22. y0 = ConnectBody(p)
  BY Zenon DEF ConnectBody, y0, y1, y2, y3, y4, y5, xc, xd, xe, xf, xg, wb, lb
<1> QED
  BY <1>7, <1>17, <1>18, <1>20, <1>21, <1>22, Zenon DEF out, n, b1

-----------------------------------------------------------------------------
(* The ways to write a packet of each type. *)
LEMMA DomainsOfBytes1 ==
    DOMAIN AckByte1 = AckTypes /\ DOMAIN EmptyByte1 = {"PingReq", "PingResp", "Disconnect"}
BY DEF AckByte1, EmptyByte1, AckTypes

(* A frame of a type, a length and a body of that length. *)
LEMMA WholeFrame ==
    ASSUME NEW b1 \in Byte, NEW n \in Nat, n <= MaxRemaining, NEW body \in Seq(Byte),
           Len(body) = n, NEW bytes, bytes = FrameBytes(b1, n, body)
    PROVE  IsFrame(bytes)
BY FrameBytesIsFrame, Zenon

(***************************************************************************)
(* Whatever way a packet is written, if it is written its bytes are one    *)
(* frame: as long as the length in its fixed header announces (write, len  *)
(* and write_remaining_length of each type).                               *)
(***************************************************************************)
THEOREM LengthsAnnounced ==
    ASSUME NEW cap \in Nat, NEW p \in PacketSet, NEW w \in Writes(p, cap), w.error = "none"
    PROVE  IsFrame(w.bytes)
<1>1. CASE p.type = "Connect"
  <2>0. Writes(p, cap) = {WriteConnectPacket(p, cap)}
    BY <1>1, DomainsOfBytes1 DEF Writes, AckTypes
  <2>1. w = WriteConnectPacket(p, cap)
    BY <2>0
  <2>2. PICK b1 : b1 = 16
    OBVIOUS
  <2>3. b1 \in Byte
    BY <2>2 DEF Byte
  <2>4. /\ ConnectBody(p) \in Seq(Byte) /\ Len(ConnectBody(p)) = ConnectLen(p)
        /\ ConnectLen(p) \in Nat /\ ConnectLen(p) <= MaxRemaining
        /\ w.bytes = FrameBytes(b1, ConnectLen(p), ConnectBody(p))
    BY <1>1, <2>1, <2>2, ConnectFrame
  <2> QED
    BY <2>3, <2>4, WholeFrame, Zenon
<1>2. CASE p.type = "ConnAck"
  <2>0. Writes(p, cap) = {WriteConnAck(p, cap)}
    BY <1>2, DomainsOfBytes1 DEF Writes, AckTypes
  <2>1. w = WriteConnAck(p, cap)
    BY <2>0
  <2>2. PICK b1 : b1 = 32
    OBVIOUS
  <2>3. b1 \in Byte /\ 2 <= MaxRemaining
    BY <2>2, SMT DEF Byte, MaxRemaining
  <2>4. w.bytes = FrameBytes(b1, 2, ConnAckBody(p))
    BY <1>2, <2>1, <2>2, ConnAckFrame
  <2>5. ConnAckBody(p) \in Seq(Byte) /\ Len(ConnAckBody(p)) = 2
    BY <1>2, ConnAckBytes
  <2> QED
    BY <2>3, <2>4, <2>5, WholeFrame
<1>3. CASE p.type = "Publish"
  <2>1. PublishByte1(p) \in Byte
    BY <1>3, PublishTyped
  <2>2. CASE w = WritePublish(p, cap)
    <3>1. /\ PublishBody(p) \in Seq(Byte) /\ Len(PublishBody(p)) = PublishLen(p)
          /\ PublishLen(p) \in Nat /\ PublishLen(p) <= MaxRemaining
          /\ w.bytes = FrameBytes(PublishByte1(p), PublishLen(p), PublishBody(p))
      BY <1>3, <2>2, PublishFrame
    <3> QED
      BY <2>1, <3>1, WholeFrame, Zenon
  <2>3. ASSUME NEW strings \in Seq(Seq(Byte)), w = WriteOutPublish(p, strings, cap)
        PROVE  IsFrame(w.bytes)
    <3> DEFINE body == InPlaceBody(p, strings)
    <3>1. w.bytes = FrameBytes(PublishByte1(p), Len(body), body) /\ Len(body) <= MaxRemaining
      BY <1>3, <2>3, OutPublishFrame
    <3>2. body \in Seq(Byte)
      BY <1>3, InPlaceTyped, Zenon
    <3>3. Len(body) \in Nat
      BY <3>2
    <3> QED
      BY <2>1, <3>1, <3>2, <3>3, WholeFrame, Zenon
  <2>4. p.topic \in Seq(Byte)
    BY <1>3, PublishTyped
  <2>5. <<p.topic>> \in Seq(Seq(Byte)) /\ TopicItems(Levels(p.topic)) \in Seq(Seq(Byte))
    <3>1. TopicItems(Levels(p.topic)) \in Seq(Seq(Byte))
      BY <2>4, LevelsTyped, ItemsTyped, Zenon
    <3> QED
      BY <2>4, <3>1
  <2>0. Writes(p, cap) = {WritePublish(p, cap), WriteOutPublish(p, <<p.topic>>, cap),
               WriteOutPublish(p, TopicItems(Levels(p.topic)), cap)}
    BY <1>3, DomainsOfBytes1 DEF Writes, AckTypes
  <2>6. w \in {WritePublish(p, cap), WriteOutPublish(p, <<p.topic>>, cap),
               WriteOutPublish(p, TopicItems(Levels(p.topic)), cap)}
    BY <2>0
  <2> QED
    BY <2>2, <2>3, <2>5, <2>6, Zenon
<1>4. CASE p.type = "Subscribe"
  <2>0. Writes(p, cap) = {WriteSubscribePacket(p, cap)} \cup
              {WriteSubscribeInPlace(p, texts, cap) : texts \in AddedTexts(p)}
    BY <1>4, DomainsOfBytes1 DEF Writes, AckTypes
  <2>1. w \in {WriteSubscribePacket(p, cap)} \cup
              {WriteSubscribeInPlace(p, texts, cap) : texts \in AddedTexts(p)}
    BY <2>0
  <2>2. CASE w = WriteSubscribePacket(p, cap)
    BY <1>4, <2>2, SubscribeFrame, Zenon
  <2>3. ASSUME NEW texts \in AddedTexts(p), w = WriteSubscribeInPlace(p, texts, cap)
        PROVE  IsFrame(w.bytes)
    BY <1>4, <2>3, SubscribeInPlaceFrame, Zenon
  <2> QED
    BY <2>1, <2>2, <2>3, Zenon
<1>5. CASE p.type = "SubAck"
  <2>0. Writes(p, cap) = {WriteSubAck(p, cap)}
    BY <1>5, DomainsOfBytes1 DEF Writes, AckTypes
  <2>1. w = WriteSubAck(p, cap)
    BY <2>0
  <2>2. PICK b1 : b1 = 144
    OBVIOUS
  <2>3. b1 \in Byte
    BY <2>2 DEF Byte
  <2>4. /\ SubAckBody(p) \in Seq(Byte) /\ Len(SubAckBody(p)) = 2 + Len(p.codes)
        /\ 2 + Len(p.codes) <= MaxRemaining
        /\ w.bytes = FrameBytes(b1, 2 + Len(p.codes), SubAckBody(p))
    BY <1>5, <2>1, <2>2, SubAckFrame
  <2>5. Len(SubAckBody(p)) \in Nat
    BY <2>4
  <2> QED
    BY <2>3, <2>4, <2>5, WholeFrame, Zenon
<1>6. CASE p.type = "Unsubscribe"
  <2>0. Writes(p, cap) = {WriteUnsubscribe(p, cap)}
    BY <1>6, DomainsOfBytes1 DEF Writes, AckTypes
  <2>1. w = WriteUnsubscribe(p, cap)
    BY <2>0
  <2> QED
    BY <1>6, <2>1, UnsubscribeFrame, Zenon
<1>7. CASE p.type \in AckTypes
  <2>0. Writes(p, cap) = {WriteAck(p, cap)}
    BY <1>7, DomainsOfBytes1 DEF Writes, AckTypes
  <2>1. w = WriteAck(p, cap)
    BY <2>0
  <2>2. AckByte1[p.type] \in Byte /\ w.bytes = FrameBytes(AckByte1[p.type], 2, U16(p.pkid))
    BY <1>7, <2>1, AckFrame
  <2>3. U16(p.pkid) \in Seq(Byte) /\ Len(U16(p.pkid)) = 2
    <3>1. p.pkid \in Word16
      BY <1>7, AckFields
    <3> QED
      BY <3>1, WordIsNat, CastLength
  <2>4. 2 <= MaxRemaining
    BY SMT DEF MaxRemaining
  <2> QED
    BY <2>2, <2>3, <2>4, WholeFrame
<1>8. CASE p.type \in {"PingReq", "PingResp", "Disconnect"}
  <2>0. Writes(p, cap) = {WriteEmpty(p, cap)}
    BY <1>8, DomainsOfBytes1 DEF Writes, AckTypes
  <2>1. w = WriteEmpty(p, cap)
    BY <2>0
  <2>2. EmptyByte1[p.type] \in Byte /\ w.bytes = FrameBytes(EmptyByte1[p.type], 0, << >>)
    BY <1>8, <2>1, EmptyFrame
  <2>3. << >> \in Seq(Byte) /\ Len(<< >>) = 0 /\ 0 <= MaxRemaining
    BY SMT DEF MaxRemaining
  <2> QED
    BY <2>2, <2>3, WholeFrame
<1> QED
  BY <1>1, <1>2, <1>3, <1>4, <1>5, <1>6, <1>7, <1>8, TypesOfPackets

-----------------------------------------------------------------------------
(* Adding to a buffer that grows gives what a put gives. *)
LEMMA V4AddedTyped ==
    ASSUME NEW written \in PutSet, NEW put \in PutSet
    PROVE  V4Added(written, put) \in PutSet
<1>1. written.bytes \o put.bytes \in Seq(Byte)
  BY SMT DEF PutSet
<1>2. [error |-> put.error, bytes |-> written.bytes \o put.bytes] \in PutSet
  BY <1>1 DEF PutSet
<1> QED
  BY <1>2 DEF V4Added

(* What was added after each put, as for Write. *)
LEMMA V4Runs ==
    ASSUME NEW puts \in Seq(PutSet)
    PROVE  \E acc \in [0..Len(puts) -> PutSet] :
              /\ acc[0] = Put(<< >>)
              /\ acc[Len(puts)] = V4Puts(puts)
              /\ \A i \in 1..Len(puts) : acc[i] = V4Added(acc[i - 1], puts[i])
<1> DEFINE g == [xy \in PutSet \X PutSet |-> V4Added(xy[1], xy[2])]
           Is(f, s) == f[s] = IF s = {} THEN Put(<< >>)
                              ELSE V4Added(f[s \ {Max(s)}], puts[Max(s)])
           Table(f) == f = [s \in SUBSET DOMAIN puts |->
                              IF s = {} THEN Put(<< >>)
                              ELSE V4Added(f[s \ {Max(s)}], puts[Max(s)])]
<1>1. V4Puts(puts) = (CHOOSE f : Table(f))[DOMAIN puts]
  BY Zenon DEF V4Puts, FoldLeft, MapThenFoldSet
<1>2. /\ << >> \in Seq(Byte) /\ Put(<< >>) \in PutSet
      /\ g \in [PutSet \X PutSet -> PutSet]
      /\ \A x, y \in PutSet : g[<<x, y>>] = V4Added(x, y)
  <2>1. << >> \in Seq(Byte)
    OBVIOUS
  <2> QED
    BY <2>1, PutTyped, V4AddedTyped
<1> HIDE DEF g
<1>3. DOMAIN puts = 1..Len(puts) /\ Len(puts) \in Nat
  OBVIOUS
<1>4. ASSUME NEW s \in SUBSET DOMAIN puts, s # {}
      PROVE  Max(s) \in s /\ puts[Max(s)] \in PutSet /\ s \ {Max(s)} \in SUBSET DOMAIN puts
  <2>1. Max(s) \in s
    BY <1>3, <1>4, MaxInside
  <2>2. Max(s) \in 1..Len(puts)
    BY <1>3, <2>1
  <2>3. puts[Max(s)] \in PutSet
    BY <2>2
  <2> QED
    BY <2>1, <2>3, Zenon
<1>5. \E f : Table(f)
  <2>1. PICK f \in [SUBSET DOMAIN puts -> PutSet] :
            \A s \in SUBSET DOMAIN puts : f[s] = Folded(f, Put(<< >>), g, puts, s)
    <3>1. HasTable(PutSet, Put(<< >>), g, puts)
      BY <1>2, FoldTable, Zenon
    <3> QED
      BY <3>1, Zenon DEF HasTable
  <2>2. ASSUME NEW s \in SUBSET DOMAIN puts
        PROVE  Is(f, s)
    <3>1. CASE s = {}
      BY <2>1, <3>1 DEF Folded
    <3>2. CASE s # {}
      <4>1. f[s \ {Max(s)}] \in PutSet
        BY <1>4, <2>1, <3>2
      <4>2. f[s] = g[<<f[s \ {Max(s)}], puts[Max(s)]>>]
        BY <2>1, <3>2, Zenon DEF Folded
      <4> QED
        BY <1>2, <1>4, <3>2, <4>1, <4>2, Zenon
    <3> QED
      BY <3>1, <3>2
  <2> QED
    BY <2>1, <2>2
<1>6. PICK f : f = (CHOOSE h : Table(h))
  OBVIOUS
<1>7. Table(f)
  <2> HIDE DEF Table
  <2> QED
    BY <1>5, <1>6, Zenon
<1>8. f[{}] = Put(<< >>)
  BY <1>7, Zenon
<1>9. ASSUME NEW i \in 1..Len(puts), f[(1..i) \ {Max(1..i)}] \in PutSet
      PROVE  f[1..i] = g[<<f[(1..i) \ {Max(1..i)}], puts[Max(1..i)]>>]
  <2>1. 1..i \in SUBSET DOMAIN puts /\ 1..i # {}
    <3>1. i \in 1..i /\ \A j \in 1..i : j \in 1..Len(puts)
      BY <1>3
    <3> QED
      BY <1>3, <3>1
  <2>2. f[1..i] = V4Added(f[(1..i) \ {Max(1..i)}], puts[Max(1..i)])
    BY <1>7, <2>1, Zenon
  <2> QED
    BY <1>2, <1>4, <1>9, <2>1, <2>2, Zenon
<1>10. PICK acc \in [0..Len(puts) -> PutSet] :
          /\ acc[0] = Put(<< >>)
          /\ acc[Len(puts)] = f[DOMAIN puts]
          /\ \A i \in 1..Len(puts) : acc[i] = g[<<acc[i - 1], puts[i]>>]
  <2>1. HasRun(PutSet, Put(<< >>), g, puts, f[DOMAIN puts])
    BY <1>2, <1>8, <1>9, FoldRuns, Zenon
  <2> QED
    BY <2>1, Zenon DEF HasRun
<1>11. acc[Len(puts)] = V4Puts(puts)
  BY <1>1, <1>6, <1>10, Zenon
<1>12. \A i \in 1..Len(puts) : acc[i] = V4Added(acc[i - 1], puts[i])
  <2>1. \A i \in 1..Len(puts) : acc[i - 1] \in PutSet /\ puts[i] \in PutSet
    BY <1>3
  <2> QED
    BY <1>2, <1>10, <2>1, Zenon
<1> QED
  BY <1>10, <1>11, <1>12

(* What a put of bytes holds. *)
LEMMA PutParts ==
    \A b : Put(b).error = "none" /\ Put(b).bytes = b
BY DEF Put

(* None of the puts fails. *)
Sound(puts) == puts \in Seq(PutSet) /\ \A i \in 1..Len(puts) : puts[i].error = "none"

(* A buffer that grows takes all of them. *)
LEMMA V4Takes ==
    ASSUME NEW puts, Sound(puts)
    PROVE  \E x \in Seq(Byte) : V4Puts(puts) = Put(x) /\ Joined(puts, x)
<1> DEFINE n == Len(puts)
<1>0. puts \in Seq(PutSet) /\ \A i \in 1..n : puts[i].error = "none"
  BY Zenon DEF Sound
<1>1. PICK acc \in [0..n -> PutSet] :
          /\ acc[0] = Put(<< >>)
          /\ acc[n] = V4Puts(puts)
          /\ \A i \in 1..n : acc[i] = V4Added(acc[i - 1], puts[i])
  BY <1>0, V4Runs
<1>2. n \in Nat /\ \A i \in 1..n : i \in 0..n /\ i - 1 \in 0..n /\ puts[i] \in PutSet
  BY <1>0
<1> HIDE DEF n
<1>3. \A x \in PutSet : x = [error |-> x.error, bytes |-> x.bytes] /\ x.bytes \in Seq(Byte)
  BY DEF PutSet
<1>4. ASSUME NEW i \in 1..n, acc[i - 1].error = "none"
      PROVE  acc[i] = Put(acc[i - 1].bytes \o puts[i].bytes)
  <2>1. acc[i] = [error |-> puts[i].error, bytes |-> acc[i - 1].bytes \o puts[i].bytes]
    BY <1>1, <1>4, Zenon DEF V4Added
  <2> QED
    BY <1>0, <2>1, Zenon DEF Put
<1>5. \A i \in 0..n : acc[i].error = "none"
  <2> DEFINE P == {i \in Nat : i <= n => acc[i].error = "none"}
  <2>1. 0 \in P
    BY <1>1 DEF Put
  <2>2. ASSUME NEW i \in 1..n, i - 1 \in P
        PROVE  i \in P
    <3>1. i - 1 <= n /\ i \in Nat
      BY <1>2
    <3>2. acc[i - 1].error = "none"
      BY <2>2, <3>1
    <3>3. acc[i] = Put(acc[i - 1].bytes \o puts[i].bytes)
      BY <1>4, <3>2
    <3>4. acc[i].error = "none"
      BY <3>3, PutParts, Zenon
    <3> QED
      BY <3>1, <3>4
  <2>3. P \in SUBSET Nat
    OBVIOUS
  <2> HIDE DEF P
  <2>4. \A i \in 0..n : i \in P
    BY <1>2, <2>1, <2>2, <2>3, UpTo
  <2>5. \A i \in 0..n : i \in Nat /\ i <= n
    BY <1>2
  <2> QED
    BY <2>4, <2>5 DEF P
<1> DEFINE w == [i \in 0..n |-> acc[i].bytes]
<1>6. Growth(w, puts, acc[n].bytes)
  <2>1. w \in [0..n -> Seq(Byte)] /\ w[0] = << >> /\ w[n] = acc[n].bytes
    BY <1>1, <1>2, <1>3 DEF Put
  <2>2. ASSUME NEW i \in 1..n
        PROVE  puts[i].error = "none" /\ w[i] = w[i - 1] \o puts[i].bytes
    <3>1. i \in 0..n /\ i - 1 \in 0..n
      BY <1>2
    <3>2. acc[i] = Put(acc[i - 1].bytes \o puts[i].bytes)
      BY <1>4, <1>5, <3>1
    <3>3. acc[i].bytes = acc[i - 1].bytes \o puts[i].bytes
      BY <3>2, PutParts, Zenon
    <3>4. puts[i].error = "none"
      BY <1>0, Zenon DEF n
    <3> QED
      BY <3>1, <3>3, <3>4
  <2> QED
    BY <2>1, <2>2 DEF Growth, n
<1>7. n \in 0..n /\ acc[n] \in PutSet
  BY <1>1, <1>2
<1>8. V4Puts(puts) = Put(acc[n].bytes)
  BY <1>1, <1>3, <1>5, <1>7, Zenon DEF Put
<1> QED
  BY <1>3, <1>6, <1>7, <1>8, Zenon DEF Joined

(* The bytes written of a list of puts that has room for all of them. *)
LEMMA WriteFits ==
    ASSUME NEW cap \in Nat, NEW puts, Sound(puts),
           \A x \in Seq(Byte) : Joined(puts, x) => Len(x) <= cap
    PROVE  Write(cap, puts).error = "none"
<1> DEFINE n == Len(puts)
<1>0. puts \in Seq(PutSet) /\ \A i \in 1..n : puts[i].error = "none"
  BY Zenon DEF Sound
<1>1. PICK acc \in [0..n -> PutSet] :
          /\ acc[0] = Put(<< >>)
          /\ acc[n] = Write(cap, puts)
          /\ \A i \in 1..n : acc[i] = PutWithin(cap, acc[i - 1], puts[i])
  BY <1>0, WriteRuns
<1>2. PICK x \in Seq(Byte) : Joined(puts, x)
  BY V4Takes, Zenon
<1>3. PICK w : Growth(w, puts, x)
  BY <1>2, Zenon DEF Joined
<1>4. /\ n \in Nat
      /\ \A i \in 1..n : i \in 0..n /\ i - 1 \in 0..n /\ puts[i] \in PutSet /\ puts[i].bytes \in Seq(Byte)
  <2>1. n \in Nat /\ \A i \in 1..n : i \in 0..n /\ i - 1 \in 0..n /\ puts[i] \in PutSet
    BY <1>0
  <2>2. \A y \in PutSet : y.bytes \in Seq(Byte)
    BY DEF PutSet
  <2> QED
    BY <2>1, <2>2, Zenon
<1>5. /\ w \in [0..n -> Seq(Byte)] /\ w[0] = << >> /\ w[n] = x
      /\ \A i \in 1..n : w[i] = w[i - 1] \o puts[i].bytes
  BY <1>3, Zenon DEF Growth, n
<1> HIDE DEF n
<1>6. \A i \in 1..n : Len(w[i - 1]) <= Len(w[i]) /\ Len(w[i]) = Len(w[i - 1]) + Len(puts[i].bytes)
  <2> TAKE i \in 1..n
  <2> DEFINE u == w[i - 1]
             t == puts[i].bytes
  <2>1. u \in Seq(Byte) /\ t \in Seq(Byte)
    BY <1>4, <1>5
  <2> HIDE DEF u, t
  <2>2. Len(u \o t) = Len(u) + Len(t) /\ Len(u) \in Nat /\ Len(t) \in Nat
    BY <2>1, ConcatTyped
  <2>3. w[i] = u \o t
    BY <1>5 DEF u, t
  <2>4. Len(w[i]) = Len(u) + Len(t) /\ Len(u) <= Len(w[i])
    BY <2>2, <2>3
  <2> QED
    BY <2>4 DEF u, t
<1>7. \A i \in 0..n : Len(w[n - i]) <= cap
  <2> DEFINE P == {i \in Nat : i <= n => Len(w[n - i]) <= cap}
  <2>1. 0 \in P
    BY <1>2, <1>4, <1>5
  <2>2. ASSUME NEW i \in 1..n, i - 1 \in P
        PROVE  i \in P
    <3>1. /\ n - (i - 1) \in 1..n /\ (n - (i - 1)) - 1 = n - i /\ i - 1 <= n /\ i \in Nat
          /\ n - (i - 1) \in 0..n /\ n - i \in 0..n
      BY <1>4
    <3>2. Len(w[n - (i - 1)]) <= cap
      BY <2>2, <3>1
    <3>3. Len(w[n - i]) <= Len(w[n - (i - 1)])
      BY <1>6, <3>1
    <3>4. Len(w[n - i]) \in Nat /\ Len(w[n - (i - 1)]) \in Nat
      BY <1>5, <3>1
    <3>5. Len(w[n - i]) <= cap
      BY ONLY <3>2, <3>3, <3>4, cap \in Nat
    <3> QED
      BY <3>1, <3>5
  <2>3. P \in SUBSET Nat
    OBVIOUS
  <2> HIDE DEF P
  <2>4. \A i \in 0..n : i \in P
    BY <1>4, <2>1, <2>2, <2>3, UpTo
  <2>5. \A i \in 0..n : i \in Nat /\ i <= n
    BY <1>4
  <2> QED
    BY <2>4, <2>5 DEF P
<1>8. \A i \in 0..n : Len(w[i]) <= cap
  <2>1. \A i \in 0..n : n - i \in 0..n /\ n - (n - i) = i
    BY <1>4
  <2> QED
    BY <1>7, <2>1
<1>9. \A i \in 0..n : acc[i] = Put(w[i])
  <2> DEFINE P == {i \in Nat : i <= n => acc[i] = Put(w[i])}
  <2>1. 0 \in P
    BY <1>1, <1>5
  <2>2. ASSUME NEW i \in 1..n, i - 1 \in P
        PROVE  i \in P
    <3>1. i - 1 <= n /\ i \in Nat /\ i \in 0..n /\ i - 1 \in 0..n
      BY <1>4
    <3>2. acc[i - 1] = Put(w[i - 1])
      BY <2>2, <3>1
    <3>3. /\ acc[i - 1].error = "none" /\ acc[i - 1].bytes = w[i - 1]
          /\ puts[i].error = "none"
      BY <1>0, <3>2, PutParts, Zenon DEF n
    <3>4. ~(Len(w[i - 1]) + Len(puts[i].bytes) > cap)
      <4>1. Len(w[i]) = Len(w[i - 1]) + Len(puts[i].bytes) /\ Len(w[i]) <= cap
        BY <1>6, <1>8, <3>1, Zenon
      <4>2. Len(w[i]) \in Nat
        BY ONLY <1>5, <3>1
      <4>3. Len(w[i - 1]) \in Nat /\ Len(puts[i].bytes) \in Nat
        <5>1. w[i - 1] \in Seq(Byte) /\ puts[i].bytes \in Seq(Byte)
          BY <1>4, <1>5, <3>1
        <5> QED
          BY <5>1
      <4>4. \A j, k, l, m \in Nat : l = j + k /\ l <= m => ~(j + k > m)
        BY ONLY SMT
      <4> QED
        BY <4>1, <4>2, <4>3, <4>4, Zenon
    <3>5. acc[i] = Put(w[i - 1] \o puts[i].bytes)
      BY <1>1, <3>3, <3>4, Zenon DEF PutWithin
    <3>6. acc[i] = Put(w[i])
      BY <1>5, <3>5, Zenon
    <3> QED
      BY <3>1, <3>6
  <2>3. P \in SUBSET Nat
    OBVIOUS
  <2> HIDE DEF P
  <2>4. \A i \in 0..n : i \in P
    BY <1>4, <2>1, <2>2, <2>3, UpTo, Zenon
  <2>5. \A i \in 0..n : i \in Nat /\ i <= n
    BY <1>4
  <2> QED
    BY <2>4, <2>5 DEF P
<1>10. n \in 0..n
  BY <1>4
<1>11. Write(cap, puts) = Put(w[n])
  BY <1>1, <1>9, <1>10
<1> QED
  BY <1>11, PutParts, Zenon

-----------------------------------------------------------------------------
(* What puts give is the same wherever they are put. *)
LEMMA JoinedUnique ==
    ASSUME NEW puts \in Seq(PutSet), NEW x, NEW y, Joined(puts, x), Joined(puts, y)
    PROVE  x = y
<1> DEFINE n == Len(puts)
<1>1. PICK v : Growth(v, puts, x)
  BY Zenon DEF Joined
<1>2. PICK w : Growth(w, puts, y)
  BY Zenon DEF Joined
<1>3. n \in Nat
  OBVIOUS
<1>4. v[0] = << >> /\ v[n] = x /\ \A i \in 1..n : v[i] = v[i - 1] \o puts[i].bytes
  BY <1>1, Zenon DEF Growth
<1>5. w[0] = << >> /\ w[n] = y /\ \A i \in 1..n : w[i] = w[i - 1] \o puts[i].bytes
  BY <1>2, Zenon DEF Growth
<1> HIDE DEF n
<1> DEFINE P == {i \in Nat : i <= n => v[i] = w[i]}
<1>6. 0 \in P
  BY <1>4, <1>5
<1>7. ASSUME NEW i \in 1..n, i - 1 \in P
      PROVE  i \in P
  <2>1. i - 1 <= n /\ i \in Nat
    BY <1>3
  <2>2. v[i - 1] = w[i - 1]
    BY <1>7, <2>1
  <2>3. v[i] = w[i]
    BY <1>4, <1>5, <2>2, Zenon
  <2> QED
    BY <2>1, <2>3
<1>8. P \in SUBSET Nat
  OBVIOUS
<1> HIDE DEF P
<1>9. \A i \in 0..n : i \in P
  BY <1>3, <1>6, <1>7, <1>8, UpTo, Zenon
<1>10. n \in 0..n /\ n <= n
  BY <1>3
<1>11. n \in P
  BY <1>9, <1>10, Zenon
<1>12. v[n] = w[n]
  BY <1>10, <1>11 DEF P
<1> QED
  BY <1>4, <1>5, <1>12, Zenon

(* A buffer that grows holds it in the end. *)
LEMMA V4Same ==
    ASSUME NEW puts \in Seq(PutSet), NEW x, Joined(puts, x)
    PROVE  V4Puts(puts) = Put(x)
<1>1. PICK w : Growth(w, puts, x)
  BY Zenon DEF Joined
<1>2. Sound(puts)
  BY <1>1, Zenon DEF Growth, Sound
<1>3. PICK y \in Seq(Byte) : V4Puts(puts) = Put(y) /\ Joined(puts, y)
  BY <1>2, V4Takes, Zenon
<1>4. x = y
  BY <1>3, JoinedUnique, Zenon
<1> QED
  BY <1>3, <1>4, Zenon

(* A buffer of packetview holds no more than it can. *)
LEMMA WriteWithin ==
    ASSUME NEW cap \in Nat, NEW puts \in Seq(PutSet), Write(cap, puts).error = "none"
    PROVE  Len(Write(cap, puts).bytes) <= cap
<1> DEFINE n == Len(puts)
<1>1. PICK acc \in [0..n -> PutSet] :
          /\ acc[0] = Put(<< >>)
          /\ acc[n] = Write(cap, puts)
          /\ \A i \in 1..n : acc[i] = PutWithin(cap, acc[i - 1], puts[i])
  BY WriteRuns
<1>2. n \in Nat /\ \A i \in 1..n : i \in 0..n /\ i - 1 \in 0..n /\ puts[i] \in PutSet
  OBVIOUS
<1> HIDE DEF n
<1>3. \A x \in PutSet : x.bytes \in Seq(Byte)
  BY DEF PutSet
<1> DEFINE P == {i \in Nat : i <= n => (acc[i].error = "none" => Len(acc[i].bytes) <= cap)}
<1>4. 0 \in P
  <2>1. acc[0].bytes = << >>
    BY <1>1, PutParts, Zenon
  <2> QED
    BY <2>1
<1>5. ASSUME NEW i \in 1..n, i - 1 \in P
      PROVE  i \in P
  <2> SUFFICES ASSUME acc[i].error = "none"
               PROVE  Len(acc[i].bytes) <= cap
    BY <1>2
  <2>1. acc[i] = PutWithin(cap, acc[i - 1], puts[i])
    BY <1>1
  <2>2. Fail("NotEnoughCapacity").error # "none"
    BY DEF Fail
  <2> DEFINE a == acc[i - 1].bytes
             b == puts[i].bytes
  <2>3. a \in Seq(Byte) /\ b \in Seq(Byte)
    BY <1>1, <1>2, <1>3
  <2>4. acc[i - 1].error = "none" /\ puts[i].error = "none"
    BY <2>1, Zenon DEF PutWithin
  <2>5. ~(Len(a) + Len(b) > cap) /\ acc[i] = Put(a \o b)
    BY <2>1, <2>2, <2>4, Zenon DEF PutWithin
  <2> HIDE DEF a, b
  <2>6. acc[i].bytes = a \o b
    BY <2>5, PutParts, Zenon
  <2>7. Len(a \o b) = Len(a) + Len(b) /\ Len(a) \in Nat /\ Len(b) \in Nat
    BY <2>3, ConcatTyped
  <2>8. Len(a \o b) <= cap
    BY <2>5, <2>7
  <2> QED
    BY <2>6, <2>8, Zenon
<1>6. P \in SUBSET Nat
  OBVIOUS
<1> HIDE DEF P
<1>7. \A i \in 0..n : i \in P
  BY <1>2, <1>4, <1>5, <1>6, UpTo, Zenon
<1>8. n \in 0..n /\ n <= n
  BY <1>2
<1>9. n \in P
  BY <1>7, <1>8, Zenon
<1>10. acc[n].error = "none" => Len(acc[n].bytes) <= cap
  BY <1>8, <1>9 DEF P
<1> QED
  BY <1>1, <1>10, Zenon

(* The size of a frame, which either codec computes. *)
LEMMA FrameLength ==
    ASSUME NEW b1 \in Byte, NEW n \in Nat, n <= MaxRemaining, NEW x \in Seq(Byte), Len(x) = n
    PROVE  /\ FrameBytes(b1, n, x) \in Seq(Byte)
           /\ Len(FrameBytes(b1, n, x)) = 1 + V4LenLen(n) + n
           /\ Len(FrameBytes(b1, n, x)) <= n + 5
<1>2. /\ FrameBytes(b1, n, x) \in Seq(Byte)
      /\ Len(FrameBytes(b1, n, x)) = 1 + LengthBytes(n) + n
  BY FrameParts
<1>3. LengthBytes(n) \in 1..4
  BY LengthBytesRange
<1>4. V4LenLen(n) = LengthBytes(n)
  <2> DEFINE Has(k) == (k = 4 \/ n < Weight[k + 1]) /\ (k = 1 \/ n >= Weight[k])
  <2>2. \A k \in 1..4 : Has(k) <=> k = LengthBytes(n)
    BY WeightValues, SMTT(30) DEF LengthBytes
  <2> HIDE DEF Has
  <2>3. (CHOOSE k \in 1..4 : Has(k)) = LengthBytes(n)
    BY <1>3, <2>2
  <2> QED
    BY <2>3, Zenon DEF V4LenLen, Has
<1>5. Len(FrameBytes(b1, n, x)) <= n + 5
  BY ONLY <1>2, <1>3, n \in Nat
<1> QED
  BY <1>2, <1>4, <1>5, Zenon

(* What the writer of mqttbytes makes of a packet, and what it announces. *)
AsV4(q, f) == V4Write(q, MaxRemaining) = Put(f) /\ V4Size(q) = Len(f)

(* It makes a frame that its puts give. *)
LEMMA FrameAsV4 ==
    ASSUME NEW puts \in Seq(PutSet), NEW f, Joined(puts, f),
           NEW b1 \in Byte, NEW n \in Nat, n <= MaxRemaining, NEW x \in Seq(Byte), Len(x) = n,
           f = FrameBytes(b1, n, x), Len(f) <= MaxRemaining,
           NEW q, V4Packet(q) = puts, V4Len(q) = n
    PROVE  AsV4(q, f)
<1>1. f \in Seq(Byte) /\ Len(f) = 1 + V4LenLen(n) + n
  BY FrameLength, Zenon
<1>2. V4Size(q) = Len(f)
  BY <1>1, Zenon DEF V4Size
<1>3. ~(V4Size(q) > MaxRemaining)
  <2>1. Len(f) \in Nat
    BY <1>1
  <2>2. \A m \in Nat : m <= MaxRemaining => ~(m > MaxRemaining)
    BY ONLY SMT DEF MaxRemaining
  <2> QED
    BY <1>2, <2>1, <2>2, Zenon
<1>4. V4Puts(puts) = Put(f)
  BY V4Same, Zenon
<1>5. V4Write(q, MaxRemaining) = Put(f)
  BY <1>3, <1>4, Zenon DEF V4Write
<1> QED
  BY <1>2, <1>5, Zenon DEF AsV4

-----------------------------------------------------------------------------
(* A writer of packetview that puts what mqttbytes puts. *)
LEMMA WrittenAsV4 ==
    ASSUME NEW cap \in Nat, cap <= MaxRemaining,
           NEW puts \in Seq(PutSet), Write(cap, puts).error = "none",
           NEW b1 \in Byte, NEW n \in Nat, n <= MaxRemaining, NEW x \in Seq(Byte), Len(x) = n,
           Write(cap, puts).bytes = FrameBytes(b1, n, x),
           NEW q, V4Packet(q) = puts, V4Len(q) = n
    PROVE  AsV4(q, Write(cap, puts).bytes)
<1> DEFINE f == Write(cap, puts).bytes
<1>1. Joined(puts, f)
  BY WriteJoins, Zenon
<1>2. Len(f) <= cap
  BY WriteWithin, Zenon
<1>3. f \in Seq(Byte)
  BY FrameLength, Zenon
<1> HIDE DEF f
<1>4. Len(f) <= MaxRemaining
  <2>1. Len(f) \in Nat
    BY <1>3
  <2> QED
    BY ONLY <1>2, <2>1, cap \in Nat, cap <= MaxRemaining, SMT DEF MaxRemaining
<1>5. f = FrameBytes(b1, n, x)
  BY Zenon DEF f
<1>6. AsV4(q, f)
  BY <1>1, <1>4, <1>5, FrameAsV4, Zenon
<1> QED
  BY <1>6, Zenon DEF f

(* The puts of a frame. *)
LEMMA HeadedTyped ==
    ASSUME NEW b1 \in Byte, NEW n \in Nat, NEW body \in Seq(PutSet)
    PROVE  <<Put(<<b1>>), PutLength(n)>> \o body \in Seq(PutSet)
<1>1. <<b1>> \in Seq(Byte)
  OBVIOUS
<1>2. Put(<<b1>>) \in PutSet /\ PutLength(n) \in PutSet
  BY <1>1, PutTyped, PutLengthTyped, Zenon
<1>3. <<Put(<<b1>>), PutLength(n)>> \in Seq(PutSet)
  BY <1>2, Pair, Zenon
<1> QED
  BY <1>3, PutsTyped, Zenon

(* The types of packets that have tables of their own. *)
LEMMA DomainsOfV4 ==
    /\ DOMAIN V4AckByte1 = {"PubAck", "PubRec", "PubRel", "PubComp"}
    /\ DOMAIN V4Empty = {"PingReq", "PingResp", "Disconnect"}
BY DEF V4AckByte1, V4Empty

(* PubAck, PubRec, PubRel and PubComp. *)
LEMMA AckAsV4 ==
    ASSUME NEW cap \in Nat, cap <= MaxRemaining,
           NEW p \in PacketSet, p.type \in AckTypes, p.type # "UnsubAck",
           WriteAck(p, cap).error = "none"
    PROVE  AsV4(p, WriteAck(p, cap).bytes)
<1> DEFINE b1 == AckByte1[p.type]
           c == Put(U16(p.pkid))
           puts == <<Put(<<b1>>), PutLength(2)>> \o <<c>>
<1>1. b1 \in Byte /\ WriteAck(p, cap).bytes = FrameBytes(b1, 2, U16(p.pkid))
  BY AckFrame, Zenon
<1>2. p.pkid \in Nat
  <2>1. p.pkid \in Word16
    BY AckFields
  <2> QED
    BY <2>1, WordIsNat
<1>3. V4Packet(p) = <<Put(<<b1>>), PutLength(2), c>>
  <2>1. p.type \in {"PubAck", "PubRec", "PubRel", "PubComp"}
    BY DEF AckTypes
  <2>3. V4Packet(p) = V4WriteAck(p)
    BY <2>1, DomainsOfV4 DEF V4Packet
  <2>4. V4AckByte1[p.type] = b1
    BY <2>1 DEF V4AckByte1, AckByte1
  <2> QED
    BY <2>3, <2>4, Zenon DEF V4WriteAck
<1>4. V4Len(p) = 2
  BY DEF V4Len, AckTypes
<1>5. WriteAck(p, cap) = Write(cap, <<Put(<<b1>>), PutLength(2), c>>)
  BY Zenon DEF WriteAck
<1> HIDE DEF b1
<1>6. /\ U16(p.pkid) \in Seq(Byte) /\ Len(U16(p.pkid)) = 2 /\ c \in PutSet
      /\ 2 \in Nat /\ 2 <= MaxRemaining
  <2>1. 2 \in Nat /\ 2 <= MaxRemaining
    BY SMT DEF MaxRemaining
  <2> QED
    BY <1>1, <1>2, <2>1, SomeBytes, Zenon
<1> HIDE DEF c
<1>7. puts \in Seq(PutSet)
  <2>1. <<c>> \in Seq(PutSet)
    BY <1>6
  <2> QED
    BY <1>1, <1>6, <2>1, HeadedTyped, Zenon
<1>8. <<Put(<<b1>>), PutLength(2), c>> = puts
  BY AfterTwo, Zenon
<1> HIDE DEF puts
<1>9. V4Packet(p) = puts /\ WriteAck(p, cap) = Write(cap, puts)
  BY <1>3, <1>5, <1>8, Zenon
<1> QED
  BY <1>1, <1>4, <1>6, <1>7, <1>9, WrittenAsV4, Zenon

(* ConnAck. *)
LEMMA ConnAckAsV4 ==
    ASSUME NEW cap \in Nat, cap <= MaxRemaining,
           NEW p \in PacketSet, p.type = "ConnAck", WriteConnAck(p, cap).error = "none"
    PROVE  AsV4(p, WriteConnAck(p, cap).bytes)
<1> DEFINE x == ConnAckBody(p)
           c == Put(x)
<1>0. PICK b1 : b1 = 32
  OBVIOUS
<1> DEFINE puts == <<Put(<<b1>>), PutLength(2)>> \o <<c>>
<1>1. b1 \in Byte /\ WriteConnAck(p, cap).bytes = FrameBytes(b1, 2, x)
  BY <1>0, ConnAckFrame DEF Byte
<1>2. x \in Seq(Byte) /\ Len(x) = 2
  BY ConnAckBytes, Zenon
<1>3. V4Packet(p) = <<Put(<<b1>>), PutLength(2), c>>
  <2>1. V4Packet(p) = V4WriteConnAck(p)
    BY DomainsOfV4 DEF V4Packet
  <2>2. V4Flag(p.session_present, 1) = Flag(p.session_present, 1)
    BY Zenon DEF V4Flag, Flag
  <2> QED
    BY <1>0, <2>1, <2>2, Zenon DEF V4WriteConnAck, ConnAckBody
<1>4. V4Len(p) = 2
  BY DEF V4Len
<1>5. WriteConnAck(p, cap) = Write(cap, <<Put(<<b1>>), PutLength(2), c>>)
  BY <1>0, Zenon DEF WriteConnAck, ConnAckBody
<1> HIDE DEF x
<1>6. c \in PutSet /\ 2 \in Nat /\ 2 <= MaxRemaining
  <2>1. 2 \in Nat /\ 2 <= MaxRemaining
    BY SMT DEF MaxRemaining
  <2> QED
    BY <1>2, <2>1, PutTyped, Zenon
<1> HIDE DEF c
<1>7. puts \in Seq(PutSet)
  <2>1. <<c>> \in Seq(PutSet)
    BY <1>6
  <2> QED
    BY <1>1, <1>6, <2>1, HeadedTyped, Zenon
<1>8. <<Put(<<b1>>), PutLength(2), c>> = puts
  BY AfterTwo, Zenon
<1> HIDE DEF puts
<1>9. V4Packet(p) = puts /\ WriteConnAck(p, cap) = Write(cap, puts)
  BY <1>3, <1>5, <1>8, Zenon
<1> QED
  BY <1>1, <1>2, <1>4, <1>6, <1>7, <1>9, WrittenAsV4, Zenon

(* SubAck. *)
LEMMA SubAckAsV4 ==
    ASSUME NEW cap \in Nat, cap <= MaxRemaining,
           NEW p \in PacketSet, p.type = "SubAck", WriteSubAck(p, cap).error = "none"
    PROVE  AsV4(p, WriteSubAck(p, cap).bytes)
<1> DEFINE n == 2 + Len(p.codes)
           c == Put(U16(p.pkid))
           d == Put(p.codes)
<1>0. PICK b1 : b1 = 144
  OBVIOUS
<1> DEFINE puts == <<Put(<<b1>>), PutLength(n)>> \o <<c, d>>
<1>1. /\ b1 \in Byte
      /\ SubAckBody(p) \in Seq(Byte) /\ Len(SubAckBody(p)) = n
      /\ n <= MaxRemaining
      /\ WriteSubAck(p, cap).bytes = FrameBytes(b1, n, SubAckBody(p))
  <2>1. b1 \in Byte
    BY <1>0 DEF Byte
  <2> QED
    BY <1>0, <2>1, SubAckFrame, Zenon
<1>2. p.pkid \in Nat /\ p.codes \in Seq(Byte)
  BY CodesAreBytes, Zenon
<1>3. V4Packet(p) = <<Put(<<b1>>), PutLength(n), c, d>>
  <2>1. V4Packet(p) = V4WriteSubAck(p)
    BY DomainsOfV4 DEF V4Packet
  <2> QED
    BY <1>0, <2>1, Zenon DEF V4WriteSubAck
<1>4. V4Len(p) = n
  BY DEF V4Len
<1>5. WriteSubAck(p, cap) = Write(cap, <<Put(<<b1>>), PutLength(n), c, d>>)
  BY <1>0, Zenon DEF WriteSubAck
<1>6. c \in PutSet /\ d \in PutSet /\ n \in Nat
  <2>1. c \in PutSet
    BY <1>1, <1>2, SomeBytes, Zenon
  <2>2. d \in PutSet
    BY <1>2, PutTyped, Zenon
  <2>3. n \in Nat
    BY <1>2
  <2> QED
    BY <2>1, <2>2, <2>3, Zenon
<1> HIDE DEF c, d, n
<1>7. puts \in Seq(PutSet)
  <2>1. <<c, d>> \in Seq(PutSet)
    BY <1>6, Pair, Zenon
  <2> QED
    BY <1>1, <1>6, <2>1, HeadedTyped, Zenon
<1>8. <<Put(<<b1>>), PutLength(n), c, d>> = puts
  BY SMT
<1> HIDE DEF puts
<1>9. V4Packet(p) = puts /\ WriteSubAck(p, cap) = Write(cap, puts)
  BY <1>3, <1>5, <1>8, Zenon
<1> QED
  BY <1>1, <1>4, <1>6, <1>7, <1>9, WrittenAsV4, Zenon

(* PingReq, PingResp and Disconnect. *)
LEMMA EmptyAsV4 ==
    ASSUME NEW cap \in Nat, cap <= MaxRemaining,
           NEW p \in PacketSet, p.type \in {"PingReq", "PingResp", "Disconnect"},
           WriteEmpty(p, cap).error = "none"
    PROVE  AsV4(p, WriteEmpty(p, cap).bytes)
<1> DEFINE b1 == EmptyByte1[p.type]
           t == <<b1, 0>>
           c == Put(t)
<1>1. b1 \in Byte /\ WriteEmpty(p, cap).bytes = FrameBytes(b1, 0, << >>)
  BY EmptyFrame, Zenon
<1>3. V4Packet(p) = <<c>>
  <2>3. V4Packet(p) = <<Put(V4Empty[p.type])>>
    BY DomainsOfV4 DEF V4Packet
  <2>4. V4Empty[p.type] = t
    BY DEF V4Empty, EmptyByte1
  <2> QED
    BY <2>3, <2>4, Zenon
<1>4. V4Len(p) = 0
  BY DEF V4Len
<1>5. WriteEmpty(p, cap) = Write(cap, <<c>>)
  BY Zenon DEF WriteEmpty
<1> HIDE DEF b1
<1>6. t \in Seq(Byte) /\ << >> \in Seq(Byte) /\ Len(<< >>) = 0 /\ 0 \in Nat /\ 0 <= MaxRemaining
  <2>1. 0 \in Byte
    BY DEF Byte
  <2> QED
    BY <1>1, <2>1 DEF MaxRemaining
<1>7. <<c>> \in Seq(PutSet)
  <2>1. c \in PutSet
    BY <1>6, PutTyped, Zenon
  <2> HIDE DEF c
  <2> QED
    BY <2>1
<1> HIDE DEF c
<1> QED
  BY <1>1, <1>3, <1>4, <1>5, <1>6, <1>7, WrittenAsV4, Zenon

-----------------------------------------------------------------------------
(* A first byte, a length and puts that give the bytes x, and only those. *)
Whole(b1, n, body, x) ==
    /\ b1 \in Byte /\ n \in Nat /\ n <= MaxRemaining
    /\ Sound(body)
    /\ x \in Seq(Byte) /\ Len(x) = n /\ Only(body, x)

(* Puts in front of sound ones. *)
LEMMA SoundTwo ==
    ASSUME NEW a \in PutSet, NEW b \in PutSet, NEW body, Sound(body),
           a.error = "none", b.error = "none"
    PROVE  Sound(<<a, b>> \o body)
<1> DEFINE head == <<a, b>>
           puts == head \o body
<1>1. /\ head \in Seq(PutSet) /\ Len(head) = 2 /\ head[1] = a /\ head[2] = b
      /\ body \in Seq(PutSet) /\ Len(body) \in Nat
      /\ \A i \in 1..Len(body) : body[i].error = "none"
  <2>1. body \in Seq(PutSet) /\ \A i \in 1..Len(body) : body[i].error = "none"
    BY Zenon DEF Sound
  <2> QED
    BY <2>1
<1> HIDE DEF head
<1>2. /\ puts \in Seq(PutSet) /\ Len(puts) = 2 + Len(body)
      /\ \A i \in 1..(2 + Len(body)) : puts[i] = IF i <= 2 THEN head[i] ELSE body[i - 2]
  <2>1. /\ puts \in Seq(PutSet) /\ Len(puts) = Len(head) + Len(body)
        /\ \A i \in 1..(Len(head) + Len(body)) :
              puts[i] = IF i <= Len(head) THEN head[i] ELSE body[i - Len(head)]
    BY <1>1, ConcatProperties
  <2>2. Len(head) = 2
    BY <1>1
  <2> HIDE DEF puts
  <2> QED
    BY <2>1, <2>2, Zenon
<1>3. ASSUME NEW i \in 1..Len(puts)
      PROVE  puts[i].error = "none"
  <2>1. CASE i <= 2
    <3>1. puts[i] = head[i]
      BY <1>2, <2>1
    <3>2. i = 1 \/ i = 2
      BY <1>1, <1>2, <2>1
    <3> QED
      BY <1>1, <3>1, <3>2, Zenon
  <2>2. CASE ~(i <= 2)
    <3>1. puts[i] = body[i - 2] /\ i - 2 \in 1..Len(body)
      BY <1>1, <1>2, <2>2
    <3> QED
      BY <1>1, <3>1
  <2> QED
    BY <2>1, <2>2
<1> QED
  BY <1>2, <1>3 DEF Sound, head

(* They make one frame. *)
LEMMA WholeSound ==
    ASSUME NEW b1, NEW n, NEW body, NEW x, Whole(b1, n, body, x)
    PROVE  /\ Sound(<<Put(<<b1>>), PutLength(n)>> \o body)
           /\ \A bytes : Joined(<<Put(<<b1>>), PutLength(n)>> \o body, bytes)
                            => bytes = FrameBytes(b1, n, x)
<1>1. /\ b1 \in Byte /\ n \in Nat /\ n <= MaxRemaining /\ Sound(body)
      /\ x \in Seq(Byte) /\ Len(x) = n /\ Only(body, x)
  BY Zenon DEF Whole
<1>2. <<b1>> \in Seq(Byte)
  BY <1>1
<1>3. Put(<<b1>>) \in PutSet /\ Put(<<b1>>).error = "none"
  BY <1>2, PutTyped, Zenon
<1>4. PutLength(n) \in PutSet /\ PutLength(n).error = "none"
  <2>1. PutLength(n) \in PutSet
    BY <1>1, PutLengthTyped
  <2>2. ~(n > MaxRemaining)
    BY <1>1 DEF MaxRemaining
  <2>3. PutLength(n) = Put(EncodeLength(n))
    BY <2>2, Zenon DEF PutLength
  <2> QED
    BY <2>1, <2>3, PutParts, Zenon
<1>5. body \in Seq(PutSet)
  BY <1>1, Zenon DEF Sound
<1>6. ASSUME NEW bytes, Joined(<<Put(<<b1>>), PutLength(n)>> \o body, bytes)
      PROVE  bytes = FrameBytes(b1, n, x)
  <2>1. Headed(b1, n, body, bytes)
    BY <1>1, <1>5, <1>6, HeaderJoined, Zenon
  <2>2. PICK rest \in Seq(Byte) : Joined(body, rest) /\ bytes = FrameBytes(b1, n, rest)
    BY <2>1, Zenon DEF Headed
  <2>3. rest = x
    BY <1>1, <2>2, Zenon DEF Only
  <2> QED
    BY <2>2, <2>3, Zenon
<1> QED
  BY <1>1, <1>3, <1>4, <1>6, SoundTwo, Zenon

(* mqttbytes writes that frame. *)
LEMMA WholeAsV4 ==
    ASSUME NEW b1, NEW n, NEW body, NEW x, Whole(b1, n, body, x),
           Len(FrameBytes(b1, n, x)) <= MaxRemaining,
           NEW q, V4Packet(q) = <<Put(<<b1>>), PutLength(n)>> \o body, V4Len(q) = n
    PROVE  AsV4(q, FrameBytes(b1, n, x))
<1> DEFINE puts == <<Put(<<b1>>), PutLength(n)>> \o body
           f == FrameBytes(b1, n, x)
<1>1. Sound(puts) /\ \A bytes : Joined(puts, bytes) => bytes = f
  BY WholeSound, Zenon
<1>2. /\ b1 \in Byte /\ n \in Nat /\ n <= MaxRemaining
      /\ x \in Seq(Byte) /\ Len(x) = n
  BY Zenon DEF Whole
<1> HIDE DEF puts
<1>3. puts \in Seq(PutSet)
  BY <1>1, Zenon DEF Sound
<1>4. PICK y \in Seq(Byte) : Joined(puts, y)
  BY <1>1, V4Takes, Zenon
<1>5. Joined(puts, f)
  BY <1>1, <1>4, Zenon
<1>6. V4Packet(q) = puts
  BY Zenon DEF puts
<1> QED
  BY <1>2, <1>3, <1>5, <1>6, FrameAsV4, Zenon

-----------------------------------------------------------------------------
(* The length two takes one byte. *)
LEMMA TwoLength ==
    ASSUME NEW z \in Nat, z = 2
    PROVE  EncodeLength(z) = <<z>>
<1>1. LengthBytes(z) = 1
  BY DEF LengthBytes
<1>2. EncodeLength(z) \in Seq(Byte) /\ Len(EncodeLength(z)) = 1
  <2>1. z <= MaxRemaining
    BY SMT DEF MaxRemaining
  <2> QED
    BY <1>1, <2>1, EncodedBytes, Zenon
<1>3. EncodeLength(z) = [i \in 1..1 |-> ((z \div Weight[i]) % 128) + (IF i < 1 THEN 128 ELSE 0)]
  BY <1>1, ZenonT(60) DEF EncodeLength
<1>4. EncodeLength(z)[1] = ((z \div Weight[1]) % 128) + 0
  BY <1>3, SMT
<1>5. Weight[1] = 1
  BY WeightValues, SMT
<1>6. EncodeLength(z)[1] = z
  BY <1>4, <1>5, SMT
<1> QED
  BY <1>2, <1>6, SMT

(* UnsubAck, whose header mqttbytes writes from an array. *)
LEMMA UnsubAckAsV4 ==
    ASSUME NEW cap \in Nat, cap <= MaxRemaining,
           NEW p \in PacketSet, p.type = "UnsubAck", WriteAck(p, cap).error = "none"
    PROVE  AsV4(p, WriteAck(p, cap).bytes)
<1> DEFINE x == U16(p.pkid)
           f == WriteAck(p, cap).bytes
<1>0. PICK b1, z : b1 = 176 /\ z = 2
  OBVIOUS
<1> DEFINE t == <<b1, z>>
           a == Put(t)
           c == Put(x)
           all == <<Put(<<b1>>), PutLength(z), c>>
<1>1. b1 \in Byte /\ z \in Byte /\ f = FrameBytes(b1, z, x)
  <2>1. p.type \in AckTypes
    BY DEF AckTypes
  <2>2. AckByte1[p.type] = 176
    BY DEF AckByte1
  <2> QED
    BY <1>0, <2>1, <2>2, AckFrame DEF Byte
<1>2. p.pkid \in Nat
  <2>1. p.pkid \in Word16
    BY AckFields DEF AckTypes
  <2> QED
    BY <2>1, WordIsNat
<1>3. V4Packet(p) = <<a, c>>
  <2>1. V4Packet(p) = V4WriteUnsubAck(p)
    BY DomainsOfV4 DEF V4Packet
  <2> QED
    BY <1>0, <2>1, Zenon DEF V4WriteUnsubAck
<1>4. V4Len(p) = z
  BY <1>0 DEF V4Len
<1>5. WriteAck(p, cap) = Write(cap, all)
  <2>1. AckByte1[p.type] = 176
    BY DEF AckByte1
  <2> QED
    BY <1>0, <2>1, Zenon DEF WriteAck
<1>6. /\ x \in Seq(Byte) /\ Len(x) = z
      /\ z \in Nat /\ z <= MaxRemaining
  <2>1. z \in Nat /\ z <= MaxRemaining
    BY <1>0, SMT DEF MaxRemaining
  <2> QED
    BY <1>0, <1>2, <2>1, CastLength
<1>7. t \in Seq(Byte) /\ t = <<b1>> \o EncodeLength(z)
  <2>1. t \in Seq(Byte)
    BY <1>1
  <2>2. t = <<b1>> \o <<z>>
    BY <1>1, PairOf, Zenon
  <2> QED
    BY <1>0, <1>6, <2>1, <2>2, TwoLength, Zenon
<1>8. a \in PutSet /\ a.bytes = t /\ c \in PutSet /\ c.bytes = x /\ a.error = "none" /\ c.error = "none"
  BY <1>6, <1>7, PutTyped, PutParts, Zenon
<1>9. Len(f) <= cap /\ f \in Seq(Byte)
  <2>1. all \in Seq(PutSet)
    <3>1. Put(<<b1>>) \in PutSet /\ PutLength(z) \in PutSet
      BY <1>1, <1>6, SomeBytes, PutLengthTyped, Zenon
    <3> HIDE DEF c
    <3> QED
      BY <1>8, <3>1, Triple, Zenon
  <2>2. f \in Seq(Byte)
    BY <1>1, <1>6, FrameLength, Zenon
  <2> HIDE DEF all
  <2> QED
    BY <1>5, <2>1, <2>2, WriteWithin, Zenon
<1> HIDE DEF a, c, t, x, all
<1>10. <<a, c>> \in Seq(PutSet)
  BY <1>8, Pair, Zenon
<1>11. Joined(<<a, c>>, f)
  <2>1. Sound(<<a, c>>)
    <3>1. \A i \in 1..Len(<<a, c>>) : <<a, c>>[i].error = "none"
      BY <1>8
    <3> QED
      BY <1>10, <3>1, Zenon DEF Sound
  <2>2. PICK y \in Seq(Byte) : Joined(<<a, c>>, y)
    BY <2>1, V4Takes, Zenon
  <2>3. y = t \o x
    BY <1>8, <2>2, JoinedTwo, Zenon
  <2> QED
    BY <1>1, <1>7, <2>2, <2>3, Zenon DEF FrameBytes
<1> HIDE DEF f
<1>12. Len(f) <= MaxRemaining
  <2>1. Len(f) \in Nat
    BY <1>9
  <2> QED
    BY ONLY <1>9, <2>1, cap \in Nat, cap <= MaxRemaining, SMT DEF MaxRemaining
<1>13. AsV4(p, f)
  BY <1>1, <1>3, <1>4, <1>6, <1>10, <1>11, <1>12, FrameAsV4, Zenon
<1> QED
  BY <1>13, Zenon DEF f

-----------------------------------------------------------------------------
(* The identifier of a publish, where it is not missing. *)
LEMMA SamePkid ==
    ASSUME NEW p, p.qos # 0 => p.pkid # 0
    PROVE  V4PutPkid(p) = PutPkid(p)
BY Zenon DEF V4PutPkid, PutPkid

(* What mqttbytes puts of a publish. *)
LEMMA PublishPuts ==
    ASSUME NEW p \in PacketSet, p.type = "Publish", p.qos # 0 => p.pkid # 0
    PROVE  /\ V4Packet(p) = <<Put(<<PublishByte1(p)>>), PutLength(PublishLen(p)),
                              Put(MqttBytes(p.topic)), PutPkid(p), Put(p.payload)>>
           /\ V4Len(p) = PublishLen(p)
<1>1. V4Packet(p) = V4WritePublish(p) /\ V4Len(p) = V4PublishLen(p)
  BY DomainsOfV4 DEF V4Packet, V4Len
<1>2. PublishByte1(p) = 48 + V4Flag(p.retain, 1) + 2 * p.qos + V4Flag(p.dup, 8)
  BY Zenon DEF PublishByte1, Flag, V4Flag
<1>3. V4PublishLen(p) = PublishLen(p)
  <2>1. Len(p.topic) \in Nat /\ Len(p.payload) \in Nat
    BY PublishTyped
  <2> QED
    BY <2>1 DEF V4PublishLen, PublishLen, V4StringLen, V4Flag
<1> QED
  BY <1>1, <1>2, <1>3, SamePkid, Zenon DEF V4WritePublish

(* Publish::write. *)
LEMMA PublishAsV4 ==
    ASSUME NEW cap \in Nat, cap <= MaxRemaining,
           NEW p \in PacketSet, p.type = "Publish", WritePublish(p, cap).error = "none"
    PROVE  AsV4(p, WritePublish(p, cap).bytes)
<1> DEFINE b1 == PublishByte1(p)
           n == PublishLen(p)
           c == Put(MqttBytes(p.topic))
           d == PutPkid(p)
           e == Put(p.payload)
           puts == <<Put(<<b1>>), PutLength(n)>> \o <<c, d, e>>
           x == PublishBody(p)
<1>1. /\ x \in Seq(Byte) /\ Len(x) = n
      /\ n \in Nat /\ n <= MaxRemaining
      /\ p.qos # 0 => p.pkid # 0
      /\ WritePublish(p, cap).bytes = FrameBytes(b1, n, x)
  BY PublishFrame, Zenon
<1>2. V4Packet(p) = <<Put(<<b1>>), PutLength(n), c, d, e>> /\ V4Len(p) = n
  BY <1>1, PublishPuts, Zenon
<1>3. WritePublish(p, cap) = Write(cap, <<Put(<<b1>>), PutLength(n), c, d, e>>)
  BY Zenon DEF WritePublish
<1>4. b1 \in Byte /\ p.topic \in Seq(Byte) /\ p.payload \in Seq(Byte)
  BY PublishTyped
<1>5. c \in PutSet /\ d \in PutSet /\ e \in PutSet
  <2>1. MqttBytes(p.topic) \in Seq(Byte)
    BY <1>4, MqttBytesTyped, Zenon
  <2> QED
    BY <1>4, <2>1, PutTyped, PutPkidTyped, Zenon
<1> HIDE DEF b1, n, c, d, e, x
<1>6. puts \in Seq(PutSet)
  <2>1. <<c, d, e>> \in Seq(PutSet)
    BY <1>5, Triple, Zenon
  <2> QED
    BY <1>1, <1>4, <2>1, HeadedTyped, Zenon
<1>7. <<Put(<<b1>>), PutLength(n), c, d, e>> = puts
  BY SMT
<1> HIDE DEF puts
<1>8. V4Packet(p) = puts /\ WritePublish(p, cap) = Write(cap, puts)
  BY <1>2, <1>3, <1>7, Zenon
<1> QED
  BY <1>1, <1>2, <1>4, <1>6, <1>8, WrittenAsV4, Zenon

(* What an OutPublish leaves in its buffer. *)
LEMMA OutPublishWithin ==
    ASSUME NEW cap \in Nat, NEW p \in PacketSet, p.type = "Publish",
           NEW strings \in Seq(Seq(Byte)), OutPublishBody(p, strings, cap).error = "none"
    PROVE  Len(OutPublishBody(p, strings, cap).bytes) <= cap
<1> DEFINE o == Put(<<0, 0>>)
           topic == [i \in DOMAIN strings |-> Put(strings[i])]
           c == IF Len(FlattenSeq(strings)) > MaxWord THEN Fail("PayloadTooLong") ELSE Put(<< >>)
           d == PutPkid(p)
           e == Put(p.payload)
<1>1. OutPublishBody(p, strings, cap) = Write(cap, (<<o>> \o topic) \o <<c, d, e>>)
  BY Zenon DEF OutPublishBody
<1>2. topic \in Seq(PutSet)
  BY StringPuts
<1>3. o \in PutSet
  <2>1. <<0, 0>> \in Seq(Byte)
    BY DEF Byte
  <2> QED
    BY <2>1, PutTyped, Zenon
<1>4. c \in PutSet
  <2>1. "PayloadTooLong" \in PutErrors /\ << >> \in Seq(Byte)
    BY DEF PutErrors
  <2>2. Fail("PayloadTooLong") \in PutSet /\ Put(<< >>) \in PutSet
    BY <2>1, PutTyped, Zenon
  <2> QED
    BY <2>2, Zenon
<1>5. d \in PutSet /\ e \in PutSet
  <2>1. p.payload \in Seq(Byte)
    BY PublishTyped
  <2> QED
    BY <2>1, PutTyped, PutPkidTyped, Zenon
<1> HIDE DEF o, topic, c, d, e
<1>6. (<<o>> \o topic) \o <<c, d, e>> \in Seq(PutSet)
  <2>1. <<o>> \o topic \in Seq(PutSet)
    BY <1>2, <1>3, PutsCons, Zenon
  <2>2. <<c, d, e>> \in Seq(PutSet)
    BY <1>4, <1>5, Triple, Zenon
  <2> QED
    BY <2>1, <2>2, PutsTyped, Zenon
<1> QED
  BY <1>1, <1>6, WriteWithin, Zenon

(* A frame that was written in place fits into its buffer. *)
LEMMA OutPublishFits ==
    ASSUME NEW cap \in Nat, NEW p \in PacketSet, p.type = "Publish",
           NEW strings \in Seq(Seq(Byte)), WriteOutPublish(p, strings, cap).error = "none"
    PROVE  Len(WriteOutPublish(p, strings, cap).bytes) <= cap
<1> DEFINE flat == FlattenSeq(strings)
           room == cap - HeaderRoom
           body == OutPublishBody(p, strings, room)
           whole == InPlaceBody(p, strings)
           n == Len(whole)
           b1 == PublishByte1(p)
           u == U16(Len(flat))
           t == flat \o InPlaceRest(p)
           out == WriteOutPublish(p, strings, cap)
<1>1. ~(cap < HeaderRoom) /\ body.error = "none"
  <2>1. Fail("panic").error # "none" /\ out.error = "none"
    BY DEF Fail
  <2>2. cap < HeaderRoom => out = Fail("panic")
    BY Zenon DEF WriteOutPublish
  <2>3. ~(cap < HeaderRoom) /\ body.error # "none" => out = body
    BY Zenon DEF WriteOutPublish
  <2> HIDE DEF out, body
  <2> QED
    BY <2>1, <2>2, <2>3, Zenon
<1>2. room \in Nat /\ room + 5 = cap
  BY <1>1 DEF HeaderRoom
<1> HIDE DEF room
<1>3. Len(body.bytes) <= room /\ InPlace(p, strings, body)
  BY <1>1, <1>2, OutPublishWithin, OutPublishBodyWritten, Zenon
<1> HIDE DEF body
<1>4. /\ n <= MaxRemaining
      /\ out.bytes = FrameBytes(b1, n, whole)
  BY OutPublishFrame, Zenon
<1>5. flat \in Seq(Byte) /\ Len(flat) \in Nat /\ t \in Seq(Byte) /\ whole = u \o t /\ whole \in Seq(Byte)
  BY InPlaceTyped, FlattenTyped, Zenon
<1>6. u \in Seq(Byte) /\ Len(u) = 2
  BY <1>5, CastLength, Zenon
<1>7. body.bytes = <<0, 0>> \o t
  BY <1>3, Zenon DEF InPlace, t, flat
<1>8. b1 \in Byte
  BY PublishTyped
<1> HIDE DEF u, t, flat, whole, out, b1
<1>9. Len(body.bytes) = n /\ n \in Nat
  <2>1. Len(u \o t) = Len(u) + Len(t)
    BY <1>5, <1>6, ConcatTyped, Zenon
  <2>2. <<0, 0>> \in Seq(Byte) /\ Len(<<0, 0>>) = 2
    BY DEF Byte
  <2>3. Len(<<0, 0>> \o t) = Len(<<0, 0>>) + Len(t)
    BY <1>5, <2>2, ConcatTyped
  <2>4. Len(whole) \in Nat
    BY <1>5
  <2> QED
    BY <1>5, <1>6, <1>7, <2>1, <2>2, <2>3, <2>4, Zenon
<1>10. out.bytes \in Seq(Byte) /\ Len(out.bytes) <= n + 5
  BY <1>4, <1>5, <1>8, <1>9, FrameLength, Zenon
<1>11. Len(out.bytes) <= cap
  <2>1. Len(out.bytes) \in Nat
    BY <1>10
  <2>2. \A k, m, r, s \in Nat : k <= m + 5 /\ m <= r /\ r + 5 = s => k <= s
    BY ONLY SMT
  <2>3. n <= room
    BY <1>3, <1>9
  <2> HIDE DEF n
  <2> QED
    BY <1>2, <1>9, <1>10, <2>1, <2>2, <2>3, Zenon
<1> QED
  BY <1>11, Zenon DEF out

(* OutPublish::write. *)
LEMMA OutPublishAsV4 ==
    ASSUME NEW cap \in Nat, cap <= MaxRemaining,
           NEW p \in PacketSet, p.type = "Publish",
           NEW strings \in Seq(Seq(Byte)), FlattenSeq(strings) = p.topic,
           WriteOutPublish(p, strings, cap).error = "none"
    PROVE  AsV4(p, WriteOutPublish(p, strings, cap).bytes)
<1> DEFINE b1 == PublishByte1(p)
           n == PublishLen(p)
           c == Put(MqttBytes(p.topic))
           d == PutPkid(p)
           e == Put(p.payload)
           body == <<c, d, e>>
           puts == <<Put(<<b1>>), PutLength(n)>> \o body
           x == PublishBody(p)
           f == WriteOutPublish(p, strings, cap).bytes
<1>1. /\ Len(InPlaceBody(p, strings)) <= MaxRemaining
      /\ p.qos # 0 => p.pkid # 0
      /\ f = FrameBytes(b1, Len(InPlaceBody(p, strings)), InPlaceBody(p, strings))
  BY OutPublishFrame, Zenon
<1>2. InPlaceBody(p, strings) = x
  BY Zenon DEF InPlaceBody, InPlaceRest, PublishBody
<1>3. x \in Seq(Byte)
  BY <1>2, InPlaceTyped, Zenon
<1>4. b1 \in Byte /\ p.topic \in Seq(Byte) /\ p.payload \in Seq(Byte) /\ p.pkid \in Nat
  BY PublishTyped
<1>5. MqttBytes(p.topic) \in Seq(Byte) /\ Len(MqttBytes(p.topic)) = 2 + Len(p.topic)
  BY <1>4, MqttBytesTyped, Zenon
<1>6. V4Packet(p) = <<Put(<<b1>>), PutLength(n), c, d, e>> /\ V4Len(p) = n
  BY <1>1, PublishPuts, Zenon
<1>7. PkidBytes(p) \in Seq(Byte) /\ Len(PkidBytes(p)) = IF p.qos # 0 /\ p.pkid # 0 THEN 2 ELSE 0
  <2>1. << >> \in Seq(Byte) /\ Len(<< >>) = 0
    OBVIOUS
  <2>2. U16(p.pkid) \in Seq(Byte) /\ Len(U16(p.pkid)) = 2
    BY <1>4, CastLength
  <2> QED
    BY <1>1, <2>1, <2>2 DEF PkidBytes
<1>8. n = Len(x)
  <2> DEFINE k == IF p.qos # 0 /\ p.pkid # 0 THEN 2 ELSE 0
  <2>1. /\ PkidBytes(p) \o p.payload \in Seq(Byte)
        /\ Len(PkidBytes(p) \o p.payload) = Len(PkidBytes(p)) + Len(p.payload)
    BY <1>4, <1>7, ConcatTyped, Zenon
  <2>2. Len(x) = Len(MqttBytes(p.topic)) + Len(PkidBytes(p) \o p.payload)
    BY <1>5, <2>1, ConcatTyped, Zenon DEF PublishBody
  <2>3. Len(p.topic) \in Nat /\ Len(p.payload) \in Nat /\ k \in Nat
    BY <1>4
  <2>4. n = 2 + Len(p.topic) + Len(p.payload) + k
    BY Zenon DEF PublishLen
  <2>5. Len(PkidBytes(p)) = k
    BY <1>7, Zenon
  <2> HIDE DEF k, n, x
  <2>6. \A t, y, z \in Nat : (2 + t) + (z + y) = 2 + t + y + z
    BY ONLY SMT
  <2>7. Len(x) = (2 + Len(p.topic)) + (k + Len(p.payload))
    BY <1>5, <2>1, <2>2, <2>5, Zenon
  <2>8. (2 + Len(p.topic)) + (k + Len(p.payload)) = 2 + Len(p.topic) + Len(p.payload) + k
    <3>1. PICK t, y, z \in Nat : t = Len(p.topic) /\ y = Len(p.payload) /\ z = k
      BY <2>3, Zenon
    <3>2. (2 + t) + (z + y) = 2 + t + y + z
      BY <2>6
    <3> QED
      BY <3>1, <3>2, Zenon
  <2> QED
    BY <2>4, <2>7, <2>8, Zenon
<1>9. c \in PutSet /\ c.bytes = MqttBytes(p.topic) /\ e \in PutSet /\ e.bytes = p.payload
  BY <1>4, <1>5, PutTyped, Zenon
<1>10. d \in PutSet /\ d.error = "none" /\ d.bytes = PkidBytes(p)
  <2>1. d = Put(PkidBytes(p))
    BY <1>1, Zenon DEF PutPkid, PkidBytes
  <2> QED
    BY <1>7, <2>1, PutTyped, PutParts, Zenon
<1>11. c.error = "none" /\ e.error = "none"
  BY PutParts, Zenon
<1>12. Len(f) <= MaxRemaining
  <2>1. Len(f) <= cap
    BY OutPublishFits, Zenon
  <2>2. Len(f) \in Nat
    <3>1. Len(x) \in Nat
      BY <1>3
    <3>3. f = FrameBytes(b1, Len(x), x) /\ Len(x) <= MaxRemaining
      BY <1>1, <1>2, Zenon
    <3> HIDE DEF f, b1, x
    <3>2. f \in Seq(Byte)
      BY <1>3, <1>4, <3>1, <3>3, FrameLength, Zenon
    <3> QED
      BY <3>2
  <2> HIDE DEF f
  <2> QED
    BY ONLY <2>1, <2>2, cap \in Nat, cap <= MaxRemaining, SMT DEF MaxRemaining
<1>13. n \in Nat /\ n <= MaxRemaining /\ f = FrameBytes(b1, n, x)
  <2>1. Len(x) \in Nat
    BY <1>3
  <2> QED
    BY <1>1, <1>2, <1>8, <2>1, Zenon
<1>14. x = MqttBytes(p.topic) \o (PkidBytes(p) \o p.payload)
  BY Zenon DEF PublishBody
<1> HIDE DEF b1, n, c, d, e, x, f
<1>15. body \in Seq(PutSet) /\ Len(body) = 3 /\ body[1] = c /\ body[2] = d /\ body[3] = e
  BY <1>9, <1>10
<1>16. Whole(b1, n, body, x)
  <2>1. Sound(body)
    <3>1. \A i \in 1..3 : i = 1 \/ i = 2 \/ i = 3
      BY ONLY SMT
    <3>2. \A i \in 1..Len(body) : body[i].error = "none"
      BY <1>10, <1>11, <1>15, <3>1, Zenon
    <3> QED
      BY <1>15, <3>2, Zenon DEF Sound
  <2>2. ASSUME NEW y, Joined(body, y)
        PROVE  y = x
    <3>1. y = c.bytes \o (d.bytes \o e.bytes)
      BY <1>9, <1>10, <2>2, JoinedThree, ZenonT(60)
    <3> QED
      BY <1>9, <1>10, <1>14, <3>1, Zenon
  <2>3. Only(body, x)
    BY <2>2, Zenon DEF Only
  <2> QED
    BY <1>3, <1>4, <1>8, <1>13, <2>1, <2>3, Zenon DEF Whole
<1>17. <<Put(<<b1>>), PutLength(n), c, d, e>> = puts
  BY SMT
<1>18. AsV4(p, FrameBytes(b1, n, x))
  <2> HIDE DEF puts, body
  <2> QED
    BY <1>6, <1>12, <1>13, <1>16, <1>17, WholeAsV4, Zenon DEF puts
<1> QED
  BY <1>13, <1>18, Zenon DEF f

(* Puts that do not fail, one list after the other. *)
LEMMA SoundBoth ==
    ASSUME NEW a, NEW b, Sound(a), Sound(b)
    PROVE  Sound(a \o b)
<1> DEFINE puts == a \o b
<1>1. /\ a \in Seq(PutSet) /\ Len(a) \in Nat /\ \A i \in 1..Len(a) : a[i].error = "none"
      /\ b \in Seq(PutSet) /\ Len(b) \in Nat /\ \A i \in 1..Len(b) : b[i].error = "none"
  <2>1. /\ a \in Seq(PutSet) /\ \A i \in 1..Len(a) : a[i].error = "none"
        /\ b \in Seq(PutSet) /\ \A i \in 1..Len(b) : b[i].error = "none"
    BY Zenon DEF Sound
  <2> QED
    BY <2>1
<1>2. /\ puts \in Seq(PutSet) /\ Len(puts) = Len(a) + Len(b)
      /\ \A i \in 1..(Len(a) + Len(b)) : puts[i] = IF i <= Len(a) THEN a[i] ELSE b[i - Len(a)]
  BY <1>1, ConcatProperties
<1> HIDE DEF puts
<1>3. ASSUME NEW i \in 1..Len(puts)
      PROVE  puts[i].error = "none"
  <2>1. CASE i <= Len(a)
    <3>1. puts[i] = a[i] /\ i \in 1..Len(a)
      BY <1>1, <1>2, <2>1
    <3> QED
      BY <1>1, <3>1
  <2>2. CASE ~(i <= Len(a))
    <3>1. puts[i] = b[i - Len(a)] /\ i - Len(a) \in 1..Len(b)
      BY <1>1, <1>2, <2>2
    <3> QED
      BY <1>1, <3>1
  <2> QED
    BY <2>1, <2>2
<1>4. Sound(puts)
  BY <1>2, <1>3, Zenon DEF Sound
<1> QED
  BY <1>4, Zenon DEF puts

(* One put that does not fail. *)
LEMMA SoundOne ==
    ASSUME NEW bytes \in Seq(Byte)
    PROVE  Put(bytes) \in PutSet /\ Sound(<<Put(bytes)>>)
<1> DEFINE c == Put(bytes)
<1>1. c \in PutSet /\ c.error = "none"
  BY PutTyped, PutParts, Zenon
<1> HIDE DEF c
<1>2. <<c>> \in Seq(PutSet) /\ Len(<<c>>) = 1 /\ <<c>>[1] = c
  BY <1>1
<1>3. \A i \in 1..1 : i = 1
  OBVIOUS
<1>4. Sound(<<c>>)
  BY <1>1, <1>2, <1>3, Zenon DEF Sound
<1> QED
  BY <1>1, <1>4, Zenon DEF c

(* If what is written is never longer than m, m bytes are room enough. *)
LEMMA RoomEnough ==
    ASSUME NEW puts, Sound(puts), NEW m,
           \A c \in Nat : Write(c, puts).error = "none" => Len(Write(c, puts).bytes) <= m,
           NEW cap \in Nat, m \in Nat, m <= cap
    PROVE  Write(cap, puts).error = "none"
<1>1. puts \in Seq(PutSet)
  BY Zenon DEF Sound
<1>2. PICK y \in Seq(Byte) : Joined(puts, y)
  BY V4Takes, Zenon
<1>3. \A x : Joined(puts, x) => x = y
  BY <1>1, <1>2, JoinedUnique, Zenon
<1>4. PICK c \in Nat : c = Len(y)
  BY <1>2
<1>5. \A x \in Seq(Byte) : Joined(puts, x) => Len(x) <= c
  <2>1. c <= c
    BY <1>4
  <2> QED
    BY <1>3, <1>4, <2>1, Zenon
<1>6. Write(c, puts).error = "none"
  BY <1>4, <1>5, WriteFits, Zenon
<1>7. Joined(puts, Write(c, puts).bytes)
  BY <1>1, <1>4, <1>6, WriteJoins, Zenon
<1>8. Write(c, puts).bytes = y
  BY <1>3, <1>7, Zenon
<1>9. c <= m
  BY <1>4, <1>6, <1>8, Zenon
<1>10. c <= cap
  BY ONLY <1>4, <1>9, m \in Nat, m <= cap, cap \in Nat
<1>11. \A x \in Seq(Byte) : Joined(puts, x) => Len(x) <= cap
  BY <1>3, <1>4, <1>10, Zenon
<1> QED
  BY <1>11, WriteFits, Zenon

(* The bytes are a frame with a body of n bytes. *)
FrameWith(b1, n, bytes) == \E x \in Seq(Byte) : Len(x) = n /\ bytes = FrameBytes(b1, n, x)

(* A writer that makes frames with a body of n bytes does so in a buffer   *)
(* that has room for five bytes more.                                      *)
LEMMA FrameRoom ==
    ASSUME NEW b1 \in Byte, NEW n \in Nat, NEW cap \in Nat, n + 5 <= cap, cap <= MaxRemaining,
           NEW body, Sound(body), NEW puts, puts = <<Put(<<b1>>), PutLength(n)>> \o body,
           \A c \in Nat : Write(c, puts).error = "none" => FrameWith(b1, n, Write(c, puts).bytes)
    PROVE  Write(cap, puts).error = "none"
<1>1. n <= MaxRemaining /\ ~(n > MaxRemaining) /\ n + 5 \in Nat
  BY SMT DEF MaxRemaining
<1>2. <<b1>> \in Seq(Byte)
  OBVIOUS
<1>3. Put(<<b1>>) \in PutSet /\ Put(<<b1>>).error = "none"
  BY <1>2, PutTyped, PutParts, Zenon
<1>4. PutLength(n) \in PutSet /\ PutLength(n).error = "none"
  <2>1. PutLength(n) = Put(EncodeLength(n))
    BY <1>1, Zenon DEF PutLength
  <2> QED
    BY <2>1, PutLengthTyped, PutParts, Zenon
<1>5. Sound(puts)
  BY <1>3, <1>4, SoundTwo, Zenon
<1>6. ASSUME NEW c \in Nat, Write(c, puts).error = "none"
      PROVE  Len(Write(c, puts).bytes) <= n + 5
  <2>1. PICK x \in Seq(Byte) : Len(x) = n /\ Write(c, puts).bytes = FrameBytes(b1, n, x)
    BY <1>6, Zenon DEF FrameWith
  <2> QED
    BY <1>1, <2>1, FrameLength, Zenon
<1> QED
  BY <1>1, <1>5, <1>6, RoomEnough, Zenon

(* PubAck, PubRec, PubRel, PubComp and UnsubAck. *)
LEMMA AckFits ==
    ASSUME NEW cap \in Nat, 2 + 5 <= cap, cap <= MaxRemaining,
           NEW p \in PacketSet, p.type \in AckTypes
    PROVE  WriteAck(p, cap).error = "none"
<1> DEFINE b1 == AckByte1[p.type]
           u == U16(p.pkid)
           puts == <<Put(<<b1>>), PutLength(2)>> \o <<Put(u)>>
<1>1. b1 \in Byte /\ u \in Seq(Byte) /\ Len(u) = 2
  <2>1. p.pkid \in Word16
    BY AckFields
  <2>2. b1 \in {64, 80, 98, 112, 176}
    BY DEF AckTypes, AckByte1
  <2>3. p.pkid \in Nat
    BY <2>1, WordIsNat
  <2> QED
    BY <2>2, <2>3, CastLength DEF Byte
<1>2. \A c : WriteAck(p, c) = Write(c, puts)
  BY AfterTwo, Zenon DEF WriteAck
<1>3. \A c \in Nat : Write(c, puts).error = "none" => Write(c, puts).bytes = FrameBytes(b1, 2, u)
  <2> HIDE DEF puts
  <2> QED
    BY <1>2, AckFrame, Zenon
<1> HIDE DEF b1, u
<1>4. Sound(<<Put(u)>>) /\ 2 \in Nat
  BY <1>1, SoundOne
<1>5. puts = <<Put(<<b1>>), PutLength(2)>> \o <<Put(u)>>
  OBVIOUS
<1> HIDE DEF puts
<1>6. \A c \in Nat : Write(c, puts).error = "none" => FrameWith(b1, 2, Write(c, puts).bytes)
  BY <1>1, <1>3, Zenon DEF FrameWith
<1>7. Write(cap, puts).error = "none"
  BY <1>1, <1>4, <1>5, <1>6, FrameRoom, Zenon
<1> QED
  BY <1>2, <1>7, Zenon

(* ConnAck. *)
LEMMA ConnAckFits ==
    ASSUME NEW cap \in Nat, 2 + 5 <= cap, cap <= MaxRemaining, NEW p \in PacketSet, p.type = "ConnAck"
    PROVE  WriteConnAck(p, cap).error = "none"
<1>1. PICK b1 : b1 = 32
  OBVIOUS
<1> DEFINE u == ConnAckBody(p)
           puts == <<Put(<<b1>>), PutLength(2)>> \o <<Put(u)>>
<1>2. b1 \in Byte /\ u \in Seq(Byte) /\ Len(u) = 2
  BY <1>1, ConnAckBytes DEF Byte
<1>3. \A c : WriteConnAck(p, c) = Write(c, puts)
  BY <1>1, AfterTwo, Zenon DEF WriteConnAck, ConnAckBody
<1>4. \A c \in Nat : Write(c, puts).error = "none" => Write(c, puts).bytes = FrameBytes(b1, 2, u)
  <2> HIDE DEF puts
  <2> QED
    BY <1>1, <1>3, ConnAckFrame, Zenon
<1> HIDE DEF u
<1>5. Sound(<<Put(u)>>) /\ 2 \in Nat
  BY <1>2, SoundOne
<1>6. puts = <<Put(<<b1>>), PutLength(2)>> \o <<Put(u)>>
  OBVIOUS
<1> HIDE DEF puts
<1>7. \A c \in Nat : Write(c, puts).error = "none" => FrameWith(b1, 2, Write(c, puts).bytes)
  BY <1>2, <1>4, Zenon DEF FrameWith
<1>8. Write(cap, puts).error = "none"
  BY <1>2, <1>5, <1>6, <1>7, FrameRoom, Zenon
<1> QED
  BY <1>3, <1>8, Zenon

(* SubAck. *)
LEMMA SubAckFits ==
    ASSUME NEW cap \in Nat, NEW p \in PacketSet, p.type = "SubAck",
           (2 + Len(p.codes)) + 5 <= cap, cap <= MaxRemaining
    PROVE  WriteSubAck(p, cap).error = "none"
<1>1. PICK b1, n : b1 = 144 /\ n = 2 + Len(p.codes)
  OBVIOUS
<1> DEFINE u == U16(p.pkid)
           v == p.codes
           body == <<Put(u)>> \o <<Put(v)>>
           puts == <<Put(<<b1>>), PutLength(n)>> \o body
           x == SubAckBody(p)
<1>0. n + 5 <= cap
  BY <1>1
<1>2. b1 \in Byte /\ n \in Nat /\ u \in Seq(Byte) /\ v \in Seq(Byte)
  BY <1>1, CodesAreBytes, CastLength DEF Byte
<1>3. \A c : WriteSubAck(p, c) = Write(c, puts)
  <2>1. <<Put(<<b1>>), PutLength(n), Put(u), Put(v)>> = puts
    BY SMT
  <2> QED
    BY <1>1, <2>1, Zenon DEF WriteSubAck
<1>4. \A c \in Nat : Write(c, puts).error = "none" =>
          x \in Seq(Byte) /\ Len(x) = n /\ Write(c, puts).bytes = FrameBytes(b1, n, x)
  <2> HIDE DEF puts, x
  <2>1. ASSUME NEW c \in Nat, WriteSubAck(p, c).error = "none"
        PROVE  x \in Seq(Byte) /\ Len(x) = n /\ WriteSubAck(p, c).bytes = FrameBytes(b1, n, x)
    <3>1. /\ x \in Seq(Byte) /\ Len(x) = 2 + Len(p.codes)
          /\ WriteSubAck(p, c).bytes = FrameBytes(144, 2 + Len(p.codes), x)
      BY <2>1, SubAckFrame, Zenon DEF x
    <3> QED
      BY ONLY <1>1, <3>1
  <2> QED
    BY <1>3, <2>1, Zenon
<1> HIDE DEF x, u, v
<1>5. Sound(body)
  BY <1>2, SoundOne, SoundBoth, Zenon
<1> HIDE DEF body
<1>6. puts = <<Put(<<b1>>), PutLength(n)>> \o body
  OBVIOUS
<1> HIDE DEF puts
<1>7. \A c \in Nat : Write(c, puts).error = "none" => FrameWith(b1, n, Write(c, puts).bytes)
  BY <1>4, Zenon DEF FrameWith
<1>8. Write(cap, puts).error = "none"
  BY <1>0, <1>2, <1>5, <1>6, <1>7, FrameRoom, Zenon
<1> QED
  BY <1>3, <1>8, Zenon

(* PingReq, PingResp and Disconnect. *)
LEMMA EmptyFits ==
    ASSUME NEW cap \in Nat, 0 + 5 <= cap, NEW p \in PacketSet,
           p.type \in {"PingReq", "PingResp", "Disconnect"}
    PROVE  WriteEmpty(p, cap).error = "none"
<1> DEFINE b1 == EmptyByte1[p.type]
           u == <<b1, 0>>
           puts == <<Put(u)>>
<1>1. u \in Seq(Byte) /\ Len(u) = 2
  <2>1. b1 \in {192, 208, 224}
    BY DEF EmptyByte1
  <2> HIDE DEF b1
  <2>2. b1 \in Byte /\ 0 \in Byte
    BY <2>1 DEF Byte
  <2> QED
    BY <2>2
<1>2. WriteEmpty(p, cap) = Write(cap, puts)
  BY Zenon DEF WriteEmpty
<1> HIDE DEF u
<1>3. Put(u) \in PutSet /\ Put(u).bytes = u /\ Sound(puts)
  BY <1>1, SoundOne, PutParts, Zenon
<1>4. \A x : Joined(puts, x) => x = u
  BY <1>3, JoinedOne, Zenon
<1>5. \A x \in Seq(Byte) : Joined(puts, x) => Len(x) <= cap
  <2>1. 2 <= cap
    OBVIOUS
  <2> QED
    BY <1>1, <1>4, <2>1, Zenon
<1>6. Write(cap, puts).error = "none"
  <2> HIDE DEF puts
  <2> QED
    BY <1>3, <1>5, WriteFits, Zenon
<1> QED
  BY <1>2, <1>6, Zenon

(* Publish::write. *)
LEMMA PublishFits ==
    ASSUME NEW cap \in Nat, NEW p \in PacketSet, p.type = "Publish", p.qos # 0 => p.pkid # 0,
           PublishLen(p) + 5 <= cap, cap <= MaxRemaining
    PROVE  /\ WritePublish(p, cap).error = "none"
           /\ PublishBody(p) \in Seq(Byte) /\ Len(PublishBody(p)) = PublishLen(p)
<1> DEFINE b1 == PublishByte1(p)
           n == PublishLen(p)
           t == MqttBytes(p.topic)
           i == PkidBytes(p)
           o == p.payload
           x == PublishBody(p)
           body == <<Put(t), Put(i), Put(o)>>
           puts == <<Put(<<b1>>), PutLength(n)>> \o body
<1>1. /\ b1 \in Byte /\ p.topic \in Seq(Byte) /\ o \in Seq(Byte) /\ p.pkid \in Nat
      /\ Len(p.topic) \in Nat /\ Len(o) \in Nat
  BY PublishTyped
<1>2. n \in Nat
  <2>1. PICK y, z : y = Len(p.topic) /\ z = Len(p.payload)
    OBVIOUS
  <2>2. PICK k \in Nat : k = IF p.qos # 0 /\ p.pkid # 0 THEN 2 ELSE 0
    OBVIOUS
  <2>3. y \in Nat /\ z \in Nat
    BY <1>1, <2>1, Zenon
  <2>4. PublishLen(p) = ((2 + y) + z) + k
    BY <2>1, <2>2, Zenon DEF PublishLen
  <2>5. ((2 + y) + z) + k \in Nat
    BY <2>2, <2>3
  <2> QED
    BY <2>4, <2>5, Zenon
<1>3. t \in Seq(Byte) /\ i \in Seq(Byte)
  <2>1. << >> \in Seq(Byte) /\ U16(p.pkid) \in Seq(Byte)
    BY <1>1, CastLength
  <2> QED
    BY <1>1, <2>1, MqttBytesTyped, Zenon DEF PkidBytes
<1>4. PutPkid(p) = Put(i)
  BY Zenon DEF PutPkid, PkidBytes
<1>5. \A c \in Nat : WritePublish(p, c).error = "none" =>
         x \in Seq(Byte) /\ Len(x) = n /\ WritePublish(p, c).bytes = FrameBytes(b1, n, x)
  BY PublishFrame, Zenon
<1>6. \A c : WritePublish(p, c) = Write(c, <<Put(<<b1>>), PutLength(n), Put(t), Put(i), Put(o)>>)
  BY <1>4, Zenon DEF WritePublish
<1> HIDE DEF b1, n, t, i, o, x
<1>7. <<Put(<<b1>>), PutLength(n), Put(t), Put(i), Put(o)>> = puts
  BY SMT
<1>8. Sound(body)
  <2>1. Sound(<<Put(t)>>) /\ Sound(<<Put(i), Put(o)>>)
    <3>1. Sound(<<Put(t)>>) /\ Sound(<<Put(i)>>) /\ Sound(<<Put(o)>>)
      BY <1>1, <1>3, SoundOne, Zenon
    <3>2. <<Put(i), Put(o)>> = <<Put(i)>> \o <<Put(o)>>
      BY <1>1, <1>3, SoundOne, Pair, Zenon
    <3> QED
      BY <3>1, <3>2, SoundBoth, Zenon
  <2>2. body = <<Put(t)>> \o <<Put(i), Put(o)>>
    BY <1>1, <1>3, SoundOne, Triple, Zenon
  <2> QED
    BY <2>1, <2>2, SoundBoth, Zenon
<1> HIDE DEF body
<1>9. \A c : WritePublish(p, c) = Write(c, puts)
  BY <1>6, <1>7, Zenon
<1>10. puts = <<Put(<<b1>>), PutLength(n)>> \o body
  OBVIOUS
<1> HIDE DEF puts
<1>11. ASSUME NEW c \in Nat, Write(c, puts).error = "none"
       PROVE  FrameWith(b1, n, Write(c, puts).bytes)
  <2>1. WritePublish(p, c) = Write(c, puts)
    BY <1>9, Zenon
  <2>2. x \in Seq(Byte) /\ Len(x) = n /\ Write(c, puts).bytes = FrameBytes(b1, n, x)
    BY <1>5, <1>11, <2>1, Zenon
  <2> QED
    BY <2>2, Zenon DEF FrameWith
<1>12. n + 5 <= cap
  BY Zenon DEF n
<1>13. Write(cap, puts).error = "none"
  <2>1. b1 \in Byte
    BY <1>1, Zenon
  <2>2. \A c \in Nat : Write(c, puts).error = "none" => FrameWith(b1, n, Write(c, puts).bytes)
    BY <1>11, Zenon
  <2> QED
    BY <1>2, <1>8, <1>10, <1>12, <2>1, <2>2, FrameRoom, Zenon
<1> QED
  BY <1>5, <1>9, <1>13, Zenon DEF n, x

(* OutPublish::write. *)
LEMMA OutPublishRoom ==
    ASSUME NEW cap \in Nat, NEW p \in PacketSet, p.type = "Publish", p.qos # 0 => p.pkid # 0,
           PublishLen(p) + 5 <= cap, cap <= MaxRemaining, Len(p.topic) <= MaxWord,
           NEW strings \in Seq(Seq(Byte)), FlattenSeq(strings) = p.topic
    PROVE  WriteOutPublish(p, strings, cap).error = "none"
<1> DEFINE topic == [k \in DOMAIN strings |-> Put(strings[k])]
           z == <<0, 0>>
           e == << >>
           i == PkidBytes(p)
           o == p.payload
           puts == (<<Put(z)>> \o topic) \o <<Put(e), Put(i), Put(o)>>
           room == cap - HeaderRoom
           m == Len(InPlaceBody(p, strings))
           body == OutPublishBody(p, strings, room)
           out == WriteOutPublish(p, strings, cap)
<1>1. /\ p.topic \in Seq(Byte) /\ Len(p.topic) \in Nat
      /\ p.pkid \in Nat /\ z \in Seq(Byte) /\ Len(z) = 2 /\ e \in Seq(Byte) /\ o \in Seq(Byte)
  BY PublishTyped DEF Byte
<1>2. i \in Seq(Byte) /\ PutPkid(p) = Put(i)
  <2>1. << >> \in Seq(Byte) /\ U16(p.pkid) \in Seq(Byte)
    BY <1>1, CastLength
  <2> QED
    BY <2>1, Zenon DEF PutPkid, PkidBytes
<1>3. Sound(<<Put(z)>>) /\ Sound(<<Put(e), Put(i), Put(o)>>)
  <2> HIDE DEF z, e, i, o
  <2>1. Sound(<<Put(z)>>) /\ Sound(<<Put(e)>>) /\ Sound(<<Put(i)>>) /\ Sound(<<Put(o)>>)
    BY <1>1, <1>2, SoundOne, Zenon
  <2>2. <<Put(i), Put(o)>> = <<Put(i)>> \o <<Put(o)>>
    BY <1>1, <1>2, SoundOne, Pair, Zenon
  <2>3. <<Put(e), Put(i), Put(o)>> = <<Put(e)>> \o <<Put(i), Put(o)>>
    BY <1>1, <1>2, SoundOne, Triple, Zenon
  <2> QED
    BY <2>1, <2>2, <2>3, SoundBoth, Zenon
<1>4. Sound(topic)
  <2>1. topic \in Seq(PutSet)
    BY StringPuts
  <2>2. DOMAIN strings = 1..Len(strings) /\ Len(strings) \in Nat
    OBVIOUS
  <2>3. Len(topic) = Len(strings)
    BY <2>2
  <2>4. \A k \in 1..Len(topic) : topic[k].error = "none"
    BY <2>2, <2>3, PutParts, Zenon
  <2> HIDE DEF topic
  <2> QED
    BY <2>1, <2>4, Zenon DEF Sound
<1>5. \A c : OutPublishBody(p, strings, c) = Write(c, puts)
  <2>1. ~(Len(FlattenSeq(strings)) > MaxWord)
    BY <1>1, MaxWordIsNat
  <2> QED
    BY <1>2, <2>1, Zenon DEF OutPublishBody
<1> HIDE DEF topic, z, e, i, o
<1>6. Sound(puts)
  BY <1>3, <1>4, SoundBoth, Zenon
<1> HIDE DEF puts
<1>7. m = PublishLen(p) /\ m \in Nat
  <2>1. InPlaceBody(p, strings) = PublishBody(p)
    BY Zenon DEF InPlaceBody, InPlaceRest, PublishBody
  <2>2. PublishBody(p) \in Seq(Byte) /\ Len(PublishBody(p)) = PublishLen(p)
    BY PublishFits, Zenon
  <2> QED
    BY <2>1, <2>2
<1>8. ASSUME NEW c \in Nat, Write(c, puts).error = "none"
      PROVE  Len(Write(c, puts).bytes) <= m /\ Len(Write(c, puts).bytes) = m
  <2> DEFINE flat == FlattenSeq(strings)
             t == flat \o InPlaceRest(p)
             u == U16(Len(flat))
  <2>1. InPlace(p, strings, Write(c, puts))
    BY <1>5, <1>8, OutPublishBodyWritten, Zenon
  <2>2. Write(c, puts).bytes = z \o t
    BY <2>1, Zenon DEF InPlace, z
  <2>3. flat \in Seq(Byte) /\ Len(flat) \in Nat /\ t \in Seq(Byte) /\ InPlaceBody(p, strings) = u \o t
    BY InPlaceTyped, FlattenTyped, Zenon
  <2>4. u \in Seq(Byte) /\ Len(u) = 2
    BY <2>3, CastLength, Zenon
  <2> HIDE DEF u, t, flat
  <2>5. Len(u \o t) = Len(u) + Len(t) /\ Len(z \o t) = Len(z) + Len(t)
    BY <1>1, <2>3, <2>4, ConcatTyped, Zenon
  <2>6. Len(Write(c, puts).bytes) = m
    BY <1>1, <2>2, <2>3, <2>4, <2>5, Zenon
  <2> HIDE DEF m
  <2>7. m <= m
    BY <1>7
  <2> QED
    BY <2>6, <2>7, Zenon
<1>9. room \in Nat /\ ~(cap < HeaderRoom) /\ m <= room
  BY <1>7 DEF HeaderRoom
<1>10. m <= MaxRemaining /\ ~(m > MaxRemaining)
  BY <1>7 DEF MaxRemaining
<1> HIDE DEF m, room
<1>11. Write(room, puts).error = "none"
  BY <1>6, <1>7, <1>8, <1>9, RoomEnough, Zenon
<1>12. body.error = "none" /\ ~(Len(body.bytes) > MaxRemaining)
  BY <1>5, <1>8, <1>9, <1>10, <1>11, Zenon
<1>13. body.error = "none" /\ ~(Len(body.bytes) > MaxRemaining) => \E s : out = Put(s)
  BY <1>9, Zenon DEF WriteOutPublish, room
<1> HIDE DEF out, body
<1> QED
  BY <1>12, <1>13, PutParts, Zenon DEF out

(* The puts of a Connect do not fail. *)
LEMMA PartsSound ==
    ASSUME NEW p \in PacketSet, p.type = "Connect"
    PROVE  Sound(WillPuts(p)) /\ Sound(LoginPuts(p))
<1>1. WillPuts(p) \in Seq(PutSet) /\ LoginPuts(p) \in Seq(PutSet)
  BY WillWritten, LoginWritten, Zenon
<1>2. \A i \in DOMAIN WillPuts(p) : WillPuts(p)[i].error = "none"
  <2>1. CASE p.last_will = << >>
    BY <2>1 DEF WillPuts
  <2>2. CASE p.last_will # << >>
    <3> DEFINE a == Put(MqttBytes(p.last_will[1].topic))
               b == Put(MqttBytes(p.last_will[1].message))
    <3>1. WillPuts(p) = <<a, b>>
      BY <2>2 DEF WillPuts, PutWill
    <3>2. a.error = "none" /\ b.error = "none"
      BY PutParts, Zenon
    <3> HIDE DEF a, b
    <3> QED
      BY <3>1, <3>2
  <2> QED
    BY <2>1, <2>2
<1>3. Sound(LoginPuts(p))
  <2>1. CASE p.login = << >>
    <3>1. LoginPuts(p) = << >>
      BY <2>1 DEF LoginPuts
    <3> QED
      BY <1>1, <3>1 DEF Sound
  <2>2. CASE p.login # << >>
    <3> DEFINE u == p.login[1].username
               v == p.login[1].password
               a == Option(u # << >>, Put(MqttBytes(u)))
               b == Option(v # << >>, Put(MqttBytes(v)))
    <3>1. u \in Seq(Byte) /\ v \in Seq(Byte)
      <4> DEFINE l == p.login[1]
      <4>0. p.login \in Optional(LoginSet)
        BY ConnectFields
      <4>1. l \in LoginSet
        BY <2>2, <4>0, OptionalFirst
      <4>2. u \in Text /\ v \in Seq(Byte)
        <5> HIDE DEF l
        <5> QED
          BY <4>1 DEF LoginSet, l
      <4> QED
        BY <4>2, TextIsBytes, Zenon
    <3>2. LoginPuts(p) = a \o b
      BY <2>2 DEF LoginPuts, PutLogin
    <3> HIDE DEF u, v
    <3>3. ASSUME NEW s \in Seq(Byte)
          PROVE  Sound(Option(s # << >>, Put(MqttBytes(s))))
      <4>1. MqttBytes(s) \in Seq(Byte)
        BY MqttBytesTyped, Zenon
      <4>2. Sound(<<Put(MqttBytes(s))>>)
        BY <4>1, SoundOne, Zenon
      <4>3. Sound(<< >>)
        BY DEF Sound
      <4> QED
        BY <4>2, <4>3, Zenon DEF Option
    <3> QED
      BY <3>1, <3>2, <3>3, SoundBoth, Zenon
  <2> QED
    BY <2>1, <2>2
<1>4. DOMAIN WillPuts(p) = 1..Len(WillPuts(p))
  BY <1>1
<1> QED
  BY <1>1, <1>2, <1>3, <1>4, Zenon DEF Sound

(* Connect::write. *)
LEMMA ConnectFits ==
    ASSUME NEW cap \in Nat, NEW p \in PacketSet, p.type = "Connect",
           ConnectLen(p) \in Nat, ConnectLen(p) + 5 <= cap, cap <= MaxRemaining
    PROVE  WriteConnectPacket(p, cap).error = "none"
<1>1. PICK b1, n : b1 = 16 /\ n = ConnectLen(p)
  OBVIOUS
<1> DEFINE w == WillPuts(p)
           l == LoginPuts(p)
           xc == MqttBytes(MQTT)
           c == Put(xc)
           xd == <<p.protocol>>
           d == Put(xd)
           xe == <<ConnectFlags(p)>>
           e == Put(xe)
           xf == U16(p.keep_alive)
           f == Put(xf)
           xg == MqttBytes(p.client_id)
           g == Put(xg)
           x == ConnectBody(p)
           body == <<c>> \o (<<d>> \o (<<e>> \o (<<f>> \o (<<g>> \o (w \o l)))))
           puts == <<Put(<<b1>>), PutLength(n)>> \o body
<1>2. /\ xc \in Seq(Byte) /\ xd \in Seq(Byte) /\ xe \in Seq(Byte) /\ xf \in Seq(Byte)
      /\ xg \in Seq(Byte)
  <2>1. p.client_id \in Seq(Byte) /\ p.keep_alive \in Nat
    <3>1. p.client_id \in Text /\ p.keep_alive \in Word16
      BY ConnectFields
    <3> QED
      BY <3>1, TextIsBytes, WordIsNat
  <2>2. MQTT \in Seq(Byte)
    BY DEF MQTT, Byte
  <2>3. xd \in Seq(Byte)
    <3>1. p.protocol \in Byte
      BY LevelTyped
    <3> QED
      BY <3>1
  <2>4. xe \in Seq(Byte)
    <3>1. ConnectFlags(p) \in Byte
      BY ConnectFlagsTyped
    <3> QED
      BY <3>1
  <2> QED
    BY <2>1, <2>2, <2>3, <2>4, MqttBytesTyped, CastLength, Zenon
<1>3. b1 \in Byte /\ n \in Nat /\ n + 5 <= cap
  BY <1>1 DEF Byte
<1>4. Sound(w) /\ Sound(l)
  BY PartsSound, Zenon
<1>5. \A k : WriteConnectPacket(p, k) =
                Write(k, (<<Put(<<b1>>), PutLength(n), c, d, e, f, g>> \o w) \o l)
  BY <1>1, Zenon DEF WriteConnectPacket, WillPuts, LoginPuts
<1>6. \A k \in Nat : WriteConnectPacket(p, k).error = "none" =>
         x \in Seq(Byte) /\ Len(x) = n /\ WriteConnectPacket(p, k).bytes = FrameBytes(b1, n, x)
  <2> HIDE DEF x
  <2> SUFFICES ASSUME NEW k \in Nat, WriteConnectPacket(p, k).error = "none"
               PROVE  x \in Seq(Byte) /\ Len(x) = n
                      /\ WriteConnectPacket(p, k).bytes = FrameBytes(b1, n, x)
    OBVIOUS
  <2>1. /\ x \in Seq(Byte) /\ Len(x) = ConnectLen(p)
        /\ WriteConnectPacket(p, k).bytes = FrameBytes(16, ConnectLen(p), x)
    BY ConnectFrame, Zenon DEF x
  <2> QED
    BY ONLY <1>1, <2>1
<1> HIDE DEF xc, xd, xe, xf, xg, x, w, l
<1>7. /\ Sound(<<c>>) /\ Sound(<<d>>) /\ Sound(<<e>>) /\ Sound(<<f>>) /\ Sound(<<g>>)
      /\ c \in PutSet /\ d \in PutSet /\ e \in PutSet /\ f \in PutSet /\ g \in PutSet
  BY <1>2, SoundOne, Zenon
<1> HIDE DEF c, d, e, f, g
<1>8. Sound(body)
  <2>1. Sound(w \o l)
    BY <1>4, SoundBoth, Zenon
  <2>2. Sound(<<g>> \o (w \o l))
    BY <1>7, <2>1, SoundBoth, Zenon
  <2>3. Sound(<<f>> \o (<<g>> \o (w \o l)))
    BY <1>7, <2>2, SoundBoth, Zenon
  <2>4. Sound(<<e>> \o (<<f>> \o (<<g>> \o (w \o l))))
    BY <1>7, <2>3, SoundBoth, Zenon
  <2>5. Sound(<<d>> \o (<<e>> \o (<<f>> \o (<<g>> \o (w \o l)))))
    BY <1>7, <2>4, SoundBoth, Zenon
  <2> QED
    BY <1>7, <2>5, SoundBoth, Zenon
<1>9. (<<Put(<<b1>>), PutLength(n), c, d, e, f, g>> \o w) \o l = puts
  <2>1. w \in Seq(PutSet) /\ l \in Seq(PutSet)
    BY <1>4, Zenon DEF Sound
  <2>2. Put(<<b1>>) \in PutSet /\ PutLength(n) \in PutSet
    BY <1>3, SomeBytes, PutLengthTyped, Zenon
  <2>3. CutPuts(Put(<<b1>>), PutLength(n), c, d, e, f, g, w, l)
    BY <1>7, <2>1, <2>2, SevenPuts, Zenon
  <2> QED
    BY <2>3, Zenon DEF CutPuts
<1> HIDE DEF body
<1>10. puts = <<Put(<<b1>>), PutLength(n)>> \o body
  OBVIOUS
<1> HIDE DEF puts
<1>11. \A k : WriteConnectPacket(p, k) = Write(k, puts)
  BY <1>5, <1>9, Zenon
<1>12. ASSUME NEW k \in Nat, Write(k, puts).error = "none"
       PROVE  FrameWith(b1, n, Write(k, puts).bytes)
  <2>1. WriteConnectPacket(p, k) = Write(k, puts)
    BY <1>11, Zenon
  <2>2. x \in Seq(Byte) /\ Len(x) = n /\ Write(k, puts).bytes = FrameBytes(b1, n, x)
    BY <1>6, <1>12, <2>1, Zenon
  <2> QED
    BY <2>2, Zenon DEF FrameWith
<1>13. Write(cap, puts).error = "none"
  BY <1>3, <1>8, <1>10, <1>12, FrameRoom, Zenon
<1> QED
  BY <1>11, <1>13, Zenon

=============================================================================
