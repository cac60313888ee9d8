------------------------------ MODULE WireFormat ------------------------------
(***************************************************************************)
(* The primitives of packetview/mod.rs and cursor.rs that every packet is  *)
(* read and written with: remaining lengths, 16-bit integers and           *)
(* length-prefixed strings.  Here a byte is a number in 0..255.            *)
(***************************************************************************)
EXTENDS Integers, Sequences

Byte == 0..255

(* Result: either an error, or what the function returns beside it. *)
Err(e) == [error |-> e]

NeedMoreData(n) == [error |-> "NeedMoreData", missing |-> n]

-----------------------------------------------------------------------------
(* The remaining length: seven bits to a byte, the least significant first,*)
(* in at most four bytes of which all but the last have bit 7 set.         *)

Weight == <<1, 128, 16384, 2097152>>

MaxRemaining == 268435455

(* The number of rounds of the loop in write_remaining_length. *)
LengthBytes(n) ==
    IF n < 128 THEN 1
    ELSE IF n < 16384 THEN 2
    ELSE IF n < 2097152 THEN 3 ELSE 4

(* The bytes write_remaining_length puts for a length it accepts. *)
EncodeLength(n) ==
    [i \in 1..LengthBytes(n) |->
        ((n \div Weight[i]) % 128) + (IF i < LengthBytes(n) THEN 128 ELSE 0)]

(* Byte k of s is the first without the continuation bit. *)
EndsAt(s, k) ==
    /\ k <= Len(s)
    /\ s[k] < 128
    /\ \A j \in 1..(k - 1) : s[j] >= 128

(* What byte i contributes to a length of k bytes. *)
Digit(s, i, k) == IF i <= k THEN (s[i] % 128) * Weight[i] ELSE 0

LengthValue(s, k) == Digit(s, 1, k) + Digit(s, 2, k) + Digit(s, 3, k) + Digit(s, 4, k)

(* length, on the bytes that follow the first byte of a packet. *)
DecodeLength(s) ==
    IF \E k \in 1..4 : EndsAt(s, k)
    THEN LET k == CHOOSE j \in 1..4 : EndsAt(s, j)
         IN  [error |-> "none", len_len |-> k, len |-> LengthValue(s, k)]
    ELSE IF Len(s) >= 4 THEN Err("MalformedRemainingLength") ELSE NeedMoreData(1)

(* parse_fixed_header. *)
FixedHeader(byte1, l) ==
    IF l.error # "none" THEN l
    ELSE [error |-> "none", byte1 |-> byte1, header |-> l.len_len + 1, remaining |-> l.len]

ParseFixedHeader(data) ==
    IF Len(data) < 2 THEN NeedMoreData(2 - Len(data))
    ELSE FixedHeader(data[1], DecodeLength(Tail(data)))

(* Faults of check: the missing bytes are counted the wrong way round, the  *)
(* header is asked for again, the limit is applied to the whole frame.     *)
CheckedBackwards(h, size, max) ==
    IF h.error # "none" THEN h
    ELSE IF h.remaining > max THEN Err("PayloadSizeLimitExceeded")
    ELSE IF size < h.header + h.remaining THEN NeedMoreData(size - (h.header + h.remaining))
    ELSE h

CheckedAskingTwice(h, size, max) ==
    IF h.error # "none" THEN h
    ELSE IF h.remaining > max THEN Err("PayloadSizeLimitExceeded")
    ELSE IF size < h.header + h.remaining THEN NeedMoreData(2 * h.header + h.remaining - size)
    ELSE h

CheckedWhole(h, size, max) ==
    IF h.error # "none" THEN h
    ELSE IF h.header + h.remaining > max THEN Err("PayloadSizeLimitExceeded")
    ELSE IF size < h.header + h.remaining THEN NeedMoreData(h.header + h.remaining - size)
    ELSE h

(* check, for a stream of `size` bytes that starts with the fixed header h. *)
Checked(h, size, max) ==
    IF h.error # "none" THEN h
    ELSE IF h.remaining > max THEN Err("PayloadSizeLimitExceeded")
    ELSE IF size < h.header + h.remaining THEN NeedMoreData(h.header + h.remaining - size)
    ELSE h

Check(data, max) == Checked(ParseFixedHeader(data), Len(data), max)

-----------------------------------------------------------------------------
(* put_u16 of an integer cast to u16. *)
U16(n) == <<(n \div 256) % 256, n % 256>>

(* The 16-bit integer whose first byte is byte i of b. *)
Word(b, i) == 256 * b[i] + b[i + 1]

(* write_mqtt_bytes and write_mqtt_string: the length is cast to u16, the  *)
(* bytes are written whole.                                                *)
MqttBytes(s) == U16(Len(s)) \o s

(* core::str::from_utf8, for strings in which no byte above 127 has the    *)
(* neighbours that would make it a part of a character.                    *)
IsUtf8(s) == \A i \in DOMAIN s : s[i] < 128

(* read_u8, read_u16, read_mqtt_bytes and read_mqtt_string: the field of   *)
(* the given kind after the first `from` bytes of b, and where it ends.    *)
(* "qos" is a u8 that is turned into a QoS.                                *)
Fixed(b, from, width, value) ==
    IF Len(b) - from < width THEN Err("MalformedPacket")
    ELSE [error |-> "none", value |-> value, next |-> from + width]

ReadU8(b, from) == Fixed(b, from, 1, b[from + 1])

ReadU16(b, from) == Fixed(b, from, 2, Word(b, from + 1))

Prefixed(b, len) ==
    IF len.error # "none" THEN len
    ELSE IF len.value > Len(b) - len.next THEN Err("MalformedPacket")
    ELSE [error |-> "none", next |-> len.next + len.value,
          value |-> SubSeq(b, len.next + 1, len.next + len.value)]

ReadBytes(b, from) == Prefixed(b, ReadU16(b, from))

Utf8Only(s) == IF s.error = "none" /\ ~IsUtf8(s.value) THEN Err("BadUtf8") ELSE s

ReadString(b, from) == Utf8Only(ReadBytes(b, from))

QoSOnly(q) == IF q.error = "none" /\ q.value > 2 THEN Err("InvalidQoS") ELSE q

ReadQoS(b, from) == QoSOnly(ReadU8(b, from))
=============================================================================
