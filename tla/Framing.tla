------------------------------- MODULE Framing -------------------------------
(***************************************************************************)
(* The byte stream of an MQTT 3.1.1 transport, as umqtt's packetview reads *)
(* it: a control packet is a fixed header (type byte and remaining length, *)
(* at least two bytes) followed by the number of bytes the header          *)
(* announces.  A frame is a record that says what the parser makes of      *)
(* those bytes; a byte is the frame it belongs to and its place in it, so  *)
(* that a stream that has lost its place can be told from one that has not.*)
(***************************************************************************)
EXTENDS Integers, Sequences

CONSTANTS Frames,    \* the frames that may appear on the stream
          PacketIds  \* the packet ids in use; 0 where a packet has none

(***************************************************************************)
(* The outcomes of Packet::read_exact on the bytes of one frame.           *)
(*   Refusal        a ConnAck whose return code is not Success             *)
(*   Foreign        a well-formed packet a broker does not send            *)
(*   Corrupt        framed, but read_exact reports an error                *)
(*   EndlessLength  a remaining length whose fourth byte still has the     *)
(*                  continuation bit: it frames nothing                    *)
(***************************************************************************)
PacketKinds == {"ConnAck", "Refusal", "Publish", "PubAck", "PubRec", "PubRel",
                "PubComp", "SubAck", "UnsubAck", "PingResp", "Foreign"}

FrameKinds == PacketKinds \cup {"Corrupt", "EndlessLength"}

(***************************************************************************)
(* FixedHeader: header is fixed_header_len, remaining is remaining_len.    *)
(* qos and pkid matter for Publish, pkid also for the acknowledgements.    *)
(***************************************************************************)
FrameSet == [kind : FrameKinds, header : Nat, remaining : Nat, qos : 0..2, pkid : PacketIds]

\* parse_fixed_header wants two bytes before it looks at anything.
ASSUME FramesAssumption ==
    /\ Frames \subseteq FrameSet
    /\ \A f \in Frames : f.header >= 2

(* FixedHeader::frame_length. *)
FrameLength(f) == f.header + f.remaining

Bytes == [frame : Frames, pos : Nat \ {0}]

(* The bytes of a frame on the wire. *)
Encode(f) == [i \in 1..FrameLength(f) |-> [frame |-> f, pos |-> i]]

(***************************************************************************)
(* The frames whose header the parser may see at the front of data.  When  *)
(* data starts in the middle of a frame any header may be read there.      *)
(***************************************************************************)
Fronts(data) ==
    IF data = << >> THEN {}
    ELSE IF data[1].pos = 1 THEN {data[1].frame} ELSE Frames

(* check: the fixed header announces more than max bytes, or never ends. *)
BadHeader(f, avail, max) ==
    /\ avail >= f.header
    /\ f.kind = "EndlessLength" \/ f.remaining > max

(* check returns Ok: the whole frame is there. *)
Framed(f, avail, max) ==
    /\ f.kind # "EndlessLength"
    /\ f.remaining <= max
    /\ avail >= FrameLength(f)

(* Packet::read fails with an error other than NeedMoreData. *)
ReadFails(f, avail, max) ==
    \/ BadHeader(f, avail, max)
    \/ Framed(f, avail, max) /\ f.kind = "Corrupt"

(* Packet::read returns a packet, of FrameLength(f) bytes. *)
ReadOk(f, avail, max) == Framed(f, avail, max) /\ f.kind # "Corrupt"

-----------------------------------------------------------------------------
(* s is a sequence of whole frames: every byte of it belongs to one that   *)
(* is in s from its first byte to its last.                                *)
WholeFrames(s) ==
    \A i \in 1..Len(s) :
        LET f == s[i].frame
            start == i - s[i].pos
        IN  /\ start \in Nat
            /\ s[i].pos <= FrameLength(f)
            /\ start + FrameLength(f) <= Len(s)
            /\ \A k \in 1..FrameLength(f) : s[start + k] = [frame |-> f, pos |-> k]
=============================================================================
