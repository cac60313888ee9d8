------------------------------- MODULE MCSansIo -------------------------------
(* Values for model-checking SansIo. *)
EXTENDS SansIo

Frame(kind, header, remaining) ==
    [kind |-> kind, header |-> header, remaining |-> remaining, qos |-> 0, pkid |-> 0]

(* One frame of every kind, and Publishes on both sides of the limit: the  *)
(* remaining length is what is compared with it.                           *)
MCFrames ==
    {Frame(k, 2, 1) : k \in PacketKinds}
        \cup {Frame("Corrupt", 2, 0), Frame("EndlessLength", 5, 0)}
        \cup {Frame("Publish", 2, MaxPacketSize), Frame("Publish", 2, MaxPacketSize + 1)}

MCKeepAlives == {0, 1, 3}
=============================================================================
