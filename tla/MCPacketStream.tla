---------------------------- MODULE MCPacketStream -----------------------------
(* Packets, foreign frames and buffers for the run of PacketStream. *)
EXTENDS PacketStream

(* A short string, and payloads of n bytes for remaining lengths of two bytes. *)
Short == <<97>>
Long(n) == [i \in 1..n |-> 98]

Pub(qos, dup, retain, pkid, payload) ==
    [type |-> "Publish", dup |-> dup, qos |-> qos, retain |-> retain,
     topic |-> Short, pkid |-> pkid, payload |-> payload]

Conn(protocol, will, login) ==
    [type |-> "Connect", protocol |-> protocol, keep_alive |-> 300, client_id |-> Short,
     clean_session |-> TRUE, last_will |-> will, login |-> login]

Will == <<[topic |-> Short, message |-> << >>, qos |-> 1, retain |-> TRUE]>>
Login(username, password) == <<[username |-> username, password |-> password]>>

Filter(qos) == [path |-> Short, qos |-> qos]

BasicPackets ==
    {Pub(0, FALSE, TRUE, 7, Short), Pub(2, TRUE, FALSE, 2, << >>),
     Pub(1, FALSE, FALSE, 1, Long(123)), Pub(0, FALSE, FALSE, 0, Long(126)), Pub(1, FALSE, FALSE, 0, Short),
     Conn(4, Will, Login(Short, Short)), Conn(4, << >>, Login(<< >>, Short)),
     Conn(4, << >>, Login(<< >>, << >>)), Conn(5, << >>, << >>),
     [type |-> "ConnAck", session_present |-> TRUE, code |-> 5],
     [type |-> "PubAck", pkid |-> 65534],
     [type |-> "PubRel", pkid |-> 1], [type |-> "PubRec", pkid |-> 3], [type |-> "PubComp", pkid |-> 4],
     [type |-> "UnsubAck", pkid |-> 256],
     [type |-> "Subscribe", pkid |-> 1, filters |-> <<Filter(2), Filter(0)>>],
     [type |-> "Subscribe", pkid |-> 1, filters |-> << >>],
     [type |-> "SubAck", pkid |-> 1, codes |-> <<2, 128>>],
     [type |-> "SubAck", pkid |-> 1, codes |-> << >>],
     [type |-> "Unsubscribe", pkid |-> 3, topics |-> <<Short, << >> >>],
     [type |-> "PingReq"], [type |-> "PingResp"], [type |-> "Disconnect"]}

(* Topics and filters of up to three levels, written with a, /, +, # and $. *)
A == <<97>>
S == <<47>>
P == <<43>>
H == <<35>>

TopicNames == {<< >>, A, S, A \o S, A \o S \o A, S \o A, A \o A, A \o S \o S, A \o S \o A \o S \o A, <<36>> \o A}

TopicFilters ==
    <<A, H, P, S, A \o S \o H, A \o S \o P, P \o S \o P, P \o S \o H, S \o P, P \o S \o A, A \o S \o A,
      A \o S \o S \o H, A \o H, P \o A, H \o S \o A, P \o P \o S, A \o S \o P \o S \o A, << >> >>

Publication(topic) == [Pub(0, FALSE, FALSE, 0, << >>) EXCEPT !.topic = topic]

Subscription ==
    [type |-> "Subscribe", pkid |-> 1,
     filters |-> [i \in DOMAIN TopicFilters |-> [path |-> TopicFilters[i], qos |-> 1]]]

MCPackets == BasicPackets \cup {Publication(t) : t \in TopicNames} \cup {Subscription}

MCFollowers ==
    {Subscription, Pub(1, FALSE, FALSE, 1, Long(123)), Pub(2, TRUE, FALSE, 2, << >>),
     Conn(4, Will, Login(Short, Short)), [type |-> "PubRel", pkid |-> 1], [type |-> "PingReq"]}

(* The frames of the packets with one byte other than the length changed,  *)
(* or cut short with the length that goes with it, and an endless length.  *)
Bodies == {w.bytes : w \in {v \in UNION {Writes(p, 24) : p \in BasicPackets} : v.error = "none"}}

Changed ==
    {[b EXCEPT ![1] = v] : b \in Bodies, v \in {0, 50, 54, 144, 255}}
    \cup UNION {{[b EXCEPT ![i] = v] : i \in 3..Len(b), v \in {0, 5, 255}} : b \in Bodies}

Cut == {[SubSeq(b, 1, Len(b) - 1) EXCEPT ![2] = @ - 1] : b \in {c \in Bodies : Len(c) > 2}}

MCForeign ==
    {b \in (Changed \cup Cut \cup {<<48, 255, 255, 255, 255>>}) \ Bodies : OneFrame(b)}

MCCapacities == {4, 12, 200}
=============================================================================
