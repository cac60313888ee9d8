------------------------------ MODULE QosSession ------------------------------
(***************************************************************************)
(* NanoClient with a broker that keeps a session: it publishes a backlog   *)
(* of QoS 1 and 2 messages, and after a reconnection sends again what was  *)
(* not acknowledged.  NanoClient keeps nothing of a session; what the      *)
(* application gets of the two qualities of service follows from when the  *)
(* client takes a frame off the stream and when it acknowledges it.        *)
(* The user is the loop of the example: connect, take the next             *)
(* notification, complete it, and connect again when the connection ends.  *)
(* Every step is a step of NanoClient.                                     *)
(***************************************************************************)
EXTENDS NanoClient

CONSTANTS
    Backlog,        \* the PUBLISH frames of the session, in the order published
    PubRelOf(_),    \* the PUBREL frame with a packet id
    MaxFaults       \* bound: how often something goes wrong

VARIABLES
    phase,          \* the broker's session: how far each message is
    sentNow,        \* the messages it has sent (or released) on this connection
    serving,        \* it has accepted the CONNECT of this connection
    times,          \* history: how often the application was shown each message
    faults          \* history: how often something went wrong

session == << phase, sentNow, serving >>
svars == << vars, session, times, faults >>

Msgs == 1..Len(Backlog)

ASSUME SessionAssumption ==
    /\ Backlog \in Seq(Unsolicited)
    /\ \A i, j \in Msgs : Backlog[i] = Backlog[j] => i = j
    /\ \A i \in Msgs : Backlog[i].kind = "Publish" /\ Backlog[i].qos \in {1, 2}
    /\ \A p \in PacketIds : PubRelOf(p) \in Unsolicited /\ PubRelOf(p).kind = "PubRel"
    /\ \A p \in OutPackets : \A f \in Answers(p) : f.kind # "Publish"
    /\ MaxFaults \in Nat

Phases == {"queued", "publish", "release", "done"}

SessionTypeOK ==
    /\ TypeOK
    /\ phase \in [Msgs -> Phases]
    /\ sentNow \subseteq Msgs
    /\ serving \in BOOLEAN
    /\ times \in [Msgs -> Nat]
    /\ faults \in 0..MaxFaults

SessionInit ==
    /\ Init
    /\ phase = [i \in Msgs |-> "queued"]
    /\ sentNow = {} /\ serving = FALSE
    /\ times = [i \in Msgs |-> 0]
    /\ faults = 0

-----------------------------------------------------------------------------
(* Nothing is shown; the application is shown the packet just notified.    *)
NothingShown == UNCHANGED times

Shown(i) == Len(held') > Len(held) /\ held'[Len(held')].bytes = Encode(Backlog[i])

NotePublish == times' = [i \in Msgs |-> IF Shown(i) THEN times[i] + 1 ELSE times[i]]

Faultless == UNCHANGED faults

Fault == faults < MaxFaults /\ faults' = faults + 1

(* The user connects, the first time or because the connection ended. *)
Connect ==
    /\ \E ka \in KeepAlives : ConnectCall(ka, FALSE)
    /\ IF state = "Disconnected" THEN Faultless ELSE Fault
    /\ sentNow' = {} /\ serving' = FALSE
    /\ UNCHANGED phase /\ NothingShown

(* The loop of the example ... *)
Loop == (state # "Disconnected" /\ NextNotification) \/ (\E i \in 1..Len(held) : Complete(i))

(* ... and the call it waits for. *)
Call == WriteConnect \/ WritePacket \/ (eof /\ WriteFails) \/ ReadEof \/ ReadTimeout

Read == \E n \in 1..Capacity : ReadBytes(n)

Client ==
    /\ \/ (Loop \/ Call) /\ NothingShown
       \/ Read /\ NotePublish
    /\ Faultless /\ UNCHANGED session

Clock == Tick /\ NothingShown /\ Faultless /\ UNCHANGED session

(* The transport breaks, or the user drops a read or a notification. *)
Mishap ==
    /\ \/ ~eof /\ WriteFails
       \/ ReadErrs \/ BrokerCloses \/ CancelRead
       \/ \E i \in 1..Len(held) : DropNotification(i)
    /\ Fault /\ NothingShown /\ UNCHANGED session

-----------------------------------------------------------------------------
InFlight(i) == phase[i] \in {"publish", "release"}

(* Messages are sent in order, and again in order; packet ids are not      *)
(* used for two at a time.                                                 *)
MayPublish(i) ==
    /\ phase[i] \in {"queued", "publish"} /\ i \notin sentNow
    /\ \A j \in 1..(i - 1) : phase[j] \in {"queued", "publish"} => j \in sentNow
    /\ \A j \in Msgs \ {i} : InFlight(j) => Backlog[j].pkid # Backlog[i].pkid

Publish(i) ==
    /\ serving /\ MayPublish(i)
    /\ BrokerSends(Backlog[i])
    /\ phase' = [phase EXCEPT ![i] = "publish"]
    /\ sentNow' = sentNow \cup {i}
    /\ UNCHANGED serving /\ NothingShown /\ Faultless

Release(i) ==
    /\ serving /\ phase[i] = "release" /\ i \notin sentNow
    /\ BrokerSends(PubRelOf(Backlog[i].pkid))
    /\ sentNow' = sentNow \cup {i}
    /\ UNCHANGED << phase, serving >> /\ NothingShown /\ Faultless

(* What a packet from the client does to message i. *)
PhaseAfter(p, i) ==
    IF p.pkid # Backlog[i].pkid THEN phase[i]
    ELSE CASE p.kind = "PubAck" /\ phase[i] = "publish" /\ Backlog[i].qos = 1 -> "done"
           [] p.kind = "PubRec" /\ phase[i] = "publish" /\ Backlog[i].qos = 2 -> "release"
           [] p.kind = "PubComp" /\ phase[i] = "release" -> "done"
           [] OTHER -> phase[i]

(* It takes a packet and answers it: PUBREC with PUBREL, whether it still  *)
(* knows the message or not.                                               *)
Take ==
    /\ BrokerTakes
    /\ phase' = [i \in Msgs |-> PhaseAfter(Head(out), i)]
    /\ serving' = (serving \/ Head(out).kind = "Connect")
    /\ UNCHANGED sentNow /\ NothingShown /\ Faultless

Deliver == \E i \in Msgs : Publish(i) \/ Release(i)

SessionNext == Connect \/ Client \/ Clock \/ Mishap \/ Deliver \/ Take

SessionSpec == SessionInit /\ [][SessionNext]_svars

-----------------------------------------------------------------------------
(***************************************************************************)
(* Fairness.  The call in progress goes on when the transport lets it and  *)
(* the user makes the next one, time passes, the broker sends what it may  *)
(* and takes what it is sent, and the user connects again when the         *)
(* connection has ended.                                                   *)
(***************************************************************************)
SessionFairness ==
    /\ WF_svars(Client)
    /\ WF_svars(Clock)
    /\ WF_svars(state = "Disconnected" /\ Connect)
    /\ WF_svars(Deliver)
    /\ WF_svars(Take)

FairSessionSpec == SessionSpec /\ SessionFairness

-----------------------------------------------------------------------------
(***************************************************************************)
(* No message is lost: the broker forgets one, or for QoS 2 stops sending  *)
(* it, only after the application was shown it, whatever broke between     *)
(* the removal of the frame from rx_buffer and its acknowledgement, and    *)
(* however packet ids are used again (complete, complete_notification).    *)
(***************************************************************************)
ShownBeforeForgotten ==
    \A i \in Msgs : phase[i] \in {"release", "done"} => times[i] > 0

(***************************************************************************)
(* The application is never shown a message the broker was told it has: a  *)
(* frame that was acknowledged is not read from the stream a second time.  *)
(***************************************************************************)
ShownOnlyWhileOwed ==
    [][\A i \in Msgs : times'[i] # times[i] => phase[i] = "publish"]_svars

(***************************************************************************)
(* A message is shown again only because something failed since: without a *)
(* fault even at-least-once is exactly once, and no fault costs more than  *)
(* one repetition.                                                         *)
(***************************************************************************)
RepeatsNeedFaults == \A i \in Msgs : times[i] <= 1 + faults

(***************************************************************************)
(* Messages are first shown in the order they were published, through      *)
(* reconnections and repetitions.                                          *)
(***************************************************************************)
FirstShownInOrder ==
    \A i \in Msgs : times[i] > 0 => \A j \in 1..(i - 1) : times[j] > 0

(***************************************************************************)
(* As long as connections do not break for ever, every message is shown    *)
(* and its exchange of acknowledgements comes to its end.                  *)
(***************************************************************************)
AllDelivered == <>(\A i \in Msgs : phase[i] = "done")
=============================================================================
