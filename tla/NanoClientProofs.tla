--------------------------- MODULE NanoClientProofs ---------------------------
(***************************************************************************)
(* Theorems about NanoClient, for every buffer capacity, set of frames,    *)
(* broker, user and bound; in the second part, about the place in the      *)
(* stream: what is read, delivered and removed, for a user that completes  *)
(* or forgets a notification before it asks for another, and does not move *)
(* the client to other buffers.                                            *)
(***************************************************************************)
EXTENDS NanoRefinement, TransportClientProofs, FiniteSetTheorems

(* The part of the state a call in progress owns. *)
CallOK ==
    /\ pc \in {Idle} \cup Reading \cup WritingPcs
    /\ op \in Writes /\ (pc \in WritingPcs => op.packet \in OutPackets)
    /\ ret \in Results

(* The receive side. *)
StreamOK == rx \in Seq(Bytes) /\ Len(rx) <= Capacity /\ net \in Seq(Bytes)

(* TypeOK by parts. *)
LEMMA TypeParts ==
    TypeOK <=> /\ ClientTypeOK /\ StreamOK /\ CallOK
               /\ eof \in BOOLEAN /\ torn \in BOOLEAN /\ greeted \in BOOLEAN
               /\ subscribing \in BOOLEAN
               /\ out \in Seq(OutPackets) /\ held \in Seq(Notifications)
BY DEF TypeOK, StreamOK, CallOK

-----------------------------------------------------------------------------
(* The calls. *)
LEMMA EmptyBytes == << >> \in Seq(Bytes) /\ Len(<< >>) = 0
BY EmptySeq

LEMMA NoWriteType == NoWrite \in Writes
BY EmptyBytes DEF NoWrite, Writing, Writes

LEMMA WritingType ==
    ASSUME NEW packet \in OutPackets, NEW origin \in {"user", "completion"},
           NEW covers \in Seq(Bytes)
    PROVE  /\ Writing(packet, origin, covers) \in Writes
           /\ Writing(packet, origin, covers).packet = packet
BY DEF Writing, Writes

LEMMA OutPacketType ==
    ASSUME NEW kind \in PacketKindsOut, NEW pkid \in PacketIds
    PROVE  OutPacket(kind, pkid) \in OutPackets
BY DEF OutPacket, OutPackets

LEMMA ReturnType == ASSUME NEW r \in Results, Return(r) PROVE CallOK'
BY NoWriteType DEF Return, CallOK, Idle, WritingPcs

LEMMA AwaitType ==
    ASSUME NEW where \in Reading \cup WritingPcs, NEW write \in Writes, Await(where, write),
           where \in WritingPcs => write.packet \in OutPackets
    PROVE  CallOK'
BY DEF Await, CallOK, Results

LEMMA TransmitType ==
    ASSUME NEW packet \in OutPackets, NEW origin \in {"user", "completion"},
           NEW covers \in Seq(Bytes), Transmit(packet, origin, covers)
    PROVE  CallOK'
<1>1. CASE Return("WriteError")
  BY <1>1, ReturnType DEF Results
<1>2. CASE Return("ConnectionClosed")
  BY <1>2, ReturnType DEF Results
<1>3. CASE Await("write", Writing(packet, origin, covers))
  BY <1>3, AwaitType, WritingType DEF WritingPcs
<1> QED
  BY <1>1, <1>2, <1>3 DEF Transmit

LEMMA StartSubscribeType == ASSUME StartSubscribe PROVE CallOK'
<1>1. CASE Return("WriteError")
  BY <1>1, ReturnType DEF Results
<1>2. CASE Await("subscribe", Writing(OutPacket("Subscribe", 1), "user", << >>))
  <2>1. OutPacket("Subscribe", 1) \in OutPackets
    BY NanoAssumption, OutPacketType DEF PacketKindsOut
  <2> QED
    BY <1>2, <2>1, AwaitType, WritingType, EmptyBytes DEF WritingPcs
<1> QED
  BY <1>1, <1>2 DEF StartSubscribe

(* The buffer after a prefix has been removed, and what was removed. *)
LEMMA RemovePrefixType ==
    ASSUME NEW s \in Seq(Bytes), NEW n \in Nat
    PROVE  RemovePrefix(s, n) \in Seq(Bytes) /\ Len(RemovePrefix(s, n)) <= Len(s)
<1>1. Len(s) \in Nat /\ \A i \in 1..Len(s) : s[i] \in Bytes
  BY LenProperties, ElementOfSeq
<1>2. \A i \in (n + 1)..Len(s) : s[i] \in Bytes
  BY <1>1
<1>3. /\ SubSeq(s, n + 1, Len(s)) \in Seq(Bytes)
      /\ Len(SubSeq(s, n + 1, Len(s))) = IF n + 1 <= Len(s) THEN Len(s) - (n + 1) + 1 ELSE 0
  BY <1>1, <1>2, SubSeqProperties
<1> QED
  BY <1>1, <1>3 DEF RemovePrefix

LEMMA RemovedType ==
    ASSUME NEW s \in Seq(Bytes), NEW n \in Nat
    PROVE  Removed(s, n) \in Seq(Bytes)
<1>1. Len(s) \in Nat /\ \A i \in 1..Len(s) : s[i] \in Bytes
  BY LenProperties, ElementOfSeq
<1> DEFINE m == IF n < Len(s) THEN n ELSE Len(s)
<1>2. m \in Nat /\ \A i \in 1..m : s[i] \in Bytes
  BY <1>1
<1>3. SubSeq(s, 1, m) \in Seq(Bytes)
  BY <1>2, SubSeqProperties
<1> QED
  BY <1>3 DEF Removed

LEMMA PacketSentType == ASSUME ClientTypeOK, OnPacketSent(0) PROVE ClientTypeOK'
<1>1. 0 \in Instants
  BY ClientAssumption DEF Instants
<1>2. packet_send_at' \in Instants
  BY <1>1, LaterInRange DEF OnPacketSent, ClientTypeOK
<1> QED
  BY <1>2 DEF OnPacketSent, ClientTypeOK

-----------------------------------------------------------------------------
(* What a read that returned bytes does to the types. *)
LEMMA ReadBytesType ==
    ASSUME TypeOK, NEW n \in 1..Capacity, ReadBytes(n)
    PROVE  StreamOK' /\ CallOK' /\ state' \in States /\ held' \in Seq(Notifications)
<1> DEFINE front == SubSeq(net, 1, n)
<1> DEFINE data == rx \o front
<1>1. n \in 0..Len(net) /\ n <= Capacity - Len(rx)
  BY DEF ReadBytes, TypeOK, Free
<1>2. /\ front \in Seq(Bytes) /\ Len(front) = n
      /\ net' = SubSeq(net, n + 1, Len(net)) /\ net' \in Seq(Bytes)
  BY <1>1, MoveBytes DEF ReadBytes, TypeOK
<1>3. data \in Seq(Bytes) /\ Len(data) = Len(rx) + n
  BY <1>2, ConcatProperties DEF TypeOK
<1>4. Len(rx) \in Nat /\ Len(data) \in Nat /\ Len(data) <= Capacity
  BY <1>1, <1>3, LenProperties, NanoAssumption DEF TypeOK
<1>5. PICK f \in Fronts(data) :
          IF pc = "connack" THEN ContinueConnect(f, data) ELSE ContinueRead(f, data)
  BY DEF ReadBytes
<1> HIDE DEF data, front
<1>6. f \in Frames
  <2>1. data # << >> => data[1] \in Bytes
    BY <1>3, EmptySeq, ElementOfSeq
  <2> QED
    BY <1>5, <2>1 DEF Fronts, Bytes
<1> DEFINE v == OnBytesReceived(f, Len(data))
<1>7. /\ v \in Verdicts
      /\ v.tag = "Notification" => v.kind \in {"Disconnected", "ConnAck"} \cup SessionKinds
  BY <1>4, <1>6, VerdictFacts DEF TypeOK
<1>8. v.taken \in Nat /\ v.next \in States
  BY <1>7 DEF Verdicts
<1>9. TypeOK /\ CallOK
  BY TypeParts
<1>10. CASE pc = "connack"
  <2>1. ContinueConnect(f, data)
    BY <1>5, <1>10
  <2>2. state' \in States /\ held' = held
    BY <1>8, <2>1 DEF ContinueConnect
  <2>3. CASE rx' = data /\ UNCHANGED << pc, op, ret >>
    BY <1>2, <1>3, <1>4, <1>9, <2>2, <2>3 DEF StreamOK, CallOK, TypeOK
  <2>4. CASE rx' = data /\ (Return("ReadError") \/ Return("UnexpectedPacket"))
    <3>1. CallOK'
      BY <2>4, ReturnType DEF Results
    <3> QED
      BY <1>2, <1>3, <1>4, <1>9, <2>2, <2>4, <3>1 DEF StreamOK, TypeOK
  <2>5. CASE /\ rx' = RemovePrefix(data, v.taken)
             /\ IF subscribing THEN StartSubscribe ELSE Return("ConnAck")
    <3>1. CallOK'
      BY <2>5, ReturnType, StartSubscribeType DEF Results
    <3>2. rx' \in Seq(Bytes) /\ Len(rx') <= Capacity
      <4>1. rx' \in Seq(Bytes) /\ Len(rx') <= Len(data)
        BY <1>3, <1>8, <2>5, RemovePrefixType
      <4>2. Len(rx') \in Nat
        BY <4>1, LenProperties
      <4> QED
        BY <1>4, <4>1, <4>2, NanoAssumption
    <3> QED
      BY <1>2, <1>9, <2>2, <3>1, <3>2 DEF StreamOK, TypeOK
  <2> QED
    BY <2>1, <2>3, <2>4, <2>5 DEF ContinueConnect
<1>11. CASE pc # "connack"
  <2>1. ContinueRead(f, data)
    BY <1>5, <1>11
  <2>2. StreamOK'
    BY <1>2, <1>3, <1>4, <2>1 DEF ContinueRead, StreamOK
  <2>3. CASE UNCHANGED << state, pc, op, ret, held >>
    BY <1>9, <2>2, <2>3 DEF CallOK, TypeOK, ClientTypeOK
  <2>4. CASE state' = v.next /\ Return("ReadError") /\ UNCHANGED held
    <3>1. CallOK'
      BY <2>4, ReturnType DEF Results
    <3> QED
      BY <1>8, <1>9, <2>2, <2>4, <3>1 DEF TypeOK
  <2>5. CASE /\ v.tag = "Notification" /\ state' = v.next
             /\ held' = Append(held, Notified(v.kind, f, v.taken, Removed(data, v.taken)))
             /\ Return("Notification")
    <3> DEFINE t == Notified(v.kind, f, v.taken, Removed(data, v.taken))
    <3>1. CallOK'
      BY <2>5, ReturnType DEF Results
    <3>2. v.kind \in FrameKinds \cup {"Disconnected", "SendPing"}
      BY <1>7, <2>5 DEF FrameKinds, PacketKinds, SessionKinds
    <3>3. Removed(data, v.taken) \in Seq(Bytes)
      BY <1>3, <1>8, RemovedType
    <3>4. t \in Notifications
      BY <1>6, <1>8, <3>2, <3>3, FramesAssumption DEF FrameSet, Notified, Notifications
    <3>5. held' \in Seq(Notifications)
      BY <1>9, <2>5, <3>4, AppendProperties DEF TypeOK
    <3> QED
      BY <1>8, <2>2, <2>5, <3>1, <3>5
  <2> QED
    BY <2>1, <2>3, <2>4, <2>5 DEF ContinueRead
<1> QED
  BY <1>10, <1>11

(* What completing a notification does to them. *)
LEMMA CompletionType ==
    ASSUME NEW t \in Notifications, NEW c \in Completions(t), c[1] # NoPacket
    PROVE  c[1] \in OutPackets /\ c[2] \in {"user", "completion"}
<1>1. t.pkid \in PacketIds /\ 0 \in PacketIds
  BY NanoAssumption DEF Notifications
<1>2. DefaultAction(t) \in OutPackets \cup {NoPacket}
  BY <1>1 DEF DefaultAction, OutPacket, OutPackets, PacketKindsOut
<1>3. PingOnly(t) \in OutPackets \cup {NoPacket}
  BY <1>1 DEF PingOnly, OutPacket, OutPackets, PacketKindsOut
<1>4. Actions \subseteq OutPackets
  BY NanoAssumption DEF Actions
<1> QED
  BY <1>2, <1>3, <1>4 DEF Completions

LEMMA RemoveAtType ==
    ASSUME NEW S, NEW s \in Seq(S), NEW i \in 1..Len(s)
    PROVE  RemoveAt(s, i) \in Seq(S)
<1>1. Len(s) \in Nat /\ \A j \in 1..Len(s) : s[j] \in S
  BY LenProperties, ElementOfSeq
<1>2. SubSeq(s, 1, i - 1) \in Seq(S)
  BY <1>1, SubSeqProperties
<1>3. SubSeq(s, i + 1, Len(s)) \in Seq(S)
  BY <1>1, SubSeqProperties
<1> QED
  BY <1>2, <1>3, ConcatProperties DEF RemoveAt

LEMMA CompleteType ==
    ASSUME TypeOK, NEW i \in 1..Len(held), Complete(i)
    PROVE  StreamOK' /\ CallOK' /\ held' \in Seq(Notifications)
<1> DEFINE t == held[i]
<1>1. t \in Notifications /\ t.taken \in Nat
  <2>1. held \in Seq(Notifications)
    BY DEF TypeOK
  <2>2. t \in Notifications
    BY <2>1, ElementOfSeq
  <2> QED
    BY <2>2 DEF Notifications
<1>2. held' \in Seq(Notifications)
  BY RemoveAtType DEF Complete, TypeOK
<1>3. rx' \in Seq(Bytes) /\ Len(rx') <= Len(rx)
  BY <1>1, RemovePrefixType DEF Complete, TypeOK
<1>4. StreamOK'
  <2>1. Len(rx) \in Nat /\ Len(rx') \in Nat /\ Len(rx) <= Capacity
    BY <1>3, LenProperties DEF TypeOK
  <2> QED
    BY <1>3, <2>1, NanoAssumption DEF Complete, StreamOK, TypeOK
<1>5. PICK c \in Completions(t) :
          IF c[1] = NoPacket THEN Return("Ok") ELSE Transmit(c[1], c[2], Removed(rx, t.taken))
  BY DEF Complete
<1>6. CASE c[1] = NoPacket
  BY <1>2, <1>4, <1>5, <1>6, ReturnType DEF Results
<1>7. CASE c[1] # NoPacket
  <2>1. Removed(rx, t.taken) \in Seq(Bytes)
    BY <1>1, RemovedType DEF TypeOK
  <2>2. c[1] \in OutPackets /\ c[2] \in {"user", "completion"}
    BY <1>1, <1>7, CompletionType
  <2> QED
    BY <1>2, <1>4, <1>5, <1>7, <2>1, <2>2, TransmitType
<1> QED
  BY <1>6, <1>7

(* What the client writes, whole or in part, is a sequence of packets. *)
LEMMA WrittenType ==
    ASSUME TypeOK, pc \in WritingPcs
    PROVE  Append(out, op.packet) \in Seq(OutPackets) /\ out \o << op.packet >> \in Seq(OutPackets)
<1>1. op.packet \in OutPackets /\ out \in Seq(OutPackets)
  BY DEF TypeOK
<1> QED
  BY <1>1, AppendProperties, AppendIsConcat

LEMMA PartlyWrittenType ==
    ASSUME TypeOK, pc \in WritingPcs, PartlyWritten
    PROVE  out' \in Seq(OutPackets) /\ torn' \in BOOLEAN /\ greeted' \in BOOLEAN
<1>1. CASE UNCHANGED << out, torn, greeted >>
  BY <1>1 DEF TypeOK
<1>2. CASE torn' = TRUE /\ UNCHANGED << out, greeted >>
  BY <1>2 DEF TypeOK
<1>3. CASE /\ out' = Append(out, op.packet)
           /\ torn' = FALSE
           /\ greeted' = (greeted \/ pc = "connect")
  <2>1. out' \in Seq(OutPackets)
    BY <1>3, WrittenType
  <2>2. torn' \in BOOLEAN /\ greeted' \in BOOLEAN
    BY <1>3, Zenon DEF TypeOK
  <2> QED
    BY <2>1, <2>2
<1> QED
  BY <1>1, <1>2, <1>3 DEF PartlyWritten

-----------------------------------------------------------------------------
LEMMA InitTypeOK == Init => TypeOK
<1> SUFFICES ASSUME Init PROVE TypeOK
  OBVIOUS
<1>1. ClientTypeOK
  BY ClientAssumption DEF Init, ClientInit, ClientTypeOK, States, Instants
<1>2. StreamOK
  BY EmptyBytes, NanoAssumption DEF Init, StreamOK
<1>3. CallOK
  BY NoWriteType DEF Init, CallOK, Results, Idle, WritingPcs
<1>4. out \in Seq(OutPackets) /\ held \in Seq(Notifications)
  BY EmptySeq DEF Init
<1>5. eof \in BOOLEAN /\ torn \in BOOLEAN /\ greeted \in BOOLEAN /\ subscribing \in BOOLEAN
  BY DEF Init
<1> QED
  BY <1>1, <1>2, <1>3, <1>4, <1>5, TypeParts

LEMMA NextTypeOK == TypeOK /\ [Next]_vars => TypeOK'
<1> SUFFICES ASSUME TypeOK, [Next]_vars PROVE TypeOK'
  OBVIOUS
<1>a. /\ ClientTypeOK /\ StreamOK /\ CallOK
      /\ eof \in BOOLEAN /\ torn \in BOOLEAN /\ greeted \in BOOLEAN /\ subscribing \in BOOLEAN
      /\ out \in Seq(OutPackets) /\ held \in Seq(Notifications)
  BY TypeParts
<1>b. ASSUME ClientTypeOK', StreamOK', CallOK',
             eof' \in BOOLEAN, torn' \in BOOLEAN, greeted' \in BOOLEAN, subscribing' \in BOOLEAN,
             out' \in Seq(OutPackets), held' \in Seq(Notifications)
      PROVE  TypeOK'
  BY <1>b DEF TypeOK, StreamOK, CallOK
<1>c. ASSUME UNCHANGED << rx, net >> PROVE StreamOK'
  BY <1>a, <1>c DEF StreamOK
<1>d. ASSUME UNCHANGED << pc, op, ret >> PROVE CallOK'
  BY <1>a, <1>d DEF CallOK
<1>e. ASSUME UNCHANGED << keep_alive, packet_send_at >>, state' \in States PROVE ClientTypeOK'
  BY <1>a, <1>e DEF ClientTypeOK
<1>f. state \in States
  BY <1>a DEF ClientTypeOK
<1>1. ASSUME NEW ka \in KeepAlives, NEW s \in BOOLEAN, ConnectCall(ka, s) PROVE TypeOK'
  <2>1. ClientTypeOK'
    BY <1>1, ClientAssumption, NanoAssumption
       DEF ConnectCall, OnTransportOpened, ClientTypeOK, Instants, States
  <2>2. StreamOK'
    BY <1>1, EmptyBytes, NanoAssumption DEF ConnectCall, ResetBuffer, StreamOK
  <2>3. CallOK'
    <3>1. OutPacket("Connect", 0) \in OutPackets
      BY NanoAssumption, OutPacketType DEF PacketKindsOut
    <3>2. \/ Return("WriteError")
          \/ Await("connect", Writing(OutPacket("Connect", 0), "user", << >>))
      BY <1>1 DEF ConnectCall
    <3> QED
      BY <3>1, <3>2, ReturnType, AwaitType, WritingType, EmptyBytes DEF Results, WritingPcs
  <2>4. out' \in Seq(OutPackets) /\ held' \in Seq(Notifications)
    BY <1>1, <1>a, EmptySeq DEF ConnectCall
  <2>5. eof' \in BOOLEAN /\ torn' \in BOOLEAN /\ greeted' \in BOOLEAN /\ subscribing' \in BOOLEAN
    BY <1>1 DEF ConnectCall
  <2> QED
    BY <2>1, <2>2, <2>3, <2>4, <2>5, <1>b DEF TypeOK, StreamOK, CallOK
<1>2. CASE WriteConnect
  <2>1. CallOK'
    BY <1>2, AwaitType, NoWriteType DEF WriteConnect, Reading, WritingPcs
  <2>2. ClientTypeOK' /\ out' \in Seq(OutPackets)
    BY <1>2, <1>a, PacketSentType, WrittenType DEF WriteConnect, Written, WritingPcs
  <2> QED
    BY <1>2, <1>a, <1>c, <2>1, <2>2, <1>b DEF WriteConnect, Written
<1>3. CASE WriteSubscribe
  <2>1. CallOK'
    BY <1>3, <1>a, AwaitType DEF WriteSubscribe, WritingPcs, CallOK
  <2>2. ClientTypeOK' /\ out' \in Seq(OutPackets)
    BY <1>3, <1>a, PacketSentType, ConcatEmptySeq DEF WriteSubscribe, Written
  <2> QED
    BY <1>3, <1>a, <1>c, <2>1, <2>2, <1>b DEF WriteSubscribe, Written
<1>4. CASE WriteFilters
  <2>1. CallOK'
    BY <1>4, ReturnType DEF WriteFilters, Results
  <2>2. ClientTypeOK' /\ out' \in Seq(OutPackets)
    BY <1>4, <1>a, PacketSentType, WrittenType DEF WriteFilters, Written, WritingPcs
  <2> QED
    BY <1>4, <1>a, <1>c, <2>1, <2>2, <1>b DEF WriteFilters, Written
<1>5. CASE WritePacket
  <2>1. CallOK'
    BY <1>5, ReturnType DEF WritePacket, Results
  <2>2. ClientTypeOK' /\ out' \in Seq(OutPackets)
    BY <1>5, <1>a, PacketSentType, WrittenType DEF WritePacket, Written, WritingPcs
  <2> QED
    BY <1>5, <1>a, <1>c, <2>1, <2>2, <1>b DEF WritePacket, Written
<1>6. CASE WriteFails
  <2>1. CallOK' /\ ClientTypeOK'
    BY <1>6, <1>e, ReturnType DEF WriteFails, Results, OnTransportClosed, States
  <2>2. out' \in Seq(OutPackets) /\ torn' \in BOOLEAN /\ greeted' \in BOOLEAN
    BY <1>6, PartlyWrittenType DEF WriteFails
  <2> QED
    BY <1>6, <1>a, <1>c, <2>1, <2>2, <1>b DEF WriteFails
<1>7. ASSUME NEW n \in 1..Capacity, ReadBytes(n) PROVE TypeOK'
  <2>1. StreamOK' /\ CallOK' /\ state' \in States /\ held' \in Seq(Notifications)
    BY <1>7, ReadBytesType
  <2> QED
    BY <1>7, <1>a, <1>e, <2>1, <1>b DEF ReadBytes
<1>8. CASE ReadEof \/ ReadErrs
  <2>1. CallOK' /\ ClientTypeOK'
    BY <1>8, <1>e, ReturnType DEF ReadEof, ReadErrs, ReadEnds, Results, OnTransportClosed, States
  <2> QED
    BY <1>8, <1>a, <1>c, <2>1, <1>b DEF ReadEof, ReadErrs, ReadEnds
<1>9. CASE ReadTimeout
  <2>1. CallOK'
    BY <1>9, ReturnType DEF ReadTimeout, Results
  <2>2. SendPing \in Notifications
    BY NanoAssumption, EmptyBytes DEF SendPing, Notifications
  <2>3. held' \in Seq(Notifications)
    BY <1>9, <1>a, <2>2, AppendProperties DEF ReadTimeout
  <2> QED
    BY <1>9, <1>a, <1>c, <1>e, <1>f, <2>1, <2>3, <1>b DEF ReadTimeout
<1>10. CASE NextNotification
  <2>1. CallOK'
    BY <1>10, ReturnType, AwaitType, NoWriteType
       DEF NextNotification, Results, Reading, WritingPcs
  <2> QED
    BY <1>10, <1>a, <1>c, <1>e, <1>f, <2>1, <1>b DEF NextNotification
<1>11. CASE CancelRead
  <2>1. CallOK'
    BY <1>11, ReturnType DEF CancelRead, Results
  <2> QED
    BY <1>11, <1>a, <1>c, <1>e, <1>f, <2>1, <1>b DEF CancelRead
<1>12. CASE CancelWrite
  <2>1. CallOK'
    BY <1>12, ReturnType DEF CancelWrite, Results
  <2>2. out' \in Seq(OutPackets) /\ torn' \in BOOLEAN /\ greeted' \in BOOLEAN
    BY <1>12, PartlyWrittenType DEF CancelWrite
  <2> QED
    BY <1>12, <1>a, <1>c, <1>e, <1>f, <2>1, <2>2, <1>b DEF CancelWrite
<1>13. ASSUME NEW i \in 1..Len(held), Complete(i) PROVE TypeOK'
  <2>1. StreamOK' /\ CallOK' /\ held' \in Seq(Notifications)
    BY <1>13, CompleteType
  <2> QED
    BY <1>13, <1>a, <1>e, <1>f, <2>1, <1>b DEF Complete
<1>14. ASSUME NEW i \in 1..Len(held), DropNotification(i) PROVE TypeOK'
  <2>1. held' \in Seq(Notifications)
    BY <1>14, <1>a, RemoveAtType DEF DropNotification
  <2> QED
    BY <1>14, <1>a, <1>c, <1>d, <1>e, <1>f, <2>1, <1>b DEF DropNotification
<1>15. ASSUME NEW p \in UserPackets, Send(p) PROVE TypeOK'
  <2>1. CallOK'
    BY <1>15, TransmitType, EmptyBytes, NanoAssumption DEF Send
  <2> QED
    BY <1>15, <1>a, <1>c, <1>e, <1>f, <2>1, <1>b DEF Send
<1>16. CASE Rewrap
  <2>1. StreamOK'
    BY <1>16, <1>a, EmptyBytes, NanoAssumption DEF Rewrap, StreamOK
  <2> QED
    BY <1>16, <1>a, <1>d, <1>e, <1>f, <2>1, <1>b DEF Rewrap
<1>17. ASSUME NEW f \in Unsolicited, BrokerSends(f) PROVE TypeOK'
  <2>1. StreamOK'
    BY <1>17, <1>a, EncodeType, ConcatProperties, NanoAssumption DEF BrokerSends, StreamOK
  <2> QED
    BY <1>17, <1>a, <1>d, <1>e, <1>f, <2>1, <1>b DEF BrokerSends
<1>18. CASE BrokerTakes
  <2>1. Head(out) \in OutPackets /\ out' \in Seq(OutPackets)
    BY <1>18, <1>a, HeadTailProperties DEF BrokerTakes
  <2>2. CASE UNCHANGED net
    BY <1>18, <1>a, <1>c, <1>d, <1>e, <1>f, <2>1, <2>2, <1>b DEF BrokerTakes
  <2>3. ASSUME NEW f \in Answers(Head(out)), net' = net \o Encode(f) PROVE TypeOK'
    <3>1. f \in Frames
      BY <2>1, <2>3, NanoAssumption
    <3>2. StreamOK'
      BY <1>18, <1>a, <2>3, <3>1, EncodeType, ConcatProperties DEF BrokerTakes, StreamOK
    <3> QED
      BY <1>18, <1>a, <1>d, <1>e, <1>f, <2>1, <3>2, <1>b DEF BrokerTakes
  <2> QED
    BY <1>18, <2>2, <2>3 DEF BrokerTakes
<1>19. CASE BrokerCloses
  BY <1>19, <1>a, <1>c, <1>d, <1>e, <1>f, <1>b DEF BrokerCloses
<1>20. CASE Tick
  <2>1. ClientTypeOK'
    BY <1>20, <1>a, ClientAssumption DEF Tick, ClientTypeOK, Instants
  <2> QED
    BY <1>20, <1>a, <1>c, <1>d, <2>1, <1>b DEF Tick
<1>21. CASE UNCHANGED vars
  BY <1>21, <1>a, <1>c, <1>d, <1>e, <1>f, <1>b DEF vars
<1> QED
  BY <1>1, <1>2, <1>3, <1>4, <1>5, <1>6, <1>7, <1>8, <1>9, <1>10, <1>11, <1>12, <1>13, <1>14,
     <1>15, <1>16, <1>17, <1>18, <1>19, <1>20, <1>21 DEF Next

(* Every variable of the client keeps its type; rx_buffer never overflows. *)
THEOREM TypeCorrect == Spec => []TypeOK
<1>1. Init => TypeOK
  BY InitTypeOK
<1>2. TypeOK /\ [Next]_vars => TypeOK'
  BY NextTypeOK
<1> QED
  BY <1>1, <1>2, PTL DEF Spec

-----------------------------------------------------------------------------
(***************************************************************************)
(* ReturnMatchesState is inductive once it is said in which state each     *)
(* await of connect is reached: a refused or lost handshake never leaves   *)
(* the client anywhere but Disconnected.                                   *)
(***************************************************************************)
ReturnInv ==
    /\ ReturnMatchesState
    /\ pc \in {"connect", "connack"} => state = "TransportConnected"
    /\ pc \in {"subscribe", "filters"} => state = "Connected"

(* The frame a read finds at the front, and what the client makes of it. *)
LEMMA ReadBytesCases ==
    ASSUME TypeOK, NEW n \in 1..Capacity, ReadBytes(n)
    PROVE  LET data == rx \o SubSeq(net, 1, n) IN
           /\ Len(data) \in Nat
           /\ data \in Seq(Bytes)
           /\ \E f \in Fronts(data) :
                 /\ f \in Frames
                 /\ \/ pc = "connack" /\ ContinueConnect(f, data)
                    \/ pc = "read" /\ ContinueRead(f, data)
<1> DEFINE data == rx \o SubSeq(net, 1, n)
<1>1. n \in 0..Len(net)
  BY DEF ReadBytes, TypeOK
<1>2. SubSeq(net, 1, n) \in Seq(Bytes)
  BY <1>1, MoveBytes DEF TypeOK
<1>3. data \in Seq(Bytes)
  BY <1>2, ConcatProperties DEF TypeOK
<1>4. Len(data) \in Nat
  BY <1>3, LenProperties
<1>5. PICK f \in Fronts(data) :
          IF pc = "connack" THEN ContinueConnect(f, data) ELSE ContinueRead(f, data)
  BY DEF ReadBytes
<1>6. pc \in {"connack", "read"}
  BY DEF ReadBytes, Reading
<1> HIDE DEF data
<1>7. f \in Frames
  <2>1. data # << >> => data[1] \in Bytes
    BY <1>3, EmptySeq, ElementOfSeq
  <2> QED
    BY <1>5, <2>1 DEF Fronts, Bytes
<1> QED
  BY <1>3, <1>4, <1>5, <1>6, <1>7 DEF data

LEMMA NextReturnInv == TypeOK /\ ReturnInv /\ [Next]_vars => ReturnInv'
<1> SUFFICES ASSUME TypeOK, ReturnInv, [Next]_vars PROVE ReturnInv'
  OBVIOUS
<1> USE DEF ReturnInv, ReturnMatchesState, Reading, WritingPcs, Idle, Return, Await
<1>1. ASSUME NEW ka \in KeepAlives, NEW s \in BOOLEAN, ConnectCall(ka, s) PROVE ReturnInv'
  BY <1>1 DEF ConnectCall, OnTransportOpened
<1>2. CASE WriteConnect
  BY <1>2 DEF WriteConnect, Written, OnPacketSent
<1>3. CASE WriteSubscribe
  BY <1>3 DEF WriteSubscribe, Written, OnPacketSent
<1>4. CASE WriteFilters
  BY <1>4 DEF WriteFilters, Written, OnPacketSent
<1>5. CASE WritePacket
  BY <1>5 DEF WritePacket, Written, OnPacketSent
<1>6. CASE WriteFails
  BY <1>6 DEF WriteFails, OnTransportClosed
<1>7. ASSUME NEW n \in 1..Capacity, ReadBytes(n) PROVE ReturnInv'
  <2> DEFINE data == rx \o SubSeq(net, 1, n)
  <2>1. PICK f \in Frames : \/ pc = "connack" /\ ContinueConnect(f, data)
                            \/ pc = "read" /\ ContinueRead(f, data)
    BY <1>7, ReadBytesCases
  <2>2. Len(data) \in Nat
    BY <1>7, ReadBytesCases
  <2> HIDE DEF data
  <2> DEFINE v == OnBytesReceived(f, Len(data))
  <2>3. /\ v.tag = "Error" \/ v.kind = "Disconnected" => v.next = "Disconnected"
        /\ v.kind = "ConnAck" => v.next = "Connected"
        /\ v.kind \in SessionKinds => state = "Connected" /\ v.next = "Connected"
        /\ v.tag = "None" => v.next = state
        /\ v.tag = "Notification" => v.kind \in {"Disconnected", "ConnAck"} \cup SessionKinds
        /\ v.tag \in {"None", "Error", "Notification"}
    BY <2>2, VerdictFacts DEF TypeOK, Verdicts
  <2>4. CASE pc = "connack" /\ ContinueConnect(f, data)
    <3>1. state = "TransportConnected" /\ state' = v.next
      BY <2>4 DEF ContinueConnect
    <3>2. CASE v.tag = "None" /\ UNCHANGED << pc, op, ret >>
      BY <2>3, <3>1, <3>2
    <3>3. CASE v.tag = "Error" /\ Return("ReadError")
      BY <2>3, <3>1, <3>3
    <3>4. CASE v.tag = "Notification" /\ v.kind # "ConnAck" /\ Return("UnexpectedPacket")
      BY <2>3, <3>1, <3>4
    <3>5. CASE v.kind = "ConnAck" /\ (StartSubscribe \/ Return("ConnAck"))
      BY <2>3, <3>1, <3>5 DEF StartSubscribe
    <3> QED
      BY <2>4, <3>2, <3>3, <3>4, <3>5 DEF ContinueConnect
  <2>5. CASE pc = "read" /\ ContinueRead(f, data)
    <3>1. CASE UNCHANGED << state, pc, op, ret, held >>
      BY <3>1
    <3>2. CASE Framed(f, Len(data), Capacity) /\ v.tag # "Notification"
               /\ state' = v.next /\ Return("ReadError")
      <4>1. v.tag # "None"
        BY <2>2, <2>5, <3>2, WholeFrameAnswered, NanoAssumption DEF TypeOK, ClientTypeOK
      <4> QED
        BY <2>3, <3>2, <4>1
    <3>3. CASE v.tag = "Notification" /\ state' = v.next /\ Return("Notification")
      BY <2>3, <3>3
    <3> QED
      BY <2>5, <3>1, <3>2, <3>3 DEF ContinueRead
  <2> QED
    BY <2>1, <2>4, <2>5
<1>8. CASE ReadEof \/ ReadErrs
  BY <1>8 DEF ReadEof, ReadErrs, ReadEnds, OnTransportClosed
<1>9. CASE ReadTimeout
  BY <1>9 DEF ReadTimeout
<1>10. CASE NextNotification
  BY <1>10 DEF NextNotification
<1>11. CASE CancelRead
  BY <1>11 DEF CancelRead
<1>12. CASE CancelWrite
  BY <1>12 DEF CancelWrite
<1>13. ASSUME NEW i \in 1..Len(held), Complete(i) PROVE ReturnInv'
  <2>1. \/ Return("Ok") \/ Return("WriteError")
        \/ state = "Disconnected" /\ Return("ConnectionClosed")
        \/ state # "Disconnected" /\ pc' = "write" /\ ret' = "None"
    BY <1>13 DEF Complete, Transmit
  <2> QED
    BY <1>13, <2>1 DEF Complete
<1>14. ASSUME NEW i \in 1..Len(held), DropNotification(i) PROVE ReturnInv'
  BY <1>14 DEF DropNotification
<1>15. ASSUME NEW p \in UserPackets, Send(p) PROVE ReturnInv'
  BY <1>15 DEF Send, Transmit
<1>16. CASE Rewrap
  BY <1>16 DEF Rewrap
<1>17. ASSUME NEW f \in Unsolicited, BrokerSends(f) PROVE ReturnInv'
  BY <1>17 DEF BrokerSends
<1>18. CASE BrokerTakes \/ BrokerCloses \/ Tick
  BY <1>18 DEF BrokerTakes, BrokerCloses, Tick
<1>19. CASE UNCHANGED vars
  BY <1>19 DEF vars
<1> QED
  BY <1>1, <1>2, <1>3, <1>4, <1>5, <1>6, <1>7, <1>8, <1>9, <1>10, <1>11, <1>12, <1>13, <1>14,
     <1>15, <1>16, <1>17, <1>18, <1>19 DEF Next

(***************************************************************************)
(* An error other than WriteError means the client is disconnected, a      *)
(* ConnAck means it is connected, and no call waits on a closed transport: *)
(* whatever the user calls, cancels or keeps, and whatever the broker does.*)
(***************************************************************************)
THEOREM ReturnCorrect == Spec => []ReturnMatchesState
<1>1. Init => ReturnInv
  BY DEF Init, ReturnInv, ReturnMatchesState, Idle, Reading, WritingPcs
<1>2. TypeOK /\ ReturnInv /\ [Next]_vars => ReturnInv'
  BY NextReturnInv
<1>3. ReturnInv => ReturnMatchesState
  BY DEF ReturnInv
<1> QED
  BY <1>1, <1>2, <1>3, TypeCorrect, PTL DEF Spec

-----------------------------------------------------------------------------
(***************************************************************************)
(* Torn writes.  A user that never drops a write in progress sees a packet *)
(* cut short only when the connection is lost with it; the one packet that *)
(* takes two writes is finished by the call that started it.               *)
(***************************************************************************)
LEMMA NextTorn ==
    ASSUME "cancel_write" \notin UserOps, TypeOK, ReturnInv, TornOnlyWhileClosing, [Next]_vars
    PROVE  TornOnlyWhileClosing'
<1> USE DEF TornOnlyWhileClosing, ReturnInv, ReturnMatchesState, Reading, WritingPcs, Return, Await
<1>1. ASSUME NEW ka \in KeepAlives, NEW s \in BOOLEAN, ConnectCall(ka, s)
      PROVE TornOnlyWhileClosing'
  BY <1>1 DEF ConnectCall
<1>2. CASE WriteConnect
  BY <1>2 DEF WriteConnect, Written, OnPacketSent
<1>3. CASE WriteSubscribe
  BY <1>3 DEF WriteSubscribe
<1>4. CASE WriteFilters
  BY <1>4 DEF WriteFilters
<1>5. CASE WritePacket
  BY <1>5 DEF WritePacket, Written, OnPacketSent
<1>6. CASE WriteFails
  BY <1>6 DEF WriteFails, OnTransportClosed
<1>7. ASSUME NEW n \in 1..Capacity, ReadBytes(n) PROVE TornOnlyWhileClosing'
  BY <1>7 DEF ReadBytes
<1>8. CASE ReadEof \/ ReadErrs
  BY <1>8 DEF ReadEof, ReadErrs, ReadEnds, OnTransportClosed
<1>9. CASE ReadTimeout \/ NextNotification \/ CancelRead
  <2>1. pc # "filters"
    BY <1>9 DEF ReadTimeout, NextNotification, CancelRead, MayGoOn, Idle
  <2>2. torn' = torn /\ state' = state
    BY <1>9 DEF ReadTimeout, NextNotification, CancelRead
  <2> QED
    BY <2>1, <2>2
<1>10. CASE CancelWrite
  BY <1>10 DEF CancelWrite
<1>11. ASSUME NEW i \in 1..Len(held), Complete(i) \/ DropNotification(i)
       PROVE TornOnlyWhileClosing'
  BY <1>11 DEF Complete, DropNotification, Idle
<1>12. ASSUME NEW p \in UserPackets, Send(p) PROVE TornOnlyWhileClosing'
  BY <1>12 DEF Send, Idle
<1>13. CASE Rewrap \/ BrokerTakes \/ BrokerCloses \/ Tick
  BY <1>13 DEF Rewrap, BrokerTakes, BrokerCloses, Tick
<1>14. ASSUME NEW f \in Unsolicited, BrokerSends(f) PROVE TornOnlyWhileClosing'
  BY <1>14 DEF BrokerSends
<1>15. CASE UNCHANGED vars
  BY <1>15 DEF vars
<1> QED
  BY <1>1, <1>2, <1>3, <1>4, <1>5, <1>6, <1>7, <1>8, <1>9, <1>10, <1>11, <1>12, <1>13, <1>14,
     <1>15 DEF Next

THEOREM WritesNotTorn ==
    ASSUME "cancel_write" \notin UserOps
    PROVE  Spec => []TornOnlyWhileClosing
<1>1. Init => TornOnlyWhileClosing /\ ReturnInv
  BY DEF Init, TornOnlyWhileClosing, ReturnInv, ReturnMatchesState, Idle, Reading, WritingPcs
<1>2. TypeOK /\ ReturnInv /\ TornOnlyWhileClosing /\ [Next]_vars => TornOnlyWhileClosing'
  BY NextTorn
<1>3. TypeOK /\ ReturnInv /\ [Next]_vars => ReturnInv'
  BY NextReturnInv
<1> QED
  BY <1>1, <1>2, <1>3, TypeCorrect, PTL DEF Spec

-----------------------------------------------------------------------------
(***************************************************************************)
(* CONNECT comes first.  The invariant behind ConnectIsFirst: an open      *)
(* client that is not writing its CONNECT has written it.                  *)
(***************************************************************************)
GreetedInv == state # "Disconnected" /\ pc # "connect" => greeted

LEMMA NextGreeted ==
    ASSUME "cancel_write" \notin UserOps, "Connect" \notin Overflow,
           TypeOK, ReturnInv, GreetedInv, [Next]_vars
    PROVE  GreetedInv'
<1> USE DEF GreetedInv, ReturnInv, Return, Await
<1>1. ASSUME NEW ka \in KeepAlives, NEW s \in BOOLEAN, ConnectCall(ka, s) PROVE GreetedInv'
  BY <1>1 DEF ConnectCall
<1>2. CASE WriteConnect
  BY <1>2 DEF WriteConnect
<1>3. CASE WriteSubscribe \/ WriteFilters \/ WritePacket
  BY <1>3 DEF WriteSubscribe, WriteFilters, WritePacket, Written, OnPacketSent
<1>4. CASE WriteFails
  BY <1>4 DEF WriteFails, OnTransportClosed
<1>5. ASSUME NEW n \in 1..Capacity, ReadBytes(n) PROVE GreetedInv'
  <2> DEFINE data == rx \o SubSeq(net, 1, n)
  <2>1. PICK f \in Frames : \/ pc = "connack" /\ ContinueConnect(f, data)
                            \/ pc = "read" /\ ContinueRead(f, data)
    BY <1>5, ReadBytesCases
  <2>2. Len(data) \in Nat
    BY <1>5, ReadBytesCases
  <2> HIDE DEF data
  <2>3. state = "Disconnected" => OnBytesReceived(f, Len(data)).next = "Disconnected"
    BY <2>2, VerdictFacts DEF TypeOK
  <2>4. state = "Disconnected" => state' = "Disconnected"
    BY <2>1, <2>3 DEF ContinueConnect, ContinueRead
  <2>5. greeted' = greeted /\ pc # "connect"
    BY <1>5 DEF ReadBytes, Reading
  <2> QED
    BY <2>4, <2>5
<1>6. CASE ReadEof \/ ReadErrs
  BY <1>6 DEF ReadEof, ReadErrs, ReadEnds, OnTransportClosed
<1>7. CASE ReadTimeout \/ NextNotification \/ CancelRead
  BY <1>7 DEF ReadTimeout, NextNotification, CancelRead, MayGoOn, Idle, Reading
<1>8. CASE CancelWrite
  BY <1>8 DEF CancelWrite
<1>9. ASSUME NEW i \in 1..Len(held), Complete(i) \/ DropNotification(i) PROVE GreetedInv'
  BY <1>9 DEF Complete, DropNotification, Idle
<1>10. ASSUME NEW p \in UserPackets, Send(p) PROVE GreetedInv'
  BY <1>10 DEF Send, Idle
<1>11. CASE Rewrap \/ BrokerTakes \/ BrokerCloses \/ Tick
  BY <1>11 DEF Rewrap, BrokerTakes, BrokerCloses, Tick
<1>12. ASSUME NEW f \in Unsolicited, BrokerSends(f) PROVE GreetedInv'
  BY <1>12 DEF BrokerSends
<1>13. CASE UNCHANGED vars
  BY <1>13 DEF vars
<1> QED
  BY <1>1, <1>2, <1>3, <1>4, <1>5, <1>6, <1>7, <1>8, <1>9, <1>10, <1>11, <1>12, <1>13 DEF Next

(* If CONNECT always fits and its write is not dropped, it is the first packet. *)
THEOREM ConnectFirst ==
    ASSUME "cancel_write" \notin UserOps, "Connect" \notin Overflow
    PROVE  Spec => []ConnectIsFirst
<1>1. Init => GreetedInv /\ ReturnInv
  BY DEF Init, ClientInit, GreetedInv, ReturnInv, ReturnMatchesState, Idle, Reading, WritingPcs
<1>2. TypeOK /\ ReturnInv /\ GreetedInv /\ [Next]_vars => GreetedInv'
  BY NextGreeted
<1>3. TypeOK /\ ReturnInv /\ [Next]_vars => ReturnInv'
  BY NextReturnInv
<1>4. GreetedInv /\ ReturnInv => ConnectIsFirst
  BY DEF GreetedInv, ReturnInv, ReturnMatchesState, ConnectIsFirst, WritingPcs
<1> QED
  BY <1>1, <1>2, <1>3, <1>4, TypeCorrect, PTL DEF Spec

-----------------------------------------------------------------------------
(***************************************************************************)
(* The front of a stream of whole frames.  If a \o b is one, the parser    *)
(* sees in a the header of the frame a starts with and no other; once a    *)
(* holds all of that frame, removing its length removes it exactly.        *)
(***************************************************************************)
LEMMA FrontFrame ==
    ASSUME NEW a \in Seq(Bytes), NEW b \in Seq(Bytes), WholeFrames(a \o b), a # << >>
    PROVE  /\ a[1].frame \in Frames
           /\ Fronts(a) = {a[1].frame}
           /\ FrameLength(a[1].frame) <= Len(a) =>
                 /\ Removed(a, FrameLength(a[1].frame)) = Encode(a[1].frame)
                 /\ WholeFrames(RemovePrefix(a, FrameLength(a[1].frame)) \o b)
<1> DEFINE c == a \o b
<1> DEFINE f == a[1].frame
<1> DEFINE n == FrameLength(f)
<1>1. Len(a) \in Nat \ {0} /\ Len(b) \in Nat
  BY EmptySeq, LenProperties
<1>2. /\ c \in Seq(Bytes) /\ Len(c) = Len(a) + Len(b)
      /\ \A i \in 1..(Len(a) + Len(b)) : c[i] = IF i <= Len(a) THEN a[i] ELSE b[i - Len(a)]
  BY ConcatProperties
<1> HIDE DEF c
<1>3. c # << >> /\ c[1] = a[1]
  <2>1. Len(c) # 0 /\ 1 \in 1..(Len(a) + Len(b)) /\ 1 <= Len(a)
    BY <1>1, <1>2
  <2> QED
    BY <1>2, <2>1, EmptySeq
<1>4. WholeFrames(c)
  BY DEF c
<1>5. /\ f \in Frames /\ a[1].pos = 1 /\ n <= Len(c)
      /\ \A k \in 1..n : c[k] = [frame |-> f, pos |-> k]
  <2>1. /\ c[1].frame \in Frames /\ c[1].pos = 1 /\ FrameLength(c[1].frame) <= Len(c)
        /\ \A k \in 1..FrameLength(c[1].frame) : c[k] = [frame |-> c[1].frame, pos |-> k]
    BY <1>2, <1>3, <1>4, WholeFront
  <2> QED
    BY <1>3, <2>1
<1>6. Fronts(a) = {f}
  BY <1>5 DEF Fronts
<1>7. n \in Nat /\ n >= 2
  BY <1>5, FrameLengthType
<1>8. ASSUME n <= Len(a)
      PROVE  Removed(a, n) = Encode(f) /\ WholeFrames(RemovePrefix(a, n) \o b)
  <2> HIDE DEF n
  <2>1. n \in 0..Len(a)
    BY <1>1, <1>7, <1>8
  <2>2. Removed(a, n) = SubSeq(a, 1, n)
    <3>1. (IF n < Len(a) THEN n ELSE Len(a)) = n
      BY <1>1, <2>1
    <3> QED
      BY <3>1 DEF Removed
  <2>3. SubSeq(a, 1, n) = Encode(f)
    <3>1. \A i \in 1..n : a[i] \in Bytes
      BY <1>1, <2>1, ElementOfSeq
    <3>2. /\ SubSeq(a, 1, n) \in Seq(Bytes)
          /\ Len(SubSeq(a, 1, n)) = IF 1 <= n THEN n - 1 + 1 ELSE 0
          /\ \A i \in 1..(n - 1 + 1) : SubSeq(a, 1, n)[i] = a[1 + i - 1]
      BY <1>7, <3>1, SubSeqProperties
    <3>3. Len(SubSeq(a, 1, n)) = n /\ \A i \in 1..n : SubSeq(a, 1, n)[i] = a[i]
      BY <1>7, <3>2
    <3>4. /\ Encode(f) \in Seq(Bytes) /\ Len(Encode(f)) = n
          /\ \A i \in 1..n : Encode(f)[i] = [frame |-> f, pos |-> i]
      BY <1>5, EncodeType DEF n
    <3>5. \A i \in 1..n : a[i] = [frame |-> f, pos |-> i]
      BY <1>1, <1>2, <1>5, <2>1 DEF n
    <3> HIDE DEF f
    <3>6. \A i \in 1..Len(SubSeq(a, 1, n)) : SubSeq(a, 1, n)[i] = Encode(f)[i]
      BY <3>3, <3>4, <3>5
    <3> QED
      BY <3>2, <3>3, <3>4, <3>6, SeqEqual
  <2>4. RemovePrefix(a, n) \o b = SubSeq(c, n + 1, Len(c))
    BY <2>1, RemoveFront DEF RemovePrefix, c
  <2>5. WholeFrames(SubSeq(c, n + 1, Len(c)))
    BY <1>2, <1>3, <1>4, WholeTail DEF n
  <2> QED
    BY <2>2, <2>3, <2>4, <2>5
<1> QED
  BY <1>5, <1>6, <1>8
-----------------------------------------------------------------------------
(***************************************************************************)
(* The invariant.  The notification the user holds, if any, is of the      *)
(* frame at the front of rx_buffer and takes exactly that frame, or it     *)
(* takes nothing; while the client reads, the user holds none.             *)
(***************************************************************************)
OfFront(t) ==
    \/ t.kind \notin PacketKinds /\ t.taken = 0
    \/ /\ rx # << >>
       /\ LET f == rx[1].frame IN
          /\ t.kind = f.kind /\ t.qos = f.qos /\ t.pkid = f.pkid
          /\ t.bytes = Encode(f)
          /\ t.taken = FrameLength(f) /\ t.taken <= Len(rx)

HeldInv ==
    /\ Len(held) <= 1
    /\ Len(held) > 0 => pc \in {Idle, "write"}
    /\ \A i \in 1..Len(held) : OfFront(held[i])

StreamInv == StreamIsFramed /\ HeldInv /\ AckCoversFrame

LEMMA InitStreamInv == Init => StreamInv
<1> SUFFICES ASSUME Init PROVE StreamInv
  OBVIOUS
<1>1. Stream = << >>
  BY EmptySeq, ConcatEmptySeq DEF Init, Stream
<1>2. StreamIsFramed
  BY <1>1, EmptyWhole DEF StreamIsFramed
<1>3. Len(held) = 0
  BY EmptySeq DEF Init
<1>4. HeldInv
  BY <1>3 DEF HeldInv
<1>5. AckCoversFrame
  BY DEF Init, AckCoversFrame, NoWrite, Writing
<1> QED
  BY <1>2, <1>4, <1>5 DEF StreamInv

(* It implies what the properties say. *)
LEMMA StreamInvImplies ==
    ASSUME TypeOK, StreamInv
    PROVE  StreamIsFramed /\ CompletionMatchesFrame /\ AckCoversFrame
<1>1. ASSUME NEW i \in 1..Len(held), held[i].taken > 0
      PROVE  /\ Removed(rx, held[i].taken) = held[i].bytes
             /\ \E f \in Frames : held[i].bytes = Encode(f)
  <2> DEFINE f == rx[1].frame
  <2>1. /\ rx # << >>
        /\ held[i].bytes = Encode(f)
        /\ held[i].taken = FrameLength(f) /\ FrameLength(f) <= Len(rx)
    BY <1>1 DEF StreamInv, HeldInv, OfFront
  <2>2. rx \in Seq(Bytes) /\ net \in Seq(Bytes) /\ WholeFrames(rx \o net)
    BY DEF TypeOK, StreamInv, StreamIsFramed, Stream
  <2>3. f \in Frames /\ Removed(rx, FrameLength(f)) = Encode(f)
    BY <2>1, <2>2, FrontFrame
  <2> QED
    BY <2>1, <2>3
<1> QED
  BY <1>1 DEF StreamInv, CompletionMatchesFrame

-----------------------------------------------------------------------------
(* A step that leaves the stream and the notifications alone. *)
LEMMA QuietStep ==
    ASSUME StreamInv, rx' = rx, net' = net, held' = held,
           op' = op \/ op'.origin # "completion",
           Len(held) > 0 => pc' \in {Idle, "write"}
    PROVE  StreamInv'
<1>1. StreamIsFramed'
  BY DEF StreamInv, StreamIsFramed, Stream
<1>2. HeldInv'
  BY DEF StreamInv, HeldInv, OfFront
<1>3. AckCoversFrame'
  <2>1. CASE op' = op
    BY <2>1 DEF StreamInv, AckCoversFrame
  <2>2. CASE op'.origin # "completion"
    BY <2>2 DEF AckCoversFrame
  <2> QED
    BY <2>1, <2>2
<1> QED
  BY <1>1, <1>2, <1>3 DEF StreamInv

(* A step that leaves the user without a notification. *)
LEMMA EmptyHandStep ==
    ASSUME WholeFrames(rx' \o net'), Len(held') = 0, AckCoversFrame'
    PROVE  StreamInv'
BY DEF StreamInv, StreamIsFramed, Stream, HeldInv

LEMMA ReturnQuiet == ASSUME NEW r, Return(r) PROVE op'.origin # "completion" /\ pc' = Idle
BY DEF Return, NoWrite, Writing

(* A send of the user's. *)
LEMMA TransmitQuiet ==
    ASSUME NEW p, Transmit(p, "user", << >>)
    PROVE  op'.origin # "completion" /\ pc' \in {Idle, "write"}
BY ReturnQuiet DEF Transmit, Await, Writing

(***************************************************************************)
(* Reading.  What read_some returned is moved from net to rx, and the      *)
(* frame at the front is the one the client parses.                        *)
(***************************************************************************)
LEMMA ReadBytesStream ==
    ASSUME TypeOK, StreamInv, NEW n \in 1..Capacity, ReadBytes(n)
    PROVE  LET data == rx \o SubSeq(net, 1, n) IN
           /\ data \in Seq(Bytes) /\ data # << >>
           /\ net' \in Seq(Bytes)
           /\ WholeFrames(data \o net')
           /\ Len(held) = 0
           /\ \/ pc = "connack" /\ ContinueConnect(data[1].frame, data)
              \/ pc = "read" /\ ContinueRead(data[1].frame, data)
<1> DEFINE data == rx \o SubSeq(net, 1, n)
<1>1. n \in 0..Len(net) /\ n \in Nat \ {0} /\ net' = SubSeq(net, n + 1, Len(net))
  BY DEF ReadBytes, TypeOK
<1>2. rx \in Seq(Bytes) /\ net \in Seq(Bytes)
  BY DEF TypeOK
<1>3. /\ SubSeq(net, 1, n) \in Seq(Bytes) /\ net' \in Seq(Bytes)
      /\ Len(SubSeq(net, 1, n)) = n
      /\ data \o net' = rx \o net
  BY <1>1, <1>2, MoveBytes
<1>4. data \in Seq(Bytes) /\ Len(data) = Len(rx) + n
  BY <1>2, <1>3, ConcatProperties
<1>5. data # << >>
  <2>1. Len(data) # 0
    BY <1>1, <1>2, <1>4, LenProperties
  <2> QED
    BY <2>1, EmptySeq
<1>6. WholeFrames(data \o net')
  BY <1>3 DEF StreamInv, StreamIsFramed, Stream
<1>7. PICK f \in Fronts(data) : \/ pc = "connack" /\ ContinueConnect(f, data)
                                \/ pc = "read" /\ ContinueRead(f, data)
  BY ReadBytesCases
<1> HIDE DEF data
<1>8. f = data[1].frame
  BY <1>3, <1>4, <1>5, <1>6, <1>7, FrontFrame
<1>9. Len(held) = 0
  <2>1. pc \notin {Idle, "write"} /\ Len(held) <= 1 /\ Len(held) \in Nat
    BY LenProperties DEF ReadBytes, Reading, Idle, StreamInv, HeldInv, TypeOK
  <2> QED
    BY <2>1 DEF StreamInv, HeldInv
<1> QED
  BY <1>3, <1>4, <1>5, <1>6, <1>7, <1>8, <1>9 DEF data

LEMMA ReadConnectStream ==
    ASSUME TypeOK, StreamInv, Len(held) = 0,
           NEW data \in Seq(Bytes), data # << >>, net' \in Seq(Bytes),
           WholeFrames(data \o net'),
           pc = "connack", ContinueConnect(data[1].frame, data)
    PROVE  StreamInv'
<1> DEFINE f == data[1].frame
<1> DEFINE v == OnBytesReceived(f, Len(data))
<1>1. f \in Frames /\ Len(data) \in Nat
  BY FrontFrame, LenProperties
<1>2. held' = held
  BY DEF ContinueConnect
<1>3. AckCoversFrame'
  <2>1. op' = op \/ op'.origin # "completion"
    BY ReturnQuiet DEF ContinueConnect, StartSubscribe, Await, Writing
  <2>2. CASE op' = op
    BY <2>2 DEF StreamInv, AckCoversFrame
  <2>3. CASE op'.origin # "completion"
    BY <2>3 DEF AckCoversFrame
  <2> QED
    BY <2>1, <2>2, <2>3
<1>4. CASE rx' = data
  BY <1>2, <1>3, <1>4, EmptyHandStep
<1>5. CASE v.kind = "ConnAck" /\ rx' = RemovePrefix(data, v.taken)
  <2>1. v.taken = FrameLength(f) /\ ReadOk(f, Len(data), MaxPacketSize)
    BY <1>1, <1>5, VerdictFacts DEF TypeOK
  <2>2. FrameLength(f) <= Len(data)
    BY <1>1, <2>1, FrameLengthType DEF ReadOk, Framed
  <2>3. WholeFrames(RemovePrefix(data, FrameLength(f)) \o net')
    BY <2>2, FrontFrame
  <2> QED
    BY <1>2, <1>3, <1>5, <2>1, <2>3, EmptyHandStep
<1> QED
  BY <1>4, <1>5 DEF ContinueConnect

LEMMA ReadFrameStream ==
    ASSUME TypeOK, StreamInv, Len(held) = 0,
           NEW data \in Seq(Bytes), data # << >>, net' \in Seq(Bytes),
           WholeFrames(data \o net'),
           pc = "read", ContinueRead(data[1].frame, data)
    PROVE  StreamInv'
<1> DEFINE f == data[1].frame
<1> DEFINE v == OnBytesReceived(f, Len(data))
<1> DEFINE t == Notified(v.kind, f, v.taken, Removed(data, v.taken))
<1>1. f \in Frames /\ Len(data) \in Nat
  BY FrontFrame, LenProperties
<1>2. rx' = data
  BY DEF ContinueRead
<1>3. AckCoversFrame'
  <2>1. op' = op \/ op'.origin # "completion"
    BY ReturnQuiet DEF ContinueRead
  <2>2. CASE op' = op
    BY <2>2 DEF StreamInv, AckCoversFrame
  <2>3. CASE op'.origin # "completion"
    BY <2>3 DEF AckCoversFrame
  <2> QED
    BY <2>1, <2>2, <2>3
<1>4. CASE held' = held
  BY <1>2, <1>3, <1>4, EmptyHandStep
<1>5. CASE v.tag = "Notification" /\ held' = Append(held, t) /\ Return("Notification")
  <2>1. /\ v \in Verdicts
        /\ v.taken > 0 => v.kind = "ConnAck" \/ v.kind \in SessionKinds
        /\ v.kind \in {"Disconnected", "ConnAck"} \cup SessionKinds
        /\ v.kind = "ConnAck" \/ v.kind \in SessionKinds
              => v.kind = f.kind /\ v.taken = FrameLength(f) /\ ReadOk(f, Len(data), MaxPacketSize)
    BY <1>1, <1>5, VerdictFacts DEF TypeOK
  <2>2. /\ t.kind = v.kind /\ t.qos = f.qos /\ t.pkid = f.pkid
        /\ t.taken = v.taken /\ t.bytes = Removed(data, v.taken)
    BY DEF Notified
  <2>3. \/ t.kind \notin PacketKinds /\ t.taken = 0
        \/ /\ t.kind = f.kind /\ t.qos = f.qos /\ t.pkid = f.pkid
           /\ t.bytes = Encode(f)
           /\ t.taken = FrameLength(f) /\ t.taken <= Len(data)
    <3>1. CASE v.kind = "ConnAck" \/ v.kind \in SessionKinds
      <4>1. v.kind = f.kind /\ v.taken = FrameLength(f) /\ FrameLength(f) <= Len(data)
        BY <1>1, <2>1, <3>1, FrameLengthType DEF ReadOk, Framed
      <4>2. Removed(data, FrameLength(f)) = Encode(f)
        BY <4>1, FrontFrame
      <4> QED
        BY <2>2, <4>1, <4>2
    <3>2. CASE ~(v.kind = "ConnAck" \/ v.kind \in SessionKinds)
      <4>1. v.kind = "Disconnected" /\ v.taken = 0
        BY <2>1, <3>2 DEF Verdicts
      <4> QED
        BY <2>2, <4>1 DEF PacketKinds
    <3> QED
      BY <3>1, <3>2
  <2>4. Len(held') = 1 /\ held'[1] = t
    <3>1. held \in Seq(Notifications)
      BY DEF TypeOK
    <3>2. held = << >>
      BY <3>1, EmptySeq
    <3> HIDE DEF t
    <3>3. Append(<< >>, t) = << t >>
      OBVIOUS
    <3> QED
      BY <1>5, <3>2, <3>3
  <2>5. pc' = Idle
    BY <1>5, ReturnQuiet
  <2> HIDE DEF t, v
  <2>6. HeldInv'
    BY <1>2, <2>3, <2>4, <2>5 DEF HeldInv, OfFront
  <2>7. StreamIsFramed'
    BY <1>2 DEF StreamIsFramed, Stream
  <2> QED
    BY <1>3, <2>6, <2>7 DEF StreamInv
<1> QED
  BY <1>4, <1>5 DEF ContinueRead

-----------------------------------------------------------------------------
(* The user lets go of the only notification it holds. *)
LEMMA RemoveOnly ==
    ASSUME NEW S, NEW s \in Seq(S), Len(s) <= 1, NEW i \in 1..Len(s)
    PROVE  i = 1 /\ Len(RemoveAt(s, i)) = 0
<1>1. i = 1 /\ Len(s) = 1
  <2> DEFINE m == Len(s)
  <2>1. m \in Nat /\ m <= 1 /\ i \in 1..m
    BY LenProperties
  <2> HIDE DEF m
  <2>2. i = 1 /\ m = 1
    BY <2>1
  <2> QED
    BY <2>2 DEF m
<1>2. SubSeq(s, 1, 1 - 1) = << >> /\ SubSeq(s, 1 + 1, 1) = << >>
  BY SubSeqEmpty
<1>3. << >> \o << >> = << >>
  BY EmptySeq, ConcatEmptySeq
<1> QED
  BY <1>1, <1>2, <1>3, EmptySeq DEF RemoveAt

LEMMA DropStream ==
    ASSUME TypeOK, StreamInv, NEW i \in 1..Len(held), DropNotification(i)
    PROVE  StreamInv'
<1>1. Len(held') = 0
  BY RemoveOnly DEF DropNotification, TypeOK, StreamInv, HeldInv
<1>2. WholeFrames(rx' \o net')
  BY DEF DropNotification, StreamInv, StreamIsFramed, Stream
<1>3. AckCoversFrame'
  BY DEF DropNotification, StreamInv, AckCoversFrame
<1> QED
  BY <1>1, <1>2, <1>3, EmptyHandStep

(***************************************************************************)
(* Completing removes the frame the notification was made for, and its     *)
(* acknowledgement answers that frame.                                     *)
(***************************************************************************)
LEMMA CompleteStream ==
    ASSUME TypeOK, StreamInv, NEW i \in 1..Len(held), Complete(i)
    PROVE  StreamInv'
<1> DEFINE t == held[i]
<1> DEFINE f == rx[1].frame
<1>1. /\ rx \in Seq(Bytes) /\ net \in Seq(Bytes)
      /\ held \in Seq(Notifications)
      /\ WholeFrames(rx \o net)
  BY DEF TypeOK, StreamInv, StreamIsFramed, Stream
<1>2. OfFront(t)
  BY DEF StreamInv, HeldInv
<1>3. rx' = RemovePrefix(rx, t.taken) /\ net' = net
  BY DEF Complete
<1>4. Len(held') = 0
  BY <1>1, RemoveOnly DEF Complete, StreamInv, HeldInv
<1>5. PICK c \in Completions(t) :
          IF c[1] = NoPacket THEN Return("Ok")
          ELSE Transmit(c[1], c[2], Removed(rx, t.taken))
  BY DEF Complete
<1>6. c[2] = "completion" => c[1] = DefaultAction(t)
  BY <1>5 DEF Completions
<1>7. \/ op'.origin # "completion"
      \/ op' = Writing(c[1], c[2], Removed(rx, t.taken))
  BY <1>5, ReturnQuiet DEF Transmit, Await
<1>8. CASE t.kind \notin PacketKinds /\ t.taken = 0
  <2>1. RemovePrefix(rx, 0) = rx
    BY <1>1, SubSeqFull DEF RemovePrefix
  <2>2. WholeFrames(rx' \o net')
    BY <1>1, <1>3, <1>8, <2>1
  <2>3. DefaultAction(t) = NoPacket \/ DefaultAction(t).kind = "PingReq"
    BY <1>8 DEF DefaultAction, PacketKinds, OutPacket
  <2>4. op'.origin = "completion" => op'.packet.kind = "PingReq"
    <3>1. CASE c[1] = NoPacket
      BY <1>5, <3>1, ReturnQuiet
    <3>2. CASE c[1] # NoPacket
      BY <1>6, <1>7, <2>3, <3>2 DEF Writing
    <3> QED
      BY <3>1, <3>2
  <2> QED
    BY <1>4, <2>2, <2>4, EmptyHandStep DEF AckCoversFrame
<1>9. CASE /\ rx # << >>
           /\ t.kind = f.kind /\ t.qos = f.qos /\ t.pkid = f.pkid
           /\ t.taken = FrameLength(f) /\ FrameLength(f) <= Len(rx)
  <2>1. /\ f \in Frames
        /\ Removed(rx, FrameLength(f)) = Encode(f)
        /\ WholeFrames(RemovePrefix(rx, FrameLength(f)) \o net)
    BY <1>1, <1>9, FrontFrame
  <2>2. WholeFrames(rx' \o net')
    BY <1>3, <1>9, <2>1
  <2>3. DefaultAction(t) # NoPacket /\ DefaultAction(t).kind # "PingReq"
            => AnswerTo(f, DefaultAction(t))
    BY <1>9, <2>1, FramesAssumption
       DEF DefaultAction, AnswerTo, OutPacket, FrameSet, FrameKinds, PacketKinds
  <2>4. AckCoversFrame'
    <3>1. ASSUME op'.origin = "completion", op'.packet.kind # "PingReq"
          PROVE  op'.covers = Encode(f) /\ AnswerTo(f, op'.packet)
      <4>1. c[1] # NoPacket
        BY <1>5, <3>1, ReturnQuiet
      <4>2. /\ op'.packet = DefaultAction(t) /\ c[1] = DefaultAction(t)
            /\ op'.covers = Removed(rx, t.taken)
        BY <1>6, <1>7, <3>1 DEF Writing
      <4> QED
        BY <1>9, <2>1, <2>3, <3>1, <4>1, <4>2
    <3> QED
      BY <2>1, <3>1 DEF AckCoversFrame, AnswerTo
  <2> QED
    BY <1>4, <2>2, <2>4, EmptyHandStep
<1> QED
  BY <1>2, <1>8, <1>9 DEF OfFront

(* The broker adds whole frames at the end of the stream. *)
LEMMA BrokerStream ==
    ASSUME TypeOK, StreamInv, NEW f \in Frames, net' = net \o Encode(f),
           UNCHANGED << rx, held, op, pc >>
    PROVE  StreamInv'
<1>1. /\ rx \in Seq(Bytes) /\ net \in Seq(Bytes) /\ Encode(f) \in Seq(Bytes)
      /\ rx \o net \in Seq(Bytes)
  BY EncodeType, ConcatProperties DEF TypeOK
<1>2. rx \o (net \o Encode(f)) = (rx \o net) \o Encode(f)
  BY <1>1, ConcatAssociative, SMTT(60)
<1>3. WholeFrames((rx \o net) \o Encode(f))
  BY <1>1, WholeAppend DEF StreamInv, StreamIsFramed, Stream
<1>4. StreamIsFramed'
  BY <1>2, <1>3 DEF StreamIsFramed, Stream
<1>5. HeldInv'
  BY DEF StreamInv, HeldInv, OfFront
<1>6. AckCoversFrame'
  BY DEF StreamInv, AckCoversFrame
<1> QED
  BY <1>4, <1>5, <1>6 DEF StreamInv

LEMMA NextStreamInv ==
    ASSUME MaxHeld = 0, "rewrap" \notin UserOps, TypeOK, StreamInv, [Next]_vars
    PROVE  StreamInv'
<1>a. held \in Seq(Notifications) /\ Len(held) \in Nat
  BY LenProperties DEF TypeOK
<1>b. Len(held) > 0 => pc \in {Idle, "write"}
  BY DEF StreamInv, HeldInv
<1>1. ASSUME NEW ka \in KeepAlives, NEW s \in BOOLEAN, ConnectCall(ka, s) PROVE StreamInv'
  <2>1. Len(held') = 0
    BY <1>1, <1>a DEF ConnectCall, MayGoOn
  <2>2. rx' \o net' = << >>
    BY <1>1, EmptySeq, ConcatEmptySeq DEF ConnectCall, ResetBuffer
  <2>3. op'.origin # "completion"
    BY <1>1, ReturnQuiet DEF ConnectCall, Await, Writing
  <2> QED
    BY <2>1, <2>2, <2>3, EmptyWhole, EmptyHandStep DEF AckCoversFrame
<1>2. CASE WriteConnect \/ WriteSubscribe \/ WriteFilters \/ WritePacket
  <2>1. /\ UNCHANGED << rx, net, held >> /\ pc \in WritingPcs
        /\ pc = "write" => pc' = Idle
        /\ op' = op \/ op'.origin # "completion"
    BY <1>2, ReturnQuiet DEF WriteConnect, WriteSubscribe, WriteFilters, WritePacket, Written,
                             Await, NoWrite, Writing, WritingPcs
  <2> QED
    BY <1>b, <2>1, QuietStep DEF Idle, WritingPcs
<1>3. CASE WriteFails \/ ReadEof \/ ReadErrs \/ CancelRead \/ CancelWrite
  BY <1>3, QuietStep, ReturnQuiet DEF WriteFails, ReadEof, ReadErrs, ReadEnds, CancelRead, CancelWrite
<1>4. ASSUME NEW n \in 1..Capacity, ReadBytes(n) PROVE StreamInv'
  BY <1>4, ReadBytesStream, ReadConnectStream, ReadFrameStream
<1>5. CASE ReadTimeout
  <2>1. Len(held) = 0
    BY <1>5, <1>a, <1>b DEF ReadTimeout, Idle
  <2>2. held' = << SendPing >>
    BY <1>5, <1>a, <2>1, EmptySeq DEF ReadTimeout
  <2>3. HeldInv'
    <3>1. Len(held') = 1 /\ held'[1] = SendPing
      BY <2>2
    <3>2. pc' = Idle
      BY <1>5, ReturnQuiet DEF ReadTimeout
    <3>3. SendPing.kind \notin PacketKinds /\ SendPing.taken = 0
      BY DEF SendPing, PacketKinds
    <3>4. ASSUME NEW i \in 1..Len(held') PROVE OfFront(held[i])'
      BY <3>1, <3>3, <3>4 DEF OfFront
    <3> QED
      BY <3>1, <3>2, <3>4 DEF HeldInv
  <2>4. StreamIsFramed' /\ AckCoversFrame'
    BY <1>5, ReturnQuiet DEF ReadTimeout, StreamInv, StreamIsFramed, Stream, AckCoversFrame
  <2> QED
    BY <2>3, <2>4 DEF StreamInv
<1>6. CASE NextNotification
  BY <1>6, <1>a, QuietStep, ReturnQuiet DEF NextNotification, MayGoOn, Await, NoWrite, Writing
<1>7. ASSUME NEW i \in 1..Len(held), Complete(i) PROVE StreamInv'
  BY <1>7, CompleteStream
<1>8. ASSUME NEW i \in 1..Len(held), DropNotification(i) PROVE StreamInv'
  BY <1>8, DropStream
<1>9. ASSUME NEW p \in UserPackets, Send(p) PROVE StreamInv'
  BY <1>9, QuietStep, TransmitQuiet DEF Send
<1>10. CASE Rewrap
  BY <1>10 DEF Rewrap
<1>11. ASSUME NEW f \in Unsolicited, BrokerSends(f) PROVE StreamInv'
  BY <1>11, NanoAssumption, BrokerStream DEF BrokerSends
<1>12. CASE BrokerTakes
  <2>1. CASE UNCHANGED net
    BY <1>12, <1>b, <2>1, QuietStep DEF BrokerTakes
  <2>2. CASE \E f \in Answers(Head(out)) : net' = net \o Encode(f)
    <3>1. Head(out) \in OutPackets
      BY <1>12, HeadTailProperties DEF BrokerTakes, TypeOK
    <3>2. PICK f \in Frames : net' = net \o Encode(f)
      BY <2>2, <3>1, NanoAssumption
    <3> QED
      BY <1>12, <3>2, BrokerStream DEF BrokerTakes
  <2> QED
    BY <1>12, <2>1, <2>2 DEF BrokerTakes
<1>13. CASE BrokerCloses \/ Tick \/ UNCHANGED vars
  BY <1>13, <1>b, QuietStep DEF BrokerCloses, Tick, vars
<1> QED
  BY <1>1, <1>2, <1>3, <1>4, <1>5, <1>6, <1>7, <1>8, <1>9, <1>10, <1>11, <1>12, <1>13 DEF Next

(***************************************************************************)
(* For every capacity, set of frames, broker and transport: the client     *)
(* never loses its place in the stream, every completion removes exactly   *)
(* the frame it was made for, and every acknowledgement answers the frame  *)
(* that was removed.                                                       *)
(***************************************************************************)
THEOREM StreamCorrect ==
    ASSUME MaxHeld = 0, "rewrap" \notin UserOps
    PROVE  Spec => [](StreamIsFramed /\ CompletionMatchesFrame /\ AckCoversFrame)
<1>1. Init => StreamInv
  BY InitStreamInv
<1>2. TypeOK /\ StreamInv /\ [Next]_vars => StreamInv'
  BY NextStreamInv
<1>3. TypeOK /\ StreamInv => StreamIsFramed /\ CompletionMatchesFrame /\ AckCoversFrame
  BY StreamInvImplies
<1> QED
  BY <1>1, <1>2, <1>3, TypeCorrect, PTL DEF Spec

(* StreamCorrect, one property at a time. *)
THEOREM StreamFramed ==
    ASSUME MaxHeld = 0, "rewrap" \notin UserOps
    PROVE  Spec => []StreamIsFramed
<1>1. StreamIsFramed /\ CompletionMatchesFrame /\ AckCoversFrame => StreamIsFramed
  OBVIOUS
<1> QED
  BY <1>1, StreamCorrect, PTL

THEOREM CompletionCorrect ==
    ASSUME MaxHeld = 0, "rewrap" \notin UserOps
    PROVE  Spec => []CompletionMatchesFrame
<1>1. StreamIsFramed /\ CompletionMatchesFrame /\ AckCoversFrame => CompletionMatchesFrame
  OBVIOUS
<1> QED
  BY <1>1, StreamCorrect, PTL

THEOREM AckCorrect ==
    ASSUME MaxHeld = 0, "rewrap" \notin UserOps
    PROVE  Spec => []AckCoversFrame
<1>1. StreamIsFramed /\ CompletionMatchesFrame /\ AckCoversFrame => AckCoversFrame
  OBVIOUS
<1> QED
  BY <1>1, StreamCorrect, PTL
-----------------------------------------------------------------------------
(***************************************************************************)
(* The frames of a stream, by the places where they start.  Rank numbers   *)
(* those places 1, 2, ... without a gap.                                   *)
(***************************************************************************)
LEMMA RankFacts ==
    ASSUME NEW s \in Seq(Bytes)
    PROVE  /\ IsFiniteSet(Starts(s)) /\ Cardinality(Starts(s)) \in Nat
           /\ \A k \in Starts(s) : Rank(s, k) \in 1..Cardinality(Starts(s))
           /\ \A k, l \in Starts(s) : k < l => Rank(s, k) < Rank(s, l)
           /\ \A n \in 1..Cardinality(Starts(s)) : \E k \in Starts(s) : Rank(s, k) = n
<1> DEFINE S == Starts(s)
<1> DEFINE B(k) == {j \in S : j <= k}
<1> DEFINE c == Cardinality(S)
<1>1. S \subseteq 1..Len(s) /\ Len(s) \in Nat
  BY LenProperties DEF Starts
<1>2. IsFiniteSet(S) /\ c \in Nat
  <2>1. IsFiniteSet(1..Len(s))
    BY <1>1, FS_Interval
  <2> HIDE DEF S
  <2> QED
    BY <1>1, <2>1, FS_Subset, FS_CardinalityType
<1>3. ASSUME NEW k
      PROVE  IsFiniteSet(B(k)) /\ Cardinality(B(k)) \in Nat /\ Cardinality(B(k)) <= c
  <2>1. B(k) \in SUBSET S
    OBVIOUS
  <2> HIDE DEF B, S
  <2> QED
    BY <1>2, <2>1, FS_Subset, FS_CardinalityType
<1>4. ASSUME NEW k \in S PROVE Rank(s, k) \in 1..c
  <2>1. B(k) # {}
    BY <1>1
  <2> HIDE DEF B, S
  <2>2. Cardinality(B(k)) # 0
    BY <1>3, <2>1, FS_EmptySet
  <2>3. Cardinality(B(k)) \in 1..c
    BY <1>2, <1>3, <2>2
  <2> QED
    BY <2>3 DEF Rank, B, S
<1>5. ASSUME NEW k \in S, NEW l \in S, k < l PROVE Rank(s, k) < Rank(s, l)
  <2>1. B(k) \in SUBSET B(l) /\ l \in B(l) /\ l \notin B(k)
    BY <1>1, <1>5
  <2> HIDE DEF B, S
  <2>2. /\ Cardinality(B(k)) <= Cardinality(B(l))
        /\ Cardinality(B(k)) # Cardinality(B(l))
    BY <1>3, <2>1, FS_Subset
  <2>3. Cardinality(B(k)) < Cardinality(B(l))
    BY <1>3, <2>2
  <2> QED
    BY <2>3 DEF Rank, B, S
<1>6. ASSUME NEW n \in 1..c PROVE \E k \in S : Rank(s, k) = n
  <2> DEFINE r == [k \in S |-> Rank(s, k)]
  <2>1. r \in [S -> 1..c]
    BY <1>4
  <2>2. \A k, l \in S : r[k] = r[l] => k = l
    <3>1. \A k \in S : Rank(s, k) \in Int
      BY <1>2, <1>4
    <3> QED
      BY <1>1, <1>5, <3>1
  <2> HIDE DEF r, S
  <2>3. r \in Injection(S, 1..c)
    BY <2>1, <2>2 DEF Injection, IsInjective
  <2>4. IsFiniteSet(1..c) /\ Cardinality(1..c) = c
    BY <1>2, FS_Interval
  <2>5. r \in Surjection(S, 1..c)
    BY <1>2, <2>3, <2>4, FS_Injection
  <2>6. \E k \in S : r[k] = n
    BY <2>5 DEF Surjection
  <2> QED
    BY <2>6 DEF r
<1> QED
  BY <1>2, <1>4, <1>5, <1>6

LEMMA StartOfFacts ==
    ASSUME NEW s \in Seq(Bytes)
    PROVE  /\ \A n \in 1..Cardinality(Starts(s)) :
                 StartOf(s, n) \in Starts(s) /\ Rank(s, StartOf(s, n)) = n
           /\ \A k \in Starts(s) : StartOf(s, Rank(s, k)) = k
<1>1. \A n \in 1..Cardinality(Starts(s)) :
          StartOf(s, n) \in Starts(s) /\ Rank(s, StartOf(s, n)) = n
  BY RankFacts DEF StartOf
<1>2. ASSUME NEW k \in Starts(s) PROVE StartOf(s, Rank(s, k)) = k
  <2> DEFINE l == StartOf(s, Rank(s, k))
  <2>1. l \in Starts(s) /\ Rank(s, l) = Rank(s, k) /\ Rank(s, k) \in Int
    BY <1>1, RankFacts
  <2>2. k \in Int /\ l \in Int
    BY <2>1 DEF Starts
  <2>3. ~(k < l) /\ ~(l < k)
    BY <2>1, RankFacts
  <2> QED
    BY <2>2, <2>3
<1> QED
  BY <1>1, <1>2

LEMMA FramesOfEmpty == FramesOf(<< >>) = << >>
<1>1. Starts(<< >>) = {}
  BY DEF Starts
<1>2. Cardinality(Starts(<< >>)) = 0
  BY <1>1, FS_EmptySet
<1> QED
  BY <1>2 DEF FramesOf

LEMMA FramesOfType ==
    ASSUME NEW s \in Seq(Bytes)
    PROVE  /\ FramesOf(s) \in Seq(Frames)
           /\ Len(FramesOf(s)) = Cardinality(Starts(s))
<1>1. Cardinality(Starts(s)) \in Nat
  BY RankFacts
<1>2. ASSUME NEW n \in 1..Cardinality(Starts(s)) PROVE s[StartOf(s, n)].frame \in Frames
  <2>1. StartOf(s, n) \in 1..Len(s)
    BY StartOfFacts DEF Starts
  <2>2. s[StartOf(s, n)] \in Bytes
    BY <2>1, ElementOfSeq
  <2> QED
    BY <2>2 DEF Bytes
<1> HIDE DEF StartOf
<1>3. FramesOf(s) \in [1..Cardinality(Starts(s)) -> Frames]
  BY <1>2 DEF FramesOf
<1> QED
  BY <1>1, <1>3, SeqDef, LenProperties

(* A whole frame at the end of a stream is the last of its frames. *)
LEMMA FramesOfAppend ==
    ASSUME NEW s \in Seq(Bytes), NEW f \in Frames
    PROVE  FramesOf(s \o Encode(f)) = Append(FramesOf(s), f)
<1> DEFINE t == s \o Encode(f)
<1> DEFINE m == Len(s)
<1> DEFINE c == Cardinality(Starts(s))
<1>1. /\ m \in Nat /\ t \in Seq(Bytes)
      /\ Len(t) = m + FrameLength(f) /\ FrameLength(f) \in Nat /\ FrameLength(f) >= 2
      /\ \A i \in 1..m : t[i] = s[i]
      /\ \A i \in (m + 1)..Len(t) : t[i] = [frame |-> f, pos |-> i - m]
  <2>1. /\ Encode(f) \in Seq(Bytes) /\ Len(Encode(f)) = FrameLength(f)
        /\ \A i \in 1..FrameLength(f) : Encode(f)[i] = [frame |-> f, pos |-> i]
        /\ FrameLength(f) \in Nat /\ FrameLength(f) >= 2 /\ m \in Nat
    BY EncodeType, FrameLengthType, LenProperties
  <2>2. /\ t \in Seq(Bytes) /\ Len(t) = m + Len(Encode(f))
        /\ \A i \in 1..(m + Len(Encode(f))) : t[i] = IF i <= m THEN s[i] ELSE Encode(f)[i - m]
    BY <2>1, ConcatProperties
  <2> HIDE DEF t, m
  <2>3. Len(t) = m + FrameLength(f)
    BY <2>1, <2>2
  <2>4. ASSUME NEW i \in 1..m PROVE t[i] = s[i]
    <3>1. i \in 1..(m + Len(Encode(f))) /\ i <= m
      BY <2>1
    <3> QED
      BY <2>2, <3>1
  <2>5. ASSUME NEW i \in (m + 1)..Len(t) PROVE t[i] = [frame |-> f, pos |-> i - m]
    <3>1. i \in 1..(m + Len(Encode(f))) /\ ~(i <= m) /\ i - m \in 1..FrameLength(f)
      BY <2>1, <2>3
    <3> QED
      BY <2>1, <2>2, <3>1
  <2> QED
    BY <2>1, <2>2, <2>3, <2>4, <2>5
<1> HIDE DEF t
<1> HIDE DEF m
<1>2. Starts(t) = Starts(s) \cup {m + 1} /\ m + 1 \notin Starts(s) /\ Starts(s) \subseteq 1..m
  <2>1. Starts(s) = {k \in 1..m : s[k].pos = 1}
    BY DEF Starts, m
  <2>2. ASSUME NEW k \in Starts(t) PROVE k \in Starts(s) \cup {m + 1}
    <3>1. k \in 1..Len(t) /\ t[k].pos = 1
      BY <2>2 DEF Starts
    <3>2. CASE k \in 1..m
      BY <1>1, <2>1, <3>1, <3>2
    <3>3. CASE k \in (m + 1)..Len(t)
      <4>1. t[k] = [frame |-> f, pos |-> k - m]
        BY <1>1, <3>3
      <4> QED
        BY <1>1, <3>1, <3>3, <4>1
    <3> QED
      BY <1>1, <3>1, <3>2, <3>3
  <2>3. ASSUME NEW k \in Starts(s) PROVE k \in Starts(t)
    <3>1. k \in 1..m /\ k \in 1..Len(t) /\ t[k] = s[k]
      BY <1>1, <2>1
    <3> QED
      BY <2>1, <3>1 DEF Starts
  <2>4. m + 1 \in Starts(t)
    <3>1. m + 1 \in 1..Len(t) /\ m + 1 \in (m + 1)..Len(t) /\ (m + 1) - m = 1
      BY <1>1
    <3>2. t[m + 1] = [frame |-> f, pos |-> 1]
      BY <1>1, <3>1
    <3> QED
      BY <3>1, <3>2 DEF Starts
  <2>5. m + 1 \notin Starts(s) /\ Starts(s) \subseteq 1..m
    BY <1>1, <2>1
  <2> QED
    BY <2>2, <2>3, <2>4, <2>5
<1>3. c \in Nat /\ Cardinality(Starts(t)) = c + 1
  BY <1>2, RankFacts, FS_AddElement
<1>4. ASSUME NEW k \in Starts(s) PROVE Rank(t, k) = Rank(s, k)
  <2>1. {j \in Starts(t) : j <= k} = {j \in Starts(s) : j <= k}
    BY <1>1, <1>2
  <2> QED
    BY <2>1 DEF Rank
<1>5. Rank(t, m + 1) = c + 1
  <2>1. {j \in Starts(t) : j <= m + 1} = Starts(t)
    BY <1>1, <1>2
  <2> QED
    BY <1>3, <2>1 DEF Rank
<1>6. ASSUME NEW n \in 1..c PROVE t[StartOf(t, n)] = s[StartOf(s, n)]
  <2>1. StartOf(s, n) \in Starts(s) /\ Rank(s, StartOf(s, n)) = n
    BY StartOfFacts
  <2>2. StartOf(t, n) = StartOf(s, n)
    BY <1>1, <1>2, <1>4, <2>1, StartOfFacts
  <2> QED
    BY <1>1, <1>2, <2>1, <2>2
<1>7. StartOf(t, c + 1) = m + 1
  <2>1. m + 1 \in Starts(t)
    BY <1>2
  <2> QED
    BY <1>1, <1>5, <2>1, StartOfFacts
<1>8. t[m + 1].frame = f
  <2>1. m + 1 \in (m + 1)..Len(t)
    BY <1>1
  <2>2. t[m + 1] = [frame |-> f, pos |-> (m + 1) - m]
    BY <1>1, <2>1
  <2> QED
    BY <2>2
<1>9. /\ FramesOf(s) \in Seq(Frames) /\ Len(FramesOf(s)) = c
      /\ FramesOf(t) \in Seq(Frames) /\ Len(FramesOf(t)) = c + 1
  BY <1>1, <1>3, FramesOfType
<1>10. /\ \A n \in 1..c : FramesOf(s)[n] = s[StartOf(s, n)].frame
       /\ \A n \in 1..(c + 1) : FramesOf(t)[n] = t[StartOf(t, n)].frame
  BY <1>3 DEF FramesOf
<1> DEFINE q == Append(FramesOf(s), f)
<1>11. /\ q \in Seq(Frames) /\ Len(q) = c + 1
       /\ \A n \in 1..c : q[n] = FramesOf(s)[n]
       /\ q[c + 1] = f
  BY <1>9, AppendProperties
<1> HIDE DEF q, c
<1>12. \A n \in 1..(c + 1) : FramesOf(t)[n] = q[n]
  <2>1. \A n \in 1..(c + 1) : n \in 1..c \/ n = c + 1
    BY <1>3
  <2>2. \A n \in 1..c : n \in 1..(c + 1)
    BY <1>3
  <2>3. c + 1 \in 1..(c + 1)
    BY <1>3
  <2> QED
    BY <1>6, <1>7, <1>8, <1>10, <1>11, <2>1, <2>2, <2>3
<1> QED
  BY <1>9, <1>11, <1>12, SeqEqual DEF q, t, m

LEMMA ShiftedSet ==
    ASSUME NEW A \in SUBSET Int, IsFiniteSet(A), NEW d \in Int
    PROVE  /\ IsFiniteSet({d + j : j \in A})
           /\ Cardinality({d + j : j \in A}) = Cardinality(A)
<1> DEFINE B == {d + j : j \in A}
<1> DEFINE g == [j \in A |-> d + j]
<1>1. g \in [A -> B] /\ \A b \in B : \E j \in A : g[j] = b
  OBVIOUS
<1>2. \A i, j \in A : g[i] = g[j] => i = j
  OBVIOUS
<1> HIDE DEF B, g
<1>3. g \in Surjection(A, B) /\ g \in Injection(A, B)
  BY <1>1, <1>2 DEF Surjection, Injection, IsInjective
<1>4. IsFiniteSet(B) /\ Cardinality(B) = Cardinality(A)
  BY <1>3, FS_Surjection
<1> QED
  BY <1>4 DEF B

(* The first frame of a stream of whole frames, and the frames of the rest. *)
LEMMA FramesOfFront ==
    ASSUME NEW s \in Seq(Bytes), WholeFrames(s), s # << >>
    PROVE  /\ FramesOf(s) \in Seq(Frames) /\ FramesOf(s) # << >>
           /\ Head(FramesOf(s)) = s[1].frame
           /\ FramesOf(SubSeq(s, FrameLength(s[1].frame) + 1, Len(s))) = Tail(FramesOf(s))
<1> DEFINE f == s[1].frame
<1> DEFINE m == FrameLength(f)
<1> DEFINE t == SubSeq(s, m + 1, Len(s))
<1> DEFINE c == Cardinality(Starts(t))
<1>1. /\ f \in Frames /\ m \in Nat /\ m >= 2 /\ m <= Len(s) /\ Len(s) \in Nat
      /\ \A k \in 1..m : s[k] = [frame |-> f, pos |-> k]
  BY WholeFront, FrameLengthType, LenProperties
<1> HIDE DEF m, f
<1>2. /\ t \in Seq(Bytes) /\ Len(t) = Len(s) - m
      /\ \A i \in 1..(Len(s) - m) : t[i] = s[m + i]
  <2>1. m + 1 \in Int /\ \A i \in (m + 1)..Len(s) : s[i] \in Bytes
    BY <1>1, ElementOfSeq
  <2>2. /\ t \in Seq(Bytes)
        /\ Len(t) = IF m + 1 <= Len(s) THEN Len(s) - (m + 1) + 1 ELSE 0
        /\ \A i \in 1..(Len(s) - (m + 1) + 1) : t[i] = s[m + 1 + i - 1]
    BY <1>1, <2>1, SubSeqProperties
  <2> HIDE DEF t
  <2> QED
    BY <1>1, <2>2
<1> HIDE DEF t
<1>3. /\ Starts(s) = {1} \cup {m + j : j \in Starts(t)}
      /\ \A j \in Starts(t) : m + j > 1
  <2>1. ASSUME NEW k \in Starts(s), k # 1 PROVE k - m \in Starts(t) /\ k = m + (k - m)
    <3>1. k \in 1..Len(s) /\ s[k].pos = 1
      BY DEF Starts
    <3>2. ~(k \in 1..m)
      <4>1. k \in 1..m => s[k] = [frame |-> f, pos |-> k]
        BY <1>1
      <4> QED
        BY <2>1, <3>1, <4>1
    <3>3. k - m \in 1..(Len(s) - m) /\ k = m + (k - m)
      BY <1>1, <3>1, <3>2
    <3>4. t[k - m] = s[k]
      BY <1>2, <3>3
    <3> QED
      BY <1>2, <3>1, <3>3, <3>4 DEF Starts
  <2>2. ASSUME NEW j \in Starts(t) PROVE m + j \in Starts(s) /\ m + j > 1
    <3>1. j \in 1..(Len(s) - m) /\ t[j].pos = 1
      BY <1>2 DEF Starts
    <3>2. m + j \in 1..Len(s) /\ m + j > 1
      BY <1>1, <3>1
    <3> QED
      BY <1>2, <3>1, <3>2 DEF Starts
  <2>3. 1 \in Starts(s)
    <3>1. 1 \in 1..m /\ 1 \in 1..Len(s)
      BY <1>1
    <3>2. s[1] = [frame |-> f, pos |-> 1]
      BY <1>1, <3>1
    <3> QED
      BY <3>1, <3>2 DEF Starts
  <2> QED
    BY <2>1, <2>2, <2>3
<1>4. /\ Starts(t) \in SUBSET Int /\ IsFiniteSet(Starts(t)) /\ c \in Nat
      /\ IsFiniteSet(Starts(s))
  BY <1>2, RankFacts DEF Starts
<1>5. ASSUME NEW A \in SUBSET Starts(t)
      PROVE  Cardinality({1} \cup {m + j : j \in A}) = Cardinality(A) + 1
  <2> DEFINE B == {m + j : j \in A}
  <2>1. A \in SUBSET Int /\ IsFiniteSet(A) /\ Cardinality(A) \in Nat
    BY <1>4, FS_Subset, FS_CardinalityType
  <2>2. IsFiniteSet(B) /\ Cardinality(B) = Cardinality(A)
    <3>1. m \in Int
      BY <1>1
    <3> QED
      BY <2>1, <3>1, ShiftedSet
  <2>3. 1 \notin B
    BY <1>3
  <2>4. {1} \cup B = B \cup {1}
    OBVIOUS
  <2> HIDE DEF B
  <2>5. Cardinality(B \cup {1}) = Cardinality(B) + 1
    BY <2>2, <2>3, FS_AddElement
  <2> QED
    BY <2>2, <2>4, <2>5 DEF B
<1>6. Cardinality(Starts(s)) = c + 1
  BY <1>3, <1>5
<1>7. Rank(s, 1) = 1 /\ 1 \in Starts(s)
  <2>1. {j \in Starts(s) : j <= 1} = {1}
    BY <1>3, <1>4, <1>1
  <2> QED
    BY <1>3, <2>1, FS_Singleton DEF Rank
<1>8. ASSUME NEW k \in Starts(t) PROVE m + k \in Starts(s) /\ Rank(s, m + k) = Rank(t, k) + 1
  <2> DEFINE A == {j \in Starts(t) : j <= k}
  <2>1. {j \in Starts(s) : j <= m + k} = {1} \cup {m + j : j \in A}
    BY <1>1, <1>3, <1>4
  <2>2. A \in SUBSET Starts(t)
    OBVIOUS
  <2> QED
    BY <1>3, <1>5, <2>1, <2>2 DEF Rank
<1>9. ASSUME NEW n \in 1..c PROVE s[StartOf(s, n + 1)] = t[StartOf(t, n)]
  <2> DEFINE k == StartOf(t, n)
  <2>1. k \in Starts(t) /\ Rank(t, k) = n
    BY <1>2, StartOfFacts
  <2> HIDE DEF k
  <2>2. StartOf(s, n + 1) = m + k
    BY <1>8, <2>1, StartOfFacts
  <2>3. t[k] = s[m + k]
    BY <1>2, <2>1 DEF Starts
  <2> QED
    BY <2>2, <2>3 DEF k
<1>10. StartOf(s, 1) = 1
  BY <1>7, StartOfFacts
<1> DEFINE q == FramesOf(s)
<1>11. /\ q \in Seq(Frames) /\ Len(q) = c + 1
       /\ FramesOf(t) \in Seq(Frames) /\ Len(FramesOf(t)) = c
  BY <1>2, <1>6, FramesOfType
<1>12. /\ \A n \in 1..(c + 1) : q[n] = s[StartOf(s, n)].frame
       /\ \A n \in 1..c : FramesOf(t)[n] = t[StartOf(t, n)].frame
  BY <1>6 DEF FramesOf
<1> HIDE DEF q, c
<1>13. q # << >> /\ 1 \in 1..(c + 1)
  BY <1>4, <1>11, EmptySeq
<1>14. Head(q) = f
  <2>1. Head(q) = q[1]
    BY <1>11, <1>13, HeadTailProperties
  <2> QED
    BY <1>10, <1>12, <1>13, <2>1 DEF f
<1>15. /\ Tail(q) \in Seq(Frames) /\ Len(Tail(q)) = c
       /\ \A n \in 1..c : Tail(q)[n] = q[n + 1]
  BY <1>4, <1>11, <1>13, HeadTailProperties
<1>16. \A n \in 1..c : Tail(q)[n] = FramesOf(t)[n]
  <2>1. \A n \in 1..c : n + 1 \in 1..(c + 1)
    BY <1>4 DEF c
  <2> QED
    BY <1>9, <1>12, <1>15, <2>1 DEF c
<1>17. Tail(q) = FramesOf(t)
  BY <1>11, <1>15, <1>16, SeqEqual
<1> QED
  BY <1>11, <1>13, <1>14, <1>17 DEF q, t, m, f

-----------------------------------------------------------------------------
(***************************************************************************)
(* The refinement.  Every step of the client is a step of FrameChannel or  *)
(* leaves the channel alone.                                               *)
(***************************************************************************)
ChannelStep == [Channel!Next]_(Channel!vars)

LEMMA StreamFront ==
    ASSUME NEW a \in Seq(Bytes), NEW b \in Seq(Bytes)
    PROVE  /\ a \o b \in Seq(Bytes)
           /\ a # << >> => a \o b # << >> /\ (a \o b)[1] = a[1]
<1> DEFINE c == a \o b
<1>1. Len(a) \in Nat /\ Len(b) \in Nat
  BY LenProperties
<1>2. /\ c \in Seq(Bytes) /\ Len(c) = Len(a) + Len(b)
      /\ \A i \in 1..(Len(a) + Len(b)) : c[i] = IF i <= Len(a) THEN a[i] ELSE b[i - Len(a)]
  BY ConcatProperties
<1> HIDE DEF c
<1>3. ASSUME a # << >> PROVE c # << >> /\ c[1] = a[1]
  <2>1. Len(a) # 0
    BY <1>3, EmptySeq
  <2>2. Len(c) # 0 /\ 1 \in 1..(Len(a) + Len(b)) /\ 1 <= Len(a)
    BY <1>1, <1>2, <2>1
  <2> QED
    BY <1>2, <2>2, EmptySeq
<1> QED
  BY <1>2, <1>3 DEF c

LEMMA EncodeFirst == ASSUME NEW f \in Frames PROVE Encode(f)[1] = [frame |-> f, pos |-> 1]
<1>1. 1 \in 1..FrameLength(f)
  BY FrameLengthType
<1> QED
  BY <1>1, EncodeType

LEMMA InHandEmpty == ASSUME held \in Seq(Notifications), Len(held) = 0 PROVE InHand = << >>
BY EmptySeq DEF InHand

LEMMA InHandNothing == ASSUME Len(held) = 1, held[1].taken = 0 PROVE InHand = << >>
BY DEF InHand

(* What the user holds is the head of the queue. *)
LEMMA InHandIsHead ==
    ASSUME TypeOK, StreamInv, held # << >>, held[1].taken > 0
    PROVE  /\ InHand = << Head(FramesOf(Stream)) >>
           /\ held[1].taken = FrameLength(Head(FramesOf(Stream)))
           /\ held[1].taken <= Len(rx)
           /\ rx # << >> /\ rx[1].frame = Head(FramesOf(Stream))
<1> DEFINE f == rx[1].frame
<1>1. Len(held) \in Nat /\ 1 \in 1..Len(held)
  BY EmptySeq, LenProperties DEF TypeOK
<1>2. OfFront(held[1])
  BY <1>1 DEF StreamInv, HeldInv
<1>3. /\ rx # << >> /\ held[1].bytes = Encode(f)
      /\ held[1].taken = FrameLength(f) /\ FrameLength(f) <= Len(rx)
  BY <1>2 DEF OfFront
<1>4. /\ Stream \in Seq(Bytes) /\ Stream # << >> /\ Stream[1] = rx[1]
      /\ WholeFrames(Stream)
  BY <1>3, StreamFront DEF TypeOK, StreamInv, StreamIsFramed, Stream
<1>5. f \in Frames /\ Head(FramesOf(Stream)) = f
  BY <1>4, WholeFront, FramesOfFront
<1>6. Encode(f)[1] = [frame |-> f, pos |-> 1]
  BY <1>5, EncodeFirst
<1>7. held[1].bytes[1].frame = f
  BY <1>3, <1>6
<1> HIDE DEF f
<1>8. InHand = << f >>
  BY <1>7 DEF InHand
<1> QED
  BY <1>3, <1>5, <1>8 DEF f

LEMMA QuietChannel ==
    ASSUME Stream' = Stream, InHand' = InHand
    PROVE  ChannelStep
BY DEF ChannelStep, Channel!vars

LEMMA ReadChannel ==
    ASSUME TypeOK, StreamInv, NEW n \in 1..Capacity, ReadBytes(n)
    PROVE  ChannelStep
<1> DEFINE data == rx \o SubSeq(net, 1, n)
<1> DEFINE f == data[1].frame
<1> DEFINE v == OnBytesReceived(f, Len(data))
<1>1. /\ data \in Seq(Bytes) /\ data # << >> /\ net' \in Seq(Bytes)
      /\ WholeFrames(data \o net') /\ Len(held) = 0
      /\ \/ pc = "connack" /\ ContinueConnect(f, data)
         \/ pc = "read" /\ ContinueRead(f, data)
  BY ReadBytesStream
<1>2. data \o net' = Stream
  <2>1. n \in 0..Len(net) /\ net' = SubSeq(net, n + 1, Len(net))
    BY DEF ReadBytes, TypeOK
  <2> QED
    BY <2>1, MoveBytes DEF TypeOK, Stream
<1> HIDE DEF data
<1>3. /\ Stream \in Seq(Bytes) /\ Stream # << >> /\ Stream[1] = data[1]
      /\ WholeFrames(Stream)
  BY <1>1, <1>2, StreamFront
<1>4. /\ f \in Frames
      /\ FramesOf(Stream) \in Seq(Frames) /\ FramesOf(Stream) # << >>
      /\ Head(FramesOf(Stream)) = f
      /\ FramesOf(SubSeq(Stream, FrameLength(f) + 1, Len(Stream))) = Tail(FramesOf(Stream))
  BY <1>1, <1>3, FrontFrame, FramesOfFront
<1>5. InHand = << >> /\ held = << >>
  BY <1>1, InHandEmpty, EmptySeq DEF TypeOK
<1>6. Len(data) \in Nat /\ v \in Verdicts
      /\ (v.kind = "ConnAck" \/ v.kind \in SessionKinds
             => v.kind = f.kind /\ v.taken = FrameLength(f) /\ ReadOk(f, Len(data), MaxPacketSize))
      /\ (v.taken > 0 => v.kind = "ConnAck" \/ v.kind \in SessionKinds)
  BY <1>1, <1>4, VerdictFacts, LenProperties DEF TypeOK
<1>7. CASE pc = "connack" /\ ContinueConnect(f, data)
  <2>1. InHand' = InHand
    BY <1>7 DEF ContinueConnect, InHand
  <2>2. CASE rx' = data
    <3>1. Stream' = Stream
      BY <1>2, <2>2 DEF Stream
    <3> QED
      BY <2>1, <3>1, QuietChannel
  <2>3. CASE v.kind = "ConnAck" /\ rx' = RemovePrefix(data, v.taken)
    <3>1. v.taken = FrameLength(f) /\ FrameLength(f) \in 0..Len(data) /\ f.kind = "ConnAck"
      BY <1>4, <1>6, <2>3, FrameLengthType DEF ReadOk, Framed
    <3>2. Stream' = SubSeq(Stream, FrameLength(f) + 1, Len(Stream))
      <4>1. Stream' = SubSeq(data, FrameLength(f) + 1, Len(data)) \o net'
        BY <2>3, <3>1 DEF RemovePrefix, Stream
      <4>2. SubSeq(data, FrameLength(f) + 1, Len(data)) \o net'
                = SubSeq(data \o net', FrameLength(f) + 1, Len(data \o net'))
        BY <1>1, <3>1, RemoveFront
      <4> QED
        BY <1>2, <4>1, <4>2
    <3>3. FramesOf(Stream)' = Tail(FramesOf(Stream))
      BY <1>4, <3>2
    <3>4. Channel!Handshake
      BY <1>4, <2>1, <3>1, <3>3 DEF Channel!Handshake
    <3> QED
      BY <3>4 DEF ChannelStep, Channel!Next
  <2> QED
    BY <1>7, <2>2, <2>3 DEF ContinueConnect
<1>8. CASE pc = "read" /\ ContinueRead(f, data)
  <2>1. Stream' = Stream
    BY <1>2, <1>8 DEF ContinueRead, Stream
  <2>2. CASE held' = held
    BY <2>1, <2>2, QuietChannel DEF InHand
  <2>3. CASE held' = Append(held, Notified(v.kind, f, v.taken, Removed(data, v.taken)))
    <3> DEFINE t == Notified(v.kind, f, v.taken, Removed(data, v.taken))
    <3>1. held' = << t >>
      BY <1>5, <2>3
    <3>2. t.taken = v.taken /\ t.bytes = Removed(data, v.taken)
      BY DEF Notified
    <3> HIDE DEF t
    <3>3. held' # << >> /\ held'[1] = t
      BY <3>1
    <3>4. CASE v.taken = 0
      <4>1. InHand' = << >>
        BY <3>2, <3>3, <3>4 DEF InHand
      <4> QED
        BY <1>5, <2>1, <4>1, QuietChannel
    <3>5. CASE v.taken > 0
      <4>1. v.taken = FrameLength(f) /\ FrameLength(f) <= Len(data)
        BY <1>4, <1>6, <3>5, FrameLengthType DEF ReadOk, Framed
      <4>2. Removed(data, v.taken) = Encode(f)
        BY <1>1, <4>1, FrontFrame
      <4>3. Encode(f)[1] = [frame |-> f, pos |-> 1]
        BY <1>4, EncodeFirst
      <4>4. t.bytes[1].frame = f /\ t.taken > 0
        BY <3>2, <3>5, <4>2, <4>3
      <4>5. InHand' = << f >>
        BY <3>3, <4>4 DEF InHand
      <4>6. FramesOf(Stream)' = FramesOf(Stream)
        BY <2>1
      <4>7. Channel!Show
        BY <1>4, <1>5, <4>5, <4>6 DEF Channel!Show
      <4> QED
        BY <4>7 DEF ChannelStep, Channel!Next
    <3> QED
      BY <1>6, <3>4, <3>5 DEF Verdicts
  <2> QED
    BY <1>8, <2>2, <2>3 DEF ContinueRead
<1> QED
  BY <1>1, <1>7, <1>8

LEMMA CompleteChannel ==
    ASSUME TypeOK, StreamInv, NEW i \in 1..Len(held), Complete(i)
    PROVE  ChannelStep
<1>1. /\ rx \in Seq(Bytes) /\ net \in Seq(Bytes) /\ held \in Seq(Notifications)
      /\ WholeFrames(Stream)
  BY DEF TypeOK, StreamInv, StreamIsFramed
<1>2. i = 1 /\ held # << >> /\ held[1] \in Notifications
  BY <1>1, RemoveOnly, ElementOfSeq DEF StreamInv, HeldInv
<1>3. /\ rx' = RemovePrefix(rx, held[1].taken) /\ net' = net
      /\ Len(held') = 0 /\ held' = << >>
  BY <1>1, <1>2, RemoveOnly, RemoveAtType, EmptySeq DEF Complete, StreamInv, HeldInv
<1>4. InHand' = << >>
  BY <1>3 DEF InHand
<1>5. CASE held[1].taken = 0
  <2>1. Stream' = Stream
    <3>1. RemovePrefix(rx, 0) = rx
      BY <1>1, SubSeqFull DEF RemovePrefix
    <3> QED
      BY <1>3, <1>5, <3>1 DEF Stream
  <2>2. InHand = << >>
    BY <1>5 DEF InHand
  <2> QED
    BY <1>4, <2>1, <2>2, QuietChannel
<1>6. CASE held[1].taken > 0
  <2> DEFINE f == Head(FramesOf(Stream))
  <2>1. /\ InHand = << f >> /\ held[1].taken = FrameLength(f) /\ FrameLength(f) <= Len(rx)
        /\ rx # << >> /\ rx[1].frame = f
    BY <1>2, <1>6, InHandIsHead
  <2>2. Stream \in Seq(Bytes) /\ Stream # << >> /\ Stream[1].frame = f
    BY <1>1, <2>1, StreamFront DEF Stream
  <2>3. /\ FramesOf(SubSeq(Stream, FrameLength(f) + 1, Len(Stream))) = Tail(FramesOf(Stream))
        /\ f \in Frames
    BY <1>1, <2>2, WholeFront, FramesOfFront
  <2> HIDE DEF f
  <2>4. FrameLength(f) \in 0..Len(rx)
    BY <1>1, <2>1, <2>3, FrameLengthType, LenProperties
  <2>5. Stream' = SubSeq(Stream, FrameLength(f) + 1, Len(Stream))
    <3>1. Stream' = SubSeq(rx, FrameLength(f) + 1, Len(rx)) \o net
      BY <1>3, <2>1 DEF RemovePrefix, Stream
    <3> QED
      BY <1>1, <2>4, <3>1, RemoveFront DEF Stream
  <2>6. FramesOf(Stream)' = Tail(FramesOf(Stream))
    BY <2>3, <2>5
  <2>7. Channel!Consume
    BY <1>4, <2>1, <2>6 DEF Channel!Consume, f
  <2> QED
    BY <2>7 DEF ChannelStep, Channel!Next
<1> QED
  BY <1>2, <1>5, <1>6 DEF Notifications

LEMMA BrokerChannel ==
    ASSUME TypeOK, NEW f \in Frames, net' = net \o Encode(f), UNCHANGED << rx, held >>
    PROVE  ChannelStep
<1>1. rx \in Seq(Bytes) /\ net \in Seq(Bytes) /\ Encode(f) \in Seq(Bytes)
  BY EncodeType DEF TypeOK
<1>2. Stream \in Seq(Bytes)
  BY <1>1, StreamFront DEF Stream
<1>3. rx \o (net \o Encode(f)) = (rx \o net) \o Encode(f)
  BY <1>1, ConcatAssociative, SMTT(60)
<1>4. Stream' = Stream \o Encode(f)
  BY <1>3 DEF Stream
<1>5. FramesOf(Stream)' = Append(FramesOf(Stream), f)
  BY <1>2, <1>4, FramesOfAppend
<1>6. Channel!Push(f)
  BY <1>5 DEF Channel!Push, InHand
<1> QED
  BY <1>6 DEF ChannelStep, Channel!Next

LEMMA NextChannel ==
    ASSUME MaxHeld = 0, "rewrap" \notin UserOps, TypeOK, StreamInv, [Next]_vars
    PROVE  ChannelStep
<1>a. held \in Seq(Notifications) /\ Len(held) \in Nat
  BY LenProperties DEF TypeOK
<1>1. ASSUME NEW ka \in KeepAlives, NEW s \in BOOLEAN, ConnectCall(ka, s) PROVE ChannelStep
  <2>1. InHand = << >> /\ InHand' = << >>
    BY <1>1, <1>a, InHandEmpty DEF ConnectCall, MayGoOn, InHand
  <2>2. Stream' = << >>
    BY <1>1, EmptySeq, ConcatEmptySeq DEF ConnectCall, ResetBuffer, Stream
  <2>3. FramesOf(Stream)' = << >>
    BY <2>2, FramesOfEmpty
  <2>4. Channel!Reset
    BY <2>1, <2>3 DEF Channel!Reset
  <2> QED
    BY <2>4 DEF ChannelStep, Channel!Next
<1>2. CASE UNCHANGED << rx, net, held >>
  BY <1>2, QuietChannel DEF Stream, InHand
<1>3. CASE WriteConnect \/ WriteSubscribe \/ WriteFilters \/ WritePacket \/ WriteFails
  BY <1>2, <1>3 DEF WriteConnect, WriteSubscribe, WriteFilters, WritePacket, Written, WriteFails
<1>4. CASE ReadEof \/ ReadErrs \/ NextNotification \/ CancelRead \/ CancelWrite
  BY <1>2, <1>4 DEF ReadEof, ReadErrs, ReadEnds, NextNotification, CancelRead, CancelWrite
<1>5. ASSUME NEW n \in 1..Capacity, ReadBytes(n) PROVE ChannelStep
  BY <1>5, ReadChannel
<1>6. CASE ReadTimeout
  <2>1. Len(held) = 0
    BY <1>6, <1>a DEF ReadTimeout, StreamInv, HeldInv, Idle
  <2>2. held' = << SendPing >>
    BY <1>6, <1>a, <2>1, EmptySeq DEF ReadTimeout
  <2>3. held' # << >> /\ held'[1].taken = 0
    BY <2>2 DEF SendPing
  <2>4. InHand = << >> /\ InHand' = << >>
    BY <1>a, <2>1, <2>3, InHandEmpty DEF InHand
  <2> QED
    BY <1>6, <2>4, QuietChannel DEF ReadTimeout, Stream
<1>7. ASSUME NEW i \in 1..Len(held), Complete(i) PROVE ChannelStep
  BY <1>7, CompleteChannel
<1>8. ASSUME NEW i \in 1..Len(held), DropNotification(i) PROVE ChannelStep
  <2>1. Len(held') = 0 /\ held' = << >>
    BY <1>8, <1>a, RemoveOnly, RemoveAtType, EmptySeq DEF DropNotification, StreamInv, HeldInv
  <2>2. InHand' = << >>
    BY <2>1 DEF InHand
  <2>3. Stream' = Stream
    BY <1>8 DEF DropNotification, Stream
  <2>4. FramesOf(Stream)' = FramesOf(Stream)
    BY <2>3
  <2>5. Channel!Forget
    BY <2>2, <2>4 DEF Channel!Forget
  <2> QED
    BY <2>5 DEF ChannelStep, Channel!Next
<1>9. ASSUME NEW p \in UserPackets, Send(p) PROVE ChannelStep
  BY <1>2, <1>9 DEF Send
<1>10. CASE Rewrap
  BY <1>10 DEF Rewrap
<1>11. ASSUME NEW f \in Unsolicited, BrokerSends(f) PROVE ChannelStep
  BY <1>11, NanoAssumption, BrokerChannel DEF BrokerSends
<1>12. CASE BrokerTakes
  <2>1. CASE UNCHANGED net
    BY <1>2, <1>12, <2>1 DEF BrokerTakes
  <2>2. CASE \E f \in Answers(Head(out)) : net' = net \o Encode(f)
    <3>1. Head(out) \in OutPackets
      BY <1>12, HeadTailProperties DEF BrokerTakes, TypeOK
    <3>2. PICK f \in Frames : net' = net \o Encode(f)
      BY <2>2, <3>1, NanoAssumption
    <3> QED
      BY <1>12, <3>2, BrokerChannel DEF BrokerTakes
  <2> QED
    BY <1>12, <2>1, <2>2 DEF BrokerTakes
<1>13. CASE BrokerCloses \/ Tick \/ UNCHANGED vars
  BY <1>2, <1>13 DEF BrokerCloses, Tick, vars
<1> QED
  BY <1>1, <1>3, <1>4, <1>5, <1>6, <1>7, <1>8, <1>9, <1>10, <1>11, <1>12, <1>13 DEF Next

LEMMA InitChannel == Init => Channel!Init
<1> SUFFICES ASSUME Init PROVE Channel!Init
  OBVIOUS
<1>1. Stream = << >>
  BY EmptySeq, ConcatEmptySeq DEF Init, Stream
<1>2. InHand = << >>
  BY DEF Init, InHand
<1> QED
  BY <1>1, <1>2, FramesOfEmpty DEF Channel!Init

(***************************************************************************)
(* NanoClient implements FrameChannel, for every capacity, set of frames,  *)
(* broker and transport: what its user sees is a first-in first-out        *)
(* channel, from which only the completion of a notification (or the       *)
(* ConnAck that connect waits for) takes a frame.                          *)
(***************************************************************************)
THEOREM ChannelImplemented ==
    ASSUME MaxHeld = 0, "rewrap" \notin UserOps
    PROVE  Spec => ImplementsChannel
<1>1. Init => StreamInv
  BY InitStreamInv
<1>2. TypeOK /\ StreamInv /\ [Next]_vars => StreamInv'
  BY NextStreamInv
<1>3. TypeOK /\ StreamInv /\ [Next]_vars => [Channel!Next]_(Channel!vars)
  BY NextChannel DEF ChannelStep
<1>4. Init => Channel!Init
  BY InitChannel
<1> QED
  BY <1>1, <1>2, <1>3, <1>4, TypeCorrect, PTL DEF Spec, ImplementsChannel, Channel!Spec
=============================================================================
