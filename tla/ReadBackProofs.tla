--------------------------- MODULE ReadBackProofs ---------------------------
(***************************************************************************)
(* Whatever is written is read back: for every packet, every way it is     *)
(* written and every capacity, the reader makes of the frame the packet    *)
(* that was written, and so it does of every frame of a stream.  The       *)
(* readers are followed field by field over the places the writers put     *)
(* the fields at; lists, by induction on their items; a topic that is      *)
(* written level by level, by induction on its bytes and on its levels.    *)
(* And whatever is read, of frames umqtt wrote or not, is a packet with    *)
(* fields of their types, which is what the topics and filters that an     *)
(* application is given need to be compared.  Whatever is written,         *)
(* mqttbytes wrote the same; and last, whatever is read is no longer than  *)
(* its frame, so that it can be written again, and is then read again.     *)
(***************************************************************************)
EXTENDS PacketProofs

-----------------------------------------------------------------------------
(* A list of groups of fields is read item by item, up to the end of b.    *)
ItemReads(b, kinds, bytes, value) ==
    \A place : At(b, place, bytes) => Fields(b, place, kinds) = Run(place + Len(bytes), value)

Ended(e, next, items) == [error |-> e, next |-> next, items |-> items]

(* One item is read, and those behind it are. *)
LEMMA OneGroup ==
    ASSUME NEW group, NEW i, NEW next, NEW v, NEW e, NEW last, NEW items,
           group[next] = Ended(e, last, items)
    PROVE  Grouped(group, i, Run(next, v)) = Ended(e, last, <<v>> \o items)
<1> DEFINE g == Run(next, v)
           q == group[next]
           more == <<v>> \o items
<1>1. g.error = "none" /\ g.next = next /\ g.values = v
  BY DEF Run
<1> HIDE DEF g
<1>2. Grouped(group, i, g) = [q EXCEPT !.items = <<v>> \o q.items]
  BY <1>1, Zenon DEF Grouped
<1>3. q = Ended(e, last, items)
  OBVIOUS
<1> HIDE DEF q
<1>4. q.items = items
  BY <1>3 DEF Ended
<1>5. Grouped(group, i, g) = [q EXCEPT !.items = more]
  BY <1>2, <1>4
<1> HIDE DEF more
<1>7. q = [error |-> e, next |-> last, items |-> items]
  BY <1>3 DEF Ended
<1>6. [q EXCEPT !.items = more] = Ended(e, last, more)
  BY ONLY <1>7 DEF Ended
<1> QED
  BY <1>5, <1>6, Zenon DEF g, more

(* A list is read item by item, by induction on what is left of it. *)
LEMMA ListReads ==
    ASSUME NEW b \in Seq(Byte), NEW kinds \in Seq(FieldKinds), kinds # << >>,
           NEW from, NEW z \in Seq(Byte), At(b, from, z), from + Len(z) = Len(b),
           NEW n \in Nat, NEW puts, Len(puts) = n, Joined(puts, z),
           NEW S, NEW vals \in Seq(S), Len(vals) = n,
           \A i \in 1..n : puts[i].bytes \in Seq(Byte) /\ ItemReads(b, kinds, puts[i].bytes, vals[i])
    PROVE  \E e : Groups(b, from, kinds) = Ended(e, Len(b), vals)
<1>1. PICK w : Growth(w, puts, z)
  BY Zenon DEF Joined
<1>2. /\ w \in [0..n -> Seq(Byte)] /\ w[0] = << >> /\ w[n] = z
      /\ \A i \in 1..n : w[i] = w[i - 1] \o puts[i].bytes
  BY <1>1, Zenon DEF Growth
<1>3. from \in 0..Len(b) /\ from \in Nat /\ Len(b) \in Nat
  <2>1. from \in 0..Len(b)
    BY AtPlace, Zenon
  <2> QED
    BY <2>1
<1>4. PICK group : group = (CHOOSE t : GroupTable(b, from, kinds, t))
  OBVIOUS
<1>5. GroupTable(b, from, kinds, group)
  BY <1>3, <1>4, GroupTableExists, Zenon
<1>6. Groups(b, from, kinds) = group[from]
  BY <1>4, Zenon DEF Groups, GroupTable
<1>7. \A i \in from..Len(b) : group[i] = Grouped(group, i, Fields(b, i, kinds))
  BY <1>5, Zenon DEF GroupTable
<1> DEFINE l == Len(b)
           e == Fields(b, l, kinds).error
           Tail_(i) == SubSeq(vals, i + 1, n)
           Q(i) == /\ At(b, from, w[i])
                   /\ group[from + Len(w[i])] = Ended(e, l, Tail_(i))
<1>8. Q(n)
  <2>1. Fields(b, l, kinds) \in RunSet(l + 1, l)
    <3>1. l \in 0..l
      BY <1>3
    <3> QED
      BY <3>1, FieldsTyped, Zenon
  <2>2. e # "none"
    <3>1. SUFFICES ASSUME e = "none"
                   PROVE  FALSE
      OBVIOUS
    <3>2. Fields(b, l, kinds).next \in (l + 1)..l
      BY <2>1, <3>1 DEF RunSet, FieldErrors
    <3> HIDE DEF l
    <3> QED
      BY <1>3, <3>2 DEF l
  <2>3. l \in from..l
    BY <1>3
  <2>4. group[l] = Ended(e, l, << >>)
    <3>1. group[l] = Grouped(group, l, Fields(b, l, kinds))
      BY <1>7, <2>3, Zenon
    <3>2. Grouped(group, l, Fields(b, l, kinds)) = Ended(e, l, << >>)
      BY <2>2, Zenon DEF Grouped, Ended
    <3> QED
      BY <3>1, <3>2, Zenon
  <2>5. Tail_(n) = << >>
    <3>1. n + 1 \in Int /\ n \in Int /\ n < n + 1
      OBVIOUS
    <3> QED
      BY <3>1, SubSeqEmpty, Zenon
  <2> HIDE DEF e, Tail_
  <2> QED
    BY <1>2, <2>4, <2>5, Zenon
<1> HIDE DEF e, l
<1> DEFINE P == {k \in Nat : k <= n => Q(n - k)}
<1>9. \A k \in 0..n : k \in P
  <2>1. 0 \in P
    <3>1. n - 0 = n
      OBVIOUS
    <3>2. Q(n - 0)
      <4> HIDE DEF Q
      <4> QED
        BY <1>8, <3>1, Zenon
    <3> HIDE DEF Q
    <3> QED
      BY <3>2
  <2>2. ASSUME NEW k \in 1..n, k - 1 \in P
        PROVE  k \in P
    <3> DEFINE i == n - (k - 1)
               x == puts[i].bytes
               place == from + Len(w[i - 1])
    <3>1. /\ k \in Nat /\ k - 1 \in Nat /\ k - 1 <= n /\ i \in 1..n /\ i - 1 \in 0..n
          /\ n - k = i - 1 /\ i \in Nat /\ (i - 1) + 1 = i
      OBVIOUS
    <3>2. Q(i)
      <4> HIDE DEF Q
      <4> QED
        BY <2>2, <3>1
    <3> HIDE DEF i
    <3>3. w[i - 1] \in Seq(Byte) /\ x \in Seq(Byte) /\ w[i] = w[i - 1] \o x
      BY <1>2, <3>1, Zenon
    <3>4. At(b, from, w[i]) /\ group[from + Len(w[i])] = Ended(e, l, Tail_(i))
      BY <3>2, Zenon
    <3>5. At(b, from, w[i - 1]) /\ At(b, place, x)
      BY <3>3, <3>4, AtBoth, ZenonT(60)
    <3>6. Fields(b, place, kinds) = Run(place + Len(x), vals[i])
      BY <3>1, <3>5, Zenon DEF ItemReads
    <3>7. place + Len(x) = from + Len(w[i]) /\ place \in from..l
      <4>1. Len(w[i]) = Len(w[i - 1]) + Len(x)
        BY <3>3, ConcatTyped, ZenonT(60)
      <4>2. PICK c \in Nat, d \in Nat : c = Len(w[i - 1]) /\ d = Len(x)
        BY <3>3
      <4>3. (from + c) + d = from + (c + d)
        BY <1>3
      <4>4. from + c \in 0..l
        BY <3>3, <3>5, <4>2, AtPlace, Zenon DEF l
      <4>5. from + c \in from..l
        BY <1>3, <4>4 DEF l
      <4> QED
        BY <4>1, <4>2, <4>3, <4>5, Zenon
    <3>8. group[place] = Grouped(group, place, Run(place + Len(x), vals[i]))
      BY <1>7, <3>6, <3>7, Zenon DEF l
    <3>9. Tail_(i - 1) = <<vals[i]>> \o Tail_(i)
      <4>1. i \in 1..Len(vals) /\ n \in i..Len(vals)
        BY <3>1
      <4>2. SubSeq(vals, i, n) = <<vals[i]>> \o SubSeq(vals, i + 1, n)
        BY <4>1, SubSeqRecursiveFirst, Zenon
      <4> QED
        BY <3>1, <4>2, Zenon
    <3> HIDE DEF Tail_, x, place
    <3>10. group[place] = Ended(e, l, Tail_(i - 1))
      <4>1. group[place + Len(x)] = Ended(e, l, Tail_(i))
        BY <3>4, <3>7, Zenon
      <4>2. PICK v, m, t, next, more :
                v = vals[i] /\ m = l /\ t = Tail_(i) /\ next = place + Len(x) /\ more = Tail_(i - 1)
        OBVIOUS
      <4>3. group[next] = Ended(e, m, t) /\ more = <<v>> \o t
        BY <3>9, <4>1, <4>2, Zenon
      <4>4. Grouped(group, place, Run(next, v)) = Ended(e, m, <<v>> \o t)
        BY ONLY <4>3, OneGroup
      <4> QED
        BY <3>8, <4>2, <4>3, <4>4, Zenon
    <3>11. Q(i - 1)
      BY <3>5, <3>10, Zenon DEF place
    <3>12. Q(n - k)
      <4> HIDE DEF Q
      <4> QED
        BY <3>1, <3>11, Zenon
    <3> HIDE DEF Q
    <3> QED
      BY <3>1, <3>12
  <2>3. P \in SUBSET Nat
    OBVIOUS
  <2> HIDE DEF P
  <2> QED
    BY <2>1, <2>2, <2>3, UpTo
<1>10. Q(0)
  <2>1. n \in 0..n /\ n - n = 0 /\ n <= n
    OBVIOUS
  <2>2. Q(n - n)
    <3> HIDE DEF Q
    <3> QED
      BY <1>9, <2>1
  <2> HIDE DEF Q
  <2> QED
    BY <2>1, <2>2, Zenon
<1>11. from + Len(w[0]) = from
  <2>1. Len(w[0]) = 0
    BY <1>2
  <2> QED
    BY <1>3, <2>1
<1>12. Tail_(0) = vals
  <2>1. 0 + 1 = 1
    OBVIOUS
  <2>2. SubSeq(vals, 1, Len(vals)) = vals
    BY SubSeqFull, Zenon
  <2> QED
    BY <2>1, <2>2, Zenon
<1>13. group[from] = Ended(e, l, vals)
  <2> HIDE DEF Tail_
  <2> QED
    BY <1>10, <1>11, <1>12, Zenon
<1> QED
  BY <1>6, <1>13, Zenon DEF l

-----------------------------------------------------------------------------
(* A frame of an identifier and a list of texts. *)
ListOf(b1, n, pkid, list, bytes) ==
    /\ n \in Nat /\ n <= MaxRemaining
    /\ \E z \in Seq(Byte) : /\ Joined(list, z)
                            /\ U16(pkid) \o z \in Seq(Byte) /\ Len(U16(pkid) \o z) = n
                            /\ bytes = FrameBytes(b1, n, U16(pkid) \o z)

(* What is written of a list behind an identifier. *)
LEMMA ListBody ==
    ASSUME NEW cap \in Nat, NEW b1 \in Byte, NEW n \in Nat, NEW pkid \in Nat,
           NEW list \in Seq(PutSet), Spans(list, n),
           Write(cap, <<Put(<<b1>>), PutLength(n), Put(U16(pkid))>> \o list).error = "none"
    PROVE  ListOf(b1, n, pkid, list, Write(cap, <<Put(<<b1>>), PutLength(n), Put(U16(pkid))>> \o list).bytes)
<1> DEFINE a == Put(<<b1>>)
           b == PutLength(n)
           c == Put(U16(pkid))
           out == Write(cap, <<a, b, c>> \o list)
<1>1. /\ a \in PutSet /\ b \in PutSet /\ c \in PutSet
      /\ c.bytes = U16(pkid) /\ U16(pkid) \in Seq(Byte) /\ Len(U16(pkid)) = 2
  <2>1. a \in PutSet /\ c \in PutSet /\ U16(pkid) \in Seq(Byte) /\ Len(U16(pkid)) = 2
    BY SomeBytes, Zenon
  <2> QED
    BY <2>1, PutTyped, PutLengthTyped, Zenon
<1>2. <<a, b, c>> \o list = <<a, b>> \o (<<c>> \o list)
  <2> HIDE DEF a, b, c
  <2> QED
    BY <1>1, AfterThree, Zenon
<1>3. <<c>> \o list \in Seq(PutSet)
  <2>1. <<c>> \in Seq(PutSet)
    BY <1>1
  <2> HIDE DEF c
  <2> QED
    BY <2>1, PutsTyped, Zenon
<1> DEFINE body == <<c>> \o list
<1>4. /\ Write(cap, <<Put(<<b1>>), PutLength(n)>> \o body).error = "none"
      /\ out = Write(cap, <<Put(<<b1>>), PutLength(n)>> \o body)
  BY <1>2, Zenon
<1>5. Headed(b1, n, body, out.bytes)
  <2> HIDE DEF body, out
  <2> QED
    BY <1>3, <1>4, HeaderThenBody, Zenon DEF body
<1> HIDE DEF c, out
<1>6. PICK rest \in Seq(Byte) : Joined(<<c>> \o list, rest) /\ out.bytes = FrameBytes(b1, n, rest)
  BY <1>5, Zenon DEF Headed
<1>7. PICK z \in Seq(Byte) : Joined(list, z) /\ rest = c.bytes \o z
  <2>1. FirstThen(c, list, rest)
    BY <1>1, <1>6, JoinedCons, Zenon
  <2> QED
    BY <2>1, Zenon DEF FirstThen
<1>8. Len(rest) = n
  <2>1. c.bytes \in Seq(Byte) /\ Len(c.bytes) = 2
    BY <1>1, Zenon
  <2>2. c.bytes \o z \in Seq(Byte) /\ Len(c.bytes \o z) = Len(c.bytes) + Len(z)
    BY <2>1, ConcatTyped, Zenon
  <2>3. 2 + Len(z) = n
    BY <1>7, Zenon DEF Spans
  <2> QED
    BY <1>7, <2>1, <2>2, <2>3
<1>9. n <= MaxRemaining
  BY <1>5, Zenon DEF Headed
<1>10. rest = U16(pkid) \o z
  BY <1>1, <1>7, Zenon
<1>11. ListOf(b1, n, pkid, list, out.bytes)
  BY <1>6, <1>7, <1>8, <1>9, <1>10, Zenon DEF ListOf
<1> QED
  BY <1>11, Zenon DEF c, out

(* It is read text by text. *)
Listed(type, b1, bytes, kinds, pkid, vals) ==
    \E n \in Nat, h \in Nat : \E e :
        /\ bytes \in Seq(Byte) /\ n # 0
        /\ ExactOf(bytes) = ReadExact(b1, n, bytes, h)
        /\ Fields(bytes, h, <<"u16">>) = Run(h + 2, <<pkid>>)
        /\ Groups(bytes, h + 2, kinds) = Ended(e, Len(bytes), vals)

(* A list that was written behind an identifier is read. *)
LEMMA ListRead ==
    ASSUME NEW b1 \in Byte, NEW n, NEW pkid \in Word16, NEW list, NEW bytes,
           ListOf(b1, n, pkid, list, bytes),
           NEW kinds \in Seq(FieldKinds), kinds # << >>,
           NEW S, NEW vals \in Seq(S), NEW m \in Nat, Len(list) = m, Len(vals) = m,
           \A i \in 1..m : /\ list[i].bytes \in Seq(Byte)
                           /\ \A b \in Seq(Byte) : ItemReads(b, kinds, list[i].bytes, vals[i]),
           NEW type
    PROVE  Listed(type, b1, bytes, kinds, pkid, vals)
<1>1. PICK z \in Seq(Byte) : /\ Joined(list, z)
                             /\ U16(pkid) \o z \in Seq(Byte) /\ Len(U16(pkid) \o z) = n
                             /\ bytes = FrameBytes(b1, n, U16(pkid) \o z)
  BY Zenon DEF ListOf
<1>2. n \in Nat /\ n <= MaxRemaining
  BY Zenon DEF ListOf
<1> DEFINE body == U16(pkid) \o z
           h == 1 + LengthBytes(n)
<1>3. /\ bytes \in Seq(Byte)
      /\ At(bytes, h, body) /\ h + n = Len(bytes)
      /\ ExactOf(bytes) = ReadExact(b1, n, bytes, h)
  <2>1. body \in Seq(Byte) /\ Len(body) = n
    BY <1>1, Zenon
  <2> HIDE DEF body
  <2>2. LET f == FrameBytes(b1, n, body)
        IN  /\ f \in Seq(Byte)
            /\ At(f, h, body) /\ h + n = Len(f)
            /\ ExactOf(f) = ReadExact(b1, n, f, h)
    BY <1>2, <2>1, FrameReads, Zenon
  <2> QED
    BY <1>1, <2>2, Zenon DEF body
<1>4. h \in Nat
  BY <1>3, Zenon DEF At
<1> HIDE DEF h
<1>5. Fields(bytes, h, <<"u16">>) = Run(h + 2, <<pkid>>) /\ At(bytes, h + 2, z)
  BY <1>3, ReadsPkid, Zenon
<1>6. pkid \in Nat
  BY WordFits, Zenon
<1>7. Len(U16(pkid)) = 2 /\ U16(pkid) \in Seq(Byte)
  BY <1>6, CastLength, Zenon
<1>8. n = 2 + Len(z)
  BY <1>1, <1>7, ConcatTyped, Zenon
<1>9. n # 0 /\ (h + 2) + Len(z) = Len(bytes)
  <2>1. PICK x \in Nat : x = Len(z)
    OBVIOUS
  <2>2. n # 0 /\ (h + 2) + x = h + n
    BY <1>4, <1>8, <2>1
  <2> QED
    BY <1>3, <2>1, <2>2, Zenon
<1>10. \A i \in 1..m : list[i].bytes \in Seq(Byte) /\ ItemReads(bytes, kinds, list[i].bytes, vals[i])
  BY <1>3, Zenon
<1>11. PICK e : Groups(bytes, h + 2, kinds) = Ended(e, Len(bytes), vals)
  <2>1. PICK from : from = h + 2
    OBVIOUS
  <2>2. At(bytes, from, z) /\ from + Len(z) = Len(bytes) /\ z \in Seq(Byte) /\ bytes \in Seq(Byte)
    BY <1>1, <1>3, <1>5, <1>9, <2>1
  <2>3. Joined(list, z)
    BY <1>1
  <2>4. \E e : Groups(bytes, from, kinds) = Ended(e, Len(bytes), vals)
    BY <1>10, <2>2, <2>3, ListReads
  <2> QED
    BY <2>1, <2>4, Zenon
<1> QED
  BY <1>2, <1>3, <1>4, <1>5, <1>9, <1>11, Zenon DEF Listed

-----------------------------------------------------------------------------
(* A filter of a Subscribe, a topic of an Unsubscribe. *)
LEMMA FilterReads ==
    ASSUME NEW f \in FilterSet, Len(f.path) <= MaxWord, NEW b \in Seq(Byte)
    PROVE  ItemReads(b, <<"string", "qos">>, FilterBytes(f), <<f.path, f.qos>>)
<1>1. f.path \in Text /\ f.qos \in 0..2
  BY DEF FilterSet
<1>2. /\ "string" \in FieldKinds /\ Fits("string", f.path) /\ Encoded("string", f.path) = MqttBytes(f.path)
      /\ "qos" \in FieldKinds /\ Fits("qos", f.qos) /\ Encoded("qos", f.qos) = <<f.qos>>
  BY <1>1, FitsAs, EncodedAs, Zenon
<1>3. FilterBytes(f) = Encoded("string", f.path) \o Encoded("qos", f.qos)
  BY <1>2, Zenon DEF FilterBytes
<1>4. Encoded("string", f.path) \in Seq(Byte) /\ Encoded("qos", f.qos) \in Seq(Byte)
  BY <1>2, EncodedTyped, Zenon
<1>5. Len(FilterBytes(f)) = Len(Encoded("string", f.path)) + Len(Encoded("qos", f.qos))
  BY <1>3, <1>4, ConcatTyped, Zenon
<1>6. ASSUME NEW place, At(b, place, FilterBytes(f))
      PROVE  Fields(b, place, <<"string", "qos">>) = Run(place + Len(FilterBytes(f)), <<f.path, f.qos>>)
  <2>1. At(b, place, Encoded("string", f.path) \o Encoded("qos", f.qos))
    BY <1>3, <1>6, Zenon
  <2>2. Fields(b, place, <<"string", "qos">>) =
            Run((place + Len(Encoded("string", f.path))) + Len(Encoded("qos", f.qos)), <<f.path, f.qos>>)
    BY <1>2, <2>1, TwoFields
  <2>3. (place + Len(Encoded("string", f.path))) + Len(Encoded("qos", f.qos)) = place + Len(FilterBytes(f))
    <3>1. place \in Nat
      BY <1>6, Zenon DEF At
    <3>2. PICK x \in Nat, y \in Nat : x = Len(Encoded("string", f.path)) /\ y = Len(Encoded("qos", f.qos))
      BY <1>4
    <3>3. (place + x) + y = place + (x + y)
      BY <3>1
    <3> QED
      BY <1>5, <3>2, <3>3, Zenon
  <2> QED
    BY <2>2, <2>3, Zenon
<1> QED
  BY <1>6, Zenon DEF ItemReads

(* A topic is a string. *)
LEMMA TopicReads ==
    ASSUME NEW t \in Text, Len(t) <= MaxWord, NEW b \in Seq(Byte)
    PROVE  ItemReads(b, <<"string">>, MqttBytes(t), <<t>>)
<1>1. "string" \in FieldKinds /\ Fits("string", t) /\ Encoded("string", t) = MqttBytes(t)
  BY FitsAs, EncodedAs, Zenon
<1>2. ASSUME NEW place, At(b, place, MqttBytes(t))
      PROVE  Fields(b, place, <<"string">>) = Run(place + Len(MqttBytes(t)), <<t>>)
  <2>1. At(b, place, Encoded("string", t))
    BY <1>1, <1>2, Zenon
  <2>2. Fields(b, place, <<"string">>) = Run(place + Len(Encoded("string", t)), <<t>>)
    BY <1>1, <2>1, OneField
  <2> QED
    BY <1>1, <2>2, Zenon
<1> QED
  BY <1>2, Zenon DEF ItemReads

(* The reader of a type whose packets have a body. *)
LEMMA ReaderReached ==
    ASSUME NEW byte1, NEW n \in Nat, n # 0, NEW b, NEW h
    PROVE  /\ byte1 = 130 => ReadExact(byte1, n, b, h) = ReadSubscribe(b, h)
           /\ byte1 = 162 => ReadExact(byte1, n, b, h) = ReadUnsubscribe(b, h)
<1>1. ASSUME byte1 = 130
      PROVE  ReadExact(byte1, n, b, h) = ReadSubscribe(b, h)
  <2>1. PacketTypes[8] = "Subscribe" /\ "Subscribe" \notin Bodiless
    BY TypeNames DEF Bodiless
  <2>2. PICK code \in 1..14 : code = 8
    OBVIOUS
  <2>3. PICK type : type = "Subscribe"
    OBVIOUS
  <2>4. byte1 \div 16 = code
    BY <1>1, <2>2
  <2>5. PacketTypes[code] = type /\ type \notin Bodiless
    BY <2>1, <2>2, <2>3, Zenon
  <2>6. ReadExact(byte1, n, b, h) = ReaderOf(type, byte1, n, b, h)
    BY <2>4, <2>5, HandedOn
  <2>7. ReaderOf("Subscribe", byte1, n, b, h) = ReadSubscribe(b, h)
    BY DEF ReaderOf
  <2> QED
    BY <2>3, <2>6, <2>7, Zenon
<1>2. ASSUME byte1 = 162
      PROVE  ReadExact(byte1, n, b, h) = ReadUnsubscribe(b, h)
  <2>1. PacketTypes[10] = "Unsubscribe" /\ "Unsubscribe" \notin Bodiless
    BY TypeNames DEF Bodiless
  <2>2. PICK code \in 1..14 : code = 10
    OBVIOUS
  <2>3. PICK type : type = "Unsubscribe"
    OBVIOUS
  <2>4. byte1 \div 16 = code
    BY <1>2, <2>2
  <2>5. PacketTypes[code] = type /\ type \notin Bodiless
    BY <2>1, <2>2, <2>3, Zenon
  <2>6. ReadExact(byte1, n, b, h) = ReaderOf(type, byte1, n, b, h)
    BY <2>4, <2>5, HandedOn
  <2>7. ReaderOf("Unsubscribe", byte1, n, b, h) = ReadUnsubscribe(b, h)
    BY DEF ReaderOf
  <2> QED
    BY <2>3, <2>6, <2>7, Zenon
<1> QED
  BY <1>1, <1>2

-----------------------------------------------------------------------------
(* A Subscribe is read with its filters; one without any is refused. *)
LEMMA SubscribeRead ==
    ASSUME NEW p \in PacketSet, p.type = "Subscribe",
           \A i \in DOMAIN p.filters : Len(p.filters[i].path) <= MaxWord,
           NEW list, Len(list) = Len(p.filters),
           \A i \in DOMAIN p.filters : list[i].bytes = FilterBytes(p.filters[i]),
           NEW b1, b1 = 130, NEW n, NEW bytes, ListOf(b1, n, p.pkid, list, bytes)
    PROVE  IF p.filters = << >> THEN ExactOf(bytes).error # "none" ELSE ExactOf(bytes) = Packet(p)
<1> DEFINE fs == p.filters
           m == Len(fs)
           vals == [i \in 1..m |-> <<fs[i].path, fs[i].qos>>]
           S == Text \X (0..2)
<1>1. /\ p.pkid \in Word16 /\ fs \in Seq(FilterSet)
      /\ p = [type |-> "Subscribe", pkid |-> p.pkid, filters |-> fs]
  BY SubscribeFields DEF FilterSet
<1> HIDE DEF fs
<1>2. /\ m \in Nat /\ DOMAIN fs = 1..m
      /\ \A i \in 1..m : fs[i] \in FilterSet
  BY <1>1
<1>3. \A i \in 1..m : /\ fs[i].path \in Text /\ fs[i].qos \in 0..2
                      /\ fs[i] = [path |-> fs[i].path, qos |-> fs[i].qos]
  BY <1>2 DEF FilterSet
<1> HIDE DEF m
<1>4. vals \in Seq(S) /\ Len(vals) = m /\ DOMAIN vals = 1..m
  <2>1. \A i \in 1..m : <<fs[i].path, fs[i].qos>> \in S
    BY <1>3
  <2> HIDE DEF S
  <2> QED
    BY <1>2, <2>1
<1>5. \A i \in 1..m : vals[i] = <<fs[i].path, fs[i].qos>> /\ vals[i][1] = fs[i].path /\ vals[i][2] = fs[i].qos
  OBVIOUS
<1> HIDE DEF vals, S
<1>6. \A i \in 1..m : /\ list[i].bytes \in Seq(Byte)
                      /\ \A b \in Seq(Byte) : ItemReads(b, <<"string", "qos">>, list[i].bytes, vals[i])
  <2>1. \A i \in 1..m : list[i].bytes = FilterBytes(fs[i]) /\ Len(fs[i].path) <= MaxWord
    BY <1>2, Zenon DEF fs
  <2> QED
    BY <1>2, <1>5, <2>1, FilterBytesTyped, FilterReads, Zenon
<1>7. PICK kinds : kinds = <<"string", "qos">>
  OBVIOUS
<1>8. kinds \in Seq(FieldKinds) /\ kinds # << >> /\ b1 \in Byte
  BY <1>7 DEF FieldKinds, Byte
<1>9. Listed("Subscribe", b1, bytes, kinds, p.pkid, vals)
  <2>1. Len(list) = m
    BY DEF m, fs
  <2>2. \A i \in 1..m : /\ list[i].bytes \in Seq(Byte)
                        /\ \A b \in Seq(Byte) : ItemReads(b, kinds, list[i].bytes, vals[i])
    BY <1>6, <1>7, Zenon
  <2>3. PICK type : type = "Subscribe"
    OBVIOUS
  <2>4. Listed(type, b1, bytes, kinds, p.pkid, vals)
    BY <1>1, <1>2, <1>4, <1>8, <2>1, <2>2, ListRead
  <2> QED
    BY <2>3, <2>4, Zenon
<1>10. PICK l \in Nat, h \in Nat : \E e :
          /\ bytes \in Seq(Byte) /\ l # 0
          /\ ExactOf(bytes) = ReadExact(b1, l, bytes, h)
          /\ Fields(bytes, h, <<"u16">>) = Run(h + 2, <<p.pkid>>)
          /\ Groups(bytes, h + 2, kinds) = Ended(e, Len(bytes), vals)
  BY <1>9, Zenon DEF Listed
<1>11. PICK e :
          /\ bytes \in Seq(Byte) /\ l # 0
          /\ ExactOf(bytes) = ReadExact(b1, l, bytes, h)
          /\ Fields(bytes, h, <<"u16">>) = Run(h + 2, <<p.pkid>>)
          /\ Groups(bytes, h + 2, kinds) = Ended(e, Len(bytes), vals)
  BY <1>10
<1> DEFINE r == Fields(bytes, h, <<"u16">>)
           g == Groups(bytes, h + 2, kinds)
<1>12. ExactOf(bytes) = SubscribeOf(bytes, r, g)
  <2>1. ReadExact(b1, l, bytes, h) = ReadSubscribe(bytes, h)
    BY <1>11, ReaderReached
  <2> QED
    BY <1>7, <1>11, <2>1, Zenon DEF ReadSubscribe
<1>13. r.error = "none" /\ r.values[1] = p.pkid
  BY <1>11 DEF Run
<1>14. g.items = vals /\ g.next = Len(bytes)
  BY <1>11 DEF Ended
<1> HIDE DEF r, g
<1>15. CASE fs = << >>
  <2>1. vals = << >>
    <3>1. m = 0
      BY <1>15 DEF m
    <3> QED
      BY <1>4, <3>1
  <2>2. ExactOf(bytes) = Err("EmptySubscription")
    BY <1>12, <1>13, <1>14, <2>1, Zenon DEF SubscribeOf
  <2>3. ExactOf(bytes).error # "none"
    BY <2>2 DEF Err
  <2> QED
    BY <1>15, <2>3 DEF fs
<1>16. CASE fs # << >>
  <2>1. vals # << >>
    <3>1. m # 0
      BY <1>1, <1>16 DEF m
    <3> QED
      BY <1>4, <3>1
  <2>2. ~(g.next < Len(bytes))
    <3>1. Len(bytes) \in Nat
      BY <1>11
    <3> QED
      BY <1>14, <3>1
  <2>3. [i \in DOMAIN vals |-> [path |-> vals[i][1], qos |-> vals[i][2]]] = fs
    <3>1. [i \in 1..m |-> [path |-> vals[i][1], qos |-> vals[i][2]]] = [i \in 1..m |-> fs[i]]
      BY <1>3, <1>5, Zenon
    <3>2. [i \in 1..m |-> fs[i]] = fs
      BY <1>1, <1>2
    <3> QED
      BY <1>4, <3>1, <3>2, Zenon
  <2>4. ExactOf(bytes) = Packet([type |-> "Subscribe", pkid |-> p.pkid, filters |-> fs])
    BY <1>12, <1>13, <1>14, <2>1, <2>2, <2>3, Zenon DEF SubscribeOf
  <2> QED
    BY <1>1, <1>16, <2>4, Zenon DEF fs
<1> QED
  BY <1>15, <1>16

(* An Unsubscribe is read with its topics. *)
LEMMA UnsubscribeRead ==
    ASSUME NEW p \in PacketSet, p.type = "Unsubscribe",
           \A i \in DOMAIN p.topics : Len(p.topics[i]) <= MaxWord,
           NEW list, Len(list) = Len(p.topics),
           \A i \in DOMAIN p.topics : list[i].bytes = MqttBytes(p.topics[i]),
           NEW b1, b1 = 162, NEW n, NEW bytes, ListOf(b1, n, p.pkid, list, bytes)
    PROVE  ExactOf(bytes) = Packet(p)
<1> DEFINE ts == p.topics
           m == Len(ts)
           vals == [i \in 1..m |-> <<ts[i]>>]
           S == Seq(Text)
<1>1. /\ p.pkid \in Word16 /\ ts \in Seq(Text)
      /\ p = [type |-> "Unsubscribe", pkid |-> p.pkid, topics |-> ts]
  BY UnsubscribeFields
<1> HIDE DEF ts
<1>2. m \in Nat /\ DOMAIN ts = 1..m /\ \A i \in 1..m : ts[i] \in Text
  BY <1>1
<1> HIDE DEF m
<1>4. vals \in Seq(S) /\ Len(vals) = m /\ DOMAIN vals = 1..m
  <2>1. \A i \in 1..m : <<ts[i]>> \in S
    BY <1>2
  <2> HIDE DEF S
  <2> QED
    BY <1>2, <2>1
<1>5. \A i \in 1..m : vals[i] = <<ts[i]>> /\ vals[i][1] = ts[i]
  OBVIOUS
<1> HIDE DEF vals, S
<1>6. \A i \in 1..m : /\ list[i].bytes \in Seq(Byte)
                      /\ \A b \in Seq(Byte) : ItemReads(b, <<"string">>, list[i].bytes, vals[i])
  <2>1. \A i \in 1..m : list[i].bytes = MqttBytes(ts[i]) /\ Len(ts[i]) <= MaxWord
    BY <1>2, Zenon DEF ts
  <2>2. \A i \in 1..m : MqttBytes(ts[i]) \in Seq(Byte)
    BY <1>2, TextIsBytes, MqttBytesTyped, Zenon
  <2> QED
    BY <1>2, <1>5, <2>1, <2>2, TopicReads, Zenon
<1>7. PICK kinds : kinds = <<"string">>
  OBVIOUS
<1>8. kinds \in Seq(FieldKinds) /\ kinds # << >> /\ b1 \in Byte
  BY <1>7 DEF FieldKinds, Byte
<1>9. Listed("Unsubscribe", b1, bytes, kinds, p.pkid, vals)
  <2>1. Len(list) = m
    BY DEF m, ts
  <2>2. \A i \in 1..m : /\ list[i].bytes \in Seq(Byte)
                        /\ \A b \in Seq(Byte) : ItemReads(b, kinds, list[i].bytes, vals[i])
    BY <1>6, <1>7, Zenon
  <2>3. PICK type : type = "Unsubscribe"
    OBVIOUS
  <2>4. Listed(type, b1, bytes, kinds, p.pkid, vals)
    BY <1>1, <1>2, <1>4, <1>8, <2>1, <2>2, ListRead, SMTT(60)
  <2> QED
    BY <2>3, <2>4, Zenon
<1>10. PICK l \in Nat, h \in Nat : \E e :
          /\ bytes \in Seq(Byte) /\ l # 0
          /\ ExactOf(bytes) = ReadExact(b1, l, bytes, h)
          /\ Fields(bytes, h, <<"u16">>) = Run(h + 2, <<p.pkid>>)
          /\ Groups(bytes, h + 2, kinds) = Ended(e, Len(bytes), vals)
  BY <1>9, Zenon DEF Listed
<1>11. PICK e :
          /\ bytes \in Seq(Byte) /\ l # 0
          /\ ExactOf(bytes) = ReadExact(b1, l, bytes, h)
          /\ Fields(bytes, h, <<"u16">>) = Run(h + 2, <<p.pkid>>)
          /\ Groups(bytes, h + 2, kinds) = Ended(e, Len(bytes), vals)
  BY <1>10
<1> DEFINE r == Fields(bytes, h, <<"u16">>)
           g == Groups(bytes, h + 2, kinds)
<1>12. ExactOf(bytes) = UnsubscribeOf(bytes, r, g)
  <2>1. ReadExact(b1, l, bytes, h) = ReadUnsubscribe(bytes, h)
    BY <1>11, ReaderReached
  <2> QED
    BY <1>7, <1>11, <2>1, Zenon DEF ReadUnsubscribe
<1>13. r.error = "none" /\ r.values[1] = p.pkid
  BY <1>11 DEF Run
<1>14. g.items = vals /\ g.next = Len(bytes)
  BY <1>11 DEF Ended
<1> HIDE DEF r, g
<1>15. ~(g.next < Len(bytes))
  <2>1. Len(bytes) \in Nat
    BY <1>11
  <2> QED
    BY <1>14, <2>1
<1>16. [i \in DOMAIN vals |-> vals[i][1]] = ts
  <2>1. [i \in 1..m |-> vals[i][1]] = [i \in 1..m |-> ts[i]]
    BY <1>5, Zenon
  <2>2. [i \in 1..m |-> ts[i]] = ts
    BY <1>1, <1>2
  <2> QED
    BY <1>4, <2>1, <2>2, Zenon
<1>17. ExactOf(bytes) = Packet([type |-> "Unsubscribe", pkid |-> p.pkid, topics |-> ts])
  BY <1>12, <1>13, <1>14, <1>15, <1>16, Zenon DEF UnsubscribeOf
<1> QED
  BY <1>1, <1>17, Zenon

-----------------------------------------------------------------------------
(* However a Subscribe or an Unsubscribe is written, it is read as it was. *)
LEMMA SubscribeListed ==
    ASSUME NEW cap \in Nat, NEW p \in PacketSet, p.type = "Subscribe",
           WriteSubscribePacket(p, cap).error = "none", NEW b1, b1 = 130
    PROVE  ListOf(b1, SubscribeLen(p), p.pkid, FilterPuts(p), WriteSubscribePacket(p, cap).bytes)
<1>1. b1 \in Byte /\ p.pkid \in Nat
  <2>1. p.pkid \in Word16
    BY SubscribeFields
  <2> QED
    BY <2>1, WordIsNat DEF Byte
<1>2. WriteSubscribePacket(p, cap) =
        Write(cap, <<Put(<<b1>>), PutLength(SubscribeLen(p)), Put(U16(p.pkid))>> \o FilterPuts(p))
  BY DEF WriteSubscribePacket, FilterPuts
<1>3. FilterPuts(p) \in Seq(PutSet) /\ SubscribeLen(p) \in Nat /\ Spans(FilterPuts(p), SubscribeLen(p))
  BY PutsOfFilters, Zenon
<1>4. Write(cap, <<Put(<<b1>>), PutLength(SubscribeLen(p)), Put(U16(p.pkid))>> \o FilterPuts(p)).error = "none"
  BY <1>2, Zenon
<1>5. ListOf(b1, SubscribeLen(p), p.pkid, FilterPuts(p),
             Write(cap, <<Put(<<b1>>), PutLength(SubscribeLen(p)), Put(U16(p.pkid))>> \o FilterPuts(p)).bytes)
  BY ONLY cap \in Nat, <1>1, <1>3, <1>4, ListBody, Zenon
<1> QED
  BY <1>2, <1>5, Zenon

(* The topics of an Unsubscribe are such a list. *)
LEMMA UnsubscribeListed ==
    ASSUME NEW cap \in Nat, NEW p \in PacketSet, p.type = "Unsubscribe",
           WriteUnsubscribe(p, cap).error = "none", NEW b1, b1 = 162
    PROVE  ListOf(b1, UnsubscribeLen(p), p.pkid, TopicPuts(p), WriteUnsubscribe(p, cap).bytes)
<1>1. b1 \in Byte /\ p.pkid \in Nat
  <2>1. p.pkid \in Word16
    BY UnsubscribeFields
  <2> QED
    BY <2>1, WordIsNat DEF Byte
<1>2. WriteUnsubscribe(p, cap) =
        Write(cap, <<Put(<<b1>>), PutLength(UnsubscribeLen(p)), Put(U16(p.pkid))>> \o TopicPuts(p))
  BY DEF WriteUnsubscribe, TopicPuts
<1>3. TopicPuts(p) \in Seq(PutSet) /\ UnsubscribeLen(p) \in Nat /\ Spans(TopicPuts(p), UnsubscribeLen(p))
  BY PutsOfTopics, Zenon
<1>4. Write(cap, <<Put(<<b1>>), PutLength(UnsubscribeLen(p)), Put(U16(p.pkid))>> \o TopicPuts(p)).error = "none"
  BY <1>2, Zenon
<1>5. ListOf(b1, UnsubscribeLen(p), p.pkid, TopicPuts(p),
             Write(cap, <<Put(<<b1>>), PutLength(UnsubscribeLen(p)), Put(U16(p.pkid))>> \o TopicPuts(p)).bytes)
  BY ONLY cap \in Nat, <1>1, <1>3, <1>4, ListBody, Zenon
<1> QED
  BY <1>2, <1>5, Zenon

(* The filters that an application adds one by one. *)
InPlacePuts(p, texts) ==
    [i \in DOMAIN p.filters |->
        IF Len(p.filters[i].path) > MaxWord THEN Fail("PayloadTooLong") ELSE Put(texts[i])]

(* So are filters that were put into the buffer one by one. *)
LEMMA InPlaceListed ==
    ASSUME NEW cap \in Nat, NEW p \in PacketSet, p.type = "Subscribe", NEW texts \in AddedTexts(p),
           WriteSubscribeInPlace(p, texts, cap).error = "none", NEW b1, b1 = 130
    PROVE  \E n : ListOf(b1, n, p.pkid, InPlacePuts(p, texts), WriteSubscribeInPlace(p, texts, cap).bytes)
<1> DEFINE puts == InPlacePuts(p, texts)
           filters == Write(cap, puts)
<1>1. puts \in Seq(PutSet)
  BY PutsInPlace DEF InPlacePuts
<1>3. PICK k : k = 7
  OBVIOUS
<1> DEFINE id == <<0, 1>>
           size == Len(filters.bytes)
           whole == Write(size + k, <<Put(<<b1>>), PutLength(size + 2), Put(id), filters>>)
<1>4. WriteSubscribeInPlace(p, texts, cap) = IF filters.error # "none" THEN filters ELSE whole
  BY <1>3 DEF WriteSubscribeInPlace, InPlacePuts
<1> HIDE DEF puts
<1>5. filters.error = "none" /\ whole.error = "none" /\ WriteSubscribeInPlace(p, texts, cap) = whole
  <2> HIDE DEF whole, filters
  <2> QED
    BY <1>4
<1>6. filters \in PutSet /\ Joined(puts, filters.bytes)
  BY <1>1, <1>5, WriteJoins, Zenon
<1> HIDE DEF filters
<1>7. filters.bytes \in Seq(Byte) /\ size \in Nat /\ size + k \in Nat /\ size + 2 \in Nat
  <2>1. filters.bytes \in Seq(Byte)
    BY <1>6 DEF PutSet
  <2> QED
    BY <1>3, <2>1
<1>8. id \in Seq(Byte) /\ Len(id) = 2 /\ b1 \in Byte
  BY DEF Byte
<1>80. p.pkid = 1
  BY DEF AddedTexts
<1>81. id = U16(p.pkid)
  BY <1>80 DEF U16
<1> HIDE DEF id
<1> DEFINE c == Put(id)
           n == size + 2
<1>9. c \in PutSet /\ c.bytes = id
  BY <1>8, PutTyped, Zenon
<1> HIDE DEF c, size
<1>10. whole = Write(size + k, <<Put(<<b1>>), PutLength(n)>> \o <<c, filters>>)
  <2>1. <<Put(<<b1>>), PutLength(n), c, filters>> = <<Put(<<b1>>), PutLength(n)>> \o <<c, filters>>
    BY SMT
  <2> QED
    BY <2>1, Zenon DEF c, n
<1>11. <<c, filters>> \in Seq(PutSet)
  BY <1>6, <1>9, Pair, Zenon
<1> HIDE DEF n
<1>12. /\ Write(size + k, <<Put(<<b1>>), PutLength(n)>> \o <<c, filters>>).error = "none"
       /\ whole = Write(size + k, <<Put(<<b1>>), PutLength(n)>> \o <<c, filters>>)
  BY <1>5, <1>10, Zenon DEF c, n
<1>13. n \in Nat
  BY <1>7 DEF n
<1>14. Headed(b1, n, <<c, filters>>, whole.bytes)
  <2> HIDE DEF whole
  <2> QED
    BY <1>7, <1>8, <1>11, <1>12, <1>13, HeaderThenBody, ZenonT(60)
<1> HIDE DEF whole
<1>15. PICK rest \in Seq(Byte) :
           Joined(<<c, filters>>, rest) /\ whole.bytes = FrameBytes(b1, n, rest)
  BY <1>14, Zenon DEF Headed
<1>16. rest = id \o filters.bytes
  BY <1>6, <1>9, <1>15, JoinedTwo, Zenon
<1>17. Len(rest) = n
  <2>1. Len(id \o filters.bytes) = Len(id) + Len(filters.bytes)
    BY <1>7, <1>8, ConcatTyped
  <2> QED
    BY <1>7, <1>8, <1>16, <2>1 DEF n, size
<1>18. n <= MaxRemaining
  BY <1>14, Zenon DEF Headed
<1>19. ListOf(b1, n, p.pkid, puts, whole.bytes)
  BY <1>6, <1>7, <1>13, <1>15, <1>16, <1>17, <1>18, <1>81, Zenon DEF ListOf
<1> QED
  BY <1>5, <1>19, Zenon DEF puts

(* Each of them takes the bytes of the filter. *)
LEMMA InPlaceBytes ==
    ASSUME NEW p \in PacketSet, p.type = "Subscribe", NEW texts \in AddedTexts(p),
           \A i \in DOMAIN p.filters : Len(p.filters[i].path) <= MaxWord
    PROVE  /\ Len(InPlacePuts(p, texts)) = Len(p.filters)
           /\ \A i \in DOMAIN p.filters : InPlacePuts(p, texts)[i].bytes = FilterBytes(p.filters[i])
<1> DEFINE fs == p.filters
           a == [i \in DOMAIN fs |-> FilterBytes(fs[i])]
           b == [i \in DOMAIN fs |-> SeparatedBytes(fs[i])]
<1>1. fs \in Seq(FilterSet)
  BY SubscribeFields DEF FilterSet
<1>2. texts \in {a, b}
  <2>1. CASE p.pkid # 1
    BY <2>1, Zenon DEF AddedTexts
  <2>2. CASE p.pkid = 1
    BY <2>2, Zenon DEF AddedTexts
  <2> QED
    BY <2>1, <2>2
<1> HIDE DEF fs
<1>3. DOMAIN fs = 1..Len(fs) /\ Len(fs) \in Nat /\ \A i \in DOMAIN fs : fs[i] \in FilterSet
  BY <1>1
<1>4. ASSUME NEW f \in FilterSet
      PROVE  SeparatedBytes(f) = FilterBytes(f)
  <2>1. f.path \in Seq(Byte)
    BY FilterTyped
  <2> DEFINE path == Separated(Levels(f.path), <<Slash>>)
  <2>2. path = f.path
    BY <2>1, LevelsJoined, Zenon
  <2>3. SeparatedBytes(f) = FilterBytes([f EXCEPT !.path = path])
    BY Zenon DEF SeparatedBytes
  <2> HIDE DEF path
  <2>4. f = [path |-> f.path, qos |-> f.qos]
    BY DEF FilterSet
  <2>5. [f EXCEPT !.path = path] = f
    BY <2>2, <2>4
  <2> QED
    BY <2>3, <2>5, Zenon
<1>5. ASSUME NEW i \in DOMAIN fs
      PROVE  texts[i] = FilterBytes(fs[i])
  <2>1. CASE texts = a
    BY <2>1
  <2>2. CASE texts = b
    <3>1. texts[i] = SeparatedBytes(fs[i])
      BY <2>2
    <3> HIDE DEF a, b
    <3> QED
      BY <1>3, <1>4, <3>1, Zenon
  <2> QED
    BY <1>2, <2>1, <2>2
<1> HIDE DEF a, b
<1>6. ASSUME NEW i \in DOMAIN fs
      PROVE  InPlacePuts(p, texts)[i].bytes = FilterBytes(fs[i])
  <2>1. ~(Len(fs[i].path) > MaxWord)
    <3>1. Len(fs[i].path) <= MaxWord
      BY DEF fs
    <3>2. Len(fs[i].path) \in Nat
      BY <1>3, FilterTyped
    <3> QED
      BY <3>1, <3>2, MaxWordIsNat
  <2>2. InPlacePuts(p, texts)[i] = Put(texts[i])
    BY <2>1 DEF InPlacePuts, fs
  <2>3. Put(texts[i]).bytes = texts[i]
    BY DEF Put
  <2> QED
    BY <1>5, <2>2, <2>3, Zenon
<1>7. Len(InPlacePuts(p, texts)) = Len(fs)
  <2>1. DOMAIN InPlacePuts(p, texts) = 1..Len(fs)
    BY <1>3 DEF InPlacePuts, fs
  <2>2. InPlacePuts(p, texts) \in Seq(PutSet)
    BY PutsInPlace DEF InPlacePuts
  <2> QED
    BY <1>3, <2>1, <2>2
<1> QED
  BY <1>6, <1>7 DEF fs

(* Whichever way a Subscribe was written, it is read. *)
LEMMA SubscribeWritten ==
    ASSUME NEW cap \in Nat, NEW p \in PacketSet, p.type = "Subscribe",
           \A i \in DOMAIN p.filters : Len(p.filters[i].path) <= MaxWord,
           NEW w \in Writes(p, cap), w.error = "none"
    PROVE  IF p.filters = << >> THEN ExactOf(w.bytes).error # "none" ELSE ExactOf(w.bytes) = Packet(p)
<1>1. Writes(p, cap) = {WriteSubscribePacket(p, cap)} \cup
            {WriteSubscribeInPlace(p, texts, cap) : texts \in AddedTexts(p)}
  BY DomainsOfBytes1 DEF Writes, AckTypes
<1>2. PICK b1 : b1 = 130
  OBVIOUS
<1>3. CASE w = WriteSubscribePacket(p, cap)
  <2>1. ListOf(b1, SubscribeLen(p), p.pkid, FilterPuts(p), w.bytes)
    BY <1>2, <1>3, SubscribeListed
  <2>2. p.filters \in Seq(FilterSet)
    BY SubscribeFields DEF FilterSet
  <2>3. /\ Len(FilterPuts(p)) = Len(p.filters)
        /\ \A i \in DOMAIN p.filters : FilterPuts(p)[i].bytes = FilterBytes(p.filters[i])
    <3>1. \A i \in DOMAIN p.filters : FilterPuts(p)[i] = Put(FilterBytes(p.filters[i]))
      BY DEF FilterPuts
    <3>2. \A x : Put(x).bytes = x
      BY DEF Put
    <3>3. DOMAIN FilterPuts(p) = 1..Len(p.filters) /\ Len(p.filters) \in Nat
      BY <2>2 DEF FilterPuts
    <3>4. FilterPuts(p) \in Seq(PutSet)
      BY PutsOfFilters, Zenon
    <3>5. Len(FilterPuts(p)) = Len(p.filters)
      BY <3>3, <3>4
    <3> QED
      BY <3>1, <3>2, <3>5, Zenon
  <2> QED
    BY <1>2, <2>1, <2>3, SubscribeRead
<1>4. ASSUME NEW texts \in AddedTexts(p), w = WriteSubscribeInPlace(p, texts, cap)
      PROVE  IF p.filters = << >> THEN ExactOf(w.bytes).error # "none" ELSE ExactOf(w.bytes) = Packet(p)
  <2>1. PICK n : ListOf(b1, n, p.pkid, InPlacePuts(p, texts), w.bytes)
    BY <1>2, <1>4, InPlaceListed
  <2>2. /\ Len(InPlacePuts(p, texts)) = Len(p.filters)
        /\ \A i \in DOMAIN p.filters : InPlacePuts(p, texts)[i].bytes = FilterBytes(p.filters[i])
    BY InPlaceBytes, Zenon
  <2> QED
    BY <1>2, <2>1, <2>2, SubscribeRead
<1>5. w \in {WriteSubscribePacket(p, cap)} \cup
            {WriteSubscribeInPlace(p, texts, cap) : texts \in AddedTexts(p)}
  BY <1>1
<1> QED
  BY <1>3, <1>4, <1>5

(* An Unsubscribe that was written is read. *)
LEMMA UnsubscribeWritten ==
    ASSUME NEW cap \in Nat, NEW p \in PacketSet, p.type = "Unsubscribe",
           \A i \in DOMAIN p.topics : Len(p.topics[i]) <= MaxWord,
           NEW w \in Writes(p, cap), w.error = "none"
    PROVE  ExactOf(w.bytes) = Packet(p)
<1>1. Writes(p, cap) = {WriteUnsubscribe(p, cap)}
  BY DomainsOfBytes1 DEF Writes, AckTypes
<1>2. w = WriteUnsubscribe(p, cap)
  BY <1>1
<1>3. PICK b1 : b1 = 162
  OBVIOUS
<1>4. ListOf(b1, UnsubscribeLen(p), p.pkid, TopicPuts(p), w.bytes)
  BY <1>2, <1>3, UnsubscribeListed
<1>5. p.topics \in Seq(Text)
  BY UnsubscribeFields
<1>6. /\ Len(TopicPuts(p)) = Len(p.topics)
      /\ \A i \in DOMAIN p.topics : TopicPuts(p)[i].bytes = MqttBytes(p.topics[i])
  <2>1. \A i \in DOMAIN p.topics : TopicPuts(p)[i] = Put(MqttBytes(p.topics[i]))
    BY DEF TopicPuts
  <2>2. \A x : Put(x).bytes = x
    BY DEF Put
  <2>3. DOMAIN TopicPuts(p) = 1..Len(p.topics) /\ Len(p.topics) \in Nat
    BY <1>5 DEF TopicPuts
  <2>4. TopicPuts(p) \in Seq(PutSet)
    BY PutsOfTopics, Zenon
  <2>5. Len(TopicPuts(p)) = Len(p.topics)
    BY <2>3, <2>4
  <2> QED
    BY <2>1, <2>2, <2>5, Zenon
<1> QED
  BY <1>3, <1>4, <1>6, UnsubscribeRead

-----------------------------------------------------------------------------
(* The flags of a Connect, bit by bit. *)
LEMMA FlagBits ==
    ASSUME NEW c \in {0, 2}, NEW w \in {0, 4}, NEW q \in 0..2, NEW r \in {0, 32},
           NEW u \in {0, 128}, NEW v \in {0, 64}, w = 0 => q = 0 /\ r = 0,
           NEW x, x = c + (w + 8 * q + r) + (u + v)
    PROVE  /\ (x \div 2) % 2 = 1 <=> c = 2
           /\ (x \div 4) % 2 = 1 <=> w = 4
           /\ (x \div 8) % 4 = q
           /\ w = 0 => (x \div 8) % 8 = 0
           /\ (x \div 32) % 2 = 1 <=> r = 32
           /\ (x \div 128) % 2 = 1 <=> u = 128
           /\ (x \div 64) % 2 = 1 <=> v = 64
<1>1. q = 0 \/ q = 1 \/ q = 2
  OBVIOUS
<1>2. (c = 0 \/ c = 2) /\ (w = 0 \/ w = 4) /\ (r = 0 \/ r = 32)
  OBVIOUS
<1>3. (u = 0 \/ u = 128) /\ (v = 0 \/ v = 64)
  OBVIOUS
<1> QED
  BY <1>1, <1>2, <1>3, SMTT(60)

HasWill(p) == p.last_will # << >>

HasUser(p) == p.login # << >> /\ p.login[1].username # << >>

HasPassword(p) == p.login # << >> /\ p.login[1].password # << >>

(* The flags say what is in the packet. *)
LEMMA ConnectBits ==
    ASSUME NEW p \in PacketSet, p.type = "Connect", NEW x, x = ConnectFlags(p)
    PROVE  /\ Bit(x, 2) = p.clean_session
           /\ Bit(x, 4) = HasWill(p)
           /\ HasWill(p) => /\ (x \div 8) % 4 = p.last_will[1].qos
                            /\ Bit(x, 32) = p.last_will[1].retain
           /\ ~HasWill(p) => (x \div 8) % 8 = 0
           /\ Bit(x, 128) = HasUser(p)
           /\ Bit(x, 64) = HasPassword(p)
<1>1. p.last_will \in Optional(WillSet) /\ p.login \in Optional(LoginSet) /\ p.clean_session \in BOOLEAN
  BY ConnectFields
<1>2. PICK c \in {0, 2} : c = Flag(p.clean_session, 2) /\ (c = 2 <=> p.clean_session)
  BY <1>1 DEF Flag
<1>3. PICK w \in {0, 4}, q \in 0..2, r \in {0, 32} :
          /\ (IF p.last_will = << >> THEN 0 ELSE WillFlags(p.last_will[1])) = w + 8 * q + r
          /\ w = 4 <=> HasWill(p)
          /\ HasWill(p) => q = p.last_will[1].qos /\ (r = 32 <=> p.last_will[1].retain)
          /\ w = 0 => q = 0 /\ r = 0
  <2>1. CASE ~HasWill(p)
    <3>1. (IF p.last_will = << >> THEN 0 ELSE WillFlags(p.last_will[1])) = 0
      BY <2>1 DEF HasWill
    <3>2. 0 \in {0, 4} /\ 0 \in 0..2 /\ 0 \in {0, 32} /\ 0 = 0 + 8 * 0 + 0 /\ 0 # 4
      OBVIOUS
    <3> QED
      BY <2>1, <3>1, <3>2, Zenon
  <2>2. CASE HasWill(p)
    <3> DEFINE l == p.last_will[1]
    <3>1. l \in WillSet
      BY <1>1, <2>2, OptionalFirst DEF HasWill
    <3>2. (IF p.last_will = << >> THEN 0 ELSE WillFlags(p.last_will[1])) = WillFlags(l)
      BY <2>2 DEF HasWill
    <3> HIDE DEF l
    <3>3. l.qos \in 0..2 /\ l.retain \in BOOLEAN
      BY <3>1 DEF WillSet
    <3>4. PICK r \in {0, 32} : r = Flag(l.retain, 32) /\ (r = 32 <=> l.retain)
      BY <3>3 DEF Flag
    <3>5. WillFlags(l) = 4 + 8 * l.qos + r
      BY <3>4, Zenon DEF WillFlags
    <3>6. 4 \in {0, 4} /\ 4 # 0
      OBVIOUS
    <3> QED
      BY <2>2, <3>2, <3>3, <3>4, <3>5, <3>6, Zenon DEF l
  <2> QED
    BY <2>1, <2>2
<1>4. PICK u \in {0, 128}, v \in {0, 64} :
          /\ (IF p.login = << >> THEN 0 ELSE LoginFlags(p.login[1])) = u + v
          /\ (u = 128 <=> HasUser(p)) /\ (v = 64 <=> HasPassword(p))
  <2>1. CASE p.login = << >>
    <3>1. ~HasUser(p) /\ ~HasPassword(p)
      BY <2>1, Zenon DEF HasUser, HasPassword
    <3>2. 0 \in {0, 128} /\ 0 \in {0, 64} /\ 0 = 0 + 0 /\ 0 # 128 /\ 0 # 64
      OBVIOUS
    <3> QED
      BY <2>1, <3>1, <3>2, Zenon
  <2>2. CASE p.login # << >>
    <3> DEFINE l == p.login[1]
    <3>1. PICK u \in {0, 128} : u = Flag(l.username # << >>, 128) /\ (u = 128 <=> l.username # << >>)
      BY DEF Flag
    <3>2. PICK v \in {0, 64} : v = Flag(l.password # << >>, 64) /\ (v = 64 <=> l.password # << >>)
      BY DEF Flag
    <3>3. LoginFlags(l) = u + v
      BY <3>1, <3>2, Zenon DEF LoginFlags
    <3>4. (u = 128 <=> HasUser(p)) /\ (v = 64 <=> HasPassword(p))
      BY <2>2, <3>1, <3>2, Zenon DEF HasUser, HasPassword
    <3>5. (IF p.login = << >> THEN 0 ELSE LoginFlags(p.login[1])) = LoginFlags(l)
      BY <2>2, Zenon
    <3>6. (IF p.login = << >> THEN 0 ELSE LoginFlags(p.login[1])) = u + v
      BY <3>3, <3>5
    <3> HIDE DEF l
    <3> QED
      BY <3>4, <3>6
  <2> QED
    BY <2>1, <2>2
<1>5. x = c + (w + 8 * q + r) + (u + v)
  BY <1>2, <1>3, <1>4, Zenon DEF ConnectFlags
<1>6. /\ (x \div 2) % 2 = 1 <=> c = 2
      /\ (x \div 4) % 2 = 1 <=> w = 4
      /\ (x \div 8) % 4 = q
      /\ w = 0 => (x \div 8) % 8 = 0
      /\ (x \div 32) % 2 = 1 <=> r = 32
      /\ (x \div 128) % 2 = 1 <=> u = 128
      /\ (x \div 64) % 2 = 1 <=> v = 64
  <2>1. c \in {0, 2} /\ w \in {0, 4} /\ q \in 0..2 /\ r \in {0, 32} /\ u \in {0, 128} /\ v \in {0, 64}
    OBVIOUS
  <2>2. w = 0 => q = 0 /\ r = 0
    BY <1>3
  <2> QED
    BY ONLY <1>5, <2>1, <2>2, FlagBits
<1>7. /\ Bit(x, 2) <=> p.clean_session
      /\ Bit(x, 4) <=> HasWill(p)
      /\ Bit(x, 128) <=> HasUser(p)
      /\ Bit(x, 64) <=> HasPassword(p)
      /\ HasWill(p) => (Bit(x, 32) <=> p.last_will[1].retain)
  BY <1>2, <1>3, <1>4, <1>6, Zenon DEF Bit
<1>8. \A k : Bit(x, k) \in BOOLEAN
  BY DEF Bit
<1>9. HasWill(p) \in BOOLEAN /\ HasUser(p) \in BOOLEAN /\ HasPassword(p) \in BOOLEAN
  BY DEF HasWill, HasUser, HasPassword
<1>10. HasWill(p) => p.last_will[1].retain \in BOOLEAN
  <2>1. HasWill(p) => p.last_will[1] \in WillSet
    BY <1>1, OptionalFirst DEF HasWill
  <2> QED
    BY <2>1 DEF WillSet
<1>11. w # 4 => w = 0
  OBVIOUS
<1>12. /\ Bit(x, 2) = p.clean_session /\ Bit(x, 4) = HasWill(p)
       /\ Bit(x, 128) = HasUser(p) /\ Bit(x, 64) = HasPassword(p)
  BY <1>1, <1>7, <1>8, <1>9
<1>13. HasWill(p) => Bit(x, 32) = p.last_will[1].retain
  BY <1>7, <1>8, <1>10
<1> QED
  BY <1>3, <1>6, <1>11, <1>12, <1>13, Zenon

-----------------------------------------------------------------------------
(* The strings of a Connect whose length fits in two bytes. *)
ShortConnect(p) ==
    /\ Len(p.client_id) <= MaxWord
    /\ p.last_will # << >> =>
          Len(p.last_will[1].topic) <= MaxWord /\ Len(p.last_will[1].message) <= MaxWord
    /\ p.login # << >> =>
          Len(p.login[1].username) <= MaxWord /\ Len(p.login[1].password) <= MaxWord

(* The last will is read back. *)
LEMMA WillReads ==
    ASSUME NEW p \in PacketSet, p.type = "Connect", ShortConnect(p),
           NEW b \in Seq(Byte), NEW from, At(b, from, WillBytes(p)),
           NEW x, x = ConnectFlags(p)
    PROVE  \E v : /\ Fields(b, from, WillFields(x)) = Run(from + Len(WillBytes(p)), v)
                  /\ WillOf(x, v) = p.last_will
<1>1. p.last_will \in Optional(WillSet)
  BY ConnectFields
<1>2. Bit(x, 4) = HasWill(p)
  BY ConnectBits
<1>3. CASE p.last_will = << >>
  <2>1. ~HasWill(p)
    BY <1>3 DEF HasWill
  <2>2. PICK e : e = << >>
    OBVIOUS
  <2>3. e \in Seq(Byte) /\ Len(e) = 0 /\ WillBytes(p) = e
    BY <1>3, <2>2 DEF WillBytes
  <2>4. WillFields(x) = << >>
    BY <1>2, <2>1, Zenon DEF WillFields
  <2>5. from \in 0..Len(b) /\ from \in Nat
    BY <2>3, AtPlace, Zenon
  <2>6. Fields(b, from, << >>) = Run(from, << >>)
    BY <2>5, NoFields, Zenon
  <2>7. from + Len(WillBytes(p)) = from
    BY <2>3, <2>5
  <2>8. WillOf(x, << >>) = p.last_will
    BY <1>3, Zenon DEF WillOf
  <2> QED
    BY <2>4, <2>6, <2>7, <2>8, Zenon
<1>4. CASE p.last_will # << >>
  <2> DEFINE w == p.last_will[1]
  <2>1. w \in WillSet /\ p.last_will = <<w>>
    BY <1>1, <1>4, OptionalFirst
  <2>2. WillBytes(p) = MqttBytes(w.topic) \o MqttBytes(w.message)
    BY <1>4, Zenon DEF WillBytes
  <2>3. Len(w.topic) <= MaxWord /\ Len(w.message) <= MaxWord
    BY <1>4, Zenon DEF ShortConnect
  <2>4. HasWill(p)
    BY <1>4 DEF HasWill
  <2>5. (x \div 8) % 4 = w.qos /\ Bit(x, 32) = w.retain
    BY <2>4, ConnectBits
  <2> HIDE DEF w
  <2>6. /\ w.topic \in Text /\ w.message \in Seq(Byte)
        /\ w = [topic |-> w.topic, message |-> w.message, qos |-> w.qos, retain |-> w.retain]
    BY <2>1 DEF WillSet
  <2>7. /\ "string" \in FieldKinds /\ Fits("string", w.topic) /\ Encoded("string", w.topic) = MqttBytes(w.topic)
        /\ "bytes" \in FieldKinds /\ Fits("bytes", w.message) /\ Encoded("bytes", w.message) = MqttBytes(w.message)
    BY <2>3, <2>6, FitsAs, EncodedAs, Zenon
  <2> DEFINE s == Encoded("string", w.topic)
             t == Encoded("bytes", w.message)
  <2>8. s \in Seq(Byte) /\ t \in Seq(Byte)
    BY <2>7, EncodedTyped, Zenon
  <2>9. WillBytes(p) = s \o t
    BY <2>2, <2>7, Zenon
  <2>10. At(b, from, s \o t)
    BY <2>9, Zenon
  <2>11. Fields(b, from, <<"string", "bytes">>) = Run((from + Len(s)) + Len(t), <<w.topic, w.message>>)
    BY <2>7, <2>10, TwoFields
  <2> HIDE DEF s, t
  <2>12. (from + Len(s)) + Len(t) = from + Len(WillBytes(p))
    <3>1. from \in Nat
      BY <2>10, Zenon DEF At
    <3>2. PICK i \in Nat, j \in Nat : i = Len(s) /\ j = Len(t)
      BY <2>8
    <3>3. (from + i) + j = from + (i + j)
      BY <3>1
    <3>4. Len(s \o t) = Len(s) + Len(t)
      BY <2>8, ConcatTyped, Zenon
    <3> QED
      BY <2>9, <3>2, <3>3, <3>4, Zenon
  <2>13. WillFields(x) = <<"string", "bytes">>
    BY <1>2, <2>4, Zenon DEF WillFields
  <2> DEFINE v == <<w.topic, w.message>>
  <2>14. v # << >> /\ v[1] = w.topic /\ v[2] = w.message
    OBVIOUS
  <2> HIDE DEF v
  <2>15. WillOf(x, v) = <<w>>
    BY <2>5, <2>6, <2>14, Zenon DEF WillOf
  <2> QED
    BY <2>1, <2>11, <2>12, <2>13, <2>15, Zenon DEF v
<1> QED
  BY <1>3, <1>4

(* What a login is read as. *)
NormalLogin(p) == IF p.login # << >> /\ LoginLen(p.login[1]) = 0 THEN << >> ELSE p.login

(* A login of which both fields are empty leaves no trace in the flags. *)
LEMMA LoginNormal ==
    ASSUME NEW p \in PacketSet, p.type = "Connect"
    PROVE  NormalLogin(p) =
              IF HasUser(p) \/ HasPassword(p) THEN p.login ELSE << >>
<1>1. p.login \in Optional(LoginSet)
  BY ConnectFields
<1>2. CASE p.login = << >>
  BY <1>2, Zenon DEF NormalLogin, HasUser, HasPassword
<1>3. CASE p.login # << >>
  <2> DEFINE l == p.login[1]
  <2>1. l \in LoginSet
    BY <1>1, <1>3, OptionalFirst
  <2>2. (HasUser(p) <=> l.username # << >>) /\ (HasPassword(p) <=> l.password # << >>)
    BY <1>3, Zenon DEF HasUser, HasPassword
  <2>3. NormalLogin(p) = IF LoginLen(l) = 0 THEN << >> ELSE p.login
    BY <1>3, Zenon DEF NormalLogin
  <2> HIDE DEF l
  <2>4. l.username \in Seq(Byte) /\ l.password \in Seq(Byte)
    <3>1. l.username \in Text /\ l.password \in Seq(Byte)
      BY <2>1 DEF LoginSet
    <3> QED
      BY <3>1, TextIsBytes
  <2>5. LoginLen(l) = 0 <=> l.username = << >> /\ l.password = << >>
    <3>1. PICK i \in Nat, j \in Nat : i = Len(l.username) /\ j = Len(l.password)
      BY <2>4
    <3>2. LoginLen(l) = (IF l.username = << >> THEN 0 ELSE 2 + i) + (IF l.password = << >> THEN 0 ELSE 2 + j)
      BY <3>1, Zenon DEF LoginLen
    <3>3. ASSUME NEW u \in BOOLEAN, NEW v \in BOOLEAN
          PROVE  (IF u THEN 0 ELSE 2 + i) + (IF v THEN 0 ELSE 2 + j) = 0 <=> u /\ v
      OBVIOUS
    <3>4. (l.username = << >>) \in BOOLEAN /\ (l.password = << >>) \in BOOLEAN
      OBVIOUS
    <3> QED
      BY <3>2, <3>3, <3>4, Zenon
  <2> QED
    BY <2>2, <2>3, <2>5, Zenon
<1> QED
  BY <1>2, <1>3

-----------------------------------------------------------------------------
(* The login is read back, unless nothing of it was written. *)
LEMMA LoginReads ==
    ASSUME NEW p \in PacketSet, p.type = "Connect", ShortConnect(p),
           NEW b \in Seq(Byte), NEW from, At(b, from, LoginBytes(p)),
           NEW x, x = ConnectFlags(p)
    PROVE  \E next, v : /\ Fields(b, from, LoginFields(x)) = Run(next, v)
                        /\ LoginOf(x, v) = NormalLogin(p)
<1>1. p.login \in Optional(LoginSet)
  BY ConnectFields
<1>2. Bit(x, 128) = HasUser(p) /\ Bit(x, 64) = HasPassword(p)
  BY ConnectBits
<1> DEFINE l == p.login[1]
           u == l.username
           w == l.password
<1>3. p.login # << >> =>
         /\ u \in Text /\ w \in Seq(Byte) /\ Len(u) <= MaxWord /\ Len(w) <= MaxWord
         /\ p.login = <<[username |-> u, password |-> w]>>
         /\ LoginBytes(p) = OptionBytes(u) \o OptionBytes(w)
  <2> SUFFICES ASSUME p.login # << >>
               PROVE  /\ u \in Text /\ w \in Seq(Byte) /\ Len(u) <= MaxWord /\ Len(w) <= MaxWord
                      /\ p.login = <<[username |-> u, password |-> w]>>
                      /\ LoginBytes(p) = OptionBytes(u) \o OptionBytes(w)
    OBVIOUS
  <2>1. l \in LoginSet /\ p.login = <<l>>
    BY <1>1, OptionalFirst
  <2>2. Len(u) <= MaxWord /\ Len(w) <= MaxWord
    BY Zenon DEF ShortConnect
  <2>3. LoginBytes(p) = OptionBytes(u) \o OptionBytes(w)
    BY Zenon DEF LoginBytes
  <2> HIDE DEF l
  <2>4. u \in Text /\ w \in Seq(Byte) /\ l = [username |-> u, password |-> w]
    BY <2>1 DEF LoginSet
  <2> QED
    BY <2>1, <2>2, <2>3, <2>4, Zenon
<1>4. (HasUser(p) <=> p.login # << >> /\ u # << >>) /\ (HasPassword(p) <=> p.login # << >> /\ w # << >>)
  BY Zenon DEF HasUser, HasPassword
<1> HIDE DEF l, u, w
<1>5. PICK e : e = << >>
  OBVIOUS
<1>6. e \in Seq(Byte) /\ Len(e) = 0 /\ OptionBytes(e) = e /\ \A s \in Seq(Byte) : s \o e = s /\ e \o s = s
  BY <1>5, ConcatEmptySeq DEF OptionBytes
<1>7. CASE ~HasUser(p) /\ ~HasPassword(p)
  <2>1. LoginFields(x) = << >>
    <3>1. LoginFields(x) = << >> \o << >>
      BY <1>2, <1>7, ZenonT(60) DEF LoginFields
    <3> QED
      BY <1>5, <1>6, <3>1, Zenon
  <2>2. LoginBytes(p) = e
    <3>1. CASE p.login = << >>
      BY <1>5, <3>1, Zenon DEF LoginBytes
    <3>2. CASE p.login # << >>
      BY <1>3, <1>4, <1>5, <1>6, <1>7, <3>2, Zenon
    <3> QED
      BY <3>1, <3>2
  <2>3. from \in 0..Len(b)
    BY <1>6, <2>2, AtPlace, Zenon
  <2>4. Fields(b, from, << >>) = Run(from, << >>)
    BY <2>3, NoFields, Zenon
  <2>5. NormalLogin(p) = << >>
    BY <1>7, LoginNormal, Zenon
  <2>6. LoginOf(x, << >>) = << >>
    BY <1>2, <1>7, ZenonT(60) DEF LoginOf
  <2> QED
    BY <2>1, <2>4, <2>5, <2>6, Zenon
<1>8. CASE HasUser(p) /\ ~HasPassword(p)
  <2>1. p.login # << >> /\ u # << >> /\ w = << >>
    BY <1>4, <1>8
  <2>2. LoginFields(x) = <<"string">>
    <3>1. LoginFields(x) = <<"string">> \o << >>
      BY <1>2, <1>8, Zenon DEF LoginFields
    <3>2. <<"string">> \o << >> = <<"string">>
      OBVIOUS
    <3> QED
      BY <3>1, <3>2, Zenon
  <2>3. "string" \in FieldKinds /\ Fits("string", u) /\ Encoded("string", u) = MqttBytes(u)
    BY <1>3, <2>1, FitsAs, EncodedAs, Zenon
  <2>4. LoginBytes(p) = Encoded("string", u)
    <3>1. OptionBytes(u) = Encoded("string", u)
      BY <2>1, <2>3, Zenon DEF OptionBytes
    <3>2. Encoded("string", u) \in Seq(Byte)
      BY <2>3, EncodedTyped, Zenon
    <3> QED
      BY <1>3, <1>5, <1>6, <2>1, <3>1, <3>2, Zenon
  <2>5. At(b, from, Encoded("string", u))
    BY <2>4, Zenon
  <2>6. Fields(b, from, <<"string">>) = Run(from + Len(Encoded("string", u)), <<u>>)
    BY <2>3, <2>5, OneField
  <2>7. <<u>>[1] = u
    OBVIOUS
  <2>8. LoginOf(x, <<u>>) = <<[username |-> u, password |-> << >>]>>
    BY <1>2, <1>8, <2>1, <2>7, Zenon DEF LoginOf
  <2>9. NormalLogin(p) = <<[username |-> u, password |-> << >>]>>
    BY <1>3, <1>8, <2>1, LoginNormal, Zenon
  <2> QED
    BY <2>2, <2>6, <2>8, <2>9, Zenon
<1>9. CASE ~HasUser(p) /\ HasPassword(p)
  <2>1. p.login # << >> /\ u = << >> /\ w # << >>
    BY <1>4, <1>9
  <2>2. LoginFields(x) = <<"bytes">>
    <3>1. LoginFields(x) = << >> \o <<"bytes">>
      BY <1>2, <1>9, Zenon DEF LoginFields
    <3>2. << >> \o <<"bytes">> = <<"bytes">>
      OBVIOUS
    <3> QED
      BY <3>1, <3>2, Zenon
  <2>3. "bytes" \in FieldKinds /\ Fits("bytes", w) /\ Encoded("bytes", w) = MqttBytes(w)
    BY <1>3, <2>1, FitsAs, EncodedAs, Zenon
  <2>4. LoginBytes(p) = Encoded("bytes", w)
    <3>1. OptionBytes(w) = Encoded("bytes", w)
      BY <2>1, <2>3, Zenon DEF OptionBytes
    <3>2. Encoded("bytes", w) \in Seq(Byte)
      BY <2>3, EncodedTyped, Zenon
    <3> QED
      BY <1>3, <1>5, <1>6, <2>1, <3>1, <3>2, Zenon
  <2>5. At(b, from, Encoded("bytes", w))
    BY <2>4, Zenon
  <2>6. Fields(b, from, <<"bytes">>) = Run(from + Len(Encoded("bytes", w)), <<w>>)
    BY <2>3, <2>5, OneField
  <2>7. <<w>>[Len(<<w>>)] = w
    OBVIOUS
  <2>8. LoginOf(x, <<w>>) = <<[username |-> << >>, password |-> w]>>
    BY <1>2, <1>9, <2>1, <2>7, ZenonT(60) DEF LoginOf
  <2>9. NormalLogin(p) = <<[username |-> << >>, password |-> w]>>
    BY <1>3, <1>9, <2>1, LoginNormal, Zenon
  <2> QED
    BY <2>2, <2>6, <2>8, <2>9, Zenon
<1>10. CASE HasUser(p) /\ HasPassword(p)
  <2>1. p.login # << >> /\ u # << >> /\ w # << >>
    BY <1>4, <1>10
  <2>2. LoginFields(x) = <<"string", "bytes">>
    <3>1. LoginFields(x) = <<"string">> \o <<"bytes">>
      BY <1>2, <1>10, Zenon DEF LoginFields
    <3>2. <<"string">> \o <<"bytes">> = <<"string", "bytes">>
      <4>1. "string" \in FieldKinds /\ "bytes" \in FieldKinds
        BY EncodedAs, Zenon
      <4> QED
        BY <4>1, PairOf, Zenon
    <3> QED
      BY <3>1, <3>2, Zenon
  <2>3. /\ "string" \in FieldKinds /\ Fits("string", u) /\ Encoded("string", u) = MqttBytes(u)
        /\ "bytes" \in FieldKinds /\ Fits("bytes", w) /\ Encoded("bytes", w) = MqttBytes(w)
    BY <1>3, <2>1, FitsAs, EncodedAs, Zenon
  <2>4. LoginBytes(p) = Encoded("string", u) \o Encoded("bytes", w)
    <3>1. OptionBytes(u) = Encoded("string", u) /\ OptionBytes(w) = Encoded("bytes", w)
      BY <2>1, <2>3, Zenon DEF OptionBytes
    <3> QED
      BY <1>3, <2>1, <3>1, Zenon
  <2>5. At(b, from, Encoded("string", u) \o Encoded("bytes", w))
    BY <2>4, Zenon
  <2>6. Fields(b, from, <<"string", "bytes">>) =
            Run((from + Len(Encoded("string", u))) + Len(Encoded("bytes", w)), <<u, w>>)
    BY <2>3, <2>5, TwoFields
  <2>7. <<u, w>>[1] = u /\ <<u, w>>[Len(<<u, w>>)] = w
    OBVIOUS
  <2>8. LoginOf(x, <<u, w>>) = <<[username |-> u, password |-> w]>>
    BY <1>2, <1>10, <2>1, <2>7, Zenon DEF LoginOf
  <2>9. NormalLogin(p) = <<[username |-> u, password |-> w]>>
    BY <1>3, <1>10, <2>1, LoginNormal, Zenon
  <2> QED
    BY <2>2, <2>6, <2>8, <2>9, Zenon
<1>11. HasUser(p) \in BOOLEAN /\ HasPassword(p) \in BOOLEAN
  BY DEF HasUser, HasPassword
<1> QED
  BY <1>7, <1>8, <1>9, <1>10, <1>11

-----------------------------------------------------------------------------
(* Two parts that are one behind the other. *)
LEMMA AtJoin ==
    ASSUME NEW b \in Seq(Byte), NEW from, NEW s \in Seq(Byte), NEW t \in Seq(Byte),
           At(b, from, s), At(b, from + Len(s), t)
    PROVE  At(b, from, s \o t)
<1> DEFINE u == s \o t
<1>1. /\ Len(u) = Len(s) + Len(t)
      /\ \A i \in 1..Len(s) : u[i] = s[i]
      /\ \A i \in 1..Len(t) : u[Len(s) + i] = t[i]
  BY ConcatPlaces, Zenon
<1> HIDE DEF u
<1>2. /\ from \in Nat
      /\ (from + Len(s)) + Len(t) <= Len(b)
      /\ \A i \in 1..Len(s) : b[from + i] = s[i]
      /\ \A i \in 1..Len(t) : b[(from + Len(s)) + i] = t[i]
  BY Zenon DEF At
<1>3. Len(s) \in Nat /\ Len(t) \in Nat /\ Len(b) \in Nat
  OBVIOUS
<1>4. from + Len(u) <= Len(b)
  BY <1>1, <1>2, <1>3
<1>5. ASSUME NEW i \in 1..Len(u)
      PROVE  b[from + i] = u[i]
  <2>1. CASE i <= Len(s)
    <3>1. i \in 1..Len(s)
      BY <1>1, <1>3, <2>1
    <3> QED
      BY <1>1, <1>2, <3>1
  <2>2. CASE ~(i <= Len(s))
    <3>1. PICK j \in 1..Len(t) : i = Len(s) + j
      <4>1. i - Len(s) \in 1..Len(t) /\ i = Len(s) + (i - Len(s))
        BY <1>1, <1>3, <2>2
      <4> QED
        BY <4>1
    <3>2. from + i = (from + Len(s)) + j
      BY <1>2, <1>3, <3>1
    <3> QED
      BY <1>1, <1>2, <3>1, <3>2, Zenon
  <2> QED
    BY <2>1, <2>2
<1> QED
  BY <1>2, <1>4, <1>5, Zenon DEF At, u

(* The name of the protocol is a short string. *)
LEMMA MqttIsText ==
    MQTT \in Text /\ MQTT \in Seq(Byte) /\ Len(MQTT) = 4 /\ Len(MQTT) <= MaxWord
<1>1. MQTT \in Seq(Byte) /\ Len(MQTT) = 4
  BY DEF MQTT, Byte
<1>2. IsUtf8(MQTT)
  BY DEF MQTT, IsUtf8
<1>3. 4 <= MaxWord
  BY DEF MaxWord
<1> QED
  BY <1>1, <1>2, <1>3 DEF Text

(* Where the parts of a Connect are. *)
LEMMA ConnectPlaces ==
    ASSUME NEW p \in PacketSet, p.type = "Connect", NEW b \in Seq(Byte), NEW h, At(b, h, ConnectBody(p))
    PROVE  \E n2, n5, n6 :
              /\ At(b, h, MqttBytes(MQTT) \o <<p.protocol>>)
              /\ n2 = (h + Len(MqttBytes(MQTT))) + Len(<<p.protocol>>)
              /\ At(b, n2, <<ConnectFlags(p)>> \o (U16(p.keep_alive) \o MqttBytes(p.client_id)))
              /\ n5 = ((n2 + Len(<<ConnectFlags(p)>>)) + Len(U16(p.keep_alive))) + Len(MqttBytes(p.client_id))
              /\ At(b, n5, WillBytes(p))
              /\ n6 = n5 + Len(WillBytes(p))
              /\ At(b, n6, LoginBytes(p))
<1> DEFINE m == MqttBytes(MQTT)
           v == <<p.protocol>>
           f == <<ConnectFlags(p)>>
           k == U16(p.keep_alive)
           c == MqttBytes(p.client_id)
           w == WillBytes(p)
           l == LoginBytes(p)
           y5 == w \o l
           y4 == c \o y5
           y3 == k \o y4
           y2 == f \o y3
           y1 == v \o y2
           n1 == h + Len(m)
           n2 == n1 + Len(v)
           n3 == n2 + Len(f)
           n4 == n3 + Len(k)
           n5 == n4 + Len(c)
           n6 == n5 + Len(w)
<1>1. m \in Seq(Byte) /\ v \in Seq(Byte) /\ f \in Seq(Byte) /\ k \in Seq(Byte) /\ c \in Seq(Byte)
  <2>1. ConnectFlags(p) \in Byte
    BY ConnectFlagsTyped, Zenon
  <2>2. p.keep_alive \in Word16 /\ p.client_id \in Text
    BY ConnectFields
  <2>3. p.keep_alive \in Nat /\ p.client_id \in Seq(Byte)
    BY <2>2, WordFits, TextIsBytes, Zenon
  <2>4. p.protocol \in Byte
    BY LevelTyped
  <2>5. f \in Seq(Byte) /\ v \in Seq(Byte)
    BY <2>1, <2>4
  <2> QED
    BY <2>3, <2>5, MqttIsText, MqttBytesTyped, CastLength, Zenon
<1>2. w \in Seq(Byte) /\ l \in Seq(Byte)
  BY WillWritten, LoginWritten, Zenon
<1>3. ConnectBody(p) = m \o y1
  BY Zenon DEF ConnectBody
<1> HIDE DEF m, v, f, k, c, w, l
<1>4. y5 \in Seq(Byte)
  BY <1>2, ConcatTyped, Zenon
<1> HIDE DEF y5
<1>5. y4 \in Seq(Byte)
  BY <1>1, <1>4, ConcatTyped, Zenon
<1> HIDE DEF y4
<1>6. y3 \in Seq(Byte)
  BY <1>1, <1>5, ConcatTyped, Zenon
<1> HIDE DEF y3
<1>7. y2 \in Seq(Byte)
  BY <1>1, <1>6, ConcatTyped, Zenon
<1> HIDE DEF y2
<1>8. y1 \in Seq(Byte)
  BY <1>1, <1>7, ConcatTyped, Zenon
<1> HIDE DEF y1
<1>9. At(b, h, m) /\ At(b, n1, y1)
  BY <1>1, <1>3, <1>8, AtBoth, Zenon
<1> HIDE DEF n1
<1>10. At(b, n1, v) /\ At(b, n2, y2)
  BY <1>1, <1>7, <1>9, AtBoth, Zenon DEF y1
<1> HIDE DEF n2
<1>11. At(b, n2, f) /\ At(b, n3, y3)
  BY <1>1, <1>6, <1>10, AtBoth, Zenon DEF y2
<1> HIDE DEF n3
<1>12. At(b, n3, k) /\ At(b, n4, y4)
  BY <1>1, <1>5, <1>11, AtBoth, Zenon DEF y3
<1> HIDE DEF n4
<1>13. At(b, n4, c) /\ At(b, n5, y5)
  BY <1>1, <1>4, <1>12, AtBoth, Zenon DEF y4
<1> HIDE DEF n5
<1>14. At(b, n5, w) /\ At(b, n6, l)
  BY <1>2, <1>13, AtBoth, Zenon DEF y5
<1> HIDE DEF n6
<1>15. At(b, h, m \o v)
  BY <1>1, <1>9, <1>10, AtJoin, Zenon DEF n1
<1>16. k \o c \in Seq(Byte) /\ At(b, n3, k \o c)
  BY <1>1, <1>12, <1>13, AtJoin, ConcatTyped, Zenon DEF n4
<1>17. At(b, n2, f \o (k \o c))
  BY <1>1, <1>11, <1>16, AtJoin, Zenon DEF n3
<1>18. /\ n2 = (h + Len(m)) + Len(v)
       /\ n5 = ((n2 + Len(f)) + Len(k)) + Len(c)
       /\ n6 = n5 + Len(w)
  BY Zenon DEF n1, n2, n3, n4, n5, n6
<1> QED
  BY <1>14, <1>15, <1>17, <1>18, Zenon DEF m, v, f, k, c, w, l

(* The name and the level of the protocol are read first. *)
LEMMA LevelReads ==
    ASSUME NEW p \in PacketSet, p.type = "Connect", NEW b \in Seq(Byte), NEW h,
           At(b, h, MqttBytes(MQTT) \o <<p.protocol>>)
    PROVE  Fields(b, h, <<"string", "u8">>) =
              Run((h + Len(MqttBytes(MQTT))) + Len(<<p.protocol>>), <<MQTT, p.protocol>>)
<1>1. PICK level, name : level = p.protocol /\ name = MQTT
  OBVIOUS
<1>2. level \in Byte
  BY <1>1, LevelTyped, Zenon
<1>3. /\ "string" \in FieldKinds /\ Fits("string", MQTT) /\ Encoded("string", MQTT) = MqttBytes(MQTT)
      /\ "u8" \in FieldKinds /\ Fits("u8", level) /\ Encoded("u8", level) = <<level>>
  BY <1>2, MqttIsText, FitsAs, EncodedAs, Zenon
<1>4. /\ "string" \in FieldKinds /\ Fits("string", name) /\ "u8" \in FieldKinds /\ Fits("u8", level)
      /\ At(b, h, Encoded("string", name) \o Encoded("u8", level))
  BY <1>1, <1>3, Zenon
<1>5. Fields(b, h, <<"string", "u8">>) =
          Run((h + Len(Encoded("string", name))) + Len(Encoded("u8", level)), <<name, level>>)
  BY ONLY b \in Seq(Byte), <1>4, TwoFields
<1> QED
  BY <1>1, <1>3, <1>5, Zenon

(* A Connect of another level is refused. *)
LEMMA LevelRefused ==
    ASSUME NEW p \in PacketSet, p.type = "Connect", p.protocol = 5, NEW b \in Seq(Byte), NEW h,
           At(b, h, MqttBytes(MQTT) \o <<p.protocol>>)
    PROVE  ReadConnect(b, h).error # "none"
<1>1. PICK next : Fields(b, h, <<"string", "u8">>) = Run(next, <<MQTT, p.protocol>>)
  BY LevelReads, Zenon
<1>2. PICK proto : proto = Run(next, <<MQTT, p.protocol>>)
  OBVIOUS
<1>3. ReadConnect(b, h) = ReadProtocol(b, proto)
  BY <1>1, <1>2, Zenon DEF ReadConnect
<1>4. proto.error = "none" /\ proto.values = <<MQTT, p.protocol>>
  BY <1>2 DEF Run
<1>5. proto.values[1] = MQTT /\ proto.values[2] # 4
  BY <1>4
<1>6. MQTT = <<77, 81, 84, 84>>
  BY DEF MQTT
<1>7. ReadProtocol(b, proto) = Err("InvalidProtocolLevel")
  BY <1>4, <1>5, <1>6, Zenon DEF ReadProtocol
<1>8. Err("InvalidProtocolLevel").error # "none"
  BY DEF Err
<1> QED
  BY <1>3, <1>7, <1>8, Zenon

(* A Connect is read field by field. *)
LEMMA ConnectReads ==
    ASSUME NEW p \in PacketSet, p.type = "Connect", p.protocol = 4, ShortConnect(p),
           NEW b \in Seq(Byte), NEW h, At(b, h, ConnectBody(p))
    PROVE  ReadConnect(b, h) = Packet(Normal(p))
<1>1. PICK n2, n5, n6 :
              /\ At(b, h, MqttBytes(MQTT) \o <<p.protocol>>)
              /\ n2 = (h + Len(MqttBytes(MQTT))) + Len(<<p.protocol>>)
              /\ At(b, n2, <<ConnectFlags(p)>> \o (U16(p.keep_alive) \o MqttBytes(p.client_id)))
              /\ n5 = ((n2 + Len(<<ConnectFlags(p)>>)) + Len(U16(p.keep_alive))) + Len(MqttBytes(p.client_id))
              /\ At(b, n5, WillBytes(p))
              /\ n6 = n5 + Len(WillBytes(p))
              /\ At(b, n6, LoginBytes(p))
  BY ConnectPlaces, Zenon
<1>2. /\ p.keep_alive \in Word16 /\ p.client_id \in Text
      /\ p = [type |-> "Connect", protocol |-> 4, keep_alive |-> p.keep_alive,
              client_id |-> p.client_id, clean_session |-> p.clean_session,
              last_will |-> p.last_will, login |-> p.login]
  BY ConnectFields
<1>3. Len(p.client_id) <= MaxWord
  BY Zenon DEF ShortConnect
<1>4. PICK x : x = ConnectFlags(p)
  OBVIOUS
<1>5. x \in Byte
  BY <1>4, ConnectFlagsTyped, Zenon
<1> DEFINE proto == Fields(b, h, <<"string", "u8">>)
           rest == Fields(b, n2, <<"u8", "u16", "string">>)
<1>6. proto = Run(n2, <<MQTT, p.protocol>>)
  BY <1>1, LevelReads, Zenon
<1>7. rest = Run(n5, <<x, p.keep_alive, p.client_id>>)
  <2>1. p.keep_alive \in 0..MaxWord
    BY <1>2, WordFits, Zenon
  <2>2. /\ "u8" \in FieldKinds /\ Fits("u8", x) /\ Encoded("u8", x) = <<x>>
        /\ "u16" \in FieldKinds /\ Fits("u16", p.keep_alive) /\ Encoded("u16", p.keep_alive) = U16(p.keep_alive)
        /\ "string" \in FieldKinds /\ Fits("string", p.client_id)
        /\ Encoded("string", p.client_id) = MqttBytes(p.client_id)
    BY <1>2, <1>3, <1>5, <2>1, FitsAs, EncodedAs, Zenon
  <2>3. At(b, n2, Encoded("u8", x) \o (Encoded("u16", p.keep_alive) \o Encoded("string", p.client_id)))
    BY <1>1, <1>4, <2>2, Zenon
  <2>4. rest = Run(((n2 + Len(Encoded("u8", x))) + Len(Encoded("u16", p.keep_alive)))
                     + Len(Encoded("string", p.client_id)), <<x, p.keep_alive, p.client_id>>)
    BY ONLY b \in Seq(Byte), <2>2, <2>3, ThreeFields
  <2> QED
    BY <1>1, <1>4, <2>2, <2>4, Zenon
<1>8. PICK wv : Fields(b, n5, WillFields(x)) = Run(n6, wv) /\ WillOf(x, wv) = p.last_will
  <2>1. \E wv : /\ Fields(b, n5, WillFields(x)) = Run(n5 + Len(WillBytes(p)), wv)
                /\ WillOf(x, wv) = p.last_will
    BY <1>1, <1>4, WillReads, SMTT(60)
  <2> QED
    BY <1>1, <2>1, Zenon
<1>9. PICK next, lv : Fields(b, n6, LoginFields(x)) = Run(next, lv) /\ LoginOf(x, lv) = NormalLogin(p)
  BY <1>1, <1>4, LoginReads
<1> DEFINE will == Fields(b, n5, WillFields(x))
           login == Fields(b, n6, LoginFields(x))
<1>10. /\ proto.error = "none" /\ proto.next = n2 /\ proto.values[1] = MQTT /\ proto.values[2] = 4
       /\ rest.error = "none" /\ rest.next = n5
       /\ rest.values[1] = x /\ rest.values[2] = p.keep_alive /\ rest.values[3] = p.client_id
       /\ will.error = "none" /\ will.next = n6 /\ will.values = wv
       /\ login.error = "none" /\ login.values = lv
  <2>1. \A n, vs : Run(n, vs).error = "none" /\ Run(n, vs).next = n /\ Run(n, vs).values = vs
    BY DEF Run
  <2>3. will = Run(n6, wv) /\ login = Run(next, lv)
    BY <1>8, <1>9
  <2> HIDE DEF proto, rest, will, login
  <2>2. /\ proto.error = "none" /\ proto.next = n2 /\ proto.values = <<MQTT, p.protocol>>
        /\ rest.error = "none" /\ rest.next = n5 /\ rest.values = <<x, p.keep_alive, p.client_id>>
        /\ will.error = "none" /\ will.next = n6 /\ will.values = wv
        /\ login.error = "none" /\ login.values = lv
    BY ONLY <1>6, <1>7, <2>1, <2>3, Zenon
  <2> QED
    BY <2>2
<1> HIDE DEF proto, rest, will, login
<1>11. ReadConnect(b, h) = ReadWill(b, rest)
  <2>1. ReadConnect(b, h) = ReadProtocol(b, proto)
    BY Zenon DEF ReadConnect, proto
  <2>2. MQTT = <<77, 81, 84, 84>>
    BY DEF MQTT
  <2>3. ReadProtocol(b, proto) = ReadWill(b, Fields(b, proto.next, <<"u8", "u16", "string">>))
    BY <1>10, <2>2, Zenon DEF ReadProtocol
  <2> QED
    BY <1>10, <2>1, <2>3, Zenon DEF rest
<1>12. /\ Bit(x, 2) = p.clean_session
       /\ ~(~Bit(x, 4) /\ (x \div 8) % 8 # 0)
       /\ ~(Bit(x, 4) /\ (x \div 8) % 4 > 2)
  <2>1. /\ Bit(x, 2) = p.clean_session /\ Bit(x, 4) = HasWill(p)
        /\ HasWill(p) => (x \div 8) % 4 = p.last_will[1].qos
        /\ ~HasWill(p) => (x \div 8) % 8 = 0
    BY <1>4, ConnectBits
  <2>2. HasWill(p) => p.last_will[1].qos \in 0..2
    <3>1. p.last_will \in Optional(WillSet)
      BY ConnectFields
    <3>2. HasWill(p) => p.last_will[1] \in WillSet
      BY <3>1, OptionalFirst DEF HasWill
    <3> QED
      BY <3>2 DEF WillSet
  <2>3. \A q \in 0..2 : ~(q > 2)
    OBVIOUS
  <2>4. HasWill(p) \in BOOLEAN
    BY DEF HasWill
  <2> QED
    BY <2>1, <2>2, <2>3, <2>4, Zenon
<1>13. ReadWill(b, rest) = ReadLogin(b, x, rest, will)
  BY <1>10, <1>12, Zenon DEF ReadWill, will
<1>14. ReadLogin(b, x, rest, will) = ConnectOf(x, rest, will, login)
  BY <1>10, <1>12, Zenon DEF ReadLogin, login
<1>15. ConnectOf(x, rest, will, login) =
          Packet([type |-> "Connect", protocol |-> 4, keep_alive |-> p.keep_alive,
                  client_id |-> p.client_id, clean_session |-> p.clean_session,
                  last_will |-> p.last_will, login |-> NormalLogin(p)])
  BY <1>8, <1>9, <1>10, <1>12, Zenon DEF ConnectOf
<1>16. Normal(p) = [type |-> "Connect", protocol |-> 4, keep_alive |-> p.keep_alive,
                    client_id |-> p.client_id, clean_session |-> p.clean_session,
                    last_will |-> p.last_will, login |-> NormalLogin(p)]
  <2>1. Normal(p) = IF p.login # << >> /\ LoginLen(p.login[1]) = 0
                    THEN [p EXCEPT !.login = << >>] ELSE p
    BY DEF Normal
  <2>2. CASE p.login # << >> /\ LoginLen(p.login[1]) = 0
    <3>1. NormalLogin(p) = << >> /\ Normal(p) = [p EXCEPT !.login = << >>]
      BY <2>1, <2>2, Zenon DEF NormalLogin
    <3>2. [p EXCEPT !.login = << >>] =
            [type |-> "Connect", protocol |-> 4, keep_alive |-> p.keep_alive,
             client_id |-> p.client_id, clean_session |-> p.clean_session,
             last_will |-> p.last_will, login |-> << >>]
      BY ONLY <1>2
    <3> QED
      BY <3>1, <3>2, Zenon
  <2>3. CASE ~(p.login # << >> /\ LoginLen(p.login[1]) = 0)
    <3>1. NormalLogin(p) = p.login /\ Normal(p) = p
      BY <2>1, <2>3, Zenon DEF NormalLogin
    <3> QED
      BY <1>2, <3>1, Zenon
  <2> QED
    BY <2>2, <2>3
<1> QED
  BY <1>11, <1>13, <1>14, <1>15, <1>16, Zenon

-----------------------------------------------------------------------------
(* The reader of a connect packet, like that of a subscription. *)
LEMMA ConnectReached ==
    ASSUME NEW byte1, byte1 = 16, NEW n \in Nat, n # 0, NEW b, NEW h
    PROVE  ReadExact(byte1, n, b, h) = ReadConnect(b, h)
<1>1. PacketTypes[1] = "Connect" /\ "Connect" \notin Bodiless
  BY TypeNames DEF Bodiless
<1>2. PICK code \in 1..14 : code = 1
  OBVIOUS
<1>3. PICK type : type = "Connect"
  OBVIOUS
<1>4. byte1 \div 16 = code
  BY <1>2
<1>5. PacketTypes[code] = type /\ type \notin Bodiless
  BY <1>1, <1>2, <1>3, Zenon
<1>6. ReadExact(byte1, n, b, h) = ReaderOf(type, byte1, n, b, h)
  BY ONLY n \in Nat, n # 0, code \in 1..14, <1>4, <1>5, HandedOn
<1>7. ReaderOf("Connect", byte1, n, b, h) = ReadConnect(b, h)
  BY DEF ReaderOf
<1> QED
  BY <1>3, <1>6, <1>7, Zenon

(* What is made of a Connect that was written. *)
ConnectWell(p, r) == IF p.protocol = 5 THEN r.error # "none" ELSE r = Packet(Normal(p))

(* A connect packet is read as it was written. *)
LEMMA ConnectRead ==
    ASSUME NEW p \in PacketSet, p.type = "Connect", ShortConnect(p),
           NEW b1, b1 = 16, NEW n \in Nat, n <= MaxRemaining,
           ConnectBody(p) \in Seq(Byte), Len(ConnectBody(p)) = n
    PROVE  ConnectWell(p, ExactOf(FrameBytes(b1, n, ConnectBody(p))))
<1> DEFINE body == ConnectBody(p)
           f == FrameBytes(b1, n, body)
           h == 1 + LengthBytes(n)
<1>1. b1 \in Byte
  BY DEF Byte
<1>2. /\ f \in Seq(Byte) /\ At(f, h, body) /\ h + n = Len(f) /\ ExactOf(f) = ReadExact(b1, n, f, h)
  BY <1>1, FrameReads
<1> HIDE DEF f, h
<1>3. At(f, h, MqttBytes(MQTT) \o <<p.protocol>>)
  BY <1>2, ConnectPlaces
<1>4. n # 0
  <2>1. MqttBytes(MQTT) \in Seq(Byte)
    BY MqttIsText, MqttBytesTyped
  <2>2. <<p.protocol>> \in Seq(Byte) /\ Len(<<p.protocol>>) = 1
    <3>1. p.protocol \in Byte
      BY LevelTyped
    <3> QED
      BY <3>1
  <2>3. PICK m \in Nat : m = Len(MqttBytes(MQTT))
    BY <2>1
  <2>4. Len(MqttBytes(MQTT) \o <<p.protocol>>) = m + 1
    BY <2>1, <2>2, <2>3, ConcatTyped
  <2>5. h \in Nat /\ h + (m + 1) <= Len(f)
    BY <1>3, <2>4 DEF At
  <2> QED
    BY <1>2, <2>5
<1>5. ReadExact(b1, n, f, h) = ReadConnect(f, h)
  BY <1>4, ConnectReached
<1>6. p.protocol = 5 => ReadConnect(f, h).error # "none"
  BY <1>2, <1>3, LevelRefused, Zenon
<1>7. p.protocol # 5 => ReadConnect(f, h) = Packet(Normal(p))
  <2>1. p.protocol # 5 => p.protocol = 4
    BY LevelTyped
  <2> QED
    BY <1>2, <2>1, ConnectReads, Zenon
<1> QED
  BY <1>2, <1>5, <1>6, <1>7, Zenon DEF f, ConnectWell

(* A Connect that was written is read. *)
LEMMA ConnectWritten ==
    ASSUME NEW cap \in Nat, NEW p \in PacketSet, p.type = "Connect", ShortConnect(p),
           NEW w \in Writes(p, cap), w.error = "none"
    PROVE  ConnectWell(p, ExactOf(w.bytes))
<1>1. Writes(p, cap) = {WriteConnectPacket(p, cap)}
  BY DomainsOfBytes1 DEF Writes, AckTypes
<1>2. w = WriteConnectPacket(p, cap)
  BY <1>1
<1>3. PICK b1 : b1 = 16
  OBVIOUS
<1>4. PICK n : n = ConnectLen(p)
  OBVIOUS
<1>5. /\ ConnectBody(p) \in Seq(Byte) /\ Len(ConnectBody(p)) = n
      /\ n \in Nat /\ n <= MaxRemaining
      /\ w.bytes = FrameBytes(b1, n, ConnectBody(p))
  BY <1>2, <1>3, <1>4, ConnectFrame
<1>6. ConnectWell(p, ExactOf(FrameBytes(b1, n, ConnectBody(p))))
  BY ONLY p \in PacketSet, p.type = "Connect", ShortConnect(p), <1>3, <1>5, ConnectRead
<1> QED
  BY <1>5, <1>6, Zenon

(***************************************************************************)
(* The strings of a packet fit their 16-bit length.                        *)
(***************************************************************************)
ShortFields(p) ==
    CASE p.type = "Connect"     -> ShortConnect(p)
      [] p.type = "Publish"     -> Len(p.topic) <= MaxWord
      [] p.type = "Subscribe"   -> \A i \in DOMAIN p.filters : Len(p.filters[i].path) <= MaxWord
      [] p.type = "Unsubscribe" -> \A i \in DOMAIN p.topics : Len(p.topics[i]) <= MaxWord
      [] OTHER                  -> TRUE

(* The other types are read just as they were. *)
LEMMA NormalOthers ==
    ASSUME NEW p, p.type # "Publish", p.type # "Connect"
    PROVE  Normal(p) = p
BY DEF Normal

(* The reader refuses no other type. *)
LEMMA ReadableOthers ==
    ASSUME NEW p, p.type # "Subscribe", p.type # "SubAck", p.type # "Connect"
    PROVE  ~Unreadable(p)
BY DEF Unreadable

WrittenWell(p, bytes) ==
    IF Unreadable(p) THEN ExactOf(bytes).error # "none" ELSE ExactOf(bytes) = Packet(Normal(p))

(* A packet of such a type is read as it was. *)
LEMMA PlainWell ==
    ASSUME NEW p, NEW bytes, p.type # "Publish", p.type # "Connect", p.type # "Subscribe",
           p.type # "SubAck", ExactOf(bytes) = Packet(p)
    PROVE  WrittenWell(p, bytes)
BY NormalOthers, ReadableOthers, Zenon DEF WrittenWell

(* Whatever packet was written, whichever way: it is read from the bytes. *)
LEMMA WrittenReads ==
    ASSUME NEW cap \in Nat, NEW p \in PacketSet, ShortFields(p),
           NEW w \in Writes(p, cap), w.error = "none"
    PROVE  WrittenWell(p, w.bytes)
<1>1. CASE p.type = "Connect"
  <2>1. ShortConnect(p)
    BY <1>1 DEF ShortFields
  <2>2. ConnectWell(p, ExactOf(w.bytes))
    BY <1>1, <2>1, ConnectWritten
  <2>3. Unreadable(p) <=> p.protocol = 5
    BY <1>1 DEF Unreadable
  <2> QED
    BY <2>2, <2>3, Zenon DEF WrittenWell, ConnectWell
<1>2. CASE p.type = "Publish"
  <2>1. Len(p.topic) <= MaxWord
    BY <1>2 DEF ShortFields
  <2>2. ExactOf(w.bytes) = Packet(Normal(p))
    BY <1>2, <2>1, PublishWritten
  <2>3. ~Unreadable(p)
    BY <1>2, ReadableOthers
  <2> QED
    BY <2>2, <2>3, Zenon DEF WrittenWell
<1>3. CASE p.type = "Subscribe"
  <2>1. \A i \in DOMAIN p.filters : Len(p.filters[i].path) <= MaxWord
    BY <1>3 DEF ShortFields
  <2>2. IF p.filters = << >> THEN ExactOf(w.bytes).error # "none" ELSE ExactOf(w.bytes) = Packet(p)
    BY <1>3, <2>1, SubscribeWritten, Zenon
  <2>3. Unreadable(p) <=> p.filters = << >>
    BY <1>3 DEF Unreadable
  <2>4. Normal(p) = p
    BY <1>3, NormalOthers
  <2> QED
    BY <2>2, <2>3, <2>4, Zenon DEF WrittenWell
<1>4. CASE p.type = "Unsubscribe"
  <2>1. \A i \in DOMAIN p.topics : Len(p.topics[i]) <= MaxWord
    BY <1>4 DEF ShortFields
  <2>2. ExactOf(w.bytes) = Packet(p)
    BY <1>4, <2>1, UnsubscribeWritten, Zenon
  <2> QED
    BY <1>4, <2>2, PlainWell
<1>5. CASE p.type = "SubAck"
  <2>0. Writes(p, cap) = {WriteSubAck(p, cap)}
    BY <1>5, DomainsOfBytes1 DEF Writes, AckTypes
  <2>1. w = WriteSubAck(p, cap)
    BY <2>0
  <2>2. PICK b1 : b1 = 144
    OBVIOUS
  <2>3. /\ 2 + Len(p.codes) <= MaxRemaining
        /\ w.bytes = FrameBytes(b1, 2 + Len(p.codes), SubAckBody(p))
    BY <1>5, <2>1, <2>2, SubAckFrame
  <2>4. LET r == ExactOf(FrameBytes(b1, 2 + Len(p.codes), SubAckBody(p)))
        IN  IF p.codes = << >> THEN r.error # "none" ELSE r = Packet(p)
    BY ONLY p \in PacketSet, <1>5, <2>2, <2>3, SubAckRead
  <2>5. IF p.codes = << >> THEN ExactOf(w.bytes).error # "none" ELSE ExactOf(w.bytes) = Packet(p)
    BY <2>3, <2>4, Zenon
  <2>6. Unreadable(p) <=> p.codes = << >>
    BY <1>5 DEF Unreadable
  <2>7. Normal(p) = p
    BY <1>5, NormalOthers
  <2> QED
    BY <2>5, <2>6, <2>7, Zenon DEF WrittenWell
<1>6. CASE p.type = "ConnAck"
  <2>0. Writes(p, cap) = {WriteConnAck(p, cap)}
    BY <1>6, DomainsOfBytes1 DEF Writes, AckTypes
  <2>1. w = WriteConnAck(p, cap)
    BY <2>0
  <2>2. PICK b1 : b1 = 32
    OBVIOUS
  <2>3. w.bytes = FrameBytes(b1, 2, ConnAckBody(p))
    BY <1>6, <2>1, <2>2, ConnAckFrame
  <2>4. ExactOf(w.bytes) = Packet(p)
    BY ONLY p \in PacketSet, <1>6, <2>2, <2>3, ConnAckRead
  <2> QED
    BY <1>6, <2>4, PlainWell
<1>7. CASE p.type \in AckTypes
  <2>0. Writes(p, cap) = {WriteAck(p, cap)}
    BY <1>7, DomainsOfBytes1 DEF Writes, AckTypes
  <2>1. w = WriteAck(p, cap)
    BY <2>0
  <2>2. w.bytes = FrameBytes(AckByte1[p.type], 2, U16(p.pkid))
    BY <1>7, <2>1, AckFrame
  <2>3. ExactOf(w.bytes) = Packet(p)
    BY <1>7, <2>2, AckRead
  <2>4. p.type # "Publish" /\ p.type # "Connect" /\ p.type # "Subscribe" /\ p.type # "SubAck"
    BY <1>7, DomainsOfBytes1 DEF AckTypes
  <2> QED
    BY <2>3, <2>4, PlainWell
<1>8. CASE p.type \in {"PingReq", "PingResp", "Disconnect"}
  <2>0. Writes(p, cap) = {WriteEmpty(p, cap)}
    BY <1>8, DomainsOfBytes1 DEF Writes, AckTypes
  <2>1. w = WriteEmpty(p, cap)
    BY <2>0
  <2>2. w.bytes = FrameBytes(EmptyByte1[p.type], 0, << >>)
    BY <1>8, <2>1, EmptyFrame
  <2>3. ExactOf(w.bytes) = Packet(p)
    BY <1>8, <2>2, EmptyRead
  <2>4. p.type # "Publish" /\ p.type # "Connect" /\ p.type # "Subscribe" /\ p.type # "SubAck"
    BY <1>8
  <2> QED
    BY <2>3, <2>4, PlainWell
<1> QED
  BY <1>1, <1>2, <1>3, <1>4, <1>5, <1>6, <1>7, <1>8, TypesOfPackets

-----------------------------------------------------------------------------
(* What was sent of a packet is a frame it is read from. *)
SentWell(e) ==
    \A j \in DOMAIN e.packet :
       ParseFixedHeader(e.frame).error = "none" /\ WrittenWell(e.packet[j], e.frame)

ReadWell(e, p) == \A j \in DOMAIN e.packet : p = Normal(e.packet[j])

FailedWell(e) == \A j \in DOMAIN e.packet : Oversized(e.frame) \/ Unreadable(e.packet[j])

BackInv ==
    /\ StreamInv
    /\ \A i \in 1..Len(sent) : SentWell(sent[i])
    /\ \A i \in 1..Len(got) : ReadWell(sent[i], got[i])
    /\ failed # "none" => Len(got) < Len(sent) /\ FailedWell(sent[Len(got) + 1])

(* Its numbers. *)
LEMMA StreamSizes ==
    ASSUME StreamInv
    PROVE  /\ sent \in Seq(SentSet) /\ Len(sent) \in Nat
           /\ Len(got) \in Nat /\ Len(got) <= Len(sent)
           /\ DOMAIN got = 1..Len(got)
<1>1. sent \in Seq(SentSet) /\ GotSeq(got) /\ Len(got) <= Len(sent)
  BY Zenon DEF StreamInv
<1>2. PICK S : got \in Seq(S)
  BY <1>1, Zenon DEF GotSeq
<1> QED
  BY <1>1, <1>2

(* The invariant says what it is for. *)
LEMMA BackGoals == BackInv => ReadsBack
<1> SUFFICES ASSUME BackInv PROVE ReadsBack
  OBVIOUS
<1>1. StreamInv
  BY DEF BackInv
<1>2. Len(got) <= Len(sent) /\ DOMAIN got = 1..Len(got)
  BY <1>1, StreamSizes
<1>3. \A i \in DOMAIN got : \A j \in DOMAIN sent[i].packet : got[i] = Normal(sent[i].packet[j])
  BY <1>2, Zenon DEF BackInv, ReadWell
<1>4. failed # "none" =>
          /\ AtFrame
          /\ \A j \in DOMAIN Current.packet :
                Oversized(Current.frame) \/ Unreadable(Current.packet[j])
  BY Zenon DEF BackInv, FailedWell, AtFrame, Current
<1> QED
  BY <1>2, <1>3, <1>4, Zenon DEF ReadsBack

(* At the start nothing was sent. *)
LEMMA BackInit == Init => BackInv
<1> SUFFICES ASSUME Init PROVE BackInv
  OBVIOUS
<1>1. StreamInv
  BY StreamInit
<1>2. Len(sent) = 0 /\ Len(got) = 0 /\ failed = "none"
  BY DEF Init
<1>3. \A i \in 1..0 : FALSE
  OBVIOUS
<1> QED
  BY <1>1, <1>2, <1>3, Zenon DEF BackInv

(* A frame more is sent. *)
LEMMA TransferBack ==
    ASSUME BackInv, NEW bytes, NEW packet, Transfer(bytes, packet), StreamInv',
           SentWell([frame |-> bytes, packet |-> packet])
    PROVE  BackInv'
<1> DEFINE e == [frame |-> bytes, packet |-> packet]
<1>1. failed' = "none" /\ sent' = Append(sent, e) /\ got' = got
  BY DEF Transfer
<1>2. StreamInv
  BY DEF BackInv
<1>3. /\ sent \in Seq(SentSet) /\ Len(sent) \in Nat /\ Len(got) \in Nat /\ Len(got) <= Len(sent)
  BY <1>2, StreamSizes
<1>4. SentWell(e)
  OBVIOUS
<1> HIDE DEF e
<1>5. /\ Len(sent') = Len(sent) + 1 /\ sent'[Len(sent) + 1] = e
      /\ \A i \in 1..Len(sent) : sent'[i] = sent[i]
  BY <1>1, <1>3
<1>6. ASSUME NEW i \in 1..Len(sent')
      PROVE  SentWell(sent'[i])
  <2>1. i \in 1..Len(sent) \/ i = Len(sent) + 1
    BY <1>3, <1>5
  <2>2. \A k \in 1..Len(sent) : SentWell(sent[k])
    BY Zenon DEF BackInv
  <2> QED
    BY <1>4, <1>5, <2>1, <2>2, Zenon
<1>7. ASSUME NEW i \in 1..Len(got')
      PROVE  ReadWell(sent'[i], got'[i])
  <2>1. i \in 1..Len(sent) /\ i \in 1..Len(got)
    BY <1>1, <1>3
  <2>2. \A k \in 1..Len(got) : ReadWell(sent[k], got[k])
    BY Zenon DEF BackInv
  <2> QED
    BY <1>1, <1>5, <2>1, <2>2, Zenon
<1> QED
  BY <1>1, <1>6, <1>7, Zenon DEF BackInv

(* What the writers made of a packet. *)
LEMMA WrittenIsWell ==
    ASSUME \A p \in Packets : ShortFields(p), NEW w \in Written
    PROVE  SentWell([frame |-> w.bytes, packet |-> <<w.packet>>])
<1>1. PICK p \in Packets, cap \in Capacities :
          w \in {[bytes |-> x.bytes, packet |-> p] : x \in {v \in Writes(p, cap) : v.error = "none"}}
  BY SMT DEF Written
<1>2. PICK v \in Writes(p, cap) : v.error = "none" /\ w = [bytes |-> v.bytes, packet |-> p]
  BY <1>1, Zenon
<1>3. p \in PacketSet /\ cap \in Nat /\ ShortFields(p)
  BY StreamAssumption, Zenon
<1>4. IsFrame(v.bytes)
  BY <1>2, <1>3, LengthsAnnounced, Zenon
<1>5. ParseFixedHeader(v.bytes).error = "none"
  BY <1>4, WrittenIsOneFrame, Zenon
<1>6. WrittenWell(p, v.bytes)
  BY <1>2, <1>3, WrittenReads, Zenon
<1>7. w.bytes = v.bytes /\ w.packet = p
  BY <1>2
<1> DEFINE e == [frame |-> w.bytes, packet |-> <<w.packet>>]
<1>8. e.frame = v.bytes /\ e.packet = <<p>>
  BY <1>7
<1>9. DOMAIN <<p>> = {1} /\ <<p>>[1] = p
  OBVIOUS
<1> HIDE DEF e
<1>10. ASSUME NEW j \in DOMAIN e.packet
       PROVE  e.packet[j] = p
  <2>1. j \in DOMAIN <<p>>
    BY <1>8, Zenon
  <2>2. j = 1
    BY <1>9, <2>1
  <2> QED
    BY <1>8, <1>9, <2>2, Zenon
<1>11. SentWell(e)
  BY <1>5, <1>6, <1>8, <1>10, Zenon DEF SentWell
<1> QED
  BY <1>11 DEF e

(* A foreign frame stands for no packet. *)
LEMMA ForeignIsWell ==
    ASSUME NEW bytes
    PROVE  SentWell([frame |-> bytes, packet |-> << >>])
BY DEF SentWell

(* A packet that is read, and an error, by the frame at the front. *)
LEMMA ReadIsWell ==
    ASSUME NEW f, NEW d, NEW r, ReadsFront(f, d, MaxSize, r),
           NEW p, ParseFixedHeader(f).error = "none", WrittenWell(p, f)
    PROVE  /\ r.error = "none" => r.packet = Normal(p)
           /\ r.error \notin {"none", "NeedMoreData"} => Oversized(f) \/ Unreadable(p)
<1> DEFINE x == ExactOf(f)
<1>1. CASE \E m : r = NeedMoreData(m)
  <2>1. r.error = "NeedMoreData"
    BY <1>1 DEF NeedMoreData
  <2> QED
    BY <2>1
<1>2. CASE ~Within(f, MaxSize) /\ r.error \in {"MalformedRemainingLength", "PayloadSizeLimitExceeded"}
  <2>1. Oversized(f)
    BY <1>2, Zenon DEF Within, Oversized
  <2> QED
    BY <1>2, <2>1
<1>3. CASE r = Taking(x, Len(f))
  <2>1. CASE Unreadable(p)
    <3>1. x.error # "none"
      BY <2>1, Zenon DEF WrittenWell
    <3>2. r.error # "none"
      BY <1>3, <3>1, Zenon DEF Taking
    <3> QED
      BY <2>1, <3>2, Zenon
  <2>2. CASE ~Unreadable(p)
    <3>1. x = Packet(Normal(p))
      BY <2>2, Zenon DEF WrittenWell
    <3>2. Packet(Normal(p)).error = "none" /\ Packet(Normal(p)).packet = Normal(p)
      BY DEF Packet
    <3>3. r = [error |-> "none", packet |-> x.packet, taken |-> Len(f)]
      BY <1>3, <3>1, <3>2, Zenon DEF Taking
    <3>4. r.error = "none" /\ r.packet = x.packet
      BY <3>3
    <3> QED
      BY <3>1, <3>2, <3>4, Zenon
  <2> QED
    BY <2>1, <2>2
<1> QED
  BY <1>1, <1>2, <1>3, Zenon DEF ReadsFront

(* Packet::read: a packet that was written is read, or may be refused. *)
LEMMA ReadBack ==
    ASSUME BackInv, ReadPacket, StreamInv'
    PROVE  BackInv'
<1> DEFINE r == Read(rx, MaxSize)
           e == sent[Len(got) + 1]
<1>1. /\ failed = "none" /\ rx # << >> /\ sent' = sent
      /\ \/ /\ r.error = "none"
            /\ got' = Append(got, r.packet)
            /\ failed' = failed
         \/ /\ r.error = "NeedMoreData"
            /\ UNCHANGED <<got, failed>>
         \/ /\ r.error \notin {"none", "NeedMoreData"}
            /\ got' = got
  BY Zenon DEF ReadPacket
<1>2. StreamInv /\ \A i \in 1..Len(sent) : SentWell(sent[i])
  BY Zenon DEF BackInv
<1>3. /\ sent \in Seq(SentSet) /\ Len(sent) \in Nat /\ Len(got) \in Nat /\ Len(got) <= Len(sent)
      /\ GotSeq(got) /\ rx \in Seq(Byte)
  BY <1>2, StreamSizes DEF StreamInv
<1>4. AtFrame /\ Current.frame \in Seq(Byte) /\ OneFrame(Current.frame) /\ SameBytes(rx, Current.frame)
  BY <1>1, <1>2, ReaderAtFrame, Zenon
<1>5. Current = e /\ Len(got) < Len(sent)
  BY <1>4, Zenon DEF Current, AtFrame
<1>6. ReadsFront(e.frame, rx, MaxSize, r)
  <2>1. MaxSize \in Nat
    BY StreamAssumption, Zenon
  <2>2. e.frame \in Seq(Byte) /\ OneFrame(e.frame) /\ SameBytes(rx, e.frame)
    BY <1>4, <1>5, Zenon
  <2> QED
    BY <1>1, <1>3, <2>1, <2>2, ReadAtFront, Zenon
<1>7. SentWell(e)
  <2>1. Len(got) + 1 \in 1..Len(sent)
    BY <1>3, <1>5
  <2> QED
    BY <1>2, <2>1, Zenon
<1> HIDE DEF r, e
<1>8. ASSUME NEW j \in DOMAIN e.packet
      PROVE  /\ r.error = "none" => r.packet = Normal(e.packet[j])
             /\ r.error \notin {"none", "NeedMoreData"} => Oversized(e.frame) \/ Unreadable(e.packet[j])
  <2>1. ParseFixedHeader(e.frame).error = "none" /\ WrittenWell(e.packet[j], e.frame)
    BY <1>7, Zenon DEF SentWell
  <2> QED
    BY <1>6, <2>1, ReadIsWell, Zenon
<1>9. \A i \in 1..Len(got) : ReadWell(sent[i], got[i])
  BY Zenon DEF BackInv
<1>10. CASE r.error = "none" /\ got' = Append(got, r.packet) /\ failed' = failed
  <2>1. ReadWell(e, r.packet)
    BY <1>8, <1>10, Zenon DEF ReadWell
  <2>2. /\ Len(got') = Len(got) + 1 /\ got'[Len(got) + 1] = r.packet
        /\ \A i \in 1..Len(got) : got'[i] = got[i]
    <3>1. PICK S : got \in Seq(S)
      BY <1>3, Zenon DEF GotSeq
    <3> DEFINE T == S \cup {r.packet}
    <3>2. got \in Seq(T) /\ r.packet \in T
      BY <3>1
    <3> HIDE DEF T
    <3> QED
      BY <1>10, <3>2
  <2>3. ASSUME NEW i \in 1..Len(got')
        PROVE  ReadWell(sent'[i], got'[i])
    <3>1. i \in 1..Len(got) \/ i = Len(got) + 1
      BY <1>3, <2>2
    <3> QED
      BY <1>1, <1>9, <2>1, <2>2, <3>1, Zenon DEF e
  <2>4. failed' = "none" /\ \A i \in 1..Len(sent') : SentWell(sent'[i])
    BY <1>1, <1>2, <1>10, Zenon
  <2> QED
    BY <2>3, <2>4, Zenon DEF BackInv
<1>11. CASE UNCHANGED <<got, failed>>
  <2>1. failed' = "none" /\ got' = got /\ sent' = sent
    BY <1>1, <1>11
  <2> QED
    BY <1>2, <1>9, <2>1, Zenon DEF BackInv
<1>12. CASE r.error \notin {"none", "NeedMoreData"} /\ got' = got
  <2>1. FailedWell(e)
    BY <1>8, <1>12, Zenon DEF FailedWell
  <2>2. Len(got') < Len(sent') /\ sent'[Len(got') + 1] = e
    BY <1>1, <1>5, <1>12, Zenon DEF e
  <2> QED
    BY <1>1, <1>2, <1>9, <1>12, <2>1, <2>2, Zenon DEF BackInv
<1> QED
  BY <1>1, <1>10, <1>11, <1>12

(* Every step keeps the invariant. *)
LEMMA BackStep ==
    ASSUME \A p \in Packets : ShortFields(p)
    PROVE  BackInv /\ [Next]_vars => BackInv'
<1> SUFFICES ASSUME BackInv, [Next]_vars PROVE BackInv'
  OBVIOUS
<1>0. StreamInv'
  BY StreamStep, Zenon DEF BackInv
<1>1. ASSUME NEW w \in Written, Send(w)
      PROVE  BackInv'
  <2>1. Transfer(w.bytes, <<w.packet>>)
    BY <1>1, Zenon DEF Send
  <2> QED
    BY <1>0, <2>1, WrittenIsWell, TransferBack, Zenon
<1>2. ASSUME NEW bytes \in Foreign, SendForeign(bytes)
      PROVE  BackInv'
  <2>1. Transfer(bytes, << >>)
    BY <1>2, Zenon DEF SendForeign
  <2> QED
    BY <1>0, <2>1, ForeignIsWell, TransferBack, Zenon
<1>3. CASE Arrive
  <2>1. sent' = sent /\ got' = got /\ failed' = failed
    BY <1>3 DEF Arrive
  <2> QED
    BY <1>0, <2>1, Zenon DEF BackInv
<1>4. CASE ReadPacket
  BY <1>0, <1>4, ReadBack, Zenon
<1>5. CASE UNCHANGED vars
  <2>1. sent' = sent /\ got' = got /\ failed' = failed
    BY <1>5 DEF vars
  <2> QED
    BY <1>0, <2>1, Zenon DEF BackInv
<1> QED
  BY <1>1, <1>2, <1>3, <1>4, <1>5, Zenon DEF Next

(***************************************************************************)
(* If no string of a packet is longer than its 16-bit length can say, every*)
(* packet that is written is read back with all its fields, whatever way it*)
(* was written, however its bytes arrive and whatever follows them, unless *)
(* its frame exceeds the size limit or it is one the reader refuses.       *)
(***************************************************************************)
THEOREM WrittenIsRead ==
    ASSUME \A p \in Packets : ShortFields(p)
    PROVE  Spec => []ReadsBack
<1>1. BackInv /\ [Next]_vars => BackInv'
  BY BackStep
<1> QED
  BY <1>1, BackInit, BackGoals, PTL DEF Spec

-----------------------------------------------------------------------------
(* What is read as a field of a kind fits that kind. *)
LEMMA NumbersFit ==
    ASSUME NEW b \in Seq(Byte), NEW from \in 0..Len(b)
    PROVE  /\ ReadU8(b, from).error = "none" => ReadU8(b, from).value \in Byte
           /\ ReadU16(b, from).error = "none" =>
                 /\ ReadU16(b, from).value \in 0..MaxWord /\ ReadU16(b, from).value \in Nat
                 /\ ReadU16(b, from).value <= MaxWord
<1>1. Len(b) \in Nat /\ from \in Nat /\ \A i \in 1..Len(b) : b[i] \in Byte
  OBVIOUS
<1>2. ASSUME ReadU8(b, from).error = "none"
      PROVE  ReadU8(b, from).value \in Byte
  <2>1. CASE Len(b) - from < 1
    <3>1. ReadU8(b, from).error = "MalformedPacket"
      BY <2>1 DEF ReadU8, Fixed, Err
    <3> QED
      BY <1>2, <3>1
  <2>2. CASE ~(Len(b) - from < 1)
    <3>1. ReadU8(b, from).value = b[from + 1]
      BY <2>2 DEF ReadU8, Fixed
    <3>2. from + 1 \in 1..Len(b)
      BY ONLY <1>1, <2>2, SMT
    <3> QED
      BY <1>1, <3>1, <3>2, Zenon
  <2> QED
    BY <2>1, <2>2
<1>3. ASSUME ReadU16(b, from).error = "none"
      PROVE  ReadU16(b, from).value \in Nat /\ ReadU16(b, from).value <= MaxWord
  <2>1. CASE Len(b) - from < 2
    <3>1. ReadU16(b, from).error = "MalformedPacket"
      BY <2>1 DEF ReadU16, Fixed, Err
    <3> QED
      BY <1>3, <3>1
  <2>2. CASE ~(Len(b) - from < 2)
    <3>1. ReadU16(b, from).value = Word(b, from + 1)
      BY <2>2, SMT DEF ReadU16, Fixed
    <3>2. from + 1 \in 1..Len(b) /\ from + 1 + 1 \in 1..Len(b)
      BY ONLY <1>1, <2>2, SMT
    <3>3. b[from + 1] \in Byte /\ b[from + 1 + 1] \in Byte
      BY <1>1, <3>2, Zenon
    <3>4. \A x, y \in Byte : 256 * x + y \in Nat /\ 256 * x + y <= MaxWord
      BY ONLY SMTT(30) DEF Byte, MaxWord
    <3>5. 256 * b[from + 1] + b[from + 1 + 1] \in Nat /\ 256 * b[from + 1] + b[from + 1 + 1] <= MaxWord
      BY <3>3, <3>4, Zenon
    <3> QED
      BY <3>1, <3>5, Zenon DEF Word
  <2> QED
    BY <2>1, <2>2
<1>4. \A x \in Nat : x <= MaxWord => x \in 0..MaxWord
  BY ONLY MaxWordIsNat, SMT
<1> QED
  BY <1>2, <1>3, <1>4, Zenon

(* A byte string that was read fits its length prefix. *)
LEMMA BytesFit ==
    ASSUME NEW b \in Seq(Byte), NEW from \in 0..Len(b), ReadBytes(b, from).error = "none"
    PROVE  ReadBytes(b, from).value \in Seq(Byte) /\ Len(ReadBytes(b, from).value) <= MaxWord
<1> DEFINE l == ReadU16(b, from)
<1>1. /\ l \in FieldSet(from + 1, Len(b))
      /\ l.error = "none" => l.value \in Nat /\ l.value <= MaxWord
  BY NumbersTyped, NumbersFit, Zenon
<1>2. ReadBytes(b, from) = Prefixed(b, l)
  BY DEF ReadBytes
<1>3. ReadBytes(b, from).value \in Seq(Byte)
  BY BytesTyped, Zenon
<1> HIDE DEF l
<1>4. l.error = "none"
  <2> SUFFICES ASSUME l.error # "none"
               PROVE  FALSE
    OBVIOUS
  <2>1. Prefixed(b, l) = l
    BY DEF Prefixed
  <2> QED
    BY <1>2, <2>1
<1>5. l.value \in Nat /\ l.next \in (from + 1)..Len(b) /\ l.value <= MaxWord
  BY <1>1, <1>4 DEF FieldSet, FieldErrors
<1>6. ~(l.value > Len(b) - l.next)
  <2> SUFFICES ASSUME l.value > Len(b) - l.next
               PROVE  FALSE
    OBVIOUS
  <2>1. Prefixed(b, l) = [error |-> "MalformedPacket"]
    BY <1>4 DEF Prefixed, Err
  <2> QED
    BY <1>2, <2>1
<1> DEFINE v == SubSeq(b, l.next + 1, l.next + l.value)
<1>7. Prefixed(b, l) = [error |-> "none", next |-> l.next + l.value, value |-> v]
  BY <1>4, <1>6, Zenon DEF Prefixed
<1>8. Prefixed(b, l).value = v
  <2> HIDE DEF v
  <2> QED
    BY <1>7
<1>9. Len(v) = l.value
  BY <1>5, <1>6
<1> HIDE DEF v
<1> QED
  BY <1>2, <1>3, <1>5, <1>8, <1>9, Zenon

(* A field that was read is of its kind. *)
LEMMA FieldFits ==
    ASSUME NEW b \in Seq(Byte), NEW from \in 0..Len(b), NEW kind \in FieldKinds,
           Field(b, from, kind).error = "none"
    PROVE  Fits(kind, Field(b, from, kind).value)
<1>1. CASE kind = "u8"
  <2>1. Field(b, from, kind) = ReadU8(b, from)
    BY <1>1 DEF Field
  <2> QED
    BY <1>1, <2>1, NumbersFit DEF Fits
<1>2. CASE kind = "u16"
  <2>1. Field(b, from, kind) = ReadU16(b, from)
    BY <1>2 DEF Field
  <2> QED
    BY <1>2, <2>1, NumbersFit DEF Fits
<1>3. CASE kind = "bytes"
  <2>1. Field(b, from, kind) = ReadBytes(b, from)
    BY <1>3 DEF Field
  <2> QED
    BY <1>3, <2>1, BytesFit DEF Fits
<1>4. CASE kind = "string"
  <2>1. Field(b, from, kind) = ReadString(b, from)
    BY <1>4 DEF Field
  <2> DEFINE s == ReadBytes(b, from)
  <2>2. Utf8Only(s).error = "none"
    BY <2>1, Zenon DEF ReadString
  <2> HIDE DEF s
  <2>3. s.error = "none" /\ IsUtf8(s.value) /\ Utf8Only(s) = s
    BY <2>2 DEF Utf8Only, Err
  <2>4. s.value \in Seq(Byte) /\ Len(s.value) <= MaxWord
    BY <2>3, BytesFit, Zenon DEF s
  <2>5. s.value \in Text /\ Field(b, from, kind) = s
    BY <2>1, <2>3, <2>4, Zenon DEF Text, ReadString, s
  <2> QED
    BY <1>4, <2>4, <2>5 DEF Fits
<1>5. CASE kind = "qos"
  <2>1. Field(b, from, kind) = ReadQoS(b, from)
    BY <1>5 DEF Field
  <2> DEFINE q == ReadU8(b, from)
  <2>2. QoSOnly(q).error = "none"
    BY <2>1, Zenon DEF ReadQoS
  <2> HIDE DEF q
  <2>3. q.error = "none" /\ ~(q.value > 2) /\ QoSOnly(q) = q
    BY <2>2 DEF QoSOnly, Err
  <2>4. q.value \in Byte
    BY <2>3, NumbersFit, Zenon DEF q
  <2>5. q.value \in 0..2
    <3>1. \A x \in Byte : ~(x > 2) => x \in 0..2
      BY ONLY SMT DEF Byte
    <3> QED
      BY <2>3, <2>4, <3>1, Zenon
  <2>6. Field(b, from, kind) = q
    BY <2>1, <2>3, Zenon DEF ReadQoS, q
  <2> QED
    BY <1>5, <2>5, <2>6 DEF Fits
<1> QED
  BY <1>1, <1>2, <1>3, <1>4, <1>5 DEF FieldKinds

(* The fields that were read, each of its kind. *)
Filled(kinds, values) ==
    /\ values \in Seq(ValueSet)
    /\ Len(values) = Len(kinds)
    /\ \A i \in 1..Len(kinds) : Fits(kinds[i], values[i])

(* So are all fields of a list, by induction on the kinds. *)
LEMMA FieldsFit ==
    ASSUME NEW b \in Seq(Byte), NEW from \in 0..Len(b), NEW kinds \in Seq(FieldKinds),
           Fields(b, from, kinds).error = "none"
    PROVE  Filled(kinds, Fields(b, from, kinds).values)
<1>1. PICK acc \in [0..Len(kinds) -> RunSet(from, Len(b))] :
          /\ acc[0] = [error |-> "none", next |-> from, values |-> << >>]
          /\ acc[Len(kinds)] = Fields(b, from, kinds)
          /\ \A i \in 1..Len(kinds) : acc[i] = NextField(b, acc[i - 1], kinds[i])
  BY FieldRuns, Zenon
<1> DEFINE n == Len(kinds)
           Done(i, v) == Len(v) = i /\ \A j \in 1..i : Fits(kinds[j], v[j])
           P == {i \in Nat : i <= n => (acc[i].error = "none" => Done(i, acc[i].values))}
<1>2. n \in Nat /\ \A i \in 1..n : kinds[i] \in FieldKinds
  OBVIOUS
<1> HIDE DEF n
<1>3. 0 \in P
  <2>1. acc[0].values = << >>
    BY <1>1
  <2>2. Done(0, << >>)
    OBVIOUS
  <2> HIDE DEF Done
  <2> QED
    BY <2>1, <2>2
<1>4. ASSUME NEW i \in 1..n, i - 1 \in P
      PROVE  i \in P
  <2>0. /\ i \in Nat /\ i - 1 \in Nat /\ i - 1 \in 0..n /\ i - 1 <= n /\ i \in 0..n
        /\ i - 1 + 1 = i
    BY <1>2
  <2>1. SUFFICES ASSUME acc[i].error = "none"
                 PROVE  Done(i, acc[i].values)
    <3> HIDE DEF Done
    <3> QED
      BY <2>0
  <2> DEFINE r == acc[i - 1]
             f == Field(b, r.next, kinds[i])
  <2>2. acc[i] = NextField(b, r, kinds[i])
    BY <1>1, Zenon DEF n
  <2>3. r \in RunSet(from, Len(b))
    BY <1>1, <2>0, Zenon DEF n
  <2> HIDE DEF r
  <2>4. r.error = "none"
    <3> SUFFICES ASSUME r.error # "none"
                 PROVE  FALSE
      OBVIOUS
    <3>1. acc[i] = r
      BY <2>2, Zenon DEF NextField
    <3> QED
      BY <2>1, <3>1, Zenon
  <2>5. r.next \in 0..Len(b) /\ r.values \in Seq(ValueSet)
    <3>1. r.next \in from..Len(b) /\ r.values \in Seq(ValueSet)
      BY <2>3, <2>4 DEF RunSet, FieldErrors
    <3> QED
      BY <3>1
  <2>6. acc[i] = Extended(r, f)
    BY <2>2, <2>4, Zenon DEF NextField
  <2>7. f \in FieldSet(r.next + 1, Len(b)) /\ (f.error = "none" => Fits(kinds[i], f.value))
    <3>1. kinds[i] \in FieldKinds
      BY <1>2, Zenon
    <3> QED
      BY <2>5, <3>1, FieldTyped, FieldFits, Zenon
  <2> HIDE DEF f
  <2>8. f.error = "none"
    <3> SUFFICES ASSUME f.error # "none"
                 PROVE  FALSE
      OBVIOUS
    <3>1. acc[i] = f
      BY <2>6, Zenon DEF Extended
    <3> QED
      BY <2>1, <3>1, Zenon
  <2> DEFINE v == Append(r.values, f.value)
  <2>9. acc[i].values = v
    <3>1. acc[i] = [r EXCEPT !.next = f.next, !.values = Append(r.values, f.value)]
      BY <2>6, <2>8 DEF Extended
    <3>2. r \in [error : {"none"}, next : from..Len(b), values : Seq(ValueSet)]
      BY <2>3, <2>4 DEF RunSet, FieldErrors
    <3> QED
      BY <3>1, <3>2
  <2>10. Done(i - 1, r.values)
    <3>1. i - 1 \in P /\ i - 1 <= n
      BY <1>4, <2>0
    <3> HIDE DEF Done
    <3> QED
      BY <2>4, <3>1 DEF r
  <2>11. f.value \in ValueSet
    BY <2>7, <2>8 DEF FieldSet, FieldErrors
  <2>12. Len(v) = i /\ v[i] = f.value /\ \A j \in 1..(i - 1) : v[j] = r.values[j]
    BY <2>0, <2>5, <2>10, <2>11
  <2> HIDE DEF v
  <2>13. ASSUME NEW j \in 1..i
         PROVE  Fits(kinds[j], v[j])
    <3>1. CASE j = i
      BY <2>7, <2>8, <2>12, <3>1, Zenon
    <3>2. CASE j # i
      <4>1. j \in 1..(i - 1)
        BY <2>0, <3>2
      <4> QED
        BY <2>10, <2>12, <4>1, Zenon
    <3> QED
      BY <3>1, <3>2
  <2> QED
    BY <2>9, <2>12, <2>13, Zenon
<1>5. \A i \in 0..n : i \in P
  <2>1. P \in SUBSET Nat
    OBVIOUS
  <2> HIDE DEF P
  <2> QED
    BY <1>2, <1>3, <1>4, <2>1, UpTo
<1>6. Done(n, acc[n].values) /\ acc[n].values \in Seq(ValueSet)
  <2>1. n \in P /\ n \in 0..n /\ acc[n].error = "none" /\ acc[n] \in RunSet(from, Len(b))
    BY <1>1, <1>2, <1>5 DEF n
  <2>2. Done(n, acc[n].values)
    <3> HIDE DEF Done
    <3> QED
      BY <1>2, <2>1
  <2>3. acc[n].values \in Seq(ValueSet)
    BY <2>1 DEF RunSet, FieldErrors
  <2> QED
    BY <2>2, <2>3
<1> QED
  BY <1>1, <1>6, Zenon DEF Filled, n

-----------------------------------------------------------------------------
(* The groups of fields that were read, each of its kinds. *)
ItemsFilled(kinds, items) == \A i \in 1..Len(items) : Filled(kinds, items[i])

(* One group in front of the groups behind it. *)
LEMMA GroupFits ==
    ASSUME NEW b \in Seq(Byte), NEW kinds \in Seq(FieldKinds), kinds # << >>,
           NEW i \in 0..Len(b), NEW group,
           \A j \in (i + 1)..Len(b) : group[j] \in GroupSet /\ ItemsFilled(kinds, group[j].items)
    PROVE  ItemsFilled(kinds, Grouped(group, i, Fields(b, i, kinds)).items)
<1> DEFINE g == Fields(b, i, kinds)
<1>1. g \in RunSet(i + 1, Len(b))
  BY FieldsTyped, Zenon
<1>2. g.error = "none" => Filled(kinds, g.values)
  BY FieldsFit, Zenon
<1> HIDE DEF g
<1>3. CASE g.error # "none"
  <2>1. Grouped(group, i, g).items = << >>
    BY <1>3 DEF Grouped
  <2>2. ItemsFilled(kinds, << >>)
    BY DEF ItemsFilled
  <2> QED
    BY <2>1, <2>2, Zenon DEF g
<1>4. CASE g.error = "none"
  <2>1. g.next \in (i + 1)..Len(b) /\ g.values \in Seq(ValueSet)
    BY <1>1, <1>4 DEF RunSet, FieldErrors
  <2> DEFINE q == group[g.next]
             v == <<g.values>> \o q.items
  <2>2. q \in GroupSet /\ ItemsFilled(kinds, q.items)
    BY <2>1, Zenon
  <2>3. Grouped(group, i, g) = [q EXCEPT !.items = v]
    BY <1>4, Zenon DEF Grouped
  <2>4. q.items \in Seq(Seq(ValueSet))
    BY <2>2 DEF GroupSet
  <2>5. /\ Len(v) = Len(q.items) + 1 /\ v[1] = g.values
        /\ \A k \in 1..Len(q.items) : v[k + 1] = q.items[k]
    <3> HIDE DEF q
    <3> QED
      BY <2>1, <2>4
  <2> HIDE DEF q, v
  <2>6. Grouped(group, i, g).items = v
    BY <2>2, <2>3 DEF GroupSet
  <2>7. ASSUME NEW k \in 1..Len(v)
        PROVE  Filled(kinds, v[k])
    <3>1. CASE k = 1
      BY <1>2, <1>4, <2>5, <3>1, Zenon
    <3>2. CASE k # 1
      <4>1. k - 1 \in 1..Len(q.items) /\ (k - 1) + 1 = k
        BY <2>4, <2>5, <3>2
      <4>2. v[k] = q.items[k - 1]
        BY <2>5, <4>1
      <4> QED
        BY <2>2, <4>1, <4>2, Zenon DEF ItemsFilled
    <3> QED
      BY <3>1, <3>2
  <2> QED
    BY <2>6, <2>7, Zenon DEF ItemsFilled, g
<1> QED
  BY <1>3, <1>4

(* All groups, by induction from the end of the bytes. *)
LEMMA GroupsFit ==
    ASSUME NEW b \in Seq(Byte), NEW kinds \in Seq(FieldKinds), kinds # << >>,
           NEW from \in 0..Len(b)
    PROVE  ItemsFilled(kinds, Groups(b, from, kinds).items)
<1>1. PICK group : group = (CHOOSE t : GroupTable(b, from, kinds, t))
  OBVIOUS
<1>2. GroupTable(b, from, kinds, group)
  BY <1>1, GroupTableExists, Zenon
<1>3. Groups(b, from, kinds) = group[from]
  BY <1>1, Zenon DEF Groups, GroupTable
<1>4. \A i \in from..Len(b) : group[i] = Grouped(group, i, Fields(b, i, kinds))
  BY <1>2, Zenon DEF GroupTable
<1> DEFINE m == Len(b) - from
           Fit(i) == group[i] \in GroupSet /\ ItemsFilled(kinds, group[i].items)
           P == {n \in Nat : n <= m => \A i \in (Len(b) - n)..Len(b) : Fit(i)}
<1>0. m \in Nat /\ Len(b) \in Nat
  OBVIOUS
<1>5. ASSUME NEW i \in from..Len(b), \A j \in (i + 1)..Len(b) : Fit(j)
      PROVE  Fit(i)
  <2>1. i \in 0..Len(b)
    BY <1>0
  <2> QED
    BY <1>4, <1>5, <2>1, GroupTyped, GroupFits, ZenonT(30)
<1>6. 0 \in P
  <2>1. Len(b) \in from..Len(b) /\ \A j \in (Len(b) + 1)..Len(b) : FALSE
    BY <1>0
  <2>2. Fit(Len(b))
    <3> HIDE DEF Fit
    <3> QED
      BY <1>5, <2>1, Zenon
  <2>3. \A i \in (Len(b) - 0)..Len(b) : i = Len(b)
    BY <1>0
  <2> HIDE DEF Fit
  <2> QED
    BY <2>2, <2>3
<1>7. ASSUME NEW n \in 1..m, n - 1 \in P
      PROVE  n \in P
  <2> DEFINE c == Len(b) - n
  <2>1. n - 1 <= m /\ n \in Nat /\ c \in from..Len(b) /\ c + 1 = Len(b) - (n - 1)
    BY <1>0
  <2>2. \A j \in (c + 1)..Len(b) : Fit(j)
    <3> HIDE DEF Fit
    <3> QED
      BY <1>7, <2>1
  <2>3. Fit(c)
    <3> HIDE DEF c, Fit
    <3> QED
      BY <1>5, <2>1, <2>2, Zenon
  <2>4. \A i \in c..Len(b) : i = c \/ i \in (c + 1)..Len(b)
    BY <2>1
  <2>5. \A i \in c..Len(b) : Fit(i)
    <3> HIDE DEF Fit, c
    <3> QED
      BY <2>2, <2>3, <2>4, Zenon
  <2> HIDE DEF Fit
  <2> QED
    BY <2>1, <2>5
<1>8. m \in P
  <2>1. P \in SUBSET Nat
    OBVIOUS
  <2> HIDE DEF P
  <2>2. \A i \in 0..m : i \in P
    BY <1>0, <1>6, <1>7, <2>1, UpTo
  <2> QED
    BY <1>0, <2>2
<1>9. Fit(from)
  <2>1. from \in (Len(b) - m)..Len(b)
    BY <1>0
  <2> HIDE DEF Fit
  <2> QED
    BY <1>0, <1>8, <2>1
<1> QED
  BY <1>3, <1>9, Zenon

-----------------------------------------------------------------------------
(* What it means for a value to be of a kind. *)
LEMMA FitsMeans ==
    ASSUME NEW v
    PROVE  /\ Fits("u8", v) => v \in Byte
           /\ Fits("u16", v) => v \in Word16
           /\ Fits("bytes", v) => v \in Seq(Byte) /\ Len(v) <= MaxWord
           /\ Fits("string", v) => v \in Text /\ Len(v) <= MaxWord
           /\ Fits("qos", v) => v \in 0..2
BY DEF Fits, Word16

(* Lists of one, two and three fields. *)
LEMMA FilledOne ==
    ASSUME NEW k, NEW v, Filled(<<k>>, v)
    PROVE  Len(v) = 1 /\ Fits(k, v[1])
<1>1. Len(<<k>>) = 1 /\ <<k>>[1] = k /\ 1 \in 1..1
  OBVIOUS
<1> QED
  BY <1>1, Zenon DEF Filled

LEMMA FilledTwo ==
    ASSUME NEW k, NEW l, NEW v, Filled(<<k, l>>, v)
    PROVE  Len(v) = 2 /\ Fits(k, v[1]) /\ Fits(l, v[2])
<1>1. Len(<<k, l>>) = 2 /\ <<k, l>>[1] = k /\ <<k, l>>[2] = l /\ 1 \in 1..2 /\ 2 \in 1..2
  OBVIOUS
<1> QED
  BY <1>1, Zenon DEF Filled

LEMMA FilledThree ==
    ASSUME NEW k, NEW l, NEW m, NEW v, Filled(<<k, l, m>>, v)
    PROVE  Len(v) = 3 /\ Fits(k, v[1]) /\ Fits(l, v[2]) /\ Fits(m, v[3])
<1>1. /\ Len(<<k, l, m>>) = 3 /\ <<k, l, m>>[1] = k /\ <<k, l, m>>[2] = l /\ <<k, l, m>>[3] = m
      /\ 1 \in 1..3 /\ 2 \in 1..3 /\ 3 \in 1..3
  OBVIOUS
<1> QED
  BY <1>1, Zenon DEF Filled

(* What a reader makes can be written, and is what will be read again. *)
Rewritable(p) == p \in PacketSet /\ ShortFields(p) /\ ~Unreadable(p) /\ Normal(p) = p

(* The records of each type. *)
LEMMA TypedPackets ==
    ASSUME NEW p
    PROVE  /\ p \in [type : {"Connect"}, protocol : {4, 5}, keep_alive : Word16, client_id : Text,
                     clean_session : BOOLEAN, last_will : Optional(WillSet),
                     login : Optional(LoginSet)] => p \in PacketSet
           /\ p \in [type : {"ConnAck"}, session_present : BOOLEAN, code : 0..5] => p \in PacketSet
           /\ p \in [type : {"Publish"}, dup : BOOLEAN, qos : 0..2, retain : BOOLEAN, topic : Text,
                     pkid : Word16, payload : Seq(Byte)] => p \in PacketSet
           /\ p \in [type : {"Subscribe"}, pkid : Word16, filters : Seq([path : Text, qos : 0..2])]
                => p \in PacketSet
           /\ p \in [type : {"SubAck"}, pkid : Word16, codes : Seq({0, 1, 2, 128})] => p \in PacketSet
           /\ p \in [type : {"Unsubscribe"}, pkid : Word16, topics : Seq(Text)] => p \in PacketSet
           /\ p \in [type : AckTypes, pkid : Word16] => p \in PacketSet
           /\ p \in [type : {"PingReq", "PingResp", "Disconnect"}] => p \in PacketSet
BY Zenon DEF PacketSet

(* Packets without strings are what they are. *)
LEMMA PlainRewritable ==
    ASSUME NEW p, p \in PacketSet,
           p.type \notin {"Connect", "Publish", "Subscribe", "SubAck", "Unsubscribe"}
    PROVE  Rewritable(p)
<1>1. ShortFields(p)
  BY DEF ShortFields
<1>2. ~Unreadable(p) /\ Normal(p) = p
  BY ReadableOthers, NormalOthers
<1> QED
  BY <1>1, <1>2 DEF Rewritable

(* The readers in turn: what each makes can be written again. *)
LEMMA AckRewritable ==
    ASSUME NEW b \in Seq(Byte), NEW h \in 0..Len(b), NEW type \in AckTypes,
           ReadAck(type, b, h).error = "none"
    PROVE  Rewritable(ReadAck(type, b, h).packet)
<1> DEFINE r == Fields(b, h, <<"u16">>)
           p == [type |-> type, pkid |-> r.values[1]]
<1>1. ReadAck(type, b, h) = IF r.error # "none" THEN r ELSE Packet(p)
  BY Zenon DEF ReadAck, AckOf
<1>2. r.error = "none"
  <2> HIDE DEF r, p
  <2> QED
    BY <1>1, Zenon
<1>3. r.values[1] \in Word16
  <2>1. Filled(<<"u16">>, r.values)
    BY <1>2, KindLists, FieldsFit, Zenon
  <2> HIDE DEF r
  <2> QED
    BY <2>1, FilledOne, FitsMeans, Zenon
<1> HIDE DEF r
<1>4. p \in [type : AckTypes, pkid : Word16] /\ p.type = type
  BY <1>3
<1>5. p \in PacketSet
  <2> HIDE DEF p
  <2> QED
    BY <1>4, TypedPackets, Zenon
<1>6. p.type \notin {"Connect", "Publish", "Subscribe", "SubAck", "Unsubscribe"}
  BY <1>4 DEF AckTypes
<1>7. ReadAck(type, b, h).packet = p
  <2>1. ReadAck(type, b, h) = [error |-> "none", packet |-> p]
    BY <1>1, <1>2, Zenon DEF Packet
  <2> HIDE DEF p
  <2> QED
    BY <2>1
<1> HIDE DEF p
<1> QED
  BY <1>5, <1>6, <1>7, PlainRewritable, Zenon

LEMMA ConnAckRewritable ==
    ASSUME NEW b \in Seq(Byte), NEW h \in 0..Len(b), ReadConnAck(b, h).error = "none"
    PROVE  Rewritable(ReadConnAck(b, h).packet)
<1> DEFINE r == Fields(b, h, <<"u8", "u8">>)
           p == [type |-> "ConnAck", session_present |-> Bit(r.values[1], 1), code |-> r.values[2]]
<1>1. ReadConnAck(b, h) = IF r.error # "none" THEN r
                          ELSE IF r.values[2] > 5 THEN Err("InvalidConnectReturnCode")
                          ELSE Packet(p)
  BY Zenon DEF ReadConnAck, ConnAckOf
<1>2. r.error = "none"
  <2> HIDE DEF r, p
  <2> QED
    BY <1>1, Zenon
<1>3. r.values[2] \in Byte
  <2>1. Filled(<<"u8", "u8">>, r.values)
    BY <1>2, KindLists, FieldsFit, Zenon
  <2> HIDE DEF r
  <2> QED
    BY <2>1, FilledTwo, FitsMeans, Zenon
<1> HIDE DEF r
<1>4. ~(r.values[2] > 5)
  <2> SUFFICES ASSUME r.values[2] > 5
               PROVE  FALSE
    OBVIOUS
  <2>1. ReadConnAck(b, h) = Err("InvalidConnectReturnCode")
    BY <1>1, <1>2, Zenon
  <2> QED
    BY <2>1 DEF Err
<1>5. r.values[2] \in 0..5
  <2>1. \A x \in Byte : ~(x > 5) => x \in 0..5
    BY ONLY SMT DEF Byte
  <2> QED
    BY <1>3, <1>4, <2>1, Zenon
<1>6. Bit(r.values[1], 1) \in BOOLEAN
  BY DEF Bit
<1>7. p \in [type : {"ConnAck"}, session_present : BOOLEAN, code : 0..5] /\ p.type = "ConnAck"
  <2> DEFINE s == Bit(r.values[1], 1)
             c == r.values[2]
  <2>1. s \in BOOLEAN /\ c \in 0..5
    BY <1>5, <1>6, Zenon
  <2> HIDE DEF s, c
  <2>2. [type |-> "ConnAck", session_present |-> s, code |-> c]
           \in [type : {"ConnAck"}, session_present : BOOLEAN, code : 0..5]
    BY <2>1
  <2> QED
    BY <2>2 DEF s, c
<1>8. p \in PacketSet
  <2> HIDE DEF p
  <2> QED
    BY <1>7, TypedPackets, Zenon
<1>9. ReadConnAck(b, h).packet = p
  <2>1. ReadConnAck(b, h) = [error |-> "none", packet |-> p]
    BY <1>1, <1>2, <1>4, Zenon DEF Packet
  <2> HIDE DEF p
  <2> QED
    BY <2>1
<1>10. p.type \notin {"Connect", "Publish", "Subscribe", "SubAck", "Unsubscribe"}
  BY <1>7
<1> HIDE DEF p
<1> QED
  BY <1>8, <1>9, <1>10, PlainRewritable, Zenon

LEMMA SubAckRewritable ==
    ASSUME NEW b \in Seq(Byte), NEW h \in 0..Len(b), ReadSubAck(b, h).error = "none"
    PROVE  Rewritable(ReadSubAck(b, h).packet)
<1> DEFINE r == Fields(b, h, <<"u16">>)
           codes == SubSeq(b, h + 3, Len(b))
           p == [type |-> "SubAck", pkid |-> r.values[1], codes |-> codes]
<1>1. ReadSubAck(b, h) = IF r.error # "none" THEN r
                         ELSE IF codes = << >> THEN Err("MalformedPacket")
                         ELSE IF ~(ToSet(codes) \subseteq ReasonCodes) THEN Err("InvalidSubscribeReasonCode")
                         ELSE Packet(p)
  BY Zenon DEF ReadSubAck, SubAckOf
<1>2. r.error = "none"
  <2> HIDE DEF r, p, codes
  <2> QED
    BY <1>1, Zenon
<1>3. r.values[1] \in Word16
  <2>1. Filled(<<"u16">>, r.values)
    BY <1>2, KindLists, FieldsFit, Zenon
  <2> HIDE DEF r
  <2> QED
    BY <2>1, FilledOne, FitsMeans, Zenon
<1>4. codes \in Seq(Byte)
  <2>1. h + 2 \in 0..Len(b)
    BY <1>2, BehindIdentifier, Zenon
  <2>2. h + 3 \in Nat /\ h + 3 >= 1
    OBVIOUS
  <2> QED
    BY <2>2
<1> HIDE DEF r, codes
<1>5. codes # << >> /\ ToSet(codes) \subseteq ReasonCodes
  <2>1. Err("MalformedPacket").error # "none" /\ Err("InvalidSubscribeReasonCode").error # "none"
    BY DEF Err
  <2> HIDE DEF p
  <2> QED
    BY <1>1, <1>2, <2>1, Zenon
<1>6. codes \in Seq({0, 1, 2, 128})
  <2>1. \A i \in 1..Len(codes) : codes[i] \in {0, 1, 2, 128}
    <3>1. DOMAIN codes = 1..Len(codes)
      BY <1>4
    <3>2. ToSet(codes) \subseteq ReasonCodes
      BY <1>5, Zenon
    <3>3. \A i \in DOMAIN codes : codes[i] \in ToSet(codes)
      BY Zenon DEF ToSet
    <3>4. \A i \in 1..Len(codes) : codes[i] \in ReasonCodes
      BY <3>1, <3>2, <3>3, Zenon
    <3> QED
      BY <3>4, Zenon DEF ReasonCodes
  <2> QED
    BY <1>4, <2>1
<1>7. p \in [type : {"SubAck"}, pkid : Word16, codes : Seq({0, 1, 2, 128})] /\ p.type = "SubAck"
      /\ p.codes = codes
  BY <1>3, <1>6
<1>8. ReadSubAck(b, h).packet = p
  <2>1. ReadSubAck(b, h) = [error |-> "none", packet |-> p]
    BY <1>1, <1>2, <1>5, Zenon DEF Packet
  <2> HIDE DEF p
  <2> QED
    BY <2>1
<1> HIDE DEF p
<1>9. p \in PacketSet
  BY <1>7, TypedPackets, Zenon
<1>10. ShortFields(p) /\ ~Unreadable(p) /\ Normal(p) = p
  BY <1>5, <1>7 DEF ShortFields, Unreadable, Normal
<1> QED
  BY <1>8, <1>9, <1>10, Zenon DEF Rewritable

-----------------------------------------------------------------------------
LEMMA PublishRewritable ==
    ASSUME NEW b \in Seq(Byte), NEW h \in 0..Len(b), NEW byte1 \in Byte,
           ReadPublish(byte1, b, h).error = "none"
    PROVE  /\ Rewritable(ReadPublish(byte1, b, h).packet)
           /\ ReadPublish(byte1, b, h).packet.qos # 0 => ReadPublish(byte1, b, h).packet.pkid # 0
<1> DEFINE qos == (byte1 \div 2) % 4
           kinds == IF qos = 0 THEN <<"string">> ELSE <<"string", "u16">>
           r == Fields(b, h, kinds)
           pkid == IF qos = 0 THEN 0 ELSE r.values[2]
           payload == SubSeq(b, r.next + 1, Len(b))
           dup == Bit(byte1, 8)
           retain == Bit(byte1, 1)
           topic == r.values[1]
           p == [type |-> "Publish", dup |-> dup, qos |-> qos, retain |-> retain, topic |-> topic,
                 pkid |-> pkid, payload |-> payload]
<1>1. ReadPublish(byte1, b, h) =
         IF qos > 2 THEN Err("InvalidQoS")
         ELSE IF r.error # "none" THEN r
         ELSE IF qos # 0 /\ r.values[2] = 0 THEN Err("PacketIdZero")
         ELSE Packet(p)
  BY Zenon DEF ReadPublish, PublishOf
<1>2. qos \in 0..3
  <2>1. \A x \in Byte : (x \div 2) % 4 \in 0..3
    BY ONLY SMT DEF Byte
  <2> QED
    BY <2>1, Zenon
<1>3. kinds \in Seq(FieldKinds)
  BY KindLists
<1>4. r \in RunSet(h, Len(b))
  <2> HIDE DEF kinds
  <2> QED
    BY <1>3, FieldsTyped, Zenon
<1>5. dup \in BOOLEAN /\ retain \in BOOLEAN
  BY DEF Bit
<1>6. r.error = "none" => Filled(kinds, r.values)
  <2> HIDE DEF kinds
  <2> QED
    BY <1>3, FieldsFit, Zenon
<1> HIDE DEF r, qos, dup, retain
<1>7. ~(qos > 2) /\ r.error = "none" /\ ~(qos # 0 /\ r.values[2] = 0)
  <2>1. Err("InvalidQoS").error # "none" /\ Err("PacketIdZero").error # "none"
    BY DEF Err
  <2> HIDE DEF p
  <2> QED
    BY <1>1, <2>1, Zenon
<1>8. qos \in 0..2
  BY ONLY <1>2, <1>7, SMT
<1>9. /\ topic \in Text /\ Len(topic) <= MaxWord
      /\ pkid \in Word16 /\ (qos = 0 => pkid = 0) /\ (qos # 0 => pkid # 0)
  <2>1. CASE qos = 0
    <3>1. Filled(<<"string">>, r.values)
      BY <1>6, <1>7, <2>1, Zenon
    <3>2. 0 \in Word16
      BY ONLY MaxWordIsNat, SMT DEF Word16
    <3> QED
      BY <2>1, <3>1, <3>2, FilledOne, FitsMeans, Zenon
  <2>2. CASE qos # 0
    <3>1. Filled(<<"string", "u16">>, r.values)
      BY <1>6, <1>7, <2>2, Zenon
    <3> QED
      BY <1>7, <2>2, <3>1, FilledTwo, FitsMeans, Zenon
  <2> QED
    BY <2>1, <2>2, Zenon
<1>10. payload \in Seq(Byte)
  <2>1. r.next \in h..Len(b)
    BY <1>4, <1>7 DEF RunSet, FieldErrors
  <2>2. r.next + 1 \in Nat /\ r.next + 1 >= 1
    BY <2>1
  <2> QED
    BY <2>2
<1> HIDE DEF topic, pkid, payload
<1>11. /\ p \in [type : {"Publish"}, dup : BOOLEAN, qos : 0..2, retain : BOOLEAN, topic : Text,
                 pkid : Word16, payload : Seq(Byte)]
       /\ p.type = "Publish" /\ p.qos = qos /\ p.pkid = pkid /\ p.topic = topic
  BY <1>5, <1>8, <1>9, <1>10
<1>12. ReadPublish(byte1, b, h).packet = p
  <2> HIDE DEF p
  <2>1. ReadPublish(byte1, b, h) = [error |-> "none", packet |-> p]
    BY <1>1, <1>7, Zenon DEF Packet
  <2> QED
    BY <2>1
<1>13. Normal(p) = p
  <2>1. qos = 0 => [p EXCEPT !.pkid = 0] = p
    BY <1>9
  <2> HIDE DEF p
  <2> QED
    BY <1>11, <2>1 DEF Normal
<1> HIDE DEF p
<1>14. p \in PacketSet
  BY <1>11, TypedPackets, Zenon
<1>15. ShortFields(p)
  BY <1>9, <1>11 DEF ShortFields
<1>16. ~Unreadable(p)
  BY <1>11 DEF Unreadable
<1>17. Rewritable(p)
  BY <1>13, <1>14, <1>15, <1>16, Zenon DEF Rewritable
<1>18. p.qos # 0 => p.pkid # 0
  BY <1>9, <1>11, Zenon
<1> QED
  BY <1>12, <1>17, <1>18, Zenon

LEMMA SubscribeRewritable ==
    ASSUME NEW b \in Seq(Byte), NEW h \in 0..Len(b), ReadSubscribe(b, h).error = "none"
    PROVE  Rewritable(ReadSubscribe(b, h).packet)
<1> DEFINE r == Fields(b, h, <<"u16">>)
           g == Groups(b, h + 2, <<"string", "qos">>)
           items == g.items
           filters == [i \in DOMAIN items |-> [path |-> items[i][1], qos |-> items[i][2]]]
           pkid == r.values[1]
           p == [type |-> "Subscribe", pkid |-> pkid, filters |-> filters]
<1>1. ReadSubscribe(b, h) =
         IF r.error # "none" THEN r
         ELSE IF items = << >> THEN Err("EmptySubscription")
         ELSE IF g.next < Len(b) THEN Err("MalformedPacket")
         ELSE Packet(p)
  BY Zenon DEF ReadSubscribe, SubscribeOf
<1>2. r.error = "none"
  <2> HIDE DEF r, p, g
  <2> QED
    BY <1>1, Zenon
<1>3. pkid \in Word16
  <2>1. Filled(<<"u16">>, r.values)
    BY <1>2, KindLists, FieldsFit, Zenon
  <2> HIDE DEF r
  <2> QED
    BY <2>1, FilledOne, FitsMeans, Zenon
<1>4. <<"string", "qos">> # << >>
  OBVIOUS
<1>5. h + 2 \in 0..Len(b)
  BY <1>2, BehindIdentifier, Zenon
<1>6. g \in GroupSet /\ ItemsFilled(<<"string", "qos">>, items)
  BY <1>4, <1>5, KindLists, GroupsTyped, GroupsFit, Zenon
<1> HIDE DEF r, g, pkid
<1>7. items # << >> /\ ~(g.next < Len(b))
  <2>1. Err("EmptySubscription").error # "none" /\ Err("MalformedPacket").error # "none"
    BY DEF Err
  <2> HIDE DEF p
  <2> QED
    BY <1>1, <1>2, <2>1, Zenon
<1>8. items \in Seq(Seq(ValueSet)) /\ Len(items) \in Nat /\ DOMAIN items = 1..Len(items)
  <2>1. items \in Seq(Seq(ValueSet))
    BY <1>6 DEF GroupSet
  <2> HIDE DEF items
  <2> QED
    BY <2>1
<1> HIDE DEF items
<1>9. ASSUME NEW i \in 1..Len(items)
      PROVE  items[i][1] \in Text /\ Len(items[i][1]) <= MaxWord /\ items[i][2] \in 0..2
  BY <1>6, FilledTwo, FitsMeans, Zenon DEF ItemsFilled
<1>10. ASSUME NEW i \in 1..Len(items)
       PROVE  filters[i] = [path |-> items[i][1], qos |-> items[i][2]]
  BY <1>8, Zenon
<1>11. filters \in Seq([path : Text, qos : 0..2]) /\ DOMAIN filters = 1..Len(items)
  <2>1. \A i \in 1..Len(items) : filters[i] \in [path : Text, qos : 0..2]
    <3> SUFFICES ASSUME NEW i \in 1..Len(items)
                 PROVE  filters[i] \in [path : Text, qos : 0..2]
      BY Zenon
    <3> DEFINE x == items[i][1]
               q == items[i][2]
    <3>1. x \in Text /\ q \in 0..2
      BY <1>9, Zenon
    <3>2. filters[i] = [path |-> x, qos |-> q]
      BY <1>10, Zenon
    <3> HIDE DEF filters, x, q
    <3> QED
      BY <3>1, <3>2
  <2>2. DOMAIN filters = 1..Len(items) /\ filters = [i \in 1..Len(items) |-> filters[i]]
    BY <1>8, Zenon
  <2> HIDE DEF filters
  <2> QED
    BY <1>8, <2>1, <2>2
<1>12. \A i \in 1..Len(items) : filters[i].path = items[i][1]
  <2> SUFFICES ASSUME NEW i \in 1..Len(items)
               PROVE  filters[i].path = items[i][1]
    BY Zenon
  <2> DEFINE x == items[i][1]
             q == items[i][2]
  <2>1. filters[i] = [path |-> x, qos |-> q]
    BY <1>10, Zenon
  <2> HIDE DEF filters, x, q
  <2>2. filters[i].path = x
    BY <2>1
  <2> QED
    BY <2>2 DEF x
<1> HIDE DEF filters
<1>13. p \in [type : {"Subscribe"}, pkid : Word16, filters : Seq([path : Text, qos : 0..2])]
       /\ p.type = "Subscribe" /\ p.filters = filters
  BY <1>3, <1>11
<1>14. ReadSubscribe(b, h).packet = p
  <2> HIDE DEF p
  <2>1. ReadSubscribe(b, h) = [error |-> "none", packet |-> p]
    BY <1>1, <1>2, <1>7, Zenon DEF Packet
  <2> QED
    BY <2>1
<1> HIDE DEF p
<1>15. p \in PacketSet
  BY <1>13, TypedPackets, Zenon
<1>16. ShortFields(p)
  <2>1. ShortFields(p) = \A i \in DOMAIN p.filters : Len(p.filters[i].path) <= MaxWord
    BY <1>13 DEF ShortFields
  <2> QED
    BY <1>9, <1>11, <1>12, <1>13, <2>1, Zenon
<1>17. filters # << >>
  <2>1. items # << >> => Len(items) # 0
    BY <1>8, EmptySeq
  <2>2. 1 \in 1..Len(items)
    BY <1>7, <1>8, <2>1
  <2> QED
    BY <1>11, <2>2
<1>18. ~Unreadable(p) /\ Normal(p) = p
  BY <1>13, <1>17 DEF Unreadable, Normal
<1> QED
  BY <1>13, <1>14, <1>15, <1>16, <1>18, Zenon DEF Rewritable

LEMMA UnsubscribeRewritable ==
    ASSUME NEW b \in Seq(Byte), NEW h \in 0..Len(b), ReadUnsubscribe(b, h).error = "none"
    PROVE  Rewritable(ReadUnsubscribe(b, h).packet)
<1> DEFINE r == Fields(b, h, <<"u16">>)
           g == Groups(b, h + 2, <<"string">>)
           items == g.items
           topics == [i \in DOMAIN items |-> items[i][1]]
           pkid == r.values[1]
           p == [type |-> "Unsubscribe", pkid |-> pkid, topics |-> topics]
<1>1. ReadUnsubscribe(b, h) =
         IF r.error # "none" THEN r
         ELSE IF g.next < Len(b) THEN Err(g.error)
         ELSE Packet(p)
  BY Zenon DEF ReadUnsubscribe, UnsubscribeOf
<1>2. r.error = "none"
  <2> HIDE DEF r, p, g
  <2> QED
    BY <1>1, Zenon
<1>3. pkid \in Word16
  <2>1. Filled(<<"u16">>, r.values)
    BY <1>2, KindLists, FieldsFit, Zenon
  <2> HIDE DEF r
  <2> QED
    BY <2>1, FilledOne, FitsMeans, Zenon
<1>4. <<"string">> # << >>
  OBVIOUS
<1>5. h + 2 \in 0..Len(b)
  BY <1>2, BehindIdentifier, Zenon
<1>6. g \in GroupSet /\ ItemsFilled(<<"string">>, items)
  BY <1>4, <1>5, KindLists, GroupsTyped, GroupsFit, Zenon
<1> HIDE DEF r, g, pkid
<1>7. ~(g.next < Len(b))
  <2>1. Err(g.error).error # "none"
    BY <1>6 DEF Err, GroupSet, FieldErrors
  <2> HIDE DEF p
  <2> QED
    BY <1>1, <1>2, <2>1, Zenon
<1>8. items \in Seq(Seq(ValueSet)) /\ Len(items) \in Nat /\ DOMAIN items = 1..Len(items)
  <2>1. items \in Seq(Seq(ValueSet))
    BY <1>6 DEF GroupSet
  <2> HIDE DEF items
  <2> QED
    BY <2>1
<1> HIDE DEF items
<1>9. \A i \in 1..Len(items) : items[i][1] \in Text /\ Len(items[i][1]) <= MaxWord
  BY <1>6, FilledOne, FitsMeans, Zenon DEF ItemsFilled
<1>10. topics \in Seq(Text) /\ DOMAIN topics = 1..Len(items)
  <2>1. DOMAIN topics = 1..Len(items) /\ topics = [i \in 1..Len(items) |-> topics[i]]
        /\ \A i \in 1..Len(items) : topics[i] \in Text
    BY <1>8, <1>9, Zenon
  <2> HIDE DEF topics
  <2> QED
    BY <1>8, <2>1
<1>11. \A i \in 1..Len(items) : topics[i] = items[i][1]
  BY <1>8, Zenon
<1> HIDE DEF topics
<1>13. p \in [type : {"Unsubscribe"}, pkid : Word16, topics : Seq(Text)]
       /\ p.type = "Unsubscribe" /\ p.topics = topics
  BY <1>3, <1>10
<1>14. ReadUnsubscribe(b, h).packet = p
  <2> HIDE DEF p
  <2>1. ReadUnsubscribe(b, h) = [error |-> "none", packet |-> p]
    BY <1>1, <1>2, <1>7, Zenon DEF Packet
  <2> QED
    BY <2>1
<1> HIDE DEF p
<1>15. p \in PacketSet
  BY <1>13, TypedPackets, Zenon
<1>16. ShortFields(p)
  <2>1. ShortFields(p) = \A i \in DOMAIN p.topics : Len(p.topics[i]) <= MaxWord
    BY <1>13 DEF ShortFields
  <2> QED
    BY <1>9, <1>10, <1>11, <1>13, <2>1, Zenon
<1>18. ~Unreadable(p) /\ Normal(p) = p
  BY <1>13 DEF Unreadable, Normal
<1> QED
  BY <1>14, <1>15, <1>16, <1>18, Zenon DEF Rewritable

LEMMA UnsubAckRewritable ==
    ASSUME NEW b \in Seq(Byte), NEW h \in 0..Len(b), NEW n, ReadUnsubAck(n, b, h).error = "none"
    PROVE  Rewritable(ReadUnsubAck(n, b, h).packet)
<1>1. CASE n # 2
  <2>1. ReadUnsubAck(n, b, h) = Err("MalformedPacket")
    BY <1>1 DEF ReadUnsubAck
  <2> QED
    BY <2>1 DEF Err
<1>2. CASE n = 2
  <2>1. ReadUnsubAck(n, b, h) = ReadAck("UnsubAck", b, h)
    BY <1>2, Zenon DEF ReadUnsubAck
  <2>2. "UnsubAck" \in AckTypes
    BY DEF AckTypes
  <2> QED
    BY <2>1, <2>2, AckRewritable, Zenon
<1> QED
  BY <1>1, <1>2

-----------------------------------------------------------------------------
(* The last will of a Connect that was read. *)
LEMMA WillRewritable ==
    ASSUME NEW flags \in Byte, NEW v, Filled(WillFields(flags), v),
           ~(Bit(flags, 4) /\ (flags \div 8) % 4 > 2)
    PROVE  /\ WillOf(flags, v) \in Optional(WillSet)
           /\ WillOf(flags, v) # << >> =>
                 /\ Len(WillOf(flags, v)[1].topic) <= MaxWord
                 /\ Len(WillOf(flags, v)[1].message) <= MaxWord
<1>1. CASE ~Bit(flags, 4)
  <2>1. WillFields(flags) = << >>
    BY <1>1, Zenon DEF WillFields
  <2>2. Len(v) = Len(<< >>) /\ v \in Seq(ValueSet)
    BY <2>1, Zenon DEF Filled
  <2>3. v = << >>
    BY <2>2
  <2>4. WillOf(flags, v) = << >>
    BY <2>3, Zenon DEF WillOf
  <2>5. << >> \in Optional(WillSet)
    BY DEF Optional
  <2> QED
    BY <2>4, <2>5, Zenon
<1>2. CASE Bit(flags, 4)
  <2> DEFINE topic == v[1]
             message == v[2]
             qos == (flags \div 8) % 4
             retain == Bit(flags, 32)
             w == [topic |-> topic, message |-> message, qos |-> qos, retain |-> retain]
  <2>1. Filled(<<"string", "bytes">>, v)
    BY <1>2, Zenon DEF WillFields
  <2>2. /\ Len(v) = 2 /\ topic \in Text /\ Len(topic) <= MaxWord
        /\ message \in Seq(Byte) /\ Len(message) <= MaxWord
    BY <2>1, FilledTwo, FitsMeans, Zenon
  <2>3. qos \in 0..2
    <3>1. \A x \in Byte : ~((x \div 8) % 4 > 2) => (x \div 8) % 4 \in 0..2
      BY ONLY SMT DEF Byte
    <3> QED
      BY <1>2, <3>1, Zenon
  <2>4. retain \in BOOLEAN
    BY DEF Bit
  <2>5. WillOf(flags, v) = <<w>>
    <3>1. Len(<< >>) # 2
      OBVIOUS
    <3>2. v # << >>
      BY <2>2, <3>1, Zenon
    <3> QED
      BY <3>2, Zenon DEF WillOf
  <2> HIDE DEF topic, message, qos, retain
  <2>6. w \in WillSet /\ w.topic = topic /\ w.message = message
    BY <2>2, <2>3, <2>4 DEF WillSet
  <2> HIDE DEF w
  <2>7. <<w>> \in Optional(WillSet) /\ <<w>>[1] = w
    BY <2>6 DEF Optional
  <2> QED
    BY <2>2, <2>5, <2>6, <2>7, Zenon
<1> QED
  BY <1>1, <1>2

(* A login that was read has a field. *)
LEMMA LoginRewritable ==
    ASSUME NEW flags \in Byte, NEW v, Filled(LoginFields(flags), v)
    PROVE  /\ LoginOf(flags, v) \in Optional(LoginSet)
           /\ LoginOf(flags, v) # << >> =>
                 /\ Len(LoginOf(flags, v)[1].username) <= MaxWord
                 /\ Len(LoginOf(flags, v)[1].password) <= MaxWord
                 /\ LoginLen(LoginOf(flags, v)[1]) # 0
<1> DEFINE username == IF Bit(flags, 128) THEN v[1] ELSE << >>
           password == IF Bit(flags, 64) THEN v[Len(v)] ELSE << >>
           l == [username |-> username, password |-> password]
<1>1. << >> \in Text /\ << >> \in Seq(Byte) /\ Len(<< >>) <= MaxWord
  BY MaxWordIsNat DEF Text, IsUtf8
<1>2. /\ username \in Text /\ Len(username) <= MaxWord
      /\ password \in Seq(Byte) /\ Len(password) <= MaxWord
  <2>1. CASE Bit(flags, 128) /\ Bit(flags, 64)
    <3>1. LoginFields(flags) = <<"string", "bytes">>
      <4>1. LoginFields(flags) = <<"string">> \o <<"bytes">>
        BY <2>1, Zenon DEF LoginFields
      <4>2. <<"string">> \o <<"bytes">> = <<"string", "bytes">>
        <5>1. "string" \in FieldKinds /\ "bytes" \in FieldKinds
          BY EncodedAs, Zenon
        <5> QED
          BY <5>1, PairOf, Zenon
      <4> QED
        BY <4>1, <4>2
    <3>2. /\ Len(v) = 2 /\ v[1] \in Text /\ Len(v[1]) <= MaxWord
          /\ v[2] \in Seq(Byte) /\ Len(v[2]) <= MaxWord
      BY <3>1, FilledTwo, FitsMeans, Zenon
    <3>3. username = v[1] /\ password = v[2]
      BY <2>1, <3>2, Zenon
    <3> QED
      BY <3>2, <3>3, Zenon
  <2>2. CASE Bit(flags, 128) /\ ~Bit(flags, 64)
    <3>1. LoginFields(flags) = <<"string">>
      <4>1. LoginFields(flags) = <<"string">> \o << >>
        BY <2>2, Zenon DEF LoginFields
      <4> QED
        BY <4>1
    <3>2. v[1] \in Text /\ Len(v[1]) <= MaxWord
      BY <3>1, FilledOne, FitsMeans, Zenon
    <3>3. username = v[1] /\ password = << >>
      BY <2>2, Zenon
    <3> QED
      BY <1>1, <3>2, <3>3, Zenon
  <2>3. CASE ~Bit(flags, 128) /\ Bit(flags, 64)
    <3>1. LoginFields(flags) = <<"bytes">>
      <4>1. LoginFields(flags) = << >> \o <<"bytes">>
        BY <2>3, Zenon DEF LoginFields
      <4> QED
        BY <4>1
    <3>2. Len(v) = 1 /\ v[1] \in Seq(Byte) /\ Len(v[1]) <= MaxWord
      BY <3>1, FilledOne, FitsMeans, Zenon
    <3>3. username = << >> /\ password = v[1]
      BY <2>3, <3>2, Zenon
    <3> QED
      BY <1>1, <3>2, <3>3, Zenon
  <2>4. CASE ~Bit(flags, 128) /\ ~Bit(flags, 64)
    BY <1>1, <2>4, Zenon
  <2> QED
    BY <2>1, <2>2, <2>3, <2>4, Zenon
<1>3. LoginOf(flags, v) = IF username = << >> /\ password = << >> THEN << >> ELSE <<l>>
  BY Zenon DEF LoginOf
<1> HIDE DEF username, password
<1>4. l \in LoginSet /\ l.username = username /\ l.password = password
  BY <1>2 DEF LoginSet
<1> HIDE DEF l
<1>5. <<l>> \in Optional(LoginSet) /\ <<l>>[1] = l /\ << >> \in Optional(LoginSet)
  BY <1>4 DEF Optional
<1>6. ~(username = << >> /\ password = << >>) => LoginLen(l) # 0
  <2>1. /\ username \in Seq(Byte) /\ Len(username) \in Nat /\ Len(password) \in Nat
    BY <1>2 DEF Text
  <2>2. LoginLen(l) = (IF username = << >> THEN 0 ELSE 2 + Len(username))
                      + (IF password = << >> THEN 0 ELSE 2 + Len(password))
    BY <1>4, Zenon DEF LoginLen
  <2>4. CASE username = << >> /\ password # << >>
    <3>1. LoginLen(l) = 0 + (2 + Len(password))
      BY <2>2, <2>4, Zenon
    <3> QED
      BY ONLY <2>1, <3>1
  <2>5. CASE username # << >> /\ password = << >>
    <3>1. LoginLen(l) = (2 + Len(username)) + 0
      BY <2>2, <2>5, Zenon
    <3> QED
      BY ONLY <2>1, <3>1
  <2>6. CASE username # << >> /\ password # << >>
    <3>1. LoginLen(l) = (2 + Len(username)) + (2 + Len(password))
      BY <2>2, <2>6, Zenon
    <3> QED
      BY ONLY <2>1, <3>1
  <2> QED
    BY <2>4, <2>5, <2>6, Zenon
<1> QED
  BY <1>2, <1>3, <1>4, <1>5, <1>6, Zenon

LEMMA ConnectRewritable ==
    ASSUME NEW b \in Seq(Byte), NEW h \in 0..Len(b), ReadConnect(b, h).error = "none"
    PROVE  Rewritable(ReadConnect(b, h).packet)
<1> DEFINE proto == Fields(b, h, <<"string", "u8">>)
           rest == Fields(b, proto.next, <<"u8", "u16", "string">>)
           flags == rest.values[1]
           will == Fields(b, rest.next, WillFields(flags))
           login == Fields(b, will.next, LoginFields(flags))
           last == WillOf(flags, will.values)
           log == LoginOf(flags, login.values)
           keep == rest.values[2]
           id == rest.values[3]
           clean == Bit(flags, 2)
           p == [type |-> "Connect", protocol |-> 4, keep_alive |-> keep, client_id |-> id,
                 clean_session |-> clean, last_will |-> last, login |-> log]
<1>1. ReadConnect(b, h) =
         IF proto.error # "none" THEN proto
         ELSE IF proto.values[1] # <<77, 81, 84, 84>> THEN Err("InvalidProtocol")
         ELSE IF proto.values[2] # 4 THEN Err("InvalidProtocolLevel")
         ELSE ReadWill(b, rest)
  BY Zenon DEF ReadConnect, ReadProtocol
<1>2. ReadWill(b, rest) =
         IF rest.error # "none" THEN rest
         ELSE IF ~Bit(flags, 4) /\ (flags \div 8) % 8 # 0 THEN Err("MalformedPacket")
         ELSE ReadLogin(b, flags, rest, will)
  BY Zenon DEF ReadWill
<1>3. ReadLogin(b, flags, rest, will) =
         IF will.error # "none" THEN will
         ELSE IF Bit(flags, 4) /\ (flags \div 8) % 4 > 2 THEN Err("InvalidQoS")
         ELSE IF login.error # "none" THEN login
         ELSE Packet(p)
  BY Zenon DEF ReadLogin, ConnectOf
<1>4. clean \in BOOLEAN
  BY DEF Bit
<1>5. \A e : Err(e).error = e
  BY DEF Err
<1>6. proto \in RunSet(h, Len(b))
  BY KindLists, FieldsTyped, Zenon
<1>7. proto.error = "none" => rest \in RunSet(proto.next, Len(b)) /\ proto.next \in 0..Len(b)
  <2> SUFFICES ASSUME proto.error = "none"
               PROVE  rest \in RunSet(proto.next, Len(b)) /\ proto.next \in 0..Len(b)
    OBVIOUS
  <2> HIDE DEF proto
  <2>1. proto.next \in h..Len(b)
    BY <1>6 DEF RunSet, FieldErrors
  <2>2. proto.next \in 0..Len(b)
    BY <2>1
  <2> QED
    BY <2>2, KindLists, FieldsTyped, Zenon
<1>8. proto.error = "none" /\ rest.error = "none" =>
         /\ will \in RunSet(rest.next, Len(b)) /\ rest.next \in 0..Len(b)
         /\ will.error = "none" => Filled(WillFields(flags), will.values)
         /\ flags \in Byte /\ keep \in Word16 /\ id \in Text /\ Len(id) <= MaxWord
  <2> SUFFICES ASSUME proto.error = "none", rest.error = "none"
               PROVE  /\ will \in RunSet(rest.next, Len(b)) /\ rest.next \in 0..Len(b)
                      /\ will.error = "none" => Filled(WillFields(flags), will.values)
                      /\ flags \in Byte /\ keep \in Word16 /\ id \in Text /\ Len(id) <= MaxWord
    OBVIOUS
  <2>0. Filled(<<"u8", "u16", "string">>, rest.values)
    <3> HIDE DEF proto
    <3> QED
      BY <1>7, KindLists, FieldsFit, Zenon
  <2> HIDE DEF rest, proto
  <2>1. rest.next \in proto.next..Len(b)
    BY <1>7 DEF RunSet, FieldErrors
  <2>2. rest.next \in 0..Len(b)
    BY <1>7, <2>1
  <2>3. WillFields(flags) \in Seq(FieldKinds)
    BY KindLists, Zenon DEF WillFields
  <2>4. will \in RunSet(rest.next, Len(b))
    BY <2>2, <2>3, FieldsTyped, Zenon
  <2>5. will.error = "none" => Filled(WillFields(flags), will.values)
    BY <2>2, <2>3, FieldsFit, Zenon
  <2>6. flags \in Byte /\ keep \in Word16 /\ id \in Text /\ Len(id) <= MaxWord
    BY <2>0, FilledThree, FitsMeans, Zenon
  <2> QED
    BY <2>2, <2>4, <2>5, <2>6, Zenon
<1>9. proto.error = "none" /\ rest.error = "none" /\ will.error = "none" /\ login.error = "none" =>
         Filled(LoginFields(flags), login.values)
  <2> SUFFICES ASSUME proto.error = "none", rest.error = "none", will.error = "none",
                      login.error = "none"
               PROVE  Filled(LoginFields(flags), login.values)
    BY Zenon
  <2> HIDE DEF proto, rest, flags, will
  <2>1. will.next \in rest.next..Len(b)
    BY <1>8 DEF RunSet, FieldErrors
  <2>2. will.next \in 0..Len(b)
    BY <1>8, <2>1
  <2>3. LoginFields(flags) \in Seq(FieldKinds)
    <3>1. (IF Bit(flags, 128) THEN <<"string">> ELSE << >>) \in Seq(FieldKinds)
      BY KindLists, Zenon
    <3>2. (IF Bit(flags, 64) THEN <<"bytes">> ELSE << >>) \in Seq(FieldKinds)
      BY KindLists, Zenon
    <3>3. \A x, y \in Seq(FieldKinds) : x \o y \in Seq(FieldKinds)
      OBVIOUS
    <3> QED
      BY <3>1, <3>2, <3>3, ZenonT(60) DEF LoginFields
  <2> QED
    BY <2>2, <2>3, FieldsFit, Zenon
<1> HIDE DEF proto, rest, will, login, flags, clean
<1>10. /\ proto.error = "none" /\ rest.error = "none" /\ will.error = "none" /\ login.error = "none"
       /\ ~(Bit(flags, 4) /\ (flags \div 8) % 4 > 2)
       /\ ReadConnect(b, h) = Packet(p)
  <2> HIDE DEF p
  <2>1. /\ "InvalidProtocol" # "none" /\ "InvalidProtocolLevel" # "none"
        /\ "MalformedPacket" # "none" /\ "InvalidQoS" # "none"
    OBVIOUS
  <2>2. proto.error = "none" /\ ReadConnect(b, h) = ReadWill(b, rest)
    BY <1>1, <1>5, <2>1, Zenon
  <2>3. rest.error = "none" /\ ReadWill(b, rest) = ReadLogin(b, flags, rest, will)
    BY <1>2, <1>5, <2>1, <2>2, Zenon
  <2> QED
    BY <1>3, <1>5, <2>1, <2>2, <2>3, Zenon
<1>11. flags \in Byte /\ keep \in Word16 /\ id \in Text /\ Len(id) <= MaxWord
  BY <1>8, <1>10, Zenon
<1>12. /\ last \in Optional(WillSet)
       /\ last # << >> => Len(last[1].topic) <= MaxWord /\ Len(last[1].message) <= MaxWord
  BY <1>8, <1>10, <1>11, WillRewritable, Zenon
<1>13. /\ log \in Optional(LoginSet)
       /\ log # << >> => /\ Len(log[1].username) <= MaxWord /\ Len(log[1].password) <= MaxWord
                         /\ LoginLen(log[1]) # 0
  BY <1>9, <1>10, <1>11, LoginRewritable, Zenon
<1> HIDE DEF last, log, keep, id
<1>14. /\ p \in [type : {"Connect"}, protocol : {4, 5}, keep_alive : Word16, client_id : Text,
                 clean_session : BOOLEAN, last_will : Optional(WillSet), login : Optional(LoginSet)]
       /\ p.type = "Connect" /\ p.protocol = 4 /\ p.client_id = id /\ p.last_will = last /\ p.login = log
  BY <1>4, <1>11, <1>12, <1>13
<1> HIDE DEF p
<1>15. p \in PacketSet
  BY <1>14, TypedPackets, Zenon
<1>16. ShortFields(p)
  <2>1. ShortConnect(p)
    BY <1>11, <1>12, <1>13, <1>14, Zenon DEF ShortConnect
  <2> QED
    BY <1>14, <2>1 DEF ShortFields
<1>17. ~Unreadable(p)
  BY <1>14 DEF Unreadable
<1>18. Normal(p) = p
  <2>1. ~(p.login # << >> /\ LoginLen(p.login[1]) = 0)
    BY <1>13, <1>14, Zenon
  <2> QED
    BY <1>14, <2>1 DEF Normal
<1>19. ReadConnect(b, h).packet = p
  BY <1>10 DEF Packet
<1> QED
  BY <1>15, <1>16, <1>17, <1>18, <1>19, Zenon DEF Rewritable

(* What Packet::read_exact makes of a frame can be written again. *)
LEMMA ExactRewritable ==
    ASSUME NEW b \in Seq(Byte), NEW h \in 0..Len(b), NEW byte1 \in Byte, NEW n,
           ReadExact(byte1, n, b, h).error = "none"
    PROVE  Rewritable(ReadExact(byte1, n, b, h).packet)
<1> DEFINE code == byte1 \div 16
           type == PacketTypes[code]
<1>1. DOMAIN PacketTypes = 1..14
  BY TypeNames, Zenon
<1>2. code \in 1..14
  <2>1. code \notin 1..14 => ReadExact(byte1, n, b, h) = Err("InvalidPacketType")
    BY <1>1, Zenon DEF ReadExact
  <2>2. Err("InvalidPacketType").error # "none"
    BY DEF Err
  <2> QED
    BY <2>1, <2>2, Zenon
<1>0. byte1 \div 16 = code /\ PacketTypes[code] = type
  OBVIOUS
<1> HIDE DEF code
<1>3. CASE type \in Bodiless
  <2>1. ReadExact(byte1, n, b, h) = Packet([type |-> type])
    <3>1. byte1 \div 16 \in DOMAIN PacketTypes /\ PacketTypes[byte1 \div 16] = type
      BY <1>0, <1>1, <1>2
    <3> HIDE DEF type
    <3> QED
      BY <1>3, <3>1, Zenon DEF ReadExact
  <2> DEFINE p == [type |-> type]
  <2>2. ReadExact(byte1, n, b, h).packet = p
    BY <2>1 DEF Packet
  <2>3. p \in [type : {"PingReq", "PingResp", "Disconnect"}] /\ p.type = type
    BY <1>3 DEF Bodiless
  <2> HIDE DEF p, type
  <2>4. p.type \notin {"Connect", "Publish", "Subscribe", "SubAck", "Unsubscribe"}
    BY <1>3, <2>3 DEF Bodiless
  <2> QED
    BY <2>2, <2>3, <2>4, TypedPackets, PlainRewritable, Zenon
<1>4. CASE type \notin Bodiless
  <2>1. n # 0
    <3>1. n = 0 => ReadExact(byte1, n, b, h) = Err("MalformedPacket")
      BY <1>1, <1>2, <1>4, Zenon DEF ReadExact, code
    <3> QED
      BY <3>1 DEF Err
  <2>2. ReadExact(byte1, n, b, h) = ReaderOf(type, byte1, n, b, h)
    <3>1. byte1 \div 16 \in DOMAIN PacketTypes /\ PacketTypes[byte1 \div 16] = type
      BY <1>0, <1>1, <1>2
    <3> HIDE DEF type
    <3> QED
      BY <1>4, <2>1, <3>1, Zenon DEF ReadExact, ReaderOf
  <2>3. type \in {"Connect", "ConnAck", "Publish", "Subscribe", "SubAck", "Unsubscribe"} \cup AckTypes
    <3> DEFINE Named(t) == \/ t \in {"Connect", "ConnAck", "Publish", "Subscribe", "SubAck",
                                      "Unsubscribe"}
                           \/ t \in AckTypes \/ t \in Bodiless
    <3>1. /\ \A t \in {"Connect", "ConnAck", "Publish", "Subscribe", "SubAck", "Unsubscribe"} : Named(t)
          /\ \A t \in AckTypes : Named(t)
          /\ \A t \in Bodiless : Named(t)
      BY Zenon
    <3>2. /\ Named("Connect") /\ Named("ConnAck") /\ Named("Publish") /\ Named("Subscribe")
          /\ Named("SubAck") /\ Named("Unsubscribe")
      BY <3>1, Zenon
    <3>3. /\ Named("PubAck") /\ Named("PubRec") /\ Named("PubRel") /\ Named("PubComp")
          /\ Named("UnsubAck")
      BY <3>1, Zenon DEF AckTypes
    <3>4. Named("PingReq") /\ Named("PingResp") /\ Named("Disconnect")
      BY <3>1, Zenon DEF Bodiless
    <3> HIDE DEF Named
    <3>5. /\ Named(PacketTypes[1]) /\ Named(PacketTypes[2]) /\ Named(PacketTypes[3])
          /\ Named(PacketTypes[4]) /\ Named(PacketTypes[5]) /\ Named(PacketTypes[6])
          /\ Named(PacketTypes[7]) /\ Named(PacketTypes[8]) /\ Named(PacketTypes[9])
          /\ Named(PacketTypes[10]) /\ Named(PacketTypes[11]) /\ Named(PacketTypes[12])
          /\ Named(PacketTypes[13]) /\ Named(PacketTypes[14])
      BY <3>2, <3>3, <3>4, TypeNames, Zenon
    <3>6. \A i \in 1..14 : \/ i = 1 \/ i = 2 \/ i = 3 \/ i = 4 \/ i = 5 \/ i = 6 \/ i = 7
                           \/ i = 8 \/ i = 9 \/ i = 10 \/ i = 11 \/ i = 12 \/ i = 13 \/ i = 14
      BY ONLY SMT
    <3>7. Named(PacketTypes[code])
      BY <1>2, <3>5, <3>6, Zenon
    <3> QED
      BY <1>0, <1>4, <3>7, Zenon DEF Named
  <2> HIDE DEF type
  <2>4. CASE type = "Connect"
    <3>1. ReaderOf(type, byte1, n, b, h) = ReadConnect(b, h)
      BY <2>4 DEF ReaderOf
    <3> QED
      BY <2>2, <3>1, ConnectRewritable, Zenon
  <2>5. CASE type = "ConnAck"
    <3>1. ReaderOf(type, byte1, n, b, h) = ReadConnAck(b, h)
      BY <2>5 DEF ReaderOf
    <3> QED
      BY <2>2, <3>1, ConnAckRewritable, Zenon
  <2>6. CASE type = "Publish"
    <3>1. ReaderOf(type, byte1, n, b, h) = ReadPublish(byte1, b, h)
      BY <2>6 DEF ReaderOf
    <3> QED
      BY <2>2, <3>1, PublishRewritable, Zenon
  <2>7. CASE type = "Subscribe"
    <3>1. ReaderOf(type, byte1, n, b, h) = ReadSubscribe(b, h)
      BY <2>7 DEF ReaderOf
    <3> QED
      BY <2>2, <3>1, SubscribeRewritable, Zenon
  <2>8. CASE type = "SubAck"
    <3>1. ReaderOf(type, byte1, n, b, h) = ReadSubAck(b, h)
      BY <2>8 DEF ReaderOf
    <3> QED
      BY <2>2, <3>1, SubAckRewritable, Zenon
  <2>9. CASE type = "Unsubscribe"
    <3>1. ReaderOf(type, byte1, n, b, h) = ReadUnsubscribe(b, h)
      BY <2>9 DEF ReaderOf
    <3> QED
      BY <2>2, <3>1, UnsubscribeRewritable, Zenon
  <2>10. CASE type = "UnsubAck"
    <3>1. ReaderOf(type, byte1, n, b, h) = ReadUnsubAck(n, b, h)
      BY <2>10 DEF ReaderOf
    <3> QED
      BY <2>2, <3>1, UnsubAckRewritable, Zenon
  <2>11. CASE type \in AckTypes \ {"UnsubAck"}
    <3>1. ReaderOf(type, byte1, n, b, h) = ReadAck(type, b, h)
      BY <2>11 DEF ReaderOf, AckTypes
    <3> QED
      BY <2>2, <2>11, <3>1, AckRewritable, Zenon
  <2> QED
    BY <2>3, <2>4, <2>5, <2>6, <2>7, <2>8, <2>9, <2>10, <2>11, Zenon
<1> QED
  BY <1>3, <1>4

-----------------------------------------------------------------------------
(* p was read from the frame f, which was within the limit. *)
ReadFrom(p, f) ==
    /\ f \in Seq(Byte) /\ OneFrame(f) /\ Within(f, MaxSize)
    /\ ExactOf(f).error = "none" /\ p = ExactOf(f).packet

(* Every packet that was read came from a frame. *)
MadeInv == StreamInv /\ \A i \in 1..Len(got) : \E f : ReadFrom(got[i], f)

(* Nothing was read at first. *)
LEMMA MadeInit == Init => MadeInv
<1> SUFFICES ASSUME Init PROVE MadeInv
  OBVIOUS
<1>1. StreamInv
  BY StreamInit
<1>2. Len(got) = 0
  BY DEF Init
<1>3. \A i \in 1..0 : FALSE
  OBVIOUS
<1> QED
  BY <1>1, <1>2, <1>3, Zenon DEF MadeInv

(* Packet::read: the packet comes from the frame at the front. *)
LEMMA ReadMakes ==
    ASSUME MadeInv, ReadPacket, StreamInv'
    PROVE  MadeInv'
<1> DEFINE r == Read(rx, MaxSize)
           f == Current.frame
<1>1. /\ rx # << >>
      /\ \/ r.error = "none" /\ got' = Append(got, r.packet)
         \/ got' = got
  BY Zenon DEF ReadPacket
<1>2. StreamInv /\ \A i \in 1..Len(got) : \E e : ReadFrom(got[i], e)
  BY Zenon DEF MadeInv
<1>3. GotSeq(got) /\ rx \in Seq(Byte) /\ Len(got) \in Nat
  BY <1>2, StreamSizes DEF StreamInv
<1>4. f \in Seq(Byte) /\ OneFrame(f) /\ SameBytes(rx, f)
  BY <1>1, <1>2, ReaderAtFrame, Zenon
<1>5. ReadsFront(f, rx, MaxSize, r)
  <2>1. MaxSize \in Nat
    BY StreamAssumption, Zenon
  <2> QED
    BY <1>1, <1>3, <1>4, <2>1, ReadAtFront, Zenon
<1> HIDE DEF r, f
<1>6. ASSUME r.error = "none"
      PROVE  ReadFrom(r.packet, f)
  <2> DEFINE x == ExactOf(f)
  <2>1. \A m : NeedMoreData(m).error # "none"
    BY DEF NeedMoreData
  <2>2. Within(f, MaxSize) /\ r = Taking(x, Len(f))
    BY <1>5, <1>6, <2>1, Zenon DEF ReadsFront
  <2> HIDE DEF x
  <2>3. x.error = "none"
    BY <1>6, <2>2, Zenon DEF Taking
  <2>4. r = [error |-> "none", packet |-> x.packet, taken |-> Len(f)]
    BY <2>2, <2>3, Zenon DEF Taking
  <2>5. r.packet = x.packet
    BY <2>4
  <2> QED
    BY <1>4, <2>2, <2>3, <2>5, Zenon DEF ReadFrom, x
<1>7. CASE r.error = "none" /\ got' = Append(got, r.packet)
  <2>1. /\ Len(got') = Len(got) + 1 /\ got'[Len(got) + 1] = r.packet
        /\ \A i \in 1..Len(got) : got'[i] = got[i]
    <3>1. PICK S : got \in Seq(S)
      BY <1>3, Zenon DEF GotSeq
    <3> DEFINE T == S \cup {r.packet}
    <3>2. got \in Seq(T) /\ r.packet \in T
      BY <3>1
    <3> HIDE DEF T
    <3> QED
      BY <1>7, <3>2
  <2>2. ASSUME NEW i \in 1..Len(got')
        PROVE  \E e : ReadFrom(got'[i], e)
    <3>1. i \in 1..Len(got) \/ i = Len(got) + 1
      BY <1>3, <2>1
    <3> QED
      BY <1>2, <1>6, <1>7, <2>1, <3>1, Zenon
  <2> QED
    BY <2>2, Zenon DEF MadeInv
<1>8. CASE got' = got
  BY <1>2, <1>8, Zenon DEF MadeInv
<1> QED
  BY <1>1, <1>7, <1>8

(* Every step keeps the invariant. *)
LEMMA MadeStep == MadeInv /\ [Next]_vars => MadeInv'
<1> SUFFICES ASSUME MadeInv, [Next]_vars PROVE MadeInv'
  OBVIOUS
<1>0. StreamInv'
  BY StreamStep, Zenon DEF MadeInv
<1>1. CASE ReadPacket
  BY <1>0, <1>1, ReadMakes, Zenon
<1>2. CASE got' = got
  BY <1>0, <1>2, Zenon DEF MadeInv
<1>3. ReadPacket \/ got' = got
  BY DEF Next, Send, SendForeign, Transfer, Arrive, vars
<1> QED
  BY <1>1, <1>2, <1>3

(* The invariant holds always. *)
LEMMA MadeAlways == Spec => []MadeInv
BY MadeInit, MadeStep, PTL DEF Spec

(* A frame whose header can be read. *)
LEMMA PartsOfFrame ==
    ASSUME NEW f \in Seq(Byte), OneFrame(f), ParseFixedHeader(f).error = "none"
    PROVE  /\ ParseFixedHeader(f).byte1 \in Byte
           /\ HeaderSize(f) \in 0..Len(f) /\ HeaderSize(f) = ParseFixedHeader(f).header
           /\ ParseFixedHeader(f).remaining \in Nat
           /\ Len(f) = HeaderSize(f) + ParseFixedHeader(f).remaining
<1>1. FrameShape(f)
  BY ShapeOfFrame, Zenon
<1>2. HeaderSize(f) \in 0..Len(f)
  BY <1>1 DEF FrameShape
<1>3. ParseFixedHeader(f).byte1 = f[1]
  <2>1. PICK k \in Nat, n \in Nat : Measured(f, k, n)
    <3>1. ~Endless(f)
      BY DEF Endless, Err
    <3> QED
      BY <3>1, FrameKindsOf, Zenon
  <2>2. ParseFixedHeader(f) = [error |-> "none", byte1 |-> f[1], header |-> k + 1, remaining |-> n]
    BY <2>1, Zenon DEF Measured
  <2> QED
    BY <2>2
<1>4. f[1] \in Byte
  BY <1>1 DEF FrameShape
<1> QED
  BY <1>1, <1>2, <1>3, <1>4, Zenon DEF FrameShape

(* What was read can be written again. *)
LEMMA MadeRewritable ==
    ASSUME NEW p, NEW f, ReadFrom(p, f)
    PROVE  Rewritable(p)
<1>1. f \in Seq(Byte) /\ OneFrame(f) /\ ParseFixedHeader(f).error = "none"
  BY Zenon DEF ReadFrom, Within
<1>2. ParseFixedHeader(f).byte1 \in Byte /\ HeaderSize(f) \in 0..Len(f)
  BY <1>1, PartsOfFrame, Zenon
<1> QED
  BY <1>1, <1>2, ExactRewritable, Zenon DEF ReadFrom, ExactOf

(* The filters an application was given are byte strings, as are the topics. *)
LEMMA FiltersAndTopics ==
    ASSUME MadeInv
    PROVE  FiltersRead \subseteq Seq(Byte) /\ TopicsRead \subseteq Seq(Byte)
<1>1. DOMAIN got = 1..Len(got) /\ Text \subseteq Seq(Byte)
  BY StreamSizes DEF MadeInv, Text
<1>2. \A i \in DOMAIN got : got[i] \in PacketSet
  BY <1>1, MadeRewritable, Zenon DEF MadeInv, Rewritable
<1>3. ASSUME NEW p \in PacketSet, p.type = "Publish"
      PROVE  p.topic \in Seq(Byte)
  BY <1>1, <1>3, PublishTyped
<1>4. ASSUME NEW p \in PacketSet, p.type = "Subscribe", NEW j \in DOMAIN p.filters
      PROVE  p.filters[j].path \in Seq(Byte)
  <2>1. p.filters \in Seq([path : Text, qos : 0..2])
    BY <1>4, SubscribeFields
  <2>2. p.filters[j] \in [path : Text, qos : 0..2]
    <3> DEFINE s == p.filters
               S == [path : Text, qos : 0..2]
    <3>1. s \in Seq(S) /\ j \in DOMAIN s
      BY <1>4, <2>1
    <3> HIDE DEF s, S
    <3>2. s[j] \in S
      BY <3>1
    <3> QED
      BY <3>2 DEF s, S
  <2> QED
    BY <1>1, <2>2
<1>5. TopicsRead \subseteq Seq(Byte)
  <2> SUFFICES ASSUME NEW t \in TopicsRead
               PROVE  t \in Seq(Byte)
    OBVIOUS
  <2>1. PICK i \in DOMAIN got : got[i].type = "Publish" /\ t = got[i].topic
    BY Zenon DEF TopicsRead
  <2> QED
    BY <1>2, <1>3, <2>1, Zenon
<1>6. FiltersRead \subseteq Seq(Byte)
  <2> SUFFICES ASSUME NEW t \in FiltersRead
               PROVE  t \in Seq(Byte)
    OBVIOUS
  <2>1. PICK i \in DOMAIN got : /\ got[i].type = "Subscribe"
                               /\ t \in {got[i].filters[j].path : j \in DOMAIN got[i].filters}
    BY Zenon DEF FiltersRead
  <2>2. PICK j \in DOMAIN got[i].filters : t = got[i].filters[j].path
    BY <2>1, Zenon
  <2> QED
    BY <1>2, <1>4, <2>1, <2>2, Zenon
<1> QED
  BY <1>5, <1>6

(***************************************************************************)
(* Of the filters that were read, from whatever frames, those taken to be  *)
(* valid are those MQTT allows; such a filter matches the topics read that *)
(* MQTT says it matches, and one that matches another covers all topics    *)
(* the other covers (valid_filter, matches).                               *)
(***************************************************************************)
THEOREM FiltersMatch == Spec => []FiltersMatchTopics
<1>1. MadeInv => FiltersMatchTopics
  <2> SUFFICES ASSUME MadeInv, NEW f \in FiltersRead
               PROVE  /\ ValidFilter(f) <=> WellFormed(f)
                      /\ ValidFilter(f) =>
                           \A t \in TopicsRead :
                               /\ Ordinary(t) => (Matches(t, f) <=> Covers(f, t))
                               /\ \A g \in FiltersRead :
                                     ValidFilter(g) /\ Ordinary(t) /\ Matches(g, f) /\ Covers(g, t)
                                        => Covers(f, t)
    BY Zenon DEF FiltersMatchTopics
  <2>1. FiltersRead \subseteq Seq(Byte) /\ TopicsRead \subseteq Seq(Byte)
    BY FiltersAndTopics
  <2>2. f \in Seq(Byte)
    BY <2>1
  <2>3. \A g \in FiltersRead : g \in Seq(Byte) /\ (ValidFilter(g) <=> WellFormed(g))
    BY <2>1, ValidMeansWellFormed, Zenon
  <2>4. ASSUME ValidFilter(f), NEW t \in TopicsRead
        PROVE  /\ Ordinary(t) => (Matches(t, f) <=> Covers(f, t))
               /\ \A g \in FiltersRead :
                     ValidFilter(g) /\ Ordinary(t) /\ Matches(g, f) /\ Covers(g, t) => Covers(f, t)
    <3>1. WellFormed(f) /\ t \in Seq(Byte)
      BY <2>1, <2>3, <2>4, Zenon
    <3>2. Ordinary(t) => (Matches(t, f) <=> Covers(f, t))
      BY <2>2, <3>1, MatchesMeansCovers, Zenon
    <3>3. \A g \in FiltersRead :
             ValidFilter(g) /\ Ordinary(t) /\ Matches(g, f) /\ Covers(g, t) => Covers(f, t)
      BY <2>2, <2>3, <3>1, MatchesCarriesOver, Zenon
    <3> QED
      BY <3>2, <3>3
  <2> QED
    BY <2>3, <2>4, Zenon
<1> QED
  BY <1>1, MadeAlways, PTL

-----------------------------------------------------------------------------
(* A writer that puts an identifier and a list of texts. *)
LEMMA ListAsV4 ==
    ASSUME NEW cap \in Nat, cap <= MaxRemaining, NEW b1 \in Byte, NEW n \in Nat,
           NEW pkid \in Nat, NEW list \in Seq(PutSet),
           NEW puts, puts = <<Put(<<b1>>), PutLength(n), Put(U16(pkid))>> \o list,
           Write(cap, puts).error = "none", ListOf(b1, n, pkid, list, Write(cap, puts).bytes),
           NEW q, V4Packet(q) = puts, V4Len(q) = n
    PROVE  AsV4(q, Write(cap, puts).bytes)
<1> DEFINE a == Put(<<b1>>)
           b == PutLength(n)
           c == Put(U16(pkid))
<1>1. a \in PutSet /\ b \in PutSet /\ c \in PutSet
  <2>1. a \in PutSet /\ c \in PutSet
    BY SomeBytes, Zenon
  <2> QED
    BY <2>1, PutLengthTyped, Zenon
<1>2. puts = <<a, b>> \o (<<c>> \o list)
  <2>1. puts = <<a, b, c>> \o list
    OBVIOUS
  <2> HIDE DEF a, b, c
  <2> QED
    BY <1>1, <2>1, AfterThree, Zenon
<1>3. puts \in Seq(PutSet)
  <2>1. <<c>> \o list \in Seq(PutSet)
    BY <1>1, PutsCons, Zenon
  <2> QED
    BY <1>2, <2>1, HeadedTyped, Zenon
<1>4. PICK z \in Seq(Byte) :
          /\ U16(pkid) \o z \in Seq(Byte) /\ Len(U16(pkid) \o z) = n
          /\ Write(cap, puts).bytes = FrameBytes(b1, n, U16(pkid) \o z)
  BY Zenon DEF ListOf
<1>5. n <= MaxRemaining
  BY Zenon DEF ListOf
<1> QED
  BY <1>3, <1>4, <1>5, WrittenAsV4, Zenon

(* SubscribePacket. *)
LEMMA SubscribeAsV4 ==
    ASSUME NEW cap \in Nat, cap <= MaxRemaining, NEW p \in PacketSet, p.type = "Subscribe",
           WriteSubscribePacket(p, cap).error = "none"
    PROVE  AsV4(p, WriteSubscribePacket(p, cap).bytes)
<1>1. PICK b1 : b1 = 130
  OBVIOUS
<1>2. b1 \in Byte /\ p.pkid \in Nat
  <2>1. p.pkid \in Word16
    BY SubscribeFields
  <2> QED
    BY <1>1, <2>1, WordIsNat DEF Byte
<1> DEFINE n == SubscribeLen(p)
           puts == <<Put(<<b1>>), PutLength(n), Put(U16(p.pkid))>> \o FilterPuts(p)
<1>3. WriteSubscribePacket(p, cap) = Write(cap, puts)
  BY <1>1, Zenon DEF WriteSubscribePacket, FilterPuts
<1>4. ListOf(b1, n, p.pkid, FilterPuts(p), Write(cap, puts).bytes)
  BY <1>1, <1>3, SubscribeListed, Zenon
<1>5. FilterPuts(p) \in Seq(PutSet) /\ n \in Nat
  BY PutsOfFilters, Zenon
<1>6. V4Packet(p) = puts
  <2>1. V4Packet(p) = V4WriteSubscribe(p)
    BY DomainsOfV4 DEF V4Packet
  <2>2. V4SubscribeLen(p) = n
    BY Zenon DEF V4SubscribeLen, SubscribeLen
  <2> HIDE DEF n
  <2>3. V4WriteSubscribe(p) = puts
    BY <1>1, <2>2, Zenon DEF V4WriteSubscribe, FilterPuts, FilterBytes
  <2> QED
    BY <2>1, <2>3, Zenon
<1>7. V4Len(p) = n
  <2>1. V4Len(p) = V4SubscribeLen(p)
    BY DEF V4Len
  <2> QED
    BY <2>1, Zenon DEF V4SubscribeLen, SubscribeLen
<1>8. Write(cap, puts).error = "none"
  BY <1>3, Zenon
<1> HIDE DEF n
<1>9. AsV4(p, Write(cap, puts).bytes)
  <2>1. PICK s : s = puts
    OBVIOUS
  <2> HIDE DEF puts
  <2>2. AsV4(p, Write(cap, s).bytes)
    <3>1. s = <<Put(<<b1>>), PutLength(n), Put(U16(p.pkid))>> \o FilterPuts(p)
      BY <2>1, Zenon DEF puts
    <3>2. /\ Write(cap, s).error = "none" /\ V4Packet(p) = s
          /\ ListOf(b1, n, p.pkid, FilterPuts(p), Write(cap, s).bytes)
      BY <1>4, <1>6, <1>8, <2>1, Zenon
    <3> QED
      BY <1>2, <1>5, <1>7, <3>1, <3>2, ListAsV4, Zenon
  <2> QED
    BY <2>1, <2>2, Zenon
<1> QED
  BY <1>3, <1>9, Zenon

(* Unsubscribe. *)
LEMMA UnsubscribeAsV4 ==
    ASSUME NEW cap \in Nat, cap <= MaxRemaining, NEW p \in PacketSet, p.type = "Unsubscribe",
           WriteUnsubscribe(p, cap).error = "none"
    PROVE  AsV4(p, WriteUnsubscribe(p, cap).bytes)
<1>1. PICK b1 : b1 = 162
  OBVIOUS
<1>2. b1 \in Byte /\ p.pkid \in Nat
  <2>1. p.pkid \in Word16
    BY UnsubscribeFields
  <2> QED
    BY <1>1, <2>1, WordIsNat DEF Byte
<1> DEFINE n == UnsubscribeLen(p)
           puts == <<Put(<<b1>>), PutLength(n), Put(U16(p.pkid))>> \o TopicPuts(p)
<1>3. WriteUnsubscribe(p, cap) = Write(cap, puts)
  BY <1>1, Zenon DEF WriteUnsubscribe, TopicPuts
<1>4. ListOf(b1, n, p.pkid, TopicPuts(p), Write(cap, puts).bytes)
  BY <1>1, <1>3, UnsubscribeListed, Zenon
<1>5. TopicPuts(p) \in Seq(PutSet) /\ n \in Nat
  BY PutsOfTopics, Zenon
<1>6. V4Packet(p) = puts
  <2>1. V4Packet(p) = V4WriteUnsubscribe(p)
    BY DomainsOfV4 DEF V4Packet
  <2>2. V4UnsubscribeLen(p) = n
    BY Zenon DEF V4UnsubscribeLen, UnsubscribeLen
  <2> HIDE DEF n
  <2>3. V4WriteUnsubscribe(p) = puts
    BY <1>1, <2>2, Zenon DEF V4WriteUnsubscribe, TopicPuts
  <2> QED
    BY <2>1, <2>3, Zenon
<1>7. V4Len(p) = n
  <2>1. V4Len(p) = V4UnsubscribeLen(p)
    BY DEF V4Len
  <2> QED
    BY <2>1, Zenon DEF V4UnsubscribeLen, UnsubscribeLen
<1>8. Write(cap, puts).error = "none"
  BY <1>3, Zenon
<1> HIDE DEF n
<1>9. AsV4(p, Write(cap, puts).bytes)
  <2>1. PICK s : s = puts
    OBVIOUS
  <2> HIDE DEF puts
  <2>2. AsV4(p, Write(cap, s).bytes)
    <3>1. s = <<Put(<<b1>>), PutLength(n), Put(U16(p.pkid))>> \o TopicPuts(p)
      BY <2>1, Zenon DEF puts
    <3>2. /\ Write(cap, s).error = "none" /\ V4Packet(p) = s
          /\ ListOf(b1, n, p.pkid, TopicPuts(p), Write(cap, s).bytes)
      BY <1>4, <1>6, <1>8, <2>1, Zenon
    <3> QED
      BY <1>2, <1>5, <1>7, <3>1, <3>2, ListAsV4, Zenon
  <2> QED
    BY <2>1, <2>2, Zenon
<1> QED
  BY <1>3, <1>9, Zenon

-----------------------------------------------------------------------------
(* Filters that were put into a buffer one by one are those of the packet. *)
LEMMA InPlaceSame ==
    ASSUME NEW p \in PacketSet, p.type = "Subscribe", NEW texts \in AddedTexts(p),
           NEW z, Joined(InPlacePuts(p, texts), z)
    PROVE  InPlacePuts(p, texts) = FilterPuts(p)
<1> DEFINE fs == p.filters
           puts == InPlacePuts(p, texts)
<1>1. fs \in Seq(FilterSet)
  BY SubscribeFields DEF FilterSet
<1>2. Len(fs) \in Nat /\ DOMAIN fs = 1..Len(fs) /\ \A i \in DOMAIN fs : fs[i] \in FilterSet
  BY <1>1
<1>3. puts = [i \in DOMAIN fs |->
                IF Len(fs[i].path) > MaxWord THEN Fail("PayloadTooLong") ELSE Put(texts[i])]
  BY Zenon DEF InPlacePuts
<1>4. puts \in Seq(PutSet)
  BY PutsInPlace DEF InPlacePuts
<1> HIDE DEF puts, fs
<1>5. Len(puts) = Len(fs)
  <2>1. DOMAIN puts = 1..Len(fs) /\ Len(fs) \in Nat
    BY <1>2, <1>3
  <2> QED
    BY <1>4, <2>1
<1>6. \A i \in DOMAIN fs : puts[i].error = "none"
  <2>1. PICK w : Growth(w, puts, z)
    BY Zenon DEF Joined, puts
  <2>2. \A i \in 1..Len(puts) : puts[i].error = "none"
    BY <2>1, Zenon DEF Growth
  <2> QED
    BY <1>2, <1>5, <2>2, Zenon
<1>7. \A i \in DOMAIN fs : ~(Len(fs[i].path) > MaxWord) /\ puts[i] = Put(texts[i])
  <2> SUFFICES ASSUME NEW i \in DOMAIN fs
               PROVE  ~(Len(fs[i].path) > MaxWord) /\ puts[i] = Put(texts[i])
    OBVIOUS
  <2>1. puts[i] = IF Len(fs[i].path) > MaxWord THEN Fail("PayloadTooLong") ELSE Put(texts[i])
    BY <1>3, Zenon
  <2>2. Fail("PayloadTooLong").error # "none"
    BY DEF Fail
  <2> QED
    BY <1>6, <2>1, <2>2, Zenon
<1>8. \A i \in DOMAIN fs : Len(fs[i].path) <= MaxWord
  <2>1. \A i \in DOMAIN fs : Len(fs[i].path) \in Nat
    BY <1>2, FilterTyped
  <2>2. \A m \in Nat : ~(m > MaxWord) => m <= MaxWord
    BY MaxWordIsNat
  <2> QED
    BY <1>7, <2>1, <2>2, Zenon
<1>9. \A i \in DOMAIN fs : puts[i].bytes = FilterBytes(fs[i])
  BY <1>8, InPlaceBytes, Zenon DEF puts, fs
<1>10. \A i \in DOMAIN fs : puts[i] = Put(FilterBytes(fs[i]))
  BY <1>7, <1>9, PutParts, Zenon
<1>11. puts = [i \in DOMAIN fs |-> puts[i]]
  <2>1. puts = [i \in DOMAIN puts |-> puts[i]]
    BY <1>4
  <2>2. DOMAIN puts = DOMAIN fs
    BY <1>3
  <2> QED
    BY <2>1, <2>2, Zenon
<1>12. [i \in DOMAIN fs |-> puts[i]] = [i \in DOMAIN fs |-> Put(FilterBytes(fs[i]))]
  BY <1>10, Zenon
<1>13. puts = FilterPuts(p)
  BY <1>11, <1>12, Zenon DEF FilterPuts, fs
<1> QED
  BY <1>13, Zenon DEF puts

(* The fixed header and the identifier take seven bytes at most. *)
LEMMA InPlaceWithin ==
    ASSUME NEW cap \in Nat, NEW p \in PacketSet, p.type = "Subscribe", NEW texts \in AddedTexts(p),
           NEW w, w = WriteSubscribeInPlace(p, texts, cap), w.error = "none", w.bytes \in Seq(Byte)
    PROVE  Len(w.bytes) <= cap + 7
<1> DEFINE puts == InPlacePuts(p, texts)
           filters == Write(cap, puts)
           id == <<0, 1>>
           size == Len(filters.bytes)
           n == size + 2
<1>1. puts \in Seq(PutSet)
  BY PutsInPlace DEF InPlacePuts
<1>2. PICK b1, k : b1 = 130 /\ k = 7
  OBVIOUS
<1> DEFINE list == <<Put(<<b1>>), PutLength(n), Put(id), filters>>
<1>3. w = IF filters.error # "none" THEN filters ELSE Write(size + k, list)
  BY <1>2 DEF WriteSubscribeInPlace, InPlacePuts
<1> HIDE DEF puts
<1>4. filters.error = "none" /\ w = Write(size + k, list)
  <2> HIDE DEF filters, list
  <2> QED
    BY <1>3
<1>5. filters \in PutSet /\ size <= cap
  BY <1>1, <1>4, WriteJoins, WriteWithin, Zenon
<1> HIDE DEF filters
<1>6. size \in Nat /\ n \in Nat /\ size + k \in Nat
  <2>1. filters.bytes \in Seq(Byte)
    BY <1>5 DEF PutSet
  <2> QED
    BY <1>2, <2>1
<1>7. list \in Seq(PutSet)
  <2>1. id \in Seq(Byte) /\ b1 \in Byte
    BY <1>2 DEF Byte
  <2> DEFINE c == Put(id)
  <2>2. c \in PutSet
    BY <2>1, PutTyped, Zenon
  <2> HIDE DEF c, n
  <2>3. <<c, filters>> \in Seq(PutSet)
    BY <1>5, <2>2, Pair, Zenon
  <2>4. <<Put(<<b1>>), PutLength(n)>> \o <<c, filters>> \in Seq(PutSet)
    BY <1>6, <2>1, <2>3, HeadedTyped, Zenon
  <2>5. <<Put(<<b1>>), PutLength(n), c, filters>> = <<Put(<<b1>>), PutLength(n)>> \o <<c, filters>>
    BY SMT
  <2> QED
    BY <2>4, <2>5, Zenon DEF c
<1> HIDE DEF list
<1>8. Len(w.bytes) <= size + k
  BY <1>4, <1>6, <1>7, WriteWithin, Zenon
<1>9. Len(w.bytes) \in Nat
  OBVIOUS
<1> QED
  BY <1>2, <1>5, <1>6, <1>8, <1>9

(* The bytes are the frame that a first byte, a length and these puts make. *)
Framed(b1, n, body, bytes) == \E x : Whole(b1, n, body, x) /\ bytes = FrameBytes(b1, n, x)

(* A list that gives the bytes behind an identifier, and only those. *)
LEMMA ListWhole ==
    ASSUME NEW b1 \in Byte, NEW n, NEW pkid \in Nat, NEW list \in Seq(PutSet), NEW bytes,
           ListOf(b1, n, pkid, list, bytes)
    PROVE  Framed(b1, n, <<Put(U16(pkid))>> \o list, bytes)
<1> DEFINE u == U16(pkid)
           c == Put(u)
           body == <<c>> \o list
<1>1. /\ n \in Nat /\ n <= MaxRemaining
      /\ \E z \in Seq(Byte) : /\ Joined(list, z)
                              /\ u \o z \in Seq(Byte) /\ Len(u \o z) = n
                              /\ bytes = FrameBytes(b1, n, u \o z)
  BY Zenon DEF ListOf
<1>2. PICK z \in Seq(Byte) : /\ Joined(list, z)
                             /\ u \o z \in Seq(Byte) /\ Len(u \o z) = n
                             /\ bytes = FrameBytes(b1, n, u \o z)
  BY <1>1
<1>3. c \in PutSet /\ c.error = "none" /\ c.bytes = u
  BY SomeBytes, PutParts, Zenon
<1> HIDE DEF c, u
<1>4. Sound(list)
  BY <1>2, Zenon DEF Joined, Growth, Sound
<1>5. Only(list, z)
  BY <1>2, JoinedUnique, Zenon DEF Only
<1>6. Only(body, u \o z)
  BY <1>3, <1>5, JoinedFront, Zenon
<1>7. Sound(body)
  <2>1. /\ Len(list) \in Nat /\ \A i \in 1..Len(list) : list[i].error = "none"
    BY <1>4 DEF Sound
  <2>2. body \in Seq(PutSet)
    BY <1>3, PutsCons, Zenon
  <2>3. <<c>> \in Seq(PutSet) /\ Len(<<c>>) = 1 /\ <<c>>[1] = c
    BY <1>3
  <2>4. /\ Len(body) = Len(<<c>>) + Len(list)
        /\ \A i \in 1..(Len(<<c>>) + Len(list)) :
              body[i] = IF i <= Len(<<c>>) THEN <<c>>[i] ELSE list[i - Len(<<c>>)]
    BY <2>3, ConcatProperties
  <2> HIDE DEF body
  <2>5. ASSUME NEW i \in 1..Len(body)
        PROVE  body[i].error = "none"
    <3>1. body[i] = IF i <= 1 THEN <<c>>[i] ELSE list[i - 1]
      BY <2>3, <2>4
    <3>2. i = 1 \/ (~(i <= 1) /\ i - 1 \in 1..Len(list))
      BY <2>1, <2>3, <2>4
    <3>3. 1 <= 1
      OBVIOUS
    <3> QED
      BY <1>3, <2>1, <2>3, <3>1, <3>2, <3>3, Zenon
  <2> QED
    BY <2>2, <2>5, Zenon DEF Sound
<1>8. Whole(b1, n, body, u \o z)
  BY <1>1, <1>2, <1>6, <1>7, Zenon DEF Whole
<1>9. Framed(b1, n, body, bytes)
  BY <1>2, <1>8, Zenon DEF Framed
<1> QED
  BY <1>9, Zenon DEF c, u

(* SubscribeWriter and NanoClient::write_subscribe. *)
LEMMA InPlaceAsV4 ==
    ASSUME NEW cap \in Nat, cap + 7 <= MaxRemaining, NEW p \in PacketSet, p.type = "Subscribe",
           NEW texts \in AddedTexts(p), WriteSubscribeInPlace(p, texts, cap).error = "none"
    PROVE  AsV4(p, WriteSubscribeInPlace(p, texts, cap).bytes)
<1>1. PICK b1, w : b1 = 130 /\ w = WriteSubscribeInPlace(p, texts, cap)
  OBVIOUS
<1>2. b1 \in Byte /\ p.pkid \in Nat
  <2>1. p.pkid \in Word16
    BY SubscribeFields
  <2> QED
    BY <1>1, <2>1, WordIsNat DEF Byte
<1>3. PICK n : ListOf(b1, n, p.pkid, InPlacePuts(p, texts), w.bytes)
  BY <1>1, InPlaceListed, Zenon
<1>4. PICK z : Joined(InPlacePuts(p, texts), z) /\ z \in Seq(Byte) /\ Len(U16(p.pkid) \o z) = n
  BY <1>3, Zenon DEF ListOf
<1>5. InPlacePuts(p, texts) = FilterPuts(p)
  BY <1>4, InPlaceSame, Zenon
<1>6. FilterPuts(p) \in Seq(PutSet)
  BY PutsOfFilters, Zenon
<1>7. n = SubscribeLen(p)
  <2>1. 2 + Len(z) = SubscribeLen(p)
    BY <1>4, <1>5, PutsOfFilters, Zenon DEF Spans
  <2>2. U16(p.pkid) \in Seq(Byte) /\ Len(U16(p.pkid)) = 2
    BY <1>2, SomeBytes, Zenon
  <2>3. Len(U16(p.pkid) \o z) = Len(U16(p.pkid)) + Len(z)
    BY <1>4, <2>2, ConcatTyped, Zenon
  <2> QED
    BY <1>4, <2>1, <2>2, <2>3, Zenon
<1> DEFINE c == Put(U16(p.pkid))
<1>8. PICK x : Whole(b1, n, <<c>> \o FilterPuts(p), x) /\ w.bytes = FrameBytes(b1, n, x)
  <2>1. ListOf(b1, n, p.pkid, FilterPuts(p), w.bytes)
    BY <1>3, <1>5, Zenon
  <2>2. Framed(b1, n, <<c>> \o FilterPuts(p), w.bytes)
    BY <1>2, <1>6, <2>1, ListWhole, Zenon
  <2> QED
    BY <2>2, Zenon DEF Framed
<1>9. Len(FrameBytes(b1, n, x)) <= MaxRemaining
  <2>1. w.bytes \in Seq(Byte)
    BY <1>8, FrameLength, Zenon DEF Whole
  <2>2. Len(w.bytes) <= cap + 7
    BY <1>1, <2>1, InPlaceWithin, Zenon
  <2>3. Len(w.bytes) \in Nat
    BY <2>1
  <2>4. Len(w.bytes) <= MaxRemaining
    BY ONLY <2>2, <2>3, cap \in Nat, cap + 7 <= MaxRemaining, SMT DEF MaxRemaining
  <2> QED
    BY <1>8, <2>4, Zenon
<1>10. V4Packet(p) = <<Put(<<b1>>), PutLength(n)>> \o (<<c>> \o FilterPuts(p))
  <2>1. V4Packet(p) = V4WriteSubscribe(p)
    BY DomainsOfV4 DEF V4Packet
  <2>2. V4SubscribeLen(p) = n
    BY <1>7, Zenon DEF V4SubscribeLen, SubscribeLen
  <2>3. V4WriteSubscribe(p) = <<Put(<<b1>>), PutLength(n), c>> \o FilterPuts(p)
    BY <1>1, <2>2, Zenon DEF V4WriteSubscribe, FilterPuts, FilterBytes
  <2> DEFINE a == Put(<<b1>>)
             b == PutLength(n)
  <2>4. a \in PutSet /\ b \in PutSet /\ c \in PutSet
    <3>1. a \in PutSet /\ c \in PutSet
      BY <1>2, SomeBytes, Zenon
    <3>2. n \in Nat
      BY <1>8, Zenon DEF Whole
    <3> QED
      BY <3>1, <3>2, PutLengthTyped, Zenon
  <2> HIDE DEF a, b, c
  <2>5. ASSUME NEW list \in Seq(PutSet)
        PROVE  <<a, b, c>> \o list = <<a, b>> \o (<<c>> \o list)
    BY ONLY <2>4, AfterThree, Zenon
  <2>6. <<a, b, c>> \o FilterPuts(p) = <<a, b>> \o (<<c>> \o FilterPuts(p))
    BY <1>6, <2>5
  <2> QED
    BY <2>1, <2>3, <2>6, Zenon DEF a, b
<1>11. V4Len(p) = n
  <2>1. V4Len(p) = V4SubscribeLen(p)
    BY DEF V4Len
  <2> QED
    BY <1>7, <2>1, Zenon DEF V4SubscribeLen, SubscribeLen
<1> HIDE DEF c
<1>12. AsV4(p, FrameBytes(b1, n, x))
  BY <1>8, <1>9, <1>10, <1>11, WholeAsV4, Zenon
<1> QED
  BY <1>1, <1>8, <1>12, Zenon

-----------------------------------------------------------------------------
(* Both count the bytes of a will and of a login alike. *)
LEMMA ConnectLenSame ==
    ASSUME NEW p \in PacketSet, p.type = "Connect"
    PROVE  V4ConnectLen(p) = ConnectLen(p)
<1> DEFINE w == p.last_will
           l == p.login
           x == Len(p.client_id)
           y == IF w = << >> THEN 0 ELSE WillLen(w[1])
           z == IF l = << >> THEN 0 ELSE LoginLen(l[1])
<1>1. x \in Nat /\ w \in Optional(WillSet) /\ l \in Optional(LoginSet)
  <2>1. p.client_id \in Text /\ w \in Optional(WillSet) /\ l \in Optional(LoginSet)
    BY ConnectFields
  <2> QED
    BY <2>1, TextIsBytes
<1>2. y \in Nat /\ z \in Nat
  <2>1. Len(WillBytes(p)) = y /\ Len(LoginBytes(p)) = z
    BY WillWritten, LoginWritten, Zenon
  <2>2. WillBytes(p) \in Seq(Byte) /\ LoginBytes(p) \in Seq(Byte)
    BY WillWritten, LoginWritten, Zenon
  <2>3. Len(WillBytes(p)) \in Nat /\ Len(LoginBytes(p)) \in Nat
    BY <2>2
  <2> QED
    BY <2>1, <2>3, Zenon
<1>3. (IF w = << >> THEN 0 ELSE V4WillLen(w[1])) = y
  <2>1. CASE w = << >>
    BY <2>1
  <2>2. CASE w # << >>
    <3>1. w[1] \in WillSet
      BY <1>1, <2>2, OptionalFirst, Zenon
    <3>2. Len(w[1].topic) \in Nat /\ Len(w[1].message) \in Nat
      <4>1. PICK v : v = w[1]
        OBVIOUS
      <4>2. v.topic \in Text /\ v.message \in Seq(Byte)
        BY <3>1, <4>1 DEF WillSet
      <4>3. v.topic \in Seq(Byte)
        BY <4>2, TextIsBytes
      <4>4. Len(v.topic) \in Nat /\ Len(v.message) \in Nat
        BY ONLY <4>2, <4>3
      <4> QED
        BY <4>1, <4>4, Zenon
    <3>3. V4WillLen(w[1]) = WillLen(w[1])
      <4>1. \A i, j \in Nat : (2 + i) + (2 + j) = 2 + i + 2 + j
        OBVIOUS
      <4> QED
        BY <3>2, <4>1, Zenon DEF V4WillLen, V4StringLen, WillLen
    <3> QED
      BY <2>2, <3>3, Zenon
  <2> QED
    BY <2>1, <2>2, Zenon
<1>4. (IF l = << >> THEN 0 ELSE V4LoginLen(l[1])) = z
  <2>1. V4LoginLen(l[1]) = LoginLen(l[1])
    <3> DEFINE u == l[1].username
               v == l[1].password
    <3>1. V4Flag(u # << >>, V4StringLen(u)) = IF u = << >> THEN 0 ELSE 2 + Len(u)
      BY Zenon DEF V4Flag, V4StringLen
    <3>2. V4Flag(v # << >>, V4StringLen(v)) = IF v = << >> THEN 0 ELSE 2 + Len(v)
      BY Zenon DEF V4Flag, V4StringLen
    <3> QED
      BY <3>1, <3>2, Zenon DEF V4LoginLen, LoginLen
  <2> QED
    BY <2>1, Zenon
<1>5. V4ConnectLen(p) = 2 + 4 + 1 + 1 + 2 + (2 + x) + y + z
  BY <1>3, <1>4, Zenon DEF V4ConnectLen, V4StringLen
<1>6. ConnectLen(p) = 2 + Len(MQTT) + 1 + 1 + 2 + 2 + x + y + z
  BY Zenon DEF ConnectLen
<1>7. Len(MQTT) = 4
  BY DEF MQTT
<1> HIDE DEF x, y, z, w, l
<1>8. \A i, j, k \in Nat : 2 + 4 + 1 + 1 + 2 + (2 + i) + j + k = 2 + 4 + 1 + 1 + 2 + 2 + i + j + k
  OBVIOUS
<1> QED
  <2>1. x \in Nat
    BY <1>1
  <2> QED
    BY ONLY <1>2, <1>5, <1>6, <1>7, <2>1, SMT

(* Both set the same flags. *)
LEMMA ConnectFlagsSame ==
    ASSUME NEW p
    PROVE  V4ConnectFlags(p) = ConnectFlags(p)
<1>1. \A c, n : V4Flag(c, n) = Flag(c, n)
  BY Zenon DEF V4Flag, Flag
<1>2. \A w : V4WillFlags(w) = WillFlags(w)
  BY <1>1, Zenon DEF V4WillFlags, WillFlags
<1>3. \A l : V4LoginFlags(l) = LoginFlags(l)
  BY <1>1, Zenon DEF V4LoginFlags, LoginFlags
<1> QED
  BY <1>1, <1>2, <1>3, Zenon DEF V4ConnectFlags, ConnectFlags

(* The puts of a Connect, in front of those of its will and its login. *)
ConnectPuts(p) ==
    (<<Put(<<16>>), PutLength(ConnectLen(p)), Put(MqttBytes(MQTT)), Put(<<p.protocol>>),
       Put(<<ConnectFlags(p)>>), Put(U16(p.keep_alive)), Put(MqttBytes(p.client_id))>>
     \o WillPuts(p)) \o LoginPuts(p)

(* Both put the same. *)
LEMMA ConnectPutsSame ==
    ASSUME NEW p \in PacketSet, p.type = "Connect"
    PROVE  V4Packet(p) = ConnectPuts(p) /\ V4Len(p) = ConnectLen(p)
<1>1. V4Packet(p) = V4WriteConnect(p) /\ V4Len(p) = V4ConnectLen(p)
  BY DomainsOfV4 DEF V4Packet, V4Len
<1>2. V4ConnectLen(p) = ConnectLen(p) /\ V4ConnectFlags(p) = ConnectFlags(p)
  BY ConnectLenSame, ConnectFlagsSame, Zenon
<1>3. (IF p.last_will = << >> THEN << >> ELSE V4WriteWill(p.last_will[1])) = WillPuts(p)
  BY Zenon DEF V4WriteWill, WillPuts, PutWill
<1>4. (IF p.login = << >> THEN << >> ELSE V4WriteLogin(p.login[1])) = LoginPuts(p)
  BY Zenon DEF V4WriteLogin, LoginPuts, PutLogin
<1>5. V4WriteConnect(p) = ConnectPuts(p)
  BY <1>2, <1>3, <1>4, Zenon DEF V4WriteConnect, ConnectPuts
<1> QED
  BY <1>1, <1>2, <1>5, Zenon

(* They are puts. *)
LEMMA ConnectPutsTyped ==
    ASSUME NEW p \in PacketSet, p.type = "Connect", ConnectLen(p) \in Nat
    PROVE  ConnectPuts(p) \in Seq(PutSet)
<1> DEFINE a == Put(<<16>>)
           b == PutLength(ConnectLen(p))
           c == Put(MqttBytes(MQTT))
           d == Put(<<p.protocol>>)
           e == Put(<<ConnectFlags(p)>>)
           f == Put(U16(p.keep_alive))
           g == Put(MqttBytes(p.client_id))
<1>1. p.client_id \in Seq(Byte) /\ p.keep_alive \in Nat /\ MQTT \in Seq(Byte)
  <2>1. p.client_id \in Text /\ p.keep_alive \in Word16
    BY ConnectFields
  <2>2. MQTT \in Seq(Byte)
    BY DEF MQTT, Byte
  <2> QED
    BY <2>1, <2>2, TextIsBytes, WordIsNat
<1>2. 16 \in Byte /\ p.protocol \in Byte /\ ConnectFlags(p) \in Byte
  <2>1. 16 \in Byte
    BY DEF Byte
  <2> QED
    BY <2>1, LevelTyped, ConnectFlagsTyped, Zenon
<1>3. /\ a \in PutSet /\ d \in PutSet /\ e \in PutSet /\ f \in PutSet
  BY <1>1, <1>2, SomeBytes, Zenon
<1>4. b \in PutSet
  BY PutLengthTyped, Zenon
<1>5. c \in PutSet /\ g \in PutSet
  <2>1. MqttBytes(MQTT) \in Seq(Byte) /\ MqttBytes(p.client_id) \in Seq(Byte)
    BY <1>1, MqttBytesTyped, Zenon
  <2> QED
    BY <2>1, PutTyped, Zenon
<1> HIDE DEF a, b, c, d, e, f, g
<1>6. <<a, b, c, d, e, f, g>> \in Seq(PutSet)
  BY <1>3, <1>4, <1>5
<1>7. WillPuts(p) \in Seq(PutSet) /\ LoginPuts(p) \in Seq(PutSet)
  BY WillWritten, LoginWritten, Zenon
<1> DEFINE h == <<a, b, c, d, e, f, g>>
<1> HIDE DEF h
<1>8. (h \o WillPuts(p)) \o LoginPuts(p) \in Seq(PutSet)
  <2>1. h \in Seq(PutSet)
    BY <1>6 DEF h
  <2>2. h \o WillPuts(p) \in Seq(PutSet)
    BY <1>7, <2>1, PutsTyped, Zenon
  <2> QED
    BY <1>7, <2>2, PutsTyped, Zenon
<1>9. ConnectPuts(p) = (h \o WillPuts(p)) \o LoginPuts(p)
  BY Zenon DEF ConnectPuts, h, a, b, c, d, e, f, g
<1> QED
  BY <1>8, <1>9, Zenon

(* Connect. *)
LEMMA ConnectAsV4 ==
    ASSUME NEW cap \in Nat, cap <= MaxRemaining, NEW p \in PacketSet, p.type = "Connect",
           WriteConnectPacket(p, cap).error = "none"
    PROVE  AsV4(p, WriteConnectPacket(p, cap).bytes)
<1>1. PICK b1, w, n : b1 = 16 /\ w = WriteConnectPacket(p, cap) /\ n = ConnectLen(p)
  OBVIOUS
<1>2. /\ ConnectBody(p) \in Seq(Byte) /\ Len(ConnectBody(p)) = n
      /\ n \in Nat /\ n <= MaxRemaining
      /\ w.bytes = FrameBytes(b1, n, ConnectBody(p))
  BY <1>1, ConnectFrame
<1>3. b1 \in Byte
  BY <1>1 DEF Byte
<1>4. ConnectPuts(p) \in Seq(PutSet)
  BY <1>1, <1>2, ConnectPutsTyped, Zenon
<1>5. w = Write(cap, ConnectPuts(p))
  BY <1>1, Zenon DEF WriteConnectPacket, ConnectPuts, WillPuts, LoginPuts
<1>6. PICK q : q = p /\ V4Packet(q) = ConnectPuts(p) /\ V4Len(q) = n
  BY <1>1, ConnectPutsSame, Zenon
<1>7. PICK puts : puts = ConnectPuts(p)
  OBVIOUS
<1>8. /\ puts \in Seq(PutSet) /\ V4Packet(q) = puts /\ w = Write(cap, puts)
      /\ Write(cap, puts).error = "none"
      /\ Write(cap, puts).bytes = FrameBytes(b1, n, ConnectBody(p))
  BY <1>1, <1>2, <1>4, <1>5, <1>6, <1>7, Zenon
<1>9. AsV4(q, Write(cap, puts).bytes)
  BY <1>2, <1>3, <1>6, <1>8, WrittenAsV4, Zenon
<1> QED
  BY <1>1, <1>6, <1>8, <1>9, Zenon

-----------------------------------------------------------------------------
(* Whichever way a Publish is written. *)
LEMMA PublishSame ==
    ASSUME NEW cap \in Nat, cap <= MaxRemaining, NEW p \in PacketSet, p.type = "Publish",
           NEW w \in Writes(p, cap), w.error = "none"
    PROVE  AsV4(p, w.bytes)
<1>0. Writes(p, cap) = {WritePublish(p, cap), WriteOutPublish(p, <<p.topic>>, cap),
               WriteOutPublish(p, TopicItems(Levels(p.topic)), cap)}
  BY DomainsOfBytes1 DEF Writes, AckTypes
<1>1. w \in {WritePublish(p, cap), WriteOutPublish(p, <<p.topic>>, cap),
             WriteOutPublish(p, TopicItems(Levels(p.topic)), cap)}
  BY <1>0
<1> DEFINE items == TopicItems(Levels(p.topic))
<1>2. p.topic \in Seq(Byte)
  BY PublishTyped
<1>3. CASE w = WritePublish(p, cap)
  BY <1>3, PublishAsV4, Zenon
<1>4. ASSUME NEW strings \in Seq(Seq(Byte)), FlattenSeq(strings) = p.topic,
             w = WriteOutPublish(p, strings, cap)
      PROVE  AsV4(p, w.bytes)
  BY <1>4, OutPublishAsV4, Zenon
<1>5. <<p.topic>> \in Seq(Seq(Byte)) /\ FlattenSeq(<<p.topic>>) = p.topic
  BY <1>2, FlattenOne, Zenon DEF Strings
<1>6. items \in Seq(Seq(Byte)) /\ FlattenSeq(items) = p.topic
  BY <1>2, TopicJoined, Zenon
<1> QED
  BY <1>1, <1>3, <1>4, <1>5, <1>6, Zenon

(* Whichever way a packet is written, mqttbytes wrote the same. *)
LEMMA WritesSame ==
    ASSUME NEW cap \in Nat, cap + 7 <= MaxRemaining,
           NEW p \in PacketSet, NEW w \in Writes(p, cap), w.error = "none"
    PROVE  AsV4(p, w.bytes)
<1>0. cap <= MaxRemaining
  BY SMT DEF MaxRemaining
<1>1. CASE p.type = "Connect"
  <2>1. Writes(p, cap) = {WriteConnectPacket(p, cap)}
    BY <1>1, DomainsOfBytes1 DEF Writes, AckTypes
  <2>2. w = WriteConnectPacket(p, cap)
    BY <2>1
  <2> QED
    BY <1>0, <1>1, <2>2, ConnectAsV4, Zenon
<1>2. CASE p.type = "ConnAck"
  <2>1. Writes(p, cap) = {WriteConnAck(p, cap)}
    BY <1>2, DomainsOfBytes1 DEF Writes, AckTypes
  <2>2. w = WriteConnAck(p, cap)
    BY <1>2, <2>1
  <2> QED
    BY <1>0, <1>2, <2>2, ConnAckAsV4, Zenon
<1>3. CASE p.type = "Publish"
  BY <1>0, <1>3, PublishSame, Zenon
<1>4. CASE p.type = "Subscribe"
  <2>1. Writes(p, cap) = {WriteSubscribePacket(p, cap)} \cup
              {WriteSubscribeInPlace(p, texts, cap) : texts \in AddedTexts(p)}
    BY <1>4, DomainsOfBytes1 DEF Writes, AckTypes
  <2>2. w \in {WriteSubscribePacket(p, cap)} \cup
              {WriteSubscribeInPlace(p, texts, cap) : texts \in AddedTexts(p)}
    BY <2>1
  <2>3. ASSUME w = WriteSubscribePacket(p, cap)
        PROVE  AsV4(p, w.bytes)
    <3>1. WriteSubscribePacket(p, cap).error = "none"
      BY <2>3, Zenon
    <3>2. AsV4(p, WriteSubscribePacket(p, cap).bytes)
      BY <1>0, <1>4, <3>1, SubscribeAsV4, Zenon
    <3> QED
      BY <2>3, <3>2, Zenon
  <2>4. ASSUME NEW texts \in AddedTexts(p), w = WriteSubscribeInPlace(p, texts, cap)
        PROVE  AsV4(p, w.bytes)
    BY <1>4, <2>4, InPlaceAsV4, Zenon
  <2> QED
    BY <2>2, <2>3, <2>4
<1>5. CASE p.type = "SubAck"
  <2>1. Writes(p, cap) = {WriteSubAck(p, cap)}
    BY <1>5, DomainsOfBytes1 DEF Writes, AckTypes
  <2>2. w = WriteSubAck(p, cap)
    BY <1>5, <2>1
  <2> QED
    BY <1>0, <1>5, <2>2, SubAckAsV4, Zenon
<1>6. CASE p.type = "Unsubscribe"
  <2>1. Writes(p, cap) = {WriteUnsubscribe(p, cap)}
    BY <1>6, DomainsOfBytes1 DEF Writes, AckTypes
  <2>2. w = WriteUnsubscribe(p, cap)
    BY <1>6, <2>1
  <2> QED
    BY <1>0, <1>6, <2>2, UnsubscribeAsV4, Zenon
<1>7. CASE p.type \in AckTypes
  <2>1. Writes(p, cap) = {WriteAck(p, cap)}
    BY <1>7, DomainsOfBytes1 DEF Writes, AckTypes
  <2>2. w = WriteAck(p, cap)
    BY <1>7, <2>1 DEF AckTypes
  <2>3. CASE p.type = "UnsubAck"
    BY <1>0, <2>2, <2>3, UnsubAckAsV4, Zenon
  <2>4. CASE p.type # "UnsubAck"
    BY <1>0, <1>7, <2>2, <2>4, AckAsV4, Zenon
  <2> QED
    BY <2>3, <2>4
<1>8. CASE p.type \in {"PingReq", "PingResp", "Disconnect"}
  <2>1. Writes(p, cap) = {WriteEmpty(p, cap)}
    BY <1>8, DomainsOfBytes1 DEF Writes, AckTypes
  <2>2. w = WriteEmpty(p, cap)
    BY <1>8, <2>1
  <2> QED
    BY <1>0, <1>8, <2>2, EmptyAsV4, Zenon
<1> QED
  BY <1>1, <1>2, <1>3, <1>4, <1>5, <1>6, <1>7, <1>8, TypesOfPackets

-----------------------------------------------------------------------------
(* What was sent of a packet is what mqttbytes would have sent. *)
SentAlike(e) == \A j \in DOMAIN e.packet : AsV4(e.packet[j], e.frame)

AlikeInv ==
    /\ sent \in Seq(SentSet)
    /\ \A i \in 1..Len(sent) : SentAlike(sent[i])

(* What the writers made of a packet. *)
LEMMA WrittenIsAlike ==
    ASSUME \A cap \in Capacities : cap + 7 <= MaxRemaining, NEW w \in Written
    PROVE  SentAlike([frame |-> w.bytes, packet |-> <<w.packet>>])
<1>1. PICK p \in Packets, cap \in Capacities :
          w \in {[bytes |-> x.bytes, packet |-> p] : x \in {v \in Writes(p, cap) : v.error = "none"}}
  BY SMT DEF Written
<1>2. PICK v \in Writes(p, cap) : v.error = "none" /\ w = [bytes |-> v.bytes, packet |-> p]
  BY <1>1, Zenon
<1>3. p \in PacketSet /\ cap \in Nat /\ cap + 7 <= MaxRemaining
  BY StreamAssumption, Zenon
<1>4. AsV4(p, v.bytes)
  BY <1>2, <1>3, WritesSame, Zenon
<1>5. w.bytes = v.bytes /\ w.packet = p
  BY <1>2
<1> DEFINE e == [frame |-> w.bytes, packet |-> <<w.packet>>]
<1>6. e.frame = v.bytes /\ e.packet = <<p>>
  BY <1>5
<1>7. \A j \in DOMAIN <<p>> : <<p>>[j] = p
  OBVIOUS
<1> HIDE DEF e
<1>8. SentAlike(e)
  BY <1>4, <1>6, <1>7, Zenon DEF SentAlike
<1> QED
  BY <1>8 DEF e

(* A frame more is sent. *)
LEMMA TransferAlike ==
    ASSUME AlikeInv, NEW bytes, NEW packet, Transfer(bytes, packet), StreamInv',
           SentAlike([frame |-> bytes, packet |-> packet])
    PROVE  AlikeInv'
<1> DEFINE e == [frame |-> bytes, packet |-> packet]
<1>1. sent' = Append(sent, e) /\ SentAlike(e)
  BY DEF Transfer
<1>2. sent \in Seq(SentSet) /\ sent' \in Seq(SentSet) /\ \A i \in 1..Len(sent) : SentAlike(sent[i])
  BY Zenon DEF AlikeInv, StreamInv
<1> HIDE DEF e
<1>3. /\ Len(sent) \in Nat /\ Len(sent') = Len(sent) + 1 /\ sent'[Len(sent) + 1] = e
      /\ \A i \in 1..Len(sent) : sent'[i] = sent[i]
  BY <1>1, <1>2
<1>4. ASSUME NEW i \in 1..Len(sent')
      PROVE  SentAlike(sent'[i])
  <2>1. i \in 1..Len(sent) \/ i = Len(sent) + 1
    BY <1>3
  <2> QED
    BY <1>1, <1>2, <1>3, <2>1, Zenon
<1> QED
  BY <1>2, <1>4, Zenon DEF AlikeInv

(* Every step keeps the invariant. *)
LEMMA AlikeStep ==
    ASSUME \A cap \in Capacities : cap + 7 <= MaxRemaining
    PROVE  AlikeInv /\ StreamInv' /\ [Next]_vars => AlikeInv'
<1> SUFFICES ASSUME AlikeInv, StreamInv', [Next]_vars PROVE AlikeInv'
  OBVIOUS
<1>1. ASSUME NEW w \in Written, Send(w)
      PROVE  AlikeInv'
  <2>1. Transfer(w.bytes, <<w.packet>>)
    BY <1>1, Zenon DEF Send
  <2> QED
    BY <2>1, WrittenIsAlike, TransferAlike, Zenon
<1>2. ASSUME NEW bytes \in Foreign, SendForeign(bytes)
      PROVE  AlikeInv'
  <2>1. Transfer(bytes, << >>)
    BY <1>2, Zenon DEF SendForeign
  <2>2. SentAlike([frame |-> bytes, packet |-> << >>])
    BY DEF SentAlike
  <2> QED
    BY <2>1, <2>2, TransferAlike, Zenon
<1>3. CASE UNCHANGED sent
  BY <1>3, Zenon DEF AlikeInv
<1>4. CASE Arrive
  BY <1>3, <1>4 DEF Arrive
<1>5. CASE ReadPacket
  BY <1>3, <1>5, Zenon DEF ReadPacket
<1>6. CASE UNCHANGED vars
  BY <1>3, <1>6 DEF vars
<1> QED
  BY <1>1, <1>2, <1>4, <1>5, <1>6, Zenon DEF Next

(***************************************************************************)
(* packetview writes every packet byte for byte as mqttbytes wrote it, and *)
(* in as many bytes as mqttbytes announced, whatever way it is written and *)
(* into whatever buffer, if the frame cannot outgrow the largest packet    *)
(* mqttbytes lets through: a Subscribe written in place is up to seven     *)
(* bytes longer than the buffer its filters are put into.                  *)
(***************************************************************************)
THEOREM WritesAlike ==
    ASSUME \A cap \in Capacities : cap + 7 <= MaxRemaining
    PROVE  Spec => []WritesAsMqttBytes
<1>1. Init => AlikeInv
  <2>1. Init => StreamInv /\ Len(sent) = 0
    BY StreamInit DEF Init
  <2>2. \A i \in 1..0 : FALSE
    OBVIOUS
  <2> QED
    BY <2>1, <2>2, Zenon DEF AlikeInv, StreamInv
<1>2. AlikeInv /\ StreamInv' /\ [Next]_vars => AlikeInv'
  BY AlikeStep
<1>3. AlikeInv => WritesAsMqttBytes
  <2> SUFFICES ASSUME AlikeInv, NEW i \in DOMAIN sent, NEW j \in DOMAIN sent[i].packet
               PROVE  /\ V4Write(sent[i].packet[j], MaxRemaining) = Put(sent[i].frame)
                      /\ V4Size(sent[i].packet[j]) = Len(sent[i].frame)
    BY Zenon DEF WritesAsMqttBytes
  <2>1. i \in 1..Len(sent)
    BY DEF AlikeInv
  <2> QED
    BY <2>1, Zenon DEF AlikeInv, SentAlike, AsV4
<1> QED
  BY <1>1, <1>2, <1>3, StreamAlways, PTL DEF Spec

(* A writer that puts an identifier and a list of texts. *)
LEMMA ListFits ==
    ASSUME NEW n \in Nat, NEW cap \in Nat, n + 5 <= cap, cap <= MaxRemaining,
           NEW b1 \in Byte, NEW pkid \in Nat, NEW list, Sound(list), Spans(list, n),
           NEW puts, puts = <<Put(<<b1>>), PutLength(n), Put(U16(pkid))>> \o list
    PROVE  Write(cap, puts).error = "none"
<1> DEFINE a == Put(<<b1>>)
           b == PutLength(n)
           c == Put(U16(pkid))
<1>1. a \in PutSet /\ b \in PutSet /\ c \in PutSet
  <2>1. a \in PutSet /\ c \in PutSet
    BY SomeBytes, Zenon
  <2> QED
    BY <2>1, PutLengthTyped, Zenon
<1>2. list \in Seq(PutSet)
  BY Zenon DEF Sound
<1>3. puts = <<a, b>> \o (<<c>> \o list)
  <2>1. puts = <<a, b, c>> \o list
    OBVIOUS
  <2> HIDE DEF a, b, c
  <2> QED
    BY <1>1, <1>2, <2>1, AfterThree, Zenon
<1>4. Sound(<<c>> \o list)
  <2>1. U16(pkid) \in Seq(Byte)
    BY SomeBytes, Zenon
  <2>2. Sound(<<c>>)
    BY <2>1, SoundOne, Zenon
  <2> QED
    BY <2>2, SoundBoth, Zenon
<1>5. ASSUME NEW d \in Nat, Write(d, puts).error = "none"
      PROVE  FrameWith(b1, n, Write(d, puts).bytes)
  <2>1. ListOf(b1, n, pkid, list, Write(d, puts).bytes)
    BY <1>2, <1>5, ListBody, Zenon
  <2> QED
    BY <2>1, Zenon DEF ListOf, FrameWith
<1> QED
  BY <1>3, <1>4, <1>5, FrameRoom, Zenon

(* SubscribePacket. *)
LEMMA SubscribeFits ==
    ASSUME NEW cap \in Nat, NEW p \in PacketSet, p.type = "Subscribe",
           SubscribeLen(p) + 5 <= cap, cap <= MaxRemaining
    PROVE  WriteSubscribePacket(p, cap).error = "none" /\ Sound(FilterPuts(p))
<1>1. PICK b1 : b1 = 130
  OBVIOUS
<1>2. b1 \in Byte /\ p.pkid \in Nat
  <2>1. p.pkid \in Word16
    BY SubscribeFields
  <2> QED
    BY <1>1, <2>1, WordIsNat DEF Byte
<1> DEFINE n == SubscribeLen(p)
           list == FilterPuts(p)
           puts == <<Put(<<b1>>), PutLength(n), Put(U16(p.pkid))>> \o list
<1>3. WriteSubscribePacket(p, cap) = Write(cap, puts)
  BY <1>1, Zenon DEF WriteSubscribePacket, FilterPuts
<1>4. list \in Seq(PutSet) /\ n \in Nat /\ Spans(list, n)
  BY PutsOfFilters, Zenon
<1>5. \A i \in DOMAIN list : list[i].error = "none"
  <2>1. \A i \in DOMAIN list : list[i] = Put(FilterBytes(p.filters[i]))
    BY Zenon DEF FilterPuts
  <2> QED
    BY <2>1, PutParts, Zenon
<1> HIDE DEF n, list
<1>6. Sound(list)
  <2>1. DOMAIN list = 1..Len(list)
    BY <1>4
  <2> QED
    BY <1>4, <1>5, <2>1, Zenon DEF Sound
<1>7. n + 5 <= cap
  BY Zenon DEF n
<1>8. Write(cap, puts).error = "none"
  BY <1>2, <1>4, <1>6, <1>7, ListFits, Zenon
<1> QED
  BY <1>3, <1>6, <1>8, Zenon DEF list

(* Unsubscribe. *)
LEMMA UnsubscribeFits ==
    ASSUME NEW cap \in Nat, NEW p \in PacketSet, p.type = "Unsubscribe",
           UnsubscribeLen(p) + 5 <= cap, cap <= MaxRemaining
    PROVE  WriteUnsubscribe(p, cap).error = "none"
<1>1. PICK b1 : b1 = 162
  OBVIOUS
<1>2. b1 \in Byte /\ p.pkid \in Nat
  <2>1. p.pkid \in Word16
    BY UnsubscribeFields
  <2> QED
    BY <1>1, <2>1, WordIsNat DEF Byte
<1> DEFINE n == UnsubscribeLen(p)
           list == TopicPuts(p)
           puts == <<Put(<<b1>>), PutLength(n), Put(U16(p.pkid))>> \o list
<1>3. WriteUnsubscribe(p, cap) = Write(cap, puts)
  BY <1>1, Zenon DEF WriteUnsubscribe, TopicPuts
<1>4. list \in Seq(PutSet) /\ n \in Nat /\ Spans(list, n)
  BY PutsOfTopics, Zenon
<1>5. \A i \in DOMAIN list : list[i].error = "none"
  <2>1. \A i \in DOMAIN list : list[i] = Put(MqttBytes(p.topics[i]))
    BY Zenon DEF TopicPuts
  <2> QED
    BY <2>1, PutParts, Zenon
<1> HIDE DEF n, list
<1>6. Sound(list)
  <2>1. DOMAIN list = 1..Len(list)
    BY <1>4
  <2> QED
    BY <1>4, <1>5, <2>1, Zenon DEF Sound
<1>7. n + 5 <= cap
  BY Zenon DEF n
<1>8. Write(cap, puts).error = "none"
  BY <1>2, <1>4, <1>6, <1>7, ListFits, Zenon
<1> QED
  BY <1>3, <1>8, Zenon

(* Filters that an application adds one by one are puts that do not fail, *)
(* and those of the packet.                                               *)
LEMMA InPlaceSound ==
    ASSUME NEW p \in PacketSet, p.type = "Subscribe", NEW texts \in AddedTexts(p),
           \A i \in DOMAIN p.filters : Len(p.filters[i].path) <= MaxWord
    PROVE  InPlacePuts(p, texts) = FilterPuts(p) /\ Sound(InPlacePuts(p, texts))
<1> DEFINE fs == p.filters
           puts == InPlacePuts(p, texts)
<1>1. fs \in Seq(FilterSet)
  BY SubscribeFields DEF FilterSet
<1>2. puts \in Seq(PutSet)
  BY PutsInPlace DEF InPlacePuts
<1>3. ASSUME NEW i \in DOMAIN puts
      PROVE  puts[i].error = "none"
  <2>1. i \in DOMAIN fs
    BY Zenon DEF InPlacePuts
  <2>2. ~(Len(fs[i].path) > MaxWord)
    <3>1. Len(fs[i].path) <= MaxWord
      BY <2>1
    <3>2. Len(fs[i].path) \in Nat
      <4>1. fs[i] \in FilterSet
        BY <1>1, <2>1
      <4> QED
        BY <4>1, FilterTyped, Zenon
    <3> QED
      BY <3>1, <3>2, MaxWordIsNat
  <2>3. puts[i] = Put(texts[i])
    BY <2>1, <2>2, Zenon DEF InPlacePuts
  <2> QED
    BY <2>3, PutParts, Zenon
<1> HIDE DEF puts
<1>4. Sound(puts)
  <2>1. DOMAIN puts = 1..Len(puts)
    BY <1>2
  <2> QED
    BY <1>2, <1>3, <2>1, Zenon DEF Sound
<1>5. PICK z : Joined(puts, z)
  BY <1>4, V4Takes, Zenon
<1>6. puts = FilterPuts(p)
  BY <1>5, InPlaceSame, Zenon DEF puts
<1> QED
  BY <1>4, <1>6, Zenon DEF puts

(* SubscribeWriter and NanoClient::write_subscribe. *)
LEMMA InPlaceFits ==
    ASSUME NEW cap \in Nat, NEW p \in PacketSet, p.type = "Subscribe", NEW texts \in AddedTexts(p),
           \A i \in DOMAIN p.filters : Len(p.filters[i].path) <= MaxWord,
           SubscribeLen(p) + 5 <= cap, cap <= MaxRemaining
    PROVE  WriteSubscribeInPlace(p, texts, cap).error = "none"
<1>1. PICK b1, k : b1 = 130 /\ k = 7
  OBVIOUS
<1> DEFINE puts == InPlacePuts(p, texts)
           filters == Write(cap, puts)
           id == <<0, 1>>
           size == Len(filters.bytes)
           m == size + 2
           d == size + k
           list == <<Put(<<b1>>), PutLength(m), Put(id), filters>>
<1>2. WriteSubscribeInPlace(p, texts, cap) = IF filters.error # "none" THEN filters ELSE Write(d, list)
  BY <1>1 DEF WriteSubscribeInPlace, InPlacePuts
<1>3. PICK n : n = SubscribeLen(p)
  OBVIOUS
<1>4. n \in Nat /\ n >= 2 /\ Spans(puts, n) /\ Sound(puts) /\ n + 5 <= cap
  BY <1>3, InPlaceSound, PutsOfFilters, Zenon
<1> HIDE DEF puts
<1>5. puts \in Seq(PutSet)
  BY <1>4, Zenon DEF Sound
<1>6. ASSUME NEW x \in Seq(Byte), Joined(puts, x)
      PROVE  Len(x) <= cap
  <2>1. 2 + Len(x) = n /\ Len(x) \in Nat
    BY <1>4, <1>6 DEF Spans
  <2> QED
    BY <1>4, <2>1
<1>7. filters.error = "none"
  BY <1>4, <1>6, WriteFits, Zenon
<1>8. filters \in PutSet /\ Joined(puts, filters.bytes)
  BY <1>5, <1>7, WriteJoins, Zenon
<1>9. filters.bytes \in Seq(Byte) /\ 2 + size = n
  BY <1>4, <1>8, Zenon DEF Spans
<1> HIDE DEF filters
<1>10. size \in Nat /\ m = n /\ d = n + 5 /\ d \in Nat /\ d <= cap /\ d <= MaxRemaining
  <2>1. size \in Nat
    BY <1>9
  <2> HIDE DEF size
  <2>2. m = n /\ d = n + 5 /\ d \in Nat /\ d <= cap
    BY <1>1, <1>4, <1>9, <2>1
  <2> HIDE DEF m, d
  <2> QED
    BY <2>1, <2>2, SMT DEF MaxRemaining
<1> HIDE DEF size, m, d
<1>11. id \in Seq(Byte) /\ Len(id) = 2 /\ b1 \in Byte
  BY <1>1 DEF Byte
<1> HIDE DEF id
<1> DEFINE c == Put(id)
           body == <<c, filters>>
<1>12. c \in PutSet /\ c.bytes = id /\ c.error = "none"
  BY <1>11, PutTyped, PutParts, Zenon
<1> HIDE DEF c
<1>13. list = <<Put(<<b1>>), PutLength(n)>> \o body
  <2>1. <<Put(<<b1>>), PutLength(n), c, filters>> = <<Put(<<b1>>), PutLength(n)>> \o <<c, filters>>
    BY SMT
  <2> QED
    BY <1>10, <2>1, Zenon DEF c
<1> HIDE DEF list
<1>14. body \in Seq(PutSet) /\ Sound(body)
  <2>1. body \in Seq(PutSet)
    BY <1>8, <1>12, Pair, Zenon
  <2>2. Len(body) = 2 /\ body[1] = c /\ body[2] = filters /\ \A i \in 1..2 : i = 1 \/ i = 2
    OBVIOUS
  <2> HIDE DEF body
  <2> QED
    BY <1>7, <1>12, <2>1, <2>2, Zenon DEF Sound
<1>15. ASSUME NEW e \in Nat, Write(e, list).error = "none"
       PROVE  FrameWith(b1, n, Write(e, list).bytes)
  <2>1. Headed(b1, n, body, Write(e, list).bytes)
    <3> HIDE DEF body
    <3> QED
      BY <1>4, <1>11, <1>13, <1>14, <1>15, HeaderThenBody, ZenonT(60)
  <2>2. PICK rest \in Seq(Byte) : Joined(body, rest) /\ Write(e, list).bytes = FrameBytes(b1, n, rest)
    BY <2>1, Zenon DEF Headed
  <2>3. rest = id \o filters.bytes
    BY <1>8, <1>12, <2>2, JoinedTwo, Zenon
  <2>4. Len(rest) = n
    <3>1. Len(id \o filters.bytes) = Len(id) + Len(filters.bytes)
      BY <1>9, <1>11, ConcatTyped
    <3> QED
      BY <1>9, <1>11, <2>3, <3>1, Zenon DEF size
  <2> QED
    BY <2>2, <2>4, Zenon DEF FrameWith
<1>16. Write(d, list).error = "none"
  <2>1. n + 5 <= d
    BY <1>4, <1>10
  <2> HIDE DEF body
  <2>2. \A e \in Nat : Write(e, list).error = "none" => FrameWith(b1, n, Write(e, list).bytes)
    BY <1>15, Zenon
  <2>3. n \in Nat /\ d \in Nat /\ d <= MaxRemaining /\ b1 \in Byte /\ Sound(body)
    BY <1>4, <1>10, <1>11, <1>14, Zenon
  <2> QED
    BY ONLY <1>13, <2>1, <2>2, <2>3, FrameRoom, Zenon
<1> QED
  BY <1>2, <1>7, <1>16, Zenon

-----------------------------------------------------------------------------
(* The body of the frame that p takes is not longer than m bytes. *)
Fitting(p, m) ==
    /\ p.type = "Connect" => ConnectLen(p) \in 0..m
    /\ p.type = "Publish" => PublishLen(p) \in 0..m /\ (p.qos # 0 => p.pkid # 0)
    /\ p.type = "Subscribe" => SubscribeLen(p) \in 0..m
    /\ p.type = "SubAck" => 2 + Len(p.codes) \in 0..m
    /\ p.type = "Unsubscribe" => UnsubscribeLen(p) \in 0..m
    /\ p.type \in AckTypes \cup {"ConnAck"} => 2 \in 0..m

(* Every way to write p into a buffer of cap bytes succeeds. *)
Writable(p, cap) == \A w \in Writes(p, cap) : w.error = "none"

(* Five bytes for the fixed header are enough. *)
LEMMA WithHeader ==
    ASSUME NEW m \in Nat, NEW cap \in Nat, m + 5 <= cap, NEW n, n \in 0..m
    PROVE  n \in Nat /\ n + 5 <= cap
OBVIOUS

(* Whichever way a Publish is written. *)
LEMMA PublishWritable ==
    ASSUME NEW cap \in Nat, cap <= MaxRemaining, NEW p \in PacketSet, p.type = "Publish",
           p.qos # 0 => p.pkid # 0, Len(p.topic) <= MaxWord, PublishLen(p) + 5 <= cap
    PROVE  Writable(p, cap)
<1>0. Writes(p, cap) = {WritePublish(p, cap), WriteOutPublish(p, <<p.topic>>, cap),
               WriteOutPublish(p, TopicItems(Levels(p.topic)), cap)}
  BY DomainsOfBytes1 DEF Writes, AckTypes
<1> DEFINE items == TopicItems(Levels(p.topic))
<1>1. p.topic \in Seq(Byte)
  BY PublishTyped
<1>2. WritePublish(p, cap).error = "none"
  BY PublishFits, Zenon
<1>3. ASSUME NEW strings \in Seq(Seq(Byte)), FlattenSeq(strings) = p.topic
      PROVE  WriteOutPublish(p, strings, cap).error = "none"
  BY <1>3, OutPublishRoom, Zenon
<1>4. <<p.topic>> \in Seq(Seq(Byte)) /\ FlattenSeq(<<p.topic>>) = p.topic
  BY <1>1, FlattenOne, Zenon DEF Strings
<1>5. items \in Seq(Seq(Byte)) /\ FlattenSeq(items) = p.topic
  BY <1>1, TopicJoined, Zenon
<1>6. /\ WriteOutPublish(p, <<p.topic>>, cap).error = "none"
      /\ WriteOutPublish(p, items, cap).error = "none"
  BY <1>3, <1>4, <1>5, Zenon
<1> QED
  BY <1>0, <1>2, <1>6, Zenon DEF Writable

(* Whichever way a Subscribe is written. *)
LEMMA SubscribeWritable ==
    ASSUME NEW cap \in Nat, cap <= MaxRemaining, NEW p \in PacketSet, p.type = "Subscribe",
           \A i \in DOMAIN p.filters : Len(p.filters[i].path) <= MaxWord,
           SubscribeLen(p) + 5 <= cap
    PROVE  Writable(p, cap)
<1>1. Writes(p, cap) = {WriteSubscribePacket(p, cap)} \cup
              {WriteSubscribeInPlace(p, texts, cap) : texts \in AddedTexts(p)}
  BY DomainsOfBytes1 DEF Writes, AckTypes
<1>2. WriteSubscribePacket(p, cap).error = "none"
  BY SubscribeFits, Zenon
<1>3. \A texts \in AddedTexts(p) : WriteSubscribeInPlace(p, texts, cap).error = "none"
  BY InPlaceFits, Zenon
<1> QED
  BY <1>1, <1>2, <1>3, Zenon DEF Writable

(* A packet that may be as it is can be written into a buffer that has room *)
(* for its body and five bytes more.                                        *)
LEMMA RoomToWrite ==
    ASSUME NEW m \in Nat, NEW cap \in Nat, m + 5 <= cap, cap <= MaxRemaining,
           NEW p \in PacketSet, ShortFields(p), Fitting(p, m)
    PROVE  Writable(p, cap)
<1>0. \A n : n \in 0..m => n \in Nat /\ n + 5 <= cap
  BY WithHeader, Zenon
<1>1. CASE p.type = "Connect"
  <2>1. Writes(p, cap) = {WriteConnectPacket(p, cap)}
    BY <1>1, DomainsOfBytes1 DEF Writes, AckTypes
  <2>2. ConnectLen(p) \in 0..m
    BY <1>1, Zenon DEF Fitting
  <2>3. ConnectLen(p) \in Nat /\ ConnectLen(p) + 5 <= cap
    BY <1>0, <2>2, Zenon
  <2>4. WriteConnectPacket(p, cap).error = "none"
    BY <1>1, <2>3, ConnectFits, Zenon
  <2> QED
    BY <2>1, <2>4, Zenon DEF Writable
<1>2. CASE p.type = "ConnAck"
  <2>1. Writes(p, cap) = {WriteConnAck(p, cap)}
    BY <1>2, DomainsOfBytes1 DEF Writes, AckTypes
  <2>2. 2 \in 0..m
    BY <1>2, Zenon DEF Fitting
  <2>3. 2 + 5 <= cap
    BY <1>0, <2>2, Zenon
  <2>4. WriteConnAck(p, cap).error = "none"
    BY <1>2, <2>3, ConnAckFits, Zenon
  <2> QED
    BY <2>1, <2>4, Zenon DEF Writable
<1>3. CASE p.type = "Publish"
  <2>1. PublishLen(p) \in 0..m /\ (p.qos # 0 => p.pkid # 0)
    BY <1>3, Zenon DEF Fitting
  <2>2. PublishLen(p) + 5 <= cap
    BY <1>0, <2>1, Zenon
  <2>3. Len(p.topic) <= MaxWord
    BY <1>3 DEF ShortFields
  <2> QED
    BY <1>3, <2>1, <2>2, <2>3, PublishWritable, Zenon
<1>4. CASE p.type = "Subscribe"
  <2>1. SubscribeLen(p) \in 0..m
    BY <1>4, Zenon DEF Fitting
  <2>2. SubscribeLen(p) + 5 <= cap
    BY <1>0, <2>1, Zenon
  <2>3. \A i \in DOMAIN p.filters : Len(p.filters[i].path) <= MaxWord
    BY <1>4 DEF ShortFields
  <2> QED
    BY <1>4, <2>2, <2>3, SubscribeWritable, Zenon
<1>5. CASE p.type = "SubAck"
  <2>1. Writes(p, cap) = {WriteSubAck(p, cap)}
    BY <1>5, DomainsOfBytes1 DEF Writes, AckTypes
  <2>2. 2 + Len(p.codes) \in 0..m
    BY <1>5, Zenon DEF Fitting
  <2>3. (2 + Len(p.codes)) + 5 <= cap
    BY <1>0, <2>2, Zenon
  <2>4. WriteSubAck(p, cap).error = "none"
    BY <1>5, <2>3, SubAckFits, Zenon
  <2> QED
    BY <2>1, <2>4, Zenon DEF Writable
<1>6. CASE p.type = "Unsubscribe"
  <2>1. Writes(p, cap) = {WriteUnsubscribe(p, cap)}
    BY <1>6, DomainsOfBytes1 DEF Writes, AckTypes
  <2>2. UnsubscribeLen(p) \in 0..m
    BY <1>6, Zenon DEF Fitting
  <2>3. UnsubscribeLen(p) + 5 <= cap
    BY <1>0, <2>2, Zenon
  <2>4. WriteUnsubscribe(p, cap).error = "none"
    BY <1>6, <2>3, UnsubscribeFits, Zenon
  <2> QED
    BY <2>1, <2>4, Zenon DEF Writable
<1>7. CASE p.type \in AckTypes
  <2>1. Writes(p, cap) = {WriteAck(p, cap)}
    BY <1>7, DomainsOfBytes1 DEF Writes, AckTypes
  <2>2. 2 \in 0..m
    BY <1>7, Zenon DEF Fitting
  <2>3. 2 + 5 <= cap
    BY <1>0, <2>2, Zenon
  <2>4. WriteAck(p, cap).error = "none"
    BY <1>7, <2>3, AckFits, Zenon
  <2> QED
    BY <2>1, <2>4, Zenon DEF Writable
<1>8. CASE p.type \in {"PingReq", "PingResp", "Disconnect"}
  <2>1. Writes(p, cap) = {WriteEmpty(p, cap)}
    BY <1>8, DomainsOfBytes1 DEF Writes, AckTypes
  <2>2. 0 \in 0..m
    OBVIOUS
  <2>3. 0 + 5 <= cap
    BY <1>0, <2>2, Zenon
  <2>4. WriteEmpty(p, cap).error = "none"
    BY <1>8, <2>3, EmptyFits, Zenon
  <2> QED
    BY <2>1, <2>4, Zenon DEF Writable
<1> QED
  BY <1>1, <1>2, <1>3, <1>4, <1>5, <1>6, <1>7, <1>8, TypesOfPackets

-----------------------------------------------------------------------------
(* How wide the fields are. *)
LEMMA WidthAs ==
    ASSUME NEW v
    PROVE  /\ Width("u8", v) = 1 /\ Width("qos", v) = 1 /\ Width("u16", v) = 2
           /\ Width("bytes", v) = 2 + Len(v) /\ Width("string", v) = 2 + Len(v)
BY DEF Width

(* The readers in turn: what each makes fits into the bytes it was read from. *)
LEMMA AckFitting ==
    ASSUME NEW b \in Seq(Byte), NEW h \in 0..Len(b), NEW type \in AckTypes,
           ReadAck(type, b, h).error = "none"
    PROVE  Fitting(ReadAck(type, b, h).packet, Len(b) - h)
<1> DEFINE r == Fields(b, h, <<"u16">>)
           p == [type |-> type, pkid |-> r.values[1]]
<1>1. ReadAck(type, b, h) = IF r.error # "none" THEN r ELSE Packet(p)
  BY Zenon DEF ReadAck, AckOf
<1>2. r.error = "none"
  <2> HIDE DEF r, p
  <2> QED
    BY <1>1, Zenon
<1>3. 2 \in 0..(Len(b) - h)
  <2>1. h + 2 \in 0..Len(b)
    BY <1>2, BehindIdentifier, Zenon
  <2> QED
    BY <2>1
<1> HIDE DEF r
<1>4. p.type = type
  OBVIOUS
<1>5. ReadAck(type, b, h).packet = p
  <2>1. ReadAck(type, b, h) = [error |-> "none", packet |-> p]
    BY <1>1, <1>2, Zenon DEF Packet
  <2> HIDE DEF p
  <2> QED
    BY <2>1
<1> HIDE DEF p
<1>6. p.type \notin {"Connect", "Publish", "Subscribe", "SubAck", "Unsubscribe"}
  BY <1>4 DEF AckTypes
<1>7. Fitting(p, Len(b) - h)
  BY <1>3, <1>6, Zenon DEF Fitting
<1> QED
  BY <1>5, <1>7, Zenon

LEMMA ConnAckFitting ==
    ASSUME NEW b \in Seq(Byte), NEW h \in 0..Len(b), ReadConnAck(b, h).error = "none"
    PROVE  Fitting(ReadConnAck(b, h).packet, Len(b) - h)
<1> DEFINE r == Fields(b, h, <<"u8", "u8">>)
           p == [type |-> "ConnAck", session_present |-> Bit(r.values[1], 1), code |-> r.values[2]]
<1>1. ReadConnAck(b, h) = IF r.error # "none" THEN r
                          ELSE IF r.values[2] > 5 THEN Err("InvalidConnectReturnCode")
                          ELSE Packet(p)
  BY Zenon DEF ReadConnAck, ConnAckOf
<1>2. r.error = "none"
  <2> HIDE DEF r, p
  <2> QED
    BY <1>1, Zenon
<1>3. r \in RunSet(h, Len(b)) /\ Taken(<<"u8", "u8">>, r.values, h, r.next)
  BY <1>2, KindLists, FieldsTyped, FieldsTake, Zenon
<1> HIDE DEF r
<1>4. 2 \in 0..(Len(b) - h)
  <2>1. r.next = (h + 1) + 1
    <3>1. r.next = (h + Width("u8", r.values[1])) + Width("u8", r.values[2])
      BY ONLY <1>3, TakenTwo, SMT
    <3>2. Width("u8", r.values[1]) = 1 /\ Width("u8", r.values[2]) = 1
      BY WidthAs, Zenon
    <3>3. (h + Width("u8", r.values[1])) + Width("u8", r.values[2]) = (h + 1) + 1
      BY ONLY <3>2, SMT
    <3> QED
      BY <3>1, <3>3, Zenon
  <2>2. r.next \in h..Len(b)
    BY <1>2, <1>3 DEF RunSet, FieldErrors
  <2>3. PICK l, m : l = Len(b) /\ m = r.next
    OBVIOUS
  <2>4. l \in Nat /\ h \in Nat /\ m \in h..l /\ m = (h + 1) + 1
    BY <2>1, <2>2, <2>3
  <2>5. 2 \in 0..(l - h)
    BY ONLY <2>4
  <2> QED
    BY <2>3, <2>5, Zenon
<1>5. ~(r.values[2] > 5)
  <2> SUFFICES ASSUME r.values[2] > 5
               PROVE  FALSE
    OBVIOUS
  <2>1. ReadConnAck(b, h) = Err("InvalidConnectReturnCode")
    BY <1>1, <1>2, Zenon
  <2> QED
    BY <2>1 DEF Err
<1>6. p.type = "ConnAck"
  OBVIOUS
<1>7. ReadConnAck(b, h).packet = p
  <2>1. ReadConnAck(b, h) = [error |-> "none", packet |-> p]
    BY <1>1, <1>2, <1>5, Zenon DEF Packet
  <2> HIDE DEF p
  <2> QED
    BY <2>1
<1> HIDE DEF p
<1>8. p.type \notin {"Connect", "Publish", "Subscribe", "SubAck", "Unsubscribe"}
  BY <1>6
<1>9. Fitting(p, Len(b) - h)
  BY <1>4, <1>8, Zenon DEF Fitting
<1> QED
  BY <1>7, <1>9, Zenon

LEMMA SubAckFitting ==
    ASSUME NEW b \in Seq(Byte), NEW h \in 0..Len(b), ReadSubAck(b, h).error = "none"
    PROVE  Fitting(ReadSubAck(b, h).packet, Len(b) - h)
<1> DEFINE r == Fields(b, h, <<"u16">>)
           codes == SubSeq(b, h + 3, Len(b))
           p == [type |-> "SubAck", pkid |-> r.values[1], codes |-> codes]
<1>1. ReadSubAck(b, h) = IF r.error # "none" THEN r
                         ELSE IF codes = << >> THEN Err("MalformedPacket")
                         ELSE IF ~(ToSet(codes) \subseteq ReasonCodes) THEN Err("InvalidSubscribeReasonCode")
                         ELSE Packet(p)
  BY Zenon DEF ReadSubAck, SubAckOf
<1>2. r.error = "none"
  <2> HIDE DEF r, p, codes
  <2> QED
    BY <1>1, Zenon
<1>3. 2 + Len(codes) \in 0..(Len(b) - h)
  <2>1. h + 2 \in 0..Len(b)
    BY <1>2, BehindIdentifier, Zenon
  <2>2. Len(codes) = Len(b) - (h + 2)
    BY <2>1
  <2> HIDE DEF codes
  <2> QED
    BY <2>1, <2>2
<1> HIDE DEF r, codes
<1>4. codes # << >> /\ ToSet(codes) \subseteq ReasonCodes
  <2>1. Err("MalformedPacket").error # "none" /\ Err("InvalidSubscribeReasonCode").error # "none"
    BY DEF Err
  <2> HIDE DEF p
  <2> QED
    BY <1>1, <1>2, <2>1, Zenon
<1>5. p.type = "SubAck" /\ p.codes = codes
  OBVIOUS
<1>6. ReadSubAck(b, h).packet = p
  <2>1. ReadSubAck(b, h) = [error |-> "none", packet |-> p]
    BY <1>1, <1>2, <1>4, Zenon DEF Packet
  <2> HIDE DEF p
  <2> QED
    BY <2>1
<1> HIDE DEF p
<1>7. Fitting(p, Len(b) - h)
  <2>1. /\ p.type # "Connect" /\ p.type # "Publish" /\ p.type # "Subscribe"
        /\ p.type # "Unsubscribe" /\ p.type \notin AckTypes \cup {"ConnAck"}
    BY <1>5 DEF AckTypes
  <2> QED
    BY <1>3, <1>5, <2>1, Zenon DEF Fitting
<1> QED
  BY <1>6, <1>7, Zenon

LEMMA PublishFitting ==
    ASSUME NEW b \in Seq(Byte), NEW h \in 0..Len(b), NEW byte1 \in Byte,
           ReadPublish(byte1, b, h).error = "none"
    PROVE  Fitting(ReadPublish(byte1, b, h).packet, Len(b) - h)
<1> DEFINE qos == (byte1 \div 2) % 4
           kinds == IF qos = 0 THEN <<"string">> ELSE <<"string", "u16">>
           r == Fields(b, h, kinds)
           pkid == IF qos = 0 THEN 0 ELSE r.values[2]
           payload == SubSeq(b, r.next + 1, Len(b))
           dup == Bit(byte1, 8)
           retain == Bit(byte1, 1)
           topic == r.values[1]
           p == [type |-> "Publish", dup |-> dup, qos |-> qos, retain |-> retain, topic |-> topic,
                 pkid |-> pkid, payload |-> payload]
<1>1. ReadPublish(byte1, b, h) =
         IF qos > 2 THEN Err("InvalidQoS")
         ELSE IF r.error # "none" THEN r
         ELSE IF qos # 0 /\ r.values[2] = 0 THEN Err("PacketIdZero")
         ELSE Packet(p)
  BY Zenon DEF ReadPublish, PublishOf
<1>2. kinds \in Seq(FieldKinds)
  BY KindLists
<1>3. /\ r \in RunSet(h, Len(b))
      /\ r.error = "none" => Filled(kinds, r.values) /\ Taken(kinds, r.values, h, r.next)
  <2> HIDE DEF kinds
  <2> QED
    BY <1>2, FieldsTyped, FieldsFit, FieldsTake, Zenon
<1> HIDE DEF r, qos, dup, retain
<1>4. ~(qos > 2) /\ r.error = "none" /\ ~(qos # 0 /\ r.values[2] = 0)
  <2>1. Err("InvalidQoS").error # "none" /\ Err("PacketIdZero").error # "none"
    BY DEF Err
  <2> HIDE DEF p
  <2> QED
    BY <1>1, <2>1, Zenon
<1>5. PICK k : k = IF qos # 0 /\ pkid # 0 THEN 2 ELSE 0
  OBVIOUS
<1>60. PICK l : l = Len(topic)
  OBVIOUS
<1>6. l \in Nat /\ k \in Nat /\ r.next = (h + (2 + l)) + k
  <2>1. CASE qos = 0
    <3>1. Filled(<<"string">>, r.values) /\ Taken(<<"string">>, r.values, h, r.next)
      BY <1>3, <1>4, <2>1, Zenon
    <3>2. topic \in Text /\ r.next = h + (2 + l) /\ k = 0
      <4>1. topic \in Text
        BY <3>1, FilledOne, FitsMeans, Zenon
      <4>2. r.next = h + Width("string", topic)
        BY <3>1, TakenOne, Zenon
      <4>3. Width("string", topic) = 2 + l
        BY <1>60, WidthAs, Zenon
      <4> QED
        BY <1>5, <2>1, <4>1, <4>2, <4>3, Zenon
    <3>3. l \in Nat
      BY <1>60, <3>2, TextIsBytes, Zenon
    <3>4. h + (2 + l) = (h + (2 + l)) + k /\ k \in Nat
      BY <3>2, <3>3
    <3> QED
      BY <3>2, <3>3, <3>4, Zenon
  <2>2. CASE qos # 0
    <3>1. Filled(<<"string", "u16">>, r.values) /\ Taken(<<"string", "u16">>, r.values, h, r.next)
      BY <1>3, <1>4, <2>2, Zenon
    <3>2. topic \in Text /\ r.next = (h + (2 + l)) + 2 /\ k = 2
      <4>1. topic \in Text
        BY <3>1, FilledTwo, FitsMeans, Zenon
      <4>2. r.next = (h + Width("string", topic)) + Width("u16", r.values[2])
        BY ONLY <3>1, TakenTwo, SMT
      <4>3. Width("string", topic) = 2 + l /\ Width("u16", r.values[2]) = 2
        BY <1>60, WidthAs, Zenon
      <4>4. k = 2
        BY <1>4, <1>5, <2>2, Zenon
      <4>5. r.next = (h + (2 + l)) + 2
        <5>1. (h + Width("string", topic)) + Width("u16", r.values[2]) = (h + (2 + l)) + 2
          BY ONLY <4>3, SMT
        <5> QED
          BY <4>2, <5>1, Zenon
      <4> QED
        BY <4>1, <4>4, <4>5, Zenon
    <3>3. l \in Nat
      BY <1>60, <3>2, TextIsBytes, Zenon
    <3>4. k \in Nat
      BY <3>2
    <3> QED
      BY <3>2, <3>3, <3>4, Zenon
  <2> QED
    BY <2>1, <2>2, Zenon
<1>7. r.next \in h..Len(b)
  BY <1>3, <1>4 DEF RunSet, FieldErrors
<1>8. PICK y, z : y = Len(topic) /\ z = Len(payload)
  OBVIOUS
<1>9. z = Len(b) - r.next
  BY <1>7, <1>8
<1> HIDE DEF topic, payload
<1>10. ((2 + y) + z) + k \in 0..(Len(b) - h)
  <2>1. y \in Nat /\ r.next = (h + (2 + y)) + k
    BY <1>6, <1>60, <1>8, Zenon
  <2> QED
    BY <1>6, <1>7, <1>9, <2>1
<1>11. qos # 0 => pkid # 0
  BY <1>4, Zenon
<1> HIDE DEF pkid
<1>12. p.type = "Publish" /\ p.qos = qos /\ p.pkid = pkid /\ p.topic = topic /\ p.payload = payload
  OBVIOUS
<1>13. ReadPublish(byte1, b, h).packet = p
  <2> HIDE DEF p
  <2>1. ReadPublish(byte1, b, h) = [error |-> "none", packet |-> p]
    BY <1>1, <1>4, Zenon DEF Packet
  <2> QED
    BY <2>1
<1> HIDE DEF p
<1>14. PublishLen(p) = ((2 + y) + z) + k
  BY <1>5, <1>8, <1>12, Zenon DEF PublishLen
<1>15. Fitting(p, Len(b) - h)
  <2>1. /\ p.type # "Connect" /\ p.type # "Subscribe" /\ p.type # "SubAck"
        /\ p.type # "Unsubscribe" /\ p.type \notin AckTypes \cup {"ConnAck"}
    BY <1>12 DEF AckTypes
  <2>2. PublishLen(p) \in 0..(Len(b) - h)
    BY <1>10, <1>14, Zenon
  <2> QED
    BY <1>11, <1>12, <2>1, <2>2, Zenon DEF Fitting
<1> QED
  BY <1>13, <1>15, Zenon

-----------------------------------------------------------------------------
(* Lists that grow alike, from places d apart, stay d apart. *)
LEMMA GrowAlike ==
    ASSUME NEW n \in Nat, NEW d \in Nat,
           NEW at \in [1..(n + 1) -> Nat], NEW acc \in [0..n -> Nat], NEW w \in [1..n -> Nat],
           at[1] = d, acc[0] = 0,
           \A i \in 1..n : at[i + 1] = at[i] + w[i],
           \A i \in 1..n : acc[i] = acc[i - 1] + w[i]
    PROVE  at[n + 1] = d + acc[n]
<1> DEFINE P == {i \in Nat : i <= n => at[i + 1] = d + acc[i]}
<1>1. 0 \in P
  <2>1. 0 + 1 = 1 /\ d + 0 = d
    OBVIOUS
  <2> QED
    BY <2>1, Zenon
<1>2. ASSUME NEW i \in 1..n, i - 1 \in P
      PROVE  i \in P
  <2>1. i \in Nat /\ i - 1 <= n /\ (i - 1) + 1 = i /\ i - 1 \in 0..n /\ i \in 0..n
    OBVIOUS
  <2>2. at[i] = d + acc[i - 1]
    <3>1. at[(i - 1) + 1] = d + acc[i - 1]
      BY <1>2, <2>1, Zenon
    <3> QED
      BY <2>1, <3>1, Zenon
  <2>3. at[i + 1] = at[i] + w[i] /\ acc[i] = acc[i - 1] + w[i]
    OBVIOUS
  <2>4. w[i] \in Nat /\ acc[i - 1] \in Nat
    BY <2>1
  <2>5. at[i + 1] = d + acc[i]
    BY ONLY <2>2, <2>3, <2>4, d \in Nat
  <2> QED
    BY <2>1, <2>5, Zenon
<1>3. P \in SUBSET Nat
  BY Zenon
<1> HIDE DEF P
<1>4. \A i \in 0..n : i \in P
  BY <1>1, <1>2, <1>3, UpTo, Zenon
<1>5. n \in P /\ n <= n
  <2>1. n \in 0..n /\ n <= n
    OBVIOUS
  <2> QED
    BY <1>4, <2>1, Zenon
<1> QED
  BY <1>5, Zenon DEF P

LEMMA SubscribeFitting ==
    ASSUME NEW b \in Seq(Byte), NEW h \in 0..Len(b), ReadSubscribe(b, h).error = "none"
    PROVE  Fitting(ReadSubscribe(b, h).packet, Len(b) - h)
<1> DEFINE r == Fields(b, h, <<"u16">>)
           g == Groups(b, h + 2, <<"string", "qos">>)
           items == g.items
           filters == [i \in DOMAIN items |-> [path |-> items[i][1], qos |-> items[i][2]]]
           pkid == r.values[1]
           p == [type |-> "Subscribe", pkid |-> pkid, filters |-> filters]
<1>1. ReadSubscribe(b, h) =
         IF r.error # "none" THEN r
         ELSE IF items = << >> THEN Err("EmptySubscription")
         ELSE IF g.next < Len(b) THEN Err("MalformedPacket")
         ELSE Packet(p)
  BY Zenon DEF ReadSubscribe, SubscribeOf
<1>2. r.error = "none"
  <2> HIDE DEF r, p, g
  <2> QED
    BY <1>1, Zenon
<1>3. <<"string", "qos">> # << >>
  OBVIOUS
<1>4. h + 2 \in 0..Len(b)
  BY <1>2, BehindIdentifier, Zenon
<1>5. g \in GroupSet /\ Laid(<<"string", "qos">>, items, h + 2, Len(b))
  BY <1>3, <1>4, KindLists, GroupsTyped, GroupsLie, Zenon
<1> HIDE DEF r, g, pkid
<1>6. items # << >> /\ ~(g.next < Len(b))
  <2>1. Err("EmptySubscription").error # "none" /\ Err("MalformedPacket").error # "none"
    BY DEF Err
  <2> HIDE DEF p
  <2> QED
    BY <1>1, <1>2, <2>1, Zenon
<1>7. ReadSubscribe(b, h).packet = p
  <2> HIDE DEF p
  <2>1. ReadSubscribe(b, h) = [error |-> "none", packet |-> p]
    BY <1>1, <1>2, <1>6, Zenon DEF Packet
  <2> QED
    BY <2>1
<1>8. p.type = "Subscribe" /\ p.filters = filters
  OBVIOUS
<1>9. p \in PacketSet
  BY <1>7, SubscribeRewritable, Zenon DEF Rewritable
<1> HIDE DEF p
<1>10. filters \in Seq(FilterSet) /\ SubscribeLen(p) \in Nat
  <2>1. p.filters \in Seq(FilterSet)
    BY <1>8, <1>9, SubscribeFields DEF FilterSet
  <2> QED
    BY <1>8, <1>9, <2>1, PutsOfFilters, Zenon
<1>11. items \in Seq(Seq(ValueSet)) /\ Len(items) \in Nat /\ DOMAIN items = 1..Len(items)
  <2>1. items \in Seq(Seq(ValueSet))
    BY <1>5 DEF GroupSet
  <2> HIDE DEF items
  <2> QED
    BY <2>1
<1> HIDE DEF items
<1>12. ASSUME NEW i \in 1..Len(items)
       PROVE  filters[i].path = items[i][1]
  <2> DEFINE x == items[i][1]
             q == items[i][2]
  <2>1. filters[i] = [path |-> x, qos |-> q]
    BY <1>11, Zenon
  <2> HIDE DEF filters, x, q
  <2>2. filters[i].path = x
    BY <2>1
  <2> QED
    BY <2>2 DEF x
<1>13. Len(filters) = Len(items)
  <2>1. DOMAIN filters = 1..Len(items)
    BY <1>11, Zenon
  <2> HIDE DEF filters
  <2> QED
    BY <1>10, <1>11, <2>1
<1> HIDE DEF filters
<1>14. PICK n \in Nat : n = Len(items)
  BY <1>11
<1>15. PICK at \in [1..(n + 1) -> Nat] :
           /\ at[1] = h + 2 /\ at[n + 1] <= Len(b)
           /\ \A i \in 1..n : Taken(<<"string", "qos">>, items[i], at[i], at[i + 1])
  BY <1>5, <1>14, Zenon DEF Laid
<1>16. PICK acc \in [0..n -> Nat] :
           /\ acc[0] = 0 /\ SubscribeLen(p) = 2 + acc[n]
           /\ \A i \in 1..n : acc[i] = acc[i - 1] + 2 + Len(filters[i].path) + 1
  <2>1. PICK acc \in [0..Len(filters) -> Nat] :
           /\ acc[0] = 0
           /\ acc[Len(filters)] = FoldLeft(LAMBDA k, f : k + 2 + Len(f.path) + 1, 0, filters)
           /\ \A i \in 1..Len(filters) : acc[i] = acc[i - 1] + 2 + Len(filters[i].path) + 1
    BY <1>10, FilterLengths, Zenon
  <2>2. SubscribeLen(p) = 2 + acc[Len(filters)]
    BY <1>8, <2>1, Zenon DEF SubscribeLen
  <2> QED
    BY <1>13, <1>14, <2>1, <2>2, Zenon
<1> DEFINE w == [i \in 1..n |-> (2 + Len(filters[i].path)) + 1]
<1>17. ASSUME NEW i \in 1..n
       PROVE  /\ w[i] \in Nat /\ at[i + 1] = at[i] + w[i] /\ acc[i] = acc[i - 1] + w[i]
  <2>1. PICK l : l = Len(filters[i].path)
    OBVIOUS
  <2>2. l \in Nat
    <3>1. filters[i] \in FilterSet
      BY <1>10, <1>13, <1>14
    <3> QED
      BY <2>1, <3>1, FilterTyped, Zenon
  <2>3. w[i] = (2 + l) + 1
    BY <2>1, Zenon
  <2>4. at[i + 1] = (at[i] + Width("string", items[i][1])) + Width("qos", items[i][2])
    <3>1. Taken(<<"string", "qos">>, items[i], at[i], at[i + 1])
      BY <1>15, Zenon
    <3> QED
      BY ONLY <3>1, TakenTwo, SMT
  <2>5. Width("string", items[i][1]) = 2 + l /\ Width("qos", items[i][2]) = 1
    BY <1>12, <1>14, <2>1, WidthAs, Zenon
  <2>6. acc[i] = acc[i - 1] + 2 + l + 1
    BY <1>16, <2>1, Zenon
  <2>7. at[i] \in Nat /\ acc[i - 1] \in Nat
    <3>1. i \in 1..(n + 1) /\ i - 1 \in 0..n
      OBVIOUS
    <3> QED
      BY <3>1, Zenon
  <2>8. /\ (at[i] + Width("string", items[i][1])) + Width("qos", items[i][2]) = at[i] + ((2 + l) + 1)
        /\ acc[i - 1] + 2 + l + 1 = acc[i - 1] + ((2 + l) + 1)
        /\ (2 + l) + 1 \in Nat
    <3>1. PICK x, y, u, v : /\ x = at[i] /\ y = acc[i - 1]
                            /\ u = Width("string", items[i][1]) /\ v = Width("qos", items[i][2])
      OBVIOUS
    <3>2. x \in Nat /\ y \in Nat /\ u = 2 + l /\ v = 1
      BY <2>5, <2>7, <3>1, Zenon
    <3>3. (x + u) + v = x + ((2 + l) + 1) /\ y + 2 + l + 1 = y + ((2 + l) + 1) /\ (2 + l) + 1 \in Nat
      BY ONLY <2>2, <3>2
    <3> QED
      BY <3>1, <3>3, Zenon
  <2>9. acc[i] = acc[i - 1] + w[i]
    BY ONLY <2>3, <2>6, <2>8, Zenon
  <2>10. at[i + 1] = at[i] + w[i]
    BY ONLY <2>3, <2>4, <2>8, Zenon
  <2>11. w[i] \in Nat
    BY ONLY <2>3, <2>8, Zenon
  <2> QED
    BY <2>9, <2>10, <2>11, Zenon
<1>18. w \in [1..n -> Nat]
  <2>1. \A i \in 1..n : w[i] \in Nat
    BY <1>17, Zenon
  <2>2. w = [i \in 1..n |-> w[i]]
    BY Zenon
  <2> HIDE DEF w
  <2> QED
    BY <2>1, <2>2
<1> HIDE DEF w
<1>19. at[n + 1] = (h + 2) + acc[n]
  <2>1. h + 2 \in Nat
    BY <1>4
  <2>2. at[1] = h + 2 /\ acc[0] = 0
    BY <1>15, <1>16, Zenon
  <2>3. \A i \in 1..n : at[i + 1] = at[i] + w[i]
    BY <1>17, Zenon
  <2>4. \A i \in 1..n : acc[i] = acc[i - 1] + w[i]
    BY <1>17, Zenon
  <2> QED
    BY ONLY n \in Nat, at \in [1..(n + 1) -> Nat], acc \in [0..n -> Nat],
            <2>2, <1>18, <2>1, <2>3, <2>4, GrowAlike, Zenon
<1>20. SubscribeLen(p) \in 0..(Len(b) - h)
  <2>1. PICK l, m : l = Len(b) /\ m = acc[n]
    OBVIOUS
  <2>2. l \in Nat /\ h \in 0..l /\ (h + 2) + m <= l
    <3>1. Len(b) \in Nat
      OBVIOUS
    <3> QED
      BY <1>15, <1>19, <2>1, <3>1, Zenon
  <2>3. m \in Nat
    <3>1. n \in 0..n
      OBVIOUS
    <3> QED
      BY <2>1, <3>1, Zenon
  <2>4. 2 + m \in 0..(l - h)
    BY ONLY <2>2, <2>3
  <2> QED
    BY <1>16, <2>1, <2>4, Zenon
<1>21. Fitting(p, Len(b) - h)
  <2>1. /\ p.type # "Connect" /\ p.type # "Publish" /\ p.type # "SubAck"
        /\ p.type # "Unsubscribe" /\ p.type \notin AckTypes \cup {"ConnAck"}
    BY <1>8 DEF AckTypes
  <2> QED
    BY <1>20, <2>1, Zenon DEF Fitting
<1> QED
  BY <1>7, <1>21, Zenon

LEMMA UnsubscribeFitting ==
    ASSUME NEW b \in Seq(Byte), NEW h \in 0..Len(b), ReadUnsubscribe(b, h).error = "none"
    PROVE  Fitting(ReadUnsubscribe(b, h).packet, Len(b) - h)
<1> DEFINE r == Fields(b, h, <<"u16">>)
           g == Groups(b, h + 2, <<"string">>)
           items == g.items
           topics == [i \in DOMAIN items |-> items[i][1]]
           pkid == r.values[1]
           p == [type |-> "Unsubscribe", pkid |-> pkid, topics |-> topics]
<1>1. ReadUnsubscribe(b, h) =
         IF r.error # "none" THEN r
         ELSE IF g.next < Len(b) THEN Err(g.error)
         ELSE Packet(p)
  BY Zenon DEF ReadUnsubscribe, UnsubscribeOf
<1>2. r.error = "none"
  <2> HIDE DEF r, p, g
  <2> QED
    BY <1>1, Zenon
<1>3. <<"string">> # << >>
  OBVIOUS
<1>4. h + 2 \in 0..Len(b)
  BY <1>2, BehindIdentifier, Zenon
<1>5. g \in GroupSet /\ Laid(<<"string">>, items, h + 2, Len(b))
  BY <1>3, <1>4, KindLists, GroupsTyped, GroupsLie, Zenon
<1> HIDE DEF r, g, pkid
<1>6. ~(g.next < Len(b))
  <2>1. Err(g.error).error # "none"
    BY <1>5 DEF Err, GroupSet, FieldErrors
  <2> HIDE DEF p
  <2> QED
    BY <1>1, <1>2, <2>1, Zenon
<1>7. ReadUnsubscribe(b, h).packet = p
  <2> HIDE DEF p
  <2>1. ReadUnsubscribe(b, h) = [error |-> "none", packet |-> p]
    BY <1>1, <1>2, <1>6, Zenon DEF Packet
  <2> QED
    BY <2>1
<1>8. p.type = "Unsubscribe" /\ p.topics = topics
  OBVIOUS
<1>9. p \in PacketSet
  BY <1>7, UnsubscribeRewritable, Zenon DEF Rewritable
<1> HIDE DEF p
<1>10. topics \in Seq(Text) /\ UnsubscribeLen(p) \in Nat
  <2>1. p.topics \in Seq(Text)
    BY <1>8, <1>9, UnsubscribeFields
  <2> QED
    BY <1>8, <1>9, <2>1, PutsOfTopics, Zenon
<1>11. items \in Seq(Seq(ValueSet)) /\ Len(items) \in Nat /\ DOMAIN items = 1..Len(items)
  <2>1. items \in Seq(Seq(ValueSet))
    BY <1>5 DEF GroupSet
  <2> HIDE DEF items
  <2> QED
    BY <2>1
<1> HIDE DEF items
<1>12. \A i \in 1..Len(items) : topics[i] = items[i][1]
  BY <1>11, Zenon
<1>13. Len(topics) = Len(items)
  <2>1. DOMAIN topics = 1..Len(items)
    BY <1>11, Zenon
  <2> HIDE DEF topics
  <2> QED
    BY <1>10, <1>11, <2>1
<1> HIDE DEF topics
<1>14. PICK n \in Nat : n = Len(items)
  BY <1>11
<1>15. PICK at \in [1..(n + 1) -> Nat] :
           /\ at[1] = h + 2 /\ at[n + 1] <= Len(b)
           /\ \A i \in 1..n : Taken(<<"string">>, items[i], at[i], at[i + 1])
  BY <1>5, <1>14, Zenon DEF Laid
<1>16. PICK acc \in [0..n -> Nat] :
           /\ acc[0] = 0 /\ UnsubscribeLen(p) = 2 + acc[n]
           /\ \A i \in 1..n : acc[i] = acc[i - 1] + Len(topics[i]) + 2
  <2>1. PICK acc \in [0..Len(topics) -> Nat] :
           /\ acc[0] = 0
           /\ acc[Len(topics)] = FoldLeft(LAMBDA k, t : k + Len(t) + 2, 0, topics)
           /\ \A i \in 1..Len(topics) : acc[i] = acc[i - 1] + Len(topics[i]) + 2
    BY <1>10, TopicLengths, Zenon
  <2>2. UnsubscribeLen(p) = 2 + acc[Len(topics)]
    BY <1>8, <2>1, Zenon DEF UnsubscribeLen
  <2> QED
    BY <1>13, <1>14, <2>1, <2>2, Zenon
<1> DEFINE w == [i \in 1..n |-> 2 + Len(topics[i])]
<1>17. ASSUME NEW i \in 1..n
       PROVE  /\ w[i] \in Nat /\ at[i + 1] = at[i] + w[i] /\ acc[i] = acc[i - 1] + w[i]
  <2>1. PICK l : l = Len(topics[i])
    OBVIOUS
  <2>2. l \in Nat
    <3>1. topics[i] \in Text
      BY <1>10, <1>13, <1>14
    <3> QED
      BY <2>1, <3>1, TextIsBytes, Zenon
  <2>3. w[i] = 2 + l
    BY <2>1, Zenon
  <2>4. at[i + 1] = at[i] + Width("string", items[i][1])
    <3>1. Taken(<<"string">>, items[i], at[i], at[i + 1])
      BY <1>15, Zenon
    <3> QED
      BY ONLY <3>1, TakenOne, SMT
  <2>5. Width("string", items[i][1]) = 2 + l
    BY <1>12, <1>14, <2>1, WidthAs, Zenon
  <2>6. acc[i] = acc[i - 1] + l + 2
    BY <1>16, <2>1, Zenon
  <2>7. at[i] \in Nat /\ acc[i - 1] \in Nat
    <3>1. i \in 1..(n + 1) /\ i - 1 \in 0..n
      OBVIOUS
    <3> QED
      BY <3>1, Zenon
  <2>8. /\ at[i] + Width("string", items[i][1]) = at[i] + (2 + l)
        /\ acc[i - 1] + l + 2 = acc[i - 1] + (2 + l)
        /\ 2 + l \in Nat
    <3>1. PICK x, y, u : x = at[i] /\ y = acc[i - 1] /\ u = Width("string", items[i][1])
      OBVIOUS
    <3>2. x \in Nat /\ y \in Nat /\ u = 2 + l
      BY <2>5, <2>7, <3>1, Zenon
    <3>3. x + u = x + (2 + l) /\ y + l + 2 = y + (2 + l) /\ 2 + l \in Nat
      BY ONLY <2>2, <3>2
    <3> QED
      BY <3>1, <3>3, Zenon
  <2>9. acc[i] = acc[i - 1] + w[i]
    BY ONLY <2>3, <2>6, <2>8, Zenon
  <2>10. at[i + 1] = at[i] + w[i]
    BY ONLY <2>3, <2>4, <2>8, Zenon
  <2>11. w[i] \in Nat
    BY ONLY <2>3, <2>8, Zenon
  <2> QED
    BY <2>9, <2>10, <2>11, Zenon
<1>18. w \in [1..n -> Nat]
  <2>1. \A i \in 1..n : w[i] \in Nat
    BY <1>17, Zenon
  <2>2. w = [i \in 1..n |-> w[i]]
    BY Zenon
  <2> HIDE DEF w
  <2> QED
    BY <2>1, <2>2
<1> HIDE DEF w
<1>19. at[n + 1] = (h + 2) + acc[n]
  <2>1. h + 2 \in Nat
    BY <1>4
  <2>2. at[1] = h + 2 /\ acc[0] = 0
    BY <1>15, <1>16, Zenon
  <2>3. \A i \in 1..n : at[i + 1] = at[i] + w[i]
    BY <1>17, Zenon
  <2>4. \A i \in 1..n : acc[i] = acc[i - 1] + w[i]
    BY <1>17, Zenon
  <2> QED
    BY ONLY n \in Nat, at \in [1..(n + 1) -> Nat], acc \in [0..n -> Nat],
            <2>2, <1>18, <2>1, <2>3, <2>4, GrowAlike, Zenon
<1>20. UnsubscribeLen(p) \in 0..(Len(b) - h)
  <2>1. PICK l, m : l = Len(b) /\ m = acc[n]
    OBVIOUS
  <2>2. l \in Nat /\ h \in 0..l /\ (h + 2) + m <= l
    <3>1. Len(b) \in Nat
      OBVIOUS
    <3> QED
      BY <1>15, <1>19, <2>1, <3>1, Zenon
  <2>3. m \in Nat
    <3>1. n \in 0..n
      OBVIOUS
    <3> QED
      BY <2>1, <3>1, Zenon
  <2>4. 2 + m \in 0..(l - h)
    BY ONLY <2>2, <2>3
  <2> QED
    BY <1>16, <2>1, <2>4, Zenon
<1>21. Fitting(p, Len(b) - h)
  <2>1. /\ p.type # "Connect" /\ p.type # "Publish" /\ p.type # "SubAck"
        /\ p.type # "Subscribe" /\ p.type \notin AckTypes \cup {"ConnAck"}
    BY <1>8 DEF AckTypes
  <2> QED
    BY <1>20, <2>1, Zenon DEF Fitting
<1> QED
  BY <1>7, <1>21, Zenon

-----------------------------------------------------------------------------
(* The bytes that a last will and a login add to the body of a Connect. *)
WillPart(o) == IF o = << >> THEN 0 ELSE WillLen(o[1])

LoginPart(o) == IF o = << >> THEN 0 ELSE LoginLen(o[1])

(* n bytes behind `from` are not beyond `next`. *)
Before(from, n, next) == n \in Nat /\ from + n <= next

LEMMA WillTakes ==
    ASSUME NEW flags, NEW v, NEW from \in Nat, NEW next,
           Filled(WillFields(flags), v), Taken(WillFields(flags), v, from, next)
    PROVE  Before(from, WillPart(WillOf(flags, v)), next)
<1>1. CASE ~Bit(flags, 4)
  <2>1. WillFields(flags) = << >>
    BY <1>1, Zenon DEF WillFields
  <2>2. Len(v) = Len(<< >>) /\ v \in Seq(ValueSet)
    BY <2>1, Zenon DEF Filled
  <2>3. v = << >>
    BY <2>2
  <2>4. WillOf(flags, v) = << >>
    BY <2>3, Zenon DEF WillOf
  <2>5. WillPart(WillOf(flags, v)) = 0
    BY <2>4, Zenon DEF WillPart
  <2>6. next = from
    BY <2>1, TakenNone, Zenon
  <2>7. 0 \in Nat /\ from + 0 <= from
    OBVIOUS
  <2> QED
    BY <2>5, <2>6, <2>7, Zenon DEF Before
<1>2. CASE Bit(flags, 4)
  <2> DEFINE topic == v[1]
             message == v[2]
             qos == (flags \div 8) % 4
             retain == Bit(flags, 32)
             w == [topic |-> topic, message |-> message, qos |-> qos, retain |-> retain]
  <2>1. Filled(<<"string", "bytes">>, v) /\ Taken(<<"string", "bytes">>, v, from, next)
    BY <1>2, Zenon DEF WillFields
  <2>2. Len(v) = 2 /\ topic \in Text /\ message \in Seq(Byte)
    BY <2>1, FilledTwo, FitsMeans, Zenon
  <2>3. next = (from + Width("string", topic)) + Width("bytes", message)
    BY ONLY <2>1, TakenTwo, SMT
  <2>4. WillOf(flags, v) = <<w>>
    <3>1. Len(<< >>) # 2
      OBVIOUS
    <3>2. v # << >>
      BY <2>2, <3>1, Zenon
    <3> QED
      BY <3>2, Zenon DEF WillOf
  <2>5. PICK x, y : x = Len(topic) /\ y = Len(message)
    OBVIOUS
  <2>6. x \in Nat /\ y \in Nat
    BY <2>2, <2>5 DEF Text
  <2>7. Width("string", topic) = 2 + x /\ Width("bytes", message) = 2 + y
    BY <2>5, WidthAs, Zenon
  <2> HIDE DEF topic, message, qos, retain
  <2>8. w.topic = topic /\ w.message = message
    OBVIOUS
  <2> HIDE DEF w
  <2>9. WillPart(<<w>>) = 2 + x + 2 + y
    <3>1. <<w>> # << >> /\ <<w>>[1] = w
      OBVIOUS
    <3> QED
      BY <2>5, <2>8, <3>1, Zenon DEF WillPart, WillLen
  <2>10. next = (from + (2 + x)) + (2 + y)
    BY <2>3, <2>7, Zenon
  <2>11. 2 + x + 2 + y \in Nat /\ from + (2 + x + 2 + y) <= (from + (2 + x)) + (2 + y)
    BY ONLY <2>6, from \in Nat
  <2> QED
    BY <2>4, <2>9, <2>10, <2>11, Zenon DEF Before
<1> QED
  BY <1>1, <1>2

(* A string of a login takes its length prefix and its bytes, if it is there. *)
OneLogin(s) == IF s = << >> THEN 0 ELSE 2 + Len(s)

LEMMA LoginTakes ==
    ASSUME NEW flags, NEW v, NEW from \in Nat, NEW next,
           Filled(LoginFields(flags), v), Taken(LoginFields(flags), v, from, next)
    PROVE  Before(from, LoginPart(LoginOf(flags, v)), next)
<1> DEFINE username == IF Bit(flags, 128) THEN v[1] ELSE << >>
           password == IF Bit(flags, 64) THEN v[Len(v)] ELSE << >>
           l == [username |-> username, password |-> password]
<1>1. LoginOf(flags, v) = IF username = << >> /\ password = << >> THEN << >> ELSE <<l>>
  BY Zenon DEF LoginOf
<1>2. l.username = username /\ l.password = password
  OBVIOUS
<1>3. LoginPart(LoginOf(flags, v)) = OneLogin(username) + OneLogin(password)
  <2> HIDE DEF username, password, l
  <2>1. CASE username = << >> /\ password = << >>
    <3>1. LoginPart(LoginOf(flags, v)) = 0 /\ OneLogin(username) = 0 /\ OneLogin(password) = 0
      BY <1>1, <2>1, Zenon DEF LoginPart, OneLogin
    <3>2. 0 + 0 = 0
      OBVIOUS
    <3> QED
      BY <3>1, <3>2, Zenon
  <2>2. CASE ~(username = << >> /\ password = << >>)
    <3>1. <<l>> # << >> /\ <<l>>[1] = l
      OBVIOUS
    <3>2. LoginPart(LoginOf(flags, v)) = LoginLen(l)
      BY <1>1, <2>2, <3>1, Zenon DEF LoginPart
    <3> QED
      BY <1>2, <3>2, Zenon DEF LoginLen, OneLogin
  <2> QED
    BY <2>1, <2>2, Zenon
<1>4. ASSUME NEW s, NEW n, n = Len(s), n \in Nat
      PROVE  OneLogin(s) \in 0..(2 + n)
  <2>1. 0 \in 0..(2 + n) /\ 2 + n \in 0..(2 + n)
    BY <1>4
  <2> QED
    BY <1>4, <2>1, Zenon DEF OneLogin
<1>5. OneLogin(<< >>) = 0
  BY Zenon DEF OneLogin
<1>6. CASE Bit(flags, 128) /\ Bit(flags, 64)
  <2>1. LoginFields(flags) = <<"string", "bytes">>
    <3>1. LoginFields(flags) = <<"string">> \o <<"bytes">>
      BY <1>6, Zenon DEF LoginFields
    <3>2. <<"string">> \o <<"bytes">> = <<"string", "bytes">>
      <4>1. "string" \in FieldKinds /\ "bytes" \in FieldKinds
        BY EncodedAs, Zenon
      <4> QED
        BY <4>1, PairOf, Zenon
    <3> QED
      BY <3>1, <3>2, Zenon
  <2>2. Filled(<<"string", "bytes">>, v) /\ Taken(<<"string", "bytes">>, v, from, next)
    BY <2>1, Zenon
  <2>3. Len(v) = 2 /\ v[1] \in Text /\ v[2] \in Seq(Byte)
    BY <2>2, FilledTwo, FitsMeans, Zenon
  <2>4. next = (from + Width("string", v[1])) + Width("bytes", v[2])
    BY ONLY <2>2, TakenTwo, SMT
  <2>5. PICK x, y : x = Len(v[1]) /\ y = Len(v[2])
    OBVIOUS
  <2>6. x \in Nat /\ y \in Nat
    BY <2>3, <2>5 DEF Text
  <2>7. Width("string", v[1]) = 2 + x /\ Width("bytes", v[2]) = 2 + y
    BY <2>5, WidthAs, Zenon
  <2>8. next = (from + (2 + x)) + (2 + y)
    BY <2>4, <2>7, Zenon
  <2>9. OneLogin(username) \in 0..(2 + x) /\ OneLogin(password) \in 0..(2 + y)
    <3>1. username = v[1] /\ password = v[2]
      BY <1>6, <2>3, Zenon
    <3> HIDE DEF username, password
    <3> QED
      BY <1>4, <2>5, <2>6, <3>1, Zenon
  <2>10. \A m \in 0..(2 + x), n \in 0..(2 + y) :
            m + n \in Nat /\ from + (m + n) <= (from + (2 + x)) + (2 + y)
    BY ONLY <2>6, from \in Nat, SMT
  <2> QED
    BY <1>3, <2>8, <2>9, <2>10, Zenon DEF Before
<1>7. ASSUME NEW kind \in {"string", "bytes"}, LoginFields(flags) = <<kind>>,
             \/ username = v[1] /\ password = << >>
             \/ username = << >> /\ password = v[1]
      PROVE  Before(from, LoginPart(LoginOf(flags, v)), next)
  <2>1. Filled(<<kind>>, v) /\ Taken(<<kind>>, v, from, next)
    BY <1>7, Zenon
  <2>2. v[1] \in Seq(Byte)
    <3>1. Fits(kind, v[1])
      BY <2>1, FilledOne, Zenon
    <3>2. CASE kind = "string"
      <4>1. v[1] \in Text
        BY <3>1, <3>2, FitsMeans, Zenon
      <4> QED
        BY <4>1 DEF Text
    <3>3. CASE kind = "bytes"
      BY <3>1, <3>3, FitsMeans, Zenon
    <3> QED
      BY <1>7, <3>2, <3>3
  <2>3. next = from + Width(kind, v[1])
    BY <2>1, TakenOne, Zenon
  <2>4. PICK x : x = Len(v[1])
    OBVIOUS
  <2>5. x \in Nat
    BY <2>2, <2>4
  <2>6. Width(kind, v[1]) = 2 + x
    <3>1. CASE kind = "string"
      BY <2>4, <3>1, WidthAs, Zenon
    <3>2. CASE kind = "bytes"
      BY <2>4, <3>2, WidthAs, Zenon
    <3> QED
      BY <1>7, <3>1, <3>2
  <2>7. next = from + (2 + x)
    BY <2>3, <2>6, Zenon
  <2>8. PICK m \in 0..(2 + x) : OneLogin(v[1]) = m
    BY <1>4, <2>4, <2>5, Zenon
  <2>9. m + 0 \in Nat /\ 0 + m \in Nat /\ from + (m + 0) <= from + (2 + x)
        /\ from + (0 + m) <= from + (2 + x)
    BY ONLY <2>5, from \in Nat, m \in 0..(2 + x)
  <2> HIDE DEF username, password
  <2>10. \/ LoginPart(LoginOf(flags, v)) = m + 0
         \/ LoginPart(LoginOf(flags, v)) = 0 + m
    BY <1>3, <1>5, <1>7, <2>8, Zenon
  <2> QED
    BY <2>7, <2>9, <2>10, Zenon DEF Before
<1>8. CASE Bit(flags, 128) /\ ~Bit(flags, 64)
  <2>1. LoginFields(flags) = <<"string">> \o << >>
    BY <1>8, Zenon DEF LoginFields
  <2>2. LoginFields(flags) = <<"string">>
    BY <2>1
  <2>3. username = v[1] /\ password = << >>
    BY <1>8, Zenon
  <2> HIDE DEF username, password
  <2> QED
    BY <1>7, <2>2, <2>3, Zenon
<1>9. CASE ~Bit(flags, 128) /\ Bit(flags, 64)
  <2>1. LoginFields(flags) = << >> \o <<"bytes">>
    BY <1>9, Zenon DEF LoginFields
  <2>2. LoginFields(flags) = <<"bytes">>
    BY <2>1
  <2>3. Len(v) = 1
    BY <2>2, FilledOne, Zenon
  <2>4. username = << >> /\ password = v[1]
    BY <1>9, <2>3, Zenon
  <2> HIDE DEF username, password
  <2> QED
    BY <1>7, <2>2, <2>4, Zenon
<1>10. CASE ~Bit(flags, 128) /\ ~Bit(flags, 64)
  <2>1. LoginFields(flags) = << >> \o << >>
    BY <1>10, Zenon DEF LoginFields
  <2>2. LoginFields(flags) = << >>
    BY <2>1
  <2>3. next = from
    BY <2>2, TakenNone, Zenon
  <2>4. LoginPart(LoginOf(flags, v)) = 0
    <3>1. username = << >> /\ password = << >>
      BY <1>10, Zenon
    <3> HIDE DEF username, password
    <3> QED
      BY <1>1, <3>1, Zenon DEF LoginPart
  <2>5. 0 \in Nat /\ from + 0 <= from
    OBVIOUS
  <2> QED
    BY <2>3, <2>4, <2>5, Zenon DEF Before
<1> QED
  BY <1>6, <1>8, <1>9, <1>10, Zenon

-----------------------------------------------------------------------------
(* The length of a Connect, part by part. *)
LEMMA ConnectLenParts ==
    ASSUME NEW p
    PROVE  ConnectLen(p) = 2 + 4 + 1 + 1 + 2 + 2 + Len(p.client_id) + WillPart(p.last_will) + LoginPart(p.login)
<1>1. Len(MQTT) = 4
  BY MqttIsText, Zenon
<1> QED
  BY <1>1, Zenon DEF ConnectLen, WillPart, LoginPart

LEMMA ConnectFitting ==
    ASSUME NEW b \in Seq(Byte), NEW h \in 0..Len(b), ReadConnect(b, h).error = "none"
    PROVE  Fitting(ReadConnect(b, h).packet, Len(b) - h)
<1> DEFINE proto == Fields(b, h, <<"string", "u8">>)
           rest == Fields(b, proto.next, <<"u8", "u16", "string">>)
           flags == rest.values[1]
           will == Fields(b, rest.next, WillFields(flags))
           login == Fields(b, will.next, LoginFields(flags))
           last == WillOf(flags, will.values)
           log == LoginOf(flags, login.values)
           keep == rest.values[2]
           id == rest.values[3]
           clean == Bit(flags, 2)
           p == [type |-> "Connect", protocol |-> 4, keep_alive |-> keep, client_id |-> id,
                 clean_session |-> clean, last_will |-> last, login |-> log]
<1>1. ReadConnect(b, h) =
         IF proto.error # "none" THEN proto
         ELSE IF proto.values[1] # <<77, 81, 84, 84>> THEN Err("InvalidProtocol")
         ELSE IF proto.values[2] # 4 THEN Err("InvalidProtocolLevel")
         ELSE ReadWill(b, rest)
  BY Zenon DEF ReadConnect, ReadProtocol
<1>2. ReadWill(b, rest) =
         IF rest.error # "none" THEN rest
         ELSE IF ~Bit(flags, 4) /\ (flags \div 8) % 8 # 0 THEN Err("MalformedPacket")
         ELSE ReadLogin(b, flags, rest, will)
  BY Zenon DEF ReadWill
<1>3. ReadLogin(b, flags, rest, will) =
         IF will.error # "none" THEN will
         ELSE IF Bit(flags, 4) /\ (flags \div 8) % 4 > 2 THEN Err("InvalidQoS")
         ELSE IF login.error # "none" THEN login
         ELSE Packet(p)
  BY Zenon DEF ReadLogin, ConnectOf
<1>5. \A e : Err(e).error = e
  BY DEF Err
<1>6. /\ proto \in RunSet(h, Len(b))
      /\ proto.error = "none" => Taken(<<"string", "u8">>, proto.values, h, proto.next)
  BY KindLists, FieldsTyped, FieldsTake, Zenon
<1>7. proto.error = "none" => /\ proto.next \in 0..Len(b)
                              /\ rest \in RunSet(proto.next, Len(b))
  <2> SUFFICES ASSUME proto.error = "none"
               PROVE  proto.next \in 0..Len(b) /\ rest \in RunSet(proto.next, Len(b))
    OBVIOUS
  <2> HIDE DEF proto
  <2>1. proto.next \in h..Len(b)
    BY <1>6 DEF RunSet, FieldErrors
  <2>2. proto.next \in 0..Len(b)
    BY <2>1
  <2> QED
    BY <2>2, KindLists, FieldsTyped, Zenon
<1>8. proto.error = "none" /\ rest.error = "none" =>
         /\ Taken(<<"u8", "u16", "string">>, rest.values, proto.next, rest.next)
         /\ Filled(<<"u8", "u16", "string">>, rest.values)
         /\ rest.next \in 0..Len(b)
         /\ will \in RunSet(rest.next, Len(b))
         /\ will.error = "none" => /\ Filled(WillFields(flags), will.values)
                                   /\ Taken(WillFields(flags), will.values, rest.next, will.next)
  <2> SUFFICES ASSUME proto.error = "none", rest.error = "none"
               PROVE  /\ Taken(<<"u8", "u16", "string">>, rest.values, proto.next, rest.next)
                      /\ Filled(<<"u8", "u16", "string">>, rest.values)
                      /\ rest.next \in 0..Len(b)
                      /\ will \in RunSet(rest.next, Len(b))
                      /\ will.error = "none" =>
                            /\ Filled(WillFields(flags), will.values)
                            /\ Taken(WillFields(flags), will.values, rest.next, will.next)
    OBVIOUS
  <2>0. /\ Filled(<<"u8", "u16", "string">>, rest.values)
        /\ Taken(<<"u8", "u16", "string">>, rest.values, proto.next, rest.next)
    <3> HIDE DEF proto
    <3> QED
      BY <1>7, KindLists, FieldsFit, FieldsTake, Zenon
  <2> HIDE DEF rest, proto
  <2>1. rest.next \in proto.next..Len(b)
    BY <1>7 DEF RunSet, FieldErrors
  <2>2. rest.next \in 0..Len(b)
    BY <1>7, <2>1
  <2>3. WillFields(flags) \in Seq(FieldKinds)
    BY KindLists, Zenon DEF WillFields
  <2>4. will \in RunSet(rest.next, Len(b))
    BY <2>2, <2>3, FieldsTyped, Zenon
  <2>5. will.error = "none" => /\ Filled(WillFields(flags), will.values)
                               /\ Taken(WillFields(flags), will.values, rest.next, will.next)
    BY <2>2, <2>3, FieldsFit, FieldsTake, Zenon
  <2> QED
    BY <2>0, <2>2, <2>4, <2>5, Zenon
<1>9. proto.error = "none" /\ rest.error = "none" /\ will.error = "none" /\ login.error = "none" =>
         /\ will.next \in 0..Len(b)
         /\ login \in RunSet(will.next, Len(b))
         /\ Filled(LoginFields(flags), login.values)
         /\ Taken(LoginFields(flags), login.values, will.next, login.next)
  <2> SUFFICES ASSUME proto.error = "none", rest.error = "none", will.error = "none",
                      login.error = "none"
               PROVE  /\ will.next \in 0..Len(b)
                      /\ login \in RunSet(will.next, Len(b))
                      /\ Filled(LoginFields(flags), login.values)
                      /\ Taken(LoginFields(flags), login.values, will.next, login.next)
    BY Zenon
  <2> HIDE DEF proto, rest, flags, will
  <2>1. will.next \in rest.next..Len(b)
    BY <1>8 DEF RunSet, FieldErrors
  <2>2. will.next \in 0..Len(b)
    BY <1>8, <2>1
  <2>3. LoginFields(flags) \in Seq(FieldKinds)
    <3>1. (IF Bit(flags, 128) THEN <<"string">> ELSE << >>) \in Seq(FieldKinds)
      BY KindLists, Zenon
    <3>2. (IF Bit(flags, 64) THEN <<"bytes">> ELSE << >>) \in Seq(FieldKinds)
      BY KindLists, Zenon
    <3>3. \A x, y \in Seq(FieldKinds) : x \o y \in Seq(FieldKinds)
      OBVIOUS
    <3> QED
      BY <3>1, <3>2, <3>3, ZenonT(60) DEF LoginFields
  <2> QED
    BY <2>2, <2>3, FieldsFit, FieldsTyped, FieldsTake, Zenon
<1> HIDE DEF proto, rest, will, login, flags, clean, p
<1>10. /\ proto.error = "none" /\ rest.error = "none" /\ will.error = "none" /\ login.error = "none"
       /\ proto.values[1] = <<77, 81, 84, 84>>
       /\ ReadConnect(b, h) = Packet(p)
  <2>1. /\ "InvalidProtocol" # "none" /\ "InvalidProtocolLevel" # "none"
        /\ "MalformedPacket" # "none" /\ "InvalidQoS" # "none"
    OBVIOUS
  <2>2. /\ proto.error = "none" /\ ReadConnect(b, h) = ReadWill(b, rest)
        /\ proto.values[1] = <<77, 81, 84, 84>>
    BY <1>1, <1>5, <2>1, Zenon
  <2>3. rest.error = "none" /\ ReadWill(b, rest) = ReadLogin(b, flags, rest, will)
    BY <1>2, <1>5, <2>1, <2>2, Zenon
  <2>4. ReadConnect(b, h) = ReadLogin(b, flags, rest, will)
    BY <2>2, <2>3, Zenon
  <2>5. will.error = "none"
    BY <1>3, <2>4, Zenon
  <2>6. ~(Bit(flags, 4) /\ (flags \div 8) % 4 > 2)
    BY <1>3, <1>5, <2>1, <2>4, <2>5, Zenon
  <2>7. login.error = "none" /\ ReadLogin(b, flags, rest, will) = Packet(p)
    BY <1>3, <2>4, <2>5, <2>6, Zenon
  <2> QED
    BY <2>2, <2>3, <2>4, <2>5, <2>7, Zenon
<1>11. proto.next = (h + 6) + 1
  <2>1. Taken(<<"string", "u8">>, proto.values, h, proto.next)
    BY <1>6, <1>10, Zenon
  <2>2. proto.next = (h + Width("string", proto.values[1])) + Width("u8", proto.values[2])
    BY ONLY <2>1, TakenTwo, SMT
  <2>3. Len(<<77, 81, 84, 84>>) = 4 /\ 2 + 4 = 6
    OBVIOUS
  <2>4. Width("string", proto.values[1]) = 2 + Len(proto.values[1])
    BY WidthAs, Zenon
  <2>5. Width("string", proto.values[1]) = 6
    BY ONLY <1>10, <2>3, <2>4
  <2>6. Width("u8", proto.values[2]) = 1
    BY WidthAs, Zenon
  <2>7. proto.next = (h + 6) + Width("u8", proto.values[2])
    BY <2>2, <2>5, Zenon
  <2> QED
    BY <2>6, <2>7, Zenon
<1>12. PICK x : x = Len(id)
  OBVIOUS
<1>13. x \in Nat /\ rest.next = ((proto.next + 1) + 2) + (2 + x)
  <2>1. /\ Taken(<<"u8", "u16", "string">>, rest.values, proto.next, rest.next)
        /\ Filled(<<"u8", "u16", "string">>, rest.values)
    BY <1>8, <1>10, Zenon
  <2>2. rest.next = ((proto.next + Width("u8", rest.values[1])) + Width("u16", rest.values[2]))
                      + Width("string", rest.values[3])
    BY ONLY <2>1, TakenThree, SMT
  <2>3. /\ Width("u8", rest.values[1]) = 1 /\ Width("u16", rest.values[2]) = 2
        /\ Width("string", rest.values[3]) = 2 + x
    BY <1>12, WidthAs, Zenon
  <2>4. id \in Text
    BY <2>1, FilledThree, FitsMeans, Zenon
  <2>5. x \in Nat
    BY <1>12, <2>4 DEF Text
  <2>6. rest.next = ((proto.next + 1) + Width("u16", rest.values[2])) + (2 + x)
    BY <2>2, <2>3, Zenon
  <2> QED
    BY <2>3, <2>5, <2>6, Zenon
<1>14. PICK l, r, s, t : l = Len(b) /\ r = rest.next /\ s = will.next /\ t = login.next
  OBVIOUS
<1>15. l \in Nat /\ h \in 0..l
  <2>1. Len(b) \in Nat
    OBVIOUS
  <2> QED
    BY <1>14, <2>1, Zenon
<1>16. r \in Nat /\ s \in Nat /\ t \in s..l
  <2>1. r \in 0..l /\ s \in 0..l
    BY <1>8, <1>9, <1>10, <1>14, Zenon
  <2>2. login.next \in will.next..Len(b)
    BY <1>9, <1>10 DEF RunSet, FieldErrors
  <2>3. t \in s..l
    BY <1>14, <2>2, Zenon
  <2> QED
    BY ONLY <2>1, <2>3
<1>17. r = ((((h + 6) + 1) + 1) + 2) + (2 + x)
  BY <1>11, <1>13, <1>14, Zenon
<1>18. Before(r, WillPart(last), s)
  <2>1. /\ Filled(WillFields(flags), will.values) /\ Taken(WillFields(flags), will.values, r, s)
    BY <1>8, <1>10, <1>14, Zenon
  <2> QED
    BY <1>16, <2>1, WillTakes, Zenon
<1>19. Before(s, LoginPart(log), t)
  <2>1. /\ Filled(LoginFields(flags), login.values) /\ Taken(LoginFields(flags), login.values, s, t)
    BY <1>9, <1>10, <1>14, Zenon
  <2> QED
    BY <1>16, <2>1, LoginTakes, Zenon
<1> HIDE DEF last, log, keep, id
<1>20. PICK y, z : y = WillPart(last) /\ z = LoginPart(log)
  OBVIOUS
<1>21. y \in Nat /\ z \in Nat /\ r + y <= s /\ s + z <= t
  BY <1>18, <1>19, <1>20, Zenon DEF Before
<1>22. 2 + 4 + 1 + 1 + 2 + 2 + x + y + z \in 0..(l - h)
  BY ONLY <1>13, <1>15, <1>16, <1>17, <1>21
<1>23. p.type = "Connect" /\ p.client_id = id /\ p.last_will = last /\ p.login = log
  BY DEF p
<1>24. ConnectLen(p) = 2 + 4 + 1 + 1 + 2 + 2 + x + y + z
  BY <1>12, <1>20, <1>23, ConnectLenParts, Zenon
<1>25. /\ p.type # "Publish" /\ p.type # "Subscribe" /\ p.type # "SubAck"
       /\ p.type # "Unsubscribe" /\ p.type \notin AckTypes \cup {"ConnAck"}
  BY <1>23 DEF AckTypes
<1>26. Fitting(p, Len(b) - h)
  BY <1>14, <1>22, <1>24, <1>25, Zenon DEF Fitting
<1>27. ReadConnect(b, h).packet = p
  BY <1>10 DEF Packet
<1> QED
  BY <1>26, <1>27, Zenon

-----------------------------------------------------------------------------
LEMMA UnsubAckFitting ==
    ASSUME NEW b \in Seq(Byte), NEW h \in 0..Len(b), NEW n, ReadUnsubAck(n, b, h).error = "none"
    PROVE  Fitting(ReadUnsubAck(n, b, h).packet, Len(b) - h)
<1>1. CASE n # 2
  <2>1. ReadUnsubAck(n, b, h) = Err("MalformedPacket")
    BY <1>1 DEF ReadUnsubAck
  <2> QED
    BY <2>1 DEF Err
<1>2. CASE n = 2
  <2>1. ReadUnsubAck(n, b, h) = ReadAck("UnsubAck", b, h)
    BY <1>2, Zenon DEF ReadUnsubAck
  <2>2. "UnsubAck" \in AckTypes
    BY DEF AckTypes
  <2> QED
    BY <2>1, <2>2, AckFitting, Zenon
<1> QED
  BY <1>1, <1>2

(* What Packet::read_exact makes of a frame is no longer than the body it was read from. *)
LEMMA ExactFitting ==
    ASSUME NEW b \in Seq(Byte), NEW h \in 0..Len(b), NEW byte1 \in Byte, NEW n,
           ReadExact(byte1, n, b, h).error = "none"
    PROVE  Fitting(ReadExact(byte1, n, b, h).packet, Len(b) - h)
<1> DEFINE code == byte1 \div 16
           type == PacketTypes[code]
<1>1. DOMAIN PacketTypes = 1..14
  BY TypeNames, Zenon
<1>2. code \in 1..14
  <2>1. code \notin 1..14 => ReadExact(byte1, n, b, h) = Err("InvalidPacketType")
    BY <1>1, Zenon DEF ReadExact
  <2>2. Err("InvalidPacketType").error # "none"
    BY DEF Err
  <2> QED
    BY <2>1, <2>2, Zenon
<1>0. byte1 \div 16 = code /\ PacketTypes[code] = type
  OBVIOUS
<1> HIDE DEF code
<1>3. CASE type \in Bodiless
  <2>1. ReadExact(byte1, n, b, h) = Packet([type |-> type])
    <3>1. byte1 \div 16 \in DOMAIN PacketTypes /\ PacketTypes[byte1 \div 16] = type
      BY <1>0, <1>1, <1>2
    <3> HIDE DEF type
    <3> QED
      BY <1>3, <3>1, Zenon DEF ReadExact
  <2> DEFINE p == [type |-> type]
  <2>2. ReadExact(byte1, n, b, h).packet = p
    BY <2>1 DEF Packet
  <2>3. p \in [type : {"PingReq", "PingResp", "Disconnect"}] /\ p.type = type
    BY <1>3 DEF Bodiless
  <2> HIDE DEF p, type
  <2>4. /\ p.type \notin {"Connect", "Publish", "Subscribe", "SubAck", "Unsubscribe"}
        /\ p.type \notin AckTypes \cup {"ConnAck"}
    BY <1>3, <2>3 DEF Bodiless, AckTypes
  <2>5. Fitting(p, Len(b) - h)
    BY <2>4, Zenon DEF Fitting
  <2> QED
    BY <2>2, <2>5, Zenon
<1>4. CASE type \notin Bodiless
  <2>1. n # 0
    <3>1. n = 0 => ReadExact(byte1, n, b, h) = Err("MalformedPacket")
      BY <1>1, <1>2, <1>4, Zenon DEF ReadExact, code
    <3> QED
      BY <3>1 DEF Err
  <2>2. ReadExact(byte1, n, b, h) = ReaderOf(type, byte1, n, b, h)
    <3>1. byte1 \div 16 \in DOMAIN PacketTypes /\ PacketTypes[byte1 \div 16] = type
      BY <1>0, <1>1, <1>2
    <3> HIDE DEF type
    <3> QED
      BY <1>4, <2>1, <3>1, Zenon DEF ReadExact, ReaderOf
  <2>3. type \in {"Connect", "ConnAck", "Publish", "Subscribe", "SubAck", "Unsubscribe"} \cup AckTypes
    <3> DEFINE Named(t) == \/ t \in {"Connect", "ConnAck", "Publish", "Subscribe", "SubAck",
                                      "Unsubscribe"}
                           \/ t \in AckTypes \/ t \in Bodiless
    <3>1. /\ \A t \in {"Connect", "ConnAck", "Publish", "Subscribe", "SubAck", "Unsubscribe"} : Named(t)
          /\ \A t \in AckTypes : Named(t)
          /\ \A t \in Bodiless : Named(t)
      BY Zenon
    <3>2. /\ Named("Connect") /\ Named("ConnAck") /\ Named("Publish") /\ Named("Subscribe")
          /\ Named("SubAck") /\ Named("Unsubscribe")
      BY <3>1, Zenon
    <3>3. /\ Named("PubAck") /\ Named("PubRec") /\ Named("PubRel") /\ Named("PubComp")
          /\ Named("UnsubAck")
      BY <3>1, Zenon DEF AckTypes
    <3>4. Named("PingReq") /\ Named("PingResp") /\ Named("Disconnect")
      BY <3>1, Zenon DEF Bodiless
    <3> HIDE DEF Named
    <3>5. /\ Named(PacketTypes[1]) /\ Named(PacketTypes[2]) /\ Named(PacketTypes[3])
          /\ Named(PacketTypes[4]) /\ Named(PacketTypes[5]) /\ Named(PacketTypes[6])
          /\ Named(PacketTypes[7]) /\ Named(PacketTypes[8]) /\ Named(PacketTypes[9])
          /\ Named(PacketTypes[10]) /\ Named(PacketTypes[11]) /\ Named(PacketTypes[12])
          /\ Named(PacketTypes[13]) /\ Named(PacketTypes[14])
      BY <3>2, <3>3, <3>4, TypeNames, Zenon
    <3>6. \A i \in 1..14 : \/ i = 1 \/ i = 2 \/ i = 3 \/ i = 4 \/ i = 5 \/ i = 6 \/ i = 7
                           \/ i = 8 \/ i = 9 \/ i = 10 \/ i = 11 \/ i = 12 \/ i = 13 \/ i = 14
      BY ONLY SMT
    <3>7. Named(PacketTypes[code])
      BY <1>2, <3>5, <3>6, Zenon
    <3> QED
      BY <1>0, <1>4, <3>7, Zenon DEF Named
  <2> HIDE DEF type
  <2>4. CASE type = "Connect"
    <3>1. ReaderOf(type, byte1, n, b, h) = ReadConnect(b, h)
      BY <2>4 DEF ReaderOf
    <3> QED
      BY <2>2, <3>1, ConnectFitting, Zenon
  <2>5. CASE type = "ConnAck"
    <3>1. ReaderOf(type, byte1, n, b, h) = ReadConnAck(b, h)
      BY <2>5 DEF ReaderOf
    <3> QED
      BY <2>2, <3>1, ConnAckFitting, Zenon
  <2>6. CASE type = "Publish"
    <3>1. ReaderOf(type, byte1, n, b, h) = ReadPublish(byte1, b, h)
      BY <2>6 DEF ReaderOf
    <3> QED
      BY <2>2, <3>1, PublishFitting, Zenon
  <2>7. CASE type = "Subscribe"
    <3>1. ReaderOf(type, byte1, n, b, h) = ReadSubscribe(b, h)
      BY <2>7 DEF ReaderOf
    <3> QED
      BY <2>2, <3>1, SubscribeFitting, Zenon
  <2>8. CASE type = "SubAck"
    <3>1. ReaderOf(type, byte1, n, b, h) = ReadSubAck(b, h)
      BY <2>8 DEF ReaderOf
    <3> QED
      BY <2>2, <3>1, SubAckFitting, Zenon
  <2>9. CASE type = "Unsubscribe"
    <3>1. ReaderOf(type, byte1, n, b, h) = ReadUnsubscribe(b, h)
      BY <2>9 DEF ReaderOf
    <3> QED
      BY <2>2, <3>1, UnsubscribeFitting, Zenon
  <2>10. CASE type = "UnsubAck"
    <3>1. ReaderOf(type, byte1, n, b, h) = ReadUnsubAck(n, b, h)
      BY <2>10 DEF ReaderOf
    <3> QED
      BY <2>2, <3>1, UnsubAckFitting, Zenon
  <2>11. CASE type \in AckTypes \ {"UnsubAck"}
    <3>1. ReaderOf(type, byte1, n, b, h) = ReadAck(type, b, h)
      BY <2>11 DEF ReaderOf, AckTypes
    <3> QED
      BY <2>2, <2>11, <3>1, AckFitting, Zenon
  <2> QED
    BY <2>3, <2>4, <2>5, <2>6, <2>7, <2>8, <2>9, <2>10, <2>11, Zenon
<1> QED
  BY <1>3, <1>4

-----------------------------------------------------------------------------
(* The bytes of a packet that was written are within the longest limit. *)
LEMMA FrameWithin ==
    ASSUME NEW bytes, IsFrame(bytes)
    PROVE  Within(bytes, MaxRemaining)
<1>1. bytes \in Seq(Byte) /\ MaxRemaining \in Nat
  BY DEF IsFrame, MaxRemaining
<1>2. PICK n \in Nat : n <= MaxRemaining /\ BeginsFrame(bytes, n) /\ Len(bytes) = FrameSize(n)
  BY Zenon DEF IsFrame
<1>3. Len(bytes) >= FrameSize(n)
  <2>1. FrameSize(n) \in Nat
    <3>1. LengthBytes(n) \in 1..4
      BY LengthBytesRange, Zenon
    <3> QED
      BY <3>1 DEF FrameSize
  <2> QED
    BY <1>2, <2>1
<1>4. Check(bytes, MaxRemaining) =
         [error |-> "none", byte1 |-> bytes[1], header |-> LengthBytes(n) + 1, remaining |-> n]
  BY <1>1, <1>2, <1>3, WholeFrameAccepted, Zenon
<1>5. Check(bytes, MaxRemaining).error = "none"
  BY <1>4
<1> DEFINE h == ParseFixedHeader(bytes)
<1>6. Checked(h, Len(bytes), MaxRemaining).error = "none"
  BY <1>5, Zenon DEF Check
<1>7. h.error = "none"
  BY <1>6, Zenon DEF Checked
<1>8. ~(h.remaining > MaxRemaining)
  <2> SUFFICES ASSUME h.remaining > MaxRemaining
               PROVE  FALSE
    OBVIOUS
  <2>1. Checked(h, Len(bytes), MaxRemaining) = Err("PayloadSizeLimitExceeded")
    BY <1>7, Zenon DEF Checked
  <2>2. Err("PayloadSizeLimitExceeded").error # "none"
    BY DEF Err
  <2> QED
    BY <1>6, <2>1, <2>2, Zenon
<1> QED
  BY <1>7, <1>8, Zenon DEF Within

(* What Packet::read makes of exactly the bytes of a frame. *)
LEMMA ReadWhole ==
    ASSUME NEW bytes, IsFrame(bytes), NEW p, ExactOf(bytes) = Packet(p)
    PROVE  Read(bytes, MaxRemaining) = [error |-> "none", packet |-> p, taken |-> Len(bytes)]
<1>1. bytes \in Seq(Byte) /\ OneFrame(bytes) /\ Within(bytes, MaxRemaining)
  BY WrittenIsOneFrame, FrameWithin, Zenon
<1>2. /\ MaxRemaining \in Nat /\ Len(bytes) \in Nat /\ SameBytes(bytes, bytes)
      /\ HeaderSize(bytes) \in 2..5 /\ HeaderSize(bytes) <= Len(bytes)
  <2>1. MaxRemaining \in Nat /\ Len(bytes) \in Nat
    BY <1>1 DEF MaxRemaining
  <2>2. SameBytes(bytes, bytes)
    BY Zenon DEF SameBytes
  <2>3. FrameShape(bytes)
    BY <1>1, ShapeOfFrame, Zenon
  <2> QED
    BY <2>1, <2>2, <2>3, Zenon DEF FrameShape
<1>3. bytes # << >>
  <2>1. Len(bytes) > 0
    BY <1>2
  <2> QED
    BY <2>1
<1> DEFINE r == Read(bytes, MaxRemaining)
<1>4. ReadsFront(bytes, bytes, MaxRemaining, r)
  BY <1>1, <1>2, <1>3, ReadAtFront, Zenon
<1> HIDE DEF r
<1>5. ~(Len(bytes) < HeaderSize(bytes)) /\ ~(Len(bytes) < Len(bytes))
  BY <1>2
<1>6. r = Taking(ExactOf(bytes), Len(bytes))
  BY <1>1, <1>4, <1>5, Zenon DEF ReadsFront
<1>7. Packet(p).error = "none" /\ Packet(p).packet = p
  BY DEF Packet
<1>8. ExactOf(bytes).error = "none" /\ ExactOf(bytes).packet = p
  BY <1>7, Zenon
<1>9. r = [error |-> "none", packet |-> ExactOf(bytes).packet, taken |-> Len(bytes)]
  BY <1>6, <1>8, Zenon DEF Taking
<1>10. r = [error |-> "none", packet |-> p, taken |-> Len(bytes)]
  BY <1>8, <1>9, Zenon
<1> QED
  BY <1>10 DEF r

(* There is room for what was read, in a buffer as long as the longest frame. *)
LEMMA MadeWritable ==
    ASSUME MaxSize + 5 <= MaxRemaining, NEW p, NEW f, ReadFrom(p, f)
    PROVE  Writable(p, MaxRemaining)
<1>1. /\ f \in Seq(Byte) /\ OneFrame(f) /\ ParseFixedHeader(f).error = "none"
      /\ ~(ParseFixedHeader(f).remaining > MaxSize)
  BY Zenon DEF ReadFrom, Within
<1> DEFINE m == ParseFixedHeader(f).remaining
<1>2. /\ ParseFixedHeader(f).byte1 \in Byte
      /\ HeaderSize(f) \in 0..Len(f) /\ m \in Nat /\ Len(f) = HeaderSize(f) + m
  BY <1>1, PartsOfFrame, Zenon
<1>3. Fitting(p, Len(f) - HeaderSize(f))
  BY <1>1, <1>2, ExactFitting, Zenon DEF ReadFrom, ExactOf
<1>4. MaxSize \in Nat /\ MaxRemaining \in Nat
  BY StreamAssumption DEF MaxRemaining
<1> HIDE DEF m
<1>5. PICK l, h, limit : l = Len(f) /\ h = HeaderSize(f) /\ limit = MaxRemaining
  OBVIOUS
<1>6. l - h = m
  <2>1. h \in Nat
    BY <1>2, <1>5
  <2>2. l = h + m
    BY <1>2, <1>5, Zenon
  <2> QED
    BY ONLY <1>2, <2>1, <2>2
<1>7. Fitting(p, m)
  BY <1>3, <1>5, <1>6, Zenon
<1>8. m + 5 <= limit
  <2>1. MaxSize + 5 <= limit /\ limit \in Nat
    BY <1>4, <1>5, Zenon
  <2>2. ~(m > MaxSize) /\ m \in Nat
    BY <1>1, <1>2, Zenon DEF m
  <2> QED
    BY ONLY <1>4, <2>1, <2>2
<1>9. p \in PacketSet /\ ShortFields(p)
  BY MadeRewritable, Zenon DEF Rewritable
<1>10. MaxRemaining <= MaxRemaining /\ m + 5 <= MaxRemaining
  <2>1. limit <= limit
    BY <1>4, <1>5
  <2> QED
    BY <1>5, <1>8, <2>1, Zenon
<1> QED
  BY <1>2, <1>4, <1>7, <1>9, <1>10, RoomToWrite, Zenon

(* What was read is read again from whatever is written of it. *)
LEMMA MadeReadsAgain ==
    ASSUME MaxSize + 5 <= MaxRemaining, NEW p, NEW f, ReadFrom(p, f),
           NEW w \in Writes(p, MaxRemaining)
    PROVE  /\ w.error = "none"
           /\ Read(w.bytes, MaxRemaining) = [error |-> "none", packet |-> p, taken |-> Len(w.bytes)]
<1>1. MaxRemaining \in Nat
  BY DEF MaxRemaining
<1>2. w.error = "none"
  BY MadeWritable, Zenon DEF Writable
<1>3. p \in PacketSet /\ ShortFields(p) /\ ~Unreadable(p) /\ Normal(p) = p
  BY MadeRewritable, Zenon DEF Rewritable
<1>4. IsFrame(w.bytes) /\ WrittenWell(p, w.bytes)
  BY <1>1, <1>2, <1>3, LengthsAnnounced, WrittenReads, Zenon
<1>5. ExactOf(w.bytes) = Packet(p)
  BY <1>3, <1>4, Zenon DEF WrittenWell
<1> QED
  BY <1>2, <1>4, <1>5, ReadWhole, Zenon

(***************************************************************************)
(* Every packet that was read, whoever encoded it, has room in a buffer of *)
(* MaxRemaining bytes, whatever way it is written, and is read again from  *)
(* those bytes with all its fields, to the last byte (read, write and len  *)
(* of each type).                                                          *)
(***************************************************************************)
THEOREM RereadAsRead ==
    ASSUME MaxSize + 5 <= MaxRemaining
    PROVE  Spec => []RereadsAsRead
<1>1. MadeInv => RereadsAsRead
  <2> SUFFICES ASSUME MadeInv, NEW i \in DOMAIN got, NEW w \in Writes(got[i], MaxRemaining)
               PROVE  /\ w.error = "none"
                      /\ Read(w.bytes, MaxRemaining) =
                            [error |-> "none", packet |-> got[i], taken |-> Len(w.bytes)]
    BY Zenon DEF RereadsAsRead
  <2>1. DOMAIN got = 1..Len(got)
    BY StreamSizes DEF MadeInv
  <2>2. PICK f : ReadFrom(got[i], f)
    BY <2>1, Zenon DEF MadeInv
  <2> QED
    BY <2>2, MadeReadsAgain, Zenon
<1> QED
  BY <1>1, MadeAlways, PTL

=============================================================================
