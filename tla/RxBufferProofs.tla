---------------------------- MODULE RxBufferProofs ----------------------------
(***************************************************************************)
(* Theorems about RxBuffer, for every capacity and every set of values.    *)
(***************************************************************************)
EXTENDS RxBuffer, SequenceTheorems, TLAPS

LEMMA FrontOfArray ==
    ASSUME NEW b \in [Slots -> Values], NEW u \in 0..Capacity, NEW front,
           front = [i \in 1..u |-> b[i - 1]]
    PROVE  /\ front \in Seq(Values) /\ Len(front) = u
           /\ \A i \in 1..u : front[i] = b[i - 1]
<1>1. \A i \in 1..u : b[i - 1] \in Values
  BY CapacityAssumption DEF Slots
<1>2. u \in Nat
  BY CapacityAssumption
<1> QED
  BY <1>1, <1>2

LEMMA UsedSliceFacts ==
    ASSUME TypeOK
    PROVE  /\ UsedSlice \in Seq(Values) /\ Len(UsedSlice) = used
           /\ \A i \in 1..used : UsedSlice[i] = buffer[i - 1]
BY FrontOfArray DEF TypeOK, UsedSlice

(* What the platform writes stays in the array and off the used bytes. *)
LEMMA OverwriteFacts ==
    ASSUME TypeOK, NEW k \in 1..Capacity, NEW s \in [1..k -> Values], k <= Capacity - used
    PROVE  /\ Len(s) = k
           /\ Overwrite(s) \in [Slots -> Values]
           /\ \A i \in 1..used : Overwrite(s)[i - 1] = buffer[i - 1]
           /\ \A i \in 1..k : Overwrite(s)[used + i - 1] = s[i]
<1>1. Len(s) = k /\ k \in Nat
  BY CapacityAssumption
<1>2. \A i \in Slots : i \in used..(used + k - 1) => i - used + 1 \in 1..k
  BY <1>1, CapacityAssumption DEF TypeOK, Slots
<1>3. Overwrite(s) \in [Slots -> Values]
  BY <1>1, <1>2 DEF Overwrite, TypeOK
<1>4. ASSUME NEW i \in 1..used PROVE Overwrite(s)[i - 1] = buffer[i - 1]
  BY <1>1, CapacityAssumption DEF Overwrite, TypeOK, Slots
<1>5. ASSUME NEW i \in 1..k PROVE Overwrite(s)[used + i - 1] = s[i]
  <2>1. used + i - 1 \in Slots /\ used + i - 1 \in used..(used + k - 1)
        /\ (used + i - 1) - used + 1 = i
    BY <1>1, CapacityAssumption DEF TypeOK, Slots
  <2> QED
    BY <1>1, <2>1 DEF Overwrite
<1> QED
  BY <1>1, <1>3, <1>4, <1>5

(* What remains after remove_prefix is moved to the front unharmed. *)
LEMMA CopyWithinFacts ==
    ASSUME TypeOK, NEW len \in 1..Capacity, len < used
    PROVE  /\ CopyWithin(len, used) \in [Slots -> Values]
           /\ \A i \in 1..(used - len) : CopyWithin(len, used)[i - 1] = buffer[i + len - 1]
<1>1. \A i \in Slots : i < used - len => i + len \in Slots
  BY CapacityAssumption DEF TypeOK, Slots
<1>2. \A i \in 1..(used - len) : i - 1 \in Slots /\ i - 1 < used - len /\ (i - 1) + len = i + len - 1
  BY CapacityAssumption DEF TypeOK, Slots
<1> QED
  BY <1>1, <1>2 DEF CopyWithin, TypeOK

-----------------------------------------------------------------------------
LEMMA NextTypeOK == TypeOK /\ [Next]_vars => TypeOK'
<1> SUFFICES ASSUME TypeOK, [Next]_vars PROVE TypeOK'
  OBVIOUS
<1>1. ASSUME NEW k \in 1..Capacity, NEW s \in [1..k -> Values], ReadUnreported(s) PROVE TypeOK'
  <2>1. Len(s) = k /\ k <= Capacity - used
    BY <1>1, CapacityAssumption DEF ReadUnreported, Unused
  <2> QED
    BY <1>1, <2>1, OverwriteFacts DEF ReadUnreported, TypeOK
<1>2. ASSUME NEW k \in 1..Capacity, NEW s \in [1..k -> Values], NEW n \in 1..k, ReadSome(s, n)
      PROVE TypeOK'
  <2>1. Len(s) = k /\ k <= Capacity - used
    BY <1>2, CapacityAssumption DEF ReadSome, Unused
  <2>2. buffer' \in [Slots -> Values]
    BY <1>2, <2>1, OverwriteFacts DEF ReadSome
  <2>3. used' \in 0..Capacity
    BY <1>2, <2>1, CapacityAssumption DEF ReadSome, TypeOK
  <2>4. SubSeq(s, 1, n) \in Seq(Values)
    BY <2>1, CapacityAssumption
  <2> QED
    BY <1>2, <2>2, <2>3, <2>4 DEF ReadSome, TypeOK
<1>3. ASSUME NEW len \in 1..Capacity, RemovePrefix(len) PROVE TypeOK'
  BY <1>3, CopyWithinFacts, CapacityAssumption DEF RemovePrefix, TypeOK
<1>4. CASE Reset
  BY <1>4, CapacityAssumption DEF Reset, TypeOK
<1>5. CASE UNCHANGED vars
  BY <1>5 DEF vars, TypeOK
<1> QED
  BY <1>1, <1>2, <1>3, <1>4, <1>5 DEF Next

(***************************************************************************)
(* used never exceeds the array: a read is only ever given room that is    *)
(* there, and remove_prefix copies within the array.                       *)
(***************************************************************************)
THEOREM TypeCorrect == Spec => []TypeOK
<1>1. Init => TypeOK
  BY CapacityAssumption DEF Init, TypeOK
<1> QED
  BY <1>1, NextTypeOK, PTL DEF Spec

-----------------------------------------------------------------------------
(* A reported read adds its bytes at the end. *)
LEMMA ReadAdds ==
    ASSUME TypeOK, NEW k \in 1..Capacity, NEW s \in [1..k -> Values], NEW n \in 1..k,
           ReadSome(s, n)
    PROVE  Queue!Add
<1>1. Len(s) = k /\ k <= Capacity - used /\ k \in Nat /\ n \in Nat
  BY CapacityAssumption DEF ReadSome, Unused
<1>2. got' = SubSeq(s, 1, n) /\ used' = used + n /\ buffer' = Overwrite(s)
  BY DEF ReadSome
<1>3. got' \in Seq(Values) /\ Len(got') = n /\ \A i \in 1..n : got'[i] = s[i]
  BY <1>1, <1>2
<1>4. TypeOK'
  BY NextTypeOK DEF Next
<1>5. /\ UsedSlice \in Seq(Values) /\ Len(UsedSlice) = used
      /\ \A i \in 1..used : UsedSlice[i] = buffer[i - 1]
  BY UsedSliceFacts
<1>6. /\ UsedSlice' \in Seq(Values) /\ Len(UsedSlice') = used + n
      /\ \A i \in 1..(used + n) : UsedSlice'[i] = buffer'[i - 1]
  <2>1. used + n = used' /\ buffer' \in [Slots -> Values] /\ used' \in 0..Capacity
    BY <1>2, <1>4 DEF TypeOK
  <2>2. UsedSlice' = [i \in 1..used' |-> buffer'[i - 1]]
    BY DEF UsedSlice
  <2> QED
    BY <2>1, <2>2, FrontOfArray
<1>7. /\ UsedSlice \o got' \in Seq(Values) /\ Len(UsedSlice \o got') = used + n
      /\ \A i \in 1..(used + n) :
            (UsedSlice \o got')[i] = IF i <= used THEN UsedSlice[i] ELSE got'[i - used]
  BY <1>3, <1>5, ConcatProperties, ZenonT(60)
<1>8. ASSUME NEW i \in 1..(used + n)
      PROVE  UsedSlice'[i] = (UsedSlice \o got')[i]
  <2>1. used \in Nat
    BY CapacityAssumption DEF TypeOK
  <2>2. CASE i <= used
    <3>1. i \in 1..used
      BY <2>1, <2>2
    <3>2. Overwrite(s)[i - 1] = buffer[i - 1]
      BY <1>1, <3>1, OverwriteFacts
    <3> QED
      BY <1>2, <1>5, <1>6, <1>7, <2>2, <3>1, <3>2
  <2>3. CASE i > used
    <3>1. i - used \in 1..n /\ i - used \in 1..k /\ used + (i - used) - 1 = i - 1
      BY <1>1, <2>1, <2>3
    <3>2. Overwrite(s)[used + (i - used) - 1] = s[i - used]
      BY <1>1, <3>1, OverwriteFacts
    <3> QED
      <4>1. got'[i - used] = s[i - used]
        BY <1>3, <3>1
      <4>2. ~(i <= used)
        BY <2>1, <2>3
      <4>3. UsedSlice'[i] = Overwrite(s)[i - 1]
        BY <1>2, <1>6
      <4> QED
        BY <1>7, <3>1, <3>2, <4>1, <4>2, <4>3
  <2>4. i <= used \/ i > used
    BY <1>1, <2>1
  <2> QED
    BY <2>2, <2>3, <2>4, Zenon
<1>9. UsedSlice' = UsedSlice \o got'
  BY <1>6, <1>7, <1>8, SeqEqual
<1>10. Len(got') <= Capacity - Len(UsedSlice)
  BY <1>1, <1>3, <1>5, CapacityAssumption DEF TypeOK
<1> QED
  BY <1>9, <1>10 DEF Queue!Add

(* remove_prefix takes len bytes off the front, or all of them. *)
LEMMA RemoveRemoves ==
    ASSUME TypeOK, NEW len \in 1..Capacity, RemovePrefix(len)
    PROVE  Queue!RemovePrefix(len)
<1>1. /\ UsedSlice \in Seq(Values) /\ Len(UsedSlice) = used
      /\ \A i \in 1..used : UsedSlice[i] = buffer[i - 1]
  BY UsedSliceFacts
<1>2. used \in Nat /\ len \in Nat
  BY CapacityAssumption DEF TypeOK
<1>3. SubSeq(UsedSlice, len + 1, used) = [i \in 1..(used - len) |-> UsedSlice[i + len]]
  BY <1>1, <1>2
<1>4. UsedSlice' = SubSeq(UsedSlice, len + 1, used)
  <2>1. CASE len >= used
    <3>1. UsedSlice' = << >>
      BY <2>1 DEF RemovePrefix, UsedSlice
    <3>2. SubSeq(UsedSlice, len + 1, used) = << >>
      BY <1>1, <1>2, <2>1
    <3> QED
      BY <3>1, <3>2
  <2>2. CASE len < used
    <3>1. used' = used - len /\ buffer' = CopyWithin(len, used)
      BY <1>2, <2>2 DEF RemovePrefix
    <3>2. UsedSlice' = [i \in 1..(used - len) |-> CopyWithin(len, used)[i - 1]]
      BY <3>1 DEF UsedSlice
    <3>3. ASSUME NEW i \in 1..(used - len)
          PROVE  CopyWithin(len, used)[i - 1] = UsedSlice[i + len]
      <4>1. i + len \in 1..used
        BY <1>2, <2>2
      <4> QED
        BY <1>1, <2>2, <4>1, CopyWithinFacts
    <3> QED
      BY <1>3, <3>2, <3>3
  <2> QED
    BY <1>2, <2>1, <2>2
<1> QED
  BY <1>1, <1>4 DEF RemovePrefix, Queue!RemovePrefix

LEMMA NextQueue == TypeOK /\ [Next]_vars => [Queue!Next]_(Queue!vars)
<1> SUFFICES ASSUME TypeOK, [Next]_vars PROVE [Queue!Next]_(Queue!vars)
  OBVIOUS
<1>1. ASSUME NEW k \in 1..Capacity, NEW s \in [1..k -> Values], ReadUnreported(s)
      PROVE UNCHANGED Queue!vars
  <2>1. Len(s) = k /\ k <= Capacity - used
    BY <1>1, CapacityAssumption DEF ReadUnreported, Unused
  <2>2. \A i \in 1..used : buffer'[i - 1] = buffer[i - 1]
    BY <1>1, <2>1, OverwriteFacts DEF ReadUnreported
  <2> QED
    BY <1>1, <2>2 DEF ReadUnreported, UsedSlice, Queue!vars
<1>2. ASSUME NEW k \in 1..Capacity, NEW s \in [1..k -> Values], NEW n \in 1..k, ReadSome(s, n)
      PROVE Queue!Next
  BY <1>2, ReadAdds DEF Queue!Next
<1>3. ASSUME NEW len \in 1..Capacity, RemovePrefix(len) PROVE Queue!Next
  BY <1>3, RemoveRemoves DEF Queue!Next
<1>4. CASE Reset
  BY <1>4 DEF Reset, UsedSlice, Queue!Next, Queue!Reset
<1>5. CASE UNCHANGED vars
  BY <1>5 DEF vars, UsedSlice, Queue!vars
<1> QED
  BY <1>1, <1>2, <1>3, <1>4, <1>5 DEF Next

(***************************************************************************)
(* The array with its copy_within implements the queue of bytes that       *)
(* NanoClient relies on, for every capacity and whatever the platform      *)
(* leaves in the part that does not count.                                 *)
(***************************************************************************)
THEOREM QueueImplemented == Spec => ImplementsQueue
<1>1. Init => Queue!Init
  BY DEF Init, UsedSlice, Queue!Init
<1> QED
  BY <1>1, NextQueue, TypeCorrect, PTL DEF Spec, ImplementsQueue, Queue!Spec
=============================================================================
