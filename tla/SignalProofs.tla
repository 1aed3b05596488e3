---------------------------- MODULE SignalProofs ----------------------------
(***************************************************************************)
(* Proofs about Signal, for any number of identifiers and any depth of     *)
(* emissions in slots.                                                     *)
(***************************************************************************)
EXTENDS Signal, SequenceTheorems, WellFoundedInduction, TLAPS

\* A copy of the slots ascends as the slots did.
CopiesAscend == \A i \in DOMAIN emits : Ascends(emits[i].slots)

Inv == TypeOK /\ SlotsAscend /\ CopiesAscend

-----------------------------------------------------------------------------
(* Lemmas about sequences of identifiers.                                  *)

\* A set of natural numbers has a least one.
LEMMA Least ==
  ASSUME NEW T, T \subseteq Nat, T # {}
  PROVE  \E x \in T : \A y \in T : x <= y
  <1>1. PICK x \in T : \A y \in T : ~(<<y, x>> \in OpToRel(<, Nat))
    BY NatLessThanWellFounded, WFMin
  <1>2. \A y \in T : ~(y < x)
    BY <1>1 DEF OpToRel
  <1> QED
    BY <1>2

\* RemoveAt() leaves out one element and moves the later ones.
LEMMA RemoveAtProperties ==
  ASSUME NEW S, NEW s \in Seq(S), NEW i \in 1..Len(s)
  PROVE  /\ RemoveAt(s, i) \in Seq(S)
         /\ Len(RemoveAt(s, i)) = Len(s) - 1
         /\ \A j \in 1..(i - 1) : RemoveAt(s, i)[j] = s[j]
         /\ \A j \in i..(Len(s) - 1) : RemoveAt(s, i)[j] = s[j + 1]
  <1> DEFINE a == SubSeq(s, 1, i - 1)
             b == SubSeq(s, i + 1, Len(s))
  <1>1. Len(s) \in Nat /\ \A j \in 1..Len(s) : s[j] \in S
    BY LenProperties, ElementOfSeq
  <1>2. a \in Seq(S) /\ Len(a) = i - 1 /\ \A j \in 1..(i - 1) : a[j] = s[j]
    <2>1. i - 1 \in 0..Len(s)
      BY <1>1
    <2> QED
      BY <1>1, <2>1
  <1>3. b \in Seq(S) /\ Len(b) = Len(s) - i /\ \A j \in 1..(Len(s) - i) : b[j] = s[j + i]
    BY <1>1
  <1> HIDE DEF a, b
  <1>4. RemoveAt(s, i) = a \o b
    BY DEF RemoveAt, a, b
  <1>8. /\ a \o b \in Seq(S) /\ Len(a \o b) = Len(a) + Len(b)
        /\ \A j \in 1..(Len(a) + Len(b)) :
             (a \o b)[j] = IF j <= Len(a) THEN a[j] ELSE b[j - Len(a)]
    BY <1>2, <1>3, ConcatProperties
  <1>5. /\ a \o b \in Seq(S) /\ Len(a \o b) = Len(s) - 1
        /\ \A j \in 1..(Len(s) - 1) :
             (a \o b)[j] = IF j <= Len(a) THEN a[j] ELSE b[j - Len(a)]
    <2>1. Len(a) + Len(b) = Len(s) - 1
      BY <1>1, <1>2, <1>3
    <2> QED
      BY <1>8, <2>1
  <1>6. \A j \in i..(Len(s) - 1) : (a \o b)[j] = s[j + 1]
    <2> SUFFICES ASSUME NEW j \in i..(Len(s) - 1) PROVE (a \o b)[j] = s[j + 1]
      OBVIOUS
    <2>1. j - Len(a) \in 1..(Len(s) - i) /\ (j - Len(a)) + i = j + 1
      BY <1>1, <1>2
    <2>2. (a \o b)[j] = b[j - Len(a)]
      BY <1>1, <1>2, <1>5
    <2> QED
      BY <2>1, <2>2, <1>3
  <1>7. \A j \in 1..(i - 1) : (a \o b)[j] = s[j]
    BY <1>1, <1>2, <1>5
  <1> QED
    BY <1>4, <1>5, <1>6, <1>7

\* Without one of its elements, an ascending sequence ascends, and has all the
\* elements but that one.
LEMMA RemoveAtAscends ==
  ASSUME NEW s \in Seq(Nat), Ascends(s), NEW i \in 1..Len(s)
  PROVE  Ascends(RemoveAt(s, i)) /\ ToSet(RemoveAt(s, i)) = ToSet(s) \ {s[i]}
  <1> DEFINE r == RemoveAt(s, i)
  <1>1. /\ r \in Seq(Nat) /\ Len(r) = Len(s) - 1 /\ Len(s) \in Nat
        /\ \A j \in 1..(i - 1) : r[j] = s[j]
        /\ \A j \in i..(Len(s) - 1) : r[j] = s[j + 1]
        /\ DOMAIN r = 1..Len(r) /\ DOMAIN s = 1..Len(s)
        /\ \A j \in 1..Len(s) : s[j] \in Nat
    <2>1. /\ r \in Seq(Nat) /\ Len(r) = Len(s) - 1
          /\ \A j \in 1..(i - 1) : r[j] = s[j]
          /\ \A j \in i..(Len(s) - 1) : r[j] = s[j + 1]
      BY RemoveAtProperties
    <2>2. Len(s) \in Nat /\ DOMAIN s = 1..Len(s) /\ \A j \in 1..Len(s) : s[j] \in Nat
      BY LenProperties, ElementOfSeq
    <2> HIDE DEF r
    <2>3. DOMAIN r = 1..Len(r)
      BY <2>1, LenProperties
    <2> QED
      BY <2>1, <2>2, <2>3
  <1>0. Len(s) \in Nat /\ Len(r) = Len(s) - 1
    BY <1>1
  <1> HIDE DEF r
  <1>2. Ascends(r)
    <2> SUFFICES ASSUME NEW j \in 1..Len(r), NEW k \in 1..Len(r), j < k
                 PROVE  r[j] < r[k]
      BY DEF Ascends
    <2>1. CASE k < i
      <3>1. j \in 1..(i - 1) /\ k \in 1..(i - 1) /\ j \in 1..Len(s) /\ k \in 1..Len(s)
        BY <2>1, <1>0
      <3> QED
        BY <3>1, <1>1 DEF Ascends
    <2>2. CASE j < i /\ i <= k
      <3>1. j \in 1..(i - 1) /\ k \in i..(Len(s) - 1)
        BY <2>2, <1>0
      <3>2. j \in 1..Len(s) /\ k + 1 \in 1..Len(s) /\ j < k + 1
        BY <3>1, <1>0
      <3> QED
        BY <3>1, <3>2, <1>1 DEF Ascends
    <2>3. CASE i <= j
      <3>1. j \in i..(Len(s) - 1) /\ k \in i..(Len(s) - 1)
        BY <2>3, <1>0
      <3>2. j + 1 \in 1..Len(s) /\ k + 1 \in 1..Len(s) /\ j + 1 < k + 1
        BY <3>1, <1>0
      <3> QED
        BY <3>1, <3>2, <1>1 DEF Ascends
    <2> QED
      BY <2>1, <2>2, <2>3, <1>0
  <1>3. ToSet(r) \subseteq ToSet(s) \ {s[i]}
    <2> SUFFICES ASSUME NEW j \in 1..Len(r) PROVE r[j] \in ToSet(s) \ {s[i]}
      BY <1>1 DEF ToSet
    <2>1. PICK k \in 1..Len(s) : r[j] = s[k] /\ k # i
      <3>1. CASE j < i
        <4>1. j \in 1..(i - 1) /\ j \in 1..Len(s) /\ j # i
          BY <3>1, <1>0
        <4>2. r[j] = s[j]
          BY <4>1, <1>1
        <4> QED
          BY <4>1, <4>2
      <3>2. CASE ~(j < i)
        <4>1. j \in i..(Len(s) - 1) /\ j + 1 \in 1..Len(s) /\ j + 1 # i
          BY <3>2, <1>0
        <4>2. r[j] = s[j + 1]
          BY <4>1, <1>1
        <4> QED
          BY <4>1, <4>2
      <3> QED
        BY <3>1, <3>2
    <2>2. s[k] < s[i] \/ s[i] < s[k]
      BY <2>1, <1>1 DEF Ascends
    <2>3. s[k] # s[i]
      <3>1. s[k] \in Nat /\ s[i] \in Nat
        BY <1>1
      <3> QED
        BY <3>1, <2>2
    <2> QED
      BY <2>1, <2>3, <1>1 DEF ToSet
  <1>4. ToSet(s) \ {s[i]} \subseteq ToSet(r)
    <2> SUFFICES ASSUME NEW k \in 1..Len(s), k # i PROVE s[k] \in ToSet(r)
      BY <1>1 DEF ToSet
    <2>1. PICK j \in 1..Len(r) : r[j] = s[k]
      <3>1. CASE k < i
        <4>1. k \in 1..(i - 1) /\ k \in 1..Len(r)
          BY <3>1, <1>0
        <4> QED
          BY <4>1, <1>1
      <3>2. CASE ~(k < i)
        <4>1. k - 1 \in 1..Len(r) /\ k - 1 \in i..(Len(s) - 1) /\ (k - 1) + 1 = k
          BY <3>2, <1>0
        <4>2. r[k - 1] = s[k]
          BY <4>1, <1>1
        <4> QED
          BY <4>1, <4>2
      <3> QED
        BY <3>1, <3>2
    <2> QED
      BY <2>1, <1>1 DEF ToSet
  <1> QED
    BY <1>2, <1>3, <1>4 DEF r

\* Appended to an ascending sequence, a greater element keeps it ascending.
LEMMA AppendAscends ==
  ASSUME NEW s \in Seq(Nat), Ascends(s), NEW id \in Nat,
         \A i \in 1..Len(s) : s[i] < id
  PROVE  Ascends(Append(s, id)) /\ ToSet(Append(s, id)) = ToSet(s) \cup {id}
  <1> DEFINE r == Append(s, id)
  <1>1. /\ r \in Seq(Nat) /\ Len(r) = Len(s) + 1 /\ Len(s) \in Nat
        /\ \A j \in 1..Len(s) : r[j] = s[j]
        /\ r[Len(s) + 1] = id
        /\ DOMAIN r = 1..Len(r) /\ DOMAIN s = 1..Len(s)
        /\ \A j \in 1..Len(s) : s[j] \in Nat
    BY AppendProperties, ElementOfSeq
  <1>0. Len(s) \in Nat /\ Len(r) = Len(s) + 1
    BY <1>1
  <1> HIDE DEF r
  <1>2. Ascends(r)
    <2> SUFFICES ASSUME NEW j \in 1..Len(r), NEW k \in 1..Len(r), j < k
                 PROVE  r[j] < r[k]
      BY DEF Ascends
    <2>0. j \in 1..Len(s)
      BY <1>0
    <2>1. j \in 1..Len(s) /\ r[j] = s[j]
      BY <2>0, <1>1
    <2>2. CASE k \in 1..Len(s)
      BY <2>1, <2>2, <1>1 DEF Ascends
    <2>3. CASE k = Len(s) + 1
      <3>1. r[k] = id
        BY <2>3, <1>1
      <3> QED
        BY <2>1, <3>1
    <2> QED
      BY <2>2, <2>3, <1>0
  <1>3. ToSet(r) = ToSet(s) \cup {id}
    <2>1. 1..Len(r) = 1..Len(s) \cup {Len(s) + 1}
      BY <1>0
    <2>2. ToSet(r) = {r[j] : j \in 1..Len(s)} \cup {id}
      <3>1. ToSet(r) = {r[j] : j \in 1..Len(s) \cup {Len(s) + 1}}
        BY <2>1, <1>1 DEF ToSet
      <3>2. r[Len(s) + 1] = id
        BY <1>1
      <3> QED
        BY <3>1, <3>2
    <2>3. ToSet(s) = {r[j] : j \in 1..Len(s)}
      BY <1>1 DEF ToSet
    <2> QED
      BY <2>2, <2>3
  <1> QED
    BY <1>2, <1>3 DEF r

-----------------------------------------------------------------------------
(* Invariance of the sorted vector.                                        *)

\* What the type invariant says of the vector, one fact at a time.
LEMMA SlotTypes ==
  ASSUME TypeOK
  PROVE  /\ slots_ \in Seq(1..IntMax) /\ slots_ \in Seq(Nat)
         /\ Len(slots_) \in Nat /\ DOMAIN slots_ = 1..Len(slots_)
         /\ \A j \in 1..Len(slots_) : slots_[j] \in Nat
         /\ next_id_ \in Nat /\ next_id_ <= IntMax
  <1>1. slots_ \in Seq(1..IntMax) /\ next_id_ \in 0..IntMax
    BY DEF TypeOK
  <1>2. \A j \in 1..Len(slots_) : slots_[j] \in 1..IntMax
    BY <1>1, ElementOfSeq
  <1>3. Len(slots_) \in Nat /\ DOMAIN slots_ = 1..Len(slots_)
    BY <1>1, LenProperties
  <1>4. slots_ \in Seq(Nat)
    <2>1. 1..IntMax \subseteq Nat
      BY SignalAssumption
    <2> QED
      BY <1>1, <2>1, SeqMonotonic
  <1>5. \A j \in 1..Len(slots_) : slots_[j] \in Nat
    BY <1>2, SignalAssumption
  <1> QED
    BY <1>1, <1>3, <1>4, <1>5, SignalAssumption

\* The search of Disconnect() finds the slot, if it is connected.
LEMMA LowerBoundFinds ==
  ASSUME TypeOK, SlotsAscend, NEW id \in Nat, NEW i \in LowerBound(id)
  PROVE  /\ i \in 1..(Len(slots_) + 1)
         /\ (i <= Len(slots_) /\ slots_[i] = id) \/ id \notin ToSet(slots_)
  <1> DEFINE Positions == 1..(Len(slots_) + 1)
             Divides(k) == \A j \in 1..Len(slots_) : slots_[j] < id <=> j < k
             Dividing == {k \in Positions : Divides(k)}
             T == {j \in 1..Len(slots_) : ~(slots_[j] < id)}
  <1>1. Len(slots_) \in Nat /\ DOMAIN slots_ = 1..Len(slots_)
    BY SlotTypes
  <1>2. \A j \in 1..Len(slots_) : slots_[j] \in Nat
    BY SlotTypes
  <1>3. \A j, k \in 1..Len(slots_) : j < k => slots_[j] < slots_[k]
    BY DEF SlotsAscend, Ascends
  <1>4. Dividing # {}
    <2>1. CASE T = {}
      <3>1. \A j \in 1..Len(slots_) : slots_[j] < id /\ j < Len(slots_) + 1
        BY <2>1, <1>1
      <3>2. Divides(Len(slots_) + 1)
        BY <3>1
      <3>3. Len(slots_) + 1 \in Positions
        BY <1>1
      <3> QED
        BY <3>2, <3>3
    <2>2. CASE T # {}
      <3>1. PICK k \in T : \A j \in T : k <= j
        <4>1. T \subseteq Nat
          BY <1>1
        <4> QED
          BY <2>2, <4>1, Least
      <3>2. Divides(k)
        <4> SUFFICES ASSUME NEW j \in 1..Len(slots_)
                     PROVE  slots_[j] < id <=> j < k
          OBVIOUS
        <4>1. k \in Nat /\ j \in Nat /\ k \in 1..Len(slots_) /\ ~(slots_[k] < id)
          BY <1>1
        <4>2. CASE j < k
          BY <4>1, <4>2, <3>1
        <4>3. CASE j = k
          BY <4>1, <4>3
        <4>4. CASE k < j
          <5>1. slots_[k] < slots_[j]
            BY <4>1, <4>4, <1>3
          <5> QED
            BY <5>1, <4>1, <4>4, <1>2
        <4> QED
          BY <4>1, <4>2, <4>3, <4>4
      <3>3. k \in Positions
        BY <1>1
      <3> QED
        BY <3>2, <3>3
    <2> QED
      BY <2>1, <2>2
  <1>5. i \in Positions /\ Divides(i)
    BY <1>4 DEF LowerBound
  <1>6. ASSUME NEW k \in 1..Len(slots_), slots_[k] = id PROVE i = k
    <2>1. ~(k < i) /\ i \in 1..Len(slots_)
      BY <1>1, <1>2, <1>5, <1>6
    <2>2. ~(slots_[i] < id)
      BY <2>1, <1>1, <1>5
    <2>3. ~(i < k)
      BY <2>1, <2>2, <1>3, <1>6
    <2> QED
      BY <2>1, <2>3, <1>1
  <1> QED
    BY <1>1, <1>5, <1>6 DEF ToSet

\* Disconnect() takes out the slot it is given, and nothing else.
LEMMA DisconnectRemoves ==
  ASSUME TypeOK, SlotsAscend, NEW id \in 1..next_id_, Disconnect(id)
  PROVE  /\ slots_' \in Seq(1..IntMax) /\ Ascends(slots_')
         /\ ToSet(slots_') = ToSet(slots_) \ {id}
  <1>1. slots_ \in Seq(1..IntMax) /\ slots_ \in Seq(Nat) /\ id \in Nat
    BY SlotTypes
  <1>2. PICK i \in LowerBound(id) :
          slots_' = IF i <= Len(slots_) /\ slots_[i] = id THEN RemoveAt(slots_, i) ELSE slots_
    BY DEF Disconnect
  <1>3. /\ i \in 1..(Len(slots_) + 1)
        /\ (i <= Len(slots_) /\ slots_[i] = id) \/ id \notin ToSet(slots_)
    BY <1>1, LowerBoundFinds
  <1>4. CASE i <= Len(slots_) /\ slots_[i] = id
    <2>1. i \in 1..Len(slots_)
      BY <1>1, <1>3, <1>4
    <2>2. slots_' = RemoveAt(slots_, i)
      BY <1>2, <1>4
    <2> QED
      BY <2>1, <2>2, <1>1, <1>4, RemoveAtProperties, RemoveAtAscends DEF SlotsAscend
  <1>5. CASE ~(i <= Len(slots_) /\ slots_[i] = id)
    <2>1. slots_' = slots_ /\ id \notin ToSet(slots_)
      BY <1>2, <1>3, <1>5
    <2> QED
      BY <2>1, <1>1 DEF SlotsAscend
  <1> QED
    BY <1>4, <1>5

\* Connect() appends an identifier above all the others.
LEMMA ConnectAppends ==
  ASSUME TypeOK, SlotsAscend, Connect
  PROVE  /\ slots_' \in Seq(1..IntMax) /\ Ascends(slots_')
         /\ ToSet(slots_') = ToSet(slots_) \cup {next_id_ + 1}
         /\ next_id_ + 1 \in 1..IntMax /\ next_id_' = next_id_ + 1
  <1>1. next_id_ + 1 \in 1..IntMax /\ next_id_' = next_id_ + 1
    BY SignalAssumption DEF TypeOK, Connect
  <1>2. slots_' = Append(slots_, next_id_ + 1)
    BY DEF Connect, Appended, Id
  <1>3. slots_ \in Seq(1..IntMax) /\ slots_ \in Seq(Nat)
    BY SlotTypes
  <1>4. \A i \in 1..Len(slots_) : slots_[i] < next_id_ + 1
    <2> SUFFICES ASSUME NEW i \in 1..Len(slots_) PROVE slots_[i] < next_id_ + 1
      OBVIOUS
    <2>1. slots_[i] \in Nat /\ slots_[i] <= next_id_ /\ next_id_ \in Nat
      BY SlotTypes DEF SlotsAscend
    <2> QED
      BY <2>1
  <1>5. Ascends(slots_)
    BY DEF SlotsAscend
  <1>6. next_id_ + 1 \in Nat
    BY <1>1
  <1>7. Ascends(slots_') /\ ToSet(slots_') = ToSet(slots_) \cup {next_id_ + 1}
    BY <1>2, <1>3, <1>4, <1>5, <1>6, AppendAscends
  <1>8. slots_' \in Seq(1..IntMax)
    BY <1>1, <1>2, <1>3, AppendProperties
  <1> QED
    BY <1>1, <1>7, <1>8

\* The vector only has identifiers that Connect() returned.
LEMMA SlotsAscendStep ==
  ASSUME Inv, [Next]_vars
  PROVE  /\ next_id_' \in 0..IntMax /\ alive' \in BOOLEAN
         /\ slots_' \in Seq(1..IntMax) /\ SlotsAscend'
  <1>1. CASE Connect
    <2>1. ToSet(slots_') = ToSet(slots_) \cup {next_id_ + 1} /\ next_id_' = next_id_ + 1
      BY <1>1, ConnectAppends DEF Inv
    <2>2. \A i \in 1..Len(slots_) : slots_[i] <= next_id_
      BY DEF Inv, SlotsAscend
    <2>3. slots_' \in Seq(1..IntMax) /\ next_id_ \in Nat /\ slots_ \in Seq(1..IntMax)
      BY <1>1, ConnectAppends DEF Inv, TypeOK
    <2>4. \A i \in 1..Len(slots_') : slots_'[i] <= next_id_'
      <3> SUFFICES ASSUME NEW i \in 1..Len(slots_') PROVE slots_'[i] <= next_id_'
        OBVIOUS
      <3>1. slots_'[i] \in ToSet(slots_) \cup {next_id_ + 1}
        <4>1. DOMAIN slots_' = 1..Len(slots_')
          BY <2>3, LenProperties
        <4>2. slots_'[i] \in ToSet(slots_')
          BY <4>1 DEF ToSet
        <4> QED
          BY <4>2, <2>1
      <3>2. CASE slots_'[i] = next_id_ + 1
        BY <3>2, <2>1, <2>3
      <3>3. CASE slots_'[i] \in ToSet(slots_)
        <4>1. PICK j \in 1..Len(slots_) : slots_'[i] = slots_[j]
          BY <3>3, <2>3 DEF ToSet
        <4>2. slots_[j] \in Nat /\ slots_[j] <= next_id_
          BY <2>2, SlotTypes DEF Inv
        <4> QED
          BY <4>1, <4>2, <2>1, <2>3
      <3> QED
        BY <3>1, <3>2, <3>3
    <2> QED
      BY <1>1, <2>4, ConnectAppends DEF Inv, SlotsAscend, TypeOK, Connect
  <1>2. CASE \E id \in 1..next_id_ : Disconnect(id)
    <2>1. PICK id \in 1..next_id_ : Disconnect(id)
      BY <1>2
    <2>2. /\ slots_' \in Seq(1..IntMax) /\ Ascends(slots_')
          /\ ToSet(slots_') = ToSet(slots_) \ {id}
      BY <2>1, DisconnectRemoves DEF Inv
    <2>3. next_id_' = next_id_ /\ alive' = alive
      BY <2>1 DEF Disconnect
    <2>4. \A i \in 1..Len(slots_') : slots_'[i] <= next_id_'
      <3> SUFFICES ASSUME NEW i \in 1..Len(slots_') PROVE slots_'[i] <= next_id_'
        OBVIOUS
      <3>1. slots_'[i] \in ToSet(slots_)
        BY <2>2 DEF ToSet
      <3>2. slots_ \in Seq(1..IntMax)
        BY DEF Inv, TypeOK
      <3>3. PICK j \in 1..Len(slots_) : slots_'[i] = slots_[j]
        BY <3>1, <3>2 DEF ToSet
      <3> QED
        BY <3>3, <2>3 DEF Inv, SlotsAscend
    <2> QED
      BY <2>2, <2>3, <2>4 DEF Inv, TypeOK, SlotsAscend
  <1>3. CASE DisconnectAll \/ Destroy
    <2>1. slots_' = <<>> /\ Len(slots_') = 0 /\ slots_' \in Seq(1..IntMax)
      <3>1. slots_' = <<>>
        BY <1>3 DEF DisconnectAll, Destroy
      <3> QED
        BY <3>1, EmptySeq
    <2>2. SlotsAscend'
      BY <2>1 DEF SlotsAscend, Ascends
    <2> QED
      BY <1>3, <2>1, <2>2 DEF DisconnectAll, Destroy, Inv, TypeOK
  <1>4. CASE UNCHANGED <<next_id_, slots_, alive>>
    BY <1>4 DEF Inv, TypeOK, SlotsAscend, Ascends
  <1> QED
    BY <1>1, <1>2, <1>3, <1>4 DEF Next, vars, Emit, Call, SlotReturns, EmitEnds

-----------------------------------------------------------------------------
(* Emissions in progress.                                                  *)

\* What the invariant says of an emission.
Sound(e) == e \in Emission /\ e.done <= Len(Walked(e)) /\ Ascends(e.slots)

Due == [left : SUBSET (1..IntMax), now : SUBSET (1..IntMax)]

\* What an emission owes is two sets of identifiers.
LEMMA AbstractType ==
  ASSUME NEW e \in Emission
  PROVE  Abstract(e) \in Due
  <1>1. e.slots \in Seq(1..IntMax) /\ e.done \in Nat /\ e.calling \in 0..IntMax
    BY DEF Emission
  <1>2. \A i \in 1..Len(e.slots) : e.slots[i] \in 1..IntMax
    BY <1>1, ElementOfSeq
  <1>3. (e.done + 1)..Len(e.slots) \subseteq 1..Len(e.slots)
    BY <1>1, LenProperties
  <1>4. {e.slots[i] : i \in (e.done + 1)..Len(e.slots)} \subseteq 1..IntMax
    BY <1>2, <1>3
  <1>5. {e.calling} \ {NoSlot} \subseteq 1..IntMax
    BY <1>1, SignalAssumption DEF NoSlot
  <1> QED
    BY <1>4, <1>5 DEF Abstract, Walked, Due

\* What a sequence of emissions is, and what it owes.
LEMMA OwedTypes ==
  ASSUME NEW s \in Seq(Emission)
  PROVE  /\ Owed(s) \in Seq(Due) /\ Len(Owed(s)) = Len(s)
         /\ Len(s) \in Nat /\ DOMAIN s = 1..Len(s)
         /\ \A i \in 1..Len(s) : s[i] \in Emission /\ Owed(s)[i] = Abstract(s[i])
  <1>1. Len(s) \in Nat /\ DOMAIN s = 1..Len(s) /\ \A i \in 1..Len(s) : s[i] \in Emission
    BY LenProperties, ElementOfSeq
  <1>3. Owed(s) \in [1..Len(s) -> Due]
    BY <1>1, AbstractType DEF Owed
  <1>4. Owed(s) \in Seq(Due) /\ Len(Owed(s)) = Len(s)
    BY <1>1, <1>3, LenProperties
  <1> QED
    BY <1>1, <1>4 DEF Owed

\* A new emission, the innermost.
LEMMA Pushed ==
  ASSUME NEW s \in Seq(Emission), NEW e \in Emission
  PROVE  /\ <<e>> \o s \in Seq(Emission)
         /\ Owed(<<e>> \o s) = <<Abstract(e)>> \o Owed(s)
         /\ \A i \in 1..Len(<<e>> \o s) :
              (<<e>> \o s)[i] = e \/ \E j \in 1..Len(s) : (<<e>> \o s)[i] = s[j]
  <1> DEFINE r == <<e>> \o s
             o == <<Abstract(e)>> \o Owed(s)
  <1>1. Owed(s) \in Seq(Due) /\ Len(Owed(s)) = Len(s) /\ Len(s) \in Nat
    BY OwedTypes
  <1>4. Abstract(e) \in Due
    BY AbstractType
  <1>5. /\ r \in Seq(Emission) /\ Len(r) = Len(s) + 1 /\ r[1] = e
        /\ \A i \in 1..Len(s) : r[i + 1] = s[i]
    BY <1>1
  <1>6. /\ o \in Seq(Due) /\ Len(o) = Len(s) + 1 /\ o[1] = Abstract(e)
        /\ \A i \in 1..Len(s) : o[i + 1] = Owed(s)[i]
    BY <1>1, <1>4
  <1> HIDE DEF r, o
  <1>7. \A i \in 1..Len(r) : i = 1 \/ (i - 1 \in 1..Len(s) /\ i = (i - 1) + 1)
    BY <1>1, <1>5
  <1>8. Owed(r) \in Seq(Due) /\ Len(Owed(r)) = Len(o)
    BY <1>5, <1>6, OwedTypes
  <1>9. ASSUME NEW i \in 1..Len(r) PROVE Owed(r)[i] = o[i]
    <2>1. Owed(r)[i] = Abstract(r[i])
      BY <1>5, OwedTypes
    <2>2. CASE i = 1
      BY <2>1, <2>2, <1>5, <1>6
    <2>3. CASE i - 1 \in 1..Len(s) /\ i = (i - 1) + 1
      <3>1. r[i] = s[i - 1] /\ o[i] = Owed(s)[i - 1]
        BY <2>3, <1>5, <1>6
      <3>2. Owed(s)[i - 1] = Abstract(s[i - 1])
        BY <2>3, OwedTypes
      <3> QED
        BY <2>1, <3>1, <3>2
    <2> QED
      BY <2>2, <2>3, <1>7
  <1>10. Owed(r) = o
    <2>1. Len(Owed(r)) = Len(r)
      BY <1>5, OwedTypes
    <2> QED
      BY <1>6, <1>8, <1>9, <2>1, SeqEqual
  <1> QED
    BY <1>5, <1>7, <1>10 DEF r, o

\* The innermost emission is over.
LEMMA Popped ==
  ASSUME NEW s \in Seq(Emission), s # <<>>
  PROVE  /\ Tail(s) \in Seq(Emission)
         /\ Owed(Tail(s)) = Tail(Owed(s)) /\ Owed(s) # <<>>
         /\ \A i \in 1..Len(Tail(s)) : \E j \in 1..Len(s) : Tail(s)[i] = s[j]
  <1>1. Owed(s) \in Seq(Due) /\ Len(Owed(s)) = Len(s) /\ Len(s) \in Nat /\ Len(s) # 0
    BY OwedTypes, EmptySeq
  <1>2. Owed(s) # <<>>
    BY <1>1, EmptySeq
  <1>3. /\ Tail(s) \in Seq(Emission) /\ Len(Tail(s)) = Len(s) - 1
        /\ \A i \in 1..(Len(s) - 1) : Tail(s)[i] = s[i + 1]
    BY <1>1, HeadTailProperties
  <1>4. /\ Tail(Owed(s)) \in Seq(Due) /\ Len(Tail(Owed(s))) = Len(s) - 1
        /\ \A i \in 1..(Len(s) - 1) : Tail(Owed(s))[i] = Owed(s)[i + 1]
    BY <1>1, <1>2, HeadTailProperties
  <1>5. \A i \in 1..(Len(s) - 1) : i + 1 \in 1..Len(s)
    BY <1>1
  <1>6. Owed(Tail(s)) \in Seq(Due) /\ Len(Owed(Tail(s))) = Len(s) - 1
    BY <1>3, OwedTypes
  <1>7. ASSUME NEW i \in 1..(Len(s) - 1) PROVE Owed(Tail(s))[i] = Tail(Owed(s))[i]
    <2>1. Owed(Tail(s))[i] = Abstract(Tail(s)[i])
      BY <1>3, OwedTypes
    <2>2. Owed(s)[i + 1] = Abstract(s[i + 1])
      BY <1>5, OwedTypes
    <2> QED
      BY <2>1, <2>2, <1>3, <1>4
  <1>8. Owed(Tail(s)) = Tail(Owed(s))
    BY <1>4, <1>6, <1>7, SeqEqual
  <1> QED
    BY <1>2, <1>3, <1>5, <1>8

\* The innermost emission goes on.
LEMMA Replaced ==
  ASSUME NEW s \in Seq(Emission), s # <<>>, NEW e \in Emission
  PROVE  /\ [s EXCEPT ![1] = e] \in Seq(Emission)
         /\ Owed([s EXCEPT ![1] = e]) = [Owed(s) EXCEPT ![1] = Abstract(e)]
         /\ Owed(s) # <<>> /\ s[1] \in Emission /\ Owed(s)[1] = Abstract(s[1])
         /\ \A i \in 1..Len([s EXCEPT ![1] = e]) :
              [s EXCEPT ![1] = e][i] = e \/ \E j \in 1..Len(s) : [s EXCEPT ![1] = e][i] = s[j]
  <1> DEFINE r == [s EXCEPT ![1] = e]
             o == [Owed(s) EXCEPT ![1] = Abstract(e)]
  <1>1. /\ Owed(s) \in Seq(Due) /\ Len(Owed(s)) = Len(s) /\ Len(s) \in Nat /\ Len(s) # 0
        /\ DOMAIN s = 1..Len(s) /\ \A i \in 1..Len(s) : s[i] \in Emission
    BY OwedTypes, EmptySeq
  <1>2. 1 \in 1..Len(s)
    BY <1>1
  <1>3. r \in Seq(Emission) /\ Len(r) = Len(s)
    BY <1>2, ExceptSeq
  <1>4. r[1] = e /\ \A i \in 1..Len(s) : i # 1 => r[i] = s[i]
    BY <1>1, <1>2
  <1>5. DOMAIN o = 1..Len(s) /\ o[1] = Abstract(e) /\ \A i \in 1..Len(s) : i # 1 => o[i] = Owed(s)[i]
    <2>1. DOMAIN Owed(s) = 1..Len(s)
      BY <1>1 DEF Owed
    <2> QED
      BY <2>1, <1>2
  <1>6. DOMAIN Owed(r) = 1..Len(s)
    BY <1>1 DEF Owed
  <1> HIDE DEF r, o
  <1>7. ASSUME NEW i \in 1..Len(s) PROVE Owed(r)[i] = o[i]
    <2>1. Owed(r)[i] = Abstract(r[i]) /\ Owed(s)[i] = Abstract(s[i])
      BY <1>3, OwedTypes
    <2> QED
      BY <2>1, <1>4, <1>5
  <1>8. Owed(r) = o
    <2>1. Owed(r) = [i \in 1..Len(s) |-> Owed(r)[i]]
      BY <1>6 DEF Owed
    <2>2. o = [i \in 1..Len(s) |-> o[i]]
      BY <1>5 DEF o
    <2> QED
      BY <2>1, <2>2, <1>7
  <1>9. Owed(s) # <<>>
    BY <1>1, EmptySeq
  <1> QED
    BY <1>1, <1>2, <1>3, <1>4, <1>8, <1>9, OwedTypes DEF r, o

-----------------------------------------------------------------------------
(* The invariant.                                                          *)

\* The innermost emission, in the states where there is one.
LEMMA Innermost ==
  ASSUME Inv, emits # <<>>
  PROVE  Sound(emits[1])
  <1>1. emits \in Seq(Emission)
    BY DEF Inv, TypeOK
  <1>2. DOMAIN emits = 1..Len(emits) /\ 1 \in 1..Len(emits) /\ emits[1] \in Emission
    BY <1>1, OwedTypes, EmptySeq
  <1> QED
    BY <1>2 DEF Inv, TypeOK, CopiesAscend, Sound

\* Emit() copies a vector that ascends.
LEMMA EmitPushes ==
  ASSUME Inv, Emit
  PROVE  \E e \in Emission :
           /\ Sound(e) /\ emits' = <<e>> \o emits
           /\ Abstract(e) = [left |-> ToSet(slots_), now |-> {}]
  <1>1. PICK bool \in BOOLEAN :
          emits' = <<[slots |-> slots_, done |-> 0, calling |-> NoSlot, bool |-> bool]>> \o emits
    BY DEF Emit
  <1> DEFINE e == [slots |-> slots_, done |-> 0, calling |-> NoSlot, bool |-> bool]
  <1>2. /\ slots_ \in Seq(1..IntMax) /\ Ascends(slots_)
        /\ Len(slots_) \in Nat /\ DOMAIN slots_ = 1..Len(slots_)
    BY SlotTypes DEF Inv, SlotsAscend
  <1>3. e \in Emission /\ Sound(e)
    BY <1>2, SignalAssumption DEF Emission, Sound, Walked, NoSlot
  <1>4. Abstract(e) = [left |-> ToSet(slots_), now |-> {}]
    <2>1. 0 + 1 = 1 /\ {NoSlot} \ {NoSlot} = {}
      OBVIOUS
    <2>2. ToSet(slots_) = {slots_[i] : i \in 1..Len(slots_)}
      BY <1>2 DEF ToSet
    <2> QED
      BY <2>1, <2>2 DEF Abstract, Walked
  <1> QED
    BY <1>1, <1>3, <1>4

\* A call takes the least of the slots that are left.
LEMMA CallTakesLeast ==
  ASSUME Inv, Call
  PROVE  \E e \in Emission, id \in 1..IntMax :
           /\ emits # <<>> /\ Sound(e) /\ emits' = [emits EXCEPT ![1] = e]
           /\ Abstract(emits[1]).now = {}
           /\ id \in Abstract(emits[1]).left
           /\ \A other \in Abstract(emits[1]).left : id <= other
           /\ Abstract(e) = [left |-> Abstract(emits[1]).left \ {id}, now |-> {id}]
  <1> DEFINE d == emits[1]
             n == d.done + 1
             id == d.slots[n]
             e == [slots |-> d.slots, done |-> n, calling |-> id, bool |-> d.bool]
  <1>1. emits # <<>> /\ d.calling = NoSlot /\ d.done < Len(d.slots)
    BY DEF Call, Between, More, Walked
  <1>2. /\ d \in Emission /\ Ascends(d.slots)
        /\ d.slots \in Seq(1..IntMax) /\ d.done \in Nat /\ d.bool \in BOOLEAN
    BY <1>1, Innermost DEF Sound, Emission
  <1>3. Len(d.slots) \in Nat /\ n \in 1..Len(d.slots)
    BY <1>1, <1>2, LenProperties
  <1>4. \A i \in 1..Len(d.slots) : d.slots[i] \in 1..IntMax
    BY <1>2, ElementOfSeq
  <1>5. id \in 1..IntMax
    BY <1>3, <1>4
  <1>6. e \in Emission /\ Sound(e)
    BY <1>2, <1>3, <1>5, SignalAssumption DEF Emission, Sound, Walked
  <1>7. emits' = [emits EXCEPT ![1] = e]
    <2>1. emits' = [emits EXCEPT ![1].done = @ + 1, ![1].calling = d.slots[d.done + 1]]
      BY DEF Call, Walked
    <2>2. d = [slots |-> d.slots, done |-> d.done, calling |-> d.calling, bool |-> d.bool]
      BY <1>2 DEF Emission
    <2> DEFINE f == [slots |-> d.slots, done |-> n, calling |-> d.calling, bool |-> d.bool]
    <2>3. emits' = [emits EXCEPT ![1] = [[d EXCEPT !.done = n] EXCEPT !.calling = id]]
      BY <2>1
    <2>4. [[d EXCEPT !.done = n] EXCEPT !.calling = id] = e
      <3>1. [d EXCEPT !.done = n] = f
        BY <2>2
      <3>2. [f EXCEPT !.calling = id] = e
        OBVIOUS
      <3> QED
        BY <3>1, <3>2
    <2> QED
      BY <2>3, <2>4
  <1>8. \A i, j \in 1..Len(d.slots) : i < j => d.slots[i] < d.slots[j]
    BY <1>2 DEF Ascends
  <1>9. /\ Abstract(d).left = {d.slots[i] : i \in n..Len(d.slots)}
        /\ Abstract(d).now = {}
    BY <1>1 DEF Abstract, Walked
  <1>10. /\ Abstract(e).left = {d.slots[i] : i \in (n + 1)..Len(d.slots)}
         /\ Abstract(e).now = {id}
         /\ Abstract(e) = [left |-> Abstract(e).left, now |-> Abstract(e).now]
    BY <1>5 DEF Abstract, Walked, NoSlot
  <1>11. id \in Abstract(d).left
    BY <1>3, <1>9
  <1>12. ASSUME NEW i \in (n + 1)..Len(d.slots) PROVE id < d.slots[i]
    <2>1. i \in 1..Len(d.slots) /\ n < i
      BY <1>3
    <2> QED
      BY <2>1, <1>3, <1>8
  <1>13. \A i \in n..Len(d.slots) : i = n \/ i \in (n + 1)..Len(d.slots)
    BY <1>3
  <1>14. \A i \in (n + 1)..Len(d.slots) : i \in 1..Len(d.slots) /\ i \in n..Len(d.slots)
    BY <1>3
  <1> HIDE DEF d, n, id, e
  <1>15. ASSUME NEW other \in Abstract(d).left PROVE id <= other
    <2>1. PICK i \in n..Len(d.slots) : other = d.slots[i]
      BY <1>9
    <2>2. CASE i = n
      BY <2>1, <2>2, <1>5 DEF id
    <2>3. CASE i \in (n + 1)..Len(d.slots)
      <3>1. id < d.slots[i] /\ d.slots[i] \in 1..IntMax
        BY <2>3, <1>4, <1>12, <1>14
      <3> QED
        BY <3>1, <2>1, <1>5
    <2> QED
      BY <2>2, <2>3, <1>13
  <1>16. Abstract(e).left = Abstract(d).left \ {id}
    <2>1. Abstract(e).left \subseteq Abstract(d).left
      BY <1>9, <1>10, <1>14
    <2>2. id \notin Abstract(e).left
      <3>1. ASSUME NEW i \in (n + 1)..Len(d.slots) PROVE d.slots[i] # id
        <4>1. id < d.slots[i] /\ d.slots[i] \in 1..IntMax
          BY <1>4, <1>12, <1>14
        <4> QED
          BY <4>1, <1>5
      <3> QED
        BY <3>1, <1>10
    <2>3. ASSUME NEW other \in Abstract(d).left, other # id PROVE other \in Abstract(e).left
      <3>1. PICK i \in n..Len(d.slots) : other = d.slots[i]
        BY <1>9
      <3>2. i \in (n + 1)..Len(d.slots)
        BY <3>1, <2>3, <1>13 DEF id
      <3> QED
        BY <3>1, <3>2, <1>10
    <2> QED
      BY <2>1, <2>2, <2>3
  <1> QED
    BY <1>1, <1>5, <1>6, <1>7, <1>9, <1>10, <1>11, <1>15, <1>16 DEF d

\* A slot that returns leaves its emission at the slots it has left.
LEMMA SlotReturnsClears ==
  ASSUME Inv, SlotReturns, emits' # Tail(emits)
  PROVE  \E e \in Emission :
           /\ Sound(e) /\ emits' = [emits EXCEPT ![1] = e]
           /\ Abstract(e) = [left |-> Abstract(emits[1]).left, now |-> {}]
  <1> DEFINE d == emits[1]
             e == [slots |-> d.slots, done |-> d.done, calling |-> NoSlot, bool |-> d.bool]
  <1>1. emits # <<>> /\ emits' = [emits EXCEPT ![1].calling = NoSlot]
    BY DEF SlotReturns
  <1>2. /\ d \in Emission /\ Ascends(d.slots) /\ d.done <= Len(d.slots)
        /\ d.slots \in Seq(1..IntMax) /\ d.done \in Nat /\ d.bool \in BOOLEAN
    BY <1>1, Innermost DEF Sound, Emission, Walked
  <1>3. e \in Emission /\ Sound(e)
    BY <1>2, SignalAssumption DEF Emission, Sound, Walked, NoSlot
  <1>4. emits' = [emits EXCEPT ![1] = e]
    <2>1. d = [slots |-> d.slots, done |-> d.done, calling |-> d.calling, bool |-> d.bool]
      BY <1>2 DEF Emission
    <2>2. emits' = [emits EXCEPT ![1] = [d EXCEPT !.calling = NoSlot]]
      BY <1>1
    <2>3. [d EXCEPT !.calling = NoSlot] = e
      <3> HIDE DEF d
      <3> QED
        BY <2>1
    <2> QED
      BY <2>2, <2>3
  <1>5. Abstract(e) = [left |-> Abstract(d).left, now |-> {}]
    BY DEF Abstract, Walked
  <1> QED
    BY <1>3, <1>4, <1>5

\* The invariant of the emissions in progress.
LEMMA EmitsStep ==
  ASSUME Inv, [Next]_vars
  PROVE  /\ emits' \in Seq(Emission)
         /\ \A i \in 1..Len(emits') : Sound(emits'[i])
  <1>1. emits \in Seq(Emission) /\ \A i \in 1..Len(emits) : Sound(emits[i])
    <2>1. emits \in Seq(Emission)
      BY DEF Inv, TypeOK
    <2>2. DOMAIN emits = 1..Len(emits) /\ \A i \in 1..Len(emits) : emits[i] \in Emission
      BY <2>1, OwedTypes
    <2> QED
      BY <2>1, <2>2 DEF Inv, TypeOK, CopiesAscend, Sound
  <1>2. CASE emits' = emits
    BY <1>1, <1>2
  <1>3. CASE Emit
    <2>1. PICK e \in Emission : Sound(e) /\ emits' = <<e>> \o emits
      BY <1>3, EmitPushes
    <2> QED
      BY <2>1, <1>1, Pushed
  <1>4. CASE emits' = Tail(emits) /\ emits # <<>>
    BY <1>1, <1>4, Popped
  <1>5. CASE Call
    BY <1>1, <1>5, CallTakesLeast, Replaced
  <1>6. CASE SlotReturns /\ emits' # Tail(emits)
    <2>1. emits # <<>>
      BY <1>6 DEF SlotReturns
    <2> QED
      BY <2>1, <1>1, <1>6, SlotReturnsClears, Replaced
  <1> QED
    BY <1>2, <1>3, <1>4, <1>5, <1>6
       DEF Next, vars, Connect, Disconnect, DisconnectAll, Destroy, SlotReturns,
           EmitEnds, Between

LEMMA Invariance == Spec => []Inv
  <1>1. Init => Inv
    <2> SUFFICES ASSUME Init PROVE Inv
      OBVIOUS
    <2>1. <<>> \in Seq(1..IntMax) /\ <<>> \in Seq(Emission) /\ Len(<<>>) = 0
      BY EmptySeq
    <2>2. DOMAIN <<>> = {}
      OBVIOUS
    <2> QED
      BY <2>1, <2>2, SignalAssumption
         DEF Init, Inv, TypeOK, SlotsAscend, Ascends, CopiesAscend
  <1>2. Inv /\ [Next]_vars => Inv'
    <2> SUFFICES ASSUME Inv, [Next]_vars PROVE Inv'
      OBVIOUS
    <2>1. emits' \in Seq(Emission) /\ \A i \in 1..Len(emits') : Sound(emits'[i])
      BY EmitsStep
    <2>2. DOMAIN emits' = 1..Len(emits')
      BY <2>1, LenProperties
    <2>3. CopiesAscend'
      BY <2>1, <2>2 DEF CopiesAscend, Sound
    <2>4. TypeOK'
      BY <2>1, <2>2, SlotsAscendStep DEF TypeOK, Sound, Walked
    <2> QED
      BY <2>3, <2>4, SlotsAscendStep DEF Inv
  <1> QED
    BY <1>1, <1>2, PTL DEF Spec

\* The type invariant: no position of the vector or of a copy is out of it.
THEOREM SignalTypes == Spec => []TypeOK
  <1>1. Inv => TypeOK
    BY DEF Inv
  <1> QED
    BY <1>1, Invariance, PTL

\* The vector that lower_bound() searches is sorted, without duplicates.
THEOREM SlotsStaySorted == Spec => []SlotsAscend
  <1>1. Inv => SlotsAscend
    BY DEF Inv
  <1> QED
    BY <1>1, Invariance, PTL

-----------------------------------------------------------------------------
(* The signal implements the abstract set of slots.                        *)

LEMMA StepImplements ==
  ASSUME Inv, [Next]_vars
  PROVE  [SlotSet!Next]_SlotSet!vars
  <1>1. emits \in Seq(Emission) /\ next_id_ \in Nat
    BY SlotTypes DEF Inv, TypeOK
  <1>2. CASE Connect
    <2>1. /\ ToSet(slots_') = ToSet(slots_) \cup {next_id_ + 1}
          /\ next_id_ + 1 \in 1..IntMax /\ next_id_' = next_id_ + 1
      BY <1>2, ConnectAppends DEF Inv
    <2>2. (1..next_id_)' = 1..next_id_ \cup {next_id_ + 1}
      BY <2>1, <1>1
    <2>3. \A g \in 1..next_id_ : next_id_ + 1 > g
      BY <1>1
    <2>4. Owed(emits)' = Owed(emits)
      BY <1>2 DEF Connect, Owed, Abstract, Walked
    <2>5. SlotSet!Connect
      BY <2>1, <2>2, <2>3, <2>4 DEF SlotSet!Connect
    <2> QED
      BY <2>5 DEF SlotSet!Next
  <1>3. ASSUME NEW id \in 1..next_id_, Disconnect(id) PROVE SlotSet!Next
    <2>1. ToSet(slots_') = ToSet(slots_) \ {id}
      BY <1>3, DisconnectRemoves DEF Inv
    <2>2. SlotSet!Disconnect(id)
      BY <1>3, <2>1 DEF Disconnect, Owed, Abstract, Walked, SlotSet!Disconnect
    <2> QED
      BY <2>2 DEF SlotSet!Next
  <1>4. CASE DisconnectAll \/ Destroy
    <2>1. slots_' = <<>> /\ next_id_' = next_id_ /\ emits' = emits
      BY <1>4 DEF DisconnectAll, Destroy
    <2>2. ToSet(slots_') = {}
      BY <2>1 DEF ToSet
    <2>3. SlotSet!DisconnectAll
      BY <2>1, <2>2 DEF SlotSet!DisconnectAll, Owed, Abstract, Walked
    <2> QED
      BY <2>3 DEF SlotSet!Next
  <1>5. CASE Emit
    <2>1. PICK e \in Emission :
            /\ Sound(e) /\ emits' = <<e>> \o emits
            /\ Abstract(e) = [left |-> ToSet(slots_), now |-> {}]
      BY <1>5, EmitPushes
    <2>2. Owed(emits)' = Owed(emits')
      BY DEF Owed, Abstract, Walked
    <2>3. Owed(emits') = <<[left |-> ToSet(slots_), now |-> {}]>> \o Owed(emits)
      BY <1>1, <2>1, Pushed
    <2>4. ToSet(slots_)' = ToSet(slots_) /\ next_id_' = next_id_
      BY <1>5 DEF Emit, ToSet
    <2>5. SlotSet!Emit
      BY <2>2, <2>3, <2>4 DEF SlotSet!Emit
    <2> QED
      BY <2>5 DEF SlotSet!Next
  <1>6. CASE Call
    <2>1. PICK e \in Emission, id \in 1..IntMax :
            /\ emits # <<>> /\ Sound(e) /\ emits' = [emits EXCEPT ![1] = e]
            /\ Abstract(emits[1]).now = {}
            /\ id \in Abstract(emits[1]).left
            /\ \A other \in Abstract(emits[1]).left : id <= other
            /\ Abstract(e) = [left |-> Abstract(emits[1]).left \ {id}, now |-> {id}]
      BY <1>6, CallTakesLeast
    <2>2. /\ Owed(emits') = [Owed(emits) EXCEPT ![1] = Abstract(e)]
          /\ Owed(emits) # <<>> /\ Owed(emits)[1] = Abstract(emits[1])
      BY <1>1, <2>1, Replaced
    <2>3. Owed(emits)' = Owed(emits')
      BY DEF Owed, Abstract, Walked
    <2>4. ToSet(slots_)' = ToSet(slots_) /\ next_id_' = next_id_
      BY <1>6 DEF Call, ToSet
    <2>5. SlotSet!Call
      BY <2>1, <2>2, <2>3, <2>4 DEF SlotSet!Call
    <2> QED
      BY <2>5 DEF SlotSet!Next
  <1>7. CASE SlotReturns
    <2>1. emits # <<>> /\ emits[1].calling # NoSlot
      BY <1>7 DEF SlotReturns
    <2>2. Owed(emits)' = Owed(emits')
      BY DEF Owed, Abstract, Walked
    <2>3. ToSet(slots_)' = ToSet(slots_) /\ next_id_' = next_id_
      BY <1>7 DEF SlotReturns, ToSet
    <2>4. emits[1] \in Emission /\ Owed(emits) # <<>> /\ Owed(emits)[1] = Abstract(emits[1])
      <3>1. emits[1] \in Emission
        BY <2>1, Innermost DEF Sound
      <3> QED
        BY <3>1, <1>1, <2>1, Replaced
    <2>5. Owed(emits)[1].now # {}
      BY <2>1, <2>4 DEF Abstract
    <2>6. CASE emits' = Tail(emits)
      <3>1. Owed(emits') = Tail(Owed(emits))
        BY <1>1, <2>1, <2>6, Popped
      <3>2. SlotSet!Handled
        BY <3>1, <2>2, <2>3, <2>4, <2>5 DEF SlotSet!Handled
      <3> QED
        BY <3>2 DEF SlotSet!Next
    <2>7. CASE emits' # Tail(emits)
      <3>1. PICK e \in Emission :
              /\ Sound(e) /\ emits' = [emits EXCEPT ![1] = e]
              /\ Abstract(e) = [left |-> Abstract(emits[1]).left, now |-> {}]
        BY <1>7, <2>7, SlotReturnsClears
      <3>2. Owed(emits') = [Owed(emits) EXCEPT ![1] = Abstract(e)]
        BY <1>1, <2>1, <3>1, Replaced
      <3> DEFINE d == Owed(emits)[1]
      <3>3. d = [left |-> d.left, now |-> d.now]
        BY <2>4 DEF Abstract
      <3>4. Abstract(e) = [d EXCEPT !.now = {}]
        <4>1. [d EXCEPT !.now = {}] = [left |-> d.left, now |-> {}]
          BY <3>3
        <4> QED
          BY <4>1, <3>1, <2>4
      <3>5. SlotSet!Return
        BY <3>2, <3>4, <2>2, <2>3, <2>4, <2>5 DEF SlotSet!Return
      <3> QED
        BY <3>5 DEF SlotSet!Next
    <2> QED
      BY <2>6, <2>7
  <1>8. CASE EmitEnds
    <2>1. /\ emits # <<>> /\ emits[1].calling = NoSlot /\ emits' = Tail(emits)
          /\ ~(emits[1].done < Len(Walked(emits[1])))
      BY <1>8 DEF EmitEnds, Between, More
    <2>2. Owed(emits)' = Owed(emits')
      BY DEF Owed, Abstract, Walked
    <2>3. ToSet(slots_)' = ToSet(slots_) /\ next_id_' = next_id_
      BY <1>8 DEF EmitEnds, ToSet
    <2>4. emits[1] \in Emission
      BY <2>1, Innermost DEF Sound
    <2>5. Owed(emits) # <<>> /\ Owed(emits)[1] = Abstract(emits[1])
      BY <2>4, <1>1, <2>1, Replaced
    <2>6. Abstract(emits[1]) = [left |-> {}, now |-> {}]
      <3>1. emits[1].done \in Nat /\ Len(Walked(emits[1])) \in Nat
        BY <2>4, LenProperties DEF Emission, Walked
      <3>2. (emits[1].done + 1)..Len(Walked(emits[1])) = {}
        BY <3>1, <2>1
      <3> QED
        BY <3>2, <2>1 DEF Abstract
    <2>7. Owed(emits') = Tail(Owed(emits))
      BY <1>1, <2>1, Popped
    <2>8. SlotSet!Over
      BY <2>2, <2>3, <2>5, <2>6, <2>7 DEF SlotSet!Over
    <2> QED
      BY <2>8 DEF SlotSet!Next
  <1>9. CASE UNCHANGED vars
    BY <1>9 DEF vars, SlotSet!vars, Owed, Abstract, Walked, ToSet
  <1> QED
    BY <1>2, <1>3, <1>4, <1>5, <1>6, <1>7, <1>8, <1>9 DEF Next

\* Whatever the slots do to the signal that calls them, it calls the slots that
\* were connected when Emit() began, once each, in the order of connection.
THEOREM SignalImplementsSlotSet == Spec => ImplementsSlotSet
  <1>1. Init => SlotSet!Init
    <2> SUFFICES ASSUME Init PROVE SlotSet!Init
      OBVIOUS
    <2>1. ToSet(slots_) = {} /\ Owed(emits) = <<>> /\ 1..next_id_ = {}
      BY DEF Init, ToSet, Owed
    <2> QED
      BY <2>1 DEF SlotSet!Init
  <1>2. Inv /\ [Next]_vars => [SlotSet!Next]_SlotSet!vars
    BY StepImplements
  <1> QED
    BY <1>1, <1>2, Invariance, PTL DEF Spec, ImplementsSlotSet, SlotSet!Spec
=============================================================================
