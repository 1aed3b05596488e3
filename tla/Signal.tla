------------------------------- MODULE Signal -------------------------------
(***************************************************************************)
(* nu::Signal (include/nativeui/signal.h): a vector of slots, each with    *)
(* the identifier that Connect() gave it, searched by lower_bound() and    *)
(* copied by Emit().  It runs on one thread, but a slot may do anything to *)
(* the signal that is calling it: connect, disconnect, emit again, destroy *)
(* it.  A slot is named by its identifier.                                 *)
(***************************************************************************)
EXTENDS Naturals, SequencesExt

CONSTANTS
  IntMax,      \* the greatest int: ++next_id_ is undefined there
  MaxDepth     \* bound on the emissions in progress

ASSUME SignalAssumption == IntMax \in Nat /\ MaxDepth \in Nat

VARIABLES
  next_id_,
  slots_,      \* identifiers, in the order of the vector
  alive,       \* the signal has not been destroyed
  emits        \* the emissions in progress, the innermost first

vars == <<next_id_, slots_, alive, emits>>

NoSlot == 0

Init == next_id_ = 0 /\ slots_ = <<>> /\ alive = TRUE /\ emits = <<>>

\* The user's code runs: outside of emissions, or in a slot.
UserRuns == alive /\ (emits # <<>> => emits[1].calling # NoSlot)

\* Mutant: the slot is put in front.
Appended_InFront(id) == <<id>> \o slots_

Appended(id) == Append(slots_, id)

\* Mutant: next_id_++.
Id_Before == next_id_

\* The identifier given: ++next_id_.
Id == next_id_ + 1

Connect ==
  /\ UserRuns /\ next_id_ < IntMax
  /\ next_id_' = next_id_ + 1
  /\ slots_' = Appended(Id)
  /\ UNCHANGED <<alive, emits>>

\* What std::lower_bound() may return: the position that divides the slots
\* below id from the others, if there is one, and any position otherwise.
LowerBound(id) ==
  LET Positions == 1..(Len(slots_) + 1)
      Dividing == {i \in Positions : \A j \in 1..Len(slots_) : slots_[j] < id <=> j < i}
  IN  IF Dividing # {} THEN Dividing ELSE Positions

Disconnect(id) ==
  /\ UserRuns
  /\ \E i \in LowerBound(id) :
       slots_' = IF i <= Len(slots_) /\ slots_[i] = id THEN RemoveAt(slots_, i) ELSE slots_
  /\ UNCHANGED <<next_id_, alive, emits>>

DisconnectAll ==
  /\ UserRuns
  /\ slots_' = <<>>
  /\ UNCHANGED <<next_id_, alive, emits>>

\* The destructor; a slot may be what runs it.
Destroy ==
  /\ UserRuns
  /\ alive' = FALSE /\ slots_' = <<>>
  /\ UNCHANGED <<next_id_, emits>>

-----------------------------------------------------------------------------
(* Emit(), of slots that return nothing and of slots that return a boolean. *)
Emit ==
  /\ UserRuns /\ Len(emits) < MaxDepth
  /\ \E bool \in BOOLEAN :
       emits' = <<[slots |-> slots_, done |-> 0, calling |-> NoSlot, bool |-> bool]>> \o emits
  /\ UNCHANGED <<next_id_, slots_, alive>>

\* Mutant: Emit() walks through the vector itself.
Walked_Live(emit) == slots_

Walked(emit) == emit.slots

More(emit) == emit.done < Len(Walked(emit))

Between == emits # <<>> /\ emits[1].calling = NoSlot

Call ==
  /\ Between /\ More(emits[1])
  /\ emits' = [emits EXCEPT ![1].done = @ + 1, ![1].calling = Walked(emits[1])[emits[1].done + 1]]
  /\ UNCHANGED <<next_id_, slots_, alive>>

SlotReturns ==
  /\ emits # <<>> /\ emits[1].calling # NoSlot
  /\ \/ emits' = [emits EXCEPT ![1].calling = NoSlot]
     \/ emits[1].bool /\ emits' = Tail(emits)          \* it returned true
  /\ UNCHANGED <<next_id_, slots_, alive>>

EmitEnds ==
  /\ Between /\ ~More(emits[1])
  /\ emits' = Tail(emits)
  /\ UNCHANGED <<next_id_, slots_, alive>>

Next ==
  \/ Connect \/ DisconnectAll \/ Destroy \/ Emit \/ Call \/ SlotReturns \/ EmitEnds
  \/ \E id \in 1..next_id_ : Disconnect(id)

Spec == Init /\ [][Next]_vars
-----------------------------------------------------------------------------
Emission == [slots : Seq(1..IntMax), done : Nat, calling : 0..IntMax, bool : BOOLEAN]

\* Every variable has its type, and an emission stays within its slots.
TypeOK ==
  /\ next_id_ \in 0..IntMax /\ alive \in BOOLEAN
  /\ slots_ \in Seq(1..IntMax)
  /\ emits \in Seq(Emission)
  /\ \A i \in DOMAIN emits : emits[i].done <= Len(Walked(emits[i]))

Ascends(s) == \A i, j \in 1..Len(s) : i < j => s[i] < s[j]

\* "Use the first element of tuple as comparing key": the vector is sorted by
\* identifier, without duplicates, as lower_bound() in Disconnect() requires,
\* and no identifier is ever given twice.
SlotsAscend ==
  /\ Ascends(slots_)
  /\ \A i \in 1..Len(slots_) : slots_[i] <= next_id_

\* "Copy the list before iterating, since it is possible that user removes
\* elements": the signal implements the abstract set of slots, also where a
\* slot connects, disconnects, emits, or destroys the signal.
Abstract(emit) ==
  [left |-> {Walked(emit)[i] : i \in (emit.done + 1)..Len(Walked(emit))},
   now  |-> {emit.calling} \ {NoSlot}]

Owed(s) == [i \in DOMAIN s |-> Abstract(s[i])]

SlotSet == INSTANCE SlotSet WITH
  Id <- 1..IntMax,
  connected <- ToSet(slots_),
  given <- 1..next_id_,
  due <- Owed(emits)

ImplementsSlotSet == SlotSet!Spec
=============================================================================
