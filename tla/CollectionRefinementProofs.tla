--------------------- MODULE CollectionRefinementProofs ---------------------
(***************************************************************************)
(* The list implements ObserverSet, for any number of threads that notify, *)
(* any depth of calls and any number of insertions, as long as one thread  *)
(* inserts and removes.  In the sorted list that CollectionSoleProofs      *)
(* establishes, what a notification has yet to call are the subscribed     *)
(* observers whose id is not above its cursor, so that each step of the    *)
(* list can be compared with the step of the set that it stands for.       *)
(***************************************************************************)
EXTENDS CollectionSoleProofs

\* What a frame has yet to call, in terms of ids.
ToCall(f) ==
  CASE pc[f] = "apply_walk"                  -> {m \in Live : m <= cur[f]}
    [] pc[f] \in {"apply_call", "apply_run"} -> {m \in Live : m < cur[f]}
    [] OTHER                                 -> {}

\* Only elements that are in the list, or were, are marked.
MarkedArePublished == deleted \subseteq Published

LEMMA LiveIs == Sole => Live = Linked \ deleted
  BY DEF Sole, SoleList, UnlinkedAreDeleted, Live, Linked

\* What follows a node in the list is what is lower.
LEMMA NextIsBelow ==
  ASSUME Sole, NEW n \in Linked, NEW m \in Linked
  PROVE  m <= next[n] <=> m < n
  <1>1. \A k \in Linked : k \in Nat
    <2>1. Published \subseteq 1..last /\ Linked \subseteq Published
      BY Numbers
    <2> QED
      BY <2>1
  <1>2. next[n] \in OrNull /\ next[n] < n /\ (m < n => m <= next[n])
    BY DEF Sole, SoleList, Sorted
  <1>3. next[n] \in Nat /\ m \in Nat /\ n \in Nat
    BY <1>1, <1>2 DEF OrNull, NULL
  <1> QED
    BY <1>2, <1>3

\* The mapping of todo is ToCall.
TodoIsToCall == \A f \in Frame : Todo(f) = ToCall(f)

LEMMA TodoIs == Sole => TodoIsToCall
  <1> SUFFICES ASSUME Sole, NEW f \in Frame PROVE Todo(f) = ToCall(f)
    BY DEF TodoIsToCall
  <1>1. cur[f] \in OrNull \/ pc[f] \notin WalkPCs
    BY DEF Sole, SoleList, FrameOk, CursorOk
  <1>2. CASE pc[f] = "apply_walk"
    <2>1. Reach[cur[f]] = {m \in Linked : m <= cur[f]}
      BY <1>1, <1>2, ReachIsBelow DEF WalkPCs
    <2> QED
      BY <1>2, <2>1, LiveIs DEF Todo, Phase, ToCall
  <1>3. CASE pc[f] \in {"apply_call", "apply_run"}
    <2>1. cur[f] \in Linked
      BY <1>1, <1>3 DEF WalkPCs, OrNull, Sole, Handshake, Dereferenced
    <2>2. next[cur[f]] \in OrNull
      BY <2>1 DEF Sole, SoleList, Sorted
    <2>3. Reach[next[cur[f]]] = {m \in Linked : m <= next[cur[f]]}
      BY <2>2, ReachIsBelow
    <2>4. {m \in Linked : m <= next[cur[f]]} = {m \in Linked : m < cur[f]}
      BY <2>1, NextIsBelow
    <2>5. Todo(f) = {m \in Linked : m < cur[f]} \ deleted
      BY <1>3, <2>3, <2>4 DEF Todo, Phase
    <2> QED
      BY <1>3, <2>5, LiveIs DEF ToCall
  <1>4. CASE pc[f] \notin {"apply_walk", "apply_call", "apply_run"}
    BY <1>4 DEF Todo, Phase, ToCall
  <1> QED
    BY <1>2, <1>3, <1>4

LEMMA TodoIsNext == Sole' => TodoIsToCall'
  BY TodoIs, PTL

-----------------------------------------------------------------------------
\* A step that does not publish or mark a node changes neither set.
LEMMA SetsStay ==
  ASSUME OneMutator, Sole, Sole', NEW f \in Frame, Call(f) \/ Step(f),
         ~(InsertCas(f) /\ head = next[node[f]]), ~RemoveWalk(f), ~DestroyWalk(f)
  PROVE  Published' = Published /\ Live' = Live
  <1>1. deleted' = deleted
    BY WhoMarks
  <1>2. Handshake' /\ Nesting' /\ DestroyFreesAll'
    BY DEF Sole, SoleList
  <1>3. Published' = Published
    <2>1. CASE ~Changes(f)
      BY <1>2, <2>1, StillUnlessChanges, StillKeeps
    <2>2. CASE Changes(f)
      BY <1>2, <2>2, UnlinkSole, DeleteSole DEF Changes
    <2> QED
      BY <2>1, <2>2
  <1> QED
    BY <1>1, <1>3 DEF Live

\* remove() and ~collection() mark the node at their cursor, if any.
LEMMA MarkStep ==
  ASSUME OneMutator, Sole, Sole', NEW f \in Frame, RemoveWalk(f) \/ DestroyWalk(f)
  PROVE  /\ Published' = Published
         /\ \/ deleted' = deleted
            \/ cur[f] \in Linked /\ deleted' = deleted \cup {cur[f]}
  <1>1. ~Changes(f)
    BY DEF Changes, RemoveWalk, DestroyWalk, InsertCas, GcStep, GcDelete, GcStore
  <1>2. Published' = Published
    BY <1>1, StillUnlessChanges, StillKeeps DEF Step, Sole
  <1>3. cur[f] \in OrNull
    BY DEF RemoveWalk, DestroyWalk, Sole, SoleList, FrameOk, CursorOk, WalkPCs
  <1> QED
    BY <1>2, <1>3 DEF RemoveWalk, DestroyWalk, OrNull

LEMMA MarkedArePublishedStep ==
  ASSUME OneMutator, Sole, Sole', MarkedArePublished, NEW f \in Frame, Call(f) \/ Step(f)
  PROVE  MarkedArePublished'
  <1>1. CASE InsertCas(f) /\ head = next[node[f]]
    <2>1. Published \subseteq Published'
      BY <1>1, PublishSole DEF Sole, SoleList
    <2> QED
      BY <1>1, <2>1 DEF InsertCas, MarkedArePublished
  <1>2. CASE RemoveWalk(f) \/ DestroyWalk(f)
    BY <1>2, MarkStep, Numbers DEF MarkedArePublished
  <1>3. CASE ~(InsertCas(f) /\ head = next[node[f]]) /\ ~RemoveWalk(f) /\ ~DestroyWalk(f)
    BY <1>3, SetsStay, WhoMarks DEF MarkedArePublished
  <1> QED
    BY <1>1, <1>2, <1>3

\* The other frames stay in their phase, with the cursor where it was.
LEMMA OthersPhase ==
  ASSUME Sole, NEW f \in Frame, Call(f) \/ Step(f), NEW g \in Frame, g # f
  PROVE  Phase(g)' = Phase(g) /\ (Live' = Live => ToCall(g)' = ToCall(g))
  BY OthersStay DEF Sole, Handshake, Phase, ToCall

\* Outside apply() nothing is to be called.
LEMMA IdleIs ==
  \A f \in Frame : pc[f] \notin {"apply_walk", "apply_call", "apply_run"} =>
                     Phase(f) = "idle" /\ ToCall(f) = {}
  BY DEF Phase, ToCall

-----------------------------------------------------------------------------
(***************************************************************************)
(* Step by step.                                                           *)
(***************************************************************************)
Phases == [f \in Frame |-> Phase(f)]
Todos  == [f \in Frame |-> Todo(f)]

LEMMA TodosAre == Sole => Todos = [f \in Frame |-> ToCall(f)]
  BY TodoIs DEF Todos, TodoIsToCall

LEMMA TodosAreNext == Sole' => Todos' = [f \in Frame |-> ToCall(f)']
  BY TodoIsNext DEF Todos, TodoIsToCall

\* A step of a frame that stays idle, and leaves the sets alone, is not seen.
LEMMA UnseenStep ==
  ASSUME Sole, Sole', NEW f \in Frame, Call(f) \/ Step(f),
         Published' = Published, Live' = Live,
         Phase(f)' = Phase(f), ToCall(f)' = ToCall(f)
  PROVE  UNCHANGED Abstract!vars
  <1>1. \A g \in Frame : Phase(g)' = Phase(g) /\ ToCall(g)' = ToCall(g)
    BY OthersPhase
  <1>2. Phases' = Phases
    BY <1>1 DEF Phases
  <1>3. Todos' = Todos
    BY <1>1, TodosAre, TodosAreNext
  <1> QED
    BY <1>2, <1>3 DEF Abstract!vars, Phases, Todos

\* The compare_exchange that succeeds subscribes the observer.
LEMMA PublishSubscribes ==
  ASSUME OneMutator, Sole, Sole', MarkedArePublished, NEW f \in Frame,
         InsertCas(f), head = next[node[f]]
  PROVE  Abstract!Next
  <1>a. PICK n : n = node[f]
    OBVIOUS
  <1>1. /\ n \in Id /\ n \notin Published /\ n = last
        /\ Published' = Published \cup {n} /\ deleted' = deleted
    BY <1>a, PublishSole DEF Sole, SoleList, InsertCas
  <1>2. Live' = Live \cup {n}
    BY <1>1 DEF Live, MarkedArePublished
  <1>3. \A g \in Frame : Phase(g)' = Phase(g) /\ ToCall(g)' = ToCall(g)
    <2> SUFFICES ASSUME NEW g \in Frame PROVE Phase(g)' = Phase(g) /\ ToCall(g)' = ToCall(g)
      OBVIOUS
    <2>1. CASE g = f
      BY <2>1 DEF InsertCas, Goto, Phase, ToCall, Sole, Handshake, Types
    <2>2. CASE g # f
      <3>1. pc'[g] = pc[g] /\ cur'[g] = cur[g]
        BY <2>2, OthersStay DEF Sole, Handshake, Step
      <3>2. CASE pc[g] \in {"apply_walk", "apply_call", "apply_run"}
        <4>1. cur[g] \in OrNull
          BY <3>2 DEF Sole, SoleList, FrameOk, CursorOk, WalkPCs
        <4>2. ~(n <= cur[g]) /\ ~(n < cur[g])
          <5>1. /\ Published \subseteq 1..last /\ Linked \subseteq Published
                /\ last \in Nat /\ NULL = 0
            BY Numbers
          <5>2. cur[g] = 0 \/ cur[g] \in Published
            BY <4>1, <5>1 DEF OrNull
          <5>3. cur[g] = 0 \/ cur[g] \in 1..last
            BY <5>1, <5>2
          <5>4. cur[g] # n /\ n # 0 /\ n = last /\ last \in Nat
            BY <1>1, <5>1, <5>2 DEF Id
          <5> QED
            BY <5>3, <5>4
        <4>3. {m \in Live' : m <= cur[g]} = {m \in Live : m <= cur[g]}
          BY <1>2, <4>2
        <4>4. {m \in Live' : m < cur[g]} = {m \in Live : m < cur[g]}
          BY <1>2, <4>2
        <4> QED
          BY <3>1, <3>2, <4>3, <4>4 DEF Phase, ToCall
      <3>3. CASE pc[g] \notin {"apply_walk", "apply_call", "apply_run"}
        BY <3>1, <3>3 DEF Phase, ToCall
      <3> QED
        BY <3>2, <3>3
    <2> QED
      BY <2>1, <2>2
  <1>4. Phases' = Phases
    BY <1>3 DEF Phases
  <1>5. Todos' = Todos
    BY <1>3, TodosAre, TodosAreNext
  <1>6. Abstract!Subscribe(n)
    BY <1>1, <1>2, <1>4, <1>5 DEF Abstract!Subscribe, Phases, Todos
  <1> QED
    BY <1>1, <1>6 DEF Abstract!Next

\* The store to the deleted flag, if it was not set, unsubscribes.
LEMMA MarkUnsubscribes ==
  ASSUME OneMutator, Sole, Sole', NEW f \in Frame, RemoveWalk(f) \/ DestroyWalk(f)
  PROVE  Abstract!Next \/ UNCHANGED Abstract!vars
  <1>1. Published' = Published
    BY MarkStep
  <1>2. /\ pc[f] \notin {"apply_walk", "apply_call", "apply_run"}
        /\ pc'[f] \notin {"apply_walk", "apply_call", "apply_run"}
    BY DEF RemoveWalk, DestroyWalk, Goto, Sole, Handshake, Types
  <1>3. /\ Phase(f) = "idle" /\ ToCall(f) = {}
        /\ Phase(f)' = "idle" /\ ToCall(f)' = {}
    BY <1>2 DEF Phase, ToCall
  <1>4. CASE Live' = Live
    BY <1>1, <1>3, <1>4, UnseenStep DEF Step
  <1>5. CASE Live' # Live
    <2>a. PICK o : o = cur[f]
      OBVIOUS
    <2>1. o \in Live /\ o \in Id /\ Live' = Live \ {o}
      <3>1. cur[f] \in Linked /\ deleted' = deleted \cup {cur[f]}
        BY <1>1, <1>5, MarkStep DEF Live
      <3>2. Linked \subseteq Published /\ Published \subseteq Id
        BY Numbers
      <3> QED
        BY <1>1, <1>5, <2>a, <3>1, <3>2 DEF Live
    <2>2. \A g \in Frame : Phase(g)' = Phase(g) /\ ToCall(g)' = ToCall(g) \ {o}
      <3> SUFFICES ASSUME NEW g \in Frame, g # f
                   PROVE  Phase(g)' = Phase(g) /\ ToCall(g)' = ToCall(g) \ {o}
        BY <1>3
      <3>1. pc'[g] = pc[g] /\ cur'[g] = cur[g]
        BY OthersStay DEF Sole, Handshake, Step
      <3> QED
        BY <2>1, <3>1 DEF Phase, ToCall
    <2>3. Phases' = Phases
      BY <2>2 DEF Phases
    <2>4. Todos' = [g \in Frame |-> Todos[g] \ {o}]
      BY <2>2, TodosAre, TodosAreNext
    <2>5. Abstract!Unsubscribe(o)
      BY <1>1, <2>1, <2>3, <2>4 DEF Abstract!Unsubscribe, Phases, Todos
    <2> QED
      BY <2>1, <2>5 DEF Abstract!Next
  <1> QED
    BY <1>4, <1>5

\* The steps of apply() are those of a notification.
LEMMA ApplyNotifies ==
  ASSUME OneMutator, Sole, Sole', NEW f \in Frame,
         ApplyLoad(f) \/ ApplyWalk(f) \/ ApplyCall(f) \/ ApplyReturn(f)
  PROVE  Abstract!Next \/ UNCHANGED Abstract!vars
  <1> USE DEF Goto
  <1>0. Step(f)
    BY DEF Step
  <1>1. Published' = Published /\ Live' = Live
    BY <1>0, SetsStay DEF ApplyLoad, Load, ApplyWalk, ApplyCall, ApplyReturn, InsertCas,
       RemoveWalk, DestroyWalk
  <1>2. \A g \in Frame : g # f => Phase(g)' = Phase(g) /\ ToCall(g)' = ToCall(g)
    BY <1>0, <1>1, OthersPhase
  <1>3. ASSUME NEW p, Phase(f)' = p PROVE Phases' = [Phases EXCEPT ![f] = p]
    BY <1>2, <1>3 DEF Phases
  <1>4. ASSUME NEW t, ToCall(f)' = t PROVE Todos' = [Todos EXCEPT ![f] = t]
    BY <1>2, <1>4, TodosAre, TodosAreNext
  <1>5. Phases[f] = Phase(f) /\ Todos[f] = ToCall(f)
    BY TodosAre DEF Phases
  <1>6. Types
    BY DEF Sole, Handshake
  <1>7. cur[f] \in OrNull \/ ApplyLoad(f)
    BY DEF ApplyWalk, ApplyCall, ApplyReturn, Sole, SoleList, FrameOk, CursorOk, WalkPCs
  <1>8. Live \subseteq Linked /\ (\A m \in Linked : m \in Nat /\ m \in Id) /\ ~(\E m \in Linked : m <= NULL)
    <2>1. Published \subseteq 1..last /\ Linked \subseteq Published /\ Published \subseteq Id
      BY Numbers
    <2>2. \A m \in Linked : m \in 1..last /\ m \in Id
      BY <2>1
    <2> QED
      BY <2>2, Numbers DEF NULL
  <1>9. cur[f] \in Linked => {m \in Live : m <= next[cur[f]]} = {m \in Live : m < cur[f]}
    BY <1>8, NextIsBelow
  <1>10. CASE ApplyLoad(f)
    <2>1. pc[f] = "apply_load" /\ pc'[f] = "apply_walk" /\ cur'[f] = head
      BY <1>6, <1>10 DEF ApplyLoad, Load, Types
    <2>2. Highest(head)
      BY <2>1, HeadWhenRead DEF Inside, InsidePCs
    <2>3. ToCall(f)' = Live /\ Phase(f)' = "notifying" /\ Phase(f) = "idle"
      BY <1>1, <1>8, <2>1, <2>2 DEF ToCall, Phase, Highest
    <2>4. Abstract!NotifyBegin(f)
      BY <1>1, <1>3, <1>4, <1>5, <2>3 DEF Abstract!NotifyBegin, Phases, Todos
    <2> QED
      BY <2>4 DEF Abstract!Next
  <1>11. CASE ApplyWalk(f)
    <2>1. /\ pc[f] = "apply_walk" /\ Phase(f) = "notifying"
          /\ ToCall(f) = {m \in Live : m <= cur[f]}
      BY <1>11 DEF ApplyWalk, Phase, ToCall
    <2>2. CASE cur[f] = NULL
      <3>1. pc'[f] = "leave"
        BY <1>6, <1>11, <2>2 DEF ApplyWalk, Types
      <3>2. Phase(f)' = "idle" /\ ToCall(f)' = {} /\ ToCall(f) = {}
        BY <1>8, <2>1, <2>2, <3>1 DEF Phase, ToCall
      <3>3. Phases' = [Phases EXCEPT ![f] = "idle"] /\ Todos' = Todos
        BY <1>2, <1>3, <3>2, TodosAre, TodosAreNext
      <3>4. Abstract!NotifyEnd(f)
        BY <1>1, <1>5, <2>1, <3>2, <3>3 DEF Abstract!NotifyEnd, Phases, Todos
      <3> QED
        BY <3>4 DEF Abstract!Next
    <2>3. CASE cur[f] # NULL /\ cur[f] \in deleted
      <3>1. pc'[f] = "apply_walk" /\ cur'[f] = next[cur[f]] /\ cur[f] \in Linked
        BY <1>6, <1>7, <1>11, <2>3 DEF ApplyWalk, ApplyLoad, Load, Types, OrNull
      <3>2. {m \in Live : m < cur[f]} = {m \in Live : m <= cur[f]}
        <4>1. \A m \in Live : m # cur[f] /\ m \in Nat
          BY <1>8, <2>3 DEF Live
        <4>2. cur[f] \in Nat
          BY <1>8, <3>1
        <4>3. \A m \in Live : m < cur[f] <=> m <= cur[f]
          BY <4>1, <4>2
        <4> QED
          BY <4>3
      <3>3. Phase(f)' = Phase(f) /\ ToCall(f)' = ToCall(f)
        BY <1>1, <1>9, <2>1, <3>1, <3>2 DEF Phase, ToCall
      <3> QED
        BY <1>0, <1>1, <3>3, UnseenStep
    <2>4. CASE cur[f] # NULL /\ cur[f] \notin deleted
      <3>a. PICK o : o = cur[f]
        OBVIOUS
      <3>1. pc'[f] = "apply_call" /\ cur'[f] = cur[f] /\ o \in Linked
        BY <1>6, <1>7, <1>11, <2>4, <3>a DEF ApplyWalk, ApplyLoad, Load, Types, OrNull
      <3>2. o \in Live /\ o \in Id /\ o \in ToCall(f)
        BY <1>8, <2>1, <2>4, <3>a, <3>1, LiveIs
      <3>3. {m \in Live : m < o} = {m \in Live : m <= o} \ {o}
        <4>1. \A m \in Live : m < o <=> m <= o /\ m # o
          <5>1. \A m \in Live : m \in Nat
            BY <1>8
          <5> QED
            BY <3>2, <5>1
        <4> QED
          BY <4>1
      <3>4. Phase(f)' = "calling" /\ ToCall(f)' = ToCall(f) \ {o}
        BY <1>1, <2>1, <3>a, <3>1, <3>3 DEF Phase, ToCall
      <3>5. Abstract!NotifyCall(f, o)
        BY <1>1, <1>3, <1>4, <1>5, <2>1, <3>2, <3>4 DEF Abstract!NotifyCall, Phases, Todos
      <3> QED
        BY <3>2, <3>5 DEF Abstract!Next
    <2> QED
      BY <2>2, <2>3, <2>4
  <1>12. CASE ApplyCall(f)
    <2>1. pc[f] = "apply_call" /\ pc'[f] = "apply_run" /\ cur'[f] = cur[f]
      BY <1>6, <1>12 DEF ApplyCall, Types
    <2>2. Phase(f)' = Phase(f) /\ ToCall(f)' = ToCall(f)
      BY <1>1, <2>1 DEF Phase, ToCall
    <2> QED
      BY <1>0, <1>1, <2>2, UnseenStep
  <1>13. CASE ApplyReturn(f)
    <2>1. /\ pc[f] = "apply_run" /\ Phase(f) = "calling"
          /\ ToCall(f) = {m \in Live : m < cur[f]}
      BY <1>13 DEF ApplyReturn, Phase, ToCall
    <2>2. CASE pc'[f] = "apply_walk" /\ cur'[f] = next[cur[f]]
      <3>1. cur[f] \in Linked
        BY <1>7, <2>1 DEF OrNull, ApplyLoad, Load, Sole, Handshake, Dereferenced
      <3>2. Phase(f)' = "notifying" /\ ToCall(f)' = ToCall(f)
        BY <1>1, <1>9, <2>1, <2>2, <3>1 DEF Phase, ToCall
      <3>3. Phases' = [Phases EXCEPT ![f] = "notifying"] /\ Todos' = Todos
        BY <1>2, <1>3, <3>2, TodosAre, TodosAreNext
      <3>4. Abstract!CallReturns(f)
        BY <1>1, <1>5, <2>1, <3>3 DEF Abstract!CallReturns, Phases, Todos
      <3> QED
        BY <3>4 DEF Abstract!Next
    <2>3. CASE pc'[f] = "leave"
      <3>1. Phase(f)' = "idle" /\ ToCall(f)' = {}
        BY <2>3 DEF Phase, ToCall
      <3>2. Abstract!CallThrows(f)
        BY <1>1, <1>3, <1>4, <1>5, <2>1, <3>1 DEF Abstract!CallThrows, Phases, Todos
      <3> QED
        BY <3>2 DEF Abstract!Next
    <2> QED
      BY <1>6, <1>13, <2>2, <2>3 DEF ApplyReturn, Types
  <1> QED
    BY <1>10, <1>11, <1>12, <1>13

\* Every other step is not seen.
LEMMA OtherSteps ==
  ASSUME OneMutator, Sole, Sole', NEW f \in Frame, Call(f) \/ Step(f),
         ~(InsertCas(f) /\ head = next[node[f]]), ~RemoveWalk(f), ~DestroyWalk(f),
         ~(ApplyLoad(f) \/ ApplyWalk(f) \/ ApplyCall(f) \/ ApplyReturn(f))
  PROVE  UNCHANGED Abstract!vars
  <1> DEFINE A == {"apply_walk", "apply_call", "apply_run"}
  <1> USE DEF Goto, Return, Begin, Finish, Sole, Handshake, Types
  <1>1. Published' = Published /\ Live' = Live
    BY SetsStay
  <1>2. pc[f] \notin A /\ pc'[f] \notin A
    <2>1. CASE Call(f)
      BY <2>1, StepsWhenInUse DEF Call, Insert, Apply, Empty, Destroy, Remove
    <2>2. CASE Enter(f) \/ Spin(f) \/ Leave(f) \/ InsertLoad(f) \/ InsertCas(f)
      BY <2>2 DEF Enter, Spin, Leave, InsertLoad, InsertCas, Body, Ops
    <2>3. CASE RemoveLoad(f) \/ EmptyLoad(f) \/ EmptyTest(f)
      BY <2>3 DEF RemoveLoad, EmptyLoad, Load, EmptyTest
    <2>4. CASE GcEnter(f) \/ GcClaim(f) \/ GcLoad(f) \/ GcTest(f)
      BY <2>4 DEF GcEnter, GcClaim, GcLoad, GcTest
    <2>5. CASE GcStep(f) \/ GcDelete(f) \/ GcStore(f) \/ GcDone(f)
      BY <2>5 DEF GcStep, GcDelete, GcStore, GcDone
    <2> QED
      BY <2>1, <2>2, <2>3, <2>4, <2>5 DEF Step
  <1>3. Phase(f)' = Phase(f) /\ ToCall(f)' = ToCall(f)
    BY <1>2 DEF Phase, ToCall
  <1> QED
    BY <1>1, <1>3, UnseenStep

\* Every execution of the lock-free list is an execution of the set of
\* observers: an observer subscribed during a notification is not called by
\* it, one unsubscribed before its flag is read is not called, and each of the
\* others is called exactly once.
THEOREM ListImplementsObserverSet ==
  ASSUME OneMutator
  PROVE  Spec => ImplementsObserverSet
  <1>1. Init => Abstract!Init /\ MarkedArePublished
    <2> SUFFICES ASSUME Init PROVE Abstract!Init /\ MarkedArePublished
      OBVIOUS
    <2>1. Published = {} /\ Live = {}
      BY DEF Init, Published, Live
    <2>2. \A f \in Frame : Phase(f) = "idle" /\ Todo(f) = {}
      BY DEF Init, Phase, Todo
    <2> QED
      BY <2>1, <2>2 DEF Abstract!Init, Init, MarkedArePublished
  <1>2. Sole /\ Sole' /\ MarkedArePublished /\ [Next]_vars =>
          MarkedArePublished' /\ [Abstract!Next]_(Abstract!vars)
    <2> SUFFICES ASSUME Sole, Sole', MarkedArePublished, [Next]_vars
                 PROVE  MarkedArePublished' /\ (Abstract!Next \/ UNCHANGED Abstract!vars)
      OBVIOUS
    <2>1. CASE UNCHANGED vars
      <3>1. Published' = Published
        BY <2>1 DEF vars, Published
      <3>2. Live' = Live /\ MarkedArePublished'
        BY <2>1, <3>1 DEF vars, Live, MarkedArePublished
      <3>3. \A f \in Frame : Phase(f)' = Phase(f) /\ ToCall(f)' = ToCall(f)
        BY <2>1, <3>2 DEF vars, Phase, ToCall
      <3>4. Phases' = Phases /\ Todos' = Todos
        BY <3>3, TodosAre, TodosAreNext DEF Phases
      <3> QED
        BY <3>1, <3>2, <3>4 DEF Abstract!vars, Phases, Todos
    <2>2. ASSUME NEW f \in Frame, Call(f) \/ Step(f)
          PROVE  MarkedArePublished' /\ (Abstract!Next \/ UNCHANGED Abstract!vars)
      BY <2>2, MarkedArePublishedStep, PublishSubscribes, MarkUnsubscribes, ApplyNotifies,
         OtherSteps
    <2> QED
      BY <2>1, <2>2 DEF Next, Terminated
  <1>3. Sole /\ [Next]_vars => Sole'
    BY SoleStep
  <1> QED
    BY <1>1, <1>2, <1>3, SoleInit, PTL DEF Spec, ImplementsObserverSet, Abstract!Spec
=============================================================================
