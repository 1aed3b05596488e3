------------------------ MODULE CollectionSoleProofs ------------------------
(***************************************************************************)
(* What the collection promises when a single thread inserts and removes,  *)
(* whatever its functors do and however many threads notify: no element is *)
(* lost, remove() takes effect, the destructor frees every element.        *)
(*                                                                         *)
(* The first part is about nested calls, and needs no assumption on the    *)
(* threads that insert and remove.  The second is about the list, which is *)
(* then sorted by node id; the third about what can be reached in it.      *)
(***************************************************************************)
EXTENDS CollectionListProofs, CollectionRefinement, WellFoundedInduction

\* The method that a frame runs, where it stands.
MethodOfPC ==
  \A f \in Frame :
    /\ op[f] = "none" <=> pc[f] = "idle"
    /\ pc[f] \in {"enter", "spin", "leave"} => op[f] \in {"insert", "remove", "apply", "empty"}
    /\ pc[f] \in {"insert_load", "insert_cas"} => op[f] = "insert"
    /\ pc[f] \in {"remove_load", "remove_walk"} => op[f] = "remove"
    /\ pc[f] \in {"apply_load", "apply_walk", "apply_call", "apply_run"} => op[f] = "apply"
    /\ pc[f] \in {"empty_load", "empty_test"} => op[f] = "empty"
    /\ pc[f] = "destroy_walk" => op[f] = "destroy"
    /\ pc[f] \in {"gc_enter", "gc_claim"} \cup GcPCs => op[f] \in {"insert", "remove", "destroy"}
    /\ op[f] \in {"insert", "remove"} => f[1] \in Mutator

\* Frame g belongs to a call made from frame f, directly or not.
Above(f, g) == f[1] = g[1] /\ f[2] < g[2]

\* Only a functor and the destructor of an element can call; what the latter
\* calls does not pass the gate of gc_blocker.
Stack ==
  \A f, g \in Frame :
    Above(f, g) /\ pc[g] # "idle" =>
      \/ pc[f] = "apply_run"
      \/ pc[f] = "gc_delete" /\ op[g] = "remove" /\ pc[g] \in {"enter", "spin"}

\* gc_active_ is set by a gc() that runs.
ActiveIsHeld == active => \E f \in Frame : pc[f] \in GcPCs

\* Nothing runs once the collection is gone.
NothingRuns == gone => \A f \in Frame : pc[f] = "idle"

\* A thread that is about to call a functor has not removed it since it read
\* the deleted flag.
OwnCall ==
  \A f \in Frame :
    Mutator \subseteq {f[1]} /\ pc[f] = "apply_call" => cur[f] \notin deleted

Nesting ==
  MethodOfPC /\ Stack /\ ActiveIsHeld /\ DestroyAlone /\ NothingRuns /\ OwnCall

-----------------------------------------------------------------------------
LEMMA NestingInit == Init => Nesting
  BY DEF Init, Nesting, MethodOfPC, Stack, ActiveIsHeld, DestroyAlone,
     NothingRuns, OwnCall, GcPCs

\* Two frames of a thread are one above the other.
LEMMA FramesAreStacked ==
  ASSUME NEW f \in Frame, NEW g \in Frame, f[1] = g[1], f # g
  PROVE  Above(f, g) \/ Above(g, f)
  BY CollectionAssumption DEF Frame, Above

LEMMA MethodOfPCStep ==
  ASSUME Handshake, MethodOfPC, NEW f \in Frame, Call(f) \/ Step(f)
  PROVE  MethodOfPC'
  <1> USE DEF Handshake, Types, Goto, Return, Begin, Finish, shared, GcPCs
  <1> DEFINE Ok(g) ==
        /\ op[g] = "none" <=> pc[g] = "idle"
        /\ pc[g] \in {"enter", "spin", "leave"} => op[g] \in {"insert", "remove", "apply", "empty"}
        /\ pc[g] \in {"insert_load", "insert_cas"} => op[g] = "insert"
        /\ pc[g] \in {"remove_load", "remove_walk"} => op[g] = "remove"
        /\ pc[g] \in {"apply_load", "apply_walk", "apply_call", "apply_run"} => op[g] = "apply"
        /\ pc[g] \in {"empty_load", "empty_test"} => op[g] = "empty"
        /\ pc[g] = "destroy_walk" => op[g] = "destroy"
        /\ pc[g] \in {"gc_enter", "gc_claim"} \cup GcPCs => op[g] \in {"insert", "remove", "destroy"}
        /\ op[g] \in {"insert", "remove"} => g[1] \in Mutator
  <1>1. \A g \in Frame : Ok(g)
    BY DEF MethodOfPC
  <1> SUFFICES Ok(f)'
    BY <1>1, OthersStay DEF MethodOfPC
  <1>2. CASE Call(f)
    BY <1>1, <1>2 DEF Call, Insert, Apply, Empty, Destroy, Remove
  <1>3. CASE Enter(f) \/ Spin(f) \/ Leave(f)
    BY <1>1, <1>3 DEF Enter, Spin, Leave, Body, Ops
  <1>4. CASE InsertLoad(f) \/ InsertCas(f)
    BY <1>1, <1>4 DEF InsertLoad, InsertCas
  <1>5. CASE RemoveLoad(f) \/ ApplyLoad(f) \/ EmptyLoad(f)
    BY <1>1, <1>5 DEF RemoveLoad, ApplyLoad, EmptyLoad, Load
  <1>6. CASE RemoveWalk(f) \/ DestroyWalk(f)
    BY <1>1, <1>6 DEF RemoveWalk, DestroyWalk
  <1>7. CASE ApplyWalk(f) \/ ApplyCall(f) \/ ApplyReturn(f) \/ EmptyTest(f)
    BY <1>1, <1>7 DEF ApplyWalk, ApplyCall, ApplyReturn, EmptyTest
  <1>8. CASE GcEnter(f) \/ GcClaim(f) \/ GcLoad(f) \/ GcTest(f)
    BY <1>1, <1>8 DEF GcEnter, GcClaim, GcLoad, GcTest
  <1>9. CASE GcStep(f) \/ GcDelete(f) \/ GcStore(f) \/ GcDone(f)
    BY <1>1, <1>9 DEF GcStep, GcDelete, GcStore, GcDone
  <1> QED
    BY <1>2, <1>3, <1>4, <1>5, <1>6, <1>7, <1>8, <1>9 DEF Step

\* A frame that steps is in use, one that begins a call is not.
LEMMA StepsWhenInUse ==
  ASSUME NEW f \in Frame
  PROVE  /\ Call(f) => pc[f] = "idle" /\ ~Dying
         /\ Step(f) => pc[f] # "idle"
         /\ Step(f) /\ pc[f] = "apply_run" => ApplyReturn(f)
         /\ Step(f) /\ pc[f] = "gc_delete" => GcDelete(f)
         /\ Step(f) /\ pc[f] = "enter" => Enter(f)
         /\ Step(f) /\ pc[f] = "spin" => Spin(f)
  <1>1. Call(f) => pc[f] = "idle" /\ ~Dying
    BY DEF Call, Insert, Apply, Empty, Destroy, Remove, CanCall, CanCallFromDtor
  <1> QED
    BY <1>1 DEF Step, Enter, Spin, Leave, InsertLoad, InsertCas, RemoveLoad, RemoveWalk,
       ApplyLoad, ApplyWalk, ApplyCall, ApplyReturn, EmptyLoad, EmptyTest, Load,
       DestroyWalk, GcEnter, GcClaim, GcLoad, GcTest, GcStep, GcDelete, GcStore, GcDone

\* Frames that have made a call do not step.
LEMMA CallersWait ==
  ASSUME Stack, NEW f \in Frame, Call(f) \/ Step(f), NEW g \in Frame, Above(f, g)
  PROVE  pc[g] = "idle"
  <1> SUFFICES ASSUME pc[g] # "idle" PROVE FALSE
    OBVIOUS
  <1>1. pc[f] \in {"apply_run", "gc_delete"}
    BY DEF Stack
  <1>2. NoCallee(f)
    BY <1>1, StepsWhenInUse DEF ApplyReturn, GcDelete
  <1> DEFINE c == <<f[1], f[2] + 1>>
  <1>3. c \in Frame /\ (c = g \/ Above(c, g))
    BY CollectionAssumption DEF Above, Frame
  <1>4. pc[c] = "idle"
    BY <1>2, <1>3 DEF NoCallee
  <1> QED
    BY <1>3, <1>4 DEF Stack

LEMMA StackStep ==
  ASSUME Handshake, Nesting, NEW f \in Frame, Call(f) \/ Step(f)
  PROVE  Stack'
  <1> SUFFICES ASSUME NEW a \in Frame, NEW b \in Frame, Above(a, b), pc'[b] # "idle"
               PROVE  \/ pc'[a] = "apply_run"
                      \/ pc'[a] = "gc_delete" /\ op'[b] = "remove" /\ pc'[b] \in {"enter", "spin"}
    BY DEF Stack, Above
  <1> USE DEF Handshake, Nesting
  <1>0. a # b
    BY CollectionAssumption DEF Above, Frame
  <1>1. CASE f # a /\ f # b
    BY <1>1, OthersStay DEF Stack
  <1>2. CASE f = a
    BY <1>2, <1>0, CallersWait, OthersStay
  <1>3. CASE f = b /\ Step(f)
    <2>1. pc'[a] = pc[a] /\ pc[b] # "idle"
      BY <1>0, <1>3, OthersStay, StepsWhenInUse
    <2>2. CASE pc[a] = "apply_run"
      BY <2>1, <2>2
    <2>3. CASE pc[a] = "gc_delete" /\ op[b] = "remove" /\ pc[b] \in {"enter", "spin"}
      <3>1. active
        BY <2>3 DEF GcAlone, GcPCs
      <3>2. Enter(f)
        BY <1>3, <2>3, <3>1, StepsWhenInUse DEF Spin
      <3> QED
        BY <1>3, <2>1, <2>3, <3>2 DEF Enter, Goto, Types
    <2> QED
      BY <2>1, <2>2, <2>3 DEF Stack
  <1>4. CASE f = b /\ Call(f)
    <2> DEFINE c == <<b[1], b[2] - 1>>
    <2>1. c \in Frame /\ (c = a \/ Above(a, c)) /\ b[2] > 1
      BY CollectionAssumption DEF Above, Frame
    <2>2. ~Destroy(f)
      BY <1>4, <2>1 DEF Destroy
    <2>3. pc[c] = "apply_run" \/ (pc[c] = "gc_delete" /\ \E id \in Id : Remove(f, id))
      BY <1>4, <2>1, <2>2 DEF Call, Insert, Apply, Empty, Remove, CanCall, CanCallFromDtor
    <2>4. pc'[a] = pc[a]
      BY <1>0, <1>4, OthersStay
    <2>5. CASE c = a
      BY <1>4, <2>3, <2>4, <2>5 DEF Remove, Begin, Goto, Types
    <2>6. CASE Above(a, c)
      BY <2>1, <2>3, <2>4, <2>6 DEF Stack
    <2> QED
      BY <2>1, <2>5, <2>6
  <1> QED
    BY <1>1, <1>2, <1>3, <1>4

LEMMA ActiveIsHeldStep ==
  ASSUME Handshake, Nesting, NEW f \in Frame, Call(f) \/ Step(f)
  PROVE  ActiveIsHeld'
  <1> USE DEF Handshake, Types, Nesting, Goto, Return, Begin, Finish, shared
  <1>1. CASE GcClaim(f)
    <2>1. CASE active
      <3>1. PICK g \in Frame : pc[g] \in GcPCs
        BY <2>1 DEF ActiveIsHeld
      <3>2. g # f
        BY <1>1, <3>1 DEF GcClaim, GcPCs
      <3> QED
        BY <3>1, <3>2, OthersStay DEF ActiveIsHeld
    <2>2. CASE ~active
      BY <1>1, <2>2 DEF GcClaim, ActiveIsHeld, GcPCs
    <2> QED
      BY <2>1, <2>2
  <1>2. CASE GcDone(f)
    BY <1>2 DEF GcDone, ActiveIsHeld
  <1>3. CASE ~GcClaim(f) /\ ~GcDone(f)
    <2> SUFFICES active' = active /\ (pc[f] \in GcPCs => pc'[f] \in GcPCs)
      BY OthersStay DEF ActiveIsHeld
    <2> USE DEF GcPCs
    <2>1. CASE Call(f)
      BY <2>1, StepsWhenInUse DEF Call, Insert, Apply, Empty, Destroy, Remove
    <2>2. CASE Enter(f) \/ Spin(f) \/ Leave(f) \/ InsertLoad(f) \/ InsertCas(f)
      BY <2>2 DEF Enter, Spin, Leave, InsertLoad, InsertCas
    <2>3. CASE RemoveLoad(f) \/ ApplyLoad(f) \/ EmptyLoad(f) \/ RemoveWalk(f) \/ DestroyWalk(f)
      BY <2>3 DEF RemoveLoad, ApplyLoad, EmptyLoad, Load, RemoveWalk, DestroyWalk
    <2>4. CASE ApplyWalk(f) \/ ApplyCall(f) \/ ApplyReturn(f) \/ EmptyTest(f)
      BY <2>4 DEF ApplyWalk, ApplyCall, ApplyReturn, EmptyTest
    <2>5. CASE GcEnter(f) \/ GcLoad(f) \/ GcTest(f)
      BY <2>5 DEF GcEnter, GcLoad, GcTest
    <2>6. CASE GcStep(f) \/ GcDelete(f) \/ GcStore(f)
      BY <2>6 DEF GcStep, GcDelete, GcStore
    <2> QED
      BY <1>3, <2>1, <2>2, <2>3, <2>4, <2>5, <2>6 DEF Step
  <1> QED
    BY <1>1, <1>2, <1>3

LEMMA NothingRunsStep ==
  ASSUME Handshake, Nesting, NEW f \in Frame, Call(f) \/ Step(f)
  PROVE  NothingRuns'
  <1> USE DEF Handshake, Types, Nesting, Goto, Return, Begin, Finish, shared
  <1>1. ~gone
    BY StepsWhenInUse DEF NothingRuns, Dying
  <1>2. CASE GcEnter(f) \/ GcClaim(f) \/ GcDone(f)
    <2>1. gone' => op[f] = "destroy" /\ pc'[f] = "idle"
      BY <1>1, <1>2 DEF GcEnter, GcClaim, GcDone
    <2> QED
      BY <2>1, OthersStay DEF NothingRuns, DestroyAlone
  <1>3. CASE ~(GcEnter(f) \/ GcClaim(f) \/ GcDone(f))
    <2> SUFFICES gone' = gone
      BY <1>1 DEF NothingRuns
    <2>1. CASE Call(f)
      BY <2>1 DEF Call, Insert, Apply, Empty, Destroy, Remove
    <2>2. CASE Step(f)
      BY <1>3, <2>2 DEF Step, Enter, Spin, Leave, InsertLoad, InsertCas, RemoveLoad,
         ApplyLoad, EmptyLoad, Load, RemoveWalk, DestroyWalk, ApplyWalk, ApplyCall,
         ApplyReturn, EmptyTest, GcLoad, GcTest, GcStep, GcDelete, GcStore
    <2> QED
      BY <2>1, <2>2
  <1> QED
    BY <1>2, <1>3

\* Only remove() and the destructor set deleted flags.
LEMMA WhoMarks ==
  ASSUME NEW f \in Frame, Call(f) \/ Step(f), ~RemoveWalk(f), ~DestroyWalk(f)
  PROVE  deleted' = deleted
  <1> USE DEF shared
  <1>1. CASE Call(f)
    BY <1>1 DEF Call, Insert, Apply, Empty, Destroy, Remove
  <1>2. CASE Step(f)
    BY <1>2 DEF Step, Enter, Spin, Leave, InsertLoad, InsertCas, RemoveLoad,
       ApplyLoad, EmptyLoad, Load, ApplyWalk, ApplyCall, ApplyReturn, EmptyTest,
       GcEnter, GcClaim, GcLoad, GcTest, GcStep, GcDelete, GcStore, GcDone
  <1> QED
    BY <1>1, <1>2

\* A frame comes to apply_call by reading a flag that is not set.
LEMMA WhoCalls ==
  ASSUME Handshake, NEW f \in Frame, Call(f) \/ Step(f), pc'[f] = "apply_call"
  PROVE  cur'[f] = cur[f] /\ cur[f] \notin deleted /\ deleted' = deleted
  <1> USE DEF Handshake, Types, Goto, Return, Begin, Finish, shared
  <1>1. CASE ApplyWalk(f)
    BY <1>1 DEF ApplyWalk
  <1>2. ~Call(f)
    BY DEF Call, Insert, Apply, Empty, Destroy, Remove
  <1>3. ~(Enter(f) \/ Spin(f) \/ Leave(f) \/ InsertLoad(f) \/ InsertCas(f))
    BY DEF Enter, Spin, Leave, InsertLoad, InsertCas, Body, Ops
  <1>4. ~(RemoveLoad(f) \/ ApplyLoad(f) \/ EmptyLoad(f) \/ RemoveWalk(f) \/ DestroyWalk(f))
    BY DEF RemoveLoad, ApplyLoad, EmptyLoad, Load, RemoveWalk, DestroyWalk
  <1>5. ~(ApplyCall(f) \/ ApplyReturn(f) \/ EmptyTest(f))
    BY DEF ApplyCall, ApplyReturn, EmptyTest
  <1>6. ~(GcEnter(f) \/ GcClaim(f) \/ GcLoad(f) \/ GcTest(f))
    BY DEF GcEnter, GcClaim, GcLoad, GcTest
  <1>7. ~(GcStep(f) \/ GcDelete(f) \/ GcStore(f) \/ GcDone(f))
    BY DEF GcStep, GcDelete, GcStore, GcDone
  <1> QED
    BY <1>1, <1>2, <1>3, <1>4, <1>5, <1>6, <1>7 DEF Step

LEMMA OwnCallStep ==
  ASSUME Handshake, Nesting, NEW f \in Frame, Call(f) \/ Step(f)
  PROVE  OwnCall'
  <1> SUFFICES ASSUME NEW g \in Frame, Mutator \subseteq {g[1]}, pc'[g] = "apply_call"
               PROVE  cur'[g] \notin deleted'
    BY DEF OwnCall
  <1>1. CASE g = f
    BY <1>1, WhoCalls
  <1>2. CASE g # f
    <2>1. pc[g] = "apply_call" /\ cur'[g] = cur[g] /\ cur[g] \notin deleted
      BY <1>2, OthersStay DEF Handshake, Nesting, OwnCall
    <2>2. ~DestroyWalk(f)
      BY <1>2, <2>1 DEF DestroyWalk, Nesting, DestroyAlone
    <2>3. ~RemoveWalk(f)
      <3>1. SUFFICES ASSUME RemoveWalk(f) PROVE FALSE
        OBVIOUS
      <3>2. f[1] = g[1]
        BY <3>1 DEF RemoveWalk, Nesting, MethodOfPC
      <3>3. ~Above(f, g)
        BY <2>1, CallersWait DEF Nesting
      <3>4. ~Above(g, f)
        BY <2>1, <3>1 DEF RemoveWalk, Nesting, Stack
      <3> QED
        BY <1>2, <3>2, <3>3, <3>4, FramesAreStacked
    <2> QED
      BY <2>1, <2>2, <2>3, WhoMarks
  <1> QED
    BY <1>1, <1>2

LEMMA NestingStep == Handshake /\ Nesting /\ [Next]_vars => Nesting'
  <1> SUFFICES ASSUME Handshake, Nesting, [Next]_vars PROVE Nesting'
    OBVIOUS
  <1>1. CASE UNCHANGED vars
    BY <1>1 DEF vars, Nesting, MethodOfPC, Stack, ActiveIsHeld, DestroyAlone,
       NothingRuns, OwnCall
  <1>2. ASSUME NEW f \in Frame, Call(f) \/ Step(f) PROVE Nesting'
    BY <1>2, MethodOfPCStep, StackStep, ActiveIsHeldStep, DestroyAloneStep,
       NothingRunsStep, OwnCallStep DEF Nesting
  <1> QED
    BY <1>1, <1>2 DEF Next, Terminated

\* Calls nest: a frame with calls above it stands in a functor or deletes an
\* element, gc_active_ is set by a gc() that runs, ~collection() runs alone.
THEOREM NestingHolds == Spec => []Nesting
  BY NestingInit, NestingStep, HandshakeHolds, PTL DEF Spec

\* The only thread that removes elements never calls one that it has removed,
\* although apply() reads the deleted flag before it calls: for any number of
\* other threads that notify, and any depth of calls.
THEOREM OwnRemovalHoldsAlways == Spec => OwnRemovalHolds
  <1>1. Nesting /\ [Next]_vars =>
          [\A f \in Frame : Mutator \subseteq {f[1]} /\ pc[f] = "apply_call" /\ pc'[f] = "apply_run"
             => cur[f] \notin deleted]_vars
    BY DEF Nesting, OwnCall
  <1> QED
    BY <1>1, NestingHolds, PTL DEF Spec, OwnRemovalHolds

-----------------------------------------------------------------------------
(***************************************************************************)
(* The list, if a single thread inserts and removes.                       *)
(***************************************************************************)
OneMutator == \A s, t \in Mutator : s = t

\* The nodes that gc() has taken out of the list, and those that are in it.
Unlinked == freed \cup {cur[f] : f \in {g \in Frame : pc[g] = "gc_delete"}}
Linked   == Published \ Unlinked

OrNull == Linked \cup {NULL}

\* x is where the list begins, or NULL if it is empty.
Highest(x) == x \in OrNull /\ \A m \in Linked : m <= x

\* The list is sorted: from every node on, the next one is the one with the
\* greatest smaller id.
Sorted ==
  \A n \in Linked :
    next[n] \in OrNull /\ next[n] < n /\ \A m \in Linked : m < n => m <= next[n]

HeadIsHighest == (\A f \in Frame : ~Unlinking(f)) => Highest(head)

UnlinkedAreDeleted == Unlinked \subseteq deleted /\ freed \subseteq Published

CursorOk(f) == pc[f] \in WalkPCs => cur[f] \in OrNull

SweeperOk(f) ==
  /\ pc[f] \in {"gc_test", "gc_step", "gc_delete", "gc_store"} =>
       prev[f] \in OrNull /\ (prev[f] = NULL => Highest(first[f]))
  /\ pc[f] = "gc_delete" => cur[f] \in Published \ freed

NewIsLast(f) == IsNew(f) => node[f] = last

\* remove() has not yet come to its node, or the node is removed.
RemovingOk(f) ==
  /\ pc[f] = "remove_walk" /\ node[f] \in Live => node[f] <= cur[f]
  /\ op[f] = "remove" /\ pc[f] \in {"leave", "gc_enter"} => node[f] \notin Live

\* ~collection() marks one node after the other; then gc() takes out the first
\* node until there is none.
DestroyingOk(f) ==
  op[f] = "destroy" =>
    /\ pc[f] = "destroy_walk" => \A m \in Linked : m \in deleted \/ m <= cur[f]
    /\ pc[f] # "destroy_walk" => Linked \subseteq deleted
    /\ pc[f] \in {"gc_test", "gc_step", "gc_delete", "gc_store"} => prev[f] = NULL
    /\ pc[f] = "gc_done" => Linked = {}

FrameOk(f) ==
  CursorOk(f) /\ SweeperOk(f) /\ NewIsLast(f) /\ RemovingOk(f) /\ DestroyingOk(f)

SoleList ==
  /\ Sorted /\ HeadIsHighest /\ UnlinkedAreDeleted /\ DestroyFreesAll
  /\ \A f \in Frame : FrameOk(f)

Sole == Handshake /\ Nesting /\ SoleList

-----------------------------------------------------------------------------
\* Published, in terms of the frames whose node is not in the list yet.
NotNew == {n \in 1..last : \A f \in Frame : IsNew(f) => node[f] # n}

LEMMA PublishedIs == Handshake /\ MethodOfPC => Published = NotNew
  <1> SUFFICES ASSUME Handshake, MethodOfPC PROVE Published = NotNew
    OBVIOUS
  <1>1. \A f \in Frame : op[f] = "insert" =>
          (IsNew(f) <=> pc[f] \notin {"leave", "gc_enter", "gc_claim"} \cup GcPCs)
    BY DEF Handshake, Types, PCs, MethodOfPC, IsNew, GcPCs
  <1>2. \A f \in Frame : IsNew(f) => op[f] = "insert"
    BY DEF MethodOfPC, IsNew
  <1> QED
    BY <1>1, <1>2 DEF Published, NotNew

\* The same of the next state.
PublishedIsNotNew == Published = NotNew

LEMMA PublishedIsNext == Handshake' /\ MethodOfPC' => Published' = NotNew'
  <1>1. Handshake /\ MethodOfPC => PublishedIsNotNew
    BY PublishedIs DEF PublishedIsNotNew
  <1>2. Handshake' /\ MethodOfPC' => PublishedIsNotNew'
    BY <1>1, PTL
  <1> QED
    BY <1>2 DEF PublishedIsNotNew

\* Two frames do not mutate at the same time.
LEMMA NewAlone ==
  ASSUME OneMutator, Nesting, NEW f \in Frame, IsNew(f), NEW g \in Frame, g # f
  PROVE  op[g] \notin {"insert", "remove", "destroy"}
  <1>1. op[f] = "insert" /\ pc[f] \in {"enter", "spin", "insert_load", "insert_cas"}
    BY DEF Nesting, MethodOfPC, IsNew
  <1>2. op[g] # "destroy"
    BY <1>1 DEF Nesting, DestroyAlone
  <1>3. SUFFICES ASSUME op[g] \in {"insert", "remove"} PROVE FALSE
    BY <1>2
  <1>4. f[1] = g[1] /\ pc[g] # "idle" /\ pc[f] # "idle"
    BY <1>1, <1>3 DEF Nesting, MethodOfPC, OneMutator
  <1>5. ~Above(f, g)
    BY <1>1, <1>4 DEF Nesting, Stack
  <1>6. ~Above(g, f)
    <2>1. pc[g] # "apply_run"
      BY <1>3 DEF Nesting, MethodOfPC
    <2> QED
      BY <1>1, <1>4, <2>1 DEF Nesting, Stack
  <1> QED
    BY <1>4, <1>5, <1>6, FramesAreStacked

\* The ids are numbers, and no node that is inserted is NULL.
LEMMA Numbers ==
  ASSUME Sole
  PROVE  /\ last \in Nat /\ last <= MaxId
         /\ Published \subseteq 1..last /\ Linked \subseteq Published
         /\ Published \subseteq Id /\ Link \subseteq Nat
         /\ NULL \notin Published /\ NULL = 0
         /\ Live \subseteq Linked
  BY CollectionAssumption
     DEF Sole, Handshake, Types, SoleList, UnlinkedAreDeleted, Published, Linked,
         Live, Id, Link, NULL

\* While a frame is inside, or loads head_ in gc(), or nobody is, head_ is
\* where the list begins.
LEMMA HeadWhenRead ==
  ASSUME Sole, NEW f \in Frame,
         Inside(f) \/ pc[f] = "gc_load" \/ \A g \in Frame : pc[g] = "idle"
  PROVE  Highest(head)
  <1> SUFFICES \A g \in Frame : ~Unlinking(g)
    BY DEF Sole, SoleList, HeadIsHighest
  <1> USE DEF Sole, Handshake
  <1>1. CASE Inside(f)
    BY <1>1 DEF SweepExcludesReaders, SweepPCs, Unlinking
  <1>2. CASE pc[f] = "gc_load"
    BY <1>2 DEF GcAlone, GcPCs, Unlinking
  <1>3. CASE \A g \in Frame : pc[g] = "idle"
    BY <1>3 DEF Unlinking
  <1> QED
    BY <1>1, <1>2, <1>3

\* While gc() unlinks, deletes or stores, it is alone with the list.
LEMMA SweepsAlone ==
  ASSUME Sole, NEW f \in Frame, pc[f] \in SweepPCs, NEW g \in Frame, g # f
  PROVE  /\ pc[g] \notin WalkPCs \cup GcPCs \cup {"insert_load", "insert_cas", "leave"}
         /\ op[g] # "destroy"
  <1> USE DEF Sole, Handshake
  <1>1. ~Inside(g)
    BY DEF SweepExcludesReaders
  <1>2. pc[g] \notin GcPCs
    BY DEF GcAlone, SweepPCs, GcPCs
  <1>3. op[g] # "destroy"
    BY DEF Nesting, DestroyAlone, SweepPCs
  <1>4. pc[g] # "destroy_walk"
    BY <1>3 DEF Nesting, MethodOfPC
  <1> QED
    BY <1>1, <1>2, <1>3, <1>4 DEF Inside, InsidePCs, WalkPCs

\* An insertion begins only when none is in progress.
LEMMA InsertsAlone ==
  ASSUME OneMutator, Sole, MethodOfPC', Stack', NEW f \in Frame, Insert(f),
         NEW g \in Frame
  PROVE  ~IsNew(g)
  <1> SUFFICES ASSUME IsNew(g) PROVE FALSE
    OBVIOUS
  <1> USE DEF Sole, Nesting
  <1>1. op[g] = "insert" /\ pc[g] \in {"enter", "spin", "insert_load", "insert_cas"}
    BY DEF MethodOfPC, IsNew
  <1>2. pc[f] = "idle" /\ f # g /\ pc'[f] = "enter" /\ f[1] \in Mutator
    BY <1>1 DEF Insert, CanCall, Begin, Goto, Handshake, Types
  <1>3. f[1] = g[1]
    BY <1>1, <1>2 DEF MethodOfPC, OneMutator
  <1>4. pc'[g] = pc[g]
    BY <1>2, OthersStay DEF Handshake, Call
  <1>5. ~Above(f, g)
    BY <1>1, CallersWait DEF Call
  <1>6. ~Above(g, f)
    BY <1>1, <1>2, <1>4 DEF Stack
  <1> QED
    BY <1>2, <1>3, <1>5, <1>6, FramesAreStacked

\* Steps that leave the list as it is, apart from deleted flags.
Still(f) ==
  /\ UNCHANGED <<head, freed>>
  /\ \A n \in Linked : next'[n] = next[n]
  /\ deleted \subseteq deleted'
  /\ pc[f] # "gc_delete" /\ pc'[f] # "gc_delete"
  /\ ~Unlinking(f) /\ ~Unlinking(f)'
  /\ \/ /\ last' = last
        /\ IsNew(f) <=> IsNew(f)'
        /\ IsNew(f) => node'[f] = node[f]
     \/ Insert(f)

LEMMA StillKeeps ==
  ASSUME OneMutator, Sole, Handshake', Nesting', NEW f \in Frame, Call(f) \/ Step(f),
         Still(f)
  PROVE  /\ Published' = Published /\ Linked' = Linked /\ Unlinked' = Unlinked
         /\ Live' \subseteq Live
  <1>1. Published = NotNew /\ Published' = NotNew'
    BY PublishedIs, PublishedIsNext DEF Sole, Nesting
  <1>2. \A g \in Frame : g # f =>
          /\ pc'[g] = pc[g] /\ node'[g] = node[g] /\ cur'[g] = cur[g]
          /\ IsNew(g)' <=> IsNew(g)
    BY OthersStay DEF Sole, Handshake, IsNew
  <1>3. NotNew' = NotNew
    <2>1. CASE /\ last' = last
               /\ IsNew(f) <=> IsNew(f)'
               /\ IsNew(f) => node'[f] = node[f]
      BY <1>2, <2>1 DEF NotNew
    <2>2. CASE Insert(f)
      <3>1. \A g \in Frame : ~IsNew(g)
        BY <2>2, InsertsAlone DEF Nesting
      <3>2. last' = last + 1 /\ node'[f] = last + 1 /\ IsNew(f)'
        BY <2>2 DEF Insert, Begin, Goto, IsNew, Sole, Handshake, Types
      <3>3. last \in Nat
        BY Numbers
      <3>4. NotNew = 1..last
        BY <3>1 DEF NotNew
      <3>5. NotNew' = {n \in 1..(last + 1) : n # last + 1}
        BY <1>2, <3>1, <3>2 DEF NotNew
      <3> QED
        BY <3>3, <3>4, <3>5
    <2> QED
      BY <2>1, <2>2 DEF Still
  <1>4. Unlinked' = Unlinked
    BY <1>2 DEF Unlinked, Still
  <1> QED
    BY <1>1, <1>3, <1>4 DEF Linked, Live, Still

\* Such a step disturbs at most what is said of the frame that makes it.
LEMMA StillStep ==
  ASSUME OneMutator, Sole, Handshake', Nesting', DestroyFreesAll', NEW f \in Frame,
         Call(f) \/ Step(f), Still(f), FrameOk(f)'
  PROVE  SoleList'
  <1>0. Published' = Published /\ Linked' = Linked /\ Unlinked' = Unlinked /\ Live' \subseteq Live
    BY StillKeeps
  <1>1. OrNull' = OrNull /\ \A x : Highest(x)' <=> Highest(x)
    BY <1>0 DEF OrNull, Highest
  <1>2. \A g \in Frame : g # f =>
          /\ pc'[g] = pc[g] /\ op'[g] = op[g] /\ node'[g] = node[g] /\ cur'[g] = cur[g]
          /\ first'[g] = first[g] /\ prev'[g] = prev[g]
          /\ IsNew(g)' <=> IsNew(g)
          /\ Unlinking(g)' <=> Unlinking(g)
    BY OthersStay DEF Sole, Handshake, IsNew, Unlinking
  <1>3. Sorted'
    BY <1>0, <1>1 DEF Sole, SoleList, Sorted, Still
  <1>4. HeadIsHighest'
    BY <1>1, <1>2 DEF Sole, SoleList, HeadIsHighest, Still
  <1>5. UnlinkedAreDeleted'
    BY <1>0 DEF Sole, SoleList, UnlinkedAreDeleted, Still
  <1>6. ASSUME NEW g \in Frame PROVE FrameOk(g)'
    <2> SUFFICES ASSUME g # f PROVE FrameOk(g)'
      OBVIOUS
    <2>0. FrameOk(g)
      BY DEF Sole, SoleList
    <2>1. CursorOk(g)'
      BY <1>1, <1>2, <2>0 DEF FrameOk, CursorOk
    <2>2. SweeperOk(g)'
      BY <1>0, <1>1, <1>2, <2>0 DEF FrameOk, SweeperOk, Still
    <2>3. NewIsLast(g)'
      BY <1>2, <2>0, InsertsAlone DEF FrameOk, NewIsLast, Still, Nesting
    <2>4. RemovingOk(g)'
      BY <1>0, <1>2, <2>0 DEF FrameOk, RemovingOk
    <2>5. DestroyingOk(g)'
      BY <1>0, <1>2, <2>0 DEF FrameOk, DestroyingOk, Still
    <2> QED
      BY <2>1, <2>2, <2>3, <2>4, <2>5 DEF FrameOk
  <1> QED
    BY <1>3, <1>4, <1>5, <1>6 DEF SoleList

\* When ~collection() runs, nobody holds gc() up and no other gc() runs.
LEMMA DestroyUnhindered ==
  ASSUME Sole, NEW f \in Frame, op[f] = "destroy"
  PROVE  /\ pc[f] = "gc_claim" => ~active
         /\ pc[f] \notin HoldPCs
         /\ block = 0
  <1> USE DEF Sole, Handshake
  <1>1. \A g \in Frame : g # f => pc[g] = "idle"
    BY DEF Nesting, DestroyAlone
  <1>2. pc[f] \notin HoldPCs
    BY DEF Nesting, MethodOfPC, HoldPCs, InsidePCs
  <1>3. Holders = {}
    BY <1>1, <1>2 DEF Holders, HoldPCs, InsidePCs
  <1>4. block = 0
    BY <1>3, FS_EmptySet DEF BlockCounts
  <1>5. pc[f] = "gc_claim" => ~active
    BY <1>1 DEF Nesting, ActiveIsHeld, GcPCs
  <1> QED
    BY <1>2, <1>4, <1>5

LEMMA DestroyFreesAllStep ==
  ASSUME Sole, NEW f \in Frame, Call(f) \/ Step(f)
  PROVE  DestroyFreesAll'
  <1> USE DEF Goto, Return, Begin, Finish, shared
  <1>1. ~gone
    BY StepsWhenInUse DEF Sole, Nesting, NothingRuns, Dying
  <1>2. CASE GcDone(f)
    <2> SUFFICES ASSUME op[f] = "destroy" PROVE freed' = 1..last'
      BY <1>1, <1>2 DEF GcDone, DestroyFreesAll
    <2>1. Linked = {}
      BY <1>2 DEF Sole, SoleList, FrameOk, DestroyingOk, GcDone
    <2>2. \A g \in Frame : pc[g] # "gc_delete" /\ ~IsNew(g)
      BY <1>2 DEF Sole, Nesting, DestroyAlone, GcDone, IsNew
    <2>3. Unlinked = freed
      BY <2>2 DEF Unlinked
    <2>4. Published = 1..last
      BY <2>2, PublishedIs DEF Sole, Nesting, NotNew
    <2>5. freed = 1..last
      BY <2>1, <2>3, <2>4 DEF Linked, Sole, SoleList, UnlinkedAreDeleted
    <2> QED
      BY <1>2, <2>5 DEF GcDone
  <1>3. CASE GcEnter(f) \/ GcClaim(f)
    <2> SUFFICES ASSUME gone' PROVE FALSE
      BY DEF DestroyFreesAll
    <2>1. op[f] = "destroy" /\ (block > 0 \/ active)
      BY <1>1, <1>3 DEF GcEnter, GcClaim
    <2>2. CASE GcEnter(f)
      <3>1. block > 0
        BY <1>1, <2>2 DEF GcEnter
      <3> QED
        BY <2>1, <3>1, DestroyUnhindered
    <2>3. CASE GcClaim(f)
      <3>1. active
        BY <1>1, <2>3 DEF GcClaim
      <3> QED
        BY <2>1, <2>3, <3>1, DestroyUnhindered DEF GcClaim
    <2> QED
      BY <1>3, <2>2, <2>3
  <1>4. CASE ~(GcEnter(f) \/ GcClaim(f) \/ GcDone(f))
    <2> SUFFICES gone' = gone
      BY <1>1 DEF DestroyFreesAll
    <2>1. CASE Call(f)
      BY <2>1 DEF Call, Insert, Apply, Empty, Destroy, Remove
    <2>2. CASE Step(f)
      BY <1>4, <2>2 DEF Step, Enter, Spin, Leave, InsertLoad, InsertCas, RemoveLoad,
         ApplyLoad, EmptyLoad, Load, RemoveWalk, DestroyWalk, ApplyWalk, ApplyCall,
         ApplyReturn, EmptyTest, GcLoad, GcTest, GcStep, GcDelete, GcStore
    <2> QED
      BY <2>1, <2>2
  <1> QED
    BY <1>2, <1>3, <1>4

\* The steps that change the list: insert() publishes its node, gc() takes one
\* out, deletes it and stores head_.
Changes(f) ==
  \/ InsertCas(f) /\ head = next[node[f]]
  \/ GcStep(f) /\ Star(f) \in deleted
  \/ GcDelete(f) \/ GcStore(f)

LEMMA StillUnlessChanges ==
  ASSUME Sole, NEW f \in Frame, Call(f) \/ Step(f), ~Changes(f)
  PROVE  Still(f)
  <1> USE DEF Sole, Handshake, Types, Goto, Return, Begin, Finish, shared, Changes
  <1>1. CASE Call(f)
    BY <1>1, StepsWhenInUse
       DEF Call, Insert, Apply, Empty, Destroy, Remove, Still, Unlinking, IsNew
  <1>2. CASE Enter(f) \/ Spin(f) \/ Leave(f)
    BY <1>2 DEF Enter, Spin, Leave, Body, Ops, Still, Unlinking, IsNew
  <1>3. CASE InsertLoad(f) \/ InsertCas(f)
    <2>1. IsNew(f)
      BY <1>3 DEF InsertLoad, InsertCas, IsNew
    <2>2. node[f] \notin Linked
      BY <2>1, PublishedIs DEF NotNew, Linked, Nesting
    <2>3. \A n \in Linked : next'[n] = next[n]
      BY <1>3, <2>2, Numbers DEF InsertLoad, InsertCas
    <2> QED
      BY <1>3, <2>3 DEF InsertLoad, InsertCas, Still, Unlinking, IsNew
  <1>4. CASE RemoveLoad(f) \/ ApplyLoad(f) \/ EmptyLoad(f) \/ RemoveWalk(f) \/ DestroyWalk(f)
    BY <1>4 DEF RemoveLoad, ApplyLoad, EmptyLoad, Load, RemoveWalk, DestroyWalk, Still,
       Unlinking, IsNew
  <1>5. CASE ApplyWalk(f) \/ ApplyCall(f) \/ ApplyReturn(f) \/ EmptyTest(f)
    BY <1>5 DEF ApplyWalk, ApplyCall, ApplyReturn, EmptyTest, Still, Unlinking, IsNew
  <1>6. CASE GcEnter(f) \/ GcClaim(f) \/ GcDone(f)
    BY <1>6 DEF GcEnter, GcClaim, GcDone, Still, Unlinking, IsNew
  <1>7. CASE GcLoad(f) \/ GcTest(f) \/ GcStep(f)
    BY <1>7 DEF GcLoad, GcTest, GcStep, Still, Unlinking, IsNew
  <1> QED
    BY <1>1, <1>2, <1>3, <1>4, <1>5, <1>6, <1>7 DEF Step

\* What such a step leaves true of the frame that makes it.
LEMMA FrameOkStep ==
  ASSUME OneMutator, Sole, Handshake', Nesting', NEW f \in Frame, Call(f) \/ Step(f),
         ~Changes(f)
  PROVE  FrameOk(f)'
  <1> USE DEF Goto, Return, Begin, Finish, shared, Changes
  <1>a. Still(f)
    BY StillUnlessChanges
  <1>b. Linked' = Linked /\ Live' \subseteq Live
    BY <1>a, StillKeeps
  <1>c. OrNull' = OrNull /\ \A x : Highest(x)' <=> Highest(x)
    BY <1>b DEF OrNull, Highest
  <1>d. FrameOk(f) /\ Types /\ Types'
    BY DEF Sole, SoleList, Handshake
  <1>e. NewIsLast(f)'
    BY <1>a, <1>d DEF Still, FrameOk, NewIsLast, Insert, Types, IsNew
  <1>f. /\ \A m \in Linked : m \in Nat
        /\ Live \subseteq Linked /\ NULL \notin Linked /\ NULL = 0
    BY Numbers
  <1>g. deleted \subseteq deleted'
    BY <1>a DEF Still
  <1> SUFFICES CursorOk(f)' /\ SweeperOk(f)' /\ RemovingOk(f)' /\ DestroyingOk(f)'
    BY <1>e DEF FrameOk
  <1>1. CASE Insert(f) \/ Apply(f) \/ Empty(f) \/ \E id \in Id : Remove(f, id)
    BY <1>1, <1>d DEF Insert, Apply, Empty, Remove, Types, CursorOk, SweeperOk,
       RemovingOk, DestroyingOk, WalkPCs
  <1>2. CASE Destroy(f)
    <2>1. Highest(head)
      BY <1>2, HeadWhenRead DEF Destroy
    <2> QED
      BY <1>2, <1>b, <1>c, <1>d, <1>f, <2>1 DEF Destroy, Types, CursorOk, SweeperOk,
         RemovingOk, DestroyingOk, Highest
  <1>3. CASE Enter(f) \/ Spin(f)
    <2>1. op[f] # "destroy" /\ op'[f] = op[f]
      BY <1>3 DEF Enter, Spin, Sole, Nesting, MethodOfPC
    <2> QED
      BY <1>3, <1>d, <2>1 DEF Enter, Spin, Body, Types, Ops, CursorOk, SweeperOk,
         RemovingOk, DestroyingOk, WalkPCs
  <1>4. CASE Leave(f)
    BY <1>4, <1>b, <1>d DEF Leave, Types, FrameOk, CursorOk, SweeperOk, RemovingOk,
       DestroyingOk, WalkPCs
  <1>5. CASE InsertLoad(f) \/ InsertCas(f)
    <2>1. op[f] = "insert"
      BY <1>5 DEF InsertLoad, InsertCas, Sole, Nesting, MethodOfPC
    <2> QED
      BY <1>5, <1>d, <2>1 DEF InsertLoad, InsertCas, Types, CursorOk, SweeperOk,
         RemovingOk, DestroyingOk, WalkPCs
  <1>6. CASE RemoveLoad(f) \/ ApplyLoad(f) \/ EmptyLoad(f)
    <2>1. op[f] # "destroy" /\ Inside(f)
      BY <1>6 DEF RemoveLoad, ApplyLoad, EmptyLoad, Load, Sole, Nesting, MethodOfPC,
         Inside, InsidePCs
    <2>2. Highest(head)
      BY <2>1, HeadWhenRead
    <2> QED
      BY <1>6, <1>b, <1>c, <1>d, <1>f, <2>1, <2>2
         DEF RemoveLoad, ApplyLoad, EmptyLoad, Load, Types, CursorOk, SweeperOk,
             RemovingOk, DestroyingOk, Highest
  <1>7. CASE RemoveWalk(f)
    <2>1. op[f] = "remove" /\ cur[f] \in OrNull
      BY <1>7, <1>d DEF RemoveWalk, Sole, Nesting, MethodOfPC, FrameOk, CursorOk, WalkPCs
    <2>2. cur[f] # NULL => /\ cur[f] \in Linked /\ next[cur[f]] \in OrNull
                           /\ \A m \in Linked : m < cur[f] => m <= next[cur[f]]
      BY <2>1 DEF OrNull, Sole, SoleList, Sorted
    <2>3. node[f] \in Live => node[f] <= cur[f]
      BY <1>7, <1>d DEF RemoveWalk, FrameOk, RemovingOk
    <2>4. cur'[f] \in OrNull
      BY <1>7, <1>d, <2>1, <2>2 DEF RemoveWalk, Types
    <2>5. pc'[f] = "leave" => node[f] \notin Live'
      <3>1. CASE cur[f] = NULL
        <4> SUFFICES ASSUME node[f] \in Live PROVE FALSE
          BY <1>b
        <4>1. node[f] <= 0 /\ node[f] \in Linked
          BY <1>f, <2>3, <3>1
        <4>2. node[f] = 0
          BY <1>f, <4>1
        <4> QED
          BY <1>f, <4>1, <4>2
      <3>2. CASE cur[f] = node[f] /\ cur[f] # NULL
        BY <1>7, <3>2 DEF RemoveWalk, Live
      <3>3. CASE cur[f] # NULL /\ cur[f] # node[f]
        BY <1>7, <1>d, <3>3 DEF RemoveWalk, Types
      <3> QED
        BY <3>1, <3>2, <3>3
    <2>6. pc'[f] = "remove_walk" /\ node[f] \in Live => node[f] <= cur'[f]
      <3> SUFFICES ASSUME pc'[f] = "remove_walk", node[f] \in Live
                   PROVE  node[f] <= cur'[f]
        OBVIOUS
      <3>1. cur[f] # NULL /\ cur[f] # node[f] /\ cur'[f] = next[cur[f]]
        BY <1>7, <1>d DEF RemoveWalk, Types
      <3>2. node[f] \in Linked /\ node[f] < cur[f]
        BY <1>f, <2>2, <2>3, <3>1
      <3> QED
        BY <2>2, <3>1, <3>2
    <2> QED
      BY <1>7, <1>b, <1>c, <1>d, <2>1, <2>4, <2>5, <2>6
         DEF RemoveWalk, Types, CursorOk, SweeperOk, RemovingOk, DestroyingOk
  <1>8. CASE ApplyWalk(f) \/ ApplyCall(f) \/ ApplyReturn(f) \/ EmptyTest(f)
    <2>1. op[f] \in {"apply", "empty"} /\ cur[f] \in OrNull
      BY <1>8, <1>d DEF ApplyWalk, ApplyCall, ApplyReturn, EmptyTest, Sole, Nesting,
         MethodOfPC, FrameOk, CursorOk, WalkPCs
    <2>2. cur[f] # NULL => cur[f] \in Linked /\ next[cur[f]] \in OrNull
      BY <2>1 DEF OrNull, Sole, SoleList, Sorted
    <2>3. ApplyReturn(f) => cur[f] # NULL
      BY DEF ApplyReturn, Sole, Handshake, Dereferenced
    <2> QED
      BY <1>8, <1>c, <1>d, <2>1, <2>2, <2>3
         DEF ApplyWalk, ApplyCall, ApplyReturn, EmptyTest, Types, CursorOk, SweeperOk,
             RemovingOk, DestroyingOk, WalkPCs
  <1>9. CASE DestroyWalk(f)
    <2>1. op[f] = "destroy" /\ cur[f] \in OrNull
      BY <1>9, <1>d DEF DestroyWalk, Sole, Nesting, MethodOfPC, FrameOk, CursorOk, WalkPCs
    <2>2. cur[f] # NULL => /\ cur[f] \in Linked /\ next[cur[f]] \in OrNull
                           /\ \A m \in Linked : m < cur[f] => m <= next[cur[f]]
      BY <2>1 DEF OrNull, Sole, SoleList, Sorted
    <2>3. \A m \in Linked : m \in deleted \/ m <= cur[f]
      BY <1>9, <1>d, <2>1 DEF DestroyWalk, FrameOk, DestroyingOk
    <2>4. CASE cur[f] = NULL
      <3>1. Linked \subseteq deleted
        BY <1>f, <2>3, <2>4
      <3> QED
        BY <1>9, <1>b, <1>c, <1>d, <2>1, <2>4, <3>1
           DEF DestroyWalk, Types, CursorOk, SweeperOk, RemovingOk, DestroyingOk, WalkPCs
    <2>5. CASE cur[f] # NULL
      <3>1. /\ deleted' = deleted \cup {cur[f]} /\ cur'[f] = next[cur[f]]
            /\ pc'[f] = "destroy_walk" /\ op'[f] = op[f]
        BY <1>9, <1>d, <2>5 DEF DestroyWalk, Types
      <3>2. \A m \in Linked : m \in deleted' \/ m <= cur'[f]
        <4> SUFFICES ASSUME NEW m \in Linked, m # cur[f], m <= cur[f]
                     PROVE  m <= next[cur[f]]
          BY <2>3, <3>1
        <4>1. m < cur[f]
          BY <1>f, <2>2, <2>5
        <4> QED
          BY <2>2, <2>5, <4>1
      <3> QED
        BY <1>b, <1>c, <2>1, <2>2, <2>5, <3>1, <3>2
           DEF CursorOk, SweeperOk, RemovingOk, DestroyingOk
    <2> QED
      BY <2>4, <2>5
  <1>10. CASE GcEnter(f) \/ GcClaim(f)
    <2>1. op[f] = "destroy" => Linked \subseteq deleted
      BY <1>10, <1>d DEF GcEnter, GcClaim, FrameOk, DestroyingOk
    <2> QED
      BY <1>10, <1>b, <1>d, <1>g, <2>1
         DEF GcEnter, GcClaim, Types, CursorOk, SweeperOk, RemovingOk, DestroyingOk, WalkPCs
  <1>11. CASE GcLoad(f)
    <2>1. Highest(head)
      BY <1>11, HeadWhenRead DEF GcLoad
    <2>2. op[f] = "destroy" => Linked \subseteq deleted
      BY <1>11, <1>d DEF GcLoad, FrameOk, DestroyingOk
    <2> QED
      BY <1>11, <1>b, <1>c, <1>d, <1>g, <2>1, <2>2
         DEF GcLoad, Types, CursorOk, SweeperOk, RemovingOk, DestroyingOk, WalkPCs, Highest, OrNull
  <1>12. CASE GcTest(f)
    <2>1. prev[f] \in OrNull /\ (prev[f] = NULL => Highest(first[f]))
      BY <1>12, <1>d DEF GcTest, FrameOk, SweeperOk
    <2>2. op[f] = "destroy" => Linked \subseteq deleted /\ prev[f] = NULL
      BY <1>12, <1>d DEF GcTest, FrameOk, DestroyingOk
    <2>3. op[f] = "destroy" /\ pc'[f] = "gc_done" => Linked = {}
      <3> SUFFICES ASSUME op[f] = "destroy", pc'[f] = "gc_done", NEW m \in Linked
                   PROVE  FALSE
        OBVIOUS
      <3>1. block = 0
        BY DestroyUnhindered
      <3>2. Star(f) = NULL
        BY <1>12, <1>d, <3>1 DEF GcTest, Types
      <3>3. Highest(NULL)
        BY <2>1, <2>2, <3>2 DEF Star
      <3> QED
        BY <1>f, <3>3 DEF Highest
    <2> QED
      BY <1>12, <1>b, <1>c, <1>d, <1>g, <2>1, <2>2, <2>3
         DEF GcTest, Types, CursorOk, SweeperOk, RemovingOk, DestroyingOk, WalkPCs
  <1>13. CASE GcStep(f)
    <2>1. prev[f] \in OrNull /\ (prev[f] = NULL => Highest(first[f]))
      BY <1>13, <1>d DEF GcStep, FrameOk, SweeperOk
    <2>2. Star(f) \in Linked
      <3>1. Star(f) # NULL
        BY <1>13 DEF GcStep, Sole, Handshake, Dereferenced
      <3>2. Star(f) \in OrNull
        BY <1>f, <2>1 DEF Highest, Star, OrNull, Sole, SoleList, Sorted
      <3> QED
        BY <3>1, <3>2 DEF OrNull
    <2>3. op[f] # "destroy"
      <3>1. op[f] = "destroy" => Linked \subseteq deleted
        BY <1>13, <1>d DEF GcStep, FrameOk, DestroyingOk
      <3> QED
        BY <1>13, <2>2, <3>1
    <2>4. /\ prev'[f] = Star(f) /\ pc'[f] = "gc_test" /\ op'[f] = op[f] /\ Star(f) # NULL
      BY <1>13, <1>d, <1>f, <2>2 DEF GcStep, Types
    <2> QED
      BY <1>c, <2>2, <2>3, <2>4
         DEF CursorOk, SweeperOk, RemovingOk, DestroyingOk, WalkPCs, OrNull
  <1>14. CASE GcDone(f)
    BY <1>14, <1>d DEF GcDone, Types, CursorOk, SweeperOk, RemovingOk, DestroyingOk, WalkPCs
  <1> QED
    BY <1>1, <1>2, <1>3, <1>4, <1>5, <1>6, <1>7, <1>8, <1>9, <1>10, <1>11, <1>12,
       <1>13, <1>14 DEF Call, Step

\* insert() puts its node, which has the greatest id, before all the others.
LEMMA PublishSole ==
  ASSUME OneMutator, Sole, Handshake', Nesting', DestroyFreesAll', NEW f \in Frame,
         InsertCas(f), head = next[node[f]]
  PROVE  /\ SoleList'
         /\ node[f] \in Id /\ node[f] \notin Published /\ node[f] = last
         /\ Published' = Published \cup {node[f]}
         /\ Linked' = Linked \cup {node[f]}
  <1> USE DEF Sole, Handshake, Types, Goto, InsertCas
  <1>a. PICK n : n = node[f]
    OBVIOUS
  <1>1. /\ head' = n /\ next[n] = head /\ pc'[f] = "leave"
        /\ UNCHANGED <<next, deleted, freed, last, op, node, cur, first, prev>>
    BY <1>a
  <1>2. /\ IsNew(f) /\ Inside(f) /\ op[f] = "insert" /\ pc[f] # "gc_delete"
        /\ ~IsNew(f)' /\ pc'[f] # "gc_delete"
    BY <1>1 DEF IsNew, Inside, InsidePCs, Nesting, MethodOfPC
  <1>3. \A g \in Frame : g # f =>
          /\ pc'[g] = pc[g] /\ op[g] \notin {"insert", "remove", "destroy"}
          /\ ~IsNew(g) /\ pc[g] \notin GcPCs
    <2> SUFFICES ASSUME NEW g \in Frame, g # f
                 PROVE  /\ pc'[g] = pc[g] /\ op[g] \notin {"insert", "remove", "destroy"}
                        /\ ~IsNew(g) /\ pc[g] \notin GcPCs
      OBVIOUS
    <2>1. op[g] \notin {"insert", "remove", "destroy"}
      BY <1>2, NewAlone
    <2> QED
      BY <2>1, OthersStay DEF Step, Nesting, MethodOfPC, IsNew
  <1>4. n = last /\ n \in 1..last /\ n \in Id /\ last \in Nat
    <2>1. node[f] = last
      BY <1>2 DEF SoleList, FrameOk, NewIsLast
    <2>2. node[f] # NULL /\ node[f] \in Link
      BY DEF Dereferenced
    <2> QED
      BY <1>a, <2>1, <2>2, Numbers DEF Link, Id, NULL
  <1>5. Published = 1..last \ {n} /\ Published' = 1..last
    <2>1. Published = NotNew /\ Published' = NotNew'
      BY PublishedIs, PublishedIsNext DEF Nesting
    <2>2. \A g \in Frame : IsNew(g) <=> g = f
      BY <1>2, <1>3
    <2>3. \A g \in Frame : ~IsNew(g)'
      BY <1>1, <1>2, <1>3 DEF IsNew
    <2> QED
      BY <1>a, <1>1, <2>1, <2>2, <2>3 DEF NotNew
  <1>6. n \notin Unlinked /\ Unlinked' = Unlinked
    <2>1. Unlinked' = Unlinked
      BY <1>1, <1>2, <1>3 DEF Unlinked
    <2>2. \A g \in Frame : pc[g] # "gc_delete"
      BY <1>2, <1>3 DEF GcPCs
    <2>3. n \notin freed
      BY <1>5 DEF SoleList, UnlinkedAreDeleted
    <2> QED
      BY <2>1, <2>2, <2>3 DEF Unlinked
  <1>7. Linked' = Linked \cup {n} /\ Linked \subseteq 1..last /\ n \notin Linked
    BY <1>4, <1>5, <1>6 DEF Linked
  <1>8. OrNull \subseteq OrNull' /\ n \in OrNull'
    BY <1>7 DEF OrNull
  <1>9. Highest(head)
    BY <1>2, HeadWhenRead
  <1>10. \A m \in Linked : m \in Nat /\ m < n /\ 0 < m
    BY <1>4, <1>7
  <1>11. Sorted'
    <2> SUFFICES ASSUME NEW k \in Linked'
                 PROVE  /\ next[k] \in OrNull' /\ next[k] < k
                        /\ \A m \in Linked' : m < k => m <= next[k]
      BY <1>1 DEF Sorted
    <2>1. CASE k = n
      <3>1. head \in OrNull /\ \A m \in Linked : m <= head
        BY <1>9 DEF Highest
      <3>2. head < n
        BY <1>4, <1>10, <3>1 DEF OrNull, NULL
      <3>3. \A m \in Linked' : m < n => m <= head
        BY <1>4, <1>7, <3>1
      <3> QED
        BY <1>1, <1>8, <2>1, <3>1, <3>2, <3>3
    <2>2. CASE k \in Linked
      <3>1. next[k] \in OrNull /\ next[k] < k /\ \A m \in Linked : m < k => m <= next[k]
        BY <2>2 DEF SoleList, Sorted
      <3>2. ~(n < k)
        BY <1>4, <1>10, <2>2
      <3> QED
        BY <1>7, <1>8, <3>1, <3>2
    <2> QED
      BY <1>7, <2>1, <2>2
  <1>12. HeadIsHighest'
    <2>1. \A m \in Linked' : m <= n
      BY <1>4, <1>7, <1>10
    <2> QED
      BY <1>1, <1>8, <2>1 DEF HeadIsHighest, Highest
  <1>13. UnlinkedAreDeleted'
    BY <1>1, <1>5, <1>6 DEF SoleList, UnlinkedAreDeleted
  <1>14. ASSUME NEW g \in Frame PROVE FrameOk(g)'
    <2>0. FrameOk(g)
      BY DEF SoleList
    <2>1. CASE g = f
      BY <1>1, <1>2, <2>1 DEF FrameOk, CursorOk, SweeperOk, NewIsLast, RemovingOk,
         DestroyingOk, WalkPCs
    <2>2. CASE g # f
      <3>1. CursorOk(g)'
        BY <1>1, <1>3, <1>8, <2>0, <2>2 DEF FrameOk, CursorOk
      <3>2. SweeperOk(g)' /\ RemovingOk(g)' /\ DestroyingOk(g)' /\ NewIsLast(g)'
        <4>1. op'[g] \notin {"insert", "remove", "destroy"} /\ pc'[g] \notin GcPCs /\ ~IsNew(g)'
          BY <1>1, <1>3, <2>2 DEF IsNew
        <4>2. pc'[g] # "remove_walk"
          BY <4>1 DEF Nesting, MethodOfPC
        <4> QED
          BY <4>1, <4>2 DEF SweeperOk, RemovingOk, DestroyingOk, NewIsLast, GcPCs
      <3> QED
        BY <3>1, <3>2 DEF FrameOk
    <2> QED
      BY <2>1, <2>2
  <1>15. SoleList'
    BY <1>11, <1>12, <1>13, <1>14 DEF SoleList
  <1> QED
    BY <1>a, <1>4, <1>5, <1>7, <1>15

\* gc() and what it may disturb when it takes out the node d, deletes it or
\* stores head_: only its own frame stands in the list.
LEMMA SweepFrames ==
  ASSUME Sole, NEW f \in Frame, Step(f), pc[f] \in SweepPCs, pc'[f] \in GcPCs,
         UNCHANGED <<deleted, last, op, node>>, Published' = Published,
         SweeperOk(f)', DestroyingOk(f)', NEW g \in Frame
  PROVE  FrameOk(g)'
  <1> USE DEF Sole, Handshake, Types
  <1>0. FrameOk(g) /\ Live' = Live
    BY DEF SoleList, Live
  <1>1. CASE g = f
    BY <1>1 DEF FrameOk, CursorOk, NewIsLast, RemovingOk, WalkPCs, GcPCs, IsNew, Nesting,
       MethodOfPC
  <1>2. CASE g # f
    <2>1. /\ pc'[g] = pc[g] /\ pc[g] \notin WalkPCs \cup GcPCs \cup {"leave"}
          /\ op'[g] # "destroy" /\ op'[g] = op[g] /\ node'[g] = node[g]
      BY <1>2, SweepsAlone, OthersStay
    <2> QED
      BY <1>0, <2>1 DEF FrameOk, CursorOk, SweeperOk, NewIsLast, RemovingOk, DestroyingOk,
         WalkPCs, GcPCs, IsNew
  <1> QED
    BY <1>1, <1>2

\* While gc() sweeps, no insertion publishes its node.
LEMMA SweepPublished ==
  ASSUME Sole, Handshake', Nesting', NEW f \in Frame, Step(f), pc[f] \in SweepPCs,
         pc'[f] \in GcPCs, UNCHANGED <<last, op, node>>
  PROVE  Published' = Published
  <1>1. \A g \in Frame : IsNew(g)' <=> IsNew(g)
    BY OthersStay DEF Sole, Handshake, IsNew, SweepPCs, GcPCs, Nesting, MethodOfPC
  <1>2. Published = NotNew /\ Published' = NotNew'
    BY PublishedIs, PublishedIsNext DEF Sole, Nesting
  <1> QED
    BY <1>1, <1>2 DEF NotNew

\* gc() takes a node out; Star(f) is what pointed to the node.
LEMMA UnlinkSole ==
  ASSUME OneMutator, Sole, Handshake', Nesting', DestroyFreesAll', NEW f \in Frame,
         GcStep(f), Star(f) \in deleted
  PROVE  SoleList' /\ Published' = Published
  <1> USE DEF Sole, Handshake, Types, Goto
  <1>a. PICK d : d = Star(f)
    OBVIOUS
  <1>b. PICK p : p = prev[f]
    OBVIOUS
  <1>1. /\ pc[f] = "gc_step" /\ pc'[f] = "gc_delete" /\ cur'[f] = d /\ prev'[f] = p
        /\ UNCHANGED <<head, deleted, freed, last, op, node, prev>>
        /\ d # NULL /\ d \in deleted
    BY <1>a, <1>b DEF GcStep, Dereferenced
  <1>2. p \in OrNull /\ (p = NULL => Highest(first[f]))
    BY <1>b, <1>1 DEF SoleList, FrameOk, SweeperOk
  <1>3. d \in Linked /\ (p = NULL => Highest(d)) /\ (p # NULL => p \in Linked /\ next[p] = d)
    BY <1>a, <1>b, <1>1, <1>2 DEF Star, Highest, OrNull, SoleList, Sorted
  <1>4. /\ \A m \in Linked : m \in Nat /\ m \in Id /\ 0 < m
        /\ d \in Published \ freed
    <2>1. Published \subseteq 1..last /\ Linked \subseteq Published /\ Published \subseteq Id
      BY Numbers
    <2>2. \A m \in Linked : m \in 1..last /\ m \in Id
      BY <2>1
    <2> QED
      BY <1>3, <2>2 DEF Linked, Unlinked
  <1>5. Published' = Published
    BY <1>1, SweepPublished DEF Step, SweepPCs, GcPCs
  <1>6. \A g \in Frame : g # f => pc'[g] = pc[g] /\ cur'[g] = cur[g] /\ pc[g] \notin GcPCs
    BY <1>1, SweepsAlone, OthersStay DEF Step, SweepPCs
  <1>7. Unlinked' = Unlinked \cup {d}
    <2>1. \A g \in Frame : pc[g] # "gc_delete" /\ (pc'[g] = "gc_delete" <=> g = f)
      BY <1>1, <1>6 DEF GcPCs
    <2> QED
      BY <1>1, <2>1 DEF Unlinked
  <1>8. Linked' = Linked \ {d}
    BY <1>5, <1>7 DEF Linked
  <1>9. /\ next[d] \in OrNull /\ next[d] < d /\ next[d] # d /\ next[d] \in OrNull'
        /\ \A m \in Linked' : m < d => m <= next[d]
    <2>1. next[d] \in OrNull /\ next[d] < d /\ \A m \in Linked : m < d => m <= next[d]
      BY <1>3 DEF SoleList, Sorted
    <2>2. next[d] \in Nat /\ d \in Nat
      BY <1>3, <1>4, <2>1 DEF OrNull, NULL
    <2> QED
      BY <1>8, <2>1, <2>2 DEF OrNull
  <1>10. CASE p = NULL
    <2>1. first'[f] = next[d] /\ next' = next
      BY <1>a, <1>b, <1>10 DEF GcStep
    <2>2. \A m \in Linked : m <= d
      BY <1>3, <1>10 DEF Highest
    <2>3. Highest(next[d])'
      <3> SUFFICES \A m \in Linked' : m <= next[d]
        BY <1>9, <2>1 DEF Highest
      <3>1. \A m \in Linked' : m < d
        BY <1>3, <1>4, <1>8, <2>2
      <3> QED
        BY <1>9, <3>1
    <2>4. Sorted'
      <3> SUFFICES ASSUME NEW n \in Linked'
                   PROVE  /\ next[n] \in OrNull' /\ next[n] < n
                          /\ \A m \in Linked' : m < n => m <= next[n]
        BY <2>1 DEF Sorted
      <3>1. n \in Linked /\ next[n] \in OrNull /\ next[n] < n
            /\ \A m \in Linked : m < n => m <= next[n]
        BY <1>8 DEF SoleList, Sorted
      <3>2. next[n] # d
        BY <1>3, <1>4, <2>2, <3>1 DEF OrNull, NULL
      <3> QED
        BY <1>8, <3>1, <3>2 DEF OrNull
    <2>5. HeadIsHighest'
      BY <1>1, <1>10 DEF HeadIsHighest, Unlinking
    <2>6. SweeperOk(f)'
      BY <1>1, <1>4, <1>5, <1>10, <2>1, <2>3 DEF SweeperOk, OrNull
    <2>7. DestroyingOk(f)'
      BY <1>1, <1>8, <1>10 DEF DestroyingOk, SoleList, FrameOk
    <2>8. \A g \in Frame : FrameOk(g)'
      BY <1>1, <1>5, <2>6, <2>7, SweepFrames DEF Step, SweepPCs, GcPCs
    <2>9. UnlinkedAreDeleted'
      BY <1>1, <1>5, <1>7 DEF SoleList, UnlinkedAreDeleted
    <2> QED
      BY <1>5, <2>4, <2>5, <2>8, <2>9 DEF SoleList
  <1>11. CASE p # NULL
    <2>1. p \in Linked /\ next[p] = d /\ d < p /\ p # d
      BY <1>3, <1>4, <1>11 DEF SoleList, Sorted
    <2>2. first'[f] = first[f] /\ next' = [next EXCEPT ![p] = next[d]]
      BY <1>a, <1>b, <1>11 DEF GcStep
    <2>3. p \in Id /\ next'[p] = next[d] /\ \A n \in Linked : n # p => next'[n] = next[n]
      BY <1>4, <2>1, <2>2
    <2>4. Sorted'
      <3> SUFFICES ASSUME NEW n \in Linked'
                   PROVE  /\ next'[n] \in OrNull' /\ next'[n] < n
                          /\ \A m \in Linked' : m < n => m <= next'[n]
        BY DEF Sorted
      <3>1. n \in Linked /\ next[n] \in OrNull /\ next[n] < n
            /\ \A m \in Linked : m < n => m <= next[n]
        BY <1>8 DEF SoleList, Sorted
      <3>2. CASE n = p
        <4>1. next[d] \in Nat /\ d \in Nat /\ p \in Nat
          BY <1>3, <1>4, <1>9, <2>1 DEF OrNull, NULL
        <4>2. next[d] < p
          BY <1>9, <2>1, <4>1
        <4>3. \A m \in Linked' : m < p => m <= next[d]
          <5> SUFFICES ASSUME NEW m \in Linked', m < p PROVE m <= next[d]
            OBVIOUS
          <5>1. m \in Linked /\ m # d /\ m <= d
            BY <1>8, <2>1, <3>1, <3>2
          <5>2. m < d
            BY <1>4, <4>1, <5>1
          <5> QED
            BY <1>9, <5>2
        <4> QED
          BY <1>9, <2>3, <3>2, <4>2, <4>3
      <3>3. CASE n # p
        <4>1. next[n] # d
          <5> SUFFICES ASSUME next[n] = d PROVE FALSE
            OBVIOUS
          <5>1. n \in Nat /\ p \in Nat /\ d \in Nat
            BY <1>3, <1>4, <2>1, <3>1
          <5>2. CASE n < p
            <6>1. n <= d
              BY <2>1, <3>1, <5>2 DEF SoleList, Sorted
            <6> QED
              BY <3>1, <5>1, <6>1
          <5>3. CASE p < n
            <6>1. p <= d
              BY <2>1, <3>1, <5>3
            <6> QED
              BY <2>1, <5>1, <6>1
          <5> QED
            BY <3>3, <5>1, <5>2, <5>3
        <4> QED
          BY <1>8, <2>3, <3>1, <3>3, <4>1 DEF OrNull
      <3> QED
        BY <3>2, <3>3
    <2>5. HeadIsHighest'
      <3>1. \A g \in Frame : ~Unlinking(g)
        BY <1>b, <1>1, <1>6, <1>11 DEF Unlinking, GcPCs
      <3>2. Highest(head)
        BY <3>1 DEF SoleList, HeadIsHighest
      <3>3. head \in OrNull /\ p <= head /\ \A m \in Linked : m <= head
        BY <2>1, <3>2 DEF Highest
      <3>4. head # d
        BY <1>3, <1>4, <2>1, <3>3
      <3> QED
        BY <1>1, <1>8, <3>3, <3>4 DEF HeadIsHighest, Highest, OrNull
    <2>6. SweeperOk(f)'
      BY <1>1, <1>4, <1>5, <1>8, <1>11, <2>1 DEF SweeperOk, OrNull
    <2>7. DestroyingOk(f)'
      BY <1>b, <1>1, <1>11 DEF DestroyingOk, SoleList, FrameOk
    <2>8. \A g \in Frame : FrameOk(g)'
      BY <1>1, <1>5, <2>6, <2>7, SweepFrames DEF Step, SweepPCs, GcPCs
    <2>9. UnlinkedAreDeleted'
      BY <1>1, <1>5, <1>7 DEF SoleList, UnlinkedAreDeleted
    <2> QED
      BY <1>5, <2>4, <2>5, <2>8, <2>9 DEF SoleList
  <1> QED
    BY <1>10, <1>11

\* delete d, and the store to head_ that follows it.
LEMMA DeleteSole ==
  ASSUME OneMutator, Sole, Handshake', Nesting', DestroyFreesAll', NEW f \in Frame,
         GcDelete(f) \/ GcStore(f)
  PROVE  SoleList' /\ Published' = Published
  <1> USE DEF Sole, Handshake, Types, Goto
  <1>1. /\ pc[f] \in {"gc_delete", "gc_store"} /\ pc'[f] \in {"gc_store", "gc_test"}
        /\ UNCHANGED <<next, deleted, last, op, node, cur, first, prev>>
    BY DEF GcDelete, GcStore
  <1>2. Published' = Published
    BY <1>1, SweepPublished DEF Step, SweepPCs, GcPCs
  <1>3. \A g \in Frame : g # f => pc'[g] = pc[g] /\ pc[g] \notin GcPCs
    BY <1>1, SweepsAlone, OthersStay DEF Step, SweepPCs
  <1>4. Unlinked' = Unlinked
    <2>1. CASE GcDelete(f)
      <3>1. \A g \in Frame : pc'[g] # "gc_delete" /\ (pc[g] = "gc_delete" <=> g = f)
        BY <1>1, <1>3, <2>1 DEF GcPCs, GcDelete
      <3> QED
        BY <2>1, <3>1 DEF Unlinked, GcDelete
    <2>2. CASE GcStore(f)
      <3>1. \A g \in Frame : pc'[g] # "gc_delete" /\ pc[g] # "gc_delete"
        BY <1>1, <1>3, <2>2 DEF GcPCs, GcStore
      <3> QED
        BY <2>2, <3>1 DEF Unlinked, GcStore
    <2> QED
      BY <2>1, <2>2
  <1>5. Linked' = Linked
    BY <1>2, <1>4 DEF Linked
  <1>6. OrNull' = OrNull /\ \A x : Highest(x)' <=> Highest(x)
    BY <1>5 DEF OrNull, Highest
  <1>7. Sorted'
    BY <1>1, <1>5, <1>6 DEF SoleList, Sorted
  <1>8. prev[f] \in OrNull /\ (prev[f] = NULL => Highest(first[f]))
    BY <1>1 DEF SoleList, FrameOk, SweeperOk
  <1>9. HeadIsHighest'
    <2>1. CASE GcDelete(f)
      <3>1. \A g \in Frame : Unlinking(g)' <=> Unlinking(g)
        BY <1>1, <1>3, <2>1 DEF GcDelete, Unlinking
      <3> QED
        BY <1>6, <2>1, <3>1 DEF GcDelete, HeadIsHighest, SoleList
    <2>2. CASE GcStore(f) /\ prev[f] = NULL
      BY <1>6, <1>8, <2>2 DEF GcStore, HeadIsHighest
    <2>3. CASE GcStore(f) /\ prev[f] # NULL
      <3>1. \A g \in Frame : ~Unlinking(g)
        BY <1>3, <2>3 DEF Unlinking, GcPCs
      <3> QED
        BY <1>6, <2>3, <3>1 DEF GcStore, HeadIsHighest, SoleList
    <2> QED
      BY <2>1, <2>2, <2>3
  <1>10. SweeperOk(f)'
    BY <1>1, <1>6, <1>8 DEF SweeperOk
  <1>11. DestroyingOk(f)'
    BY <1>1, <1>5 DEF DestroyingOk, SoleList, FrameOk
  <1>12. \A g \in Frame : FrameOk(g)'
    BY <1>1, <1>2, <1>10, <1>11, SweepFrames DEF Step, SweepPCs, GcPCs
  <1>13. UnlinkedAreDeleted'
    <2>1. freed' \subseteq Published
      BY DEF GcDelete, GcStore, SoleList, FrameOk, SweeperOk, UnlinkedAreDeleted
    <2> QED
      BY <1>1, <1>2, <1>4, <2>1 DEF SoleList, UnlinkedAreDeleted
  <1> QED
    BY <1>2, <1>7, <1>9, <1>12, <1>13 DEF SoleList

LEMMA SoleInit == Init => Sole
  <1> SUFFICES ASSUME Init PROVE Sole
    OBVIOUS
  <1>1. Linked = {} /\ Unlinked = {}
    BY DEF Init, Linked, Published, Unlinked
  <1>2. SoleList
    BY <1>1 DEF Init, SoleList, Sorted, HeadIsHighest, Highest, OrNull, UnlinkedAreDeleted,
       DestroyFreesAll, FrameOk, CursorOk, WalkPCs, SweeperOk, NewIsLast, IsNew, RemovingOk,
       DestroyingOk
  <1> QED
    BY <1>2, HandshakeInit, NestingInit DEF Sole

LEMMA SoleStep == OneMutator /\ Sole /\ [Next]_vars => Sole'
  <1> SUFFICES ASSUME OneMutator, Sole, [Next]_vars PROVE Sole'
    OBVIOUS
  <1>1. Handshake' /\ Nesting'
    BY HandshakeStep, NestingStep DEF Sole
  <1>2. CASE UNCHANGED vars
    <2>1. Published' = Published /\ Unlinked' = Unlinked
      BY <1>2 DEF vars, Published, Unlinked
    <2>2. Linked' = Linked
      BY <2>1 DEF Linked
    <2>3. OrNull' = OrNull /\ \A x : Highest(x)' <=> Highest(x)
      BY <2>2 DEF OrNull, Highest
    <2>4. Sorted' /\ HeadIsHighest' /\ UnlinkedAreDeleted' /\ DestroyFreesAll'
      BY <1>2, <2>1, <2>2, <2>3 DEF vars, Sole, SoleList, Sorted, HeadIsHighest, Unlinking,
         UnlinkedAreDeleted, DestroyFreesAll
    <2>5. ASSUME NEW f \in Frame PROVE FrameOk(f)'
      BY <1>2, <2>1, <2>2, <2>3 DEF vars, Sole, SoleList, FrameOk, CursorOk, SweeperOk,
         NewIsLast, IsNew, RemovingOk, Live, DestroyingOk
    <2> QED
      BY <1>1, <2>4, <2>5 DEF Sole, SoleList
  <1>3. ASSUME NEW f \in Frame, Call(f) \/ Step(f) PROVE Sole'
    <2>1. DestroyFreesAll'
      BY <1>3, DestroyFreesAllStep
    <2>2. CASE ~Changes(f)
      BY <1>1, <1>3, <2>1, <2>2, StillUnlessChanges, FrameOkStep, StillStep DEF Sole
    <2>3. CASE Changes(f)
      BY <1>1, <2>1, <2>3, PublishSole, UnlinkSole, DeleteSole DEF Changes, Sole
    <2> QED
      BY <2>2, <2>3
  <1> QED
    BY <1>2, <1>3 DEF Next, Terminated

LEMMA SoleHolds ==
  ASSUME OneMutator
  PROVE  Spec => []Sole
  <1>1. Sole /\ [Next]_vars => Sole'
    BY SoleStep
  <1> QED
    BY <1>1, SoleInit, PTL DEF Spec

\* A remove() that names an element leaves it removed when it returns from its
\* walk, although gc() of the same thread and the walks of the others go on.
THEOREM RemoveTakesEffectHolds ==
  ASSUME OneMutator
  PROVE  Spec => []RemoveTakesEffect
  <1>1. Sole => RemoveTakesEffect
    BY DEF Sole, SoleList, FrameOk, RemovingOk, RemoveTakesEffect
  <1> QED
    BY <1>1, SoleHolds, PTL

\* The destructor of the collection leaks no element.
THEOREM DestroyFreesAllHolds ==
  ASSUME OneMutator
  PROVE  Spec => []DestroyFreesAll
  <1>1. Sole => DestroyFreesAll
    BY DEF Sole, SoleList
  <1> QED
    BY <1>1, SoleHolds, PTL

-----------------------------------------------------------------------------
(***************************************************************************)
(* What can be reached from a node.                                        *)
(***************************************************************************)
\* Reach is well defined whatever the shape of the list, even on a cycle: the
\* nodes in every set that holds n and is closed under next are a solution.
LEMMA ReachEquation ==
  ASSUME next \in [Id -> Link]
  PROVE  \A n \in Link : Reach[n] = IF n = NULL THEN {} ELSE {n} \cup Reach[next[n]]
  <1> DEFINE Closed(S) == \A k \in S : next[k] = NULL \/ next[k] \in S
             Down(n) == {m \in Id : \A S \in SUBSET Id :
                           Closed(S) /\ (n = NULL \/ n \in S) => m \in S}
             g == [n \in Link |-> Down(n)]
  <1>0. \A n \in Id : next[n] \in Link /\ n \in Link
    BY DEF Link
  <1>1. Down(NULL) = {}
    <2>1. {} \in SUBSET Id /\ Closed({})
      OBVIOUS
    <2> QED
      BY <2>1
  <1>2. ASSUME NEW n \in Id PROVE Down(n) = {n} \cup Down(next[n])
    <2> DEFINE T == {n} \cup Down(next[n])
    <2>1. T \in SUBSET Id
      OBVIOUS
    <2>2. Closed(T)
      <3> SUFFICES ASSUME NEW k \in T, next[k] # NULL PROVE next[k] \in T
        OBVIOUS
      <3>1. next[k] \in Id
        BY <1>0, <2>1 DEF Link
      <3>2. CASE k = n
        BY <3>1, <3>2
      <3>3. CASE k \in Down(next[n])
        BY <3>1, <3>3
      <3> QED
        BY <3>2, <3>3
    <2>3. Down(n) \subseteq T
      BY <2>1, <2>2
    <2>4. n # NULL
      BY DEF Id, NULL
    <2>5. T \subseteq Down(n)
      <3> SUFFICES ASSUME NEW m \in T, NEW S \in SUBSET Id, Closed(S), n \in S
                   PROVE  m \in S
        BY <2>1, <2>4
      <3>1. next[n] = NULL \/ next[n] \in S
        OBVIOUS
      <3> QED
        BY <3>1
    <2> QED
      BY <2>3, <2>5
  <1> HIDE DEF Down
  <1>3. g = [n \in Link |-> IF n = NULL THEN {} ELSE {n} \cup g[next[n]]]
    <2>1. \A n \in Link : n # NULL => n \in Id
      BY DEF Link
    <2>2. \A n \in Link : g[n] = IF n = NULL THEN {} ELSE {n} \cup g[next[n]]
      BY <1>0, <1>1, <1>2, <2>1
    <2> QED
      BY <2>2
  <1>4. \E r : r = [n \in Link |-> IF n = NULL THEN {} ELSE {n} \cup r[next[n]]]
    BY <1>3
  <1>5. Reach = [n \in Link |-> IF n = NULL THEN {} ELSE {n} \cup Reach[next[n]]]
    BY <1>4 DEF Reach
  <1> QED
    BY <1>5

\* A set of numbers has a least element.
LEMMA LeastNumber ==
  ASSUME NEW S \in SUBSET Nat, S # {}
  PROVE  \E n \in S : \A m \in S : n <= m
  <1>1. PICK n \in S : \A m \in S : ~(<<m, n>> \in OpToRel(<, Nat))
    BY NatLessThanWellFounded, WFMin
  <1>2. \A m \in S : ~(m < n)
    BY <1>1 DEF OpToRel
  <1> QED
    BY <1>2

\* In a sorted list, what can be reached from a node is what is not higher.
LEMMA ReachIsBelow ==
  ASSUME Sole
  PROVE  \A n \in OrNull : Reach[n] = {m \in Linked : m <= n}
  <1> DEFINE Wrong == {n \in OrNull : Reach[n] # {m \in Linked : m <= n}}
  <1>0. /\ \A m \in Linked : m \in Nat /\ m \in Id /\ 0 < m
        /\ OrNull \subseteq Link /\ Wrong \in SUBSET Nat /\ NULL = 0 /\ NULL \in Link
    <2>1. Published \subseteq 1..last /\ Linked \subseteq Published /\ Published \subseteq Id
      BY Numbers
    <2>2. \A m \in Linked : m \in 1..last /\ m \in Id
      BY <2>1
    <2> QED
      BY <2>2 DEF OrNull, Link, NULL
  <1>1. SUFFICES ASSUME Wrong # {} PROVE FALSE
    OBVIOUS
  <1>2. PICK n \in Wrong : \A m \in Wrong : n <= m
    BY <1>0, <1>1, LeastNumber
  <1>3. \A k \in Link : Reach[k] = IF k = NULL THEN {} ELSE {k} \cup Reach[next[k]]
    BY ReachEquation DEF Sole, Handshake, Types
  <1>4. CASE n = NULL
    <2>1. {m \in Linked : m <= n} = {}
      BY <1>0, <1>4
    <2> QED
      BY <1>0, <1>3, <1>4, <2>1
  <1>5. CASE n # NULL
    <2>1. n \in Linked /\ n \in Nat
      BY <1>0, <1>5 DEF OrNull
    <2>2. next[n] \in OrNull /\ next[n] < n /\ \A m \in Linked : m < n => m <= next[n]
      BY <2>1 DEF Sole, SoleList, Sorted
    <2>3. next[n] \in Nat
      BY <1>0, <2>2 DEF OrNull
    <2>4. next[n] \notin Wrong
      BY <1>2, <2>1, <2>2, <2>3
    <2>5. Reach[n] = {n} \cup {m \in Linked : m <= next[n]}
      BY <1>0, <1>3, <1>5, <2>2, <2>4
    <2>6. \A m \in Linked : m <= n <=> m = n \/ m <= next[n]
      BY <1>0, <2>1, <2>2, <2>3
    <2>7. {n} \cup {m \in Linked : m <= next[n]} = {m \in Linked : m <= n}
      BY <2>1, <2>6
    <2> QED
      BY <2>5, <2>7
  <1> QED
    BY <1>4, <1>5

\* While head_ still points to a node that gc() has taken out, that node leads
\* to the rest of the list.
HeadLeadsOn ==
  \A f \in Frame : Unlinking(f) => head \in Id /\ next[head] = first[f]

LEMMA HeadLeadsOnStep ==
  ASSUME Sole, HeadLeadsOn, NEW g \in Frame, Call(g) \/ Step(g)
  PROVE  HeadLeadsOn'
  <1> USE DEF Sole, Handshake, Types, Goto, Return, Begin, Finish, shared
  <1> SUFFICES ASSUME NEW f \in Frame, Unlinking(f)'
               PROVE  head' \in Id /\ next'[head'] = first'[f]
    BY DEF HeadLeadsOn
  <1>1. CASE g # f
    <2>1. Unlinking(f) /\ first'[f] = first[f]
      BY <1>1, OthersStay DEF Unlinking
    <2>2. pc[g] \notin InsidePCs \cup GcPCs
      BY <1>1, <2>1 DEF SweepExcludesReaders, SweepPCs, Inside, GcAlone, GcPCs, Unlinking
    <2>3. head' = head /\ next' = next
      <3>1. CASE Call(g)
        BY <3>1 DEF Call, Insert, Apply, Empty, Destroy, Remove
      <3>2. CASE Step(g)
        BY <2>2, <3>2 DEF Step, Enter, Spin, Leave, InsertLoad, InsertCas, RemoveLoad,
           ApplyLoad, EmptyLoad, Load, RemoveWalk, DestroyWalk, ApplyWalk, ApplyCall,
           ApplyReturn, EmptyTest, GcEnter, GcClaim, GcLoad, GcTest, GcStep, GcDelete,
           GcStore, GcDone, InsidePCs, GcPCs
      <3> QED
        BY <3>1, <3>2
    <2> QED
      BY <2>1, <2>3 DEF HeadLeadsOn
  <1>2. CASE g = f /\ ~Changes(g)
    BY <1>2, StillUnlessChanges DEF Still
  <1>3. CASE g = f /\ (GcDelete(g) \/ GcStore(g) \/ InsertCas(g))
    BY <1>3 DEF GcDelete, GcStore, InsertCas, Unlinking, HeadLeadsOn
  <1>4. CASE g = f /\ GcStep(g) /\ Star(g) \in deleted
    <2>1. prev[f] = NULL /\ first'[f] = next[first[f]] /\ UNCHANGED <<head, next>>
          /\ pc[f] = "gc_step" /\ first[f] # NULL
      BY <1>4 DEF GcStep, Star, Unlinking, Dereferenced
    <2>2. Highest(first[f])
      BY <2>1 DEF SoleList, FrameOk, SweeperOk
    <2>3. Highest(head)
      <3>1. \A h \in Frame : ~Unlinking(h)
        BY <2>1 DEF Unlinking, GcAlone, GcPCs
      <3> QED
        BY <3>1 DEF SoleList, HeadIsHighest
    <2>4. head = first[f]
      <3>1. \A m \in OrNull : m \in Nat
        BY Numbers DEF OrNull
      <3>2. first[f] \in Linked /\ head # NULL
        BY <2>1, <2>2, <2>3, Numbers DEF Highest, OrNull
      <3> QED
        BY <2>2, <2>3, <3>1, <3>2 DEF Highest, OrNull
    <2> QED
      BY <2>1, <2>4 DEF Link
  <1> QED
    BY <1>1, <1>2, <1>3, <1>4 DEF Changes

\* Nothing is lost: also while head_ points to a node that gc() has taken out,
\* what is subscribed can be reached from it.
THEOREM NoLostElementHolds ==
  ASSUME OneMutator
  PROVE  Spec => []NoLostElement
  <1>1. Init => HeadLeadsOn
    BY DEF Init, HeadLeadsOn, Unlinking
  <1>2. Sole /\ HeadLeadsOn /\ [Next]_vars => HeadLeadsOn'
    <2> SUFFICES ASSUME Sole, HeadLeadsOn, [Next]_vars PROVE HeadLeadsOn'
      OBVIOUS
    <2>1. CASE UNCHANGED vars
      BY <2>1 DEF vars, HeadLeadsOn, Unlinking
    <2>2. ASSUME NEW f \in Frame, Call(f) \/ Step(f) PROVE HeadLeadsOn'
      BY <2>2, HeadLeadsOnStep
    <2> QED
      BY <2>1, <2>2 DEF Next, Terminated
  <1>3. Sole /\ HeadLeadsOn => NoLostElement
    <2> SUFFICES ASSUME Sole, HeadLeadsOn PROVE Live \subseteq Reach[head]
      BY DEF NoLostElement
    <2>1. ASSUME NEW x, Highest(x) PROVE Live \subseteq Reach[x]
      <3>1. Reach[x] = {m \in Linked : m <= x} /\ \A m \in Linked : m <= x
        BY <2>1, ReachIsBelow DEF Highest
      <3> QED
        BY <3>1, Numbers
    <2>2. CASE \A f \in Frame : ~Unlinking(f)
      BY <2>1, <2>2 DEF Sole, SoleList, HeadIsHighest
    <2>3. ASSUME NEW f \in Frame, Unlinking(f) PROVE Live \subseteq Reach[head]
      <3>1. head \in Id /\ next[head] = first[f] /\ head # NULL
        BY <2>3 DEF HeadLeadsOn, Id, NULL
      <3>2. Reach[head] = {head} \cup Reach[first[f]]
        BY <3>1, ReachEquation DEF Sole, Handshake, Types, Link
      <3>3. Highest(first[f])
        BY <2>3 DEF Sole, SoleList, FrameOk, SweeperOk, Unlinking
      <3> QED
        BY <2>1, <3>2, <3>3
    <2> QED
      BY <2>2, <2>3
  <1> QED
    BY <1>1, <1>2, <1>3, SoleHolds, PTL DEF Spec
=============================================================================
