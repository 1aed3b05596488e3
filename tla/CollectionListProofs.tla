------------------------ MODULE CollectionListProofs ------------------------
(***************************************************************************)
(* No method of the collection touches a deleted node: the shape of the    *)
(* list, on top of the handshake that CollectionProofs establishes.        *)
(*                                                                         *)
(* The list may lose nodes (an insertion that races with gc()), so the     *)
(* invariant does not describe everything reachable from head_.  It says   *)
(* that there is a set R of nodes, all alive, that is closed under next    *)
(* and that holds every pointer anybody is about to follow.                *)
(***************************************************************************)
EXTENDS CollectionProofs

\* The nodes of R form chains that end, and no two of them share a successor.
Chain(R, rank) ==
  /\ R \cap freed = {}
  /\ \A n \in R : next[n] # NULL => next[n] \in R /\ rank[next[n]] < rank[n]
  /\ \A m, n \in R : next[m] = next[n] /\ next[m] # NULL => m = n

In(R, x)  == x = NULL \/ x \in R

\* x starts a chain of R.
Top(R, x) == In(R, x) /\ \A n \in R : x # NULL => next[n] # x

\* gc() has taken the first node out and has not written head_ yet.
Unlinking(f) == pc[f] \in {"gc_delete", "gc_store"} /\ prev[f] = NULL

HeadOk(R) == (\A f \in Frame : ~Unlinking(f)) => Top(R, head)

WalkPCs == {"remove_walk", "apply_walk", "apply_call", "apply_run",
            "empty_test", "destroy_walk"}

Cursors(R) == \A f \in Frame : pc[f] \in WalkPCs => In(R, cur[f])

Sweeper(R) ==
  \A f \in Frame :
    /\ pc[f] \in {"gc_test", "gc_step", "gc_delete", "gc_store"} =>
         In(R, prev[f]) /\ (prev[f] = NULL => In(R, first[f]))
    /\ Unlinking(f) => Top(R, first[f])
    /\ pc[f] = "gc_delete" => cur[f] \in (1..last) \ (R \cup freed)

\* The frame has a new node that is not in the list yet.
IsNew(f) ==
  \/ op[f] = "insert" /\ pc[f] \in {"enter", "spin"}
  \/ pc[f] \in {"insert_load", "insert_cas"}

Private(R) ==
  \A f \in Frame : IsNew(f) =>
    /\ node[f] \in (1..last) \ (R \cup freed)
    /\ \A g \in Frame : IsNew(g) /\ node[g] = node[f] => g = f
    /\ \A g \in Frame : pc[g] = "gc_delete" => cur[g] # node[f]

DestroyAlone ==
  \A f \in Frame :
    /\ pc[f] = "destroy_walk" => op[f] = "destroy"
    /\ op[f] = "destroy" => \A g \in Frame : g # f => pc[g] = "idle"

List(R, rank) ==
  /\ R \subseteq 1..last /\ freed \subseteq 1..last
  /\ Chain(R, rank) /\ HeadOk(R) /\ Cursors(R) /\ Sweeper(R) /\ Private(R)
  /\ DestroyAlone

ListShape == \E R \in SUBSET Id : \E rank \in [Id -> Nat] : List(R, rank)
-----------------------------------------------------------------------------
LEMMA ListInit == Init => ListShape
  <1> SUFFICES ASSUME Init PROVE ListShape
    OBVIOUS
  <1> DEFINE rank == [n \in Id |-> 0]
  <1>1. List({}, rank)
    BY DEF Init, List, Chain, HeadOk, Top, In, Cursors, WalkPCs, Sweeper,
       Unlinking, Private, IsNew, DestroyAlone
  <1>2. rank \in [Id -> Nat]
    OBVIOUS
  <1> QED
    BY <1>1, <1>2 DEF ListShape

\* What ListShape is for: what a frame touches is NULL or in R, or is a node
\* that only this frame knows.
LEMMA ListIsSafe == Handshake /\ ListShape => NoUseAfterFree
  <1> SUFFICES ASSUME Handshake, NEW R \in SUBSET Id, NEW rank \in [Id -> Nat],
                      List(R, rank), NEW f \in Frame
               PROVE  Touches(f) \cap freed = {}
    BY DEF ListShape, NoUseAfterFree
  <1>1. NULL \notin freed
    BY DEF List, NULL
  <1>2. \A x : In(R, x) => x \notin freed
    BY <1>1 DEF List, Chain, In
  <1>3. CASE pc[f] \in {"insert_load", "insert_cas"}
    BY <1>3 DEF Touches, List, Private, IsNew
  <1>4. CASE pc[f] \in WalkPCs
    BY <1>2, <1>4 DEF Touches, List, Cursors, WalkPCs
  <1>5. CASE pc[f] = "gc_delete"
    BY <1>5 DEF Touches, List, Sweeper
  <1>6. CASE pc[f] \in {"gc_test", "gc_step"}
    <2>1. In(R, prev[f]) /\ In(R, Star(f))
      BY <1>6 DEF List, Sweeper, Chain, Star, In
    <2> QED
      BY <1>2, <1>6, <2>1 DEF Touches
  <1> QED
    BY <1>3, <1>4, <1>5, <1>6 DEF Touches, WalkPCs

\* Steps that change neither the list nor the frame's hold on it.
Quiet(R, f) ==
  /\ UNCHANGED <<head, next, freed>>
  /\ last' \in Nat /\ last <= last'
  /\ pc[f] \notin {"gc_delete", "gc_store"} /\ pc'[f] \notin {"gc_delete", "gc_store"}
  /\ pc'[f] \in WalkPCs => In(R, cur'[f])
  /\ pc'[f] \in {"gc_test", "gc_step"} =>
       In(R, prev'[f]) /\ (prev'[f] = NULL => In(R, first'[f]))
  /\ IsNew(f)' => \/ IsNew(f) /\ node'[f] = node[f]
                  \/ node'[f] = last' /\ last' = last + 1

LEMMA QuietStep ==
  ASSUME Handshake, NEW R \in SUBSET Id, NEW rank \in [Id -> Nat], List(R, rank),
         NEW f \in Frame, Call(f) \/ Step(f), Quiet(R, f), DestroyAlone'
  PROVE  List(R, rank)'
  <1> USE DEF Handshake, Types, List, Quiet
  <1>1. (R \subseteq 1..last)' /\ (freed \subseteq 1..last)'
    OBVIOUS
  <1>2. Chain(R, rank)'
    BY DEF Chain
  <1>3. \A g \in Frame : Unlinking(g)' <=> Unlinking(g)
    BY OthersStay DEF Unlinking
  <1>4. HeadOk(R)'
    BY <1>3 DEF HeadOk, Top, In
  <1>5. Cursors(R)'
    BY OthersStay DEF Cursors, In, WalkPCs
  <1>6. Sweeper(R)'
    BY <1>3, OthersStay DEF Sweeper, In, Top, Unlinking
  <1>7. Private(R)'
    <2>1. \A g \in Frame : g # f => (IsNew(g)' <=> IsNew(g)) /\ node'[g] = node[g]
      BY OthersStay DEF IsNew
    <2>2. \A g \in Frame : pc'[g] = "gc_delete" => pc[g] = "gc_delete" /\ cur'[g] = cur[g] /\ cur[g] \in 1..last
      BY OthersStay DEF Sweeper
    <2> QED
      BY <2>1, <2>2 DEF Private
  <1> QED
    BY <1>1, <1>2, <1>4, <1>5, <1>6, <1>7

\* The owner runs ~collection() alone: nobody else is inside, or enters.
LEMMA DestroyAloneStep ==
  ASSUME Handshake, DestroyAlone, NEW f \in Frame, Call(f) \/ Step(f)
  PROVE  DestroyAlone'
  <1> USE DEF Handshake, Types, Goto, Return, Begin, Finish, shared
  <1>1. \A g \in Frame : op[g] = "destroy" => g = f \/ pc[f] = "idle"
    BY DEF DestroyAlone
  <1>2. CASE Destroy(f)
    BY <1>2, OthersStay DEF Destroy, Dying, DestroyAlone
  <1>3. CASE Call(f) /\ ~Destroy(f)
    <2>1. \A g \in Frame : op[g] # "destroy"
      BY <1>3 DEF Call, Insert, Apply, Empty, Remove, CanCall, CanCallFromDtor, Dying
    <2>2. op'[f] # "destroy" /\ pc'[f] # "destroy_walk"
      BY <1>3 DEF Call, Insert, Apply, Empty, Remove
    <2> QED
      BY <2>1, <2>2, OthersStay DEF DestroyAlone
  <1>4. CASE Step(f)
    <2> SUFFICES /\ pc[f] # "idle"
                 /\ op'[f] = "destroy" => op[f] = "destroy"
                 /\ pc'[f] = "destroy_walk" => pc[f] = "destroy_walk" /\ op'[f] = op[f]
      BY <1>1, OthersStay DEF DestroyAlone
    <2>1. CASE Enter(f) \/ Spin(f) \/ Leave(f) \/ InsertLoad(f) \/ InsertCas(f)
      BY <2>1 DEF Enter, Spin, Leave, InsertLoad, InsertCas, Body, Ops
    <2>2. CASE RemoveLoad(f) \/ ApplyLoad(f) \/ EmptyLoad(f) \/ RemoveWalk(f) \/ DestroyWalk(f)
      BY <2>2 DEF RemoveLoad, ApplyLoad, EmptyLoad, Load, RemoveWalk, DestroyWalk
    <2>3. CASE ApplyWalk(f) \/ ApplyCall(f) \/ ApplyReturn(f) \/ EmptyTest(f)
      BY <2>3 DEF ApplyWalk, ApplyCall, ApplyReturn, EmptyTest
    <2>4. CASE GcEnter(f) \/ GcClaim(f) \/ GcLoad(f) \/ GcTest(f)
      BY <2>4 DEF GcEnter, GcClaim, GcLoad, GcTest
    <2>5. CASE GcStep(f) \/ GcDelete(f) \/ GcStore(f) \/ GcDone(f)
      BY <2>5 DEF GcStep, GcDelete, GcStore, GcDone
    <2> QED
      BY <1>4, <2>1, <2>2, <2>3, <2>4, <2>5 DEF Step
  <1> QED
    BY <1>2, <1>3, <1>4

\* While a frame reads head_ for a walk or a compare_exchange, head_ is good.
LEMMA HeadIsTop ==
  ASSUME Handshake, NEW R \in SUBSET Id, NEW rank \in [Id -> Nat], List(R, rank),
         NEW f \in Frame,
         \/ Inside(f)
         \/ pc[f] = "gc_load"
         \/ \A g \in Frame : pc[g] = "idle"
  PROVE  Top(R, head)
  <1> SUFFICES \A g \in Frame : ~Unlinking(g)
    BY DEF List, HeadOk
  <1>1. CASE Inside(f)
    BY <1>1 DEF Handshake, SweepExcludesReaders, SweepPCs, Unlinking
  <1>2. CASE pc[f] = "gc_load"
    BY <1>2 DEF Handshake, GcAlone, GcPCs, Unlinking
  <1>3. CASE \A g \in Frame : pc[g] = "idle"
    BY <1>3 DEF Unlinking
  <1> QED
    BY <1>1, <1>2, <1>3

\* insert() writes the next field of a node that nobody else knows.
LEMMA NextOfNewNode ==
  ASSUME Handshake, NEW R \in SUBSET Id, NEW rank \in [Id -> Nat], List(R, rank),
         NEW f \in Frame, Step(f), IsNew(f), IsNew(f)',
         next' = [next EXCEPT ![node[f]] = head],
         UNCHANGED <<head, deleted, freed, last, op, node, cur, first, prev>>,
         pc'[f] \in {"insert_load", "insert_cas"}
  PROVE  List(R, rank)'
  <1> USE DEF Handshake, Types, List
  <1>1. node[f] \notin R /\ node[f] \in Id
    BY CollectionAssumption DEF Private, Id
  <1>2. \A n \in R : next'[n] = next[n]
    BY <1>1
  <1>3. Chain(R, rank)'
    BY <1>2 DEF Chain
  <1>4. \A g \in Frame : (Unlinking(g)' <=> Unlinking(g)) /\ (IsNew(g)' <=> IsNew(g))
    BY OthersStay DEF Unlinking, IsNew
  <1>5. HeadOk(R)'
    BY <1>2, <1>4 DEF HeadOk, Top, In
  <1>6. Cursors(R)'
    BY OthersStay DEF Cursors, In, WalkPCs
  <1>7. Sweeper(R)'
    BY <1>2, <1>4, OthersStay DEF Sweeper, In, Top, Unlinking, IsNew
  <1>8. Private(R)'
    BY <1>4, OthersStay DEF Private, IsNew
  <1>9. DestroyAlone'
    BY DestroyAloneStep
  <1> QED
    BY <1>3, <1>5, <1>6, <1>7, <1>8, <1>9

\* Publishing the new node puts it on top of R: head_ had no predecessor.
LEMMA PublishStep ==
  ASSUME Handshake, NEW R \in SUBSET Id, NEW rank \in [Id -> Nat], List(R, rank),
         NEW f \in Frame, InsertCas(f), head = next[node[f]]
  PROVE  ListShape'
  <1> USE DEF Handshake, Types, List, InsertCas, Goto
  <1>a. PICK n : n = node[f]
    OBVIOUS
  <1>b. PICK h : h = head
    OBVIOUS
  <1> DEFINE S  == R \cup {n}
             rk == [rank EXCEPT ![n] = IF h = NULL THEN 0 ELSE rank[h] + 1]
  <1>1. n \in Id /\ n \in (1..last) \ (R \cup freed) /\ n # NULL /\ next[n] = head
    BY <1>a, CollectionAssumption DEF Private, IsNew, Id, NULL
  <1>2. Top(R, head)
    BY HeadIsTop DEF Inside, InsidePCs
  <1>c. h # NULL => h \in R /\ h # n /\ rank[h] \in Nat
    BY <1>1, <1>2, <1>b DEF Top, In
  <1>3. S \in SUBSET Id /\ rk \in [Id -> Nat]
    BY <1>1, <1>c
  <1>4. /\ head' = n /\ next' = next /\ freed' = freed /\ last' = last
        /\ node' = node /\ cur' = cur /\ first' = first /\ prev' = prev /\ op' = op
        /\ pc'[f] = "leave"
        /\ \A g \in Frame : g # f => pc'[g] = pc[g]
    BY <1>a, OthersStay DEF Step
  <1>5. Chain(S, rk)'
    <2>1. S \cap freed = {}
      BY <1>1 DEF Chain
    <2>2. \A m \in S : next[m] # NULL => next[m] \in S /\ rk[next[m]] < rk[m]
      <3> SUFFICES ASSUME NEW m \in S, next[m] # NULL
                   PROVE  next[m] \in R /\ rk[next[m]] < rk[m]
        OBVIOUS
      <3>1. CASE m = n
        <4>1. next[m] = h /\ h \in R /\ rk[h] = rank[h]
          BY <1>1, <1>b, <1>c, <3>1
        <4>2. rk[m] = rank[h] + 1
          BY <1>1, <1>b, <3>1
        <4> QED
          BY <1>c, <4>1, <4>2
      <3>2. CASE m # n
        BY <1>1, <3>2 DEF Chain
      <3> QED
        BY <3>1, <3>2
    <2>3. \A k, m \in S : next[k] = next[m] /\ next[k] # NULL => k = m
      BY <1>1, <1>2 DEF Chain, Top
    <2> QED
      BY <1>4, <2>1, <2>2, <2>3 DEF Chain
  <1>6. Top(S, n)
    BY <1>1, <1>2, <1>3 DEF Top, In, Chain
  <1>7. \A g \in Frame : (Unlinking(g)' <=> Unlinking(g)) /\ (IsNew(g)' => IsNew(g) /\ g # f)
    BY <1>4 DEF Unlinking, IsNew
  <1>8. HeadOk(S)'
    BY <1>4, <1>6 DEF HeadOk, Top, In
  <1>9. Cursors(S)'
    BY <1>4 DEF Cursors, In, WalkPCs
  <1>10. Sweeper(S)'
    <2>1. \A g \in Frame : ~Unlinking(g) /\ pc[g] # "gc_delete"
      <3>1. Inside(f)
        BY DEF Inside, InsidePCs
      <3> QED
        BY <3>1 DEF SweepExcludesReaders, SweepPCs, Unlinking
    <2> QED
      BY <1>4, <1>7, <2>1 DEF Sweeper, In, Top, Unlinking
  <1>11. Private(S)'
    <2>1. \A g \in Frame : IsNew(g) /\ g # f => node[g] # n
      BY <1>a DEF Private, IsNew
    <2> QED
      BY <1>4, <1>7, <2>1 DEF Private, IsNew
  <1>12. DestroyAlone'
    BY DestroyAloneStep DEF Step
  <1>13. List(S, rk)'
    BY <1>1, <1>4, <1>5, <1>8, <1>9, <1>10, <1>11, <1>12
  <1> QED
    BY <1>3, <1>13 DEF ListShape

\* While gc() is about to unlink, delete or store, it is alone with the list.
LEMMA SweeperAlone ==
  ASSUME Handshake, NEW R \in SUBSET Id, NEW rank \in [Id -> Nat], List(R, rank),
         NEW f \in Frame, pc[f] \in SweepPCs
  PROVE  \A g \in Frame : g # f => pc[g] \notin WalkPCs \cup GcPCs \cup {"insert_load", "insert_cas"}
  <1> SUFFICES ASSUME NEW g \in Frame, g # f
               PROVE  pc[g] \notin WalkPCs \cup GcPCs \cup {"insert_load", "insert_cas"}
    OBVIOUS
  <1>1. ~Inside(g)
    BY DEF Handshake, SweepExcludesReaders
  <1>2. pc[g] \notin GcPCs
    BY DEF Handshake, GcAlone, SweepPCs, GcPCs
  <1>3. pc[g] # "destroy_walk"
    BY DEF List, DestroyAlone, SweepPCs
  <1> QED
    BY <1>1, <1>2, <1>3 DEF Inside, InsidePCs, WalkPCs

\* Taking out the first node: what precedes it in R, if anything, has been
\* lost to the list and leaves R with it.
LEMMA UnlinkFirstStep ==
  ASSUME Handshake, NEW R \in SUBSET Id, NEW rank \in [Id -> Nat], List(R, rank),
         NEW f \in Frame, GcStep(f), Star(f) \in deleted, prev[f] = NULL
  PROVE  ListShape'
  <1> USE DEF Handshake, Types, List
  <1>a. PICK d : d = first[f]
    OBVIOUS
  <1> DEFINE S == {m \in R : rank[m] < rank[d]}
  <1>1. /\ pc[f] = "gc_step" /\ pc'[f] = "gc_delete" /\ cur'[f] = d
        /\ first'[f] = next[d] /\ prev'[f] = NULL
        /\ UNCHANGED <<head, next, deleted, freed, last, op, node, prev>>
    BY <1>a DEF GcStep, Star, Goto
  <1>2. d # NULL /\ d \in R
    BY <1>a, <1>1 DEF Dereferenced, Star, Sweeper, In
  <1>3. \A g \in Frame : g # f =>
          /\ pc'[g] = pc[g] /\ cur'[g] = cur[g] /\ first'[g] = first[g]
          /\ pc[g] \notin WalkPCs \cup GcPCs \cup {"insert_load", "insert_cas"}
    BY <1>1, OthersStay, SweeperAlone DEF Step, SweepPCs
  <1>4. \A m \in S : next[m] # NULL => next[m] \in S /\ rank[next[m]] < rank[m]
    <2> SUFFICES ASSUME NEW m \in S, next[m] # NULL
                 PROVE  next[m] \in S /\ rank[next[m]] < rank[m]
      OBVIOUS
    <2>1. next[m] \in R /\ rank[next[m]] < rank[m] /\ rank[m] < rank[d]
      BY DEF Chain
    <2>2. rank[next[m]] \in Nat /\ rank[m] \in Nat /\ rank[d] \in Nat
      BY <1>2, <2>1
    <2> QED
      BY <2>1, <2>2
  <1>5. Chain(S, rank)'
    BY <1>1, <1>4 DEF Chain
  <1>6. Top(S, next[d]) /\ d \notin S
    <2>1. d \notin S
      BY <1>2
    <2>2. In(S, next[d])
      BY <1>2 DEF Chain, In
    <2> QED
      BY <1>2, <2>1, <2>2 DEF Top, Chain
  <1>7. HeadOk(S)'
    BY <1>1 DEF HeadOk, Unlinking
  <1>8. Cursors(S)'
    BY <1>1, <1>3 DEF Cursors, WalkPCs
  <1>9. Sweeper(S)'
    <2>1. \A g \in Frame : g # f => pc'[g] \notin {"gc_test", "gc_step", "gc_delete", "gc_store"}
      BY <1>3 DEF GcPCs
    <2>2. d \in (1..last) \ (S \cup freed)
      BY <1>2, <1>6 DEF Chain
    <2> QED
      BY <1>1, <1>6, <2>1, <2>2 DEF Sweeper, In, Top, Unlinking
  <1>10. Private(S)'
    <2>1. \A g \in Frame : (IsNew(g)' <=> IsNew(g)) /\ (pc'[g] = "gc_delete" => g = f)
      BY <1>1, <1>3 DEF IsNew, GcPCs
    <2>2. \A g \in Frame : IsNew(g) => node[g] # d
      BY <1>2 DEF Private
    <2> QED
      BY <1>1, <2>1, <2>2 DEF Private
  <1>11. DestroyAlone'
    BY DestroyAloneStep DEF Step
  <1>12. S \in SUBSET Id /\ (S \subseteq 1..last)' /\ (freed \subseteq 1..last)'
    BY <1>1
  <1>13. List(S, rank)'
    BY <1>5, <1>7, <1>8, <1>9, <1>10, <1>11, <1>12
  <1> QED
    BY <1>12, <1>13 DEF ListShape

\* Taking out the successor of a node of R.
LEMMA UnlinkNextStep ==
  ASSUME Handshake, NEW R \in SUBSET Id, NEW rank \in [Id -> Nat], List(R, rank),
         NEW f \in Frame, GcStep(f), Star(f) \in deleted, prev[f] # NULL
  PROVE  ListShape'
  <1> USE DEF Handshake, Types, List
  <1>a. PICK p : p = prev[f]
    OBVIOUS
  <1>b. PICK d : d = next[p]
    OBVIOUS
  <1> DEFINE S == R \ {d}
  <1>1. /\ pc[f] = "gc_step" /\ pc'[f] = "gc_delete" /\ cur'[f] = d
        /\ next' = [next EXCEPT ![p] = next[d]] /\ prev'[f] = p
        /\ UNCHANGED <<head, deleted, freed, last, op, node, first, prev>>
    BY <1>a, <1>b DEF GcStep, Star, Goto
  <1>2. /\ p \in R /\ d \in R /\ d # NULL /\ p # NULL /\ p # d
        /\ rank[d] < rank[p]
    <2>1. p \in R /\ p # NULL
      BY <1>a, <1>1 DEF Sweeper, In
    <2>2. d # NULL
      BY <1>a, <1>b, <1>1, <2>1 DEF Dereferenced, Star
    <2>3. d \in R /\ rank[d] < rank[p]
      BY <1>b, <2>1, <2>2 DEF Chain
    <2>4. rank[p] \in Nat
      BY <2>1
    <2> QED
      BY <2>1, <2>2, <2>3, <2>4
  <1>3. \A g \in Frame : g # f =>
          /\ pc'[g] = pc[g] /\ cur'[g] = cur[g]
          /\ pc[g] \notin WalkPCs \cup GcPCs \cup {"insert_load", "insert_cas"}
    BY <1>1, OthersStay, SweeperAlone DEF Step, SweepPCs
  <1>4. next'[p] = next[d] /\ \A m \in R : m # p => next'[m] = next[m] /\ next[m] # d
    BY <1>b, <1>1, <1>2 DEF Chain
  <1>5. Chain(S, rank)'
    <2>1. S \cap freed = {}
      BY DEF Chain
    <2>2. \A m \in S : next'[m] # NULL => next'[m] \in S /\ rank[next'[m]] < rank[m]
      <3> SUFFICES ASSUME NEW m \in S, next'[m] # NULL
                   PROVE  next'[m] \in S /\ rank[next'[m]] < rank[m]
        OBVIOUS
      <3>1. CASE m = p
        <4>1. next[d] \in R /\ rank[next[d]] < rank[d] /\ rank[d] < rank[p]
          BY <1>2, <1>4, <3>1 DEF Chain
        <4>2. rank[next[d]] \in Nat /\ rank[d] \in Nat /\ rank[p] \in Nat
          BY <1>2, <4>1
        <4> QED
          BY <1>4, <3>1, <4>1, <4>2
      <3>2. CASE m # p
        BY <1>4, <3>2 DEF Chain
      <3> QED
        BY <3>1, <3>2
    <2>3. \A k, m \in S : next'[k] = next'[m] /\ next'[k] # NULL => k = m
      BY <1>2, <1>4 DEF Chain
    <2> QED
      BY <1>1, <2>1, <2>2, <2>3 DEF Chain
  <1>6. \A g \in Frame : ~Unlinking(g) /\ ~Unlinking(g)'
    BY <1>1, <1>2, <1>3 DEF Unlinking, GcPCs
  <1>7. HeadOk(S)'
    <2>1. Top(R, head)
      BY <1>6 DEF HeadOk
    <2>2. In(S, head)
      BY <1>b, <1>2, <2>1 DEF Top, In
    <2>3. \A m \in S : head # NULL => next'[m] # head
      BY <1>2, <1>4, <2>1 DEF Top
    <2> QED
      BY <1>1, <2>2, <2>3 DEF HeadOk, Top, In
  <1>8. Cursors(S)'
    BY <1>1, <1>3 DEF Cursors, WalkPCs
  <1>9. Sweeper(S)'
    <2>1. \A g \in Frame : g # f => pc'[g] \notin {"gc_test", "gc_step", "gc_delete", "gc_store"}
      BY <1>3 DEF GcPCs
    <2>2. d \in (1..last) \ (S \cup freed)
      BY <1>2 DEF Chain
    <2> QED
      BY <1>1, <1>2, <1>6, <2>1, <2>2 DEF Sweeper, In
  <1>10. Private(S)'
    <2>1. \A g \in Frame : (IsNew(g)' <=> IsNew(g)) /\ (pc'[g] = "gc_delete" => g = f)
      BY <1>1, <1>3 DEF IsNew, GcPCs
    <2>2. \A g \in Frame : IsNew(g) => node[g] # d
      BY <1>2 DEF Private
    <2> QED
      BY <1>1, <2>1, <2>2 DEF Private
  <1>11. DestroyAlone'
    BY DestroyAloneStep DEF Step
  <1>12. S \in SUBSET Id /\ (S \subseteq 1..last)' /\ (freed \subseteq 1..last)'
    BY <1>1
  <1>13. List(S, rank)'
    BY <1>5, <1>7, <1>8, <1>9, <1>10, <1>11, <1>12
  <1> QED
    BY <1>12, <1>13 DEF ListShape

LEMMA GcDeleteStep ==
  ASSUME Handshake, NEW R \in SUBSET Id, NEW rank \in [Id -> Nat], List(R, rank),
         NEW f \in Frame, GcDelete(f)
  PROVE  List(R, rank)'
  <1> USE DEF Handshake, Types, List
  <1>a. PICK d : d = cur[f]
    OBVIOUS
  <1>1. /\ pc[f] = "gc_delete" /\ pc'[f] = "gc_store" /\ freed' = freed \cup {d}
        /\ UNCHANGED <<head, next, deleted, last, op, node, cur, first, prev>>
    BY <1>a DEF GcDelete, Goto
  <1>2. d \in (1..last) \ (R \cup freed)
    BY <1>a, <1>1 DEF Sweeper
  <1>3. \A g \in Frame : g # f =>
          pc'[g] = pc[g] /\ pc[g] # "gc_delete"
    BY <1>1, OthersStay, SweeperAlone DEF Step, SweepPCs, GcPCs
  <1>4. Chain(R, rank)'
    BY <1>1, <1>2 DEF Chain
  <1>5. \A g \in Frame : (Unlinking(g)' <=> Unlinking(g)) /\ (IsNew(g)' <=> IsNew(g))
    BY <1>1, <1>3 DEF Unlinking, IsNew
  <1>6. HeadOk(R)' /\ Cursors(R)'
    BY <1>1, <1>3, <1>5 DEF HeadOk, Top, In, Cursors, WalkPCs
  <1>7. Sweeper(R)'
    BY <1>1, <1>3, <1>5 DEF Sweeper, In, Top
  <1>8. Private(R)'
    BY <1>a, <1>1, <1>3, <1>5 DEF Private
  <1>9. DestroyAlone'
    BY DestroyAloneStep DEF Step
  <1> QED
    BY <1>1, <1>2, <1>4, <1>6, <1>7, <1>8, <1>9

LEMMA GcStoreStep ==
  ASSUME Handshake, NEW R \in SUBSET Id, NEW rank \in [Id -> Nat], List(R, rank),
         NEW f \in Frame, GcStore(f)
  PROVE  List(R, rank)'
  <1> USE DEF Handshake, Types, List
  <1>1. /\ pc[f] = "gc_store" /\ pc'[f] = "gc_test"
        /\ head' = IF prev[f] = NULL THEN first[f] ELSE head
        /\ UNCHANGED <<next, deleted, freed, last, op, node, cur, first, prev>>
    BY DEF GcStore, Goto
  <1>2. \A g \in Frame : g # f => pc'[g] = pc[g] /\ pc[g] \notin GcPCs
    BY <1>1, OthersStay, SweeperAlone DEF Step, SweepPCs
  <1>3. \A g \in Frame : ~Unlinking(g)' /\ (IsNew(g)' <=> IsNew(g))
    BY <1>1, <1>2 DEF Unlinking, IsNew, GcPCs
  <1>4. HeadOk(R)'
    <2>1. CASE prev[f] = NULL
      BY <1>1, <2>1 DEF HeadOk, Sweeper, Unlinking, Top, In
    <2>2. CASE prev[f] # NULL
      <3>1. \A g \in Frame : ~Unlinking(g)
        BY <1>2, <2>2 DEF Unlinking, GcPCs
      <3> QED
        BY <1>1, <2>2, <3>1 DEF HeadOk, Top, In
    <2> QED
      BY <2>1, <2>2
  <1>5. Chain(R, rank)' /\ Cursors(R)'
    BY <1>1, <1>2 DEF Chain, Cursors, WalkPCs, In
  <1>6. Sweeper(R)'
    BY <1>1, <1>2, <1>3 DEF Sweeper, In, Top, GcPCs
  <1>7. Private(R)'
    BY <1>1, <1>2, <1>3 DEF Private
  <1>8. DestroyAlone'
    BY DestroyAloneStep DEF Step
  <1> QED
    BY <1>1, <1>4, <1>5, <1>6, <1>7, <1>8

LEMMA ListStep ==
  ASSUME Handshake, ListShape, NEW f \in Frame, Call(f) \/ Step(f)
  PROVE  ListShape'
  <1>1. PICK R \in SUBSET Id, rank \in [Id -> Nat] : List(R, rank)
    BY DEF ListShape
  <1>2. DestroyAlone'
    BY <1>1, DestroyAloneStep DEF List
  <1>3. last \in Nat
    BY DEF Handshake, Types
  <1>4. Quiet(R, f) => ListShape'
    BY <1>1, <1>2, QuietStep DEF ListShape
  <1> USE DEF Handshake, Types, Goto, Return, Begin, Finish, shared
  <1>5. CASE Call(f)
    <2>1. CASE Insert(f)
      BY <1>1, <1>3, <1>5, <2>1, <1>4
         DEF Insert, IsNew, WalkPCs, CanCall, Quiet
    <2>2. CASE Apply(f) \/ Empty(f) \/ \E id \in Id : Remove(f, id)
      BY <1>1, <1>3, <1>5, <2>2, <1>4
         DEF Apply, Empty, Remove, IsNew, WalkPCs, CanCall, CanCallFromDtor,
             Quiet
    <2>3. CASE Destroy(f)
      <3>1. Top(R, head)
        BY <1>1, <2>3, HeadIsTop DEF Destroy
      <3> QED
        BY <1>1, <1>3, <1>5, <2>3, <3>1, <1>4
           DEF Destroy, IsNew, Top, In, Quiet
    <2> QED
      BY <1>5, <2>1, <2>2, <2>3 DEF Call
  <1>6. CASE Enter(f) \/ Spin(f) \/ Leave(f)
    BY <1>1, <1>3, <1>6, <1>4
       DEF Enter, Spin, Leave, Body, Ops, IsNew, WalkPCs, Step, Quiet
  <1>7. CASE InsertLoad(f)
    BY <1>1, <1>7, NextOfNewNode DEF InsertLoad, IsNew, Step, ListShape
  <1>8. CASE InsertCas(f)
    <2>1. CASE head = next[node[f]]
      BY <1>1, <1>8, <2>1, PublishStep
    <2>2. CASE head # next[node[f]]
      BY <1>1, <1>8, <2>2, NextOfNewNode DEF InsertCas, IsNew, Step, ListShape
    <2> QED
      BY <2>1, <2>2
  <1>9. CASE RemoveLoad(f) \/ ApplyLoad(f) \/ EmptyLoad(f)
    <2>1. Inside(f)
      BY <1>9 DEF RemoveLoad, ApplyLoad, EmptyLoad, Load, Inside, InsidePCs
    <2>2. Top(R, head)
      BY <1>1, <2>1, HeadIsTop
    <2> QED
      BY <1>1, <1>3, <1>9, <2>2, <1>4
         DEF RemoveLoad, ApplyLoad, EmptyLoad, Load, IsNew, WalkPCs, Step, Top,
             In, Quiet
  <1>10. CASE RemoveWalk(f) \/ DestroyWalk(f)
    <2>1. In(R, cur[f]) /\ (cur[f] # NULL => In(R, next[cur[f]]))
      BY <1>1, <1>10 DEF RemoveWalk, DestroyWalk, List, Cursors, WalkPCs, In, Chain
    <2> QED
      BY <1>1, <1>3, <1>10, <2>1, <1>4
         DEF RemoveWalk, DestroyWalk, IsNew, WalkPCs, Step, Quiet
  <1>11. CASE ApplyWalk(f) \/ ApplyCall(f) \/ ApplyReturn(f) \/ EmptyTest(f)
    <2>1. In(R, cur[f]) /\ (cur[f] # NULL => In(R, next[cur[f]]))
      BY <1>1, <1>11 DEF ApplyWalk, ApplyCall, ApplyReturn, EmptyTest, List, Cursors, WalkPCs, In, Chain
    <2>2. ApplyReturn(f) => cur[f] # NULL
      BY DEF ApplyReturn, Dereferenced
    <2> QED
      BY <1>1, <1>3, <1>11, <2>1, <2>2, <1>4
         DEF ApplyWalk, ApplyCall, ApplyReturn, EmptyTest, IsNew, WalkPCs,
             Step, Quiet
  <1>12. CASE GcEnter(f) \/ GcClaim(f) \/ GcDone(f)
    BY <1>1, <1>3, <1>12, <1>4
       DEF GcEnter, GcClaim, GcDone, IsNew, WalkPCs, Step, Quiet
  <1>13. CASE GcLoad(f)
    <2>1. Top(R, head)
      BY <1>1, <1>13, HeadIsTop DEF GcLoad
    <2> QED
      BY <1>1, <1>3, <1>13, <2>1, <1>4
         DEF GcLoad, IsNew, WalkPCs, Step, Top, In, Quiet
  <1>14. CASE GcTest(f)
    <2>1. In(R, prev[f]) /\ (prev[f] = NULL => In(R, first[f]))
      BY <1>1, <1>14 DEF GcTest, List, Sweeper
    <2> QED
      BY <1>1, <1>3, <1>14, <2>1, <1>4
         DEF GcTest, IsNew, WalkPCs, Step, Quiet
  <1>15. CASE GcStep(f)
    <2>1. CASE Star(f) \notin deleted
      <3>1. Star(f) # NULL
        BY <1>15 DEF GcStep, Dereferenced
      <3>2. In(R, Star(f))
        BY <1>1, <1>15 DEF GcStep, List, Sweeper, Chain, Star, In
      <3> QED
        BY <1>1, <1>3, <1>15, <2>1, <3>1, <3>2, <1>4
           DEF GcStep, IsNew, WalkPCs, Step, Quiet
    <2>2. CASE Star(f) \in deleted
      BY <1>1, <1>15, <2>2, UnlinkFirstStep, UnlinkNextStep
    <2> QED
      BY <2>1, <2>2
  <1>16. CASE GcDelete(f) \/ GcStore(f)
    BY <1>1, <1>16, GcDeleteStep, GcStoreStep DEF ListShape
  <1> QED
    BY <1>5, <1>6, <1>7, <1>8, <1>9, <1>10, <1>11, <1>12, <1>13, <1>14, <1>15,
       <1>16 DEF Step

\* No apply() calls a dead functor or follows a dead next pointer, no remove()
\* looks at a dead node and gc() deletes no node twice: with any number of
\* threads inserting, removing and notifying, and calls nested to any depth.
THEOREM NoUseAfterFreeHolds == Spec => []NoUseAfterFree
  <1>1. Handshake /\ ListShape /\ [Next]_vars => ListShape'
    <2> SUFFICES ASSUME Handshake, ListShape, [Next]_vars PROVE ListShape'
      OBVIOUS
    <2>1. CASE UNCHANGED vars
      <3>1. PICK R \in SUBSET Id, rank \in [Id -> Nat] : List(R, rank)
        BY DEF ListShape
      <3>2. R \subseteq 1..last' /\ freed' \subseteq 1..last' /\ DestroyAlone'
        BY <2>1, <3>1 DEF vars, List, DestroyAlone
      <3>3. Chain(R, rank)'
        BY <2>1, <3>1 DEF vars, List, Chain
      <3>4. HeadOk(R)'
        BY <2>1, <3>1 DEF vars, List, HeadOk, Top, In, Unlinking
      <3>5. Cursors(R)'
        BY <2>1, <3>1 DEF vars, List, Cursors, WalkPCs, In
      <3>6. Sweeper(R)'
        BY <2>1, <3>1 DEF vars, List, Sweeper, Unlinking, Top, In
      <3>7. Private(R)'
        BY <2>1, <3>1 DEF vars, List, Private, IsNew
      <3> QED
        BY <3>1, <3>2, <3>3, <3>4, <3>5, <3>6, <3>7 DEF ListShape, List
    <2>2. ASSUME NEW f \in Frame, Call(f) \/ Step(f) PROVE ListShape'
      BY <2>2, ListStep
    <2> QED
      BY <2>1, <2>2 DEF Next, Terminated
  <1> QED
    BY <1>1, HandshakeHolds, ListInit, ListIsSafe, PTL DEF Spec
=============================================================================
