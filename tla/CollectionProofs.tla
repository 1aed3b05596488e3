-------------------------- MODULE CollectionProofs --------------------------
(***************************************************************************)
(* Proofs about Collection, for any set of threads, any depth of nested    *)
(* calls and any number of insertions.                                     *)
(***************************************************************************)
EXTENDS Collection, FiniteSetTheorems, TLAPS

\* TypeOK without the lower bound of block_gc_, which needs the count below.
Types ==
  /\ head \in Link /\ next \in [Id -> Link]
  /\ deleted \subseteq Id /\ freed \subseteq Id
  /\ last \in 0..MaxId
  /\ active \in BOOLEAN /\ gone \in BOOLEAN
  /\ pc \in [Frame -> PCs] /\ op \in [Frame -> Ops]
  /\ node \in [Frame -> Link] /\ cur \in [Frame -> Link]
  /\ first \in [Frame -> Link] /\ prev \in [Frame -> Link]

\* block_gc_ is the number of frames between the two ends of a gc_blocker.
BlockCounts == block = Cardinality(Holders)

\* At most one frame has won gc_active_, and the flag says so.
GcAlone ==
  /\ \A f \in Frame : pc[f] \in GcPCs => active
  /\ \A f, g \in Frame : pc[f] \in GcPCs /\ pc[g] \in GcPCs => f = g

\* A node is dereferenced only after a test of its pointer.
Dereferenced ==
  \A f \in Frame :
    /\ pc[f] \in {"insert_load", "insert_cas"} => node[f] # NULL
    /\ pc[f] \in {"apply_call", "apply_run", "gc_delete"} => cur[f] # NULL
    /\ pc[f] = "gc_step" => Star(f) # NULL
    /\ op[f] = "insert" => node[f] # NULL

Handshake ==
  Types /\ BlockCounts /\ GcAlone /\ SweepExcludesReaders /\ Dereferenced

-----------------------------------------------------------------------------
\* Frame is finite, so its subsets can be counted.
LEMMA FrameFinite == IsFiniteSet(Frame)
  <1>1. IsFiniteSet(1..Depth)
    BY FS_Interval, CollectionAssumption
  <1> QED
    BY <1>1, FS_Product, CollectionAssumption DEF Frame

LEMMA HandshakeInit == Init => Handshake
  <1> SUFFICES ASSUME Init PROVE Handshake
    OBVIOUS
  <1>1. Types
    <2>1. NULL \in Link /\ 0 \in 0..MaxId /\ "idle" \in PCs /\ "none" \in Ops
      BY CollectionAssumption DEF Link, PCs, Ops
    <2> QED
      BY <2>1 DEF Init, Types
  <1>2. Holders = {}
    BY DEF Init, Holders, HoldPCs, InsidePCs
  <1>3. BlockCounts
    BY <1>2, FS_EmptySet DEF Init, BlockCounts
  <1> QED
    BY <1>1, <1>3 DEF Init, Handshake, GcAlone, GcPCs, SweepExcludesReaders,
       SweepPCs, Dereferenced

LEMMA TypesStep ==
  ASSUME Types, Dereferenced, NEW f \in Frame, Call(f) \/ Step(f)
  PROVE  Types'
  <1> USE CollectionAssumption DEF Types, Goto, Return, Begin, Finish, shared
  <1>1. CASE Call(f)
    <2>1. CASE Insert(f)
      BY <2>1 DEF Insert, Link, Id, PCs, Ops
    <2>2. CASE Apply(f) \/ Empty(f) \/ Destroy(f)
      BY <2>2 DEF Apply, Empty, Destroy, Link, NULL, PCs, Ops
    <2>3. CASE \E id \in Id : Remove(f, id)
      BY <2>3 DEF Remove, Link, PCs, Ops
    <2> QED
      BY <1>1, <2>1, <2>2, <2>3 DEF Call
  <1>2. CASE Step(f)
    <2>1. CASE Enter(f) \/ Spin(f) \/ Leave(f)
      BY <2>1 DEF Enter, Spin, Leave, Body, PCs, Ops, Link, NULL
    <2>2. CASE InsertLoad(f) \/ InsertCas(f)
      BY <2>2 DEF InsertLoad, InsertCas, PCs, Link
    <2>3. CASE RemoveLoad(f) \/ ApplyLoad(f) \/ EmptyLoad(f)
      BY <2>3 DEF RemoveLoad, ApplyLoad, EmptyLoad, Load, PCs
    <2>4. CASE RemoveWalk(f) \/ DestroyWalk(f)
      BY <2>4 DEF RemoveWalk, DestroyWalk, PCs, Link
    <2>5. CASE ApplyWalk(f) \/ ApplyCall(f) \/ ApplyReturn(f) \/ EmptyTest(f)
      BY <2>5 DEF ApplyWalk, ApplyCall, ApplyReturn, EmptyTest, PCs, Link, Dereferenced
    <2>6. CASE GcEnter(f)
      BY <2>6 DEF GcEnter, PCs, Ops, NULL, Link
    <2>7. CASE GcClaim(f)
      BY <2>7 DEF GcClaim, PCs, Ops, NULL, Link
    <2>8. CASE GcLoad(f) \/ GcTest(f)
      BY <2>8 DEF GcLoad, GcTest, PCs, Link, NULL
    <2>9. CASE GcStep(f)
      BY <2>9 DEF GcStep, Star, PCs, Link, Dereferenced
    <2>10. CASE GcDelete(f) \/ GcStore(f)
      BY <2>10 DEF GcDelete, GcStore, PCs, Link, Dereferenced
    <2>11. CASE GcDone(f)
      BY <2>11 DEF GcDone, PCs, Ops, Link, NULL
    <2> QED
      BY <1>2, <2>1, <2>2, <2>3, <2>4, <2>5, <2>6, <2>7, <2>8, <2>9,
         <2>10, <2>11 DEF Step
  <1> QED
    BY <1>1, <1>2

\* gc_blocker counts: every other step leaves block_gc_ and the frames it
\* counts alone.
LEMMA BlockCountsStep ==
  ASSUME Types, BlockCounts, NEW f \in Frame, Call(f) \/ Step(f)
  PROVE  BlockCounts'
  <1> USE DEF Goto, Return, Begin, Finish, shared
  <1>0. IsFiniteSet(Holders)
    BY FrameFinite, FS_Subset DEF Holders
  <1>1. CASE Enter(f)
    <2>1. f \notin Holders /\ Holders' = Holders \cup {f}
      BY <1>1 DEF Enter, Types, Holders, HoldPCs, InsidePCs
    <2> QED
      BY <1>0, <1>1, <2>1, FS_AddElement DEF Enter, BlockCounts
  <1>2. CASE Leave(f)
    <2>1. f \in Holders /\ Holders' = Holders \ {f}
      BY <1>2 DEF Leave, Types, Holders, HoldPCs, InsidePCs
    <2> QED
      BY <1>0, <1>2, <2>1, FS_RemoveElement DEF Leave, BlockCounts
  <1>3. CASE ~Enter(f) /\ ~Leave(f)
    <2> SUFFICES block' = block /\ Holders' = Holders
      BY DEF BlockCounts
    <2> USE DEF Types, Holders, HoldPCs, InsidePCs
    <2>1. CASE Call(f)
      BY <2>1 DEF Call, CanCall, CanCallFromDtor, Insert, Apply, Empty, Destroy, Remove
    <2>2. CASE Spin(f)
      BY <2>2 DEF Spin, Body, Ops
    <2>3. CASE InsertLoad(f) \/ InsertCas(f)
      BY <2>3 DEF InsertLoad, InsertCas
    <2>4. CASE RemoveLoad(f) \/ ApplyLoad(f) \/ EmptyLoad(f)
      BY <2>4 DEF RemoveLoad, ApplyLoad, EmptyLoad, Load
    <2>5. CASE RemoveWalk(f) \/ DestroyWalk(f)
      BY <2>5 DEF RemoveWalk, DestroyWalk
    <2>6. CASE ApplyWalk(f) \/ ApplyCall(f) \/ ApplyReturn(f) \/ EmptyTest(f)
      BY <2>6 DEF ApplyWalk, ApplyCall, ApplyReturn, EmptyTest
    <2>7. CASE GcEnter(f) \/ GcClaim(f) \/ GcLoad(f) \/ GcTest(f)
      BY <2>7 DEF GcEnter, GcClaim, GcLoad, GcTest
    <2>8. CASE GcStep(f)
      BY <2>8 DEF GcStep
    <2>9. CASE GcDelete(f) \/ GcStore(f) \/ GcDone(f)
      BY <2>9 DEF GcDelete, GcStore, GcDone
    <2> QED
      BY <1>3, <2>1, <2>2, <2>3, <2>4, <2>5, <2>6, <2>7, <2>8, <2>9 DEF Step
  <1> QED
    BY <1>1, <1>2, <1>3

\* The frames other than the one that steps stay where they are.
LEMMA OthersStay ==
  ASSUME Types, NEW f \in Frame, Call(f) \/ Step(f), NEW g \in Frame, g # f
  PROVE  /\ pc'[g] = pc[g] /\ op'[g] = op[g] /\ node'[g] = node[g]
         /\ cur'[g] = cur[g] /\ first'[g] = first[g] /\ prev'[g] = prev[g]
  <1> USE DEF Types, Goto, Return, Begin, Finish, shared
  <1>1. CASE Call(f)
    BY <1>1 DEF Call, Insert, Apply, Empty, Destroy, Remove
  <1>2. CASE Enter(f) \/ Spin(f) \/ Leave(f) \/ InsertLoad(f) \/ InsertCas(f)
    BY <1>2 DEF Enter, Spin, Leave, InsertLoad, InsertCas
  <1>3. CASE RemoveLoad(f) \/ ApplyLoad(f) \/ EmptyLoad(f) \/ RemoveWalk(f) \/ DestroyWalk(f)
    BY <1>3 DEF RemoveLoad, ApplyLoad, EmptyLoad, Load, RemoveWalk, DestroyWalk
  <1>4. CASE ApplyWalk(f) \/ ApplyCall(f) \/ ApplyReturn(f) \/ EmptyTest(f)
    BY <1>4 DEF ApplyWalk, ApplyCall, ApplyReturn, EmptyTest
  <1>5. CASE GcEnter(f) \/ GcClaim(f) \/ GcLoad(f) \/ GcTest(f)
    BY <1>5 DEF GcEnter, GcClaim, GcLoad, GcTest
  <1>6. CASE GcStep(f) \/ GcDelete(f) \/ GcStore(f) \/ GcDone(f)
    BY <1>6 DEF GcStep, GcDelete, GcStore, GcDone
  <1> QED
    BY <1>1, <1>2, <1>3, <1>4, <1>5, <1>6 DEF Step

\* gc_active_ is a lock: only GcClaim takes it, only GcDone gives it back.
LEMMA GcAloneStep ==
  ASSUME Types, GcAlone, NEW f \in Frame, Call(f) \/ Step(f)
  PROVE  GcAlone'
  <1> USE DEF Types, Goto, Return, Begin, Finish, shared
  <1>1. CASE GcClaim(f)
    BY <1>1 DEF GcClaim, GcAlone, GcPCs
  <1>2. CASE GcDone(f)
    BY <1>2 DEF GcDone, GcAlone, GcPCs
  <1>3. CASE ~GcClaim(f) /\ ~GcDone(f)
    <2> SUFFICES active' = active /\ (pc'[f] \in GcPCs => pc[f] \in GcPCs)
      BY OthersStay DEF GcAlone
    <2> USE DEF GcPCs
    <2>1. CASE Call(f)
      BY <2>1 DEF Call, Insert, Apply, Empty, Destroy, Remove
    <2>2. CASE Enter(f) \/ Spin(f) \/ Leave(f) \/ InsertLoad(f) \/ InsertCas(f)
      BY <2>2 DEF Enter, Spin, Leave, InsertLoad, InsertCas, Body, Ops
    <2>3. CASE RemoveLoad(f) \/ ApplyLoad(f) \/ EmptyLoad(f) \/ RemoveWalk(f) \/ DestroyWalk(f)
      BY <2>3 DEF RemoveLoad, ApplyLoad, EmptyLoad, Load, RemoveWalk, DestroyWalk
    <2>4. CASE ApplyWalk(f) \/ ApplyCall(f) \/ ApplyReturn(f) \/ EmptyTest(f)
      BY <2>4 DEF ApplyWalk, ApplyCall, ApplyReturn, EmptyTest
    <2>5. CASE GcEnter(f) \/ GcLoad(f) \/ GcTest(f)
      BY <2>5 DEF GcEnter, GcLoad, GcTest
    <2>6. CASE GcStep(f) \/ GcDelete(f) \/ GcStore(f)
      BY <2>6 DEF GcStep, GcDelete, GcStore
    <2> QED
      BY <1>3, <2>1, <2>2, <2>3, <2>4, <2>5, <2>6 DEF Step
  <1> QED
    BY <1>1, <1>2, <1>3

\* No frame is counted when gc() tests block_gc_ and finds it zero.
LEMMA NobodyInside ==
  ASSUME BlockCounts, block = 0, NEW g \in Frame
  PROVE  ~Inside(g)
  <1>1. IsFiniteSet(Holders)
    BY FrameFinite, FS_Subset DEF Holders
  <1>2. Holders = {}
    BY <1>1, FS_EmptySet DEF BlockCounts
  <1> QED
    BY <1>2 DEF Holders, HoldPCs, Inside

LEMMA SweepStep ==
  ASSUME Handshake, NEW f \in Frame, Call(f) \/ Step(f)
  PROVE  SweepExcludesReaders'
  <1> USE DEF Handshake, Types, Goto, Return, Begin, Finish, shared
  <1>1. CASE GcTest(f)
    <2>1. \A g \in Frame : pc'[f] = "gc_step" => ~Inside(g)
      BY <1>1, NobodyInside DEF GcTest
    <2>2. ~Inside(f)' /\ pc'[f] \in {"gc_done", "gc_step"}
      BY <1>1 DEF GcTest, Inside, InsidePCs
    <2>3. \A g \in Frame : pc'[g] \in SweepPCs /\ g # f => pc[g] \in SweepPCs
      BY OthersStay
    <2> QED
      BY <2>1, <2>2, <2>3, OthersStay DEF SweepExcludesReaders, Inside, SweepPCs
  <1>2. CASE Spin(f)
    <2>1. \A g \in Frame : pc[g] \notin GcPCs
      BY <1>2 DEF Spin, GcAlone
    <2>2. pc'[f] \notin SweepPCs
      BY <1>2 DEF Spin, Body, Ops, SweepPCs
    <2> QED
      BY <2>1, <2>2, OthersStay DEF SweepExcludesReaders, SweepPCs, GcPCs
  <1>3. CASE ~GcTest(f) /\ ~Spin(f)
    <2> SUFFICES /\ pc'[f] \in SweepPCs => pc[f] \in SweepPCs
                 /\ pc'[f] \in InsidePCs => pc[f] \in InsidePCs
      BY OthersStay DEF SweepExcludesReaders, Inside
    <2> USE DEF SweepPCs, InsidePCs
    <2>1. CASE Call(f)
      BY <2>1 DEF Call, Insert, Apply, Empty, Destroy, Remove
    <2>2. CASE Enter(f) \/ Leave(f) \/ InsertLoad(f) \/ InsertCas(f)
      BY <2>2 DEF Enter, Leave, InsertLoad, InsertCas
    <2>3. CASE RemoveLoad(f) \/ ApplyLoad(f) \/ EmptyLoad(f) \/ RemoveWalk(f) \/ DestroyWalk(f)
      BY <2>3 DEF RemoveLoad, ApplyLoad, EmptyLoad, Load, RemoveWalk, DestroyWalk
    <2>4. CASE ApplyWalk(f) \/ ApplyCall(f) \/ ApplyReturn(f) \/ EmptyTest(f)
      BY <2>4 DEF ApplyWalk, ApplyCall, ApplyReturn, EmptyTest
    <2>5. CASE GcEnter(f) \/ GcClaim(f) \/ GcLoad(f)
      BY <2>5 DEF GcEnter, GcClaim, GcLoad
    <2>6. CASE GcStep(f) \/ GcDelete(f) \/ GcStore(f) \/ GcDone(f)
      BY <2>6 DEF GcStep, GcDelete, GcStore, GcDone
    <2> QED
      BY <1>3, <2>1, <2>2, <2>3, <2>4, <2>5, <2>6 DEF Step
  <1> QED
    BY <1>1, <1>2, <1>3

\* Every pointer is tested before it is followed; gc_step can rely on the test
\* of gc_test because nobody else writes a next field in between.
LEMMA DereferencedStep ==
  ASSUME Handshake, NEW f \in Frame, Call(f) \/ Step(f)
  PROVE  Dereferenced'
  <1> USE DEF Handshake, Types, Goto, Return, Begin, Finish, shared
  <1> DEFINE Ok(g) ==
        /\ pc[g] \in {"insert_load", "insert_cas"} => node[g] # NULL
        /\ pc[g] \in {"apply_call", "apply_run", "gc_delete"} => cur[g] # NULL
        /\ op[g] = "insert" => node[g] # NULL
  <1>1. \A g \in Frame : Ok(g)
    BY DEF Dereferenced
  <1>2. \A g \in Frame : Ok(g)'
    <2> SUFFICES Ok(f)'
      BY <1>1, OthersStay
    <2>1. CASE Call(f)
      BY <1>1, <2>1, CollectionAssumption DEF Call, Insert, Apply, Empty, Destroy, Remove, NULL
    <2>2. CASE Enter(f) \/ Spin(f) \/ Leave(f) \/ InsertLoad(f) \/ InsertCas(f)
      BY <1>1, <2>2 DEF Enter, Spin, Leave, InsertLoad, InsertCas, Body, Ops
    <2>3. CASE RemoveLoad(f) \/ ApplyLoad(f) \/ EmptyLoad(f) \/ RemoveWalk(f) \/ DestroyWalk(f)
      BY <1>1, <2>3 DEF RemoveLoad, ApplyLoad, EmptyLoad, Load, RemoveWalk, DestroyWalk
    <2>4. CASE ApplyWalk(f) \/ ApplyCall(f) \/ ApplyReturn(f) \/ EmptyTest(f)
      BY <1>1, <2>4 DEF ApplyWalk, ApplyCall, ApplyReturn, EmptyTest
    <2>5. CASE GcEnter(f) \/ GcClaim(f) \/ GcLoad(f) \/ GcTest(f)
      BY <1>1, <2>5 DEF GcEnter, GcClaim, GcLoad, GcTest
    <2>6. CASE GcStep(f)
      BY <1>1, <2>6 DEF GcStep, Dereferenced
    <2>7. CASE GcDelete(f) \/ GcStore(f) \/ GcDone(f)
      BY <1>1, <2>7 DEF GcDelete, GcStore, GcDone
    <2> QED
      BY <2>1, <2>2, <2>3, <2>4, <2>5, <2>6, <2>7 DEF Step
  <1>3. ASSUME NEW g \in Frame, pc'[g] = "gc_step" PROVE Star(g)' # NULL
    <2>1. CASE g = f
      <3>1. GcTest(f)
        <4>1. ~Call(f)
          BY <1>3, <2>1 DEF Call, Insert, Apply, Empty, Destroy, Remove
        <4>2. ~(Enter(f) \/ Spin(f) \/ Leave(f) \/ InsertLoad(f) \/ InsertCas(f))
          BY <1>3, <2>1 DEF Enter, Spin, Leave, InsertLoad, InsertCas, Body, Ops
        <4>3. ~(RemoveLoad(f) \/ ApplyLoad(f) \/ EmptyLoad(f) \/ RemoveWalk(f) \/ DestroyWalk(f))
          BY <1>3, <2>1 DEF RemoveLoad, ApplyLoad, EmptyLoad, Load, RemoveWalk, DestroyWalk
        <4>4. ~(ApplyWalk(f) \/ ApplyCall(f) \/ ApplyReturn(f) \/ EmptyTest(f))
          BY <1>3, <2>1 DEF ApplyWalk, ApplyCall, ApplyReturn, EmptyTest
        <4>5. ~(GcEnter(f) \/ GcClaim(f) \/ GcLoad(f) \/ GcStep(f) \/ GcDelete(f) \/ GcStore(f) \/ GcDone(f))
          BY <1>3, <2>1 DEF GcEnter, GcClaim, GcLoad, GcStep, GcDelete, GcStore, GcDone
        <4> QED
          BY <4>1, <4>2, <4>3, <4>4, <4>5 DEF Step
      <3> QED
        BY <1>3, <2>1, <3>1 DEF GcTest, Star
    <2>2. CASE g # f
      <3>1. /\ pc[g] = "gc_step" /\ Star(g) # NULL
            /\ first'[g] = first[g] /\ prev'[g] = prev[g]
        BY <1>3, <2>2, OthersStay DEF Dereferenced
      <3>2. ~Inside(f) /\ pc[f] \notin GcPCs
        BY <3>1, <2>2 DEF SweepExcludesReaders, GcAlone, SweepPCs, GcPCs
      <3>3. next' = next
        <4>1. CASE Call(f)
          BY <4>1 DEF Call, Insert, Apply, Empty, Destroy, Remove
        <4>2. CASE Step(f)
          BY <3>2, <4>2 DEF Step, Inside, InsidePCs, GcPCs, Enter, Spin, Leave,
             InsertLoad, InsertCas, RemoveLoad, ApplyLoad, EmptyLoad, Load,
             RemoveWalk, DestroyWalk, ApplyWalk, ApplyCall, ApplyReturn, EmptyTest,
             GcEnter, GcClaim, GcLoad, GcTest, GcStep, GcDelete, GcStore, GcDone
        <4> QED
          BY <4>1, <4>2
      <3> QED
        BY <3>1, <3>3 DEF Star
    <2> QED
      BY <2>1, <2>2
  <1> QED
    BY <1>2, <1>3 DEF Dereferenced

LEMMA HandshakeStep == Handshake /\ [Next]_vars => Handshake'
  <1> SUFFICES ASSUME Handshake, [Next]_vars PROVE Handshake'
    OBVIOUS
  <1>1. CASE UNCHANGED vars
    BY <1>1 DEF vars, Handshake, Types, BlockCounts, Holders, GcAlone,
       SweepExcludesReaders, Inside, Dereferenced, Star
  <1>2. ASSUME NEW f \in Frame, Call(f) \/ Step(f) PROVE Handshake'
    BY <1>2, TypesStep, BlockCountsStep, GcAloneStep, SweepStep, DereferencedStep
       DEF Handshake
  <1> QED
    BY <1>1, <1>2 DEF Next, Terminated

THEOREM HandshakeHolds == Spec => []Handshake
  BY HandshakeInit, HandshakeStep, PTL DEF Spec

\* Every variable of the list has its type; in particular block_gc_, an
\* unsigned counter in the code, never falls below zero.
THEOREM TypeCorrect == Spec => []TypeOK
  <1>1. Handshake => TypeOK
    <2> SUFFICES ASSUME Handshake PROVE block \in Nat
      BY DEF Handshake, Types, TypeOK
    <2>1. IsFiniteSet(Holders)
      BY FrameFinite, FS_Subset DEF Holders
    <2> QED
      BY <2>1, FS_CardinalityType DEF Handshake, BlockCounts
  <1> QED
    BY <1>1, HandshakeHolds, PTL

\* gc_blocker keeps every method out of the list while gc() changes it, with
\* any number of threads and any depth of nested calls.
THEOREM SweepIsExclusive == Spec => []SweepExcludesReaders
  <1>1. Handshake => SweepExcludesReaders
    BY DEF Handshake
  <1> QED
    BY <1>1, HandshakeHolds, PTL
=============================================================================
