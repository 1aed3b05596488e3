----------------------------- MODULE Collection -----------------------------
(***************************************************************************)
(* observable::detail::collection, the lock-free linked list in which      *)
(* every observable::subject keeps its observers                           *)
(* (include/third_party/observable/detail/collection.hpp).                 *)
(*                                                                         *)
(* One action is one atomic operation of the code (or one run of reads     *)
(* that nothing can interleave with).  A node is named by its node_id; the *)
(* next pointers, head_, block_gc_, gc_active_ and last_id_ are those of   *)
(* the class.  The methods are reentrant, so an activation record is a     *)
(* frame <<thread, depth>>: a frame of depth d + 1 is a call made from the *)
(* functor that apply() is running at depth d, or from the destructor of   *)
(* the element that gc() is deleting there.                                *)
(***************************************************************************)
EXTENDS Naturals, FiniteSets

CONSTANTS
  Thread,       \* threads that use the collection
  Mutator,      \* those of them that call insert(), remove() or gc()
  Depth,        \* bound on nested calls per thread
  MaxId,        \* bound on last_id_: how many elements are ever inserted
  DtorUnsub     \* may the destructor of an element call remove()?

ASSUME CollectionAssumption ==
  /\ IsFiniteSet(Thread)
  /\ Mutator \subseteq Thread
  /\ Depth \in Nat \ {0}
  /\ MaxId \in Nat
  /\ DtorUnsub \in BOOLEAN

NULL  == 0                      \* nullptr
Id    == 1..MaxId               \* node ids; also the names of the nodes
Link  == Id \cup {NULL}
Frame == Thread \X (1..Depth)

VARIABLES
  head,       \* head_
  next,       \* node::next, of every node
  deleted,    \* the nodes whose deleted flag is set
  freed,      \* the nodes that gc() has deleted
  last,       \* last_id_
  block,      \* block_gc_
  active,     \* gc_active_
  gone,       \* ~collection() has returned
  pc,         \* where a frame stands; "idle" when it is not in use
  op,         \* the method the frame runs
  node,       \* insert: the new node; remove: the element_id argument
  cur,        \* loop variable n of remove, apply, empty and ~collection; d in gc
  first,      \* gc: the local variable head
  prev        \* gc: the node whose next field p points to; NULL if p = &head

shared == <<head, next, deleted, freed, last, block, active, gone>>
vars   == <<head, next, deleted, freed, last, block, active, gone,
            pc, op, node, cur, first, prev>>

Ops == {"none", "insert", "remove", "apply", "empty", "destroy"}

PCs == {"idle", "enter", "spin", "leave",
        "insert_load", "insert_cas",
        "remove_load", "remove_walk",
        "apply_load", "apply_walk", "apply_call", "apply_run",
        "empty_load", "empty_test",
        "destroy_walk",
        "gc_enter", "gc_claim", "gc_load", "gc_test", "gc_step",
        "gc_delete", "gc_store", "gc_done"}

Init ==
  /\ head = NULL /\ next = [n \in Id |-> NULL]
  /\ deleted = {} /\ freed = {} /\ last = 0
  /\ block = 0 /\ active = FALSE /\ gone = FALSE
  /\ pc    = [f \in Frame |-> "idle"]
  /\ op    = [f \in Frame |-> "none"]
  /\ node  = [f \in Frame |-> NULL]
  /\ cur   = [f \in Frame |-> NULL]
  /\ first = [f \in Frame |-> NULL]
  /\ prev  = [f \in Frame |-> NULL]

(***************************************************************************)
(* Frames.                                                                 *)
(***************************************************************************)
Goto(f, label) == pc' = [pc EXCEPT ![f] = label]

\* The frame returns: its locals die with it.
Return(f) ==
  /\ Goto(f, "idle")
  /\ op'    = [op    EXCEPT ![f] = "none"]
  /\ node'  = [node  EXCEPT ![f] = NULL]
  /\ cur'   = [cur   EXCEPT ![f] = NULL]
  /\ first' = [first EXCEPT ![f] = NULL]
  /\ prev'  = [prev  EXCEPT ![f] = NULL]

NoCallee(f) == <<f[1], f[2] + 1>> \in Frame => pc[<<f[1], f[2] + 1>>] = "idle"

\* ~collection() has begun; from here on the caller makes no other call.
Dying == gone \/ \E f \in Frame : op[f] = "destroy"

\* May the code that runs at frame f call a method of the collection?
CanCall(f) ==
  /\ pc[f] = "idle" /\ ~Dying
  /\ f[2] > 1 => pc[<<f[1], f[2] - 1>>] = "apply_run"

\* ... or the destructor of the element that gc() deletes one frame below?
CanCallFromDtor(f) ==
  /\ DtorUnsub /\ pc[f] = "idle" /\ ~Dying
  /\ f[2] > 1 /\ pc[<<f[1], f[2] - 1>>] = "gc_delete"

\* The frame begins method o with argument (or new node) n.
Begin(f, o, n, label) ==
  /\ Goto(f, label)
  /\ op'   = [op   EXCEPT ![f] = o]
  /\ node' = [node EXCEPT ![f] = n]

(***************************************************************************)
(* gc_blocker: the constructor announces itself, then waits for a running  *)
(* gc() to stop; the destructor withdraws.                                 *)
(***************************************************************************)
Body == [o \in Ops |->
           CASE o = "insert" -> "insert_load"
             [] o = "remove" -> "remove_load"
             [] o = "apply"  -> "apply_load"
             [] OTHER        -> "empty_load"]

\* Mutant: the constructor does not announce itself.
Enter_Uncounted(f) ==
  /\ pc[f] = "enter"
  /\ Goto(f, "spin")
  /\ UNCHANGED <<shared, op, node, cur, first, prev>>

Enter(f) ==
  /\ pc[f] = "enter"
  /\ block' = block + 1
  /\ Goto(f, "spin")
  /\ UNCHANGED <<head, next, deleted, freed, last, active, gone,
                 op, node, cur, first, prev>>

\* Mutant: it does not wait.
Spin_NoWait(f) ==
  /\ pc[f] = "spin"
  /\ Goto(f, Body[op[f]])
  /\ UNCHANGED <<shared, op, node, cur, first, prev>>

Spin(f) ==
  /\ pc[f] = "spin" /\ ~active
  /\ Goto(f, Body[op[f]])
  /\ UNCHANGED <<shared, op, node, cur, first, prev>>

\* insert() and remove() go on to gc(); apply() and empty() return.
Leave(f) ==
  /\ pc[f] = "leave"
  /\ block' = block - 1
  /\ \/ /\ op[f] \in {"insert", "remove"}
        /\ Goto(f, "gc_enter")
        /\ UNCHANGED <<op, node, cur, first, prev>>
     \/ op[f] \in {"apply", "empty"} /\ Return(f)
  /\ UNCHANGED <<head, next, deleted, freed, last, active, gone>>

(***************************************************************************)
(* insert()                                                                *)
(***************************************************************************)
Insert(f) ==
  /\ CanCall(f) /\ f[1] \in Mutator
  /\ last < MaxId
  /\ last' = last + 1
  /\ Begin(f, "insert", last + 1, "enter")
  /\ UNCHANGED <<head, next, deleted, freed, block, active, gone,
                 cur, first, prev>>

InsertLoad(f) ==
  /\ pc[f] = "insert_load"
  /\ next' = [next EXCEPT ![node[f]] = head]
  /\ Goto(f, "insert_cas")
  /\ UNCHANGED <<head, deleted, freed, last, block, active, gone,
                 op, node, cur, first, prev>>

\* Mutant: the retry compares with the head it first read.
InsertCas_NoReload(f) ==
  /\ pc[f] = "insert_cas" /\ head = next[node[f]]
  /\ head' = node[f]
  /\ Goto(f, "leave")
  /\ UNCHANGED <<next, deleted, freed, last, block, active, gone,
                 op, node, cur, first, prev>>

\* A failed compare_exchange_weak loads head_ into n->next; the loop retries.
InsertCas(f) ==
  /\ pc[f] = "insert_cas"
  /\ \/ /\ head = next[node[f]]
        /\ head' = node[f]
        /\ Goto(f, "leave")
        /\ UNCHANGED next
     \/ /\ head # next[node[f]]
        /\ next' = [next EXCEPT ![node[f]] = head]
        /\ UNCHANGED <<head, pc>>
  /\ UNCHANGED <<deleted, freed, last, block, active, gone,
                 op, node, cur, first, prev>>

(***************************************************************************)
(* remove(): marks the node; only gc() unlinks it.                         *)
(***************************************************************************)
Remove(f, id) ==
  /\ CanCall(f) \/ CanCallFromDtor(f)
  /\ f[1] \in Mutator
  /\ id <= last
  /\ Begin(f, "remove", id, "enter")
  /\ UNCHANGED <<shared, cur, first, prev>>

\* The three traversals start from head_.
Load(f, from, to) ==
  /\ pc[f] = from
  /\ cur' = [cur EXCEPT ![f] = head]
  /\ Goto(f, to)
  /\ UNCHANGED <<shared, op, node, first, prev>>

RemoveLoad(f) == Load(f, "remove_load", "remove_walk")

\* Mutant: the break stands outside the if.
RemoveWalk_FirstOnly(f) ==
  /\ pc[f] = "remove_walk"
  /\ deleted' = IF cur[f] # NULL /\ cur[f] = node[f]
                  THEN deleted \cup {cur[f]} ELSE deleted
  /\ Goto(f, "leave")
  /\ UNCHANGED <<head, next, freed, last, block, active, gone,
                 op, node, cur, first, prev>>

RemoveWalk(f) ==
  /\ pc[f] = "remove_walk"
  /\ \/ /\ cur[f] = NULL
        /\ Goto(f, "leave") /\ UNCHANGED <<cur, deleted>>
     \/ /\ cur[f] \notin {NULL, node[f]}
        /\ cur' = [cur EXCEPT ![f] = next[cur[f]]]
        /\ UNCHANGED <<pc, deleted>>
     \/ /\ cur[f] # NULL /\ cur[f] = node[f]
        /\ deleted' = deleted \cup {cur[f]}
        /\ Goto(f, "leave") /\ UNCHANGED cur
  /\ UNCHANGED <<head, next, freed, last, block, active, gone,
                 op, node, first, prev>>

(***************************************************************************)
(* apply(): calls the functor with each element that is not deleted.       *)
(***************************************************************************)
Apply(f) ==
  /\ CanCall(f)
  /\ Begin(f, "apply", NULL, "enter")
  /\ UNCHANGED <<shared, cur, first, prev>>

ApplyLoad(f) == Load(f, "apply_load", "apply_walk")

\* Mutant: the deleted flag is not looked at.
ApplyWalk_NoCheck(f) ==
  /\ pc[f] = "apply_walk"
  /\ Goto(f, IF cur[f] = NULL THEN "leave" ELSE "apply_call")
  /\ UNCHANGED <<shared, op, node, cur, first, prev>>

ApplyWalk(f) ==
  /\ pc[f] = "apply_walk"
  /\ \/ cur[f] = NULL /\ Goto(f, "leave") /\ UNCHANGED cur
     \/ /\ cur[f] # NULL /\ cur[f] \in deleted
        /\ cur' = [cur EXCEPT ![f] = next[cur[f]]]
        /\ UNCHANGED pc
     \/ /\ cur[f] # NULL /\ cur[f] \notin deleted
        /\ Goto(f, "apply_call") /\ UNCHANGED cur
  /\ UNCHANGED <<shared, op, node, first, prev>>

\* fun(n->element): the call is made after the deleted flag has been read.
ApplyCall(f) ==
  /\ pc[f] = "apply_call"
  /\ Goto(f, "apply_run")
  /\ UNCHANGED <<shared, op, node, cur, first, prev>>

\* The functor returns, or throws and unwinds through the gc_blocker.
ApplyReturn(f) ==
  /\ pc[f] = "apply_run" /\ NoCallee(f)
  /\ \/ /\ cur' = [cur EXCEPT ![f] = next[cur[f]]]
        /\ Goto(f, "apply_walk")
     \/ Goto(f, "leave") /\ UNCHANGED cur
  /\ UNCHANGED <<shared, op, node, first, prev>>

(***************************************************************************)
(* empty()                                                                 *)
(***************************************************************************)
Empty(f) ==
  /\ CanCall(f)
  /\ Begin(f, "empty", NULL, "enter")
  /\ UNCHANGED <<shared, cur, first, prev>>

EmptyLoad(f) == Load(f, "empty_load", "empty_test")

\* !h || h->deleted: the result changes nothing.
EmptyTest(f) ==
  /\ pc[f] = "empty_test"
  /\ Goto(f, "leave")
  /\ UNCHANGED <<shared, op, node, cur, first, prev>>

(***************************************************************************)
(* ~collection(): the owner of the last reference runs it, so no other     *)
(* call is in progress.                                                    *)
(***************************************************************************)
\* Mutant: the destructor relies on gc() alone.
Destroy_Unmarked(f) ==
  /\ ~Dying /\ \A g \in Frame : pc[g] = "idle"
  /\ f[2] = 1
  /\ Begin(f, "destroy", NULL, "gc_enter")
  /\ UNCHANGED <<shared, cur, first, prev>>

Destroy(f) ==
  /\ ~Dying /\ \A g \in Frame : pc[g] = "idle"
  /\ f[2] = 1
  /\ Begin(f, "destroy", NULL, "destroy_walk")
  /\ cur' = [cur EXCEPT ![f] = head]
  /\ UNCHANGED <<shared, first, prev>>

DestroyWalk(f) ==
  /\ pc[f] = "destroy_walk"
  /\ \/ /\ cur[f] = NULL
        /\ Goto(f, "gc_enter") /\ UNCHANGED <<cur, deleted>>
     \/ /\ cur[f] # NULL
        /\ deleted' = deleted \cup {cur[f]}
        /\ cur' = [cur EXCEPT ![f] = next[cur[f]]]
        /\ UNCHANGED pc
  /\ UNCHANGED <<head, next, freed, last, block, active, gone,
                 op, node, first, prev>>

(***************************************************************************)
(* gc()                                                                    *)
(***************************************************************************)
\* gc() returns, and with it the method that called it.
Finish(f) == Return(f) /\ gone' = (gone \/ op[f] = "destroy")

GcEnter(f) ==
  /\ pc[f] = "gc_enter"
  /\ \/ block > 0 /\ Finish(f)
     \/ /\ block = 0
        /\ Goto(f, "gc_claim")
        /\ UNCHANGED <<gone, op, node, cur, first, prev>>
  /\ UNCHANGED <<head, next, deleted, freed, last, block, active>>

\* gc_active_.exchange(true)
GcClaim(f) ==
  /\ pc[f] = "gc_claim"
  /\ active' = TRUE
  /\ \/ active /\ Finish(f)
     \/ /\ ~active
        /\ Goto(f, "gc_load")
        /\ UNCHANGED <<gone, op, node, cur, first, prev>>
  /\ UNCHANGED <<head, next, deleted, freed, last, block>>

GcLoad(f) ==
  /\ pc[f] = "gc_load"
  /\ first' = [first EXCEPT ![f] = head]
  /\ prev'  = [prev  EXCEPT ![f] = NULL]
  /\ Goto(f, "gc_test")
  /\ UNCHANGED <<shared, op, node, cur>>

\* The node *p.
Star(f) == IF prev[f] = NULL THEN first[f] ELSE next[prev[f]]

\* Mutant: the loop does not stop for a blocker that arrives late.
GcTest_Unblocked(f) ==
  /\ pc[f] = "gc_test"
  /\ Goto(f, IF Star(f) = NULL THEN "gc_done" ELSE "gc_step")
  /\ UNCHANGED <<shared, op, node, cur, first, prev>>

\* The loop condition: *p && block_gc_ == 0.
GcTest(f) ==
  /\ pc[f] = "gc_test"
  /\ \/ (Star(f) = NULL \/ block > 0) /\ Goto(f, "gc_done")
     \/ Star(f) # NULL /\ block = 0 /\ Goto(f, "gc_step")
  /\ UNCHANGED <<shared, op, node, cur, first, prev>>

\* Step over a node, or take it out of the list.
GcStep(f) ==
  /\ pc[f] = "gc_step"
  /\ \/ /\ Star(f) \notin deleted
        /\ prev' = [prev EXCEPT ![f] = Star(f)]
        /\ Goto(f, "gc_test")
        /\ UNCHANGED <<next, cur, first>>
     \/ /\ Star(f) \in deleted
        /\ cur' = [cur EXCEPT ![f] = Star(f)]
        /\ Goto(f, "gc_delete")
        /\ \/ /\ prev[f] = NULL
              /\ first' = [first EXCEPT ![f] = next[Star(f)]]
              /\ UNCHANGED next
           \/ /\ prev[f] # NULL
              /\ next' = [next EXCEPT ![prev[f]] = next[Star(f)]]
              /\ UNCHANGED first
        /\ UNCHANGED prev
  /\ UNCHANGED <<head, deleted, freed, last, block, active, gone, op, node>>

\* delete d: the destructor of the element has returned, the memory is freed.
GcDelete(f) ==
  /\ pc[f] = "gc_delete" /\ NoCallee(f)
  /\ freed' = freed \cup {cur[f]}
  /\ Goto(f, "gc_store")
  /\ UNCHANGED <<head, next, deleted, last, block, active, gone,
                 op, node, cur, first, prev>>

\* Mutant: head_ keeps pointing to the deleted node.
GcStore_Never(f) ==
  /\ pc[f] = "gc_store"
  /\ Goto(f, "gc_test")
  /\ UNCHANGED <<shared, op, node, cur, first, prev>>

\* Mutant: head_ is stored wherever p points.
GcStore_Always(f) ==
  /\ pc[f] = "gc_store"
  /\ head' = Star(f)
  /\ Goto(f, "gc_test")
  /\ UNCHANGED <<next, deleted, freed, last, block, active, gone,
                 op, node, cur, first, prev>>

\* if(p == &head) head_.store(*p)
GcStore(f) ==
  /\ pc[f] = "gc_store"
  /\ head' = IF prev[f] = NULL THEN first[f] ELSE head
  /\ Goto(f, "gc_test")
  /\ UNCHANGED <<next, deleted, freed, last, block, active, gone,
                 op, node, cur, first, prev>>

\* Mutant: gc_active_ is left set.
GcDone_StaysActive(f) ==
  /\ pc[f] = "gc_done"
  /\ Finish(f)
  /\ UNCHANGED <<head, next, deleted, freed, last, block, active>>

GcDone(f) ==
  /\ pc[f] = "gc_done"
  /\ active' = FALSE
  /\ Finish(f)
  /\ UNCHANGED <<head, next, deleted, freed, last, block>>

-----------------------------------------------------------------------------
Call(f) ==
  \/ Insert(f) \/ Apply(f) \/ Empty(f) \/ Destroy(f)
  \/ \E id \in Id : Remove(f, id)

Step(f) ==
  \/ Enter(f) \/ Spin(f) \/ Leave(f)
  \/ InsertLoad(f) \/ InsertCas(f)
  \/ RemoveLoad(f) \/ RemoveWalk(f)
  \/ ApplyLoad(f) \/ ApplyWalk(f) \/ ApplyCall(f) \/ ApplyReturn(f)
  \/ EmptyLoad(f) \/ EmptyTest(f)
  \/ DestroyWalk(f)
  \/ GcEnter(f) \/ GcClaim(f) \/ GcLoad(f) \/ GcTest(f) \/ GcStep(f)
  \/ GcDelete(f) \/ GcStore(f) \/ GcDone(f)

\* Nothing runs once the collection is destroyed.
Terminated == gone /\ UNCHANGED vars

Next == Terminated \/ \E f \in Frame : Call(f) \/ Step(f)

Spec == Init /\ [][Next]_vars

\* A thread inside a method keeps running it; nobody is obliged to call one.
FairSpec == Spec /\ \A f \in Frame : WF_vars(Step(f))
-----------------------------------------------------------------------------
(***************************************************************************)
(* Properties.                                                             *)
(***************************************************************************)
\* Every variable has its type.
TypeOK ==
  /\ head \in Link /\ next \in [Id -> Link]
  /\ deleted \subseteq Id /\ freed \subseteq Id
  /\ last \in 0..MaxId
  /\ block \in Nat /\ active \in BOOLEAN /\ gone \in BOOLEAN
  /\ pc \in [Frame -> PCs] /\ op \in [Frame -> Ops]
  /\ node \in [Frame -> Link] /\ cur \in [Frame -> Link]
  /\ first \in [Frame -> Link] /\ prev \in [Frame -> Link]

\* The frames that walk or change the list: past the gate of gc_blocker.
InsidePCs == {"insert_load", "insert_cas", "remove_load", "remove_walk",
              "apply_load", "apply_walk", "apply_call", "apply_run",
              "empty_load", "empty_test", "leave"}
Inside(f) == pc[f] \in InsidePCs

\* The frames that block_gc_ counts.
HoldPCs == InsidePCs \cup {"spin"}
Holders == {f \in Frame : pc[f] \in HoldPCs}

\* The frames that have won gc_active_; those that are about to unlink a
\* node, delete it, or write head_.
GcPCs    == {"gc_load", "gc_test", "gc_step", "gc_delete", "gc_store", "gc_done"}
SweepPCs == {"gc_step", "gc_delete", "gc_store"}

\* The handshake of gc_blocker with gc(): while gc() unlinks, deletes or
\* writes head_, no other call stands anywhere in the list.
SweepExcludesReaders ==
  \A f, g \in Frame : pc[f] \in SweepPCs => ~Inside(g)

\* The nodes a frame is about to dereference.
Touches(f) ==
  IF pc[f] \in {"insert_load", "insert_cas"} THEN {node[f]}
  ELSE IF pc[f] \in {"remove_walk", "apply_walk", "apply_call", "apply_run",
                     "empty_test", "destroy_walk", "gc_delete"} THEN {cur[f]}
  ELSE IF pc[f] \in {"gc_test", "gc_step"} THEN {prev[f], Star(f)}
  ELSE {}

\* No method touches a node that gc() has deleted: no apply() calls a dead
\* functor or follows a dead next pointer, and no node is deleted twice.
NoUseAfterFree == \A f \in Frame : Touches(f) \cap freed = {}

\* The elements whose insertion has taken effect, and those still subscribed.
Published == {n \in 1..last :
                \A f \in Frame : node[f] = n /\ op[f] = "insert" =>
                                   pc[f] \in {"leave", "gc_enter", "gc_claim"} \cup GcPCs}
Live == Published \ deleted

\* The nodes that the next pointers lead to, from a node on.
Reach[n \in Link] == IF n = NULL THEN {} ELSE {n} \cup Reach[next[n]]

\* An element that has been inserted and not removed can be reached from
\* head_, so that the next apply() calls it.
NoLostElement == Live \subseteq Reach[head]

\* A remove() that names an inserted element leaves it removed.
RemoveTakesEffect ==
  \A f \in Frame : op[f] = "remove" /\ pc[f] \in {"leave", "gc_enter"}
                     => node[f] \notin Live

\* An element whose remove() has marked it is not called any more.
RemovedIsNotCalled ==
  [][\A f \in Frame : pc[f] = "apply_call" /\ pc'[f] = "apply_run"
                        => cur[f] \notin deleted]_vars

\* The only thread that removes elements calls none that it has removed,
\* whatever its functors do and whoever else is notifying.
OwnRemovalHolds ==
  [][\A f \in Frame : Mutator \subseteq {f[1]} /\ pc[f] = "apply_call" /\ pc'[f] = "apply_run"
                        => cur[f] \notin deleted]_vars

\* ~collection() deletes every element: nothing that was inserted leaks.
DestroyFreesAll == gone => freed = 1..last

\* A call that waits in gc_blocker for gc() to stop is let in.
BlockerGetsIn == \A f \in Frame : pc[f] = "spin" ~> Inside(f)

\* Every method returns.
EveryCallReturns == \A f \in Frame : pc[f] # "idle" ~> pc[f] = "idle"
=============================================================================
