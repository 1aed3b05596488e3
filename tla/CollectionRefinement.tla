------------------------ MODULE CollectionRefinement ------------------------
(***************************************************************************)
(* The lock-free list implements ObserverSet, as long as one thread at a   *)
(* time inserts and removes; any number of threads may run apply().        *)
(*                                                                         *)
(* Linearisation points: insert() at its successful compare_exchange,      *)
(* remove() and ~collection() at the store to the deleted flag, apply() at *)
(* its load of head_, and a call of the functor at the load of the deleted *)
(* flag that lets it through.                                              *)
(***************************************************************************)
EXTENDS Collection

\* A frame is notifying from its load of head_ to the end of its walk.
Phase(f) ==
  CASE pc[f] = "apply_walk"                -> "notifying"
    [] pc[f] \in {"apply_call", "apply_run"} -> "calling"
    [] OTHER                               -> "idle"

\* What lies ahead of the frame in the list and is not deleted.
Todo(f) ==
  CASE Phase(f) = "notifying" -> Reach[cur[f]] \ deleted
    [] Phase(f) = "calling"   -> Reach[next[cur[f]]] \ deleted
    [] OTHER                  -> {}

Abstract == INSTANCE ObserverSet
  WITH Caller   <- Frame,
       Observer <- Id,
       used     <- Published,
       subs     <- Live,
       phase    <- [f \in Frame |-> Phase(f)],
       todo     <- [f \in Frame |-> Todo(f)]

\* Every execution of the list is one of the set of observers: each
\* notification calls every observer that stays subscribed exactly once, no
\* observer subscribed after the notification began, and none whose removal
\* precedes the load of its deleted flag.
ImplementsObserverSet == Abstract!Spec
=============================================================================
