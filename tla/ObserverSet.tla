---------------------------- MODULE ObserverSet ----------------------------
(***************************************************************************)
(* What a collection of observers promises its users, with no list, no     *)
(* reference counts and no garbage collection: a set of subscribed         *)
(* observers, and for every notification in progress the observers that it *)
(* still owes a call.  The promises are those of the notes in              *)
(* observable/detail/collection.hpp and observable/subject.hpp: an         *)
(* observer subscribed during a notification is not called by it, one that *)
(* is unsubscribed during it is not called any more, every other one is    *)
(* called exactly once.                                                    *)
(***************************************************************************)
CONSTANTS
  Caller,     \* activation records that may run a notification
  Observer    \* names for observers, each used for one subscription

VARIABLES
  used,       \* the observers that were ever subscribed
  subs,       \* those that are subscribed now
  phase,      \* of each caller: "idle", "notifying" or "calling"
  todo        \* the observers that each notification has yet to call

vars == <<used, subs, phase, todo>>

Init ==
  /\ used = {} /\ subs = {}
  /\ phase = [c \in Caller |-> "idle"]
  /\ todo  = [c \in Caller |-> {}]

Subscribe(o) ==
  /\ o \notin used
  /\ used' = used \cup {o}
  /\ subs' = subs \cup {o}
  /\ UNCHANGED <<phase, todo>>

Unsubscribe(o) ==
  /\ o \in subs
  /\ subs' = subs \ {o}
  /\ todo' = [c \in Caller |-> todo[c] \ {o}]
  /\ UNCHANGED <<used, phase>>

\* The observers to call are those subscribed when the notification begins.
NotifyBegin(c) ==
  /\ phase[c] = "idle"
  /\ phase' = [phase EXCEPT ![c] = "notifying"]
  /\ todo'  = [todo  EXCEPT ![c] = subs]
  /\ UNCHANGED <<used, subs>>

\* In an unspecified order.
NotifyCall(c, o) ==
  /\ phase[c] = "notifying" /\ o \in todo[c]
  /\ phase' = [phase EXCEPT ![c] = "calling"]
  /\ todo'  = [todo  EXCEPT ![c] = @ \ {o}]
  /\ UNCHANGED <<used, subs>>

CallReturns(c) ==
  /\ phase[c] = "calling"
  /\ phase' = [phase EXCEPT ![c] = "notifying"]
  /\ UNCHANGED <<used, subs, todo>>

\* An observer throws: the notification ends there.
CallThrows(c) ==
  /\ phase[c] = "calling"
  /\ phase' = [phase EXCEPT ![c] = "idle"]
  /\ todo'  = [todo  EXCEPT ![c] = {}]
  /\ UNCHANGED <<used, subs>>

\* Otherwise it ends when nobody is owed a call.
NotifyEnd(c) ==
  /\ phase[c] = "notifying" /\ todo[c] = {}
  /\ phase' = [phase EXCEPT ![c] = "idle"]
  /\ UNCHANGED <<used, subs, todo>>

Next ==
  \/ \E o \in Observer : Subscribe(o) \/ Unsubscribe(o)
  \/ \E c \in Caller :
       \/ NotifyBegin(c) \/ CallReturns(c) \/ CallThrows(c) \/ NotifyEnd(c)
       \/ \E o \in Observer : NotifyCall(c, o)

Spec == Init /\ [][Next]_vars
=============================================================================
