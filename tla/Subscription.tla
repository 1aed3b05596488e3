---------------------------- MODULE Subscription ----------------------------
(***************************************************************************)
(* Subscriptions (include/third_party/observable/subscription.hpp) and the *)
(* subject that hands them out (subject.hpp).                              *)
(*                                                                         *)
(* A handle (infinite_subscription, unique_subscription, and what the      *)
(* copies of a shared_subscription share) holds a functor, called here by  *)
(* the observer that it removes, and an atomic flag.  The functor locks a  *)
(* weak pointer to the subject's collection.  Threads call unsubscribe()   *)
(* and release() in parallel, as the documentation allows; a handle that a *)
(* thread moves, assigns or destroys is used by no other thread.  Insert() *)
(* and remove() are one step here: Collection has them.                    *)
(***************************************************************************)
EXTENDS Naturals, FiniteSets

CONSTANTS
  Thread,
  Handle,      \* objects of the two classes, and of what is shared
  Copy,        \* shared_subscription objects
  Observer,    \* the observers, one for each call of subscribe()
  Heap,        \* the collections that the subject may create
  None,
  Overlap      \* whether release() and unsubscribe() may overlap on a handle

ASSUME SubscriptionAssumption ==
  /\ None \notin Handle \cup Heap \cup Observer
  /\ Overlap \in BOOLEAN

VARIABLES
  observers_,  \* the subject's collection, None if there is no subject
  locks,       \* of a thread: the collection that its functor has locked
  freed,       \* the collections that have been destroyed
  in,          \* of an observer: its collection, None before it subscribes
  subscribed,  \* the observers that are in their collections
  kind,        \* of a handle: "none", "infinite", "unique" or "shared"
  functor,     \* unsubscribe_: an observer, or None for a functor without effect
  called_,     \* the flag: "clear", "set", or "null" if it was moved from
  shares,      \* of a copy: the handle that it shares
  pc, at, todo,     \* of a thread: its place, its handle, what it removes
  released,    \* functors that release() has returned
  abandoned,   \* history: observers whose functor was dropped and not called
  done         \* history: observers whose handle has called its functor

subject == <<observers_, locks, freed, in, subscribed>>
handles == <<kind, functor, called_, shares>>
threads == <<pc, at, todo>>
history == <<released, abandoned, done>>
vars    == <<subject, handles, threads, history>>

Init ==
  /\ observers_ = None /\ locks = [t \in Thread |-> None] /\ freed = {}
  /\ in = [d \in Observer |-> None] /\ subscribed = {}
  /\ kind = [h \in Handle |-> "none"] /\ functor = [h \in Handle |-> None]
  /\ called_ = [h \in Handle |-> "clear"] /\ shares = [c \in Copy |-> None]
  /\ pc = [t \in Thread |-> "idle"] /\ at = [t \in Thread |-> None]
  /\ todo = [t \in Thread |-> None]
  /\ released = {} /\ abandoned = {} /\ done = {}

Unused(h) == \A t \in Thread : at[t] # h
Mine(h) == kind[h] \in {"infinite", "unique"}

(***************************************************************************)
(* The subject.                                                            *)
(***************************************************************************)
\* A collection is destroyed with its observers by whoever lets go of it last.
Frees(c) ==
  /\ freed' = freed \cup {c}
  /\ subscribed' = {d \in subscribed : in[d] # c}

\* The subject is created, destroyed, or another one is moved into it.
Reseat(c) ==
  /\ c # observers_ /\ c \notin freed /\ \A d \in Observer : c # None => in[d] # c
  /\ observers_' = c
  /\ IF observers_ # None /\ \A t \in Thread : locks[t] # observers_
       THEN Frees(observers_) ELSE UNCHANGED <<freed, subscribed>>
  /\ UNCHANGED <<locks, in, handles, threads, history>>

\* subject::subscribe(), and subscribe_and_call() once the observer returns.
Subscribe(d, h) ==
  /\ observers_ # None /\ in[d] = None /\ kind[h] = "none"
  /\ in' = [in EXCEPT ![d] = observers_] /\ subscribed' = subscribed \cup {d}
  /\ kind' = [kind EXCEPT ![h] = "infinite"] /\ functor' = [functor EXCEPT ![h] = d]
  /\ called_' = [called_ EXCEPT ![h] = "clear"]
  /\ UNCHANGED <<observers_, locks, freed, shares, threads, history>>

(***************************************************************************)
(* unsubscribe(), also as called by the destructors.                       *)
(***************************************************************************)
Start(t, h, place) ==
  /\ pc[t] = "idle"
  /\ pc' = [pc EXCEPT ![t] = place] /\ at' = [at EXCEPT ![t] = h]
  /\ todo' = [todo EXCEPT ![t] = None]

Finish(t) ==
  /\ pc' = [pc EXCEPT ![t] = "idle"] /\ at' = [at EXCEPT ![t] = None]
  /\ todo' = [todo EXCEPT ![t] = None]

\* A destructor that has finished leaves an object that is no longer there.
Leave(t) ==
  /\ Finish(t)
  /\ kind' = [h \in Handle |-> IF h = at[t] /\ kind[h] = "dying" THEN "none" ELSE kind[h]]

\* Outside of the documented parallel use, release() has its handle alone.
NoSwap(h) == \A t \in Thread : at[t] = h => pc[t] # "swap"

Unsubscribe(t, h) ==
  /\ Mine(h) /\ (Overlap \/ NoSwap(h))
  /\ Start(t, h, "test")
  /\ UNCHANGED <<subject, handles, history>>

\* Mutant: the flag is only set when the functor has returned.
Test_Late(t, flag) == called_

\* test_and_set()
Test(t, flag) == [called_ EXCEPT ![at[t]] = flag]

\* Nothing happens if the handle was moved from, or if the flag was set.
Refused(t) ==
  /\ pc[t] = "test" /\ called_[at[t]] # "clear"
  /\ Leave(t)
  /\ UNCHANGED <<subject, functor, called_, shares, history>>

Accepted(t) ==
  /\ pc[t] = "test" /\ called_[at[t]] = "clear"
  /\ called_' = Test(t, "set")
  /\ todo' = [todo EXCEPT ![t] = functor[at[t]]]
  /\ pc' = [pc EXCEPT ![t] = "invoke"]
  /\ UNCHANGED <<subject, kind, functor, shares, at, history>>

\* The handle of t, if it has one, has called its functor.
Called(t) == done' = IF at[t] = None THEN done ELSE done \cup ({todo[t]} \ {None})

\* The functor has no effect, or its weak pointer has expired.
InvokeVain(t) ==
  /\ pc[t] = "invoke" /\ (todo[t] # None => in[todo[t]] \in freed)
  /\ Called(t) /\ Leave(t)
  /\ UNCHANGED <<subject, functor, called_, shares, released, abandoned>>

\* Mutant: the functor takes a plain pointer.
Lock_Plain(t) == locks

Lock(t) == [locks EXCEPT ![t] = in[todo[t]]]

InvokeLocks(t) ==
  /\ pc[t] = "invoke" /\ todo[t] # None /\ in[todo[t]] \notin freed
  /\ locks' = Lock(t)
  /\ pc' = [pc EXCEPT ![t] = "remove"]
  /\ UNCHANGED <<observers_, freed, in, subscribed, handles, at, todo, history>>

\* Mutant: the flag stays set.
Cleared_Not(t) == called_

Cleared(t) == [called_ EXCEPT ![at[t]] = "clear"]

\* A functor may throw: the flag is cleared, so that the call can be repeated.
\* (Thrown out of a destructor, it terminates the program.)
InvokeThrows(t) ==
  /\ pc[t] = "invoke" /\ todo[t] # None /\ at[t] # None /\ Mine(at[t])
  /\ called_' = Cleared(t)
  /\ Finish(t)
  /\ UNCHANGED <<subject, kind, functor, shares, history>>

Remove(t) ==
  /\ pc[t] = "remove"
  /\ subscribed' = subscribed \ {todo[t]}
  /\ Called(t)
  /\ pc' = [pc EXCEPT ![t] = "unlock"]
  /\ UNCHANGED <<observers_, locks, freed, in, handles, at, todo, released, abandoned>>

\* Mutant: the lock is kept.
Unlocked_Not(t) == locks

Unlocked(t) == [locks EXCEPT ![t] = None]

Unlock(t) ==
  /\ pc[t] = "unlock"
  /\ locks' = Unlocked(t)
  /\ IF locks[t] # observers_ /\ \A u \in Thread \ {t} : locks[u] # locks[t]
       THEN Frees(locks[t]) ELSE UNCHANGED <<freed, subscribed>>
  /\ Leave(t)
  /\ UNCHANGED <<observers_, in, functor, called_, shares, history>>

(***************************************************************************)
(* release(): swaps the functor for one without effect and returns it.     *)
(***************************************************************************)
Release(t, h) ==
  /\ Mine(h) /\ (Overlap \/ Unused(h))
  /\ Start(t, h, "swap")
  /\ UNCHANGED <<subject, handles, history>>

Swap(t) ==
  /\ pc[t] = "swap"
  /\ functor' = [functor EXCEPT ![at[t]] = None]
  /\ released' = released \cup ({functor[at[t]]} \ {None})
  /\ Leave(t)
  /\ UNCHANGED <<subject, called_, shares, abandoned, done>>

\* The functor returned is called.
CallReleased(t, d) ==
  /\ pc[t] = "idle"
  /\ pc' = [pc EXCEPT ![t] = "invoke"] /\ todo' = [todo EXCEPT ![t] = d]
  /\ UNCHANGED <<subject, handles, at, history>>

(***************************************************************************)
(* Destructors, moves and shared_subscription.                             *)
(***************************************************************************)
\* The observer that nobody removes if what h holds is dropped.
Dropped(h) == IF kind[h] # "none" /\ called_[h] = "clear" THEN {functor[h]} \ {None} ELSE {}

\* ~infinite_subscription()
DestroyInfinite(h) ==
  /\ kind[h] = "infinite" /\ Unused(h)
  /\ kind' = [kind EXCEPT ![h] = "none"]
  /\ abandoned' = abandoned \cup Dropped(h)
  /\ UNCHANGED <<subject, functor, called_, shares, threads, released, done>>

\* Mutant: the destructor of the base class is all there is.
Dying_AtOnce(h) == [kind EXCEPT ![h] = "none"]

Dying(h) == [kind EXCEPT ![h] = "dying"]

\* ~unique_subscription() calls unsubscribe().
DestroyUnique(t, h) ==
  /\ kind[h] = "unique" /\ Unused(h)
  /\ kind' = Dying(h)
  /\ Start(t, h, "test")
  /\ UNCHANGED <<subject, functor, called_, shares, history>>

\* A default-constructed handle has a functor without effect.
Construct(h) ==
  /\ kind[h] = "none"
  /\ \E class \in {"infinite", "unique"} : kind' = [kind EXCEPT ![h] = class]
  /\ functor' = [functor EXCEPT ![h] = None] /\ called_' = [called_ EXCEPT ![h] = "clear"]
  /\ UNCHANGED <<subject, shares, threads, history>>

\* What g holds moves into h, whose own functor is dropped without a call.
MoveInto(h, g, class) ==
  /\ Mine(g) /\ h # g /\ Unused(g) /\ Unused(h)
  /\ kind' = [kind EXCEPT ![h] = class]
  /\ functor' = [functor EXCEPT ![h] = functor[g], ![g] = None]
  /\ called_' = [called_ EXCEPT ![h] = called_[g], ![g] = "null"]
  /\ abandoned' = abandoned \cup Dropped(h)
  /\ UNCHANGED <<subject, threads, released, done>>

Move(h, g) ==
  /\ \E class \in {"infinite", "unique"} :
       kind[h] \in {"none", class} /\ MoveInto(h, g, class)
  /\ UNCHANGED shares

\* shared_subscription(infinite_subscription &&)
MakeShared(c, h, g) ==
  /\ shares[c] = None /\ kind[h] = "none" /\ MoveInto(h, g, "shared")
  /\ shares' = [shares EXCEPT ![c] = h]

CopyShared(c, b) ==
  /\ shares[c] = None /\ shares[b] # None
  /\ shares' = [shares EXCEPT ![c] = shares[b]]
  /\ UNCHANGED <<subject, kind, functor, called_, threads, history>>

\* shared_subscription::unsubscribe(), and its destructor: the last of the
\* copies destroys what they share.
Reset(t, c) ==
  /\ pc[t] = "idle" /\ shares[c] # None
  /\ shares' = [shares EXCEPT ![c] = None]
  /\ IF \E b \in Copy \ {c} : shares[b] = shares[c]
       THEN UNCHANGED <<kind, threads>>
       ELSE kind' = Dying(shares[c]) /\ Start(t, shares[c], "test")
  /\ UNCHANGED <<subject, functor, called_, history>>

-----------------------------------------------------------------------------
\* A call that a thread has begun goes on.
Continue(t) ==
  \/ Refused(t) \/ Accepted(t) \/ InvokeVain(t) \/ InvokeLocks(t)
  \/ Remove(t) \/ Unlock(t) \/ Swap(t)

Begin(t) ==
  \/ \E h \in Handle : Unsubscribe(t, h) \/ Release(t, h) \/ DestroyUnique(t, h)
  \/ \E d \in released : CallReleased(t, d)
  \/ \E c \in Copy : Reset(t, c)

Next ==
  \/ \E t \in Thread : Continue(t) \/ Begin(t) \/ InvokeThrows(t)
  \/ \E c \in Heap \cup {None} : Reseat(c)
  \/ \E h \in Handle :
       \/ Construct(h) \/ DestroyInfinite(h)
       \/ \E d \in Observer : Subscribe(d, h)
       \/ \E g \in Handle : Move(h, g) \/ \E c \in Copy : MakeShared(c, h, g)
  \/ \E c, b \in Copy : CopyShared(c, b)

Spec == Init /\ [][Next]_vars

\* Threads are scheduled fairly.
FairSpec == Spec /\ \A t \in Thread : WF_vars(Continue(t))
-----------------------------------------------------------------------------
(***************************************************************************)
(* Properties.                                                             *)
(***************************************************************************)
\* Every variable has its type; a thread holds a lock in its functor only, and
\* a shared handle is one that copies share.
TypeOK ==
  /\ observers_ \in (Heap \ freed) \cup {None} /\ freed \subseteq Heap
  /\ locks \in [Thread -> Heap \cup {None}]
  /\ in \in [Observer -> Heap \cup {None}] /\ subscribed \subseteq Observer
  /\ kind \in [Handle -> {"none", "infinite", "unique", "shared", "dying"}]
  /\ functor \in [Handle -> Observer \cup {None}]
  /\ called_ \in [Handle -> {"clear", "set", "null"}]
  /\ shares \in [Copy -> Handle \cup {None}]
  /\ pc \in [Thread -> {"idle", "test", "invoke", "remove", "unlock", "swap"}]
  /\ at \in [Thread -> Handle \cup {None}] /\ todo \in [Thread -> Observer \cup {None}]
  /\ released \subseteq Observer /\ abandoned \subseteq Observer
  /\ done \subseteq Observer
  /\ \A t \in Thread : locks[t] # None => pc[t] \in {"remove", "unlock"}
  /\ \A h \in Handle : kind[h] = "shared" <=> \E c \in Copy : shares[c] = h

\* The functor of subscribe() outlives the subject: while it removes its
\* observer, the collection is there, even if the subject has been destroyed
\* or replaced in between.
CollectionOutlivesRemove ==
  \A t \in Thread : pc[t] = "remove" => in[todo[t]] \notin freed

\* "Only the first call of this method will have an effect": no two threads
\* are in the functor of a handle, and none calls it when it has been called.
CalledOnce ==
  LET Past == {t \in Thread : at[t] # None /\ pc[t] \in {"invoke", "remove", "unlock"}}
  IN  /\ \A t, u \in Past : at[t] = at[u] => t = u
      /\ \A t \in Past : pc[t] = "invoke" /\ todo[t] # None => todo[t] \notin done

\* "Unsubscribe the associated observer when destroyed": an observer that is
\* subscribed can be removed by a handle that exists, by a functor that
\* release() returned, or is being removed; unless its functor was dropped, by
\* ~infinite_subscription() or by an assignment over its handle.
NoneStranded ==
  \A d \in subscribed :
    \/ d \in released \cup abandoned
    \/ \E h \in Handle : kind[h] # "none" /\ functor[h] = d /\ called_[h] = "clear"
    \/ \E t \in Thread : todo[t] = d /\ pc[t] \in {"invoke", "remove"}

\* A call of unsubscribe() that found the flag set may return before the
\* observer is removed, but a flag that is set means that it will be, unless
\* the functor throws, which clears the flag.
SetMeansRemoved ==
  \A h \in Handle, d \in Observer :
    called_[h] = "set" /\ functor[h] = d ~> d \notin subscribed \/ called_[h] # "set"

\* unique_subscription: "All methods of this class can be safely called in
\* parallel, from multiple threads": no thread replaces unsubscribe_ while
\* another thread tests or calls it.
NoDataRace ==
  \A t, u \in Thread : 
    t # u /\ pc[t] = "swap" /\ kind[at[t]] = "unique" => at[u] # at[t]
=============================================================================
