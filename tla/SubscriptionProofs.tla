------------------------- MODULE SubscriptionProofs -------------------------
(***************************************************************************)
(* Proofs about Subscription, for any set of threads, handles, copies,     *)
(* observers and collections, whether release() may overlap or not.        *)
(***************************************************************************)
EXTENDS Subscription, TLAPS

Functor == Observer \cup {None}

\* TypeOK without the two clauses that relate variables.
Types ==
  /\ observers_ \in (Heap \ freed) \cup {None} /\ freed \subseteq Heap
  /\ locks \in [Thread -> Heap \cup {None}]
  /\ in \in [Observer -> Heap \cup {None}] /\ subscribed \subseteq Observer
  /\ kind \in [Handle -> {"none", "infinite", "unique", "shared", "dying"}]
  /\ functor \in [Handle -> Functor]
  /\ called_ \in [Handle -> {"clear", "set", "null"}]
  /\ shares \in [Copy -> Handle \cup {None}]
  /\ pc \in [Thread -> {"idle", "test", "invoke", "remove", "unlock", "swap"}]
  /\ at \in [Thread -> Handle \cup {None}] /\ todo \in [Thread -> Functor]
  /\ released \subseteq Observer /\ abandoned \subseteq Observer
  /\ done \subseteq Observer

\* A handle is shared as long as a copy shares it.
SharedByCopies == \A h \in Handle : kind[h] = "shared" <=> \E c \in Copy : shares[c] = h

\* The handle that a thread uses exists, and is its own while it is destroyed.
HandlesInUse ==
  /\ \A t \in Thread :
       /\ pc[t] = "idle" => at[t] = None
       /\ pc[t] \in {"test", "swap"} => at[t] # None
       /\ pc[t] = "swap" => kind[at[t]] \in {"infinite", "unique"}
       /\ at[t] # None => kind[at[t]] \in {"infinite", "unique", "dying"}
       /\ todo[t] # None => pc[t] \in {"invoke", "remove", "unlock"}
  /\ \A t, u \in Thread : at[t] = at[u] /\ at[t] # None /\ kind[at[t]] = "dying" => t = u

\* A thread that has passed the flag of a handle
Passed(t) == at[t] # None /\ pc[t] \in {"invoke", "remove", "unlock"}

\* left it set, and so is the only one.
FlagGuards ==
  /\ \A t \in Thread : Passed(t) => called_[at[t]] = "set"
  /\ \A t, u \in Thread : Passed(t) /\ Passed(u) /\ at[t] = at[u] => t = u

\* A thread holds the lock of the collection from which it removes.
LocksHeld ==
  \A t \in Thread :
    /\ locks[t] # None <=> pc[t] \in {"remove", "unlock"}
    /\ locks[t] # None => todo[t] # None /\ locks[t] = in[todo[t]] /\ locks[t] \notin freed

\* Of every observer there is one functor: in one handle,
OneHandle == \A h, g \in Handle : functor[h] = functor[g] /\ functor[h] # None => h = g

\* not in another handle than that for which a thread calls it,
NotElsewhere ==
  \A t \in Thread, g \in Handle :
    at[t] # None /\ todo[t] # None /\ g # at[t] => functor[g] # todo[t]

\* not called for two handles,
OneCaller ==
  \A t, u \in Thread :
    at[t] # None /\ at[u] # None /\ todo[t] # None /\ todo[t] = todo[u] => at[t] = at[u]

\* and still there while it is called, or with the user after release().
NotLost ==
  \A t \in Thread :
    todo[t] # None =>
      /\ todo[t] \in released \/ (at[t] # None /\ functor[at[t]] = todo[t])
      /\ at[t] # None => functor[at[t]] \in {todo[t], None}

OneFunctor == OneHandle /\ NotElsewhere /\ OneCaller /\ NotLost

\* An observer that has not subscribed is nowhere.
Unknown ==
  \A d \in Observer : in[d] = None =>
    /\ d \notin subscribed \cup released \cup abandoned \cup done
    /\ \A h \in Handle : functor[h] # d
    /\ \A t \in Thread : todo[t] # d

\* An observer is subscribed to a collection that exists.
SubscribedInLive == \A d \in subscribed : in[d] # None /\ in[d] \notin freed

\* A functor is called again only where a throw has cleared the flag.
NotCalledYet ==
  /\ \A h \in Handle : called_[h] = "clear" /\ functor[h] # None => functor[h] \notin done
  /\ \A t \in Thread :
       at[t] # None /\ pc[t] = "invoke" /\ todo[t] # None => todo[t] \notin done

Inv ==
  /\ Types /\ SharedByCopies /\ HandlesInUse /\ FlagGuards /\ LocksHeld
  /\ OneFunctor /\ Unknown /\ SubscribedInLive /\ NotCalledYet /\ NoneStranded

-----------------------------------------------------------------------------
(* Every action keeps the invariant.                                      *)

\* The subject lets go of its collection, which lives on if a functor has it.
LEMMA ReseatKeeps ==
  ASSUME Inv, NEW c \in Heap \cup {None}, Reseat(c)
  PROVE  Inv'
  <1> USE SubscriptionAssumption DEF Inv, Types, Functor, Reseat, Frees,
         handles, threads, history
  <1>1. Types'
    OBVIOUS
  <1>2. SharedByCopies'
    BY DEF SharedByCopies
  <1>3. HandlesInUse'
    BY DEF HandlesInUse
  <1>4. FlagGuards'
    BY DEF FlagGuards, Passed
  <1>5. LocksHeld'
    BY DEF LocksHeld
  <1>6. OneFunctor'
    BY DEF OneFunctor, OneHandle, NotElsewhere, OneCaller, NotLost
  <1>7. Unknown'
    BY DEF Unknown
  <1>8. SubscribedInLive'
    BY DEF SubscribedInLive
  <1>9. NotCalledYet'
    BY DEF NotCalledYet
  <1>10. NoneStranded'
    BY DEF NoneStranded
  <1> QED
    BY <1>1, <1>2, <1>3, <1>4, <1>5, <1>6, <1>7, <1>8, <1>9, <1>10

\* A new handle for an observer that has none.
LEMMA SubscribeKeeps ==
  ASSUME Inv, NEW d \in Observer, NEW h \in Handle, Subscribe(d, h)
  PROVE  Inv'
  <1> USE SubscriptionAssumption DEF Inv, Types, Functor, Subscribe, threads,
         history
  <1>1. Types'
    OBVIOUS
  <1>2. SharedByCopies'
    BY DEF SharedByCopies
  <1>3. HandlesInUse'
    BY DEF HandlesInUse
  <1>4. FlagGuards'
    BY DEF FlagGuards, Passed, HandlesInUse
  <1>5. LocksHeld'
    BY DEF LocksHeld
  <1>6. OneFunctor'
    BY DEF OneFunctor, OneHandle, NotElsewhere, OneCaller, NotLost, Unknown,
           HandlesInUse
  <1>7. Unknown'
    BY DEF Unknown
  <1>8. SubscribedInLive'
    BY DEF SubscribedInLive
  <1>9. NotCalledYet'
    BY DEF NotCalledYet, Unknown
  <1>10. NoneStranded'
    BY DEF NoneStranded
  <1> QED
    BY <1>1, <1>2, <1>3, <1>4, <1>5, <1>6, <1>7, <1>8, <1>9, <1>10

\* A thread takes up a handle that is not being destroyed.
LEMMA UnsubscribeKeeps ==
  ASSUME Inv, NEW t \in Thread, NEW h \in Handle, Unsubscribe(t, h)
  PROVE  Inv'
  <1> USE SubscriptionAssumption DEF Inv, Types, Functor, Unsubscribe, Start,
         Mine, subject, handles, history
  <1>1. Types'
    OBVIOUS
  <1>2. SharedByCopies'
    BY DEF SharedByCopies
  <1>3. HandlesInUse'
    BY DEF HandlesInUse
  <1>4. FlagGuards'
    BY DEF FlagGuards, Passed
  <1>5. LocksHeld'
    BY DEF LocksHeld
  <1>6. OneFunctor'
    BY DEF OneFunctor, OneHandle, NotElsewhere, OneCaller, NotLost
  <1>7. Unknown'
    BY DEF Unknown
  <1>8. SubscribedInLive'
    BY DEF SubscribedInLive
  <1>9. NotCalledYet'
    BY DEF NotCalledYet
  <1>10. NoneStranded'
    BY DEF NoneStranded
  <1> QED
    BY <1>1, <1>2, <1>3, <1>4, <1>5, <1>6, <1>7, <1>8, <1>9, <1>10

\* The flag was set, or the handle has been moved from.
LEMMA RefusedKeeps ==
  ASSUME Inv, NEW t \in Thread, Refused(t)
  PROVE  Inv'
  <1> USE SubscriptionAssumption DEF Inv, Types, Functor, Refused, Leave,
         Finish, subject, history
  <1>1. Types'
    OBVIOUS
  <1>2. SharedByCopies'
    BY DEF SharedByCopies
  <1>3. HandlesInUse'
    BY DEF HandlesInUse
  <1>4. FlagGuards'
    BY DEF FlagGuards, Passed
  <1>5. LocksHeld'
    BY DEF LocksHeld
  <1>6. OneFunctor'
    BY DEF OneFunctor, OneHandle, NotElsewhere, OneCaller, NotLost
  <1>7. Unknown'
    BY DEF Unknown
  <1>8. SubscribedInLive'
    BY DEF SubscribedInLive
  <1>9. NotCalledYet'
    BY DEF NotCalledYet
  <1>10. NoneStranded'
    BY DEF NoneStranded
  <1> QED
    BY <1>1, <1>2, <1>3, <1>4, <1>5, <1>6, <1>7, <1>8, <1>9, <1>10

\* The flag was clear: the thread takes the functor out of the handle's reach.
LEMMA AcceptedKeeps ==
  ASSUME Inv, NEW t \in Thread, Accepted(t)
  PROVE  Inv'
  <1> USE SubscriptionAssumption DEF Inv, Types, Functor, Accepted, Test,
         subject, history
  <1>0. at[t] \in Handle /\ functor[at[t]] \in Functor
    BY DEF HandlesInUse
  <1>1. Types'
    BY <1>0
  <1>2. SharedByCopies'
    BY DEF SharedByCopies
  <1>3. HandlesInUse'
    BY DEF HandlesInUse
  <1>4. FlagGuards'
    BY DEF FlagGuards, Passed
  <1>5. LocksHeld'
    BY DEF LocksHeld
  <1>6. OneFunctor'
    BY DEF OneFunctor, OneHandle, NotElsewhere, OneCaller, NotLost, HandlesInUse
  <1>7. Unknown'
    BY <1>0 DEF Unknown
  <1>8. SubscribedInLive'
    BY DEF SubscribedInLive
  <1>9. NotCalledYet'
    BY DEF NotCalledYet
  <1>10. NoneStranded'
    BY DEF NoneStranded
  <1> QED
    BY <1>1, <1>2, <1>3, <1>4, <1>5, <1>6, <1>7, <1>8, <1>9, <1>10

\* The collection is gone, and the observer with it.
LEMMA InvokeVainKeeps ==
  ASSUME Inv, NEW t \in Thread, InvokeVain(t)
  PROVE  Inv'
  <1> USE SubscriptionAssumption DEF Inv, Types, Functor, InvokeVain, Called,
         Leave, Finish, subject
  <1>1. Types'
    OBVIOUS
  <1>2. SharedByCopies'
    BY DEF SharedByCopies
  <1>3. HandlesInUse'
    BY DEF HandlesInUse
  <1>4. FlagGuards'
    BY DEF FlagGuards, Passed
  <1>5. LocksHeld'
    BY DEF LocksHeld
  <1>6. OneFunctor'
    BY DEF OneFunctor, OneHandle, NotElsewhere, OneCaller, NotLost
  <1>7. Unknown'
    BY DEF Unknown
  <1>8. SubscribedInLive'
    BY DEF SubscribedInLive
  <1>9. NotCalledYet'
    BY DEF NotCalledYet, OneFunctor, NotElsewhere, OneCaller, FlagGuards, Passed
  <1>10. NoneStranded'
    BY DEF NoneStranded, SubscribedInLive, FlagGuards, Passed
  <1> QED
    BY <1>1, <1>2, <1>3, <1>4, <1>5, <1>6, <1>7, <1>8, <1>9, <1>10

\* The weak pointer is locked before the collection is used.
LEMMA InvokeLocksKeeps ==
  ASSUME Inv, NEW t \in Thread, InvokeLocks(t)
  PROVE  Inv'
  <1> USE SubscriptionAssumption DEF Inv, Types, Functor, InvokeLocks, Lock,
         handles, history
  <1>1. Types'
    OBVIOUS
  <1>2. SharedByCopies'
    BY DEF SharedByCopies
  <1>3. HandlesInUse'
    BY DEF HandlesInUse
  <1>4. FlagGuards'
    BY DEF FlagGuards, Passed
  <1>5. LocksHeld'
    BY DEF LocksHeld, Unknown
  <1>6. OneFunctor'
    BY DEF OneFunctor, OneHandle, NotElsewhere, OneCaller, NotLost
  <1>7. Unknown'
    BY DEF Unknown
  <1>8. SubscribedInLive'
    BY DEF SubscribedInLive
  <1>9. NotCalledYet'
    BY DEF NotCalledYet
  <1>10. NoneStranded'
    BY DEF NoneStranded
  <1> QED
    BY <1>1, <1>2, <1>3, <1>4, <1>5, <1>6, <1>7, <1>8, <1>9, <1>10

\* Only the thread that set the flag clears it.
LEMMA InvokeThrowsKeeps ==
  ASSUME Inv, NEW t \in Thread, InvokeThrows(t)
  PROVE  Inv'
  <1> USE SubscriptionAssumption DEF Inv, Types, Functor, InvokeThrows, Mine,
         Cleared, Finish, subject, history
  <1>1. Types'
    OBVIOUS
  <1>2. SharedByCopies'
    BY DEF SharedByCopies
  <1>3. HandlesInUse'
    BY DEF HandlesInUse
  <1>4. FlagGuards'
    BY DEF FlagGuards, Passed
  <1>5. LocksHeld'
    BY DEF LocksHeld
  <1>6. OneFunctor'
    BY DEF OneFunctor, OneHandle, NotElsewhere, OneCaller, NotLost
  <1>7. Unknown'
    BY DEF Unknown
  <1>8. SubscribedInLive'
    BY DEF SubscribedInLive
  <1>9. NotCalledYet'
    BY DEF NotCalledYet, OneFunctor, NotLost
  <1>10. NoneStranded'
    BY DEF NoneStranded, OneFunctor, NotLost
  <1> QED
    BY <1>1, <1>2, <1>3, <1>4, <1>5, <1>6, <1>7, <1>8, <1>9, <1>10

\* The observer is removed, and its functor has been called.
LEMMA RemoveKeeps ==
  ASSUME Inv, NEW t \in Thread, Remove(t)
  PROVE  Inv'
  <1> USE SubscriptionAssumption DEF Inv, Types, Functor, Remove, Called, handles
  <1>1. Types'
    OBVIOUS
  <1>2. SharedByCopies'
    BY DEF SharedByCopies
  <1>3. HandlesInUse'
    BY DEF HandlesInUse
  <1>4. FlagGuards'
    BY DEF FlagGuards, Passed
  <1>5. LocksHeld'
    BY DEF LocksHeld
  <1>6. OneFunctor'
    BY DEF OneFunctor, OneHandle, NotElsewhere, OneCaller, NotLost
  <1>7. Unknown'
    BY DEF Unknown
  <1>8. SubscribedInLive'
    BY DEF SubscribedInLive
  <1>9. NotCalledYet'
    BY DEF NotCalledYet, OneFunctor, NotElsewhere, OneCaller, FlagGuards, Passed
  <1>10. NoneStranded'
    BY DEF NoneStranded
  <1> QED
    BY <1>1, <1>2, <1>3, <1>4, <1>5, <1>6, <1>7, <1>8, <1>9, <1>10

\* The last lock may be what kept the collection.
LEMMA UnlockKeeps ==
  ASSUME Inv, NEW t \in Thread, Unlock(t)
  PROVE  Inv'
  <1> USE SubscriptionAssumption DEF Inv, Types, Functor, Unlock, Unlocked,
         Frees, Leave, Finish, history
  <1>1. Types'
    BY DEF LocksHeld
  <1>2. SharedByCopies'
    BY DEF SharedByCopies
  <1>3. HandlesInUse'
    BY DEF HandlesInUse
  <1>4. FlagGuards'
    BY DEF FlagGuards, Passed
  <1>5. LocksHeld'
    BY DEF LocksHeld
  <1>6. OneFunctor'
    BY DEF OneFunctor, OneHandle, NotElsewhere, OneCaller, NotLost
  <1>7. Unknown'
    BY DEF Unknown
  <1>8. SubscribedInLive'
    BY DEF SubscribedInLive
  <1>9. NotCalledYet'
    BY DEF NotCalledYet
  <1>10. NoneStranded'
    BY DEF NoneStranded, FlagGuards, Passed
  <1> QED
    BY <1>1, <1>2, <1>3, <1>4, <1>5, <1>6, <1>7, <1>8, <1>9, <1>10

\* release() does not touch the flag.
LEMMA ReleaseKeeps ==
  ASSUME Inv, NEW t \in Thread, NEW h \in Handle, Release(t, h)
  PROVE  Inv'
  <1> USE SubscriptionAssumption DEF Inv, Types, Functor, Release, Start, Mine,
         subject, handles, history
  <1>1. Types'
    OBVIOUS
  <1>2. SharedByCopies'
    BY DEF SharedByCopies
  <1>3. HandlesInUse'
    BY DEF HandlesInUse
  <1>4. FlagGuards'
    BY DEF FlagGuards, Passed
  <1>5. LocksHeld'
    BY DEF LocksHeld
  <1>6. OneFunctor'
    BY DEF OneFunctor, OneHandle, NotElsewhere, OneCaller, NotLost
  <1>7. Unknown'
    BY DEF Unknown
  <1>8. SubscribedInLive'
    BY DEF SubscribedInLive
  <1>9. NotCalledYet'
    BY DEF NotCalledYet
  <1>10. NoneStranded'
    BY DEF NoneStranded
  <1> QED
    BY <1>1, <1>2, <1>3, <1>4, <1>5, <1>6, <1>7, <1>8, <1>9, <1>10

\* The functor goes from the handle to the user.
LEMMA SwapKeeps ==
  ASSUME Inv, NEW t \in Thread, Swap(t)
  PROVE  Inv'
  <1> USE SubscriptionAssumption DEF Inv, Types, Functor, Swap, Leave, Finish,
         subject
  <1>0. at[t] \in Handle /\ functor[at[t]] \in Functor
    BY DEF HandlesInUse
  <1>1. Types'
    BY <1>0
  <1>2. SharedByCopies'
    BY DEF SharedByCopies
  <1>3. HandlesInUse'
    BY DEF HandlesInUse
  <1>4. FlagGuards'
    BY DEF FlagGuards, Passed
  <1>5. LocksHeld'
    BY DEF LocksHeld
  <1>6. OneFunctor'
    <2>1. OneHandle'
      BY DEF OneFunctor, OneHandle
    <2>2. NotElsewhere'
      BY DEF OneFunctor, NotElsewhere
    <2>3. OneCaller'
      BY DEF OneFunctor, OneCaller
    <2>4. NotLost'
      <3> SUFFICES ASSUME NEW u \in Thread, todo'[u] # None
                   PROVE  /\ todo'[u] \in released' \/ (at'[u] # None /\ functor'[at'[u]] = todo'[u])
                          /\ at'[u] # None => functor'[at'[u]] \in {todo'[u], None}
        BY DEF NotLost
      <3>1. u # t /\ todo'[u] = todo[u] /\ at'[u] = at[u]
        OBVIOUS
      <3>2. CASE at[u] = at[t]
        <4>1. /\ todo[u] \in released \/ (at[u] # None /\ functor[at[u]] = todo[u])
              /\ at[u] # None => functor[at[u]] \in {todo[u], None}
          BY <3>1 DEF OneFunctor, NotLost
        <4>2. released' = released \cup ({functor[at[u]]} \ {None}) /\ functor'[at[u]] = None
          BY <3>2, <1>0
        <4> QED
          BY <3>1, <4>1, <4>2
      <3>3. CASE at[u] # at[t]
        <4>1. at[u] # None => functor'[at[u]] = functor[at[u]]
          BY <3>3
        <4> QED
          BY <3>1, <4>1 DEF OneFunctor, NotLost
      <3> QED
        BY <3>2, <3>3
    <2> QED
      BY <2>1, <2>2, <2>3, <2>4 DEF OneFunctor
  <1>7. Unknown'
    BY <1>0 DEF Unknown
  <1>8. SubscribedInLive'
    BY DEF SubscribedInLive
  <1>9. NotCalledYet'
    BY DEF NotCalledYet
  <1>10. NoneStranded'
    BY DEF NoneStranded
  <1> QED
    BY <1>1, <1>2, <1>3, <1>4, <1>5, <1>6, <1>7, <1>8, <1>9, <1>10

\* The functor is the user's, and no handle has it.
LEMMA CallReleasedKeeps ==
  ASSUME Inv, NEW t \in Thread, NEW d \in released, CallReleased(t, d)
  PROVE  Inv'
  <1> USE SubscriptionAssumption DEF Inv, Types, Functor, CallReleased, subject,
         handles, history
  <1>1. Types'
    OBVIOUS
  <1>2. SharedByCopies'
    BY DEF SharedByCopies
  <1>3. HandlesInUse'
    BY DEF HandlesInUse
  <1>4. FlagGuards'
    BY DEF FlagGuards, Passed, HandlesInUse
  <1>5. LocksHeld'
    BY DEF LocksHeld
  <1>6. OneFunctor'
    <2>1. OneHandle'
      BY DEF OneFunctor, OneHandle
    <2>2. NotElsewhere'
      BY DEF OneFunctor, NotElsewhere, HandlesInUse
    <2>3. OneCaller'
      BY DEF OneFunctor, OneCaller, HandlesInUse
    <2>4. NotLost'
      <3> SUFFICES ASSUME NEW u \in Thread, todo'[u] # None
                   PROVE  /\ todo'[u] \in released \/ (at[u] # None /\ functor[at[u]] = todo'[u])
                          /\ at[u] # None => functor[at[u]] \in {todo'[u], None}
        BY DEF NotLost
      <3>1. CASE u = t
        <4>1. at[u] = None /\ todo'[u] = d /\ released' = released
          BY <3>1 DEF HandlesInUse
        <4> QED
          BY <4>1
      <3>2. CASE u # t
        BY <3>2 DEF OneFunctor, NotLost
      <3> QED
        BY <3>1, <3>2
    <2> QED
      BY <2>1, <2>2, <2>3, <2>4 DEF OneFunctor
  <1>7. Unknown'
    BY DEF Unknown
  <1>8. SubscribedInLive'
    BY DEF SubscribedInLive
  <1>9. NotCalledYet'
    BY DEF NotCalledYet, HandlesInUse
  <1>10. NoneStranded'
    BY DEF NoneStranded
  <1> QED
    BY <1>1, <1>2, <1>3, <1>4, <1>5, <1>6, <1>7, <1>8, <1>9, <1>10

\* What the handle held is dropped.
LEMMA DestroyInfiniteKeeps ==
  ASSUME Inv, NEW h \in Handle, DestroyInfinite(h)
  PROVE  Inv'
  <1> USE SubscriptionAssumption DEF Inv, Types, Functor, DestroyInfinite,
         Unused, Dropped, subject, threads
  <1>1. Types'
    OBVIOUS
  <1>2. SharedByCopies'
    BY DEF SharedByCopies
  <1>3. HandlesInUse'
    BY DEF HandlesInUse
  <1>4. FlagGuards'
    BY DEF FlagGuards, Passed
  <1>5. LocksHeld'
    BY DEF LocksHeld
  <1>6. OneFunctor'
    BY DEF OneFunctor, OneHandle, NotElsewhere, OneCaller, NotLost
  <1>7. Unknown'
    BY DEF Unknown
  <1>8. SubscribedInLive'
    BY DEF SubscribedInLive
  <1>9. NotCalledYet'
    BY DEF NotCalledYet
  <1>10. NoneStranded'
    BY DEF NoneStranded
  <1> QED
    BY <1>1, <1>2, <1>3, <1>4, <1>5, <1>6, <1>7, <1>8, <1>9, <1>10

\* The destructor has the handle alone.
LEMMA DestroyUniqueKeeps ==
  ASSUME Inv, NEW t \in Thread, NEW h \in Handle, DestroyUnique(t, h)
  PROVE  Inv'
  <1> USE SubscriptionAssumption DEF Inv, Types, Functor, DestroyUnique, Unused,
         Dying, Start, subject, history
  <1>1. Types'
    OBVIOUS
  <1>2. SharedByCopies'
    BY DEF SharedByCopies
  <1>3. HandlesInUse'
    BY DEF HandlesInUse
  <1>4. FlagGuards'
    BY DEF FlagGuards, Passed
  <1>5. LocksHeld'
    BY DEF LocksHeld
  <1>6. OneFunctor'
    BY DEF OneFunctor, OneHandle, NotElsewhere, OneCaller, NotLost
  <1>7. Unknown'
    BY DEF Unknown
  <1>8. SubscribedInLive'
    BY DEF SubscribedInLive
  <1>9. NotCalledYet'
    BY DEF NotCalledYet
  <1>10. NoneStranded'
    BY DEF NoneStranded
  <1> QED
    BY <1>1, <1>2, <1>3, <1>4, <1>5, <1>6, <1>7, <1>8, <1>9, <1>10

\* A functor without effect.
LEMMA ConstructKeeps ==
  ASSUME Inv, NEW h \in Handle, Construct(h)
  PROVE  Inv'
  <1> USE SubscriptionAssumption DEF Inv, Types, Functor, Construct, subject,
         threads, history
  <1>1. Types'
    OBVIOUS
  <1>2. SharedByCopies'
    BY DEF SharedByCopies
  <1>3. HandlesInUse'
    BY DEF HandlesInUse
  <1>4. FlagGuards'
    BY DEF FlagGuards, Passed, HandlesInUse
  <1>5. LocksHeld'
    BY DEF LocksHeld
  <1>6. OneFunctor'
    BY DEF OneFunctor, OneHandle, NotElsewhere, OneCaller, NotLost, HandlesInUse
  <1>7. Unknown'
    BY DEF Unknown
  <1>8. SubscribedInLive'
    BY DEF SubscribedInLive
  <1>9. NotCalledYet'
    BY DEF NotCalledYet
  <1>10. NoneStranded'
    BY DEF NoneStranded
  <1> QED
    BY <1>1, <1>2, <1>3, <1>4, <1>5, <1>6, <1>7, <1>8, <1>9, <1>10

\* The functor and the flag move together; what they replace is dropped.
LEMMA MoveKeeps ==
  ASSUME Inv, NEW h \in Handle, NEW g \in Handle, Move(h, g)
  PROVE  Inv'
  <1> USE SubscriptionAssumption DEF Inv, Types, Functor, Move, MoveInto, Mine,
         Unused, Dropped, subject, threads
  <1>1. Types'
    OBVIOUS
  <1>2. SharedByCopies'
    BY DEF SharedByCopies
  <1>3. HandlesInUse'
    BY DEF HandlesInUse
  <1>4. FlagGuards'
    BY DEF FlagGuards, Passed
  <1>5. LocksHeld'
    BY DEF LocksHeld
  <1>6. OneFunctor'
    <2>1. OneHandle'
      BY DEF OneFunctor, OneHandle
    <2>2. NotElsewhere'
      BY DEF OneFunctor, NotElsewhere
    <2>3. OneCaller'
      BY DEF OneFunctor, OneCaller
    <2>4. NotLost'
      <3> SUFFICES ASSUME NEW t \in Thread, todo[t] # None
                   PROVE  /\ todo[t] \in released \/ (at[t] # None /\ functor'[at[t]] = todo[t])
                          /\ at[t] # None => functor'[at[t]] \in {todo[t], None}
        BY DEF NotLost
      <3>1. /\ todo[t] \in released \/ (at[t] # None /\ functor[at[t]] = todo[t])
            /\ at[t] # None => functor[at[t]] \in {todo[t], None}
        BY DEF OneFunctor, NotLost
      <3>2. at[t] # None => functor'[at[t]] = functor[at[t]]
        OBVIOUS
      <3> QED
        BY <3>1, <3>2
    <2> QED
      BY <2>1, <2>2, <2>3, <2>4 DEF OneFunctor
  <1>7. Unknown'
    BY DEF Unknown
  <1>8. SubscribedInLive'
    BY DEF SubscribedInLive
  <1>9. NotCalledYet'
    BY DEF NotCalledYet
  <1>10. NoneStranded'
    BY DEF NoneStranded
  <1> QED
    BY <1>1, <1>2, <1>3, <1>4, <1>5, <1>6, <1>7, <1>8, <1>9, <1>10

\* As a move, into what the copies share.
LEMMA MakeSharedKeeps ==
  ASSUME Inv, NEW c \in Copy, NEW h \in Handle, NEW g \in Handle, MakeShared(c, h, g)
  PROVE  Inv'
  <1> USE SubscriptionAssumption DEF Inv, Types, Functor, MakeShared, MoveInto,
         Mine, Unused, Dropped, subject, threads
  <1>1. Types'
    OBVIOUS
  <1>2. SharedByCopies'
    BY DEF SharedByCopies
  <1>3. HandlesInUse'
    BY DEF HandlesInUse
  <1>4. FlagGuards'
    BY DEF FlagGuards, Passed
  <1>5. LocksHeld'
    BY DEF LocksHeld
  <1>6. OneFunctor'
    <2>1. OneHandle'
      BY DEF OneFunctor, OneHandle
    <2>2. NotElsewhere'
      BY DEF OneFunctor, NotElsewhere
    <2>3. OneCaller'
      BY DEF OneFunctor, OneCaller
    <2>4. NotLost'
      <3> SUFFICES ASSUME NEW t \in Thread, todo[t] # None
                   PROVE  /\ todo[t] \in released \/ (at[t] # None /\ functor'[at[t]] = todo[t])
                          /\ at[t] # None => functor'[at[t]] \in {todo[t], None}
        BY DEF NotLost
      <3>1. /\ todo[t] \in released \/ (at[t] # None /\ functor[at[t]] = todo[t])
            /\ at[t] # None => functor[at[t]] \in {todo[t], None}
        BY DEF OneFunctor, NotLost
      <3>2. at[t] # None => functor'[at[t]] = functor[at[t]]
        OBVIOUS
      <3> QED
        BY <3>1, <3>2
    <2> QED
      BY <2>1, <2>2, <2>3, <2>4 DEF OneFunctor
  <1>7. Unknown'
    BY DEF Unknown
  <1>8. SubscribedInLive'
    BY DEF SubscribedInLive
  <1>9. NotCalledYet'
    BY DEF NotCalledYet
  <1>10. NoneStranded'
    <2> SUFFICES ASSUME NEW d \in subscribed
                 PROVE  \/ d \in released \cup abandoned'
                        \/ \E k \in Handle : kind'[k] # "none" /\ functor'[k] = d /\ called_'[k] = "clear"
                        \/ \E t \in Thread : todo[t] = d /\ pc[t] \in {"invoke", "remove"}
      BY DEF NoneStranded
    <2>1. CASE \E k \in Handle : kind[k] # "none" /\ functor[k] = d /\ called_[k] = "clear"
      <3>1. PICK k \in Handle : kind[k] # "none" /\ functor[k] = d /\ called_[k] = "clear"
        BY <2>1
      <3>2. CASE k = g
        <4>1. kind'[h] # "none" /\ functor'[h] = d /\ called_'[h] = "clear"
          BY <3>1, <3>2
        <4> QED
          BY <4>1
      <3>3. CASE k # g
        <4>1. kind'[k] # "none" /\ functor'[k] = d /\ called_'[k] = "clear"
          BY <3>1, <3>3
        <4> QED
          BY <4>1
      <3> QED
        BY <3>2, <3>3
    <2>2. CASE ~\E k \in Handle : kind[k] # "none" /\ functor[k] = d /\ called_[k] = "clear"
      BY <2>2 DEF NoneStranded
    <2> QED
      BY <2>1, <2>2
  <1> QED
    BY <1>1, <1>2, <1>3, <1>4, <1>5, <1>6, <1>7, <1>8, <1>9, <1>10

\* One more copy shares the handle.
LEMMA CopySharedKeeps ==
  ASSUME Inv, NEW c \in Copy, NEW b \in Copy, CopyShared(c, b)
  PROVE  Inv'
  <1> USE SubscriptionAssumption DEF Inv, Types, Functor, CopyShared, subject,
         threads, history
  <1>1. Types'
    OBVIOUS
  <1>2. SharedByCopies'
    BY DEF SharedByCopies
  <1>3. HandlesInUse'
    BY DEF HandlesInUse
  <1>4. FlagGuards'
    BY DEF FlagGuards, Passed
  <1>5. LocksHeld'
    BY DEF LocksHeld
  <1>6. OneFunctor'
    BY DEF OneFunctor, OneHandle, NotElsewhere, OneCaller, NotLost
  <1>7. Unknown'
    BY DEF Unknown
  <1>8. SubscribedInLive'
    BY DEF SubscribedInLive
  <1>9. NotCalledYet'
    BY DEF NotCalledYet
  <1>10. NoneStranded'
    BY DEF NoneStranded
  <1> QED
    BY <1>1, <1>2, <1>3, <1>4, <1>5, <1>6, <1>7, <1>8, <1>9, <1>10

\* The last copy destroys what they shared.
LEMMA ResetKeeps ==
  ASSUME Inv, NEW t \in Thread, NEW c \in Copy, Reset(t, c)
  PROVE  Inv'
  <1> USE SubscriptionAssumption DEF Inv, Types, Functor, Reset, Dying, Start,
         subject, threads, history
  <1>1. Types'
    OBVIOUS
  <1>2. SharedByCopies'
    BY DEF SharedByCopies
  <1>3. HandlesInUse'
    BY DEF HandlesInUse, SharedByCopies
  <1>4. FlagGuards'
    BY DEF FlagGuards, Passed
  <1>5. LocksHeld'
    BY DEF LocksHeld
  <1>6. OneFunctor'
    <2>1. OneHandle'
      BY DEF OneFunctor, OneHandle
    <2>2. NotElsewhere'
      BY DEF OneFunctor, NotElsewhere
    <2>3. OneCaller'
      BY DEF OneFunctor, OneCaller
    <2>4. NotLost'
      BY DEF OneFunctor, NotLost
    <2> QED
      BY <2>1, <2>2, <2>3, <2>4 DEF OneFunctor
  <1>7. Unknown'
    BY DEF Unknown
  <1>8. SubscribedInLive'
    BY DEF SubscribedInLive
  <1>9. NotCalledYet'
    BY DEF NotCalledYet
  <1>10. NoneStranded'
    BY DEF NoneStranded
  <1> QED
    BY <1>1, <1>2, <1>3, <1>4, <1>5, <1>6, <1>7, <1>8, <1>9, <1>10

-----------------------------------------------------------------------------
LEMMA Invariance == Spec => []Inv
  <1>1. Init => Inv
    BY SubscriptionAssumption
       DEF Init, Inv, Types, Functor, SharedByCopies, HandlesInUse, FlagGuards,
              Passed,
           LocksHeld, OneFunctor, OneHandle, NotElsewhere, OneCaller, NotLost, Unknown,
           SubscribedInLive, NotCalledYet, NoneStranded
  <1>2. Inv /\ [Next]_vars => Inv'
    <2> SUFFICES ASSUME Inv, [Next]_vars PROVE Inv'
      OBVIOUS
    <2>1. ASSUME NEW t \in Thread, Continue(t) PROVE Inv'
      BY <2>1, RefusedKeeps, AcceptedKeeps, InvokeVainKeeps, InvokeLocksKeeps,
         RemoveKeeps, UnlockKeeps, SwapKeeps DEF Continue
    <2>2. ASSUME NEW t \in Thread, Begin(t) PROVE Inv'
      BY <2>2, UnsubscribeKeeps, ReleaseKeeps, DestroyUniqueKeeps, CallReleasedKeeps,
         ResetKeeps DEF Begin
    <2>3. ASSUME NEW t \in Thread, InvokeThrows(t) PROVE Inv'
      BY <2>3, InvokeThrowsKeeps
    <2>4. ASSUME NEW c \in Heap \cup {None}, Reseat(c) PROVE Inv'
      BY <2>4, ReseatKeeps
    <2>5. ASSUME NEW h \in Handle,
                 \/ Construct(h) \/ DestroyInfinite(h)
                 \/ \E d \in Observer : Subscribe(d, h)
                 \/ \E g \in Handle : Move(h, g) \/ \E c \in Copy : MakeShared(c, h, g)
          PROVE  Inv'
      BY <2>5, ConstructKeeps, DestroyInfiniteKeeps, SubscribeKeeps, MoveKeeps,
         MakeSharedKeeps
    <2>6. ASSUME NEW c \in Copy, NEW b \in Copy, CopyShared(c, b) PROVE Inv'
      BY <2>6, CopySharedKeeps
    <2>7. CASE UNCHANGED vars
      BY <2>7 DEF vars, subject, handles, threads, history, Inv, Types,
             SharedByCopies,
         HandlesInUse, FlagGuards, Passed, LocksHeld, OneFunctor, OneHandle, NotElsewhere,
         OneCaller, NotLost, Unknown,
         SubscribedInLive, NotCalledYet, NoneStranded
    <2> QED
      BY <2>1, <2>2, <2>3, <2>4, <2>5, <2>6, <2>7 DEF Next
  <1> QED
    BY <1>1, <1>2, PTL DEF Spec

\* The type invariant; a thread holds a lock in its functor only, and a handle
\* is shared exactly as long as a copy shares it.
THEOREM SubscriptionTypes == Spec => []TypeOK
  <1>1. Inv => TypeOK
    BY DEF Inv, Types, Functor, SharedByCopies, LocksHeld, TypeOK
  <1> QED
    BY <1>1, Invariance, PTL

\* A functor never removes an observer from a collection that is gone, whoever
\* destroys or replaces the subject meanwhile.
THEOREM CollectionOutlivesRemoveHolds == Spec => []CollectionOutlivesRemove
  <1>1. Inv => CollectionOutlivesRemove
    BY DEF Inv, LocksHeld, CollectionOutlivesRemove
  <1> QED
    BY <1>1, Invariance, PTL

\* A handle calls its functor once, however many threads unsubscribe.
THEOREM CalledOnceHolds == Spec => []CalledOnce
  <1>1. Inv => CalledOnce
    BY DEF Inv, FlagGuards, Passed, NotCalledYet, CalledOnce
  <1> QED
    BY <1>1, Invariance, PTL

\* No move, copy, throw or destructor loses the last functor that can remove an
\* observer, save those that drop it.
THEOREM NoneStrandedHolds == Spec => []NoneStranded
  <1>1. Inv => NoneStranded
    BY DEF Inv
  <1> QED
    BY <1>1, Invariance, PTL
=============================================================================
