# A verification of libyue_cpp_demo

The repository is a small program, `sample_app/main.cc`, that shows how two
libraries are used together: `observable` (header-only, in
`include/third_party/observable`) and libyue/`nativeui` (headers in
`include/nativeui`, bodies in prebuilt archives). Everything that can go wrong
in it is a question of order: a lock-free list with its own garbage collector,
observers that are called on whatever thread notifies, and a worker thread that
outlives what it uses.

## 1. Inventory

| Component | State | Operations | Hard part | What makes it correct |
|---|---|---|---|---|
| `observable::detail::collection` (`detail/collection.hpp`) | `head_`, nodes (`next`, `deleted`, `node_id`), `block_gc_`, `gc_active_`, `last_id_` | `insert`, `remove`, `apply`, `empty`, `gc`, `gc_blocker`, destructor | lock-free, called in parallel and reentrantly; nodes are deleted by whoever happens to be last | no access to a deleted node; no element lost; a removed element is not called; everyone gets in and out |
| `observable::subject` (`subject.hpp`) | a shared pointer to a collection | `subscribe`, `subscribe_and_call`, `notify`, moves | notification while observers come and go | the notes of `notify()` about observers added and removed meanwhile |
| subscriptions (`subscription.hpp`) | the unsubscribe functor, `called_` | `unsubscribe`, `release`, moves, unique and shared ownership | unsubscribing twice, from two threads, after a move, after the subject is gone | only the first call has an effect; the last owner unsubscribes |
| `observable::value` (`value.hpp`) | `value_`, two subjects, `moved`, `destroyed`, an updater | `set`, `get`, `subscribe`, moves, destructor | `set` from inside an observer; moves under live expressions | observers learn of every change, in an order that makes sense |
| expressions (`expressions/tree.hpp`, `expression.hpp`, `observe.hpp`) | dirty flags, cached results, subscriptions between nodes, registered updaters | construct from values, nodes or constants, `eval`, `eval_all` | diamonds, death and moves of values, the mutex of `eval_all` | at rest an expression equals the function of its operands |
| operators, filters, math, traits | none | build nodes | none: stateless wrappers | |
| `TestModel` (`main.cc:43-108`) | `m_objs_map`, `m_sonar`, `_toggle`, `dataHB` | constructor (starts the worker), `gen_amp`, destructor | a detached thread that writes what the UI thread reads | each generation is announced; what is announced is there to be read |
| `main()` and drawing (`main.cc:110-247`) | window, content view, the discarded subscription | build, subscribe, run the loop, draw, destroy | construction and destruction in an order that the worker does not wait for | no repaint is lost; nothing is used after its end |
| `nu::Signal` (`nativeui/signal.h`) | `next_id_`, slots in order of id | `Connect`, `Disconnect`, `DisconnectAll`, `Emit` | slots that change or destroy the signal that calls them | the slots connected when an emission begins are called once, in order; `Disconnect` finds its slot |
| `nativeui` widgets | prebuilt | declarations only | external | |
| Chromium `base`, googletest, build files | vendored | | | |

How they interact: `gen_amp` runs on the worker thread; its assignment to
`dataHB` runs `value::set_impl`, which runs `subject::notify`, which runs
`collection::apply`, which calls the observer that `main()` subscribed, all on
the worker thread. The observer calls `Layout()` and `SchedulePaint()` on the
window's content view; the UI thread later runs `on_draw`, which reads the model.
There is no lock anywhere.

Findings and hazards, each with its line and the properties that cover it, are
listed in `PROJECT.json`.

## 2. Modules

| Module | Role |
|---|---|
| `Collection` | the lock-free list, one action per atomic operation; properties and mutants |
| `ObserverSet` | abstract specification: a set of subscribed observers and, for every notification in progress, the calls it still owes |
| `CollectionRefinement` | the refinement mapping from `Collection` to `ObserverSet` |
| `CollectionProofs` | TLAPS: types, the count of blockers, mutual exclusion of `gc()` |
| `CollectionListProofs` | TLAPS: shape of the list, no use after free |
| `CollectionSoleProofs` | TLAPS: nested calls; the whole list when one thread mutates it |
| `CollectionRefinementProofs` | TLAPS: `Collection` implements `ObserverSet` when one thread mutates it |
| `Subscription` | subscriptions and the subject that hands them out: threads, throws, moves, sharing |
| `Expression` | values, expression trees, expressions and their updater |
| `SubscriptionProofs` | TLAPS: all its safety properties |
| `ExpressionProofs` | TLAPS: all its safety properties, for any finite trees |
| `MCExpression` | the trees of its runs, symmetry of the observers |
| `Signal` | `nu::Signal`: the vector of slots and the copies that `Emit()` walks |
| `SignalProofs` | TLAPS: the vector stays sorted, `Signal` implements `SlotSet` |
| `SlotSet` | abstract specification of a signal: a set of slots, and emissions that owe calls |
| `SampleApp` | `main.cc`: the UI thread, the worker, the window; composes `ObserverSet` for the observers of `dataHB` |
| `SampleAppProofs` | TLAPS: types, freshness of frames, every generation notifies |

### Collection

A node is named by its `node_id`, so `next`, `deleted` and `freed` are a function
and two sets over ids. An activation record is a *frame* `<<thread, depth>>`; a
frame of depth d+1 is a call made from the functor that `apply()` runs at depth
d, or (when `DtorUnsub`) from the destructor of the element that `gc()` deletes
there. `pc`, `op`, `node`, `cur`, `first` and `prev` are the frame's program
counter and locals. All atomics of the code are sequentially consistent and the
plain `next` fields are written only before publication or with everyone
excluded, so interleaving of atomic steps is the right memory model. In `gc()`
the local `head` is `first`, and the pointer-to-pointer `p` is `prev`: `NULL` when
`p == &head`, otherwise the node whose `next` it points to; `Star` is `*p`.

| Code | Actions |
|---|---|
| `gc_blocker` constructor, destructor | `Enter`, `Spin`, `Leave` |
| `insert()` | `Insert`, `InsertLoad`, `InsertCas` |
| `remove()` | `Remove`, `RemoveLoad`, `RemoveWalk` |
| `apply()` | `Apply`, `ApplyLoad`, `ApplyWalk`, `ApplyCall`, `ApplyReturn` (the functor returns or throws) |
| `empty()` | `Empty`, `EmptyLoad`, `EmptyTest` |
| `~collection()` | `Destroy`, `DestroyWalk`, then `gc()` |
| `gc()` | `GcEnter`, `GcClaim`, `GcLoad`, `GcTest`, `GcStep`, `GcDelete`, `GcStore`, `GcDone` |

`Mutator` is the set of threads that insert and remove; the others only call
`apply()` and `empty()`. The destructor starts when no call is in progress and no
call starts after it: its caller owns the last reference. Spurious failures of
`compare_exchange_weak` repeat the step and are stuttering. Running out of memory
while a node is made only consumes an id, and is left out.

### ObserverSet and the refinement

`ObserverSet` is what the notes in `collection.hpp` and `subject.hpp` promise:
an observer subscribed during a notification is not called by it, one that is
unsubscribed is not called any more, every other one is called exactly once, and
a notification ends only when it owes nothing or an observer has thrown.
`CollectionRefinement` maps the list to it: `subs` is `Live` (published and not
deleted), `todo` of a frame is what lies ahead of its cursor and is not deleted.
The linearisation points are the successful compare-exchange of `insert()`, the
store of the deleted flag, the load of `head_` in `apply()`, and, for a call, the
load of the deleted flag that lets it through.

### SampleApp

`ui` and `worker` are the two threads' program counters. Numbers drawn by
`rand()` are abstracted to the generation they belong to. The UI thread creates
the model (which starts the worker), the window with its default content view,
subscribes, creates the radar view, installs it (which releases the default
view), shows the window, draws, and after `on_close` destroys everything.

Nothing orders the worker's assignments and the reads of `on_draw`: a data race.
`m_sonar`, `m_objs_map[0]` and `m_objs_map[1]` are the parts of the model. The UI thread
is reading part p as long as `ui = Walk[p]`, and the worker is replacing p as long as
`worker = p`. If both hold at a time, the part of this frame may be *torn*: what the frame
has read of it is any generation, or the walk ends the process (`WildAccess`,
`Astray`). `operator[]` inserts a key that is not in the map (`keys`); while one
thread inserts, a look into the same map by the other may be torn, too, and may leave
the map *wrecked*, after which every walk through it is torn and either thread may end
the process. If the two only overlap as atomic steps, without the outcome of a race, the
read is the part as it was before or after. A step of the worker that touches an object
that is gone may also end the process. `beat`, `asked`, `due` and `shown` are history variables: `due` is the last request for a repaint when the frame was begun, `shown`
what the last completed frame answers, part by part (`Answered`). External
behaviour, taken from how the code uses it: a window has a default content view,
holding the only reference to it; `SchedulePaint` queues a redraw; a redraw
leaves the queue when it begins; showing a window queues the first one.

### Subscription

A *handle* is an `infinite_subscription` or `unique_subscription`, or what the
copies of a `shared_subscription` share. Its functor is named by the observer that
it removes (`None`: a functor without effect), `called_` is the flag or "null" in
a handle that was moved from. A thread in `unsubscribe()` goes through "test"
(the test of both members and the `test_and_set`), "invoke" (the functor: lock
the weak pointer, or find it expired, or throw), "remove", "unlock" (the shared
pointer goes, and with it perhaps the collection). `insert()` and `remove()` of
the collection are one step here, because `Collection` has their steps.

| Code | Actions |
|---|---|
| `subscribe()`, `subscribe_and_call()` | `Subscribe` |
| subject created, destroyed, moved into | `Reseat` |
| `unsubscribe()` | `Unsubscribe`, `Refused`, `Accepted`, `InvokeVain`, `InvokeLocks`, `InvokeThrows`, `Remove`, `Unlock` |
| `release()`, its result called | `Release`, `Swap`, `CallReleased` |
| constructors, destructors, moves | `Construct`, `DestroyInfinite`, `DestroyUnique`, `Move` |
| `shared_subscription` | `MakeShared`, `CopyShared`, `Reset` |

`Overlap` says whether `release()` may overlap another call on the same handle.
The documentation allows it, the code has a data race there (`subscription_race`);
the passing run excludes it, because behaviour after a data race is undefined.
Two threads that reset the *same* copy of a `shared_subscription` race in the same
way and are left out. `abandoned` records the observers whose functor was dropped
without a call: by `~infinite_subscription()`, which is its purpose, and by an
assignment over an active handle, which is a trap; `NoneStranded` says that there
is no third way.

### Expression

A subject calls its observers in an unspecified order, and the observers may do
anything; so `calls` is the stack of the loops in progress, each the *set* of calls
it has yet to make. A value has two subjects: the void observers of value nodes
(`Mark`) are all called before the second notification (`Values`) looks for the observers
of the user (`Tell`), so it finds those subscribed meanwhile. Marking a node
marks every node above it that exists (`Path`) and, if the root belongs to an immediate
expression, evaluates it before the loop goes on. An evaluation recomputes what
is reached through dirty nodes (`Reached`, `Fresh`) and stores the result in the
value that the expression updates, which may start further loops.

| Code | Actions |
|---|---|
| `value::set_impl` | `Store`, in `User`, `TellWatcher` and `Evaluate`; `NotifyValues` |
| `mark_dirty` and the observers of child nodes | `MarkDirty` |
| `expression::eval` | `Evaluate` |
| `updater::update_all` | `UpdateAll` (locks), `Release` (unlocks) |
| an observer runs, and may set or update | `TellWatcher` |
| an observer throws | `Throw`: all loops are abandoned |
| `subscribe_and_call` | `SubscribeAndCall`, `TellWatcher` (the initial call), `Subscribe` |
| constructors of nodes, each of which evaluates | `BuildLeaf`, `BuildNary` |
| a tree that nobody observes is destroyed | `Discard` |
| `observe()`, the constructors of expression and value | `Observe` |
| `~value`, moves | `Destroy`, `MoveConstruct`, `MoveAssign` |

The initial call of `subscribe_and_call()` may set values, update, subscribe another
observer or throw, as any call of an observer may; what is set during it the observer does
not hear, because it is not subscribed yet. A tree is built node by node, and observed
later or never: `observe()` takes the result of its root as it is, without an evaluation.

Nodes and values are created, moved and destroyed between the user's calls, not by
observers, a limitation of the model: inside of a notification of the same value the
library's warnings exclude it, elsewhere they do not. Nodes whose value was moved over
hear nothing more of it and keep reading its address; what a value that was destroyed or
moved from reads as is any datum (`Garbage`).
`update_all()` from an observer of `update_all()` would lock a `std::mutex` twice,
which is undefined, and is excluded by a guard. Constant nodes (never dirty) and
shallow copies of nodes are left out. `heard`, `missed` and `calm` are history.

What the code does *not* give is named in the properties, not hidden in the definition of
being up to date. `UpToDate(e)` compares the value with its tree computed from what its
operands hold now; only where an operand has been destroyed does it take the last value read,
which is what `tree.hpp` promises. The properties speak of every tree but those that

* have lost track of an operand (`~Tracks`): another value was moved over it, and its
  observers went away with its subject (`value.hpp:271`), although it is alive and
  `tree.hpp:60` promises "as long as the value is alive";
* lack a call (`~Informed`): `missed` holds the marks and calls that a throw has abandoned,
  what was set during an observer's initial call, and the evaluation that an immediate
  expression would have had, had it been there when its tree changed between construction
  and `observe()`. A call leaves `missed` as soon as it is made after all.

### Signal

`slots_` is the sequence of identifiers; `emits` is the stack of emissions, each
with its copy of the vector. `LowerBound` is the contract of `std::lower_bound`:
the first position that is not below the key if the range is partitioned, and
any position otherwise. Destruction of the signal from one of its slots (a window
closed in `on_close`) is allowed: `Emit()` needs nothing of it afterwards. A slot that
throws is left out: an exception only leaves the loops over the copies.
`IntMax` stands for the greatest `int`; the increment beyond it is undefined.

## 3. Runs

Passing:

| Run | Bounds | Shows |
|---|---|---|
| `collection` | 2 threads that insert and remove, 1 level, 2 insertions, fair | `TypeOK`, `SweepExcludesReaders`, `NoUseAfterFree`, `BlockerGetsIn`, `EveryCallReturns` |
| `collection_refinement` | 1 mutator and 1 notifier, 2 levels, 3 insertions, destructors that unsubscribe; they can hang (finding below), so deadlock is not checked | `NoUseAfterFree`, `NoLostElement`, `RemoveTakesEffect`, `DestroyFreesAll`, `OwnRemovalHolds`, `ImplementsObserverSet` |
| `sample_app` | 3 generations, fair | `TypeOK`, `EveryGenerationNotifies`, `FrameIsFresh`, `RepaintNotLost` |
| `subscription` | 2 threads, 2 handles, 2 copies, 2 collections, 1 observer, fair | `TypeOK`, `CollectionOutlivesRemove`, `CalledOnce`, `NoneStranded`, `SetMeansRemoved` |
| `expression` | 3 values, 6 nodes, 3 expressions, 2 observers, 3 loops when an observer acts, constraint `MCBound` | `TypeOK`, `NodeFollowsValue`, `CleanIsCurrent`, `ImmediateIsUpToDate`, `UpdateAllSettles`, `HeardIsCurrent` |
| `signal` | 4 identifiers, 2 nested emissions | `TypeOK`, `SlotsAscend`, `ImplementsSlotSet` |

Why the bounds are enough to be interesting. Three nodes give `gc()` a first, a
middle and a last node; two threads are enough for every pair of racing steps,
and the lost insertion needs two mutators and no more than two nodes. Two levels
allow every call from inside a functor. The safety of three nodes under two
mutators needs no run of its own: it is proved for all constants (section 4).
Three generations let the worker overtake a frame twice. With two handles
every move has a source and a target that may be active, empty or moved from;
with two copies in two threads the last owner is not known beforehand. The trees
of `MCExpression` hold a diamond of unequal depth (`i = a /\ j`, `j = a`), which
evaluates to a mixture between two marks, and a chain of two deferred expressions;
three objects let each of them be operand, target, moved into and destroyed; the
second observer hears late what the first one sets. Building the nodes one by one
multiplies the states by the trees that are half built, so `MCBound` limits how many
oddities coincide: objects that were moved from or destroyed, calls missed, and trees that
are not observed, of these together one if the user has observers, and two if not. Each
is met together with everything else, and the theorems of section 4 need no such
bound. Four identifiers let
slots connected during an emission be disconnected during another one.

Fairness: a frame of `Collection` inside a method is scheduled (`WF_vars(Step(f))`),
but nobody is obliged to call anything; the same holds of the threads of
`Subscription` (`WF_vars(Continue(t))`), whose functors are not obliged to throw or
to stop throwing; in `SampleApp` both threads run, the user need not close the
window. That is what an operating system's scheduler gives a thread.
`EveryCallReturns` is checked with one level of calls, because a functor may nest
calls for ever, and its compare-exchange loop ends because the number of
insertions is bounded: `insert()` is lock-free, not wait-free. `Expression` and
`Signal` have no liveness property: observers and slots may start further work
for ever, and nothing else waits.

Violations, each against a sentence of the documentation quoted in
`PROJECT.json`:

| Run | What the code does |
|---|---|
| `collection_lost` | two mutators: `gc()` stores its stale copy of the head over the node that an `insert()` has just published; the element is never called, removed or freed |
| `collection_removed` | two threads: an element is called although `remove()` has marked it after the check of its flag (in the shortest trace the node is marked; `remove()` may as well have returned) |
| `collection_dtor` | one thread: the destructor of an element that unsubscribes, run by `gc()`, waits for that `gc()` for ever |
| `sample_app_observer` | the observer uses the default content view while `SetContentView` releases it (the shortest trace); after the window is closed it uses the captured `window`, too |
| `expression_destroyed` | a value is moved over one that a node was built on, which is then destroyed: the node, which was never told, reads it |
| `subscription_race` | `release()` replaces the functor that `unsubscribe()` in another thread is about to call |

What these runs do not say: on one mutating thread the safety of the collection is
intact (`OwnRemovalHolds`, `NoLostElement`, `ImplementsObserverSet`), and what can go wrong
there is the hang of `collection_dtor`. A diamond, a reentrant `set()`, or a move of operands
or of the values that expressions update never leaves an expression stale; what does is a
throw, for what it kept from it, a change between construction and `observe()`, until
the next one, and a value moved *over* an operand, for good.

Every property of a passing run has a mutant of the code that TLC finds to
violate it (`PROJECT.json`, `mutants`); the mutated definitions stand before the
ones they replace and are marked "Mutant".

## 4. Proofs

From `CollectionAssumption` (finitely many threads, some of them mutators, any
depth and any bound on ids), for `Spec` of `Collection`:

* `TypeCorrect` and `SweepIsExclusive`, from the inductive invariant `Handshake`.
  `TypeOK` is not inductive: that `block_gc_` stays a natural number needs
  `BlockCounts`, that it is the cardinality of the frames between the two ends of
  a `gc_blocker`; that no null pointer is followed needs `Dereferenced`, which in
  turn needs that nobody writes a `next` field between the test and the step of
  `gc()`, hence `SweepExcludesReaders` and `GcAlone`.
* `NoUseAfterFreeHolds`, from `Handshake` and `ListShape`. Since nodes can be
  lost, the list reachable from `head_` is not a good invariant. `ListShape` says
  that there is *some* set R of live nodes, closed under `next`, on which `next`
  is injective and decreases a rank, such that every cursor is in R or null, and
  `head_` is the top of a chain of R except while `gc()` has unlinked the first
  node and not yet written `head_`. An insertion adds its node to R with a
  greater rank; unlinking a later node takes it out; unlinking the first node
  takes out everything of its rank or above, which drops what has been lost.

* `OwnRemovalHoldsAlways`, from `Nesting`: the frames of a thread are a stack.
  Whatever is above a frame was called from its functor, or from the destructor
  of an element that its `gc()` deletes (`Stack`), and a frame that has made a
  call does not step. So between the test of the deleted flag and the functor,
  the only thread that removes runs nothing else (`OwnCall`). That `gc()` and the
  destructor of the collection do not come between either needs `ActiveIsHeld`,
  `DestroyAlone` and `NothingRuns`.

With the hypothesis `OneMutator` (only one thread inserts and removes, any number
notify), which is how the program uses the library:

* `NoLostElementHolds`, `RemoveTakesEffectHolds`, `DestroyFreesAllHolds`, from
  `Sole`. Without the hypothesis the first two are false: that is what the runs
  `collection_lost` and `collection_removed` show. `SoleList` says what `ListShape`
  cannot: the list is sorted by id (`Sorted`), the head is the highest node that
  is published (`HeadIsHighest`), what is neither linked nor freed is deleted
  (`UnlinkedAreDeleted`), and each frame's cursor, sweep, new node and removal
  stand where the code has brought them (`FrameOk`). While `gc()` unlinks nodes,
  `head_` and the links are not those of a sorted list; `HeadLeadsOn` says where
  they lead all the same. `Reach` is a recursive function; that it holds the nodes
  below its argument and no others (`ReachIsBelow`) is proved by the least
  counterexample, which is how these modules do without an induction rule.
* `ListImplementsObserverSet`: every step of `Collection` is a step of
  `ObserverSet` or a stutter under the mapping of `CollectionRefinement`. Since the
  list is sorted, what lies ahead of the cursor of a notification is the set of
  live ids at or below it (`TodoIs`), so a step that moves a cursor takes at most
  the node it leaves out of `todo`, publishing adds one that no cursor can reach,
  and the store of the deleted flag takes one out of `subs` and of every `todo`.
  `MarkedArePublished` excludes that a node is removed before it is subscribed.

From `Spec` of `SampleApp`, for any number of generations:

* `FrameIsFreshHolds`: data are never older than the last request for a repaint
  (`DataInv`), and what the frame has read undisturbed is not older than the request it
  was begun after (`DrawInv`). Of a part that was torn nothing can be said.
* `EveryGenerationNotifiesHolds`: the stored heartbeat differs from `_toggle`
  exactly between the flip and the assignment (`BeatInv`).
* `SampleAppTypes`: that the observer has a view to use needs `ContentInv`, that
  the window has a content view from its creation on, and that nobody can be
  called before `main()` has subscribed. `BoundedTypes` is the rest of the types.

From `Spec` of `Subscription`, for any threads, handles, copies, observers and
collections, finite or not, and both values of `Overlap`:

* `SubscriptionTypes`, `CollectionOutlivesRemoveHolds`, `CalledOnceHolds` and
  `NoneStrandedHolds`, from one inductive invariant. That nothing is stranded
  needs `NotCalledYet` (a flag that is clear belongs to a functor that has not
  succeeded) and, so that dropping a functor drops the right observer,
  `OneFunctor`: an observer's functor is in one handle, or on its way from one
  handle through one thread. `FlagGuards` says that who is past the flag of a
  handle left it set and is alone; `LocksHeld` that a thread in "remove" owns a
  reference to the very collection it removes from. The four hold even if
  `release()` overlaps a call: what goes wrong there is the data race, which
  is undefined, and not the order of the steps.

From `Spec` of `Expression`, for any objects and observers, any finite trees, any
operation and any depth of nested calls. `ExpressionAssumption` says of the trees
what the code gives by moving every node into the functor of the node above it or
into the expression: there are finitely many nodes, none is above itself, each
belongs to one tree.

* `NodeFollowsValueHolds`. A move redirects the nodes that the source notifies,
  so the proof needs to know that a tree that is dropped takes away all marks of its
  nodes and of no others (`NotifiedIsMade`, `Grown`).
* `ExpressionTypes`. `TypeOK` is not inductive: that an evaluation stores its result
  in an object, and not nowhere, needs `Wired`. An expression that exists
  sets one object, which is alive (`Updaters`); the updater holds expressions that
  exist, each once (`Register`), so that erasing one entry forgets it; a call
  that is pending is of a subscriber or an expression that is there
  (`PendingAreThere`), which is where it matters that nothing is destroyed or moved
  inside of a notification; an observer is subscribed, or about to be, to one value
  (`OneValue`), so that `missed` is about that one; only objects that are alive have
  subscribers. That the
  recursive functions `Fresh` and `Computed` are defined at all is `RecursionExists`:
  nodes have a depth (`DepthOfKids`), and a least depth without a solution is
  contradictory.
* `HeardIsCurrentHolds`, from `Heard`: an observer has heard what the value holds, or
  its call is pending or missed: lost to a throw, or to a subscription that came after what
  was set in its initial call. The order of nested calls does not matter, because the
  observer is given a reference.
* `CleanIsCurrentHolds`, from `Clean`. The step that needs an argument is `MarkDirty` in
  the middle of an evaluation: the nodes above a leaf are a chain
  (`PathsAreNested`), so marking a path leaves no clean node above a dirty one, and
  evaluation, which stops at clean nodes, misses nothing. A node that does not exist counts
  as dirty (`UnmadeAreDirty`), so that the nodes that are built one by one are evaluated as
  if there were a tree.
* `ImmediateIsUpToDateHolds`, from `AtOnce` and `Prompt`: an immediate expression that has
  been marked is evaluated before the loop that marked it goes on, alone in its
  loop and once; otherwise it is clean, and its object holds its result, or its evaluation
  was missed because it had changed before it was observed. `TreeIsCurrent` turns a clean root without pending or lost marks into the value
  of the whole tree, by a highest node that is dirty and a lowest one that differs.
* `UpdateAllSettlesHolds`, from `Settling`: the expressions that exist have a rank such
  that an object is set by an expression of lower rank than those built on it, and
  the updater has its expressions in the order of rank (`Ordered`). A move takes the
  rank along, because the subscribers move with the updater. What stays behind is no
  longer told anything: those are the trees that `Tracks` excludes. An observed tree takes
  a rank above all others, although its nodes may be older. While `update_all()` runs, everything that the last
  evaluation set off concerns expressions of higher rank (`InTurn`), immediate ones
  between two deferred ones included, so those that are done stay done (`Done`).

From `SignalAssumption` (any greatest `int`, any depth of emissions), for `Spec`
of `Signal`:

* `SignalTypes`, and `SlotsStaySorted`: the vector ascends and holds nothing
  above `next_id_`, so that an appended slot keeps it sorted and the
  `lower_bound` of `Disconnect()` finds a slot that is there. The inductive
  invariant adds that the copies ascend, too (`CopiesAscend`).
* `SignalImplementsSlotSet`: an emission owes the slots of its copy from its cursor
  on. Because the copy ascends, the slot that it calls next is the least it owes.

Only model-checked: the liveness properties (`BlockerGetsIn`, `EveryCallReturns`,
`RepaintNotLost`, `SetMeansRemoved`), which are outside what the prover does. Every
invariant and every refinement that a passing run checks is stated by a theorem;
those of `Collection` that speak of the whole list, and its refinement, under
`OneMutator`, as in their run, because two mutators lose elements.

## 5. Not modelled

The bodies of nativeui and GTK (prebuilt), Chromium base and googletest
(vendored; the program only sees them through nativeui's headers), the geometry of
what is painted, the random numbers, compile-time traits and the stateless
operator, filter and math wrappers, which are instances of `Op`. `empty()` of the
collection is modelled, but its result is not stated: it contradicts its
documentation whenever the first node is removed and not yet unlinked
(`collection.hpp:132`), and nothing calls it.

## 6. Plan

What would add to this, in order: a theorem about `Collection` with several mutators
that says which elements can be lost (those published between the load of `head_`
by a `gc()` and its store, and nothing else); the hazards of `PROJECT.json` that no
property covers, as models of their own where the code allows it.
