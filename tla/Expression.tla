----------------------------- MODULE Expression -----------------------------
(***************************************************************************)
(* observable::value, expression trees, expressions and updaters           *)
(* (include/third_party/observable: value.hpp, expressions/tree.hpp,       *)
(* expressions/expression.hpp, observe.hpp).                               *)
(*                                                                         *)
(* A value notifies the value nodes that were built on it and the user's   *)
(* observers; a node that is notified marks itself and the nodes above it  *)
(* dirty; an expression evaluates its tree and sets the value it updates,  *)
(* at once (immediate_evaluator) or when its updater says so.  None of     *)
(* this may run concurrently, but all of it is reentrant: an observer may  *)
(* set another value or subscribe another observer.  So calls is the stack *)
(* of the loops in progress, each of them the set of the calls it has yet  *)
(* to make: the order in which a subject calls its observers is            *)
(* unspecified (subject.hpp).  An expression is named by its root node.    *)
(***************************************************************************)
EXTENDS Naturals, SequencesExt

CONSTANTS
  Object,       \* value objects, those that a move constructs included
  Given,        \* the objects that exist at first, which the user sets
  Node,         \* expression nodes
  Path,         \* of a node: itself and the nodes above it, up to a root
  Operand,      \* the object that each value node is built on
  Immediate,    \* the expressions with an immediate_evaluator
  Watcher,      \* observers of the user
  Datum,        \* what values and nodes hold
  Input,        \* what the user sets
  Op(_, _),     \* the operation of a node, given the results of its operands
  NoNode, NoObject,
  MaxCalls      \* bound on the loops in progress when an observer starts another

Leaf == DOMAIN Operand                           \* the value nodes
Root == {n \in Node : Path[n] = {n}}
Kids == [n \in Node |-> {k \in Node \ {n} : Path[k] = {k} \cup Path[n]}]
Tree == [n \in Node |-> {k \in Node : n \in Path[k]}]

ASSUME ExpressionAssumption ==
  /\ Given \subseteq Object /\ NoObject \notin Object
  /\ Input \subseteq Datum /\ Input # {}
  /\ NoNode \notin Node /\ Path \in [Node -> SUBSET Node] /\ IsFiniteSet(Node)
  /\ \A n \in Node : /\ n \in Path[n]
                     /\ n \in Root \/ \E m \in Node : n \in Kids[m]
                     /\ \A k \in Kids[n] : k \notin Path[n]      \* none is above itself
  /\ \A n \in Node : \A d, e \in Path[n] \cap Root : d = e      \* a node has one tree
  /\ Leaf \subseteq Node /\ Operand \in [Leaf -> Object]
  /\ \A n \in Node : Kids[n] = {} <=> n \in Leaf
  /\ Immediate \subseteq Root
  /\ \A n \in Node : \A f \in [Kids[n] -> Datum] : Op(n, f) \in Datum
  /\ MaxCalls \in Nat

VARIABLES
  state,      \* of an object: "unborn", "live", "moved" (from) or "dead"
  val,        \* value_
  subs,       \* the calls that a change of the object makes: its subscribers
  updater,    \* updater_: the expression that sets the object
  made,       \* the nodes that exist
  built,      \* the expressions that exist
  points,     \* of a value node: the object that its eval reads, if any
  dirty,      \* data::dirty
  result,     \* data::result
  funs,       \* expression_evaluator::data::funs, of the one updater
  calls,      \* the loops in progress, innermost first: calls still to make
  heard,      \* history: what each observer was last called with
  missed,     \* history: calls that a change should have made, which were lost to a
              \* throw or to a subscription that came too late, and not made since
  calm        \* history: nobody has set a value since update_all() began

objects == <<state, val, subs, updater>>
nodes   == <<made, points, dirty, result>>
vars    == <<objects, built, nodes, funs, calls, heard, missed, calm>>

\* The members of subs and calls.
Mark(n) == <<"mark", n>>           \* the void observer of a value node
Tell(w) == <<"tell", w>>           \* an observer of the user
Eval(e) == <<"eval", e>>           \* expression::eval()
Unlock  == <<"unlock", NoNode>>    \* update_all() releases its mutex
Values(o)  == <<"values", o>>      \* the notification of the user's observers of o
Join(w, o) == <<"join", w, o>>     \* the end of subscribe_and_call()
Marks   == {Mark(n) : n \in Leaf}
Tells   == {Tell(w) : w \in Watcher}

SomeInput == CHOOSE x \in Input : TRUE

Init ==
  /\ state = [o \in Object |-> IF o \in Given THEN "live" ELSE "unborn"]
  /\ val = [o \in Object |-> SomeInput]
  /\ subs = [o \in Object |-> {}] /\ updater = [o \in Object |-> NoNode]
  /\ made = {} /\ built = {}
  /\ points = [n \in Leaf |-> NoObject]
  /\ dirty = [n \in Node |-> TRUE] /\ result = [n \in Node |-> SomeInput]
  /\ funs = <<>> /\ calls = <<>>
  /\ heard = [w \in Watcher |-> SomeInput] /\ missed = {} /\ calm = FALSE

Idle == calls = <<>>
Live(o) == state[o] = "live"
Pending == UNION {calls[i] : i \in DOMAIN calls}

(***************************************************************************)
(* Notifications.                                                          *)
(***************************************************************************)
\* A loop that begins before some others; it is over if it has no call to make.
Start(loop, rest) == IF loop = {} THEN rest ELSE <<loop>> \o rest

\* Call c is made by the innermost loop; the loops that are then left.
Calls(c) == calls # <<>> /\ c \in Head(calls)
Makes(c) == Calls(c) /\ missed' = missed \ {c}
Left(c) == Start(Head(calls) \ {c}, Tail(calls))

\* Mutant: a change made while a notification is in progress is not notified.
Store_Guarded(o, x, rest) ==
  IF val[o] = x
    THEN calls' = rest /\ UNCHANGED val
    ELSE /\ val' = [val EXCEPT ![o] = x]
         /\ calls' = IF rest = <<>> THEN Start(subs[o] \cap Marks, <<{Values(o)}>>) ELSE rest

\* value::set_impl(): nothing happens if the value is equal; else it is
\* stored, the void observers are notified, and then those that take a value.
Store(o, x, rest) ==
  IF val[o] = x
    THEN calls' = rest /\ UNCHANGED val
    ELSE /\ val' = [val EXCEPT ![o] = x]
         /\ calls' = Start(subs[o] \cap Marks, <<{Values(o)}>> \o rest)

\* value_observers_.notify(): it calls who is subscribed when it begins.
NotifyValues(o) ==
  /\ Makes(Values(o))
  /\ calls' = Start(subs[o] \cap Tells, Left(Values(o)))
  /\ UNCHANGED <<objects, built, nodes, funs, heard, calm>>

\* Mutant: a node does not notify the node above it.
Marked_Alone(n) == {n}

\* The nodes that become dirty when value node n is notified.
Marked(n) == Path[n]

\* A value node is notified; an immediate expression is evaluated at once.
MarkDirty(n) ==
  /\ Makes(Mark(n))
  /\ dirty' = [m \in Node |-> dirty[m] \/ m \in Marked(n)]
  /\ calls' = Start({Eval(r) : r \in Path[n] \cap built \cap Immediate}, Left(Mark(n)))
  /\ UNCHANGED <<objects, made, built, points, result, funs, heard, calm>>

\* Mutant: a node uses the results of its operands as they stand.
Operands_Stale(n, fresh) == [k \in Kids[n] |-> result[k]]

\* What a node applies its operation to: its operands are evaluated first.
Operands(n, fresh) == [k \in Kids[n] |-> fresh[k]]

\* What the eval functor of a node leaves in its result: a node that is not
\* dirty keeps it, as does a value node whose value has been destroyed.
Fresh[n \in Node] ==
  IF ~dirty[n] THEN result[n]
  ELSE IF n \notin Leaf THEN Op(n, Operands(n, Fresh))
  ELSE IF points[n] = NoObject THEN result[n]
  ELSE val[points[n]]

\* The nodes that evaluating node n reaches: those below dirty nodes only.  (What
\* is above n is dirty as well, or does not exist yet, which counts as dirty.)
Reached(n) == {k \in Tree[n] : \A m \in Path[k] : dirty[m]}
Gone == {n \in Leaf : points[n] = NoObject}

\* data::eval() of node n.
EvalNode(n) ==
  /\ result' = [k \in Node |-> IF k \in Reached(n) THEN Fresh[k] ELSE result[k]]
  /\ dirty'  = [k \in Node |-> dirty[k] /\ k \notin Reached(n) \ Gone]

Target(e) == CHOOSE o \in Object : updater[o] = e

\* expression::eval(): evaluates the tree and passes on the result.
Evaluate(e) ==
  /\ Makes(Eval(e))
  /\ EvalNode(e)
  /\ Store(Target(e), Fresh[e], Left(Eval(e)))
  /\ UNCHANGED <<state, subs, updater, made, built, points, funs, heard, calm>>

(***************************************************************************)
(* What the user does, outside of observers or inside.                     *)
(***************************************************************************)
\* value::set(): a value that has an updater is read-only.
Set(o, x, rest) ==
  /\ Live(o) /\ updater[o] = NoNode
  /\ Store(o, x, rest)
  /\ calm' = FALSE

\* Mutant: the newest expression is evaluated first.
Order_Newest == [i \in DOMAIN funs |-> funs[Len(funs) + 1 - i]]

\* The order of evaluation: that of creation.
Order == funs

\* updater::update_all(): evaluates all its expressions with its mutex locked.
UpdateAll(rest) ==
  /\ \A i \in DOMAIN rest : Unlock \notin rest[i]
  /\ calls' = [i \in DOMAIN Order |-> {Eval(Order[i])}] \o <<{Unlock}>> \o rest
  /\ calm' = TRUE
  /\ UNCHANGED val

Release ==
  /\ Makes(Unlock)
  /\ calls' = Left(Unlock) /\ calm' = FALSE
  /\ UNCHANGED <<objects, built, nodes, funs, heard>>

\* value::subscribe_and_call(): the initial call, and then the subscription.
SubscribeAndCall(w, o, rest) ==
  /\ Live(o) /\ \A p \in Object : Tell(w) \notin subs[p] /\ Join(w, p) \notin Pending
  /\ calls' = <<{Tell(w)}>> \o (<<{Join(w, o)}>> \o rest)
  /\ UNCHANGED <<val, calm>>

\* The observer is subscribed; it has not heard of what was set during its initial call.
Subscribe(w, o) ==
  /\ Calls(Join(w, o))
  /\ subs' = [subs EXCEPT ![o] = @ \cup {Tell(w)}]
  /\ missed' = IF heard[w] = val[o] THEN missed \ {Tell(w)} ELSE missed \cup {Tell(w)}
  /\ calls' = Left(Join(w, o))
  /\ UNCHANGED <<state, val, updater, built, nodes, funs, heard, calm>>

Act(rest) ==
  \/ \E o \in Object, x \in Input : Set(o, x, rest)
  \/ UpdateAll(rest)
  \/ \E w \in Watcher, o \in Object : SubscribeAndCall(w, o, rest)

User ==
  /\ Idle /\ Act(<<>>)
  /\ UNCHANGED <<state, subs, updater, built, nodes, funs, heard, missed>>

\* value_observers_.notify(value_) passes a reference: the observer sees what
\* the object holds when it is called, not what was set.  It may act.  So is, and
\* may, an observer in its initial call.
TellWatcher(w, o) ==
  /\ Makes(Tell(w)) /\ (Tell(w) \in subs[o] \/ Join(w, o) \in Pending)
  /\ heard' = [heard EXCEPT ![w] = val[o]]
  /\ \/ calls' = Left(Tell(w)) /\ UNCHANGED <<val, calm>>
     \/ Len(calls) <= MaxCalls /\ Act(Left(Tell(w)))
  /\ UNCHANGED <<state, subs, updater, built, nodes, funs>>

\* The calls that are lost if the loops in progress are abandoned: the observers in
\* them, and those of notifications that have not begun.
Owed ==
  {c \in Marks \cup Tells : \E o \in Object :
      c \in subs[o] /\ (c \in Pending \/ (c \in Tells /\ Values(o) \in Pending))}

\* An observer throws, from the initial call also after it has acted: every loop
\* in progress is abandoned, and an observer in its initial call not subscribed.
Throw(w) ==
  /\ Calls(Tell(w)) \/ \E o \in Object : Calls(Join(w, o))
  /\ calls' = <<>>
  /\ missed' = missed \cup Owed /\ calm' = FALSE
  /\ UNCHANGED <<objects, built, nodes, funs, heard>>

(***************************************************************************)
(* Nodes are built first, each evaluated by its constructor.  observe()    *)
(* takes a root, perhaps later, and gives an expression to a new value.    *)
(***************************************************************************)
\* A value node.
BuildLeaf(n) ==
  /\ Idle /\ n \in Leaf \ made /\ Live(Operand[n])
  /\ made' = made \cup {n}
  /\ subs' = [subs EXCEPT ![Operand[n]] = @ \cup {Mark(n)}]
  /\ points' = [points EXCEPT ![n] = Operand[n]]
  /\ result' = [result EXCEPT ![n] = val[Operand[n]]] /\ dirty' = [dirty EXCEPT ![n] = FALSE]
  /\ UNCHANGED <<state, val, updater, built, funs, calls, heard, missed, calm>>

\* An n-ary node, of operands that may have changed since they were built.
BuildNary(n) ==
  /\ Idle /\ n \in Node \ (Leaf \cup made) /\ Kids[n] \subseteq made
  /\ made' = made \cup {n}
  /\ EvalNode(n)
  /\ UNCHANGED <<objects, built, points, funs, calls, heard, missed, calm>>

\* Mutant: the updater is told of every expression.
Registered_Always(e) == Append(funs, e)

\* An immediate expression is inserted in the dummy evaluator instead.
Registered(e) == IF e \in Immediate THEN funs ELSE Append(funs, e)

\* The value takes the result of the root as it is.  Had the expression been there
\* when the root was marked, it would have been evaluated at once.
Observe(e, o) ==
  /\ Idle /\ e \in (Root \cap made) \ built /\ state[o] = "unborn"
  /\ built' = built \cup {e}
  /\ state' = [state EXCEPT ![o] = "live"]
  /\ val' = [val EXCEPT ![o] = result[e]]
  /\ updater' = [updater EXCEPT ![o] = e]
  /\ funs' = Registered(e)
  /\ missed' = IF dirty[e] /\ e \in Immediate THEN missed \cup {Eval(e)} ELSE missed
  /\ UNCHANGED <<subs, nodes, calls, heard, calm>>

(***************************************************************************)
(* The end of nodes, the end and the moves of values.                      *)
(***************************************************************************)
\* ~expression(), or of a node with those below it: the updater forgets it, and
\* the nodes unsubscribe.
Drop(e) ==
  /\ built' = built \ {e} /\ made' = {n \in made : e \notin Path[n]}
  /\ funs'  = RemoveFirst(funs, e)
  /\ dirty' = [n \in Node |-> dirty[n] \/ e \in Path[n]]
  /\ result' = [n \in Node |-> IF e \in Path[n] THEN SomeInput ELSE result[n]]

Nodes(e) == IF e \in Node THEN Tree[e] \cap Leaf ELSE {}
MarksOf(e) == {Mark(n) : n \in Nodes(e)}

\* A node that is neither part of another nor observed is destroyed.
Discard(n) ==
  /\ Idle /\ n \in made \ built /\ Path[n] \cap made = {n}
  /\ Drop(n)
  /\ points' = [k \in Leaf |-> IF k \in Nodes(n) THEN NoObject ELSE points[k]]
  /\ subs' = [o \in Object |-> subs[o] \ MarksOf(n)]
  /\ missed' = missed \ MarksOf(n)
  /\ UNCHANGED <<state, val, updater, calls, heard, calm>>

\* What a value destroyed or moved from reads as: anything, if a node is left to read it.
Garbage(o, e) ==
  IF \E n \in Leaf \ Nodes(e) : points[n] = o /\ Mark(n) \notin subs[o] THEN Datum ELSE {SomeInput}

\* ~value(): the nodes built on it keep their results and read it no more.
Destroy(o) ==
  LET e == updater[o]
  IN  /\ Idle /\ state[o] \in {"live", "moved"}
      /\ state' = [state EXCEPT ![o] = "dead"]
      /\ points' = [n \in Leaf |-> IF Mark(n) \in subs[o] \/ n \in Nodes(e) THEN NoObject ELSE points[n]]
      /\ subs' = [p \in Object |-> IF p = o THEN {} ELSE subs[p] \ MarksOf(e)]
      /\ updater' = [updater EXCEPT ![o] = NoNode]
      /\ \E x \in Garbage(o, e) : val' = [val EXCEPT ![o] = x]
      /\ Drop(e)
      /\ missed' = missed \ ({Eval(e)} \cup subs[o] \cup MarksOf(e))
      /\ UNCHANGED <<calls, heard, calm>>

\* Mutant: the subject moved is not notified.
Redirected_Not(o, p) == points

\* The nodes that were built on p are told by the subject moved to read o.
Redirected(o, p) == [n \in Leaf |-> IF Mark(n) \in subs[p] THEN o ELSE points[n]]

\* What moves out of object p moves into object o: the value, the subjects
\* with their subscribers, the updater.  Those that were built on o hear nothing, and
\* still read it.
MoveInto(o, p) ==
  LET e == updater[o]
  IN  /\ state' = [state EXCEPT ![o] = "live", ![p] = "moved"]
      /\ \E x \in Garbage(p, e) : val' = [val EXCEPT ![o] = val[p], ![p] = x]
      /\ subs' = [q \in Object |-> CASE q = o -> subs[p] \ MarksOf(e)
                                     [] q = p -> {}
                                     [] OTHER -> subs[q] \ MarksOf(e)]
      /\ points' = [n \in Leaf |-> IF n \in Nodes(e) THEN NoObject ELSE Redirected(o, p)[n]]
      /\ updater' = [updater EXCEPT ![o] = updater[p], ![p] = NoNode]
      /\ Drop(e)
      /\ missed' = missed \ ({Eval(e)} \cup subs[o] \cup MarksOf(e))
      /\ UNCHANGED <<calls, heard, calm>>

MoveConstruct(o, p) == Idle /\ state[o] = "unborn" /\ Live(p) /\ MoveInto(o, p)

MoveAssign(o, p) ==
  Idle /\ state[o] \in {"live", "moved"} /\ Live(p) /\ o # p /\ MoveInto(o, p)

-----------------------------------------------------------------------------
Step ==
  \/ Release
  \/ \E o \in Object : NotifyValues(o)
  \/ \E n \in Leaf : MarkDirty(n)
  \/ \E e \in Root : Evaluate(e)
  \/ \E w \in Watcher, o \in Object : TellWatcher(w, o) \/ Subscribe(w, o)

Next ==
  \/ Step \/ User
  \/ \E w \in Watcher : Throw(w)
  \/ \E n \in Node : BuildLeaf(n) \/ BuildNary(n) \/ Discard(n)
  \/ \E o \in Object :
       \/ Destroy(o)
       \/ \E e \in Root : Observe(e, o)
       \/ \E p \in Object : MoveConstruct(o, p) \/ MoveAssign(o, p)

Spec == Init /\ [][Next]_vars
-----------------------------------------------------------------------------
(***************************************************************************)
(* Properties.                                                             *)
(***************************************************************************)
Evals == {Eval(e) : e \in Root}
Joins == {Join(w, o) : w \in Watcher, o \in Object}
Call  == Marks \cup Tells \cup Evals \cup {Unlock} \cup {Values(o) : o \in Object} \cup Joins

\* Every variable has its type.
TypeOK ==
  /\ state \in [Object -> {"unborn", "live", "moved", "dead"}]
  /\ val \in [Object -> Datum]
  /\ subs \in [Object -> SUBSET (Marks \cup Tells)]
  /\ updater \in [Object -> Root \cup {NoNode}]
  /\ made \subseteq Node /\ built \subseteq Root
  /\ points \in [Leaf -> Object \cup {NoObject}]
  /\ dirty \in [Node -> BOOLEAN] /\ result \in [Node -> Datum]
  /\ funs \in Seq(Root \ Immediate)
  /\ calls \in Seq(SUBSET Call) /\ missed \subseteq Marks \cup Tells \cup Evals
  /\ heard \in [Watcher -> Datum] /\ calm \in BOOLEAN

Subscribed(n) == \E o \in Object : Mark(n) \in subs[o]

\* "If the value is moved, the node will use the new, moved-into, value": a
\* node that a value notifies reads that value and no other, and the value
\* is alive, whatever has been moved where.
NodeFollowsValue ==
  \A o \in Object, n \in Leaf : Mark(n) \in subs[o] => points[n] = o /\ Live(o)

\* "When evaluating the root node, only nodes that have been changed will be
\* evaluated": a node that is not marked dirty holds what evaluating it would
\* give, unless the call that is to mark it is still to come or a throw has
\* lost it; and no node is clean above a dirty one whose value is there.
CleanIsCurrent ==
  /\ \A o \in Object, n \in Leaf :
       Mark(n) \in subs[o] /\ ~dirty[n] =>
         result[n] = val[o] \/ Mark(n) \in Pending \cup missed
  /\ \A n \in Node \ Leaf : ~dirty[n] =>
       /\ result[n] = Op(n, [k \in Kids[n] |-> result[k]])
       /\ \A k \in Kids[n] : dirty[k] => k \in Gone

\* Every node evaluated anew, given what the value nodes read.
Computed(leaf) ==
  LET all[n \in Node] == IF n \in Leaf THEN leaf[n] ELSE Op(n, [k \in Kids[n] |-> all[k]])
  IN  all

\* The value that e updates holds the value of the tree, computed from what its
\* operands hold now and, where they are gone, from the last that they were read as.
UpToDate(e) ==
  val[Target(e)] = Computed([n \in Leaf |-> IF n \in Gone THEN result[n] ELSE val[points[n]]])[e]

\* A value node hears nothing more of a value that another was moved over, which is
\* as alive as before (against "as long as the value is alive", tree.hpp:61), and
\* still reads it.  About the trees that have such a node nothing is said.
Tracks(e) == \A n \in Tree[e] \cap Leaf : n \in Gone \/ Subscribed(n)

\* No call that would have told e of a change is missing.
Informed(e) == ({Eval(e)} \cup MarksOf(e)) \cap missed = {}

\* observe(), "a value that is updated whenever the provided expression tree
\* changes": when the outermost call of the user is over, whatever the observers
\* have set on the way, every immediate value is up to date.  Excepted are trees
\* that have lost track of an operand, that a throw has kept a mark from, or that
\* changed between their construction and observe(), and not since.
ImmediateIsUpToDate ==
  Idle => \A e \in built \cap Immediate : Tracks(e) /\ Informed(e) => UpToDate(e)

\* "Evaluating them in this order guarantees that the evaluation order is
\* correct": one update_all() brings every value of the updater up to date,
\* those included that depend on others, unless an observer sets values.  Excepted
\* are trees that have lost track of an operand or that a throw has kept a mark from.
UpdateAllSettles ==
  calls = <<{Unlock}>> /\ calm =>
    \A e \in built \ Immediate : Tracks(e) /\ Informed(e) => UpToDate(e)

\* The last thing that an observer hears of a value is what it holds, unless its
\* call was lost to a throw, or the value was set during its initial call ("The
\* observer is not subscribed during the initial call"), and not since.
HeardIsCurrent ==
  Idle => \A o \in Object, w \in Watcher :
            Tell(w) \in subs[o] => heard[w] = val[o] \/ Tell(w) \in missed

\* "If the value is destroyed, the node will keep returning the last
\* evaluated value indefinitely": no evaluation reads a destroyed value.
NoReadOfDestroyed ==
  \A e \in Root : ~Idle /\ Eval(e) \in Head(calls) =>
    \A n \in (Reached(e) \cap Leaf) \ Gone : state[points[n]] # "dead"
=============================================================================
