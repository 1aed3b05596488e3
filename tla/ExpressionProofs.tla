-------------------------- MODULE ExpressionProofs --------------------------
(***************************************************************************)
(* Proofs about Expression, for any objects, any finite trees of nodes and *)
(* any operation.                                                          *)
(*                                                                         *)
(* The parts: who notifies which node (Inv); loops and trees, the two data *)
(* structures; the types and who sets what (Wired); what observers hear    *)
(* (Heard); what nodes hold (Clean); what immediate expressions hold       *)
(* (Prompt); the order of update_all() (Settling).                         *)
(***************************************************************************)
EXTENDS Expression, TLAPS, FiniteSetTheorems, WellFoundedInduction

\* The types of what the proof is about.
Types ==
  /\ state \in [Object -> {"unborn", "live", "moved", "dead"}]
  /\ subs \in [Object -> SUBSET (Marks \cup Tells)]
  /\ updater \in [Object -> Root \cup {NoNode}]
  /\ made \subseteq Node /\ built \subseteq Root
  /\ points \in [Leaf -> Object \cup {NoObject}]

\* A node is notified only as long as it exists.
NotifiedIsMade == \A o \in Object, n \in Leaf : Mark(n) \in subs[o] => n \in made

\* What is below a node exists as long as the node does, and the nodes of an
\* expression as long as it does.
Grown == built \subseteq made /\ \A n \in made : Kids[n] \subseteq made

Inv == Types /\ NotifiedIsMade /\ Grown /\ NodeFollowsValue

followed == <<state, subs, updater, made, built, points>>

-----------------------------------------------------------------------------
\* The calls that can be in progress are told apart.
LEMMA DifferentCalls ==
  /\ \A m, n : Mark(m) = Mark(n) => m = n
  /\ \A m, n : Tell(m) = Tell(n) => m = n
  /\ \A m, n : Eval(m) = Eval(n) => m = n
  /\ \A m, n : Values(m) = Values(n) => m = n
  /\ \A m, n, o, p : Join(m, o) = Join(n, p) => m = n /\ o = p
  /\ \A m, n : Mark(m) # Tell(n) /\ Mark(m) # Eval(n) /\ Mark(m) # Unlock
  /\ \A m, n : Tell(m) # Eval(n) /\ Tell(m) # Unlock /\ Eval(m) # Unlock
  /\ \A m, n : /\ Values(m) # Mark(n) /\ Values(m) # Tell(n)
               /\ Values(m) # Eval(n) /\ Values(m) # Unlock
  /\ \A m, n, o : /\ Join(m, o) # Mark(n) /\ Join(m, o) # Tell(n)
                  /\ Join(m, o) # Eval(n) /\ Join(m, o) # Unlock /\ Join(m, o) # Values(n)
  <1>1. /\ \A m, n : Mark(m) = Mark(n) => m = n
        /\ \A m, n : Tell(m) = Tell(n) => m = n
        /\ \A m, n : Eval(m) = Eval(n) => m = n
        /\ \A m, n : Values(m) = Values(n) => m = n
        /\ \A m, n, o, p : Join(m, o) = Join(n, p) => m = n /\ o = p
    BY DEF Mark, Tell, Eval, Values, Join
  <1>2. /\ \A m, n : Mark(m) # Tell(n) /\ Mark(m) # Eval(n) /\ Mark(m) # Unlock
        /\ \A m, n : Tell(m) # Eval(n) /\ Tell(m) # Unlock /\ Eval(m) # Unlock
    BY DEF Mark, Tell, Eval, Unlock
  <1>3. \A m, n : /\ Values(m) # Mark(n) /\ Values(m) # Tell(n)
                  /\ Values(m) # Eval(n) /\ Values(m) # Unlock
    BY DEF Mark, Tell, Eval, Unlock, Values
  <1>4. \A m, n, o : /\ Join(m, o) # Mark(n) /\ Join(m, o) # Tell(n)
                     /\ Join(m, o) # Eval(n) /\ Join(m, o) # Unlock /\ Join(m, o) # Values(n)
    <2>1. \A m, o : Join(m, o)[1] = "join"
      BY DEF Join
    <2>2. /\ \A n : Mark(n)[1] = "mark" /\ Tell(n)[1] = "tell" /\ Eval(n)[1] = "eval"
          /\ \A n : Values(n)[1] = "values"
          /\ Unlock[1] = "unlock"
      BY DEF Mark, Tell, Eval, Unlock, Values
    <2> QED
      BY <2>1, <2>2
  <1> QED
    BY <1>1, <1>2, <1>3, <1>4

\* A node is in one tree only.
LEMMA OneTree ==
  ASSUME NEW n \in Leaf, NEW d \in Root, NEW e \in Root, d \in Path[n], e \in Path[n]
  PROVE  d = e /\ n \in Node
  BY ExpressionAssumption

\* The value nodes below a node are those that drop with it.
LEMMA NodesOf ==
  ASSUME NEW e, NEW n \in Leaf
  PROVE  /\ n \in Nodes(e) <=> e \in Path[n]
         /\ Mark(n) \in MarksOf(e) <=> n \in Nodes(e)
  <1>1. n \in Node /\ Path[n] \subseteq Node
    BY ExpressionAssumption
  <1>2. n \in Nodes(e) <=> e \in Path[n]
    BY <1>1 DEF Nodes, Tree
  <1>3. Mark(n) \in MarksOf(e) <=> n \in Nodes(e)
    BY DifferentCalls DEF MarksOf
  <1> QED
    BY <1>2, <1>3

\* A node, its kids and what is above them.
LEMMA KidsOf ==
  ASSUME NEW n \in Node, NEW k \in Kids[n]
  PROVE  /\ k \in Node /\ k # n /\ Path[k] = {k} \cup Path[n]
         /\ n \in Path[n] /\ k \notin Path[n]
  BY ExpressionAssumption DEF Kids

\* The kids of a node are in its tree.
LEMMA KidsShareTree ==
  ASSUME NEW n \in Node, NEW k \in Kids[n], NEW e, e \in Root \/ e \notin Node
  PROVE  e \in Path[k] <=> e \in Path[n]
  <1>1. /\ k \in Node /\ k # n /\ Path[k] = {k} \cup Path[n] /\ n \in Path[n]
    BY KidsOf
  <1>2. e # k
    BY <1>1 DEF Root
  <1> QED
    BY <1>1, <1>2

\* What may be dropped: an expression, no expression, or a node with no parent.
Droppable(e) == e \in Root \cup {NoNode} \/ (e \in made /\ Path[e] \cap made = {e})

\* What is left when e is dropped is whole.
LEMMA GrownDrops ==
  ASSUME Inv, NEW e, Droppable(e), Drop(e)
  PROVE  /\ made' \subseteq made /\ built' \subseteq built /\ Grown'
         /\ \A o \in Object, n \in Leaf : Mark(n) \in subs[o] /\ n \notin Nodes(e) => n \in made'
  <1>1. built' = built \ {e} /\ made' = {n \in made : e \notin Path[n]}
    BY DEF Drop
  <1>2. made \subseteq Node /\ built \subseteq Root /\ NoNode \notin Node
    BY ExpressionAssumption DEF Inv, Types
  <1>3. built' \subseteq made'
    BY <1>1, <1>2 DEF Inv, Grown, Root
  <1>4. ASSUME NEW n \in made', NEW k \in Kids[n] PROVE k \in made'
    <2>1. n \in made /\ n \in Node /\ e \notin Path[n] /\ k \in made
      BY <1>1, <1>2 DEF Inv, Grown
    <2>2. Path[k] = {k} \cup Path[n] /\ n \in Path[n] /\ k # n
      BY <2>1, KidsOf
    <2>3. e # k
      <3>1. CASE e \in Root \cup {NoNode}
        BY <3>1, <2>1, <2>2, <1>2 DEF Root
      <3>2. CASE e \in made /\ Path[e] \cap made = {e}
        BY <3>2, <2>1, <2>2
      <3> QED
        BY <3>1, <3>2 DEF Droppable
    <2> QED
      BY <1>1, <2>1, <2>2, <2>3
  <1>5. \A o \in Object, n \in Leaf : Mark(n) \in subs[o] /\ n \notin Nodes(e) => n \in made'
    BY <1>1, NodesOf DEF Inv, NotifiedIsMade
  <1> QED
    BY <1>1, <1>3, <1>4, <1>5 DEF Grown

\* A value node is built on a value, and no other notifies it.
LEMMA BuildLeafKeeps ==
  ASSUME Inv, NEW l, BuildLeaf(l)
  PROVE  Inv'
  <1>1. /\ l \in Leaf /\ l \notin made /\ Live(Operand[l])
        /\ made' = made \cup {l}
        /\ subs' = [subs EXCEPT ![Operand[l]] = @ \cup {Mark(l)}]
        /\ points' = [points EXCEPT ![l] = Operand[l]]
        /\ state' = state /\ built' = built /\ updater' = updater
    BY DEF BuildLeaf
  <1>2. l \in Node /\ Operand[l] \in Object /\ Kids[l] = {}
    BY <1>1, ExpressionAssumption
  <1>3. Types'
    <2>1. Mark(l) \in Marks
      BY <1>1 DEF Marks
    <2> QED
      BY <1>1, <1>2, <2>1 DEF Inv, Types
  <1>4. Grown'
    BY <1>1, <1>2 DEF Inv, Grown
  <1>5. ASSUME NEW p \in Object, NEW n \in Leaf, Mark(n) \in subs'[p]
        PROVE  n \in made' /\ points'[n] = p /\ state'[p] = "live"
    <2>1. CASE Mark(n) \in subs[p]
      <3>1. n \in made /\ points[n] = p /\ state[p] = "live" /\ n # l
        BY <2>1, <1>1 DEF Inv, NotifiedIsMade, NodeFollowsValue, Live
      <3> QED
        BY <3>1, <1>1 DEF Inv, Types
    <2>2. CASE Mark(n) \notin subs[p]
      <3>1. p = Operand[l] /\ Mark(n) = Mark(l)
        BY <2>2, <1>1, <1>2, <1>5 DEF Inv, Types
      <3>2. n = l
        BY <3>1, DifferentCalls
      <3> QED
        BY <3>1, <3>2, <1>1 DEF Inv, Types, Live
    <2> QED
      BY <2>1, <2>2
  <1> QED
    BY <1>3, <1>4, <1>5 DEF Inv, NotifiedIsMade, NodeFollowsValue, Live

\* An n-ary node is built on nodes that exist.
LEMMA BuildNaryKeeps ==
  ASSUME Inv, NEW m, BuildNary(m)
  PROVE  Inv'
  <1>1. /\ m \in Node /\ Kids[m] \subseteq made /\ made' = made \cup {m}
        /\ UNCHANGED <<state, subs, updater, built, points>>
    BY DEF BuildNary, objects
  <1>2. Types' /\ Grown' /\ NotifiedIsMade'
    BY <1>1 DEF Inv, Types, Grown, NotifiedIsMade
  <1>3. NodeFollowsValue'
    BY <1>1 DEF Inv, NodeFollowsValue, Live
  <1> QED
    BY <1>2, <1>3 DEF Inv

\* observe() changes nothing for the nodes.
LEMMA ObserveKeeps ==
  ASSUME Inv, NEW e \in Root, NEW o \in Object, Observe(e, o)
  PROVE  Inv'
  <1>1. /\ e \in made /\ built' = built \cup {e}
        /\ state' = [state EXCEPT ![o] = "live"]
        /\ updater' = [updater EXCEPT ![o] = e]
        /\ UNCHANGED <<subs, made, points>>
    BY DEF Observe, nodes
  <1>2. Types' /\ Grown' /\ NotifiedIsMade'
    BY <1>1 DEF Inv, Types, Grown, NotifiedIsMade
  <1>3. NodeFollowsValue'
    BY <1>1 DEF Inv, Types, NodeFollowsValue, Live
  <1> QED
    BY <1>2, <1>3 DEF Inv

\* The nodes of a tree that is discarded are notified no more.
LEMMA DiscardKeeps ==
  ASSUME Inv, NEW e, Discard(e)
  PROVE  Inv'
  <1>1. /\ e \in made /\ Path[e] \cap made = {e} /\ Drop(e)
        /\ points' = [k \in Leaf |-> IF k \in Nodes(e) THEN NoObject ELSE points[k]]
        /\ subs' = [o \in Object |-> subs[o] \ MarksOf(e)]
        /\ state' = state /\ updater' = updater
    BY DEF Discard
  <1>2. Grown' /\ made' \subseteq made /\ built' \subseteq built
    BY <1>1, GrownDrops DEF Droppable
  <1>3. Types'
    BY <1>1, <1>2 DEF Inv, Types
  <1>4. ASSUME NEW p \in Object, NEW n \in Leaf, Mark(n) \in subs'[p]
        PROVE  n \in made' /\ points'[n] = p /\ state'[p] = "live"
    <2>1. Mark(n) \in subs[p] /\ n \notin Nodes(e)
      BY <1>1, <1>4, NodesOf
    <2>2. n \in made'
      BY <1>1, <2>1, GrownDrops DEF Droppable
    <2> QED
      BY <1>1, <2>1, <2>2 DEF Inv, NodeFollowsValue, Live
  <1> QED
    BY <1>2, <1>3, <1>4 DEF Inv, NotifiedIsMade, NodeFollowsValue, Live

\* ~value() tells the nodes built on it, and drops the expression that set it.
LEMMA DestroyKeeps ==
  ASSUME Inv, NEW o \in Object, Destroy(o)
  PROVE  Inv'
  <1> DEFINE e == updater[o]
  <1>1. /\ state' = [state EXCEPT ![o] = "dead"]
        /\ points' = [n \in Leaf |-> IF Mark(n) \in subs[o] \/ n \in Nodes(e) THEN NoObject ELSE points[n]]
        /\ subs' = [p \in Object |-> IF p = o THEN {} ELSE subs[p] \ MarksOf(e)]
        /\ updater' = [updater EXCEPT ![o] = NoNode]
        /\ Drop(e)
    BY DEF Destroy
  <1>2. Droppable(e)
    BY DEF Inv, Types, Droppable
  <1>3. Grown' /\ made' \subseteq made /\ built' \subseteq built
    BY <1>1, <1>2, GrownDrops
  <1>4. Types'
    BY <1>1, <1>3 DEF Inv, Types
  <1> HIDE DEF e
  <1>5. ASSUME NEW p \in Object, NEW n \in Leaf, Mark(n) \in subs'[p]
        PROVE  n \in made' /\ points'[n] = p /\ state'[p] = "live"
    <2>1. p # o /\ Mark(n) \in subs[p] /\ n \notin Nodes(e)
      BY <1>1, <1>5, NodesOf
    <2>2. points[n] = p /\ state[p] = "live" /\ Mark(n) \notin subs[o]
      BY <2>1 DEF Inv, NodeFollowsValue, Live
    <2>3. n \in made'
      BY <2>1, <1>1, <1>2, GrownDrops
    <2> QED
      BY <2>1, <2>2, <2>3, <1>1 DEF Inv, Types
  <1> QED
    BY <1>3, <1>4, <1>5 DEF Inv, NotifiedIsMade, NodeFollowsValue, Live

\* A move takes the nodes that were built on p to o, and loses those of o.
LEMMA MoveKeeps ==
  ASSUME Inv, NEW o \in Object, NEW p \in Object, o # p, MoveInto(o, p)
  PROVE  Inv'
  <1> DEFINE e == updater[o]
  <1>1. /\ state' = [state EXCEPT ![o] = "live", ![p] = "moved"]
        /\ subs' = [q \in Object |-> CASE q = o -> subs[p] \ MarksOf(e)
                                       [] q = p -> {}
                                       [] OTHER -> subs[q] \ MarksOf(e)]
        /\ points' = [n \in Leaf |-> IF n \in Nodes(e) THEN NoObject ELSE Redirected(o, p)[n]]
        /\ updater' = [updater EXCEPT ![o] = updater[p], ![p] = NoNode]
        /\ Drop(e)
    BY DEF MoveInto
  <1>2. Redirected(o, p) = [n \in Leaf |-> IF Mark(n) \in subs[p] THEN o ELSE points[n]]
    BY DEF Redirected
  <1>3. subs'[p] = {} /\ subs'[o] = subs[p] \ MarksOf(e)
        /\ \A q \in Object \ {o, p} : subs'[q] = subs[q] \ MarksOf(e)
    BY <1>1
  <1>4. \A n \in Leaf : n \notin Nodes(e) =>
          points'[n] = IF Mark(n) \in subs[p] THEN o ELSE points[n]
    BY <1>1, <1>2
  <1>5. Droppable(e)
    BY DEF Inv, Types, Droppable
  <1>6. Grown' /\ made' \subseteq made /\ built' \subseteq built
    BY <1>1, <1>5, GrownDrops
  <1>7. Types'
    <2>1. state' \in [Object -> {"unborn", "live", "moved", "dead"}]
          /\ updater' \in [Object -> Root \cup {NoNode}]
      BY <1>1 DEF Inv, Types
    <2>2. points' \in [Leaf -> Object \cup {NoObject}]
      BY <1>1, <1>2 DEF Inv, Types
    <2>3. subs' \in [Object -> SUBSET (Marks \cup Tells)]
      <3>1. \A q \in Object : subs'[q] \subseteq Marks \cup Tells
        BY <1>3 DEF Inv, Types
      <3> QED
        BY <3>1, <1>1
    <2> QED
      BY <2>1, <2>2, <2>3, <1>6 DEF Inv, Types
  <1> HIDE DEF e
  <1>8. ASSUME NEW q \in Object, NEW n \in Leaf, Mark(n) \in subs'[q]
        PROVE  n \in made' /\ points'[n] = q /\ state'[q] = "live"
    <2>1. CASE q = o
      <3>1. Mark(n) \in subs[p] /\ n \notin Nodes(e)
        BY <1>3, <1>8, <2>1, NodesOf
      <3>2. n \in made'
        BY <3>1, <1>1, <1>5, GrownDrops
      <3> QED
        BY <3>1, <3>2, <2>1, <1>1, <1>4 DEF Inv, Types
    <2>2. CASE q # o
      <3>1. q # p /\ Mark(n) \in subs[q] /\ n \notin Nodes(e)
        BY <1>3, <1>8, <2>2, NodesOf
      <3>2. points[n] = q /\ state[q] = "live" /\ Mark(n) \notin subs[p]
        BY <3>1 DEF Inv, NodeFollowsValue, Live
      <3>3. n \in made'
        BY <3>1, <1>1, <1>5, GrownDrops
      <3> QED
        BY <3>1, <3>2, <3>3, <2>2, <1>1, <1>4 DEF Inv, Types
    <2> QED
      BY <2>1, <2>2
  <1> QED
    BY <1>6, <1>7, <1>8 DEF Inv, NotifiedIsMade, NodeFollowsValue, Live

\* An observer of the user is not a node.
LEMMA SubscribeKeeps ==
  ASSUME Inv, NEW w \in Watcher, NEW o \in Object, Subscribe(w, o)
  PROVE  Inv'
  <1>1. /\ subs' = [subs EXCEPT ![o] = @ \cup {Tell(w)}]
        /\ state' = state /\ built' = built /\ updater' = updater
        /\ made' = made /\ points' = points
    BY DEF Subscribe, nodes
  <1>2. Tell(w) \in Tells
    BY DEF Tells
  <1>3. Types'
    BY <1>1, <1>2 DEF Inv, Types
  <1>4. \A p \in Object, n \in Leaf : Mark(n) \in subs'[p] => Mark(n) \in subs[p]
    BY <1>1, DifferentCalls DEF Inv, Types
  <1> QED
    BY <1>1, <1>3, <1>4 DEF Inv, NotifiedIsMade, Grown, NodeFollowsValue, Live

\* Nothing else changes who is notified.
LEMMA OthersFollow ==
  ASSUME \/ Step \/ User \/ (\E w \in Watcher : Throw(w)) \/ UNCHANGED vars,
         \A w \in Watcher, o \in Object : ~Subscribe(w, o)
  PROVE  UNCHANGED followed
  <1> USE DEF followed, objects, nodes
  <1>1. CASE Step
    BY <1>1 DEF Step, Release, NotifyValues, MarkDirty, Evaluate, TellWatcher
  <1>2. CASE User
    BY <1>2 DEF User
  <1>3. CASE \E w \in Watcher : Throw(w)
    BY <1>3 DEF Throw
  <1>4. CASE UNCHANGED vars
    BY <1>4 DEF vars
  <1> QED
    BY <1>1, <1>2, <1>3, <1>4

LEMMA InvHolds == Spec => []Inv
  <1>1. Init => Inv
    <2> SUFFICES ASSUME Init PROVE Inv
      OBVIOUS
    <2>1. Types
      BY DEF Init, Types
    <2>2. \A o \in Object : subs[o] = {}
      BY DEF Init
    <2>3. made = {} /\ built = {}
      BY DEF Init
    <2> QED
      BY <2>1, <2>2, <2>3 DEF Inv, NotifiedIsMade, Grown, NodeFollowsValue
  <1>2. Inv /\ [Next]_vars => Inv'
    <2> SUFFICES ASSUME Inv, [Next]_vars PROVE Inv'
      OBVIOUS
    <2>1. CASE UNCHANGED followed
      BY <2>1 DEF followed, Inv, Types, NotifiedIsMade, Grown, NodeFollowsValue, Live
    <2>2. ASSUME NEW o \in Object, NEW p \in Object, MoveConstruct(o, p) \/ MoveAssign(o, p)
          PROVE  Inv'
      <3>1. o # p /\ MoveInto(o, p)
        BY <2>2 DEF MoveConstruct, MoveAssign, Live
      <3> QED
        BY <3>1, MoveKeeps
    <2>3. ASSUME NEW n \in Node, BuildLeaf(n) \/ BuildNary(n) \/ Discard(n) PROVE Inv'
      BY <2>3, BuildLeafKeeps, BuildNaryKeeps, DiscardKeeps
    <2> QED
      BY <2>1, <2>2, <2>3, OthersFollow, DestroyKeeps, SubscribeKeeps, ObserveKeeps DEF Next
  <1> QED
    BY <1>1, <1>2, PTL DEF Spec

\* "If the value is moved, the node will use the new, moved-into, value": for
\* any objects and trees, whatever is moved, assigned and destroyed.
THEOREM NodeFollowsValueHolds == Spec => []NodeFollowsValue
  <1>1. Inv => NodeFollowsValue
    BY DEF Inv
  <1> QED
    BY <1>1, InvHolds, PTL

-----------------------------------------------------------------------------
\* The calls in some loops.
InLoops(loops) == UNION {loops[i] : i \in DOMAIN loops}

\* A set of natural numbers has a least member.
LEMMA LeastNumber ==
  ASSUME NEW S \in SUBSET Nat, S # {}
  PROVE  \E k \in S : \A j \in S : k <= j
  <1>1. PICK k \in S : \A j \in S : <<j, k>> \notin OpToRel(<, Nat)
    BY NatLessThanWellFounded, WFMin
  <1>2. \A j \in S : ~(j < k)
    BY <1>1 DEF OpToRel
  <1> QED
    BY <1>2

\* Erasing the entry of e, if there is one, leaves all others, in order.
LEMMA RemoveFirstEntry ==
  ASSUME NEW S, NEW s \in Seq(S), NEW e
  PROVE  /\ RemoveFirst(s, e) \in Seq(S)
         /\ (\A i \in 1..Len(s) : s[i] # e) => RemoveFirst(s, e) = s
         /\ (\E i \in 1..Len(s) : s[i] = e) =>
              \E i \in 1..Len(s) :
                /\ s[i] = e /\ Len(RemoveFirst(s, e)) = Len(s) - 1
                /\ \A j \in 1..Len(s) - 1 : RemoveFirst(s, e)[j] = IF j < i THEN s[j] ELSE s[j + 1]
  <1> DEFINE I == {i \in 1..Len(s) : s[i] = e}
  <1>1. CASE I = {}
    BY <1>1 DEF RemoveFirst
  <1>2. CASE I # {}
    <2>0. I \in SUBSET Nat
      OBVIOUS
    <2>1. \E i \in I : \A j \in I : i <= j
      <3> HIDE DEF I
      <3> QED
        BY <1>2, <2>0, LeastNumber
    <2>2. Min(I) \in I
      BY <2>1 DEF Min
    <2>3. RemoveFirst(s, e) = RemoveAt(s, Min(I))
      BY <1>2 DEF RemoveFirst, SelectInSeq
    <2> DEFINE i == Min(I)
    <2> HIDE DEF i, I
    <2>4. i \in 1..Len(s) /\ s[i] = e
      BY <2>2 DEF i, I
    <2> DEFINE a == SubSeq(s, 1, i - 1)
               b == SubSeq(s, i + 1, Len(s))
    <2>5. a \in Seq(S) /\ Len(a) = i - 1 /\ \A j \in 1..i - 1 : a[j] = s[j]
      BY <2>4
    <2>6. b \in Seq(S) /\ Len(b) = Len(s) - i /\ \A j \in 1..Len(s) - i : b[j] = s[i + j]
      BY <2>4
    <2>7. RemoveFirst(s, e) = a \o b
      BY <2>3 DEF RemoveAt, i
    <2> HIDE DEF a, b
    <2>8. a \o b \in Seq(S) /\ Len(a \o b) = Len(s) - 1
      BY <2>4, <2>5, <2>6
    <2>9. ASSUME NEW j \in 1..Len(s) - 1
          PROVE  (a \o b)[j] = IF j < i THEN s[j] ELSE s[j + 1]
      <3>1. CASE j < i
        BY <3>1, <2>4, <2>5, <2>6
      <3>2. CASE ~(j < i)
        <4>1. (a \o b)[j] = b[j - (i - 1)]
          BY <3>2, <2>4, <2>5, <2>6
        <4>2. j - (i - 1) \in 1..Len(s) - i /\ i + (j - (i - 1)) = j + 1
          BY <3>2, <2>4
        <4> QED
          BY <3>2, <4>1, <4>2, <2>6
      <3> QED
        BY <3>1, <3>2
    <2>10. (\A k \in 1..Len(s) : s[k] # e) => FALSE
      BY <2>4
    <2> QED
      BY <2>4, <2>7, <2>8, <2>9, <2>10
  <1> QED
    BY <1>1, <1>2

\* Forgetting e keeps the entries unique, and leaves those that are not e.
LEMMA RemoveFirstOfUnique ==
  ASSUME NEW S, NEW s \in Seq(S), NEW e,
         \A i, j \in 1..Len(s) : s[i] = s[j] => i = j
  PROVE  LET r == RemoveFirst(s, e) IN
         /\ \A i, j \in 1..Len(r) : r[i] = r[j] => i = j
         /\ \A i \in 1..Len(r) : r[i] # e /\ \E j \in 1..Len(s) : r[i] = s[j]
  <1>1. CASE \A i \in 1..Len(s) : s[i] # e
    BY <1>1, RemoveFirstEntry
  <1>2. CASE \E i \in 1..Len(s) : s[i] = e
    <2> DEFINE r == RemoveFirst(s, e)
    <2>1. PICK i \in 1..Len(s) :
                /\ s[i] = e /\ Len(r) = Len(s) - 1
                /\ \A j \in 1..Len(s) - 1 : r[j] = IF j < i THEN s[j] ELSE s[j + 1]
      BY <1>2, RemoveFirstEntry
    <2> HIDE DEF r
    <2> DEFINE at(j) == IF j < i THEN j ELSE j + 1
    <2>2. \A j \in 1..Len(r) : at(j) \in 1..Len(s) /\ at(j) # i /\ r[j] = s[at(j)]
      BY <2>1
    <2>3. \A j, k \in 1..Len(r) : at(j) = at(k) => j = k
      BY <2>1
    <2>4. \A j, k \in 1..Len(r) : r[j] = r[k] => at(j) = at(k)
      <3> HIDE DEF at
      <3> QED
        BY <2>2
    <2>5. \A j \in 1..Len(r) : r[j] # e
      <3> HIDE DEF at
      <3> QED
        BY <2>1, <2>2
    <2>6. \A j \in 1..Len(r) : \E k \in 1..Len(s) : r[j] = s[k]
      <3> HIDE DEF at
      <3> QED
        BY <2>2
    <2> QED
      BY <2>3, <2>4, <2>5, <2>6 DEF r
  <1> QED
    BY <1>1, <1>2

\* Loops taken apart.
LEMMA FirstLoop ==
  ASSUME NEW loops \in Seq(SUBSET Call), loops # <<>>
  PROVE  /\ Head(loops) \in SUBSET Call /\ Tail(loops) \in Seq(SUBSET Call)
         /\ InLoops(loops) = Head(loops) \cup InLoops(Tail(loops))
  <1>1. Head(loops) \in SUBSET Call /\ Tail(loops) \in Seq(SUBSET Call)
    OBVIOUS
  <1>2. /\ Head(loops) = loops[1] /\ 1 \in DOMAIN loops
        /\ \A i \in DOMAIN Tail(loops) : i + 1 \in DOMAIN loops /\ Tail(loops)[i] = loops[i + 1]
        /\ \A i \in DOMAIN loops : i # 1 => i - 1 \in DOMAIN Tail(loops) /\ Tail(loops)[i - 1] = loops[i]
    OBVIOUS
  <1>3. ASSUME NEW c PROVE c \in InLoops(loops) <=> c \in Head(loops) \/ c \in InLoops(Tail(loops))
    <2>1. c \in InLoops(loops) <=> \E i \in DOMAIN loops : c \in loops[i]
      BY DEF InLoops
    <2>2. c \in InLoops(Tail(loops)) <=> \E i \in DOMAIN Tail(loops) : c \in Tail(loops)[i]
      BY DEF InLoops
    <2> QED
      BY <1>2, <2>1, <2>2
  <1> QED
    BY <1>1, <1>3

\* A loop begins.
LEMMA StartCalls ==
  ASSUME NEW loop \in SUBSET Call, NEW rest \in Seq(SUBSET Call)
  PROVE  /\ Start(loop, rest) \in Seq(SUBSET Call)
         /\ InLoops(Start(loop, rest)) = loop \cup InLoops(rest)
         /\ loop = {} => Start(loop, rest) = rest
         /\ loop # {} => /\ Start(loop, rest) # <<>>
                         /\ Head(Start(loop, rest)) = loop
                         /\ Tail(Start(loop, rest)) = rest
  <1>1. CASE loop = {}
    BY <1>1 DEF Start
  <1>2. CASE loop # {}
    <2>1. Start(loop, rest) = <<loop>> \o rest
      BY <1>2 DEF Start
    <2>2. /\ <<loop>> \o rest \in Seq(SUBSET Call) /\ <<loop>> \o rest # <<>>
          /\ Head(<<loop>> \o rest) = loop
      OBVIOUS
    <2>3. Tail(<<loop>> \o rest) = rest
      OBVIOUS
    <2> QED
      BY <1>2, <2>1, <2>2, <2>3, FirstLoop
  <1> QED
    BY <1>1, <1>2

-----------------------------------------------------------------------------
\* How far a node is from a root.
Depth(n) == Cardinality(Path[n])

LEMMA DepthOfKids ==
  /\ Cardinality(Node) \in Nat
  /\ \A n \in Node : Depth(n) \in Nat /\ Depth(n) <= Cardinality(Node)
  /\ \A n \in Node : \A k \in Kids[n] : Depth(k) = Depth(n) + 1
  <1>1. \A n \in Node : Path[n] \subseteq Node
    BY ExpressionAssumption
  <1>2. IsFiniteSet(Node) /\ Cardinality(Node) \in Nat
    BY ExpressionAssumption, FS_CardinalityType
  <1>3. ASSUME NEW n \in Node
        PROVE  IsFiniteSet(Path[n]) /\ Depth(n) \in Nat /\ Depth(n) <= Cardinality(Node)
    <2>1. Path[n] \in SUBSET Node
      BY <1>1
    <2> QED
      BY <1>2, <2>1, FS_Subset, FS_CardinalityType DEF Depth
  <1>4. ASSUME NEW n \in Node, NEW k \in Kids[n] PROVE Depth(k) = Depth(n) + 1
    <2>1. Path[k] = Path[n] \cup {k} /\ k \notin Path[n]
      BY KidsOf
    <2> QED
      BY <1>3, <2>1, FS_AddElement DEF Depth
  <1> QED
    BY <1>2, <1>3, <1>4

\* Induction from the roots down: a property that fails of some node fails of a
\* root, or of a node below one that has it.
LEMMA Highest ==
  ASSUME NEW S \in SUBSET Node, S # {}
  PROVE  \E n \in S : n \in Root \/ \E m \in Node \ S : n \in Kids[m]
  <1> DEFINE D == {d \in Nat : \E n \in S : d = Depth(n)}
  <1>1. D \in SUBSET Nat /\ D # {}
    BY DepthOfKids
  <1>2. PICK d \in D : \A c \in D : d <= c
    <2> HIDE DEF D
    <2> QED
      BY <1>1, LeastNumber
  <1>3. PICK n \in S : d = Depth(n)
    BY <1>2
  <1>4. \A m \in Node : n \in Kids[m] => m \notin S
    <2> SUFFICES ASSUME NEW m \in Node, n \in Kids[m], m \in S PROVE FALSE
      OBVIOUS
    <2>1. Depth(n) = Depth(m) + 1 /\ Depth(m) \in Nat
      BY DepthOfKids
    <2>2. Depth(m) \in D
      BY <2>1
    <2> QED
      BY <1>2, <1>3, <2>1, <2>2
  <1> QED
    BY <1>3, <1>4, ExpressionAssumption

\* Induction from the leaves up.
LEMMA Lowest ==
  ASSUME NEW S \in SUBSET Node, S # {}
  PROVE  \E n \in S : \A k \in Kids[n] : k \notin S
  <1> DEFINE c == Cardinality(Node)
             H == {h \in Nat : \E n \in S : h = c - Depth(n)}
  <1>1. H \in SUBSET Nat /\ H # {}
    <2>1. PICK n \in S : TRUE
      OBVIOUS
    <2>2. c - Depth(n) \in Nat
      BY DepthOfKids
    <2> QED
      BY <2>2
  <1>2. PICK h \in H : \A i \in H : h <= i
    <2> HIDE DEF H
    <2> QED
      BY <1>1, LeastNumber
  <1>3. PICK n \in S : h = c - Depth(n)
    BY <1>2
  <1>4. ASSUME NEW k \in Kids[n], k \in S PROVE FALSE
    <2>1. /\ Depth(k) = Depth(n) + 1 /\ Depth(n) \in Nat /\ Depth(k) <= c /\ c \in Nat
      BY <1>4, DepthOfKids
    <2>2. c - Depth(k) \in H
      BY <1>4, <2>1
    <2>3. h <= c - Depth(k)
      BY <1>2, <2>2
    <2> QED
      BY <1>3, <2>1, <2>3
  <1> QED
    BY <1>4

\* What is above a node is above all that is below it.
LEMMA PathsAreNested ==
  ASSUME NEW n \in Node, NEW m \in Path[n]
  PROVE  m \in Node /\ Path[m] \subseteq Path[n]
  <1> DEFINE S == {a \in Node : \E b \in Path[a] : ~(b \in Node /\ Path[b] \subseteq Path[a])}
  <1>1. CASE S = {}
    BY <1>1
  <1>2. CASE S # {}
    <2>1. PICK a \in S : a \in Root \/ \E p \in Node \ S : a \in Kids[p]
      <3>1. S \in SUBSET Node
        OBVIOUS
      <3> HIDE DEF S
      <3> QED
        BY <1>2, <3>1, Highest
    <2>2. PICK b \in Path[a] : ~(b \in Node /\ Path[b] \subseteq Path[a])
      OBVIOUS
    <2>3. b # a
      BY <2>2
    <2>4. PICK p \in Node \ S : a \in Kids[p]
      BY <2>1, <2>2, <2>3 DEF Root
    <2>5. Path[a] = {a} \cup Path[p]
      BY <2>4, KidsOf
    <2> QED
      BY <2>2, <2>3, <2>4, <2>5
  <1> QED
    BY <1>1, <1>2

-----------------------------------------------------------------------------
\* A value for every node of S is computed from those of its kids, whatever
\* the other nodes hold.
LEMMA RecursionExists ==
  ASSUME NEW S \in SUBSET Node, NEW base \in [Node -> Datum]
  PROVE  \E g \in [Node -> Datum] :
           g = [n \in Node |-> IF n \in S THEN Op(n, [k \in Kids[n] |-> g[k]]) ELSE base[n]]
  <1> DEFINE c == Cardinality(Node)
             Body(g, n) == IF n \in S THEN Op(n, [k \in Kids[n] |-> g[k]]) ELSE base[n]
             Solves(g, i) == \A n \in Node : c - Depth(n) < i => g[n] = Body(g, n)
             Bad == {i \in Nat : ~\E g \in [Node -> Datum] : Solves(g, i)}
  <1>1. \A g \in [Node -> Datum], n \in Node : Body(g, n) \in Datum
    <2> SUFFICES ASSUME NEW g \in [Node -> Datum], NEW n \in Node PROVE Body(g, n) \in Datum
      OBVIOUS
    <2>1. [k \in Kids[n] |-> g[k]] \in [Kids[n] -> Datum]
      BY KidsOf
    <2>2. Op(n, [k \in Kids[n] |-> g[k]]) \in Datum
      BY <2>1, ExpressionAssumption
    <2> QED
      BY <2>2
  <1>2. \A n \in Node : c \in Nat /\ Depth(n) \in Nat /\ Depth(n) <= c
    BY DepthOfKids
  <1>3. CASE Bad = {}
    <2>1. c + 1 \in Nat
      BY DepthOfKids
    <2>2. PICK g \in [Node -> Datum] : Solves(g, c + 1)
      BY <1>3, <2>1
    <2>3. \A n \in Node : c - Depth(n) < c + 1
      BY <1>2
    <2>4. \A n \in Node : g[n] = Body(g, n)
      BY <2>2, <2>3
    <2>5. g = [n \in Node |-> Body(g, n)]
      <3> HIDE DEF Body
      <3> QED
        BY <2>4
    <2> QED
      BY <2>5
  <1>4. CASE Bad # {}
    <2>1. PICK i \in Bad : \A j \in Bad : i <= j
      <3>1. Bad \in SUBSET Nat
        OBVIOUS
      <3> HIDE DEF Bad
      <3> QED
        BY <1>4, <3>1, LeastNumber
    <2>2. i # 0
      <3>1. i = 0 => Solves(base, i)
        BY <1>2
      <3> QED
        BY <3>1
    <2>3. i \in Nat /\ i - 1 \in Nat /\ i - 1 \notin Bad
      <3> HIDE DEF Solves
      <3> QED
        BY <2>1, <2>2
    <2>4. PICK g \in [Node -> Datum] : Solves(g, i - 1)
      BY <2>3
    <2> DEFINE h == [n \in Node |-> IF c - Depth(n) = i - 1 THEN Body(g, n) ELSE g[n]]
    <2>5. h \in [Node -> Datum]
      <3> HIDE DEF Body
      <3> QED
        BY <1>1
    <2>6. ASSUME NEW n \in Node, c - Depth(n) < i
          PROVE  h[n] = Body(h, n)
      <3>1. \A k \in Kids[n] : k \in Node /\ c - Depth(k) # i - 1
        <4> SUFFICES ASSUME NEW k \in Kids[n] PROVE k \in Node /\ c - Depth(k) # i - 1
          OBVIOUS
        <4>1. k \in Node
          BY KidsOf
        <4>2. Depth(k) = Depth(n) + 1
          BY DepthOfKids
        <4> HIDE DEF Bad
        <4> QED
          BY <1>2, <2>3, <2>6, <4>1, <4>2
      <3>2. \A k \in Kids[n] : h[k] = g[k]
        <4> HIDE DEF Body
        <4> QED
          BY <3>1
      <3>3. Body(h, n) = Body(g, n)
        <4>1. [k \in Kids[n] |-> h[k]] = [k \in Kids[n] |-> g[k]]
          <5> HIDE DEF h
          <5> QED
            BY <3>2
        <4> HIDE DEF h
        <4> QED
          BY <4>1
      <3>4. h[n] = Body(g, n)
        <4>1. c - Depth(n) = i - 1 => h[n] = Body(g, n)
          OBVIOUS
        <4>2. c - Depth(n) # i - 1 => c - Depth(n) < i - 1
          <5> HIDE DEF Bad
          <5> QED
            BY <1>2, <2>3, <2>6
        <4>3. c - Depth(n) # i - 1 => h[n] = g[n]
          OBVIOUS
        <4> HIDE DEF h, Body
        <4> QED
          BY <2>4, <4>1, <4>2, <4>3
      <3> QED
        BY <3>3, <3>4
    <2>7. Solves(h, i)
      BY <2>6
    <2>8. i \notin Bad
      <3> HIDE DEF h, Solves
      <3> QED
        BY <2>5, <2>7
    <2> QED
      BY <2>8
  <1> QED
    BY <1>3, <1>4

-----------------------------------------------------------------------------
\* What is computed so is a datum.
LEMMA SolutionIsTyped ==
  ASSUME NEW S \in SUBSET Node, NEW base \in [Node -> Datum], NEW g,
         g = [n \in Node |-> IF n \in S THEN Op(n, [k \in Kids[n] |-> g[k]]) ELSE base[n]]
  PROVE  g \in [Node -> Datum]
  <1> DEFINE B == {n \in Node : g[n] \notin Datum}
  <1>1. \A n \in Node : g[n] = IF n \in S THEN Op(n, [k \in Kids[n] |-> g[k]]) ELSE base[n]
    OBVIOUS
  <1>2. CASE B = {}
    BY <1>2
  <1>3. CASE B # {}
    <2>1. PICK n \in B : \A k \in Kids[n] : k \notin B
      <3>1. B \in SUBSET Node
        OBVIOUS
      <3> HIDE DEF B
      <3> QED
        BY <1>3, <3>1, Lowest
    <2>2. n \in Node
      OBVIOUS
    <2>3. [k \in Kids[n] |-> g[k]] \in [Kids[n] -> Datum]
      BY <2>1, <2>2, KidsOf
    <2>4. Op(n, [k \in Kids[n] |-> g[k]]) \in Datum
      BY <2>2, <2>3, ExpressionAssumption
    <2>5. g[n] \in Datum
      BY <1>1, <2>2, <2>4
    <2> QED
      BY <2>5
  <1> QED
    BY <1>2, <1>3

\* Fresh is defined, because no node is below itself.
LEMMA FreshIs ==
  ASSUME val \in [Object -> Datum], result \in [Node -> Datum],
         points \in [Leaf -> Object \cup {NoObject}]
  PROVE  /\ Fresh \in [Node -> Datum]
         /\ \A n \in Node : ~dirty[n] => Fresh[n] = result[n]
         /\ \A n \in Node \ Leaf : dirty[n] => Fresh[n] = Op(n, [k \in Kids[n] |-> Fresh[k]])
         /\ \A n \in Leaf : dirty[n] =>
              Fresh[n] = IF points[n] = NoObject THEN result[n] ELSE val[points[n]]
  <1> DEFINE S == {n \in Node \ Leaf : dirty[n]}
             base == [n \in Node |-> IF ~dirty[n] \/ n \notin Leaf THEN result[n]
                                     ELSE IF points[n] = NoObject THEN result[n]
                                     ELSE val[points[n]]]
             Body(g, n) == IF ~dirty[n] THEN result[n]
                           ELSE IF n \notin Leaf THEN Op(n, [k \in Kids[n] |-> g[k]])
                           ELSE IF points[n] = NoObject THEN result[n]
                           ELSE val[points[n]]
  <1>1. S \in SUBSET Node /\ base \in [Node -> Datum]
    OBVIOUS
  <1>2. PICK g \in [Node -> Datum] :
               g = [n \in Node |-> IF n \in S THEN Op(n, [k \in Kids[n] |-> g[k]]) ELSE base[n]]
    <2> HIDE DEF S, base
    <2>1. \E g \in [Node -> Datum] :
            g = [n \in Node |-> IF n \in S THEN Op(n, [k \in Kids[n] |-> g[k]]) ELSE base[n]]
      BY ONLY <1>1, RecursionExists
    <2> QED
      BY ONLY <2>1
  <1>3. g = [n \in Node |-> Body(g, n)]
    <2>1. \A n \in Node : g[n] = IF n \in S THEN Op(n, [k \in Kids[n] |-> g[k]]) ELSE base[n]
      <3> HIDE DEF S, base
      <3> QED
        BY <1>2
    <2>2. \A n \in Node : g[n] = Body(g, n)
      BY <2>1
    <2> HIDE DEF Body
    <2> QED
      BY <2>2
  <1>4. Fresh = [n \in Node |-> Body(Fresh, n)]
    BY <1>3 DEF Fresh, Operands
  <1>5. \A n \in Node : Fresh[n] = Body(Fresh, n)
    <2> HIDE DEF Body
    <2> QED
      BY <1>4
  <1>6. ASSUME NEW h, NEW n \in Node, h[n] = Body(h, n)
        PROVE  h[n] = IF n \in S THEN Op(n, [k \in Kids[n] |-> h[k]]) ELSE base[n]
    BY <1>6
  <1>7. Fresh = [n \in Node |-> IF n \in S THEN Op(n, [k \in Kids[n] |-> Fresh[k]]) ELSE base[n]]
    <2>1. \A n \in Node : Fresh[n] = IF n \in S THEN Op(n, [k \in Kids[n] |-> Fresh[k]]) ELSE base[n]
      BY <1>5, <1>6
    <2>2. Fresh = [n \in Node |-> Fresh[n]]
      BY <1>4
    <2> HIDE DEF S, base, Body
    <2> QED
      BY <2>1, <2>2
  <1>8. Fresh \in [Node -> Datum]
    <2> HIDE DEF S, base
    <2> QED
      BY <1>1, <1>7, SolutionIsTyped
  <1> QED
    BY <1>5, <1>8, ExpressionAssumption

\* Computed is defined, too.
LEMMA ComputedIs ==
  ASSUME NEW leaf \in [Leaf -> Datum]
  PROVE  /\ Computed(leaf) \in [Node -> Datum]
         /\ \A n \in Leaf : Computed(leaf)[n] = leaf[n]
         /\ \A n \in Node \ Leaf :
              Computed(leaf)[n] = Op(n, [k \in Kids[n] |-> Computed(leaf)[k]])
  <1> DEFINE S == Node \ Leaf
             base == [n \in Node |-> IF n \in Leaf THEN leaf[n] ELSE SomeInput]
             Body(g, n) == IF n \in Leaf THEN leaf[n] ELSE Op(n, [k \in Kids[n] |-> g[k]])
             c == Computed(leaf)
  <1>1. S \in SUBSET Node /\ base \in [Node -> Datum]
    BY ExpressionAssumption DEF SomeInput
  <1>2. PICK g \in [Node -> Datum] :
               g = [n \in Node |-> IF n \in S THEN Op(n, [k \in Kids[n] |-> g[k]]) ELSE base[n]]
    <2> HIDE DEF S, base
    <2>1. \E g \in [Node -> Datum] :
            g = [n \in Node |-> IF n \in S THEN Op(n, [k \in Kids[n] |-> g[k]]) ELSE base[n]]
      BY ONLY <1>1, RecursionExists
    <2> QED
      BY ONLY <2>1
  <1>3. g = [n \in Node |-> Body(g, n)]
    <2>1. \A n \in Node : g[n] = IF n \in S THEN Op(n, [k \in Kids[n] |-> g[k]]) ELSE base[n]
      <3> HIDE DEF S, base
      <3> QED
        BY <1>2
    <2>2. \A n \in Node : g[n] = Body(g, n)
      BY <2>1
    <2> HIDE DEF Body
    <2> QED
      BY <2>2
  <1>4. c = [n \in Node |-> Body(c, n)]
    BY <1>3 DEF Computed
  <1> HIDE DEF c
  <1>5. \A n \in Node : c[n] = Body(c, n)
    <2> HIDE DEF Body
    <2> QED
      BY <1>4
  <1>6. c = [n \in Node |-> IF n \in S THEN Op(n, [k \in Kids[n] |-> c[k]]) ELSE base[n]]
    <2>1. \A n \in Node : c[n] = IF n \in S THEN Op(n, [k \in Kids[n] |-> c[k]]) ELSE base[n]
      BY <1>5
    <2>2. c = [n \in Node |-> c[n]]
      BY <1>4
    <2> HIDE DEF S, base, Body
    <2> QED
      BY <2>1, <2>2
  <1>7. c \in [Node -> Datum]
    <2> HIDE DEF S, base
    <2> QED
      BY <1>1, <1>6, SolutionIsTyped
  <1> QED
    BY <1>5, <1>7, ExpressionAssumption DEF c

-----------------------------------------------------------------------------
\* An expression that exists sets one object, which is alive.
Updaters ==
  /\ \A o \in Object : updater[o] # NoNode => updater[o] \in built /\ Live(o)
  /\ \A o, p \in Object : updater[o] # NoNode /\ updater[o] = updater[p] => o = p
  /\ \A e \in built : \E o \in Object : updater[o] = e

\* The updater evaluates expressions that exist, each of them once.
Register ==
  /\ \A i \in 1..Len(funs) : funs[i] \in built
  /\ \A i, j \in 1..Len(funs) : funs[i] = funs[j] => i = j

\* What is still to be called is there to be called.
PendingAreThere ==
  /\ \A n \in Leaf : Mark(n) \in Pending => Subscribed(n)
  /\ \A e \in Root : Eval(e) \in Pending => e \in built
  /\ \A w \in Watcher, o \in Object : Join(w, o) \in Pending => Live(o)

\* An observer of the user hears of one value.
Hears(w, o) == Tell(w) \in subs[o] \/ Join(w, o) \in Pending
OneValue == \A w \in Watcher : \A o, p \in Object : Hears(w, o) /\ Hears(w, p) => o = p

\* Nobody has subscribed to an object that is not alive.
SubscribedAreLive == \A o \in Object : subs[o] # {} => Live(o)

Wired == TypeOK /\ Updaters /\ Register /\ PendingAreThere /\ OneValue /\ SubscribedAreLive

-----------------------------------------------------------------------------
LEMMA PendingIs == Pending = InLoops(calls)
  BY DEF Pending, InLoops

LEMMA NoLoops == InLoops(<<>>) = {}
  BY DEF InLoops

LEMMA CallsAreCalls ==
  /\ \A n \in Leaf : Mark(n) \in Marks /\ Mark(n) \in Call
  /\ \A w \in Watcher : Tell(w) \in Tells /\ Tell(w) \in Call
  /\ \A e \in Root : Eval(e) \in Evals /\ Eval(e) \in Call
  /\ \A o \in Object : Values(o) \in Call
  /\ \A w \in Watcher, o \in Object : Join(w, o) \in Call
  /\ Unlock \in Call /\ Marks \cup Tells \subseteq Call
  BY DEF Call, Marks, Tells, Evals, Joins

\* One call is the next one.
LEMMA NextCall ==
  ASSUME TypeOK, NEW c, Calls(c)
  PROVE  /\ calls # <<>> /\ c \in Pending
         /\ Left(c) \in Seq(SUBSET Call)
         /\ InLoops(Left(c)) \subseteq Pending /\ Pending \ {c} \subseteq InLoops(Left(c))
  <1>1. calls \in Seq(SUBSET Call) /\ calls # <<>> /\ c \in Head(calls)
    BY DEF TypeOK, Calls
  <1>2. /\ Head(calls) \ {c} \in SUBSET Call /\ Tail(calls) \in Seq(SUBSET Call)
        /\ Pending = Head(calls) \cup InLoops(Tail(calls))
    BY <1>1, FirstLoop, PendingIs
  <1>3. /\ Left(c) \in Seq(SUBSET Call)
        /\ InLoops(Left(c)) = (Head(calls) \ {c}) \cup InLoops(Tail(calls))
    BY <1>2, StartCalls DEF Left
  <1> QED
    BY <1>1, <1>2, <1>3

\* A call is made.
LEMMA MakesCall ==
  ASSUME TypeOK, NEW c, Makes(c)
  PROVE  /\ calls # <<>> /\ c \in Pending /\ missed' = missed \ {c}
         /\ Left(c) \in Seq(SUBSET Call)
         /\ InLoops(Left(c)) \subseteq Pending /\ Pending \ {c} \subseteq InLoops(Left(c))
  BY NextCall DEF Makes

\* Loops before others.
LEMMA LoopsBefore ==
  ASSUME NEW a \in Seq(SUBSET Call), NEW b \in Seq(SUBSET Call)
  PROVE  a \o b \in Seq(SUBSET Call) /\ InLoops(a \o b) = InLoops(a) \cup InLoops(b)
  <1>1. /\ a \o b \in Seq(SUBSET Call)
        /\ DOMAIN a = 1..Len(a) /\ DOMAIN b = 1..Len(b) /\ DOMAIN (a \o b) = 1..Len(a) + Len(b)
        /\ Len(a) \in Nat /\ Len(b) \in Nat
    OBVIOUS
  <1>2. \A i \in 1..Len(a) : (a \o b)[i] = a[i] /\ i \in 1..Len(a) + Len(b)
    OBVIOUS
  <1>3. \A i \in 1..Len(b) : (a \o b)[Len(a) + i] = b[i] /\ Len(a) + i \in 1..Len(a) + Len(b)
    OBVIOUS
  <1>4. \A i \in 1..Len(a) + Len(b) : i \in 1..Len(a) \/ \E j \in 1..Len(b) : i = Len(a) + j
    <2> SUFFICES ASSUME NEW i \in 1..Len(a) + Len(b), i \notin 1..Len(a)
                 PROVE  \E j \in 1..Len(b) : i = Len(a) + j
      OBVIOUS
    <2>1. i - Len(a) \in 1..Len(b) /\ i = Len(a) + (i - Len(a))
      BY <1>1
    <2> QED
      BY <2>1
  <1>5. ASSUME NEW c PROVE c \in InLoops(a \o b) <=> c \in InLoops(a) \cup InLoops(b)
    <2>1. c \in InLoops(a \o b) <=> \E i \in 1..Len(a) + Len(b) : c \in (a \o b)[i]
      BY <1>1 DEF InLoops
    <2>2. c \in InLoops(a) <=> \E i \in 1..Len(a) : c \in a[i]
      BY <1>1 DEF InLoops
    <2>3. c \in InLoops(b) <=> \E i \in 1..Len(b) : c \in b[i]
      BY <1>1 DEF InLoops
    <2> QED
      BY <1>2, <1>3, <1>4, <2>1, <2>2, <2>3
  <1> QED
    BY <1>1, <1>5

\* A loop of one call.
LEMMA OneCall ==
  ASSUME NEW c \in Call
  PROVE  <<{c}>> \in Seq(SUBSET Call) /\ InLoops(<<{c}>>) = {c}
  <1>1. {c} \in SUBSET Call
    OBVIOUS
  <1>2. DOMAIN <<{c}>> = {1} /\ <<{c}>>[1] = {c}
    OBVIOUS
  <1> QED
    BY <1>1, <1>2 DEF InLoops

LEMMA OneCallBefore ==
  ASSUME NEW c \in Call, NEW rest \in Seq(SUBSET Call)
  PROVE  /\ <<{c}>> \o rest \in Seq(SUBSET Call)
         /\ InLoops(<<{c}>> \o rest) = {c} \cup InLoops(rest)
  <1>1. <<{c}>> \in Seq(SUBSET Call) /\ InLoops(<<{c}>>) = {c}
    BY OneCall
  <1>2. /\ <<{c}>> \o rest \in Seq(SUBSET Call)
        /\ InLoops(<<{c}>> \o rest) = InLoops(<<{c}>>) \cup InLoops(rest)
    BY <1>1, LoopsBefore
  <1> QED
    BY <1>1, <1>2

\* What a change of o calls first.
Due(o) == (subs[o] \cap Marks) \cup {Values(o)}

\* set() calls the subscribers, if it changes the value.
LEMMA StoreCalls ==
  ASSUME TypeOK, NEW o \in Object, NEW x \in Datum, NEW rest \in Seq(SUBSET Call),
         Store(o, x, rest)
  PROVE  /\ val' = [val EXCEPT ![o] = x] /\ val' \in [Object -> Datum]
         /\ val'[o] = x /\ \A p \in Object \ {o} : val'[p] = val[p]
         /\ calls' \in Seq(SUBSET Call)
         /\ InLoops(rest) \subseteq InLoops(calls')
         /\ InLoops(calls') \subseteq InLoops(rest) \cup Due(o)
         /\ val'[o] # val[o] => Due(o) \subseteq InLoops(calls')
  <1>1. /\ val \in [Object -> Datum] /\ subs[o] \subseteq Marks \cup Tells
        /\ subs[o] \cap Marks \in SUBSET Call
    BY CallsAreCalls DEF TypeOK
  <1>2. CASE val[o] = x
    <2>1. calls' = rest /\ val' = val
      BY <1>2 DEF Store
    <2> QED
      BY <1>1, <1>2, <2>1
  <1>3. CASE val[o] # x
    <2> DEFINE s == <<{Values(o)}>> \o rest
    <2>1. /\ val' = [val EXCEPT ![o] = x]
          /\ calls' = Start(subs[o] \cap Marks, s)
      BY <1>3 DEF Store
    <2>2. s \in Seq(SUBSET Call) /\ InLoops(s) = {Values(o)} \cup InLoops(rest)
      BY CallsAreCalls, OneCallBefore
    <2> HIDE DEF s
    <2>3. calls' \in Seq(SUBSET Call) /\ InLoops(calls') = (subs[o] \cap Marks) \cup InLoops(s)
      BY <1>1, <2>1, <2>2, StartCalls
    <2> QED
      BY <1>1, <2>1, <2>2, <2>3 DEF Due
  <1> QED
    BY <1>2, <1>3

\* update_all() calls the expressions of its updater, and unlocks.
LEMMA UpdateAllCalls ==
  ASSUME TypeOK, NEW rest \in Seq(SUBSET Call), UpdateAll(rest)
  PROVE  /\ calls' \in Seq(SUBSET Call)
         /\ InLoops(rest) \subseteq InLoops(calls')
         /\ \A c \in InLoops(calls') :
              c \in InLoops(rest) \/ c = Unlock \/ \E i \in 1..Len(funs) : c = Eval(funs[i])
  <1> DEFINE a == [i \in DOMAIN funs |-> {Eval(funs[i])}]
  <1>1. calls' = (a \o <<{Unlock}>>) \o rest
    BY DEF UpdateAll, Order
  <1>2. /\ funs \in Seq(Root \ Immediate) /\ DOMAIN funs = 1..Len(funs) /\ Len(funs) \in Nat
        /\ \A i \in 1..Len(funs) : funs[i] \in Root
    BY DEF TypeOK
  <1>3. a \in Seq(SUBSET Call) /\ DOMAIN a = 1..Len(funs)
    <2>1. a = [i \in 1..Len(funs) |-> {Eval(funs[i])}]
      BY <1>2
    <2>2. \A i \in 1..Len(funs) : {Eval(funs[i])} \in SUBSET Call
      BY <1>2, CallsAreCalls
    <2>3. a \in [1..Len(funs) -> SUBSET Call]
      BY <2>1, <2>2
    <2> QED
      BY <1>2, <2>1, <2>3
  <1>4. \A c \in InLoops(a) : \E i \in 1..Len(funs) : c = Eval(funs[i])
    BY <1>2 DEF InLoops
  <1>5. <<{Unlock}>> \in Seq(SUBSET Call) /\ InLoops(<<{Unlock}>>) = {Unlock}
    BY CallsAreCalls, OneCall
  <1> HIDE DEF a
  <1>6. /\ a \o <<{Unlock}>> \in Seq(SUBSET Call)
        /\ InLoops(a \o <<{Unlock}>>) = InLoops(a) \cup {Unlock}
    BY <1>3, <1>5, LoopsBefore
  <1>7. /\ calls' \in Seq(SUBSET Call)
        /\ InLoops(calls') = (InLoops(a) \cup {Unlock}) \cup InLoops(rest)
    BY <1>1, <1>6, LoopsBefore
  <1> QED
    BY <1>4, <1>7

\* An initial call, and then a subscription.
LEMMA SubscribeAndCallCalls ==
  ASSUME NEW rest \in Seq(SUBSET Call), NEW w \in Watcher, NEW o \in Object,
         SubscribeAndCall(w, o, rest)
  PROVE  /\ calls' \in Seq(SUBSET Call)
         /\ InLoops(calls') = {Tell(w), Join(w, o)} \cup InLoops(rest)
  <1> DEFINE b == <<{Join(w, o)}>> \o rest
  <1>1. b \in Seq(SUBSET Call) /\ InLoops(b) = {Join(w, o)} \cup InLoops(rest)
    BY CallsAreCalls, OneCallBefore
  <1>2. calls' = <<{Tell(w)}>> \o b
    BY DEF SubscribeAndCall
  <1> HIDE DEF b
  <1>3. /\ <<{Tell(w)}>> \o b \in Seq(SUBSET Call)
        /\ InLoops(<<{Tell(w)}>> \o b) = {Tell(w)} \cup InLoops(b)
    BY <1>1, CallsAreCalls, OneCallBefore
  <1> QED
    BY <1>1, <1>2, <1>3

-----------------------------------------------------------------------------
\* What a step may add to the calls that are still to come, joins aside.
Arises(c) ==
  \/ c \in Tells \cup {Unlock}
  \/ \E o \in Object : c \in Due(o)
  \/ \E e \in built : c = Eval(e)

\* An observer that hears of no value joins one that is alive.
JoinsArise(before, after) ==
  \A w \in Watcher, o \in Object : Join(w, o) \in InLoops(after) =>
    \/ Join(w, o) \in InLoops(before)
    \/ /\ Live(o) /\ \A p \in Object : ~Hears(w, p)
       /\ \A p \in Object : Join(w, p) \in InLoops(after) => p = o

\* No join is among what can arise otherwise.
LEMMA NoJoinArises ==
  ASSUME TypeOK, NEW c, Arises(c), NEW w, NEW o
  PROVE  c # Join(w, o)
  <1>1. \A p \in Object : \A d \in Due(p) : d \in Marks \/ d = Values(p)
    BY DEF Due
  <1> QED
    BY <1>1, DifferentCalls DEF Arises, Marks, Tells

\* What the user does, in an observer or outside.
LEMMA ActCalls ==
  ASSUME TypeOK, Register, NEW rest \in Seq(SUBSET Call), InLoops(rest) \subseteq Pending, Act(rest)
  PROVE  /\ val' \in [Object -> Datum] /\ calls' \in Seq(SUBSET Call) /\ calm' \in BOOLEAN
         /\ InLoops(rest) \subseteq InLoops(calls')
         /\ \A c \in InLoops(calls') : c \in InLoops(rest) \cup Joins \/ Arises(c)
         /\ JoinsArise(rest, calls')
         /\ \A e \in Immediate : Eval(e) \in InLoops(calls') => Eval(e) \in InLoops(rest)
         /\ \A o \in Object : val'[o] # val[o] =>
              Due(o) \subseteq InLoops(calls') /\ updater[o] = NoNode
  <1>1. CASE \E o \in Object, x \in Input : Set(o, x, rest)
    <2>1. PICK o \in Object, x \in Input : Set(o, x, rest)
      BY <1>1
    <2>2. Store(o, x, rest) /\ updater[o] = NoNode /\ calm' = FALSE /\ x \in Datum
      BY <2>1, ExpressionAssumption DEF Set
    <2>3. \A c \in InLoops(calls') : c \in InLoops(rest) \/ Arises(c)
      BY <2>2, StoreCalls DEF Arises
    <2>4. JoinsArise(rest, calls')
      BY <2>3, NoJoinArises DEF JoinsArise
    <2>5. \A e : Eval(e) \notin Due(o)
      BY DifferentCalls DEF Due, Marks
    <2> QED
      BY <2>2, <2>3, <2>4, <2>5, StoreCalls
  <1>2. CASE UpdateAll(rest)
    <2>1. val' = val /\ calm' = TRUE
      BY <1>2 DEF UpdateAll
    <2>2. \A c \in InLoops(calls') : c \in InLoops(rest) \/ Arises(c)
      BY <1>2, UpdateAllCalls DEF Arises, Register
    <2>3. JoinsArise(rest, calls')
      BY <2>2, NoJoinArises DEF JoinsArise
    <2>4. ASSUME NEW e \in Immediate, Eval(e) \in InLoops(calls')
          PROVE  Eval(e) \in InLoops(rest)
      <3>1. Eval(e) # Unlock /\ \A i \in 1..Len(funs) : Eval(e) = Eval(funs[i]) => e = funs[i]
        BY DifferentCalls
      <3>2. \A i \in 1..Len(funs) : funs[i] \notin Immediate
        BY DEF TypeOK
      <3> QED
        BY <1>2, <2>4, <3>1, <3>2, UpdateAllCalls
    <2> QED
      BY <1>2, <2>1, <2>2, <2>3, <2>4, UpdateAllCalls DEF TypeOK
  <1>3. CASE \E w \in Watcher, o \in Object : SubscribeAndCall(w, o, rest)
    <2>1. PICK w \in Watcher, o \in Object : SubscribeAndCall(w, o, rest)
      BY <1>3
    <2>2. /\ val' = val /\ calm' = calm /\ Live(o) /\ \A p \in Object : ~Hears(w, p)
      BY <2>1 DEF SubscribeAndCall, Hears
    <2>3. /\ calls' \in Seq(SUBSET Call)
          /\ InLoops(calls') = {Tell(w), Join(w, o)} \cup InLoops(rest)
      BY <2>1, SubscribeAndCallCalls
    <2>4. \A c \in InLoops(calls') : c \in InLoops(rest) \cup Joins \/ Arises(c)
      BY <2>3, CallsAreCalls DEF Arises, Joins
    <2>5. JoinsArise(rest, calls')
      <3> SUFFICES ASSUME NEW v \in Watcher, NEW q \in Object, Join(v, q) \in InLoops(calls'),
                          Join(v, q) \notin InLoops(rest)
                   PROVE  /\ Live(q) /\ \A p \in Object : ~Hears(v, p)
                          /\ \A p \in Object : Join(v, p) \in InLoops(calls') => p = q
        BY DEF JoinsArise
      <3>1. v = w /\ q = o
        BY <2>3, DifferentCalls
      <3>2. \A p \in Object : Join(w, p) \notin InLoops(rest)
        BY <2>2 DEF Hears
      <3> QED
        BY <2>2, <2>3, <3>1, <3>2, DifferentCalls
    <2>6. \A e : Eval(e) # Tell(w) /\ Eval(e) # Join(w, o)
      BY DifferentCalls
    <2> QED
      BY <2>2, <2>3, <2>4, <2>5, <2>6 DEF TypeOK
  <1> QED
    BY <1>1, <1>2, <1>3 DEF Act

\* What evaluating leaves.
LEMMA EvaluateIs ==
  ASSUME Wired, NEW e \in Root, Evaluate(e)
  PROVE  /\ e \in built /\ Target(e) \in Object /\ updater[Target(e)] = e
         /\ Fresh \in [Node -> Datum]
         /\ val' = [val EXCEPT ![Target(e)] = Fresh[e]] /\ val' \in [Object -> Datum]
         /\ calls' \in Seq(SUBSET Call)
         /\ InLoops(Left(Eval(e))) \subseteq InLoops(calls')
         /\ InLoops(calls') \subseteq InLoops(Left(Eval(e))) \cup Due(Target(e))
         /\ \A o \in Object : val'[o] # val[o] => o = Target(e) /\ Due(o) \subseteq InLoops(calls')
  <1>1. e \in built
    BY MakesCall DEF Wired, Evaluate, PendingAreThere
  <1>2. Target(e) \in Object /\ updater[Target(e)] = e
    BY <1>1 DEF Wired, Updaters, Target
  <1>3. Fresh \in [Node -> Datum]
    BY FreshIs DEF Wired, TypeOK
  <1>4. Fresh[e] \in Datum
    BY <1>3 DEF Root
  <1>5. Store(Target(e), Fresh[e], Left(Eval(e))) /\ Left(Eval(e)) \in Seq(SUBSET Call)
    BY MakesCall DEF Evaluate, Wired
  <1> QED
    BY <1>1, <1>2, <1>3, <1>4, <1>5, StoreCalls DEF Wired

-----------------------------------------------------------------------------
\* What a step of the loops in progress leaves alone.
wiring == <<state, subs, updater, made, built, points, funs>>

LEMMA WiredKeeps ==
  ASSUME Wired, UNCHANGED wiring, TypeOK',
         \A c \in InLoops(calls') : c \in InLoops(calls) \cup Joins \/ Arises(c),
         JoinsArise(calls, calls')
  PROVE  Wired'
  <1>1. /\ state' = state /\ subs' = subs /\ updater' = updater
        /\ built' = built /\ funs' = funs
    BY DEF wiring
  <1>2. Updaters' /\ Register' /\ SubscribedAreLive'
    BY <1>1 DEF Wired, Updaters, Register, SubscribedAreLive, Live
  <1>3. Pending' = InLoops(calls') /\ Pending = InLoops(calls)
    BY PendingIs DEF InLoops, Pending
  <1>4. ASSUME NEW n \in Leaf, Mark(n) \in InLoops(calls')
        PROVE  Subscribed(n)
    <2>1. /\ Mark(n) \notin Joins /\ Mark(n) \notin Tells \cup {Unlock}
          /\ (\A o : Mark(n) # Values(o)) /\ \A e : Mark(n) # Eval(e)
      BY DifferentCalls DEF Joins, Tells
    <2>2. CASE Mark(n) \in InLoops(calls)
      BY <1>3, <2>2 DEF Wired, PendingAreThere
    <2> QED
      BY <1>4, <2>1, <2>2 DEF Arises, Due, Subscribed
  <1>5. ASSUME NEW e \in Root, Eval(e) \in InLoops(calls')
        PROVE  e \in built
    <2>1. /\ Eval(e) \notin Joins /\ Eval(e) \notin Tells \cup {Unlock}
          /\ Eval(e) \notin Marks /\ (\A o : Eval(e) # Values(o))
          /\ \A d : Eval(e) = Eval(d) => d = e
      BY DifferentCalls DEF Joins, Tells, Marks
    <2>2. CASE Eval(e) \in InLoops(calls)
      BY <1>3, <2>2 DEF Wired, PendingAreThere
    <2> QED
      BY <1>5, <2>1, <2>2 DEF Arises, Due
  <1>6. ASSUME NEW w \in Watcher, NEW o \in Object, Join(w, o) \in InLoops(calls')
        PROVE  Live(o)
    BY <1>3, <1>6 DEF JoinsArise, Wired, PendingAreThere
  <1>7. OneValue'
    <2> SUFFICES ASSUME NEW w \in Watcher, NEW o \in Object, NEW p \in Object,
                        Tell(w) \in subs[o] \/ Join(w, o) \in InLoops(calls'),
                        Tell(w) \in subs[p] \/ Join(w, p) \in InLoops(calls')
                 PROVE  o = p
      BY <1>1, <1>3 DEF OneValue, Hears
    <2>1. \A q \in Object : Tell(w) \in subs[q] \/ Join(w, q) \in InLoops(calls) => Hears(w, q)
      BY <1>3 DEF Hears
    <2>2. CASE Hears(w, o) /\ Hears(w, p)
      BY <2>2 DEF Wired, OneValue
    <2>3. CASE ~Hears(w, o)
      BY <2>1, <2>3 DEF JoinsArise
    <2>4. CASE ~Hears(w, p)
      BY <2>1, <2>4 DEF JoinsArise
    <2> QED
      BY <2>2, <2>3, <2>4
  <1>9. PendingAreThere'
    BY <1>1, <1>3, <1>4, <1>5, <1>6 DEF PendingAreThere, Subscribed, Live
  <1> QED
    BY <1>2, <1>7, <1>9 DEF Wired

LEMMA ReleaseWired ==
  ASSUME Wired, Release
  PROVE  Wired'
  <1>1. /\ UNCHANGED wiring /\ UNCHANGED <<val, dirty, result, heard>>
        /\ calls' = Left(Unlock) /\ calm' = FALSE /\ missed' = missed \ {Unlock}
        /\ calls' \in Seq(SUBSET Call) /\ InLoops(calls') \subseteq InLoops(calls)
    BY MakesCall, PendingIs DEF Release, wiring, objects, nodes, Wired
  <1>2. TypeOK'
    BY <1>1 DEF Wired, TypeOK, wiring
  <1> QED
    BY <1>1, <1>2, WiredKeeps DEF JoinsArise

LEMMA NotifyValuesWired ==
  ASSUME Wired, NEW o \in Object, NotifyValues(o)
  PROVE  Wired'
  <1> DEFINE now == subs[o] \cap Tells
  <1>1. /\ UNCHANGED wiring /\ UNCHANGED <<val, dirty, result, heard, calm>>
        /\ calls' = Start(now, Left(Values(o))) /\ missed' = missed \ {Values(o)}
        /\ Left(Values(o)) \in Seq(SUBSET Call) /\ InLoops(Left(Values(o))) \subseteq InLoops(calls)
    BY MakesCall, PendingIs DEF NotifyValues, wiring, objects, nodes, Wired
  <1>2. now \in SUBSET Call
    BY CallsAreCalls
  <1>3. calls' \in Seq(SUBSET Call) /\ InLoops(calls') = now \cup InLoops(Left(Values(o)))
    BY <1>1, <1>2, StartCalls
  <1>4. TypeOK'
    BY <1>1, <1>3 DEF Wired, TypeOK, wiring
  <1>5. JoinsArise(calls, calls')
    BY <1>1, <1>3, DifferentCalls DEF JoinsArise, Tells
  <1> QED
    BY <1>1, <1>3, <1>4, <1>5, WiredKeeps DEF Arises

LEMMA MarkDirtyWired ==
  ASSUME Wired, NEW n \in Leaf, MarkDirty(n)
  PROVE  Wired'
  <1> DEFINE now == {Eval(r) : r \in Path[n] \cap built \cap Immediate}
  <1>1. /\ UNCHANGED wiring /\ UNCHANGED <<val, result, heard, calm>>
        /\ dirty' = [m \in Node |-> dirty[m] \/ m \in Marked(n)]
        /\ calls' = Start(now, Left(Mark(n))) /\ missed' = missed \ {Mark(n)}
        /\ Left(Mark(n)) \in Seq(SUBSET Call) /\ InLoops(Left(Mark(n))) \subseteq InLoops(calls)
    BY MakesCall, PendingIs DEF MarkDirty, wiring, objects, Wired
  <1>2. now \in SUBSET Call /\ \A c \in now : \E e \in built : c = Eval(e)
    BY CallsAreCalls, ExpressionAssumption
  <1> HIDE DEF now
  <1>3. calls' \in Seq(SUBSET Call) /\ InLoops(calls') = now \cup InLoops(Left(Mark(n)))
    BY <1>1, <1>2, StartCalls
  <1>4. TypeOK'
    <2>1. dirty' \in [Node -> BOOLEAN]
      BY <1>1
    <2> QED
      BY <1>1, <1>3, <2>1 DEF Wired, TypeOK, wiring
  <1>5. JoinsArise(calls, calls')
    BY <1>1, <1>2, <1>3, DifferentCalls DEF JoinsArise
  <1> QED
    BY <1>1, <1>2, <1>3, <1>4, <1>5, WiredKeeps DEF Arises

\* What an evaluation does to the nodes.
LEMMA EvalNodeTyped ==
  ASSUME TypeOK, NEW n, EvalNode(n)
  PROVE  result' \in [Node -> Datum] /\ dirty' \in [Node -> BOOLEAN]
  <1>1. Fresh \in [Node -> Datum]
    BY FreshIs DEF TypeOK
  <1> QED
    BY <1>1 DEF EvalNode, TypeOK

LEMMA EvaluateWired ==
  ASSUME Wired, NEW e \in Root, Evaluate(e)
  PROVE  Wired'
  <1>1. /\ UNCHANGED wiring /\ UNCHANGED <<heard, calm>> /\ EvalNode(e)
        /\ missed' = missed \ {Eval(e)} /\ InLoops(Left(Eval(e))) \subseteq InLoops(calls)
    BY MakesCall, PendingIs DEF Evaluate, wiring, Wired
  <1>2. /\ Target(e) \in Object /\ val' \in [Object -> Datum]
        /\ calls' \in Seq(SUBSET Call)
        /\ InLoops(calls') \subseteq InLoops(Left(Eval(e))) \cup Due(Target(e))
    BY EvaluateIs
  <1>3. TypeOK'
    <2>1. result' \in [Node -> Datum] /\ dirty' \in [Node -> BOOLEAN]
      BY <1>1, EvalNodeTyped DEF Wired
    <2> QED
      BY <1>1, <1>2, <2>1 DEF Wired, TypeOK, wiring
  <1>4. \A c \in InLoops(calls') : c \in InLoops(calls) \/ Arises(c)
    BY <1>1, <1>2 DEF Arises
  <1>5. JoinsArise(calls, calls')
    BY <1>4, NoJoinArises DEF JoinsArise, Wired
  <1> QED
    BY <1>1, <1>3, <1>4, <1>5, WiredKeeps

LEMMA UserWired ==
  ASSUME Wired, User
  PROVE  Wired'
  <1>1. /\ UNCHANGED wiring /\ UNCHANGED <<dirty, result, heard, missed>> /\ Act(<<>>)
        /\ calls = <<>>
    BY DEF User, wiring, nodes, Idle
  <1>2. <<>> \in Seq(SUBSET Call) /\ InLoops(<<>>) \subseteq Pending
    BY NoLoops
  <1>3. /\ val' \in [Object -> Datum] /\ calls' \in Seq(SUBSET Call) /\ calm' \in BOOLEAN
        /\ \A c \in InLoops(calls') : c \in InLoops(<<>>) \cup Joins \/ Arises(c)
        /\ JoinsArise(<<>>, calls')
    BY <1>1, <1>2, ActCalls DEF Wired
  <1>4. TypeOK'
    BY <1>1, <1>3 DEF Wired, TypeOK, wiring
  <1> QED
    BY <1>1, <1>3, <1>4, WiredKeeps

\* What an observer may do is what the user may.
LEMMA TellWatcherIs ==
  ASSUME Wired, NEW w \in Watcher, NEW o \in Object, TellWatcher(w, o)
  PROVE  LET rest == Left(Tell(w)) IN
         /\ rest \in Seq(SUBSET Call) /\ InLoops(rest) \subseteq Pending
         /\ Pending \ {Tell(w)} \subseteq InLoops(rest) /\ InLoops(rest) \subseteq InLoops(calls')
         /\ UNCHANGED wiring /\ UNCHANGED <<dirty, result>>
         /\ heard' = [heard EXCEPT ![w] = val[o]] /\ missed' = missed \ {Tell(w)}
         /\ \/ calls' = rest /\ UNCHANGED <<val, calm>>
            \/ Act(rest)
         /\ val' \in [Object -> Datum] /\ calls' \in Seq(SUBSET Call) /\ calm' \in BOOLEAN
         /\ \A c \in InLoops(calls') : c \in InLoops(rest) \cup Joins \/ Arises(c)
         /\ JoinsArise(rest, calls')
         /\ \A e \in Immediate : Eval(e) \in InLoops(calls') => Eval(e) \in InLoops(rest)
         /\ \A p \in Object : val'[p] # val[p] =>
              Due(p) \subseteq InLoops(calls') /\ updater[p] = NoNode
         /\ Hears(w, o)
  <1> DEFINE rest == Left(Tell(w))
  <1>1. /\ UNCHANGED wiring /\ UNCHANGED <<dirty, result>>
        /\ heard' = [heard EXCEPT ![w] = val[o]] /\ missed' = missed \ {Tell(w)}
        /\ rest \in Seq(SUBSET Call) /\ InLoops(rest) \subseteq Pending
        /\ Pending \ {Tell(w)} \subseteq InLoops(rest)
        /\ \/ calls' = rest /\ UNCHANGED <<val, calm>>
           \/ Act(rest)
        /\ Hears(w, o)
    BY MakesCall DEF TellWatcher, wiring, nodes, Wired, Hears
  <1> HIDE DEF rest
  <1>2. CASE Act(rest)
    BY <1>1, <1>2, ActCalls DEF Wired, rest
  <1>3. CASE calls' = rest /\ UNCHANGED <<val, calm>>
    BY <1>1, <1>3 DEF Wired, TypeOK, JoinsArise, rest
  <1> QED
    BY <1>1, <1>2, <1>3

LEMMA TellWatcherWired ==
  ASSUME Wired, NEW w \in Watcher, NEW o \in Object, TellWatcher(w, o)
  PROVE  Wired'
  <1> DEFINE rest == Left(Tell(w))
  <1>1. /\ UNCHANGED wiring /\ UNCHANGED <<dirty, result>>
        /\ heard' = [heard EXCEPT ![w] = val[o]] /\ missed' = missed \ {Tell(w)}
        /\ InLoops(rest) \subseteq InLoops(calls)
        /\ val' \in [Object -> Datum] /\ calls' \in Seq(SUBSET Call) /\ calm' \in BOOLEAN
        /\ \A c \in InLoops(calls') : c \in InLoops(rest) \cup Joins \/ Arises(c)
        /\ JoinsArise(rest, calls')
    BY TellWatcherIs, PendingIs
  <1> HIDE DEF rest
  <1>2. TypeOK'
    <2>1. heard' \in [Watcher -> Datum]
      BY <1>1 DEF Wired, TypeOK
    <2> QED
      BY <1>1, <2>1 DEF Wired, TypeOK, wiring
  <1>3. JoinsArise(calls, calls')
    BY <1>1 DEF JoinsArise
  <1> QED
    BY <1>1, <1>2, <1>3, WiredKeeps

LEMMA ThrowWired ==
  ASSUME Wired, NEW w \in Watcher, Throw(w)
  PROVE  Wired'
  <1>1. /\ UNCHANGED wiring /\ UNCHANGED <<val, dirty, result, heard>>
        /\ calls' = <<>> /\ missed' = missed \cup Owed /\ calm' = FALSE
    BY DEF Throw, wiring, objects, nodes
  <1>2. TypeOK'
    <2>1. Owed \subseteq Marks \cup Tells
      BY DEF Owed
    <2>2. calls' \in Seq(SUBSET Call)
      BY <1>1
    <2> QED
      BY <1>1, <2>1, <2>2 DEF Wired, TypeOK, wiring
  <1>3. InLoops(calls') = {}
    BY <1>1, NoLoops
  <1> QED
    BY <1>1, <1>2, <1>3, WiredKeeps DEF JoinsArise

\* Who subscribes has been waiting to.
LEMMA SubscribeWired ==
  ASSUME Wired, NEW w \in Watcher, NEW o \in Object, Subscribe(w, o)
  PROVE  Wired'
  <1> DEFINE c == Join(w, o)
  <1>1. /\ subs' = [subs EXCEPT ![o] = @ \cup {Tell(w)}]
        /\ missed' \subseteq missed \cup {Tell(w)} /\ calls' = Left(c)
        /\ UNCHANGED <<state, val, updater, made, built, points, dirty, result, funs, heard, calm>>
        /\ calls' \in Seq(SUBSET Call) /\ InLoops(calls') \subseteq Pending /\ c \in Pending
    BY NextCall DEF Subscribe, nodes, Wired
  <1> HIDE DEF c
  <1>2. TypeOK'
    <2>1. subs' \in [Object -> SUBSET (Marks \cup Tells)]
      BY <1>1, CallsAreCalls DEF Wired, TypeOK
    <2>2. missed' \subseteq Marks \cup Tells \cup Evals
      BY <1>1, CallsAreCalls DEF Wired, TypeOK
    <2> QED
      BY <1>1, <2>1, <2>2 DEF Wired, TypeOK
  <1>3. \A p \in Object : subs'[p] = IF p = o THEN subs[p] \cup {Tell(w)} ELSE subs[p]
    BY <1>1 DEF Wired, TypeOK
  <1>4. Live(o)
    BY <1>1 DEF Wired, PendingAreThere, c
  <1>5. SubscribedAreLive'
    BY <1>1, <1>3, <1>4 DEF Wired, SubscribedAreLive, Live
  <1>6. Updaters' /\ Register'
    BY <1>1 DEF Wired, Updaters, Register, Live
  <1>7. Pending' \subseteq Pending
    BY <1>1 DEF Pending, InLoops
  <1>8. PendingAreThere'
    <2>1. \A n \in Leaf : Subscribed(n) => Subscribed(n)'
      BY <1>3 DEF Subscribed
    <2>2. \A p \in Object : Live(p)' = Live(p)
      BY <1>1 DEF Live
    <2>3. built' = built
      BY <1>1
    <2> QED
      BY <1>7, <2>1, <2>2, <2>3 DEF Wired, PendingAreThere
  <1>9. OneValue'
    <2>1. ASSUME NEW v \in Watcher, NEW p \in Object, Hears(v, p)'
          PROVE  Hears(v, p)
      <3>1. CASE Tell(v) \in subs'[p] /\ Tell(v) \notin subs[p]
        <4>1. v = w /\ p = o
          BY <3>1, <1>3, DifferentCalls
        <4> QED
          BY <4>1, <1>1 DEF Hears, c
      <3>2. CASE ~(Tell(v) \in subs'[p] /\ Tell(v) \notin subs[p])
        BY <2>1, <3>2, <1>7 DEF Hears
      <3> QED
        BY <3>1, <3>2
    <2> QED
      BY <2>1 DEF Wired, OneValue
  <1> QED
    BY <1>2, <1>5, <1>6, <1>8, <1>9 DEF Wired

-----------------------------------------------------------------------------
\* An expression is dropped.
LEMMA DropWires ==
  ASSUME Wired, NEW e, Drop(e)
  PROVE  /\ built' = built \ {e}
         /\ funs' \in Seq(Root \ Immediate) /\ Register'
         /\ result' \in [Node -> Datum] /\ dirty' \in [Node -> BOOLEAN]
  <1>1. /\ built' = built \ {e} /\ funs' = RemoveFirst(funs, e)
        /\ dirty' = [n \in Node |-> dirty[n] \/ e \in Path[n]]
        /\ result' = [n \in Node |-> IF e \in Path[n] THEN SomeInput ELSE result[n]]
    BY DEF Drop
  <1>2. funs \in Seq(Root \ Immediate) /\ SomeInput \in Datum
    BY ExpressionAssumption DEF Wired, TypeOK, SomeInput
  <1>3. result' \in [Node -> Datum] /\ dirty' \in [Node -> BOOLEAN]
    BY <1>1, <1>2 DEF Wired, TypeOK
  <1>4. /\ \A i, j \in 1..Len(funs') : funs'[i] = funs'[j] => i = j
        /\ \A i \in 1..Len(funs') : funs'[i] # e /\ \E j \in 1..Len(funs) : funs'[i] = funs[j]
    BY <1>1, <1>2, RemoveFirstOfUnique DEF Wired, Register
  <1>5. funs' \in Seq(Root \ Immediate)
    BY <1>1, <1>2, RemoveFirstEntry
  <1>6. \A i \in 1..Len(funs') : funs'[i] \in built'
    BY <1>1, <1>4 DEF Wired, Register
  <1> QED
    BY <1>1, <1>3, <1>4, <1>5, <1>6 DEF Register

\* Between the calls of the user nothing is pending.
LEMMA IdleIsDone ==
  ASSUME Idle, UNCHANGED calls
  PROVE  /\ PendingAreThere' /\ Pending = {} /\ Pending' = {}
         /\ \A w, o : Hears(w, o) <=> Tell(w) \in subs[o]
         /\ \A w, o : Hears(w, o)' <=> Tell(w) \in subs'[o]
  <1>1. Pending = {} /\ Pending' = {}
    BY DEF Idle, Pending
  <1> QED
    BY <1>1 DEF PendingAreThere, Hears

\* Who hears of what is the same if no observer of the user is added or moved.
LEMMA OneValueStays ==
  ASSUME Wired, Idle, UNCHANGED calls,
         \A w \in Watcher, o \in Object : Tell(w) \in subs'[o] => Tell(w) \in subs[o]
  PROVE  OneValue'
  <1>1. \A w \in Watcher, o \in Object : Hears(w, o)' => Hears(w, o)
    BY IdleIsDone
  <1> QED
    BY <1>1 DEF Wired, OneValue

LEMMA BuildLeafWired ==
  ASSUME Wired, NEW l, BuildLeaf(l)
  PROVE  Wired'
  <1>1. /\ Idle /\ l \in Leaf /\ Live(Operand[l])
        /\ made' = made \cup {l}
        /\ subs' = [subs EXCEPT ![Operand[l]] = @ \cup {Mark(l)}]
        /\ points' = [points EXCEPT ![l] = Operand[l]]
        /\ result' = [result EXCEPT ![l] = val[Operand[l]]] /\ dirty' = [dirty EXCEPT ![l] = FALSE]
        /\ UNCHANGED <<state, val, updater, built, funs, calls, heard, missed, calm>>
    BY DEF BuildLeaf
  <1>2. l \in Node /\ Operand[l] \in Object /\ Mark(l) \in Marks
    BY <1>1, ExpressionAssumption, CallsAreCalls
  <1>3. \A p \in Object : subs'[p] = IF p = Operand[l] THEN subs[p] \cup {Mark(l)} ELSE subs[p]
    BY <1>1 DEF Wired, TypeOK
  <1>4. TypeOK'
    <2>1. subs' \in [Object -> SUBSET (Marks \cup Tells)]
      BY <1>1, <1>2 DEF Wired, TypeOK
    <2>2. /\ result' \in [Node -> Datum] /\ dirty' \in [Node -> BOOLEAN]
          /\ points' \in [Leaf -> Object \cup {NoObject}] /\ made' \subseteq Node
      BY <1>1, <1>2 DEF Wired, TypeOK
    <2> QED
      BY <1>1, <2>1, <2>2 DEF Wired, TypeOK
  <1>5. SubscribedAreLive'
    BY <1>1, <1>3 DEF Wired, SubscribedAreLive, Live
  <1>6. Updaters' /\ Register'
    BY <1>1 DEF Wired, Updaters, Register, Live
  <1>7. OneValue'
    BY <1>1, <1>3, OneValueStays, DifferentCalls
  <1> QED
    BY <1>1, <1>4, <1>5, <1>6, <1>7, IdleIsDone DEF Wired

LEMMA BuildNaryWired ==
  ASSUME Wired, NEW m, BuildNary(m)
  PROVE  Wired'
  <1>1. /\ Idle /\ m \in Node /\ made' = made \cup {m} /\ EvalNode(m)
        /\ UNCHANGED <<state, val, subs, updater, built, points, funs, calls, heard, missed, calm>>
    BY DEF BuildNary, objects
  <1>2. TypeOK'
    <2>1. result' \in [Node -> Datum] /\ dirty' \in [Node -> BOOLEAN]
      BY <1>1, EvalNodeTyped DEF Wired
    <2> QED
      BY <1>1, <2>1 DEF Wired, TypeOK
  <1>3. SubscribedAreLive' /\ Updaters' /\ Register'
    BY <1>1 DEF Wired, SubscribedAreLive, Updaters, Register, Live
  <1>4. OneValue'
    BY <1>1, OneValueStays
  <1> QED
    BY <1>1, <1>2, <1>3, <1>4, IdleIsDone DEF Wired

\* A node that is discarded is no expression.
LEMMA DiscardWired ==
  ASSUME Wired, NEW e, Discard(e)
  PROVE  Wired'
  <1>1. /\ Idle /\ e \notin built /\ Drop(e)
        /\ points' = [k \in Leaf |-> IF k \in Nodes(e) THEN NoObject ELSE points[k]]
        /\ subs' = [o \in Object |-> subs[o] \ MarksOf(e)]
        /\ missed' = missed \ MarksOf(e)
        /\ UNCHANGED <<state, val, updater, calls, heard, calm>>
    BY DEF Discard
  <1>2. /\ built' = built \ {e} /\ funs' \in Seq(Root \ Immediate) /\ Register'
        /\ result' \in [Node -> Datum] /\ dirty' \in [Node -> BOOLEAN]
    BY <1>1, DropWires
  <1>3. built' = built
    BY <1>1, <1>2
  <1>4. TypeOK'
    <2>1. subs' \in [Object -> SUBSET (Marks \cup Tells)]
          /\ points' \in [Leaf -> Object \cup {NoObject}]
      BY <1>1 DEF Wired, TypeOK
    <2>2. made' \subseteq made
      BY <1>1 DEF Drop
    <2> QED
      BY <1>1, <1>2, <2>1, <2>2 DEF Wired, TypeOK
  <1>5. SubscribedAreLive' /\ Updaters'
    BY <1>1, <1>3 DEF Wired, SubscribedAreLive, Updaters, Live
  <1>6. OneValue'
    BY <1>1, OneValueStays
  <1> QED
    BY <1>1, <1>2, <1>4, <1>5, <1>6, IdleIsDone DEF Wired

LEMMA ObserveWired ==
  ASSUME Wired, NEW e \in Root, NEW o \in Object, Observe(e, o)
  PROVE  Wired'
  <1>1. /\ Idle /\ e \notin built /\ state[o] = "unborn"
        /\ built' = built \cup {e}
        /\ val' = [val EXCEPT ![o] = result[e]]
        /\ state'  = [state EXCEPT ![o] = "live"]
        /\ updater' = [updater EXCEPT ![o] = e]
        /\ funs'   = Registered(e)
        /\ missed' \subseteq missed \cup {Eval(e)}
        /\ UNCHANGED <<subs, made, points, dirty, result, calls, heard, calm>>
    BY DEF Observe, nodes
  <1>6. /\ funs' \in Seq(Root \ Immediate) /\ Register'
    <2>1. funs \in Seq(Root \ Immediate) /\ Len(funs) \in Nat
          /\ \A i \in 1..Len(funs) : funs[i] \in built /\ funs[i] # e
      <3>1. funs \in Seq(Root \ Immediate) /\ \A i \in 1..Len(funs) : funs[i] \in built
        BY DEF Wired, TypeOK, Register
      <3>2. e \notin built
        BY <1>1
      <3> QED
        BY <3>1, <3>2
    <2>2. CASE e \in Immediate
      BY <1>1, <2>1, <2>2 DEF Registered, Wired, Register
    <2>3. CASE e \notin Immediate
      <3>1. funs' = Append(funs, e)
        BY <1>1, <2>3 DEF Registered
      <3>2. /\ funs' \in Seq(Root \ Immediate) /\ Len(funs') = Len(funs) + 1
            /\ funs'[Len(funs) + 1] = e
            /\ \A i \in 1..Len(funs) : funs'[i] = funs[i]
        BY <2>1, <2>3, <3>1
      <3>3. \A i \in 1..Len(funs') : i \in 1..Len(funs) \/ i = Len(funs) + 1
        BY <2>1, <3>2
      <3>4. \A i \in 1..Len(funs') : funs'[i] \in built'
        BY <1>1, <2>1, <3>2, <3>3
      <3>5. \A i, j \in 1..Len(funs') : funs'[i] = funs'[j] => i = j
        BY <2>1, <3>2, <3>3 DEF Wired, Register
      <3> QED
        BY <3>2, <3>4, <3>5 DEF Register
    <2> QED
      BY <2>2, <2>3
  <1>7. TypeOK'
    <2>1. val' \in [Object -> Datum]
      BY <1>1 DEF Wired, TypeOK, Root
    <2>2. missed' \subseteq Marks \cup Tells \cup Evals
      BY <1>1, CallsAreCalls DEF Wired, TypeOK
    <2>3. /\ state' \in [Object -> {"unborn", "live", "moved", "dead"}]
          /\ updater' \in [Object -> Root \cup {NoNode}] /\ built' \subseteq Root
      BY <1>1 DEF Wired, TypeOK
    <2> QED
      BY <1>1, <1>6, <2>1, <2>2, <2>3 DEF Wired, TypeOK
  <1>8. SubscribedAreLive'
    <2>1. \A p \in Object : subs'[p] # {} => state[p] = "live"
      BY <1>1 DEF Wired, SubscribedAreLive, Live
    <2>2. \A p \in Object : state[p] = "live" => state'[p] = "live"
      BY <1>1 DEF Wired, TypeOK
    <2> QED
      BY <2>1, <2>2 DEF SubscribedAreLive, Live
  <1>9. Updaters'
    <2>1. /\ updater[o] = NoNode /\ updater'[o] = e /\ state'[o] = "live"
          /\ \A p \in Object : p # o => updater'[p] = updater[p] /\ state'[p] = state[p]
      BY <1>1 DEF Wired, TypeOK, Updaters, Live
    <2>2. \A p \in Object : updater[p] # e
      <3>1. e # NoNode
        BY ExpressionAssumption DEF Root
      <3> QED
        BY <1>1, <3>1 DEF Wired, Updaters
    <2>3. \A p \in Object : updater'[p] # NoNode => updater'[p] \in built' /\ state'[p] = "live"
      BY <1>1, <2>1 DEF Wired, Updaters, Live
    <2>4. \A p, q \in Object : updater'[p] # NoNode /\ updater'[p] = updater'[q] => p = q
      BY <2>1, <2>2 DEF Wired, Updaters
    <2>5. ASSUME NEW d \in built PROVE \E p \in Object : updater'[p] = d
      <3>1. PICK p \in Object : updater[p] = d
        BY DEF Wired, Updaters
      <3>2. d # NoNode
        BY ExpressionAssumption DEF Wired, TypeOK, Root
      <3> QED
        BY <2>1, <3>1, <3>2
    <2>6. \A d \in built' : \E p \in Object : updater'[p] = d
      BY <1>1, <2>1, <2>5
    <2> QED
      BY <2>3, <2>4, <2>6 DEF Updaters, Live
  <1>10. OneValue'
    BY <1>1, OneValueStays
  <1> QED
    BY <1>1, <1>6, <1>7, <1>8, <1>9, <1>10, IdleIsDone DEF Wired

LEMMA DestroyWired ==
  ASSUME Wired, NEW o \in Object, Destroy(o)
  PROVE  Wired'
  <1> DEFINE e == updater[o]
  <1>1. /\ Idle
        /\ state' = [state EXCEPT ![o] = "dead"]
        /\ points' = [n \in Leaf |-> IF Mark(n) \in subs[o] \/ n \in Nodes(e) THEN NoObject ELSE points[n]]
        /\ subs' = [p \in Object |-> IF p = o THEN {} ELSE subs[p] \ MarksOf(e)]
        /\ updater' = [updater EXCEPT ![o] = NoNode]
        /\ \E x \in Garbage(o, e) : val' = [val EXCEPT ![o] = x]
        /\ Drop(e)
        /\ missed' = missed \ ({Eval(e)} \cup subs[o] \cup MarksOf(e))
        /\ UNCHANGED <<calls, heard, calm>>
    BY DEF Destroy
  <1>2. Garbage(o, e) \subseteq Datum
    BY ExpressionAssumption DEF Garbage, SomeInput
  <1> HIDE DEF e
  <1>3. /\ built' = built \ {e} /\ funs' \in Seq(Root \ Immediate) /\ Register'
        /\ result' \in [Node -> Datum] /\ dirty' \in [Node -> BOOLEAN]
    BY <1>1, DropWires
  <1>4. TypeOK'
    <2>1. val' \in [Object -> Datum]
      BY <1>1, <1>2 DEF Wired, TypeOK
    <2>2. subs' \in [Object -> SUBSET (Marks \cup Tells)]
      BY <1>1 DEF Wired, TypeOK
    <2>3. /\ points' \in [Leaf -> Object \cup {NoObject}]
          /\ state' \in [Object -> {"unborn", "live", "moved", "dead"}]
          /\ updater' \in [Object -> Root \cup {NoNode}]
      BY <1>1 DEF Wired, TypeOK
    <2>4. made' \subseteq made
      BY <1>1 DEF Drop
    <2> QED
      BY <1>1, <1>3, <2>1, <2>2, <2>3, <2>4 DEF Wired, TypeOK
  <1>5. SubscribedAreLive'
    BY <1>1 DEF Wired, TypeOK, SubscribedAreLive, Live
  <1>6. Updaters'
    <2>1. /\ updater'[o] = NoNode
          /\ \A p \in Object : p # o => updater'[p] = updater[p] /\ state'[p] = state[p]
      BY <1>1 DEF Wired, TypeOK
    <2>2. \A p \in Object : p # o /\ updater[p] # NoNode => updater[p] # e
      BY DEF Wired, Updaters, e
    <2>3. \A d \in built' : \E p \in Object : updater'[p] = d
      BY <1>3, <2>1 DEF Wired, Updaters, e
    <2> QED
      BY <1>3, <2>1, <2>2, <2>3 DEF Wired, Updaters, Live
  <1>7. OneValue'
    BY <1>1, OneValueStays
  <1> QED
    BY <1>1, <1>3, <1>4, <1>5, <1>6, <1>7, IdleIsDone DEF Wired

LEMMA MoveWired ==
  ASSUME Wired, Idle, NEW o \in Object, NEW p \in Object, o # p, Live(p), MoveInto(o, p)
  PROVE  Wired'
  <1> DEFINE e == updater[o]
  <1>1. /\ state' = [state EXCEPT ![o] = "live", ![p] = "moved"]
        /\ \E x \in Garbage(p, e) : val' = [val EXCEPT ![o] = val[p], ![p] = x]
        /\ subs' = [q \in Object |-> CASE q = o -> subs[p] \ MarksOf(e)
                                       [] q = p -> {}
                                       [] OTHER -> subs[q] \ MarksOf(e)]
        /\ points' = [n \in Leaf |-> IF n \in Nodes(e) THEN NoObject ELSE Redirected(o, p)[n]]
        /\ updater' = [updater EXCEPT ![o] = updater[p], ![p] = NoNode]
        /\ Drop(e)
        /\ missed' = missed \ ({Eval(e)} \cup subs[o] \cup MarksOf(e))
        /\ UNCHANGED <<calls, heard, calm>>
    BY DEF MoveInto
  <1>2. Garbage(p, e) \subseteq Datum
    BY ExpressionAssumption DEF Garbage, SomeInput
  <1> HIDE DEF e
  <1>3. /\ built' = built \ {e} /\ funs' \in Seq(Root \ Immediate) /\ Register'
        /\ result' \in [Node -> Datum] /\ dirty' \in [Node -> BOOLEAN]
    BY <1>1, DropWires
  <1>4. subs'[p] = {} /\ subs'[o] = subs[p] \ MarksOf(e)
        /\ \A q \in Object \ {o, p} : subs'[q] = subs[q] \ MarksOf(e)
    BY <1>1
  <1>5. /\ updater'[o] = updater[p] /\ updater'[p] = NoNode /\ state'[o] = "live"
        /\ \A q \in Object \ {o, p} : updater'[q] = updater[q] /\ state'[q] = state[q]
    BY <1>1 DEF Wired, TypeOK
  <1>6. TypeOK'
    <2>1. val' \in [Object -> Datum]
      BY <1>1, <1>2 DEF Wired, TypeOK
    <2>2. subs' \in [Object -> SUBSET (Marks \cup Tells)]
      <3>1. \A q \in Object : subs'[q] \subseteq Marks \cup Tells
        BY <1>4 DEF Wired, TypeOK
      <3> QED
        BY <3>1, <1>1
    <2>3. points' \in [Leaf -> Object \cup {NoObject}]
      BY <1>1 DEF Wired, TypeOK, Redirected
    <2>4. /\ state' \in [Object -> {"unborn", "live", "moved", "dead"}]
          /\ updater' \in [Object -> Root \cup {NoNode}]
      BY <1>1 DEF Wired, TypeOK
    <2>5. made' \subseteq made
      BY <1>1 DEF Drop
    <2> QED
      BY <1>1, <1>3, <2>1, <2>2, <2>3, <2>4, <2>5 DEF Wired, TypeOK
  <1>7. SubscribedAreLive'
    BY <1>4, <1>5 DEF Wired, SubscribedAreLive, Live
  <1>8. Updaters'
    <2>1. \A q \in Object : q # o /\ updater[q] # NoNode => updater[q] # e
      BY DEF Wired, Updaters, e
    <2>2. \A q \in Object : updater'[q] # NoNode => updater'[q] \in built' /\ state'[q] = "live"
      <3>1. ASSUME NEW q \in Object, updater'[q] # NoNode
            PROVE  updater'[q] \in built' /\ state'[q] = "live"
        <4>1. CASE q = o
          BY <1>3, <1>5, <2>1, <3>1, <4>1 DEF Wired, Updaters
        <4>2. CASE q # o
          BY <1>3, <1>5, <2>1, <3>1, <4>2 DEF Wired, Updaters, Live
        <4> QED
          BY <4>1, <4>2
      <3> QED
        BY <3>1
    <2>3. \A q, r \in Object : updater'[q] # NoNode /\ updater'[q] = updater'[r] => q = r
      <3> SUFFICES ASSUME NEW q \in Object, NEW r \in Object,
                          updater'[q] # NoNode, updater'[q] = updater'[r]
                   PROVE  q = r
        OBVIOUS
      <3>1. q # p /\ r # p
        BY <1>5
      <3> QED
        BY <1>5, <3>1 DEF Wired, Updaters
    <2>4. ASSUME NEW d \in built' PROVE \E q \in Object : updater'[q] = d
      <3>1. PICK q \in Object : updater[q] = d
        BY <1>3 DEF Wired, Updaters
      <3>2. q # o
        BY <1>3, <3>1 DEF e
      <3> QED
        BY <1>5, <3>1, <3>2
    <2> QED
      BY <2>2, <2>3, <2>4 DEF Updaters, Live
  <1>9. OneValue'
    <2>1. ASSUME NEW w \in Watcher, NEW q \in Object, Hears(w, q)'
          PROVE  IF q = o THEN Hears(w, p) ELSE q # p /\ Hears(w, q)
      BY <1>1, <1>4, <2>1, IdleIsDone
    <2> QED
      BY <2>1 DEF Wired, OneValue
  <1> QED
    BY <1>1, <1>3, <1>6, <1>7, <1>8, <1>9, IdleIsDone DEF Wired

-----------------------------------------------------------------------------
LEMMA WiredInit == Init => Wired
  <1> SUFFICES ASSUME Init PROVE Wired
    OBVIOUS
  <1>1. SomeInput \in Datum
    BY ExpressionAssumption DEF SomeInput
  <1>2. TypeOK
    <2>1. /\ state \in [Object -> {"unborn", "live", "moved", "dead"}]
          /\ subs \in [Object -> SUBSET (Marks \cup Tells)]
          /\ updater \in [Object -> Root \cup {NoNode}]
          /\ made \subseteq Node /\ built \subseteq Root
          /\ points \in [Leaf -> Object \cup {NoObject}]
      BY DEF Init
    <2>2. /\ val \in [Object -> Datum] /\ result \in [Node -> Datum]
          /\ heard \in [Watcher -> Datum] /\ dirty \in [Node -> BOOLEAN]
      BY <1>1 DEF Init
    <2>3. /\ funs \in Seq(Root \ Immediate) /\ calls \in Seq(SUBSET Call)
          /\ missed \subseteq Marks \cup Tells \cup Evals /\ calm \in BOOLEAN
      <3>1. funs = <<>> /\ calls = <<>> /\ missed = {} /\ calm = FALSE
        BY DEF Init
      <3>2. <<>> \in Seq(Root \ Immediate) /\ <<>> \in Seq(SUBSET Call)
        OBVIOUS
      <3> QED
        BY ONLY <3>1, <3>2
    <2> QED
      BY <2>1, <2>2, <2>3 DEF TypeOK
  <1>3. Pending = {}
    BY DEF Init, Pending
  <1>4. Len(funs) = 0
    BY DEF Init
  <1>5. Updaters /\ Register /\ SubscribedAreLive
    BY <1>4 DEF Init, Updaters, Register, SubscribedAreLive
  <1>6. OneValue
    BY <1>3 DEF Init, OneValue, Hears
  <1> QED
    BY <1>2, <1>3, <1>5, <1>6 DEF Wired, PendingAreThere

LEMMA WiredStep == Wired /\ [Next]_vars => Wired'
  <1> SUFFICES ASSUME Wired, [Next]_vars PROVE Wired'
    OBVIOUS
  <1>1. CASE Step
    BY <1>1, ReleaseWired, NotifyValuesWired, MarkDirtyWired, EvaluateWired,
       TellWatcherWired, SubscribeWired DEF Step
  <1>2. CASE UNCHANGED vars
    <2>1. UNCHANGED wiring /\ UNCHANGED <<val, dirty, result, calls, heard, missed, calm>>
      BY <1>2 DEF vars, objects, nodes, wiring
    <2>2. TypeOK'
      BY <2>1 DEF Wired, TypeOK, wiring
    <2> QED
      BY <2>1, <2>2, WiredKeeps DEF JoinsArise
  <1>3. ASSUME NEW o \in Object, NEW p \in Object, MoveConstruct(o, p) \/ MoveAssign(o, p)
        PROVE  Wired'
    <2>1. Idle /\ o # p /\ Live(p) /\ MoveInto(o, p)
      BY <1>3 DEF MoveConstruct, MoveAssign, Live
    <2> QED
      BY <2>1, MoveWired
  <1> QED
    BY <1>1, <1>2, <1>3, UserWired, ThrowWired, BuildLeafWired, BuildNaryWired,
       DiscardWired, ObserveWired, DestroyWired DEF Next

\* Every variable has its type, whatever the trees.
THEOREM ExpressionTypes == Spec => []TypeOK
  <1>1. Wired => TypeOK
    BY DEF Wired
  <1> QED
    BY <1>1, WiredInit, WiredStep, PTL DEF Spec

LEMMA WiringHolds == Spec => []Wired
  BY WiredInit, WiredStep, PTL DEF Spec

-----------------------------------------------------------------------------
\* What an observer has heard last, or is still to hear.
Heard ==
  \A o \in Object, w \in Watcher :
    Tell(w) \in subs[o] =>
      heard[w] = val[o] \/ Tell(w) \in Pending \cup missed \/ Values(o) \in Pending

\* A step of the loops in progress.
LEMMA HeardKeeps ==
  ASSUME Wired, Heard, subs' = subs,
         \A o \in Object, w \in Watcher :
           Tell(w) \in subs[o] =>
             \/ heard'[w] = val'[o]
             \/ Tell(w) \in InLoops(calls') \cup missed' \/ Values(o) \in InLoops(calls')
  PROVE  Heard'
  <1>1. Pending' = InLoops(calls')
    BY DEF InLoops, Pending
  <1> QED
    BY <1>1 DEF Heard

LEMMA ReleaseHeard ==
  ASSUME Wired, Heard, Release
  PROVE  Heard'
  <1>1. /\ UNCHANGED <<subs, val, heard>>
        /\ calls' = Left(Unlock) /\ missed' = missed \ {Unlock}
        /\ Pending \ {Unlock} \subseteq InLoops(Left(Unlock))
    BY MakesCall DEF Release, objects, Wired
  <1> QED
    BY <1>1, HeardKeeps, DifferentCalls DEF Heard

\* Who is to be told of a value is told by the notification that it begins.
LEMMA NotifyValuesHeard ==
  ASSUME Wired, Heard, NEW p \in Object, NotifyValues(p)
  PROVE  Heard'
  <1> DEFINE now == subs[p] \cap Tells
  <1>1. /\ UNCHANGED <<subs, val, heard>>
        /\ calls' = Start(now, Left(Values(p))) /\ missed' = missed \ {Values(p)}
        /\ Left(Values(p)) \in Seq(SUBSET Call)
        /\ Pending \ {Values(p)} \subseteq InLoops(Left(Values(p)))
    BY MakesCall DEF NotifyValues, objects, Wired
  <1>2. now \in SUBSET Call /\ \A w \in Watcher : Tell(w) \in subs[p] => Tell(w) \in now
    BY CallsAreCalls
  <1> HIDE DEF now
  <1>3. InLoops(calls') = now \cup InLoops(Left(Values(p)))
    BY <1>1, <1>2, StartCalls
  <1>4. ASSUME NEW o \in Object, NEW w \in Watcher, Tell(w) \in subs[o]
        PROVE  \/ heard'[w] = val'[o]
               \/ Tell(w) \in InLoops(calls') \cup missed' \/ Values(o) \in InLoops(calls')
    <2>1. Tell(w) # Values(p) /\ (o # p => Values(o) # Values(p))
      BY DifferentCalls
    <2>2. CASE o = p
      BY <1>2, <1>3, <1>4, <2>2
    <2>3. CASE o # p
      BY <1>1, <1>3, <1>4, <2>1, <2>3 DEF Heard
    <2> QED
      BY <2>2, <2>3
  <1> QED
    BY <1>1, <1>4, HeardKeeps

LEMMA MarkDirtyHeard ==
  ASSUME Wired, Heard, NEW n \in Leaf, MarkDirty(n)
  PROVE  Heard'
  <1> DEFINE now == {Eval(r) : r \in Path[n] \cap built \cap Immediate}
  <1>1. /\ UNCHANGED <<subs, val, heard>>
        /\ calls' = Start(now, Left(Mark(n))) /\ missed' = missed \ {Mark(n)}
        /\ Left(Mark(n)) \in Seq(SUBSET Call) /\ Pending \ {Mark(n)} \subseteq InLoops(Left(Mark(n)))
    BY MakesCall DEF MarkDirty, objects, Wired
  <1>2. now \in SUBSET Call
    BY CallsAreCalls, ExpressionAssumption
  <1>3. InLoops(calls') = now \cup InLoops(Left(Mark(n)))
    BY <1>1, <1>2, StartCalls
  <1>4. /\ \A w \in Watcher : Tell(w) # Mark(n)
        /\ \A o \in Object : Values(o) # Mark(n)
    BY DifferentCalls
  <1> HIDE DEF now
  <1> QED
    BY <1>1, <1>3, <1>4, HeardKeeps DEF Heard

LEMMA EvaluateHeard ==
  ASSUME Wired, Heard, NEW e \in Root, Evaluate(e)
  PROVE  Heard'
  <1>1. /\ UNCHANGED <<subs, heard>> /\ missed' = missed \ {Eval(e)}
        /\ Pending \ {Eval(e)} \subseteq InLoops(Left(Eval(e)))
    BY MakesCall DEF Evaluate, Wired
  <1>2. /\ InLoops(Left(Eval(e))) \subseteq InLoops(calls')
        /\ \A o \in Object : val'[o] # val[o] => Values(o) \in InLoops(calls')
    BY EvaluateIs DEF Due
  <1>3. /\ \A w \in Watcher : Tell(w) # Eval(e)
        /\ \A o \in Object : Values(o) # Eval(e)
    BY DifferentCalls
  <1> QED
    BY <1>1, <1>2, <1>3, HeardKeeps DEF Heard

LEMMA UserHeard ==
  ASSUME Wired, Heard, User
  PROVE  Heard'
  <1>1. /\ UNCHANGED <<subs, heard, missed>> /\ Idle /\ Act(<<>>)
    BY DEF User
  <1>2. <<>> \in Seq(SUBSET Call) /\ InLoops(<<>>) \subseteq Pending
    BY NoLoops
  <1>3. \A o \in Object : val'[o] # val[o] => Values(o) \in InLoops(calls')
    BY <1>1, <1>2, ActCalls DEF Wired, Due
  <1>4. Pending = {}
    BY <1>1 DEF Idle, Pending
  <1> QED
    BY <1>1, <1>3, <1>4, HeardKeeps DEF Heard

LEMMA TellWatcherHeard ==
  ASSUME Wired, Heard, NEW w \in Watcher, NEW o \in Object, TellWatcher(w, o)
  PROVE  Heard'
  <1> DEFINE rest == Left(Tell(w))
  <1>1. /\ subs' = subs /\ Hears(w, o)
        /\ heard' = [heard EXCEPT ![w] = val[o]] /\ missed' = missed \ {Tell(w)}
        /\ Pending \ {Tell(w)} \subseteq InLoops(rest)
        /\ InLoops(rest) \subseteq InLoops(calls')
        /\ \A p \in Object : val'[p] # val[p] => Values(p) \in InLoops(calls')
    BY TellWatcherIs DEF wiring, Due
  <1> HIDE DEF rest
  <1>2. heard'[w] = val[o] /\ \A v \in Watcher : v # w => heard'[v] = heard[v]
    BY <1>1 DEF Wired, TypeOK
  <1>3. ASSUME NEW p \in Object, NEW v \in Watcher, Tell(v) \in subs[p]
        PROVE  \/ heard'[v] = val'[p]
               \/ Tell(v) \in InLoops(calls') \cup missed' \/ Values(p) \in InLoops(calls')
    <2>1. CASE v = w
      <3>1. p = o
        BY <1>1, <1>3, <2>1 DEF Wired, OneValue, Hears
      <3> QED
        BY <1>1, <1>2, <2>1, <3>1
    <2>2. CASE v # w
      <3>1. Tell(v) # Tell(w) /\ Values(p) # Tell(w)
        BY <2>2, DifferentCalls
      <3> QED
        BY <1>1, <1>2, <1>3, <2>2, <3>1 DEF Heard
    <2> QED
      BY <2>1, <2>2
  <1> QED
    BY <1>1, <1>3, HeardKeeps

\* What is lost to a throw is remembered.
LEMMA ThrowHeard ==
  ASSUME Wired, Heard, NEW w \in Watcher, Throw(w)
  PROVE  Heard'
  <1>1. UNCHANGED <<val, subs, heard>> /\ missed' = missed \cup Owed
    BY DEF Throw, objects
  <1>2. \A v \in Watcher : Tell(v) \in Tells
    BY CallsAreCalls
  <1>3. \A o \in Object, v \in Watcher :
          Tell(v) \in subs[o] => heard[v] = val[o] \/ Tell(v) \in missed'
    BY <1>1, <1>2 DEF Heard, Owed
  <1> QED
    BY <1>1, <1>3, HeardKeeps

\* Who subscribes has heard what the value holds, or has missed it.
LEMMA SubscribeHeard ==
  ASSUME Wired, Heard, NEW w \in Watcher, NEW o \in Object, Subscribe(w, o)
  PROVE  Heard'
  <1> DEFINE c == Join(w, o)
  <1>1. /\ subs' = [subs EXCEPT ![o] = @ \cup {Tell(w)}]
        /\ missed' = IF heard[w] = val[o] THEN missed \ {Tell(w)} ELSE missed \cup {Tell(w)}
        /\ UNCHANGED <<val, heard>> /\ calls' = Left(c)
        /\ c \in Pending /\ Pending \ {c} \subseteq InLoops(Left(c))
    BY NextCall DEF Subscribe, Wired
  <1>2. Hears(w, o) /\ Pending' = InLoops(calls')
    BY <1>1 DEF Hears, Pending, InLoops
  <1>3. (\A v : Tell(v) # c) /\ \A p : Values(p) # c
    BY DifferentCalls
  <1> HIDE DEF c
  <1>4. \A p \in Object : subs'[p] = IF p = o THEN subs[p] \cup {Tell(w)} ELSE subs[p]
    BY <1>1 DEF Wired, TypeOK
  <1>5. ASSUME NEW p \in Object, NEW v \in Watcher, Tell(v) \in subs'[p]
        PROVE  \/ heard'[v] = val'[p]
               \/ Tell(v) \in Pending' \cup missed' \/ Values(p) \in Pending'
    <2>1. CASE v = w
      <3>1. p = o
        BY <1>2, <1>4, <1>5, <2>1 DEF Wired, OneValue, Hears
      <3> QED
        BY <1>1, <2>1, <3>1
    <2>2. CASE v # w
      <3>1. Tell(v) # Tell(w)
        BY <2>2, DifferentCalls
      <3>2. Tell(v) \in subs[p]
        BY <1>4, <1>5, <3>1
      <3> QED
        BY <1>1, <1>2, <1>3, <3>1, <3>2 DEF Heard
    <2> QED
      BY <2>1, <2>2
  <1> QED
    BY <1>5 DEF Heard

\* Between the calls of the user: what is subscribed stays subscribed to what it was.
LEMMA HeardStays ==
  ASSUME Heard, UNCHANGED <<calls, heard>>,
         \A o \in Object, w \in Watcher : Tell(w) \in subs'[o] =>
           /\ Tell(w) \in subs[o] /\ val'[o] = val[o]
           /\ Tell(w) \in missed => Tell(w) \in missed'
  PROVE  Heard'
  <1>1. Pending' = Pending
    BY DEF Pending
  <1> QED
    BY <1>1 DEF Heard

LEMMA BuildsHeard ==
  ASSUME Wired, Heard, NEW n, BuildLeaf(n) \/ BuildNary(n) \/ Discard(n)
  PROVE  Heard'
  <1>1. CASE BuildLeaf(n)
    <2>1. /\ subs' = [subs EXCEPT ![Operand[n]] = @ \cup {Mark(n)}]
          /\ UNCHANGED <<val, calls, heard, missed>>
      BY <1>1 DEF BuildLeaf
    <2>2. \A o \in Object, w \in Watcher : Tell(w) \in subs'[o] => Tell(w) \in subs[o]
      BY <2>1, DifferentCalls DEF Wired, TypeOK
    <2> QED
      BY <2>1, <2>2, HeardStays
  <1>2. CASE BuildNary(n)
    BY <1>2, HeardStays DEF BuildNary, objects
  <1>3. CASE Discard(n)
    <2>1. /\ subs' = [o \in Object |-> subs[o] \ MarksOf(n)] /\ missed' = missed \ MarksOf(n)
          /\ UNCHANGED <<val, calls, heard>>
      BY <1>3 DEF Discard
    <2>2. \A w \in Watcher : Tell(w) \notin MarksOf(n)
      BY DifferentCalls DEF MarksOf
    <2> QED
      BY <2>1, <2>2, HeardStays
  <1> QED
    BY <1>1, <1>2, <1>3

LEMMA ObserveHeard ==
  ASSUME Wired, Heard, NEW e \in Root, NEW o \in Object, Observe(e, o)
  PROVE  Heard'
  <1>1. /\ state[o] = "unborn" /\ val' = [val EXCEPT ![o] = result[e]]
        /\ missed \subseteq missed' /\ UNCHANGED <<subs, calls, heard>>
    BY DEF Observe
  <1>2. \A p \in Object : subs[p] # {} => val'[p] = val[p]
    BY <1>1 DEF Wired, SubscribedAreLive, Live, TypeOK
  <1> QED
    BY <1>1, <1>2, HeardStays

\* When a value goes or moves, who is subscribed to another stays subscribed to
\* it, or is moved together with it.
LEMMA DestroyHeard ==
  ASSUME Wired, Heard, NEW o \in Object, Destroy(o)
  PROVE  Heard'
  <1> DEFINE e == updater[o]
  <1>1. /\ subs' = [p \in Object |-> IF p = o THEN {} ELSE subs[p] \ MarksOf(e)]
        /\ \E x \in Garbage(o, e) : val' = [val EXCEPT ![o] = x]
        /\ missed' = missed \ ({Eval(e)} \cup subs[o] \cup MarksOf(e))
        /\ UNCHANGED <<calls, heard>>
    BY DEF Destroy
  <1>2. \A w \in Watcher : Tell(w) \notin MarksOf(e) /\ Tell(w) # Eval(e)
    BY DifferentCalls DEF MarksOf
  <1> HIDE DEF e
  <1>3. \A p \in Object : p # o => val'[p] = val[p]
    BY <1>1 DEF Wired, TypeOK
  <1>4. ASSUME NEW p \in Object, NEW w \in Watcher, Tell(w) \in subs'[p]
        PROVE  /\ Tell(w) \in subs[p] /\ val'[p] = val[p]
               /\ Tell(w) \in missed => Tell(w) \in missed'
    <2>1. p # o /\ Tell(w) \in subs[p]
      BY <1>1, <1>4
    <2>2. Tell(w) \notin subs[o]
      BY <2>1 DEF Wired, OneValue, Hears
    <2> QED
      BY <1>1, <1>2, <1>3, <2>1, <2>2
  <1> QED
    BY <1>1, <1>4, HeardStays

LEMMA MoveHeard ==
  ASSUME Wired, Heard, Idle, NEW o \in Object, NEW p \in Object, o # p, MoveInto(o, p)
  PROVE  Heard'
  <1> DEFINE e == updater[o]
  <1>1. /\ \E x \in Garbage(p, e) : val' = [val EXCEPT ![o] = val[p], ![p] = x]
        /\ subs' = [q \in Object |-> CASE q = o -> subs[p] \ MarksOf(e)
                                       [] q = p -> {}
                                       [] OTHER -> subs[q] \ MarksOf(e)]
        /\ missed' = missed \ ({Eval(e)} \cup subs[o] \cup MarksOf(e))
        /\ UNCHANGED <<calls, heard>>
    BY DEF MoveInto
  <1>2. \A w \in Watcher : Tell(w) \notin MarksOf(e) /\ Tell(w) # Eval(e)
    BY DifferentCalls DEF MarksOf
  <1> HIDE DEF e
  <1>3. /\ Pending = {} /\ val'[o] = val[p]
        /\ \A q \in Object \ {o, p} : val'[q] = val[q]
    BY <1>1, IdleIsDone DEF Wired, TypeOK
  <1>4. subs'[p] = {} /\ subs'[o] = subs[p] \ MarksOf(e)
        /\ \A q \in Object \ {o, p} : subs'[q] = subs[q] \ MarksOf(e)
    BY <1>1
  <1> DEFINE from(q) == IF q = o THEN p ELSE q
  <1>5. ASSUME NEW q \in Object, NEW w \in Watcher, Tell(w) \in subs'[q]
        PROVE  heard'[w] = val'[q] \/ Tell(w) \in missed'
    <2>1. q # p /\ Tell(w) \in subs[from(q)] /\ from(q) # o /\ from(q) \in Object
      BY <1>4, <1>5
    <2>2. Tell(w) \notin subs[o]
      BY <2>1 DEF Wired, OneValue, Hears
    <2>3. val'[q] = val[from(q)]
      BY <1>3, <2>1
    <2> HIDE DEF from
    <2> QED
      BY <1>1, <1>2, <1>3, <2>1, <2>2, <2>3 DEF Heard
  <1> QED
    BY <1>5 DEF Heard

\* The last thing that an observer hears of a value is what it holds, whatever
\* is set by the observers that hear it, and whatever is moved; unless its call
\* was lost to a throw, or the value was set during its initial call, and not since.
THEOREM HeardIsCurrentHolds == Spec => []HeardIsCurrent
  <1>1. Init => Heard
    BY DEF Init, Heard
  <1>2. Wired /\ Heard /\ [Next]_vars => Heard'
    <2> SUFFICES ASSUME Wired, Heard, [Next]_vars PROVE Heard'
      OBVIOUS
    <2>1. CASE Step
      BY <2>1, ReleaseHeard, NotifyValuesHeard, MarkDirtyHeard, EvaluateHeard,
         TellWatcherHeard, SubscribeHeard DEF Step
    <2>2. CASE UNCHANGED vars
      BY <2>2 DEF vars, objects, Heard, Pending
    <2>3. ASSUME NEW o \in Object, NEW p \in Object, MoveConstruct(o, p) \/ MoveAssign(o, p)
          PROVE  Heard'
      <3>1. o # p /\ Idle /\ MoveInto(o, p)
        BY <2>3 DEF MoveConstruct, MoveAssign, Live
      <3> QED
        BY <3>1, MoveHeard
    <2> QED
      BY <2>1, <2>2, <2>3, UserHeard, ThrowHeard, BuildsHeard, ObserveHeard, DestroyHeard DEF Next
  <1>3. Heard => HeardIsCurrent
    BY DEF Heard, HeardIsCurrent, Idle, Pending
  <1> QED
    BY <1>1, <1>2, <1>3, WiringHolds, PTL DEF Spec

-----------------------------------------------------------------------------
\* What a clean value node holds, and what is below a clean node: the parts of
\* CleanIsCurrent.
CleanLeaves ==
  \A o \in Object, n \in Leaf :
    Mark(n) \in subs[o] /\ ~dirty[n] => result[n] = val[o] \/ Mark(n) \in Pending \cup missed

CleanTrees ==
  \A n \in Node \ Leaf : ~dirty[n] =>
    /\ result[n] = Op(n, [k \in Kids[n] |-> result[k]])
    /\ \A k \in Kids[n] : dirty[k] => k \in Gone

\* What does not exist counts as dirty.
UnmadeAreDirty == \A n \in Node \ made : dirty[n]

AllClean == CleanLeaves /\ CleanTrees /\ UnmadeAreDirty
Clean == Inv /\ Wired /\ AllClean

\* Steps that leave the nodes alone.
LEMMA CleanKeeps ==
  ASSUME Clean, UNCHANGED <<subs, made, points, dirty, result>>,
         \A o \in Object, n \in Leaf : Mark(n) \in subs[o] =>
           \/ Mark(n) \in InLoops(calls') \cup missed'
           \/ val'[o] = val[o] /\ Mark(n) \notin Pending \cup missed
  PROVE  AllClean'
  <1>1. Pending' = InLoops(calls')
    BY DEF InLoops, Pending
  <1>2. Gone' = Gone
    BY DEF Gone
  <1>3. CleanLeaves'
    BY <1>1 DEF Clean, AllClean, CleanLeaves
  <1>4. CleanTrees'
    BY <1>2 DEF Clean, AllClean, CleanTrees
  <1>5. UnmadeAreDirty'
    BY DEF Clean, AllClean, UnmadeAreDirty
  <1> QED
    BY <1>3, <1>4, <1>5 DEF AllClean

LEMMA ReleaseClean ==
  ASSUME Clean, Release
  PROVE  AllClean'
  <1>1. /\ UNCHANGED <<subs, made, points, dirty, result, val>>
        /\ calls' = Left(Unlock) /\ missed' = missed \ {Unlock}
        /\ Pending \ {Unlock} \subseteq InLoops(Left(Unlock))
    BY MakesCall DEF Release, objects, nodes, Clean, Wired
  <1>2. \A n : Mark(n) # Unlock
    BY DifferentCalls
  <1> QED
    BY <1>1, <1>2, CleanKeeps

LEMMA NotifyValuesClean ==
  ASSUME Clean, NEW p \in Object, NotifyValues(p)
  PROVE  AllClean'
  <1> DEFINE now == subs[p] \cap Tells
  <1>1. /\ UNCHANGED <<subs, made, points, dirty, result, val>>
        /\ calls' = Start(now, Left(Values(p))) /\ missed' = missed \ {Values(p)}
        /\ Left(Values(p)) \in Seq(SUBSET Call)
        /\ Pending \ {Values(p)} \subseteq InLoops(Left(Values(p)))
    BY MakesCall DEF NotifyValues, objects, nodes, Clean, Wired
  <1>2. now \in SUBSET Call
    BY CallsAreCalls
  <1>3. InLoops(calls') = now \cup InLoops(Left(Values(p)))
    BY <1>1, <1>2, StartCalls
  <1>4. \A n : Mark(n) # Values(p)
    BY DifferentCalls
  <1> HIDE DEF now
  <1> QED
    BY <1>1, <1>3, <1>4, CleanKeeps

LEMMA UserClean ==
  ASSUME Clean, User
  PROVE  AllClean'
  <1>1. /\ UNCHANGED <<subs, made, points, dirty, result, missed>> /\ Idle /\ Act(<<>>)
    BY DEF User, nodes
  <1>2. <<>> \in Seq(SUBSET Call) /\ InLoops(<<>>) \subseteq Pending
    BY NoLoops
  <1>3. \A o \in Object : val'[o] # val[o] => Due(o) \subseteq InLoops(calls')
    BY <1>1, <1>2, ActCalls DEF Clean, Wired
  <1>4. Pending = {}
    BY <1>1 DEF Idle, Pending
  <1>5. \A n \in Leaf : Mark(n) \in Marks
    BY CallsAreCalls
  <1> QED
    BY <1>1, <1>3, <1>4, <1>5, CleanKeeps DEF Due

LEMMA TellWatcherClean ==
  ASSUME Clean, NEW w \in Watcher, NEW o \in Object, TellWatcher(w, o)
  PROVE  AllClean'
  <1> DEFINE rest == Left(Tell(w))
  <1>1. /\ UNCHANGED <<subs, made, points, dirty, result>> /\ missed' = missed \ {Tell(w)}
        /\ Pending \ {Tell(w)} \subseteq InLoops(rest) /\ InLoops(rest) \subseteq InLoops(calls')
        /\ \A p \in Object : val'[p] # val[p] => Due(p) \subseteq InLoops(calls')
    BY TellWatcherIs DEF wiring, Clean
  <1> HIDE DEF rest
  <1>2. \A n \in Leaf : Mark(n) # Tell(w) /\ Mark(n) \in Marks
    BY DifferentCalls, CallsAreCalls
  <1> QED
    BY <1>1, <1>2, CleanKeeps DEF Due

LEMMA ThrowClean ==
  ASSUME Clean, NEW w \in Watcher, Throw(w)
  PROVE  AllClean'
  <1>1. /\ UNCHANGED <<val, subs, made, points, dirty, result>> /\ missed' = missed \cup Owed
    BY DEF Throw, objects, nodes
  <1>2. \A n \in Leaf : Mark(n) \in Marks
    BY CallsAreCalls
  <1> QED
    BY <1>1, <1>2, CleanKeeps DEF Owed

\* A node is marked together with all that is above it.
LEMMA MarkDirtyClean ==
  ASSUME Clean, NEW n \in Leaf, MarkDirty(n)
  PROVE  AllClean'
  <1> DEFINE now == {Eval(r) : r \in Path[n] \cap built \cap Immediate}
  <1>1. /\ UNCHANGED <<subs, val, made, points, result>>
        /\ dirty' = [m \in Node |-> dirty[m] \/ m \in Path[n]]
        /\ calls' = Start(now, Left(Mark(n))) /\ missed' = missed \ {Mark(n)}
        /\ Left(Mark(n)) \in Seq(SUBSET Call) /\ Pending \ {Mark(n)} \subseteq InLoops(Left(Mark(n)))
    BY MakesCall DEF MarkDirty, Marked, objects, Clean, Wired
  <1>2. now \in SUBSET Call
    BY CallsAreCalls, ExpressionAssumption
  <1>3. InLoops(calls') = now \cup InLoops(Left(Mark(n)))
    BY <1>1, <1>2, StartCalls
  <1> HIDE DEF now
  <1>4. Pending' = InLoops(calls') /\ Gone' = Gone
    BY <1>1 DEF InLoops, Pending, Gone
  <1>5. Leaf \subseteq Node /\ n \in Path[n]
    BY ExpressionAssumption
  <1>6. CleanLeaves'
    <2> SUFFICES ASSUME NEW o \in Object, NEW m \in Leaf, Mark(m) \in subs[o], ~dirty'[m]
                 PROVE  result[m] = val[o] \/ Mark(m) \in Pending' \cup missed'
      BY <1>1 DEF CleanLeaves
    <2>1. ~dirty[m] /\ m # n
      BY <1>1, <1>5
    <2>2. Mark(m) # Mark(n)
      BY <2>1, DifferentCalls
    <2> QED
      BY <1>1, <1>3, <1>4, <2>1, <2>2 DEF Clean, AllClean, CleanLeaves
  <1>7. CleanTrees'
    <2> SUFFICES ASSUME NEW m \in Node \ Leaf, ~dirty'[m]
                 PROVE  /\ result[m] = Op(m, [k \in Kids[m] |-> result[k]])
                        /\ \A k \in Kids[m] : dirty'[k] => k \in Gone
      BY <1>1, <1>4 DEF CleanTrees
    <2>1. ~dirty[m] /\ m \notin Path[n]
      BY <1>1
    <2>2. ASSUME NEW k \in Kids[m], dirty'[k] PROVE k \in Gone
      <3>1. k \in Node /\ m \in Path[k]
        BY KidsOf
      <3>2. k \notin Path[n]
        BY <1>5, <2>1, <3>1, PathsAreNested
      <3>3. dirty[k]
        BY <1>1, <2>2, <3>1, <3>2
      <3> QED
        BY <2>1, <3>3 DEF Clean, AllClean, CleanTrees
    <2> QED
      BY <2>1, <2>2 DEF Clean, AllClean, CleanTrees
  <1>8. UnmadeAreDirty'
    BY <1>1 DEF Clean, AllClean, UnmadeAreDirty
  <1> QED
    BY <1>6, <1>7, <1>8 DEF AllClean

\* What is below a node that exists does, too.
LEMMA TreeIsMade ==
  ASSUME Inv, NEW e \in Node, Kids[e] \subseteq made
  PROVE  Tree[e] \subseteq made \cup {e}
  <1> DEFINE S == Tree[e] \ (made \cup {e})
  <1>1. CASE S = {}
    BY <1>1
  <1>2. CASE S # {}
    <2>1. PICK k \in S : k \in Root \/ \E m \in Node \ S : k \in Kids[m]
      <3>1. S \in SUBSET Node
        BY DEF Tree
      <3> HIDE DEF S
      <3> QED
        BY <1>2, <3>1, Highest
    <2>2. k \in Node /\ e \in Path[k] /\ k # e /\ k \notin made
      BY DEF Tree
    <2>3. k \notin Root
      BY <2>2 DEF Root
    <2>4. PICK m \in Node \ S : k \in Kids[m]
      BY <2>1, <2>3
    <2>5. e \in Path[m]
      BY <2>2, <2>4, KidsOf
    <2>6. m \in made \/ m = e
      BY <2>4, <2>5 DEF Tree
    <2>7. k \in made
      BY <2>4, <2>6 DEF Inv, Grown
    <2> QED
      BY <2>2, <2>7
  <1> QED
    BY <1>1, <1>2

\* An evaluation recomputes a tree from those of its nodes that it leaves alone.
LEMMA EvalNodeClean ==
  ASSUME Clean, NEW e \in Node, EvalNode(e), UNCHANGED <<subs, points>>,
         made \subseteq made', Tree[e] \subseteq made',
         \A o \in Object, n \in Leaf : Mark(n) \in subs[o] =>
           /\ Mark(n) \in Pending \cup missed => Mark(n) \in InLoops(calls') \cup missed'
           /\ val'[o] # val[o] => Mark(n) \in InLoops(calls')
  PROVE  AllClean'
  <1>1. /\ result' = [n \in Node |-> IF n \in Reached(e) THEN Fresh[n] ELSE result[n]]
        /\ dirty'  = [n \in Node |-> dirty[n] /\ n \notin Reached(e) \ Gone]
    BY DEF EvalNode
  <1>2. Pending' = InLoops(calls') /\ Gone' = Gone
    BY DEF InLoops, Pending, Gone
  <1>3. /\ Fresh \in [Node -> Datum]
        /\ \A n \in Node : ~dirty[n] => Fresh[n] = result[n]
        /\ \A n \in Node \ Leaf : dirty[n] => Fresh[n] = Op(n, [k \in Kids[n] |-> Fresh[k]])
        /\ \A n \in Leaf : dirty[n] =>
             Fresh[n] = IF points[n] = NoObject THEN result[n] ELSE val[points[n]]
    BY FreshIs DEF Clean, Wired, TypeOK
  <1>4. Leaf \subseteq Node /\ NoObject \notin Object
    BY ExpressionAssumption
  <1>5. \A n \in Node : n \in Path[n]
    BY ExpressionAssumption
  <1>6. \A n \in Reached(e) : n \in Node /\ dirty[n] /\ n \in Tree[e]
    BY <1>5 DEF Reached, Tree
  <1>7. CleanLeaves'
    <2> SUFFICES ASSUME NEW o \in Object, NEW n \in Leaf, Mark(n) \in subs[o], ~dirty'[n]
                 PROVE  result'[n] = val'[o] \/ Mark(n) \in Pending' \cup missed'
      BY DEF CleanLeaves
    <2>1. points[n] = o /\ n \notin Gone
      BY <1>4 DEF Clean, Inv, NodeFollowsValue, Gone
    <2>2. CASE val'[o] # val[o]
      BY <1>2, <2>2
    <2>3. CASE val'[o] = val[o]
      <3>1. CASE n \in Reached(e)
        BY <1>1, <1>3, <1>4, <1>6, <2>1, <2>3, <3>1
      <3>2. CASE n \notin Reached(e)
        <4>1. ~dirty[n] /\ result'[n] = result[n]
          BY <1>1, <1>4, <3>2
        <4> QED
          BY <1>2, <2>3, <4>1 DEF Clean, AllClean, CleanLeaves
      <3> QED
        BY <3>1, <3>2
    <2> QED
      BY <2>2, <2>3
  <1>8. CleanTrees'
    <2> SUFFICES ASSUME NEW n \in Node \ Leaf, ~dirty'[n]
                 PROVE  /\ result'[n] = Op(n, [k \in Kids[n] |-> result'[k]])
                        /\ \A k \in Kids[n] : dirty'[k] => k \in Gone
      BY <1>2 DEF CleanTrees
    <2>1. CASE n \in Reached(e)
      <3>1. dirty[n] /\ \A m \in Path[n] : dirty[m]
        BY <1>6, <2>1 DEF Reached
      <3>2. result'[n] = Op(n, [k \in Kids[n] |-> Fresh[k]])
        BY <1>1, <1>3, <2>1, <3>1
      <3>3. ASSUME NEW k \in Kids[n]
            PROVE  /\ k \in Node /\ (k \in Reached(e) <=> dirty[k])
        <4>1. k \in Node /\ Path[k] = {k} \cup Path[n]
          BY KidsOf
        <4>2. e \in Path[k]
          BY <1>6, <2>1, <4>1 DEF Tree
        <4>3. k \in Tree[e]
          BY <4>1, <4>2 DEF Tree
        <4> QED
          BY <3>1, <4>1, <4>3 DEF Reached
      <3>4. \A k \in Kids[n] : result'[k] = Fresh[k]
        BY <1>1, <1>3, <3>3
      <3>5. \A k \in Kids[n] : dirty'[k] => k \in Gone
        BY <1>1, <3>3
      <3>6. [k \in Kids[n] |-> Fresh[k]] = [k \in Kids[n] |-> result'[k]]
        BY <3>4
      <3> QED
        BY <3>2, <3>5, <3>6
    <2>2. CASE n \notin Reached(e)
      <3>1. ~dirty[n] /\ result'[n] = result[n]
        BY <1>1, <2>2
      <3>2. ASSUME NEW k \in Kids[n]
            PROVE  /\ k \in Node /\ k \notin Reached(e)
        <4>1. k \in Node /\ n \in Path[k]
          BY KidsOf
        <4> QED
          BY <3>1, <4>1 DEF Reached
      <3>3. \A k \in Kids[n] : result'[k] = result[k] /\ (dirty'[k] => dirty[k])
        BY <1>1, <3>2
      <3>4. [k \in Kids[n] |-> result[k]] = [k \in Kids[n] |-> result'[k]]
        BY <3>3
      <3> QED
        BY <3>1, <3>3, <3>4 DEF Clean, AllClean, CleanTrees
    <2> QED
      BY <2>1, <2>2
  <1>9. UnmadeAreDirty'
    BY <1>1, <1>6 DEF Clean, AllClean, UnmadeAreDirty
  <1> QED
    BY <1>7, <1>8, <1>9 DEF AllClean

LEMMA EvaluateClean ==
  ASSUME Clean, NEW e \in Root, Evaluate(e)
  PROVE  AllClean'
  <1>1. /\ UNCHANGED <<subs, made, points>> /\ EvalNode(e) /\ missed' = missed \ {Eval(e)}
        /\ Pending \ {Eval(e)} \subseteq InLoops(Left(Eval(e)))
    BY MakesCall DEF Evaluate, Clean, Wired
  <1>2. /\ InLoops(Left(Eval(e))) \subseteq InLoops(calls') /\ e \in built
        /\ \A o \in Object : val'[o] # val[o] => Due(o) \subseteq InLoops(calls')
    BY EvaluateIs DEF Clean
  <1>3. e \in Node /\ Tree[e] \subseteq made
    BY <1>2, TreeIsMade DEF Root, Clean, Inv, Grown
  <1>4. \A n \in Leaf : Mark(n) # Eval(e) /\ Mark(n) \in Marks
    BY DifferentCalls, CallsAreCalls
  <1> QED
    BY <1>1, <1>2, <1>3, <1>4, EvalNodeClean DEF Due

-----------------------------------------------------------------------------
LEMMA SubscribeClean ==
  ASSUME Clean, NEW w \in Watcher, NEW o \in Object, Subscribe(w, o)
  PROVE  AllClean'
  <1> DEFINE c == Join(w, o)
  <1>1. /\ subs' = [subs EXCEPT ![o] = @ \cup {Tell(w)}]
        /\ missed \ {Tell(w)} \subseteq missed' /\ calls' = Left(c)
        /\ UNCHANGED <<val, made, points, dirty, result>>
        /\ Pending \ {c} \subseteq InLoops(Left(c))
    BY NextCall DEF Subscribe, nodes, Clean, Wired
  <1>2. \A n : Mark(n) # Tell(w) /\ Mark(n) # c
    BY DifferentCalls
  <1> HIDE DEF c
  <1>3. \A p \in Object, n \in Leaf : Mark(n) \in subs'[p] => Mark(n) \in subs[p]
    BY <1>1, <1>2 DEF Clean, Wired, TypeOK
  <1>4. Pending' = InLoops(calls') /\ Gone' = Gone
    BY <1>1 DEF InLoops, Pending, Gone
  <1>5. CleanLeaves'
    BY <1>1, <1>2, <1>3, <1>4 DEF Clean, AllClean, CleanLeaves
  <1>6. CleanTrees' /\ UnmadeAreDirty'
    BY <1>1, <1>4 DEF Clean, AllClean, CleanTrees, UnmadeAreDirty
  <1> QED
    BY <1>5, <1>6 DEF AllClean

\* A new value node is clean; there is nothing above it yet.
LEMMA BuildLeafClean ==
  ASSUME Clean, NEW l, BuildLeaf(l)
  PROVE  AllClean'
  <1>1. /\ l \in Leaf /\ l \notin made /\ made' = made \cup {l}
        /\ subs' = [subs EXCEPT ![Operand[l]] = @ \cup {Mark(l)}]
        /\ points' = [points EXCEPT ![l] = Operand[l]]
        /\ result' = [result EXCEPT ![l] = val[Operand[l]]] /\ dirty' = [dirty EXCEPT ![l] = FALSE]
        /\ UNCHANGED <<val, calls, missed>>
    BY DEF BuildLeaf
  <1>2. /\ l \in Node /\ Operand[l] \in Object /\ Leaf \subseteq Node
        /\ NoObject \notin Object
    BY <1>1, ExpressionAssumption
  <1>3. /\ \A n \in Node : n # l => result'[n] = result[n] /\ dirty'[n] = dirty[n]
        /\ result'[l] = val[Operand[l]] /\ ~dirty'[l] /\ Pending' = Pending
    BY <1>1, <1>2 DEF Clean, Wired, TypeOK, Pending
  <1>4. CleanLeaves'
    <2> SUFFICES ASSUME NEW o \in Object, NEW n \in Leaf, Mark(n) \in subs'[o], ~dirty'[n]
                 PROVE  result'[n] = val'[o] \/ Mark(n) \in Pending' \cup missed'
      BY DEF CleanLeaves
    <2>1. CASE n = l
      <3>1. Mark(l) \notin subs[o]
        BY <1>1 DEF Clean, Inv, NotifiedIsMade
      <3>2. o = Operand[l]
        BY <1>1, <2>1, <3>1 DEF Clean, Wired, TypeOK
      <3> QED
        BY <1>1, <1>3, <2>1, <3>2
    <2>2. CASE n # l
      <3>1. Mark(n) \in subs[o]
        BY <1>1, <2>2, DifferentCalls DEF Clean, Wired, TypeOK
      <3> QED
        BY <1>1, <1>2, <1>3, <2>2, <3>1 DEF Clean, AllClean, CleanLeaves
    <2> QED
      BY <2>1, <2>2
  <1>5. CleanTrees'
    <2> SUFFICES ASSUME NEW n \in Node \ Leaf, ~dirty'[n]
                 PROVE  /\ result'[n] = Op(n, [k \in Kids[n] |-> result'[k]])
                        /\ \A k \in Kids[n] : dirty'[k] => k \in Gone'
      BY DEF CleanTrees
    <2>1. n # l /\ ~dirty[n] /\ result'[n] = result[n]
      BY <1>1, <1>3
    <2>2. n \in made
      BY <2>1 DEF Clean, AllClean, UnmadeAreDirty
    <2>3. \A k \in Kids[n] : k \in Node /\ k # l
      BY <1>1, <2>2, KidsOf DEF Clean, Inv, Grown
    <2>4. [k \in Kids[n] |-> result'[k]] = [k \in Kids[n] |-> result[k]]
      BY <1>3, <2>3
    <2>5. ASSUME NEW k \in Kids[n], dirty'[k] PROVE k \in Gone'
      <3>1. k \in Gone /\ k # l
        BY <1>3, <2>1, <2>3, <2>5 DEF Clean, AllClean, CleanTrees
      <3> QED
        BY <1>1, <3>1 DEF Gone, Clean, Wired, TypeOK
    <2> QED
      BY <2>1, <2>4, <2>5 DEF Clean, AllClean, CleanTrees
  <1>6. UnmadeAreDirty'
    BY <1>1, <1>3 DEF Clean, AllClean, UnmadeAreDirty
  <1> QED
    BY <1>4, <1>5, <1>6 DEF AllClean

LEMMA BuildNaryClean ==
  ASSUME Clean, NEW m, BuildNary(m)
  PROVE  AllClean'
  <1>1. /\ m \in Node /\ Kids[m] \subseteq made /\ made' = made \cup {m} /\ EvalNode(m)
        /\ UNCHANGED <<val, subs, points, calls, missed>>
    BY DEF BuildNary, objects
  <1>2. Tree[m] \subseteq made'
    BY <1>1, TreeIsMade DEF Clean
  <1>3. InLoops(calls') = Pending
    BY <1>1 DEF InLoops, Pending
  <1> QED
    BY <1>1, <1>2, <1>3, EvalNodeClean

LEMMA ObserveClean ==
  ASSUME Clean, NEW e \in Root, NEW o \in Object, Observe(e, o)
  PROVE  AllClean'
  <1>1. /\ state[o] = "unborn" /\ val' = [val EXCEPT ![o] = result[e]]
        /\ missed \subseteq missed' /\ UNCHANGED <<subs, made, points, dirty, result, calls>>
    BY DEF Observe, nodes
  <1>2. \A p \in Object : subs[p] # {} => val'[p] = val[p]
    BY <1>1 DEF Clean, Wired, SubscribedAreLive, Live, TypeOK
  <1>3. InLoops(calls') = Pending
    BY <1>1 DEF InLoops, Pending
  <1> QED
    BY <1>1, <1>2, <1>3, CleanKeeps

\* What is dropped leaves the other trees alone.
LEMMA DropClean ==
  ASSUME Clean, NEW e, Droppable(e), Drop(e), Gone \subseteq Gone'
  PROVE  /\ CleanTrees' /\ UnmadeAreDirty'
         /\ \A n \in Leaf : ~dirty'[n] => ~dirty[n] /\ result'[n] = result[n] /\ n \notin Nodes(e)
  <1>1. /\ dirty' = [n \in Node |-> dirty[n] \/ e \in Path[n]]
        /\ result' = [n \in Node |-> IF e \in Path[n] THEN SomeInput ELSE result[n]]
        /\ made' = {n \in made : e \notin Path[n]}
    BY DEF Drop
  <1>2. \A n \in Leaf : ~dirty'[n] => ~dirty[n] /\ result'[n] = result[n] /\ n \notin Nodes(e)
    BY <1>1, NodesOf, ExpressionAssumption
  <1>3. CleanTrees'
    <2> SUFFICES ASSUME NEW n \in Node \ Leaf, ~dirty'[n]
                 PROVE  /\ result'[n] = Op(n, [k \in Kids[n] |-> result'[k]])
                        /\ \A k \in Kids[n] : dirty'[k] => k \in Gone'
      BY DEF CleanTrees
    <2>1. e \notin Path[n] /\ ~dirty[n] /\ result'[n] = result[n]
      BY <1>1
    <2>2. n \in made
      BY <2>1 DEF Clean, AllClean, UnmadeAreDirty
    <2>3. ASSUME NEW k \in Kids[n] PROVE k \in Node /\ e \notin Path[k]
      <3>1. k \in Node /\ Path[k] = {k} \cup Path[n] /\ n \in Path[n] /\ k # n
        BY KidsOf
      <3>2. e # k
        <4>1. CASE e \in Root \cup {NoNode}
          BY <3>1, <4>1, ExpressionAssumption DEF Root
        <4>2. CASE Path[e] \cap made = {e}
          BY <2>2, <3>1, <4>2
        <4> QED
          BY <4>1, <4>2 DEF Droppable
      <3> QED
        BY <2>1, <3>1, <3>2
    <2>4. \A k \in Kids[n] : result'[k] = result[k] /\ (dirty'[k] => dirty[k])
      BY <1>1, <2>3
    <2>5. [k \in Kids[n] |-> result[k]] = [k \in Kids[n] |-> result'[k]]
      BY <2>4
    <2> QED
      BY <2>1, <2>4, <2>5 DEF Clean, AllClean, CleanTrees
  <1>4. UnmadeAreDirty'
    BY <1>1 DEF Clean, AllClean, UnmadeAreDirty
  <1> QED
    BY <1>2, <1>3, <1>4

\* A tree that is discarded had nothing above it.
LEMMA DiscardClean ==
  ASSUME Clean, NEW e, Discard(e)
  PROVE  AllClean'
  <1>1. /\ points' = [k \in Leaf |-> IF k \in Nodes(e) THEN NoObject ELSE points[k]]
        /\ subs' = [o \in Object |-> subs[o] \ MarksOf(e)]
        /\ Drop(e) /\ Droppable(e)
        /\ missed' = missed \ MarksOf(e) /\ UNCHANGED <<val, calls>>
    BY DEF Discard, Droppable
  <1>2. Pending' = Pending /\ Gone \subseteq Gone'
    BY <1>1 DEF Pending, Gone
  <1>3. /\ CleanTrees' /\ UnmadeAreDirty'
        /\ \A n \in Leaf : ~dirty'[n] => ~dirty[n] /\ result'[n] = result[n] /\ n \notin Nodes(e)
    BY <1>1, <1>2, DropClean
  <1>4. CleanLeaves'
    <2> SUFFICES ASSUME NEW p \in Object, NEW n \in Leaf, Mark(n) \in subs'[p], ~dirty'[n]
                 PROVE  result'[n] = val'[p] \/ Mark(n) \in Pending' \cup missed'
      BY DEF CleanLeaves
    <2>1. Mark(n) \in subs[p] /\ Mark(n) \notin MarksOf(e)
      BY <1>1
    <2> QED
      BY <1>1, <1>2, <1>3, <2>1 DEF Clean, AllClean, CleanLeaves
  <1> QED
    BY <1>3, <1>4 DEF AllClean

LEMMA DestroyClean ==
  ASSUME Clean, NEW o \in Object, Destroy(o)
  PROVE  AllClean'
  <1> DEFINE e == updater[o]
  <1>1. /\ points' = [n \in Leaf |-> IF Mark(n) \in subs[o] \/ n \in Nodes(e) THEN NoObject ELSE points[n]]
        /\ subs' = [p \in Object |-> IF p = o THEN {} ELSE subs[p] \ MarksOf(e)]
        /\ \E x \in Garbage(o, e) : val' = [val EXCEPT ![o] = x]
        /\ Drop(e) /\ Droppable(e)
        /\ missed' = missed \ ({Eval(e)} \cup subs[o] \cup MarksOf(e)) /\ UNCHANGED calls
    BY DEF Destroy, Clean, Wired, TypeOK, Droppable
  <1> HIDE DEF e
  <1>2. /\ Pending' = Pending /\ Gone \subseteq Gone'
        /\ \A p \in Object : p # o => val'[p] = val[p]
    BY <1>1 DEF Pending, Gone, Clean, Wired, TypeOK
  <1>3. /\ CleanTrees' /\ UnmadeAreDirty'
        /\ \A n \in Leaf : ~dirty'[n] => ~dirty[n] /\ result'[n] = result[n] /\ n \notin Nodes(e)
    BY <1>1, <1>2, DropClean
  <1>4. CleanLeaves'
    <2> SUFFICES ASSUME NEW p \in Object, NEW n \in Leaf, Mark(n) \in subs'[p], ~dirty'[n]
                 PROVE  result'[n] = val'[p] \/ Mark(n) \in Pending' \cup missed'
      BY DEF CleanLeaves
    <2>1. p # o /\ Mark(n) \in subs[p] /\ Mark(n) \notin MarksOf(e)
      BY <1>1
    <2>2. Mark(n) \notin subs[o] /\ Mark(n) # Eval(e)
      BY <2>1, DifferentCalls DEF Clean, Inv, NodeFollowsValue
    <2> QED
      BY <1>1, <1>2, <1>3, <2>1, <2>2 DEF Clean, AllClean, CleanLeaves
  <1> QED
    BY <1>3, <1>4 DEF AllClean

LEMMA MoveClean ==
  ASSUME Clean, NEW o \in Object, NEW p \in Object, o # p, MoveInto(o, p)
  PROVE  AllClean'
  <1> DEFINE e == updater[o]
  <1>1. /\ \E x \in Garbage(p, e) : val' = [val EXCEPT ![o] = val[p], ![p] = x]
        /\ subs' = [q \in Object |-> CASE q = o -> subs[p] \ MarksOf(e)
                                       [] q = p -> {}
                                       [] OTHER -> subs[q] \ MarksOf(e)]
        /\ points' = [n \in Leaf |-> IF n \in Nodes(e) THEN NoObject ELSE Redirected(o, p)[n]]
        /\ Drop(e) /\ Droppable(e)
        /\ missed' = missed \ ({Eval(e)} \cup subs[o] \cup MarksOf(e)) /\ UNCHANGED calls
    BY DEF MoveInto, Clean, Wired, TypeOK, Droppable
  <1> HIDE DEF e
  <1>2. /\ Pending' = Pending /\ val'[o] = val[p]
        /\ \A q \in Object \ {o, p} : val'[q] = val[q]
    BY <1>1 DEF Pending, Clean, Wired, TypeOK
  <1>3. subs'[p] = {} /\ subs'[o] = subs[p] \ MarksOf(e)
        /\ \A q \in Object \ {o, p} : subs'[q] = subs[q] \ MarksOf(e)
    BY <1>1
  <1>4. Gone \subseteq Gone'
    <2> SUFFICES ASSUME NEW n \in Gone PROVE n \in Gone'
      OBVIOUS
    <2>1. n \in Leaf /\ points[n] = NoObject
      BY DEF Gone
    <2>2. Mark(n) \notin subs[p]
      BY <2>1, ExpressionAssumption DEF Clean, Inv, NodeFollowsValue
    <2>3. points'[n] = NoObject
      BY <1>1, <2>1, <2>2 DEF Redirected
    <2> QED
      BY <2>1, <2>3 DEF Gone
  <1>5. /\ CleanTrees' /\ UnmadeAreDirty'
        /\ \A n \in Leaf : ~dirty'[n] => ~dirty[n] /\ result'[n] = result[n] /\ n \notin Nodes(e)
    BY <1>1, <1>4, DropClean
  <1> DEFINE from(q) == IF q = o THEN p ELSE q
  <1>6. CleanLeaves'
    <2> SUFFICES ASSUME NEW q \in Object, NEW n \in Leaf, Mark(n) \in subs'[q], ~dirty'[n]
                 PROVE  result'[n] = val'[q] \/ Mark(n) \in Pending' \cup missed'
      BY DEF CleanLeaves
    <2>1. /\ q # p /\ Mark(n) \in subs[from(q)] /\ from(q) # o /\ from(q) \in Object
          /\ Mark(n) \notin MarksOf(e)
      BY <1>3
    <2>2. Mark(n) \notin subs[o] /\ Mark(n) # Eval(e)
      BY <2>1, DifferentCalls DEF Clean, Inv, NodeFollowsValue
    <2>3. val'[q] = val[from(q)]
      BY <1>2, <2>1
    <2> HIDE DEF from
    <2> QED
      BY <1>1, <1>2, <1>5, <2>1, <2>2, <2>3 DEF Clean, AllClean, CleanLeaves
  <1> QED
    BY <1>5, <1>6 DEF AllClean

LEMMA CleanStep == Clean /\ [Next]_vars => AllClean'
  <1> SUFFICES ASSUME Clean, [Next]_vars PROVE AllClean'
    OBVIOUS
  <1>1. CASE Step
    BY <1>1, ReleaseClean, NotifyValuesClean, MarkDirtyClean, EvaluateClean,
       TellWatcherClean, SubscribeClean DEF Step
  <1>2. CASE UNCHANGED vars
    BY <1>2 DEF vars, objects, nodes, Clean, AllClean, CleanLeaves, CleanTrees, UnmadeAreDirty,
       Pending, Gone
  <1>3. ASSUME NEW o \in Object, NEW p \in Object, MoveConstruct(o, p) \/ MoveAssign(o, p)
        PROVE  AllClean'
    <2>1. o # p /\ MoveInto(o, p)
      BY <1>3 DEF MoveConstruct, MoveAssign, Live
    <2> QED
      BY <2>1, MoveClean
  <1> QED
    BY <1>1, <1>2, <1>3, UserClean, ThrowClean, BuildLeafClean, BuildNaryClean,
       DiscardClean, ObserveClean, DestroyClean DEF Next

LEMMA CleanHolds == Spec => []Clean
  <1>1. Init => AllClean
    BY ExpressionAssumption DEF Init, AllClean, CleanLeaves, CleanTrees, UnmadeAreDirty
  <1>2. Inv /\ Wired /\ AllClean /\ [Next]_vars => AllClean'
    BY CleanStep DEF Clean
  <1>3. Inv /\ Wired /\ AllClean => Clean
    BY DEF Clean
  <1> QED
    BY <1>1, <1>2, <1>3, InvHolds, WiringHolds, PTL DEF Spec

\* A node that is not dirty holds what evaluating it would give, unless it is
\* about to be told or a throw has kept it from it.
THEOREM CleanIsCurrentHolds == Spec => []CleanIsCurrent
  <1>1. Clean => CleanIsCurrent
    BY DEF Clean, AllClean, CleanLeaves, CleanTrees, CleanIsCurrent
  <1> QED
    BY <1>1, CleanHolds, PTL

-----------------------------------------------------------------------------
\* An immediate expression is evaluated before the loop that marked it goes on.
AtOnce ==
  \A e \in Immediate : Eval(e) \in Pending =>
    /\ calls # <<>> /\ Head(calls) = {Eval(e)}
    /\ Eval(e) \notin InLoops(Tail(calls))

\* Otherwise it is clean, and the object that it sets holds its result, or it had
\* changed before it was observed.
Prompt ==
  \A o \in Object :
    LET e == updater[o] IN
    e \in Immediate =>
      \/ Eval(e) \in Pending \cup missed
      \/ val[o] = result[e] /\ (dirty[e] => e \in Gone)

\* No immediate expression is about to be evaluated.
NoneAtOnce(c) == \A e \in Immediate : Eval(e) \notin c

LEMMA NoneBesides ==
  ASSUME Wired, AtOnce, NEW c, c \in Head(calls), \A e \in Immediate : c # Eval(e)
  PROVE  NoneAtOnce(Pending)
  BY DEF AtOnce, NoneAtOnce

LEMMA NoneAfter ==
  ASSUME NoneAtOnce(InLoops(calls'))
  PROVE  AtOnce'
  <1>1. Pending' = InLoops(calls')
    BY DEF InLoops, Pending
  <1> QED
    BY <1>1 DEF AtOnce, NoneAtOnce

\* Steps that set no object of an immediate expression.
LEMMA PromptKeeps ==
  ASSUME Wired, Prompt, NoneAtOnce(Pending), UNCHANGED <<updater, points, dirty, result>>,
         \A o \in Object : updater[o] \in Immediate => val'[o] = val[o],
         \A e \in Immediate : Eval(e) \in missed => Eval(e) \in missed'
  PROVE  Prompt'
  <1>1. Gone' = Gone
    BY DEF Gone
  <1>2. \A o \in Object : updater[o] \in Immediate =>
          \/ Eval(updater[o]) \in missed
          \/ val[o] = result[updater[o]] /\ (dirty[updater[o]] => updater[o] \in Gone)
    BY DEF Prompt, NoneAtOnce
  <1> QED
    BY <1>1, <1>2 DEF Prompt

\* A call that is not that of an expression, and what it leaves.
LEMMA OtherCallPrompt ==
  ASSUME Wired, AtOnce, Prompt, UNCHANGED <<updater, points, dirty, result>>,
         NEW c, Calls(c), \A e \in Immediate : c # Eval(e),
         \A e \in Immediate : Eval(e) \in InLoops(calls') => Eval(e) \in Pending,
         \A o \in Object : updater[o] \in Immediate => val'[o] = val[o],
         \A e \in Immediate : Eval(e) \in missed => Eval(e) \in missed'
  PROVE  AtOnce' /\ Prompt'
  <1>1. NoneAtOnce(Pending)
    BY NoneBesides DEF Calls
  <1>2. NoneAtOnce(InLoops(calls'))
    BY <1>1 DEF NoneAtOnce
  <1> QED
    BY <1>1, <1>2, NoneAfter, PromptKeeps

LEMMA ReleasePrompt ==
  ASSUME Wired, AtOnce, Prompt, Release
  PROVE  AtOnce' /\ Prompt'
  <1>1. /\ UNCHANGED <<updater, points, dirty, result, val>>
        /\ calls' = Left(Unlock) /\ InLoops(Left(Unlock)) \subseteq Pending
        /\ Calls(Unlock) /\ missed' = missed \ {Unlock}
    BY MakesCall DEF Release, objects, nodes, Wired, Makes
  <1>2. \A e : Eval(e) # Unlock
    BY DifferentCalls
  <1> QED
    BY <1>1, <1>2, OtherCallPrompt

LEMMA NotifyValuesPrompt ==
  ASSUME Wired, AtOnce, Prompt, NEW o \in Object, NotifyValues(o)
  PROVE  AtOnce' /\ Prompt'
  <1> DEFINE now == subs[o] \cap Tells
  <1>1. /\ UNCHANGED <<updater, points, dirty, result, val>>
        /\ calls' = Start(now, Left(Values(o))) /\ Left(Values(o)) \in Seq(SUBSET Call)
        /\ InLoops(Left(Values(o))) \subseteq Pending
        /\ Calls(Values(o)) /\ missed' = missed \ {Values(o)}
    BY MakesCall DEF NotifyValues, objects, nodes, Wired, Makes
  <1>2. now \in SUBSET Call /\ \A e : Eval(e) \notin now /\ Eval(e) # Values(o)
    BY CallsAreCalls, DifferentCalls DEF Tells
  <1> HIDE DEF now
  <1>3. InLoops(calls') = now \cup InLoops(Left(Values(o)))
    BY <1>1, <1>2, StartCalls
  <1> QED
    BY <1>1, <1>2, <1>3, OtherCallPrompt

LEMMA SubscribePrompt ==
  ASSUME Wired, AtOnce, Prompt, NEW w \in Watcher, NEW o \in Object, Subscribe(w, o)
  PROVE  AtOnce' /\ Prompt'
  <1>1. /\ UNCHANGED <<updater, points, dirty, result, val>>
        /\ calls' = Left(Join(w, o)) /\ InLoops(Left(Join(w, o))) \subseteq Pending
        /\ Calls(Join(w, o)) /\ missed \ {Tell(w)} \subseteq missed'
    BY NextCall DEF Subscribe, nodes, Wired
  <1>2. \A e : Eval(e) # Join(w, o) /\ Eval(e) # Tell(w)
    BY DifferentCalls
  <1> QED
    BY <1>1, <1>2, OtherCallPrompt

LEMMA TellWatcherPrompt ==
  ASSUME Wired, AtOnce, Prompt, NEW w \in Watcher, NEW o \in Object, TellWatcher(w, o)
  PROVE  AtOnce' /\ Prompt'
  <1> DEFINE rest == Left(Tell(w))
  <1>1. /\ UNCHANGED <<updater, points, dirty, result>> /\ missed' = missed \ {Tell(w)}
        /\ InLoops(rest) \subseteq Pending
        /\ \A e \in Immediate : Eval(e) \in InLoops(calls') => Eval(e) \in InLoops(rest)
        /\ \A p \in Object : val'[p] # val[p] => updater[p] = NoNode
    BY TellWatcherIs DEF wiring
  <1>2. Calls(Tell(w))
    BY DEF TellWatcher, Makes
  <1> HIDE DEF rest
  <1>3. \A e : Eval(e) # Tell(w)
    BY DifferentCalls
  <1>4. NoNode \notin Immediate
    BY ExpressionAssumption DEF Root
  <1> QED
    BY <1>1, <1>2, <1>3, <1>4, OtherCallPrompt

LEMMA UserPrompt ==
  ASSUME Wired, AtOnce, Prompt, User
  PROVE  AtOnce' /\ Prompt'
  <1>1. /\ UNCHANGED <<updater, points, dirty, result, missed>> /\ Idle /\ Act(<<>>)
    BY DEF User, nodes
  <1>2. <<>> \in Seq(SUBSET Call) /\ InLoops(<<>>) \subseteq Pending
    BY NoLoops
  <1>3. /\ \A e \in Immediate : Eval(e) \in InLoops(calls') => Eval(e) \in InLoops(<<>>)
        /\ \A o \in Object : val'[o] # val[o] => updater[o] = NoNode
    BY <1>1, <1>2, ActCalls DEF Wired
  <1>4. NoneAtOnce(Pending)
    BY <1>1 DEF Idle, Pending, NoneAtOnce
  <1>5. NoneAtOnce(InLoops(calls'))
    BY <1>3, NoLoops DEF NoneAtOnce
  <1>6. NoNode \notin Immediate
    BY ExpressionAssumption DEF Root
  <1> QED
    BY <1>1, <1>3, <1>4, <1>5, <1>6, NoneAfter, PromptKeeps

\* No evaluation is lost to a throw: at once means before anything that may throw.
LEMMA ThrowPrompt ==
  ASSUME Wired, AtOnce, Prompt, NEW w \in Watcher, Throw(w)
  PROVE  AtOnce' /\ Prompt'
  <1>1. /\ UNCHANGED <<updater, val, points, dirty, result>> /\ calls' = <<>>
        /\ missed \subseteq missed'
        /\ Calls(Tell(w)) \/ \E o \in Object : Calls(Join(w, o))
    BY DEF Throw, objects, nodes
  <1>2. PICK c : Calls(c) /\ \A e : Eval(e) # c
    BY <1>1, DifferentCalls
  <1>3. InLoops(calls') = {}
    BY <1>1, NoLoops
  <1> QED
    BY <1>1, <1>2, <1>3, OtherCallPrompt

LEMMA MarkDirtyPrompt ==
  ASSUME Wired, AtOnce, Prompt, NEW n \in Leaf, MarkDirty(n)
  PROVE  AtOnce' /\ Prompt'
  <1> DEFINE now == {Eval(r) : r \in Path[n] \cap built \cap Immediate}
  <1>1. /\ UNCHANGED <<updater, val, points, result>>
        /\ dirty' = [m \in Node |-> dirty[m] \/ m \in Path[n]]
        /\ calls' = Start(now, Left(Mark(n)))
        /\ Left(Mark(n)) \in Seq(SUBSET Call) /\ InLoops(Left(Mark(n))) \subseteq Pending
        /\ Mark(n) \in Head(calls) /\ missed' = missed \ {Mark(n)}
    BY MakesCall DEF MarkDirty, Marked, objects, Wired, Makes, Calls
  <1>2. now \in SUBSET Call
    BY CallsAreCalls, ExpressionAssumption
  <1>3. NoneAtOnce(Pending)
    <2>1. \A e \in Immediate : Mark(n) # Eval(e)
      BY DifferentCalls
    <2> QED
      BY <1>1, <2>1, NoneBesides
  <1>4. \A e \in Immediate : Eval(e) \in now => e \in Path[n] /\ now = {Eval(e)}
    <2> SUFFICES ASSUME NEW e \in Immediate, Eval(e) \in now
                 PROVE  e \in Path[n] /\ now = {Eval(e)}
      OBVIOUS
    <2>1. e \in Path[n]
      BY DifferentCalls
    <2>2. \A r \in Path[n] \cap built \cap Immediate : r = e
      BY <2>1, OneTree, ExpressionAssumption
    <2> QED
      BY <2>1, <2>2
  <1>5. \A e \in built \cap Immediate : e \in Path[n] => Eval(e) \in now
    OBVIOUS
  <1> HIDE DEF now
  <1>6. /\ InLoops(calls') = now \cup InLoops(Left(Mark(n)))
        /\ now # {} => calls' # <<>> /\ Head(calls') = now /\ Tail(calls') = Left(Mark(n))
    BY <1>1, <1>2, StartCalls
  <1>7. Pending' = InLoops(calls') /\ Gone' = Gone
    BY <1>1 DEF InLoops, Pending, Gone
  <1>8. ASSUME NEW e \in Immediate, Eval(e) \in InLoops(calls')
        PROVE  /\ calls' # <<>> /\ Head(calls') = {Eval(e)}
               /\ Eval(e) \notin InLoops(Tail(calls'))
    <2>1. Eval(e) \notin InLoops(Left(Mark(n)))
      BY <1>1, <1>3 DEF NoneAtOnce
    <2>2. Eval(e) \in now
      BY <1>6, <1>8, <2>1
    <2> QED
      BY <1>4, <1>6, <2>1, <2>2
  <1>9. AtOnce'
    <2>1. InLoops(Tail(calls))' = InLoops(Tail(calls'))
      BY DEF InLoops
    <2> QED
      BY <1>7, <1>8, <2>1 DEF AtOnce
  <1>10. ASSUME NEW o \in Object, updater[o] \in Immediate
         PROVE  \/ Eval(updater[o]) \in InLoops(calls') \cup missed'
                \/ /\ val[o] = result[updater[o]]
                   /\ dirty'[updater[o]] => updater[o] \in Gone
    <2>1. updater[o] \in Node /\ updater[o] \in built /\ Eval(updater[o]) # Mark(n)
      BY <1>10, ExpressionAssumption, DifferentCalls DEF Root, Wired, Updaters
    <2>2. CASE updater[o] \in Path[n]
      BY <1>5, <1>6, <1>10, <2>1, <2>2
    <2>3. CASE updater[o] \notin Path[n]
      BY <1>1, <1>3, <1>10, <2>1, <2>3 DEF Prompt, NoneAtOnce
    <2> QED
      BY <2>2, <2>3
  <1>11. Prompt'
    BY <1>1, <1>7, <1>10 DEF Prompt
  <1> QED
    BY <1>9, <1>11

\* Roots are in no other tree.
LEMMA RootsOnTheirOwn ==
  ASSUME NEW d \in Root
  PROVE  d \in Node /\ Path[d] = {d} /\ d \in Tree[d] /\ \A e \in Root : d \in Tree[e] => d = e
  BY ExpressionAssumption DEF Root, Tree

\* What evaluating e does to the objects that expressions set.
LEMMA EvaluateSets ==
  ASSUME Wired, NEW e \in Root, Evaluate(e), NEW o \in Object, updater[o] \in Root
  PROVE  LET d == updater[o] IN
         /\ d = e => val'[o] = result'[d] /\ (dirty'[d] => d \in Gone)
         /\ d # e => val'[o] = val[o] /\ result'[d] = result[d] /\ (dirty'[d] => dirty[d])
  <1> DEFINE d == updater[o]
  <1>1. /\ result' = [n \in Node |-> IF n \in Reached(e) THEN Fresh[n] ELSE result[n]]
        /\ dirty'  = [n \in Node |-> dirty[n] /\ n \notin Reached(e) \ Gone]
    BY DEF Evaluate, EvalNode
  <1>2. /\ Target(e) \in Object /\ updater[Target(e)] = e
        /\ val' = [val EXCEPT ![Target(e)] = Fresh[e]]
        /\ \A p \in Object : val'[p] # val[p] => p = Target(e)
    BY EvaluateIs
  <1>3. \A n \in Node : ~dirty[n] => Fresh[n] = result[n]
    BY FreshIs DEF Wired, TypeOK
  <1>4. d \in Root
    OBVIOUS
  <1> HIDE DEF d
  <1>5. d \in Node /\ Path[d] = {d} /\ d \in Tree[d] /\ (d \in Tree[e] => d = e)
    BY <1>4, RootsOnTheirOwn
  <1>6. ASSUME d = e PROVE val'[o] = result'[d] /\ (dirty'[d] => d \in Gone)
    <2>1. o = Target(e)
      <3>1. e # NoNode
        BY ExpressionAssumption DEF Root
      <3> QED
        BY <1>2, <1>6, <3>1 DEF Wired, Updaters, d
    <2>2. val'[o] = Fresh[e]
      BY <1>2, <2>1 DEF Wired, TypeOK
    <2>3. e \in Reached(e) <=> dirty[e]
      BY <1>5, <1>6 DEF Reached
    <2>4. result'[e] = Fresh[e]
      BY <1>1, <1>3, <1>5, <1>6, <2>3
    <2>5. dirty'[e] => e \in Gone
      BY <1>1, <1>5, <1>6, <2>3
    <2> QED
      BY <1>6, <2>2, <2>4, <2>5
  <1>7. ASSUME d # e
        PROVE  val'[o] = val[o] /\ result'[d] = result[d] /\ (dirty'[d] => dirty[d])
    <2>1. o # Target(e)
      BY <1>2, <1>7 DEF d
    <2>2. val'[o] = val[o]
      BY <1>2, <2>1
    <2>3. d \notin Reached(e)
      BY <1>5, <1>7 DEF Reached
    <2>4. result'[d] = result[d] /\ (dirty'[d] => dirty[d])
      BY <1>1, <1>5, <2>3
    <2> QED
      BY <2>2, <2>4
  <1> QED
    BY <1>6, <1>7 DEF d

LEMMA EvaluatePrompt ==
  ASSUME Wired, AtOnce, Prompt, NEW e \in Root, Evaluate(e)
  PROVE  AtOnce' /\ Prompt'
  <1>1. /\ UNCHANGED <<updater, points>> /\ Eval(e) \in Head(calls)
        /\ InLoops(Left(Eval(e))) \subseteq Pending /\ missed' = missed \ {Eval(e)}
    BY MakesCall DEF Evaluate, Wired, Makes, Calls
  <1>2. /\ Target(e) \in Object
        /\ InLoops(calls') \subseteq InLoops(Left(Eval(e))) \cup Due(Target(e))
    BY EvaluateIs
  <1>3. \A d \in Immediate : d # e => Eval(d) \notin Pending
    <2> SUFFICES ASSUME NEW d \in Immediate, Eval(d) \in Pending PROVE d = e
      OBVIOUS
    <2>1. Eval(e) \in {Eval(d)}
      BY <1>1 DEF AtOnce
    <2> QED
      BY <2>1, DifferentCalls
  <1>4. e \in Immediate => Eval(e) \notin InLoops(Left(Eval(e)))
    <2> SUFFICES ASSUME e \in Immediate PROVE Eval(e) \notin InLoops(Left(Eval(e)))
      OBVIOUS
    <2>1. Eval(e) \in Pending /\ calls \in Seq(SUBSET Call)
      BY MakesCall DEF Evaluate, Wired, TypeOK
    <2>2. Head(calls) = {Eval(e)} /\ Eval(e) \notin InLoops(Tail(calls))
      BY <2>1 DEF AtOnce
    <2>3. Left(Eval(e)) = Tail(calls)
      BY <2>2 DEF Left, Start
    <2> QED
      BY <2>2, <2>3
  <1>5. NoneAtOnce(InLoops(calls'))
    <2>1. \A d : Eval(d) \notin Due(Target(e))
      BY DifferentCalls DEF Due, Marks
    <2> QED
      BY <1>1, <1>2, <1>3, <1>4, <2>1 DEF NoneAtOnce
  <1>6. Gone' = Gone
    BY <1>1 DEF Gone
  <1>7. ASSUME NEW o \in Object, updater[o] \in Immediate
        PROVE  \/ Eval(updater[o]) \in missed'
               \/ /\ val'[o] = result'[updater[o]]
                  /\ dirty'[updater[o]] => updater[o] \in Gone
    <2>1. updater[o] \in Root
      BY <1>7, ExpressionAssumption
    <2>2. /\ updater[o] = e =>
               val'[o] = result'[updater[o]] /\ (dirty'[updater[o]] => updater[o] \in Gone)
          /\ updater[o] # e =>
               /\ val'[o] = val[o] /\ result'[updater[o]] = result[updater[o]]
               /\ dirty'[updater[o]] => dirty[updater[o]]
      BY <2>1, EvaluateSets
    <2>3. CASE updater[o] # e
      <3>1. Eval(updater[o]) \notin Pending
        BY <1>3, <1>7, <2>3
      <3>2. \/ Eval(updater[o]) \in missed
            \/ val[o] = result[updater[o]] /\ (dirty[updater[o]] => updater[o] \in Gone)
        BY <1>7, <3>1 DEF Prompt
      <3>3. Eval(updater[o]) # Eval(e)
        BY <2>3, DifferentCalls
      <3> QED
        BY <1>1, <2>2, <2>3, <3>2, <3>3
    <2> QED
      BY <2>2, <2>3
  <1>8. Prompt'
    BY <1>1, <1>6, <1>7 DEF Prompt
  <1> QED
    BY <1>5, <1>8, NoneAfter

-----------------------------------------------------------------------------
\* Between the calls of the user nothing is called at once.
LEMMA IdlePrompt ==
  ASSUME Idle, UNCHANGED calls, Prompt
  PROVE  /\ AtOnce'
         /\ \A o \in Object : updater[o] \in Immediate =>
              \/ Eval(updater[o]) \in missed
              \/ val[o] = result[updater[o]] /\ (dirty[updater[o]] => updater[o] \in Gone)
  <1>1. Pending = {} /\ Pending' = {}
    BY IdleIsDone
  <1> QED
    BY <1>1 DEF AtOnce, Prompt

\* The nodes of an expression that exists are not built again.
LEMMA BuildsPrompt ==
  ASSUME Inv, Wired, Prompt, NEW n, BuildLeaf(n) \/ BuildNary(n)
  PROVE  AtOnce' /\ Prompt'
  <1>1. /\ Idle /\ n \in Node \ made /\ UNCHANGED <<updater, val, calls, missed>>
    BY ExpressionAssumption DEF BuildLeaf, BuildNary, objects
  <1>2. ASSUME NEW d \in Node, d # n, d \in Root
        PROVE  result'[d] = result[d] /\ (dirty'[d] => dirty[d]) /\ (d \in Gone => d \in Gone')
    <2>1. CASE BuildLeaf(n)
      BY <1>2, <2>1 DEF BuildLeaf, Gone, Wired, TypeOK
    <2>2. CASE BuildNary(n)
      <3>1. /\ result' = [k \in Node |-> IF k \in Reached(n) THEN Fresh[k] ELSE result[k]]
            /\ dirty'  = [k \in Node |-> dirty[k] /\ k \notin Reached(n) \ Gone]
            /\ points' = points
        BY <2>2 DEF BuildNary, EvalNode
      <3>2. d \notin Reached(n)
        <4>1. n \in Node /\ n \notin Path[d]
          BY <1>1, <1>2, RootsOnTheirOwn
        <4> QED
          BY <4>1 DEF Reached, Tree
      <3> QED
        BY <3>1, <3>2 DEF Gone
    <2> QED
      BY <2>1, <2>2
  <1>3. ASSUME NEW o \in Object, updater[o] \in Immediate
        PROVE  \/ Eval(updater[o]) \in missed
               \/ val[o] = result'[updater[o]] /\ (dirty'[updater[o]] => updater[o] \in Gone')
    <2>1. updater[o] \in Root /\ updater[o] \in Node /\ updater[o] \in built
      BY <1>3, ExpressionAssumption DEF Wired, Updaters, Root
    <2>2. updater[o] # n
      BY <1>1, <2>1 DEF Inv, Grown
    <2> QED
      BY <1>1, <1>2, <1>3, <2>1, <2>2, IdlePrompt
  <1> QED
    BY <1>1, <1>3, IdlePrompt DEF Prompt

\* A value that is observed holds the result of its tree, or the tree has changed.
LEMMA ObservePrompt ==
  ASSUME Wired, Prompt, NEW e \in Root, NEW o \in Object, Observe(e, o)
  PROVE  AtOnce' /\ Prompt'
  <1>1. /\ Idle /\ UNCHANGED <<points, dirty, result, calls>>
        /\ updater' = [updater EXCEPT ![o] = e] /\ val' = [val EXCEPT ![o] = result[e]]
        /\ missed' = IF dirty[e] /\ e \in Immediate THEN missed \cup {Eval(e)} ELSE missed
    BY DEF Observe, nodes
  <1>2. /\ val'[o] = result[e] /\ updater'[o] = e /\ Gone' = Gone
        /\ \A p \in Object : p # o => val'[p] = val[p] /\ updater'[p] = updater[p]
    BY <1>1 DEF Wired, TypeOK, Gone
  <1>3. \A p \in Object : updater[p] \in Immediate =>
          \/ Eval(updater[p]) \in missed
          \/ val[p] = result[updater[p]] /\ (dirty[updater[p]] => updater[p] \in Gone)
    BY <1>1, IdlePrompt
  <1>4. AtOnce'
    BY <1>1, IdlePrompt
  <1> QED
    BY <1>1, <1>2, <1>3, <1>4 DEF Prompt

\* What another expression leaves when it is dropped.
LEMMA DropPrompt ==
  ASSUME Prompt, Idle, UNCHANGED calls, NEW e, Drop(e), Gone \subseteq Gone',
         NEW o \in Object, updater[o] \in Immediate, updater[o] # e
  PROVE  \/ Eval(updater[o]) \in missed
         \/ val[o] = result'[updater[o]] /\ (dirty'[updater[o]] => updater[o] \in Gone')
  <1> DEFINE d == updater[o]
  <1>1. d \in Node /\ Path[d] = {d} /\ e # d
    BY RootsOnTheirOwn, ExpressionAssumption
  <1>2. Eval(d) \in missed \/ (val[o] = result[d] /\ (dirty[d] => d \in Gone))
    BY IdlePrompt
  <1> HIDE DEF d
  <1>3. result'[d] = result[d] /\ dirty'[d] = (dirty[d] \/ FALSE)
    BY <1>1 DEF Drop
  <1> QED
    BY <1>2, <1>3 DEF d

LEMMA DiscardPrompt ==
  ASSUME Wired, Prompt, NEW e, Discard(e)
  PROVE  AtOnce' /\ Prompt'
  <1>1. /\ Idle /\ e \notin built /\ Drop(e) /\ UNCHANGED <<updater, val, calls>>
        /\ points' = [k \in Leaf |-> IF k \in Nodes(e) THEN NoObject ELSE points[k]]
        /\ missed' = missed \ MarksOf(e)
    BY DEF Discard
  <1>2. Gone \subseteq Gone' /\ \A d : Eval(d) \notin MarksOf(e)
    BY <1>1, DifferentCalls DEF Gone, MarksOf
  <1>3. \A o \in Object : updater[o] \in Immediate => updater[o] # e
    <2>1. NoNode \notin Immediate
      BY ExpressionAssumption DEF Root
    <2> QED
      BY <1>1, <2>1 DEF Wired, Updaters
  <1>4. \A o \in Object : updater[o] \in Immediate =>
          \/ Eval(updater[o]) \in missed
          \/ val[o] = result'[updater[o]] /\ (dirty'[updater[o]] => updater[o] \in Gone')
    BY <1>1, <1>2, <1>3, DropPrompt
  <1> QED
    BY <1>1, <1>2, <1>4, IdlePrompt DEF Prompt

LEMMA DestroyPrompt ==
  ASSUME Wired, Prompt, NEW o \in Object, Destroy(o)
  PROVE  AtOnce' /\ Prompt'
  <1> DEFINE e == updater[o]
  <1>1. /\ Idle /\ UNCHANGED calls /\ Drop(e)
        /\ points' = [n \in Leaf |-> IF Mark(n) \in subs[o] \/ n \in Nodes(e) THEN NoObject ELSE points[n]]
        /\ updater' = [updater EXCEPT ![o] = NoNode]
        /\ \E x \in Garbage(o, e) : val' = [val EXCEPT ![o] = x]
        /\ missed' = missed \ ({Eval(e)} \cup subs[o] \cup MarksOf(e))
    BY DEF Destroy
  <1>2. /\ updater'[o] = NoNode
        /\ \A p \in Object : p # o => val'[p] = val[p] /\ updater'[p] = updater[p]
    BY <1>1 DEF Wired, TypeOK
  <1>3. Gone \subseteq Gone'
    BY <1>1 DEF Gone
  <1>4. NoNode \notin Immediate
    BY ExpressionAssumption DEF Root
  <1>5. \A d : Eval(d) \notin MarksOf(e) /\ Eval(d) \notin subs[o]
    <2>1. subs[o] \subseteq Marks \cup Tells
      BY DEF Wired, TypeOK
    <2> QED
      BY <2>1, DifferentCalls DEF MarksOf, Marks, Tells
  <1>6. ASSUME NEW p \in Object, updater'[p] \in Immediate
        PROVE  \/ Eval(updater'[p]) \in missed'
               \/ /\ val'[p] = result'[updater'[p]]
                  /\ dirty'[updater'[p]] => updater'[p] \in Gone'
    <2>1. p # o
      BY <1>2, <1>4, <1>6
    <2>2. updater[p] # updater[o]
      BY <1>2, <1>4, <1>6, <2>1 DEF Wired, Updaters
    <2>3. Eval(updater[p]) \in missed => Eval(updater[p]) \in missed'
      BY <1>1, <1>5, <2>2, DifferentCalls
    <2> QED
      BY <1>1, <1>2, <1>3, <1>6, <2>1, <2>2, <2>3, DropPrompt
  <1> QED
    BY <1>1, <1>6, IdlePrompt DEF Prompt

LEMMA MovePrompt ==
  ASSUME Inv, Wired, Prompt, Idle, NEW o \in Object, NEW p \in Object, o # p, MoveInto(o, p)
  PROVE  AtOnce' /\ Prompt'
  <1> DEFINE e == updater[o]
  <1>1. /\ UNCHANGED calls /\ Drop(e)
        /\ points' = [n \in Leaf |-> IF n \in Nodes(e) THEN NoObject ELSE Redirected(o, p)[n]]
        /\ updater' = [updater EXCEPT ![o] = updater[p], ![p] = NoNode]
        /\ \E x \in Garbage(p, e) : val' = [val EXCEPT ![o] = val[p], ![p] = x]
        /\ missed' = missed \ ({Eval(e)} \cup subs[o] \cup MarksOf(e))
    BY DEF MoveInto
  <1>2. /\ updater'[p] = NoNode /\ updater'[o] = updater[p] /\ val'[o] = val[p]
        /\ \A q \in Object \ {o, p} : val'[q] = val[q] /\ updater'[q] = updater[q]
    BY <1>1 DEF Wired, TypeOK
  <1>3. Gone \subseteq Gone'
    <2> SUFFICES ASSUME NEW n \in Gone PROVE n \in Gone'
      OBVIOUS
    <2>1. n \in Leaf /\ points[n] = NoObject
      BY DEF Gone
    <2>2. Mark(n) \notin subs[p]
      BY <2>1, ExpressionAssumption DEF Inv, NodeFollowsValue
    <2>3. points'[n] = NoObject
      BY <1>1, <2>1, <2>2 DEF Redirected
    <2> QED
      BY <2>1, <2>3 DEF Gone
  <1>4. NoNode \notin Immediate
    BY ExpressionAssumption DEF Root
  <1>5. \A d : Eval(d) \notin MarksOf(e) /\ Eval(d) \notin subs[o]
    <2>1. subs[o] \subseteq Marks \cup Tells
      BY DEF Wired, TypeOK
    <2> QED
      BY <2>1, DifferentCalls DEF MarksOf, Marks, Tells
  <1> DEFINE from(q) == IF q = o THEN p ELSE q
  <1>6. ASSUME NEW q \in Object, updater'[q] \in Immediate
        PROVE  \/ Eval(updater'[q]) \in missed'
               \/ /\ val'[q] = result'[updater'[q]]
                  /\ dirty'[updater'[q]] => updater'[q] \in Gone'
    <2>1. q # p
      BY <1>2, <1>4, <1>6
    <2>2. from(q) \in Object /\ from(q) # o /\ val'[q] = val[from(q)] /\ updater'[q] = updater[from(q)]
      BY <1>2, <2>1
    <2> HIDE DEF from
    <2>3. updater[from(q)] # updater[o]
      BY <1>4, <1>6, <2>2 DEF Wired, Updaters
    <2>4. Eval(updater[from(q)]) \in missed => Eval(updater[from(q)]) \in missed'
      BY <1>1, <1>5, <2>3, DifferentCalls
    <2> QED
      BY <1>1, <1>3, <1>6, <2>2, <2>3, <2>4, DropPrompt
  <1> QED
    BY <1>1, <1>6, IdlePrompt DEF Prompt

LEMMA PromptStep ==
  ASSUME Inv, Wired, AtOnce, Prompt, [Next]_vars
  PROVE  AtOnce' /\ Prompt'
  <1>1. CASE Step
    BY <1>1, ReleasePrompt, NotifyValuesPrompt, MarkDirtyPrompt, EvaluatePrompt,
       TellWatcherPrompt, SubscribePrompt DEF Step
  <1>2. CASE UNCHANGED vars
    BY <1>2 DEF vars, objects, nodes, AtOnce, Prompt, Pending, Gone, InLoops
  <1>3. ASSUME NEW o \in Object, NEW p \in Object, MoveConstruct(o, p) \/ MoveAssign(o, p)
        PROVE  AtOnce' /\ Prompt'
    <2>1. Idle /\ o # p /\ MoveInto(o, p)
      BY <1>3 DEF MoveConstruct, MoveAssign, Live
    <2> QED
      BY <2>1, MovePrompt
  <1> QED
    BY <1>1, <1>2, <1>3, UserPrompt, ThrowPrompt, BuildsPrompt, DiscardPrompt, ObservePrompt,
       DestroyPrompt DEF Next

-----------------------------------------------------------------------------
\* What the value nodes read, or have read last.
Now == [n \in Leaf |-> IF n \in Gone THEN result[n] ELSE val[points[n]]]

\* If a tree is clean at its root, has not lost track of an operand, and no node of
\* it is to be told or has been passed over, its result is that of the whole tree.
LEMMA TreeIsCurrent ==
  ASSUME Clean, NEW e \in Root, dirty[e] => e \in Gone, Tracks(e),
         MarksOf(e) \cap (Pending \cup missed) = {}
  PROVE  result[e] = Computed(Now)[e]
  <1> DEFINE T == Tree[e]
             S == {n \in T : dirty[n] /\ n \notin Gone}
  <1>1. /\ val \in [Object -> Datum] /\ result \in [Node -> Datum]
        /\ points \in [Leaf -> Object \cup {NoObject}]
    BY DEF Clean, Wired, TypeOK
  <1>2. /\ Leaf \subseteq Node /\ NoObject \notin Object
        /\ \A n \in Node : Kids[n] = {} <=> n \in Leaf
    BY ExpressionAssumption
  <1>3. \A n \in Leaf : Subscribed(n) =>
          \E o \in Object : Mark(n) \in subs[o] /\ points[n] = o
    BY DEF Clean, Inv, NodeFollowsValue, Subscribed
  <1>4. Now \in [Leaf -> Datum] /\ \A n \in Leaf :
          Now[n] = IF n \in Gone THEN result[n] ELSE val[points[n]]
    BY <1>1, <1>2 DEF Now, Gone
  <1>5. /\ \A n \in Leaf : Computed(Now)[n] = Now[n]
        /\ \A n \in Node \ Leaf :
             Computed(Now)[n] = Op(n, [k \in Kids[n] |-> Computed(Now)[k]])
    BY <1>4, ComputedIs
  <1>6. T \subseteq Node /\ e \in T /\ \A n \in T : Kids[n] \subseteq T
    <2>1. T \subseteq Node /\ e \in T
      BY RootsOnTheirOwn DEF Tree
    <2>2. ASSUME NEW n \in T, NEW k \in Kids[n] PROVE k \in T
      <3>1. e \in Node /\ n \in Node /\ e \in Path[n]
        BY <2>1 DEF Tree
      <3>2. k \in Node /\ e \in Path[k]
        BY <3>1, KidsOf, KidsShareTree
      <3> QED
        BY <3>1, <3>2 DEF Tree
    <2> QED
      BY <2>1, <2>2
  <1>7. S = {}
    <2> SUFFICES ASSUME S # {} PROVE FALSE
      OBVIOUS
    <2>1. PICK n \in S : n \in Root \/ \E m \in Node \ S : n \in Kids[m]
      <3>1. S \in SUBSET Node
        BY <1>6
      <3> HIDE DEF S
      <3> QED
        BY <3>1, Highest
    <2>2. n \notin Root
      <3>1. n # e
        OBVIOUS
      <3> QED
        BY <3>1, RootsOnTheirOwn
    <2>3. PICK m \in Node \ S : n \in Kids[m]
      BY <2>1, <2>2
    <2>4. m \in T
      <3>1. e \in Node /\ e \in Path[n]
        BY <1>6 DEF Tree
      <3>2. e \in Path[m]
        BY <2>3, <3>1, KidsShareTree
      <3> QED
        BY <2>3, <3>1, <3>2 DEF Tree
    <2>5. m \notin Leaf
      BY <1>2, <2>3
    <2>6. ~dirty[m]
      BY <2>3, <2>4, <2>5 DEF Gone
    <2> QED
      BY <2>3, <2>5, <2>6 DEF Clean, AllClean, CleanTrees
  <1>8. ASSUME NEW n \in T \cap Leaf PROVE result[n] = Now[n]
    <2>1. n \in Nodes(e)
      BY DEF Nodes, Root
    <2>2. CASE n \in Gone
      BY <1>4, <2>2
    <2>3. CASE n \notin Gone
      <3>1. PICK o \in Object : Mark(n) \in subs[o] /\ points[n] = o
        BY <1>3, <2>3 DEF Tracks
      <3>2. ~dirty[n]
        BY <1>7, <2>3
      <3>3. Mark(n) \notin Pending \cup missed
        BY <2>1 DEF MarksOf
      <3> QED
        BY <1>4, <2>3, <3>1, <3>2, <3>3 DEF Clean, AllClean, CleanLeaves
    <2> QED
      BY <2>2, <2>3
  <1>9. ASSUME NEW n \in T, n \notin Leaf PROVE result[n] = Op(n, [k \in Kids[n] |-> result[k]])
    <2>1. n \in Node \ Leaf /\ ~dirty[n]
      BY <1>6, <1>7, <1>9 DEF Gone
    <2> QED
      BY <2>1 DEF Clean, AllClean, CleanTrees
  <1> DEFINE all == Computed(Now)
             B == {n \in T : result[n] # all[n]}
  <1>10. B = {}
    <2> SUFFICES ASSUME B # {} PROVE FALSE
      OBVIOUS
    <2>1. PICK n \in B : \A k \in Kids[n] : k \notin B
      <3>1. B \in SUBSET Node
        BY <1>6
      <3> HIDE DEF B
      <3> QED
        BY <3>1, Lowest
    <2>2. n \in T /\ n \in Node /\ n \notin Leaf
      BY <1>5, <1>6, <1>8
    <2>3. \A k \in Kids[n] : result[k] = all[k]
      BY <1>6, <2>1, <2>2
    <2>4. [k \in Kids[n] |-> result[k]] = [k \in Kids[n] |-> all[k]]
      <3> HIDE DEF all
      <3> QED
        BY <2>3
    <2> QED
      BY <1>5, <1>9, <2>1, <2>2, <2>4
  <1> QED
    BY <1>6, <1>10

\* observe() "with automatic synchronization": for any trees and operations,
\* when the outermost call of the user is over every immediate value is the
\* function of its operands, if its tree has not lost track of one, no mark was
\* lost to a throw, and it has not changed between its construction and observe().
THEOREM ImmediateIsUpToDateHolds == Spec => []ImmediateIsUpToDate
  <1>1. Init => AtOnce /\ Prompt
    BY ExpressionAssumption DEF Init, AtOnce, Prompt, Pending, Root
  <1>2. Inv /\ Wired /\ AtOnce /\ Prompt /\ [Next]_vars => AtOnce' /\ Prompt'
    BY PromptStep
  <1>3. Clean /\ Prompt => ImmediateIsUpToDate
    <2> SUFFICES ASSUME Clean, Prompt, Idle,
                        NEW e \in built \cap Immediate, Tracks(e), Informed(e)
                 PROVE  UpToDate(e)
      BY DEF ImmediateIsUpToDate
    <2>1. Target(e) \in Object /\ updater[Target(e)] = e
      BY DEF Clean, Wired, Updaters, Target
    <2>2. Pending = {}
      BY DEF Idle, Pending
    <2>3. val[Target(e)] = result[e] /\ (dirty[e] => e \in Gone)
      BY <2>1, <2>2 DEF Prompt, Informed
    <2>4. result[e] = Computed(Now)[e]
      BY <2>2, <2>3, TreeIsCurrent, ExpressionAssumption DEF Informed
    <2> QED
      BY <2>3, <2>4 DEF UpToDate, Now
  <1> QED
    BY <1>1, <1>2, <1>3, InvHolds, WiringHolds, CleanHolds, PTL DEF Spec

-----------------------------------------------------------------------------
\* The order in which the expressions that exist were built, as a rank: an
\* object is set by an expression of lower rank than those built on it, and
\* the updater has its expressions in this order, all of them.
Ordered(rank) ==
  /\ \A o \in Object, e \in Root, n \in Leaf :
       Mark(n) \in subs[o] /\ n \in Nodes(e) /\ updater[o] # NoNode => rank[updater[o]] < rank[e]
  /\ \A i, j \in 1..Len(funs) : i < j => rank[funs[i]] < rank[funs[j]]

AllRegistered == \A e \in built \ Immediate : \E i \in 1..Len(funs) : funs[i] = e

\* Call c concerns no expression of rank b or lower.
After(c, rank, b) ==
  c # Unlock /\ \A e \in Root : c = Eval(e) \/ c \in MarksOf(e) => b < rank[e]

\* update_all() has k expressions left to evaluate; what the last one that
\* it has evaluated set off comes first, and concerns later expressions only.
InTurn(loops, rank, k) ==
  /\ k \in 0..Len(funs) /\ k < Len(loops)
  /\ loops[Len(loops)] = {Unlock}
  /\ \A i \in 1..k : loops[Len(loops) - i] = {Eval(funs[Len(funs) + 1 - i])}
  /\ \A j \in 1..Len(loops) - 1 - k :
       k < Len(funs) /\ \A c \in loops[j] : After(c, rank, rank[funs[Len(funs) - k]])

\* The others are clean, and their objects hold their results.
Done(k) ==
  \A i \in 1..Len(funs) - k, o \in Object : updater[o] = funs[i] =>
    val[o] = result[funs[i]] /\ (dirty[funs[i]] => funs[i] \in Gone)

\* The outermost loop in progress is an update_all().
Unlocks(loops) == loops # <<>> /\ Unlock \in loops[Len(loops)]

Sweeping(rank) ==
  calm /\ Unlocks(calls) => \E k \in Nat : InTurn(calls, rank, k) /\ Done(k)

Settling ==
  /\ AllRegistered
  /\ \E rank \in [Root -> Nat], m \in Nat :
       (\A e \in Root : rank[e] < m) /\ Ordered(rank) /\ Sweeping(rank)

-----------------------------------------------------------------------------
\* The loops, by position.
LEMMA TailAt ==
  ASSUME NEW S, NEW s \in Seq(S), s # <<>>
  PROVE  /\ Tail(s) \in Seq(S) /\ Len(Tail(s)) = Len(s) - 1 /\ Len(s) \in Nat \ {0}
         /\ Head(s) = s[1]
         /\ \A j \in 1..Len(s) - 1 : Tail(s)[j] = s[j + 1]
  OBVIOUS

LEMMA StartAt ==
  ASSUME NEW loop \in SUBSET Call, loop # {}, NEW rest \in Seq(SUBSET Call)
  PROVE  /\ Start(loop, rest) \in Seq(SUBSET Call)
         /\ Len(Start(loop, rest)) = Len(rest) + 1 /\ Start(loop, rest)[1] = loop
         /\ \A j \in 1..Len(rest) : Start(loop, rest)[j + 1] = rest[j]
  <1>1. Start(loop, rest) = <<loop>> \o rest
    BY DEF Start
  <1> QED
    BY <1>1

\* What is set off by an expression whose turn has come concerns later ones.
LEMMA StartInTurn ==
  ASSUME TypeOK, NEW rank \in [Root -> Nat], NEW k \in Nat, k < Len(funs),
         NEW loop \in SUBSET Call, NEW rest \in Seq(SUBSET Call), InTurn(rest, rank, k),
         \A c \in loop : After(c, rank, rank[funs[Len(funs) - k]])
  PROVE  InTurn(Start(loop, rest), rank, k)
  <1>1. CASE loop = {}
    BY <1>1 DEF Start
  <1>2. CASE loop # {}
    <2> DEFINE s == Start(loop, rest)
    <2>0. funs \in Seq(Root \ Immediate)
      BY DEF TypeOK
    <2>1. /\ Len(s) = Len(rest) + 1 /\ s[1] = loop /\ Len(rest) \in Nat /\ Len(funs) \in Nat
          /\ \A j \in 1..Len(rest) : s[j + 1] = rest[j]
      <3>1. Len(rest) \in Nat /\ Len(funs) \in Nat
        BY ONLY <2>0, rest \in Seq(SUBSET Call)
      <3> QED
        BY <1>2, <3>1, StartAt
    <2>2. /\ k \in 0..Len(funs) /\ k < Len(rest)
          /\ rest[Len(rest)] = {Unlock}
          /\ \A i \in 1..k : rest[Len(rest) - i] = {Eval(funs[Len(funs) + 1 - i])}
          /\ \A j \in 1..Len(rest) - 1 - k :
               \A c \in rest[j] : After(c, rank, rank[funs[Len(funs) - k]])
      BY DEF InTurn
    <2> HIDE DEF s
    <2>3. k < Len(s) /\ s[Len(s)] = {Unlock}
      BY <2>1, <2>2
    <2>4. ASSUME NEW i \in 1..k PROVE s[Len(s) - i] = {Eval(funs[Len(funs) + 1 - i])}
      <3>1. Len(rest) - i \in 1..Len(rest) /\ Len(s) - i = (Len(rest) - i) + 1
        BY <2>1, <2>2
      <3> QED
        BY <2>1, <2>2, <3>1
    <2>5. ASSUME NEW j \in 1..Len(s) - 1 - k, NEW c \in s[j]
          PROVE  After(c, rank, rank[funs[Len(funs) - k]])
      <3>1. CASE j = 1
        BY <2>1, <2>5, <3>1
      <3>2. CASE j # 1
        <4>1. j - 1 \in 1..Len(rest) - 1 - k /\ j - 1 \in 1..Len(rest) /\ j = (j - 1) + 1
          BY <2>1, <2>2, <3>2
        <4>2. s[j] = rest[j - 1]
          BY <2>1, <4>1
        <4> QED
          BY <2>2, <2>5, <4>1, <4>2
      <3> QED
        BY <3>1, <3>2
    <2>6. InTurn(s, rank, k)
      BY <2>2, <2>3, <2>4, <2>5 DEF InTurn
    <2> QED
      BY <2>6 DEF s
  <1> QED
    BY <1>1, <1>2

\* The loops after the first, if what is set off is not over.
LEMMA TailInTurn ==
  ASSUME TypeOK, NEW rank \in [Root -> Nat], NEW k \in Nat,
         InTurn(calls, rank, k), k < Len(calls) - 1
  PROVE  /\ InTurn(Tail(calls), rank, k) /\ k < Len(funs)
         /\ \A c \in Head(calls) : After(c, rank, rank[funs[Len(funs) - k]])
  <1> DEFINE s == Tail(calls)
  <1>1. /\ calls \in Seq(SUBSET Call) /\ calls # <<>> /\ Len(calls) \in Nat /\ Len(funs) \in Nat
    <2>1. calls \in Seq(SUBSET Call) /\ funs \in Seq(Root \ Immediate)
      BY DEF TypeOK
    <2> QED
      BY <2>1
  <1>2. /\ Len(s) = Len(calls) - 1 /\ Head(calls) = calls[1]
        /\ \A j \in 1..Len(calls) - 1 : s[j] = calls[j + 1]
    BY <1>1, TailAt
  <1>3. /\ k \in 0..Len(funs) /\ calls[Len(calls)] = {Unlock}
        /\ \A i \in 1..k : calls[Len(calls) - i] = {Eval(funs[Len(funs) + 1 - i])}
        /\ \A j \in 1..Len(calls) - 1 - k :
             k < Len(funs) /\ \A c \in calls[j] : After(c, rank, rank[funs[Len(funs) - k]])
    BY DEF InTurn
  <1> HIDE DEF s
  <1>4. k < Len(funs) /\ \A c \in Head(calls) : After(c, rank, rank[funs[Len(funs) - k]])
    <2>1. 1 \in 1..Len(calls) - 1 - k
      BY <1>1
    <2> QED
      BY <1>2, <1>3, <2>1
  <1>5. s[Len(s)] = {Unlock}
    <2>1. Len(s) \in 1..Len(calls) - 1 /\ Len(s) + 1 = Len(calls)
      BY <1>1, <1>2
    <2> QED
      BY <1>2, <1>3, <2>1
  <1>6. ASSUME NEW i \in 1..k PROVE s[Len(s) - i] = {Eval(funs[Len(funs) + 1 - i])}
    <2>1. Len(s) - i \in 1..Len(calls) - 1 /\ (Len(s) - i) + 1 = Len(calls) - i
      BY <1>1, <1>2
    <2> QED
      BY <1>2, <1>3, <2>1
  <1>7. ASSUME NEW j \in 1..Len(s) - 1 - k, NEW c \in s[j]
        PROVE  After(c, rank, rank[funs[Len(funs) - k]])
    <2>1. j \in 1..Len(calls) - 1 /\ j + 1 \in 1..Len(calls) - 1 - k
      BY <1>1, <1>2
    <2>2. s[j] = calls[j + 1]
      BY <1>2, <2>1
    <2> QED
      BY <1>3, <1>7, <2>1, <2>2
  <1>8. k < Len(s)
    BY <1>1, <1>2
  <1>9. InTurn(s, rank, k)
    BY <1>3, <1>4, <1>5, <1>6, <1>7, <1>8 DEF InTurn
  <1> QED
    BY <1>4, <1>9 DEF s

\* The call of a loop that an evaluation has set off.
LEMMA LeftInTurn ==
  ASSUME TypeOK, NEW rank \in [Root -> Nat], NEW k \in Nat,
         InTurn(calls, rank, k), k < Len(calls) - 1, NEW c, Calls(c)
  PROVE  /\ InTurn(Left(c), rank, k) /\ k < Len(funs)
         /\ After(c, rank, rank[funs[Len(funs) - k]])
  <1>1. /\ InTurn(Tail(calls), rank, k) /\ k < Len(funs)
        /\ \A d \in Head(calls) : After(d, rank, rank[funs[Len(funs) - k]])
    BY TailInTurn
  <1>2. /\ Head(calls) \in SUBSET Call /\ Tail(calls) \in Seq(SUBSET Call) /\ c \in Head(calls)
    BY FirstLoop DEF TypeOK, Calls
  <1>3. InTurn(Start(Head(calls) \ {c}, Tail(calls)), rank, k)
    BY <1>1, <1>2, StartInTurn
  <1> QED
    BY <1>1, <1>2, <1>3 DEF Left

\* The turn of the next expression comes when what is set off is over.
LEMMA NextInTurn ==
  ASSUME TypeOK, NEW rank \in [Root -> Nat], NEW k \in Nat,
         InTurn(calls, rank, k), k = Len(calls) - 1, NEW e, Calls(Eval(e))
  PROVE  /\ k # 0 /\ k - 1 < Len(funs) /\ e = funs[Len(funs) - (k - 1)]
         /\ InTurn(Left(Eval(e)), rank, k - 1)
  <1> DEFINE s == Tail(calls)
             h == k - 1
  <1>1. /\ calls \in Seq(SUBSET Call) /\ calls # <<>> /\ Len(calls) \in Nat /\ Len(funs) \in Nat
    <2>1. calls \in Seq(SUBSET Call) /\ funs \in Seq(Root \ Immediate)
      BY DEF TypeOK
    <2> QED
      BY <2>1 DEF Calls
  <1>2. /\ Len(s) = Len(calls) - 1 /\ Head(calls) = calls[1]
        /\ \A j \in 1..Len(calls) - 1 : s[j] = calls[j + 1]
    BY <1>1, TailAt
  <1>3. /\ k \in 0..Len(funs) /\ calls[Len(calls)] = {Unlock}
        /\ \A i \in 1..k : calls[Len(calls) - i] = {Eval(funs[Len(funs) + 1 - i])}
    BY DEF InTurn
  <1>4. Eval(e) \in calls[1]
    BY <1>2 DEF Calls
  <1>5. k # 0
    <2> SUFFICES ASSUME k = 0 PROVE FALSE
      OBVIOUS
    <2>1. Len(calls) = 1
      BY <1>1
    <2>2. Eval(e) = Unlock
      BY <1>3, <1>4, <2>1
    <2> QED
      BY <2>2, DifferentCalls
  <1>6. calls[1] = {Eval(funs[Len(funs) + 1 - k])}
    <2>1. k \in 1..k /\ Len(calls) - k = 1
      BY <1>1, <1>5
    <2> QED
      BY <1>3, <2>1
  <1>7. e = funs[Len(funs) + 1 - k] /\ Head(calls) \ {Eval(e)} = {}
    BY <1>2, <1>4, <1>6, DifferentCalls
  <1>8. Left(Eval(e)) = s
    BY <1>7 DEF Left, Start
  <1> HIDE DEF s
  <1>9. h \in 0..Len(funs) /\ h < Len(s) /\ h < Len(funs) /\ Len(funs) - h = Len(funs) + 1 - k
    BY <1>1, <1>2, <1>3, <1>5
  <1>10. s[Len(s)] = {Unlock}
    <2>1. Len(s) \in 1..Len(calls) - 1 /\ Len(s) + 1 = Len(calls)
      BY <1>1, <1>2, <1>3, <1>5
    <2> QED
      BY <1>2, <1>3, <2>1
  <1>11. ASSUME NEW i \in 1..h PROVE s[Len(s) - i] = {Eval(funs[Len(funs) + 1 - i])}
    <2>1. Len(s) - i \in 1..Len(calls) - 1 /\ (Len(s) - i) + 1 = Len(calls) - i /\ i \in 1..k
      BY <1>1, <1>2
    <2> QED
      BY <1>2, <1>3, <2>1
  <1>12. 1..Len(s) - 1 - h = {}
    BY <1>1, <1>2
  <1>13. InTurn(s, rank, h)
    <2> HIDE DEF h
    <2> QED
      BY <1>9, <1>10, <1>11, <1>12 DEF InTurn
  <1> QED
    BY <1>5, <1>7, <1>8, <1>9, <1>13

-----------------------------------------------------------------------------
\* The outermost loop is what it was.
LEMMA UnlocksAfter ==
  ASSUME NEW loop \in SUBSET Call, NEW rest \in Seq(SUBSET Call), Unlock \notin loop,
         Unlocks(Start(loop, rest))
  PROVE  Unlocks(rest)
  <1>1. CASE loop = {}
    BY <1>1 DEF Start
  <1>2. CASE loop # {}
    <2> DEFINE s == Start(loop, rest)
    <2>0. Len(rest) \in Nat
      OBVIOUS
    <2>1. /\ Len(s) = Len(rest) + 1 /\ s[1] = loop /\ Len(rest) \in Nat
          /\ \A j \in 1..Len(rest) : s[j + 1] = rest[j]
      BY ONLY <1>2, <2>0, StartAt, loop \in SUBSET Call, rest \in Seq(SUBSET Call)
    <2>2. Unlock \in s[Len(s)]
      BY DEF Unlocks
    <2> HIDE DEF s
    <2>3. Len(rest) # 0
      BY <2>1, <2>2
    <2>4. Len(rest) \in 1..Len(rest)
      BY <2>1, <2>3
    <2>5. Unlock \in rest[Len(rest)]
      BY <2>1, <2>2, <2>4
    <2>6. rest # <<>>
      BY <2>3
    <2> QED
      BY <2>5, <2>6 DEF Unlocks
  <1> QED
    BY <1>1, <1>2

LEMMA UnlocksBefore ==
  ASSUME TypeOK, NEW c, Calls(c), Unlocks(Left(c))
  PROVE  Unlocks(calls)
  <1> DEFINE H == Head(calls) \ {c}
             t == Tail(calls)
  <1>1. /\ calls \in Seq(SUBSET Call) /\ calls # <<>> /\ Len(calls) \in Nat
    <2>1. calls \in Seq(SUBSET Call)
      BY DEF TypeOK
    <2> QED
      BY <2>1 DEF Calls
  <1>2. /\ t \in Seq(SUBSET Call) /\ Len(t) = Len(calls) - 1 /\ Head(calls) = calls[1]
        /\ \A j \in 1..Len(calls) - 1 : t[j] = calls[j + 1]
    BY <1>1, TailAt
  <1>3. H \in SUBSET Call /\ H \subseteq Head(calls)
    BY <1>1
  <1>4. Left(c) = Start(H, t)
    BY DEF Left
  <1>5. Unlocks(Start(H, t))
    BY <1>4
  <1> HIDE DEF H, t
  <1>6. CASE Unlocks(t)
    <2>1. t # <<>> /\ Unlock \in t[Len(t)]
      BY <1>6 DEF Unlocks
    <2>2. Len(t) # 0
      BY <1>2, <2>1
    <2>3. Len(t) \in 1..Len(calls) - 1 /\ Len(t) + 1 = Len(calls)
      BY <1>1, <1>2, <2>2
    <2>4. Unlock \in calls[Len(calls)]
      BY <1>2, <2>1, <2>3
    <2> QED
      BY <1>1, <2>4 DEF Unlocks
  <1>7. CASE ~Unlocks(t)
    <2>1. Unlock \in H
      BY <1>2, <1>3, <1>5, <1>7, UnlocksAfter
    <2>2. H # {}
      BY <2>1
    <2> DEFINE s == Start(H, t)
    <2>3. /\ Len(s) = Len(t) + 1 /\ s[1] = H
          /\ \A j \in 1..Len(t) : s[j + 1] = t[j]
      BY <1>2, <1>3, <2>2, StartAt
    <2>4. Unlock \in s[Len(s)]
      BY <1>5 DEF Unlocks
    <2> HIDE DEF s
    <2>5. Len(t) = 0
      <3> SUFFICES ASSUME Len(t) # 0 PROVE FALSE
        OBVIOUS
      <3>1. Len(t) \in 1..Len(t) /\ t # <<>>
        BY <1>1, <1>2
      <3>2. Unlock \in t[Len(t)]
        BY <2>3, <2>4, <3>1
      <3> QED
        BY <1>7, <3>1, <3>2 DEF Unlocks
    <2>6. Len(calls) = 1
      BY <1>1, <1>2, <2>5
    <2> QED
      BY <1>1, <1>2, <1>3, <2>1, <2>6 DEF Unlocks
  <1> QED
    BY <1>6, <1>7

\* A mark or an observer is called on account of an evaluation.
LEMMA NotInTurn ==
  ASSUME TypeOK, NEW rank \in [Root -> Nat], NEW k \in Nat, InTurn(calls, rank, k),
         NEW c, Calls(c), c # Unlock, \A e : c # Eval(e)
  PROVE  k < Len(calls) - 1
  <1>1. /\ calls \in Seq(SUBSET Call) /\ calls # <<>> /\ Len(calls) \in Nat
        /\ Head(calls) = calls[1] /\ c \in Head(calls)
    <2>1. calls \in Seq(SUBSET Call)
      BY DEF TypeOK
    <2> QED
      BY <2>1 DEF Calls
  <1>2. /\ k < Len(calls) /\ calls[Len(calls)] = {Unlock}
        /\ \A i \in 1..k : calls[Len(calls) - i] = {Eval(funs[Len(funs) + 1 - i])}
    BY DEF InTurn
  <1> SUFFICES ASSUME k = Len(calls) - 1 PROVE FALSE
    BY <1>1, <1>2
  <1>3. CASE k = 0
    <2>1. Len(calls) = 1
      BY <1>1, <1>3
    <2> QED
      BY <1>1, <1>2, <2>1
  <1>4. CASE k # 0
    <2>1. k \in 1..k /\ Len(calls) - k = 1
      BY <1>1, <1>4
    <2>2. calls[1] = {Eval(funs[Len(funs) + 1 - k])}
      BY <1>2, <2>1
    <2>3. c = Eval(funs[Len(funs) + 1 - k])
      BY <1>1, <2>2
    <2> QED
      BY <2>3
  <1> QED
    BY <1>3, <1>4

\* Those that an object notifies were built later than what sets it.
LEMMA SubscribedAfter ==
  ASSUME Wired, NEW rank \in [Root -> Nat], Ordered(rank), NEW o \in Object,
         updater[o] \in Root, NEW b \in Nat, b <= rank[updater[o]], NEW c \in subs[o]
  PROVE  After(c, rank, b)
  <1>1. c \in Marks \cup Tells /\ updater[o] # NoNode
    BY ExpressionAssumption DEF Wired, TypeOK, Root
  <1>2. c # Unlock /\ \A e : c # Eval(e)
    BY <1>1, DifferentCalls DEF Marks, Tells
  <1>3. ASSUME NEW e \in Root, c \in MarksOf(e) PROVE b < rank[e]
    <2>1. PICK n \in Nodes(e) : c = Mark(n)
      BY <1>3 DEF MarksOf
    <2>2. n \in Leaf
      BY <2>1 DEF Nodes
    <2>3. rank[updater[o]] < rank[e]
      BY <1>1, <2>1, <2>2 DEF Ordered
    <2> QED
      BY <2>3
  <1> QED
    BY <1>2, <1>3 DEF After

\* The observers of the user concern no expression.
LEMMA OthersAfter ==
  ASSUME NEW rank, NEW b, NEW c,
         c \in Tells \/ (\E o : c = Values(o)) \/ \E w, o : c = Join(w, o)
  PROVE  After(c, rank, b)
  <1>1. c # Unlock /\ \A e : c # Eval(e) /\ c \notin MarksOf(e)
    BY DifferentCalls DEF Tells, MarksOf
  <1> QED
    BY <1>1 DEF After

\* set(), when what is notified concerns later expressions.
LEMMA StoreInTurn ==
  ASSUME TypeOK, NEW rank \in [Root -> Nat], NEW k \in Nat, k < Len(funs),
         NEW o \in Object, NEW x, NEW rest \in Seq(SUBSET Call), Store(o, x, rest),
         InTurn(rest, rank, k),
         \A c \in subs[o] : After(c, rank, rank[funs[Len(funs) - k]])
  PROVE  InTurn(calls', rank, k)
  <1>1. CASE val[o] = x
    BY <1>1 DEF Store
  <1>2. CASE val[o] # x
    <2> DEFINE s == Start({Values(o)}, rest)
    <2>1. calls' = Start(subs[o] \cap Marks, s)
      BY <1>2 DEF Store, Start
    <2>2. {Values(o)} \in SUBSET Call /\ subs[o] \cap Marks \in SUBSET Call
      BY CallsAreCalls DEF TypeOK
    <2>3. s \in Seq(SUBSET Call)
      BY <2>2, StartCalls
    <2>4. InTurn(s, rank, k)
      BY <2>2, StartInTurn, OthersAfter
    <2> HIDE DEF s
    <2>5. InTurn(Start(subs[o] \cap Marks, s), rank, k)
      BY <2>2, <2>3, <2>4, StartInTurn
    <2> QED
      BY <2>1, <2>5
  <1> QED
    BY <1>1, <1>2

LEMMA UnlocksStored ==
  ASSUME TypeOK, NEW o \in Object, NEW x, NEW rest \in Seq(SUBSET Call), Store(o, x, rest),
         Unlocks(calls')
  PROVE  Unlocks(rest)
  <1>1. CASE val[o] = x
    BY <1>1 DEF Store
  <1>2. CASE val[o] # x
    <2> DEFINE s == Start({Values(o)}, rest)
    <2>1. calls' = Start(subs[o] \cap Marks, s)
      BY <1>2 DEF Store, Start
    <2>2. {Values(o)} \in SUBSET Call /\ subs[o] \cap Marks \in SUBSET Call
      BY CallsAreCalls DEF TypeOK
    <2>3. Unlock \notin {Values(o)} /\ Unlock \notin subs[o] \cap Marks
      BY DifferentCalls DEF Marks
    <2>4. s \in Seq(SUBSET Call)
      BY <2>2, StartCalls
    <2>5. Unlocks(s)
      <3> HIDE DEF s
      <3> QED
        BY <2>1, <2>2, <2>3, <2>4, UnlocksAfter
    <2> QED
      BY <2>2, <2>3, <2>5, UnlocksAfter
  <1> QED
    BY <1>1, <1>2

LEMMA OneMore ==
  ASSUME NEW S, NEW s \in Seq(S), NEW x \in S
  PROVE  /\ s \o <<x>> \in Seq(S) /\ Len(s \o <<x>>) = Len(s) + 1
         /\ (s \o <<x>>)[Len(s) + 1] = x
         /\ \A i \in 1..Len(s) : (s \o <<x>>)[i] = s[i]
  OBVIOUS

\* update_all() when nothing else is in progress.
LEMMA UpdateAllInTurn ==
  ASSUME TypeOK, NEW rank \in [Root -> Nat], NEW rest \in Seq(SUBSET Call), UpdateAll(rest),
         Unlocks(calls')
  PROVE  InTurn(calls', rank, Len(funs))
  <1> DEFINE a == [i \in DOMAIN funs |-> {Eval(funs[i])}]
             b == a \o <<{Unlock}>>
  <1>1. calls' = b \o rest /\ \A i \in DOMAIN rest : Unlock \notin rest[i]
    BY DEF UpdateAll, Order
  <1>2. /\ funs \in Seq(Root \ Immediate) /\ DOMAIN funs = 1..Len(funs) /\ Len(funs) \in Nat
        /\ \A i \in 1..Len(funs) : funs[i] \in Root
    BY DEF TypeOK
  <1>3. /\ a \in Seq(SUBSET Call) /\ Len(a) = Len(funs)
        /\ \A i \in 1..Len(funs) : a[i] = {Eval(funs[i])}
    <2>1. a = [i \in 1..Len(funs) |-> {Eval(funs[i])}]
      BY <1>2
    <2>2. \A i \in 1..Len(funs) : {Eval(funs[i])} \in SUBSET Call
      BY <1>2, CallsAreCalls
    <2>3. a \in [1..Len(funs) -> SUBSET Call]
      BY <2>1, <2>2
    <2> QED
      BY <1>2, <2>1, <2>3
  <1> HIDE DEF a
  <1>4. /\ b \in Seq(SUBSET Call) /\ Len(b) = Len(funs) + 1 /\ b[Len(funs) + 1] = {Unlock}
        /\ \A i \in 1..Len(funs) : b[i] = {Eval(funs[i])}
    <2>1. {Unlock} \in SUBSET Call
      BY CallsAreCalls
    <2>2. /\ b \in Seq(SUBSET Call) /\ Len(b) = Len(a) + 1 /\ b[Len(a) + 1] = {Unlock}
          /\ \A i \in 1..Len(a) : b[i] = a[i]
      BY <1>3, <2>1, OneMore
    <2> QED
      BY <1>3, <2>2
  <1> HIDE DEF b
  <1>5. rest = <<>>
    <2> SUFFICES ASSUME rest # <<>> PROVE FALSE
      OBVIOUS
    <2>1. Len(rest) \in Nat \ {0} /\ DOMAIN rest = 1..Len(rest)
      OBVIOUS
    <2>2. (b \o rest)[Len(b \o rest)] = rest[Len(rest)]
      BY <1>4, <2>1
    <2>3. Len(rest) \in DOMAIN rest
      BY <2>1
    <2> QED
      BY <1>1, <2>2, <2>3 DEF Unlocks
  <1>6. calls' = b
    BY <1>1, <1>4, <1>5
  <1>7. ASSUME NEW i \in 1..Len(funs) PROVE b[Len(b) - i] = {Eval(funs[Len(funs) + 1 - i])}
    <2>1. Len(b) - i \in 1..Len(funs) /\ Len(b) - i = Len(funs) + 1 - i
      BY <1>2, <1>4
    <2> QED
      BY <1>4, <2>1
  <1>8. 1..Len(b) - 1 - Len(funs) = {}
    BY <1>2, <1>4
  <1>9. InTurn(b, rank, Len(funs))
    <2>1. Len(funs) \in 0..Len(funs) /\ Len(funs) < Len(b) /\ b[Len(b)] = {Unlock}
      BY <1>2, <1>4
    <2> QED
      BY <1>7, <1>8, <2>1 DEF InTurn
  <1> QED
    BY <1>6, <1>9

-----------------------------------------------------------------------------
\* An expression is evaluated: its turn has come, or another has set it off.
LEMMA EvaluateSettles ==
  ASSUME Wired, NEW rank \in [Root -> Nat], Ordered(rank), Sweeping(rank),
         NEW e \in Root, Evaluate(e)
  PROVE  Sweeping(rank)'
  <1>1. /\ Calls(Eval(e)) /\ UNCHANGED <<updater, points, funs, calm, subs>>
        /\ Store(Target(e), Fresh[e], Left(Eval(e))) /\ TypeOK
    BY DEF Evaluate, Makes, Wired
  <1>2. Left(Eval(e)) \in Seq(SUBSET Call)
    BY <1>1, NextCall
  <1>3. Target(e) \in Object /\ updater[Target(e)] = e
    BY EvaluateIs
  <1>4. funs \in Seq(Root \ Immediate) /\ Len(funs) \in Nat /\ \A i \in 1..Len(funs) : funs[i] \in Root
    <2>1. funs \in Seq(Root \ Immediate)
      BY <1>1 DEF TypeOK
    <2> QED
      BY <2>1
  <1> SUFFICES ASSUME calm, Unlocks(calls')
               PROVE  \E k \in Nat : InTurn(calls', rank, k) /\ Done(k)'
    BY <1>1 DEF Sweeping, Unlocks, InTurn
  <1>5. Unlocks(calls)
    <2>1. Unlocks(Left(Eval(e)))
      BY <1>1, <1>2, <1>3, UnlocksStored
    <2> QED
      BY <1>1, <2>1, UnlocksBefore
  <1>6. PICK k \in Nat : InTurn(calls, rank, k) /\ Done(k)
    BY <1>5 DEF Sweeping
  <1>7. k < Len(calls) /\ Len(calls) \in Nat
    <2>1. calls \in Seq(SUBSET Call)
      BY <1>1 DEF TypeOK
    <2> QED
      BY <1>6, <2>1 DEF InTurn
  <1>8. PICK h \in Nat :
              /\ InTurn(Left(Eval(e)), rank, h) /\ h < Len(funs)
              /\ rank[funs[Len(funs) - h]] <= rank[e]
              /\ \A i \in 1..Len(funs) - h : funs[i] = e \/ i \in 1..Len(funs) - k
    <2>1. CASE k < Len(calls) - 1
      <3>1. /\ InTurn(Left(Eval(e)), rank, k) /\ k < Len(funs)
            /\ After(Eval(e), rank, rank[funs[Len(funs) - k]])
        BY <1>1, <1>6, <2>1, LeftInTurn
      <3>2. rank[funs[Len(funs) - k]] < rank[e]
        BY <3>1 DEF After
      <3>3. rank[funs[Len(funs) - k]] \in Nat /\ rank[e] \in Nat
        <4>1. Len(funs) - k \in 1..Len(funs)
          BY <1>4, <3>1
        <4> QED
          BY <1>4, <4>1
      <3>4. rank[funs[Len(funs) - k]] <= rank[e]
        BY <3>2, <3>3
      <3> QED
        BY <3>1, <3>4
    <2>2. CASE k = Len(calls) - 1
      <3> DEFINE h == k - 1
      <3>1. /\ k # 0 /\ h < Len(funs) /\ e = funs[Len(funs) - h]
            /\ InTurn(Left(Eval(e)), rank, h)
        BY <1>1, <1>6, <2>2, NextInTurn
      <3>2. h \in Nat
        BY <3>1
      <3>3. rank[funs[Len(funs) - h]] <= rank[e]
        <4>1. rank[e] \in Nat
          OBVIOUS
        <4>2. rank[funs[Len(funs) - h]] = rank[e]
          BY <3>1
        <4> QED
          BY <4>1, <4>2
      <3>4. \A i \in 1..Len(funs) - h : i = Len(funs) - h \/ i \in 1..Len(funs) - k
        BY <1>4, <3>1
      <3>5. \A i \in 1..Len(funs) - h : funs[i] = e \/ i \in 1..Len(funs) - k
        BY <3>1, <3>4
      <3> HIDE DEF h
      <3> QED
        BY <3>1, <3>2, <3>3, <3>5
    <2> QED
      BY <1>7, <2>1, <2>2
  <1>9. Len(funs) - h \in 1..Len(funs) /\ rank[funs[Len(funs) - h]] \in Nat
    <2>1. Len(funs) - h \in 1..Len(funs)
      BY <1>4, <1>8
    <2> QED
      BY <1>4, <2>1
  <1>10. \A c \in subs[Target(e)] : After(c, rank, rank[funs[Len(funs) - h]])
    BY <1>3, <1>8, <1>9, SubscribedAfter
  <1>11. InTurn(calls', rank, h)
    BY <1>1, <1>2, <1>3, <1>8, <1>10, StoreInTurn
  <1>12. ASSUME NEW i \in 1..Len(funs) - h, NEW o \in Object, updater[o] = funs[i]
         PROVE  val'[o] = result'[funs[i]] /\ (dirty'[funs[i]] => funs[i] \in Gone)
    <2>1. funs[i] \in Root
      <3>1. i \in 1..Len(funs)
        BY <1>4, <1>8
      <3> QED
        BY <1>4, <3>1
    <2>2. /\ updater[o] = e => val'[o] = result'[updater[o]] /\ (dirty'[updater[o]] => updater[o] \in Gone)
          /\ updater[o] # e =>
               /\ val'[o] = val[o] /\ result'[updater[o]] = result[updater[o]]
               /\ dirty'[updater[o]] => dirty[updater[o]]
      BY <1>12, <2>1, EvaluateSets
    <2>3. CASE funs[i] = e
      BY <1>12, <2>2, <2>3
    <2>4. CASE funs[i] # e
      <3>1. i \in 1..Len(funs) - k
        BY <1>8, <2>4
      <3>2. val[o] = result[funs[i]] /\ (dirty[funs[i]] => funs[i] \in Gone)
        BY <1>6, <1>12, <3>1 DEF Done
      <3> QED
        BY <1>12, <2>2, <2>4, <3>2
    <2> QED
      BY <2>3, <2>4
  <1>13. Gone' = Gone
    BY <1>1 DEF Gone
  <1>14. Done(h)'
    BY <1>1, <1>12, <1>13 DEF Done
  <1> QED
    BY <1>11, <1>14

\* A value node is notified, because of an earlier expression.
LEMMA MarkDirtySettles ==
  ASSUME Wired, NEW rank \in [Root -> Nat], Ordered(rank), Sweeping(rank),
         NEW n \in Leaf, MarkDirty(n)
  PROVE  Sweeping(rank)'
  <1> DEFINE now == {Eval(r) : r \in Path[n] \cap built \cap Immediate}
  <1>1. /\ Calls(Mark(n)) /\ TypeOK /\ UNCHANGED <<updater, val, points, result, funs, calm>>
        /\ dirty' = [m \in Node |-> dirty[m] \/ m \in Path[n]]
        /\ calls' = Start(now, Left(Mark(n)))
    BY DEF MarkDirty, Makes, Marked, objects, Wired
  <1>2. Left(Mark(n)) \in Seq(SUBSET Call)
    BY <1>1, NextCall
  <1>3. now \in SUBSET Call /\ Unlock \notin now
    <2>1. \A r \in Path[n] \cap built \cap Immediate : Eval(r) \in Call /\ Eval(r) # Unlock
      BY CallsAreCalls, DifferentCalls, ExpressionAssumption
    <2> QED
      BY <2>1
  <1>4. funs \in Seq(Root \ Immediate) /\ Len(funs) \in Nat /\ \A i \in 1..Len(funs) : funs[i] \in Root
    <2>1. funs \in Seq(Root \ Immediate)
      BY <1>1 DEF TypeOK
    <2> QED
      BY <2>1
  <1> SUFFICES ASSUME calm, Unlocks(calls')
               PROVE  \E k \in Nat : InTurn(calls', rank, k) /\ Done(k)'
    BY <1>1 DEF Sweeping, Unlocks, InTurn
  <1>5. Unlocks(calls)
    <2>1. Unlocks(Left(Mark(n)))
      <3> HIDE DEF now
      <3> QED
        BY <1>1, <1>2, <1>3, UnlocksAfter
    <2> QED
      BY <1>1, <2>1, UnlocksBefore
  <1>6. PICK k \in Nat : InTurn(calls, rank, k) /\ Done(k)
    BY <1>5 DEF Sweeping
  <1>7. k < Len(calls) - 1
    BY <1>1, <1>6, DifferentCalls, NotInTurn
  <1> DEFINE b == rank[funs[Len(funs) - k]]
  <1>8. InTurn(Left(Mark(n)), rank, k) /\ k < Len(funs) /\ After(Mark(n), rank, b)
    BY <1>1, <1>6, <1>7, LeftInTurn
  <1>9. Len(funs) - k \in 1..Len(funs) /\ b \in Nat
    <2>1. Len(funs) - k \in 1..Len(funs)
      BY <1>4, <1>8
    <2> QED
      BY <1>4, <2>1
  <1>10. \A r \in Path[n] : r \in Root => b < rank[r]
    <2> SUFFICES ASSUME NEW r \in Path[n], r \in Root PROVE b < rank[r]
      OBVIOUS
    <2>1. Mark(n) \in MarksOf(r)
      BY NodesOf
    <2> HIDE DEF b
    <2> QED
      BY <1>8, <2>1 DEF After
  <1>11. \A c \in now : After(c, rank, b)
    <2> SUFFICES ASSUME NEW r \in Path[n] \cap built \cap Immediate PROVE After(Eval(r), rank, b)
      OBVIOUS
    <2>1. b < rank[r]
      BY <1>10, ExpressionAssumption
    <2>2. Eval(r) # Unlock /\ \A e : (Eval(r) = Eval(e) => r = e) /\ Eval(r) \notin MarksOf(e)
      BY DifferentCalls DEF MarksOf
    <2> HIDE DEF b
    <2> QED
      BY <2>1, <2>2 DEF After
  <1>12. InTurn(calls', rank, k)
    <2> HIDE DEF now
    <2> QED
      BY <1>1, <1>2, <1>3, <1>8, <1>11, StartInTurn
  <1>13. ASSUME NEW i \in 1..Len(funs) - k, NEW o \in Object, updater[o] = funs[i]
         PROVE  val[o] = result[funs[i]] /\ (dirty'[funs[i]] => funs[i] \in Gone)
    <2>1. i \in 1..Len(funs)
      BY <1>4, <1>8
    <2>2. funs[i] \in Root /\ funs[i] \in Node
      BY <1>4, <2>1 DEF Root
    <2>3. rank[funs[i]] <= b
      <3>1. CASE i = Len(funs) - k
        BY <1>9, <3>1
      <3>2. CASE i # Len(funs) - k
        <4>1. i < Len(funs) - k
          BY <1>4, <3>2
        <4>2. rank[funs[i]] < b
          BY <1>9, <2>1, <4>1 DEF Ordered
        <4>3. rank[funs[i]] \in Nat
          BY <2>2
        <4> QED
          BY <1>9, <4>2, <4>3
      <3> QED
        BY <3>1, <3>2
    <2>4. funs[i] \notin Path[n]
      <3>1. rank[funs[i]] \in Nat
        BY <2>2
      <3> HIDE DEF b
      <3> QED
        BY <1>9, <1>10, <2>2, <2>3, <3>1
    <2>5. dirty'[funs[i]] => dirty[funs[i]]
      BY <1>1, <2>2, <2>4
    <2> QED
      BY <1>6, <1>13, <2>5 DEF Done
  <1>14. Gone' = Gone
    BY <1>1 DEF Gone
  <1>15. Done(k)'
    BY <1>1, <1>13, <1>14 DEF Done
  <1> QED
    BY <1>12, <1>15

\* An observer of the user makes a call, and is done.
LEMMA OtherCallInTurn ==
  ASSUME TypeOK, NEW rank \in [Root -> Nat], Sweeping(rank), NEW c, Calls(c),
         c # Unlock, \A e : c # Eval(e), calm, Unlocks(Left(c))
  PROVE  \E k \in Nat : k < Len(funs) /\ InTurn(Left(c), rank, k) /\ Done(k)
  <1>1. Unlocks(calls)
    BY UnlocksBefore
  <1>2. PICK k \in Nat : InTurn(calls, rank, k) /\ Done(k)
    BY <1>1 DEF Sweeping
  <1>3. k < Len(calls) - 1
    BY <1>2, NotInTurn
  <1> QED
    BY <1>2, <1>3, LeftInTurn

\* A loop over observers of the user begins.
LEMMA OthersSweep ==
  ASSUME TypeOK, NEW rank \in [Root -> Nat],
         NEW loop \in SUBSET Call, NEW rest \in Seq(SUBSET Call),
         \A c \in loop : c \in Tells \/ (\E o : c = Values(o)) \/ \E w, o : c = Join(w, o),
         Unlocks(Start(loop, rest)),
         Unlocks(rest) => \E k \in Nat : k < Len(funs) /\ InTurn(rest, rank, k) /\ Done(k)
  PROVE  \E k \in Nat : k < Len(funs) /\ InTurn(Start(loop, rest), rank, k) /\ Done(k)
  <1>1. Unlock \notin loop
    BY DifferentCalls DEF Tells
  <1>2. Unlocks(rest)
    BY <1>1, UnlocksAfter
  <1>3. PICK k \in Nat : k < Len(funs) /\ InTurn(rest, rank, k) /\ Done(k)
    BY <1>2
  <1>4. \A c \in loop : After(c, rank, rank[funs[Len(funs) - k]])
    BY OthersAfter
  <1> QED
    BY <1>3, <1>4, StartInTurn

\* The user acts, in an observer or outside.
LEMMA ActSettles ==
  ASSUME TypeOK, NEW rank \in [Root -> Nat], NEW rest \in Seq(SUBSET Call), Act(rest),
         UNCHANGED <<updater, points, dirty, result, funs>>,
         calm /\ Unlocks(rest) =>
           \E k \in Nat : k < Len(funs) /\ InTurn(rest, rank, k) /\ Done(k)
  PROVE  Sweeping(rank)'
  <1> SUFFICES ASSUME calm', Unlocks(calls')
               PROVE  \E k \in Nat : InTurn(calls', rank, k) /\ Done(k)'
    BY DEF Sweeping, Unlocks, InTurn
  <1>1. CASE UpdateAll(rest)
    <2>1. InTurn(calls', rank, Len(funs))
      BY <1>1, UpdateAllInTurn
    <2>2. Len(funs) \in Nat
      <3>1. funs \in Seq(Root \ Immediate)
        BY DEF TypeOK
      <3> QED
        BY <3>1
    <2>3. 1..Len(funs) - Len(funs) = {}
      BY <2>2
    <2>4. Done(Len(funs))'
      BY <2>3 DEF Done
    <2> QED
      BY <2>1, <2>2, <2>4
  <1>2. CASE \E w \in Watcher, o \in Object : SubscribeAndCall(w, o, rest)
    <2>1. PICK w \in Watcher, o \in Object : SubscribeAndCall(w, o, rest)
      BY <1>2
    <2> DEFINE s == Start({Join(w, o)}, rest)
    <2>2. calls' = Start({Tell(w)}, s) /\ UNCHANGED <<val, calm>>
      BY <2>1 DEF SubscribeAndCall, Start
    <2>3. {Join(w, o)} \in SUBSET Call /\ {Tell(w)} \in SUBSET Call /\ Tell(w) \in Tells
      BY CallsAreCalls
    <2>4. s \in Seq(SUBSET Call)
      BY <2>3, StartCalls
    <2>5. Unlocks(s) => \E k \in Nat : k < Len(funs) /\ InTurn(s, rank, k) /\ Done(k)
      BY <2>2, <2>3, OthersSweep
    <2> HIDE DEF s
    <2>6. PICK k \in Nat : InTurn(calls', rank, k) /\ Done(k)
      BY <2>2, <2>3, <2>4, <2>5, OthersSweep
    <2>7. Done(k)'
      BY <2>2, <2>6 DEF Done, Gone
    <2> QED
      BY <2>6, <2>7
  <1> QED
    BY <1>1, <1>2 DEF Act, Set

\* An observer of the user is called, and the sweep goes on.
LEMMA OtherCallSweeps ==
  ASSUME TypeOK, NEW rank \in [Root -> Nat], Sweeping(rank), NEW c, Calls(c),
         c # Unlock, \A e : c # Eval(e), NEW loop \in SUBSET Call, loop \subseteq Tells,
         calls' = Start(loop, Left(c)), UNCHANGED <<updater, points, dirty, result, funs, val, calm>>
  PROVE  Sweeping(rank)'
  <1> SUFFICES ASSUME calm, Unlocks(calls')
               PROVE  \E k \in Nat : InTurn(calls', rank, k) /\ Done(k)'
    BY DEF Sweeping, Unlocks, InTurn
  <1>1. Left(c) \in Seq(SUBSET Call)
    BY NextCall
  <1>2. PICK k \in Nat : InTurn(calls', rank, k) /\ Done(k)
    BY <1>1, OtherCallInTurn, OthersSweep
  <1>3. Done(k)'
    BY <1>2 DEF Done, Gone
  <1> QED
    BY <1>2, <1>3

LEMMA TellWatcherSettles ==
  ASSUME Wired, NEW rank \in [Root -> Nat], Sweeping(rank),
         NEW w \in Watcher, NEW o \in Object, TellWatcher(w, o)
  PROVE  Sweeping(rank)'
  <1>1. /\ Calls(Tell(w)) /\ TypeOK /\ UNCHANGED <<updater, points, dirty, result, funs>>
        /\ \/ calls' = Left(Tell(w)) /\ UNCHANGED <<val, calm>>
           \/ Act(Left(Tell(w)))
    BY DEF TellWatcher, Makes, Wired, nodes
  <1>2. Left(Tell(w)) \in Seq(SUBSET Call) /\ Tell(w) # Unlock /\ \A e : Tell(w) # Eval(e)
    BY <1>1, NextCall, DifferentCalls
  <1>3. CASE Act(Left(Tell(w)))
    BY <1>1, <1>2, <1>3, OtherCallInTurn, ActSettles
  <1>4. CASE calls' = Left(Tell(w)) /\ UNCHANGED <<val, calm>>
    <2>1. calls' = Start({}, Left(Tell(w)))
      BY <1>4 DEF Start
    <2> QED
      BY <1>1, <1>2, <1>4, <2>1, OtherCallSweeps
  <1> QED
    BY <1>1, <1>3, <1>4

-----------------------------------------------------------------------------
\* Sequence r has its entries from s, in order, and all of them but e.
InOrderOf(r, s) ==
  \A i, j \in 1..Len(r) : i < j =>
    \E x, y \in 1..Len(s) : x < y /\ r[i] = s[x] /\ r[j] = s[y]
HasOthers(r, s, e) == \A x \in 1..Len(s) : s[x] # e => \E j \in 1..Len(r) : r[j] = s[x]

\* Forgetting e keeps the order of the others.
LEMMA RemoveFirstInOrder ==
  ASSUME NEW S, NEW s \in Seq(S), NEW e
  PROVE  InOrderOf(RemoveFirst(s, e), s) /\ HasOthers(RemoveFirst(s, e), s, e)
  <1>1. CASE \A i \in 1..Len(s) : s[i] # e
    <2>1. RemoveFirst(s, e) = s
      BY <1>1, RemoveFirstEntry
    <2> QED
      BY <2>1 DEF InOrderOf, HasOthers
  <1>2. CASE \E i \in 1..Len(s) : s[i] = e
    <2> DEFINE r == RemoveFirst(s, e)
    <2>1. PICK i \in 1..Len(s) :
                /\ s[i] = e /\ Len(r) = Len(s) - 1
                /\ \A j \in 1..Len(s) - 1 : r[j] = IF j < i THEN s[j] ELSE s[j + 1]
      BY <1>2, RemoveFirstEntry
    <2> HIDE DEF r
    <2> DEFINE at(j) == IF j < i THEN j ELSE j + 1
    <2>2. \A j \in 1..Len(r) : at(j) \in 1..Len(s) /\ r[j] = s[at(j)]
      BY <2>1
    <2>3. \A j, k \in 1..Len(r) : j < k => at(j) < at(k)
      BY <2>1
    <2>4. \A j, k \in 1..Len(r) : j < k =>
            \E x, y \in 1..Len(s) : x < y /\ r[j] = s[x] /\ r[k] = s[y]
      <3> HIDE DEF at
      <3> QED
        BY <2>2, <2>3
    <2>5. ASSUME NEW x \in 1..Len(s), s[x] # e PROVE \E j \in 1..Len(r) : r[j] = s[x]
      <3>1. CASE x < i
        <4>1. x \in 1..Len(r) /\ r[x] = s[x]
          BY <2>1, <3>1
        <4> QED
          BY <4>1
      <3>2. CASE ~(x < i)
        <4>1. x # i
          BY <2>1, <2>5
        <4>2. x - 1 \in 1..Len(r) /\ ~(x - 1 < i) /\ (x - 1) + 1 = x
          BY <2>1, <3>2, <4>1
        <4>3. r[x - 1] = s[x]
          BY <2>1, <4>2
        <4> QED
          BY <4>2, <4>3
      <3> QED
        BY <3>1, <3>2
    <2> QED
      BY <2>4, <2>5 DEF r, InOrderOf, HasOthers
  <1> QED
    BY <1>1, <1>2

\* The updater keeps its order when an expression is dropped.
LEMMA DropOrders ==
  ASSUME Wired, AllRegistered, NEW rank \in [Root -> Nat], Ordered(rank), NEW e, Drop(e)
  PROVE  /\ AllRegistered'
         /\ \A i, j \in 1..Len(funs') : i < j => rank[funs'[i]] < rank[funs'[j]]
  <1>1. funs \in Seq(Root \ Immediate) /\ funs' = RemoveFirst(funs, e) /\ built' = built \ {e}
    BY DEF Wired, TypeOK, Drop
  <1>2. InOrderOf(funs', funs) /\ HasOthers(funs', funs, e)
    <2>1. InOrderOf(RemoveFirst(funs, e), funs) /\ HasOthers(RemoveFirst(funs, e), funs, e)
      BY <1>1, RemoveFirstInOrder
    <2> QED
      BY <1>1, <2>1
  <1>3. ASSUME NEW i \in 1..Len(funs'), NEW j \in 1..Len(funs'), i < j
        PROVE  rank[funs'[i]] < rank[funs'[j]]
    <2>1. PICK x \in 1..Len(funs), y \in 1..Len(funs) :
                 x < y /\ funs'[i] = funs[x] /\ funs'[j] = funs[y]
      BY <1>2, <1>3 DEF InOrderOf
    <2>2. rank[funs[x]] < rank[funs[y]]
      BY <2>1 DEF Ordered
    <2> QED
      BY <2>1, <2>2
  <1>4. ASSUME NEW d \in built' \ Immediate PROVE \E j \in 1..Len(funs') : funs'[j] = d
    <2>1. PICK x \in 1..Len(funs) : funs[x] = d
      BY <1>1, <1>4 DEF AllRegistered
    <2> QED
      BY <1>1, <1>2, <1>4, <2>1 DEF HasOthers
  <1> QED
    BY <1>3, <1>4 DEF AllRegistered

\* Objects that are moved or destroyed take their place in the order along.
LEMMA OrderKeeps ==
  ASSUME NEW rank, Ordered(rank),
         \A i, j \in 1..Len(funs') : i < j => rank[funs'[i]] < rank[funs'[j]],
         \A q \in Object : updater'[q] # NoNode =>
           \E p \in Object : updater'[q] = updater[p] /\ subs'[q] \cap Marks \subseteq subs[p]
  PROVE  Ordered(rank)'
  <1>1. ASSUME NEW o \in Object, NEW e \in Root, NEW n \in Leaf,
               Mark(n) \in subs'[o], n \in Nodes(e), updater'[o] # NoNode
        PROVE  rank[updater'[o]] < rank[e]
    <2>1. PICK p \in Object : updater'[o] = updater[p] /\ subs'[o] \cap Marks \subseteq subs[p]
      BY <1>1
    <2>2. Mark(n) \in subs[p]
      BY <1>1, <2>1, CallsAreCalls
    <2> QED
      BY <1>1, <2>1, <2>2 DEF Ordered
  <1> QED
    BY <1>1 DEF Ordered

-----------------------------------------------------------------------------
\* A step that leaves the expressions and their marks alone.
LEMMA SettlingKeeps ==
  ASSUME Settling, UNCHANGED <<updater, funs, built>>,
         \A o \in Object : subs'[o] \cap Marks \subseteq subs[o],
         \A rank \in [Root -> Nat] : Ordered(rank) /\ Sweeping(rank) => Sweeping(rank)'
  PROVE  Settling'
  <1>1. AllRegistered'
    BY DEF Settling, AllRegistered
  <1>2. PICK rank \in [Root -> Nat], m \in Nat :
               (\A e \in Root : rank[e] < m) /\ Ordered(rank) /\ Sweeping(rank)
    BY DEF Settling
  <1>3. \A i, j \in 1..Len(funs') : i < j => rank[funs'[i]] < rank[funs'[j]]
    BY <1>2 DEF Ordered
  <1>4. Ordered(rank)'
    BY <1>2, <1>3, OrderKeeps
  <1>5. Sweeping(rank)'
    BY <1>2
  <1> QED
    BY <1>1, <1>2, <1>4, <1>5 DEF Settling

\* Between the calls of the user nothing sweeps.
LEMMA IdleSweeps ==
  ASSUME calls' = <<>>, NEW rank
  PROVE  Sweeping(rank)'
  BY DEF Sweeping, Unlocks

LEMMA LoopsSettle ==
  ASSUME Wired, Settling, Step \/ User \/ \E w \in Watcher : Throw(w)
  PROVE  Settling'
  <1>1. CASE Release
    <2>1. UNCHANGED <<subs, updater, funs, built>> /\ calm' = FALSE
      BY <1>1 DEF Release, objects
    <2>2. \A rank \in [Root -> Nat] : Sweeping(rank)'
      BY <2>1 DEF Sweeping
    <2> QED
      BY <2>1, <2>2, SettlingKeeps
  <1>2. ASSUME NEW n \in Leaf, MarkDirty(n) PROVE Settling'
    <2>1. UNCHANGED <<subs, updater, funs, built>>
      BY <1>2 DEF MarkDirty, objects
    <2>2. \A rank \in [Root -> Nat] : Ordered(rank) /\ Sweeping(rank) => Sweeping(rank)'
      BY <1>2, MarkDirtySettles
    <2> QED
      BY <2>1, <2>2, SettlingKeeps
  <1>3. ASSUME NEW e \in Root, Evaluate(e) PROVE Settling'
    <2>1. UNCHANGED <<subs, updater, funs, built>>
      BY <1>3 DEF Evaluate
    <2>2. \A rank \in [Root -> Nat] : Ordered(rank) /\ Sweeping(rank) => Sweeping(rank)'
      BY <1>3, EvaluateSettles
    <2> QED
      BY <2>1, <2>2, SettlingKeeps
  <1>4. ASSUME NEW w \in Watcher, NEW o \in Object, TellWatcher(w, o) PROVE Settling'
    <2>1. UNCHANGED <<subs, updater, funs, built>>
      BY <1>4 DEF TellWatcher
    <2>2. \A rank \in [Root -> Nat] : Ordered(rank) /\ Sweeping(rank) => Sweeping(rank)'
      BY <1>4, TellWatcherSettles
    <2> QED
      BY <2>1, <2>2, SettlingKeeps
  <1>5. CASE User
    <2>1. UNCHANGED <<subs, updater, funs, built, points, dirty, result>> /\ Act(<<>>)
      BY <1>5 DEF User, nodes
    <2>2. <<>> \in Seq(SUBSET Call) /\ TypeOK /\ ~Unlocks(<<>>)
      BY DEF Wired, Unlocks
    <2>3. \A rank \in [Root -> Nat] : Sweeping(rank)'
      BY <2>1, <2>2, ActSettles
    <2> QED
      BY <2>1, <2>3, SettlingKeeps
  <1>6. ASSUME NEW w \in Watcher, Throw(w) PROVE Settling'
    <2>1. UNCHANGED <<subs, updater, funs, built>> /\ calls' = <<>>
      BY <1>6 DEF Throw, objects
    <2>2. \A rank \in [Root -> Nat] : Sweeping(rank)'
      BY <2>1, IdleSweeps
    <2> QED
      BY <2>1, <2>2, SettlingKeeps
  <1>7. ASSUME NEW o \in Object, NotifyValues(o) PROVE Settling'
    <2>1. /\ UNCHANGED <<subs, updater, funs, built, points, dirty, result, val, calm>> /\ TypeOK
          /\ Calls(Values(o)) /\ calls' = Start(subs[o] \cap Tells, Left(Values(o)))
      BY <1>7 DEF NotifyValues, Makes, objects, nodes, Wired
    <2>2. /\ subs[o] \cap Tells \in SUBSET Call /\ subs[o] \cap Tells \subseteq Tells
          /\ Values(o) # Unlock /\ \A e : Values(o) # Eval(e)
      BY CallsAreCalls, DifferentCalls
    <2>3. \A rank \in [Root -> Nat] : Ordered(rank) /\ Sweeping(rank) => Sweeping(rank)'
      BY <2>1, <2>2, OtherCallSweeps
    <2> QED
      BY <2>1, <2>3, SettlingKeeps
  <1>8. ASSUME NEW w \in Watcher, NEW o \in Object, Subscribe(w, o) PROVE Settling'
    <2>1. /\ UNCHANGED <<updater, funs, built, points, dirty, result, val, calm>> /\ TypeOK
          /\ subs' = [subs EXCEPT ![o] = @ \cup {Tell(w)}]
          /\ Calls(Join(w, o)) /\ calls' = Left(Join(w, o))
      BY <1>8 DEF Subscribe, nodes, Wired
    <2>2. ASSUME NEW p \in Object PROVE subs'[p] \cap Marks \subseteq subs[p]
      <3>1. subs'[p] \subseteq subs[p] \cup {Tell(w)}
        BY <2>1 DEF TypeOK
      <3>2. Tell(w) \notin Marks
        BY DifferentCalls DEF Marks
      <3> QED
        BY <3>1, <3>2
    <2>3. Join(w, o) # Unlock /\ \A e : Join(w, o) # Eval(e)
      BY DifferentCalls
    <2>4. calls' = Start({}, Left(Join(w, o)))
      BY <2>1 DEF Start
    <2>5. \A rank \in [Root -> Nat] : Ordered(rank) /\ Sweeping(rank) => Sweeping(rank)'
      BY <2>1, <2>3, <2>4, OtherCallSweeps
    <2> QED
      BY <2>1, <2>2, <2>5, SettlingKeeps
  <1> QED
    BY <1>1, <1>2, <1>3, <1>4, <1>5, <1>6, <1>7, <1>8 DEF Step

LEMMA DiscardSettles ==
  ASSUME Wired, Settling, NEW e, Discard(e)
  PROVE  Settling'
  <1>1. /\ Drop(e) /\ calls' = <<>> /\ UNCHANGED updater
        /\ subs' = [o \in Object |-> subs[o] \ MarksOf(e)]
    BY DEF Discard, Idle
  <1>2. PICK rank \in [Root -> Nat], m \in Nat :
               (\A d \in Root : rank[d] < m) /\ Ordered(rank) /\ Sweeping(rank)
    BY DEF Settling
  <1>3. /\ AllRegistered'
        /\ \A i, j \in 1..Len(funs') : i < j => rank[funs'[i]] < rank[funs'[j]]
    BY <1>1, <1>2, DropOrders DEF Settling
  <1>4. Ordered(rank)'
    BY <1>1, <1>2, <1>3, OrderKeeps
  <1> QED
    BY <1>1, <1>2, <1>3, <1>4, IdleSweeps DEF Settling

LEMMA DestroySettles ==
  ASSUME Wired, Settling, NEW o \in Object, Destroy(o)
  PROVE  Settling'
  <1> DEFINE e == updater[o]
  <1>1. /\ Drop(e) /\ calls' = <<>>
        /\ subs' = [p \in Object |-> IF p = o THEN {} ELSE subs[p] \ MarksOf(e)]
        /\ updater' = [updater EXCEPT ![o] = NoNode]
    BY DEF Destroy, Idle
  <1> HIDE DEF e
  <1>2. PICK rank \in [Root -> Nat], m \in Nat :
               (\A d \in Root : rank[d] < m) /\ Ordered(rank) /\ Sweeping(rank)
    BY DEF Settling
  <1>3. /\ AllRegistered'
        /\ \A i, j \in 1..Len(funs') : i < j => rank[funs'[i]] < rank[funs'[j]]
    BY <1>1, <1>2, DropOrders DEF Settling
  <1>4. ASSUME NEW q \in Object, updater'[q] # NoNode
        PROVE  updater'[q] = updater[q] /\ subs'[q] \subseteq subs[q]
    BY <1>1, <1>4 DEF Wired, TypeOK
  <1>5. Ordered(rank)'
    BY <1>2, <1>3, <1>4, OrderKeeps
  <1> QED
    BY <1>1, <1>2, <1>3, <1>5, IdleSweeps DEF Settling

LEMMA MoveSettles ==
  ASSUME Wired, Settling, Idle, NEW o \in Object, NEW p \in Object, o # p, MoveInto(o, p)
  PROVE  Settling'
  <1> DEFINE e == updater[o]
  <1>1. /\ Drop(e) /\ calls' = <<>>
        /\ subs' = [q \in Object |-> CASE q = o -> subs[p] \ MarksOf(e)
                                       [] q = p -> {}
                                       [] OTHER -> subs[q] \ MarksOf(e)]
        /\ updater' = [updater EXCEPT ![o] = updater[p], ![p] = NoNode]
    BY DEF MoveInto, Idle
  <1> HIDE DEF e
  <1>2. PICK rank \in [Root -> Nat], m \in Nat :
               (\A d \in Root : rank[d] < m) /\ Ordered(rank) /\ Sweeping(rank)
    BY DEF Settling
  <1>3. /\ AllRegistered'
        /\ \A i, j \in 1..Len(funs') : i < j => rank[funs'[i]] < rank[funs'[j]]
    BY <1>1, <1>2, DropOrders DEF Settling
  <1>4. ASSUME NEW q \in Object, updater'[q] # NoNode
        PROVE  \E r \in Object : updater'[q] = updater[r] /\ subs'[q] \subseteq subs[r]
    <2>1. /\ updater'[p] = NoNode /\ updater'[o] = updater[p]
          /\ \A r \in Object \ {o, p} : updater'[r] = updater[r]
      BY <1>1 DEF Wired, TypeOK
    <2>2. CASE q = o
      BY <1>1, <2>1, <2>2
    <2>3. CASE q # o
      <3>1. q # p
        BY <1>4, <2>1
      <3> QED
        BY <1>1, <2>1, <2>3, <3>1
    <2> QED
      BY <2>2, <2>3
  <1>5. Ordered(rank)'
    BY <1>2, <1>3, <1>4, OrderKeeps
  <1> QED
    BY <1>1, <1>2, <1>3, <1>5, IdleSweeps DEF Settling

\* Expressions that do not exist yet may be thought of as the last ones.
Raised(rank, m, late) == [d \in Root |-> IF d \in late THEN m ELSE rank[d]]

LEMMA RaisedInOrder ==
  ASSUME Wired, NEW rank \in [Root -> Nat], NEW m \in Nat, \A d \in Root : rank[d] < m,
         Ordered(rank), NEW late, late \cap built = {}
  PROVE  LET new == Raised(rank, m, late) IN
         /\ new \in [Root -> Nat] /\ m + 1 \in Nat /\ \A d \in Root : new[d] < m + 1
         /\ \A d \in Root : new[d] = IF d \in late THEN m ELSE rank[d]
         /\ Ordered(new)
  <1> DEFINE new == Raised(rank, m, late)
  <1>1. \A d \in Root : new[d] = IF d \in late THEN m ELSE rank[d]
    BY DEF Raised
  <1>2. new \in [Root -> Nat] /\ m + 1 \in Nat
    BY DEF Raised
  <1> HIDE DEF new
  <1>3. ASSUME NEW d \in Root PROVE new[d] < m + 1
    <2>1. rank[d] \in Nat /\ rank[d] < m
      OBVIOUS
    <2> QED
      BY <1>1, <2>1
  <1>4. ASSUME NEW o \in Object, NEW e \in Root, NEW n \in Leaf,
               Mark(n) \in subs[o], n \in Nodes(e), updater[o] # NoNode
        PROVE  new[updater[o]] < new[e]
    <2>1. updater[o] \in Root /\ updater[o] \in built
      BY <1>4 DEF Wired, TypeOK, Updaters
    <2>2. new[updater[o]] = rank[updater[o]] /\ rank[updater[o]] < m
      BY <1>1, <2>1
    <2>3. rank[updater[o]] < rank[e]
      BY <1>4 DEF Ordered
    <2> QED
      BY <1>1, <2>2, <2>3
  <1>5. \A i \in 1..Len(funs) : funs[i] \in Root /\ funs[i] \in built
    <2>1. funs \in Seq(Root \ Immediate)
      BY DEF Wired, TypeOK
    <2> QED
      BY <2>1 DEF Wired, Register
  <1>6. ASSUME NEW i \in 1..Len(funs), NEW j \in 1..Len(funs), i < j
        PROVE  new[funs[i]] < new[funs[j]]
    <2>1. rank[funs[i]] < rank[funs[j]]
      BY <1>6 DEF Ordered
    <2>2. new[funs[i]] = rank[funs[i]] /\ new[funs[j]] = rank[funs[j]]
      BY <1>1, <1>5
    <2> QED
      BY <2>1, <2>2
  <1>7. Ordered(new)
    BY <1>4, <1>6 DEF Ordered
  <1> QED
    BY <1>1, <1>2, <1>3, <1>7 DEF new

\* A node that is built is part of no expression that exists.
LEMMA BuiltApart ==
  ASSUME Inv, NEW n \in Node \ made, NEW e \in Path[n] \cap Root
  PROVE  e \notin built
  <1>1. e \in Node /\ n \in Tree[e]
    BY DEF Tree, Root
  <1>2. e \in made => n \in made
    BY <1>1, TreeIsMade DEF Inv, Grown
  <1> QED
    BY <1>2 DEF Inv, Grown

LEMMA BuildLeafSettles ==
  ASSUME Inv, Wired, Settling, NEW n, BuildLeaf(n)
  PROVE  Settling'
  <1>1. /\ calls' = <<>> /\ n \in Leaf /\ n \in Node \ made /\ UNCHANGED <<updater, funs, built>>
        /\ subs' = [subs EXCEPT ![Operand[n]] = @ \cup {Mark(n)}]
    BY ExpressionAssumption DEF BuildLeaf, Idle
  <1>2. PICK rank \in [Root -> Nat], m \in Nat :
               (\A d \in Root : rank[d] < m) /\ Ordered(rank) /\ Sweeping(rank)
    BY DEF Settling
  <1> DEFINE late == Path[n] \cap Root
             new == Raised(rank, m, late)
  <1>3. late \cap built = {}
    BY <1>1, BuiltApart
  <1> HIDE DEF late
  <1>4. /\ new \in [Root -> Nat] /\ m + 1 \in Nat /\ \A d \in Root : new[d] < m + 1
        /\ \A d \in Root : new[d] = IF d \in late THEN m ELSE rank[d]
        /\ Ordered(new)
    BY <1>2, <1>3, RaisedInOrder
  <1> HIDE DEF new
  <1>5. ASSUME NEW q \in Object, NEW d \in Root, NEW k \in Leaf,
               Mark(k) \in subs'[q], k \in Nodes(d), updater'[q] # NoNode
        PROVE  new[updater'[q]] < new[d]
    <2>1. CASE Mark(k) \in subs[q]
      BY <1>1, <1>4, <1>5, <2>1 DEF Ordered
    <2>2. CASE Mark(k) \notin subs[q]
      <3>1. subs'[q] \subseteq subs[q] \cup {Mark(n)}
        BY <1>1 DEF Wired, TypeOK
      <3>2. k = n
        BY <1>5, <2>2, <3>1, DifferentCalls
      <3>3. d \in late
        BY <1>5, <3>2, NodesOf DEF late
      <3>4. updater[q] \in Root /\ updater[q] \in built
        BY <1>1, <1>5 DEF Wired, TypeOK, Updaters
      <3>5. updater[q] \notin late
        BY <1>3, <3>4
      <3> QED
        BY <1>1, <1>2, <1>4, <3>3, <3>4, <3>5
    <2> QED
      BY <2>1, <2>2
  <1>6. \A i, j \in 1..Len(funs') : i < j => new[funs'[i]] < new[funs'[j]]
    BY <1>1, <1>4 DEF Ordered
  <1>7. Ordered(new)'
    BY <1>5, <1>6 DEF Ordered
  <1>8. AllRegistered'
    BY <1>1 DEF Settling, AllRegistered
  <1> QED
    BY <1>1, <1>4, <1>7, <1>8, IdleSweeps DEF Settling

LEMMA BuildNarySettles ==
  ASSUME Settling, NEW n, BuildNary(n)
  PROVE  Settling'
  <1>1. UNCHANGED <<subs, updater, funs, built>> /\ calls' = <<>>
    BY DEF BuildNary, Idle, objects
  <1>2. \A rank \in [Root -> Nat] : Sweeping(rank)'
    BY <1>1, IdleSweeps
  <1> QED
    BY <1>1, <1>2, SettlingKeeps

\* Nothing has been built on what is only now observed.
LEMMA ObserveSettles ==
  ASSUME Wired, Settling, NEW e \in Root, NEW o \in Object, Observe(e, o)
  PROVE  Settling'
  <1>1. /\ calls' = <<>> /\ e \notin built /\ state[o] = "unborn"
        /\ built' = built \cup {e} /\ subs' = subs
        /\ updater' = [updater EXCEPT ![o] = e] /\ funs' = Registered(e)
    BY DEF Observe, Idle
  <1>2. PICK rank \in [Root -> Nat], m \in Nat :
               (\A d \in Root : rank[d] < m) /\ Ordered(rank) /\ Sweeping(rank)
    BY DEF Settling
  <1> DEFINE new == Raised(rank, m, {e})
  <1>3. /\ new \in [Root -> Nat] /\ m + 1 \in Nat /\ \A d \in Root : new[d] < m + 1
        /\ new[e] = m /\ \A d \in Root : d # e => new[d] = rank[d]
        /\ Ordered(new)
    <2>1. {e} \cap built = {}
      BY <1>1
    <2> QED
      BY <1>2, <2>1, RaisedInOrder
  <1> HIDE DEF new
  <1>4. ASSUME NEW q \in Object, NEW d \in Root, NEW n \in Leaf,
               Mark(n) \in subs'[q], n \in Nodes(d), updater'[q] # NoNode
        PROVE  new[updater'[q]] < new[d]
    <2>1. q # o
      BY <1>1, <1>4 DEF Wired, SubscribedAreLive, Live
    <2>2. updater'[q] = updater[q]
      BY <1>1, <2>1 DEF Wired, TypeOK
    <2> QED
      BY <1>1, <1>3, <1>4, <2>2 DEF Ordered
  <1>5. /\ funs \in Seq(Root \ Immediate) /\ Len(funs) \in Nat
        /\ \A i \in 1..Len(funs) : funs[i] \in Root /\ funs[i] # e
    <2>1. funs \in Seq(Root \ Immediate) /\ \A i \in 1..Len(funs) : funs[i] \in built
      BY DEF Wired, TypeOK, Register
    <2> QED
      BY <1>1, <2>1
  <1>6. \A i, j \in 1..Len(funs) : i < j => new[funs[i]] < new[funs[j]]
    BY <1>3 DEF Ordered
  <1>7. /\ AllRegistered'
        /\ \A i, j \in 1..Len(funs') : i < j => new[funs'[i]] < new[funs'[j]]
    <2>1. CASE e \in Immediate
      BY <1>1, <1>6, <2>1 DEF Settling, AllRegistered, Registered
    <2>2. CASE e \notin Immediate
      <3>1. /\ Len(funs') = Len(funs) + 1 /\ funs'[Len(funs) + 1] = e
            /\ \A i \in 1..Len(funs) : funs'[i] = funs[i]
        BY <1>1, <1>5, <2>2 DEF Registered
      <3>2. \A i, j \in 1..Len(funs') : i < j =>
              i \in 1..Len(funs) /\ (j \in 1..Len(funs) \/ j = Len(funs) + 1)
        BY <1>5, <3>1
      <3>3. \A i \in 1..Len(funs) : new[funs[i]] < m
        BY <1>2, <1>3, <1>5
      <3>4. ASSUME NEW i \in 1..Len(funs'), NEW j \in 1..Len(funs'), i < j
            PROVE  new[funs'[i]] < new[funs'[j]]
        <4>1. i \in 1..Len(funs) /\ (j \in 1..Len(funs) \/ j = Len(funs) + 1)
          BY <3>2, <3>4
        <4> QED
          BY <1>3, <1>6, <3>1, <3>3, <3>4, <4>1
      <3>5. ASSUME NEW d \in built' \ Immediate PROVE \E i \in 1..Len(funs') : funs'[i] = d
        <4>1. CASE d = e
          <5>1. Len(funs) + 1 \in 1..Len(funs')
            BY <1>5, <3>1
          <5> QED
            BY <3>1, <4>1, <5>1
        <4>2. CASE d # e
          <5>1. PICK i \in 1..Len(funs) : funs[i] = d
            BY <1>1, <3>5, <4>2 DEF Settling, AllRegistered
          <5>2. i \in 1..Len(funs')
            BY <1>5, <3>1
          <5> QED
            BY <3>1, <5>1, <5>2
        <4> QED
          BY <4>1, <4>2
      <3> QED
        BY <3>4, <3>5 DEF AllRegistered
    <2> QED
      BY <2>1, <2>2
  <1>8. Ordered(new)'
    BY <1>4, <1>7 DEF Ordered
  <1> QED
    BY <1>1, <1>3, <1>7, <1>8, IdleSweeps DEF Settling

LEMMA SettlingInit == Init => Settling
  <1> SUFFICES ASSUME Init PROVE Settling
    OBVIOUS
  <1> DEFINE rank == [e \in Root |-> 0]
  <1>1. calm = FALSE /\ funs = <<>> /\ built = {} /\ \A o \in Object : subs[o] = {}
    BY DEF Init
  <1>2. rank \in [Root -> Nat] /\ 1 \in Nat /\ \A e \in Root : rank[e] < 1
    OBVIOUS
  <1> HIDE DEF rank
  <1>3. 1..Len(funs) = {}
    BY <1>1
  <1>4. Ordered(rank) /\ Sweeping(rank) /\ AllRegistered
    BY <1>1, <1>3 DEF Ordered, Sweeping, AllRegistered
  <1> QED
    BY <1>2, <1>4 DEF Settling

LEMMA SettlingStep ==
  ASSUME Inv, Wired, Settling, [Next]_vars
  PROVE  Settling'
  <1>1. CASE Step \/ User \/ \E w \in Watcher : Throw(w)
    BY <1>1, LoopsSettle
  <1>2. CASE UNCHANGED vars
    <2>1. UNCHANGED <<subs, updater, built, funs, calls, calm, val, result, dirty, points>>
      BY <1>2 DEF vars, objects, nodes
    <2>2. \A rank : Sweeping(rank)' = Sweeping(rank)
      BY <2>1 DEF Sweeping, Unlocks, InTurn, Done, Gone
    <2> QED
      BY <2>1, <2>2, SettlingKeeps
  <1>3. ASSUME NEW o \in Object, NEW p \in Object, MoveConstruct(o, p) \/ MoveAssign(o, p)
        PROVE  Settling'
    <2>1. Idle /\ o # p /\ MoveInto(o, p)
      BY <1>3 DEF MoveConstruct, MoveAssign, Live
    <2> QED
      BY <2>1, MoveSettles
  <1> QED
    BY <1>1, <1>2, <1>3, BuildLeafSettles, BuildNarySettles, DiscardSettles, ObserveSettles,
       DestroySettles DEF Next

\* "Evaluating them in this order guarantees that the evaluation order is
\* correct": for any trees and any dependencies among the values of an updater,
\* one update_all() in which no observer sets a value brings all of them up to date,
\* save those whose tree has lost track of an operand, which another value was moved
\* over, and those that a throw has kept a mark from, which has not been made since.
THEOREM UpdateAllSettlesHolds == Spec => []UpdateAllSettles
  <1>1. Inv /\ Wired /\ Settling /\ [Next]_vars => Settling'
    BY SettlingStep
  <1>2. Clean /\ Settling => UpdateAllSettles
    <2> SUFFICES ASSUME Clean, Settling, calls = <<{Unlock}>>, calm,
                        NEW e \in built \ Immediate, Tracks(e), Informed(e)
                 PROVE  UpToDate(e)
      BY DEF UpdateAllSettles
    <2>1. Target(e) \in Object /\ updater[Target(e)] = e /\ e \in Root
      BY DEF Clean, Wired, TypeOK, Updaters, Target
    <2>2. Pending = {Unlock} /\ Len(calls) = 1 /\ Unlocks(calls)
      <3>1. Len(<<{Unlock}>>) = 1 /\ DOMAIN <<{Unlock}>> = {1} /\ <<{Unlock}>>[1] = {Unlock}
            /\ <<{Unlock}>> # <<>>
        OBVIOUS
      <3> QED
        BY <3>1 DEF Pending, Unlocks
    <2>3. PICK i \in 1..Len(funs) : funs[i] = e
      BY DEF Settling, AllRegistered
    <2>4. PICK rank \in [Root -> Nat], k \in Nat : InTurn(calls, rank, k) /\ Done(k)
      BY <2>2 DEF Settling, Sweeping
    <2>5. k = 0
      BY <2>2, <2>4 DEF InTurn
    <2>6. i \in 1..Len(funs) - k
      <3>1. funs \in Seq(Root \ Immediate)
        BY DEF Clean, Wired, TypeOK
      <3> QED
        BY <2>5, <3>1
    <2>7. val[Target(e)] = result[e] /\ (dirty[e] => e \in Gone)
      BY <2>1, <2>3, <2>4, <2>6 DEF Done
    <2>8. MarksOf(e) \cap (Pending \cup missed) = {}
      BY <2>2, DifferentCalls DEF MarksOf, Informed
    <2>9. result[e] = Computed(Now)[e]
      BY <2>1, <2>7, <2>8, TreeIsCurrent
    <2> QED
      BY <2>7, <2>9 DEF UpToDate, Now
  <1> QED
    BY <1>1, <1>2, SettlingInit, InvHolds, WiringHolds, CleanHolds, PTL DEF Spec
=============================================================================
