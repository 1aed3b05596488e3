---------------------------- MODULE MCExpression ----------------------------
(* A value a of the user.  m mirrors a and c mirrors r, which may be what m *)
(* or i updates, both when the updater says so; i = a /\ j, j = a, at once. *)
(* Every value may be moved into any other.                                 *)
EXTENDS Expression

MCPath == "m" :> {"m"} @@ "c" :> {"c"} @@ "i" :> {"i"}
       @@ "ia" :> {"ia", "i"} @@ "j" :> {"j", "i"} @@ "ja" :> {"ja", "j", "i"}
MCOperand == "m" :> "a" @@ "c" :> "r" @@ "ia" :> "a" @@ "ja" :> "a"
MCOp(n, f) == IF \A k \in DOMAIN f : f[k] = 1 THEN 1 ELSE 0
WatcherSymmetry == Permutations(Watcher)

\* What makes the states many, in any combination: values moved from or dead, calls
\* missed, trees that are not observed.  One of them at a time goes with observers of
\* the user, two go with none.
Over  == {o \in Object : state[o] \in {"moved", "dead"}}
Loose == {e \in Root \ built : made \cap Tree[e] # {}}
Alone == heard = [w \in Watcher |-> SomeInput] /\ Tells \cap (Pending \cup UNION {subs[o] : o \in Object}) = {}
MCBound ==
  Cardinality(Over) + Cardinality(missed) + Cardinality(Loose) <= IF Alone THEN 2 ELSE 1
=============================================================================
