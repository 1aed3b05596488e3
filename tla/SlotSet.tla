------------------------------ MODULE SlotSet -------------------------------
(***************************************************************************)
(* What nu::Signal promises (include/nativeui/signal.h), without its       *)
(* vector: a set of connected slots, each with an identifier never used    *)
(* before, and emissions that call the slots that were connected when they *)
(* began, in the order of connection, each of them once, whatever the      *)
(* slots do to the signal meanwhile.                                       *)
(***************************************************************************)
EXTENDS Naturals, Sequences

CONSTANT Id    \* identifiers, numbers in the order in which they are given

VARIABLES
  connected,   \* identifiers of the connected slots
  given,       \* identifiers that connect() has returned
  due          \* for every emission in progress, the innermost first: the
               \* slots it has yet to call, and the one it is calling
vars == <<connected, given, due>>

Init == connected = {} /\ given = {} /\ due = <<>>

Connect == \E id \in Id :
  /\ \A g \in given : id > g
  /\ connected' = connected \cup {id} /\ given' = given \cup {id}
  /\ UNCHANGED due

Disconnect(id) ==
  /\ connected' = connected \ {id}
  /\ UNCHANGED <<given, due>>

DisconnectAll == connected' = {} /\ UNCHANGED <<given, due>>

Emit ==
  /\ due' = <<[left |-> connected, now |-> {}]>> \o due
  /\ UNCHANGED <<connected, given>>

\* The innermost emission calls the oldest slot it has left.
Call == \E id \in Id :
  /\ due # <<>> /\ due[1].now = {} /\ id \in due[1].left
  /\ \A other \in due[1].left : id <= other
  /\ due' = [due EXCEPT ![1] = [left |-> @.left \ {id}, now |-> {id}]]
  /\ UNCHANGED <<connected, given>>

Return ==
  /\ due # <<>> /\ due[1].now # {}
  /\ due' = [due EXCEPT ![1].now = {}]
  /\ UNCHANGED <<connected, given>>

\* An emission ends when no slot is left, or, if its slots return a boolean,
\* with one that returns true.
Over ==
  /\ due # <<>> /\ due[1].left = {} /\ due[1].now = {}
  /\ due' = Tail(due)
  /\ UNCHANGED <<connected, given>>

Handled ==
  /\ due # <<>> /\ due[1].now # {}
  /\ due' = Tail(due)
  /\ UNCHANGED <<connected, given>>

Next ==
  \/ Connect \/ DisconnectAll \/ Emit \/ Call \/ Return \/ Over \/ Handled
  \/ \E id \in given : Disconnect(id)

Spec == Init /\ [][Next]_vars
=============================================================================
