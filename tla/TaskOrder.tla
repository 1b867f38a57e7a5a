------------------------------ MODULE TaskOrder ------------------------------
(***************************************************************************)
(* What the intention graph promises, as the manual states it: a set of    *)
(* tasks under a partial order, where precedence blocks.  A task may be    *)
(* inserted anywhere in the order and leave from anywhere, and the others  *)
(* never notice: an insertion adds constraints and removes none, and when  *)
(* a task goes, exactly the order of the remaining ones remains.           *)
(*                                                                         *)
(* IntentionGraph implements this with precedence pairs whose transitive   *)
(* closure is the order.                                                   *)
(***************************************************************************)
CONSTANT Task

VARIABLES tasks, order

vars == <<tasks, order>>

\* The part of a relation that is about the tasks of S.
Among(S, r) == r \cap (S \X S)

StrictPartialOrder(r) ==
  /\ \A a \in Task : <<a, a>> \notin r
  /\ \A a, b, c \in Task : <<a, b>> \in r /\ <<b, c>> \in r => <<a, c>> \in r

Init == tasks = {} /\ order = {}

\* A task enters; it may order the tasks already there further.
Enter(t) ==
  /\ t \in Task \ tasks
  /\ tasks' = tasks \cup {t}
  /\ order' \in SUBSET (tasks' \X tasks')
  /\ order \subseteq order'
  /\ StrictPartialOrder(order')

Leave(t) ==
  /\ t \in tasks
  /\ tasks' = tasks \ {t}
  /\ order' = Among(tasks', order)

Next == \E t \in Task : Enter(t) \/ Leave(t)

Spec == Init /\ [][Next]_vars

=============================================================================
