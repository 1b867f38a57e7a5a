------------------------------ MODULE FactBase ------------------------------
(***************************************************************************)
(* What the database of a kernel promises, whatever its index: it is a set *)
(* of facts.  Concluding a fact removes those it replaces and adds it,     *)
(* unless it denies a fact of a closed-world or functional predicate: that *)
(* only removes.                                                           *)
(* Retracting removes the instances of a pattern.  Basic events are gone   *)
(* once the events of a turn have been considered.                         *)
(*                                                                         *)
(* What a fact replaces (its negation, or the other value of a function)   *)
(* is what database.c makes of it, not what doc/oprs-kernel.tex says:      *)
(* - a basic event does not replace its negation, though its negation      *)
(*   replaces it, where the document has the negation of every fact that   *)
(*   is concluded retracted (2960-2961);                                   *)
(* - what denies a closed-world fact removes that fact, where the document *)
(*   has concluding it ignored, a no-op (2963, 3123).                      *)
(***************************************************************************)

CONSTANTS
  Fact,
  Pattern,
  Storable,              \* the facts that concluding adds
  BasicEvent,        \* those of basic events
  Replaced(_),       \* the facts that concluding a fact removes, in the code
  Instances(_)       \* the facts that a pattern stands for

VARIABLE facts

Init == facts = {}

Conclude(f) == facts' = (facts \ Replaced(f)) \cup ({f} \cap Storable)

Retract(q) == facts' = facts \ Instances(q)

Clear == facts' = {}

EndTurn == facts' = facts \ BasicEvent

Next ==
  \/ \E f \in Fact : Conclude(f)
  \/ \E q \in Pattern : Retract(q)
  \/ EndTurn \/ Clear

Spec == Init /\ [][Next]_facts

=============================================================================
