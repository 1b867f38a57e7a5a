-------------------------- MODULE MCIntentionGraph --------------------------
(* IntentionGraph on small instances. *)
EXTENDS IntentionGraph, TLC

\* Intentions are interchangeable: no action orders them.
Symmetry == Permutations(Intention)

=============================================================================
