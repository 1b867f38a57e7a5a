---------------------------- MODULE MCReferences ----------------------------
(* Checks References: which goal, instance or thread is which matters not. *)
EXTENDS References

Symmetry == Permutations(Goal) \cup Permutations(Instance) \cup Permutations(Tib)

=============================================================================
