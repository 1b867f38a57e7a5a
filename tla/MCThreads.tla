------------------------------ MODULE MCThreads ------------------------------
(* Instances of Threads for TLC. *)
EXTENDS Threads, TLC

Symmetry == Permutations(Tib)

NoRisk == {}
WaitBelow == {"wait"}

=============================================================================
