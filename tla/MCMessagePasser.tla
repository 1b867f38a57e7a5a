--------------------------- MODULE MCMessagePasser ---------------------------
(* MessagePasser for TLC: who uses which names, and symmetric clients. *)
EXTENDS MessagePasser, TLC

\* The clients are also names, and each uses its own.
OwnName == [c \in Client |-> {c}]

\* Any client may use any name, so that they compete for them.
AnyName == [c \in Client |-> Name]

Symmetry == Permutations(Client)

=============================================================================
