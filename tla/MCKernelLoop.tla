---------------------------- MODULE MCKernelLoop ----------------------------
(* Instances of KernelLoop for TLC. *)
EXTENDS KernelLoop

BothLoops == {"client", "graphical"}
Client == {"client"}
Graphical == {"graphical"}
BothLevels == {TRUE, FALSE}
MetaLevel == {TRUE}
Senders == {"peer"}
FewEvents == [s \in Senders \cup {"server", "thread", "goal"} |-> IF s = "peer" THEN 2 ELSE 1]

=============================================================================
