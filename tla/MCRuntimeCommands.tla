------------------------- MODULE MCRuntimeCommands -------------------------
(* Instances of RuntimeCommands for TLC. *)
EXTENDS RuntimeCommands, TLC

CONSTANTS p1, t1, w1, w2, k1, k2, k3, k4

\* A stop and the deploy that follows it in one transition.
ChainCommand == 1..2
ChainTransitionOf == [c \in ChainCommand |-> t1]
ChainProjectOf == [c \in ChainCommand |-> p1]

Symmetry == Permutations(Worker) \cup Permutations(Token)
=============================================================================
