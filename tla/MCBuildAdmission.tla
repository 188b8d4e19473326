-------------------------- MODULE MCBuildAdmission --------------------------
(* Instances of BuildAdmission for TLC. *)
EXTENDS BuildAdmission, TLC

CONSTANTS p1, p2, w1, w2, k1, k2, k3

OneBuild == {1}
TwoBuilds == {1, 2}
OneProjectOf == [b \in Build |-> p1]
TwoProjectsOf == [b \in Build |-> IF b = 1 THEN p1 ELSE p2]

\* A stage whose output is never taken over and one whose output may fail the build.
TwoStages == [QUEUED |-> "INDEXING", INDEXING |-> "VALIDATING", VALIDATING |-> "READY"]

\* A single stage, for the runs about leases.
OneStage == [QUEUED |-> "PACKAGING", PACKAGING |-> "READY"]

Symmetry == Permutations(Worker) \cup Permutations(Token)
=============================================================================
