-------------------------- MODULE MCObjectCleanup --------------------------
(* Instances of ObjectCleanup for TLC. *)
EXTENDS ObjectCleanup

CONSTANTS k1, s1, s2, u1, u2, c1, c2

TwoRefs == {<<s1, k1>>, <<s2, k1>>}

SameKey == [w \in Writer |-> k1]
SecondOwner == [w \in Writer |-> s2]
=============================================================================
