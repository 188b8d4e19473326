----------------------------- MODULE MCSources -----------------------------
(* Small instances of Sources: up to three source ids, two definitions. *)
EXTENDS Sources, TLC

CONSTANTS s1, s2, s3, a, b, north, south

Symmetry == Permutations({s2, s3})

\* Two executable definitions; a renamed source joins the group of the other.
Definitions == {[name |-> "api", kind |-> "openapi", origin |-> "url"],
                [name |-> "alt", kind |-> "openapi", origin |-> "upload"]}

\* The operation of document a takes either server, that of b only south.
CandidatesOf == (a :> {north, south}) @@ (b :> {south})
InheritsOf == {a}
Routings == {[active |-> None, mapping |-> None], [active |-> north, mapping |-> None]}
\* Many sources and no builds, or one source and two builds.
TwoScales == {[stamps |-> 3, builds |-> 0, sources |-> Source],
              [stamps |-> 2, builds |-> 2, sources |-> {s1}]}
=============================================================================
