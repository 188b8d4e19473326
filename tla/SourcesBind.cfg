CONSTANTS
    s1 = s1
    s2 = s2
    s3 = s3
    Source = {s1, s2, s3}
    Content = {a, b}
    a = a
    b = b
    north = north
    south = south
    Definition <- Definitions
    Candidates <- CandidatesOf
    Inherits <- InheritsOf
    Routing <- Routings
    Editor = {r1}
    Builder = {r2}
    None = None
    Keep = 1
    Bounds <- TwoScales
SYMMETRY Symmetry
SPECIFICATION Spec
INVARIANTS OnePrimary PinsKept RoutableBuilds SelectionExists
