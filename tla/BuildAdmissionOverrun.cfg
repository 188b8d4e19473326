SPECIFICATION Spec
CONSTANTS
  p1 = p1
  p2 = p2
  w1 = w1
  w2 = w2
  k1 = k1
  k2 = k2
  k3 = k3
  Build <- TwoBuilds
  Project = {p1, p2}
  ProjectOf <- TwoProjectsOf
  Worker = {w1, w2}
  Token = {k1, k2, k3}
  NoBuild = NoBuild
  NoToken = NoToken
  NextStatus <- OneStage
  Lease = 1
  Limits = {1}
  MaxRetries = 0
  MaxClaims = 2
  MaxCancels = 2
  Cancellable = {}
SYMMETRY Symmetry
INVARIANT WorkBounded
