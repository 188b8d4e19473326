SPECIFICATION Spec
CONSTANTS
  p1 = p1
  p2 = p2
  w1 = w1
  w2 = w2
  k1 = k1
  k2 = k2
  k3 = k3
  Build <- OneBuild
  Project = {p1}
  ProjectOf <- OneProjectOf
  Worker = {w1, w2}
  Token = {k1, k2}
  NoBuild = NoBuild
  NoToken = NoToken
  NextStatus <- TwoStages
  Lease = 1
  Limits = {1}
  MaxRetries = 0
  MaxClaims = 1
  MaxCancels = 1
  Cancellable = {1}
SYMMETRY Symmetry
INVARIANTS
  CancellationWins
  OutputsPrecede
  LeaseCoversWork
  CancelledIsBare
PROPERTY StagesMonotone
