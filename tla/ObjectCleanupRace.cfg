SPECIFICATION LiveSpec
CONSTANTS
  k1 = k1
  s1 = s1
  s2 = s2
  u1 = u1
  u2 = u2
  c1 = c1
  c2 = c2
  Key = {k1}
  Owner = {s1, s2}
  InitialOwner = {s1, s2}
  InitialRefs <- TwoRefs
  Writer = {u2}
  Upload = {u2}
  KeyOf <- SameKey
  OwnerOf <- SecondOwner
  Cleaner = {c1, c2}
  NoTarget = NoTarget
  MaxAttempts = 2
  MaxClaims = 2
CHECK_DEADLOCK FALSE
INVARIANTS
  TypeOK
  OrphanIsScheduled
  NoLockCycle
PROPERTIES
  DeletionIsSafe
  SettledStays
  OrphansReclaimed
