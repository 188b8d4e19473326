SPECIFICATION LiveSpec
CONSTANTS
  p1 = p1
  t1 = t1
  w1 = w1
  w2 = w2
  k1 = k1
  k2 = k2
  k3 = k3
  k4 = k4
  Command <- ChainCommand
  Transition = {t1}
  TransitionOf <- ChainTransitionOf
  Project = {p1}
  ProjectOf <- ChainProjectOf
  Worker = {w1}
  Token = {k1, k2}
  NoCommand = NoCommand
  NoToken = NoToken
  NoWorker = NoWorker
  DispatchLease = 1
  ExecutionLease = 2
  DispatchRetry = 1
  RetryDelays = {1}
  BatchSize = 2
  MaxRedelivery = 0
PROPERTY CommandSettles
