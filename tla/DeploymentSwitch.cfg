SPECIFICATION Spec
CONSTANTS
  Deployment = {1, 2}
  NoDeployment = NoDeployment
  Alone = Alone
  Offered <- AllOperations
INVARIANTS
  TypeOK
  OneRuntimePerProject
  ActiveIsLive
  PredecessorRecoverable
  RunningServes
PROPERTY HealthBeforeSwitch
