SPECIFICATION LiveSpec
CONSTANTS
  Deployment = {1, 2}
  NoDeployment = NoDeployment
  Alone = Alone
  Offered = {"request", "stopProject"}
CHECK_DEADLOCK FALSE
PROPERTIES
  StopHonoured
  DeploymentSettles
