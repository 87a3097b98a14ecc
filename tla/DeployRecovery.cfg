SPECIFICATION DeploymentSpec
CONSTANTS
  admin = admin  worker = worker
  Caller <- MCCaller
  UpdateWorker = worker
  OpId <- MCOpId
  MaxVersion = 2
  MaxWrites = 1
  MaxHostFaults = 2
  AdminRuns = {"apply", "rollback"}
  Polled = TRUE

PROPERTIES FailedRecoveryStopsApi
CHECK_DEADLOCK FALSE
