SPECIFICATION FairSpec
CONSTANTS
  w1 = w1  w2 = w2  v1 = v1  a1 = a1  student = student  admin = admin
  Worker = {w1}
  Vm = {v1}
  Assignment = {a1}
  Actor = {student, admin}
  RoleOf <- MCRoleOf
  StudentOf <- MCStudentOf
  StudentMay <- MCStudentMay
  System = System
  Nobody = Nobody
  MaxAttempts = 2
  MaxOps = 2
  MaxTasks = 6
  FaultKind = {"crash", "error", "outside"}
  MaxFaults = 1
  Fickle = {}
  Requested = {"create", "start", "stop", "reboot", "delete"}
  RunEnds = TRUE
PROPERTIES OperationsSettle KeepsLivePromise
CHECK_DEADLOCK FALSE
