SPECIFICATION Spec
CONSTANTS
  w1 = w1  w2 = w2  v1 = v1  a1 = a1  student = student  admin = admin
  Worker = {w1}
  Vm = {v1}
  Assignment = {a1}
  Actor = {student, admin}
  RoleOf <- MCRoleOf
  StudentOf <- MCStudentOf
  StudentMay <- MCStudentMay
  System = System
  Nobody = Nobody
  MaxAttempts = 2
  MaxOps = 2
  MaxTasks = 2
  FaultKind = {"error"}
  MaxFaults = 1
  Fickle = {}
  Requested = {"create", "delete"}
  RunEnds = FALSE
PROPERTIES CloneNeedsRecord
CHECK_DEADLOCK FALSE
