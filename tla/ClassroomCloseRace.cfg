SPECIFICATION ClassroomSpec
CONSTANTS
  w1 = w1  w2 = w2  v1 = v1  v2 = v2  a1 = a1
  student = student  instructor = instructor
  Worker = {w1}
  Vm = {v1}
  Assignment = {a1}
  Actor = {student, instructor}
  RoleOf <- MCRoleOf
  StudentOf <- MCStudentOf
  StudentMay <- MCStudentMay
  System = System
  Nobody = Nobody
  MaxAttempts = 1
  MaxOps = 3
  MaxTasks = 3
  FaultKind = {}
  MaxFaults = 0
  Fickle = {}
  Requested = {}
  RunEnds = FALSE
PROPERTIES EndedRunQueuesCleanup
CHECK_DEADLOCK FALSE
