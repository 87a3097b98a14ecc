SPECIFICATION Spec
CONSTANTS
  w1 = w1  w2 = w2  v1 = v1  a1 = a1  student = student  admin = admin
  Worker = {w1, w2}
  Vm = {v1}
  Assignment = {a1}
  Actor = {student, admin}
  RoleOf <- MCRoleOf
  StudentOf <- MCStudentOf
  StudentMay <- MCStudentMay
  System = System
  Nobody = Nobody
  MaxAttempts = 2
  MaxOps = 2
  MaxTasks = 2
  FaultKind = {"crash", "stall", "error"}
  MaxFaults = 2
  Fickle = {student}
  Requested = {"start", "delete"}
  RunEnds = FALSE
SYMMETRY WorkerSymmetry
INVARIANTS TypeOK LeaseExclusive AssignmentLinksLive 
PROPERTIES TerminalIsFinal NoFalseSuccess RecordedTaskNotRepeated
CHECK_DEADLOCK FALSE
