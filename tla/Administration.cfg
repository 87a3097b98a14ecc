SPECIFICATION AdministrationSpec
CONSTANTS
  User = {u1, u2}
  Request = {r1, r2}
  Asked <- RequestKind
  MaxTokens = 2
  MaxRevocations = 1
  Org = {o1}
  Member = {m1, m2, m3}
  ChangeId = {x1, x2}
  Attempt = {t1, t2, t3}
  MaxFailures = 3
  Seat = {a1, a2}
  Submission = {q1, q2}
  NewLab = {q1}
  Save = {s1, s2}
  SetupRun = {1, 2}
  LabPool = {p1, p2}
  MaxRuns = 3
  MaxCloudFaults = 2
  Bootstrap = {b1, b2}
  ClusterName = {n1, n2}
  None = None
  Site = Site
  MaxSetupFaults = 2
  MaxManualTokens = 1
  Refresh = {f1, f2}
  Import = {i1}
  CatalogRow = {g1, g2}
  ServerOf = {c1, c2}
  TemplateId = {101}
  TemplateNode = {h1, h2}
  NoServer = NoServer
  MaxEdits = 1
INVARIANTS
  AdministrationTypeOK
  RevocationReachesOld
  
  OwnerRemains
  LockoutHolds
  SetupOnce
  EditsBuildOnLatest
  RerunRecovers
  BootstrapAllOrNothing
  NoDoubleImport
PROPERTIES
  EnrolmentIsFirst
  LinkedVmKeepsAssignment
  PublicationIsLast
CHECK_DEADLOCK FALSE
