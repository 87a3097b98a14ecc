SPECIFICATION BackgroundSpec
CONSTANTS
  c1 = c1
  c2 = c2
  Conn <- MCConn
  Uses <- MCUses
  LeftOver = {c2}
  Limit = 1
  MaxRevision = 1
  MaxRestarts = 1
  MaxPageBeats = 1
  SyncWorker = {w1, w2}
  SyncNode = {n1}
  MaxJobs = 2
  MaxDownloads = 4
  MaxSyncFaults = 2
  Process = {w1, w2}
  Vm = {v1, v2}
  MaxChanges = 2
  MaxReconFaults = 2
INVARIANTS
  BackgroundTypeOK
  EndedConsoleIsReported
  OnePassInTime
PROPERTIES
  ConsoleDoesNotOutliveAccess
  AbandonedSessionsEnd
  RecordedDownloadNotRepeated
  SyncJobsSettle
  StatusConverges
CHECK_DEADLOCK FALSE
