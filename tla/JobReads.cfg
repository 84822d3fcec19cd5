\* A POST that fails, stops, sends its XADD twice or is applied late, and two
\* workers that never take longer than Idle over a message, while a tenant
\* reads the job's status, the list of jobs and the compliance report.
SPECIFICATION ReadsSpec
CONSTANTS
  j1 = j1  w1 = w1  w2 = w2  t1 = t1  r1 = r1
  None = None
  Jobs <- OneJob
  MaskJobs <- OneJob
  UnknownType <- NoJobs
  NoTenant <- NoJobs
  NoInput <- NoJobs
  FailingJobs <- NoJobs
  Times <- OneTime
  Workers <- TwoWorkers
  MaxEntries = 2
  MaxPolicy = 0
  MaxSends = 2
  AddFails = TRUE
  StealLive = FALSE
  LoseReplies = TRUE
  MaxCrashes = 1
  GroupAtStart = TRUE
  Readers <- OneReader
CONSTRAINT ReadsBound
SYMMETRY Symmetry
INVARIANTS
  AckedLeavesNoCheckpoint
  QueuedIsReadable
  
  StatusNeverGoesBack
  ReportOmitsNothing
