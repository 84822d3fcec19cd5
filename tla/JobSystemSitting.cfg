\* A job queued before the first worker has created the group.
SPECIFICATION FairSpec
CONSTANTS
  j1 = j1  j2 = j2  j3 = j3  j4 = j4  w1 = w1  w2 = w2  t1 = t1  t2 = t2
  None = None
  Jobs <- OneJob
  MaskJobs <- NoJobs
  UnknownType <- NoJobs
  NoTenant <- NoJobs
  NoInput <- NoJobs
  FailingJobs <- NoJobs
  Times <- OneTime
  Workers <- OneWorker
  MaxEntries = 2
  MaxPolicy = 1
  MaxSends = 1
  AddFails = FALSE
  StealLive = TRUE
  LoseReplies = FALSE
  MaxCrashes = 0
  GroupAtStart = FALSE
PROPERTIES
  QueuedIsSettled
