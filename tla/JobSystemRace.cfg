\* One job and two workers, each of which may be handed the entry the other is
\* working on; the policy may change between two runs of the job.
SPECIFICATION FairSpec
CONSTANTS
  j1 = j1  j2 = j2  j3 = j3  j4 = j4  w1 = w1  w2 = w2  t1 = t1  t2 = t2
  None = None
  Jobs <- OneJob
  MaskJobs <- NoJobs
  UnknownType <- NoJobs
  NoTenant <- NoJobs
  NoInput <- NoJobs
  FailingJobs <- NoJobs
  Times <- TwoTimes
  Workers <- TwoWorkers
  MaxEntries = 2
  MaxPolicy = 1
  MaxSends = 1
  AddFails = FALSE
  StealLive = TRUE
  LoseReplies = TRUE
  MaxCrashes = 1
  GroupAtStart = TRUE
INVARIANTS
  NoJobLost
  PurgeTimesAgree
  PurgeLoggedOnce
  AckedIsPurged
PROPERTIES
  LifecycleSpec
  QueuedIsSettled
