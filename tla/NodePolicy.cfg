\* Two PUTs, an outage, a revoked key, two faults and a restart.
SPECIFICATION FairSpec
CONSTANTS
  a1 = a1  a2 = a2
  Admins <- TwoAdmins
  MaxKeys = 4
  MaxRuns = 2
  Attempts = 2
  MaxFaults = 2
  MaxRevokes = 1
  MaxOutages = 1
  MaxBoots = 2
CHECK_DEADLOCK FALSE
INVARIANTS
  SameEtagSamePolicy
  EnsuredKeyWorks
  
PROPERTIES
  PolicyArrives
