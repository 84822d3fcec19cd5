\* Two callers on a queue of one, with the code's limit of five failures.
SPECIFICATION FairSpec
CONSTANTS
  reader = reader  other = other
  Callers <- TwoCallers
  QueueCap = 1
  Limit = 5
  MaxTimers = 2
INVARIANTS
  NeverStuckOpen
  HeldIsAccepted
PROPERTIES
  BreakerRecovers
  HandleReturns
