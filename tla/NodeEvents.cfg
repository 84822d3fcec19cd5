\* Flushes that are answered, fail, are refused, or are stored without an answer,
\* and a clock that is set back once.
SPECIFICATION Spec
CONSTANTS
  Shadow = FALSE
  AllowFailOpen = TRUE
  MaxLines = 2
  MaxFlushes = 3
  MaxSetBacks = 1
  StartTime = 2
INVARIANTS
  CountsAddUp
  WindowsLeaveNoGap
PROPERTIES
  RefusedOnce
