\* A line of four bytes and three detectors; numbers as long as they may be, of
\* four of the digits; up to five leaves under a root.
SPECIFICATION Spec
CONSTANTS
  Length = 4
  NumKinds = 3
  IP = 2
  Counted <- FirstAndLast
  MaxMatches = 2
  Readable = 1
  Digits <- SomeDigits
  LeafHashes <- TwoHashes
  MaxLeaves = 5
CHECK_DEADLOCK FALSE
INVARIANTS
  LongestMatchWins
  OnlyMatchesChange
  TyposAreRejected
  
