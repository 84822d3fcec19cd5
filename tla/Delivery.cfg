\* Three requests at once for a link of one or two views, around its expiry.
SPECIFICATION FairSpec
CONSTANTS
  l1 = l1  q1 = q1  q2 = q2  q3 = q3
  None = None
  Links <- OneLink
  Requests <- ThreeRequests
  MaxViews = 2
  Lifetime = 1
  MaxClock = 1
INVARIANTS
  ViewsBounded
  ExpiredIsClosed
PROPERTIES
  EveryOpenEnds
