\* A session and three requests: an admin key and a sentinel key of another tenant.
SPECIFICATION Spec
CONSTANTS
  k1 = k1  k2 = k2  t1 = t1  t2 = t2  None = None
  MaxRequests = 3
  Keys <- TwoKeys
  Admin <- FirstOnly
  Browser <- FirstOnly
  TenantOf <- Owner
  FirstKey = k1
  Idle = 1
  Absolute = 3
  MaxTime = 3
INVARIANTS
  RevokedIsRefused
  
PROPERTIES
  SessionsEnd
