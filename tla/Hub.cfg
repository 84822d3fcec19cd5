\* Two connections, three events of two tenants, and a subscription that holds one.
SPECIFICATION HubFairSpec
CONSTANTS
  c1 = c1  c2 = c2  t1 = t1  t2 = t2
  Conns <- TwoConns
  Tenants <- TwoTenants
  MaxMessages = 3
  Buffer = 1
CHECK_DEADLOCK FALSE
INVARIANTS
  EveryEventOnce

  
