\* Three lookups at once in a table whose chains collide and wrap around.
CONSTANTS
  Threads = {t1, t2, t3}
  h1 = h1
  h2 = h2
  h3 = h3
  Hosts <- MCHosts
  Config <- MCConfig
  Capacity <- MCCapacity
  Hash <- MCHash
  NULL = NULL
SPECIFICATION FairSpec
INVARIANTS TypeOK ChainsIntact NeverNull
PROPERTIES StopsAtOwnKey SearchApproaches GetReturns
CHECK_DEADLOCK FALSE
