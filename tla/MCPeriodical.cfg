\* Two periodical threads walk three hosts, round after round.
CONSTANTS
  t10m = t10m
  t2h = t2h
  h1 = h1
  h2 = h2
  Periods <- MCPeriods
  Hosts <- MCHosts
  Config <- MCConfig
  Capacity <- MCCapacity
  Hash <- MCHash
  MAX_XEN_HOST = 4
  NULL = NULL
SPECIFICATION FairSpec
INVARIANTS TypeOK RoundComplete LookupAfterLogin
PROPERTIES NoThreadCrashes EveryHostPolled
CHECK_DEADLOCK FALSE
