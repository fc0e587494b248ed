\* Two lookups at once: one returns what the other was looking for.
CONSTANTS
  Threads = {t1, t2}
  h1 = h1
  h2 = h2
  h3 = h3
  Hosts <- MCHosts
  Config <- MCConfig
  Capacity <- MCCapacity
  Hash <- MCHash
  NULL = NULL
SPECIFICATION Spec
INVARIANT ReturnsYourValue
CHECK_DEADLOCK FALSE
