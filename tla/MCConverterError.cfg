\* Two columns are enough for a report that is listed in part.
CONSTANTS
  Uuids = {u1}
  Hosts = {x1}
  Params = {p}
  NoParam = NoParam
  NULL = NULL
  MaxColumns = 2
  MaxRows = 1
  MaxTime = 1
  Reports <- MCReports
SPECIFICATION Spec
INVARIANT ErrorReturnsNothing
CHECK_DEADLOCK FALSE
