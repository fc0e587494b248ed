\* One column and one row are enough for an answer without a time.
CONSTANTS
  Uuids = {u1}
  Hosts = {x1}
  Params = {p}
  NoParam = NoParam
  NULL = NULL
  MaxColumns = 1
  MaxRows = 1
  MaxTime = 1
  Reports <- MCReports
  t10m = t10m
  t2h = t2h
  Types <- MCTypes
  Cpu = {p}
  Reading <- MCReading
  Rounding <- MCRounding
  Unit = 1000
  NaN = NaN
  IntLimit = 100
  Earlier <- MCEarlier
SPECIFICATION PerfSpec
INVARIANT SampleHasTime
CHECK_DEADLOCK FALSE
