\* Two VMs, two hosts, legends of up to three columns, up to two rows; two types.
CONSTANTS
  Uuids = {u1, u2}
  Hosts = {x1, x2}
  Params = {p}
  NoParam = NoParam
  NULL = NULL
  MaxColumns = 3
  MaxRows = 2
  MaxTime = 2
  Reports <- MCReports
  t10m = t10m
  t2h = t2h
  Types <- MCTypes
  Cpu = {p}
  Reading <- MCReading
  Rounding <- MCRounding
  Unit = 1000
  NaN = NaN
  IntLimit = 100
  Earlier <- MCEarlier
SPECIFICATION PerfSpec
INVARIANTS TypeOK NothingMissing NewestSoFar AnswerIsReport
PROPERTY OtherAnswersStay
CHECK_DEADLOCK FALSE
