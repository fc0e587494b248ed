\* One worker and one HTTP thread are enough for a wrong answer, although
\* mongod refuses nothing.
CONSTANTS
  Workers = {w1}
  Readers = {r1}
  Keys = {k1, k2}
  MaxJobs = 2
  MaxErrors = 0
  Main = Main
  NULL = NULL
SPECIFICATION Spec
PROPERTY InsertOnlyIfAbsent
CHECK_DEADLOCK FALSE
