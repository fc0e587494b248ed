\* Two workers and an HTTP thread on one connection, two jobs, two documents,
\* a refused request, a loss of the connection and a signal at any moment.
CONSTANTS
  Workers = {w1, w2}
  Readers = {r1}
  Keys = {k1, k2}
  MaxJobs = 2
  MaxErrors = 1
  Main = Main
  NULL = NULL
SPECIFICATION FairSpec
INVARIANTS TypeOK UniqueDocument ReportStored LockDiscipline ExitCutsNoReport
PROPERTIES ImplementsStore JobEnds ExitHookEnds
CHECK_DEADLOCK FALSE
