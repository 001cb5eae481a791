\* One connection, one call, one hook and a little memory.
SPECIFICATION Spec
CONSTANTS
  Conns = {c1}
  Calls = {k1}
  NHooks = 1
  Levels = {1, 2, 3}
  Threshold = 2
  None = None
INVARIANTS TypeOK OkMeansStopped FailedStartLeaves
PROPERTIES SignalEndsRun CancelStopsWatchers LeakIsReported
\* A process that has ended has nothing left to do.
CHECK_DEADLOCK FALSE
