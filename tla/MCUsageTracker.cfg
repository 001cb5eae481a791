\* Calls, deletes, saves, failures, a shutdown and a crash at any step.
SPECIFICATION Spec
CONSTANTS
  Conns = {c1, c2}
  SESSION_TIMEOUT_SECS = 0
  Missing = Missing
  Torn = Torn
  CanShutDown = TRUE
  MaxTracked = 2
  MaxChannel = 2
  Horizon = 1
  MaxFaults = 1
  MaxCrashes = 1
INVARIANTS IInv StatsAddUp FileIsWhole ShutdownSaves
PROPERTIES SavedCountsSurvive EverythingSaved ImplementsTracker
\* A stopped tracker has nothing left to do.
CHECK_DEADLOCK FALSE
