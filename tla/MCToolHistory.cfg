\* Flushes and rotations with failures, a removal and a crash.
SPECIFICATION Spec
CONSTANTS
  Conns = {c1, c2}
  Legacy = Legacy
  MAX_HISTORY_ENTRIES = 2
  MAX_DISK_ENTRIES = 1
  ROTATION_CHECK_INTERVAL = 2
  OffsetLimit = 4
  MaxCalls = 3
  MaxRemoves = 1
  MaxFaults = 2
  MaxCrashes = 1
INVARIANTS IInv WrittenOnce QueueIsCacheTail
PROPERTIES PagesAreWindows RotationKeepsEnough FlushedInTheEnd ImplementsTracker
\* When everything is written there is nothing left to do.
CHECK_DEADLOCK FALSE
