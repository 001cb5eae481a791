\* A write under way during a rotation.
SPECIFICATION Spec
CONSTANTS
  Conns = {c1}
  Legacy = Legacy
  MAX_HISTORY_ENTRIES = 1
  MAX_DISK_ENTRIES = 1
  ROTATION_CHECK_INTERVAL = 2
  OffsetLimit = 4
  MaxCalls = 3
  MaxRemoves = 0
  MaxFaults = 0
  MaxCrashes = 0
PROPERTY RotationKeepsNewest
\* When everything is written there is nothing left to do.
CHECK_DEADLOCK FALSE
