\* A server that drops its tracker.
SPECIFICATION Spec
CONSTANTS
  Conns = {c1}
  SESSION_TIMEOUT_SECS = 1
  Missing = Missing
  Torn = Torn
  CanShutDown = FALSE
  MaxTracked = 1
  MaxChannel = 1
  Horizon = 0
  MaxFaults = 0
  MaxCrashes = 0
PROPERTY DroppedTrackerStops
CHECK_DEADLOCK FALSE
