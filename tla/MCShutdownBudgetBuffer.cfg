\* The default timeouts and one request.
SPECIFICATION Spec
CONSTANTS
  shutdown_timeout = 30
  drain_timeout = 30
  PER_MANAGER_TIMEOUT = 10
  NHooks = 1
  MaxActive = 1
INVARIANT CleanupFitsBuffer
CHECK_DEADLOCK FALSE
