\* The default timeouts, in seconds, with two hooks.
SPECIFICATION Spec
CONSTANTS
  shutdown_timeout = 30
  drain_timeout = 30
  PER_MANAGER_TIMEOUT = 10
  NHooks = 2
  MaxActive = 2
INVARIANTS IInv EndsInTime SharesSuffice
PROPERTY ImplementsLifecycle
\* A shutdown that is over and answered has nothing left to do.
CHECK_DEADLOCK FALSE
