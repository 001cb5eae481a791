\* Two connections, two calls and two hooks, with TLS and without.
SPECIFICATION Spec
CONSTANTS
  Conns = {c1, c2}
  Calls = {k1, k2}
  NHooks = 2
INVARIANTS TypeOK IInv ActiveCountsGuards HandleIsHonest
PROPERTIES DrainMeansIdle ImplementsLifecycle
\* The server stops for good once its handle has been used.
CHECK_DEADLOCK FALSE
