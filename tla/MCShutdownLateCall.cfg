\* A TLS handshake that straddles the drain.
SPECIFICATION Spec
CONSTANTS
  Conns = {c1}
  Calls = {k1}
  NHooks = 1
INVARIANT NoCallDuringManagerShutdown
CHECK_DEADLOCK FALSE
