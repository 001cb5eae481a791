\* A call under way when its connection is deleted.
SPECIFICATION Spec
CONSTANTS
  Conns = {c1}
  NoConn = NoConn
  Calls = {k1}
  Deletes = {d1}
INVARIANT DroppedConnectionForgotten
CHECK_DEADLOCK FALSE
