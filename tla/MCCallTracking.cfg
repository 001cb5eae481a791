\* Two calls and two deletes in every interleaving, on one or two connections.
SPECIFICATION Spec
CONSTANTS
  Conns = {c1, c2}
  NoConn = NoConn
  Calls = {k1, k2}
  Deletes = {d1, d2}
SYMMETRY Handlers
INVARIANTS IInv HistoryImpliesStats OrderlyDeleteForgets
\* Once every handler has returned there is nothing left to do.
CHECK_DEADLOCK FALSE
