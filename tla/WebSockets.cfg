SPECIFICATION Spec
CONSTANTS
  Conns = {n1, n2}
  Calls = {c1, c2}
  NoConn = NoConn
  NoCall = NoCall
  Server = Server
SYMMETRY Symmetry
INVARIANTS
  OneResult
  PendingExact
  StateSettles
  LossEndsCall
CHECK_DEADLOCK FALSE
