SPECIFICATION Spec
CONSTANTS
  Conns = {n1, n2}
  Calls = {c1}
  NoConn = NoConn
  NoCall = NoCall
  Server = Server
INVARIANTS
  ConnectedMeansReady
CHECK_DEADLOCK FALSE
