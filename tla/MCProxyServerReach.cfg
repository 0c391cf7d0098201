SPECIFICATION Spec
CONSTANTS
  Conns = {c1}
  MaxConnections = 1
  Starters = {s1}
  Stoppers = {p1, p2}
  NoConn = NoConn
INVARIANTS
  RunningIsReachable
CHECK_DEADLOCK FALSE
