SPECIFICATION FairSpec
CONSTANTS
  Conns = {c1}
  MaxConnections = 1
  Starters = {s1}
  Stoppers = {p1, p2}
  NoConn = NoConn
PROPERTIES
  StopReturns
CHECK_DEADLOCK FALSE
