SPECIFICATION Spec
CONSTANTS
  Conns = {c1, c2}
  MaxConnections = 2
  Starters = {s1, s2}
  Stoppers = {p1, p2}
  NoConn = NoConn
INVARIANTS
  OneShutdown
  StoppedIsQuiet
  CleanStopMeansGone
  WaitersShareVerdict
PROPERTIES
  ContractSpec
SYMMETRY Symmetry
CHECK_DEADLOCK FALSE
