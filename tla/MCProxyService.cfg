SPECIFICATION FairSpec
CONSTANTS
  Callers = {p1, p2, p3}
  Nobody = Nobody
  Pairs = {k1, k2}
  NoPair = NoPair
  Conns = {c1}
INVARIANTS
  TypeOK
  AtRest
  StopLeavesNothing
  StoreFollowsStart
PROPERTIES
  StopReturns
  ComesToRest
  LifeSpec
