SPECIFICATION Spec
CONSTANTS
  Callers = {p1, p2}
  Nobody = Nobody
  Pairs = {k1}
  NoPair = NoPair
  Conns = {c1}
INVARIANTS
  UnavailableMeansFailing
