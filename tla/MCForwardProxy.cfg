SPECIFICATION Spec
CONSTANTS
  v4 = v4
  w4 = w4
  v6 = v6
  blocked = blocked
  own = own
  char = char
  Colon = Colon
  NoHost = NoHost
  NoAddress = NoAddress
  Names = {name}
  Literals <- MCLiterals
  Addresses = {v4, w4, v6, blocked, own}
  IPv4 = {v4, w4, own}
  Public = {v4, w4, v6, own}
  LocalSpellings <- MCLocalSpellings
  Answers <- MCAnswers
  Characters = {char, Colon}
  User <- MCUser
  Password <- MCPassword
  AuthValues <- MCAuthValues
  Headers <- MCHeaders
  Ports = {0, 80, 443, 65536}
  ConnectPorts = {443}
INVARIANTS
  OnlyAllowedDialed
  EveryAddressTried
  NothingLeftOpen
  ChallengedUnlessAuthenticated
  OnlyServedRequestsDial
  HopByHopEndsHere
CHECK_DEADLOCK FALSE
