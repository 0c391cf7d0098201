SPECIFICATION FairSpec
CONSTANTS
  NoConn = NoConn
  NoAddress = NoAddress
  Subnet <- MCSubnet
  Hosts <- MCHosts
  c1 = c1
  c2 = c2
  c3 = c3
  c4 = c4
  c5 = c5
  h1 = h1
  h2 = h2
  h3 = h3
  Conns = {c1, c2, c3, c4, c5}
  RemoteAddr <- MCRemoteAddr
  RequestedMax = 2
INVARIANTS
  TypeOK
  CapacityExact
  NoLeakedSocket
  ClientsExact
  LateSweepEmpties
PROPERTIES
  CloseFreesServe
  GateSpec
