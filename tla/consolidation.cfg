SPECIFICATION DaemonFairSpec
CONSTANTS
  Keys = {k1, k2}
  Ids = {i1, i2}
  h1 = h1
  h2 = h2
  p1 = p1
  p2 = p2
  Hosts = {h1, h2}
  Ports = {p1, p2}
  Endpoints <- MCEndpoints
  None = None
  MaxTargets = 2
  MaxShared = 2
  MaxNodes = 3
  NoPort = p1
  Names = {h1, h2}
  Defaults = {h2}
  CARoots = {k1}
  MaxNames = 2
CHECK_DEADLOCK FALSE
INVARIANTS
  DaemonTypeOK
  SharedExact
  NodesExact
  EndpointAgrees
  TrustsItsSpaces
  EndpointsCached
PROPERTY Ends
