SPECIFICATION MeshSpec
CONSTANTS
  Callers = {mesh, hangup, c1}
  Spaces = {s1}
  Clients = {a1, a2}
  None = None
  Careless = {mesh, hangup}
  MaxAbandoned = 1
  Mesh = mesh
  Hangup = hangup
  Darwin = TRUE
  MaxDisconnects = 1
  MaxLate = 1
INVARIANT DisconnectClears
