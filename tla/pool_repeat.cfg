SPECIFICATION FairSpec
CONSTANTS
  Callers = {c1, c2}
  Spaces = {s1}
  Clients = {a1, a2, a3}
  None = None
  Careless = {c2}
  MaxAbandoned = 1
INVARIANTS
  HandedOutRunning
  RunningIsPooled
PROPERTIES
  GetReturns
  ReleaseReturns
