SPECIFICATION Spec
CONSTANTS
  Callers = {c1, c2, c3}
  Spaces = {s1, s2}
  Clients = {a1, a2, a3, a4}
  None = None
  Careless = {}
  MaxAbandoned = 2
SYMMETRY Symmetry
INVARIANTS
  TypeOK
  NoUseAfterStop
  RefsConserved
  RunningIsPooled
PROPERTIES
  AbandonedStaysRunning
  ImplementsClientLease
