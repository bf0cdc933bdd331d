SPECIFICATION Spec
CONSTANTS
  Users = {ann, bob, eve}
  Devices = {d1, d2}
  None = None
  Gone = Gone
  GuestLogins = FALSE
INVARIANT UserKeyIntegrity
