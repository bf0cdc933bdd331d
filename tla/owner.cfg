SPECIFICATION Spec
CONSTANTS
  Users = {ann, bob, eve}
  Devices = {d1, d2}
  None = None
  Gone = Gone
  GuestLogins = TRUE
SYMMETRY Symmetry
INVARIANTS
  TypeOK
  DiskComplete
  RegisteredToOwner
PROPERTIES
  OwnerChangeConfirmed
  UnregisterConfirmed
  KeyBeforeDisk
  ImplementsOwnerTransfer
