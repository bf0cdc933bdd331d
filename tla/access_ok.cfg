SPECIFICATION Spec
CONSTANTS
  Users = {own, gus}
  Owner = own
  None = None
  SyncUI = FALSE
  MaxVersion = 1
INVARIANT OkMeansSignedIn
