SPECIFICATION Spec
CONSTANTS
  Users = {own, gus}
  Owner = own
  None = None
  SyncUI = FALSE
  MaxVersion = 2
INVARIANTS
  TypeOK
  GuestAdmission
  ActiveWasApproved
  TargetsAsRecent
  LostIsFetchedAgain
  SessionAgrees
  PostedAsOneself
  LostToLogout
  LoginCanGoOn
