SPECIFICATION FairSpec
CONSTANTS
  Users = {own, gus}
  Owner = own
  None = None
  SyncUI = TRUE
  MaxVersion = 1
PROPERTY LoginAnswers
