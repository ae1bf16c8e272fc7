SPECIFICATION Spec
CONSTANTS
  Commits = {c1, c2}
  Contents = {a, b}
  Missing = Missing
  Torn = Torn
  NoCommit = NoCommit
  MaxAttempts = 2
  MaxWrites = 0
  MaxCrashes = 0
  ManualRecovery = TRUE
  RegisterFails = FALSE
INVARIANT
  AcknowledgedIsFinalized
CHECK_DEADLOCK FALSE
