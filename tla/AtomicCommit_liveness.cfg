SPECIFICATION FairSpec
CONSTANTS
  Commits = {c1}
  Contents = {a, b, d}
  Missing = Missing
  Torn = Torn
  NoCommit = NoCommit
  MaxAttempts = 2
  MaxWrites = 1
  MaxCrashes = 2
  ManualRecovery = TRUE
  RegisterFails = FALSE
PROPERTIES
  EveryCallReturns
  
CHECK_DEADLOCK FALSE
