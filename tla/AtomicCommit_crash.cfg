SPECIFICATION Spec
CONSTANTS
  Commits = {c1, c2}
  Contents = {a, b, d}
  Missing = Missing
  Torn = Torn
  NoCommit = NoCommit
  MaxAttempts = 2
  MaxWrites = 1
  MaxCrashes = 2
  ManualRecovery = FALSE
  RegisterFails = TRUE
SYMMETRY Symmetric
INVARIANTS
  TypeOK
  JournalMatchesLog
  LogMatchesFile
  RevisionsWereOnDisk
  AnswersAreFinal
  CommitInv
PROPERTIES
  ReplaceIsSealed
  ResolvedIsFinal
  ImplementsPromise
CHECK_DEADLOCK FALSE
