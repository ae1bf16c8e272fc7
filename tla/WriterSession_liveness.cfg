SPECIFICATION FairSpec
CONSTANTS
  Sessions = {s1}
  TheDocument = d1
  Documents <- OneDocument
  DocumentOf <- SameDocument
  NoLease = NoLease
  Tasks = {t1}
  Contents = {a, b}
  Gone = Gone
  NoTask = NoTask
  NoSession = NoSession
  MaxWrites = 0
  MaxRestarts = 1
  MaxEdits = 1
  MaxRevisions = 2

  
PROPERTIES
  OperationsSettle
CHECK_DEADLOCK FALSE
