SPECIFICATION Spec
CONSTANTS
  Sessions = {s1}
  TheDocument = d1
  Documents <- OneDocument
  DocumentOf <- SameDocument
  NoLease = NoLease
  Tasks = {t1, t2}
  Contents = {a, b}
  Gone = Gone
  NoTask = NoTask
  NoSession = NoSession
  MaxWrites = 1
  MaxRestarts = 1
  MaxEdits = 0
  MaxRevisions = 1
SYMMETRY Symmetric
INVARIANTS
  TypeOK
  OneProposal
PROPERTIES
  FencingTokensGrow
  AcceptsSealReportedBytes
  NothingForeignIsOverwritten
CHECK_DEADLOCK FALSE
