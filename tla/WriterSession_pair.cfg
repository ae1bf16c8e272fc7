SPECIFICATION Spec
CONSTANTS
  Sessions = {s1, s2}
  TheDocument = d1
  Documents <- OneDocument
  DocumentOf <- SameDocument
  NoLease = NoLease
  Tasks = {t1}
  Contents = {a, b}
  Gone = Gone
  NoTask = NoTask
  NoSession = NoSession
  MaxWrites = 0
  MaxRestarts = 0
  MaxEdits = 1
  MaxRevisions = 1
SYMMETRY Symmetric
INVARIANTS
  LeaseIndexesAgree
  WriterIsBound
  HumanExcludesProposal
CHECK_DEADLOCK FALSE
