SPECIFICATION FairSpec
CONSTANTS
  Calls = {c1, c2}
  MaxSpawns = 2
  MaxSheets = 1
INVARIANTS
  TypeOK
  OneSidecar
  SessionsAreClosed
PROPERTY
  EveryReadSettles
CHECK_DEADLOCK FALSE
