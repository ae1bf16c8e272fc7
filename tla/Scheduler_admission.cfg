SPECIFICATION FairSpec
CONSTANTS
  build = build
  render = render
  hash = hash
  resident = resident
  Jobs <- TheJobs
  Residents = {resident}
  Holders <- TheHolders
  Classes <- TheClasses
  Slots <- TheSlots
  Request <- TheRequest
  MemoryBudget = 8
  FreeJobs = {hash}
  Tracked = {build}
  Superseded = {render}
  Priorities = {1, 2}
  MaxConcurrent = 2
  MaxQueuePerPriority = 1
  Caches <- TheCaches
  CacheSizes <- TheCacheSizes
INVARIANTS
  TypeOK
  LedgerIsExact
  NoLostWakeup
PROPERTIES
  LightJobsSettle
CHECK_DEADLOCK FALSE
