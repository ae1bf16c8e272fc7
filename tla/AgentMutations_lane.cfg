SPECIFICATION FairSpec
CONSTANTS
  Calls = {c1, c2}
  k1 = k1
  k2 = k2
  Commands <- TheCommands
  Denied <- TheDenied
  Targets <- TheTargets
  Within <- LiesWithin
  RawParts <- TheRawParts
  NoPart = NoPart
  Signatures = {finding}
  Parts <- TheParts
  Contents <- TheContents
  Absent = "absent"
  Checksum <- IdentityOf
  Canonical <- CanonicalOf
  Unreadable = {"too_large"}
  Xml = {"slide1", "sheet1", "theme", "rels"}
  HighRisk = {"theme"}
  Relationships = {"rels"}
  DocProps = {}
  WordBody = {}
  SheetParts = {"sheet1"}
  SlideParts <- TheSlideParts
  Refs <- TheRefs
  Paths <- ThePaths
  RealPath <- Resolution
  StagingPath <- CopyOf
  NoCommand = NoCommand
  NoHash = NoHash
INVARIANTS
  TypeOK
  ReceiptMeansApplied
  FlushSealsEdits
  NothingSurvivesAbort
PROPERTIES
  AcknowledgedOnce
  EveryCallSettles
CHECK_DEADLOCK FALSE
