SPECIFICATION FairSpec
CONSTANTS
  Calls = {c1, c2}
  Signalled = {c1}
  MaxVersion = 2
  NoKey = NoKey
  None = None
  Versions <- TheVersions
  Profiles <- TheProfiles
  Tickets <- TheTickets
INVARIANTS
  TypeOK
  AnswersAreFresh
  UnretriedIsOneVersion
  NothingOutlivesItsConsumers

  
CHECK_DEADLOCK FALSE
