SPECIFICATION FairSpec
CONSTANTS
  Humans = {ann}
  Bots = {cpu}
  CommandIds = {c1, c2}
  Contents = {play, wild}
  LegalContents = {play}
  TurnTime = 1
  CpuLimit = 1
  MaxEvents = 1
  MaxRevision = 4
  MaxRequests = 2
  MaxSockets = 2
  MaxCrashes = 1
  Nobody = Nobody

INVARIANTS TypeOK PublishedIsDurable  SameCommandSameAnswer HumanInputIsTimed 
PROPERTIES  DeadlineIsNeverExtended 
