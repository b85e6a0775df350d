SPECIFICATION FairSpec
CONSTANTS
  None = None
  Bursts <- SomeBursts
  LastBurst <- Finish
  EventHistoryLimit = 2
  RecentImportantEventLimit = 1
  MaxEvents = 4
  MaxWire = 2
  MaxDrops = 1
  MaxMatches = 2
CHECK_DEADLOCK FALSE
INVARIANTS BatchesJoin  SettledHidesNothing
 
