SPECIFICATION Spec
CONSTANTS
  Rooms = {r1}
  Matches = {m1, m2}
  NoMatch = NoMatch
  RoomTtl = 1
  Retention = 2
  PurgeEvery = 1
  LastRevision = 2
  MaxNow = 4
  MaxEdits = 4
  MaxAdmitted = 1
  MaxFaults = 1
  MaxBoots = 2
SYMMETRY Identifiers
INVARIANTS AlwaysStarts AnsweredIsStored
CHECK_DEADLOCK FALSE
