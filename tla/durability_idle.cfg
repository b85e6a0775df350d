SPECIFICATION Spec
CONSTANTS
  Rooms = {r1, r2}
  Matches = {m1}
  NoMatch = NoMatch
  RoomTtl = 1
  Retention = 2
  PurgeEvery = 1
  LastRevision = 2
  MaxNow = 4
  MaxEdits = 4
  MaxAdmitted = 1
  MaxFaults = 0
  MaxBoots = 1
SYMMETRY Identifiers
INVARIANTS CheckpointsAreNotDisputed
CHECK_DEADLOCK FALSE
