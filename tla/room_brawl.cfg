SPECIFICATION Spec
CONSTANTS
  RoomIds = {r1}
  Participants = {p1, p2}
  SessionIds = {s1, s2}
  MatchIds = {m1}
  HumanNames = {ann, bob}
  CpuNames = {1, 2, 3}
  Passphrases = {open}
  SeatCounts = {}
  BrawlSeats = 2
  BrawlThreshold = 100
  SpectatorChoices = {FALSE}
  TeamCount = 2
  Thresholds = {100}
  Grace = 1
  SessionTTL = 1
  RoomTTL = 1
  Retention = 1
  MaxSockets = 1
  None = None
SYMMETRY IdsAndNames
INVARIANTS SeatBinding
PROPERTIES StartedRoomIsFrozen
