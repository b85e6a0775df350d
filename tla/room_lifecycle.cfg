SPECIFICATION Spec
CONSTANTS
  RoomIds = {r1}
  Participants = {p1, p2}
  SessionIds = {s1, s2, s3}
  MatchIds = {m1}
  HumanNames = {ann, bob}
  CpuNames = {1, 2, 3}
  Passphrases = {}
  SeatCounts = {2}
  BrawlSeats = 2
  BrawlThreshold = 100
  SpectatorChoices = {TRUE}
  TeamCount = 1
  Thresholds = {}
  Grace = 1
  SessionTTL = 1
  RoomTTL = 1
  Retention = 2
  MaxSockets = 1
  None = None
SYMMETRY IdsAndNames
INVARIANTS TypeOK OneSessionEach ExpiredIsSealed MatchBinding SocketIdentityIsCurrent HostIsPresent
PROPERTIES SeatIsKept 
