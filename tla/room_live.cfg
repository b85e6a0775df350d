SPECIFICATION FairSpec
CONSTANTS
  RoomIds = {r1}
  Participants = {p1, p2}
  SessionIds = {s1, s2}
  MatchIds = {m1}
  HumanNames = {ann, bob}
  CpuNames = {1}
  Passphrases = {}
  SeatCounts = {2}
  BrawlSeats = 2
  BrawlThreshold = 100
  SpectatorChoices = {FALSE}
  TeamCount = 1
  Thresholds = {}
  Grace = 1
  SessionTTL = 1
  RoomTTL = 2
  Retention = 1
  MaxSockets = 2
  None = None
PROPERTIES LobbyEnds ExpiredIsRemoved
