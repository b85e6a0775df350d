SPECIFICATION Spec
CONSTANTS
  Players <- TwoSet
  Team <- SelfTeam
  Catalog <- SmallCatalog
  MaxResource = 3
  NoAttack <- NoAttackIs
  Seats <- Two
  Decks <- CounterDecks
  HandSize = 1
  MaxHand = 2
  StartingWealth <- SmallWealth
  Never = Never
  GuardianNames = {"earth"}
  NoGuardian = "NOBODY"
  ReviveHp = 1
  BowDamage = 3
  DoomDamage = 3
  DiseaseHp <- SmallDisease
  MaxReactionDepth = 2
  ConfusionRounds = 1
  MaxTurns = 2
  MaxDemons = 1
  MaxCalls = 12
  MaxSelect = 2
INVARIANTS CpuIsNeverRefused
