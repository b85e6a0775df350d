SPECIFICATION Spec
CONSTANTS
  Players <- TwoSet
  Team <- SelfTeam
  Catalog <- SmallCatalog
  MaxResource = 3
  NoAttack <- NoAttackIs
  Seats <- Two
  Decks <- DuelDecks
  HandSize = 2
  MaxHand = 2
  StartingWealth <- SmallWealth
  Never = Never
  GuardianNames = {"mars", "earth"}
  NoGuardian = "NOBODY"
  ReviveHp = 1
  BowDamage = 3
  DoomDamage = 3
  DiseaseHp <- SmallDisease
  MaxReactionDepth = 2
  ConfusionRounds = 1
  MaxTurns = 3
  MaxDemons = 1
  MaxCalls = 12
  MaxSelect = 2
INVARIANTS TypeOK   NeverThrows
PROPERTIES TurnProtocolHolds
