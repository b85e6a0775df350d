SPECIFICATION FairSpec
CONSTANTS
  Players <- ThreeSet
  Team <- PairTeam
  Catalog <- SmallCatalog
  MaxResource = 3
  NoAttack <- NoAttackIs
  Seats <- Three
  Decks <- TrioDecks
  HandSize = 1
  MaxHand = 1
  StartingWealth <- SmallWealth
  Never = Never
  GuardianNames = {"mars", "earth"}
  NoGuardian = "NOBODY"
  ReviveHp = 1
  BowDamage = 3
  DoomDamage = 3
  DiseaseHp <- SmallDisease
  MaxReactionDepth = 2
  ConfusionRounds = 1
  MaxTurns = 3
  MaxDemons = 1
  MaxCalls = 12
  MaxSelect = 2
INVARIANTS SelfIsNeverAsked 
PROPERTIES InputsResolve
