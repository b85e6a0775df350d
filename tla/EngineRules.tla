---------------------------- MODULE EngineRules ----------------------------
(* The rules of the game engine that only compute: what a card is, which     *)
(* elements stop which, what a reaction does, who pays what, who is next and *)
(* how a match ends.  Engine builds its handlers from them.                  *)
EXTENDS Integers, FiniteSets, Sequences

CONSTANTS
  Players,      \* the playerIds of the match
  Team,         \* Team[p]: the team of p; a player without one is a team alone
  Catalog,      \* the definitions of the cards; a card kind is its definition
  MaxResource,  \* MAX_RESOURCE, the cap of HP, MP and money
  NoAttack      \* the attack amount of a card that carries no usable attack

ASSUME PlayersAssumption == IsFiniteSet(Players) /\ Players # {}
ASSUME ResourceAssumption == MaxResource \in Nat \ {0}
ASSUME NoAttackAssumption == NoAttack \in Int /\ NoAttack < 0

Elements == {"PHYSICAL", "FIRE", "WATER", "WOOD", "EARTH", "LIGHT", "DARK"}
Least(a, b) == IF a <= b THEN a ELSE b
Most(a, b) == IF a >= b THEN a ELSE b

clampResource(n) == Most(0, Least(MaxResource, n))

---------------------------------------------------------------------------
(* Cards                                                                     *)

Has(k, op) == op \in k.ops
HasTiming(k, when) == \E c \in k.calamities : c.timing = when

(* "CURRENT_MP_X2" and the numbers; the attacks worth the damage received    *)
(* ("DAMAGE", "DAMAGE_X2") are the field counter and no usable amount.       *)
primaryAttackAmount(k, mp) ==
  IF Has(k, "CURRENT_MP_X2") THEN 2 * mp ELSE k.attack

attackStandsAlone(k) ==
  \/ k.attack # NoAttack
  \/ Has(k, "CURRENT_MP_X2")
  \/ k.counter > 0

isDiscardableDefinition(k) ==
  /\ k.category \in {"ARMOR", "GOODS", "MIRACLE", "TRADE"}
  /\ ~Has(k, "REVIVE") /\ ~Has(k, "ATTRACT_DANGER")

DirectOperations ==
  {"SET_GUARDIAN", "REMOVE_ITEMS", "REMOVE_USED_MIRACLES", "CALL_PHENOMENON"}

Boosts(k) == {r \in {"hp", "mp", "money"} : k.boost[r] # 0}

(* A miracle or goods card whose instructions are all of the direct kind.    *)
isSupportedDirectAction(k) ==
  /\ k.category \in {"MIRACLE", "GOODS"}
  /\ \/ Boosts(k) # {} \/ k.cure # "NONE" \/ k.damage > 0
     \/ HasTiming(k, "IMMEDIATE") \/ HasTiming(k, "SELF")
     \/ k.ops \cap DirectOperations # {}
  /\ k.ops \subseteq DirectOperations
  /\ ~attackStandsAlone(k) /\ k.defense = 0 /\ k.paint = "NONE"
  /\ ~HasTiming(k, "ON_DAMAGE") /\ ~HasTiming(k, "COUNTER")

(* Cures and boosts of HP or MP only: they may be used on anybody alive.     *)
isSupportiveDirectAction(k) ==
  /\ Boosts(k) # {} \/ k.cure # "NONE"
  /\ Boosts(k) \subseteq {"hp", "mp"}
  /\ \A r \in Boosts(k) : k.boost[r] > 0
  /\ k.ops = {} /\ k.calamities = {}
  /\ ~attackStandsAlone(k) /\ k.defense = 0
  /\ k.damage = 0 /\ k.paint = "NONE"

directEffectTargetsEnemy(k) ==
  HasTiming(k, "IMMEDIATE") \/ Has(k, "REMOVE_ITEMS") \/ Has(k, "REMOVE_USED_MIRACLES")

---------------------------------------------------------------------------
(* Elements and reactions                                                    *)

combineElements(es) ==
  IF es = {} THEN "PHYSICAL"
  ELSE IF Cardinality(es) = 1 THEN CHOOSE e \in es : TRUE
  ELSE IF "PHYSICAL" \in es \/ "DARK" \in es THEN "PHYSICAL"
  ELSE IF Cardinality(es \ {"LIGHT"}) = 1 THEN CHOOSE e \in es \ {"LIGHT"} : TRUE
  ELSE "PHYSICAL"

Opposite == [FIRE |-> "WATER", WATER |-> "FIRE", WOOD |-> "EARTH", EARTH |-> "WOOD"]

canDefenseBlock(defence, attack) ==
  \/ attack \in {"DARK", "PHYSICAL"}
  \/ attack \in DOMAIN Opposite /\ defence \in {"LIGHT", Opposite[attack]}

(* "NONE" is the code's null.  BLOCK is looked for before REFLECT and BOUNCE. *)
FirstOf(k, block, reflect, bounce) ==
  IF Has(k, block) THEN "BLOCK"
  ELSE IF Has(k, reflect) THEN "REFLECT"
  ELSE IF Has(k, bounce) THEN "BOUNCE" ELSE "NONE"

reactionEffectFor(k, attackKind, element) ==
  IF Has(k, "REFLECT_ANYTHING") THEN "REFLECT"
  ELSE IF attackKind = "WEAPON" /\ element = "PHYSICAL"
       THEN FirstOf(k, "BLOCK_WEAPON", "REFLECT_WEAPON", "BOUNCE_WEAPON")
  ELSE IF attackKind = "MIRACLE"
       THEN FirstOf(k, "BLOCK_MIRACLE", "REFLECT_MIRACLE", "BOUNCE_MIRACLE")
  ELSE "NONE"

(* A counter that is aimed at the attacker, as opposed to one that pays MP.  *)
CountersAttacker(k) ==
  k.counter > 0 \/ HasTiming(k, "COUNTER") \/ Has(k, "TAKE_DAMAGE_MONEY")

hasCounterOrFilterEffect(k) ==
  CountersAttacker(k) \/ k.counterMp > 0 \/ Has(k, "FILTER_ATTACK_ELEMENT")

---------------------------------------------------------------------------
(* Prices: money first, then MP, then HP                                     *)

canPayPrice(money, mp, hp, price) == money + mp + hp >= price

Payment(money, mp, price) ==
  LET moneyPaid == Least(money, price)
      mpPaid == Least(mp, price - moneyPaid)
  IN [money |-> moneyPaid, mp |-> mpPaid, hp |-> price - moneyPaid - mpPaid]

---------------------------------------------------------------------------
(* Turns and results                                                         *)

areOpponents(p, q) == p # q /\ Team[p] # Team[q]
EnemiesOf(p, alive) == {q \in alive : areOpponents(p, q)}

(* The first player alive after the cursor in the turn order; the player of  *)
(* the cursor itself comes last.                                             *)
NextAlive(order, cursor, alive) ==
  LET n == Len(order)
      at(offset) == order[((cursor + offset - 1) % n) + 1]
      found == {o \in 1..n : at(o) \in alive}
  IN at(CHOOSE o \in found : \A other \in found : o <= other)

NoResult == [kind |-> "NONE", winners |-> {}]
Draw == [kind |-> "DRAW", winners |-> {}]

(* Two players lost in one turn, or nobody is left: a draw.  One team: it wins. *)
currentMatchResult(alive, defeated) ==
  IF Cardinality(defeated) >= 2 \/ alive = {} THEN Draw
  ELSE IF \A p, q \in alive : Team[p] = Team[q]
       THEN [kind |-> "WIN", winners |-> alive]
       ELSE NoResult
=============================================================================
