------------------------------- MODULE Engine -------------------------------
(* The game engine: handleCommand and everything one accepted command sets   *)
(* in motion, up to the next input that is asked for or the end of the match. *)
(*                                                                           *)
(* A handler runs to completion, so a command is one step.  What it does is  *)
(* a set-valued operator: Op(s, ...) is the set of states the code may leave *)
(* when it runs Op in s, one for each outcome of the random draws it makes.  *)
(* A draw is a choice among its candidates, whatever their weights.          *)
(*                                                                           *)
(* A card is its definition, called its kind, and a number that tells it     *)
(* from equal cards of the same hand.  Names, texts, dream disguises,        *)
(* deadlines and controllers are left out; EngineRules says what a card does. *)
EXTENDS EngineRules, SequencesExt

CONSTANTS
  Seats,        \* the players in seat order
  Decks,        \* the matches: the cards, demons and phenomena drawn, the end time
  HandSize,     \* INITIAL_HAND_SIZE
  MaxHand,      \* MAX_HAND_SIZE
  StartingWealth, \* INITIAL_HP, INITIAL_MP and INITIAL_MONEY
  Never,        \* the endTimeThreshold null
  GuardianNames, NoGuardian,
  ReviveHp,     \* the HP a sun amulet gives back
  BowDamage,    \* what the ascension bow does
  DoomDamage,   \* what the dangerous pestle does to the holder of the mortar
  DiseaseHp,    \* DiseaseHp[d]: what disease d does at the end of a turn
  MaxReactionDepth, \* MAX_REACTION_CHAIN_DEPTH
  ConfusionRounds, \* the rounds of a confusion (3)
  MaxTurns,     \* bound: no command is given after this many turns
  MaxDemons,    \* bound: demons met within one grant
  MaxCalls,     \* bound: handlers that call each other within one command
  MaxSelect     \* bound: cards and miracles selected by one command

VARIABLES
  state,        \* the MatchState
  threw         \* the last command made the engine throw
vars == <<state, threw>>

ASSUME SeatsAssumption == {Seats[i] : i \in DOMAIN Seats} = Players /\ Len(Seats) = Cardinality(Players)
ASSUME BoundsAssumption ==
  {HandSize, MaxHand, MaxReactionDepth, MaxTurns, MaxDemons, MaxCalls, MaxSelect} \subseteq Nat

InSeatOrder(ps) == SelectSeq(Seats, LAMBDA p : p \in ps)
Alive(s) == {p \in Players : s.alive[p]}
isEnemy(s, p, q) == q \in EnemiesOf(p, Alive(s))
CardsWith(s, p, op) == {c \in s.hand[p] : Has(c.kind, op)}

NoAction == [kind |-> "NONE"]
NoPostTurn == [actor |-> "NONE"]
NoPhenomenon == [source |-> "NONE"]
NoEffect == [kind |-> "NONE"]
NoGrants == [p \in Players |-> 0]

---------------------------------------------------------------------------
(* Hands and grants                                                          *)

(* A number for a new card of kind k of p: it must not make the card one     *)
(* that a pending offer or sale names.                                       *)
NamedBy(a) ==
  CASE a.kind = "TRADE_CONFIRMATION" -> {a.offered}
    [] a.kind = "ATTACK" /\ a.deferred.kind \in {"SELL", "OFFER"} -> {a.deferred.card}
    [] OTHER -> {}
NewCard(s, p, k) ==
  LET taken == s.hand[p] \cup s.learned[p] \cup NamedBy(s.pending)
      n == CHOOSE i \in 1..(Cardinality(taken) + 1) :
             /\ [kind |-> k, n |-> i] \notin taken
             /\ \A j \in 1..(i - 1) : [kind |-> k, n |-> j] \in taken
  IN [kind |-> k, n |-> n]

(* Mutant: the hand has no limit. *)
AddToHandUnlimited(s, p, card) == {[s EXCEPT !.hand[p] = @ \cup {card}]}

(* The card joins the hand; over the limit one of the old cards is discarded. *)
AddToHand(s, p, card) ==
  LET t == [s EXCEPT !.hand[p] = @ \cup {card}]
  IN IF Cardinality(t.hand[p]) > MaxHand
     THEN {[t EXCEPT !.hand[p] = @ \ {old}] : old \in s.hand[p]}
     ELSE {t}

grantStandardArtifact(s, p) ==
  UNION {AddToHand(s, p, NewCard(s, p, k)) : k \in s.deck.grants}

Departed(s, p) == [s EXCEPT !.guardian[p] = NoGuardian]
maybeDepartGuardianAfterHpLoss(s, p, loss) ==
  IF s.guardian[p] # NoGuardian /\ loss > 0 THEN {s, Departed(s, p)} ELSE {s}

SetHp(s, p, n) == [s EXCEPT !.hp[p] = clampResource(n)]

(* Mutant: who is lost is not counted for the turn. *)
AscendedUncounted(s, p) == [s EXCEPT !.alive[p] = FALSE, !.hp[p] = 0]

Ascended(s, p) ==
  [s EXCEPT !.alive[p] = FALSE, !.hp[p] = 0, !.defeated = @ \cup {p}]

Revived(s, p) ==
  LET amulet == CHOOSE c \in CardsWith(s, p, "REVIVE") : TRUE
      t == [s EXCEPT !.hand[p] = @ \ {amulet}, !.hp[p] = ReviveHp]
  IN IF t.pending.kind = "ATTACK"
     THEN [t EXCEPT !.pending.revivals[p] = @ + 1] ELSE t

(* resolveHpZero when nobody else is to blame.                               *)
HpZeroByItself(s, p) ==
  IF s.hp[p] > 0 THEN {s}
  ELSE IF CardsWith(s, p, "REVIVE") # {} THEN {Revived(s, p)}
  ELSE {Ascended(s, p)}

(* The ascension bow hits the source before its holder ascends.              *)
ShotBack(s, source) ==
  LET loss == Least(s.hp[source], BowDamage)
  IN UNION {maybeDepartGuardianAfterHpLoss(t, source, loss) :
              t \in HpZeroByItself(SetHp(s, source, s.hp[source] - BowDamage), source)}

resolveHpZero(s, p, source, ignoreRevival) ==
  IF s.hp[p] > 0 THEN {s}
  ELSE IF CardsWith(s, p, "REVIVE") # {} /\ ~ignoreRevival THEN {Revived(s, p)}
  ELSE IF source # p /\ CardsWith(s, p, "ATTACK_DYINGLY") # {}
       THEN LET bow == CHOOSE c \in CardsWith(s, p, "ATTACK_DYINGLY") : TRUE
                t == [s EXCEPT !.hand[p] = @ \ {bow}]
                shot == IF source \in Alive(t) THEN ShotBack(t, source) ELSE {}
            IN {Ascended(u, p) : u \in {t} \cup shot}
  ELSE {Ascended(s, p)}

(* Damage nobody else caused: HP, the HP-zero interrupt, the guardian.       *)
LoseHp(s, p, n) ==
  UNION {maybeDepartGuardianAfterHpLoss(t, p, Least(n, s.hp[p])) :
           t \in HpZeroByItself(SetHp(s, p, s.hp[p] - n), p)}

Removable(s, p) == s.hand[p] \cup s.learned[p]
StealOne(s, p) ==
  IF p \notin Alive(s) \/ Removable(s, p) = {} THEN {s}
  ELSE {[s EXCEPT !.hand[p] = @ \ {c}] : c \in s.hand[p]}
       \cup {[s EXCEPT !.learned[p] = @ \ {c}] : c \in s.learned[p]}
StealTwo(s, p) == UNION {StealOne(t, p) : t \in StealOne(s, p)}

Boost(s, p, resource, n) ==
  CASE resource = "hp" -> [s EXCEPT !.hp[p] = clampResource(@ + n)]
    [] resource = "mp" -> [s EXCEPT !.mp[p] = clampResource(@ + n)]
    [] OTHER -> [s EXCEPT !.money[p] = clampResource(@ + n)]

BoostAll(s, p, amounts) ==
  Boost(Boost(Boost(s, p, "hp", amounts.hp), p, "mp", amounts.mp), p, "money", amounts.money)

resolveDemonEffect(s, p, k) ==
  LET hurt == IF k.damage > 0 THEN LoseHp(s, p, k.damage) ELSE {s}
      robbed(t) == IF Has(k, "REMOVE_SOMETHING") THEN StealTwo(t, p) ELSE {t}
      gained(t) == IF p \notin Alive(t) \/ ~Has(k, "BOOST_SOMETHING") THEN {t}
                   ELSE {Boost(t, p, r, k.boost[r]) : r \in Boosts(k)}
  IN UNION {gained(t) : t \in UNION {robbed(u) : u \in hurt}}

(* Once the end time is reached demons may come before the card; a player    *)
(* they kill loses the grant.                                                *)
EndTimeGrant(s, p) ==
  LET met[n \in 0..MaxDemons] ==
        IF n = 0 THEN {s}
        ELSE UNION {UNION {resolveDemonEffect(t, p, d) : d \in t.deck.demons} :
                      t \in {u \in met[n - 1] : p \in Alive(u)}}
  IN UNION {IF p \in Alive(t) THEN grantStandardArtifact(t, p) ELSE {t} :
              t \in UNION {met[n] : n \in 0..MaxDemons}}

resolveNormalGrant(s, p) ==
  IF p \notin Alive(s) THEN {s}
  ELSE IF s.endTimeActive THEN EndTimeGrant(s, p)
  ELSE grantStandardArtifact(s, p)

(* A card for everybody on a list, one after the other.                      *)
GrantAll(S, list) ==
  LET after[i \in 0..Len(list)] ==
        IF i = 0 THEN S ELSE UNION {resolveNormalGrant(s, list[i]) : s \in after[i - 1]}
  IN after[Len(list)]
Grants(S, p, n) == GrantAll(S, [i \in 1..n |-> p])
(* For each player in seat order, as many cards as are counted for him.      *)
GrantEach(S, counts) ==
  LET after[i \in 0..Len(Seats)] ==
        IF i = 0 THEN S ELSE Grants(after[i - 1], Seats[i], counts[Seats[i]])
  IN after[Len(Seats)]

---------------------------------------------------------------------------
(* Calamities and guardians                                                  *)

DISEASE_ORDER == <<"COLD", "FEVER", "HELL_SICKNESS", "HEAVEN_SICKNESS">>
Diseases == {DISEASE_ORDER[i] : i \in DOMAIN DISEASE_ORDER}
DiseaseIndex(d) == CHOOSE i \in DOMAIN DISEASE_ORDER : DISEASE_ORDER[i] = d
currentDiseaseOf(s, p) ==
  LET ill == s.calamities[p] \cap Diseases
  IN IF ill = {} THEN "NONE"
     ELSE CHOOSE d \in ill : \A e \in ill : DiseaseIndex(e) <= DiseaseIndex(d)

applyCalamityHpChange(s, p, delta) ==
  IF p \notin Alive(s) \/ delta = 0 THEN {s}
  ELSE LET t == SetHp(s, p, s.hp[p] + delta)
       IN UNION {maybeDepartGuardianAfterHpLoss(u, p, Most(0, s.hp[p] - t.hp[p]))
                   : u \in HpZeroByItself(t, p)}

(* The last disease does not worsen: it kills.                               *)
worsenDisease(s, p, d) ==
  IF d = "HEAVEN_SICKNESS" THEN applyCalamityHpChange(s, p, -s.hp[p])
  ELSE {[s EXCEPT !.calamities[p] = (@ \ {d}) \cup {DISEASE_ORDER[DiseaseIndex(d) + 1]}]}

applyCalamityEffect(s, p, c) ==
  IF p \notin Alive(s) THEN {s}
  ELSE IF c \notin Diseases THEN {[s EXCEPT !.calamities[p] = @ \cup {c}]}
  ELSE LET now == currentDiseaseOf(s, p)
       IN IF now = "NONE" \/ (now # "NONE" /\ DiseaseIndex(c) > DiseaseIndex(now))
          THEN {[s EXCEPT !.calamities[p] = (@ \ Diseases) \cup {c}]}
          ELSE worsenDisease(s, p, now)
(* Of a list of pairs of a player and a calamity, one after the other.       *)
applyCalamities(S, list) ==
  LET after[i \in 0..Len(list)] ==
        IF i = 0 THEN S
        ELSE UNION {applyCalamityEffect(s, list[i][1], list[i][2]) : s \in after[i - 1]}
  IN after[Len(list)]
(* What cards of these kinds bring the players at a time, calamity by         *)
(* calamity.                                                                 *)
Calamities == Diseases \cup {"FOG", "FLASH", "DREAM", "DARK_CLOUD"}
Brought(ks, when) ==
  {c \in Calamities : \E k \in ks : [calamity |-> c, timing |-> when] \in k.calamities}
CalamitiesFor(players, ks, when) ==
  LET brought == SetToSeq(Brought(ks, when))
      n == Len(players)
  IN [i \in 1..(Len(brought) * n) |->
       <<players[((i - 1) % n) + 1], brought[((i - 1) \div n) + 1]>>]

resolveTurnEndDisease(s, p) ==
  LET d == currentDiseaseOf(s, p)
      ache(t) == applyCalamityHpChange(t, p, DiseaseHp[currentDiseaseOf(t, p)])
  IN IF p \notin Alive(s) \/ d = "NONE" THEN {s}
     ELSE ache(s) \cup (IF d = "HEAVEN_SICKNESS" THEN worsenDisease(s, p, d)
                        ELSE UNION {ache(t) : t \in worsenDisease(s, p, d)})

removeCalamities(s, p, scope) ==
  [s EXCEPT !.calamities[p] =
     IF scope = "ALL" THEN {} ELSE @ \ {"COLD", "FEVER", "FOG", "FLASH"}]

(* A name nobody's guardian has; the guardian the player had is replaced.    *)
assignRandomGuardian(s, p) ==
  LET free == GuardianNames \ {s.guardian[q] : q \in Players}
  IN IF free = {} THEN {s} ELSE {[s EXCEPT !.guardian[p] = g] : g \in free}

---------------------------------------------------------------------------
(* Cards lost, exchanged and shuffled                                        *)

FewerCards(cards, count) == {cards \ gone : gone \in kSubset(Least(count, Cardinality(cards)), cards)}
removeRandomArtifacts(s, p, count) ==
  {[s EXCEPT !.hand[p] = cards] : cards \in FewerCards(s.hand[p], count)}
removeRandomLearnedMiracles(s, p, count) ==
  {[s EXCEPT !.learned[p] = cards] : cards \in FewerCards(s.learned[p], count)}

redrawArtifactHand(s, p) ==
  Grants({[s EXCEPT !.hand[p] = {}]}, p, Cardinality(s.hand[p]))

(* The hands once the cards of a list went to whom f gives them to.          *)
HandsDealt(s, list, f) ==
  LET hands[i \in 0..Len(list)] ==
        IF i = 0 THEN [p \in Players |-> {}]
        ELSE LET before == hands[i - 1]
                 card == NewCard([s EXCEPT !.hand = before], f[list[i]], list[i].card.kind)
             IN [before EXCEPT ![f[list[i]]] = @ \cup {card}]
  IN hands[Len(list)]

(* The hands of the living are dealt again, each as large as it was; the     *)
(* event lists no hand of the dead, which become empty.                      *)
shuffleArtifactsOfEverybody(s) ==
  LET living == Alive(s)
      cards == UNION {{[owner |-> p, card |-> c] : c \in s.hand[p]} : p \in living}
      deals == {f \in [cards -> living] :
                  \A p \in living : Cardinality({x \in cards : f[x] = p}) = Cardinality(s.hand[p])}
  IN {[s EXCEPT !.hand = HandsDealt(s, SetToSeq(cards), f)] : f \in deals}

collectEverybodyMoney(s) ==
  LET total == FoldLeft(LAMBDA sum, p : sum + s.money[p], 0, InSeatOrder(Alive(s)))
  IN {[s EXCEPT !.money = [p \in Players |->
         IF p = winner THEN clampResource(total) ELSE IF p \in Alive(s) THEN 0 ELSE s.money[p]]]
        : winner \in Alive(s)}

---------------------------------------------------------------------------
(* The turn: closing it, what happens by itself after it, the next one       *)

Ended(s, result) ==
  [s EXCEPT !.phase = "MATCH_ENDED", !.active = "NONE", !.pending = NoAction,
            !.post = NoPostTurn, !.phenomenon = NoPhenomenon, !.result = result]
CountGf(s) ==
  [s EXCEPT !.gf = @ + 1,
            !.endTimeActive = s.endTime # Never /\ s.gf + 1 >= s.endTime]
ResultOf(s) == currentMatchResult(Alive(s), s.defeated)

(* Mutant: the turn passes to the next seat, whether its player is alive or   *)
(* not.                                                                      *)
openNextTurnOrEndForAll(s) ==
  IF ResultOf(s) # NoResult THEN Ended(s, ResultOf(s))
  ELSE LET next == NextAlive(s.order, s.cursor, Players)
       IN [CountGf(s) EXCEPT
             !.phase = "ACTION_SELECTION", !.active = next,
             !.cursor = CHOOSE i \in DOMAIN s.order : s.order[i] = next,
             !.pending = NoAction, !.post = NoPostTurn, !.defeated = {}]

openNextTurnOrEnd(s) ==
  IF ResultOf(s) # NoResult THEN Ended(s, ResultOf(s))
  ELSE LET next == NextAlive(s.order, s.cursor, Alive(s))
       IN [CountGf(s) EXCEPT
             !.phase = "ACTION_SELECTION", !.active = next,
             !.cursor = CHOOSE i \in DOMAIN s.order : s.order[i] = next,
             !.pending = NoAction, !.post = NoPostTurn, !.defeated = {}]

(* The handlers below end by calling each other in a circle.  Such a call is  *)
(* kept in "then", and Resolved makes it.                                    *)
Nothing == [call |-> "NOTHING"]
Then(s, call) == [s EXCEPT !.then = [call |-> call]]
ThenFor(s, call, attack) == [s EXCEPT !.then = [call |-> call, attack |-> attack]]
CloseTurn(s) == Then(s, "continuePostTurnAutomaticEffects")
GoOnConfused(s) == Then(s, "continueConfusionActions")
Advance(s, a) == ThenFor(s, "advanceAfterAttackStep", a)
Complete(s, a) == ThenFor(s, "completeAttack", a)

finishTurn(s, actor) ==
  LET guarded == {p \in Alive(s) : s.guardian[p] # NoGuardian /\ areOpponents(p, actor)}
  IN CloseTurn(
       [s EXCEPT !.phase = "TURN_CLOSE", !.pending = NoAction,
                 !.post = [actor |-> actor, guardians |-> InSeatOrder(guarded), next |-> 1]])

completeConfusionAction(s) ==
  IF s.phase = "MATCH_ENDED" \/ s.phenomenon = NoPhenomenon THEN s
  ELSE GoOnConfused([s EXCEPT !.phenomenon.next = @ + 1])

(* The attacker's cards are replaced, then the defenders', then the amulets  *)
(* that were counted when the attack was completed; then the turn closes, or *)
(* what the attack interrupted goes on.                                      *)
completeAttack(s, a) ==
  {CASE a.completion = "RESUME_POST_TURN" -> CloseTurn(t)
     [] a.completion = "RESUME_PHENOMENON" -> completeConfusionAction(t)
     [] OTHER -> finishTurn(t, a.owner)
   : t \in GrantEach(GrantEach(Grants({s}, a.owner, a.attackerGrants), a.defenseGrants),
                     a.revivals)}

---------------------------------------------------------------------------
(* Attacks                                                                   *)

Doomed(s, sources, p) ==
  (\E k \in sources : k.id = "dangerous-pestle") /\ CardsWith(s, p, "ATTRACT_DANGER") # {}

(* What the attack does to p behind this much defence.                       *)
AttackDamage(s, a, p, defence) ==
  LET power == IF Doomed(s, a.sources, p) THEN DoomDamage ELSE a.power
      residual == Most(0, power - defence)
  IN IF p \notin Alive(s) THEN 0
     ELSE IF a.element = "DARK" /\ residual > 0 THEN s.hp[p] ELSE residual

(* Damage, the HP-zero interrupt, the guardian; then, if it hurt, calamities, *)
(* absorption by the attacker and the same damage to who declared the action. *)
resolvePendingAttackDamage(s, a, p, defence) ==
  LET amount == AttackDamage(s, a, p, defence)
      absorbs(t) == (\E k \in a.sources : Has(k, "ABSORB_HP")) /\ a.actor \in Alive(t)
      recoils(t) == (\E k \in a.sources : Has(k, "DEAL_SAME_DAMAGE")) /\ a.owner \in Alive(t)
      feeds(t) == IF absorbs(t) THEN Boost(t, a.actor, "hp", amount) ELSE t
      hurts(t) ==
        UNION {IF recoils(u) THEN LoseHp(u, a.owner, a.power) ELSE {u} :
                 u \in {feeds(v) : v \in applyCalamities({t}, CalamitiesFor(<<p>>, a.sources, "ON_DAMAGE"))}}
      struck == UNION {maybeDepartGuardianAfterHpLoss(t, p, Least(amount, s.hp[p])) :
                         t \in resolveHpZero(SetHp(s, p, s.hp[p] - amount), p, a.actor,
                                             Doomed(s, a.sources, p))}
  IN IF p \notin Alive(s) THEN {s}
     ELSE UNION {IF amount = 0 THEN {t} ELSE hurts(t) : t \in struck}

(* The attack on target index of the plan, for the number-th time.  What the *)
(* steps of this series have used so far stays; a counter it waited for goes. *)
AttackCreated(s, plan, index, number) ==
  LET target == plan.targets[index]
      before == s.pending
      same == before.kind = "ATTACK"
  IN [s EXCEPT !.pending =
        [kind |-> "ATTACK", attackKind |-> plan.attackKind, owner |-> plan.owner,
         actor |-> plan.owner, target |-> target, targets |-> plan.targets,
         index |-> index, number |-> number, total |-> plan.total,
         element |-> plan.element, power |-> plan.power, chance |-> plan.chance,
         sources |-> plan.sources, attackerGrants |-> plan.attackerGrants,
         defenseGrants |-> IF same THEN before.defenseGrants ELSE NoGrants,
         revivals |-> IF same THEN before.revivals ELSE NoGrants,
         completion |-> plan.completion, depth |-> 1, deferred |-> NoEffect]]

Waiting(s) == s.phase = "REACTION_SELECTION"

(* Strike number on target index: a miss goes on, damage to oneself and the   *)
(* pestle's doom happen at once, any other hit waits for the reaction of its  *)
(* target.                                                                   *)
AttackStep(s, plan, index, number) ==
  LET target == plan.targets[index]
      t == AttackCreated(s, plan, index, number)
      atOnce == target = plan.owner \/ Doomed(t, plan.sources, target)
      hit == IF atOnce THEN resolvePendingAttackDamage(t, t.pending, target, 0)
             ELSE {[t EXCEPT !.phase = "REACTION_SELECTION"]}
      canMiss == plan.chance /\ "DARK_CLOUD" \notin t.calamities[target]
  IN IF target \notin Alive(s) THEN {s} ELSE hit \cup (IF canMiss THEN {t} ELSE {})

(* From that strike on, target by target and as often as the weapon strikes   *)
(* each, until one waits.  At the end of the list nothing waits.             *)
startAttackSeriesStep(s, plan, index, number) ==
  LET strikes == Len(plan.targets) * plan.total
      first == (index - 1) * plan.total + number
      after[i \in 0..strikes] ==
        IF i = 0 \/ i < first THEN {s}
        ELSE UNION {IF Waiting(t) THEN {t}
                    ELSE AttackStep(t, plan, ((i - 1) \div plan.total) + 1,
                                    ((i - 1) % plan.total) + 1) : t \in after[i - 1]}
  IN after[strikes]

(* A new series forgets what another attack had used.                        *)
StartSeries(s, plan) ==
  {IF Waiting(t) THEN t
   ELSE Complete(t, [plan EXCEPT !.defenseGrants = NoGrants, !.revivals = NoGrants])
   : t \in startAttackSeriesStep([s EXCEPT !.pending = NoAction], plan, 1, 1)}

(* The guardian's attack of executeGuardianAction is not completed when it   *)
(* missed: the caller goes on with the next guardian.                        *)
StartSeriesOnly(s, plan) ==
  startAttackSeriesStep([s EXCEPT !.pending = NoAction], plan, 1, 1)

(* The reaction a card that is no attack asks of its target.                 *)
startTargetedCardReaction(s, a, deferred) ==
  {[s EXCEPT !.phase = "REACTION_SELECTION",
             !.pending = [a EXCEPT !.attackKind = "TARGETED_CARD", !.index = 1,
                            !.number = 1, !.total = 1, !.targets = <<a.target>>,
                            !.element = "LIGHT", !.power = 0, !.chance = FALSE,
                            !.completion = "FINISH_TURN", !.depth = 1,
                            !.deferred = deferred]]}

(* The pending action a command of the active player starts from.            *)
FreshAttack(owner, target, sources, grants) ==
  [kind |-> "ATTACK", attackKind |-> "WEAPON", owner |-> owner, actor |-> owner,
   target |-> target, targets |-> <<target>>, index |-> 1, number |-> 1, total |-> 1,
   element |-> "PHYSICAL", power |-> 0, chance |-> FALSE, sources |-> sources,
   attackerGrants |-> grants, defenseGrants |-> NoGrants, revivals |-> NoGrants,
   completion |-> "FINISH_TURN", depth |-> 1, deferred |-> NoEffect]

---------------------------------------------------------------------------
(* Counters                                                                  *)

CounterDamage(s, k, target, beneficiary, received) ==
  LET n == received * k.counter
      t == SetHp(s, target, s.hp[target] - n)
      hit == UNION {maybeDepartGuardianAfterHpLoss(u, target, Least(n, s.hp[target]))
                      : u \in resolveHpZero(t, target, beneficiary, FALSE)}
  IN IF k.counter = 0 \/ target \notin Alive(s) THEN {s}
     ELSE hit \cup (IF k.chance THEN {s} ELSE {})

TakeMoney(s, k, target, beneficiary, received) ==
  LET taken == Least(s.money[target], received)
      t == [s EXCEPT !.money[target] = @ - taken]
  IN IF ~Has(k, "TAKE_DAMAGE_MONEY") \/ target \notin Alive(s) THEN s
     ELSE IF beneficiary \in Alive(t) THEN Boost(t, beneficiary, "money", taken) ELSE t

(* Each counter card in turn: its damage, its calamities, the money it takes. *)
CounterOneByOne(S, target, beneficiary, cards, received) ==
  LET struck(s, k) ==
        {TakeMoney(t, k, target, beneficiary, received) :
           t \in applyCalamities(CounterDamage(s, k, target, beneficiary, received),
                                 CalamitiesFor(<<target>>, {k}, "COUNTER"))}
      after[i \in 0..Len(cards)] ==
        IF i = 0 THEN S ELSE UNION {struck(s, cards[i].kind) : s \in after[i - 1]}
  IN after[Len(cards)]
resolveCounterTargetedEffects(s, target, beneficiary, cards, received) ==
  CounterOneByOne({s}, target, beneficiary, SetToSeq(cards), received)

(* Armour counters only what it could block.  MP is paid at once; what is    *)
(* aimed at the attacker gives him a reaction of his own, unless the attack  *)
(* came from the defender.  The original attack is kept for afterwards.      *)
startCounterReaction(s, a, defender, cards, received) ==
  LET usable == {c \in cards : c.kind.category # "ARMOR"
                                 \/ canDefenseBlock(c.kind.element, a.element)}
      fee == FoldLeft(LAMBDA sum, c : sum + received * c.kind.counterMp,
                      0, SetToSeq(usable))
      t == IF defender \in Alive(s) THEN Boost(s, defender, "mp", fee) ELSE s
      aimed == {c \in usable : CountersAttacker(c.kind)}
  IN IF received <= 0 THEN {s}
     ELSE IF aimed = {} \/ a.actor \notin Alive(t) THEN {t}
     ELSE IF a.actor = defender
          THEN resolveCounterTargetedEffects(t, a.actor, defender, aimed, received)
     ELSE startTargetedCardReaction(t,
            [t.pending EXCEPT !.actor = defender, !.target = a.actor,
                              !.sources = {c.kind : c \in aimed}],
            [kind |-> "COUNTER", cards |-> aimed, received |-> received,
             original |-> [a EXCEPT !.deferred = NoEffect]])

---------------------------------------------------------------------------
(* Trades                                                                    *)

Price(c) == c.kind.price

Paid(s, payer, recipient, price) ==
  LET paid == Payment(s.money[payer], s.mp[payer], price)
  IN [s EXCEPT !.hp[payer] = clampResource(@ - paid.hp), !.mp[payer] = @ - paid.mp,
               !.money = [@ EXCEPT ![payer] = @ - paid.money,
                                   ![recipient] = clampResource(@ + price)]]

transferTradeCard(s, from, to, card) ==
  AddToHand([s EXCEPT !.hand[from] = @ \ {card}], to, NewCard(s, to, card.kind))

(* The match may end before the cards are replaced and the turn is closed.   *)
FinishAction(s, actor, grants) ==
  IF ResultOf(s) # NoResult THEN {Ended(s, ResultOf(s))}
  ELSE {finishTurn(t, actor) : t \in Grants({s}, actor, grants)}

(* The HP-zero interrupt of the player who paid; the match may end here,     *)
(* before anything is granted.                                               *)
finishTradeAction(s, actor, hpLoss) ==
  LET revives == s.hp[actor] = 0 /\ CardsWith(s, actor, "REVIVE") # {}
      checked == UNION {maybeDepartGuardianAfterHpLoss(t, actor, hpLoss)
                          : t \in HpZeroByItself(s, actor)}
  IN UNION {FinishAction(t, actor, IF revives THEN 2 ELSE 1) : t \in checked}

EndedOr(s, otherwise) == IF ResultOf(s) # NoResult THEN Ended(s, ResultOf(s)) ELSE otherwise

(* A sale: the target, unless the sale came back to the seller, pays and     *)
(* gets the card.  The seller must still hold it: the code throws otherwise. *)
Threw(s) == {[s EXCEPT !.phase = "THREW"]}
resolveSale(s, a) ==
  LET seller == a.owner
      buyer == a.target
      t == Paid(s, buyer, seller, a.deferred.price)
      loss == s.hp[buyer] - t.hp[buyer]
      moved == UNION {HpZeroByItself(u, buyer)
                        : u \in transferTradeCard(t, seller, buyer, a.deferred.card)}
      checked == UNION {maybeDepartGuardianAfterHpLoss(v, buyer, loss) : v \in moved}
  IN IF a.deferred.card \notin s.hand[seller] THEN Threw(s)
     ELSE IF buyer = seller THEN {Complete(s, a)}
     ELSE {EndedOr(u, Complete(u, a)) : u \in checked}

(* A purchase: a card of the target is drawn, the cards used in defence are  *)
(* replaced, and only then is the card offered to the buyer.                 *)
resolvePurchase(s, a) ==
  LET buyer == a.owner
      seller == a.target
      offers(c) ==
        LET canAfford == canPayPrice(s.money[buyer], s.mp[buyer], s.hp[buyer], Price(c))
            named == [s EXCEPT !.pending.deferred = [kind |-> "OFFER", card |-> c]]
            offered(t) == [t EXCEPT !.phase = "TRADE_CONFIRMATION",
              !.pending = [kind |-> "TRADE_CONFIRMATION", buyer |-> buyer, seller |-> seller,
                           offered |-> c, price |-> Price(c), canAfford |-> canAfford]]
            declined(t) == {finishTurn(u, buyer)
                              : u \in resolveNormalGrant([t EXCEPT !.pending = NoAction], buyer)}
        IN UNION {IF canAfford THEN {offered(t)} ELSE declined(t)
                    : t \in GrantEach({named}, a.defenseGrants)}
  IN IF seller = buyer \/ seller \notin Alive(s) \/ buyer \notin Alive(s) \/ s.hand[seller] = {}
     THEN {Complete(s, a)}
     ELSE UNION {offers(c) : c \in s.hand[seller]}

---------------------------------------------------------------------------
(* Cards used directly                                                       *)

resolveDirectInstructions(s, actor, target, k) ==
  LET card == k
      boosted == IF isSupportiveDirectAction(k) THEN target ELSE actor
      \* the thump-thump tear does one of its instructions
      gamble == k.id = "thump-thump-tear"
      opened == {BoostAll(s, boosted, card.boost)}
                \cup (IF ~gamble THEN {}
                      ELSE IF actor \in Alive(s) THEN LoseHp(s, actor, card.damage) ELSE {s})
      cures(t) == IF card.cure = "NONE" THEN t ELSE removeCalamities(t, boosted, card.cure)
      guards(t) == IF Has(k, "SET_GUARDIAN") THEN assignRandomGuardian(t, actor) ELSE {t}
      robs(t) == IF Has(k, "REMOVE_ITEMS") THEN removeRandomArtifacts(t, target, 3) ELSE {t}
      forgets(t) ==
        IF Has(k, "REMOVE_USED_MIRACLES") THEN removeRandomLearnedMiracles(t, target, 2) ELSE {t}
  IN UNION {UNION {UNION {forgets(v) : v \in robs(u)} : u \in guards(cures(t))} :
              t \in applyCalamities(
                      applyCalamities(opened, CalamitiesFor(<<target>>, {k}, "IMMEDIATE")),
                      CalamitiesFor(<<actor>>, {k}, "SELF"))}

resolveDeferredTargetedCardEffect(s, a) ==
  CASE a.deferred.kind = "DIRECT" ->
         {EndedOr(t, Complete(t, a)) :
            t \in resolveDirectInstructions(s, a.owner, a.target, a.deferred.card)}
    [] a.deferred.kind = "COUNTER" ->
         {Advance(t, a.deferred.original) :
            t \in resolveCounterTargetedEffects(s, a.target, a.actor, a.deferred.cards,
                                                a.deferred.received)}
    [] a.deferred.kind = "SELL" -> resolveSale(s, a)
    [] a.deferred.kind = "BUY" -> resolvePurchase(s, a)

(* Mutant: the step that was just resolved is repeated. *)
advanceAfterAttackStepAgain(s, a) ==
  IF a.deferred.kind # "NONE" THEN resolveDeferredTargetedCardEffect(s, a)
  ELSE {IF Waiting(t) THEN t ELSE Complete(t, t.pending)
          : t \in startAttackSeriesStep(s, a, a.index, a.number)}

(* What follows a resolved step: the deferred effect of a targeted card, or  *)
(* the next step of the series, or its completion.                           *)
advanceAfterAttackStep(s, a) ==
  IF a.deferred.kind # "NONE" THEN resolveDeferredTargetedCardEffect(s, a)
  ELSE {IF Waiting(t) THEN t ELSE Complete(t, t.pending)
          : t \in startAttackSeriesStep(s, a, a.index, a.number + 1)}

---------------------------------------------------------------------------
(* Phenomena and the confusion                                               *)

Plan(owner, target, k, power, attackKind, grants, completion) ==
  [owner |-> owner, targets |-> <<target>>, sources |-> {k},
   element |-> k.element, power |-> power, chance |-> k.chance,
   attackKind |-> attackKind, total |-> 1, attackerGrants |-> grants,
   completion |-> completion, defenseGrants |-> NoGrants, revivals |-> NoGrants]

Learn(s, p, c) ==
  [s EXCEPT !.hand[p] = @ \ {c}, !.learned[p] = @ \cup {c}]

(* Cards are consumed, miracles of the hand learned, learned ones cast.      *)
CommitSource(s, p, c) ==
  IF c \in s.learned[p] THEN s
  ELSE IF c.kind.category = "MIRACLE" THEN Learn(s, p, c)
  ELSE [s EXCEPT !.hand[p] = @ \ {c}]

MpCost(s, p, k) == IF Has(k, "CONSUME_ALL_MP") THEN s.mp[p] ELSE k.cost
commitAutomaticSource(s, p, c) ==
  [CommitSource(s, p, c) EXCEPT !.mp[p] = @ - MpCost(s, p, c.kind)]

canPray(s, p) ==
  ~\E c \in s.hand[p] : /\ c.kind.category = "WEAPON"
                        /\ primaryAttackAmount(c.kind, s.mp[p]) # NoAttack

CanAct(s, p, c, type) ==
  /\ c.kind.cost <= s.mp[p]
  /\ IF type = "ATTACK" THEN attackStandsAlone(c.kind)
     ELSE /\ ~attackStandsAlone(c.kind) /\ isSupportedDirectAction(c.kind)
          /\ ~Has(c.kind, "CALL_PHENOMENON")
Throwable(c) ==
  c.kind.category # "WEAPON" /\ ~Has(c.kind, "REVIVE") /\ ~Has(c.kind, "ATTRACT_DANGER")

(* One confused action of p, and how the confusion goes on after it.         *)
Done(s) == [s EXCEPT !.phenomenon.next = @ + 1]
ConfusedDirect(s, p, c) ==
  LET targets == IF directEffectTargetsEnemy(c.kind) THEN EnemiesOf(p, Alive(s)) ELSE {p}
      used(q) == Grants(resolveDirectInstructions(commitAutomaticSource(s, p, c), p, q, c.kind), p, 1)
  IN IF targets = {} THEN {Done(s)}
     ELSE {EndedOr(t, Done(t)) : t \in UNION {used(q) : q \in targets}}
(* Mutant: an attack of a confused player ends the turn as any attack would. *)
ConfusedAttackEndingTurn(s, p, c) ==
  LET power == primaryAttackAmount(c.kind, s.mp[p])
      kind == IF c.kind.category = "MIRACLE" THEN "MIRACLE" ELSE "WEAPON"
      committed == commitAutomaticSource(s, p, c)
  IN IF power = NoAttack THEN {GoOnConfused(Done(committed))}
     ELSE UNION {StartSeries(committed, Plan(p, q, c.kind, power, kind, 1, "FINISH_TURN"))
                   : q \in EnemiesOf(p, Alive(s))}

ConfusedAttack(s, p, c) ==
  LET power == primaryAttackAmount(c.kind, s.mp[p])
      kind == IF c.kind.category = "MIRACLE" THEN "MIRACLE" ELSE "WEAPON"
      committed == commitAutomaticSource(s, p, c)
  IN IF power = NoAttack THEN {GoOnConfused(Done(committed))}
     ELSE UNION {StartSeries(committed, Plan(p, q, c.kind, power, kind, 1, "RESUME_PHENOMENON"))
                   : q \in EnemiesOf(p, Alive(s))}

(* Three rounds of everybody alive.  The slot goes by itself, except that an *)
(* attack owns its completion and comes back through completeConfusionAction. *)
ConfusedSlot(s, p) ==
  LET mine == s.hand[p] \cup s.learned[p]
      attacks == {c \in mine : CanAct(s, p, c, "ATTACK")}
      directs == {c \in mine : CanAct(s, p, c, "DIRECT")}
      thrown == {c \in s.hand[p] : Throwable(c)}
      prays == canPray(s, p)
      alone == EnemiesOf(p, Alive(s)) = {}
      onward ==
        {Done([s EXCEPT !.hand[p] = @ \ {c}]) : c \in thrown}
        \cup (UNION {ConfusedDirect(s, p, c) : c \in directs})
        \cup (IF prays THEN {Done(t) : t \in resolveNormalGrant(s, p)} ELSE {})
        \cup (IF \/ attacks = {} /\ directs = {} /\ thrown = {} /\ ~prays
                 \/ attacks # {} /\ alone
              THEN {Done(s)} ELSE {})
  IN {IF t.phase = "MATCH_ENDED" THEN t ELSE GoOnConfused(t) : t \in onward}
     \cup (IF alone THEN {} ELSE UNION {ConfusedAttack(s, p, c) : c \in attacks})

continueConfusionActions(s) ==
  LET ph == s.phenomenon
  IN IF ph = NoPhenomenon THEN {s}
     ELSE IF ph.next > Len(ph.slots)
          THEN {EndedOr(t, finishTurn(t, ph.source))
                  : t \in Grants({[s EXCEPT !.phenomenon = NoPhenomenon]}, ph.source, ph.grants)}
     ELSE IF ph.slots[ph.next] \notin Alive(s) THEN {GoOnConfused(Done(s))}
     ELSE ConfusedSlot(CountGf(s), ph.slots[ph.next])

startConfusionActions(s, source, grants) ==
  LET round == InSeatOrder(Alive(s))
  IN GoOnConfused(
       [s EXCEPT !.phenomenon = [source |-> source, grants |-> grants, next |-> 1,
          slots |-> FlattenSeq([i \in 1..ConfusionRounds |-> round])]])

(* What a phenomenon does to everybody who was alive when it came.           *)
GuardEverybody(S, living) ==
  LET after[i \in 0..Len(Seats)] ==
        IF i = 0 THEN S
        ELSE UNION {IF Seats[i] \in living THEN assignRandomGuardian(s, Seats[i]) ELSE {s} :
                      s \in after[i - 1]}
  IN after[Len(Seats)]

PhenomenonEffects(s, k) ==
  LET living == Alive(s)
      level(t, p) == IF Has(k, "SET_HP_OF_EVERYBODY") THEN 1 ELSE t.hp[p]
      warm(t) == [t EXCEPT !.hp = [p \in Players |->
                    IF p \notin living THEN t.hp[p]
                    ELSE IF p \in Alive(t) THEN clampResource(level(t, p) + k.boost.hp)
                    ELSE level(t, p)]]
      collects(t) == IF Has(k, "COLLECT_MONEY_OF_EVERYBODY") THEN collectEverybodyMoney(t) ELSE {t}
      shuffles(t) ==
        IF Has(k, "SHUFFLE_ITEMS_OF_EVERYBODY") THEN shuffleArtifactsOfEverybody(t) ELSE {t}
      guards(t) == IF Has(k, "SET_GUARDIAN_OF_EVERYBODY") THEN GuardEverybody({t}, living) ELSE {t}
  IN UNION {UNION {UNION {guards(v) : v \in shuffles(u)} : u \in collects(warm(t))} :
              t \in applyCalamities({s}, CalamitiesFor(Seats, {k}, "IMMEDIATE"))}

(* Confusion and attacks own the completion of the action; after any other   *)
(* phenomenon the action that called it ends as it would have.               *)
resolvePhenomenon(s, source, sources, grants) ==
  LET power(t, k) == primaryAttackAmount(k, t.mp[source])
      one(t, k) ==
        IF Has(k, "CONFUSE_EVERYBODY") THEN {startConfusionActions(t, source, sources)}
        ELSE IF power(t, k) # NoAttack
             THEN UNION {StartSeries(t, Plan(source, q, k, power(t, k), "PHENOMENON", sources,
                                             "FINISH_TURN")) : q \in Alive(t)}
        ELSE FinishAction(t, source, grants)
  IN UNION {UNION {one(t, k) : t \in PhenomenonEffects(s, k)} : k \in s.deck.phenomena}

---------------------------------------------------------------------------
(* Guardians act by themselves after a turn                                  *)

Changed(s, receivers, resource, n) ==
  [p \in Players |-> IF p \in receivers \cap Alive(s) /\ n # 0
                     THEN clampResource(resource[p] + n) ELSE resource[p]]
changeResourceByGuardian(s, receivers, amounts) ==
  [s EXCEPT !.hp = Changed(s, receivers, @, amounts.hp),
            !.mp = Changed(s, receivers, @, amounts.mp),
            !.money = Changed(s, receivers, @, amounts.money)]

(* An attack waits for its target or misses; everything else is done here.   *)
executeGuardianAction(s, p, actor, k) ==
  LET power == primaryAttackAmount(k, s.mp[p])
      attackKind == IF Has(k, "CATEGORY_WEAPON") THEN "WEAPON" ELSE "GUARDIAN"
      receivers == CASE k.id = "venus-1" -> Players      \* small change
                     [] k.id = "venus-2" -> {actor}      \* a bribe
                     [] OTHER -> {p}
      boosted == changeResourceByGuardian(s, receivers, k.boost)
      cures(t) == IF k.cure = "NONE" THEN t ELSE removeCalamities(t, p, k.cure)
      taxes(t) == changeResourceByGuardian(t, {actor},
                    [hp |-> 0, mp |-> 0, money |-> -Least(t.money[actor], k.take)])
      adds(t) == IF Has(k, "ADD_ITEM") THEN resolveNormalGrant(t, p) ELSE {t}
  IN IF power # NoAttack
     THEN IF actor \notin Alive(s) THEN {s}
          ELSE StartSeriesOnly(s, Plan(p, actor, k, power, attackKind, 0, "RESUME_POST_TURN"))
     ELSE UNION {adds(taxes(cures(t))) :
                   t \in applyCalamities({boosted}, CalamitiesFor(<<actor>>, {k}, "IMMEDIATE"))}

(* Guardian by guardian, in seat order; one whose attack waits stops it, and *)
(* the next is taken up when that attack is completed.  Then the disease of  *)
(* who had the turn, and the next turn.                                      *)
continuePostTurnAutomaticEffects(s) ==
  LET post == s.post
      p == post.guardians[post.next]
      checked == [s EXCEPT !.post.next = @ + 1]
      deeds == {k \in Catalog : k.category = "GUARDIAN_ACTION"
                                  /\ k.god = s.guardian[p]}
  IN IF post = NoPostTurn THEN {s}
     ELSE IF post.next > Len(post.guardians)
          THEN {openNextTurnOrEnd(t) : t \in resolveTurnEndDisease(s, post.actor)}
     ELSE IF p \notin Alive(s) \/ s.guardian[p] = NoGuardian
          THEN {CloseTurn(checked)}
     ELSE {CloseTurn(checked)}
          \cup {IF Waiting(t) THEN t ELSE CloseTurn(t)
                  : t \in UNION {executeGuardianAction(checked, p, post.actor, k) : k \in deeds}}

---------------------------------------------------------------------------
(* A command is over when nothing is left to be called.                      *)

Called(s) ==
  LET t == [s EXCEPT !.then = Nothing]
  IN CASE s.then.call = "advanceAfterAttackStep" -> advanceAfterAttackStep(t, s.then.attack)
       [] s.then.call = "completeAttack" -> completeAttack(t, s.then.attack)
       [] s.then.call = "continueConfusionActions" -> continueConfusionActions(t)
       [] s.then.call = "continuePostTurnAutomaticEffects" -> continuePostTurnAutomaticEffects(t)
(* The calls that close a turn call nothing but themselves.                  *)
TurnClosed(s) ==
  LET after[n \in 0..MaxCalls] ==
        IF n = 0 THEN {s}
        ELSE UNION {IF t.then.call # "continuePostTurnAutomaticEffects" THEN {t}
                    ELSE continuePostTurnAutomaticEffects([t EXCEPT !.then = Nothing])
                      : t \in after[n - 1]}
  IN after[MaxCalls]
Resolved(s) ==
  LET after[n \in 0..MaxCalls] ==
        IF n = 0 THEN {s}
        ELSE UNION {IF t.then = Nothing THEN {t} ELSE Called(t) : t \in after[n - 1]}
  IN after[MaxCalls]

---------------------------------------------------------------------------
(* Commands.  May... is what the handler checks, the operator of the same    *)
(* name without it what it does.                                             *)

Declared(s) == [s EXCEPT !.phase = "RESOLVING"]
Consumed(s, p, c) == [Declared(s) EXCEPT !.hand[p] = @ \ {c}]
MayAct(s, p) == s.phase = "ACTION_SELECTION" /\ s.active = p /\ p \in Alive(s)

MayPray(s, p) == MayAct(s, p) /\ canPray(s, p)
handlePray(s, p) == {finishTurn(t, p) : t \in resolveNormalGrant(Declared(s), p)}

handleSurrender(s, p) ==
  {finishTurn([Declared(s) EXCEPT !.alive[p] = FALSE, !.defeated = @ \cup {p}], p)}

(* DISCARD before the end time, SACRIFICE, which is repaid, once it has come. *)
MayDiscard(s, p, cards) ==
  /\ MayAct(s, p)
  /\ cards # {} /\ cards \subseteq s.hand[p]
  /\ s.endTimeActive \/ \A c \in cards : isDiscardableDefinition(c.kind)
handleDiscard(s, p, cards) ==
  LET repaid == IF s.endTimeActive THEN Cardinality(cards) ELSE 0
  IN {finishTurn(t, p) : t \in Grants({[Declared(s) EXCEPT !.hand[p] = @ \ cards]}, p, repaid)}

MayTrade(s, p, c, operation) ==
  /\ MayAct(s, p)
  /\ c \in s.hand[p] /\ c.kind.category = "TRADE" /\ Has(c.kind, operation)

MayExchangeResources(s, p, c, hp, mp, money) ==
  /\ MayTrade(s, p, c, "EXCHANGE")
  /\ {hp, mp, money} \subseteq 0..MaxResource
  /\ hp + mp + money = s.hp[p] + s.mp[p] + s.money[p]
handleExchangeResources(s, p, c, hp, mp, money) ==
  finishTradeAction([Consumed(s, p, c) EXCEPT !.hp[p] = hp, !.mp[p] = mp, !.money[p] = money],
                    p, Most(0, s.hp[p] - hp))

(* Mutants: the sell card may sell itself; the product is used up with it.   *)
MaySellItself(s, p, c, product, q) ==
  MayTrade(s, p, c, "SELL") /\ product \in s.hand[p] /\ isEnemy(s, p, q)
handleSellCardAndProduct(s, p, c, product, q) ==
  startTargetedCardReaction(Consumed(Consumed(s, p, c), p, product), FreshAttack(p, q, {c.kind}, 1),
    [kind |-> "SELL", card |-> product, price |-> Price(product)])

MaySell(s, p, c, product, q) ==
  /\ MayTrade(s, p, c, "SELL")
  /\ product \in s.hand[p] \ {c} /\ isEnemy(s, p, q)
handleSellCard(s, p, c, product, q) ==
  startTargetedCardReaction(Consumed(s, p, c), FreshAttack(p, q, {c.kind}, 1),
    [kind |-> "SELL", card |-> product, price |-> Price(product)])

MayBuy(s, p, c, q) ==
  MayTrade(s, p, c, "BUY") /\ isEnemy(s, p, q) /\ s.hand[q] # {}
handleDeclareBuy(s, p, c, q) ==
  startTargetedCardReaction(Consumed(s, p, c), FreshAttack(p, q, {c.kind}, 1), [kind |-> "BUY"])

(* Accepting and declining both need the offered card where it was.          *)
MayConfirmBuy(s, p, accept) ==
  /\ s.phase = "TRADE_CONFIRMATION" /\ s.pending.buyer = p /\ p \in Alive(s)
  /\ s.pending.offered \in s.hand[s.pending.seller]
  /\ accept => /\ s.pending.canAfford
               /\ canPayPrice(s.money[p], s.mp[p], s.hp[p], s.pending.price)
handleConfirmBuy(s, p, accept) ==
  LET seller == s.pending.seller
      closed(t) == [Declared(t) EXCEPT !.pending = NoAction]
      t == Paid(s, p, seller, s.pending.price)
  IN IF accept
     THEN UNION {finishTradeAction(closed(u), p, s.hp[p] - t.hp[p])
                   : u \in transferTradeCard(t, seller, p, s.pending.offered)}
     ELSE {finishTurn(u, p) : u \in resolveNormalGrant(closed(s), p)}

---------------------------------------------------------------------------
(* DECLARE_ACTION: sel is the set of cards and learned miracles selected     *)

Committed(s, p, sel) ==
  LET fresh == sel \ s.learned[p]
  IN [Declared(s) EXCEPT
        !.hand[p] = @ \ fresh,
        !.learned[p] = @ \cup {c \in fresh : c.kind.category = "MIRACLE"}]
Cutters(sel) == {c \in sel : Has(c.kind, "CUT_COST")}
Carriers(sel) == {c \in sel : attackStandsAlone(c.kind)}
SumCost(sel) ==
  FoldLeft(LAMBDA sum, c : sum + IF c.kind.category = "MIRACLE"
                                 THEN c.kind.cost ELSE 0, 0, SetToSeq(sel))

(* One direct card and, for a miracle, a cost cutter.                        *)
DirectCard(sel) == CHOOSE c \in sel : isSupportedDirectAction(c.kind)
DirectCost(s, p, sel) == IF Cutters(sel) # {} THEN 0 ELSE MpCost(s, p, DirectCard(sel).kind)
MayUseDirectly(s, p, sel, q) ==
  LET directs == {c \in sel : isSupportedDirectAction(c.kind)}
      k == DirectCard(sel).kind
  IN /\ Cardinality(directs) = 1 /\ Cardinality(Cutters(sel)) <= 1
     /\ sel = directs \cup Cutters(sel)
     /\ Cutters(sel) # {} => k.category = "MIRACLE"
     /\ DirectCost(s, p, sel) <= s.mp[p]
     /\ IF directEffectTargetsEnemy(k) THEN isEnemy(s, p, q)
        ELSE IF isSupportiveDirectAction(k) THEN q \in Alive(s) ELSE q = p
handleDirectAction(s, p, sel, q) ==
  LET k == DirectCard(sel).kind
      t == [Committed(s, p, sel) EXCEPT !.mp[p] = @ - DirectCost(s, p, sel)]
      fromHand == Cardinality(sel \cap s.hand[p])
      ends(u) == IF Has(k, "CALL_PHENOMENON")
                 THEN resolvePhenomenon(u, p, Cardinality(sel), fromHand)
                 ELSE FinishAction(u, p, fromHand)
  IN IF directEffectTargetsEnemy(k) \/ q # p
     THEN startTargetedCardReaction(t,
            FreshAttack(p, q, {c.kind : c \in sel}, Cardinality(sel)), [kind |-> "DIRECT", card |-> k])
     ELSE UNION {ends(u) : u \in resolveDirectInstructions(t, p, q, k)}

(* An attack: one primary source, or additive ones alone, and what composes  *)
(* with them.                                                                *)
Composes(k) == k.ops \cap {"ATTACK_EVERY_ENEMY", "DOUBLE_ATTACK", "CUT_COST"} # {}
Primaries(sel) == {c \in Carriers(sel) : ~c.kind.additive}
AttackCost(s, p, sel) ==
  IF Cutters(sel) # {} THEN 0
  ELSE IF \E c \in sel : Has(c.kind, "CONSUME_ALL_MP") THEN s.mp[p]
  ELSE SumCost(sel)
Pestle(sel) == \E c \in sel : c.kind.id = "dangerous-pestle"
EveryEnemy(sel) == \E c \in sel : c.kind.chance \/ Has(c.kind, "ATTACK_EVERY_ENEMY")
MayAttack(s, p, sel, q) ==
  /\ \A c \in sel :
       /\ \/ c.kind.category \in {"WEAPON", "MIRACLE"}
          \/ c.kind.category = "ARMOR" /\ attackStandsAlone(c.kind)
          \/ /\ c.kind.category = "GOODS"
             /\ c.kind.additive \/ Has(c.kind, "CUT_COST")
       /\ \/ Composes(c.kind)
          \/ primaryAttackAmount(c.kind, s.mp[p]) # NoAttack
  /\ Pestle(sel) \/ isEnemy(s, p, q) \/ (~EveryEnemy(sel) /\ q = p)
  /\ Cardinality(Primaries(sel)) = 1 \/ Primaries(sel) = {}
  /\ AttackCost(s, p, sel) <= s.mp[p]

(* The lists of targets one of which is drawn.                               *)
TargetLists(s, p, sel, q) ==
  LET holders == {r \in Alive(s) : CardsWith(s, r, "ATTRACT_DANGER") # {}}
      enemies == EnemiesOf(p, Alive(s))
  IN IF Pestle(sel) THEN {<<r>> : r \in IF holders # {} THEN holders ELSE Alive(s)}
     ELSE IF EveryEnemy(sel) THEN SetToSeqs(enemies)
     ELSE IF "FOG" \in s.calamities[p] THEN {<<r>> : r \in enemies}
     ELSE {<<q>>}
AttackPower(s, p, sel) ==
  LET amount(c) == Most(0, primaryAttackAmount(c.kind, s.mp[p]))
      sum == FoldLeft(LAMBDA n, c : n + amount(c), 0, SetToSeq(sel))
  IN IF \E c \in sel : Has(c.kind, "DOUBLE_ATTACK") THEN 2 * sum ELSE sum
AttackElements(sel) ==
  LET painted == {c.kind.paint : c \in sel} \ {"NONE"}
  IN IF painted # {} THEN painted ELSE {combineElements({c.kind.element : c \in sel})}
handleAttack(s, p, sel, q) ==
  LET t == [Committed(s, p, sel) EXCEPT !.mp[p] = @ - AttackCost(s, p, sel)]
      leads == IF Primaries(sel) # {} THEN Primaries(sel) ELSE Carriers(sel)
      plan(targets, element, lead) ==
        [owner |-> p, targets |-> targets, sources |-> {c.kind : c \in sel},
         element |-> element, power |-> AttackPower(s, p, sel),
         chance |-> ~Pestle(sel) /\ \E c \in sel : c.kind.chance,
         attackKind |-> IF lead.kind.category = "MIRACLE" THEN "MIRACLE" ELSE "WEAPON",
         total |-> IF \E c \in sel : Has(c.kind, "ATTACK_TWICE") THEN 2 ELSE 1,
         attackerGrants |-> Cardinality(sel), completion |-> "FINISH_TURN",
         defenseGrants |-> NoGrants, revivals |-> NoGrants]
  IN UNION {StartSeries(t, plan(targets, element, lead)) :
              targets \in TargetLists(s, p, sel, q), element \in AttackElements(sel), lead \in leads}

MayDeclareAction(s, p, sel, q) ==
  /\ MayAct(s, p)
  /\ sel # {} /\ sel \subseteq s.hand[p] \cup s.learned[p]
  /\ IF Carriers(sel) = {} THEN MayUseDirectly(s, p, sel, q) ELSE MayAttack(s, p, sel, q)
handleDeclareAction(s, p, sel, q) ==
  IF Carriers(sel) = {} THEN handleDirectAction(s, p, sel, q) ELSE handleAttack(s, p, sel, q)

---------------------------------------------------------------------------
(* DECLARE_REACTION                                                          *)

FilteredElement(a, sel) ==
  IF \E c \in sel : Has(c.kind, "FILTER_ATTACK_ELEMENT") THEN "PHYSICAL" ELSE a.element
canDefend(k, element) == k.defense > 0 /\ canDefenseBlock(k.element, element)
(* Whether a card of the hand, or a miracle learned, may answer the attack.  *)
canReact(a, k, element, learned) ==
  LET effect == reactionEffectFor(k, a.attackKind, element)
  IN IF a.attackKind = "TARGETED_CARD" THEN effect = "REFLECT"
     ELSE \/ effect # "NONE" \/ hasCounterOrFilterEffect(k)
          \/ ~learned /\ canDefend(k, element)
EffectsOf(a, sel, element) ==
  {reactionEffectFor(c.kind, a.attackKind, element) : c \in sel} \ {"NONE"}
ReactionCost(sel) == IF Cutters(sel) # {} THEN 0 ELSE SumCost(sel)
Asked(s, p) == s.phase = "REACTION_SELECTION" /\ s.pending.target = p /\ p \in Alive(s)
MayReact(s, p, sel) ==
  LET a == s.pending
      element == FilteredElement(a, sel)
  IN /\ Asked(s, p)
     /\ sel \subseteq s.hand[p] \cup s.learned[p]
     /\ "FLASH" \in s.calamities[p] => Cardinality(sel \cap s.hand[p]) <= 1
     /\ \A c \in sel : canReact(a, c.kind, element, c \in s.learned[p])
     /\ Cardinality(EffectsOf(a, sel, element)) <= 1
     /\ ReactionCost(sel) <= s.mp[p]

(* The dreamy hat: its calamity and a new hand, once the outcome is known.   *)
SelfDefense(S, p, cards) ==
  LET ill(s, k) == applyCalamities({s}, CalamitiesFor(<<p>>, {k}, "SELF"))
      worn(s, k) == IF Has(k, "REDRAW_HAND") THEN UNION {redrawArtifactHand(t, p) : t \in ill(s, k)}
                    ELSE ill(s, k)
      after[i \in 0..Len(cards)] ==
        IF i = 0 THEN S ELSE UNION {worn(s, cards[i].kind) : s \in after[i - 1]}
  IN after[Len(cards)]
applySelfDefenseEffects(s, p, cards) ==
  IF p \in Alive(s) THEN SelfDefense({s}, p, SetToSeq(cards)) ELSE {s}

(* Mutant: an attack that comes back asks its sender again. *)
RedirectedToAnybody(s, p, q) ==
  LET a == [s.pending EXCEPT !.actor = p, !.target = q, !.depth = @ + 1]
      t == [s EXCEPT !.pending = a]
  IN IF q \notin Alive(s)
     THEN {Advance(u, u.pending) : u \in resolvePendingAttackDamage(t, a, q, 0)}
     ELSE {[t EXCEPT !.phase = "REACTION_SELECTION"]}

(* The attack turns to a new target, who is asked in his turn unless it is   *)
(* the player who redirected it or a player who is lost.                     *)
Redirected(s, p, q) ==
  LET a == [s.pending EXCEPT !.actor = p, !.target = q, !.depth = @ + 1]
      t == [s EXCEPT !.pending = a]
  IN IF q = p \/ q \notin Alive(s)
     THEN {Advance(u, u.pending) : u \in resolvePendingAttackDamage(t, a, q, 0)}
     ELSE {[t EXCEPT !.phase = "REACTION_SELECTION"]}

handleReaction(s, p, sel) ==
  LET cards == sel \cap s.hand[p]
      element == FilteredElement(s.pending, sel)
      t == [Committed(s, p, sel) EXCEPT
              !.mp[p] = @ - ReactionCost(sel),
              !.pending.element = element,
              !.pending.defenseGrants[p] = @ + Cardinality(cards)]
      a == t.pending
      effects == EffectsOf(a, sel, element)
      defence == FoldLeft(LAMBDA sum, c : sum + IF canDefend(c.kind, element)
                                                THEN c.kind.defense ELSE 0,
                          0, SetToSeq(cards))
      self(S) == UNION {applySelfDefenseEffects(u, p, cards) : u \in S}
      passedOn(u) == IF a.depth >= MaxReactionDepth THEN {Advance(u, u.pending)}
                     ELSE UNION {Redirected(u, p, q) :
                                   q \in IF effects = {"REFLECT"} THEN {a.actor} ELSE Alive(u)}
      struck == resolvePendingAttackDamage(t, a, p, defence)
      countered == UNION {startCounterReaction(u, a, p, sel, AttackDamage(t, a, p, defence))
                            : u \in self(struck)}
  IN IF effects = {"BLOCK"} \/ (effects = {} /\ a.attackKind = "TARGETED_CARD")
     THEN {Advance(u, u.pending) : u \in self({t})}
     ELSE IF effects # {} THEN UNION {passedOn(u) : u \in self({t})}
     ELSE {IF Waiting(u) THEN u ELSE Advance(u, u.pending) : u \in countered}

---------------------------------------------------------------------------
(* createMatch and handleCommand                                             *)

Dealt(deck) ==
  LET empty == [phase |-> "RESOLVING", gf |-> 0, endTime |-> deck.endTime, endTimeActive |-> FALSE,
                active |-> "NONE", order |-> Seats, cursor |-> 1,
                alive |-> [p \in Players |-> TRUE],
                hp |-> [p \in Players |-> StartingWealth.hp],
                mp |-> [p \in Players |-> StartingWealth.mp],
                money |-> [p \in Players |-> StartingWealth.money],
                hand |-> [p \in Players |-> {}], learned |-> [p \in Players |-> {}],
                calamities |-> [p \in Players |-> {}],
                guardian |-> [p \in Players |-> NoGuardian],
                pending |-> NoAction, post |-> NoPostTurn, phenomenon |-> NoPhenomenon,
                then |-> Nothing,
                defeated |-> {}, result |-> NoResult, deck |-> deck]
      n == Len(Seats)
  IN GrantAll({empty}, [i \in 1..(HandSize * n) |-> Seats[((i - 1) % n) + 1]])

Init ==
  /\ threw = FALSE
  /\ \E deck \in Decks, order \in SetToSeqs(Players) :
       \E s \in Dealt(deck) :
         state = [CountGf(s) EXCEPT !.phase = "ACTION_SELECTION", !.order = order, !.active = order[1]]

(* A command that makes the engine throw leaves the state as it was; one with *)
(* a call left over, beyond the bound, counts as one that throws.            *)
Outcome(S) ==
  \E t \in S :
    LET throws == t.phase = "THREW" \/ t.then # Nothing
    IN /\ threw' = throws
       /\ state' = IF throws THEN state ELSE t
(* Commands that only close the turn, and those that may call any handler.   *)
Closes(S) == Outcome(UNION {TurnClosed(s) : s \in S})
Resolves(S) == Outcome(UNION {Resolved(s) : s \in S})

Selections(p) == UNION {kSubset(n, state.hand[p] \cup state.learned[p]) : n \in 0..MaxSelect}
Going == state.gf <= MaxTurns

Pray(p) == Going /\ MayPray(state, p) /\ Closes(handlePray(state, p))
Surrender(p) == Going /\ MayAct(state, p) /\ Closes(handleSurrender(state, p))
Discard(p) ==
  /\ Going
  /\ \E cards \in {x \in Selections(p) : MayDiscard(state, p, x)} :
       Closes(handleDiscard(state, p, cards))
ExchangeResources(p) ==
  /\ Going
  /\ \E c \in state.hand[p], hp, mp, money \in 0..MaxResource :
       /\ MayExchangeResources(state, p, c, hp, mp, money)
       /\ Closes(handleExchangeResources(state, p, c, hp, mp, money))
SellCard(p) ==
  /\ Going
  /\ \E c, product \in state.hand[p], q \in Players :
       MaySell(state, p, c, product, q) /\ Outcome(handleSellCard(state, p, c, product, q))
DeclareBuy(p) ==
  /\ Going
  /\ \E c \in state.hand[p], q \in Players :
       MayBuy(state, p, c, q) /\ Outcome(handleDeclareBuy(state, p, c, q))
ConfirmBuy(p) ==
  \E accept \in {x \in BOOLEAN : MayConfirmBuy(state, p, x)} :
    Closes(handleConfirmBuy(state, p, accept))
DeclareAction(p) ==
  /\ Going
  /\ \E sel \in Selections(p) :
       \E q \in {x \in Players : MayDeclareAction(state, p, sel, x)} :
         Resolves(handleDeclareAction(state, p, sel, q))
DeclareReaction(p) ==
  \E sel \in {x \in Selections(p) : MayReact(state, p, x)} :
    Resolves(handleReaction(state, p, sel))

(* The match is over, or the bound on turns is reached.                      *)
Over ==
  /\ state.phase = "MATCH_ENDED" \/ (state.phase = "ACTION_SELECTION" /\ ~Going)
  /\ UNCHANGED vars

Next ==
  \/ \E p \in Players :
       \/ Pray(p) \/ Surrender(p) \/ Discard(p)
       \/ ExchangeResources(p) \/ SellCard(p) \/ DeclareBuy(p) \/ ConfirmBuy(p)
       \/ DeclareAction(p) \/ DeclareReaction(p)
  \/ Over

(* Whoever is asked while a turn is resolved answers, or the session answers *)
(* for him when his time is over.                                            *)
Answer == \E p \in Players : ConfirmBuy(p) \/ DeclareReaction(p)

Spec == Init /\ [][Next]_vars
FairSpec == Spec /\ WF_vars(Answer)

---------------------------------------------------------------------------
(* Properties                                                                *)

Resources == 0..MaxResource
Cards == [kind : Catalog, n : Nat]
TypeOK ==
  /\ threw \in BOOLEAN /\ state.then = Nothing
  /\ state.phase \in {"ACTION_SELECTION", "REACTION_SELECTION", "TRADE_CONFIRMATION", "MATCH_ENDED"}
  /\ state.active \in Players \cup {"NONE"}
  /\ \A p \in Players :
       /\ {state.hp[p], state.mp[p], state.money[p]} \subseteq Resources
       /\ \A c \in state.hand[p] \cup state.learned[p] : c \in Cards
       /\ Cardinality(state.hand[p]) <= MaxHand
       /\ state.hand[p] \cap state.learned[p] = {}
       /\ state.guardian[p] \in GuardianNames \cup {NoGuardian}
  /\ state.pending.kind = "ATTACK" =>
       /\ state.pending.index \in DOMAIN state.pending.targets
       /\ state.pending.number \in 1..state.pending.total
       /\ state.pending.depth \in 1..MaxReactionDepth

AskedPlayer ==
  CASE state.phase = "ACTION_SELECTION" -> state.active
    [] state.phase = "REACTION_SELECTION" -> state.pending.target
    [] state.phase = "TRADE_CONFIRMATION" -> state.pending.buyer
    [] OTHER -> "NONE"

Turns == INSTANCE TurnProtocol WITH
  Nobody <- "NONE", order <- state.order, cursor <- state.cursor, alive <- Alive(state),
  lost <- state.defeated, asked <- AskedPlayer, gf <- state.gf, result <- state.result

(* The engine implements the turn protocol: only the living are asked, the   *)
(* turn passes to the next of them, two losses in a turn are a draw, the     *)
(* last team wins.                                                           *)
TurnProtocolHolds == Turns!Spec

(* A turn starts with everything of the one before it done: no attack, no    *)
(* guardian and no confused player is left over.                             *)
TurnStartsClean ==
  state.phase = "ACTION_SELECTION" =>
    /\ state.pending = NoAction /\ state.post = NoPostTurn /\ state.phenomenon = NoPhenomenon
    /\ state.defeated = {} /\ ResultOf(state) = NoResult

(* An attack that comes back to whoever sent it on asks nobody: a player is   *)
(* asked only about what somebody else did to him.                           *)
SelfIsNeverAsked ==
  state.phase = "REACTION_SELECTION" => state.pending.target # state.pending.actor

(* What is offered for sale or bought stays where it is until the answer.    *)
OfferedCardIsThere ==
  /\ state.phase = "TRADE_CONFIRMATION" => state.pending.offered \in state.hand[state.pending.seller]
  /\ state.pending.kind = "ATTACK" /\ state.pending.deferred.kind = "SELL" =>
       state.pending.deferred.card \in state.hand[state.pending.owner]

(* The engine can always finish a command it accepts.                        *)
NeverThrows == ~threw

(* An attack, a trade or a card used on somebody is always resolved: the     *)
(* answers come to an end, and a turn starts or the match is over.           *)
InputsResolve ==
  state.phase \in {"REACTION_SELECTION", "TRADE_CONFIRMATION"} ~>
    state.phase \in {"ACTION_SELECTION", "MATCH_ENDED"}
=============================================================================
