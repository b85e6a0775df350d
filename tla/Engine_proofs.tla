---------------------------- MODULE Engine_proofs ----------------------------
(***************************************************************************)
(* Proofs about Engine, for every number of players, every catalogue and   *)
(* every deck: the engine implements the TurnProtocol.                     *)
(*                                                                         *)
(* What cards do is nearly always an Effect: lives, resources, hands,      *)
(* calamities and guardians change, and who is lost is counted for the     *)
(* turn, while phase, turn, pending action and calls stay as they are.     *)
(* What the handlers do besides is followed from the state in which the    *)
(* command was given: every state on the way, and every state in which a   *)
(* call is left to be made, is Reached from it.                            *)
(***************************************************************************)
EXTENDS Engine, FiniteSetTheorems, SequenceTheorems, WellFoundedInduction, TLAPS

-----------------------------------------------------------------------------
(* Induction *)

(* A set of indices that has 0 and with every index the next one has all.    *)
LEMMA Induction ==
  ASSUME NEW n \in Nat, NEW N \in SUBSET (0..n), 0 \in N,
         \A i \in N : i < n => i + 1 \in N
  PROVE  N = 0..n
<1> DEFINE M == (0..n) \ N
<1> SUFFICES ASSUME M # {}
             PROVE  FALSE
  OBVIOUS
<1>1. M \in SUBSET Nat
  OBVIOUS
<1> HIDE DEF M
<1>2. PICK m \in M : \A k \in M : ~(<<k, m>> \in OpToRel(<, Nat))
  BY <1>1, NatLessThanWellFounded, WFMin
<1>3. \A k \in M : ~(k < m)
  BY <1>1, <1>2 DEF OpToRel
<1>4. m # 0 /\ m - 1 \in N /\ m - 1 < n
  BY <1>3 DEF M
<1>5. m \in N
  BY <1>4 DEF M
<1> QED BY <1>5 DEF M

(* A finite set can be listed.                                               *)
LEMMA ListOfSet ==
  ASSUME NEW S, IsFiniteSet(S)
  PROVE  /\ Cardinality(S) \in Nat
         /\ SetToSeq(S) \in [1..Cardinality(S) -> S]
         /\ Len(SetToSeq(S)) = Cardinality(S)
         /\ IsInjective(SetToSeq(S))
<1>1. Cardinality(S) \in Nat
  BY FS_CardinalityType
<1>2. PICK f \in Bijection(1..Cardinality(S), S) : TRUE
  BY FS_CardinalityType, FS_NatBijection DEF ExistsBijection
<1>3. f \in [1..Cardinality(S) -> S] /\ IsInjective(f)
  BY DEF Bijection, Injection, IsInjective
<1>4. SetToSeq(S) \in [1..Cardinality(S) -> S] /\ IsInjective(SetToSeq(S))
  BY <1>3 DEF SetToSeq
<1>5. SetToSeq(S) \in Seq(S)
  BY <1>1, <1>4
<1> QED BY <1>1, <1>4, <1>5, LenProperties

-----------------------------------------------------------------------------
(* States and effects *)

Fields == {"phase", "gf", "endTime", "endTimeActive", "active", "order", "cursor", "alive",
           "hp", "mp", "money", "hand", "learned", "calamities", "guardian", "pending",
           "post", "phenomenon", "then", "defeated", "result", "deck"}
AttackFields == {"kind", "attackKind", "owner", "actor", "target", "targets", "index",
                 "number", "total", "element", "power", "chance", "sources",
                 "attackerGrants", "defenseGrants", "revivals", "completion", "depth",
                 "deferred"}
Counts == [Players -> Nat]

HandsOK(hands) == DOMAIN hands = Players /\ \A p \in Players : IsFiniteSet(hands[p])
HandsFit(hands) == HandsOK(hands) /\ \A p \in Players : Cardinality(hands[p]) <= MaxHand
Guardians == [Players -> GuardianNames \cup {NoGuardian}]
Guarded(g) ==
  g \in Guardians /\ \A p, q \in Players : p # q /\ g[p] # NoGuardian => g[p] # g[q]
Revivable(a) == a.kind = "ATTACK" => DOMAIN a = AttackFields /\ a.revivals \in Counts

IsState(s) ==
  /\ DOMAIN s = Fields
  /\ s.alive \in [Players -> BOOLEAN] /\ s.defeated \subseteq Players
  /\ HandsFit(s.hand) /\ HandsOK(s.learned) /\ Guarded(s.guardian)
  /\ s.gf \in Nat
  /\ Revivable(s.pending)

(* Only the amulets spent during an attack are counted in it.                *)
SameAction(a, b) ==
  b = a \/ (a.kind = "ATTACK" /\ \E r \in Counts : b = [a EXCEPT !.revivals = r])

Kept(s, t) ==
  /\ t.phase = s.phase /\ t.gf = s.gf /\ t.endTime = s.endTime
  /\ t.endTimeActive = s.endTimeActive /\ t.active = s.active
  /\ t.order = s.order /\ t.cursor = s.cursor
  /\ t.post = s.post /\ t.phenomenon = s.phenomenon
  /\ t.then = s.then /\ t.result = s.result /\ t.deck = s.deck
  /\ SameAction(s.pending, t.pending)

Effect(s, t) ==
  /\ IsState(t) /\ Kept(s, t)
  /\ Alive(t) \subseteq Alive(s)
  /\ t.defeated = s.defeated \cup (Alive(s) \ Alive(t))
Effects(s, T) == \A t \in T : Effect(s, t)

(* Alive, or lost in this turn.                                              *)
Present(s) == Alive(s) \cup s.defeated

LEMMA NoEffectAtAll ==
  ASSUME NEW s, IsState(s)
  PROVE  Effect(s, s) /\ Effects(s, {s})
BY DEF Effect, Effects, Kept, SameAction

LEMMA SameActionAgain ==
  ASSUME NEW a, NEW b, NEW c, Revivable(a), SameAction(a, b), SameAction(b, c)
  PROVE  SameAction(a, c)
<1>1. CASE a = b \/ b = c
  BY <1>1 DEF SameAction
<1>2. CASE a # b /\ b # c
  <2>1. PICK r \in Counts : b = [a EXCEPT !.revivals = r]
    BY <1>2 DEF SameAction
  <2>2. PICK q \in Counts : c = [b EXCEPT !.revivals = q]
    BY <1>2 DEF SameAction
  <2>3. c = [a EXCEPT !.revivals = q]
    BY <2>1, <2>2
  <2> QED BY <1>2, <2>3 DEF SameAction
<1> QED BY <1>1, <1>2

LEMMA EffectOnEffect ==
  ASSUME NEW s, NEW t, NEW u, IsState(s), Effect(s, t), Effect(t, u)
  PROVE  Effect(s, u)
<1>1. SameAction(s.pending, u.pending)
  BY SameActionAgain DEF Effect, Kept, IsState
<1> QED BY <1>1 DEF Effect, Kept, Alive

(* One effect after another, of sets of states.                              *)
LEMMA EffectsOnEffects ==
  ASSUME NEW s, IsState(s), NEW T, Effects(s, T)
  PROVE  /\ \A t \in T : IsState(t) /\ Effect(s, t)
         /\ \A U : (\A u \in U : \E t \in T : Effect(t, u)) => Effects(s, U)
BY EffectOnEffect DEF Effects, Effect

LEMMA EffectKeepsPresent ==
  ASSUME NEW s, NEW t, IsState(s), Effect(s, t)
  PROVE  Present(t) = Present(s)
BY DEF Effect, Present

(* A property of every step along a list is one of the whole list.           *)
LEMMA EffectsAlong ==
  ASSUME NEW n \in Nat, NEW f, NEW s, Effects(s, f[0]),
         \A i \in 1..n : Effects(s, f[i - 1]) => Effects(s, f[i])
  PROVE  Effects(s, f[n])
<1> DEFINE N == {i \in 0..n : Effects(s, f[i])}
<1>1. 0 \in N
  OBVIOUS
<1>2. ASSUME NEW i \in N, i < n
      PROVE  i + 1 \in N
  <2>1. i + 1 \in 1..n /\ (i + 1) - 1 = i
    BY <1>2
  <2> QED BY <2>1
<1>3. N = 0..n
  <2>1. N \in SUBSET (0..n)
    OBVIOUS
  <2> HIDE DEF N
  <2> QED BY <1>1, <1>2, <2>1, Induction
<1> QED BY <1>3

-----------------------------------------------------------------------------
(* Single changes *)

LEMMA ResourceChange ==
  ASSUME NEW s, IsState(s), NEW x
  PROVE  /\ Effect(s, [s EXCEPT !.hp = x])
         /\ Effect(s, [s EXCEPT !.mp = x])
         /\ Effect(s, [s EXCEPT !.money = x])
         /\ Effect(s, [s EXCEPT !.calamities = x])
         /\ Guarded(x) => Effect(s, [s EXCEPT !.guardian = x])
BY DEF IsState, Effect, Kept, Fields, Alive, SameAction

LEMMA HandChange ==
  ASSUME NEW s, IsState(s), NEW x
  PROVE  /\ HandsFit(x) => Effect(s, [s EXCEPT !.hand = x])
         /\ HandsOK(x) => Effect(s, [s EXCEPT !.learned = x])
BY DEF IsState, Effect, Kept, Fields, Alive, SameAction

LEMMA HandsUpdated ==
  ASSUME NEW hands, HandsOK(hands), NEW p, NEW x, p \in Players => IsFiniteSet(x)
  PROVE  /\ HandsOK([hands EXCEPT ![p] = x])
         /\ HandsFit(hands) /\ (p \in Players => Cardinality(x) <= MaxHand)
              => HandsFit([hands EXCEPT ![p] = x])
BY DEF HandsOK, HandsFit

LEMMA HandsOf ==
  ASSUME NEW s, IsState(s), NEW p \in Players
  PROVE  /\ IsFiniteSet(s.hand[p]) /\ IsFiniteSet(s.learned[p])
         /\ Cardinality(s.hand[p]) \in Nat /\ Cardinality(s.hand[p]) <= MaxHand /\ MaxHand \in Nat
BY FS_CardinalityType, BoundsAssumption DEF IsState, HandsFit, HandsOK

LEMMA FewerFit ==
  ASSUME NEW s, IsState(s), NEW p \in Players, NEW fewer, fewer \subseteq s.hand[p]
  PROVE  IsFiniteSet(fewer) /\ Cardinality(fewer) <= MaxHand
<1>1. IsFiniteSet(fewer) /\ Cardinality(fewer) <= Cardinality(s.hand[p])
  BY HandsOf, FS_Subset
<1>2. Cardinality(fewer) \in Nat
  BY <1>1, FS_CardinalityType
<1>3. Cardinality(s.hand[p]) \in Nat /\ Cardinality(s.hand[p]) <= MaxHand /\ MaxHand \in Nat
  BY HandsOf
<1> QED BY <1>1, <1>2, <1>3

LEMMA FewerInHand ==
  ASSUME NEW s, IsState(s), NEW p, NEW x
  PROVE  /\ Effect(s, [s EXCEPT !.hand[p] = @ \ x])
         /\ Effect(s, [s EXCEPT !.learned[p] = @ \ x])
<1>1. p \in Players => /\ IsFiniteSet(s.hand[p] \ x) /\ IsFiniteSet(s.learned[p] \ x)
                       /\ Cardinality(s.hand[p] \ x) <= MaxHand
  BY HandsOf, FewerFit, FS_Subset
<1>2. HandsFit([s.hand EXCEPT ![p] = @ \ x]) /\ HandsOK([s.learned EXCEPT ![p] = @ \ x])
  BY <1>1, HandsUpdated DEF IsState, HandsFit
<1> QED BY <1>2, HandChange

LEMMA AscendedEffect ==
  ASSUME NEW s, IsState(s), NEW p \in Present(s)
  PROVE  Effect(s, Ascended(s, p))
BY DEF IsState, Effect, Kept, Fields, Alive, Ascended, Present, SameAction

-----------------------------------------------------------------------------
(* What cards do to a player *)

LEMMA AddToHandEffect ==
  ASSUME NEW s, IsState(s), NEW p, NEW card
  PROVE  Effects(s, AddToHand(s, p, card))
<1> DEFINE x == s.hand[p] \cup {card}
           with(cards) == [s.hand EXCEPT ![p] = cards]
           t == [s EXCEPT !.hand[p] = @ \cup {card}]
<1>1. /\ t = [s EXCEPT !.hand = with(x)]
      /\ \A cards : [t EXCEPT !.hand[p] = cards] = [s EXCEPT !.hand = [with(x) EXCEPT ![p] = cards]]
  BY DEF IsState, Fields
<1>2. HandsOK(s.hand) /\ HandsFit(s.hand) /\ MaxHand \in Nat
  BY BoundsAssumption DEF IsState, HandsFit
<1>3. DOMAIN s.hand = Players
  BY <1>2 DEF HandsOK
<1>4. CASE p \notin Players
  <2>1. \A cards : HandsFit(with(x)) /\ HandsFit([with(x) EXCEPT ![p] = cards])
    BY <1>2, <1>3, <1>4 DEF HandsFit, HandsOK
  <2> HIDE DEF with, x
  <2>2. Effect(s, t) /\ \A cards : Effect(s, [t EXCEPT !.hand[p] = cards])
    BY <1>1, <2>1, HandChange
  <2> HIDE DEF t
  <2> QED BY <2>2 DEF AddToHand, Effects, t
<1>5. CASE p \in Players
  <2>1. /\ IsFiniteSet(s.hand[p]) /\ Cardinality(s.hand[p]) \in Nat
        /\ Cardinality(s.hand[p]) <= MaxHand
    BY <1>5, HandsOf
  <2>2. /\ IsFiniteSet(x)
        /\ Cardinality(x) = Cardinality(s.hand[p]) \/ Cardinality(x) = Cardinality(s.hand[p]) + 1
    <3> DEFINE hand == s.hand[p]
    <3> HIDE DEF hand
    <3>1. IsFiniteSet(hand)
      BY <2>1 DEF hand
    <3>2. /\ IsFiniteSet(hand \cup {card})
          /\ Cardinality(hand \cup {card})
               = IF card \in hand THEN Cardinality(hand) ELSE Cardinality(hand) + 1
      BY <3>1, FS_AddElement
    <3> QED BY <3>2 DEF hand
  <2>3. t.hand[p] = x
    BY <1>3, <1>5 DEF IsState, Fields
  <2>4. ASSUME NEW cards, IsFiniteSet(cards), Cardinality(cards) <= MaxHand
        PROVE  HandsFit(with(cards)) /\ Effect(s, [s EXCEPT !.hand = with(cards)])
    <3>1. HandsFit(with(cards))
      BY <1>2, <2>4, HandsUpdated
    <3> QED BY <3>1, HandChange
  <2>5. ASSUME NEW old \in s.hand[p]
        PROVE  IsFiniteSet(x \ {old}) /\ Cardinality(x \ {old}) <= MaxHand
    <3> DEFINE y == x \ {old}
    <3>1. old \in x
      BY <2>5
    <3> HIDE DEF x
    <3>2. IsFiniteSet(y) /\ Cardinality(y) = Cardinality(x) - 1
      BY <2>2, <3>1, FS_RemoveElement
    <3> QED BY <1>2, <2>1, <2>2, <3>2
  <2>6. \A cards : [with(x) EXCEPT ![p] = cards] = with(cards)
    BY <1>3, <1>5
  <2>7. CASE Cardinality(x) > MaxHand
    <3>1. ASSUME NEW old \in s.hand[p]
          PROVE  Effect(s, [t EXCEPT !.hand[p] = x \ {old}])
      <4>1. [t EXCEPT !.hand[p] = x \ {old}] = [s EXCEPT !.hand = with(x \ {old})]
        BY <1>1, <2>6
      <4> QED BY <2>4, <2>5, <4>1
    <3>2. AddToHand(s, p, card) = {[t EXCEPT !.hand[p] = x \ {old}] : old \in s.hand[p]}
      BY <2>3, <2>7 DEF AddToHand
    <3> HIDE DEF t, x
    <3> QED BY <3>1, <3>2 DEF Effects
  <2>8. CASE ~(Cardinality(x) > MaxHand)
    <3>1. Cardinality(x) <= MaxHand
      BY <1>2, <2>1, <2>2, <2>8
    <3>2. Effect(s, t)
      BY <1>1, <2>2, <2>4, <3>1
    <3> QED BY <2>3, <2>8, <3>2 DEF AddToHand, Effects
  <2> QED BY <2>7, <2>8
<1> QED BY <1>4, <1>5

LEMMA grantStandardArtifactEffect ==
  ASSUME NEW s, IsState(s), NEW p
  PROVE  Effects(s, grantStandardArtifact(s, p))
BY AddToHandEffect DEF grantStandardArtifact, Effects

LEMMA DepartEffect ==
  ASSUME NEW s, IsState(s), NEW p, NEW loss
  PROVE  Effects(s, maybeDepartGuardianAfterHpLoss(s, p, loss))
<1>1. Effect(s, Departed(s, p))
  <2> DEFINE g == [s.guardian EXCEPT ![p] = NoGuardian]
  <2>1. Guarded(g)
    BY DEF IsState, Guarded, Guardians
  <2>2. Departed(s, p) = [s EXCEPT !.guardian = g]
    BY DEF Departed
  <2> HIDE DEF g
  <2>3. Effect(s, [s EXCEPT !.guardian = g])
    BY <2>1, ResourceChange
  <2> QED BY <2>2, <2>3
<1> QED BY <1>1, NoEffectAtAll DEF maybeDepartGuardianAfterHpLoss, Effects

LEMMA SetHpEffect ==
  ASSUME NEW s, IsState(s), NEW p, NEW n
  PROVE  Effect(s, SetHp(s, p, n))
BY ResourceChange DEF SetHp

LEMMA RevivedEffect ==
  ASSUME NEW s, IsState(s), NEW p \in Players
  PROVE  Effect(s, Revived(s, p))
<1> DEFINE amulet == CHOOSE c \in CardsWith(s, p, "REVIVE") : TRUE
           u == [s EXCEPT !.hand[p] = @ \ {amulet}]
           t == [u EXCEPT !.hp[p] = ReviveHp]
           v == [t EXCEPT !.pending.revivals[p] = @ + 1]
<1> HIDE DEF amulet
<1>1. Effect(s, t)
  <2>1. Effect(s, u)
    BY FewerInHand
  <2>2. Effect(u, t)
    BY <2>1, ResourceChange DEF Effect
  <2> QED BY <2>1, <2>2, EffectOnEffect
<1> HIDE DEF t, u
<1>2. CASE t.pending.kind = "ATTACK"
  <2>1. IsState(t) /\ DOMAIN t = Fields
    BY <1>1 DEF Effect, IsState
  <2>2. DOMAIN t.pending = AttackFields /\ t.pending.revivals \in Counts
    BY <1>2, <2>1 DEF IsState, Revivable
  <2> DEFINE r == [t.pending.revivals EXCEPT ![p] = @ + 1]
  <2>3. r \in Counts
    BY <2>2 DEF Counts
  <2>4. v = [t EXCEPT !.pending = [t.pending EXCEPT !.revivals = r]]
    OBVIOUS
  <2> HIDE DEF r, v
  <2> DEFINE b == [t.pending EXCEPT !.revivals = r]
  <2>5. SameAction(t.pending, b)
    BY <1>2, <2>3 DEF SameAction
  <2>6. Revivable(b)
    BY <2>2, <2>3 DEF Revivable, AttackFields
  <2> HIDE DEF b
  <2>7. v = [t EXCEPT !.pending = b]
    BY <2>4 DEF b
  <2>8. /\ DOMAIN v = Fields /\ v.pending = b
        /\ v.alive = t.alive /\ v.defeated = t.defeated /\ v.hand = t.hand
        /\ v.learned = t.learned /\ v.guardian = t.guardian /\ v.gf = t.gf
    BY <2>1, <2>7 DEF Fields
  <2>9. IsState(v)
    BY <2>1, <2>6, <2>8 DEF IsState
  <2>10. Kept(t, v)
    BY <2>1, <2>5, <2>7, <2>8 DEF Kept, Fields
  <2>11. Effect(t, v)
    BY <2>8, <2>9, <2>10 DEF Effect, Alive
  <2>12. Effect(s, v)
    BY <1>1, <2>11, EffectOnEffect
  <2> QED BY <1>2, <2>12 DEF Revived, amulet, t, u, v
<1>3. CASE t.pending.kind # "ATTACK"
  BY <1>1, <1>3 DEF Revived, amulet, t, u
<1> QED BY <1>2, <1>3

LEMMA HpZeroByItselfEffect ==
  ASSUME NEW s, IsState(s), NEW p \in Present(s)
  PROVE  Effects(s, HpZeroByItself(s, p))
<1>1. p \in Players
  BY DEF Present, Alive, IsState
<1> QED BY <1>1, NoEffectAtAll, RevivedEffect, AscendedEffect DEF HpZeroByItself, Effects

LEMMA PresentAfter ==
  ASSUME NEW s, NEW t, IsState(s), Effect(s, t), NEW p \in Present(s)
  PROVE  IsState(t) /\ p \in Present(t) /\ p \in Players
BY EffectKeepsPresent DEF Effect, Present, Alive, IsState

(* The damage or the price, the HP-zero interrupt, the guardian.             *)
LEMMA HpLossEffect ==
  ASSUME NEW s, IsState(s), NEW t, Effect(s, t), NEW p \in Present(s), NEW loss
  PROVE  Effects(s, UNION {maybeDepartGuardianAfterHpLoss(u, p, loss) : u \in HpZeroByItself(t, p)})
<1>1. IsState(t) /\ p \in Present(t)
  BY PresentAfter
<1>2. Effects(t, HpZeroByItself(t, p))
  BY <1>1, HpZeroByItselfEffect
<1>3. \A u \in HpZeroByItself(t, p) : IsState(u) /\ Effect(s, u)
  BY <1>1, <1>2, EffectOnEffect DEF Effects, Effect
<1>4. \A u \in HpZeroByItself(t, p) : Effects(u, maybeDepartGuardianAfterHpLoss(u, p, loss))
  BY <1>3, DepartEffect
<1> QED BY <1>3, <1>4, EffectOnEffect DEF Effects

LEMMA LoseHpEffect ==
  ASSUME NEW s, IsState(s), NEW p \in Present(s), NEW n
  PROVE  Effects(s, LoseHp(s, p, n))
BY SetHpEffect, HpLossEffect DEF LoseHp

LEMMA ShotBackEffect ==
  ASSUME NEW s, IsState(s), NEW p \in Alive(s)
  PROVE  Effects(s, ShotBack(s, p))
<1>1. p \in Present(s)
  BY DEF Present
<1>2. Effect(s, SetHp(s, p, s.hp[p] - BowDamage))
  BY SetHpEffect
<1> QED BY <1>1, <1>2, HpLossEffect DEF ShotBack

LEMMA resolveHpZeroEffect ==
  ASSUME NEW s, IsState(s), NEW p \in Present(s), NEW source, NEW ignoreRevival
  PROVE  Effects(s, resolveHpZero(s, p, source, ignoreRevival))
<1> DEFINE bow == CHOOSE c \in CardsWith(s, p, "ATTACK_DYINGLY") : TRUE
           t == [s EXCEPT !.hand[p] = @ \ {bow}]
           shot == IF source \in Alive(t) THEN ShotBack(t, source) ELSE {}
<1>1. p \in Players
  BY DEF Present, Alive, IsState
<1>2. Effect(s, t)
  BY FewerInHand
<1> HIDE DEF t
<1>3. Effects(s, {t} \cup shot)
  BY <1>2, ShotBackEffect, EffectOnEffect DEF Effects, Effect
<1> HIDE DEF shot
<1>4. \A u \in {t} \cup shot : Effect(s, Ascended(u, p))
  BY <1>3, PresentAfter, AscendedEffect, EffectOnEffect DEF Effects
<1>5. Effects(s, {Ascended(u, p) : u \in {t} \cup shot})
  BY <1>4 DEF Effects
<1>6. Effects(s, {Revived(s, p)}) /\ Effects(s, {Ascended(s, p)})
  BY <1>1, RevivedEffect, AscendedEffect DEF Effects
<1> QED BY <1>5, <1>6, NoEffectAtAll DEF resolveHpZero, bow, t, shot

LEMMA StealTwoEffect ==
  ASSUME NEW s, IsState(s), NEW p
  PROVE  Effects(s, StealTwo(s, p))
<1>1. ASSUME NEW t, IsState(t)
      PROVE  Effects(t, StealOne(t, p))
  <2>1. \A c : Effect(t, [t EXCEPT !.hand[p] = @ \ {c}]) /\ Effect(t, [t EXCEPT !.learned[p] = @ \ {c}])
    BY <1>1, FewerInHand
  <2> QED BY <1>1, <2>1, NoEffectAtAll DEF StealOne, Effects
<1> QED BY <1>1, EffectsOnEffects DEF StealTwo, Effects

LEMMA BoostEffect ==
  ASSUME NEW s, IsState(s), NEW p, NEW resource, NEW n
  PROVE  Effect(s, Boost(s, p, resource, n))
BY ResourceChange DEF Boost

LEMMA BoostAllEffect ==
  ASSUME NEW s, IsState(s), NEW p, NEW amounts
  PROVE  Effect(s, BoostAll(s, p, amounts))
<1> DEFINE t == Boost(s, p, "hp", amounts.hp)
           u == Boost(t, p, "mp", amounts.mp)
<1>1. IsState(t) /\ Effect(s, t)
  BY BoostEffect DEF Effect
<1> HIDE DEF t
<1>2. IsState(u) /\ Effect(s, u)
  BY <1>1, BoostEffect, EffectOnEffect DEF Effect
<1> HIDE DEF u
<1>3. Effect(s, Boost(u, p, "money", amounts.money))
  BY <1>2, BoostEffect, EffectOnEffect
<1> QED BY <1>3 DEF BoostAll, t, u

LEMMA resolveDemonEffectEffect ==
  ASSUME NEW s, IsState(s), NEW p \in Alive(s), NEW k
  PROVE  Effects(s, resolveDemonEffect(s, p, k))
<1> DEFINE hurt == IF k.damage > 0 THEN LoseHp(s, p, k.damage) ELSE {s}
           robbed(t) == IF Has(k, "REMOVE_SOMETHING") THEN StealTwo(t, p) ELSE {t}
           gained(t) == IF p \notin Alive(t) \/ ~Has(k, "BOOST_SOMETHING") THEN {t}
                        ELSE {Boost(t, p, r, k.boost[r]) : r \in Boosts(k)}
<1>1. Effects(s, hurt)
  BY LoseHpEffect, NoEffectAtAll DEF Present
<1>2. \A t : IsState(t) => Effects(t, robbed(t))
  BY StealTwoEffect, NoEffectAtAll
<1>3. \A t : IsState(t) => Effects(t, gained(t))
  BY BoostEffect, NoEffectAtAll DEF Effects
<1> HIDE DEF hurt, robbed, gained
<1>4. Effects(s, UNION {robbed(u) : u \in hurt})
  BY <1>1, <1>2, EffectsOnEffects DEF Effects
<1>5. Effects(s, UNION {gained(t) : t \in UNION {robbed(u) : u \in hurt}})
  <2> DEFINE T == UNION {robbed(u) : u \in hurt}
  <2> HIDE DEF T
  <2> SUFFICES Effects(s, T) => Effects(s, UNION {gained(t) : t \in T})
    BY <1>4 DEF T
  <2> QED BY <1>3, EffectsOnEffects DEF Effects
<1> QED BY <1>5 DEF resolveDemonEffect, hurt, robbed, gained

-----------------------------------------------------------------------------
(* Grants *)

(* Every number of demons met.                                               *)
MetStep(s, p, i, T) ==
  UNION {UNION {resolveDemonEffect(t, p, d) : d \in t.deck.demons} : t \in {u \in T : p \in Alive(u)}}
IsMet(f, s, p, m) ==
  f = [n \in 0..m |-> IF n = 0 THEN {s} ELSE MetStep(s, p, n, f[n - 1])]

LEMMA MetExists ==
  ASSUME NEW s, NEW p, NEW m \in Nat
  PROVE  \E f : IsMet(f, s, p, m)
<1> DEFINE N == {n \in 0..m : \E f : IsMet(f, s, p, n)}
<1>1. 0 \in N
  <2> DEFINE f == [i \in 0..0 |-> {s}]
  <2>1. IsMet(f, s, p, 0)
    BY DEF IsMet
  <2> QED BY <2>1
<1>2. ASSUME NEW n \in N, n < m
      PROVE  n + 1 \in N
  <2>1. PICK f : IsMet(f, s, p, n)
    OBVIOUS
  <2> DEFINE x == MetStep(s, p, n + 1, f[n])
             g == [i \in 0..(n + 1) |-> IF i = n + 1 THEN x ELSE f[i]]
  <2> HIDE DEF x
  <2>2. \A i \in 0..(n + 1) :
          g[i] = IF i = 0 THEN {s} ELSE MetStep(s, p, i, g[i - 1])
    <3> SUFFICES ASSUME NEW i \in 0..(n + 1)
                 PROVE  g[i] = IF i = 0 THEN {s} ELSE MetStep(s, p, i, g[i - 1])
      OBVIOUS
    <3>1. CASE i = n + 1
      <4>1. g[i] = x /\ g[i - 1] = f[n] /\ i # 0
        BY <3>1
      <4> QED BY <3>1, <4>1 DEF x
    <3>2. CASE i # n + 1
      <4>1. i \in 0..n /\ g[i] = f[i]
        BY <3>2
      <4>2. i # 0 => g[i - 1] = f[i - 1]
        BY <4>1
      <4> QED BY <2>1, <4>1, <4>2 DEF IsMet
    <3> QED BY <3>1, <3>2
  <2>3. IsMet(g, s, p, n + 1)
    BY <2>2 DEF IsMet
  <2> HIDE DEF g
  <2> QED BY <1>2, <2>3
<1> HIDE DEF N
<1>3. N = 0..m
  <2>1. N \in SUBSET (0..m)
    BY DEF N
  <2> QED BY <1>1, <1>2, <2>1, Induction
<1> QED BY <1>3 DEF N

Meets(met, s, p) ==
  /\ met[0] = {s} /\ \A n \in 1..MaxDemons : met[n] = MetStep(s, p, n, met[n - 1])
  /\ EndTimeGrant(s, p) =
       UNION {IF p \in Alive(t) THEN grantStandardArtifact(t, p) ELSE {t} :
                t \in UNION {met[n] : n \in 0..MaxDemons}}

LEMMA MetUnfolds ==
  ASSUME NEW s, NEW p
  PROVE  \E met : Meets(met, s, p)
<1>1. MaxDemons \in Nat
  BY BoundsAssumption
<1> DEFINE met == CHOOSE f : IsMet(f, s, p, MaxDemons)
<1>2. IsMet(met, s, p, MaxDemons)
  BY <1>1, MetExists
<1>3. EndTimeGrant(s, p) =
        UNION {IF p \in Alive(t) THEN grantStandardArtifact(t, p) ELSE {t} :
                 t \in UNION {met[n] : n \in 0..MaxDemons}}
  BY DEF EndTimeGrant, IsMet, MetStep
<1> HIDE DEF met
<1>4. \A n \in 1..MaxDemons : met[n] = MetStep(s, p, n, met[n - 1])
  <2> TAKE n \in 1..MaxDemons
  <2>1. n \in 0..MaxDemons /\ n # 0
    BY <1>1
  <2> QED BY <1>2, <2>1 DEF IsMet
<1>5. met[0] = {s}
  BY <1>1, <1>2 DEF IsMet
<1> QED BY <1>3, <1>4, <1>5 DEF Meets

LEMMA EndTimeGrantEffect ==
  ASSUME NEW s, IsState(s), NEW p
  PROVE  Effects(s, EndTimeGrant(s, p))
<1>1. MaxDemons \in Nat
  BY BoundsAssumption
<1>2. PICK met : Meets(met, s, p)
  BY MetUnfolds
<1>3. ASSUME NEW T, Effects(s, T), NEW n
      PROVE  Effects(s, MetStep(s, p, n, T))
  BY <1>3, EffectsOnEffects, resolveDemonEffectEffect DEF MetStep, Effects
<1>4. ASSUME NEW n \in 0..MaxDemons
      PROVE  Effects(s, met[n])
  <2>1. \A i \in 1..n : Effects(s, met[i - 1]) => Effects(s, met[i])
    BY <1>1, <1>2, <1>3 DEF Meets
  <2>2. Effects(s, met[0])
    BY <1>2, NoEffectAtAll DEF Meets
  <2> QED BY <1>1, <2>1, <2>2, EffectsAlong
<1> DEFINE T == UNION {met[n] : n \in 0..MaxDemons}
<1>5. Effects(s, T)
  BY <1>4 DEF Effects
<1> HIDE DEF T
<1>6. Effects(s, UNION {IF p \in Alive(t) THEN grantStandardArtifact(t, p) ELSE {t} : t \in T})
  BY <1>5, EffectsOnEffects, grantStandardArtifactEffect DEF Effects
<1> QED BY <1>2, <1>6 DEF T, Meets

LEMMA resolveNormalGrantEffect ==
  ASSUME NEW s, IsState(s), NEW p
  PROVE  Effects(s, resolveNormalGrant(s, p))
BY EndTimeGrantEffect, grantStandardArtifactEffect, NoEffectAtAll DEF resolveNormalGrant

GrantedStep(S, list, i, T) == UNION {resolveNormalGrant(s, list[i]) : s \in T}
IsGranted(f, S, list, m) ==
  f = [i \in 0..m |-> IF i = 0 THEN S ELSE GrantedStep(S, list, i, f[i - 1])]

LEMMA GrantedExists ==
  ASSUME NEW S, NEW list, NEW m \in Nat
  PROVE  \E f : IsGranted(f, S, list, m)
<1> DEFINE N == {n \in 0..m : \E f : IsGranted(f, S, list, n)}
<1>1. 0 \in N
  <2> DEFINE f == [i \in 0..0 |-> S]
  <2>1. IsGranted(f, S, list, 0)
    BY DEF IsGranted
  <2> QED BY <2>1
<1>2. ASSUME NEW n \in N, n < m
      PROVE  n + 1 \in N
  <2>1. PICK f : IsGranted(f, S, list, n)
    OBVIOUS
  <2> DEFINE x == GrantedStep(S, list, n + 1, f[n])
             g == [i \in 0..(n + 1) |-> IF i = n + 1 THEN x ELSE f[i]]
  <2> HIDE DEF x
  <2>2. \A i \in 0..(n + 1) :
          g[i] = IF i = 0 THEN S ELSE GrantedStep(S, list, i, g[i - 1])
    <3> SUFFICES ASSUME NEW i \in 0..(n + 1)
                 PROVE  g[i] = IF i = 0 THEN S ELSE GrantedStep(S, list, i, g[i - 1])
      OBVIOUS
    <3>1. CASE i = n + 1
      <4>1. g[i] = x /\ g[i - 1] = f[n] /\ i # 0
        BY <3>1
      <4> QED BY <3>1, <4>1 DEF x
    <3>2. CASE i # n + 1
      <4>1. i \in 0..n /\ g[i] = f[i]
        BY <3>2
      <4>2. i # 0 => g[i - 1] = f[i - 1]
        BY <4>1
      <4> QED BY <2>1, <4>1, <4>2 DEF IsGranted
    <3> QED BY <3>1, <3>2
  <2>3. IsGranted(g, S, list, n + 1)
    BY <2>2 DEF IsGranted
  <2> HIDE DEF g
  <2> QED BY <1>2, <2>3
<1> HIDE DEF N
<1>3. N = 0..m
  <2>1. N \in SUBSET (0..m)
    BY DEF N
  <2> QED BY <1>1, <1>2, <2>1, Induction
<1> QED BY <1>3 DEF N

GrantsAll(after, S, list) ==
  /\ GrantAll(S, list) = after[Len(list)] /\ after[0] = S
  /\ \A i \in 1..Len(list) : after[i] = GrantedStep(S, list, i, after[i - 1])

LEMMA GrantAllUnfolds ==
  ASSUME NEW S, NEW list, Len(list) \in Nat
  PROVE  \E after : GrantsAll(after, S, list)
<1> DEFINE after == CHOOSE f : IsGranted(f, S, list, Len(list))
<1>1. IsGranted(after, S, list, Len(list))
  BY GrantedExists
<1>2. GrantAll(S, list) = after[Len(list)]
  BY DEF GrantAll, IsGranted, GrantedStep
<1> HIDE DEF after
<1>3. after[0] = S /\ \A i \in 1..Len(list) : after[i] = GrantedStep(S, list, i, after[i - 1])
  BY <1>1 DEF IsGranted
<1> QED BY <1>2, <1>3 DEF GrantsAll

LEMMA GrantAllEffect ==
  ASSUME NEW s, IsState(s), NEW S, Effects(s, S), NEW list, Len(list) \in Nat
  PROVE  Effects(s, GrantAll(S, list))
<1>1. PICK after : GrantsAll(after, S, list)
  BY GrantAllUnfolds
<1>2. ASSUME NEW T, Effects(s, T), NEW i
      PROVE  Effects(s, GrantedStep(S, list, i, T))
  BY <1>2, EffectsOnEffects, resolveNormalGrantEffect DEF GrantedStep, Effects
<1>3. Effects(s, after[0]) /\ \A i \in 1..Len(list) : Effects(s, after[i - 1]) => Effects(s, after[i])
  BY <1>1, <1>2 DEF GrantsAll
<1> QED BY <1>1, <1>3, EffectsAlong DEF GrantsAll

LEMMA GrantsEffect ==
  ASSUME NEW s, IsState(s), NEW S, Effects(s, S), NEW p, NEW n \in Nat
  PROVE  Effects(s, Grants(S, p, n))
<1>1. Len([i \in 1..n |-> p]) = n
  OBVIOUS
<1> QED BY <1>1, GrantAllEffect DEF Grants

GrantedEachStep(S, counts, i, T) == Grants(T, Seats[i], counts[Seats[i]])
IsGrantedEach(f, S, counts, m) ==
  f = [i \in 0..m |-> IF i = 0 THEN S ELSE GrantedEachStep(S, counts, i, f[i - 1])]

LEMMA GrantedEachExists ==
  ASSUME NEW S, NEW counts, NEW m \in Nat
  PROVE  \E f : IsGrantedEach(f, S, counts, m)
<1> DEFINE N == {n \in 0..m : \E f : IsGrantedEach(f, S, counts, n)}
<1>1. 0 \in N
  <2> DEFINE f == [i \in 0..0 |-> S]
  <2>1. IsGrantedEach(f, S, counts, 0)
    BY DEF IsGrantedEach
  <2> QED BY <2>1
<1>2. ASSUME NEW n \in N, n < m
      PROVE  n + 1 \in N
  <2>1. PICK f : IsGrantedEach(f, S, counts, n)
    OBVIOUS
  <2> DEFINE x == GrantedEachStep(S, counts, n + 1, f[n])
             g == [i \in 0..(n + 1) |-> IF i = n + 1 THEN x ELSE f[i]]
  <2> HIDE DEF x
  <2>2. \A i \in 0..(n + 1) :
          g[i] = IF i = 0 THEN S ELSE GrantedEachStep(S, counts, i, g[i - 1])
    <3> SUFFICES ASSUME NEW i \in 0..(n + 1)
                 PROVE  g[i] = IF i = 0 THEN S ELSE GrantedEachStep(S, counts, i, g[i - 1])
      OBVIOUS
    <3>1. CASE i = n + 1
      <4>1. g[i] = x /\ g[i - 1] = f[n] /\ i # 0
        BY <3>1
      <4> QED BY <3>1, <4>1 DEF x
    <3>2. CASE i # n + 1
      <4>1. i \in 0..n /\ g[i] = f[i]
        BY <3>2
      <4>2. i # 0 => g[i - 1] = f[i - 1]
        BY <4>1
      <4> QED BY <2>1, <4>1, <4>2 DEF IsGrantedEach
    <3> QED BY <3>1, <3>2
  <2>3. IsGrantedEach(g, S, counts, n + 1)
    BY <2>2 DEF IsGrantedEach
  <2> HIDE DEF g
  <2> QED BY <1>2, <2>3
<1> HIDE DEF N
<1>3. N = 0..m
  <2>1. N \in SUBSET (0..m)
    BY DEF N
  <2> QED BY <1>1, <1>2, <2>1, Induction
<1> QED BY <1>3 DEF N

LEMMA SeatsList == Len(Seats) \in Nat /\ \A i \in 1..Len(Seats) : Seats[i] \in Players
<1>1. Len(Seats) \in Nat
  BY SeatsAssumption, PlayersAssumption, FS_CardinalityType
<1>2. DOMAIN Seats = 1..Len(Seats)
  BY <1>1
<1> QED BY <1>1, <1>2, SeatsAssumption

GrantsEach(after, S, counts) ==
  /\ GrantEach(S, counts) = after[Len(Seats)] /\ after[0] = S
  /\ \A i \in 1..Len(Seats) : after[i] = GrantedEachStep(S, counts, i, after[i - 1])

LEMMA GrantEachUnfolds ==
  ASSUME NEW S, NEW counts
  PROVE  \E after : GrantsEach(after, S, counts)
<1> DEFINE after == CHOOSE f : IsGrantedEach(f, S, counts, Len(Seats))
<1>1. IsGrantedEach(after, S, counts, Len(Seats))
  BY SeatsList, GrantedEachExists
<1>2. GrantEach(S, counts) = after[Len(Seats)]
  BY DEF GrantEach, IsGrantedEach, GrantedEachStep
<1> HIDE DEF after
<1>3. after[0] = S /\ \A i \in 1..Len(Seats) : after[i] = GrantedEachStep(S, counts, i, after[i - 1])
  BY <1>1, SeatsList DEF IsGrantedEach
<1> QED BY <1>2, <1>3 DEF GrantsEach

LEMMA GrantEachEffect ==
  ASSUME NEW s, IsState(s), NEW S, Effects(s, S), NEW counts \in Counts
  PROVE  Effects(s, GrantEach(S, counts))
<1>1. PICK after : GrantsEach(after, S, counts)
  BY GrantEachUnfolds
<1>2. ASSUME NEW T, Effects(s, T), NEW i \in 1..Len(Seats)
      PROVE  Effects(s, GrantedEachStep(S, counts, i, T))
  BY <1>2, SeatsList, GrantsEffect DEF GrantedEachStep, Counts
<1>3. Effects(s, after[0]) /\ \A i \in 1..Len(Seats) : Effects(s, after[i - 1]) => Effects(s, after[i])
  BY <1>1, <1>2 DEF GrantsEach
<1> QED BY <1>1, <1>3, SeatsList, EffectsAlong DEF GrantsEach

-----------------------------------------------------------------------------
(* Grants that hurt nobody *)

(* Before the end time no demon comes, and not every demon hurts.            *)
Calm(s) == ~s.endTimeActive \/ \A d \in s.deck.demons : ~(d.damage > 0)
Intact(s, t) ==
  /\ DOMAIN t = Fields /\ t.alive = s.alive
  /\ t.endTimeActive = s.endTimeActive /\ t.deck = s.deck
Unhurt(s, T) == \A t \in T : Intact(s, t)

LEMMA UnhurtOnUnhurt ==
  ASSUME NEW s, NEW T, Unhurt(s, T)
  PROVE  \A U : (\A u \in U : \E t \in T : Intact(t, u)) => Unhurt(s, U)
BY DEF Unhurt, Intact

LEMMA IntactChanges ==
  ASSUME NEW s, DOMAIN s = Fields
  PROVE  /\ Intact(s, s)
         /\ \A x : /\ Intact(s, [s EXCEPT !.hand = x]) /\ Intact(s, [s EXCEPT !.learned = x])
                  /\ Intact(s, [s EXCEPT !.hp = x]) /\ Intact(s, [s EXCEPT !.mp = x])
                  /\ Intact(s, [s EXCEPT !.money = x])
BY DEF Intact, Fields

LEMMA UnhurtAlong ==
  ASSUME NEW n \in Nat, NEW f, NEW s, Unhurt(s, f[0]),
         \A i \in 1..n : Unhurt(s, f[i - 1]) => Unhurt(s, f[i])
  PROVE  Unhurt(s, f[n])
<1> DEFINE N == {i \in 0..n : Unhurt(s, f[i])}
<1>1. 0 \in N
  OBVIOUS
<1>2. ASSUME NEW i \in N, i < n
      PROVE  i + 1 \in N
  <2>1. i + 1 \in 1..n /\ (i + 1) - 1 = i
    BY <1>2
  <2> QED BY <2>1
<1>3. N = 0..n
  <2>1. N \in SUBSET (0..n)
    OBVIOUS
  <2> HIDE DEF N
  <2> QED BY <1>1, <1>2, <2>1, Induction
<1> QED BY <1>3

LEMMA grantStandardArtifactUnhurt ==
  ASSUME NEW s, DOMAIN s = Fields, NEW p
  PROVE  Unhurt(s, grantStandardArtifact(s, p))
<1>1. \A t : DOMAIN t = Fields => \A x : Intact(t, [t EXCEPT !.hand = x])
  BY IntactChanges
<1>2. \A card : Unhurt(s, AddToHand(s, p, card))
  <2> TAKE card
  <2> DEFINE t == [s EXCEPT !.hand[p] = @ \cup {card}]
  <2>1. Intact(s, t)
    BY <1>1
  <2>2. \A old : Intact(t, [t EXCEPT !.hand[p] = @ \ {old}])
    <3>1. DOMAIN t = Fields
      BY <2>1 DEF Intact
    <3> HIDE DEF t
    <3> QED BY <1>1, <3>1
  <2>3. AddToHand(s, p, card) \subseteq {[t EXCEPT !.hand[p] = @ \ {old}] : old \in s.hand[p]} \cup {t}
    BY DEF AddToHand
  <2> HIDE DEF t
  <2> QED BY <2>1, <2>2, <2>3 DEF Intact, Unhurt
<1> QED BY <1>2 DEF Unhurt, grantStandardArtifact

LEMMA resolveDemonEffectUnhurt ==
  ASSUME NEW s, DOMAIN s = Fields, NEW p, NEW k, ~(k.damage > 0)
  PROVE  Unhurt(s, resolveDemonEffect(s, p, k))
<1> DEFINE robbed(t) == IF Has(k, "REMOVE_SOMETHING") THEN StealTwo(t, p) ELSE {t}
           gained(t) == IF p \notin Alive(t) \/ ~Has(k, "BOOST_SOMETHING") THEN {t}
                        ELSE {Boost(t, p, r, k.boost[r]) : r \in Boosts(k)}
<1>1. resolveDemonEffect(s, p, k) = UNION {gained(t) : t \in UNION {robbed(u) : u \in {s}}}
  BY DEF resolveDemonEffect
<1>2. \A t : DOMAIN t = Fields => Unhurt(t, robbed(t))
  <2>1. \A t : DOMAIN t = Fields => Unhurt(t, StealOne(t, p))
    <3> SUFFICES ASSUME NEW t, DOMAIN t = Fields
                 PROVE  Unhurt(t, StealOne(t, p))
      OBVIOUS
    <3>1. \A x : Intact(t, [t EXCEPT !.hand = x]) /\ Intact(t, [t EXCEPT !.learned = x])
      BY IntactChanges
    <3>2. Intact(t, t)
      BY IntactChanges
    <3>3. \A c : Intact(t, [t EXCEPT !.hand[p] = @ \ {c}]) /\ Intact(t, [t EXCEPT !.learned[p] = @ \ {c}])
      BY <3>1
    <3> QED BY <3>2, <3>3 DEF StealOne, Unhurt
  <2>2. \A t : DOMAIN t = Fields => Unhurt(t, StealTwo(t, p))
    BY <2>1, UnhurtOnUnhurt DEF StealTwo, Unhurt, Intact
  <2> QED BY <2>2, IntactChanges DEF Unhurt
<1>3. \A t : DOMAIN t = Fields => Unhurt(t, gained(t))
  <2>1. \A t : DOMAIN t = Fields =>
          \A x : /\ Intact(t, [t EXCEPT !.hp = x]) /\ Intact(t, [t EXCEPT !.mp = x])
                /\ Intact(t, [t EXCEPT !.money = x])
    BY IntactChanges
  <2>2. \A t, r, n : DOMAIN t = Fields => Intact(t, Boost(t, p, r, n))
    BY <2>1 DEF Boost
  <2> QED BY <2>2, IntactChanges DEF Unhurt
<1> HIDE DEF robbed, gained
<1> QED BY <1>1, <1>2, <1>3 DEF Unhurt, Intact

LEMMA EndTimeGrantUnhurt ==
  ASSUME NEW s, DOMAIN s = Fields, Calm(s), s.endTimeActive, NEW p
  PROVE  Unhurt(s, EndTimeGrant(s, p))
<1>1. MaxDemons \in Nat
  BY BoundsAssumption
<1>2. PICK met : Meets(met, s, p)
  BY MetUnfolds
<1>3. ASSUME NEW T, Unhurt(s, T), NEW n
      PROVE  Unhurt(s, MetStep(s, p, n, T))
  <2>1. ASSUME NEW t \in T, NEW d \in t.deck.demons
        PROVE  Unhurt(t, resolveDemonEffect(t, p, d))
    <3>1. DOMAIN t = Fields /\ t.deck = s.deck
      BY <1>3 DEF Unhurt, Intact
    <3>2. ~(d.damage > 0)
      BY <3>1 DEF Calm
    <3> QED BY <3>1, <3>2, resolveDemonEffectUnhurt
  <2> QED BY <1>3, <2>1, UnhurtOnUnhurt DEF MetStep, Unhurt
<1>4. ASSUME NEW n \in 0..MaxDemons
      PROVE  Unhurt(s, met[n])
  <2>1. \A i \in 1..n : Unhurt(s, met[i - 1]) => Unhurt(s, met[i])
    BY <1>1, <1>2, <1>3 DEF Meets
  <2>2. Unhurt(s, met[0])
    BY <1>2, IntactChanges DEF Unhurt, Meets
  <2> QED BY <1>1, <2>1, <2>2, UnhurtAlong
<1> DEFINE T == UNION {met[n] : n \in 0..MaxDemons}
<1>5. Unhurt(s, T)
  BY <1>4 DEF Unhurt
<1> HIDE DEF T
<1>6. Unhurt(s, UNION {IF p \in Alive(t) THEN grantStandardArtifact(t, p) ELSE {t} : t \in T})
  <2>1. \A t \in T : Unhurt(t, grantStandardArtifact(t, p)) /\ Intact(t, t)
    BY <1>5, grantStandardArtifactUnhurt, IntactChanges DEF Unhurt, Intact
  <2> QED BY <1>5, <2>1, UnhurtOnUnhurt DEF Unhurt
<1> QED BY <1>2, <1>6 DEF T, Meets

LEMMA GrantAllUnhurt ==
  ASSUME NEW s, DOMAIN s = Fields, Calm(s), NEW S, Unhurt(s, S), NEW list, Len(list) \in Nat
  PROVE  Unhurt(s, GrantAll(S, list))
<1>1. PICK after : GrantsAll(after, S, list)
  BY GrantAllUnfolds
<1>2. ASSUME NEW T, Unhurt(s, T), NEW i
      PROVE  Unhurt(s, GrantedStep(S, list, i, T))
  <2>1. \A t \in T : Unhurt(t, resolveNormalGrant(t, list[i]))
    <3> TAKE t \in T
    <3>1. Calm(t) /\ DOMAIN t = Fields
      BY <1>2 DEF Unhurt, Intact, Calm
    <3>2. Unhurt(t, {t})
      BY <3>1, IntactChanges DEF Unhurt
    <3> QED BY <3>1, <3>2, EndTimeGrantUnhurt, grantStandardArtifactUnhurt DEF resolveNormalGrant
  <2> QED BY <1>2, <2>1, UnhurtOnUnhurt DEF GrantedStep, Unhurt
<1>3. Unhurt(s, after[0]) /\ \A i \in 1..Len(list) : Unhurt(s, after[i - 1]) => Unhurt(s, after[i])
  BY <1>1, <1>2 DEF GrantsAll
<1> QED BY <1>1, <1>3, UnhurtAlong DEF GrantsAll

LEMMA GrantEachUnhurt ==
  ASSUME NEW s, DOMAIN s = Fields, Calm(s), NEW S, Unhurt(s, S), NEW counts \in Counts
  PROVE  Unhurt(s, GrantEach(S, counts))
<1>1. PICK after : GrantsEach(after, S, counts)
  BY GrantEachUnfolds
<1>2. ASSUME NEW T, Unhurt(s, T), NEW i \in 1..Len(Seats)
      PROVE  Unhurt(s, GrantedEachStep(S, counts, i, T))
  <2> DEFINE p == Seats[i]
  <2>1. counts[p] \in Nat
    BY SeatsList DEF Counts
  <2>2. Len([j \in 1..counts[p] |-> p]) \in Nat
    BY <2>1
  <2> QED BY <1>2, <2>2, GrantAllUnhurt DEF GrantedEachStep, Grants
<1>3. Unhurt(s, after[0]) /\ \A i \in 1..Len(Seats) : Unhurt(s, after[i - 1]) => Unhurt(s, after[i])
  BY <1>1, <1>2 DEF GrantsEach
<1> QED BY <1>1, <1>3, SeatsList, UnhurtAlong DEF GrantsEach

-----------------------------------------------------------------------------
(* Calamities and guardians *)

LEMMA applyCalamityHpChangeEffect ==
  ASSUME NEW s, IsState(s), NEW p, NEW delta
  PROVE  Effects(s, applyCalamityHpChange(s, p, delta))
<1>1. CASE p \notin Alive(s) \/ delta = 0
  BY <1>1, NoEffectAtAll DEF applyCalamityHpChange
<1>2. CASE p \in Alive(s) /\ delta # 0
  <2> DEFINE t == SetHp(s, p, s.hp[p] + delta)
  <2>1. Effect(s, t) /\ p \in Present(s)
    BY <1>2, SetHpEffect DEF Present
  <2>2. applyCalamityHpChange(s, p, delta) =
          UNION {maybeDepartGuardianAfterHpLoss(u, p, Most(0, s.hp[p] - t.hp[p])) : u \in HpZeroByItself(t, p)}
    BY <1>2 DEF applyCalamityHpChange
  <2> HIDE DEF t
  <2> QED BY <2>1, <2>2, HpLossEffect
<1> QED BY <1>1, <1>2

LEMMA worsenDiseaseEffect ==
  ASSUME NEW s, IsState(s), NEW p, NEW d
  PROVE  Effects(s, worsenDisease(s, p, d))
<1>1. \A x : Effect(s, [s EXCEPT !.calamities = x])
  BY ResourceChange
<1> QED BY <1>1, applyCalamityHpChangeEffect DEF worsenDisease, Effects

LEMMA applyCalamityEffectEffect ==
  ASSUME NEW s, IsState(s), NEW p, NEW c
  PROVE  Effects(s, applyCalamityEffect(s, p, c))
<1>1. \A x : Effect(s, [s EXCEPT !.calamities = x])
  BY ResourceChange
<1>2. Effects(s, {s}) /\ Effects(s, worsenDisease(s, p, currentDiseaseOf(s, p)))
  BY NoEffectAtAll, worsenDiseaseEffect
<1> QED BY <1>1, <1>2 DEF applyCalamityEffect, Effects

AfflictedStep(S, list, i, T) == UNION {applyCalamityEffect(s, list[i][1], list[i][2]) : s \in T}
IsAfflicted(f, S, list, m) ==
  f = [i \in 0..m |-> IF i = 0 THEN S ELSE AfflictedStep(S, list, i, f[i - 1])]

LEMMA AfflictedExists ==
  ASSUME NEW S, NEW list, NEW m \in Nat
  PROVE  \E f : IsAfflicted(f, S, list, m)
<1> DEFINE N == {n \in 0..m : \E f : IsAfflicted(f, S, list, n)}
<1>1. 0 \in N
  <2> DEFINE f == [i \in 0..0 |-> S]
  <2>1. IsAfflicted(f, S, list, 0)
    BY DEF IsAfflicted
  <2> QED BY <2>1
<1>2. ASSUME NEW n \in N, n < m
      PROVE  n + 1 \in N
  <2>1. PICK f : IsAfflicted(f, S, list, n)
    OBVIOUS
  <2> DEFINE x == AfflictedStep(S, list, n + 1, f[n])
             g == [i \in 0..(n + 1) |-> IF i = n + 1 THEN x ELSE f[i]]
  <2> HIDE DEF x
  <2>2. \A i \in 0..(n + 1) :
          g[i] = IF i = 0 THEN S ELSE AfflictedStep(S, list, i, g[i - 1])
    <3> SUFFICES ASSUME NEW i \in 0..(n + 1)
                 PROVE  g[i] = IF i = 0 THEN S ELSE AfflictedStep(S, list, i, g[i - 1])
      OBVIOUS
    <3>1. CASE i = n + 1
      <4>1. g[i] = x /\ g[i - 1] = f[n] /\ i # 0
        BY <3>1
      <4> QED BY <3>1, <4>1 DEF x
    <3>2. CASE i # n + 1
      <4>1. i \in 0..n /\ g[i] = f[i]
        BY <3>2
      <4>2. i # 0 => g[i - 1] = f[i - 1]
        BY <4>1
      <4> QED BY <2>1, <4>1, <4>2 DEF IsAfflicted
    <3> QED BY <3>1, <3>2
  <2>3. IsAfflicted(g, S, list, n + 1)
    BY <2>2 DEF IsAfflicted
  <2> HIDE DEF g
  <2> QED BY <1>2, <2>3
<1> HIDE DEF N
<1>3. N = 0..m
  <2>1. N \in SUBSET (0..m)
    BY DEF N
  <2> QED BY <1>1, <1>2, <2>1, Induction
<1> QED BY <1>3 DEF N

LEMMA applyCalamitiesEffect ==
  ASSUME NEW s, IsState(s), NEW S, Effects(s, S), NEW list, Len(list) \in Nat
  PROVE  Effects(s, applyCalamities(S, list))
<1> DEFINE after == CHOOSE f : IsAfflicted(f, S, list, Len(list))
<1>1. IsAfflicted(after, S, list, Len(list))
  BY AfflictedExists
<1>2. applyCalamities(S, list) = after[Len(list)]
  BY DEF applyCalamities, IsAfflicted, AfflictedStep
<1> HIDE DEF after
<1>3. after[0] = S /\ \A i \in 1..Len(list) : after[i] = AfflictedStep(S, list, i, after[i - 1])
  BY <1>1 DEF IsAfflicted
<1>4. ASSUME NEW T, Effects(s, T), NEW i
      PROVE  Effects(s, AfflictedStep(S, list, i, T))
  BY <1>4, EffectsOnEffects, applyCalamityEffectEffect DEF AfflictedStep, Effects
<1>5. Effects(s, after[0]) /\ \A i \in 1..Len(list) : Effects(s, after[i - 1]) => Effects(s, after[i])
  BY <1>3, <1>4
<1> QED BY <1>2, <1>5, EffectsAlong

(* There are eight calamities.                                               *)
LEMMA FiniteCalamities == IsFiniteSet(Calamities)
<1>1. Calamities = ((((((({"COLD"} \cup {"FEVER"}) \cup {"HELL_SICKNESS"}) \cup {"HEAVEN_SICKNESS"})
                      \cup {"FOG"}) \cup {"FLASH"}) \cup {"DREAM"}) \cup {"DARK_CLOUD"})
  <2>1. DOMAIN DISEASE_ORDER = 1..4
    BY DEF DISEASE_ORDER
  <2>2. Diseases = {DISEASE_ORDER[1], DISEASE_ORDER[2], DISEASE_ORDER[3], DISEASE_ORDER[4]}
    BY <2>1 DEF Diseases
  <2>3. Diseases = {"COLD", "FEVER", "HELL_SICKNESS", "HEAVEN_SICKNESS"}
    BY <2>2 DEF DISEASE_ORDER
  <2> QED BY <2>3 DEF Calamities
<1> HIDE DEF Calamities
<1>2. \A S, x : IsFiniteSet(S) => IsFiniteSet(S \cup {x})
  BY FS_AddElement
<1> QED BY <1>1, <1>2, FS_Singleton

LEMMA CalamitiesForList ==
  ASSUME NEW players, Len(players) \in Nat, NEW ks, NEW when
  PROVE  Len(CalamitiesFor(players, ks, when)) \in Nat
<1>1. IsFiniteSet(Brought(ks, when))
  BY FiniteCalamities, FS_Subset DEF Brought
<1> DEFINE m == Len(SetToSeq(Brought(ks, when)))
<1>2. m \in Nat
  BY <1>1, ListOfSet
<1> HIDE DEF m
<1>3. m * Len(players) \in Nat
  BY <1>2
<1>4. CalamitiesFor(players, ks, when) =
        [i \in 1..(m * Len(players)) |->
           <<players[((i - 1) % Len(players)) + 1],
             SetToSeq(Brought(ks, when))[((i - 1) \div Len(players)) + 1]>>]
  BY DEF CalamitiesFor, m
<1> QED BY <1>3, <1>4

LEMMA CalamitiesForOneEffect ==
  ASSUME NEW s, IsState(s), NEW S, Effects(s, S), NEW p, NEW ks, NEW when
  PROVE  Effects(s, applyCalamities(S, CalamitiesFor(<<p>>, ks, when)))
<1>1. Len(<<p>>) = 1
  OBVIOUS
<1> QED BY <1>1, CalamitiesForList, applyCalamitiesEffect

LEMMA resolveTurnEndDiseaseEffect ==
  ASSUME NEW s, IsState(s), NEW p
  PROVE  Effects(s, resolveTurnEndDisease(s, p))
<1> DEFINE d == currentDiseaseOf(s, p)
           ache(t) == applyCalamityHpChange(t, p, DiseaseHp[currentDiseaseOf(t, p)])
<1>1. \A t : IsState(t) => Effects(t, ache(t))
  BY applyCalamityHpChangeEffect
<1>2. Effects(s, worsenDisease(s, p, d))
  BY worsenDiseaseEffect
<1> HIDE DEF d, ache
<1>3. Effects(s, UNION {ache(t) : t \in worsenDisease(s, p, d)})
  BY <1>1, <1>2, EffectsOnEffects DEF Effects
<1>4. Effects(s, {s}) /\ Effects(s, ache(s))
  BY <1>1, NoEffectAtAll
<1> QED BY <1>2, <1>3, <1>4 DEF resolveTurnEndDisease, d, ache, Effects

LEMMA removeCalamitiesEffect ==
  ASSUME NEW s, IsState(s), NEW p, NEW scope
  PROVE  Effect(s, removeCalamities(s, p, scope))
<1>1. \A x : Effect(s, [s EXCEPT !.calamities = x])
  BY ResourceChange
<1> QED BY <1>1 DEF removeCalamities

LEMMA assignRandomGuardianEffect ==
  ASSUME NEW s, IsState(s), NEW p
  PROVE  Effects(s, assignRandomGuardian(s, p))
<1> DEFINE free == GuardianNames \ {s.guardian[q] : q \in Players}
<1>1. ASSUME NEW g \in free
      PROVE  Effect(s, [s EXCEPT !.guardian[p] = g])
  <2> DEFINE x == [s.guardian EXCEPT ![p] = g]
  <2>1. Guarded(x)
    BY DEF IsState, Guarded, Guardians
  <2>2. [s EXCEPT !.guardian[p] = g] = [s EXCEPT !.guardian = x]
    OBVIOUS
  <2> HIDE DEF x
  <2> QED BY <2>1, <2>2, ResourceChange
<1> QED BY <1>1, NoEffectAtAll DEF assignRandomGuardian, Effects

-----------------------------------------------------------------------------
(* Cards lost, exchanged and shuffled *)

LEMMA removeRandomCardsEffect ==
  ASSUME NEW s, IsState(s), NEW p, NEW count
  PROVE  /\ Effects(s, removeRandomArtifacts(s, p, count))
         /\ Effects(s, removeRandomLearnedMiracles(s, p, count))
<1>1. \A cards : \A fewer \in FewerCards(cards, count) : fewer \subseteq cards
  BY DEF FewerCards
<1>2. \A fewer \in FewerCards(s.hand[p], count) :
        HandsFit([s.hand EXCEPT ![p] = fewer])
  BY <1>1, FewerFit, HandsUpdated DEF IsState, HandsFit
<1>3. \A fewer \in FewerCards(s.learned[p], count) :
        HandsOK([s.learned EXCEPT ![p] = fewer])
  BY <1>1, HandsOf, FS_Subset, HandsUpdated DEF IsState
<1>4. \A x : /\ HandsFit(x) => Effect(s, [s EXCEPT !.hand = x])
             /\ HandsOK(x) => Effect(s, [s EXCEPT !.learned = x])
  BY HandChange
<1> QED BY <1>2, <1>3, <1>4 DEF removeRandomArtifacts, removeRandomLearnedMiracles, Effects

LEMMA redrawArtifactHandEffect ==
  ASSUME NEW s, IsState(s), NEW p \in Players
  PROVE  Effects(s, redrawArtifactHand(s, p))
<1>1. Cardinality(s.hand[p]) \in Nat
  BY HandsOf, FS_CardinalityType
<1>2. Effects(s, {[s EXCEPT !.hand[p] = {}]})
  <2>1. HandsFit([s.hand EXCEPT ![p] = {}])
    BY FewerFit, HandsUpdated DEF IsState, HandsFit
  <2> DEFINE x == [s.hand EXCEPT ![p] = {}]
  <2>2. [s EXCEPT !.hand[p] = {}] = [s EXCEPT !.hand = x]
    OBVIOUS
  <2> HIDE DEF x
  <2>3. Effect(s, [s EXCEPT !.hand = x])
    BY <2>1, HandChange DEF x
  <2> QED BY <2>2, <2>3 DEF Effects
<1> QED BY <1>1, <1>2, GrantsEffect DEF redrawArtifactHand

NoHands == [p \in Players |-> {}]
DealtToStep(s, list, f, i, before) ==
  LET card == NewCard([s EXCEPT !.hand = before], f[list[i]], list[i].card.kind)
  IN [before EXCEPT ![f[list[i]]] = @ \cup {card}]
IsDealtTo(hands, s, list, f, m) ==
  hands = [i \in 0..m |-> IF i = 0 THEN NoHands
                          ELSE DealtToStep(s, list, f, i, hands[i - 1])]

LEMMA DealtToExists ==
  ASSUME NEW s, NEW list, NEW f, NEW m \in Nat
  PROVE  \E hands : IsDealtTo(hands, s, list, f, m)
<1> DEFINE N == {n \in 0..m : \E hands : IsDealtTo(hands, s, list, f, n)}
<1>1. 0 \in N
  <2> DEFINE hands == [i \in 0..0 |-> NoHands]
  <2>1. IsDealtTo(hands, s, list, f, 0)
    BY DEF IsDealtTo
  <2> QED BY <2>1
<1>2. ASSUME NEW n \in N, n < m
      PROVE  n + 1 \in N
  <2>1. PICK hands : IsDealtTo(hands, s, list, f, n)
    OBVIOUS
  <2> DEFINE x == DealtToStep(s, list, f, n + 1, hands[n])
             g == [i \in 0..(n + 1) |-> IF i = n + 1 THEN x ELSE hands[i]]
  <2> HIDE DEF x
  <2>2. \A i \in 0..(n + 1) :
          g[i] = IF i = 0 THEN NoHands ELSE DealtToStep(s, list, f, i, g[i - 1])
    <3> SUFFICES ASSUME NEW i \in 0..(n + 1)
                 PROVE  g[i] = IF i = 0 THEN NoHands ELSE DealtToStep(s, list, f, i, g[i - 1])
      OBVIOUS
    <3>1. CASE i = n + 1
      <4>1. g[i] = x /\ g[i - 1] = hands[n] /\ i # 0
        BY <3>1
      <4> QED BY <3>1, <4>1 DEF x
    <3>2. CASE i # n + 1
      <4>1. i \in 0..n /\ g[i] = hands[i]
        BY <3>2
      <4>2. i # 0 => g[i - 1] = hands[i - 1]
        BY <4>1
      <4> QED BY <2>1, <4>1, <4>2 DEF IsDealtTo
    <3> QED BY <3>1, <3>2
  <2>3. IsDealtTo(g, s, list, f, n + 1)
    BY <2>2 DEF IsDealtTo
  <2> HIDE DEF g
  <2> QED BY <1>2, <2>3
<1> HIDE DEF N
<1>3. N = 0..m
  <2>1. N \in SUBSET (0..m)
    BY DEF N
  <2> QED BY <1>1, <1>2, <2>1, Induction
<1> QED BY <1>3 DEF N

LEMMA FiniteImage ==
  ASSUME NEW S, IsFiniteSet(S), NEW f, DOMAIN f = S
  PROVE  IsFiniteSet({f[x] : x \in S}) /\ Cardinality({f[x] : x \in S}) <= Cardinality(S)
<1> DEFINE T == {f[x] : x \in S}
           g == [x \in S |-> f[x]]
<1>1. g \in Surjection(S, T)
  BY DEF Surjection
<1> QED BY <1>1, FS_Surjection

(* Nobody is dealt more cards than the list has for him.                     *)
LEMMA HandsDealtOf ==
  ASSUME NEW s, NEW list, Len(list) \in Nat, NEW f
  PROVE  /\ DOMAIN HandsDealt(s, list, f) = Players
         /\ \A p \in Players :
              LET mine == {i \in 1..Len(list) : f[list[i]] = p}
              IN \E card : HandsDealt(s, list, f)[p] \subseteq {card[i] : i \in mine}
<1> DEFINE n == Len(list)
           hands == CHOOSE h : IsDealtTo(h, s, list, f, n)
           card == [i \in 1..n |-> NewCard([s EXCEPT !.hand = hands[i - 1]], f[list[i]], list[i].card.kind)]
           given(i, p) == {card[j] : j \in {k \in 1..i : f[list[k]] = p}}
<1>1. IsDealtTo(hands, s, list, f, n)
  BY DealtToExists
<1>2. HandsDealt(s, list, f) = hands[n]
  BY DEF HandsDealt, IsDealtTo, DealtToStep, NoHands
<1> HIDE DEF hands
<1>3. /\ hands[0] = NoHands
      /\ \A i \in 1..n : hands[i] = [hands[i - 1] EXCEPT ![f[list[i]]] = @ \cup {card[i]}]
  <2>1. /\ hands[0] = NoHands
        /\ \A i \in 1..n : hands[i] = DealtToStep(s, list, f, i, hands[i - 1])
    BY <1>1 DEF IsDealtTo
  <2> QED BY <2>1 DEF DealtToStep
<1> HIDE DEF card
<1> DEFINE N == {i \in 0..n : DOMAIN hands[i] = Players /\ \A p \in Players : hands[i][p] \subseteq given(i, p)}
<1>4. 0 \in N
  BY <1>3 DEF NoHands
<1>5. ASSUME NEW i \in N, i < n
      PROVE  i + 1 \in N
  <2>1. i + 1 \in 1..n /\ (i + 1) - 1 = i /\ i \in 0..n
    BY <1>5
  <2>2. hands[i + 1] = [hands[i] EXCEPT ![f[list[i + 1]]] = @ \cup {card[i + 1]}]
    BY <1>3, <2>1
  <2>3. DOMAIN hands[i + 1] = Players
    BY <2>2
  <2>4. ASSUME NEW p \in Players
        PROVE  hands[i + 1][p] \subseteq given(i + 1, p)
    <3>1. hands[i][p] \subseteq given(i, p) /\ given(i, p) \subseteq given(i + 1, p)
      BY <2>1
    <3>2. CASE f[list[i + 1]] = p
      <4>1. card[i + 1] \in given(i + 1, p)
        BY <2>1, <3>2
      <4>2. hands[i + 1][p] = hands[i][p] \cup {card[i + 1]}
        BY <2>2, <2>3, <3>2
      <4> HIDE DEF given
      <4> QED BY <3>1, <4>1, <4>2
    <3>3. CASE f[list[i + 1]] # p
      <4>1. hands[i + 1][p] = hands[i][p]
        BY <2>2, <2>3, <3>3
      <4> HIDE DEF given
      <4> QED BY <3>1, <4>1
    <3> QED BY <3>2, <3>3
  <2> QED BY <2>1, <2>3, <2>4
<1>6. N = 0..n
  <2>1. N \in SUBSET (0..n)
    OBVIOUS
  <2> HIDE DEF N
  <2> QED BY <1>4, <1>5, <2>1, Induction
<1>7. n \in N
  BY <1>6
<1> QED BY <1>2, <1>7

(* Cards dealt again so that nobody gets more than he may hold fit.          *)
LEMMA HandsDealtFit ==
  ASSUME NEW s, NEW cards, IsFiniteSet(cards), NEW f,
         \A p \in Players : Cardinality({x \in cards : f[x] = p}) <= MaxHand
  PROVE  HandsFit(HandsDealt(s, SetToSeq(cards), f))
<1> DEFINE list == SetToSeq(cards)
           n == Len(list)
           hands == HandsDealt(s, list, f)
<1>1. n \in Nat /\ list \in [1..n -> cards] /\ IsInjective(list)
  BY ListOfSet
<1> HIDE DEF list, n
<1>2. DOMAIN hands = Players
  BY <1>1, HandsDealtOf DEF n
<1>3. ASSUME NEW p \in Players
      PROVE  IsFiniteSet(hands[p]) /\ Cardinality(hands[p]) <= MaxHand
  <2> DEFINE mine == {i \in 1..n : f[list[i]] = p}
             his == {x \in cards : f[x] = p}
             g == [i \in mine |-> list[i]]
  <2>1. IsFiniteSet(his) /\ Cardinality(his) <= MaxHand /\ Cardinality(his) \in Nat
    BY FS_Subset, FS_CardinalityType
  <2>2. g \in Injection(mine, his)
    BY <1>1 DEF Injection, IsInjective
  <2>3. IsFiniteSet(mine) /\ Cardinality(mine) <= Cardinality(his) /\ Cardinality(mine) \in Nat
    BY <2>1, <2>2, FS_Injection, FS_CardinalityType
  <2>4. PICK card : hands[p] \subseteq {card[i] : i \in mine}
    BY <1>1, HandsDealtOf DEF n
  <2> DEFINE c == [i \in mine |-> card[i]]
             T == {c[i] : i \in mine}
  <2>5. IsFiniteSet(T) /\ Cardinality(T) <= Cardinality(mine) /\ Cardinality(T) \in Nat
    <3>1. DOMAIN c = mine
      OBVIOUS
    <3> HIDE DEF c, mine
    <3>2. IsFiniteSet(T) /\ Cardinality(T) <= Cardinality(mine)
      BY <2>3, <3>1, FiniteImage
    <3> QED BY <3>2, FS_CardinalityType
  <2>6. hands[p] \subseteq T
    BY <2>4
  <2> HIDE DEF T, hands, mine, his
  <2>7. IsFiniteSet(hands[p]) /\ Cardinality(hands[p]) <= Cardinality(T) /\ Cardinality(hands[p]) \in Nat
    BY <2>5, <2>6, FS_Subset, FS_CardinalityType
  <2>8. MaxHand \in Nat
    BY BoundsAssumption
  <2> QED BY <2>1, <2>3, <2>5, <2>7, <2>8
<1> HIDE DEF hands
<1> QED BY <1>2, <1>3 DEF HandsFit, HandsOK, hands, list

LEMMA shuffleArtifactsOfEverybodyEffect ==
  ASSUME NEW s, IsState(s)
  PROVE  Effects(s, shuffleArtifactsOfEverybody(s))
<1> DEFINE living == Alive(s)
           held == [p \in living |-> {[owner |-> p, card |-> c] : c \in s.hand[p]}]
           cards == UNION {{[owner |-> p, card |-> c] : c \in s.hand[p]} : p \in living}
<1>1. \A p \in living : IsFiniteSet(held[p])
  <2> TAKE p \in living
  <2> DEFINE f == [c \in s.hand[p] |-> [owner |-> p, card |-> c]]
  <2>1. IsFiniteSet(s.hand[p])
    BY HandsOf DEF Alive
  <2>2. DOMAIN f = s.hand[p] /\ held[p] = {f[c] : c \in s.hand[p]}
    OBVIOUS
  <2> HIDE DEF held, f
  <2> QED BY <2>1, <2>2, FiniteImage
<1>2. IsFiniteSet(living)
  BY PlayersAssumption, FS_Subset DEF Alive
<1>3. IsFiniteSet(UNION {held[p] : p \in living})
  <2>1. DOMAIN held = living
    OBVIOUS
  <2> HIDE DEF held, living
  <2>2. IsFiniteSet({held[p] : p \in living})
    BY <1>2, <2>1, FiniteImage
  <2> DEFINE T == {held[p] : p \in living}
  <2>3. \A x \in T : IsFiniteSet(x)
    BY <1>1
  <2> HIDE DEF T
  <2> QED BY <2>2, <2>3, FS_UNION DEF T
<1>4. IsFiniteSet(cards)
  <2>1. cards = UNION {held[p] : p \in living}
    OBVIOUS
  <2> QED BY <1>3, <2>1
<1> DEFINE deals == {f \in [cards -> living] :
                       \A p \in living : Cardinality({x \in cards : f[x] = p}) = Cardinality(s.hand[p])}
<1>5. shuffleArtifactsOfEverybody(s) = {[s EXCEPT !.hand = HandsDealt(s, SetToSeq(cards), f)] : f \in deals}
  BY DEF shuffleArtifactsOfEverybody
<1> HIDE DEF cards, held
<1>6. ASSUME NEW f \in deals, NEW p \in Players
      PROVE  Cardinality({x \in cards : f[x] = p}) <= MaxHand
  <2>1. CASE p \in living
    BY <1>6, <2>1, HandsOf
  <2>2. CASE p \notin living
    <3>1. {x \in cards : f[x] = p} = {}
      BY <1>6, <2>2
    <3>2. Cardinality({}) = 0 /\ MaxHand \in Nat
      BY FS_EmptySet, BoundsAssumption
    <3> QED BY <3>1, <3>2
  <2> QED BY <2>1, <2>2
<1>7. \A f \in deals : HandsFit(HandsDealt(s, SetToSeq(cards), f))
  BY <1>4, <1>6, HandsDealtFit
<1> HIDE DEF deals
<1>8. \A x : HandsFit(x) => Effect(s, [s EXCEPT !.hand = x])
  BY HandChange
<1> QED BY <1>5, <1>7, <1>8 DEF Effects

LEMMA collectEverybodyMoneyEffect ==
  ASSUME NEW s, IsState(s)
  PROVE  Effects(s, collectEverybodyMoney(s))
<1>1. \A x : Effect(s, [s EXCEPT !.money = x])
  BY ResourceChange
<1> QED BY <1>1 DEF collectEverybodyMoney, Effects

-----------------------------------------------------------------------------
(* Attacks and counters *)

LEMMA ResourcesChange ==
  ASSUME NEW s, IsState(s), NEW x, NEW y, NEW z
  PROVE  Effect(s, [s EXCEPT !.hp = x, !.mp = y, !.money = z])
BY DEF IsState, Effect, Kept, Fields, Alive, SameAction

(* The damage somebody did, the HP-zero interrupt, the guardian.             *)
LEMMA BlowEffect ==
  ASSUME NEW s, IsState(s), NEW t, Effect(s, t), NEW p \in Present(s), NEW source, NEW ignore,
         NEW loss
  PROVE  Effects(s, UNION {maybeDepartGuardianAfterHpLoss(u, p, loss) :
                             u \in resolveHpZero(t, p, source, ignore)})
<1>1. IsState(t) /\ p \in Present(t)
  BY PresentAfter
<1>2. Effects(t, resolveHpZero(t, p, source, ignore))
  BY <1>1, resolveHpZeroEffect
<1>3. \A u \in resolveHpZero(t, p, source, ignore) : IsState(u) /\ Effect(s, u)
  BY <1>1, <1>2, EffectOnEffect DEF Effects, Effect
<1>4. \A u \in resolveHpZero(t, p, source, ignore) :
        Effects(u, maybeDepartGuardianAfterHpLoss(u, p, loss))
  BY <1>3, DepartEffect
<1> QED BY <1>3, <1>4, EffectOnEffect DEF Effects

LEMMA resolvePendingAttackDamageEffect ==
  ASSUME NEW s, IsState(s), NEW a, NEW p, NEW defence
  PROVE  Effects(s, resolvePendingAttackDamage(s, a, p, defence))
<1> DEFINE amount == AttackDamage(s, a, p, defence)
           absorbs(t) == (\E k \in a.sources : Has(k, "ABSORB_HP")) /\ a.actor \in Alive(t)
           recoils(t) == (\E k \in a.sources : Has(k, "DEAL_SAME_DAMAGE")) /\ a.owner \in Alive(t)
           feeds(t) == IF absorbs(t) THEN Boost(t, a.actor, "hp", amount) ELSE t
           ill(t) == applyCalamities({t}, CalamitiesFor(<<p>>, a.sources, "ON_DAMAGE"))
           pays(u) == IF recoils(u) THEN LoseHp(u, a.owner, a.power) ELSE {u}
           hurts(t) == UNION {pays(u) : u \in {feeds(v) : v \in ill(t)}}
           struck == UNION {maybeDepartGuardianAfterHpLoss(t, p, Least(amount, s.hp[p])) :
                              t \in resolveHpZero(SetHp(s, p, s.hp[p] - amount), p, a.actor,
                                                  Doomed(s, a.sources, p))}
           over(t) == IF amount = 0 THEN {t} ELSE hurts(t)
<1>1. CASE p \notin Alive(s)
  BY <1>1, NoEffectAtAll DEF resolvePendingAttackDamage
<1>2. CASE p \in Alive(s)
  <2>1. \A t : IsState(t) => Effect(t, feeds(t))
    BY BoostEffect, NoEffectAtAll
  <2>2. \A t : IsState(t) => Effects(t, pays(t))
    BY LoseHpEffect, NoEffectAtAll DEF Present
  <2>3. \A t : IsState(t) => Effects(t, ill(t))
    BY CalamitiesForOneEffect, NoEffectAtAll
  <2>4. Effects(s, struck)
    BY <1>2, SetHpEffect, BlowEffect DEF Present
  <2>5. resolvePendingAttackDamage(s, a, p, defence) = UNION {over(t) : t \in struck}
    BY <1>2 DEF resolvePendingAttackDamage
  <2>6. \A t : hurts(t) = UNION {pays(feeds(v)) : v \in ill(t)}
    OBVIOUS
  <2> HIDE DEF amount, feeds, pays, ill, hurts, struck
  <2>7. \A t : IsState(t) => Effects(t, pays(feeds(t)))
    BY <2>1, <2>2, EffectOnEffect DEF Effects, Effect
  <2>8. \A t : IsState(t) => Effects(t, hurts(t))
    BY <2>3, <2>6, <2>7, EffectsOnEffects DEF Effects
  <2>9. \A t : IsState(t) => Effects(t, over(t))
    BY <2>8, NoEffectAtAll
  <2> HIDE DEF over
  <2> QED BY <2>4, <2>5, <2>9, EffectsOnEffects DEF Effects
<1> QED BY <1>1, <1>2

LEMMA CounterDamageEffect ==
  ASSUME NEW s, IsState(s), NEW k, NEW target, NEW beneficiary, NEW received
  PROVE  Effects(s, CounterDamage(s, k, target, beneficiary, received))
<1> DEFINE n == received * k.counter
           t == SetHp(s, target, s.hp[target] - n)
           hit == UNION {maybeDepartGuardianAfterHpLoss(u, target, Least(n, s.hp[target])) :
                           u \in resolveHpZero(t, target, beneficiary, FALSE)}
<1>1. Effects(s, {s})
  BY NoEffectAtAll
<1>2. CASE k.counter = 0 \/ target \notin Alive(s)
  BY <1>1, <1>2 DEF CounterDamage
<1>3. CASE k.counter # 0 /\ target \in Alive(s)
  <2>1. Effects(s, hit)
    <3>1. Effect(s, t) /\ target \in Present(s)
      BY <1>3, SetHpEffect DEF Present
    <3> HIDE DEF t, n
    <3> DEFINE loss == Least(n, s.hp[target])
    <3>2. \A ignore : Effects(s, UNION {maybeDepartGuardianAfterHpLoss(u, target, loss) :
                                         u \in resolveHpZero(t, target, beneficiary, ignore)})
      BY <3>1, BlowEffect
    <3> HIDE DEF loss
    <3> QED BY <3>2 DEF loss
  <2>2. CounterDamage(s, k, target, beneficiary, received) = hit \cup (IF k.chance THEN {s} ELSE {})
    BY <1>3 DEF CounterDamage
  <2> HIDE DEF hit
  <2> QED BY <1>1, <2>1, <2>2 DEF Effects
<1> QED BY <1>2, <1>3

LEMMA TakeMoneyEffect ==
  ASSUME NEW s, IsState(s), NEW k, NEW target, NEW beneficiary, NEW received
  PROVE  Effect(s, TakeMoney(s, k, target, beneficiary, received))
<1> DEFINE taken == Least(s.money[target], received)
           t == [s EXCEPT !.money[target] = @ - taken]
<1>1. IsState(t) /\ Effect(s, t)
  <2>1. Effect(s, t)
    BY ResourceChange
  <2> QED BY <2>1 DEF Effect
<1> HIDE DEF t
<1>2. Effect(s, Boost(t, beneficiary, "money", taken))
  BY <1>1, BoostEffect, EffectOnEffect
<1> HIDE DEF taken
<1> QED BY <1>1, <1>2, NoEffectAtAll DEF TakeMoney, t, taken

CounteredStep(S, target, beneficiary, cards, received, i, T) ==
  UNION {{TakeMoney(t, cards[i].kind, target, beneficiary, received) :
            t \in applyCalamities(CounterDamage(s, cards[i].kind, target, beneficiary, received),
                                  CalamitiesFor(<<target>>, {cards[i].kind}, "COUNTER"))} : s \in T}
IsCountered(f, S, target, beneficiary, cards, received, m) ==
  f = [i \in 0..m |-> IF i = 0 THEN S
                      ELSE CounteredStep(S, target, beneficiary, cards, received, i, f[i - 1])]

LEMMA CounteredExists ==
  ASSUME NEW S, NEW target, NEW beneficiary, NEW cards, NEW received, NEW m \in Nat
  PROVE  \E f : IsCountered(f, S, target, beneficiary, cards, received, m)
<1> DEFINE N == {n \in 0..m : \E f : IsCountered(f, S, target, beneficiary, cards, received, n)}
<1>1. 0 \in N
  <2> DEFINE f == [i \in 0..0 |-> S]
  <2>1. IsCountered(f, S, target, beneficiary, cards, received, 0)
    BY DEF IsCountered
  <2> QED BY <2>1
<1>2. ASSUME NEW n \in N, n < m
      PROVE  n + 1 \in N
  <2>1. PICK f : IsCountered(f, S, target, beneficiary, cards, received, n)
    OBVIOUS
  <2> DEFINE x == CounteredStep(S, target, beneficiary, cards, received, n + 1, f[n])
             g == [i \in 0..(n + 1) |-> IF i = n + 1 THEN x ELSE f[i]]
  <2> HIDE DEF x
  <2>2. \A i \in 0..(n + 1) :
          g[i] = IF i = 0 THEN S ELSE CounteredStep(S, target, beneficiary, cards, received, i, g[i - 1])
    <3> SUFFICES ASSUME NEW i \in 0..(n + 1)
                 PROVE  g[i] = IF i = 0 THEN S ELSE CounteredStep(S, target, beneficiary, cards, received, i, g[i - 1])
      OBVIOUS
    <3>1. CASE i = n + 1
      <4>1. g[i] = x /\ g[i - 1] = f[n] /\ i # 0
        BY <3>1
      <4> QED BY <3>1, <4>1 DEF x
    <3>2. CASE i # n + 1
      <4>1. i \in 0..n /\ g[i] = f[i]
        BY <3>2
      <4>2. i # 0 => g[i - 1] = f[i - 1]
        BY <4>1
      <4> QED BY <2>1, <4>1, <4>2 DEF IsCountered
    <3> QED BY <3>1, <3>2
  <2>3. IsCountered(g, S, target, beneficiary, cards, received, n + 1)
    BY <2>2 DEF IsCountered
  <2> HIDE DEF g
  <2> QED BY <1>2, <2>3
<1> HIDE DEF N
<1>3. N = 0..m
  <2>1. N \in SUBSET (0..m)
    BY DEF N
  <2> QED BY <1>1, <1>2, <2>1, Induction
<1> QED BY <1>3 DEF N

LEMMA CounterOneByOneEffect ==
  ASSUME NEW s, IsState(s), NEW S, Effects(s, S), NEW target, NEW beneficiary,
         NEW cards, Len(cards) \in Nat, NEW received
  PROVE  Effects(s, CounterOneByOne(S, target, beneficiary, cards, received))
<1> DEFINE after == CHOOSE f : IsCountered(f, S, target, beneficiary, cards, received, Len(cards))
           step(i, T) == CounteredStep(S, target, beneficiary, cards, received, i, T)
<1>1. IsCountered(after, S, target, beneficiary, cards, received, Len(cards))
  BY CounteredExists
<1>2. CounterOneByOne(S, target, beneficiary, cards, received) = after[Len(cards)]
  BY DEF CounterOneByOne, IsCountered, CounteredStep
<1> HIDE DEF after
<1>3. after[0] = S /\ \A i \in 1..Len(cards) : after[i] = step(i, after[i - 1])
  BY <1>1 DEF IsCountered
<1>4. ASSUME NEW T, Effects(s, T), NEW i
      PROVE  Effects(s, step(i, T))
  <2> DEFINE k == cards[i].kind
             hurt(t) == CounterDamage(t, k, target, beneficiary, received)
             ill(t) == applyCalamities(hurt(t), CalamitiesFor(<<target>>, {k}, "COUNTER"))
             robbed(t) == TakeMoney(t, k, target, beneficiary, received)
  <2>1. \A t : IsState(t) => Effects(t, hurt(t))
    BY CounterDamageEffect
  <2>2. \A t : IsState(t) => Effects(t, ill(t))
    BY <2>1, CalamitiesForOneEffect
  <2>3. \A t : IsState(t) => Effect(t, robbed(t))
    BY TakeMoneyEffect
  <2>4. step(i, T) = UNION {{robbed(t) : t \in ill(u)} : u \in T}
    BY DEF CounteredStep
  <2> HIDE DEF step, hurt, ill, robbed
  <2> DEFINE all(u) == {robbed(t) : t \in ill(u)}
  <2>5. \A u : IsState(u) => Effects(u, all(u))
    BY <2>2, <2>3, EffectOnEffect DEF Effects, Effect
  <2> HIDE DEF all
  <2>6. Effects(s, UNION {all(u) : u \in T})
    BY <1>4, <2>5, EffectsOnEffects DEF Effects
  <2> QED BY <2>4, <2>6 DEF all
<1> HIDE DEF step
<1>5. Effects(s, after[0]) /\ \A i \in 1..Len(cards) : Effects(s, after[i - 1]) => Effects(s, after[i])
  BY <1>3, <1>4
<1> QED BY <1>2, <1>5, EffectsAlong

LEMMA resolveCounterTargetedEffectsEffect ==
  ASSUME NEW s, IsState(s), NEW target, NEW beneficiary, NEW cards, IsFiniteSet(cards), NEW received
  PROVE  Effects(s, resolveCounterTargetedEffects(s, target, beneficiary, cards, received))
BY NoEffectAtAll, ListOfSet, CounterOneByOneEffect DEF resolveCounterTargetedEffects

WornStep(S, p, cards, i, T) ==
  UNION {IF Has(cards[i].kind, "REDRAW_HAND")
         THEN UNION {redrawArtifactHand(t, p) :
                       t \in applyCalamities({s}, CalamitiesFor(<<p>>, {cards[i].kind}, "SELF"))}
         ELSE applyCalamities({s}, CalamitiesFor(<<p>>, {cards[i].kind}, "SELF")) : s \in T}
IsWorn(f, S, p, cards, m) ==
  f = [i \in 0..m |-> IF i = 0 THEN S ELSE WornStep(S, p, cards, i, f[i - 1])]

LEMMA WornExists ==
  ASSUME NEW S, NEW p, NEW cards, NEW m \in Nat
  PROVE  \E f : IsWorn(f, S, p, cards, m)
<1> DEFINE N == {n \in 0..m : \E f : IsWorn(f, S, p, cards, n)}
<1>1. 0 \in N
  <2> DEFINE f == [i \in 0..0 |-> S]
  <2>1. IsWorn(f, S, p, cards, 0)
    BY DEF IsWorn
  <2> QED BY <2>1
<1>2. ASSUME NEW n \in N, n < m
      PROVE  n + 1 \in N
  <2>1. PICK f : IsWorn(f, S, p, cards, n)
    OBVIOUS
  <2> DEFINE x == WornStep(S, p, cards, n + 1, f[n])
             g == [i \in 0..(n + 1) |-> IF i = n + 1 THEN x ELSE f[i]]
  <2> HIDE DEF x
  <2>2. \A i \in 0..(n + 1) :
          g[i] = IF i = 0 THEN S ELSE WornStep(S, p, cards, i, g[i - 1])
    <3> SUFFICES ASSUME NEW i \in 0..(n + 1)
                 PROVE  g[i] = IF i = 0 THEN S ELSE WornStep(S, p, cards, i, g[i - 1])
      OBVIOUS
    <3>1. CASE i = n + 1
      <4>1. g[i] = x /\ g[i - 1] = f[n] /\ i # 0
        BY <3>1
      <4> QED BY <3>1, <4>1 DEF x
    <3>2. CASE i # n + 1
      <4>1. i \in 0..n /\ g[i] = f[i]
        BY <3>2
      <4>2. i # 0 => g[i - 1] = f[i - 1]
        BY <4>1
      <4> QED BY <2>1, <4>1, <4>2 DEF IsWorn
    <3> QED BY <3>1, <3>2
  <2>3. IsWorn(g, S, p, cards, n + 1)
    BY <2>2 DEF IsWorn
  <2> HIDE DEF g
  <2> QED BY <1>2, <2>3
<1> HIDE DEF N
<1>3. N = 0..m
  <2>1. N \in SUBSET (0..m)
    BY DEF N
  <2> QED BY <1>1, <1>2, <2>1, Induction
<1> QED BY <1>3 DEF N

LEMMA SelfDefenseEffect ==
  ASSUME NEW s, IsState(s), NEW S, Effects(s, S), NEW p \in Players, NEW cards, Len(cards) \in Nat
  PROVE  Effects(s, SelfDefense(S, p, cards))
<1> DEFINE after == CHOOSE f : IsWorn(f, S, p, cards, Len(cards))
<1>1. IsWorn(after, S, p, cards, Len(cards))
  BY WornExists
<1>2. SelfDefense(S, p, cards) = after[Len(cards)]
  BY DEF SelfDefense, IsWorn, WornStep
<1> HIDE DEF after
<1>3. after[0] = S /\ \A i \in 1..Len(cards) : after[i] = WornStep(S, p, cards, i, after[i - 1])
  BY <1>1 DEF IsWorn
<1>4. ASSUME NEW T, Effects(s, T), NEW i
      PROVE  Effects(s, WornStep(S, p, cards, i, T))
  <2> DEFINE k == cards[i].kind
             ill(t) == applyCalamities({t}, CalamitiesFor(<<p>>, {k}, "SELF"))
             worn(t) == IF Has(k, "REDRAW_HAND") THEN UNION {redrawArtifactHand(u, p) : u \in ill(t)}
                        ELSE ill(t)
  <2>1. \A t : IsState(t) => Effects(t, ill(t))
    BY CalamitiesForOneEffect, NoEffectAtAll
  <2>2. WornStep(S, p, cards, i, T) = UNION {worn(t) : t \in T}
    BY DEF WornStep
  <2> HIDE DEF ill
  <2>3. \A t : IsState(t) => Effects(t, UNION {redrawArtifactHand(u, p) : u \in ill(t)})
    BY <2>1, redrawArtifactHandEffect, EffectsOnEffects DEF Effects
  <2>4. \A t : IsState(t) => Effects(t, worn(t))
    BY <2>1, <2>3
  <2> HIDE DEF worn
  <2> QED BY <1>4, <2>2, <2>4, EffectsOnEffects DEF Effects
<1>5. Effects(s, after[0]) /\ \A i \in 1..Len(cards) : Effects(s, after[i - 1]) => Effects(s, after[i])
  BY <1>3, <1>4
<1> QED BY <1>2, <1>5, EffectsAlong

LEMMA applySelfDefenseEffectsEffect ==
  ASSUME NEW s, IsState(s), NEW p \in Players, NEW cards, IsFiniteSet(cards)
  PROVE  Effects(s, applySelfDefenseEffects(s, p, cards))
BY NoEffectAtAll, ListOfSet, SelfDefenseEffect DEF applySelfDefenseEffects

-----------------------------------------------------------------------------
(* Trades and cards used directly *)

LEMMA PaidEffect ==
  ASSUME NEW s, IsState(s), NEW payer, NEW recipient, NEW price
  PROVE  Effect(s, Paid(s, payer, recipient, price))
BY DEF Paid, IsState, Effect, Kept, Fields, Alive, SameAction

LEMMA transferTradeCardEffect ==
  ASSUME NEW s, IsState(s), NEW from, NEW to, NEW card
  PROVE  Effects(s, transferTradeCard(s, from, to, card))
<1> DEFINE t == [s EXCEPT !.hand[from] = @ \ {card}]
<1>1. IsState(t) /\ Effect(s, t)
  <2>1. Effect(s, t)
    BY FewerInHand
  <2> QED BY <2>1 DEF Effect
<1> HIDE DEF t
<1>2. Effects(t, AddToHand(t, to, NewCard(s, to, card.kind)))
  BY <1>1, AddToHandEffect
<1> QED BY <1>1, <1>2, EffectOnEffect DEF transferTradeCard, Effects, t

LEMMA resolveDirectInstructionsEffect ==
  ASSUME NEW s, IsState(s), NEW actor, NEW target, NEW k
  PROVE  Effects(s, resolveDirectInstructions(s, actor, target, k))
<1> DEFINE boosted == IF isSupportiveDirectAction(k) THEN target ELSE actor
           gamble == k.id = "thump-thump-tear"
           opened == {BoostAll(s, boosted, k.boost)}
                     \cup (IF ~gamble THEN {}
                           ELSE IF actor \in Alive(s) THEN LoseHp(s, actor, k.damage) ELSE {s})
           cures(t) == IF k.cure = "NONE" THEN t ELSE removeCalamities(t, boosted, k.cure)
           guards(t) == IF Has(k, "SET_GUARDIAN") THEN assignRandomGuardian(t, actor) ELSE {t}
           robs(t) == IF Has(k, "REMOVE_ITEMS") THEN removeRandomArtifacts(t, target, 3) ELSE {t}
           forgets(t) ==
             IF Has(k, "REMOVE_USED_MIRACLES") THEN removeRandomLearnedMiracles(t, target, 2) ELSE {t}
           ill == applyCalamities(
                    applyCalamities(opened, CalamitiesFor(<<target>>, {k}, "IMMEDIATE")),
                    CalamitiesFor(<<actor>>, {k}, "SELF"))
<1>1. Effects(s, opened)
  <2>1. actor \in Alive(s) => Effects(s, LoseHp(s, actor, k.damage))
    BY LoseHpEffect DEF Present
  <2>2. Effects(s, {BoostAll(s, boosted, k.boost)})
    BY BoostAllEffect DEF Effects
  <2>3. Effects(s, {s})
    BY NoEffectAtAll
  <2> QED BY <2>1, <2>2, <2>3 DEF Effects
<1>2. Effects(s, ill)
  <2> HIDE DEF opened
  <2>1. Effects(s, applyCalamities(opened, CalamitiesFor(<<target>>, {k}, "IMMEDIATE")))
    BY <1>1, CalamitiesForOneEffect
  <2> QED BY <2>1, CalamitiesForOneEffect
<1>3. \A t : IsState(t) => Effect(t, cures(t))
  BY removeCalamitiesEffect, NoEffectAtAll
<1>4. \A t : IsState(t) => Effects(t, guards(t))
  BY assignRandomGuardianEffect, NoEffectAtAll
<1>5. \A t : IsState(t) => Effects(t, robs(t))
  BY removeRandomCardsEffect, NoEffectAtAll
<1>6. \A t : IsState(t) => Effects(t, forgets(t))
  BY removeRandomCardsEffect, NoEffectAtAll
<1>7. resolveDirectInstructions(s, actor, target, k) =
        UNION {UNION {UNION {forgets(v) : v \in robs(u)} : u \in guards(cures(t))} : t \in ill}
  BY DEF resolveDirectInstructions
<1> HIDE DEF ill, cures, guards, robs, forgets
<1>8. \A u : IsState(u) => Effects(u, UNION {forgets(v) : v \in robs(u)})
  BY <1>5, <1>6, EffectsOnEffects DEF Effects
<1>9. \A t : IsState(t) => Effects(t, guards(cures(t)))
  BY <1>3, <1>4, EffectOnEffect DEF Effects, Effect
<1> DEFINE loses(u) == UNION {forgets(v) : v \in robs(u)}
<1> HIDE DEF loses
<1>10. \A t : IsState(t) => Effects(t, UNION {loses(u) : u \in guards(cures(t))})
  BY <1>8, <1>9, EffectsOnEffects DEF Effects, loses
<1> DEFINE all(t) == UNION {loses(u) : u \in guards(cures(t))}
<1> HIDE DEF all
<1>11. Effects(s, UNION {all(t) : t \in ill})
  BY <1>2, <1>10, EffectsOnEffects DEF Effects, all
<1> QED BY <1>7, <1>11 DEF all, loses

(* Cards move from the hand to the miracles learned.                         *)
LEMMA LearnedEffect ==
  ASSUME NEW s, IsState(s), NEW p, NEW gone, NEW new, IsFiniteSet(new)
  PROVE  Effect(s, [s EXCEPT !.hand[p] = @ \ gone, !.learned[p] = @ \cup new])
<1> DEFINE x == s.hand[p] \ gone
           y == s.learned[p] \cup new
           hands == [s.hand EXCEPT ![p] = x]
           miracles == [s.learned EXCEPT ![p] = y]
           t == [s EXCEPT !.hand = hands]
<1>1. p \in Players => IsFiniteSet(x) /\ IsFiniteSet(y) /\ Cardinality(x) <= MaxHand
  BY HandsOf, FewerFit, FS_Union
<1>2. [s EXCEPT !.hand[p] = @ \ gone, !.learned[p] = @ \cup new] = [t EXCEPT !.learned = miracles]
  BY DEF IsState, Fields
<1> HIDE DEF x, y
<1>3. HandsFit(hands) /\ HandsOK(miracles)
  BY <1>1, HandsUpdated DEF IsState, HandsFit
<1> HIDE DEF hands, miracles
<1>4. Effect(s, t)
  BY <1>3, HandChange
<1> HIDE DEF t
<1>5. Effect(t, [t EXCEPT !.learned = miracles])
  <2>1. IsState(t)
    BY <1>4 DEF Effect
  <2> QED BY <1>3, <2>1, HandChange
<1> QED BY <1>2, <1>4, <1>5, EffectOnEffect

LEMMA commitAutomaticSourceEffect ==
  ASSUME NEW s, IsState(s), NEW p, NEW c
  PROVE  Effect(s, commitAutomaticSource(s, p, c))
<1>1. Effect(s, CommitSource(s, p, c))
  <2>1. Effect(s, Learn(s, p, c))
    BY LearnedEffect, FS_Singleton DEF Learn
  <2>2. Effect(s, [s EXCEPT !.hand[p] = @ \ {c}])
    BY FewerInHand
  <2> QED BY <2>1, <2>2, NoEffectAtAll DEF CommitSource
<1> DEFINE t == CommitSource(s, p, c)
<1>2. IsState(t)
  BY <1>1 DEF Effect
<1>3. commitAutomaticSource(s, p, c) = [t EXCEPT !.mp = [t.mp EXCEPT ![p] = @ - MpCost(s, p, c.kind)]]
  BY DEF commitAutomaticSource
<1> HIDE DEF t
<1>4. \A x : Effect(t, [t EXCEPT !.mp = x])
  BY <1>2, ResourceChange
<1>5. Effect(t, commitAutomaticSource(s, p, c))
  BY <1>3, <1>4
<1> QED BY <1>1, <1>5, EffectOnEffect DEF t

-----------------------------------------------------------------------------
(* Phenomena and guardians *)

GuardedStep(S, living, i, T) ==
  UNION {IF Seats[i] \in living THEN assignRandomGuardian(s, Seats[i]) ELSE {s} : s \in T}
IsGuarded(f, S, living, m) ==
  f = [i \in 0..m |-> IF i = 0 THEN S ELSE GuardedStep(S, living, i, f[i - 1])]

LEMMA GuardedExists ==
  ASSUME NEW S, NEW living, NEW m \in Nat
  PROVE  \E f : IsGuarded(f, S, living, m)
<1> DEFINE N == {n \in 0..m : \E f : IsGuarded(f, S, living, n)}
<1>1. 0 \in N
  <2> DEFINE f == [i \in 0..0 |-> S]
  <2>1. IsGuarded(f, S, living, 0)
    BY DEF IsGuarded
  <2> QED BY <2>1
<1>2. ASSUME NEW n \in N, n < m
      PROVE  n + 1 \in N
  <2>1. PICK f : IsGuarded(f, S, living, n)
    OBVIOUS
  <2> DEFINE x == GuardedStep(S, living, n + 1, f[n])
             g == [i \in 0..(n + 1) |-> IF i = n + 1 THEN x ELSE f[i]]
  <2> HIDE DEF x
  <2>2. \A i \in 0..(n + 1) :
          g[i] = IF i = 0 THEN S ELSE GuardedStep(S, living, i, g[i - 1])
    <3> SUFFICES ASSUME NEW i \in 0..(n + 1)
                 PROVE  g[i] = IF i = 0 THEN S ELSE GuardedStep(S, living, i, g[i - 1])
      OBVIOUS
    <3>1. CASE i = n + 1
      <4>1. g[i] = x /\ g[i - 1] = f[n] /\ i # 0
        BY <3>1
      <4> QED BY <3>1, <4>1 DEF x
    <3>2. CASE i # n + 1
      <4>1. i \in 0..n /\ g[i] = f[i]
        BY <3>2
      <4>2. i # 0 => g[i - 1] = f[i - 1]
        BY <4>1
      <4> QED BY <2>1, <4>1, <4>2 DEF IsGuarded
    <3> QED BY <3>1, <3>2
  <2>3. IsGuarded(g, S, living, n + 1)
    BY <2>2 DEF IsGuarded
  <2> HIDE DEF g
  <2> QED BY <1>2, <2>3
<1> HIDE DEF N
<1>3. N = 0..m
  <2>1. N \in SUBSET (0..m)
    BY DEF N
  <2> QED BY <1>1, <1>2, <2>1, Induction
<1> QED BY <1>3 DEF N

LEMMA GuardEverybodyEffect ==
  ASSUME NEW s, IsState(s), NEW S, Effects(s, S), NEW living
  PROVE  Effects(s, GuardEverybody(S, living))
<1> DEFINE after == CHOOSE f : IsGuarded(f, S, living, Len(Seats))
<1>1. IsGuarded(after, S, living, Len(Seats))
  BY SeatsList, GuardedExists
<1>2. GuardEverybody(S, living) = after[Len(Seats)]
  BY DEF GuardEverybody, IsGuarded, GuardedStep
<1> HIDE DEF after
<1>3. after[0] = S /\ \A i \in 1..Len(Seats) : after[i] = GuardedStep(S, living, i, after[i - 1])
  BY <1>1, SeatsList DEF IsGuarded
<1>4. ASSUME NEW T, Effects(s, T), NEW i
      PROVE  Effects(s, GuardedStep(S, living, i, T))
  <2>1. \A t : IsState(t) => Effects(t, assignRandomGuardian(t, Seats[i])) /\ Effects(t, {t})
    BY assignRandomGuardianEffect, NoEffectAtAll
  <2> QED BY <1>4, <2>1, EffectsOnEffects DEF GuardedStep, Effects
<1>5. Effects(s, after[0]) /\ \A i \in 1..Len(Seats) : Effects(s, after[i - 1]) => Effects(s, after[i])
  BY <1>3, <1>4
<1> QED BY <1>2, <1>5, SeatsList, EffectsAlong

LEMMA PhenomenonEffectsEffect ==
  ASSUME NEW s, IsState(s), NEW k
  PROVE  Effects(s, PhenomenonEffects(s, k))
<1> DEFINE living == Alive(s)
           level(t, p) == IF Has(k, "SET_HP_OF_EVERYBODY") THEN 1 ELSE t.hp[p]
           warm(t) == [t EXCEPT !.hp = [p \in Players |->
                         IF p \notin living THEN t.hp[p]
                         ELSE IF p \in Alive(t) THEN clampResource(level(t, p) + k.boost.hp)
                         ELSE level(t, p)]]
           collects(t) ==
             IF Has(k, "COLLECT_MONEY_OF_EVERYBODY") THEN collectEverybodyMoney(t) ELSE {t}
           shuffles(t) ==
             IF Has(k, "SHUFFLE_ITEMS_OF_EVERYBODY") THEN shuffleArtifactsOfEverybody(t) ELSE {t}
           guards(t) ==
             IF Has(k, "SET_GUARDIAN_OF_EVERYBODY") THEN GuardEverybody({t}, living) ELSE {t}
           ill == applyCalamities({s}, CalamitiesFor(Seats, {k}, "IMMEDIATE"))
<1>1. Effects(s, ill)
  <2>1. Len(CalamitiesFor(Seats, {k}, "IMMEDIATE")) \in Nat
    BY SeatsList, CalamitiesForList
  <2> QED BY <2>1, NoEffectAtAll, applyCalamitiesEffect
<1>2. \A t : IsState(t) => Effect(t, warm(t))
  <2>1. \A t : IsState(t) => \A x : Effect(t, [t EXCEPT !.hp = x])
    BY ResourceChange
  <2> QED BY <2>1
<1>3. \A t : IsState(t) => Effects(t, collects(t))
  BY collectEverybodyMoneyEffect, NoEffectAtAll
<1>4. \A t : IsState(t) => Effects(t, shuffles(t))
  BY shuffleArtifactsOfEverybodyEffect, NoEffectAtAll
<1>5. \A t : IsState(t) => Effects(t, guards(t))
  BY GuardEverybodyEffect, NoEffectAtAll
<1>6. PhenomenonEffects(s, k) =
        UNION {UNION {UNION {guards(v) : v \in shuffles(u)} : u \in collects(warm(t))} : t \in ill}
  BY DEF PhenomenonEffects
<1> HIDE DEF ill, warm, collects, shuffles, guards
<1> DEFINE last(u) == UNION {guards(v) : v \in shuffles(u)}
<1>7. \A u : IsState(u) => Effects(u, last(u))
  BY <1>4, <1>5, EffectsOnEffects DEF Effects
<1>8. \A t : IsState(t) => Effects(t, collects(warm(t)))
  BY <1>2, <1>3, EffectOnEffect DEF Effects, Effect
<1> HIDE DEF last
<1> DEFINE all(t) == UNION {last(u) : u \in collects(warm(t))}
<1>9. \A t : IsState(t) => Effects(t, all(t))
  BY <1>7, <1>8, EffectsOnEffects DEF Effects
<1> HIDE DEF all
<1>10. Effects(s, UNION {all(t) : t \in ill})
  BY <1>1, <1>9, EffectsOnEffects DEF Effects
<1> QED BY <1>6, <1>10 DEF all, last

LEMMA changeResourceByGuardianEffect ==
  ASSUME NEW s, IsState(s), NEW receivers, NEW amounts
  PROVE  Effect(s, changeResourceByGuardian(s, receivers, amounts))
BY DEF changeResourceByGuardian, IsState, Effect, Kept, Fields, Alive, SameAction

(* What a guardian does that is no attack.                                   *)
GuardianDeed(s, p, actor, k, receivers) ==
  LET boosted == changeResourceByGuardian(s, receivers, k.boost)
      cures(t) == IF k.cure = "NONE" THEN t ELSE removeCalamities(t, p, k.cure)
      taxes(t) == changeResourceByGuardian(t, {actor},
                    [hp |-> 0, mp |-> 0, money |-> -Least(t.money[actor], k.take)])
      adds(t) == IF Has(k, "ADD_ITEM") THEN resolveNormalGrant(t, p) ELSE {t}
  IN UNION {adds(taxes(cures(t))) :
              t \in applyCalamities({boosted}, CalamitiesFor(<<actor>>, {k}, "IMMEDIATE"))}

LEMMA GuardianDeedEffect ==
  ASSUME NEW s, IsState(s), NEW p, NEW actor, NEW k, NEW receivers
  PROVE  Effects(s, GuardianDeed(s, p, actor, k, receivers))
<1> DEFINE boosted == changeResourceByGuardian(s, receivers, k.boost)
           cures(t) == IF k.cure = "NONE" THEN t ELSE removeCalamities(t, p, k.cure)
           taxes(t) == changeResourceByGuardian(t, {actor},
                         [hp |-> 0, mp |-> 0, money |-> -Least(t.money[actor], k.take)])
           adds(t) == IF Has(k, "ADD_ITEM") THEN resolveNormalGrant(t, p) ELSE {t}
           ill == applyCalamities({boosted}, CalamitiesFor(<<actor>>, {k}, "IMMEDIATE"))
<1>1. Effects(s, {boosted})
  BY changeResourceByGuardianEffect DEF Effects
<1> HIDE DEF boosted
<1>2. Effects(s, ill)
  BY <1>1, CalamitiesForOneEffect
<1>3. \A t : IsState(t) => Effect(t, cures(t))
  BY removeCalamitiesEffect, NoEffectAtAll
<1>4. \A t : IsState(t) => Effect(t, taxes(t))
  BY changeResourceByGuardianEffect
<1>5. \A t : IsState(t) => Effects(t, adds(t))
  BY resolveNormalGrantEffect, NoEffectAtAll
<1> HIDE DEF ill, cures, taxes, adds
<1>6. \A t : IsState(t) => Effect(t, taxes(cures(t)))
  BY <1>3, <1>4, EffectOnEffect DEF Effect
<1> DEFINE all(t) == adds(taxes(cures(t)))
<1>7. \A t : IsState(t) => Effects(t, all(t))
  BY <1>5, <1>6, EffectOnEffect DEF Effect, Effects
<1> HIDE DEF all
<1>8. Effects(s, UNION {all(t) : t \in ill})
  BY <1>2, <1>7, EffectsOnEffects DEF Effects
<1> QED BY <1>8 DEF all, adds, taxes, cures, ill, boosted, GuardianDeed

-----------------------------------------------------------------------------
(* What a command goes through *)

(* A turn is being closed, a confusion goes on.                              *)
Closing(s) == DOMAIN s.post = {"actor", "guardians", "next"}
Confusing(s) ==
  DOMAIN s.phenomenon = {"source", "grants", "next", "slots"} /\ s.phenomenon.grants \in Nat

(* The completions that find what they are to resume.                        *)
Back(s) ==
  {c \in {"FINISH_TURN", "RESUME_POST_TURN", "RESUME_PHENOMENON"} :
     (c = "RESUME_POST_TURN" => Closing(s)) /\ (c = "RESUME_PHENOMENON" => Confusing(s))}

(* What a series of strikes needs, a pending attack, what it is to do once   *)
(* nobody stopped it.  P are the players of the turn, B what can be resumed. *)
IsPlan(P, B, a) ==
  /\ {"defenseGrants", "revivals"} \subseteq DOMAIN a
  /\ a.owner \in P /\ Len(a.targets) \in Nat /\ a.total \in Nat /\ a.attackerGrants \in Nat
  /\ a.defenseGrants \in Counts /\ a.revivals \in Counts /\ a.completion \in B
IsStrike(P, B, a) ==
  /\ DOMAIN a = AttackFields /\ a.kind = "ATTACK" /\ IsPlan(P, B, a)
  /\ a.actor \in P /\ a.target \in P
IsDeferred(P, B, d) ==
  \/ d.kind \in {"NONE", "DIRECT", "SELL", "BUY"}
  \/ /\ d.kind = "COUNTER" /\ IsFiniteSet(d.cards)
     /\ IsStrike(P, B, d.original) /\ d.original.deferred.kind = "NONE"
IsAttack(P, B, a) == IsStrike(P, B, a) /\ IsDeferred(P, B, a.deferred)

(* A state of a command that was given in state b.                           *)
Running(b, s) ==
  /\ IsState(s)
  /\ s.order = b.order /\ s.cursor = b.cursor /\ s.result = NoResult
  /\ s.deck = b.deck /\ s.endTime = b.endTime /\ (s.endTimeActive => s.endTime # Never)
  /\ b.gf \in 0..s.gf
  /\ Alive(s) \subseteq Alive(b) /\ s.defeated = b.defeated \cup (Alive(b) \ Alive(s))
  /\ s.post = NoPostTurn \/ Closing(s)
  /\ s.phenomenon = NoPhenomenon \/ Confusing(s)

Idle == {"RESOLVING", "TURN_CLOSE"}
OnTheWay(b, s) == Running(b, s) /\ s.phase \in Idle /\ s.then = Nothing

(* A call is left to be made, and it finds what it needs.                    *)
IsCall(b, s) ==
  \/ s.then.call = "continuePostTurnAutomaticEffects" /\ Closing(s)
  \/ s.then.call = "continueConfusionActions" /\ Confusing(s)
  \/ /\ s.then.call = "advanceAfterAttackStep" /\ IsAttack(Present(b), Back(s), s.then.attack)
     /\ IsStrike(Present(b), Back(s), s.pending)
  \/ s.then.call = "completeAttack" /\ IsPlan(Present(b), Back(s), s.then.attack)
Calling(b, s) == Running(b, s) /\ s.phase \in Idle /\ IsCall(b, s)

(* The ways a command ends: a player is asked for his reaction, a buyer for  *)
(* his confirmation, the next turn is opened, the match is over, or the      *)
(* engine throws.  A buyer who is lost was killed by a demon.                *)
Asking(b, s) ==
  /\ Running(b, s) /\ s.phase = "REACTION_SELECTION" /\ s.then = Nothing
  /\ IsAttack(Present(b), Back(s), s.pending)
  /\ s.pending.target \in Alive(s) /\ s.pending.target # s.pending.actor
Offering(b, s) ==
  /\ Running(b, s) /\ s.phase = "TRADE_CONFIRMATION" /\ s.then = Nothing
  /\ s.pending.kind = "TRADE_CONFIRMATION" /\ s.pending.buyer \in Alive(b)
  /\ s.pending.buyer \in Alive(s) \/ ~Calm(s)
Opening(b, s) ==
  \E u : OnTheWay(b, u) /\ ResultOf(u) = NoResult /\ s = openNextTurnOrEnd(u)
Ending(b, s) ==
  \E u : OnTheWay(b, u) /\ ResultOf(u) # NoResult /\ s = Ended(u, ResultOf(u))
Throwing(s) == s.phase = "THREW" /\ s.then = Nothing

Finished(b, s) == Asking(b, s) \/ Offering(b, s) \/ Opening(b, s) \/ Ending(b, s) \/ Throwing(s)
Reached(b, s) == Calling(b, s) \/ Finished(b, s)

LEMMA RunningPresent ==
  ASSUME NEW b, NEW s, Running(b, s)
  PROVE  Present(s) = Present(b) /\ Alive(s) \subseteq Present(b)
BY DEF Running, Present

LEMMA RunningEffect ==
  ASSUME NEW b, NEW s, NEW t, Running(b, s), Effect(s, t)
  PROVE  /\ Running(b, t) /\ Back(t) = Back(s)
         /\ t.phase = s.phase /\ t.then = s.then
         /\ t.post = s.post /\ t.phenomenon = s.phenomenon /\ SameAction(s.pending, t.pending)
<1>1. Running(b, t)
  BY DEF Running, Effect, Kept, Closing, Confusing
<1>2. Back(t) = Back(s)
  BY DEF Effect, Kept, Back, Closing, Confusing
<1> QED BY <1>1, <1>2 DEF Effect, Kept

LEMMA EffectOnTheWay ==
  ASSUME NEW b, NEW s, OnTheWay(b, s)
  PROVE  /\ IsState(s)
         /\ \A t : Effect(s, t) =>
              /\ OnTheWay(b, t) /\ Back(t) = Back(s)
              /\ t.post = s.post /\ t.phenomenon = s.phenomenon /\ SameAction(s.pending, t.pending)
BY RunningEffect DEF OnTheWay, Running

LEMMA EffectsOnTheWay ==
  ASSUME NEW b, NEW s, OnTheWay(b, s), NEW T, Effects(s, T)
  PROVE  \A t \in T : /\ Effect(s, t) /\ OnTheWay(b, t) /\ Back(t) = Back(s)
                      /\ t.post = s.post /\ t.phenomenon = s.phenomenon
                      /\ SameAction(s.pending, t.pending)
BY EffectOnTheWay DEF Effects

(* Counting revivals leaves an attack what it was.                           *)
LEMMA SameAttack ==
  ASSUME NEW P, NEW B, NEW a, NEW c, SameAction(a, c), DOMAIN a = AttackFields
  PROVE  /\ IsPlan(P, B, a) => IsPlan(P, B, c)
         /\ IsStrike(P, B, a) => IsStrike(P, B, c)
         /\ IsAttack(P, B, a) => IsAttack(P, B, c)
<1>1. CASE a = c
  BY <1>1
<1>2. CASE a # c
  <2>1. PICK r \in Counts : c = [a EXCEPT !.revivals = r]
    BY <1>2 DEF SameAction
  <2>2. /\ DOMAIN c = AttackFields /\ c.revivals \in Counts
        /\ c.kind = a.kind /\ c.owner = a.owner /\ c.targets = a.targets /\ c.total = a.total
        /\ c.attackerGrants = a.attackerGrants /\ c.defenseGrants = a.defenseGrants
        /\ c.completion = a.completion /\ c.actor = a.actor /\ c.target = a.target
        /\ c.deferred = a.deferred
    BY <2>1 DEF AttackFields
  <2>3. IsPlan(P, B, a) => IsPlan(P, B, c)
    BY <2>2 DEF IsPlan
  <2>4. IsStrike(P, B, a) => IsStrike(P, B, c)
    BY <2>2, <2>3 DEF IsStrike
  <2> QED BY <2>2, <2>3, <2>4 DEF IsAttack
<1> QED BY <1>1, <1>2

(* The pending action is replaced.                                           *)
LEMMA PendingChange ==
  ASSUME NEW b, NEW s, OnTheWay(b, s), NEW a, Revivable(a)
  PROVE  LET t == [s EXCEPT !.pending = a]
         IN OnTheWay(b, t) /\ t.pending = a /\ Back(t) = Back(s)
            /\ t.post = s.post /\ t.phenomenon = s.phenomenon
<1> DEFINE t == [s EXCEPT !.pending = a]
<1>1. /\ DOMAIN t = Fields /\ t.pending = a /\ t.phase = s.phase /\ t.gf = s.gf
      /\ t.endTime = s.endTime /\ t.endTimeActive = s.endTimeActive /\ t.order = s.order
      /\ t.cursor = s.cursor /\ t.alive = s.alive /\ t.hand = s.hand /\ t.learned = s.learned /\ t.guardian = s.guardian
      /\ t.post = s.post /\ t.phenomenon = s.phenomenon /\ t.then = s.then
      /\ t.defeated = s.defeated /\ t.result = s.result /\ t.deck = s.deck
  BY DEF OnTheWay, Running, IsState, Fields
<1> HIDE DEF t
<1>2. IsState(t)
  BY <1>1 DEF OnTheWay, Running, IsState
<1>3. Running(b, t)
  BY <1>1, <1>2 DEF OnTheWay, Running, Closing, Confusing, Alive
<1>4. Back(t) = Back(s)
  BY <1>1 DEF Back, Closing, Confusing
<1> QED BY <1>1, <1>3, <1>4 DEF OnTheWay, t

LEMMA NothingPending == Revivable(NoAction)
BY DEF Revivable, NoAction

LEMMA StrikeRevivable ==
  ASSUME NEW P, NEW B, NEW a, IsStrike(P, B, a)
  PROVE  Revivable(a)
BY DEF IsStrike, IsPlan, Revivable

LEMMA NoGrantsCounted == NoGrants \in Counts
BY DEF NoGrants, Counts

-----------------------------------------------------------------------------
(* The calls *)

LEMMA ThenChange ==
  ASSUME NEW b, NEW s, Running(b, s), NEW c
  PROVE  LET t == [s EXCEPT !.then = c]
         IN /\ Running(b, t) /\ t.then = c /\ t.phase = s.phase /\ t.pending = s.pending
            /\ t.post = s.post /\ t.phenomenon = s.phenomenon /\ Back(t) = Back(s)
<1> DEFINE t == [s EXCEPT !.then = c]
<1>1. /\ DOMAIN t = Fields /\ t.pending = s.pending /\ t.phase = s.phase /\ t.gf = s.gf
      /\ t.endTime = s.endTime /\ t.endTimeActive = s.endTimeActive /\ t.order = s.order
      /\ t.cursor = s.cursor /\ t.alive = s.alive /\ t.hand = s.hand /\ t.learned = s.learned /\ t.guardian = s.guardian
      /\ t.post = s.post /\ t.phenomenon = s.phenomenon /\ t.then = c
      /\ t.defeated = s.defeated /\ t.result = s.result /\ t.deck = s.deck
  BY DEF Running, IsState, Fields
<1> HIDE DEF t
<1>2. IsState(t)
  BY <1>1 DEF Running, IsState
<1>3. Running(b, t)
  BY <1>1, <1>2 DEF Running, Closing, Confusing, Alive
<1>4. Back(t) = Back(s)
  BY <1>1 DEF Back, Closing, Confusing
<1> QED BY <1>1, <1>3, <1>4 DEF t

LEMMA CloseTurnCalls ==
  ASSUME NEW b, NEW s, OnTheWay(b, s), Closing(s)
  PROVE  Calling(b, CloseTurn(s))
<1> DEFINE c == [call |-> "continuePostTurnAutomaticEffects"]
           t == [s EXCEPT !.then = c]
<1>1. c.call = "continuePostTurnAutomaticEffects" /\ CloseTurn(s) = t
  BY DEF CloseTurn, Then
<1> HIDE DEF c
<1>2. Running(b, t) /\ t.then = c /\ t.phase = s.phase /\ t.post = s.post
  BY ThenChange DEF OnTheWay
<1> HIDE DEF t
<1> QED BY <1>1, <1>2 DEF Calling, IsCall, Closing, OnTheWay

LEMMA GoOnConfusedCalls ==
  ASSUME NEW b, NEW s, OnTheWay(b, s), Confusing(s)
  PROVE  Calling(b, GoOnConfused(s))
<1> DEFINE c == [call |-> "continueConfusionActions"]
           t == [s EXCEPT !.then = c]
<1>1. c.call = "continueConfusionActions" /\ GoOnConfused(s) = t
  BY DEF GoOnConfused, Then
<1> HIDE DEF c
<1>2. Running(b, t) /\ t.then = c /\ t.phase = s.phase /\ t.phenomenon = s.phenomenon
  BY ThenChange DEF OnTheWay
<1> HIDE DEF t
<1> QED BY <1>1, <1>2 DEF Calling, IsCall, Confusing, OnTheWay

LEMMA AdvanceCalls ==
  ASSUME NEW b, NEW s, OnTheWay(b, s), NEW a, IsAttack(Present(b), Back(s), a),
         IsStrike(Present(b), Back(s), s.pending)
  PROVE  Calling(b, Advance(s, a))
<1> DEFINE c == [call |-> "advanceAfterAttackStep", attack |-> a]
           t == [s EXCEPT !.then = c]
<1>1. c.call = "advanceAfterAttackStep" /\ c.attack = a /\ Advance(s, a) = t
  BY DEF Advance, ThenFor
<1> HIDE DEF c
<1>2. Running(b, t) /\ t.then = c /\ t.phase = s.phase /\ t.pending = s.pending /\ Back(t) = Back(s)
  BY ThenChange DEF OnTheWay
<1> HIDE DEF t
<1> QED BY <1>1, <1>2 DEF Calling, IsCall, OnTheWay

LEMMA CompleteCalls ==
  ASSUME NEW b, NEW s, OnTheWay(b, s), NEW a, IsPlan(Present(b), Back(s), a)
  PROVE  Calling(b, Complete(s, a))
<1> DEFINE c == [call |-> "completeAttack", attack |-> a]
           t == [s EXCEPT !.then = c]
<1>1. c.call = "completeAttack" /\ c.attack = a /\ Complete(s, a) = t
  BY DEF Complete, ThenFor
<1> HIDE DEF c
<1>2. Running(b, t) /\ t.then = c /\ t.phase = s.phase /\ Back(t) = Back(s)
  BY ThenChange DEF OnTheWay
<1> HIDE DEF t
<1> QED BY <1>1, <1>2 DEF Calling, IsCall, OnTheWay

-----------------------------------------------------------------------------
(* Closing the turn *)

(* The phenomenon or the phase of the turn is replaced.                      *)
LEMMA PhenomenonChange ==
  ASSUME NEW b, NEW s, OnTheWay(b, s), NEW x
  PROVE  LET t == [s EXCEPT !.phenomenon = x]
         IN /\ t.phenomenon = x /\ t.post = s.post /\ t.pending = s.pending
            /\ (x = NoPhenomenon \/ Confusing(t) => OnTheWay(b, t))
<1> DEFINE t == [s EXCEPT !.phenomenon = x]
<1>1. /\ DOMAIN t = Fields /\ t.pending = s.pending /\ t.phase = s.phase /\ t.gf = s.gf
      /\ t.endTime = s.endTime /\ t.endTimeActive = s.endTimeActive /\ t.order = s.order
      /\ t.cursor = s.cursor /\ t.alive = s.alive /\ t.hand = s.hand /\ t.learned = s.learned /\ t.guardian = s.guardian
      /\ t.post = s.post /\ t.phenomenon = x /\ t.then = s.then
      /\ t.defeated = s.defeated /\ t.result = s.result /\ t.deck = s.deck
  BY DEF OnTheWay, Running, IsState, Fields
<1> HIDE DEF t
<1>2. IsState(t)
  BY <1>1 DEF OnTheWay, Running, IsState
<1>3. x = NoPhenomenon \/ Confusing(t) => OnTheWay(b, t)
  BY <1>1, <1>2 DEF OnTheWay, Running, Closing, Alive
<1> QED BY <1>1, <1>3 DEF t

(* The next slot of the confusion.                                           *)
LEMMA DoneConfusing ==
  ASSUME NEW b, NEW s, OnTheWay(b, s), Confusing(s)
  PROVE  OnTheWay(b, Done(s)) /\ Confusing(Done(s))
<1> DEFINE x == [s.phenomenon EXCEPT !.next = @ + 1]
           t == [s EXCEPT !.phenomenon = x]
<1>1. /\ DOMAIN x = {"source", "grants", "next", "slots"}
      /\ x.grants \in Nat
  BY DEF Confusing
<1>2. t.phenomenon = x /\ (x = NoPhenomenon \/ Confusing(t) => OnTheWay(b, t)) /\ Done(s) = t
  <2> HIDE DEF x
  <2>1. t.phenomenon = x /\ (x = NoPhenomenon \/ Confusing(t) => OnTheWay(b, t))
    BY PhenomenonChange
  <2>2. Done(s) = t
    BY DEF Done, x
  <2> QED BY <2>1, <2>2
<1> HIDE DEF x, t
<1>3. Confusing(t)
  BY <1>1, <1>2 DEF Confusing
<1> QED BY <1>2, <1>3

LEMMA ConfusingIsSomething ==
  ASSUME NEW s, Confusing(s)
  PROVE  s.phenomenon # NoPhenomenon
<1>1. DOMAIN NoPhenomenon = {"source"}
  BY DEF NoPhenomenon
<1> QED BY <1>1 DEF Confusing

LEMMA ClosingIsSomething ==
  ASSUME NEW s, Closing(s)
  PROVE  s.post # NoPostTurn
<1>1. DOMAIN NoPostTurn = {"actor"}
  BY DEF NoPostTurn
<1> QED BY <1>1 DEF Closing

LEMMA CountGfOnTheWay ==
  ASSUME NEW b, NEW s, OnTheWay(b, s)
  PROVE  LET t == CountGf(s)
         IN /\ OnTheWay(b, t) /\ t.gf = s.gf + 1 /\ t.pending = s.pending
            /\ t.post = s.post /\ t.phenomenon = s.phenomenon /\ t.alive = s.alive
<1> DEFINE t == CountGf(s)
<1>1. /\ DOMAIN t = Fields /\ t.pending = s.pending /\ t.phase = s.phase /\ t.gf = s.gf + 1
      /\ t.endTime = s.endTime /\ t.order = s.order
      /\ (t.endTimeActive => s.endTime # Never)
      /\ t.cursor = s.cursor /\ t.alive = s.alive /\ t.hand = s.hand /\ t.learned = s.learned /\ t.guardian = s.guardian
      /\ t.post = s.post /\ t.phenomenon = s.phenomenon /\ t.then = s.then
      /\ t.defeated = s.defeated /\ t.result = s.result /\ t.deck = s.deck
  BY DEF OnTheWay, Running, IsState, Fields, CountGf
<1> HIDE DEF t
<1>2. IsState(t)
  BY <1>1 DEF OnTheWay, Running, IsState
<1>3. b.gf \in 0..t.gf
  BY <1>1 DEF OnTheWay, Running, IsState
<1>4. OnTheWay(b, t)
  BY <1>1, <1>2, <1>3 DEF OnTheWay, Running, Closing, Confusing, Alive
<1> QED BY <1>1, <1>4 DEF t

LEMMA finishTurnCalls ==
  ASSUME NEW b, NEW s, OnTheWay(b, s), NEW actor
  PROVE  Calling(b, finishTurn(s, actor))
<1> DEFINE guarded == {p \in Alive(s) : s.guardian[p] # NoGuardian /\ areOpponents(p, actor)}
           x == [actor |-> actor, guardians |-> InSeatOrder(guarded), next |-> 1]
           t == [s EXCEPT !.phase = "TURN_CLOSE", !.pending = NoAction, !.post = x]
<1>1. DOMAIN x = {"actor", "guardians", "next"} /\ finishTurn(s, actor) = CloseTurn(t)
  BY DEF finishTurn
<1> HIDE DEF x
<1>2. /\ DOMAIN t = Fields /\ t.pending = NoAction /\ t.phase = "TURN_CLOSE" /\ t.gf = s.gf
      /\ t.endTime = s.endTime /\ t.endTimeActive = s.endTimeActive /\ t.order = s.order
      /\ t.cursor = s.cursor /\ t.alive = s.alive /\ t.hand = s.hand /\ t.learned = s.learned /\ t.guardian = s.guardian
      /\ t.post = x /\ t.phenomenon = s.phenomenon /\ t.then = s.then
      /\ t.defeated = s.defeated /\ t.result = s.result /\ t.deck = s.deck
  BY DEF OnTheWay, Running, IsState, Fields
<1> HIDE DEF t
<1>3. IsState(t)
  BY <1>2, NothingPending DEF OnTheWay, Running, IsState
<1>4. Closing(t)
  BY <1>1, <1>2 DEF Closing
<1>5. OnTheWay(b, t)
  BY <1>2, <1>3, <1>4 DEF OnTheWay, Running, Confusing, Alive, Idle
<1> QED BY <1>1, <1>4, <1>5, CloseTurnCalls

LEMMA NextTurn ==
  ASSUME NEW b, NEW s, OnTheWay(b, s)
  PROVE  Finished(b, openNextTurnOrEnd(s))
<1>1. CASE ResultOf(s) = NoResult
  BY <1>1 DEF Finished, Opening
<1>2. CASE ResultOf(s) # NoResult
  <2>1. openNextTurnOrEnd(s) = Ended(s, ResultOf(s))
    BY <1>2 DEF openNextTurnOrEnd
  <2> QED BY <1>2, <2>1 DEF Finished, Ending
<1> QED BY <1>1, <1>2

LEMMA EndedOrReached ==
  ASSUME NEW b, NEW s, OnTheWay(b, s), NEW x, Reached(b, x)
  PROVE  Reached(b, EndedOr(s, x))
BY DEF EndedOr, Reached, Finished, Ending

(* After cards were replaced.                                                *)
LEMMA GrantsOnTheWay ==
  ASSUME NEW b, NEW s, OnTheWay(b, s), NEW p, NEW n \in Nat
  PROVE  \A t \in Grants({s}, p, n) :
           /\ Effect(s, t) /\ OnTheWay(b, t) /\ Back(t) = Back(s)
           /\ t.post = s.post /\ t.phenomenon = s.phenomenon
<1>1. Effects(s, Grants({s}, p, n))
  BY NoEffectAtAll, GrantsEffect DEF OnTheWay, Running
<1> HIDE DEF Effects
<1> QED BY <1>1, EffectsOnTheWay

LEMMA completeConfusionActionCalls ==
  ASSUME NEW b, NEW s, OnTheWay(b, s), Confusing(s)
  PROVE  Calling(b, completeConfusionAction(s))
<1>1. completeConfusionAction(s) = GoOnConfused(Done(s))
  BY ConfusingIsSomething DEF completeConfusionAction, Done, OnTheWay, Idle
<1> QED BY <1>1, DoneConfusing, GoOnConfusedCalls

LEMMA completeAttackReached ==
  ASSUME NEW b, NEW s, OnTheWay(b, s), NEW a, IsPlan(Present(b), Back(s), a)
  PROVE  \A t \in completeAttack(s, a) : Reached(b, t)
<1> DEFINE T == GrantEach(GrantEach(Grants({s}, a.owner, a.attackerGrants), a.defenseGrants), a.revivals)
<1>1. Effects(s, T)
  <2>1. IsState(s) /\ a.attackerGrants \in Nat /\ a.defenseGrants \in Counts /\ a.revivals \in Counts
    BY DEF OnTheWay, Running, IsPlan
  <2>2. Effects(s, Grants({s}, a.owner, a.attackerGrants))
    BY <2>1, NoEffectAtAll, GrantsEffect
  <2>3. Effects(s, GrantEach(Grants({s}, a.owner, a.attackerGrants), a.defenseGrants))
    BY <2>1, <2>2, GrantEachEffect
  <2> QED BY <2>1, <2>3, GrantEachEffect
<1>2. completeAttack(s, a) =
        {CASE a.completion = "RESUME_POST_TURN" -> CloseTurn(t)
           [] a.completion = "RESUME_PHENOMENON" -> completeConfusionAction(t)
           [] OTHER -> finishTurn(t, a.owner) : t \in T}
  BY DEF completeAttack
<1> HIDE DEF T
<1>3. ASSUME NEW t \in T
      PROVE  /\ a.completion = "RESUME_POST_TURN" => Calling(b, CloseTurn(t))
             /\ a.completion = "RESUME_PHENOMENON" => Calling(b, completeConfusionAction(t))
             /\ Calling(b, finishTurn(t, a.owner))
  <2>1. OnTheWay(b, t) /\ Back(t) = Back(s)
    BY <1>1, EffectsOnTheWay
  <2>2. /\ a.completion = "RESUME_POST_TURN" => Closing(t)
        /\ a.completion = "RESUME_PHENOMENON" => Confusing(t)
    BY <2>1 DEF IsPlan, Back
  <2> QED BY <2>1, <2>2, CloseTurnCalls, completeConfusionActionCalls, finishTurnCalls
<1> QED BY <1>2, <1>3 DEF Reached

(* The match may end before the cards are replaced.                          *)
LEMMA FinishActionReached ==
  ASSUME NEW b, NEW s, OnTheWay(b, s), NEW actor, NEW grants \in Nat
  PROVE  \A t \in FinishAction(s, actor, grants) : Reached(b, t)
<1>1. CASE ResultOf(s) # NoResult
  BY <1>1 DEF FinishAction, Reached, Finished, Ending
<1>2. CASE ResultOf(s) = NoResult
  BY <1>2, GrantsOnTheWay, finishTurnCalls DEF FinishAction, Reached
<1> QED BY <1>1, <1>2
-----------------------------------------------------------------------------
(* Attack after attack *)

(* The players asked, if that is where it ended, and otherwise what is       *)
(* pending: what it was in s, or an attack.                                  *)
Struck(b, s, t) ==
  /\ t.post = s.post /\ t.phenomenon = s.phenomenon
  /\ \/ Asking(b, t)
     \/ /\ OnTheWay(b, t)
        /\ t.pending = s.pending \/ IsAttack(Present(b), Back(s), t.pending)
Strikable(b, s) == s.pending = NoAction \/ IsStrike(Present(b), Back(s), s.pending)

LEMMA SamePlaceBack ==
  ASSUME NEW s, NEW t, t.post = s.post, t.phenomenon = s.phenomenon
  PROVE  Back(t) = Back(s) /\ (Closing(s) <=> Closing(t)) /\ (Confusing(s) <=> Confusing(t))
BY DEF Back, Closing, Confusing

LEMMA NotWaiting ==
  ASSUME NEW b, NEW s
  PROVE  (OnTheWay(b, s) => ~Waiting(s)) /\ (Asking(b, s) => Waiting(s))
BY DEF OnTheWay, Idle, Waiting, Asking

(* A player is asked for his reaction to an attack of somebody else.         *)
AskedAbout(s, a) == [s EXCEPT !.phase = "REACTION_SELECTION", !.pending = a]

LEMMA AskReaction ==
  ASSUME NEW b, NEW s, OnTheWay(b, s), NEW a, IsAttack(Present(b), Back(s), a),
         a.target \in Alive(s), a.target # a.actor
  PROVE  /\ Asking(b, AskedAbout(s, a)) /\ AskedAbout(s, a).post = s.post
         /\ AskedAbout(s, a).phenomenon = s.phenomenon
<1> DEFINE t == AskedAbout(s, a)
<1>1. /\ DOMAIN t = Fields /\ t.pending = a /\ t.phase = "REACTION_SELECTION" /\ t.gf = s.gf
      /\ t.endTime = s.endTime /\ t.endTimeActive = s.endTimeActive /\ t.order = s.order
      /\ t.cursor = s.cursor /\ t.alive = s.alive /\ t.hand = s.hand /\ t.learned = s.learned /\ t.guardian = s.guardian
      /\ t.post = s.post /\ t.phenomenon = s.phenomenon /\ t.then = s.then
      /\ t.defeated = s.defeated /\ t.result = s.result /\ t.deck = s.deck
  BY DEF OnTheWay, Running, IsState, Fields, AskedAbout
<1> HIDE DEF t
<1>2. Revivable(a)
  BY StrikeRevivable DEF IsAttack
<1>3. IsState(t)
  BY <1>1, <1>2 DEF OnTheWay, Running, IsState
<1>4. Running(b, t)
  BY <1>1, <1>3 DEF OnTheWay, Running, Closing, Confusing, Alive
<1>5. Back(t) = Back(s)
  BY <1>1, SamePlaceBack
<1> QED BY <1>1, <1>4, <1>5 DEF Asking, OnTheWay, Alive, t

LEMMA AttackCreatedIsAttack ==
  ASSUME NEW b, NEW s, OnTheWay(b, s), NEW plan, IsPlan(Present(b), Back(s), plan),
         Strikable(b, s), NEW index, NEW number, plan.targets[index] \in Alive(s)
  PROVE  LET t == AttackCreated(s, plan, index, number)
         IN /\ OnTheWay(b, t) /\ t.post = s.post /\ t.phenomenon = s.phenomenon
            /\ IsAttack(Present(b), Back(s), t.pending) /\ Alive(t) = Alive(s)
            /\ t.pending.target = plan.targets[index] /\ t.pending.actor = plan.owner
            /\ t = [s EXCEPT !.pending = t.pending]
<1> DEFINE target == plan.targets[index]
           before == s.pending
           same == before.kind = "ATTACK"
           defence == IF same THEN before.defenseGrants ELSE NoGrants
           revived == IF same THEN before.revivals ELSE NoGrants
           a == [kind |-> "ATTACK", attackKind |-> plan.attackKind, owner |-> plan.owner,
                 actor |-> plan.owner, target |-> target, targets |-> plan.targets,
                 index |-> index, number |-> number, total |-> plan.total,
                 element |-> plan.element, power |-> plan.power, chance |-> plan.chance,
                 sources |-> plan.sources, attackerGrants |-> plan.attackerGrants,
                 defenseGrants |-> defence, revivals |-> revived,
                 completion |-> plan.completion, depth |-> 1, deferred |-> NoEffect]
           t == [s EXCEPT !.pending = a]
<1>1. AttackCreated(s, plan, index, number) = t
  BY DEF AttackCreated
<1>2. defence \in Counts /\ revived \in Counts
  <2>1. NoAction.kind # "ATTACK"
    BY DEF NoAction
  <2>2. same => IsStrike(Present(b), Back(s), before)
    BY <2>1 DEF Strikable
  <2> QED BY <2>2, NoGrantsCounted DEF IsStrike, IsPlan
<1>3. target \in Present(b)
  BY RunningPresent DEF OnTheWay
<1> HIDE DEF target, defence, revived
<1>4. /\ DOMAIN a = AttackFields /\ a.kind = "ATTACK" /\ a.owner = plan.owner
      /\ a.actor = plan.owner /\ a.target = target /\ a.targets = plan.targets
      /\ a.total = plan.total /\ a.attackerGrants = plan.attackerGrants
      /\ a.defenseGrants = defence /\ a.revivals = revived
      /\ a.completion = plan.completion /\ a.deferred = NoEffect
  BY DEF AttackFields
<1> HIDE DEF a
<1>5. IsPlan(Present(b), Back(s), a)
  BY <1>2, <1>4 DEF IsPlan, AttackFields
<1>6. IsStrike(Present(b), Back(s), a)
  BY <1>3, <1>4, <1>5 DEF IsStrike, IsPlan
<1>7. IsAttack(Present(b), Back(s), a)
  BY <1>4, <1>6 DEF IsAttack, IsDeferred, NoEffect
<1>8. OnTheWay(b, t) /\ t.pending = a /\ t.post = s.post /\ t.phenomenon = s.phenomenon
  BY <1>6, StrikeRevivable, PendingChange
<1>9. t.alive = s.alive
  BY DEF OnTheWay, Running, IsState, Fields
<1> QED BY <1>1, <1>4, <1>7, <1>8, <1>9 DEF target, Alive

(* The damage of the pending attack leaves it the attack it was.             *)
LEMMA DamageOnTheWay ==
  ASSUME NEW b, NEW s, OnTheWay(b, s), IsAttack(Present(b), Back(s), s.pending),
         NEW a, NEW p, NEW defence
  PROVE  \A t \in resolvePendingAttackDamage(s, a, p, defence) :
           /\ OnTheWay(b, t) /\ Back(t) = Back(s)
           /\ t.post = s.post /\ t.phenomenon = s.phenomenon
           /\ IsAttack(Present(b), Back(s), t.pending) /\ SameAction(s.pending, t.pending)
<1>1. Effects(s, resolvePendingAttackDamage(s, a, p, defence))
  BY resolvePendingAttackDamageEffect DEF OnTheWay, Running
<1> HIDE DEF Effects
<1>2. DOMAIN s.pending = AttackFields
  BY DEF IsAttack, IsStrike
<1> QED BY <1>1, <1>2, EffectsOnTheWay, SameAttack

LEMMA AttackStepStruck ==
  ASSUME NEW b, NEW s, OnTheWay(b, s), NEW plan, IsPlan(Present(b), Back(s), plan),
         Strikable(b, s), NEW index, NEW number
  PROVE  \A t \in AttackStep(s, plan, index, number) : Struck(b, s, t)
<1> DEFINE target == plan.targets[index]
           t == AttackCreated(s, plan, index, number)
           atOnce == target = plan.owner \/ Doomed(t, plan.sources, target)
           waits == [t EXCEPT !.phase = "REACTION_SELECTION"]
           struck == resolvePendingAttackDamage(t, t.pending, target, 0)
<1>1. AttackStep(s, plan, index, number) \subseteq
        IF target \notin Alive(s) THEN {s} ELSE {t} \cup (IF atOnce THEN struck ELSE {waits})
  BY DEF AttackStep
<1>2. CASE target \notin Alive(s)
  BY <1>1, <1>2 DEF Struck
<1>3. CASE target \in Alive(s)
  <2>1. /\ OnTheWay(b, t) /\ t.post = s.post /\ t.phenomenon = s.phenomenon
        /\ IsAttack(Present(b), Back(s), t.pending) /\ Alive(t) = Alive(s)
        /\ t.pending.target = target /\ t.pending.actor = plan.owner
    BY <1>3, AttackCreatedIsAttack
  <2>2. Struck(b, s, t) /\ Back(t) = Back(s)
    BY <2>1, SamePlaceBack DEF Struck
  <2> HIDE DEF t
  <2>3. \A u \in struck : Struck(b, s, u)
    BY <2>1, <2>2, DamageOnTheWay DEF Struck
  <2>4. target # plan.owner => Struck(b, s, waits)
    <3>1. waits = [t EXCEPT !.phase = "REACTION_SELECTION", !.pending = t.pending]
      BY <2>1 DEF OnTheWay, Running, IsState, Fields
    <3>2. target # plan.owner => Asking(b, waits) /\ waits.post = t.post /\ waits.phenomenon = t.phenomenon
      <4> DEFINE a == t.pending
      <4>1. IsAttack(Present(b), Back(t), a) /\ a.target = target /\ a.actor = plan.owner /\ target \in Alive(t)
        BY <1>3, <2>1, <2>2
      <4>2. waits = AskedAbout(t, a)
        BY <3>1 DEF AskedAbout
      <4> HIDE DEF a, waits, target
      <4>3. OnTheWay(b, t)
        BY <2>1
      <4>4. ASSUME target # plan.owner
            PROVE  Asking(b, waits) /\ waits.post = t.post /\ waits.phenomenon = t.phenomenon
        <5>1. a.target \in Alive(t) /\ a.target # a.actor
          BY <4>1, <4>4
        <5> QED BY <4>1, <4>2, <4>3, <5>1, AskReaction
      <4> QED BY <4>4
    <3> QED BY <2>1, <3>2 DEF Struck
  <2> HIDE DEF struck, waits, target
  <2> QED BY <1>1, <1>3, <2>2, <2>3, <2>4 DEF target
<1> QED BY <1>2, <1>3

(* Strike after strike.                                                      *)
StrikesStep(s, plan, first, i, T) ==
  UNION {IF Waiting(t) THEN {t}
         ELSE AttackStep(t, plan, ((i - 1) \div plan.total) + 1, ((i - 1) % plan.total) + 1)
           : t \in T}
IsStrikes(f, s, plan, first, m) ==
  f = [i \in 0..m |-> IF i = 0 \/ i < first THEN {s} ELSE StrikesStep(s, plan, first, i, f[i - 1])]

LEMMA StrikesExists ==
  ASSUME NEW s, NEW plan, NEW first, NEW m \in Nat
  PROVE  \E f : IsStrikes(f, s, plan, first, m)
<1> DEFINE N == {n \in 0..m : \E f : IsStrikes(f, s, plan, first, n)}
<1>1. 0 \in N
  <2> DEFINE f == [i \in 0..0 |-> {s}]
  <2>1. IsStrikes(f, s, plan, first, 0)
    BY DEF IsStrikes
  <2> QED BY <2>1
<1>2. ASSUME NEW n \in N, n < m
      PROVE  n + 1 \in N
  <2>1. PICK f : IsStrikes(f, s, plan, first, n)
    OBVIOUS
  <2> DEFINE x == IF n + 1 < first THEN {s} ELSE StrikesStep(s, plan, first, n + 1, f[n])
             g == [i \in 0..(n + 1) |-> IF i = n + 1 THEN x ELSE f[i]]
  <2> HIDE DEF x
  <2>2. \A i \in 0..(n + 1) :
          g[i] = IF i = 0 \/ i < first THEN {s} ELSE StrikesStep(s, plan, first, i, g[i - 1])
    <3> SUFFICES ASSUME NEW i \in 0..(n + 1)
                 PROVE  g[i] = IF i = 0 \/ i < first THEN {s} ELSE StrikesStep(s, plan, first, i, g[i - 1])
      OBVIOUS
    <3>1. CASE i = n + 1
      <4>1. g[i] = x /\ g[i - 1] = f[n] /\ i # 0
        BY <3>1
      <4> QED BY <3>1, <4>1 DEF x
    <3>2. CASE i # n + 1
      <4>1. i \in 0..n /\ g[i] = f[i]
        BY <3>2
      <4>2. i # 0 => g[i - 1] = f[i - 1]
        BY <4>1
      <4> QED BY <2>1, <4>1, <4>2 DEF IsStrikes
    <3> QED BY <3>1, <3>2
  <2>3. IsStrikes(g, s, plan, first, n + 1)
    BY <2>2 DEF IsStrikes
  <2> HIDE DEF g
  <2> QED BY <1>2, <2>3
<1> HIDE DEF N
<1>3. N = 0..m
  <2>1. N \in SUBSET (0..m)
    BY DEF N
  <2> QED BY <1>1, <1>2, <2>1, Induction
<1> QED BY <1>3 DEF N

(* A series of strikes that is over, or waits for a reaction.                *)
LEMMA startAttackSeriesStepStruck ==
  ASSUME NEW b, NEW s, OnTheWay(b, s), NEW plan, IsPlan(Present(b), Back(s), plan),
         Strikable(b, s), NEW index, NEW number
  PROVE  \A t \in startAttackSeriesStep(s, plan, index, number) : Struck(b, s, t)
<1> DEFINE strikes == Len(plan.targets) * plan.total
           first == (index - 1) * plan.total + number
           after == CHOOSE f : IsStrikes(f, s, plan, first, strikes)
<1>1. strikes \in Nat
  BY DEF IsPlan
<1>2. startAttackSeriesStep(s, plan, index, number) = after[strikes]
  BY DEF startAttackSeriesStep, IsStrikes, StrikesStep
<1> HIDE DEF strikes, first
<1>3. IsStrikes(after, s, plan, first, strikes)
  BY <1>1, StrikesExists
<1> HIDE DEF after
<1>5. Struck(b, s, s)
  BY DEF Struck
<1>6. ASSUME NEW T, \A t \in T : Struck(b, s, t), NEW i
      PROVE  \A t \in IF i = 0 \/ i < first THEN {s} ELSE StrikesStep(s, plan, first, i, T) :
               Struck(b, s, t)
  <2>1. ASSUME NEW t \in T, ~Waiting(t), NEW j, NEW k
        PROVE  \A u \in AttackStep(t, plan, j, k) : Struck(b, s, u)
    <3>1. OnTheWay(b, t)
      BY <1>6, <2>1, NotWaiting DEF Struck
    <3>2. /\ t.post = s.post /\ t.phenomenon = s.phenomenon /\ Back(t) = Back(s)
          /\ t.pending = s.pending \/ IsAttack(Present(b), Back(s), t.pending)
      BY <1>6, <2>1, NotWaiting, SamePlaceBack DEF Struck
    <3>3. Strikable(b, t)
      BY <3>2 DEF Strikable, IsAttack
    <3>4. \A u \in AttackStep(t, plan, j, k) : Struck(b, t, u)
      BY <3>1, <3>2, <3>3, AttackStepStruck
    <3> QED BY <3>2, <3>4 DEF Struck
  <2> QED BY <1>5, <1>6, <2>1 DEF StrikesStep
<1> DEFINE N == {i \in 0..strikes : \A t \in after[i] : Struck(b, s, t)}
<1>7. 0 \in N
  <2>1. after[0] = {s}
    BY <1>1, <1>3 DEF IsStrikes
  <2> QED BY <1>1, <1>5, <2>1
<1>8. ASSUME NEW i \in N, i < strikes
      PROVE  i + 1 \in N
  <2>1. i + 1 \in 0..strikes /\ i + 1 # 0 /\ (i + 1) - 1 = i
    BY <1>1, <1>8
  <2>2. after[i + 1] = IF i + 1 = 0 \/ i + 1 < first THEN {s}
                       ELSE StrikesStep(s, plan, first, i + 1, after[i])
    BY <1>3, <2>1 DEF IsStrikes
  <2>3. \A t \in after[i] : Struck(b, s, t)
    OBVIOUS
  <2> HIDE DEF after, N
  <2>4. \A t \in after[i + 1] : Struck(b, s, t)
    BY <1>6, <2>2, <2>3
  <2> QED BY <2>1, <2>4 DEF N
<1>9. N = 0..strikes
  <2>1. N \in SUBSET (0..strikes)
    OBVIOUS
  <2> HIDE DEF N
  <2> QED BY <1>1, <1>7, <1>8, <2>1, Induction
<1> QED BY <1>1, <1>2, <1>9

(* A new series, completed unless it waits.                                  *)
LEMMA StartSeriesOnlyStruck ==
  ASSUME NEW b, NEW s, OnTheWay(b, s), NEW plan, IsPlan(Present(b), Back(s), plan)
  PROVE  \A t \in StartSeriesOnly(s, plan) :
           /\ t.post = s.post /\ t.phenomenon = s.phenomenon /\ Back(t) = Back(s)
           /\ Asking(b, t) \/ OnTheWay(b, t)
<1> DEFINE u == [s EXCEPT !.pending = NoAction]
<1>1. /\ OnTheWay(b, u) /\ u.pending = NoAction /\ Back(u) = Back(s)
      /\ u.post = s.post /\ u.phenomenon = s.phenomenon
  BY NothingPending, PendingChange
<1>2. StartSeriesOnly(s, plan) = startAttackSeriesStep(u, plan, 1, 1)
  BY DEF StartSeriesOnly
<1> HIDE DEF u
<1>3. \A t \in startAttackSeriesStep(u, plan, 1, 1) : Struck(b, u, t)
  BY <1>1, startAttackSeriesStepStruck DEF Strikable
<1> QED BY <1>1, <1>2, <1>3, SamePlaceBack DEF Struck

LEMMA StartSeriesReached ==
  ASSUME NEW b, NEW s, OnTheWay(b, s), NEW plan, IsPlan(Present(b), Back(s), plan)
  PROVE  \A t \in StartSeries(s, plan) : Reached(b, t)
<1> DEFINE a == [plan EXCEPT !.defenseGrants = NoGrants, !.revivals = NoGrants]
<1>1. StartSeries(s, plan) =
        {IF Waiting(t) THEN t ELSE Complete(t, a) : t \in StartSeriesOnly(s, plan)}
  BY DEF StartSeries, StartSeriesOnly
<1>2. IsPlan(Present(b), Back(s), a)
  BY NoGrantsCounted DEF IsPlan
<1> HIDE DEF a
<1>3. ASSUME NEW t \in StartSeriesOnly(s, plan)
      PROVE  IF Waiting(t) THEN Asking(b, t) ELSE Calling(b, Complete(t, a))
  <2>1. Back(t) = Back(s) /\ (Asking(b, t) \/ OnTheWay(b, t))
    BY <1>3, StartSeriesOnlyStruck
  <2> QED BY <1>2, <2>1, NotWaiting, CompleteCalls
<1> QED BY <1>1, <1>3 DEF Reached, Finished
-----------------------------------------------------------------------------
(* Cards aimed at somebody: counters, trades and cards used directly *)

LEMMA startTargetedCardReactionAsks ==
  ASSUME NEW b, NEW s, OnTheWay(b, s), NEW B, NEW a, IsStrike(Present(b), B, a),
         NEW d, IsDeferred(Present(b), Back(s), d),
         a.target \in Alive(s), a.target # a.actor
  PROVE  \A t \in startTargetedCardReaction(s, a, d) :
           Asking(b, t) /\ t.post = s.post /\ t.phenomenon = s.phenomenon
<1> DEFINE x == [a EXCEPT !.attackKind = "TARGETED_CARD", !.index = 1,
                   !.number = 1, !.total = 1, !.targets = <<a.target>>,
                   !.element = "LIGHT", !.power = 0, !.chance = FALSE,
                   !.completion = "FINISH_TURN", !.depth = 1, !.deferred = d]
           t == [s EXCEPT !.phase = "REACTION_SELECTION", !.pending = x]
<1>1. startTargetedCardReaction(s, a, d) = {t}
  BY DEF startTargetedCardReaction
<1>2. /\ DOMAIN x = AttackFields /\ x.kind = a.kind /\ x.owner = a.owner
      /\ x.actor = a.actor /\ x.target = a.target /\ x.targets = <<a.target>>
      /\ x.total = 1 /\ x.attackerGrants = a.attackerGrants
      /\ x.defenseGrants = a.defenseGrants /\ x.revivals = a.revivals
      /\ x.completion = "FINISH_TURN" /\ x.deferred = d
  BY DEF AttackFields, IsStrike
<1> HIDE DEF x
<1>3. Len(x.targets) = 1 /\ x.completion \in Back(s)
  BY <1>2 DEF Back
<1>4. IsPlan(Present(b), Back(s), x)
  <2>1. IsPlan(Present(b), B, a)
    BY DEF IsStrike
  <2> QED BY <1>2, <1>3, <2>1 DEF IsPlan, AttackFields
<1>5. IsAttack(Present(b), Back(s), x)
  BY <1>2, <1>4 DEF IsAttack, IsStrike
<1>6. Asking(b, t) /\ t.post = s.post /\ t.phenomenon = s.phenomenon
  <2>1. x.target \in Alive(s) /\ x.target # x.actor
    BY <1>2
  <2>2. t = AskedAbout(s, x)
    BY DEF AskedAbout
  <2> HIDE DEF t
  <2>3. OnTheWay(b, s)
    OBVIOUS
  <2>4. Asking(b, AskedAbout(s, x)) /\ AskedAbout(s, x).post = s.post
        /\ AskedAbout(s, x).phenomenon = s.phenomenon
    BY <1>5, <2>1, <2>3, AskReaction
  <2> QED BY <2>2, <2>4
<1> QED BY <1>1, <1>6

LEMMA FreshAttackIsStrike ==
  ASSUME NEW P, NEW owner \in P, NEW target \in P, NEW sources, NEW grants \in Nat
  PROVE  IsStrike(P, {"FINISH_TURN"}, FreshAttack(owner, target, sources, grants))
<1> DEFINE a == FreshAttack(owner, target, sources, grants)
<1>1. /\ DOMAIN a = AttackFields /\ a.kind = "ATTACK" /\ a.owner = owner /\ a.actor = owner
      /\ a.target = target /\ Len(a.targets) = 1 /\ a.total = 1 /\ a.attackerGrants = grants
      /\ a.defenseGrants = NoGrants /\ a.revivals = NoGrants /\ a.completion = "FINISH_TURN"
  BY DEF FreshAttack, AttackFields
<1> HIDE DEF a
<1>2. IsPlan(P, {"FINISH_TURN"}, a)
  BY <1>1, NoGrantsCounted DEF IsPlan, AttackFields
<1> QED BY <1>1, <1>2 DEF IsStrike, a

(* A counter asks the attacker, or is done at once.                          *)
LEMMA startCounterReactionAsksOrGoesOn ==
  ASSUME NEW b, NEW s, OnTheWay(b, s), IsStrike(Present(b), Back(s), s.pending),
         NEW a, IsAttack(Present(b), Back(s), a), NEW defender \in Present(b),
         NEW cards, IsFiniteSet(cards), NEW received
  PROVE  \A u \in startCounterReaction(s, a, defender, cards, received) :
           \/ Asking(b, u)
           \/ OnTheWay(b, u) /\ Back(u) = Back(s) /\ SameAction(s.pending, u.pending)
<1> DEFINE usable == {c \in cards : c.kind.category # "ARMOR"
                                     \/ canDefenseBlock(c.kind.element, a.element)}
           fee == FoldLeft(LAMBDA sum, c : sum + received * c.kind.counterMp,
                           0, SetToSeq(usable))
           t == IF defender \in Alive(s) THEN Boost(s, defender, "mp", fee) ELSE s
           aimed == {c \in usable : CountersAttacker(c.kind)}
           x == [t.pending EXCEPT !.actor = defender, !.target = a.actor,
                                  !.sources = {c.kind : c \in aimed}]
           d == [kind |-> "COUNTER", cards |-> aimed, received |-> received,
                 original |-> [a EXCEPT !.deferred = NoEffect]]
<1>1. startCounterReaction(s, a, defender, cards, received) \subseteq
        {s, t} \cup (IF a.actor = defender
                     THEN resolveCounterTargetedEffects(t, a.actor, defender, aimed, received)
                     ELSE IF a.actor \in Alive(t) THEN startTargetedCardReaction(t, x, d) ELSE {})
  BY DEF startCounterReaction
<1>2. IsFiniteSet(aimed)
  BY FS_Subset
<1>3. Effect(s, t) /\ IsState(s)
  <2> HIDE DEF fee
  <2> QED BY BoostEffect, NoEffectAtAll DEF OnTheWay, Running
<1> HIDE DEF t, aimed
<1>4. /\ OnTheWay(b, t) /\ Back(t) = Back(s) /\ SameAction(s.pending, t.pending) /\ IsState(t)
      /\ OnTheWay(b, s) /\ SameAction(s.pending, s.pending)
  BY <1>3, EffectOnTheWay DEF Effect, SameAction
<1>5. \A u \in resolveCounterTargetedEffects(t, a.actor, defender, aimed, received) :
        OnTheWay(b, u) /\ Back(u) = Back(s) /\ SameAction(s.pending, u.pending)
  <2>1. Effects(t, resolveCounterTargetedEffects(t, a.actor, defender, aimed, received))
    BY <1>2, <1>4, resolveCounterTargetedEffectsEffect
  <2>2. Effects(s, resolveCounterTargetedEffects(t, a.actor, defender, aimed, received))
    BY <1>3, <2>1, EffectOnEffect DEF Effects
  <2> HIDE DEF Effects
  <2> QED BY <2>2, EffectsOnTheWay
<1>6. ASSUME a.actor # defender, a.actor \in Alive(t)
      PROVE  \A u \in startTargetedCardReaction(t, x, d) : Asking(b, u)
  <2>1. IsStrike(Present(b), Back(s), t.pending)
    BY <1>4, SameAttack DEF IsStrike
  <2>2. /\ DOMAIN x = AttackFields /\ x.kind = t.pending.kind /\ x.owner = t.pending.owner
        /\ x.actor = defender /\ x.target = a.actor /\ x.targets = t.pending.targets
        /\ x.total = t.pending.total /\ x.attackerGrants = t.pending.attackerGrants
        /\ x.defenseGrants = t.pending.defenseGrants /\ x.revivals = t.pending.revivals
        /\ x.completion = t.pending.completion
    BY <2>1 DEF IsStrike, AttackFields
  <2> HIDE DEF x
  <2>3. IsPlan(Present(b), Back(s), x)
    BY <2>1, <2>2 DEF IsStrike, IsPlan, AttackFields
  <2>4. a.actor \in Present(b)
    BY DEF IsAttack, IsStrike
  <2>5. IsStrike(Present(b), Back(s), x)
    BY <2>1, <2>2, <2>3, <2>4 DEF IsStrike
  <2>6. IsDeferred(Present(b), Back(t), d)
    <3> DEFINE o == [a EXCEPT !.deferred = NoEffect]
    <3>1. /\ DOMAIN o = AttackFields /\ o.kind = a.kind /\ o.owner = a.owner
          /\ o.actor = a.actor /\ o.target = a.target /\ o.targets = a.targets
          /\ o.total = a.total /\ o.attackerGrants = a.attackerGrants
          /\ o.defenseGrants = a.defenseGrants /\ o.revivals = a.revivals
          /\ o.completion = a.completion /\ o.deferred = NoEffect
      BY DEF IsAttack, IsStrike, AttackFields
    <3>2. d.kind = "COUNTER" /\ d.cards = aimed /\ d.original = o
      OBVIOUS
    <3> HIDE DEF o, d
    <3>3. IsStrike(Present(b), Back(s), a)
      BY DEF IsAttack
    <3>4. IsPlan(Present(b), Back(s), o)
      BY <3>1, <3>3 DEF IsStrike, IsPlan, AttackFields
    <3>5. IsStrike(Present(b), Back(s), o)
      BY <3>1, <3>3, <3>4 DEF IsStrike
    <3>6. o.deferred.kind = "NONE"
      BY <3>1 DEF NoEffect
    <3> QED BY <1>2, <1>4, <3>2, <3>5, <3>6 DEF IsDeferred
  <2> HIDE DEF d
  <2>7. x.target \in Alive(t) /\ x.target # x.actor
    BY <1>6, <2>2
  <2> QED BY <1>4, <2>5, <2>6, <2>7, startTargetedCardReactionAsks
<1> HIDE DEF x, d
<1> QED BY <1>1, <1>4, <1>5, <1>6

(* What was paid may kill, and end the match.                                *)
LEMMA finishTradeActionReached ==
  ASSUME NEW b, NEW s, OnTheWay(b, s), NEW actor \in Present(b), NEW loss
  PROVE  \A t \in finishTradeAction(s, actor, loss) : Reached(b, t)
<1> DEFINE checked == UNION {maybeDepartGuardianAfterHpLoss(t, actor, loss)
                               : t \in HpZeroByItself(s, actor)}
<1>1. Effects(s, checked)
  <2>1. IsState(s) /\ Effect(s, s) /\ actor \in Present(s)
    BY NoEffectAtAll, RunningPresent DEF OnTheWay, Running
  <2> QED BY <2>1, HpLossEffect
<1>2. \A t \in finishTradeAction(s, actor, loss) :
        \E u \in checked : \E n \in {1, 2} : t \in FinishAction(u, actor, n)
  BY DEF finishTradeAction
<1> HIDE DEF checked
<1>3. \A u \in checked : OnTheWay(b, u)
  BY <1>1, EffectsOnTheWay
<1> QED BY <1>2, <1>3, FinishActionReached

LEMMA ThrewReached ==
  ASSUME NEW b, NEW s, IsState(s), s.then = Nothing
  PROVE  \A t \in Threw(s) : Throwing(t)
BY DEF Threw, Throwing, IsState, Fields

(* A sale, of a card that may be gone.                                       *)
LEMMA resolveSaleReached ==
  ASSUME NEW b, NEW s, OnTheWay(b, s), NEW a, IsStrike(Present(b), Back(s), a)
  PROVE  \A t \in resolveSale(s, a) : Reached(b, t)
<1> DEFINE seller == a.owner
           buyer == a.target
           paid == Paid(s, buyer, seller, a.deferred.price)
           loss == s.hp[buyer] - paid.hp[buyer]
           sold == transferTradeCard(paid, seller, buyer, a.deferred.card)
           checked == UNION {maybeDepartGuardianAfterHpLoss(v, buyer, loss) :
                               v \in UNION {HpZeroByItself(u, buyer) : u \in sold}}
<1>1. \A t \in resolveSale(s, a) :
        \/ t \in Threw(s) \/ t = Complete(s, a)
        \/ \E u \in checked : t = EndedOr(u, Complete(u, a))
  BY DEF resolveSale
<1>2. Effects(s, checked)
  <2>1. IsState(s) /\ buyer \in Present(s)
    BY RunningPresent DEF OnTheWay, Running, IsStrike
  <2>2. Effect(s, paid) /\ IsState(paid)
    BY <2>1, PaidEffect DEF Effect
  <2> HIDE DEF paid, buyer, seller, loss
  <2>3. Effects(s, sold)
    BY <2>1, <2>2, transferTradeCardEffect, EffectOnEffect DEF Effects
  <2> HIDE DEF sold
  <2>4. \A u \in sold : Effects(s, UNION {maybeDepartGuardianAfterHpLoss(v, buyer, loss) :
                                            v \in HpZeroByItself(u, buyer)})
    BY <2>1, <2>3, HpLossEffect DEF Effects
  <2> QED BY <2>4 DEF Effects
<1> HIDE DEF checked
<1>3. \A u \in checked : OnTheWay(b, u) /\ Back(u) = Back(s)
  BY <1>2, EffectsOnTheWay
<1>4. IsPlan(Present(b), Back(s), a)
  BY DEF IsStrike
<1>5. \A u \in checked : Reached(b, EndedOr(u, Complete(u, a)))
  BY <1>3, <1>4, CompleteCalls, EndedOrReached DEF Reached
<1>6. Reached(b, Complete(s, a))
  BY <1>4, CompleteCalls DEF Reached
<1>7. \A t \in Threw(s) : Reached(b, t)
  BY ThrewReached DEF Reached, Finished, OnTheWay, Running
<1> QED BY <1>1, <1>5, <1>6, <1>7
(* The card that is offered: the grants before it may kill the buyer, if     *)
(* demons that hurt have come.                                               *)
LEMMA OfferReached ==
  ASSUME NEW b, NEW s, OnTheWay(b, s), NEW buyer \in Alive(s), NEW counts \in Counts,
         NEW t \in GrantEach({s}, counts),
         NEW x, x.kind = "TRADE_CONFIRMATION", x.buyer = buyer
  PROVE  Offering(b, [t EXCEPT !.phase = "TRADE_CONFIRMATION", !.pending = x])
<1> DEFINE u == [t EXCEPT !.phase = "TRADE_CONFIRMATION", !.pending = x]
<1>1. Effects(s, GrantEach({s}, counts)) /\ IsState(s)
  BY NoEffectAtAll, GrantEachEffect DEF OnTheWay, Running
<1>2. OnTheWay(b, t) /\ Effect(s, t)
  <2> HIDE DEF Effects
  <2> QED BY <1>1, EffectsOnTheWay
<1>3. Calm(s) => Intact(s, t)
  <2>1. DOMAIN s = Fields /\ Unhurt(s, {s})
    BY <1>1, IntactChanges DEF IsState, Unhurt
  <2> QED BY <2>1, GrantEachUnhurt DEF Unhurt
<1>4. /\ DOMAIN u = Fields /\ u.pending = x /\ u.phase = "TRADE_CONFIRMATION" /\ u.gf = t.gf
      /\ u.endTime = t.endTime /\ u.endTimeActive = t.endTimeActive /\ u.order = t.order
      /\ u.cursor = t.cursor /\ u.alive = t.alive /\ u.hand = t.hand /\ u.learned = t.learned /\ u.guardian = t.guardian
      /\ u.post = t.post /\ u.phenomenon = t.phenomenon /\ u.then = t.then
      /\ u.defeated = t.defeated /\ u.result = t.result /\ u.deck = t.deck
  BY <1>2 DEF OnTheWay, Running, IsState, Fields
<1> HIDE DEF u
<1>5. IsState(u)
  BY <1>2, <1>4 DEF OnTheWay, Running, IsState, Revivable
<1>6. Running(b, u)
  BY <1>2, <1>4, <1>5 DEF OnTheWay, Running, Closing, Confusing, Alive
<1>7. Calm(u) => buyer \in Alive(u)
  <2>1. Calm(u) => Calm(s)
    BY <1>2, <1>4 DEF Calm, Effect, Kept
  <2> QED BY <1>3, <1>4, <2>1 DEF Intact, Alive
<1>8. buyer \in Alive(b)
  BY DEF OnTheWay, Running
<1>9. u.then = Nothing
  BY <1>2, <1>4 DEF OnTheWay
<1> QED BY <1>4, <1>6, <1>7, <1>8, <1>9 DEF Offering, u

LEMMA resolvePurchaseReached ==
  ASSUME NEW b, NEW s, OnTheWay(b, s), IsStrike(Present(b), Back(s), s.pending),
         NEW a, IsStrike(Present(b), Back(s), a)
  PROVE  \A t \in resolvePurchase(s, a) : Reached(b, t)
<1> DEFINE buyer == a.owner
           seller == a.target
           asked(c) == [s.pending EXCEPT !.deferred = [kind |-> "OFFER", card |-> c]]
           named(c) == [s EXCEPT !.pending = asked(c)]
           offered(t, x) == [t EXCEPT !.phase = "TRADE_CONFIRMATION", !.pending = x]
           closed(t) == [t EXCEPT !.pending = NoAction]
           declined(t) == {finishTurn(u, buyer) : u \in resolveNormalGrant(closed(t), buyer)}
           offer(c) == [kind |-> "TRADE_CONFIRMATION", buyer |-> buyer, seller |-> seller,
                        offered |-> c, price |-> Price(c),
                        canAfford |-> canPayPrice(s.money[buyer], s.mp[buyer], s.hp[buyer], Price(c))]
<1>1. \A c : [s EXCEPT !.pending.deferred = [kind |-> "OFFER", card |-> c]] = named(c)
  OBVIOUS
<1>2. ASSUME NEW u \in resolvePurchase(s, a)
      PROVE  \/ u = Complete(s, a)
             \/ /\ buyer \in Alive(s)
                /\ \E c : \E t \in GrantEach({named(c)}, a.defenseGrants) :
                     u = offered(t, offer(c)) \/ u \in declined(t)
  <2>1. resolvePurchase(s, a) =
          IF seller = buyer \/ seller \notin Alive(s) \/ buyer \notin Alive(s) \/ s.hand[seller] = {}
          THEN {Complete(s, a)}
          ELSE UNION {UNION {IF canPayPrice(s.money[buyer], s.mp[buyer], s.hp[buyer], Price(c))
                             THEN {offered(t, offer(c))} ELSE declined(t)
                               : t \in GrantEach({named(c)}, a.defenseGrants)} : c \in s.hand[seller]}
    BY DEF resolvePurchase
  <2> HIDE DEF named, offered, declined, offer
  <2> QED BY <2>1
<1>3. \A c : OnTheWay(b, named(c)) /\ Alive(named(c)) = Alive(s)
  <2> TAKE c
  <2> DEFINE x == asked(c)
  <2>1. /\ DOMAIN s.pending = AttackFields /\ s.pending.kind = "ATTACK"
        /\ s.pending.revivals \in Counts
    BY DEF IsStrike, IsPlan
  <2>2. Revivable(x)
    BY <2>1 DEF Revivable, AttackFields
  <2> HIDE DEF x
  <2>3. OnTheWay(b, [s EXCEPT !.pending = x])
    BY <2>2, PendingChange
  <2>4. Alive([s EXCEPT !.pending = x]) = Alive(s)
    BY DEF OnTheWay, Running, IsState, Fields, Alive
  <2> QED BY <2>3, <2>4 DEF x
<1>4. a.defenseGrants \in Counts /\ IsPlan(Present(b), Back(s), a)
  BY DEF IsStrike, IsPlan
<1>5. Reached(b, Complete(s, a))
  BY <1>4, CompleteCalls DEF Reached
<1> HIDE DEF named
<1>6. ASSUME buyer \in Alive(s), NEW c, NEW t \in GrantEach({named(c)}, a.defenseGrants)
      PROVE  /\ Reached(b, offered(t, offer(c)))
             /\ \A u \in declined(t) : Reached(b, u)
  <2> DEFINE x == offer(c)
             n == named(c)
  <2>1. x.kind = "TRADE_CONFIRMATION" /\ x.buyer = buyer
    OBVIOUS
  <2> HIDE DEF x, n
  <2>2. OnTheWay(b, n) /\ buyer \in Alive(n) /\ t \in GrantEach({n}, a.defenseGrants)
    BY <1>3, <1>6 DEF n
  <2>3. Offering(b, offered(t, x))
    BY <1>4, <2>1, <2>2, OfferReached
  <2>4. OnTheWay(b, t)
    <3>1. Effects(n, GrantEach({n}, a.defenseGrants))
      BY <1>4, <2>2, NoEffectAtAll, GrantEachEffect DEF OnTheWay, Running
    <3> HIDE DEF Effects
    <3> QED BY <2>2, <3>1, EffectsOnTheWay
  <2>5. OnTheWay(b, closed(t))
    BY <2>4, NothingPending, PendingChange
  <2>6. \A u \in resolveNormalGrant(closed(t), buyer) : OnTheWay(b, u)
    <3> DEFINE k == closed(t)
    <3> HIDE DEF k
    <3>1. OnTheWay(b, k) /\ IsState(k)
      BY <2>5 DEF OnTheWay, Running, k
    <3>2. Effects(k, resolveNormalGrant(k, buyer))
      BY <3>1, resolveNormalGrantEffect
    <3>3. \A u \in resolveNormalGrant(k, buyer) : OnTheWay(b, u)
      <4> HIDE DEF Effects
      <4> QED BY <3>1, <3>2, EffectsOnTheWay
    <3> QED BY <3>3 DEF k
  <2>7. \A u \in declined(t) : Calling(b, u)
    BY <2>6, finishTurnCalls
  <2> QED BY <2>3, <2>7 DEF Reached, Finished, x
<1> HIDE DEF offered, declined, offer
<1> SUFFICES ASSUME NEW u \in resolvePurchase(s, a)
             PROVE  Reached(b, u)
  OBVIOUS
<1>7. CASE u = Complete(s, a)
  BY <1>5, <1>7
<1>8. CASE u # Complete(s, a)
  <2>1. buyer \in Alive(s)
    BY <1>2, <1>8
  <2>2. PICK c : \E t \in GrantEach({named(c)}, a.defenseGrants) :
                   u = offered(t, offer(c)) \/ u \in declined(t)
    BY <1>2, <1>8
  <2>3. PICK t \in GrantEach({named(c)}, a.defenseGrants) :
               u = offered(t, offer(c)) \/ u \in declined(t)
    BY <2>2
  <2> QED BY <1>6, <2>1, <2>3
<1> QED BY <1>7, <1>8

LEMMA resolveDeferredReached ==
  ASSUME NEW b, NEW s, OnTheWay(b, s), IsStrike(Present(b), Back(s), s.pending),
         NEW a, IsAttack(Present(b), Back(s), a), a.deferred.kind # "NONE"
  PROVE  \A t \in resolveDeferredTargetedCardEffect(s, a) : Reached(b, t)
<1>1. IsStrike(Present(b), Back(s), a) /\ IsPlan(Present(b), Back(s), a)
  BY DEF IsAttack, IsStrike
<1>2. CASE a.deferred.kind = "DIRECT"
  <2> DEFINE T == resolveDirectInstructions(s, a.owner, a.target, a.deferred.card)
  <2>1. Effects(s, T)
    BY resolveDirectInstructionsEffect DEF OnTheWay, Running
  <2>2. resolveDeferredTargetedCardEffect(s, a) = {EndedOr(t, Complete(t, a)) : t \in T}
    BY <1>2 DEF resolveDeferredTargetedCardEffect
  <2> HIDE DEF T, Effects
  <2>3. \A t \in T : OnTheWay(b, t) /\ Back(t) = Back(s)
    BY <2>1, EffectsOnTheWay
  <2> QED BY <1>1, <2>2, <2>3, CompleteCalls, EndedOrReached DEF Reached
<1>3. CASE a.deferred.kind = "COUNTER"
  <2> DEFINE T == resolveCounterTargetedEffects(s, a.target, a.actor, a.deferred.cards, a.deferred.received)
             o == a.deferred.original
  <2>1. IsFiniteSet(a.deferred.cards) /\ IsStrike(Present(b), Back(s), o) /\ o.deferred.kind = "NONE"
    BY <1>3 DEF IsAttack, IsDeferred
  <2>2. Effects(s, T)
    BY <2>1, resolveCounterTargetedEffectsEffect DEF OnTheWay, Running
  <2>3. resolveDeferredTargetedCardEffect(s, a) = {Advance(t, o) : t \in T}
    BY <1>3 DEF resolveDeferredTargetedCardEffect
  <2> HIDE DEF T, o, Effects
  <2>4. \A t \in T : OnTheWay(b, t) /\ Back(t) = Back(s) /\ SameAction(s.pending, t.pending)
    BY <2>2, EffectsOnTheWay
  <2>5. \A t \in T : IsStrike(Present(b), Back(s), t.pending)
    BY <2>4, SameAttack DEF IsStrike
  <2>6. IsAttack(Present(b), Back(s), o)
    BY <2>1 DEF IsAttack, IsDeferred
  <2> QED BY <2>3, <2>4, <2>5, <2>6, AdvanceCalls DEF Reached
<1>4. CASE a.deferred.kind = "SELL"
  BY <1>1, <1>4, resolveSaleReached DEF resolveDeferredTargetedCardEffect
<1>5. CASE a.deferred.kind = "BUY"
  BY <1>1, <1>5, resolvePurchaseReached DEF resolveDeferredTargetedCardEffect
<1> QED BY <1>2, <1>3, <1>4, <1>5 DEF IsAttack, IsDeferred

LEMMA advanceAfterAttackStepReached ==
  ASSUME NEW b, NEW s, OnTheWay(b, s), IsStrike(Present(b), Back(s), s.pending),
         NEW a, IsAttack(Present(b), Back(s), a)
  PROVE  \A t \in advanceAfterAttackStep(s, a) : Reached(b, t)
<1>1. CASE a.deferred.kind # "NONE"
  BY <1>1, resolveDeferredReached DEF advanceAfterAttackStep
<1>2. CASE a.deferred.kind = "NONE"
  <2> DEFINE T == startAttackSeriesStep(s, a, a.index, a.number + 1)
  <2>1. advanceAfterAttackStep(s, a) = {IF Waiting(t) THEN t ELSE Complete(t, t.pending) : t \in T}
    BY <1>2 DEF advanceAfterAttackStep
  <2>2. IsPlan(Present(b), Back(s), a)
    BY DEF IsAttack, IsStrike
  <2>3. \A t \in T : Struck(b, s, t)
    BY <2>2, startAttackSeriesStepStruck DEF Strikable
  <2> HIDE DEF T
  <2>4. ASSUME NEW t \in T
        PROVE  IF Waiting(t) THEN Asking(b, t) ELSE Calling(b, Complete(t, t.pending))
    <3>1. CASE Waiting(t)
      BY <2>3, <3>1, NotWaiting DEF Struck
    <3>2. CASE ~Waiting(t)
      <4>1. OnTheWay(b, t) /\ t.post = s.post /\ t.phenomenon = s.phenomenon
        BY <2>3, <3>2, NotWaiting DEF Struck
      <4>2. IsPlan(Present(b), Back(t), t.pending)
        BY <2>3, <3>2, <4>1, NotWaiting, SamePlaceBack DEF Struck, IsAttack, IsStrike
      <4> QED BY <3>2, <4>1, <4>2, CompleteCalls
    <3> QED BY <3>1, <3>2
  <2> QED BY <2>1, <2>4 DEF Reached, Finished
<1> QED BY <1>1, <1>2
-----------------------------------------------------------------------------
(* Confusion and phenomena *)

LEMMA EndingEnds ==
  ASSUME NEW b, NEW s, Ending(b, s)
  PROVE  s.phase = "MATCH_ENDED" /\ s.then = Nothing
<1>1. PICK u : OnTheWay(b, u) /\ s = Ended(u, ResultOf(u))
  BY DEF Ending
<1> DEFINE r == ResultOf(u)
<1> HIDE DEF r
<1>2. s = Ended(u, r)
  BY <1>1 DEF r
<1> QED BY <1>1, <1>2 DEF Ended, OnTheWay, Running, IsState, Fields

(* After an effect the confusion still goes on.                              *)
LEMMA EffectsConfusing ==
  ASSUME NEW b, NEW s, OnTheWay(b, s), Confusing(s), NEW T, Effects(s, T)
  PROVE  \A t \in T : OnTheWay(b, t) /\ Confusing(t)
<1>1. \A t \in T : OnTheWay(b, t) /\ t.phenomenon = s.phenomenon /\ t.post = s.post
  <2> HIDE DEF Effects
  <2> QED BY EffectsOnTheWay
<1> QED BY <1>1, SamePlaceBack

(* An action that does not stop the confusion, unless the match ends by it.  *)
Onward(b, t) == (OnTheWay(b, t) /\ Confusing(t)) \/ Ending(b, t)

LEMMA DoneOrEndedOnward ==
  ASSUME NEW b, NEW s, OnTheWay(b, s), Confusing(s)
  PROVE  Onward(b, EndedOr(s, Done(s))) /\ Onward(b, Done(s))
BY DoneConfusing DEF EndedOr, Onward, Ending

LEMMA ConfusedDirectOnward ==
  ASSUME NEW b, NEW s, OnTheWay(b, s), Confusing(s), NEW p, NEW c
  PROVE  \A t \in ConfusedDirect(s, p, c) : Onward(b, t)
<1> DEFINE targets == IF directEffectTargetsEnemy(c.kind) THEN EnemiesOf(p, Alive(s)) ELSE {p}
           paid == commitAutomaticSource(s, p, c)
           used(q) == Grants(resolveDirectInstructions(paid, p, q, c.kind), p, 1)
<1>1. ConfusedDirect(s, p, c) \subseteq
        {Done(s)} \cup {EndedOr(t, Done(t)) : t \in UNION {used(q) : q \in targets}}
  BY DEF ConfusedDirect
<1>2. ASSUME NEW q
      PROVE  \A t \in used(q) : OnTheWay(b, t) /\ Confusing(t)
  <2>1. IsState(s) /\ Effect(s, paid)
    BY commitAutomaticSourceEffect DEF OnTheWay, Running
  <2> HIDE DEF paid
  <2>2. Effects(paid, resolveDirectInstructions(paid, p, q, c.kind)) /\ IsState(paid)
    BY <2>1, resolveDirectInstructionsEffect DEF Effect
  <2>3. Effects(paid, used(q))
    BY <2>2, GrantsEffect
  <2>4. Effects(s, used(q))
    BY <2>1, <2>3, EffectOnEffect DEF Effects
  <2> HIDE DEF used, Effects
  <2> QED BY <2>4, EffectsConfusing
<1> HIDE DEF targets, used
<1> QED BY <1>1, <1>2, DoneOrEndedOnward

LEMMA PlanIsPlan ==
  ASSUME NEW P, NEW B, NEW owner \in P, NEW target, NEW k, NEW power, NEW kind,
         NEW grants \in Nat, NEW completion \in B
  PROVE  IsPlan(P, B, Plan(owner, target, k, power, kind, grants, completion))
<1> DEFINE a == Plan(owner, target, k, power, kind, grants, completion)
<1>1. /\ {"defenseGrants", "revivals"} \subseteq DOMAIN a /\ a.owner = owner
      /\ Len(a.targets) = 1 /\ a.total = 1 /\ a.attackerGrants = grants
      /\ a.defenseGrants = NoGrants /\ a.revivals = NoGrants /\ a.completion = completion
  BY DEF Plan
<1> HIDE DEF a
<1>2. IsPlan(P, B, a)
  BY <1>1, NoGrantsCounted DEF IsPlan
<1> QED BY <1>2 DEF a

LEMMA ConfusedAttackReached ==
  ASSUME NEW b, NEW s, OnTheWay(b, s), Confusing(s), NEW p \in Present(b), NEW c
  PROVE  \A t \in ConfusedAttack(s, p, c) : Reached(b, t)
<1> DEFINE power == primaryAttackAmount(c.kind, s.mp[p])
           kind == IF c.kind.category = "MIRACLE" THEN "MIRACLE" ELSE "WEAPON"
           u == commitAutomaticSource(s, p, c)
           plan(q) == Plan(p, q, c.kind, power, kind, 1, "RESUME_PHENOMENON")
<1>1. \A t \in ConfusedAttack(s, p, c) :
        t = GoOnConfused(Done(u)) \/ \E q : t \in StartSeries(u, plan(q))
  BY DEF ConfusedAttack
<1>2. OnTheWay(b, u) /\ Confusing(u)
  <2>1. Effects(s, {u})
    BY commitAutomaticSourceEffect DEF OnTheWay, Running, Effects
  <2> HIDE DEF u, Effects
  <2> QED BY <2>1, EffectsConfusing
<1> HIDE DEF u
<1>3. Reached(b, GoOnConfused(Done(u)))
  BY <1>2, DoneConfusing, GoOnConfusedCalls DEF Reached
<1>4. \A q : IsPlan(Present(b), Back(u), plan(q))
  <2>1. "RESUME_PHENOMENON" \in Back(u)
    BY <1>2 DEF Back
  <2> QED BY <2>1, PlanIsPlan
<1> HIDE DEF plan
<1> QED BY <1>1, <1>2, <1>3, <1>4, StartSeriesReached

LEMMA ConfusedSlotReached ==
  ASSUME NEW b, NEW s, OnTheWay(b, s), Confusing(s), NEW p \in Present(b)
  PROVE  \A t \in ConfusedSlot(s, p) : Reached(b, t)
<1> DEFINE mine == s.hand[p] \cup s.learned[p]
           attacks == {c \in mine : CanAct(s, p, c, "ATTACK")}
           directs == {c \in mine : CanAct(s, p, c, "DIRECT")}
           thrown == {c \in s.hand[p] : Throwable(c)}
           prays == canPray(s, p)
           alone == EnemiesOf(p, Alive(s)) = {}
           throws(c) == [s EXCEPT !.hand[p] = @ \ {c}]
           byThrow == {Done(throws(c)) : c \in thrown}
           byCard == UNION {ConfusedDirect(s, p, c) : c \in directs}
           byPrayer == IF prays THEN {Done(t) : t \in resolveNormalGrant(s, p)} ELSE {}
           idly == IF \/ attacks = {} /\ directs = {} /\ thrown = {} /\ ~prays
                      \/ attacks # {} /\ alone
                   THEN {Done(s)} ELSE {}
           onward == byThrow \cup byCard \cup byPrayer \cup idly
<1>1. ConfusedSlot(s, p) \subseteq
        {IF t.phase = "MATCH_ENDED" THEN t ELSE GoOnConfused(t) : t \in onward}
        \cup UNION {ConfusedAttack(s, p, c) : c \in attacks}
  <2>1. ConfusedSlot(s, p) =
          {IF t.phase = "MATCH_ENDED" THEN t ELSE GoOnConfused(t) : t \in onward}
          \cup (IF alone THEN {} ELSE UNION {ConfusedAttack(s, p, c) : c \in attacks})
    BY DEF ConfusedSlot
  <2> HIDE DEF onward, alone, attacks
  <2> QED BY <2>1
<1>2. \A t \in onward : Onward(b, t)
  <2>1. \A c : Onward(b, Done(throws(c)))
    <3>1. \A c : Effects(s, {throws(c)})
      <4>1. \A x : Effect(s, [s EXCEPT !.hand[p] = @ \ x])
        BY FewerInHand DEF OnTheWay, Running
      <4>2. \A c : Effect(s, throws(c))
        BY <4>1
      <4> HIDE DEF throws
      <4> QED BY <4>2 DEF Effects
    <3> HIDE DEF throws, Effects
    <3>2. \A c : OnTheWay(b, throws(c)) /\ Confusing(throws(c))
      BY <3>1, EffectsConfusing
    <3> QED BY <3>2, DoneOrEndedOnward
  <2>2. \A t \in resolveNormalGrant(s, p) : Onward(b, Done(t))
    <3>1. Effects(s, resolveNormalGrant(s, p))
      BY resolveNormalGrantEffect DEF OnTheWay, Running
    <3> HIDE DEF Effects
    <3> QED BY <3>1, EffectsConfusing, DoneOrEndedOnward
  <2>3. \A t \in byCard : Onward(b, t)
    BY ConfusedDirectOnward
  <2>4. \A t \in byThrow : Onward(b, t)
    <3> HIDE DEF throws, thrown
    <3> QED BY <2>1
  <2>5. \A t \in byPrayer : Onward(b, t)
    <3> HIDE DEF prays
    <3> QED BY <2>2
  <2>6. \A t \in idly : Onward(b, t)
    <3> HIDE DEF attacks, directs, thrown, prays, alone
    <3> QED BY DoneOrEndedOnward
  <2> HIDE DEF byCard, byThrow, byPrayer, idly
  <2> QED BY <2>3, <2>4, <2>5, <2>6
<1> HIDE DEF onward
<1>3. \A t \in onward : Reached(b, IF t.phase = "MATCH_ENDED" THEN t ELSE GoOnConfused(t))
  <2> TAKE t \in onward
  <2>1. CASE OnTheWay(b, t) /\ Confusing(t)
    BY <2>1, GoOnConfusedCalls DEF OnTheWay, Idle, Reached
  <2>2. CASE Ending(b, t)
    BY <2>2, EndingEnds DEF Reached, Finished
  <2> QED BY <1>2, <2>1, <2>2 DEF Onward
<1> QED BY <1>1, <1>3, ConfusedAttackReached

LEMMA continueConfusionActionsReached ==
  ASSUME NEW b, NEW s, OnTheWay(b, s), Confusing(s)
  PROVE  \A t \in continueConfusionActions(s) : Reached(b, t)
<1> DEFINE ph == s.phenomenon
           over == [s EXCEPT !.phenomenon = NoPhenomenon]
           slot == ph.slots[ph.next]
<1>1. \A t \in continueConfusionActions(s) :
        \/ \E u \in Grants({over}, ph.source, ph.grants) : t = EndedOr(u, finishTurn(u, ph.source))
        \/ t = GoOnConfused(Done(s))
        \/ slot \in Alive(s) /\ t \in ConfusedSlot(CountGf(s), slot)
  BY ConfusingIsSomething DEF continueConfusionActions
<1>2. \A u \in Grants({over}, ph.source, ph.grants) : Reached(b, EndedOr(u, finishTurn(u, ph.source)))
  <2>1. OnTheWay(b, over)
    BY PhenomenonChange
  <2>2. ph.grants \in Nat
    BY DEF Confusing
  <2> HIDE DEF over, ph
  <2> QED BY <2>1, <2>2, GrantsOnTheWay, finishTurnCalls, EndedOrReached DEF Reached
<1>3. Reached(b, GoOnConfused(Done(s)))
  BY DoneConfusing, GoOnConfusedCalls DEF Reached
<1>4. slot \in Alive(s) => \A t \in ConfusedSlot(CountGf(s), slot) : Reached(b, t)
  <2>1. OnTheWay(b, CountGf(s)) /\ Confusing(CountGf(s))
    BY CountGfOnTheWay, SamePlaceBack
  <2>2. slot \in Alive(s) => slot \in Present(b)
    BY RunningPresent DEF OnTheWay
  <2> QED BY <2>1, <2>2, ConfusedSlotReached
<1> HIDE DEF over, slot
<1> QED BY <1>1, <1>2, <1>3, <1>4

LEMMA startConfusionActionsCalls ==
  ASSUME NEW b, NEW s, OnTheWay(b, s), NEW source, NEW grants \in Nat
  PROVE  Calling(b, startConfusionActions(s, source, grants))
<1> DEFINE slots == FlattenSeq([i \in 1..ConfusionRounds |-> InSeatOrder(Alive(s))])
           x == [source |-> source, grants |-> grants, next |-> 1, slots |-> slots]
           t == [s EXCEPT !.phenomenon = x]
<1>1. startConfusionActions(s, source, grants) = GoOnConfused(t)
  BY DEF startConfusionActions
<1> HIDE DEF slots
<1>2. DOMAIN x = {"source", "grants", "next", "slots"} /\ x.grants \in Nat
  OBVIOUS
<1> HIDE DEF x
<1>3. t.phenomenon = x /\ (Confusing(t) => OnTheWay(b, t))
  BY PhenomenonChange
<1> HIDE DEF t
<1>4. Confusing(t)
  BY <1>2, <1>3 DEF Confusing
<1> QED BY <1>1, <1>3, <1>4, GoOnConfusedCalls

LEMMA resolvePhenomenonReached ==
  ASSUME NEW b, NEW s, OnTheWay(b, s), NEW source \in Present(b), NEW sources \in Nat,
         NEW grants \in Nat
  PROVE  \A t \in resolvePhenomenon(s, source, sources, grants) : Reached(b, t)
<1> DEFINE plan(t, k, q) ==
             Plan(source, q, k, primaryAttackAmount(k, t.mp[source]), "PHENOMENON", sources, "FINISH_TURN")
           one(t, k) ==
             IF Has(k, "CONFUSE_EVERYBODY") THEN {startConfusionActions(t, source, sources)}
             ELSE IF primaryAttackAmount(k, t.mp[source]) # NoAttack
                  THEN UNION {StartSeries(t, plan(t, k, q)) : q \in Alive(t)}
             ELSE FinishAction(t, source, grants)
<1>1. resolvePhenomenon(s, source, sources, grants) =
        UNION {UNION {one(t, k) : t \in PhenomenonEffects(s, k)} : k \in s.deck.phenomena}
  BY DEF resolvePhenomenon
<1>2. ASSUME NEW k, NEW t \in PhenomenonEffects(s, k)
      PROVE  OnTheWay(b, t)
  <2>1. Effects(s, PhenomenonEffects(s, k))
    BY PhenomenonEffectsEffect DEF OnTheWay, Running
  <2> HIDE DEF Effects
  <2> QED BY <2>1, EffectsOnTheWay
<1>3. ASSUME NEW k, NEW t, OnTheWay(b, t)
      PROVE  \A u \in one(t, k) : Reached(b, u)
  <2>1. \A q : IsPlan(Present(b), Back(t), plan(t, k, q))
    <3>1. "FINISH_TURN" \in Back(t)
      BY DEF Back
    <3> QED BY <3>1, PlanIsPlan
  <2> HIDE DEF plan
  <2>2. \A q : \A u \in StartSeries(t, plan(t, k, q)) : Reached(b, u)
    BY <1>3, <2>1, StartSeriesReached
  <2>3. Reached(b, startConfusionActions(t, source, sources))
    BY <1>3, startConfusionActionsCalls DEF Reached
  <2>4. \A u \in FinishAction(t, source, grants) : Reached(b, u)
    BY <1>3, FinishActionReached
  <2> QED BY <2>2, <2>3, <2>4
<1> HIDE DEF one
<1> QED BY <1>1, <1>2, <1>3
-----------------------------------------------------------------------------
(* Guardians, and the calls of a command *)

LEMMA executeGuardianActionGoesOn ==
  ASSUME NEW b, NEW s, OnTheWay(b, s), Closing(s), NEW p \in Present(b), NEW actor, NEW k
  PROVE  \A t \in executeGuardianAction(s, p, actor, k) :
           Asking(b, t) \/ (OnTheWay(b, t) /\ Closing(t))
<1> DEFINE power == primaryAttackAmount(k, s.mp[p])
           kind == IF Has(k, "CATEGORY_WEAPON") THEN "WEAPON" ELSE "GUARDIAN"
           plan == Plan(p, actor, k, power, kind, 0, "RESUME_POST_TURN")
           receivers == CASE k.id = "venus-1" -> Players
                          [] k.id = "venus-2" -> {actor}
                          [] OTHER -> {p}
           deed == GuardianDeed(s, p, actor, k, receivers)
<1>1. executeGuardianAction(s, p, actor, k) =
        IF power # NoAttack
        THEN IF actor \notin Alive(s) THEN {s} ELSE StartSeriesOnly(s, plan)
        ELSE deed
  BY DEF executeGuardianAction, GuardianDeed
<1>2. Effects(s, deed)
  <2>1. IsState(s)
    BY DEF OnTheWay, Running
  <2> HIDE DEF receivers
  <2> QED BY <2>1, GuardianDeedEffect
<1> HIDE DEF deed
<1>3. \A t \in deed : OnTheWay(b, t) /\ Closing(t)
  <2>1. \A t \in deed : OnTheWay(b, t) /\ t.post = s.post /\ t.phenomenon = s.phenomenon
    <3> HIDE DEF Effects
    <3> QED BY <1>2, EffectsOnTheWay
  <2> QED BY <2>1, SamePlaceBack
<1>4. \A t \in StartSeriesOnly(s, plan) : Asking(b, t) \/ (OnTheWay(b, t) /\ Closing(t))
  <2>1. "RESUME_POST_TURN" \in Back(s)
    BY DEF Back
  <2>2. IsPlan(Present(b), Back(s), plan)
    BY <2>1, PlanIsPlan
  <2> HIDE DEF plan
  <2> QED BY <2>2, StartSeriesOnlyStruck, SamePlaceBack
<1> QED BY <1>1, <1>3, <1>4

LEMMA CheckedClosing ==
  ASSUME NEW b, NEW s, OnTheWay(b, s), Closing(s)
  PROVE  LET t == [s EXCEPT !.post.next = @ + 1]
         IN OnTheWay(b, t) /\ Closing(t) /\ t.guardian = s.guardian /\ t.alive = s.alive
<1> DEFINE x == [s.post EXCEPT !.next = @ + 1]
           t == [s EXCEPT !.post = x]
<1>1. DOMAIN x = {"actor", "guardians", "next"}
  BY DEF Closing
<1>2. [s EXCEPT !.post.next = @ + 1] = t
  OBVIOUS
<1> HIDE DEF x
<1>3. /\ DOMAIN t = Fields /\ t.pending = s.pending /\ t.phase = s.phase /\ t.gf = s.gf
      /\ t.endTime = s.endTime /\ t.endTimeActive = s.endTimeActive /\ t.order = s.order
      /\ t.cursor = s.cursor /\ t.alive = s.alive /\ t.hand = s.hand /\ t.learned = s.learned /\ t.guardian = s.guardian
      /\ t.post = x /\ t.phenomenon = s.phenomenon /\ t.then = s.then /\ t.guardian = s.guardian
      /\ t.defeated = s.defeated /\ t.result = s.result /\ t.deck = s.deck
  BY DEF OnTheWay, Running, IsState, Fields
<1> HIDE DEF t
<1>4. IsState(t) /\ Closing(t)
  BY <1>1, <1>3 DEF OnTheWay, Running, IsState, Closing
<1>5. OnTheWay(b, t)
  BY <1>3, <1>4 DEF OnTheWay, Running, Confusing, Alive
<1> QED BY <1>2, <1>3, <1>4, <1>5

LEMMA continuePostTurnReached ==
  ASSUME NEW b, NEW s, OnTheWay(b, s), Closing(s)
  PROVE  \A t \in continuePostTurnAutomaticEffects(s) : Reached(b, t)
<1> DEFINE post == s.post
           p == post.guardians[post.next]
           checked == [s EXCEPT !.post.next = @ + 1]
           deeds == {k \in Catalog : k.category = "GUARDIAN_ACTION" /\ k.god = s.guardian[p]}
<1>1. \A t \in continuePostTurnAutomaticEffects(s) :
        \/ \E u \in resolveTurnEndDisease(s, post.actor) : t = openNextTurnOrEnd(u)
        \/ t = CloseTurn(checked)
        \/ /\ p \in Alive(s)
           /\ \E k : \E u \in executeGuardianAction(checked, p, post.actor, k) :
                t = IF Waiting(u) THEN u ELSE CloseTurn(u)
  <2>1. continuePostTurnAutomaticEffects(s) =
          IF post = NoPostTurn THEN {s}
          ELSE IF post.next > Len(post.guardians)
               THEN {openNextTurnOrEnd(t) : t \in resolveTurnEndDisease(s, post.actor)}
          ELSE IF p \notin Alive(s) \/ s.guardian[p] = NoGuardian
               THEN {CloseTurn(checked)}
          ELSE {CloseTurn(checked)}
               \cup {IF Waiting(t) THEN t ELSE CloseTurn(t)
                       : t \in UNION {executeGuardianAction(checked, p, post.actor, k) : k \in deeds}}
    BY DEF continuePostTurnAutomaticEffects
  <2>2. post # NoPostTurn
    BY ClosingIsSomething
  <2> HIDE DEF p, post, checked, deeds
  <2> QED BY <2>1, <2>2
<1>2. \A u \in resolveTurnEndDisease(s, post.actor) : Reached(b, openNextTurnOrEnd(u))
  <2>1. Effects(s, resolveTurnEndDisease(s, post.actor))
    BY resolveTurnEndDiseaseEffect DEF OnTheWay, Running
  <2> HIDE DEF Effects
  <2> QED BY <2>1, EffectsOnTheWay, NextTurn DEF Reached
<1>3. OnTheWay(b, checked) /\ Closing(checked)
  BY CheckedClosing
<1> HIDE DEF checked
<1>4. Reached(b, CloseTurn(checked))
  BY <1>3, CloseTurnCalls DEF Reached
<1>5. p \in Alive(s) =>
        \A k : \A u \in executeGuardianAction(checked, p, post.actor, k) :
          Reached(b, IF Waiting(u) THEN u ELSE CloseTurn(u))
  <2>1. p \in Alive(s) => p \in Present(b)
    BY RunningPresent DEF OnTheWay
  <2> HIDE DEF p, post
  <2>2. p \in Alive(s) =>
          \A k : \A u \in executeGuardianAction(checked, p, post.actor, k) :
            Asking(b, u) \/ (OnTheWay(b, u) /\ Closing(u))
    BY <1>3, <2>1, executeGuardianActionGoesOn
  <2> QED BY <2>2, NotWaiting, CloseTurnCalls DEF Reached, Finished
<1> HIDE DEF p, post
<1> QED BY <1>1, <1>2, <1>4, <1>5

(* A call that was left to be made finds what it needs, and is followed by    *)
(* another one or the end of the command.                                    *)
LEMMA CalledReached ==
  ASSUME NEW b, NEW s, Calling(b, s)
  PROVE  \A t \in Called(s) : Reached(b, t)
<1> DEFINE t == [s EXCEPT !.then = Nothing]
<1>1. /\ OnTheWay(b, t) /\ t.pending = s.pending /\ Back(t) = Back(s)
      /\ t.post = s.post /\ t.phenomenon = s.phenomenon
  <2> DEFINE c == Nothing
             u == [s EXCEPT !.then = c]
  <2> HIDE DEF c
  <2>1. /\ Running(b, u) /\ u.then = c /\ u.phase = s.phase /\ u.pending = s.pending
        /\ u.post = s.post /\ u.phenomenon = s.phenomenon /\ Back(u) = Back(s)
    BY ThenChange DEF Calling
  <2> HIDE DEF u
  <2>2. OnTheWay(b, u)
    BY <2>1 DEF OnTheWay, Calling, c
  <2> QED BY <2>1, <2>2 DEF u, c
<1>2. (Closing(s) <=> Closing(t)) /\ (Confusing(s) <=> Confusing(t))
  BY <1>1, SamePlaceBack
<1>3. /\ s.then.call = "advanceAfterAttackStep" => Called(s) = advanceAfterAttackStep(t, s.then.attack)
      /\ s.then.call = "completeAttack" => Called(s) = completeAttack(t, s.then.attack)
      /\ s.then.call = "continueConfusionActions" => Called(s) = continueConfusionActions(t)
      /\ s.then.call = "continuePostTurnAutomaticEffects" =>
           Called(s) = continuePostTurnAutomaticEffects(t)
  BY DEF Called
<1> HIDE DEF t
<1>4. CASE s.then.call = "continuePostTurnAutomaticEffects" /\ Closing(s)
  BY <1>1, <1>2, <1>3, <1>4, continuePostTurnReached
<1>5. CASE s.then.call = "continueConfusionActions" /\ Confusing(s)
  BY <1>1, <1>2, <1>3, <1>5, continueConfusionActionsReached
<1>6. CASE /\ s.then.call = "advanceAfterAttackStep"
           /\ IsAttack(Present(b), Back(s), s.then.attack)
           /\ IsStrike(Present(b), Back(s), s.pending)
  BY <1>1, <1>3, <1>6, advanceAfterAttackStepReached
<1>7. CASE s.then.call = "completeAttack" /\ IsPlan(Present(b), Back(s), s.then.attack)
  BY <1>1, <1>3, <1>7, completeAttackReached
<1> QED BY <1>4, <1>5, <1>6, <1>7 DEF Calling, IsCall

LEMMA NothingLeft ==
  ASSUME NEW b, NEW s
  PROVE  /\ Calling(b, s) => s.then # Nothing
         /\ Finished(b, s) => s.then = Nothing
<1>1. Nothing.call = "NOTHING"
  BY DEF Nothing
<1>2. Calling(b, s) => s.then # Nothing
  BY <1>1 DEF Calling, IsCall
<1>3. ASSUME Opening(b, s)
      PROVE  s.then = Nothing
  <2>1. PICK u : OnTheWay(b, u) /\ ResultOf(u) = NoResult /\ s = openNextTurnOrEnd(u)
    BY <1>3 DEF Opening
  <2> DEFINE next == NextAlive(u.order, u.cursor, Alive(u))
             cursor == CHOOSE i \in DOMAIN u.order : u.order[i] = next
             w == CountGf(u)
  <2>2. s = [w EXCEPT !.phase = "ACTION_SELECTION", !.active = next, !.cursor = cursor,
                      !.pending = NoAction, !.post = NoPostTurn, !.defeated = {}]
    BY <2>1 DEF openNextTurnOrEnd
  <2> HIDE DEF next, cursor, w
  <2>3. DOMAIN w = Fields /\ w.then = Nothing
    BY <2>1, CountGfOnTheWay DEF OnTheWay, Running, IsState, w
  <2> QED BY <2>2, <2>3 DEF Fields
<1> QED BY <1>2, <1>3, EndingEnds DEF Finished, Asking, Offering, Throwing

(* A command is over after as many calls as it takes.                        *)
CallsStep(s, i, T) == UNION {IF t.then = Nothing THEN {t} ELSE Called(t) : t \in T}
IsCalls(f, s, m) == f = [i \in 0..m |-> IF i = 0 THEN {s} ELSE CallsStep(s, i, f[i - 1])]

LEMMA CallsExists ==
  ASSUME NEW s, NEW m \in Nat
  PROVE  \E f : IsCalls(f, s, m)
<1> DEFINE N == {n \in 0..m : \E f : IsCalls(f, s, n)}
<1>1. 0 \in N
  <2> DEFINE f == [i \in 0..0 |-> {s}]
  <2>1. IsCalls(f, s, 0)
    BY DEF IsCalls
  <2> QED BY <2>1
<1>2. ASSUME NEW n \in N, n < m
      PROVE  n + 1 \in N
  <2>1. PICK f : IsCalls(f, s, n)
    OBVIOUS
  <2> DEFINE x == CallsStep(s, n + 1, f[n])
             g == [i \in 0..(n + 1) |-> IF i = n + 1 THEN x ELSE f[i]]
  <2> HIDE DEF x
  <2>2. \A i \in 0..(n + 1) :
          g[i] = IF i = 0 THEN {s} ELSE CallsStep(s, i, g[i - 1])
    <3> SUFFICES ASSUME NEW i \in 0..(n + 1)
                 PROVE  g[i] = IF i = 0 THEN {s} ELSE CallsStep(s, i, g[i - 1])
      OBVIOUS
    <3>1. CASE i = n + 1
      <4>1. g[i] = x /\ g[i - 1] = f[n] /\ i # 0
        BY <3>1
      <4> QED BY <3>1, <4>1 DEF x
    <3>2. CASE i # n + 1
      <4>1. i \in 0..n /\ g[i] = f[i]
        BY <3>2
      <4>2. i # 0 => g[i - 1] = f[i - 1]
        BY <4>1
      <4> QED BY <2>1, <4>1, <4>2 DEF IsCalls
    <3> QED BY <3>1, <3>2
  <2>3. IsCalls(g, s, n + 1)
    BY <2>2 DEF IsCalls
  <2> HIDE DEF g
  <2> QED BY <1>2, <2>3
<1> HIDE DEF N
<1>3. N = 0..m
  <2>1. N \in SUBSET (0..m)
    BY DEF N
  <2> QED BY <1>1, <1>2, <2>1, Induction
<1> QED BY <1>3 DEF N

LEMMA ResolvedReached ==
  ASSUME NEW b, NEW s, Reached(b, s)
  PROVE  \A t \in Resolved(s) : Reached(b, t)
<1> DEFINE after == CHOOSE f : IsCalls(f, s, MaxCalls)
<1>1. MaxCalls \in Nat
  BY BoundsAssumption
<1>2. Resolved(s) = after[MaxCalls]
  BY DEF Resolved, IsCalls, CallsStep
<1>3. IsCalls(after, s, MaxCalls)
  BY <1>1, CallsExists
<1> HIDE DEF after
<1>4. ASSUME NEW T, \A t \in T : Reached(b, t), NEW i
      PROVE  \A t \in CallsStep(s, i, T) : Reached(b, t)
  <2>1. \A t \in T : t.then # Nothing => \A u \in Called(t) : Reached(b, u)
    BY <1>4, NothingLeft, CalledReached DEF Reached
  <2> QED BY <1>4, <2>1 DEF CallsStep
<1> DEFINE N == {i \in 0..MaxCalls : \A t \in after[i] : Reached(b, t)}
<1>5. 0 \in N
  <2>1. after[0] = {s}
    BY <1>1, <1>3 DEF IsCalls
  <2> QED BY <1>1, <2>1
<1>6. ASSUME NEW i \in N, i < MaxCalls
      PROVE  i + 1 \in N
  <2>1. i + 1 \in 0..MaxCalls /\ i + 1 # 0 /\ (i + 1) - 1 = i
    BY <1>1, <1>6
  <2>2. after[i + 1] = CallsStep(s, i + 1, after[i])
    BY <1>3, <2>1 DEF IsCalls
  <2> QED BY <1>4, <2>1, <2>2
<1>7. N = 0..MaxCalls
  <2>1. N \in SUBSET (0..MaxCalls)
    OBVIOUS
  <2> HIDE DEF N
  <2> QED BY <1>1, <1>5, <1>6, <2>1, Induction
<1> QED BY <1>1, <1>2, <1>7

(* Closing a turn calls only what closes it.                                 *)
ClosesStep(s, i, T) ==
  UNION {IF t.then.call # "continuePostTurnAutomaticEffects" THEN {t}
         ELSE continuePostTurnAutomaticEffects([t EXCEPT !.then = Nothing]) : t \in T}
IsClosing(f, s, m) == f = [i \in 0..m |-> IF i = 0 THEN {s} ELSE ClosesStep(s, i, f[i - 1])]

LEMMA ClosingExists ==
  ASSUME NEW s, NEW m \in Nat
  PROVE  \E f : IsClosing(f, s, m)
<1> DEFINE N == {n \in 0..m : \E f : IsClosing(f, s, n)}
<1>1. 0 \in N
  <2> DEFINE f == [i \in 0..0 |-> {s}]
  <2>1. IsClosing(f, s, 0)
    BY DEF IsClosing
  <2> QED BY <2>1
<1>2. ASSUME NEW n \in N, n < m
      PROVE  n + 1 \in N
  <2>1. PICK f : IsClosing(f, s, n)
    OBVIOUS
  <2> DEFINE x == ClosesStep(s, n + 1, f[n])
             g == [i \in 0..(n + 1) |-> IF i = n + 1 THEN x ELSE f[i]]
  <2> HIDE DEF x
  <2>2. \A i \in 0..(n + 1) :
          g[i] = IF i = 0 THEN {s} ELSE ClosesStep(s, i, g[i - 1])
    <3> SUFFICES ASSUME NEW i \in 0..(n + 1)
                 PROVE  g[i] = IF i = 0 THEN {s} ELSE ClosesStep(s, i, g[i - 1])
      OBVIOUS
    <3>1. CASE i = n + 1
      <4>1. g[i] = x /\ g[i - 1] = f[n] /\ i # 0
        BY <3>1
      <4> QED BY <3>1, <4>1 DEF x
    <3>2. CASE i # n + 1
      <4>1. i \in 0..n /\ g[i] = f[i]
        BY <3>2
      <4>2. i # 0 => g[i - 1] = f[i - 1]
        BY <4>1
      <4> QED BY <2>1, <4>1, <4>2 DEF IsClosing
    <3> QED BY <3>1, <3>2
  <2>3. IsClosing(g, s, n + 1)
    BY <2>2 DEF IsClosing
  <2> HIDE DEF g
  <2> QED BY <1>2, <2>3
<1> HIDE DEF N
<1>3. N = 0..m
  <2>1. N \in SUBSET (0..m)
    BY DEF N
  <2> QED BY <1>1, <1>2, <2>1, Induction
<1> QED BY <1>3 DEF N

LEMMA TurnClosedReached ==
  ASSUME NEW b, NEW s, Reached(b, s)
  PROVE  \A t \in TurnClosed(s) : Reached(b, t)
<1> DEFINE after == CHOOSE f : IsClosing(f, s, MaxCalls)
<1>1. MaxCalls \in Nat
  BY BoundsAssumption
<1>2. TurnClosed(s) = after[MaxCalls]
  BY DEF TurnClosed, IsClosing, ClosesStep
<1>3. IsClosing(after, s, MaxCalls)
  BY <1>1, ClosingExists
<1> HIDE DEF after
<1>4. ASSUME NEW T, \A t \in T : Reached(b, t), NEW i
      PROVE  \A t \in ClosesStep(s, i, T) : Reached(b, t)
  <2>1. ASSUME NEW t \in T, t.then.call = "continuePostTurnAutomaticEffects"
        PROVE  \A u \in continuePostTurnAutomaticEffects([t EXCEPT !.then = Nothing]) : Reached(b, u)
    <3>1. t.then # Nothing
      BY <2>1 DEF Nothing
    <3>2. \A u \in Called(t) : Reached(b, u)
      BY <1>4, <3>1, NothingLeft, CalledReached DEF Reached
    <3>3. Called(t) = continuePostTurnAutomaticEffects([t EXCEPT !.then = Nothing])
      BY <2>1 DEF Called
    <3> QED BY <3>2, <3>3
  <2> QED BY <1>4, <2>1 DEF ClosesStep
<1> DEFINE N == {i \in 0..MaxCalls : \A t \in after[i] : Reached(b, t)}
<1>5. 0 \in N
  <2>1. after[0] = {s}
    BY <1>1, <1>3 DEF IsClosing
  <2> QED BY <1>1, <2>1
<1>6. ASSUME NEW i \in N, i < MaxCalls
      PROVE  i + 1 \in N
  <2>1. i + 1 \in 0..MaxCalls /\ i + 1 # 0 /\ (i + 1) - 1 = i
    BY <1>1, <1>6
  <2>2. after[i + 1] = ClosesStep(s, i + 1, after[i])
    BY <1>3, <2>1 DEF IsClosing
  <2> QED BY <1>4, <2>1, <2>2
<1>7. N = 0..MaxCalls
  <2>1. N \in SUBSET (0..MaxCalls)
    OBVIOUS
  <2> HIDE DEF N
  <2> QED BY <1>1, <1>5, <1>6, <2>1, Induction
<1> QED BY <1>1, <1>2, <1>7
-----------------------------------------------------------------------------
(* Commands *)

(* Nothing is left to be called, and the match goes on.                      *)
AtRest(s) == Running(s, s) /\ s.then = Nothing

LEMMA DeclaredOnTheWay ==
  ASSUME NEW b, NEW s, Running(b, s), s.then = Nothing
  PROVE  LET t == Declared(s)
         IN /\ OnTheWay(b, t) /\ IsState(t) /\ t.pending = s.pending /\ t.alive = s.alive
            /\ t.post = s.post /\ t.phenomenon = s.phenomenon /\ Back(t) = Back(s)
            /\ t.defeated = s.defeated /\ t.hand = s.hand /\ t.learned = s.learned /\ t.guardian = s.guardian
<1> DEFINE t == Declared(s)
<1>1. /\ DOMAIN t = Fields /\ t.pending = s.pending /\ t.phase = "RESOLVING" /\ t.gf = s.gf
      /\ t.endTime = s.endTime /\ t.endTimeActive = s.endTimeActive /\ t.order = s.order
      /\ t.cursor = s.cursor /\ t.alive = s.alive /\ t.hand = s.hand /\ t.learned = s.learned /\ t.guardian = s.guardian
      /\ t.post = s.post /\ t.phenomenon = s.phenomenon /\ t.then = s.then
      /\ t.defeated = s.defeated /\ t.result = s.result /\ t.deck = s.deck
  BY DEF Running, IsState, Fields, Declared
<1> HIDE DEF t
<1>2. IsState(t)
  BY <1>1 DEF Running, IsState
<1>3. OnTheWay(b, t)
  BY <1>1, <1>2 DEF OnTheWay, Running, Closing, Confusing, Alive, Idle
<1>4. Back(t) = Back(s)
  BY <1>1, SamePlaceBack
<1> QED BY <1>1, <1>2, <1>3, <1>4 DEF t

LEMMA EffectsOfCommand ==
  ASSUME NEW b, NEW s, OnTheWay(b, s), NEW T, Effects(s, T), NEW p
  PROVE  \A t \in T : Reached(b, finishTurn(t, p))
<1> HIDE DEF Effects
<1> QED BY EffectsOnTheWay, finishTurnCalls DEF Reached

LEMMA handlePrayReached ==
  ASSUME NEW s, AtRest(s), NEW p
  PROVE  \A t \in handlePray(s, p) : Reached(s, t)
<1>1. OnTheWay(s, Declared(s)) /\ IsState(Declared(s))
  BY DeclaredOnTheWay DEF AtRest
<1>2. Effects(Declared(s), resolveNormalGrant(Declared(s), p))
  BY <1>1, resolveNormalGrantEffect
<1> QED BY <1>1, <1>2, EffectsOfCommand DEF handlePray

LEMMA handleSurrenderReached ==
  ASSUME NEW s, AtRest(s), NEW p \in Alive(s)
  PROVE  \A t \in handleSurrender(s, p) : Reached(s, t)
<1> DEFINE u == Declared(s)
           t == [u EXCEPT !.alive[p] = FALSE, !.defeated = @ \cup {p}]
<1>1. OnTheWay(s, u) /\ IsState(u) /\ p \in Alive(u)
  BY DeclaredOnTheWay DEF AtRest, Alive
<1> HIDE DEF u
<1>2. Effect(u, t)
  BY <1>1 DEF IsState, Effect, Kept, Fields, Alive, SameAction
<1>3. Effects(u, {t})
  BY <1>2 DEF Effects
<1>4. handleSurrender(s, p) = {finishTurn(t, p)}
  BY DEF handleSurrender, u
<1> QED BY <1>1, <1>3, <1>4, EffectsOfCommand

LEMMA handleDiscardReached ==
  ASSUME NEW s, AtRest(s), NEW p \in Players, NEW cards, cards \subseteq s.hand[p]
  PROVE  \A t \in handleDiscard(s, p, cards) : Reached(s, t)
<1> DEFINE u == Declared(s)
           t == [u EXCEPT !.hand[p] = @ \ cards]
           repaid == IF s.endTimeActive THEN Cardinality(cards) ELSE 0
<1>1. OnTheWay(s, u) /\ IsState(u)
  BY DeclaredOnTheWay DEF AtRest
<1>2. repaid \in Nat
  <2>1. IsFiniteSet(cards)
    BY HandsOf, FS_Subset DEF AtRest, Running
  <2> QED BY <2>1, FS_CardinalityType
<1>3. handleDiscard(s, p, cards) = {finishTurn(v, p) : v \in Grants({t}, p, repaid)}
  BY DEF handleDiscard
<1> HIDE DEF u, repaid
<1>4. Effect(u, t)
  BY <1>1, FewerInHand
<1> HIDE DEF t
<1>5. Effects(u, Grants({t}, p, repaid))
  <2>1. Effects(u, {t})
    BY <1>4 DEF Effects
  <2> QED BY <1>1, <1>2, <2>1, GrantsEffect
<1> QED BY <1>1, <1>3, <1>5, EffectsOfCommand

LEMMA ConsumedOnTheWay ==
  ASSUME NEW s, AtRest(s), NEW p, NEW c
  PROVE  LET t == Consumed(s, p, c)
         IN OnTheWay(s, t) /\ IsState(t) /\ Alive(t) = Alive(s) /\ Back(t) = Back(s)
<1> DEFINE u == Declared(s)
           t == [u EXCEPT !.hand[p] = @ \ {c}]
<1>1. OnTheWay(s, u) /\ IsState(u) /\ u.alive = s.alive /\ Back(u) = Back(s)
  BY DeclaredOnTheWay DEF AtRest
<1>2. Consumed(s, p, c) = t
  BY DEF Consumed
<1> HIDE DEF u
<1>3. Effect(u, t)
  BY <1>1, FewerInHand
<1>4. t.alive = u.alive
  BY <1>1 DEF IsState, Fields
<1> HIDE DEF t
<1>5. OnTheWay(s, t) /\ Back(t) = Back(s)
  BY <1>1, <1>3, EffectOnTheWay
<1> QED BY <1>1, <1>2, <1>3, <1>4, <1>5 DEF Effect, Alive

LEMMA handleExchangeResourcesReached ==
  ASSUME NEW s, AtRest(s), NEW p \in Alive(s), NEW c, NEW hp, NEW mp, NEW money
  PROVE  \A t \in handleExchangeResources(s, p, c, hp, mp, money) : Reached(s, t)
<1> DEFINE u == Consumed(s, p, c)
           x == [u.hp EXCEPT ![p] = hp]
           y == [u.mp EXCEPT ![p] = mp]
           z == [u.money EXCEPT ![p] = money]
           t == [u EXCEPT !.hp = x, !.mp = y, !.money = z]
           loss == Most(0, s.hp[p] - hp)
<1>1. OnTheWay(s, u) /\ IsState(u)
  BY ConsumedOnTheWay
<1>2. [u EXCEPT !.hp[p] = hp, !.mp[p] = mp, !.money[p] = money] = t
  OBVIOUS
<1>3. handleExchangeResources(s, p, c, hp, mp, money) = finishTradeAction(t, p, loss)
  BY <1>2 DEF handleExchangeResources
<1> HIDE DEF u, x, y, z, loss
<1>4. Effect(u, t)
  BY <1>1, ResourcesChange
<1> HIDE DEF t
<1>5. OnTheWay(s, t)
  BY <1>1, <1>4, EffectOnTheWay
<1> QED BY <1>3, <1>5, finishTradeActionReached DEF Present

(* A card that is declared and asks its target.                              *)
LEMMA DeclaredAsks ==
  ASSUME NEW b, NEW s, OnTheWay(b, s), NEW p \in Alive(s), NEW q \in Alive(s), q # p,
         NEW sources, NEW grants \in Nat, NEW d, d.kind \in {"DIRECT", "SELL", "BUY"}
  PROVE  \A t \in startTargetedCardReaction(s, FreshAttack(p, q, sources, grants), d) : Reached(b, t)
<1> DEFINE a == FreshAttack(p, q, sources, grants)
<1>1. p \in Present(b) /\ q \in Present(b)
  BY RunningPresent DEF OnTheWay
<1>2. IsStrike(Present(b), {"FINISH_TURN"}, a)
  BY <1>1, FreshAttackIsStrike
<1>3. a.target = q /\ a.actor = p
  BY DEF FreshAttack
<1> HIDE DEF a
<1>4. IsDeferred(Present(b), Back(s), d)
  BY DEF IsDeferred
<1>5. \A t \in startTargetedCardReaction(s, a, d) : Asking(b, t)
  BY <1>2, <1>3, <1>4, startTargetedCardReactionAsks
<1> QED BY <1>5 DEF Reached, Finished, a

LEMMA handleSellCardReached ==
  ASSUME NEW s, AtRest(s), NEW p \in Alive(s), NEW c, NEW product, NEW q, isEnemy(s, p, q)
  PROVE  \A t \in handleSellCard(s, p, c, product, q) : Reached(s, t)
<1> DEFINE u == Consumed(s, p, c)
           d == [kind |-> "SELL", card |-> product, price |-> Price(product)]
<1>1. OnTheWay(s, u) /\ Alive(u) = Alive(s)
  BY ConsumedOnTheWay
<1>2. q \in Alive(s) /\ q # p
  BY DEF isEnemy, EnemiesOf, areOpponents
<1>3. handleSellCard(s, p, c, product, q) = startTargetedCardReaction(u, FreshAttack(p, q, {c.kind}, 1), d)
  BY DEF handleSellCard
<1>4. d.kind \in {"DIRECT", "SELL", "BUY"}
  OBVIOUS
<1> HIDE DEF u, d
<1> QED BY <1>1, <1>2, <1>3, <1>4, DeclaredAsks

LEMMA handleDeclareBuyReached ==
  ASSUME NEW s, AtRest(s), NEW p \in Alive(s), NEW c, NEW q, isEnemy(s, p, q)
  PROVE  \A t \in handleDeclareBuy(s, p, c, q) : Reached(s, t)
<1> DEFINE u == Consumed(s, p, c)
           d == [kind |-> "BUY"]
<1>1. OnTheWay(s, u) /\ Alive(u) = Alive(s)
  BY ConsumedOnTheWay
<1>2. q \in Alive(s) /\ q # p
  BY DEF isEnemy, EnemiesOf, areOpponents
<1>3. handleDeclareBuy(s, p, c, q) = startTargetedCardReaction(u, FreshAttack(p, q, {c.kind}, 1), d)
  BY DEF handleDeclareBuy
<1>4. d.kind \in {"DIRECT", "SELL", "BUY"}
  OBVIOUS
<1> HIDE DEF u, d
<1> QED BY <1>1, <1>2, <1>3, <1>4, DeclaredAsks

(* The buyer answers.                                                        *)
LEMMA handleConfirmBuyReached ==
  ASSUME NEW s, AtRest(s), NEW p \in Alive(s), NEW accept
  PROVE  \A t \in handleConfirmBuy(s, p, accept) : Reached(s, t)
<1> DEFINE closed(t) == [Declared(t) EXCEPT !.pending = NoAction]
           seller == s.pending.seller
           paid == Paid(s, p, seller, s.pending.price)
           bought == transferTradeCard(paid, seller, p, s.pending.offered)
           loss == s.hp[p] - paid.hp[p]
<1>1. \A t \in handleConfirmBuy(s, p, accept) :
        \/ \E u \in bought : t \in finishTradeAction(closed(u), p, loss)
        \/ \E u \in resolveNormalGrant(closed(s), p) : t = finishTurn(u, p)
  BY DEF handleConfirmBuy
<1>2. IsState(s) /\ Running(s, s) /\ s.then = Nothing
  BY DEF AtRest, Running
<1>3. Effects(s, bought)
  <2>1. Effect(s, paid) /\ IsState(paid)
    BY <1>2, PaidEffect DEF Effect
  <2> HIDE DEF paid
  <2> QED BY <1>2, <2>1, transferTradeCardEffect, EffectOnEffect DEF Effects
<1> HIDE DEF bought, loss
<1>4. ASSUME NEW u, Running(s, u), u.then = Nothing
      PROVE  OnTheWay(s, closed(u))
  <2> DEFINE v == Declared(u)
  <2>1. OnTheWay(s, v)
    BY <1>4, DeclaredOnTheWay
  <2> HIDE DEF v
  <2>2. OnTheWay(s, [v EXCEPT !.pending = NoAction])
    BY <2>1, NothingPending, PendingChange
  <2> QED BY <2>2 DEF v
<1>5. \A u \in bought : OnTheWay(s, closed(u))
  <2>1. \A u \in bought : Effect(s, u)
    BY <1>3 DEF Effects
  <2>2. \A u \in bought : Running(s, u) /\ u.then = Nothing
    BY <1>2, <2>1, RunningEffect
  <2> HIDE DEF closed
  <2> QED BY <1>4, <2>2
<1>6. OnTheWay(s, closed(s))
  BY <1>2, <1>4
<1> HIDE DEF closed
<1>7. \A u \in bought : \A t \in finishTradeAction(closed(u), p, loss) : Reached(s, t)
  BY <1>5, finishTradeActionReached DEF Present
<1>8. \A u \in resolveNormalGrant(closed(s), p) : Reached(s, finishTurn(u, p))
  <2>1. Effects(closed(s), resolveNormalGrant(closed(s), p))
    BY <1>6, resolveNormalGrantEffect DEF OnTheWay, Running
  <2> QED BY <1>6, <2>1, EffectsOfCommand
<1> QED BY <1>1, <1>7, <1>8
-----------------------------------------------------------------------------
(* Cards declared: used directly, to attack, or to react *)

LEMMA SelectedFinite ==
  ASSUME NEW s, AtRest(s), NEW p \in Players, NEW sel, sel \subseteq s.hand[p] \cup s.learned[p]
  PROVE  IsFiniteSet(sel) /\ Cardinality(sel) \in Nat
         /\ \A x : IsFiniteSet(sel \cap x) /\ Cardinality(sel \cap x) \in Nat
<1>1. IsFiniteSet(s.hand[p]) /\ IsFiniteSet(s.learned[p])
  BY HandsOf DEF AtRest, Running
<1>2. IsFiniteSet(s.hand[p] \cup s.learned[p])
  BY <1>1, FS_Union
<1>3. IsFiniteSet(sel) /\ \A x : IsFiniteSet(sel \cap x)
  BY <1>2, FS_Subset
<1> QED BY <1>3, FS_CardinalityType

LEMMA CommittedOnTheWay ==
  ASSUME NEW s, AtRest(s), NEW p, NEW sel, IsFiniteSet(sel), NEW n
  PROVE  LET t == [Committed(s, p, sel) EXCEPT !.mp[p] = @ - n]
         IN /\ OnTheWay(s, t) /\ IsState(t) /\ t.alive = s.alive /\ t.pending = s.pending
            /\ Back(t) = Back(s)
<1> DEFINE u == Declared(s)
           fresh == sel \ s.learned[p]
           new == {c \in fresh : c.kind.category = "MIRACLE"}
           v == [u EXCEPT !.hand[p] = @ \ fresh, !.learned[p] = @ \cup new]
           x == [v.mp EXCEPT ![p] = @ - n]
           t == [v EXCEPT !.mp = x]
<1>1. OnTheWay(s, u) /\ IsState(u) /\ u.alive = s.alive /\ u.pending = s.pending /\ Back(u) = Back(s)
  BY DeclaredOnTheWay DEF AtRest
<1>2. Committed(s, p, sel) = v
  BY DEF Committed
<1>3. [v EXCEPT !.mp[p] = @ - n] = t
  OBVIOUS
<1> HIDE DEF u
<1>4. IsFiniteSet(new)
  BY FS_Subset
<1> HIDE DEF fresh, new
<1>5. Effect(u, v) /\ IsState(v)
  <2>1. Effect(u, v)
    BY <1>1, <1>4, LearnedEffect
  <2> HIDE DEF v
  <2> QED BY <2>1 DEF Effect
<1>6. v.alive = u.alive /\ v.pending = u.pending
  BY <1>1 DEF IsState, Fields
<1> HIDE DEF v, x
<1>7. Effect(v, t) /\ t.alive = v.alive /\ t.pending = v.pending
  <2>1. Effect(v, t)
    BY <1>5, ResourceChange
  <2> QED BY <1>5, <2>1 DEF IsState, Fields
<1> HIDE DEF t
<1>8. Effect(u, t) /\ IsState(t)
  BY <1>1, <1>5, <1>7, EffectOnEffect DEF Effect
<1>9. OnTheWay(s, t) /\ Back(t) = Back(s)
  BY <1>1, <1>8, EffectOnTheWay
<1>10. [Committed(s, p, sel) EXCEPT !.mp[p] = @ - n] = t
  BY <1>2, <1>3
<1> QED BY <1>1, <1>6, <1>7, <1>8, <1>9, <1>10

LEMMA handleDirectActionReached ==
  ASSUME NEW s, AtRest(s), NEW p \in Alive(s), NEW sel, sel \subseteq s.hand[p] \cup s.learned[p],
         NEW q, MayUseDirectly(s, p, sel, q)
  PROVE  \A t \in handleDirectAction(s, p, sel, q) : Reached(s, t)
<1> DEFINE k == DirectCard(sel).kind
           t == [Committed(s, p, sel) EXCEPT !.mp[p] = @ - DirectCost(s, p, sel)]
           fromHand == Cardinality(sel \cap s.hand[p])
           sources == {c.kind : c \in sel}
           d == [kind |-> "DIRECT", card |-> k]
           ends(u) == IF Has(k, "CALL_PHENOMENON")
                      THEN resolvePhenomenon(u, p, Cardinality(sel), fromHand)
                      ELSE FinishAction(u, p, fromHand)
           effects == resolveDirectInstructions(t, p, q, k)
<1>1. handleDirectAction(s, p, sel, q) =
        IF directEffectTargetsEnemy(k) \/ q # p
        THEN startTargetedCardReaction(t, FreshAttack(p, q, sources, Cardinality(sel)), d)
        ELSE UNION {ends(u) : u \in effects}
  BY DEF handleDirectAction
<1>2. p \in Players /\ p \in Present(s)
  BY DEF Alive, Present
<1>3. IsFiniteSet(sel) /\ Cardinality(sel) \in Nat /\ fromHand \in Nat
  BY <1>2, SelectedFinite
<1>4. OnTheWay(s, t) /\ Alive(t) = Alive(s) /\ IsState(t)
  BY <1>3, CommittedOnTheWay DEF Alive
<1> HIDE DEF t, fromHand, sources
<1>5. CASE directEffectTargetsEnemy(k) \/ q # p
  <2>1. q \in Alive(s) /\ q # p
    <3>1. IF directEffectTargetsEnemy(k) THEN isEnemy(s, p, q)
          ELSE IF isSupportiveDirectAction(k) THEN q \in Alive(s) ELSE q = p
      BY DEF MayUseDirectly
    <3> HIDE DEF k
    <3> QED BY <1>5, <3>1 DEF isEnemy, EnemiesOf, areOpponents
  <2>2. d.kind \in {"DIRECT", "SELL", "BUY"}
    OBVIOUS
  <2> HIDE DEF d, k
  <2>3. \A u \in startTargetedCardReaction(t, FreshAttack(p, q, sources, Cardinality(sel)), d) : Reached(s, u)
    BY <1>3, <1>4, <2>1, <2>2, DeclaredAsks
  <2> QED BY <1>1, <1>5, <2>3
<1>6. CASE ~(directEffectTargetsEnemy(k) \/ q # p)
  <2>1. Effects(t, effects)
    BY <1>4, resolveDirectInstructionsEffect
  <2> HIDE DEF effects, k
  <2>2. \A u \in effects : OnTheWay(s, u)
    <3> HIDE DEF Effects
    <3> QED BY <1>4, <2>1, EffectsOnTheWay
  <2>3. \A u \in effects : \A v \in ends(u) : Reached(s, v)
    BY <1>2, <1>3, <2>2, resolvePhenomenonReached, FinishActionReached
  <2> HIDE DEF ends
  <2> QED BY <1>1, <1>6, <2>3
<1> QED BY <1>5, <1>6

LEMMA TargetListsAreLists ==
  ASSUME NEW s, NEW p, NEW sel, NEW q
  PROVE  \A targets \in TargetLists(s, p, sel, q) : Len(targets) \in Nat
<1> DEFINE enemies == EnemiesOf(p, Alive(s))
<1>1. \A r : Len(<<r>>) = 1
  OBVIOUS
<1>2. ASSUME NEW targets \in SetToSeqs(enemies)
      PROVE  Len(targets) \in Nat
  <2>1. IsFiniteSet(enemies)
    BY PlayersAssumption, FS_Subset DEF Alive, EnemiesOf
  <2>2. Cardinality(enemies) \in Nat
    BY <2>1, FS_CardinalityType
  <2>3. targets \in [1..Cardinality(enemies) -> enemies]
    BY <1>2 DEF SetToSeqs
  <2> HIDE DEF enemies
  <2>4. targets \in Seq(enemies)
    BY <2>2, <2>3
  <2> QED BY <2>4, LenProperties
<1>3. \A targets \in TargetLists(s, p, sel, q) :
        targets \in SetToSeqs(enemies) \/ \E r : targets = <<r>>
  BY DEF TargetLists
<1> HIDE DEF enemies
<1> QED BY <1>1, <1>2, <1>3

LEMMA handleAttackReached ==
  ASSUME NEW s, AtRest(s), NEW p \in Alive(s), NEW sel, sel \subseteq s.hand[p] \cup s.learned[p],
         NEW q
  PROVE  \A t \in handleAttack(s, p, sel, q) : Reached(s, t)
<1> DEFINE t == [Committed(s, p, sel) EXCEPT !.mp[p] = @ - AttackCost(s, p, sel)]
           leads == IF Primaries(sel) # {} THEN Primaries(sel) ELSE Carriers(sel)
           sources == {c.kind : c \in sel}
           chance == ~Pestle(sel) /\ \E c \in sel : c.kind.chance
           total == IF \E c \in sel : Has(c.kind, "ATTACK_TWICE") THEN 2 ELSE 1
           kind(lead) == IF lead.kind.category = "MIRACLE" THEN "MIRACLE" ELSE "WEAPON"
           plan(targets, element, lead) ==
             [owner |-> p, targets |-> targets, sources |-> sources,
              element |-> element, power |-> AttackPower(s, p, sel), chance |-> chance,
              attackKind |-> kind(lead), total |-> total,
              attackerGrants |-> Cardinality(sel), completion |-> "FINISH_TURN",
              defenseGrants |-> NoGrants, revivals |-> NoGrants]
<1>1. handleAttack(s, p, sel, q) =
        UNION {StartSeries(t, plan(targets, element, lead)) :
                 targets \in TargetLists(s, p, sel, q), element \in AttackElements(sel), lead \in leads}
  BY DEF handleAttack
<1>2. p \in Players
  BY DEF Alive
<1>3. IsFiniteSet(sel) /\ Cardinality(sel) \in Nat
  BY <1>2, SelectedFinite
<1>4. OnTheWay(s, t)
  BY <1>3, CommittedOnTheWay
<1>5. p \in Present(s) /\ total \in Nat /\ "FINISH_TURN" \in Back(t)
  BY DEF Present, Back
<1> HIDE DEF t, leads, sources, chance, total, kind
<1>6. ASSUME NEW targets \in TargetLists(s, p, sel, q), NEW element, NEW lead
      PROVE  IsPlan(Present(s), Back(t), plan(targets, element, lead))
  <2> DEFINE x == plan(targets, element, lead)
  <2>1. Len(targets) \in Nat
    BY TargetListsAreLists
  <2>2. /\ {"defenseGrants", "revivals"} \subseteq DOMAIN x /\ x.owner = p /\ x.targets = targets
        /\ x.total = total /\ x.attackerGrants = Cardinality(sel)
        /\ x.defenseGrants = NoGrants /\ x.revivals = NoGrants /\ x.completion = "FINISH_TURN"
    OBVIOUS
  <2> HIDE DEF x
  <2>3. IsPlan(Present(s), Back(t), x)
    BY <1>3, <1>5, <2>1, <2>2, NoGrantsCounted DEF IsPlan
  <2> QED BY <2>3 DEF x
<1> HIDE DEF plan
<1>7. ASSUME NEW targets \in TargetLists(s, p, sel, q), NEW element, NEW lead
      PROVE  \A u \in StartSeries(t, plan(targets, element, lead)) : Reached(s, u)
  BY <1>4, <1>6, StartSeriesReached
<1> QED BY <1>1, <1>7

(* The attack goes on when a reaction stopped it.                            *)
LEMMA AdvanceReached ==
  ASSUME NEW b, NEW s, OnTheWay(b, s), IsAttack(Present(b), Back(s), s.pending)
  PROVE  Reached(b, Advance(s, s.pending))
BY AdvanceCalls DEF Reached, IsAttack

LEMMA RedirectedReached ==
  ASSUME NEW b, NEW s, OnTheWay(b, s), IsAttack(Present(b), Back(s), s.pending),
         NEW p \in Present(b), NEW q \in Present(b)
  PROVE  \A t \in Redirected(s, p, q) : Reached(b, t)
<1> DEFINE a == [s.pending EXCEPT !.actor = p, !.target = q, !.depth = @ + 1]
           t == [s EXCEPT !.pending = a]
<1>1. /\ DOMAIN a = AttackFields /\ a.kind = s.pending.kind /\ a.owner = s.pending.owner
      /\ a.actor = p /\ a.target = q /\ a.targets = s.pending.targets
      /\ a.total = s.pending.total /\ a.attackerGrants = s.pending.attackerGrants
      /\ a.defenseGrants = s.pending.defenseGrants /\ a.revivals = s.pending.revivals
      /\ a.completion = s.pending.completion /\ a.deferred = s.pending.deferred
  BY DEF IsAttack, IsStrike, AttackFields
<1>2. Redirected(s, p, q) =
        IF q = p \/ q \notin Alive(s)
        THEN {Advance(u, u.pending) : u \in resolvePendingAttackDamage(t, a, q, 0)}
        ELSE {[t EXCEPT !.phase = "REACTION_SELECTION"]}
  BY DEF Redirected
<1> HIDE DEF a
<1>3. IsPlan(Present(b), Back(s), a)
  BY <1>1 DEF IsAttack, IsStrike, IsPlan, AttackFields
<1>4. IsStrike(Present(b), Back(s), a)
  BY <1>1, <1>3 DEF IsAttack, IsStrike
<1>5. IsAttack(Present(b), Back(s), a)
  BY <1>1, <1>4 DEF IsAttack
<1>6. OnTheWay(b, t) /\ t.pending = a /\ Back(t) = Back(s)
  BY <1>4, StrikeRevivable, PendingChange
<1>7. [t EXCEPT !.phase = "REACTION_SELECTION"] = AskedAbout(s, a)
  BY DEF OnTheWay, Running, IsState, Fields, AskedAbout
<1>8. CASE q = p \/ q \notin Alive(s)
  <2> HIDE DEF t
  <2>1. \A u \in resolvePendingAttackDamage(t, a, q, 0) :
          OnTheWay(b, u) /\ IsAttack(Present(b), Back(u), u.pending)
    BY <1>5, <1>6, DamageOnTheWay
  <2> QED BY <1>2, <1>8, <2>1, AdvanceReached
<1>9. CASE q # p /\ q \in Alive(s)
  <2> DEFINE u == AskedAbout(s, a)
  <2>1. Asking(b, u)
    <3>1. a.target \in Alive(s) /\ a.target # a.actor
      BY <1>1, <1>9
    <3> QED BY <1>5, <3>1, AskReaction
  <2> HIDE DEF u
  <2>2. Redirected(s, p, q) = {u}
    BY <1>2, <1>7, <1>9 DEF u
  <2> QED BY <2>1, <2>2 DEF Reached, Finished
<1> QED BY <1>8, <1>9

LEMMA ReactedOnTheWay ==
  ASSUME NEW s, AtRest(s), NEW p \in Players, NEW sel, IsFiniteSet(sel),
         IsAttack(Present(s), Back(s), s.pending), NEW n, NEW element, NEW m \in Nat
  PROVE  LET t == [Committed(s, p, sel) EXCEPT
                     !.mp[p] = @ - n,
                     !.pending.element = element,
                     !.pending.defenseGrants[p] = @ + m]
         IN OnTheWay(s, t) /\ IsState(t) /\ IsAttack(Present(s), Back(t), t.pending)
            /\ t.pending.actor = s.pending.actor
<1> DEFINE w == Committed(s, p, sel)
           x == [w.mp EXCEPT ![p] = @ - n]
           v == [w EXCEPT !.mp = x]
           g == [s.pending.defenseGrants EXCEPT ![p] = @ + m]
           a == [s.pending EXCEPT !.element = element, !.defenseGrants = g]
           t == [v EXCEPT !.pending = a]
<1>1. OnTheWay(s, v) /\ v.pending = s.pending /\ Back(v) = Back(s)
  <2>1. v = [w EXCEPT !.mp[p] = @ - n]
    OBVIOUS
  <2> HIDE DEF v
  <2> QED BY <2>1, CommittedOnTheWay
<1>2. [w EXCEPT !.mp[p] = @ - n, !.pending.element = element, !.pending.defenseGrants[p] = @ + m] = t
  <2>1. v.pending = w.pending
    BY <1>1 DEF OnTheWay, Running, IsState, Fields
  <2>2. w.pending = s.pending
    BY <1>1, <2>1
  <2> HIDE DEF w
  <2> QED BY <2>2
<1> HIDE DEF v, x
<1>3. g \in Counts
  BY DEF IsAttack, IsStrike, IsPlan, Counts
<1>4. /\ DOMAIN a = AttackFields /\ a.kind = s.pending.kind /\ a.owner = s.pending.owner
      /\ a.actor = s.pending.actor /\ a.target = s.pending.target /\ a.targets = s.pending.targets
      /\ a.total = s.pending.total /\ a.attackerGrants = s.pending.attackerGrants
      /\ a.defenseGrants = g /\ a.revivals = s.pending.revivals
      /\ a.completion = s.pending.completion /\ a.deferred = s.pending.deferred
  BY DEF IsAttack, IsStrike, AttackFields
<1> HIDE DEF a, g
<1>5. IsPlan(Present(s), Back(s), a)
  BY <1>3, <1>4 DEF IsAttack, IsStrike, IsPlan, AttackFields
<1>6. IsStrike(Present(s), Back(s), a)
  BY <1>4, <1>5 DEF IsAttack, IsStrike
<1>7. IsAttack(Present(s), Back(s), a)
  BY <1>4, <1>6 DEF IsAttack
<1>8. OnTheWay(s, t) /\ t.pending = a /\ Back(t) = Back(s)
  BY <1>1, <1>6, StrikeRevivable, PendingChange
<1> HIDE DEF t
<1> QED BY <1>2, <1>4, <1>7, <1>8 DEF OnTheWay, Running

(* What a reaction wears out is an effect that leaves the attack pending.    *)
LEMMA SelfDefenseOnTheWay ==
  ASSUME NEW b, NEW s, OnTheWay(b, s), IsAttack(Present(b), Back(s), s.pending),
         NEW p \in Players, NEW cards, IsFiniteSet(cards)
  PROVE  \A u \in applySelfDefenseEffects(s, p, cards) :
           /\ OnTheWay(b, u) /\ Back(u) = Back(s) /\ SameAction(s.pending, u.pending)
           /\ IsAttack(Present(b), Back(u), u.pending)
<1>1. Effects(s, applySelfDefenseEffects(s, p, cards))
  BY applySelfDefenseEffectsEffect DEF OnTheWay, Running
<1> HIDE DEF Effects
<1>2. DOMAIN s.pending = AttackFields
  BY DEF IsAttack, IsStrike
<1> QED BY <1>1, <1>2, EffectsOnTheWay, SameAttack

LEMMA handleReactionReached ==
  ASSUME NEW s, AtRest(s), NEW p \in Alive(s), NEW sel, sel \subseteq s.hand[p] \cup s.learned[p],
         IsAttack(Present(s), Back(s), s.pending)
  PROVE  \A v \in handleReaction(s, p, sel) : Reached(s, v)
<1> DEFINE cards == sel \cap s.hand[p]
           element == FilteredElement(s.pending, sel)
           t == [Committed(s, p, sel) EXCEPT
                   !.mp[p] = @ - ReactionCost(sel),
                   !.pending.element = element,
                   !.pending.defenseGrants[p] = @ + Cardinality(cards)]
           a == t.pending
           effects == EffectsOf(a, sel, element)
           defence == FoldLeft(LAMBDA sum, c : sum + IF canDefend(c.kind, element)
                                                     THEN c.kind.defense ELSE 0,
                               0, SetToSeq(cards))
           self(S) == UNION {applySelfDefenseEffects(u, p, cards) : u \in S}
           passedOn(u) == IF a.depth >= MaxReactionDepth THEN {Advance(u, u.pending)}
                          ELSE UNION {Redirected(u, p, q) :
                                        q \in IF effects = {"REFLECT"} THEN {a.actor} ELSE Alive(u)}
           struck == resolvePendingAttackDamage(t, a, p, defence)
           received == AttackDamage(t, a, p, defence)
           countered == UNION {startCounterReaction(u, a, p, sel, received) : u \in self(struck)}
<1>1. \A v \in handleReaction(s, p, sel) :
        \/ \E u \in self({t}) : v = Advance(u, u.pending)
        \/ \E u \in self({t}) : v \in passedOn(u)
        \/ \E u \in countered : v = IF Waiting(u) THEN u ELSE Advance(u, u.pending)
  BY DEF handleReaction
<1>2. p \in Players /\ p \in Present(s)
  BY DEF Alive, Present
<1>3. IsFiniteSet(sel) /\ IsFiniteSet(cards) /\ Cardinality(cards) \in Nat
  BY <1>2, SelectedFinite
<1> HIDE DEF cards, element
<1>4. OnTheWay(s, t) /\ IsAttack(Present(s), Back(t), a)
  BY <1>2, <1>3, ReactedOnTheWay
<1> HIDE DEF t, effects, defence, received
<1>5. \A u \in self({t}) : OnTheWay(s, u) /\ IsAttack(Present(s), Back(u), u.pending)
  BY <1>2, <1>3, <1>4, SelfDefenseOnTheWay
<1>6. \A u \in self({t}) : Reached(s, Advance(u, u.pending))
  BY <1>5, AdvanceReached
<1>7. ASSUME NEW u \in self({t})
      PROVE  \A v \in passedOn(u) : Reached(s, v)
  <2>1. a.actor \in Present(s)
    BY <1>4 DEF IsAttack, IsStrike
  <2>2. Alive(u) \subseteq Present(s)
    BY <1>5, RunningPresent DEF OnTheWay
  <2>3. \A q \in Present(s) : \A v \in Redirected(u, p, q) : Reached(s, v)
    BY <1>2, <1>5, RedirectedReached
  <2> HIDE DEF self
  <2>4. Reached(s, Advance(u, u.pending))
    BY <1>6
  <2> HIDE DEF a
  <2> QED BY <2>1, <2>2, <2>3, <2>4
<1>8. \A u \in self(struck) : OnTheWay(s, u) /\ Back(u) = Back(t) /\ IsAttack(Present(s), Back(u), u.pending)
  <2>1. \A x \in struck : OnTheWay(s, x) /\ Back(x) = Back(t) /\ IsAttack(Present(s), Back(x), x.pending)
    BY <1>4, DamageOnTheWay
  <2> HIDE DEF struck
  <2> QED BY <1>2, <1>3, <2>1, SelfDefenseOnTheWay
<1> HIDE DEF self, struck, passedOn
<1>9. \A u \in countered :
        Asking(s, u) \/ (OnTheWay(s, u) /\ IsAttack(Present(s), Back(u), u.pending))
  <2> SUFFICES ASSUME NEW x \in self(struck), NEW u \in startCounterReaction(x, a, p, sel, received)
               PROVE  Asking(s, u) \/ (OnTheWay(s, u) /\ IsAttack(Present(s), Back(u), u.pending))
    OBVIOUS
  <2>1. OnTheWay(s, x) /\ IsAttack(Present(s), Back(x), a) /\ IsAttack(Present(s), Back(x), x.pending)
    BY <1>4, <1>8
  <2> HIDE DEF a
  <2>2. IsStrike(Present(s), Back(x), x.pending) /\ DOMAIN x.pending = AttackFields
    BY <2>1 DEF IsAttack, IsStrike
  <2>3. \/ Asking(s, u)
        \/ OnTheWay(s, u) /\ Back(u) = Back(x) /\ SameAction(x.pending, u.pending)
    BY <1>2, <1>3, <2>1, <2>2, startCounterReactionAsksOrGoesOn
  <2> QED BY <2>1, <2>2, <2>3, SameAttack
<1> HIDE DEF countered
<1>10. \A u \in countered : Reached(s, IF Waiting(u) THEN u ELSE Advance(u, u.pending))
  BY <1>9, NotWaiting, AdvanceReached DEF Reached, Finished
<1> QED BY <1>1, <1>6, <1>7, <1>10
-----------------------------------------------------------------------------
(* The inductive invariant *)

P == INSTANCE TurnProtocol_proofs WITH
  Nobody <- "NONE", order <- state.order, cursor <- state.cursor, alive <- Alive(state),
  lost <- state.defeated, asked <- AskedPlayer, gf <- state.gf, result <- state.result

(* Whom a state asks.                                                        *)
AskedBy(s) ==
  CASE s.phase = "ACTION_SELECTION" -> s.active
    [] s.phase = "REACTION_SELECTION" -> s.pending.target
    [] s.phase = "TRADE_CONFIRMATION" -> s.pending.buyer
    [] OTHER -> "NONE"

IsOrder(o) == o \in [1..Cardinality(Players) -> Players] /\ \A p \in Players : \E i \in DOMAIN o : o[i] = p

(* Between two commands a player acts, reacts or confirms, or the match is   *)
(* over.                                                                     *)
Acting(s) ==
  /\ s.phase = "ACTION_SELECTION" /\ s.active \in Alive(s)
  /\ s.pending = NoAction /\ s.post = NoPostTurn /\ s.defeated = {}
Reacting(s) ==
  /\ s.phase = "REACTION_SELECTION" /\ IsAttack(Present(s), Back(s), s.pending)
  /\ s.pending.target \in Alive(s) /\ s.pending.target # s.pending.actor
Confirming(s) == s.phase = "TRADE_CONFIRMATION" /\ s.pending.kind = "TRADE_CONFIRMATION"

Sound(s) ==
  /\ IsState(s) /\ IsOrder(s.order) /\ s.cursor \in DOMAIN s.order
  /\ s.deck \in Decks /\ s.endTime = s.deck.endTime
  /\ \/ /\ s.phase = "MATCH_ENDED"
        /\ s.result = currentMatchResult(Alive(s), s.defeated) /\ s.result # NoResult
     \/ AtRest(s) /\ (Acting(s) \/ Reacting(s) \/ Confirming(s))

LEMMA NextAliveIsAlive ==
  ASSUME NEW o, IsOrder(o), NEW c \in DOMAIN o, NEW living \in SUBSET Players, living # {}
  PROVE  NextAlive(o, c, living) \in living /\ \E i \in DOMAIN o : o[i] = NextAlive(o, c, living)
<1>1. P!IsFiniteSet(Players)
  BY PlayersAssumption DEF P!IsFiniteSet, IsFiniteSet
<1>2. P!PlayersAssumption /\ P!ResourceAssumption /\ P!NoAttackAssumption
  BY <1>1, PlayersAssumption, ResourceAssumption, NoAttackAssumption
     DEF P!PlayersAssumption, P!ResourceAssumption, P!NoAttackAssumption
<1>3. P!Cardinality(Players) = Cardinality(Players)
  BY DEF P!Cardinality, Cardinality
<1>4. o \in P!Orders
  BY <1>3 DEF P!Orders, IsOrder
<1>5. P!NextAlive(o, c, living) \in living
  BY <1>2, <1>4, P!NextIsFirstAlive
<1>6. P!NextAlive(o, c, living) = NextAlive(o, c, living)
  BY DEF P!NextAlive, NextAlive
<1> QED BY <1>5, <1>6 DEF IsOrder

(* A match that is not decided has somebody alive.                           *)
LEMMA UndecidedHasSomebody ==
  ASSUME NEW s, ResultOf(s) = NoResult
  PROVE  Alive(s) # {} /\ \E p, q \in Alive(s) : Team[p] # Team[q]
BY DEF ResultOf, currentMatchResult, NoResult, Draw

(* What a command does to the turn.                                          *)
Interrupts(b, t) ==
  /\ t.phase \in {"REACTION_SELECTION", "TRADE_CONFIRMATION"}
  /\ b.result = NoResult /\ t.result = b.result
  /\ Alive(t) \subseteq Alive(b) /\ t.defeated = b.defeated \cup (Alive(b) \ Alive(t))
  /\ t.order = b.order /\ t.cursor = b.cursor /\ t.gf \in Nat /\ t.gf >= b.gf
Passes(b, t) ==
  /\ t.phase = "ACTION_SELECTION"
  /\ b.result = NoResult /\ t.result = b.result /\ t.order = b.order
  /\ Alive(t) \subseteq Alive(b) /\ t.defeated = {}
  /\ currentMatchResult(Alive(t), b.defeated \cup (Alive(b) \ Alive(t))) = NoResult
  /\ AskedBy(t) = NextAlive(b.order, b.cursor, Alive(t))
  /\ t.cursor \in DOMAIN b.order /\ b.order[t.cursor] = AskedBy(t) /\ t.gf \in Nat /\ t.gf > b.gf
Finishes(b, t) ==
  /\ t.phase = "MATCH_ENDED"
  /\ b.result = NoResult
  /\ Alive(t) \subseteq Alive(b) /\ t.defeated = b.defeated \cup (Alive(b) \ Alive(t))
  /\ t.order = b.order /\ t.cursor = b.cursor /\ t.gf \in Nat /\ t.gf >= b.gf
  /\ t.result = currentMatchResult(Alive(t), t.defeated) /\ t.result # NoResult
  /\ AskedBy(t) = "NONE"

LEMMA AtRestAgain ==
  ASSUME NEW b, NEW t, Running(b, t), t.then = Nothing
  PROVE  AtRest(t)
BY DEF AtRest, Running, IsState

LEMMA AskingInterrupts ==
  ASSUME NEW b, Sound(b), AtRest(b), NEW t, Asking(b, t)
  PROVE  Sound(t) /\ Interrupts(b, t) /\ AskedBy(t) \in Alive(t)
<1>1. Running(b, t) /\ t.then = Nothing /\ t.phase = "REACTION_SELECTION" /\ Running(b, b)
  BY DEF Asking, AtRest
<1>2. Interrupts(b, t)
  BY <1>1 DEF Running, Interrupts, IsState
<1>3. Present(t) = Present(b)
  BY <1>1, RunningPresent
<1>4. Reacting(t)
  BY <1>3 DEF Asking, Reacting
<1>5. Sound(t)
  BY <1>1, <1>4, AtRestAgain DEF Sound, Running
<1>6. AskedBy(t) = t.pending.target
  BY <1>1 DEF AskedBy
<1> QED BY <1>2, <1>4, <1>5, <1>6 DEF Reacting

LEMMA OfferingInterrupts ==
  ASSUME NEW b, Sound(b), AtRest(b), NEW t, Offering(b, t)
  PROVE  Sound(t) /\ Interrupts(b, t) /\ AskedBy(t) \in Alive(b) /\ (AskedBy(t) \in Alive(t) \/ ~Calm(t))
<1>1. Running(b, t) /\ t.then = Nothing /\ t.phase = "TRADE_CONFIRMATION" /\ Running(b, b)
  BY DEF Offering, AtRest
<1>2. Interrupts(b, t)
  BY <1>1 DEF Running, Interrupts, IsState
<1>3. Confirming(t)
  BY DEF Offering, Confirming
<1>4. Sound(t)
  BY <1>1, <1>3, AtRestAgain DEF Sound, Running
<1>5. AskedBy(t) = t.pending.buyer
  BY <1>1 DEF AskedBy
<1> QED BY <1>2, <1>4, <1>5 DEF Offering

LEMMA OpeningPasses ==
  ASSUME NEW b, Sound(b), AtRest(b), NEW t, Opening(b, t)
  PROVE  Sound(t) /\ Passes(b, t) /\ AskedBy(t) \in Alive(t)
<1>1. PICK u : OnTheWay(b, u) /\ ResultOf(u) = NoResult /\ t = openNextTurnOrEnd(u)
  BY DEF Opening
<1> DEFINE next == NextAlive(u.order, u.cursor, Alive(u))
           v == CountGf(u)
           c == CHOOSE i \in DOMAIN u.order : u.order[i] = next
           w == [v EXCEPT !.phase = "ACTION_SELECTION", !.active = next, !.cursor = c,
                          !.pending = NoAction, !.post = NoPostTurn, !.defeated = {}]
<1>2. t = w
  BY <1>1 DEF openNextTurnOrEnd
<1>3. OnTheWay(b, v) /\ v.gf = u.gf + 1 /\ v.phenomenon = u.phenomenon /\ v.alive = u.alive
  BY <1>1, CountGfOnTheWay
<1>4. Running(b, u) /\ Running(b, v) /\ v.then = Nothing
  BY <1>1, <1>3 DEF OnTheWay
<1>5. next \in Alive(u) /\ c \in DOMAIN u.order /\ u.order[c] = next
  <2>1. Alive(u) # {} /\ Alive(u) \in SUBSET Players
    BY <1>1, UndecidedHasSomebody DEF Alive
  <2>2. IsOrder(u.order) /\ u.cursor \in DOMAIN u.order
    BY <1>4 DEF Running, Sound
  <2>3. next \in Alive(u) /\ \E i \in DOMAIN u.order : u.order[i] = next
    BY <2>1, <2>2, NextAliveIsAlive
  <2> QED BY <2>3
<1> HIDE DEF next, v, c
<1>6. /\ DOMAIN w = Fields /\ w.pending = NoAction /\ w.phase = "ACTION_SELECTION" /\ w.gf = v.gf
      /\ w.endTime = v.endTime /\ w.endTimeActive = v.endTimeActive /\ w.order = v.order
      /\ w.cursor = c /\ w.alive = v.alive /\ w.hand = v.hand /\ w.learned = v.learned /\ w.guardian = v.guardian
      /\ w.post = NoPostTurn /\ w.phenomenon = v.phenomenon /\ w.then = v.then
      /\ w.defeated = {} /\ w.result = v.result /\ w.deck = v.deck /\ w.active = next
  BY <1>4 DEF Running, IsState, Fields
<1> HIDE DEF w
<1>7. IsState(w)
  BY <1>4, <1>6, NothingPending DEF Running, IsState
<1>8. Alive(w) = Alive(u)
  BY <1>3, <1>6 DEF Alive
<1>9. AtRest(w)
  BY <1>4, <1>6, <1>7 DEF AtRest, Running, Confusing, IsState
<1>10. Acting(w)
  BY <1>5, <1>6, <1>8 DEF Acting
<1>11. Sound(w)
  BY <1>4, <1>5, <1>6, <1>7, <1>9, <1>10 DEF Sound, Running
<1>12. AskedBy(w) = next
  BY <1>6 DEF AskedBy
<1>13. currentMatchResult(Alive(u), b.defeated \cup (Alive(b) \ Alive(u))) = NoResult
  BY <1>1, <1>4 DEF ResultOf, Running
<1>14. w.gf \in Nat /\ w.gf > b.gf
  <2>1. u.gf \in Nat /\ b.gf \in 0..u.gf
    BY <1>4 DEF Running, IsState
  <2> QED BY <1>3, <1>6, <2>1
<1>15. Passes(b, w)
  <2>1. next = NextAlive(b.order, b.cursor, Alive(u)) /\ u.order = b.order
    BY <1>4 DEF next, Running
  <2>2. b.result = NoResult /\ w.result = NoResult /\ w.order = b.order /\ Alive(u) \subseteq Alive(b)
    BY <1>4, <1>6 DEF Running, AtRest
  <2> QED BY <1>5, <1>6, <1>8, <1>12, <1>13, <1>14, <2>1, <2>2 DEF Passes
<1> QED BY <1>2, <1>5, <1>8, <1>11, <1>12, <1>15

LEMMA EndingFinishes ==
  ASSUME NEW b, Sound(b), AtRest(b), NEW t, Ending(b, t)
  PROVE  Sound(t) /\ Finishes(b, t)
<1>1. PICK u : OnTheWay(b, u) /\ ResultOf(u) # NoResult /\ t = Ended(u, ResultOf(u))
  BY DEF Ending
<1> DEFINE r == ResultOf(u)
           w == [u EXCEPT !.phase = "MATCH_ENDED", !.active = "NONE", !.pending = NoAction,
                          !.post = NoPostTurn, !.phenomenon = NoPhenomenon, !.result = r]
<1>2. t = w
  BY <1>1 DEF Ended
<1>3. Running(b, u)
  BY <1>1 DEF OnTheWay
<1>4. r # NoResult /\ r = currentMatchResult(Alive(u), u.defeated)
  BY <1>1 DEF ResultOf
<1> HIDE DEF r
<1>5. /\ w.phase = "MATCH_ENDED" /\ w.gf = u.gf /\ w.endTime = u.endTime /\ w.order = u.order
      /\ w.cursor = u.cursor /\ w.alive = u.alive /\ w.defeated = u.defeated
      /\ w.result = r /\ w.deck = u.deck /\ w.pending = NoAction
      /\ w.hand = u.hand /\ w.learned = u.learned /\ w.guardian = u.guardian /\ DOMAIN w = Fields
  BY <1>3 DEF Running, IsState, Fields
<1> HIDE DEF w
<1>11. IsState(w)
  BY <1>3, <1>5 DEF Running, IsState, Revivable, NoAction
<1>6. Alive(w) = Alive(u)
  BY <1>5 DEF Alive
<1>7. Sound(w)
  BY <1>3, <1>4, <1>5, <1>6, <1>11 DEF Sound, Running
<1>8. AskedBy(w) = "NONE"
  BY <1>5 DEF AskedBy
<1>9. u.gf \in Nat /\ u.gf >= b.gf /\ b.result = NoResult
  BY <1>3 DEF Running, IsState, AtRest
<1>10. Finishes(b, w)
  BY <1>3, <1>4, <1>5, <1>6, <1>8, <1>9 DEF Finishes, Running
<1> QED BY <1>2, <1>7, <1>10
-----------------------------------------------------------------------------
(* Every command *)

(* A command ends in a state that is finished, or throws and changes nothing. *)
Answered(t) ==
  \/ state' = state
  \/ Finished(state, t) /\ t.phase # "THREW" /\ state' = t

LEMMA OutcomeAnswered ==
  ASSUME NEW S, \A s \in S : Reached(state, s), Outcome(S)
  PROVE  \E t : Answered(t)
<1>1. PICK t \in S :
        state' = IF t.phase = "THREW" \/ t.then # Nothing THEN state ELSE t
  BY DEF Outcome
<1>2. t.then = Nothing => Finished(state, t)
  BY NothingLeft DEF Reached
<1> QED BY <1>1, <1>2 DEF Answered

LEMMA ClosesAnswered ==
  ASSUME NEW S, \A s \in S : Reached(state, s), Closes(S)
  PROVE  \E t : Answered(t)
<1> DEFINE T == UNION {TurnClosed(s) : s \in S}
<1>1. \A t \in T : Reached(state, t)
  BY TurnClosedReached
<1>2. Outcome(T)
  BY DEF Closes
<1> HIDE DEF T
<1> QED BY <1>1, <1>2, OutcomeAnswered

LEMMA ResolvesAnswered ==
  ASSUME NEW S, \A s \in S : Reached(state, s), Resolves(S)
  PROVE  \E t : Answered(t)
<1> DEFINE T == UNION {Resolved(s) : s \in S}
<1>1. \A t \in T : Reached(state, t)
  BY ResolvedReached
<1>2. Outcome(T)
  BY DEF Resolves
<1> HIDE DEF T
<1> QED BY <1>1, <1>2, OutcomeAnswered

LEMMA CommandsAnswered ==
  ASSUME Sound(state), Next
  PROVE  UNCHANGED vars \/ (AtRest(state) /\ \E t : Answered(t))
<1>1. CASE Over
  BY <1>1 DEF Over
<1>2. ASSUME NEW p \in Players,
             \/ Pray(p) \/ Surrender(p) \/ Discard(p)
             \/ ExchangeResources(p) \/ SellCard(p) \/ DeclareBuy(p) \/ ConfirmBuy(p)
             \/ DeclareAction(p) \/ DeclareReaction(p)
      PROVE  AtRest(state) /\ \E t : Answered(t)
  <2>1. state.phase # "MATCH_ENDED" => AtRest(state)
    BY DEF Sound
  <2>2. CASE Pray(p)
    <3>1. AtRest(state)
      BY <2>1, <2>2 DEF Pray, MayPray, MayAct
    <3>2. \A t \in handlePray(state, p) : Reached(state, t)
      BY <3>1, handlePrayReached
    <3> QED BY <2>2, <3>1, <3>2, ClosesAnswered DEF Pray
  <2>3. CASE Surrender(p)
    <3>1. AtRest(state) /\ p \in Alive(state)
      BY <2>1, <2>3 DEF Surrender, MayAct
    <3>2. \A t \in handleSurrender(state, p) : Reached(state, t)
      BY <3>1, handleSurrenderReached
    <3> QED BY <2>3, <3>1, <3>2, ClosesAnswered DEF Surrender
  <2>4. CASE Discard(p)
    <3>1. PICK cards : MayDiscard(state, p, cards) /\ Closes(handleDiscard(state, p, cards))
      BY <2>4 DEF Discard
    <3>2. AtRest(state) /\ cards \subseteq state.hand[p]
      BY <2>1, <3>1 DEF MayDiscard, MayAct
    <3>3. \A t \in handleDiscard(state, p, cards) : Reached(state, t)
      BY <3>2, handleDiscardReached
    <3> QED BY <3>1, <3>2, <3>3, ClosesAnswered
  <2>5. CASE ExchangeResources(p)
    <3>1. PICK c \in state.hand[p], hp, mp, money \in 0..MaxResource :
            /\ MayExchangeResources(state, p, c, hp, mp, money)
            /\ Closes(handleExchangeResources(state, p, c, hp, mp, money))
      BY <2>5 DEF ExchangeResources
    <3>2. AtRest(state) /\ p \in Alive(state)
      BY <2>1, <3>1 DEF MayExchangeResources, MayTrade, MayAct
    <3>3. \A t \in handleExchangeResources(state, p, c, hp, mp, money) : Reached(state, t)
      BY <3>2, handleExchangeResourcesReached
    <3> QED BY <3>1, <3>2, <3>3, ClosesAnswered
  <2>6. CASE SellCard(p)
    <3>1. PICK c \in state.hand[p], product \in state.hand[p], q \in Players :
            MaySell(state, p, c, product, q) /\ Outcome(handleSellCard(state, p, c, product, q))
      BY <2>6 DEF SellCard
    <3>2. AtRest(state) /\ p \in Alive(state) /\ isEnemy(state, p, q)
      BY <2>1, <3>1 DEF MaySell, MayTrade, MayAct
    <3>3. \A t \in handleSellCard(state, p, c, product, q) : Reached(state, t)
      BY <3>2, handleSellCardReached
    <3> QED BY <3>1, <3>2, <3>3, OutcomeAnswered
  <2>7. CASE DeclareBuy(p)
    <3>1. PICK c \in state.hand[p], q \in Players :
            MayBuy(state, p, c, q) /\ Outcome(handleDeclareBuy(state, p, c, q))
      BY <2>7 DEF DeclareBuy
    <3>2. AtRest(state) /\ p \in Alive(state) /\ isEnemy(state, p, q)
      BY <2>1, <3>1 DEF MayBuy, MayTrade, MayAct
    <3>3. \A t \in handleDeclareBuy(state, p, c, q) : Reached(state, t)
      BY <3>2, handleDeclareBuyReached
    <3> QED BY <3>1, <3>2, <3>3, OutcomeAnswered
  <2>8. CASE ConfirmBuy(p)
    <3>1. PICK accept : MayConfirmBuy(state, p, accept) /\ Closes(handleConfirmBuy(state, p, accept))
      BY <2>8 DEF ConfirmBuy
    <3>2. AtRest(state) /\ p \in Alive(state)
      BY <2>1, <3>1 DEF MayConfirmBuy
    <3>3. \A t \in handleConfirmBuy(state, p, accept) : Reached(state, t)
      BY <3>2, handleConfirmBuyReached
    <3> QED BY <3>1, <3>2, <3>3, ClosesAnswered
  <2>9. CASE DeclareAction(p)
    <3>1. PICK sel, q :
            MayDeclareAction(state, p, sel, q) /\ Resolves(handleDeclareAction(state, p, sel, q))
      BY <2>9 DEF DeclareAction
    <3>2. /\ AtRest(state) /\ p \in Alive(state) /\ sel \subseteq state.hand[p] \cup state.learned[p]
          /\ Carriers(sel) = {} => MayUseDirectly(state, p, sel, q)
      BY <2>1, <3>1 DEF MayDeclareAction, MayAct
    <3>3. \A t \in handleDeclareAction(state, p, sel, q) : Reached(state, t)
      BY <3>2, handleDirectActionReached, handleAttackReached DEF handleDeclareAction
    <3> QED BY <3>1, <3>2, <3>3, ResolvesAnswered
  <2>10. CASE DeclareReaction(p)
    <3>1. PICK sel : MayReact(state, p, sel) /\ Resolves(handleReaction(state, p, sel))
      BY <2>10 DEF DeclareReaction
    <3>2. /\ AtRest(state) /\ p \in Alive(state) /\ sel \subseteq state.hand[p] \cup state.learned[p]
          /\ state.phase = "REACTION_SELECTION"
      BY <2>1, <3>1 DEF MayReact, Asked
    <3>3. IsAttack(Present(state), Back(state), state.pending)
      BY <3>2 DEF Sound, Acting, Reacting, Confirming
    <3>4. \A t \in handleReaction(state, p, sel) : Reached(state, t)
      BY <3>2, <3>3, handleReactionReached
    <3> QED BY <3>1, <3>2, <3>4, ResolvesAnswered
  <2> QED BY <1>2, <2>2, <2>3, <2>4, <2>5, <2>6, <2>7, <2>8, <2>9, <2>10
<1> QED BY <1>1, <1>2 DEF Next

(* Every command keeps the invariant and is a step of the turn, but that a   *)
(* buyer may be asked whom a demon has just killed.                          *)
TurnStep(b, t) ==
  \/ Interrupts(b, t) /\ AskedBy(t) \in Alive(t)
  \/ /\ Interrupts(b, t) /\ t.phase = "TRADE_CONFIRMATION"
     /\ AskedBy(t) \in Alive(b) \ Alive(t) /\ ~Calm(t)
  \/ Passes(b, t)
  \/ Finishes(b, t)

LEMMA NextKeepsSound ==
  ASSUME Sound(state), [Next]_vars
  PROVE  Sound(state') /\ (state' = state \/ TurnStep(state, state'))
<1>1. CASE UNCHANGED vars
  BY <1>1 DEF vars
<1>2. CASE ~UNCHANGED vars
  <2>1. AtRest(state)
    BY <1>2, CommandsAnswered
  <2>2. PICK t : Answered(t)
    BY <1>2, CommandsAnswered
  <2>3. CASE state' = state
    BY <2>3
  <2>4. CASE Finished(state, t) /\ t.phase # "THREW" /\ state' = t
    <3>1. state' = t
      BY <2>4
    <3>2. Asking(state, t) \/ Offering(state, t) \/ Opening(state, t) \/ Ending(state, t)
      BY <2>4 DEF Finished, Throwing
    <3>3. Sound(t) /\ TurnStep(state, t)
      BY <2>1, <3>2, AskingInterrupts, OfferingInterrupts, OpeningPasses, EndingFinishes
         DEF TurnStep, Offering
    <3> QED BY <3>1, <3>3
  <2> QED BY <2>2, <2>3, <2>4 DEF Answered
<1> QED BY <1>1, <1>2
-----------------------------------------------------------------------------
(* The match is created *)

LEMMA ListsAreOrders ==
  ASSUME NEW o \in SetToSeqs(Players)
  PROVE  IsOrder(o) /\ 1 \in DOMAIN o /\ o[1] \in Players
<1> DEFINE D == 1..Cardinality(Players)
<1>1. IsFiniteSet(Players) /\ Players # {} /\ Cardinality(Players) \in Nat
  BY PlayersAssumption, FS_CardinalityType
<1>2. Cardinality(Players) # 0
  BY <1>1, FS_EmptySet
<1>3. o \in [D -> Players] /\ \A i, j \in D : i # j => o[i] # o[j]
  BY DEF SetToSeqs
<1>4. o \in Injection(D, Players)
  BY <1>3 DEF Injection, IsInjective
<1>5. Cardinality(D) = Cardinality(Players)
  BY <1>1, FS_Interval
<1> HIDE DEF D
<1>6. o \in Surjection(D, Players)
  BY <1>1, <1>4, <1>5, FS_Injection
<1>7. \A p \in Players : \E i \in D : o[i] = p
  BY <1>6 DEF Surjection
<1>8. DOMAIN o = D
  BY <1>3
<1>9. 1 \in D
  BY <1>1, <1>2 DEF D
<1> QED BY <1>3, <1>7, <1>8, <1>9 DEF IsOrder, D

FirstTurn(s, o) ==
  [CountGf(s) EXCEPT !.phase = "ACTION_SELECTION", !.order = o, !.active = o[1]]

(* The hands are dealt while nothing can hurt: the end time has not come.    *)
LEMMA DealtIsSound ==
  ASSUME NEW deck \in Decks, NEW o \in SetToSeqs(Players), NEW s \in Dealt(deck)
  PROVE  LET t == FirstTurn(s, o)
         IN /\ Sound(t) /\ t.order = o /\ t.cursor = 1 /\ AskedBy(t) = o[1]
            /\ Alive(t) = Players /\ t.defeated = {} /\ t.gf = 1 /\ t.result = NoResult
            /\ t.phase = "ACTION_SELECTION" /\ Acting(t)
<1> DEFINE wealth(n) == [p \in Players |-> n]
           hp == wealth(StartingWealth.hp)
           mp == wealth(StartingWealth.mp)
           money == wealth(StartingWealth.money)
           alive == [p \in Players |-> TRUE]
           bare == [p \in Players |-> {}]
           guardian == [p \in Players |-> NoGuardian]
           empty == [phase |-> "RESOLVING", gf |-> 0, endTime |-> deck.endTime, endTimeActive |-> FALSE,
                     active |-> "NONE", order |-> Seats, cursor |-> 1, alive |-> alive,
                     hp |-> hp, mp |-> mp, money |-> money, hand |-> bare, learned |-> bare,
                     calamities |-> bare, guardian |-> guardian,
                     pending |-> NoAction, post |-> NoPostTurn, phenomenon |-> NoPhenomenon,
                     then |-> Nothing,
                     defeated |-> {}, result |-> NoResult, deck |-> deck]
           n == Len(Seats)
           list == [i \in 1..(HandSize * n) |-> Seats[((i - 1) % n) + 1]]
<1>1. s \in GrantAll({empty}, list)
  BY DEF Dealt
<1>2. alive \in [Players -> BOOLEAN] /\ HandsFit(bare) /\ Guarded(guardian)
  BY FS_EmptySet, BoundsAssumption DEF HandsFit, HandsOK, Guarded, Guardians
<1>3. Len(list) \in Nat
  BY SeatsList, BoundsAssumption
<1> HIDE DEF list
<1>4. /\ DOMAIN empty = Fields /\ empty.pending = NoAction /\ empty.gf = 0
      /\ empty.endTime = deck.endTime /\ ~empty.endTimeActive /\ empty.cursor = 1
      /\ empty.alive = alive /\ empty.hand = bare /\ empty.learned = bare /\ empty.guardian = guardian
      /\ empty.post = NoPostTurn /\ empty.phenomenon = NoPhenomenon /\ empty.then = Nothing
      /\ empty.defeated = {} /\ empty.result = NoResult /\ empty.deck = deck
  BY DEF Fields
<1> HIDE DEF empty, hp, mp, money, guardian
<1>5. IsState(empty)
  BY <1>2, <1>4, NothingPending DEF IsState, HandsFit
<1>6. Alive(empty) = Players
  BY <1>4 DEF Alive
<1> HIDE DEF alive, bare
<1>7. Effect(empty, s)
  <2>1. Effects(empty, {empty})
    BY <1>5, NoEffectAtAll
  <2>2. Effects(empty, GrantAll({empty}, list))
    BY <1>3, <1>5, <2>1, GrantAllEffect
  <2> QED BY <1>1, <2>2 DEF Effects
<1>8. Alive(s) = Players /\ s.deck = deck
  <2>1. Calm(empty)
    BY <1>4 DEF Calm
  <2>2. Unhurt(empty, {empty})
    BY <1>4 DEF Unhurt, Intact
  <2>3. Unhurt(empty, GrantAll({empty}, list))
    BY <1>3, <1>4, <2>1, <2>2, GrantAllUnhurt
  <2>4. s.alive = empty.alive /\ s.deck = empty.deck
    BY <1>1, <2>3 DEF Unhurt, Intact
  <2> QED BY <1>4, <1>6, <2>4 DEF Alive
<1>9. s.pending = NoAction
  BY <1>4, <1>7 DEF Effect, Kept, SameAction, NoAction
<1>10. /\ IsState(s) /\ s.gf = 0 /\ s.endTime = deck.endTime /\ s.cursor = 1
       /\ s.post = NoPostTurn /\ s.phenomenon = NoPhenomenon /\ s.then = Nothing
       /\ s.defeated = {} /\ s.result = NoResult
  BY <1>4, <1>6, <1>7, <1>8 DEF Effect, Kept
<1> DEFINE t == FirstTurn(s, o)
<1>11. /\ DOMAIN t = Fields /\ t.pending = NoAction /\ t.phase = "ACTION_SELECTION" /\ t.gf = 1
       /\ t.endTime = deck.endTime /\ (t.endTimeActive => t.endTime # Never) /\ t.order = o
       /\ t.cursor = 1 /\ t.alive = s.alive /\ t.hand = s.hand /\ t.learned = s.learned /\ t.guardian = s.guardian
       /\ t.post = NoPostTurn /\ t.phenomenon = NoPhenomenon /\ t.then = Nothing
       /\ t.defeated = {} /\ t.result = NoResult /\ t.deck = deck /\ t.active = o[1]
  <2> DEFINE v == CountGf(s)
  <2>1. /\ DOMAIN v = Fields /\ v.pending = s.pending /\ v.gf = s.gf + 1
        /\ v.endTime = s.endTime /\ (v.endTimeActive => s.endTime # Never)
        /\ v.cursor = s.cursor /\ v.alive = s.alive /\ v.hand = s.hand /\ v.learned = s.learned /\ v.guardian = s.guardian
        /\ v.post = s.post /\ v.phenomenon = s.phenomenon /\ v.then = s.then
        /\ v.defeated = s.defeated /\ v.result = s.result /\ v.deck = s.deck
    BY <1>10 DEF IsState, Fields, CountGf
  <2> HIDE DEF v
  <2>2. t = [v EXCEPT !.phase = "ACTION_SELECTION", !.order = o, !.active = o[1]]
    BY DEF v, FirstTurn
  <2> HIDE DEF t
  <2> QED BY <1>8, <1>9, <1>10, <2>1, <2>2 DEF Fields
<1> HIDE DEF t
<1>12. IsState(t)
  BY <1>10, <1>11, NothingPending DEF IsState
<1>13. Alive(t) = Players
  BY <1>8, <1>11 DEF Alive
<1>14. IsOrder(o) /\ 1 \in DOMAIN o /\ o[1] \in Players
  BY ListsAreOrders
<1>15. AtRest(t)
  BY <1>11, <1>12 DEF AtRest, Running
<1>16. Acting(t) /\ AskedBy(t) = o[1]
  BY <1>11, <1>13, <1>14 DEF Acting, AskedBy
<1>17. Sound(t)
  BY <1>11, <1>12, <1>14, <1>15, <1>16 DEF Sound
<1> QED BY <1>11, <1>13, <1>16, <1>17 DEF t

LEMMA InitIsSound ==
  ASSUME Init
  PROVE  /\ Sound(state) /\ state.cursor = 1 /\ AskedBy(state) = state.order[1]
         /\ Alive(state) = Players /\ state.defeated = {} /\ state.gf = 1
         /\ state.result = NoResult /\ Acting(state)
<1>1. PICK deck \in Decks, o \in SetToSeqs(Players) :
        \E s \in Dealt(deck) :
          state = [CountGf(s) EXCEPT !.phase = "ACTION_SELECTION", !.order = o, !.active = o[1]]
  BY DEF Init
<1>2. PICK s \in Dealt(deck) :
        state = [CountGf(s) EXCEPT !.phase = "ACTION_SELECTION", !.order = o, !.active = o[1]]
  BY <1>1
<1> DEFINE t == FirstTurn(s, o)
<1>3. /\ Sound(t) /\ t.order = o /\ t.cursor = 1 /\ AskedBy(t) = o[1]
      /\ Alive(t) = Players /\ t.defeated = {} /\ t.gf = 1 /\ t.result = NoResult /\ Acting(t)
  BY DealtIsSound
<1> HIDE DEF t
<1>4. state = t
  BY <1>2 DEF t, FirstTurn
<1> QED BY <1>3, <1>4

-----------------------------------------------------------------------------
(* Theorems *)

LEMMA Soundness == Spec => []Sound(state)
<1>1. Init => Sound(state)
  BY InitIsSound
<1>2. Sound(state) /\ [Next]_vars => Sound(state)'
  BY NextKeepsSound
<1> QED BY <1>1, <1>2, PTL DEF Spec

(* Whoever is asked for his reaction is asked about what somebody else did.  *)
THEOREM NobodyReactsToHimself == Spec => []SelfIsNeverAsked
<1>1. Sound(state) => SelfIsNeverAsked
  BY DEF Sound, Acting, Reacting, Confirming, SelfIsNeverAsked
<1> QED BY <1>1, Soundness, PTL

(* A turn starts with everything of the one before it done, but a confusion  *)
(* that an attack of its own cut short: nothing is pending, no guardian is   *)
(* left, nobody counts as lost, and the match is not decided.                *)
TurnOpensClean ==
  state.phase = "ACTION_SELECTION" =>
    /\ state.pending = NoAction /\ state.post = NoPostTurn /\ state.defeated = {}
    /\ ResultOf(state) = NoResult
TwoTeams == \E p, q \in Players : Team[p] # Team[q]
Divided(s) == s.phase = "ACTION_SELECTION" => \E p, q \in Alive(s) : Team[p] # Team[q]

THEOREM EveryTurnOpensClean == TwoTeams => (Spec => []TurnOpensClean)
<1> SUFFICES ASSUME TwoTeams
             PROVE  Spec => []TurnOpensClean
  OBVIOUS
<1> DEFINE I == Sound(state) /\ Divided(state)
<1>1. Init => I
  BY InitIsSound DEF Divided, TwoTeams
<1>2. I /\ [Next]_vars => I'
  <2> SUFFICES ASSUME I, [Next]_vars
               PROVE  I'
    OBVIOUS
  <2>1. Sound(state') /\ (state' = state \/ TurnStep(state, state'))
    BY NextKeepsSound
  <2>2. Divided(state')
    <3>1. CASE state' = state
      BY <3>1
    <3>2. CASE Passes(state, state')
      <4>1. currentMatchResult(Alive(state'), state.defeated \cup (Alive(state) \ Alive(state'))) = NoResult
        BY <3>2 DEF Passes
      <4> QED BY <4>1 DEF Divided, currentMatchResult, NoResult, Draw
    <3>3. CASE TurnStep(state, state') /\ ~Passes(state, state')
      <4>1. state'.phase # "ACTION_SELECTION"
        BY <3>3 DEF TurnStep, Interrupts, Finishes
      <4> QED BY <4>1 DEF Divided
    <3> QED BY <2>1, <3>1, <3>2, <3>3
  <2> QED BY <2>1, <2>2
<1>3. I => TurnOpensClean
  <2> SUFFICES ASSUME I, state.phase = "ACTION_SELECTION"
               PROVE  TurnOpensClean
    BY DEF TurnOpensClean
  <2>1. Acting(state)
    BY DEF Sound, Reacting, Confirming
  <2>2. PICK p, q \in Alive(state) : Team[p] # Team[q]
    BY DEF Divided
  <2>3. Cardinality(state.defeated) = 0
    BY <2>1, FS_EmptySet DEF Acting
  <2>4. ResultOf(state) = NoResult
    BY <2>2, <2>3 DEF ResultOf, currentMatchResult
  <2> QED BY <2>1, <2>4 DEF TurnOpensClean, Acting
<1> QED BY <1>1, <1>2, <1>3, PTL DEF Spec

(* Nobody who is lost is asked to act or to react, and nobody at all once    *)
(* the match is over.                                                        *)
AskedToPlayIsAlive ==
  /\ state.phase \in {"ACTION_SELECTION", "REACTION_SELECTION"} => AskedPlayer \in Alive(state)
  /\ state.result # NoResult => AskedPlayer = "NONE"
THEOREM OnlyTheLivingPlay == Spec => []AskedToPlayIsAlive
<1>1. Sound(state) => AskedToPlayIsAlive
  BY DEF Sound, Acting, Reacting, Confirming, AskedToPlayIsAlive, AskedPlayer, AtRest, Running
<1> QED BY <1>1, Soundness, PTL

(* A match that was won was won by everybody left, who are of one team.      *)
THEOREM WinnersAreWhoIsLeft == Spec => []Turns!WinnersAreOneTeam
<1>1. Sound(state) => Turns!WinnersAreOneTeam
  BY DEF Sound, AtRest, Running, Turns!WinnersAreOneTeam, currentMatchResult, NoResult, Draw
<1> QED BY <1>1, Soundness, PTL

(* However cards come to a player - granted, drawn again, bought, dealt by a  *)
(* phenomenon - his hand never exceeds the limit.                            *)
HandsAreLimited == \A p \in Players : Cardinality(state.hand[p]) <= MaxHand
THEOREM HandsStayWithinLimit == Spec => []HandsAreLimited
<1>1. Sound(state) => HandsAreLimited
  BY DEF Sound, IsState, HandsFit, HandsAreLimited
<1> QED BY <1>1, Soundness, PTL

(* No two players have the same guardian.                                    *)
GuardiansDiffer ==
  \A p, q \in Players :
    p # q /\ state.guardian[p] # NoGuardian => state.guardian[p] # state.guardian[q]
THEOREM GuardiansStayDifferent == Spec => []GuardiansDiffer
<1>1. Sound(state) => GuardiansDiffer
  BY DEF Sound, IsState, Guarded, GuardiansDiffer
<1> QED BY <1>1, Soundness, PTL

-----------------------------------------------------------------------------
(* The turn protocol *)

(* The only step that is none of the protocol: the cards a seller defended   *)
(* with are replaced before the buyer is asked, the end time has come, and a *)
(* demon killed the buyer (engine.ts, resolvePurchase).                      *)
LostBuyerAsked ==
  /\ Turns!Losing
  /\ AskedPlayer' \in Alive(state) \ Alive(state') /\ state'.phase = "TRADE_CONFIRMATION"
  /\ ~Calm(state')
  /\ state'.gf \in Nat /\ state'.gf >= state.gf
  /\ state'.cursor = state.cursor /\ state'.result = state.result

LEMMA TurnsRules ==
  /\ Turns!NoResult = NoResult
  /\ \A S : Turns!Cardinality(S) = Cardinality(S)
  /\ \A alive, lost : Turns!currentMatchResult(alive, lost) = currentMatchResult(alive, lost)
  /\ \A o, c, alive : Turns!NextAlive(o, c, alive) = NextAlive(o, c, alive)
<1>1. \A S : Turns!Cardinality(S) = Cardinality(S)
  BY DEF Turns!Cardinality, Cardinality
<1>2. Turns!NoResult = NoResult /\ Turns!Draw = Draw
  BY DEF Turns!NoResult, NoResult, Turns!Draw, Draw
<1>3. \A alive, lost : Turns!currentMatchResult(alive, lost) = currentMatchResult(alive, lost)
  BY <1>1, <1>2 DEF Turns!currentMatchResult, currentMatchResult
<1>4. \A o, c, alive : Turns!NextAlive(o, c, alive) = NextAlive(o, c, alive)
  BY DEF Turns!NextAlive, NextAlive
<1> QED BY <1>1, <1>2, <1>3, <1>4

LEMMA InitIsTurnsInit == Init => Turns!Init
<1> SUFFICES ASSUME Init
             PROVE  Turns!Init
  OBVIOUS
<1>1. /\ Sound(state) /\ state.cursor = 1 /\ AskedBy(state) = state.order[1]
      /\ Alive(state) = Players /\ state.defeated = {} /\ state.gf = 1
      /\ state.result = NoResult
  BY InitIsSound
<1>2. state.order \in Turns!Orders
  BY <1>1, TurnsRules DEF Turns!Orders, Sound, IsOrder
<1>3. AskedPlayer = AskedBy(state)
  BY DEF AskedPlayer, AskedBy
<1> QED BY <1>1, <1>2, <1>3, TurnsRules DEF Turns!Init

LEMMA NextIsTurnsNext ==
  ASSUME Sound(state), [Next]_vars
  PROVE  [Turns!Next \/ LostBuyerAsked]_(Turns!turnVars)
<1>1. Sound(state') /\ (state' = state \/ TurnStep(state, state'))
  BY NextKeepsSound
<1>2. AskedPlayer = AskedBy(state) /\ AskedPlayer' = AskedBy(state')
  BY DEF AskedPlayer, AskedBy
<1>3. CASE state' = state
  BY <1>3 DEF Turns!turnVars, AskedPlayer
<1>4. CASE Interrupts(state, state') /\ AskedBy(state') \in Alive(state')
  <2>1. Turns!Losing
    BY <1>4, TurnsRules DEF Turns!Losing, Interrupts
  <2> QED BY <1>2, <1>4, <2>1 DEF Turns!Next, Turns!Interrupt, Interrupts
<1>5. CASE /\ Interrupts(state, state') /\ state'.phase = "TRADE_CONFIRMATION"
           /\ AskedBy(state') \in Alive(state) \ Alive(state') /\ ~Calm(state')
  <2>1. Turns!Losing
    BY <1>5, TurnsRules DEF Turns!Losing, Interrupts
  <2> QED BY <1>2, <1>5, <2>1 DEF LostBuyerAsked, Interrupts
<1>6. CASE Passes(state, state')
  BY <1>2, <1>6, TurnsRules DEF Turns!Next, Turns!Pass, Passes
<1>7. CASE Finishes(state, state')
  <2>1. Turns!Losing
    BY <1>7, TurnsRules DEF Turns!Losing, Finishes
  <2> QED BY <1>2, <1>7, <2>1, TurnsRules DEF Turns!Next, Turns!Finish, Finishes
<1> QED BY <1>1, <1>3, <1>4, <1>5, <1>6, <1>7 DEF TurnStep

(* Whatever the cards do, every command is a step of the turn protocol, or   *)
(* asks a buyer who was lost to a demon a moment ago.                        *)
THEOREM EngineKeepsTurns ==
  Spec => Turns!Init /\ [][Turns!Next \/ LostBuyerAsked]_(Turns!turnVars)
<1>1. Sound(state) /\ [Next]_vars => [Turns!Next \/ LostBuyerAsked]_(Turns!turnVars)
  BY NextIsTurnsNext
<1> QED BY <1>1, InitIsTurnsInit, Soundness, PTL DEF Spec

(* Where no demon kills, the engine implements the protocol.                 *)
DemonsAreHarmless ==
  \A d \in Decks : d.endTime = Never \/ \A k \in d.demons : ~(k.damage > 0)
THEOREM EngineImplementsTurns == DemonsAreHarmless => (Spec => TurnProtocolHolds)
<1> SUFFICES ASSUME DemonsAreHarmless
             PROVE  Spec => TurnProtocolHolds
  OBVIOUS
<1>1. Sound(state) /\ Sound(state)' /\ [Next]_vars => [Turns!Next]_(Turns!turnVars)
  <2> SUFFICES ASSUME Sound(state), Sound(state'), [Next]_vars
               PROVE  [Turns!Next]_(Turns!turnVars)
    OBVIOUS
  <2>1. [Turns!Next \/ LostBuyerAsked]_(Turns!turnVars)
    BY NextIsTurnsNext
  <2>2. ~LostBuyerAsked
    <3> SUFFICES ASSUME LostBuyerAsked
                 PROVE  FALSE
      OBVIOUS
    <3>1. AtRest(state') /\ ~Calm(state')
      BY DEF LostBuyerAsked, Sound
    <3> QED BY <3>1 DEF Calm, AtRest, Running, Sound, DemonsAreHarmless
  <2> QED BY <2>1, <2>2
<1> QED BY <1>1, InitIsTurnsInit, Soundness, PTL DEF Spec, TurnProtocolHolds, Turns!Spec
=============================================================================
