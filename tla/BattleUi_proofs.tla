--------------------------- MODULE BattleUi_proofs ---------------------------
(***************************************************************************)
(* Proofs about BattleUi.  The inductive invariant says what the snapshots  *)
(* that are about - the server's, the one on the screen, those on the       *)
(* socket and in answers - have in common: one revision is one snapshot,    *)
(* and the interface knows the deadline and the reaction of the snapshot    *)
(* that has its own revision.                                              *)
(***************************************************************************)
EXTENDS BattleUi, FiniteSetTheorems, WellFoundedInduction, TLAPS

-----------------------------------------------------------------------------
(* What is found among the actions offered *)

LEMMA MinIsThere ==
  ASSUME NEW S \in SUBSET Nat, S # {}
  PROVE  Min(S) \in S
<1>1. PICK n \in S : \A m \in S : ~(<<m, n>> \in OpToRel(<, Nat))
  BY NatLessThanWellFounded, WFMin
<1>2. \A m \in S : ~(m < n)
  BY <1>1 DEF OpToRel
<1>3. \A m \in S : n <= m
  BY <1>2
<1> QED BY <1>3 DEF Min

(* The first of some of the actions is one of them.                          *)
LEMMA FirstHit ==
  ASSUME NEW v, v.situation \in Situations,
         NEW hits \in SUBSET DOMAIN v.situation.actions, hits # {}
  PROVE  /\ Min(hits) \in hits
         /\ v.situation.actions[Min(hits)] \in ToSet(v.situation.actions)
<1> DEFINE actions == v.situation.actions
<1>1. actions \in Seq(ToSet(actions))
  BY SituationsAssumption
<1>2. hits \subseteq Nat
  BY <1>1
<1>3. Min(hits) \in hits
  BY <1>2, MinIsThere
<1> QED BY <1>1, <1>3 DEF ToSet

LEMMA FirstOfferIsOffered ==
  ASSUME NEW v, v.situation \in Situations, NEW type, FirstOffer(v, type) # None
  PROVE  FirstOffer(v, type) \in Offers(v, type)
<1> DEFINE hits == {i \in DOMAIN v.situation.actions : v.situation.actions[i].type = type}
<1>1. hits # {} /\ FirstOffer(v, type) = v.situation.actions[Min(hits)]
  BY DEF FirstOffer, Find
<1>2. hits \in SUBSET DOMAIN v.situation.actions
  OBVIOUS
<1>3. Min(hits) \in hits /\ v.situation.actions[Min(hits)] \in ToSet(v.situation.actions)
  BY ONLY v.situation \in Situations, <1>1, <1>2, FirstHit
<1> QED BY <1>1, <1>3 DEF Offers

(* The action that is chosen is offered, and the choice covers it.            *)
LEMMA ActiveIsOffered ==
  ASSUME NEW u, NEW v, v.situation \in Situations, selectedDeclareAction(u, v) # None
  PROVE  LET a == selectedDeclareAction(u, v) IN
         /\ a \in Offers(v, "DECLARE_ACTION")
         /\ a.needs \subseteq u.chosen /\ u.chosen \subseteq a.needs \cup a.additive
<1> DEFINE actions == v.situation.actions
           hits == {i \in DOMAIN actions : /\ actions[i].type = "DECLARE_ACTION"
                                           /\ actions[i].needs \subseteq u.chosen
                                           /\ u.chosen \subseteq actions[i].needs
                                                                   \cup actions[i].additive}
<1>1. hits # {} /\ selectedDeclareAction(u, v) = actions[Min(hits)]
  BY DEF selectedDeclareAction, Find
<1>2. hits \in SUBSET DOMAIN v.situation.actions
  OBVIOUS
<1>3. Min(hits) \in hits /\ actions[Min(hits)] \in ToSet(actions)
  BY ONLY v.situation \in Situations, <1>1, <1>2, FirstHit
<1> QED BY <1>1, <1>3 DEF Offers

(* The action a draft stands for is offered for its card.                    *)
LEMMA TradeIsOffered ==
  ASSUME NEW draft, NEW v, v.situation \in Situations, tradeActionForDraft(draft, v) # None
  PROVE  /\ draft # None
         /\ tradeActionForDraft(draft, v) \in Offers(v, draft.type)
         /\ draft.card \in tradeActionForDraft(draft, v).cards
<1> DEFINE actions == v.situation.actions
           hits == {i \in DOMAIN actions : actions[i].type = draft.type
                                             /\ draft.card \in actions[i].cards}
<1>1. draft # None /\ hits # {} /\ tradeActionForDraft(draft, v) = actions[Min(hits)]
  BY DEF tradeActionForDraft, Find
<1>2. hits \in SUBSET DOMAIN v.situation.actions
  OBVIOUS
<1>3. Min(hits) \in hits /\ actions[Min(hits)] \in ToSet(actions)
  BY ONLY v.situation \in Situations, <1>1, <1>2, FirstHit
<1> QED BY <1>1, <1>3 DEF Offers

(* A source that is the primary of an action chooses what is the player's.    *)
LEMMA PrimaryIsOffered ==
  ASSUME NEW c, NEW v, v.situation \in Situations,
         primaryAction(c, v) # None
  PROVE  primaryAction(c, v).needs \subseteq Cards \cup Miracles
<1> DEFINE actions == v.situation.actions
           hits == {i \in DOMAIN actions : actions[i].type = "DECLARE_ACTION"
                                             /\ actions[i].primary = c}
<1>1. hits # {} /\ primaryAction(c, v) = actions[Min(hits)]
  BY DEF primaryAction, Find
<1>2. hits \in SUBSET DOMAIN v.situation.actions
  OBVIOUS
<1>3. Min(hits) \in hits /\ actions[Min(hits)] \in ToSet(actions)
  BY ONLY v.situation \in Situations, <1>1, <1>2, FirstHit
<1> QED BY <1>1, <1>3, SituationsAssumption DEF Offers

-----------------------------------------------------------------------------
(* Clicks *)

(* What a click may change: the picks, and whether a target is being chosen.  *)
Composes(u, w) ==
  /\ InterfaceOK(w)
  /\ w.revision = u.revision /\ w.deadline = u.deadline /\ w.expired = u.expired
  /\ w.reaction = u.reaction /\ w.awaiting = u.awaiting /\ w.locked = u.locked
  /\ w.mode = u.mode \/ {u.mode, w.mode} \subseteq {"COMPOSING_ACTION", "CHOOSING_TARGET"}

Sources == Cards \cup Miracles

LEMMA ComposesItself ==
  ASSUME NEW u, InterfaceOK(u)
  PROVE  Composes(u, u)
BY DEF Composes

LEMMA TargetComposes ==
  ASSUME NEW u, NEW p, NEW v, InterfaceOK(u)
  PROVE  Composes(u, selectTarget(u, p, v)) /\ selectTarget(u, p, v).defence = u.defence
<1>1. CASE selectTarget(u, p, v) = u
  BY <1>1, ComposesItself
<1>2. CASE selectTarget(u, p, v) # u
  <2> DEFINE w == [u EXCEPT !.mode = "COMPOSING_ACTION", !.target = p, !.lastTarget = p,
                            !.invalid = FALSE]
  <2>1. selectTarget(u, p, v) = w /\ Acting(u)
    BY <1>2 DEF selectTarget
  <2>2. Composes(u, w) /\ w.defence = u.defence
    BY <2>1 DEF Composes, InterfaceOK, HumanInputModes, initialUiState, Acting
  <2> QED BY <2>1, <2>2
<1> QED BY <1>1, <1>2

LEMMA ClearingComposes ==
  ASSUME NEW u, InterfaceOK(u), Acting(u)
  PROVE  /\ Composes(u, clearSelectedAction(u))
         /\ clearSelectedAction(u).defence = u.defence
         /\ clearSelectedAction(u).mode = "COMPOSING_ACTION"
BY DEF Composes, InterfaceOK, HumanInputModes, initialUiState, Acting, clearSelectedAction

LEMMA ChoosingComposes ==
  ASSUME NEW u, InterfaceOK(u), Acting(u), NEW a, a.needs \subseteq Sources
  PROVE  Composes(u, withSelectedAction(u, a)) /\ withSelectedAction(u, a).defence = u.defence
<1> DEFINE target == PreferredTarget(u, a.targets)
           mode == IF Len(a.targets) > 1 THEN "CHOOSING_TARGET" ELSE "COMPOSING_ACTION"
<1>1. withSelectedAction(u, a) =
        [u EXCEPT !.mode = mode, !.chosen = a.needs, !.exchange = None, !.trade = None,
                  !.target = target, !.lastTarget = target, !.invalid = FALSE]
  BY DEF withSelectedAction
<1>2. mode \in {"CHOOSING_TARGET", "COMPOSING_ACTION"}
  OBVIOUS
<1> HIDE DEF target, mode
<1> QED BY <1>1, <1>2 DEF Composes, InterfaceOK, HumanInputModes, initialUiState, Acting, Sources

LEMMA SourceComposes ==
  ASSUME NEW u, InterfaceOK(u), NEW c \in Sources, NEW v, v.situation \in Situations
  PROVE  Composes(u, selectSource(u, c, v)) /\ selectSource(u, c, v).defence = u.defence
<1> DEFINE active == selectedDeclareAction(u, v)
           primary == primaryAction(c, v)
           w == selectSource(u, c, v)
<1>1. \/ w = u
      \/ /\ Acting(u) /\ active # None
         /\ w = [u EXCEPT !.chosen = Toggle(@, c), !.invalid = FALSE]
      \/ Acting(u) /\ w = [u EXCEPT !.invalid = TRUE]
      \/ Acting(u) /\ w = clearSelectedAction(u)
      \/ Acting(u) /\ primary # None /\ w = withSelectedAction(u, primary)
  BY DEF selectSource
<1>2. primary # None => primary.needs \subseteq Sources
  BY PrimaryIsOffered DEF Sources
<1> SUFFICES Composes(u, w) /\ w.defence = u.defence
  OBVIOUS
<1> HIDE DEF primary, w
<1>3. CASE w = u
  BY <1>3, ComposesItself
<1>4. CASE Acting(u) /\ w = [u EXCEPT !.chosen = Toggle(@, c), !.invalid = FALSE]
  <2>1. Toggle(u.chosen, c) \subseteq Sources
    BY DEF Toggle, Sources, InterfaceOK
  <2> QED BY <1>4, <2>1 DEF Composes, InterfaceOK, HumanInputModes, initialUiState, Acting, Sources
<1>5. CASE Acting(u) /\ w = [u EXCEPT !.invalid = TRUE]
  BY <1>5 DEF Composes, InterfaceOK, HumanInputModes, initialUiState
<1>6. CASE Acting(u) /\ w = clearSelectedAction(u)
  BY <1>6, ClearingComposes
<1>7. CASE Acting(u) /\ primary # None /\ w = withSelectedAction(u, primary)
  BY <1>2, <1>7, ChoosingComposes
<1> QED BY <1>1, <1>3, <1>4, <1>5, <1>6, <1>7

LEMMA HandComposes ==
  ASSUME NEW u, InterfaceOK(u), NEW type \in HandModes, NEW c, NEW v
  PROVE  /\ Composes(u, toggleHandActionMode(u, type))
         /\ toggleHandActionMode(u, type).defence = u.defence
         /\ Composes(u, toggleHandActionCard(u, c, v))
         /\ toggleHandActionCard(u, c, v).defence = u.defence
<1>1. Composes(u, toggleHandActionMode(u, type))
        /\ toggleHandActionMode(u, type).defence = u.defence
  <2>1. CASE toggleHandActionMode(u, type) = u
    BY <2>1, ComposesItself
  <2>2. CASE toggleHandActionMode(u, type) # u
    <3> DEFINE w == [u EXCEPT !.handMode = IF @ = type THEN None ELSE type, !.handCards = {},
                              !.exchange = None, !.trade = None, !.chosen = {},
                              !.target = None, !.invalid = FALSE]
    <3>1. toggleHandActionMode(u, type) = w /\ Open(u)
      BY <2>2 DEF toggleHandActionMode
    <3>2. Composes(u, w) /\ w.defence = u.defence
      BY <3>1 DEF Composes, InterfaceOK, HumanInputModes, initialUiState, Open
    <3> QED BY <3>1, <3>2
  <2> QED BY <2>1, <2>2
<1>2. Composes(u, toggleHandActionCard(u, c, v))
        /\ toggleHandActionCard(u, c, v).defence = u.defence
  <2>1. \/ toggleHandActionCard(u, c, v) = u
        \/ toggleHandActionCard(u, c, v) = [u EXCEPT !.handCards = Toggle(@, c)]
    BY DEF toggleHandActionCard
  <2>2. CASE toggleHandActionCard(u, c, v) = u
    BY <2>2, ComposesItself
  <2>3. CASE toggleHandActionCard(u, c, v) = [u EXCEPT !.handCards = Toggle(@, c)]
    BY <2>3 DEF Composes, InterfaceOK, HumanInputModes, initialUiState
  <2> QED BY <2>1, <2>2, <2>3
<1> QED BY <1>1, <1>2

LEMMA TradeComposes ==
  ASSUME NEW u, InterfaceOK(u), NEW type, NEW c, NEW v
  PROVE  /\ Composes(u, toggleTradeDraft(u, type, c, v))
         /\ toggleTradeDraft(u, type, c, v).defence = u.defence
<1> DEFINE draft == [type |-> type, card |-> c, product |-> None]
           target == PreferredTarget(u, tradeActionForDraft(draft, v).targets)
           cleared == clearSelectedAction(u)
           w == toggleTradeDraft(u, type, c, v)
<1>1. \/ w = u
      \/ Acting(u) /\ w = cleared
      \/ /\ Acting(u)
         /\ w = [cleared EXCEPT
                   !.handMode = None, !.handCards = {}, !.exchange = None, !.trade = draft,
                   !.target = target, !.lastTarget = target]
  BY DEF toggleTradeDraft
<1> SUFFICES Composes(u, w) /\ w.defence = u.defence
  OBVIOUS
<1> HIDE DEF draft, target, w
<1>2. CASE w = u
  BY <1>2, ComposesItself
<1>3. CASE Acting(u) /\ w = cleared
  BY <1>3, ClearingComposes
<1>4. CASE /\ Acting(u)
           /\ w = [cleared EXCEPT
                     !.handMode = None, !.handCards = {}, !.exchange = None, !.trade = draft,
                     !.target = target, !.lastTarget = target]
  <2>1. Composes(u, cleared) /\ cleared.defence = u.defence
          /\ cleared.mode = "COMPOSING_ACTION"
    BY <1>4, ClearingComposes
  <2> HIDE DEF cleared
  <2> QED BY <1>4, <2>1 DEF Composes, InterfaceOK, HumanInputModes, initialUiState
<1> QED BY <1>1, <1>2, <1>3, <1>4

LEMMA ProductComposes ==
  ASSUME NEW u, InterfaceOK(u), NEW c, NEW v
  PROVE  /\ Composes(u, toggleTradeProduct(u, c, v))
         /\ toggleTradeProduct(u, c, v).defence = u.defence
<1> DEFINE w == [u EXCEPT !.trade.product = IF u.trade.product = c THEN None ELSE c]
<1>1. \/ toggleTradeProduct(u, c, v) = u
      \/ toggleTradeProduct(u, c, v) = w /\ u.trade # None
  BY DEF toggleTradeProduct, tradeActionForDraft
<1>2. CASE toggleTradeProduct(u, c, v) = u
  BY <1>2, ComposesItself
<1>3. CASE toggleTradeProduct(u, c, v) = w /\ u.trade # None
  BY <1>3 DEF Composes, InterfaceOK, HumanInputModes, initialUiState
<1> QED BY <1>1, <1>2, <1>3

LEMMA ExchangeComposes ==
  ASSUME NEW u, InterfaceOK(u), NEW c, NEW v
  PROVE  /\ Composes(u, toggleExchangeDraft(u, c, v))
         /\ toggleExchangeDraft(u, c, v).defence = u.defence
<1> DEFINE draft == [card |-> c, total |-> FirstOffer(v, "EXCHANGE_RESOURCES").total]
           cleared == clearSelectedAction(u)
           w == toggleExchangeDraft(u, c, v)
<1>1. \/ w = u
      \/ w = [u EXCEPT !.exchange = None]
      \/ /\ Acting(u)
         /\ w = [cleared EXCEPT !.handMode = None, !.handCards = {}, !.exchange = draft]
  BY DEF toggleExchangeDraft
<1> SUFFICES Composes(u, w) /\ w.defence = u.defence
  OBVIOUS
<1> HIDE DEF draft, w
<1>2. CASE w = u
  BY <1>2, ComposesItself
<1>3. CASE w = [u EXCEPT !.exchange = None]
  BY <1>3 DEF Composes, InterfaceOK, HumanInputModes, initialUiState
<1>4. CASE /\ Acting(u)
           /\ w = [cleared EXCEPT !.handMode = None, !.handCards = {}, !.exchange = draft]
  <2>1. Composes(u, cleared) /\ cleared.defence = u.defence
          /\ cleared.mode = "COMPOSING_ACTION"
    BY <1>4, ClearingComposes
  <2> HIDE DEF cleared
  <2> QED BY <1>4, <2>1 DEF Composes, InterfaceOK, HumanInputModes, initialUiState
<1> QED BY <1>1, <1>2, <1>3, <1>4

-----------------------------------------------------------------------------
(* Defences *)

LEMMA DefenceComposes ==
  ASSUME NEW u, InterfaceOK(u), NEW c \in Sources, NEW v
  PROVE  Composes(u, selectDefence(u, c, v))
<1> DEFINE r == declareReaction(v)
           pruned == pruneFilterOnlySelections(r, u.defence \ {c})
           w == selectDefence(u, c, v)
<1>1. \/ w = u
      \/ \E b \in BOOLEAN : w = [u EXCEPT !.invalid = b]
      \/ /\ u.mode = "COMPOSING_REACTION"
         /\ \E d \in {pruned, u.defence \cup {c}} :
              w = [u EXCEPT !.defence = d, !.invalid = FALSE]
  <2>1. u.invalid \in BOOLEAN
    BY DEF InterfaceOK
  <2>2. (u.invalid \/ (r # None => c \notin r.filterOnly)) \in BOOLEAN
    OBVIOUS
  <2> QED BY <2>1, <2>2 DEF selectDefence
<1>2. pruned \subseteq u.defence
  BY DEF pruneFilterOnlySelections
<1> SUFFICES Composes(u, w)
  OBVIOUS
<1> HIDE DEF pruned, w
<1>3. CASE w = u
  BY <1>3, ComposesItself
<1>4. CASE \E b \in BOOLEAN : w = [u EXCEPT !.invalid = b]
  BY <1>4 DEF Composes, InterfaceOK, HumanInputModes, initialUiState
<1>5. CASE /\ u.mode = "COMPOSING_REACTION"
           /\ \E d \in {pruned, u.defence \cup {c}} :
                w = [u EXCEPT !.defence = d, !.invalid = FALSE]
  <2>1. PICK d \in {pruned, u.defence \cup {c}} :
          w = [u EXCEPT !.defence = d, !.invalid = FALSE]
    BY <1>5
  <2>2. d \subseteq Sources
    BY <1>2 DEF InterfaceOK, Sources
  <2> QED BY <1>5, <2>1, <2>2 DEF Composes, InterfaceOK, HumanInputModes, initialUiState, Sources
<1> QED BY <1>1, <1>3, <1>4, <1>5

(* A click on the snapshot that asked for the reaction keeps the defence      *)
(* acceptable.                                                               *)
LEMMA DefenceStaysAccepted ==
  ASSUME NEW u, InterfaceOK(u), NEW c \in Sources, NEW v, v.situation \in Situations,
         declareReaction(v) # None => Accepted(declareReaction(v), u.defence)
  PROVE  declareReaction(v) # None
           => Accepted(declareReaction(v), selectDefence(u, c, v).defence)
<1> DEFINE r == declareReaction(v)
           pruned == pruneFilterOnlySelections(r, u.defence \ {c})
           w == selectDefence(u, c, v)
<1> SUFFICES ASSUME r # None
             PROVE  Accepted(r, w.defence)
  OBVIOUS
<1>1. Accepted(r, u.defence)
  OBVIOUS
<1>2. IsFiniteSet(r.sources) /\ r.maxCards \in Nat
  <2>1. r \in Offers(v, "DECLARE_REACTION")
    BY FirstOfferIsOffered DEF declareReaction
  <2> QED BY <2>1, SituationsAssumption DEF Offers
<1>3. IsFiniteSet(u.defence) /\ IsFiniteSet(u.defence \ Miracles)
        /\ Cardinality(u.defence \ Miracles) \in Nat
  BY <1>1, <1>2, FS_Subset, FS_CardinalityType DEF Accepted
<1>4. \/ w.defence = u.defence
      \/ w.defence = pruned
      \/ /\ reactionSourceAvailable(r, u.defence, c)
         /\ c \in Miracles \/ ~(Cardinality(u.defence \ Miracles) >= r.maxCards)
         /\ w.defence = u.defence \cup {c}
  BY DEF selectDefence, InterfaceOK, initialUiState
<1>5. CASE w.defence = u.defence
  BY <1>1, <1>5
<1>6. CASE w.defence = pruned
  <2>1. pruned \subseteq u.defence
    BY DEF pruneFilterOnlySelections
  <2>2. Cardinality(pruned \ Miracles) <= Cardinality(u.defence \ Miracles)
    <3>1. pruned \ Miracles \subseteq u.defence \ Miracles
      BY <2>1
    <3> QED BY <1>3, <3>1, FS_Subset
  <2>3. Cardinality(pruned \ Miracles) \in Nat
    BY <1>3, <2>1, FS_Subset, FS_CardinalityType
  <2>4. Cardinality(pruned \ Miracles) <= r.maxCards
    BY <1>1, <1>2, <1>3, <2>2, <2>3 DEF Accepted
  <2>5. pruned \cap r.filterOnly # {} => pruned \cap r.filters # {}
    BY DEF pruneFilterOnlySelections
  <2>6. pruned \subseteq r.sources
    BY <1>1, <2>1 DEF Accepted
  <2> HIDE DEF pruned
  <2> QED BY <1>6, <2>4, <2>5, <2>6 DEF Accepted
<1>7. CASE /\ reactionSourceAvailable(r, u.defence, c)
           /\ c \in Miracles \/ ~(Cardinality(u.defence \ Miracles) >= r.maxCards)
           /\ w.defence = u.defence \cup {c}
  <2> DEFINE d == u.defence \cup {c}
  <2>1. Cardinality(d \ Miracles) <= r.maxCards
    <3>1. CASE c \in Miracles \/ c \in u.defence
      <4>1. d \ Miracles = u.defence \ Miracles
        BY <3>1
      <4> QED BY <1>1, <4>1 DEF Accepted
    <3>2. CASE ~(c \in Miracles \/ c \in u.defence)
      <4>1. d \ Miracles = (u.defence \ Miracles) \cup {c} /\ c \notin u.defence \ Miracles
        BY <3>2
      <4>2. Cardinality(d \ Miracles) = Cardinality(u.defence \ Miracles) + 1
        BY <1>3, <4>1, FS_AddElement
      <4> QED BY <1>2, <1>3, <1>7, <3>2, <4>2
    <3> QED BY <3>1, <3>2
  <2>2. d \subseteq r.sources /\ (d \cap r.filterOnly # {} => d \cap r.filters # {})
    BY <1>1, <1>7 DEF Accepted, reactionSourceAvailable
  <2> QED BY <1>7, <2>1, <2>2 DEF Accepted
<1> QED BY <1>4, <1>5, <1>6, <1>7

-----------------------------------------------------------------------------
(* Snapshots and the clock *)

LEMMA ModesAreDerived ==
  ASSUME NEW v
  PROVE  deriveMode(v) \in {"MATCH_RESULT", "SPECTATING", "WAITING", "CONFIRMING_TRADE",
                            "COMPOSING_REACTION", "COMPOSING_ACTION", "RESOLVING"}
BY DEF deriveMode

(* How the interface follows a snapshot that is not older than itself.        *)
Follows(u, v, w) ==
  /\ InterfaceOK(w)
  /\ w.revision = v.revision /\ w.deadline = v.deadline /\ w.reaction = reactionIdOf(v)
  /\ w.expired <=> AwaitsTimeout(u, v)
  /\ w.mode = IF AwaitsTimeout(u, v) THEN "RESOLVING" ELSE deriveMode(v)
  /\ w.awaiting = IF u.revision # v.revision \/ AwaitsTimeout(u, v) THEN None ELSE u.awaiting
  /\ w.locked <=> AwaitsTimeout(u, v) \/ (u.locked /\ u.revision = v.revision)
  /\ w.defence = {} \/ (w.defence = u.defence /\ w.reaction = u.reaction)

LEMMA SynchronizedFollows ==
  ASSUME NEW u, InterfaceOK(u), NEW v \in Views
  PROVE  Follows(u, v, Synchronized(u, v))
<1> DEFINE newer == u.revision # v.revision
           waits == AwaitsTimeout(u, v)
           mode == IF waits THEN "RESOLVING" ELSE deriveMode(v)
           target == PreferredTarget(u, legalTargetIds(v))
           sameTurn == mode = "COMPOSING_ACTION" /\ ~newer
           reaction == reactionIdOf(v)
           sameReaction == u.reaction = reaction
           handMode == IF sameTurn THEN u.handMode ELSE None
           handCards == IF sameTurn THEN u.handCards ELSE {}
           exchange == IF sameTurn THEN u.exchange ELSE None
           trade == IF sameTurn THEN u.trade ELSE None
           chosen == IF mode = "COMPOSING_ACTION" THEN u.chosen ELSE {}
           defence == IF mode = "COMPOSING_REACTION" /\ sameReaction THEN u.defence ELSE {}
           awaiting == IF newer \/ waits THEN None ELSE u.awaiting
           locked == waits \/ (u.locked /\ ~newer)
           invalid == u.invalid /\ u.mode = mode /\ sameReaction /\ ~(newer /\ u.locked)
           w == [u EXCEPT !.mode = mode, !.handMode = handMode, !.handCards = handCards,
                          !.exchange = exchange, !.trade = trade, !.chosen = chosen,
                          !.defence = defence, !.target = target, !.lastTarget = target,
                          !.reaction = reaction, !.awaiting = awaiting,
                          !.deadline = v.deadline, !.expired = waits, !.locked = locked,
                          !.invalid = invalid, !.revision = v.revision]
<1>1. Synchronized(u, v) = w
  BY InterfaceOK(u) DEF Synchronized
<1>2. waits \in BOOLEAN /\ locked \in BOOLEAN /\ invalid \in BOOLEAN
  BY DEF AwaitsTimeout
<1>3. mode \in {"MATCH_RESULT", "SPECTATING", "WAITING", "CONFIRMING_TRADE",
                "COMPOSING_REACTION", "COMPOSING_ACTION", "RESOLVING"}
  BY ModesAreDerived
<1>4. /\ handMode \in HandModes \cup {None}
      /\ chosen \subseteq Cards \cup Miracles /\ defence \subseteq Cards \cup Miracles
  BY DEF InterfaceOK
<1>5. /\ chosen # {} => mode = "COMPOSING_ACTION"
      /\ defence # {} => mode = "COMPOSING_REACTION"
      /\ trade # None => mode = "COMPOSING_ACTION"
  OBVIOUS
<1>6. v.deadline \in {None} \cup 1..MaxRevision
  BY DEF Views
<1>7. DOMAIN u = DOMAIN initialUiState
  BY DEF InterfaceOK
<1>8. /\ w.revision = v.revision /\ w.deadline = v.deadline /\ w.reaction = reaction
      /\ w.expired = waits /\ w.mode = mode /\ w.awaiting = awaiting /\ w.locked = locked
      /\ w.defence = defence /\ w.chosen = chosen /\ w.handMode = handMode
      /\ w.trade = trade /\ w.invalid = invalid /\ DOMAIN w = DOMAIN initialUiState
  <2> HIDE DEF waits, mode, handMode, handCards, exchange, trade, chosen, defence, target,
               reaction, awaiting, locked, invalid
  <2> QED BY <1>7 DEF initialUiState
<1>9. InterfaceOK(w)
  <2> HIDE DEF waits, mode, handMode, handCards, exchange, trade, chosen, defence, target,
               reaction, awaiting, locked, invalid, w
  <2> QED BY <1>2, <1>3, <1>4, <1>5, <1>6, <1>8 DEF InterfaceOK, HumanInputModes
<1>10. defence = {} \/ (defence = u.defence /\ reaction = u.reaction)
  OBVIOUS
<1> HIDE DEF w
<1> QED BY <1>1, <1>8, <1>9, <1>10 DEF Follows

LEMMA InterfaceFollows ==
  ASSUME NEW u, InterfaceOK(u), NEW v \in Views, ~(v.revision < u.revision)
  PROVE  Follows(u, v, synchronizeUiState(u, v))
<1> DEFINE w == Synchronized(u, v)
<1>1. Follows(u, v, w)
  BY SynchronizedFollows
<1>2. synchronizeUiState(u, v) = DropIllegalSelection(w, v)
  BY DEF synchronizeUiState
<1> HIDE DEF w
<1>3. CASE DropIllegalSelection(w, v) = w
  BY <1>1, <1>2, <1>3
<1>4. CASE DropIllegalSelection(w, v) # w
  <2> DEFINE x == [clearSelectedAction(w) EXCEPT !.invalid = TRUE]
  <2>1. w.mode = "COMPOSING_ACTION" /\ DropIllegalSelection(w, v) = x
    BY <1>4 DEF DropIllegalSelection
  <2>2. InterfaceOK(x)
    BY <1>1, <2>1
       DEF Follows, InterfaceOK, HumanInputModes, initialUiState, clearSelectedAction
  <2>3. /\ x.revision = w.revision /\ x.deadline = w.deadline /\ x.reaction = w.reaction
        /\ x.expired = w.expired /\ x.mode = w.mode /\ x.awaiting = w.awaiting
        /\ x.locked = w.locked /\ x.defence = w.defence
    BY <1>1, <2>1 DEF Follows, InterfaceOK, initialUiState, clearSelectedAction
  <2> HIDE DEF x
  <2> QED BY <1>1, <1>2, <2>1, <2>2, <2>3 DEF Follows
<1> QED BY <1>3, <1>4

(* How the interface closes an input whose deadline has passed.               *)
Closes(u, w) ==
  /\ InterfaceOK(w)
  /\ w.revision = u.revision /\ w.deadline = u.deadline
  /\ w.expired /\ w.locked /\ w.mode = "RESOLVING" /\ w.awaiting = None
  /\ w.reaction = None /\ w.defence = {}

LEMMA ClockCloses ==
  ASSUME NEW u, InterfaceOK(u), NEW v, NEW now
  PROVE  /\ advanceUiClock(u, v, now) = u \/ Closes(u, advanceUiClock(u, v, now))
         /\ (\/ u.deadline = None \/ u.deadline > now \/ u.expired
             \/ u.mode \notin HumanInputModes \/ v.controller # "HUMAN")
              => advanceUiClock(u, v, now) = u
         /\ (/\ ~(u.deadline = None) /\ ~(u.deadline > now) /\ ~u.expired
             /\ u.mode \in HumanInputModes /\ v.controller = "HUMAN")
              => Closes(u, advanceUiClock(u, v, now))
<1> DEFINE stays == \/ u.deadline = None \/ u.deadline > now \/ u.expired
                    \/ u.mode \notin HumanInputModes \/ v.controller # "HUMAN"
           w == [u EXCEPT !.mode = "RESOLVING", !.trade = None, !.chosen = {}, !.defence = {},
                          !.target = None, !.lastTarget = None, !.reaction = None,
                          !.awaiting = None, !.expired = TRUE, !.locked = TRUE,
                          !.invalid = FALSE]
<1>1. stays => advanceUiClock(u, v, now) = u
  BY DEF advanceUiClock
<1>2. ~stays => advanceUiClock(u, v, now) = w
  BY DEF advanceUiClock
<1>3. Closes(u, w)
  BY DEF Closes, InterfaceOK, HumanInputModes, initialUiState
<1> HIDE DEF w
<1> QED BY <1>1, <1>2, <1>3

-----------------------------------------------------------------------------
(* The inductive invariant *)

Snapshots == {server, view} \cup ToSet(stream) \cup {a.view : a \in answers}

(* One revision is one snapshot, and nobody is given a deadline but who is    *)
(* asked for an input.                                                       *)
SnapshotsAgree ==
  /\ \A v \in Snapshots : /\ v \in Views /\ v.revision <= server.revision
                          /\ v.deadline # None => IsAsked(v)
  /\ \A v, w \in Snapshots : v.revision = w.revision => v = w

(* What the interface knows of the snapshot it stands at.                    *)
Stands(u, v) ==
  v.revision = u.revision =>
    /\ v.deadline = u.deadline
    /\ u.expired => v.deadline # None
    /\ u.expired \/ u.mode \in HumanInputModes => deriveMode(v) \in HumanInputModes
    /\ ~u.expired => u.reaction = reactionIdOf(v)

Settled(u, S) ==
  /\ \A v \in S : Stands(u, v)
  /\ u.expired => u.mode = "RESOLVING"
  /\ u.awaiting # None => u.locked

(* A screen shows an older snapshot than its interface stands at when answers *)
(* come late, a newer one only before its first snapshot.                    *)
ScreenIsShown == ui.revision < view.revision => ui.mode = "MATCH_SETUP"

(* The answer that accepts the command an interface waits for is news to it.  *)
AcceptanceIsNews ==
  /\ ui.awaiting # None => ui.awaiting \in 1..issued
  /\ \A a \in answers : a.kind = "OK" /\ a.id = ui.awaiting => a.view.revision > ui.revision

IInv ==
  /\ TypeOK /\ SnapshotsAgree /\ Settled(ui, Snapshots) /\ ScreenIsShown
  /\ AcceptanceIsNews /\ LockHasReason

-----------------------------------------------------------------------------
(* What happens to an interface that is settled *)

LEMMA ComposingSettles ==
  ASSUME NEW S, NEW u, NEW w, Settled(u, S), Composes(u, w)
  PROVE  Settled(w, S)
BY DEF Settled, Stands, Composes, HumanInputModes

LEMMA FollowingSettles ==
  ASSUME NEW S, NEW u, NEW v \in S, NEW w, Settled(u, S), Follows(u, v, w),
         \A x, y \in S : x.revision = y.revision => x = y
  PROVE  Settled(w, S)
<1>1. \A x \in S : x.revision = w.revision => x = v
  BY DEF Follows
<1>2. Stands(w, v)
  BY DEF Stands, Follows, AwaitsTimeout, HumanInputModes
<1>3. \A x \in S : Stands(w, x)
  BY <1>1, <1>2 DEF Stands
<1>4. w.expired => w.mode = "RESOLVING"
  BY DEF Follows
<1>5. w.awaiting # None => w.locked
  BY DEF Follows, Settled
<1> QED BY <1>3, <1>4, <1>5 DEF Settled

LEMMA ClosingSettles ==
  ASSUME NEW S, NEW u, NEW w, Settled(u, S), Closes(u, w),
         u.mode \in HumanInputModes, u.deadline # None, ~u.expired
  PROVE  Settled(w, S)
BY DEF Settled, Stands, Closes

(* A lock that outlives a snapshot is the lock of the same command, or of a   *)
(* deadline that has passed.                                                 *)
LEMMA LockOutlives ==
  ASSUME NEW S, NEW u, NEW v \in S, NEW w, Settled(u, S), Follows(u, v, w), w.locked
  PROVE  \/ w.expired
         \/ /\ u.locked /\ ~u.expired
            /\ w.awaiting = u.awaiting /\ v.revision = u.revision
<1> SUFFICES ASSUME ~AwaitsTimeout(u, v)
             PROVE  /\ u.locked /\ ~u.expired
                    /\ w.awaiting = u.awaiting /\ v.revision = u.revision
  BY DEF Follows
<1>1. u.locked /\ u.revision = v.revision
  BY DEF Follows
<1>2. w.awaiting = u.awaiting
  BY <1>1 DEF Follows
<1>3. ~u.expired
  BY <1>1 DEF Settled, Stands, AwaitsTimeout
<1> QED BY <1>1, <1>2, <1>3

(* What an interface waits for after a snapshot it waited for before.         *)
LEMMA WaitingIsKept ==
  ASSUME NEW u, NEW v, NEW w, Follows(u, v, w), w.awaiting # None
  PROVE  w.awaiting = u.awaiting /\ w.revision = u.revision
BY DEF Follows

-----------------------------------------------------------------------------
(* Steps *)

LEMMA SnapshotsAreViews ==
  ASSUME IInv
  PROVE  \A v \in Snapshots : v \in Views /\ v.revision \in Nat
BY BoundsAssumption DEF IInv, SnapshotsAgree, Views

LEMMA ClicksKeep ==
  ASSUME IInv, Composes(ui, ui'),
         UNCHANGED <<server, stream, view, passed, flying, answers, issued, lost, local>>
  PROVE  IInv'
<1>1. TypeOK'
  BY DEF IInv, TypeOK, Composes
<1>2. Snapshots' = Snapshots
  BY DEF Snapshots
<1>3. SnapshotsAgree'
  BY <1>2 DEF IInv, SnapshotsAgree
<1>4. Settled(ui', Snapshots)
  BY ComposingSettles DEF IInv
<1>5. ScreenIsShown' /\ AcceptanceIsNews'
  BY DEF IInv, ScreenIsShown, AcceptanceIsNews, Composes
<1>6. LockHasReason'
  BY DEF IInv, LockHasReason, Composes
<1> QED BY <1>1, <1>2, <1>3, <1>4, <1>5, <1>6 DEF IInv

Clicks ==
  \/ \E c \in Cards \cup Miracles : Click(c)
  \/ \E p \in Rivals : ClickTarget(p)
  \/ \E type \in HandModes : ClickHandAction(type)

(* A click picks something, and only one on a source of a reaction touches    *)
(* the defence.                                                              *)
LEMMA ClicksCompose ==
  ASSUME InterfaceOK(ui), view.situation \in Situations, Clicks
  PROVE  /\ Composes(ui, ui')
         /\ UNCHANGED <<server, stream, view, passed, flying, answers, issued, lost, local>>
         /\ \/ ui'.defence = ui.defence
            \/ /\ ui.mode = "COMPOSING_REACTION"
               /\ \E c \in Sources : ui' = selectDefence(ui, c, view)
<1>1. UNCHANGED <<server, stream, view, passed, flying, answers, issued, lost, local>>
  BY DEF Clicks, Click, ClickTarget, ClickHandAction, ClickTradedCard, ClickHandCard,
         ClickUtilityCard, ClickSource, Update
<1>2. CASE \E p \in Rivals : ClickTarget(p)
  <2>1. PICK p \in Rivals : ui' = selectTarget(ui, p, view)
    BY <1>2 DEF ClickTarget, Update
  <2> QED BY <1>1, <2>1, TargetComposes
<1>3. CASE \E type \in HandModes : ClickHandAction(type)
  <2>1. PICK type \in HandModes : ui' = toggleHandActionMode(ui, type)
    BY <1>3 DEF ClickHandAction, Update
  <2> QED BY <1>1, <2>1, HandComposes
<1>4. CASE \E c \in Cards \cup Miracles : Click(c)
  <2>1. PICK c \in Sources : ClickTradedCard(c) \/ ClickHandCard(c)
                               \/ ClickUtilityCard(c) \/ ClickSource(c)
    BY <1>4 DEF Click, Sources
  <2>2. Composes(ui, OpenUtility(c)) /\ OpenUtility(c).defence = ui.defence
    BY ExchangeComposes, TradeComposes DEF OpenUtility
  <2>3. CASE ClickTradedCard(c)
    <3>1. ui' = toggleTradeProduct(ui, c, view) \/ ui' = OpenUtility(c)
      BY <2>3 DEF ClickTradedCard, Update
    <3> QED BY <1>1, <2>2, <3>1, ProductComposes
  <2>4. CASE ClickHandCard(c)
    <3>1. ui' = toggleHandActionCard(ui, c, view)
      BY <2>4 DEF ClickHandCard, Update
    <3>2. "DISCARD" \in HandModes
      BY DEF HandModes
    <3> QED BY <1>1, <3>1, <3>2, HandComposes
  <2>5. CASE ClickUtilityCard(c)
    BY <1>1, <2>2, <2>5 DEF ClickUtilityCard, Update
  <2>6. CASE ClickSource(c)
    <3>1. \/ ui' = selectDefence(ui, c, view) /\ ui.mode = "COMPOSING_REACTION"
          \/ ui' = selectSource(ui, c, view)
      BY <2>6 DEF ClickSource, Update
    <3> QED BY <1>1, <3>1, DefenceComposes, SourceComposes
  <2> QED BY <2>1, <2>3, <2>4, <2>5, <2>6
<1> QED BY <1>2, <1>3, <1>4 DEF Clicks

Submits ==
  \/ SubmitAction \/ SubmitExchange \/ SubmitHandAction \/ SubmitTrade
  \/ SubmitPray \/ SubmitReaction \/ ConfirmBuy

(* Whatever is submitted is submitted through Submit, in a mode that asks for *)
(* an input.                                                                 *)
LEMMA SubmissionsAreInputs ==
  ASSUME Submits
  PROVE  ui.mode \in HumanInputModes /\ \E content : Submit(content)
<1>1. CASE SubmitAction
  BY <1>1 DEF SubmitAction, Acting, HumanInputModes
<1>2. CASE SubmitExchange
  BY <1>2 DEF SubmitExchange, Panel, Open, HumanInputModes
<1>3. CASE SubmitHandAction
  <2>1. ui.mode = "COMPOSING_ACTION"
    BY <1>3 DEF SubmitHandAction, Panel, HandDraft, Open
  <2> QED BY <1>3, <2>1 DEF SubmitHandAction, HumanInputModes
<1>4. CASE SubmitTrade
  BY <1>4 DEF SubmitTrade, Panel, Open, HumanInputModes
<1>5. CASE SubmitPray
  BY <1>5 DEF SubmitPray, HumanInputModes
<1>6. CASE SubmitReaction
  BY <1>6 DEF SubmitReaction, CanReact, HumanInputModes
<1>7. CASE ConfirmBuy
  BY <1>7 DEF ConfirmBuy, HumanInputModes
<1> QED BY <1>1, <1>2, <1>3, <1>4, <1>5, <1>6, <1>7 DEF Submits

LEMMA SubmissionsKeep ==
  ASSUME IInv, Submits
  PROVE  IInv'
<1>1. PICK content : Submit(content)
  BY SubmissionsAreInputs
<1> DEFINE id == issued + 1
           command == [id |-> id, expected |-> view.revision, content |-> content]
<1>2. ~ui.locked
  <2>1. InterfaceOK(ui)
    BY DEF IInv, TypeOK
  <2>2. Displayed = ui \/ Closes(ui, Displayed)
    BY <2>1, ClockCloses DEF Displayed
  <2> QED BY <1>1, <2>2 DEF Submit, Drawn, Closes
<1>3. ui.awaiting = None
  BY <1>2 DEF IInv, Settled
<1>4. /\ ui' = [ui EXCEPT !.awaiting = id, !.locked = TRUE]
      /\ flying' = flying \cup {command} /\ issued' = id /\ issued < MaxCommands
      /\ UNCHANGED <<server, stream, view, passed, answers, lost, local>>
  BY <1>1, <1>2, <1>3 DEF Submit, lockForCommand
<1>5. /\ DOMAIN ui' = DOMAIN ui /\ ui'.awaiting = id /\ ui'.locked
      /\ ui'.locked \in BOOLEAN
      /\ ui'.mode = ui.mode /\ ui'.chosen = ui.chosen /\ ui'.defence = ui.defence
      /\ ui'.handMode = ui.handMode /\ ui'.deadline = ui.deadline /\ ui'.trade = ui.trade
      /\ ui'.expired = ui.expired /\ ui'.invalid = ui.invalid
      /\ ui'.revision = ui.revision /\ ui'.reaction = ui.reaction
  BY <1>4 DEF IInv, TypeOK, InterfaceOK, initialUiState
<1>6. InterfaceOK(ui')
  BY <1>5 DEF IInv, TypeOK, InterfaceOK
<1>7. issued \in Nat /\ issued' \in 0..MaxCommands /\ 1..issued \subseteq 1..issued'
        /\ id \in 1..issued' /\ id \notin 1..issued /\ id # None
  BY <1>4, BoundsAssumption, NoneAssumption DEF IInv, TypeOK
<1>8. command.id = id /\ command.expected = view.revision
  OBVIOUS
<1> HIDE DEF id, command
<1>9. TypeOK'
  <2>1. \A c \in flying' : c.id \in 1..issued' /\ c.expected \in 1..server'.revision
    BY <1>4, <1>7, <1>8 DEF IInv, TypeOK, Views
  <2>2. \A a \in answers' : a.id \in 1..issued' /\ a.view \in Views
    BY <1>4, <1>7 DEF IInv, TypeOK
  <2>3. lost' \subseteq 1..issued'
    BY <1>4, <1>7 DEF IInv, TypeOK
  <2> QED BY <1>4, <1>5, <1>6, <1>7, <2>1, <2>2, <2>3 DEF IInv, TypeOK
<1>10. Snapshots' = Snapshots
  BY <1>4 DEF Snapshots
<1>11. SnapshotsAgree'
  BY <1>4, <1>10 DEF IInv, SnapshotsAgree
<1>12. Settled(ui', Snapshots)
  BY <1>5 DEF IInv, Settled, Stands
<1>13. ScreenIsShown'
  BY <1>4, <1>5 DEF IInv, ScreenIsShown
<1>14. AcceptanceIsNews'
  BY <1>4, <1>5, <1>7 DEF IInv, TypeOK, AcceptanceIsNews
<1>15. LockHasReason'
  BY <1>4, <1>5, <1>8 DEF LockHasReason
<1> QED BY <1>9, <1>10, <1>11, <1>12, <1>13, <1>14, <1>15 DEF IInv

(* What a snapshot that arrives makes of the interface.                      *)
Arrives(v, w) ==
  /\ InterfaceOK(w) /\ Settled(w, Snapshots)
  /\ w.revision \in 0..server.revision /\ ~(w.revision < v.revision)
  /\ w.awaiting # None => w.awaiting = ui.awaiting /\ w.revision = ui.revision
  /\ w.locked => \/ w.expired
                 \/ /\ ui.locked /\ ~ui.expired
                    /\ w.awaiting = ui.awaiting /\ v.revision <= ui.revision

LEMMA ShownArrives ==
  ASSUME IInv, NEW v \in Snapshots
  PROVE  Arrives(v, synchronizeUiState(ui, v))
<1> DEFINE w == synchronizeUiState(ui, v)
<1>1. /\ InterfaceOK(ui) /\ Settled(ui, Snapshots)
      /\ ui.revision \in 0..server.revision /\ server \in Views
  BY DEF IInv, TypeOK
<1>2. v \in Views /\ v.revision \in Nat /\ v.revision <= server.revision
        /\ server.revision \in Nat
  BY <1>1, BoundsAssumption DEF IInv, SnapshotsAgree, Views
<1>3. CASE v.revision < ui.revision
  <2>1. w = ui
    BY <1>3 DEF synchronizeUiState
  <2> HIDE DEF w
  <2> QED BY <1>1, <1>2, <1>3, <2>1 DEF Arrives, w
<1>4. CASE ~(v.revision < ui.revision)
  <2>1. Follows(ui, v, w)
    BY <1>1, <1>2, <1>4, InterfaceFollows
  <2> HIDE DEF w
  <2>2. \A x, y \in Snapshots : x.revision = y.revision => x = y
    BY DEF IInv, SnapshotsAgree
  <2>3. Settled(w, Snapshots)
    BY <1>1, <2>1, <2>2, FollowingSettles
  <2>4. w.revision = v.revision /\ InterfaceOK(w)
    BY <2>1 DEF Follows
  <2>5. w.awaiting # None => w.awaiting = ui.awaiting /\ w.revision = ui.revision
    BY <2>1, WaitingIsKept
  <2>6. w.locked => \/ w.expired
                    \/ /\ ui.locked /\ ~ui.expired
                       /\ w.awaiting = ui.awaiting /\ v.revision = ui.revision
    BY <1>1, <2>1, LockOutlives
  <2> QED BY <1>1, <1>2, <2>3, <2>4, <2>5, <2>6 DEF Arrives, w
<1> QED BY <1>3, <1>4

(* A snapshot that comes with a refusal opens the interface, unless its input *)
(* has run out of time.                                                      *)
LEMMA RefusedArrives ==
  ASSUME IInv, NEW v \in Snapshots
  PROVE  /\ Arrives(v, releaseCommandLock(ui, v))
         /\ releaseCommandLock(ui, v).locked => releaseCommandLock(ui, v).expired
         /\ releaseCommandLock(ui, v).awaiting = None
<1> DEFINE u == [ui EXCEPT !.awaiting = None, !.locked = FALSE]
           w == releaseCommandLock(ui, v)
<1>1. /\ InterfaceOK(ui) /\ Settled(ui, Snapshots)
      /\ ui.revision \in 0..server.revision /\ server \in Views
  BY DEF IInv, TypeOK
<1>2. v \in Views /\ v.revision \in Nat /\ v.revision <= server.revision
        /\ server.revision \in Nat
  BY <1>1, BoundsAssumption DEF IInv, SnapshotsAgree, Views
<1>3. /\ DOMAIN u = DOMAIN ui /\ u.awaiting = None /\ u.locked = FALSE
      /\ u.mode = ui.mode /\ u.chosen = ui.chosen /\ u.defence = ui.defence
      /\ u.handMode = ui.handMode /\ u.deadline = ui.deadline /\ u.trade = ui.trade
      /\ u.expired = ui.expired /\ u.invalid = ui.invalid
      /\ u.revision = ui.revision /\ u.reaction = ui.reaction
  BY <1>1 DEF InterfaceOK, initialUiState
<1>4. w = synchronizeUiState(u, v)
  BY DEF releaseCommandLock
<1> HIDE DEF u, w
<1>5. InterfaceOK(u) /\ Settled(u, Snapshots)
  BY <1>1, <1>3 DEF InterfaceOK, Settled, Stands
<1>6. CASE v.revision < u.revision
  <2>1. w = u
    BY <1>4, <1>6 DEF synchronizeUiState
  <2> QED BY <1>1, <1>2, <1>3, <1>5, <1>6, <2>1 DEF Arrives, w
<1>7. CASE ~(v.revision < u.revision)
  <2>1. Follows(u, v, w)
    BY <1>2, <1>4, <1>5, <1>7, InterfaceFollows
  <2>2. \A x, y \in Snapshots : x.revision = y.revision => x = y
    BY DEF IInv, SnapshotsAgree
  <2>3. Settled(w, Snapshots)
    BY <1>5, <2>1, <2>2, FollowingSettles
  <2>4. /\ w.revision = v.revision /\ InterfaceOK(w) /\ w.awaiting = None
        /\ w.locked => w.expired
    BY <1>3, <2>1 DEF Follows
  <2> QED BY <1>1, <1>2, <2>3, <2>4 DEF Arrives, w
<1> QED BY <1>6, <1>7

LEMMA ArrivalsKeep ==
  ASSUME IInv, NEW v \in Snapshots, Arrives(v, ui'), view' = v,
         UNCHANGED <<server, passed, flying, issued, lost, local>>,
         stream' \in Seq(Views), ToSet(stream') \subseteq ToSet(stream),
         answers' \subseteq answers,
         \A a \in answers \ answers' : a.id = ui'.awaiting /\ ui'.locked => ui'.expired
  PROVE  IInv'
<1>1. v \in Views /\ v.revision <= server.revision
  BY DEF IInv, SnapshotsAgree
<1>2. TypeOK'
  <2>1. \A c \in flying' : c.id \in 1..issued' /\ c.expected \in 1..server'.revision
    BY DEF IInv, TypeOK
  <2>2. \A a \in answers' : a.id \in 1..issued' /\ a.view \in Views
    BY DEF IInv, TypeOK
  <2> QED BY <1>1, <2>1, <2>2 DEF IInv, TypeOK, Arrives
<1>3. Snapshots' \subseteq Snapshots
  BY DEF Snapshots
<1>4. SnapshotsAgree'
  BY <1>3 DEF IInv, SnapshotsAgree
<1>5. Settled(ui', Snapshots')
  BY <1>3 DEF Arrives, Settled
<1>6. ScreenIsShown'
  BY DEF Arrives, ScreenIsShown
<1>7. AcceptanceIsNews'
  <2>1. ui'.awaiting # None => ui'.awaiting \in 1..issued'
    BY DEF IInv, AcceptanceIsNews, Arrives
  <2>2. ASSUME NEW a \in answers', a.kind = "OK", a.id = ui'.awaiting
        PROVE  a.view.revision > ui'.revision
    <3>1. a \in answers /\ a.id \in 1..issued
      BY DEF IInv, TypeOK
    <3>2. a.id # None
      BY <3>1, NoneAssumption
    <3>3. ui'.awaiting = ui.awaiting /\ ui'.revision = ui.revision
      BY <2>2, <3>2 DEF Arrives
    <3> QED BY <2>2, <3>1, <3>3 DEF IInv, AcceptanceIsNews
  <2> QED BY <2>1, <2>2 DEF AcceptanceIsNews
<1>8. LockHasReason'
  <2> SUFFICES ASSUME ui'.locked, ~ui'.expired
               PROVE  ui'.awaiting \in {c.id : c \in flying'} \cup {a.id : a \in answers'}
                                         \cup lost'
    BY DEF LockHasReason
  <2>1. ui.locked /\ ~ui.expired /\ ui'.awaiting = ui.awaiting
    BY DEF Arrives
  <2>2. ui.awaiting \in {c.id : c \in flying} \cup {a.id : a \in answers} \cup lost
    BY <2>1 DEF IInv, LockHasReason
  <2> QED BY <2>1, <2>2
<1> QED BY <1>2, <1>4, <1>5, <1>6, <1>7, <1>8 DEF IInv

LEMMA ReceivingKeeps ==
  ASSUME IInv, Receive
  PROVE  IInv'
<1> DEFINE v == Head(stream)
<1>1. stream \in Seq(Views) /\ stream # <<>>
  BY DEF IInv, TypeOK, Receive
<1>2. v \in ToSet(stream) /\ stream' \in Seq(Views) /\ ToSet(stream') \subseteq ToSet(stream)
  BY <1>1 DEF Receive, ToSet
<1>3. /\ view' = v /\ ui' = synchronizeUiState(ui, v)
      /\ UNCHANGED <<server, passed, flying, answers, issued, lost, local>>
  BY DEF Receive, Show
<1> HIDE DEF v
<1>4. v \in Snapshots
  BY <1>2 DEF Snapshots
<1>5. Arrives(v, ui')
  BY <1>3, <1>4, ShownArrives
<1> QED BY <1>2, <1>3, <1>4, <1>5, ArrivalsKeep

LEMMA AnswersKeep ==
  ASSUME IInv, NEW a \in answers, GetAnswer(a)
  PROVE  IInv'
<1> DEFINE v == a.view
<1>1. v \in Snapshots
  BY DEF Snapshots
<1>2. /\ view' = v /\ answers' = answers \ {a}
      /\ UNCHANGED <<server, stream, passed, flying, issued, lost, local>>
  BY DEF GetAnswer, Show, Reject
<1>3. stream' \in Seq(Views) /\ a.id \in 1..issued
  BY <1>2 DEF IInv, TypeOK
<1>4. CASE a.kind = "OK"
  <2>1. ui' = synchronizeUiState(ui, v)
    BY <1>4 DEF GetAnswer, Show
  <2>2. Arrives(v, ui')
    BY <1>1, <2>1, ShownArrives
  <2>3. a.id = ui'.awaiting /\ ui'.locked => ui'.expired
    <3> SUFFICES ASSUME a.id = ui'.awaiting, ui'.locked, ~ui'.expired
                 PROVE  FALSE
      OBVIOUS
    <3>1. ui'.awaiting = ui.awaiting /\ v.revision <= ui.revision
      BY <2>2 DEF Arrives
    <3>2. v.revision > ui.revision
      BY <1>4, <3>1 DEF IInv, AcceptanceIsNews
    <3>3. v.revision \in Nat /\ ui.revision \in Nat
      BY <1>1, SnapshotsAreViews DEF IInv, TypeOK
    <3> QED BY <3>1, <3>2, <3>3
  <2> QED BY <1>1, <1>2, <1>3, <2>2, <2>3, ArrivalsKeep
<1>5. CASE a.kind # "OK"
  <2>1. ui' = releaseCommandLock(ui, v)
    BY <1>5 DEF GetAnswer, Reject
  <2>2. Arrives(v, ui') /\ (ui'.locked => ui'.expired)
    BY <1>1, <2>1, RefusedArrives
  <2> QED BY <1>1, <1>2, <1>3, <2>2, ArrivalsKeep
<1> QED BY <1>4, <1>5

(* A step of the network that shows nothing keeps the invariant when what is  *)
(* about is no more than before and no command is forgotten.                 *)
LEMMA LossesKeep ==
  ASSUME IInv, UNCHANGED <<server, view, ui, passed, issued, local>>,
         stream' \in Seq(Views), Snapshots' \subseteq Snapshots,
         \A c \in flying' : c \in flying,
         \A a \in answers' : \/ a \in answers
                             \/ a.kind # "OK" /\ a.id \in 1..issued /\ a.view \in Views,
         lost' \subseteq 1..issued,
         {c.id : c \in flying} \cup {a.id : a \in answers} \cup lost
           \subseteq {c.id : c \in flying'} \cup {a.id : a \in answers'} \cup lost'
  PROVE  IInv'
<1>1. TypeOK'
  <2>1. \A c \in flying' : c.id \in 1..issued' /\ c.expected \in 1..server'.revision
    BY DEF IInv, TypeOK
  <2>2. \A a \in answers' : a.id \in 1..issued' /\ a.view \in Views
    BY DEF IInv, TypeOK
  <2> QED BY <2>1, <2>2 DEF IInv, TypeOK
<1>2. SnapshotsAgree'
  BY DEF IInv, SnapshotsAgree
<1>3. Settled(ui', Snapshots') /\ ScreenIsShown'
  BY DEF IInv, Settled, ScreenIsShown
<1>4. AcceptanceIsNews'
  BY DEF IInv, AcceptanceIsNews
<1>5. LockHasReason'
  BY DEF IInv, LockHasReason
<1> QED BY <1>1, <1>2, <1>3, <1>4, <1>5 DEF IInv

LEMMA ReconnectingKeeps ==
  ASSUME IInv, Reconnect
  PROVE  IInv'
<1>1. server \in Views /\ stream' = <<server>> /\ lost \subseteq 1..issued
        /\ UNCHANGED <<server, view, ui, passed, flying, answers, issued, lost, local>>
  BY DEF IInv, TypeOK, Reconnect
<1>2. stream' \in Seq(Views) /\ ToSet(stream') = {server}
  BY <1>1 DEF ToSet
<1>3. Snapshots' \subseteq Snapshots
  BY <1>1, <1>2 DEF Snapshots
<1> QED BY <1>1, <1>2, <1>3, LossesKeep

LEMMA LostCommandsKeep ==
  ASSUME IInv, NEW c \in flying, LoseCommand(c)
  PROVE  IInv'
<1> DEFINE restored == Answer(c.id, "RESTORED", server)
<1>1. /\ flying' = flying \ {c} /\ UNCHANGED <<server, stream, view, ui, passed, issued, local>>
      /\ \/ answers' = answers \cup {restored} /\ lost' = lost
         \/ answers' = answers /\ lost' = lost \cup {c.id}
  BY DEF LoseCommand, Fail
<1>2. restored.kind = "RESTORED" /\ restored.id = c.id /\ restored.view = server
  BY DEF Answer
<1>3. c.id \in 1..issued /\ lost \subseteq 1..issued /\ server \in Views
        /\ stream' \in Seq(Views)
  BY <1>1 DEF IInv, TypeOK
<1> HIDE DEF restored
<1>4. Snapshots' \subseteq Snapshots
  BY <1>1, <1>2 DEF Snapshots
<1>5. \A a \in answers' : \/ a \in answers
                          \/ a.kind # "OK" /\ a.id \in 1..issued /\ a.view \in Views
  BY <1>1, <1>2, <1>3
<1>6. {d.id : d \in flying} \cup {a.id : a \in answers} \cup lost
        \subseteq {d.id : d \in flying'} \cup {a.id : a \in answers'} \cup lost'
  BY <1>1, <1>2
<1>7. (\A d \in flying' : d \in flying) /\ lost' \subseteq 1..issued
  BY <1>1, <1>3
<1> QED BY <1>1, <1>3, <1>4, <1>5, <1>6, <1>7, LossesKeep

LEMMA LostAnswersKeep ==
  ASSUME IInv, NEW b \in answers, LoseAnswer(b)
  PROVE  IInv'
<1> DEFINE restored == Answer(b.id, "RESTORED", server)
<1>1. /\ UNCHANGED <<server, stream, view, ui, passed, flying, issued, local>>
      /\ \/ answers' = (answers \ {b}) \cup {restored} /\ lost' = lost
         \/ answers' = answers \ {b} /\ lost' = lost \cup {b.id}
  BY DEF LoseAnswer, Fail
<1>2. restored.kind = "RESTORED" /\ restored.id = b.id /\ restored.view = server
  BY DEF Answer
<1>3. b.id \in 1..issued /\ lost \subseteq 1..issued /\ server \in Views
        /\ stream' \in Seq(Views)
  BY <1>1 DEF IInv, TypeOK
<1> HIDE DEF restored
<1>4. Snapshots' \subseteq Snapshots
  BY <1>1, <1>2 DEF Snapshots
<1>5. \A a \in answers' : \/ a \in answers
                          \/ a.kind # "OK" /\ a.id \in 1..issued /\ a.view \in Views
  BY <1>1, <1>2, <1>3
<1>6. {d.id : d \in flying} \cup {a.id : a \in answers} \cup lost
        \subseteq {d.id : d \in flying'} \cup {a.id : a \in answers'} \cup lost'
  BY <1>1, <1>2
<1>7. (\A d \in flying' : d \in flying) /\ lost' \subseteq 1..issued
  BY <1>1, <1>3
<1> QED BY <1>1, <1>3, <1>4, <1>5, <1>6, <1>7, LossesKeep

LEMMA TickKeeps ==
  ASSUME IInv, Tick
  PROVE  IInv'
<1>1. PICK now \in {passed, ui.deadline} \ {None} :
        passed' = now /\ ui' = advanceUiClock(ui, view, now)
  BY DEF Tick
<1>2. UNCHANGED <<server, stream, view, flying, answers, issued, lost, local>>
  BY DEF Tick
<1>3. InterfaceOK(ui) /\ passed' \in 0..MaxRevision
  BY <1>1, BoundsAssumption DEF IInv, TypeOK, InterfaceOK
<1>4. Snapshots' = Snapshots
  BY <1>2 DEF Snapshots
<1>5. SnapshotsAgree'
  BY <1>2, <1>4 DEF IInv, SnapshotsAgree
<1>6. CASE ui' = ui
  <2>1. TypeOK'
    BY <1>2, <1>3, <1>6 DEF IInv, TypeOK
  <2>2. Settled(ui', Snapshots')
    BY <1>4, <1>6 DEF IInv
  <2>3. ScreenIsShown' /\ AcceptanceIsNews' /\ LockHasReason'
    BY <1>2, <1>6 DEF IInv, ScreenIsShown, AcceptanceIsNews, LockHasReason
  <2> QED BY <1>5, <2>1, <2>2, <2>3 DEF IInv
<1>7. CASE ui' # ui
  <2>1. ui.mode \in HumanInputModes /\ ui.deadline # None /\ ~ui.expired
    BY <1>1, <1>3, <1>7, ClockCloses
  <2>2. Closes(ui, ui')
    BY <1>1, <1>3, <1>7, ClockCloses
  <2>3. TypeOK'
    BY <1>2, <1>3, <2>2 DEF IInv, TypeOK, Closes
  <2>4. Settled(ui', Snapshots')
    BY <1>4, <2>1, <2>2, ClosingSettles DEF IInv
  <2>5. ScreenIsShown'
    BY <1>2, <2>1, <2>2 DEF IInv, ScreenIsShown, Closes, HumanInputModes
  <2>6. AcceptanceIsNews'
    <3>1. \A a \in answers' : a.id # None
      BY <1>2, NoneAssumption DEF IInv, TypeOK
    <3> QED BY <2>2, <3>1 DEF AcceptanceIsNews, Closes
  <2>7. LockHasReason'
    BY <2>2 DEF LockHasReason, Closes
  <2> QED BY <1>5, <2>3, <2>4, <2>5, <2>6, <2>7 DEF IInv
<1> QED BY <1>6, <1>7

(* A snapshot as the server publishes it after the one that it has now.       *)
Succeeds(v, n) ==
  /\ n \in Views /\ n.revision = v.revision + 1
  /\ n.deadline # None => IsAsked(n)

LEMMA AfterSucceeds ==
  ASSUME NEW v, v.revision \in Nat, NEW s \in Situations, NEW controller \in {"HUMAN", "CPU"},
         After(v, s, controller).revision <= MaxRevision
  PROVE  Succeeds(v, After(v, s, controller))
<1> DEFINE n == v.revision + 1
           next == [revision |-> n, situation |-> s, controller |-> controller,
                    deadline |-> None]
           asked == [next EXCEPT !.deadline = n]
<1>1. After(v, s, controller) = IF IsAsked(next) THEN asked ELSE next
  BY DEF After
<1>2. IsAsked(asked) <=> IsAsked(next)
  BY DEF IsAsked
<1>3. n \in Nat /\ n >= 1
  OBVIOUS
<1>4. next.revision = n /\ asked.revision = n
  OBVIOUS
<1>5. n \in 1..MaxRevision
  BY <1>1, <1>3, <1>4, BoundsAssumption
<1>6. next \in Views /\ asked \in Views
  BY <1>5 DEF Views
<1>7. next.deadline = None
  OBVIOUS
<1> HIDE DEF next, asked
<1> QED BY <1>1, <1>2, <1>4, <1>6, <1>7 DEF Succeeds

LEMMA PublishingKeeps ==
  ASSUME IInv, NEW n, Succeeds(server, n), server' = n, stream' = Append(stream, n),
         UNCHANGED <<view, ui, passed, issued, lost, local>>,
         \A c \in flying' : c \in flying,
         \A a \in answers' : a \in answers \/ (a.id \in 1..issued /\ a.view = n),
         {c.id : c \in flying} \cup {a.id : a \in answers}
           \subseteq {c.id : c \in flying'} \cup {a.id : a \in answers'}
  PROVE  IInv'
<1>1. /\ stream \in Seq(Views) /\ n \in Views /\ server.revision \in Nat
      /\ n.revision = server.revision + 1 /\ ui.revision \in 0..server.revision
  BY BoundsAssumption DEF IInv, TypeOK, Succeeds, Views
<1>2. stream' \in Seq(Views) /\ ToSet(stream') = ToSet(stream) \cup {n}
  BY <1>1 DEF ToSet
<1>3. Snapshots' \subseteq Snapshots \cup {n}
  BY <1>2 DEF Snapshots
<1>4. \A v \in Snapshots : v \in Views /\ v.revision \in Nat /\ v.revision < n.revision
  BY <1>1, SnapshotsAreViews DEF IInv, SnapshotsAgree
<1>5. TypeOK'
  <2>1. \A c \in flying' : c.id \in 1..issued' /\ c.expected \in 1..server'.revision
    <3> SUFFICES ASSUME NEW c \in flying
                 PROVE  c.id \in 1..issued /\ c.expected \in 1..n.revision
      OBVIOUS
    <3>1. c.id \in 1..issued /\ c.expected \in 1..server.revision
      BY DEF IInv, TypeOK
    <3> QED BY <1>1, <3>1
  <2>2. \A a \in answers' : a.id \in 1..issued' /\ a.view \in Views
    BY <1>1 DEF IInv, TypeOK
  <2>3. ui'.revision \in 0..server'.revision /\ view'.revision <= server'.revision
    BY <1>1, <1>4 DEF Snapshots
  <2> QED BY <1>1, <1>2, <2>1, <2>2, <2>3 DEF IInv, TypeOK
<1>6. SnapshotsAgree'
  <2>1. \A v \in Snapshots' : /\ v \in Views /\ v.revision <= server'.revision
                              /\ v.deadline # None => IsAsked(v)
    BY <1>1, <1>3, <1>4 DEF IInv, SnapshotsAgree, Succeeds
  <2>2. \A v, w \in Snapshots' : v.revision = w.revision => v = w
    BY <1>1, <1>3, <1>4 DEF IInv, SnapshotsAgree
  <2> QED BY <2>1, <2>2 DEF SnapshotsAgree
<1>7. Settled(ui', Snapshots')
  BY <1>1, <1>3 DEF IInv, Settled, Stands
<1>8. ScreenIsShown' /\ LockHasReason'
  BY DEF IInv, ScreenIsShown, LockHasReason
<1>9. AcceptanceIsNews'
  BY <1>1 DEF IInv, AcceptanceIsNews
<1> QED BY <1>5, <1>6, <1>7, <1>8, <1>9 DEF IInv

LEMMA ServerKeeps ==
  ASSUME IInv, Server
  PROVE  IInv'
<1>1. server \in Views /\ server.revision \in Nat
  BY BoundsAssumption DEF IInv, TypeOK, Views
<1>2. ASSUME NEW s \in Situations, NEW controller \in {"HUMAN", "CPU"},
             Publish(After(server, s, controller)), Unheard
      PROVE  IInv'
  BY <1>1, <1>2, AfterSucceeds, PublishingKeeps DEF Publish, Unheard
<1>3. CASE MoveOn
  <2>1. PICK s \in Following(server.situation) : Publish(After(server, s, server.controller))
    BY <1>3 DEF MoveOn
  <2>2. s \in Situations /\ server.controller \in {"HUMAN", "CPU"} /\ Unheard
    BY <1>1, <1>3 DEF Following, Views, MoveOn
  <2> QED BY <1>2, <2>1, <2>2
<1>4. CASE TimeOut
  BY <1>1, <1>2, <1>4 DEF TimeOut, Views
<1>5. CASE GiveBack
  BY <1>1, <1>2, <1>5 DEF GiveBack, Views
<1>6. CASE Note
  <2> DEFINE n == [server EXCEPT !.revision = @ + 1]
  <2>1. Publish(n) /\ Unheard
    BY <1>6 DEF Note
  <2>2. /\ n.revision = server.revision + 1 /\ n.situation = server.situation
        /\ n.controller = server.controller /\ n.deadline = server.deadline
    BY <1>1 DEF Views
  <2>3. n.revision \in 1..MaxRevision
    BY <1>1, <2>1, <2>2, BoundsAssumption DEF Publish, Views
  <2>4. n \in Views
    BY <1>1, <2>3 DEF Views
  <2>5. n.deadline # None => IsAsked(n)
    BY <2>2 DEF IInv, SnapshotsAgree, Snapshots, IsAsked
  <2> HIDE DEF n
  <2>6. Succeeds(server, n)
    BY <2>2, <2>4, <2>5 DEF Succeeds
  <2> QED BY <2>1, <2>6, PublishingKeeps DEF Publish, Unheard
<1>7. CASE \E c \in flying : Handle(c)
  <2>1. PICK c \in flying : Handle(c)
    BY <1>7
  <2>2. /\ flying' = flying \ {c} /\ UNCHANGED <<view, ui, passed, issued, lost, local>>
        /\ c.id \in 1..issued /\ \A d \in flying' : d \in flying
    BY <2>1 DEF Handle, IInv, TypeOK
  <2>3. CASE Accepts(c)
    <3>1. PICK s \in Following(server.situation) :
            /\ Publish(After(server, s, "HUMAN"))
            /\ answers' = answers \cup {Answer(c.id, "OK", After(server, s, "HUMAN"))}
      BY <2>1, <2>3 DEF Handle
    <3> DEFINE n == After(server, s, "HUMAN")
               accepted == Answer(c.id, "OK", n)
    <3>2. Succeeds(server, n)
      BY <1>1, <3>1, AfterSucceeds DEF Publish, Following
    <3>3. server' = n /\ stream' = Append(stream, n) /\ answers' = answers \cup {accepted}
      BY <3>1 DEF Publish
    <3>4. accepted.id = c.id /\ accepted.view = n
      BY DEF Answer
    <3> HIDE DEF n, accepted
    <3>5. \A a \in answers' : a \in answers \/ (a.id \in 1..issued /\ a.view = n)
      BY <2>2, <3>3, <3>4
    <3>6. {d.id : d \in flying} \cup {a.id : a \in answers}
            \subseteq {d.id : d \in flying'} \cup {a.id : a \in answers'}
      BY <2>2, <3>3, <3>4
    <3> QED BY <2>2, <3>2, <3>3, <3>5, <3>6, PublishingKeeps
  <2>4. CASE ~Accepts(c)
    <3> DEFINE refused == Answer(c.id, "REFUSED", server)
    <3>1. answers' = answers \cup {refused} /\ UNCHANGED <<server, stream>>
      BY <2>1, <2>4 DEF Handle
    <3>2. refused.kind = "REFUSED" /\ refused.id = c.id /\ refused.view = server
      BY DEF Answer
    <3> HIDE DEF refused
    <3>3. Snapshots' \subseteq Snapshots
      BY <2>2, <3>1, <3>2 DEF Snapshots
    <3>4. stream' \in Seq(Views) /\ lost' \subseteq 1..issued
      BY <2>2, <3>1 DEF IInv, TypeOK
    <3>5. \A a \in answers' : \/ a \in answers
                              \/ a.kind # "OK" /\ a.id \in 1..issued /\ a.view \in Views
      BY <1>1, <2>2, <3>1, <3>2
    <3>6. {d.id : d \in flying} \cup {a.id : a \in answers} \cup lost
            \subseteq {d.id : d \in flying'} \cup {a.id : a \in answers'} \cup lost'
      BY <2>2, <3>1, <3>2
    <3> QED BY <2>2, <3>1, <3>3, <3>4, <3>5, <3>6, LossesKeep
  <2> QED BY <2>3, <2>4
<1> QED BY <1>3, <1>4, <1>5, <1>6, <1>7 DEF Server

LEMMA InitHolds ==
  ASSUME Init
  PROVE  IInv
<1> DEFINE start == [revision |-> 0]
<1>1. PICK s \in Opening : server = After(start, s, "HUMAN")
  BY DEF Init
<1>2. start.revision = 0
  OBVIOUS
<1> HIDE DEF start
<1>3. server.revision = 1
  BY <1>1, <1>2 DEF After
<1>4. Succeeds(start, server)
  BY <1>1, <1>2, <1>3, AfterSucceeds, SituationsAssumption, BoundsAssumption
<1>5. server \in Views /\ server.revision = 1 /\ (server.deadline # None => IsAsked(server))
  BY <1>3, <1>4 DEF Succeeds
<1>6. /\ view = server /\ stream = <<server>> /\ ui = initialUiState /\ passed = 0
      /\ flying = {} /\ answers = {} /\ issued = 0 /\ lost = {}
  BY DEF Init
<1>7. InterfaceOK(ui)
  BY <1>6 DEF InterfaceOK, initialUiState
<1>8. ui.revision = 0 /\ ui.expired = FALSE /\ ui.awaiting = None /\ ui.locked = FALSE
        /\ ui.mode = "MATCH_SETUP"
  BY <1>6 DEF initialUiState
<1>9. Snapshots = {server}
  BY <1>6 DEF Snapshots, ToSet
<1>10. TypeOK
  BY <1>5, <1>6, <1>7, <1>8, BoundsAssumption DEF TypeOK
<1>11. SnapshotsAgree
  BY <1>5, <1>9 DEF SnapshotsAgree
<1>12. Settled(ui, Snapshots) /\ ScreenIsShown /\ AcceptanceIsNews /\ LockHasReason
  BY <1>5, <1>6, <1>8, <1>9
     DEF Settled, Stands, ScreenIsShown, AcceptanceIsNews, LockHasReason
<1> QED BY <1>10, <1>11, <1>12 DEF IInv

LEMMA StutterKeeps ==
  ASSUME IInv, UNCHANGED vars
  PROVE  IInv'
<1>1. TypeOK' /\ LockHasReason'
  BY DEF IInv, vars, TypeOK, LockHasReason
<1>2. Snapshots' = Snapshots /\ ui' = ui
  BY DEF vars, Snapshots
<1>3. SnapshotsAgree' /\ Settled(ui', Snapshots')
  BY <1>2 DEF IInv, vars, SnapshotsAgree
<1>4. ScreenIsShown' /\ AcceptanceIsNews'
  BY DEF IInv, vars, ScreenIsShown, AcceptanceIsNews
<1> QED BY <1>1, <1>3, <1>4 DEF IInv

(* Every step is a click, a submission, something of the network or a step of *)
(* the server.                                                               *)
LEMMA StepsAreThese ==
  ASSUME Next
  PROVE  \/ Clicks \/ Submits \/ Receive \/ Reconnect \/ Tick \/ Server
         \/ \E a \in answers : GetAnswer(a)
         \/ \E a \in answers : LoseAnswer(a)
         \/ \E c \in flying : LoseCommand(c)
BY DEF Next, Player, Network, Clicks, Submits

(* The invariant is inductive: one step keeps it.                            *)
LEMMA StepKeeps ==
  ASSUME IInv, [Next]_vars
  PROVE  IInv'
<1>1. CASE Clicks
  BY <1>1, ClicksCompose, ClicksKeep DEF IInv, TypeOK, Views
<1>2. CASE Submits
  BY <1>2, SubmissionsKeep
<1>3. CASE Receive
  BY <1>3, ReceivingKeeps
<1>4. CASE Reconnect
  BY <1>4, ReconnectingKeeps
<1>5. CASE Tick
  BY <1>5, TickKeeps
<1>6. CASE Server
  BY <1>6, ServerKeeps
<1>7. CASE \E a \in answers : GetAnswer(a)
  BY <1>7, AnswersKeep
<1>8. CASE \E a \in answers : LoseAnswer(a)
  BY <1>8, LostAnswersKeep
<1>9. CASE \E c \in flying : LoseCommand(c)
  BY <1>9, LostCommandsKeep
<1>10. CASE UNCHANGED vars
  BY <1>10, StutterKeeps
<1> QED BY <1>1, <1>2, <1>3, <1>4, <1>5, <1>6, <1>7, <1>8, <1>9, <1>10, StepsAreThese

-----------------------------------------------------------------------------
(* Theorems *)

(* The inductive invariant holds of every match on every screen.              *)
THEOREM Standing == Spec => []IInv
<1>1. Init => IInv
  BY InitHolds
<1>2. IInv /\ [Next]_vars => IInv'
  BY StepKeeps
<1> QED BY <1>1, <1>2, PTL DEF Spec

(* The screen's state has its type, and no defence or trade outlives the      *)
(* input it was picked for (synchronizeUiState, advanceUiClock).             *)
THEOREM TypesHold == Spec => []TypeOK
<1>1. IInv => TypeOK
  BY DEF IInv
<1> QED BY <1>1, Standing, PTL

(* A locked screen waits for a command, an answer or the snapshot after a     *)
(* deadline, or its command is lost (lockForCommand, releaseCommandLock).    *)
THEOREM LocksHaveReasons == Spec => []LockHasReason
<1>1. IInv => LockHasReason
  BY DEF IInv
<1> QED BY <1>1, Standing, PTL

-----------------------------------------------------------------------------
(* What is submitted *)

LEMMA CommandsAreSubmitted ==
  ASSUME [Next]_vars, NEW c \in flying' \ flying
  PROVE  Submits
<1>1. CASE Clicks
  <2>1. flying' = flying
    BY <1>1 DEF Clicks, Click, ClickTarget, ClickHandAction, ClickTradedCard, ClickHandCard,
                ClickUtilityCard, ClickSource, Update
  <2> QED BY <2>1
<1>2. CASE Receive \/ Reconnect \/ Tick
  BY <1>2 DEF Receive, Reconnect, Tick
<1>3. CASE \E a \in answers : GetAnswer(a) \/ LoseAnswer(a)
  BY <1>3 DEF GetAnswer, LoseAnswer, Fail
<1>4. CASE \E d \in flying : LoseCommand(d)
  BY <1>4 DEF LoseCommand
<1>5. CASE Server
  <2>1. flying' \subseteq flying
    BY <1>5 DEF Server, MoveOn, Note, TimeOut, GiveBack, Unheard, Handle
  <2> QED BY <2>1
<1>6. CASE UNCHANGED vars
  BY <1>6 DEF vars
<1> QED BY <1>1, <1>2, <1>3, <1>4, <1>5, <1>6, StepsAreThese

(* A submission for the current revision is made on the current snapshot, by  *)
(* an interface that stands at it and whose input is open.                   *)
LEMMA SubmissionsAreCurrent ==
  ASSUME IInv, Submits, view.revision = server.revision
  PROVE  /\ view = server /\ ~ui.locked /\ ~ui.expired
         /\ ui.deadline = view.deadline /\ ui.reaction = reactionIdOf(view)
         /\ \/ ui.deadline = None \/ ui.deadline > passed \/ view.controller # "HUMAN"
<1>1. PICK content : Submit(content)
  BY SubmissionsAreInputs
<1>2. view = server
  BY DEF IInv, SnapshotsAgree, Snapshots
<1>3. ui.mode \in HumanInputModes
  BY SubmissionsAreInputs
<1>4. ui.revision = view.revision
  <2>1. ui.revision \in Nat /\ view.revision \in Nat /\ ui.revision <= view.revision
    BY BoundsAssumption DEF IInv, TypeOK, Views
  <2>2. ~(ui.revision < view.revision)
    BY <1>3 DEF IInv, ScreenIsShown, HumanInputModes
  <2> QED BY <2>1, <2>2
<1>5. ~ui.expired
  BY <1>1 DEF Submit
<1>6. ui.deadline = view.deadline /\ ui.reaction = reactionIdOf(view)
  BY <1>4, <1>5 DEF IInv, Settled, Stands, Snapshots
<1>7. InterfaceOK(ui) /\ ~Displayed.locked
  BY <1>1 DEF IInv, TypeOK, Submit, Drawn
<1>8. ~Closes(ui, Displayed)
  BY <1>7 DEF Closes
<1>9. \/ ui.deadline = None \/ ui.deadline > passed \/ view.controller # "HUMAN"
  BY <1>3, <1>5, <1>7, <1>8, ClockCloses DEF Displayed
<1>10. ~ui.locked
  <2>1. Displayed = ui
    BY <1>7, <1>8, ClockCloses DEF Displayed
  <2> QED BY <1>7, <2>1
<1> QED BY <1>2, <1>5, <1>6, <1>9, <1>10

LEMMA NothingIsAccepted ==
  ASSUME NEW s \in Situations, NEW a \in ToSet(s.actions), a.type = "DECLARE_REACTION"
  PROVE  Accepted(a, {})
<1>1. a.maxCards \in Nat
  BY SituationsAssumption
<1>2. {} \ Miracles = {} /\ Cardinality({}) = 0
  BY FS_EmptySet
<1> QED BY <1>1, <1>2 DEF Accepted

(* The rule of each kind of command.                                         *)
LEMMA LegalAction ==
  ASSUME NEW c, NEW v, c.type = "DECLARE_ACTION",
         NEW a \in Offers(v, "DECLARE_ACTION"), a.needs \subseteq c.cards,
         c.cards \subseteq a.needs \cup a.additive, c.to \in ToSet(a.targets)
  PROVE  Legal(c, v)
<1>1. Legal(c, v) <=>
        \E x \in Offers(v, c.type) : /\ x.needs \subseteq c.cards
                                     /\ c.cards \subseteq x.needs \cup x.additive
                                     /\ c.to \in ToSet(x.targets)
  BY DEF Legal, HandModes
<1> QED BY <1>1

LEMMA LegalReaction ==
  ASSUME NEW c, NEW v, c.type = "DECLARE_REACTION", FirstOffer(v, c.type) # None,
         c.to = FirstOffer(v, c.type).id, Accepted(FirstOffer(v, c.type), c.cards)
  PROVE  Legal(c, v)
<1>1. Legal(c, v) <=> /\ FirstOffer(v, c.type) # None
                      /\ c.to = FirstOffer(v, c.type).id
                      /\ Accepted(FirstOffer(v, c.type), c.cards)
  BY DEF Legal, HandModes
<1> QED BY <1>1

LEMMA LegalConfirmation ==
  ASSUME NEW c, NEW v, c.type = "CONFIRM_BUY", NEW offer,
         offer = FirstOffer(v, c.type), offer # None,
         c.to \in {<<offer.trade, FALSE>>, <<offer.trade, offer.canAfford>>}
  PROVE  Legal(c, v)
<1>1. Legal(c, v) <=>
        /\ FirstOffer(v, c.type) # None
        /\ c.to \in {<<FirstOffer(v, c.type).trade, FALSE>>,
                     <<FirstOffer(v, c.type).trade, FirstOffer(v, c.type).canAfford>>}
  BY DEF Legal, HandModes
<1> QED BY <1>1

LEMMA LegalSale ==
  ASSUME NEW c, NEW v, c.type = "SELL_CARD", NEW a \in Offers(v, "SELL_CARD"),
         NEW x \in a.cards, NEW y \in a.products, x # y, c.cards = {x, y},
         c.to \in ToSet(a.targets)
  PROVE  Legal(c, v)
<1>1. Legal(c, v) <=>
        \E b \in Offers(v, c.type) : \E z \in b.cards, w \in b.products :
           z # w /\ c.cards = {z, w} /\ c.to \in ToSet(b.targets)
  BY DEF Legal, HandModes
<1> QED BY <1>1

(* What each button submits for the current snapshot is legal there.          *)
LEMMA SubmissionsAreLegal ==
  ASSUME IInv, Submits, view.revision = server.revision, DefenceSuits,
         NEW c \in flying' \ flying
  PROVE  Legal(c.content, server)
<1>1. /\ view = server /\ ui.reaction = reactionIdOf(view)
  BY SubmissionsAreCurrent
<1>2. view.situation \in Situations /\ ui.handMode \in HandModes \cup {None}
  BY DEF IInv, TypeOK, Views, InterfaceOK
<1>3. ASSUME NEW content, Submit(content)
      PROVE  c.content = content
  BY <1>3 DEF Submit
<1>4. CASE SubmitAction
  <2> DEFINE a == selectedDeclareAction(ui, view)
             content == Content("DECLARE_ACTION", ui.chosen, ui.target)
  <2>1. Submit(content) /\ a # None /\ ui.target \in ToSet(a.targets)
    BY <1>4 DEF SubmitAction, CanDeclare
  <2>2. /\ a \in Offers(view, "DECLARE_ACTION")
        /\ a.needs \subseteq ui.chosen /\ ui.chosen \subseteq a.needs \cup a.additive
    BY <1>2, <2>1, ActiveIsOffered
  <2>3. /\ content.type = "DECLARE_ACTION" /\ content.cards = ui.chosen
        /\ content.to = ui.target
    BY DEF Content
  <2>4. c.content = content
    BY <1>3, <2>1
  <2> HIDE DEF a, content
  <2> QED BY <1>1, <2>1, <2>2, <2>3, <2>4, LegalAction
<1>5. CASE SubmitExchange
  <2> DEFINE a == FirstOffer(view, "EXCHANGE_RESOURCES")
             content == Content("EXCHANGE_RESOURCES", {ui.exchange.card}, ui.exchange.total)
  <2>1. Submit(content) /\ a # None /\ ui.exchange.card \in a.cards
          /\ ui.exchange.total = a.total
    BY <1>5 DEF SubmitExchange
  <2>2. a \in Offers(view, "EXCHANGE_RESOURCES")
    BY <1>2, <2>1, FirstOfferIsOffered
  <2>3. /\ content.type = "EXCHANGE_RESOURCES" /\ content.cards = {ui.exchange.card}
        /\ content.to = ui.exchange.total
    BY DEF Content
  <2>4. c.content = content
    BY <1>3, <2>1
  <2> HIDE DEF a, content
  <2> QED BY <1>1, <2>1, <2>2, <2>3, <2>4 DEF Legal
<1>6. CASE SubmitHandAction
  <2> DEFINE a == handActionFor(view, ui.handMode)
             content == Content(ui.handMode, ui.handCards, None)
  <2>1. Submit(content) /\ a # None /\ ui.handCards # {} /\ ui.handCards \subseteq a.cards
    BY <1>6 DEF SubmitHandAction
  <2>2. ui.handMode \in HandModes /\ a = FirstOffer(view, ui.handMode)
    BY <1>2, <2>1 DEF handActionFor
  <2>3. a \in Offers(view, ui.handMode)
    BY <1>2, <2>1, <2>2, FirstOfferIsOffered
  <2>4. content.type = ui.handMode /\ content.cards = ui.handCards
    BY DEF Content
  <2>5. c.content = content
    BY <1>3, <2>1
  <2> HIDE DEF a, content
  <2> QED BY <1>1, <2>1, <2>2, <2>3, <2>4, <2>5 DEF Legal, HandModes
<1>7. CASE SubmitTrade
  <2> DEFINE a == tradeActionForDraft(ui.trade, view)
             sale == Content("SELL_CARD", {ui.trade.card, ui.trade.product}, ui.target)
             buy == Content("DECLARE_BUY", {ui.trade.card}, ui.target)
  <2>1. a # None /\ ui.target \in ToSet(a.targets)
    BY <1>7 DEF SubmitTrade, canSubmitTrade
  <2>2. a \in Offers(view, ui.trade.type) /\ ui.trade.card \in a.cards
    BY <1>2, <2>1, TradeIsOffered
  <2>3. /\ sale.type = "SELL_CARD" /\ sale.cards = {ui.trade.card, ui.trade.product}
        /\ sale.to = ui.target
        /\ buy.type = "DECLARE_BUY" /\ buy.cards = {ui.trade.card} /\ buy.to = ui.target
    BY DEF Content
  <2>4. CASE ui.trade.type = "SELL_CARD" /\ Submit(sale)
    <3>1. c.content = sale
      BY <1>3, <2>4
    <3>2. a.type = "SELL_CARD"
      BY <2>2, <2>4 DEF Offers
    <3>3. ui.trade.product # ui.trade.card /\ ui.trade.product \in a.products
      BY <1>7, <3>2 DEF SubmitTrade, canSubmitTrade
    <3> HIDE DEF a, sale
    <3> QED BY <1>1, <2>1, <2>2, <2>3, <2>4, <3>1, <3>3, LegalSale
  <2>5. CASE ui.trade.type = "DECLARE_BUY" /\ Submit(buy)
    <3>1. c.content = buy
      BY <1>3, <2>5
    <3> HIDE DEF a, buy
    <3> QED BY <1>1, <2>1, <2>2, <2>3, <2>5, <3>1 DEF Legal
  <2> QED BY <1>7, <2>4, <2>5 DEF SubmitTrade
<1>8. CASE SubmitPray
  <2> DEFINE content == Content("PRAY", {}, None)
  <2>1. Submit(content) /\ Offers(view, "PRAY") # {}
    BY <1>8 DEF SubmitPray
  <2>2. content.type = "PRAY"
    BY DEF Content
  <2>3. c.content = content
    BY <1>3, <2>1
  <2> HIDE DEF content
  <2> QED BY <1>1, <2>1, <2>2, <2>3 DEF Legal, HandModes
<1>9. CASE SubmitReaction
  <2> DEFINE r == declareReaction(view)
  <2>1. PICK defence \in {ui.defence, {}} :
          Submit(Content("DECLARE_REACTION", defence, r.id))
    BY <1>9 DEF SubmitReaction
  <2> DEFINE content == Content("DECLARE_REACTION", defence, r.id)
  <2>2. r # None
    BY <1>9 DEF SubmitReaction, CanReact
  <2>3. r \in Offers(view, "DECLARE_REACTION") /\ r = FirstOffer(view, "DECLARE_REACTION")
    BY <1>2, <2>2, FirstOfferIsOffered DEF declareReaction
  <2>4. r \in ToSet(view.situation.actions) /\ r.type = "DECLARE_REACTION"
    BY <2>3 DEF Offers
  <2>5. r.id = ui.reaction
    BY <1>1, <2>2 DEF reactionIdOf
  <2>6. Accepted(r, ui.defence) /\ Accepted(r, {})
    BY <1>2, <2>4, <2>5, NothingIsAccepted DEF DefenceSuits
  <2>7. /\ content.type = "DECLARE_REACTION" /\ content.cards = defence
        /\ content.to = r.id
    BY DEF Content
  <2>8. c.content = content
    BY <1>3, <2>1
  <2>9. Accepted(r, defence)
    BY <2>6
  <2> HIDE DEF r, content
  <2> QED BY <1>1, <2>2, <2>3, <2>7, <2>8, <2>9, LegalReaction
<1>10. CASE ConfirmBuy
  <2> DEFINE offer == FirstOffer(view, "CONFIRM_BUY")
  <2>1. PICK accept \in {FALSE, offer.canAfford} :
          Submit(Content("CONFIRM_BUY", {}, <<offer.trade, accept>>))
    BY <1>10 DEF ConfirmBuy
  <2> DEFINE content == Content("CONFIRM_BUY", {}, <<offer.trade, accept>>)
  <2>2. offer # None
    BY <1>10 DEF ConfirmBuy
  <2>3. content.type = "CONFIRM_BUY" /\ content.to = <<offer.trade, accept>>
    BY DEF Content
  <2>4. c.content = content
    BY <1>3, <2>1
  <2>5. content.to \in {<<offer.trade, FALSE>>, <<offer.trade, offer.canAfford>>}
    BY <2>3
  <2>6. offer = FirstOffer(view, content.type)
    BY <2>3
  <2> HIDE DEF content, offer
  <2> QED BY <1>1, <2>2, <2>3, <2>4, <2>5, <2>6, LegalConfirmation
<1> QED BY <1>4, <1>5, <1>6, <1>7, <1>8, <1>9, <1>10 DEF Submits

(* An input whose deadline the browser has seen pass stays closed: what is    *)
(* submitted for it is refused by the rules of time before it is sent        *)
(* (advanceUiClock, renderActive, synchronizeUiState).                       *)
THEOREM ClosedStaysClosed == Spec => ClosedInputStaysClosed
<1>1. ASSUME IInv, [Next]_vars, NEW c \in flying' \ flying,
             c.expected = server.revision, server.deadline # None
      PROVE  server.deadline > passed
  <2>1. Submits
    BY <1>1, CommandsAreSubmitted
  <2>2. PICK content : Submit(content)
    BY <2>1, SubmissionsAreInputs
  <2>3. c.expected = view.revision
    BY <1>1, <2>2 DEF Submit
  <2>4. /\ view = server /\ ui.deadline = view.deadline
        /\ \/ ui.deadline = None \/ ui.deadline > passed \/ view.controller # "HUMAN"
    BY <1>1, <2>1, <2>3, SubmissionsAreCurrent
  <2>5. server.controller = "HUMAN"
    BY <1>1 DEF IInv, SnapshotsAgree, Snapshots, IsAsked
  <2> QED BY <1>1, <2>4, <2>5
<1>2. IInv /\ [Next]_vars
        => \A c \in flying' \ flying :
             c.expected = server.revision /\ server.deadline # None
               => server.deadline > passed
  BY <1>1
<1>3. IInv /\ [Next]_vars
        => [\A c \in flying' \ flying :
              c.expected = server.revision /\ server.deadline # None
                => server.deadline > passed]_vars
  BY <1>2
<1> QED BY <1>3, Standing, PTL DEF Spec, ClosedInputStaysClosed

-----------------------------------------------------------------------------
(* Defences that suit *)

LEMMA SuitingIsKept ==
  ASSUME DefenceSuits,
         ui'.defence = {} \/ (ui'.defence = ui.defence /\ ui'.reaction = ui.reaction)
  PROVE  DefenceSuits'
<1> SUFFICES ASSUME NEW s \in Situations, NEW a \in ToSet(s.actions),
                    a.type = "DECLARE_REACTION", a.id = ui'.reaction
             PROVE  Accepted(a, ui'.defence)
  BY DEF DefenceSuits
<1>1. CASE ui'.defence = {}
  BY <1>1, NothingIsAccepted
<1>2. CASE ui'.defence = ui.defence /\ ui'.reaction = ui.reaction
  BY <1>2 DEF DefenceSuits
<1> QED BY <1>1, <1>2

LEMMA SynchronizingSuits ==
  ASSUME NEW u, InterfaceOK(u), NEW v \in Views
  PROVE  LET w == synchronizeUiState(u, v) IN
         w.defence = {} \/ (w.defence = u.defence /\ w.reaction = u.reaction)
<1>1. CASE v.revision < u.revision
  BY <1>1 DEF synchronizeUiState
<1>2. CASE ~(v.revision < u.revision)
  BY <1>2, InterfaceFollows DEF Follows
<1> QED BY <1>1, <1>2

LEMMA ShowingSuits ==
  ASSUME IInv, DefenceSuits, NEW v \in Views, Show(v) \/ Reject(v)
  PROVE  DefenceSuits'
<1>1. InterfaceOK(ui)
  BY DEF IInv, TypeOK
<1>2. CASE Show(v)
  BY <1>1, <1>2, SynchronizingSuits, SuitingIsKept DEF Show
<1>3. CASE Reject(v)
  <2> DEFINE u == [ui EXCEPT !.awaiting = None, !.locked = FALSE]
  <2>1. ui' = synchronizeUiState(u, v)
    BY <1>3 DEF Reject, releaseCommandLock
  <2>2. InterfaceOK(u) /\ u.defence = ui.defence /\ u.reaction = ui.reaction
    BY <1>1 DEF InterfaceOK, initialUiState
  <2> HIDE DEF u
  <2> QED BY <2>1, <2>2, SynchronizingSuits, SuitingIsKept
<1> QED BY <1>2, <1>3

(* A click on the snapshot at which the interface stands leaves a defence     *)
(* that suits the reaction.                                                  *)
LEMMA ClicksSuit ==
  ASSUME IInv, DefenceSuits, Clicks, ui.revision <= view.revision
  PROVE  DefenceSuits'
<1>1. InterfaceOK(ui) /\ view \in Views /\ view.situation \in Situations
  BY DEF IInv, TypeOK, Views
<1>2. Composes(ui, ui')
  BY <1>1, ClicksCompose
<1>3. CASE ui'.defence = ui.defence
  BY <1>2, <1>3, SuitingIsKept DEF Composes
<1>4. CASE ui.mode = "COMPOSING_REACTION" /\ \E c \in Sources : ui' = selectDefence(ui, c, view)
  <2> DEFINE r == declareReaction(view)
  <2>1. PICK c \in Sources : ui' = selectDefence(ui, c, view)
    BY <1>4
  <2>2. ui.revision = view.revision
    <3>1. ui.revision \in Nat /\ view.revision \in Nat
      BY <1>1, BoundsAssumption DEF IInv, TypeOK, Views
    <3>2. ~(ui.revision < view.revision)
      BY <1>4 DEF IInv, ScreenIsShown
    <3> QED BY <3>1, <3>2
  <2>3. ~ui.expired
    BY <1>4 DEF IInv, Settled
  <2>4. ui.reaction = reactionIdOf(view) /\ ui'.reaction = ui.reaction
    BY <1>2, <2>2, <2>3 DEF IInv, Settled, Stands, Snapshots, Composes
  <2>5. CASE r = None
    <3>1. ui'.defence = ui.defence
      BY <1>1, <2>1, <2>5
         DEF selectDefence, reactionSourceAvailable, InterfaceOK, initialUiState
    <3> QED BY <2>4, <3>1, SuitingIsKept
  <2>6. CASE r # None
    <3>1. r \in ToSet(view.situation.actions) /\ r.type = "DECLARE_REACTION"
      BY <1>1, <2>6, FirstOfferIsOffered DEF declareReaction, Offers
    <3>2. r.id = ui.reaction
      BY <2>4, <2>6 DEF reactionIdOf
    <3>3. Accepted(r, ui.defence)
      BY <1>1, <3>1, <3>2 DEF DefenceSuits
    <3>4. Accepted(r, ui'.defence)
      BY <1>1, <2>1, <2>6, <3>3, DefenceStaysAccepted
    <3>5. ASSUME NEW s \in Situations, NEW a \in ToSet(s.actions),
                 a.type = "DECLARE_REACTION", a.id = ui'.reaction
          PROVE  a = r
      BY <1>1, <2>4, <3>1, <3>2, <3>5, ReactionsAssumption
    <3> HIDE DEF r
    <3> QED BY <3>4, <3>5 DEF DefenceSuits
  <2> QED BY <2>5, <2>6
<1> QED BY <1>1, <1>3, <1>4, ClicksCompose

LEMMA StepsSuit ==
  ASSUME IInv, [Next]_vars, DefenceSuits, ui.revision <= view.revision
  PROVE  DefenceSuits'
<1>1. CASE Clicks
  BY <1>1, ClicksSuit
<1>2. CASE Submits
  <2>1. PICK content : Submit(content)
    BY <1>2, SubmissionsAreInputs
  <2>2. ui'.defence = ui.defence /\ ui'.reaction = ui.reaction
    BY <2>1 DEF Submit, lockForCommand, IInv, TypeOK, InterfaceOK, initialUiState
  <2> QED BY <2>2, SuitingIsKept
<1>3. CASE Receive
  <2>1. Head(stream) \in Views
    BY <1>3 DEF Receive, IInv, TypeOK
  <2> QED BY <1>3, <2>1, ShowingSuits DEF Receive
<1>4. CASE \E a \in answers : GetAnswer(a)
  <2>1. PICK a \in answers : Show(a.view) \/ Reject(a.view)
    BY <1>4 DEF GetAnswer
  <2>2. a.view \in Views
    BY DEF IInv, TypeOK
  <2> QED BY <2>1, <2>2, ShowingSuits
<1>5. CASE Tick
  <2>1. PICK now : ui' = advanceUiClock(ui, view, now)
    BY <1>5 DEF Tick
  <2>2. ui' = ui \/ Closes(ui, ui')
    BY <2>1, ClockCloses DEF IInv, TypeOK
  <2> QED BY <2>2, SuitingIsKept DEF Closes
<1>6. CASE Reconnect
  BY <1>6, SuitingIsKept DEF Reconnect
<1>7. CASE \E a \in answers : LoseAnswer(a)
  BY <1>7, SuitingIsKept DEF LoseAnswer, Fail
<1>8. CASE \E c \in flying : LoseCommand(c)
  BY <1>8, SuitingIsKept DEF LoseCommand, Fail
<1>9. CASE Server
  <2>1. ui' = ui
    BY <1>9 DEF Server, MoveOn, Note, TimeOut, GiveBack, Unheard, Handle
  <2> QED BY <2>1, SuitingIsKept
<1>10. CASE UNCHANGED vars
  BY <1>10, SuitingIsKept DEF vars
<1> QED BY <1>1, <1>2, <1>3, <1>4, <1>5, <1>6, <1>7, <1>8, <1>9, <1>10, StepsAreThese

(* A command for the current revision is one the rules of handleCommand       *)
(* allow, but for a defence that does not suit its reaction; and only a click *)
(* on an older snapshot makes one unsuited (the guards of ui-machine.ts and   *)
(* the buttons of battle-screen.ts).                                         *)
THEOREM CommandsAreLegal == Spec => CurrentCommandsAreLegal
<1>1. ASSUME IInv, [Next]_vars, NEW c \in flying' \ flying,
             c.expected = server.revision, DefenceSuits
      PROVE  Legal(c.content, server)
  <2>1. Submits
    BY <1>1, CommandsAreSubmitted
  <2>2. PICK content : Submit(content)
    BY <2>1, SubmissionsAreInputs
  <2>3. view.revision = server.revision
    BY <1>1, <2>2 DEF Submit
  <2> QED BY <1>1, <2>1, <2>3, SubmissionsAreLegal
<1>2. IInv /\ [Next]_vars
        => [/\ \A c \in flying' \ flying :
                  c.expected = server.revision /\ IsAsked(server) /\ DefenceSuits
                    => Legal(c.content, server)
            /\ DefenceSuits /\ ui.revision <= view.revision => DefenceSuits']_vars
  BY <1>1, StepsSuit
<1> QED BY <1>2, Standing, PTL DEF Spec, CurrentCommandsAreLegal
=============================================================================
