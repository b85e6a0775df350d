------------------------------ MODULE BattleUi ------------------------------
(***************************************************************************)
(* The battle screen of one player: src/packages/client/src/ui-machine.ts, *)
(* the clicks that battle-screen.ts binds to it, and the commands and      *)
(* answers browser-app.ts carries.  The server is an environment here: a   *)
(* match whose public state, a situation, is replaced at every revision,   *)
(* and which answers commands by the rules of handleCommand.               *)
(*                                                                         *)
(* Cards, learned miracles and players are opaque; a situation says what   *)
(* legalActionsFor (projection.ts) offers.  Amounts are not kept: an       *)
(* exchange draft keeps the total it was opened with, and combinations the *)
(* player cannot pay for are not offered.  A presentation only disables    *)
(* clicks for a while, and no click has to happen.                         *)
(***************************************************************************)
EXTENDS Naturals, Sequences, SequencesExt, FiniteSets

CONSTANTS
  Situations,     \* what the player may find on the table
  Opening,        \* the situations a match starts with
  Cards, Miracles,  \* what the player may hold and may have learned
  Rivals,         \* whom an action may be aimed at
  MaxRevision,    \* revisions of the match
  MaxStream,      \* snapshots on their way on the socket
  MaxCommands,    \* commands the player sends
  None

ASSUME BoundsAssumption ==
  MaxRevision \in Nat \ {0} /\ MaxStream \in Nat /\ MaxCommands \in Nat

ASSUME NoneAssumption == None \notin Nat

(* What legalActionsFor offers: finitely many actions, which name the player's *)
(* own cards and miracles.                                                   *)
ASSUME SituationsAssumption ==
  /\ Opening \subseteq Situations
  /\ \A s \in Situations :
       /\ s.actions \in Seq(ToSet(s.actions))
       /\ \A a \in ToSet(s.actions) :
            /\ a.type = "DECLARE_ACTION" => a.needs \subseteq Cards \cup Miracles
            /\ a.type = "DECLARE_REACTION" =>
                 /\ a.sources \subseteq Cards \cup Miracles /\ IsFiniteSet(a.sources)
                 /\ a.maxCards \in Nat

(* An attack asks a player once, under an id of its own, and nothing changes  *)
(* their hand until they have answered.                                      *)
ASSUME ReactionsAssumption ==
  \A s, t \in Situations : \A a \in ToSet(s.actions), b \in ToSet(t.actions) :
    a.type = "DECLARE_REACTION" /\ b.type = "DECLARE_REACTION" /\ a.id = b.id => a = b

VARIABLES
  server,         \* [revision, situation, controller, deadline]: what a snapshot shows
  stream,         \* snapshots sent on the socket and not yet received, in order
  view,           \* currentView of mountBattleScreen
  ui,             \* currentUi
  passed,         \* the latest deadline that the browser has seen pass
  flying,         \* commands on their way to the server
  answers,        \* answers on their way back
  issued,         \* commands created so far
  lost,           \* commands whose request or answer was lost
  local           \* a training match (showBattle), not an online one

vars == <<server, stream, view, ui, passed, flying, answers, issued, lost, local>>

-----------------------------------------------------------------------------
(* Views *)

HumanInputModes ==
  {"COMPOSING_ACTION", "CHOOSING_TARGET", "COMPOSING_REACTION", "CONFIRMING_TRADE"}

(* The first of the actions offered that passes the test.                    *)
Find(v, Test(_)) ==
  LET hits == {i \in DOMAIN v.situation.actions : Test(v.situation.actions[i])} IN
  IF hits = {} THEN None ELSE v.situation.actions[Min(hits)]

Offers(v, type) == {a \in ToSet(v.situation.actions) : a.type = type}
FirstOffer(v, type) == Find(v, LAMBDA a : a.type = type)

declareReaction(v) == FirstOffer(v, "DECLARE_REACTION")
reactionIdOf(v) == IF declareReaction(v) = None THEN None ELSE declareReaction(v).id

deriveMode(v) ==
  IF v.situation.phase = "MATCH_ENDED" THEN "MATCH_RESULT"
  ELSE IF v.situation.phase = "ASCENDED" THEN "SPECTATING"
  ELSE IF v.controller = "CPU" THEN "WAITING"
  ELSE CASE v.situation.phase = "TRADE_CONFIRMATION" -> "CONFIRMING_TRADE"
         [] v.situation.phase = "REACTION_SELECTION" -> "COMPOSING_REACTION"
         [] v.situation.phase = "ACTION_SELECTION" -> "COMPOSING_ACTION"
         [] OTHER -> "RESOLVING"

IsTargeted(a) == a.type \in {"DECLARE_ACTION", "SELL_CARD", "DECLARE_BUY"}
legalTargetIds(v) ==
  FoldLeft(LAMBDA targets, a : targets \o a.targets, <<>>,
           SelectSeq(v.situation.actions, IsTargeted))

(* The target chosen last, while it is among these; their first otherwise.   *)
PreferredTarget(u, targets) ==
  IF u.lastTarget \in ToSet(targets) THEN u.lastTarget
  ELSE IF targets = <<>> THEN None ELSE Head(targets)

selectedDeclareAction(u, v) ==
  IF u.chosen = {} THEN None
  ELSE Find(v, LAMBDA a : /\ a.type = "DECLARE_ACTION"
                          /\ a.needs \subseteq u.chosen
                          /\ u.chosen \subseteq a.needs \cup a.additive)

-----------------------------------------------------------------------------
(* The state of the interface *)

initialUiState ==
  [mode |-> "MATCH_SETUP", handMode |-> None, handCards |-> {}, exchange |-> None,
   trade |-> None, chosen |-> {}, defence |-> {}, target |-> None, lastTarget |-> None,
   reaction |-> None, awaiting |-> None, deadline |-> None, expired |-> FALSE,
   locked |-> FALSE, invalid |-> FALSE, revision |-> 0]

clearSelectedAction(u) ==
  [u EXCEPT !.mode = "COMPOSING_ACTION", !.trade = None, !.chosen = {}, !.target = None,
            !.invalid = FALSE]

withSelectedAction(u, a) ==
  LET target == PreferredTarget(u, a.targets) IN
  [u EXCEPT !.mode = IF Len(a.targets) > 1 THEN "CHOOSING_TARGET" ELSE "COMPOSING_ACTION",
            !.chosen = a.needs, !.exchange = None, !.trade = None,
            !.target = target, !.lastTarget = target, !.invalid = FALSE]

(* awaitingTimeoutSnapshot                                                   *)
AwaitsTimeout(u, v) ==
  /\ u.expired
  /\ u.revision = v.revision
  /\ u.deadline # None /\ u.deadline = v.deadline
  /\ deriveMode(v) \in HumanInputModes

(* synchronizeUiState for a view that is not older than the interface.       *)
Synchronized(u, v) ==
  LET newer == u.revision # v.revision
      waits == AwaitsTimeout(u, v)
      mode == IF waits THEN "RESOLVING" ELSE deriveMode(v)
      target == PreferredTarget(u, legalTargetIds(v))
      sameTurn == mode = "COMPOSING_ACTION" /\ ~newer
      sameReaction == u.reaction = reactionIdOf(v)
  IN [u EXCEPT
        !.mode = mode,
        !.handMode = IF sameTurn THEN @ ELSE None,
        !.handCards = IF sameTurn THEN @ ELSE {},
        !.exchange = IF sameTurn THEN @ ELSE None,
        !.trade = IF sameTurn THEN @ ELSE None,
        !.chosen = IF mode = "COMPOSING_ACTION" THEN @ ELSE {},
        !.defence = IF mode = "COMPOSING_REACTION" /\ sameReaction THEN @ ELSE {},
        !.target = target, !.lastTarget = target,
        !.reaction = reactionIdOf(v),
        !.awaiting = IF newer \/ waits THEN None ELSE @,
        !.deadline = v.deadline,
        !.expired = waits,
        !.locked = waits \/ (@ /\ ~newer),
        !.invalid = @ /\ u.mode = mode /\ sameReaction /\ ~(newer /\ u.locked),
        !.revision = v.revision]

(* A selection that the new view does not allow is dropped, with a reason.   *)
DropIllegalSelection(u, v) ==
  IF u.mode = "COMPOSING_ACTION" /\ u.chosen # {} /\ selectedDeclareAction(u, v) = None
  THEN [clearSelectedAction(u) EXCEPT !.invalid = TRUE]
  ELSE u

(* Slip: snapshots are taken in whatever order they arrive.                  *)
synchronizeAnyOrder(u, v) == DropIllegalSelection(Synchronized(u, v), v)

synchronizeUiState(u, v) ==
  IF v.revision < u.revision THEN u ELSE DropIllegalSelection(Synchronized(u, v), v)

(* Slip: the input is closed, the selection stays.                           *)
advanceUiClockKeepingSelection(u, v, now) ==
  IF u.deadline = None \/ u.deadline > now \/ u.expired
       \/ u.mode \notin HumanInputModes \/ v.controller # "HUMAN"
  THEN u
  ELSE [u EXCEPT !.mode = "RESOLVING", !.trade = None, !.target = None, !.lastTarget = None,
                 !.reaction = None, !.awaiting = None, !.expired = TRUE, !.locked = TRUE]

(* Once the deadline of an input has passed, the input is closed.            *)
advanceUiClock(u, v, now) ==
  IF u.deadline = None \/ u.deadline > now \/ u.expired
       \/ u.mode \notin HumanInputModes \/ v.controller # "HUMAN"
  THEN u
  ELSE [u EXCEPT !.mode = "RESOLVING", !.trade = None, !.chosen = {}, !.defence = {},
                 !.target = None, !.lastTarget = None, !.reaction = None,
                 !.awaiting = None, !.expired = TRUE, !.locked = TRUE, !.invalid = FALSE]

(* Slip: the answer ends the wait for the command, not the lock.             *)
releaseAwaitOnly(u, v) == synchronizeUiState([u EXCEPT !.awaiting = None], v)

releaseCommandLock(u, v) ==
  synchronizeUiState([u EXCEPT !.awaiting = None, !.locked = FALSE], v)

-----------------------------------------------------------------------------
(* Composing an input *)

Acting(u) == ~u.locked /\ u.mode \in {"COMPOSING_ACTION", "CHOOSING_TARGET"}
Open(u) == ~u.locked /\ ~u.expired /\ u.mode = "COMPOSING_ACTION"
Toggle(set, x) == IF x \in set THEN set \ {x} ELSE set \cup {x}

tradeActionForDraft(draft, v) ==
  IF draft = None THEN None
  ELSE Find(v, LAMBDA a : a.type = draft.type /\ draft.card \in a.cards)

selectTarget(u, p, v) ==
  LET a == selectedDeclareAction(u, v)
      t == tradeActionForDraft(u.trade, v)
      targets == IF t # None THEN t.targets
                 ELSE IF a # None THEN a.targets ELSE legalTargetIds(v)
  IN IF Acting(u) /\ p \in ToSet(targets)
     THEN [u EXCEPT !.mode = "COMPOSING_ACTION", !.target = p, !.lastTarget = p,
                    !.invalid = FALSE]
     ELSE u

primaryAction(c, v) == Find(v, LAMBDA a : a.type = "DECLARE_ACTION" /\ a.primary = c)

(* selectActionCard and selectLearnedMiracle: a source joins or leaves the    *)
(* chosen action, or chooses the action it is the primary of.                *)
selectSource(u, c, v) ==
  LET active == selectedDeclareAction(u, v)
      joins == active # None /\ c \in active.additive \ active.needs
      primary == primaryAction(c, v)
  IN IF ~Acting(u) THEN u
     ELSE IF joins THEN [u EXCEPT !.chosen = Toggle(@, c), !.invalid = FALSE]
     ELSE IF primary = None THEN [u EXCEPT !.invalid = TRUE]
     ELSE IF active # None /\ active.primary = c THEN clearSelectedAction(u)
     ELSE withSelectedAction(u, primary)

HandModes == {"DISCARD", "SACRIFICE"}

toggleHandActionMode(u, type) ==
  IF Open(u)
  THEN [u EXCEPT !.handMode = IF @ = type THEN None ELSE type, !.handCards = {},
                 !.exchange = None, !.trade = None, !.chosen = {}, !.target = None,
                 !.invalid = FALSE]
  ELSE u

handActionFor(v, type) == IF type = None THEN None ELSE FirstOffer(v, type)

toggleHandActionCard(u, c, v) ==
  LET a == handActionFor(v, u.handMode)
  IN IF Open(u) /\ a # None /\ c \in a.cards
     THEN [u EXCEPT !.handCards = Toggle(@, c)]
     ELSE u

toggleTradeDraft(u, type, c, v) ==
  LET draft == [type |-> type, card |-> c, product |-> None]
      a == tradeActionForDraft(draft, v)
      target == PreferredTarget(u, a.targets)
  IN IF ~Acting(u) \/ u.expired THEN u
     ELSE IF u.trade # None /\ u.trade.card = c THEN clearSelectedAction(u)
     ELSE IF a = None THEN u
     ELSE [clearSelectedAction(u) EXCEPT
             !.handMode = None, !.handCards = {}, !.exchange = None, !.trade = draft,
             !.target = target, !.lastTarget = target]

toggleTradeProduct(u, c, v) ==
  LET a == tradeActionForDraft(u.trade, v)
  IN IF ~u.locked /\ a # None /\ u.trade.type = "SELL_CARD" /\ c # u.trade.card
          /\ c \in a.products
     THEN [u EXCEPT !.trade.product = IF u.trade.product = c THEN None ELSE c]
     ELSE u

toggleExchangeDraft(u, c, v) ==
  LET a == FirstOffer(v, "EXCHANGE_RESOURCES")
  IN IF ~Acting(u) \/ u.expired THEN u
     ELSE IF u.exchange # None /\ u.exchange.card = c THEN [u EXCEPT !.exchange = None]
     ELSE IF a = None THEN u
     ELSE IF c \notin a.cards THEN u
     ELSE [clearSelectedAction(u) EXCEPT !.handMode = None, !.handCards = {},
             !.exchange = [card |-> c, total |-> a.total]]

(* A source that only defends while a chosen one filters the element.        *)
reactionSourceAvailable(r, chosen, c) ==
  /\ r # None
  /\ c \in r.sources
  /\ c \in r.filterOnly => chosen \cap r.filters # {}

pruneFilterOnlySelections(r, chosen) ==
  IF chosen \cap r.filters # {} THEN chosen ELSE chosen \ r.filterOnly

(* Slip: the sources that depended on a filter stay when it is taken back.   *)
selectDefenceUnpruned(u, c, v) ==
  LET r == declareReaction(v) IN
  IF u.locked \/ u.mode # "COMPOSING_REACTION" THEN u
  ELSE IF ~reactionSourceAvailable(r, u.defence, c) THEN u
  ELSE IF c \in u.defence THEN [u EXCEPT !.defence = @ \ {c}, !.invalid = FALSE]
  ELSE IF c \notin Miracles /\ Cardinality(u.defence \ Miracles) >= r.maxCards
  THEN [u EXCEPT !.invalid = TRUE]
  ELSE [u EXCEPT !.defence = @ \cup {c}, !.invalid = FALSE]

(* selectDefenseCard and selectDefenseMiracle; FLASH limits the cards to one. *)
selectDefence(u, c, v) ==
  LET r == declareReaction(v) IN
  IF u.locked \/ u.mode # "COMPOSING_REACTION" THEN u
  ELSE IF ~reactionSourceAvailable(r, u.defence, c)
  THEN [u EXCEPT !.invalid = @ \/ (r # None => c \notin r.filterOnly)]
  ELSE IF c \in u.defence
  THEN [u EXCEPT !.defence = pruneFilterOnlySelections(r, @ \ {c}), !.invalid = FALSE]
  ELSE IF c \notin Miracles /\ Cardinality(u.defence \ Miracles) >= r.maxCards
  THEN [u EXCEPT !.invalid = TRUE]
  ELSE [u EXCEPT !.defence = @ \cup {c}, !.invalid = FALSE]

-----------------------------------------------------------------------------
(* What can be submitted *)

(* actionPreview(u, v).canSubmit                                             *)
CanDeclare(u, v) ==
  LET a == selectedDeclareAction(u, v)
  IN ~u.invalid /\ a # None /\ ~u.locked /\ u.target # None /\ u.target \in ToSet(a.targets)

canSubmitTrade(u, v) ==
  LET a == tradeActionForDraft(u.trade, v)
  IN /\ a # None
     /\ u.target # None /\ u.target \in ToSet(a.targets)
     /\ \/ a.type = "DECLARE_BUY"
        \/ /\ u.trade.product # None /\ u.trade.product # u.trade.card
           /\ u.trade.product \in a.products

CanReact(u, v) ==
  ~u.invalid /\ declareReaction(v) # None /\ u.mode = "COMPOSING_REACTION" /\ ~u.locked

(* The draft whose button the action panel shows.                            *)
HandDraft(u, v) == IF Open(u) /\ handActionFor(v, u.handMode) # None THEN u.handMode ELSE None
Panel(u, v) ==
  IF Open(u) /\ u.exchange # None THEN "EXCHANGE"
  ELSE IF HandDraft(u, v) # None THEN "HAND"
  ELSE IF Open(u) /\ u.trade # None THEN "TRADE"
  ELSE "ACTION"

(* Slip: the clock is looked at by its timer only.                           *)
DisplayedAsIs == ui

(* What the browser draws: the state once the clock has been looked at.       *)
Displayed == advanceUiClock(ui, view, passed)
Drawn == ~Displayed.locked

lockForCommand(u, id) ==
  IF u.locked THEN u ELSE [u EXCEPT !.awaiting = id, !.locked = TRUE]

-----------------------------------------------------------------------------
(* Clicks *)

Update(u) ==
  /\ u # ui
  /\ ui' = u
  /\ UNCHANGED <<server, stream, view, passed, flying, answers, issued, lost, local>>

(* The draft a card opens when it has a panel of its own (renderCard).        *)
Utility(c) ==
  IF ui.mode # "COMPOSING_ACTION" THEN None
  ELSE Find(view, LAMBDA a : a.type \in {"EXCHANGE_RESOURCES", "SELL_CARD", "DECLARE_BUY"}
                               /\ c \in a.cards)

OpenUtility(c) ==
  IF Utility(c).type = "EXCHANGE_RESOURCES"
  THEN toggleExchangeDraft(ui, c, view)
  ELSE toggleTradeDraft(ui, Utility(c).type, c, view)

(* actionCardStatus(...).selectable                                          *)
SourceSelectable(c) ==
  LET active == selectedDeclareAction(ui, view)
  IN \/ \E a \in Offers(view, "DECLARE_ACTION") : a.primary = c
     \/ active # None /\ c \in active.additive

(* A card answers to the first of these that concerns it.                    *)
ClickTradedCard(c) ==
  /\ Open(ui) /\ ui.trade # None
  /\ \/ c # ui.trade.card /\ Update(toggleTradeProduct(ui, c, view))
     \/ c = ui.trade.card /\ Utility(c) # None /\ Update(OpenUtility(c))

ClickHandCard(c) ==
  /\ ui.trade = None /\ ui.handMode # None
  /\ Update(toggleHandActionCard(ui, c, view))

ClickUtilityCard(c) ==
  /\ ui.trade = None /\ ui.handMode = None /\ Utility(c) # None
  /\ Update(OpenUtility(c))

ClickSource(c) ==
  /\ c \notin Miracles => ui.trade = None /\ ui.handMode = None /\ Utility(c) = None
  /\ IF ui.mode = "COMPOSING_REACTION"
     THEN /\ reactionSourceAvailable(declareReaction(view), ui.defence, c)
          /\ Update(selectDefence(ui, c, view))
     ELSE /\ SourceSelectable(c)
          /\ Update(selectSource(ui, c, view))

Click(c) ==
  /\ Drawn
  /\ ClickTradedCard(c) \/ ClickHandCard(c) \/ ClickUtilityCard(c) \/ ClickSource(c)

ClickTarget(p) == Drawn /\ Update(selectTarget(ui, p, view))

(* renderHandActionToggle                                                    *)
ClickHandAction(type) ==
  /\ Drawn /\ ui.trade = None /\ Offers(view, type) # {}
  /\ Update(toggleHandActionMode(ui, type))

-----------------------------------------------------------------------------
(* Submitting *)

Content(type, cards, to) == [type |-> type, cards |-> cards, to |-> to]

(* onCommand, after the prepare...Submission that the button calls.          *)
Submit(content) ==
  /\ Drawn /\ ~ui.expired
  /\ issued < MaxCommands
  /\ LET id == IF ui.awaiting = None THEN issued + 1 ELSE ui.awaiting IN
     /\ ui' = lockForCommand(ui, id)
     /\ flying' = flying \cup {[id |-> id, expected |-> view.revision, content |-> content]}
     /\ issued' = IF ui.awaiting = None THEN id ELSE issued
  /\ UNCHANGED <<server, stream, view, passed, answers, lost, local>>

SubmitAction ==
  /\ Panel(ui, view) = "ACTION" /\ Acting(ui) /\ CanDeclare(ui, view)
  /\ Submit(Content("DECLARE_ACTION", ui.chosen, ui.target))

SubmitExchange ==
  LET a == FirstOffer(view, "EXCHANGE_RESOURCES") IN
  /\ Panel(ui, view) = "EXCHANGE" /\ a # None
  /\ ui.exchange.card \in a.cards /\ ui.exchange.total = a.total
  /\ Submit(Content("EXCHANGE_RESOURCES", {ui.exchange.card}, ui.exchange.total))

SubmitHandAction ==
  LET a == handActionFor(view, ui.handMode) IN
  /\ Panel(ui, view) = "HAND" /\ a # None
  /\ ui.handCards # {} /\ ui.handCards \subseteq a.cards
  /\ Submit(Content(ui.handMode, ui.handCards, None))

SubmitTrade ==
  /\ Panel(ui, view) = "TRADE" /\ canSubmitTrade(ui, view)
  /\ \/ /\ ui.trade.type = "SELL_CARD"
        /\ Submit(Content("SELL_CARD", {ui.trade.card, ui.trade.product}, ui.target))
     \/ /\ ui.trade.type = "DECLARE_BUY"
        /\ Submit(Content("DECLARE_BUY", {ui.trade.card}, ui.target))

SubmitPray ==
  /\ Panel(ui, view) = "ACTION" /\ ui.mode = "COMPOSING_ACTION" /\ ui.chosen = {}
  /\ Offers(view, "PRAY") # {}
  /\ Submit(Content("PRAY", {}, None))

SubmitReaction ==
  /\ CanReact(ui, view)
  /\ \E defence \in {ui.defence, {}} :
       Submit(Content("DECLARE_REACTION", defence, declareReaction(view).id))

ConfirmBuy ==
  LET offer == FirstOffer(view, "CONFIRM_BUY") IN
  /\ ui.mode = "CONFIRMING_TRADE" /\ offer # None
  /\ \E accept \in {FALSE, offer.canAfford} :
       Submit(Content("CONFIRM_BUY", {}, <<offer.trade, accept>>))

-----------------------------------------------------------------------------
(* What reaches the browser *)

(* updateView, applyRealtimeMessage: the view is replaced whatever it was.    *)
Show(v) == view' = v /\ ui' = synchronizeUiState(ui, v)

(* rejectCommand                                                             *)
Reject(v) == view' = v /\ ui' = releaseCommandLock(ui, v)

Receive ==
  /\ stream # <<>>
  /\ Show(Head(stream))
  /\ stream' = Tail(stream)
  /\ UNCHANGED <<server, passed, flying, answers, issued, lost, local>>

(* The socket was cut: what was on its way is gone, and a new one starts with *)
(* what the match is now.                                                    *)
Reconnect ==
  /\ stream # <<>>
  /\ stream' = <<server>>
  /\ UNCHANGED <<server, view, ui, passed, flying, answers, issued, lost, local>>

GetAnswer(a) ==
  /\ a \in answers
  /\ IF a.kind = "OK" THEN Show(a.view) ELSE Reject(a.view)
  /\ answers' = answers \ {a}
  /\ UNCHANGED <<server, stream, passed, flying, issued, lost, local>>

Answer(id, kind, v) == [id |-> id, kind |-> kind, view |-> v]

(* The catch of onCommand: a training match asks for the snapshot again, an   *)
(* online one shows a notice.                                                *)
Fail(id, others) ==
  /\ IF local
     THEN answers' = others \cup {Answer(id, "RESTORED", server)} /\ UNCHANGED lost
     ELSE answers' = others /\ lost' = lost \cup {id}
  /\ UNCHANGED <<server, stream, view, ui, passed, issued, local>>

LoseCommand(c) ==
  /\ c \in flying
  /\ flying' = flying \ {c}
  /\ Fail(c.id, answers)

LoseAnswer(a) ==
  /\ a \in answers
  /\ UNCHANGED flying
  /\ \/ a.kind # "RESTORED" /\ Fail(a.id, answers \ {a})
     \/ /\ a.kind = "RESTORED"
        /\ answers' = answers \ {a}
        /\ lost' = lost \cup {a.id}
        /\ UNCHANGED <<server, stream, view, ui, passed, issued, local>>

(* tick; the clock may just have passed the deadline on the screen.          *)
Tick ==
  /\ \E now \in {passed, ui.deadline} \ {None} :
       /\ now >= passed
       /\ passed' = now
       /\ ui' = advanceUiClock(ui, view, now)
  /\ <<passed, ui>>' # <<passed, ui>>
  /\ UNCHANGED <<server, stream, view, flying, answers, issued, lost, local>>

-----------------------------------------------------------------------------
(* The server                                                                *)

InputPhases == {"ACTION_SELECTION", "REACTION_SELECTION", "TRADE_CONFIRMATION"}
IsAsked(v) == v.situation.phase \in InputPhases /\ v.controller = "HUMAN"
Ended(v) == v.situation.phase = "MATCH_ENDED"

(* A defence that a reaction allows.                                         *)
Accepted(r, defence) ==
  /\ defence \subseteq r.sources
  /\ Cardinality(defence \ Miracles) <= r.maxCards
  /\ defence \cap r.filterOnly # {} => defence \cap r.filters # {}

Legal(c, v) ==
  LET aimed == Offers(v, c.type)
      only == FirstOffer(v, c.type) IN
  CASE c.type = "DECLARE_ACTION" ->
         \E a \in aimed : /\ a.needs \subseteq c.cards
                                 /\ c.cards \subseteq a.needs \cup a.additive
                                 /\ c.to \in ToSet(a.targets)
    [] c.type = "DECLARE_REACTION" ->
         only # None /\ c.to = only.id /\ Accepted(only, c.cards)
    [] c.type = "CONFIRM_BUY" ->
         only # None /\ c.to \in {<<only.trade, FALSE>>, <<only.trade, only.canAfford>>}
    [] c.type = "SELL_CARD" ->
         \E a \in aimed : \E x \in a.cards, y \in a.products :
           x # y /\ c.cards = {x, y} /\ c.to \in ToSet(a.targets)
    [] c.type = "DECLARE_BUY" ->
         \E a \in aimed : c.cards \subseteq a.cards /\ c.to \in ToSet(a.targets)
    [] c.type = "EXCHANGE_RESOURCES" ->
         \E a \in aimed : c.cards \subseteq a.cards /\ c.to = a.total
    [] c.type \in HandModes ->
         \E a \in aimed : c.cards # {} /\ c.cards \subseteq a.cards
    [] OTHER -> aimed # {}

(* The next snapshot; an input asked of a person has a new deadline.          *)
After(v, situation, controller) ==
  LET n == v.revision + 1
      next == [revision |-> n, situation |-> situation, controller |-> controller,
               deadline |-> None]
  IN IF IsAsked(next) THEN [next EXCEPT !.deadline = n] ELSE next

(* publish                                                                   *)
Publish(v) ==
  /\ v.revision <= MaxRevision
  /\ Len(stream) < MaxStream
  /\ server' = v
  /\ stream' = Append(stream, v)

Following(s) ==
  {t \in Situations : s.phase = "ASCENDED" => t.phase \in {"ASCENDED", "MATCH_ENDED"}}

Unheard == UNCHANGED <<view, ui, passed, flying, answers, issued, lost, local>>

(* Somebody else, or the CPU in the player's place, moves the match on.       *)
MoveOn ==
  /\ ~IsAsked(server) /\ ~Ended(server)
  /\ \E s \in Following(server.situation) : Publish(After(server, s, server.controller))
  /\ Unheard

(* Something happens that leaves the input and its deadline alone.           *)
Note ==
  /\ ~Ended(server)
  /\ Publish([server EXCEPT !.revision = @ + 1])
  /\ Unheard

TimeOut ==
  /\ IsAsked(server)
  /\ Publish(After(server, server.situation, "CPU"))
  /\ Unheard

GiveBack ==
  /\ server.controller = "CPU" /\ ~Ended(server)
  /\ Publish(After(server, server.situation, "HUMAN"))
  /\ Unheard

(* handleCommand: an accepted command moves the match on; any other is        *)
(* refused with what the match is now.                                       *)
Accepts(c) == IsAsked(server) /\ c.expected = server.revision /\ Legal(c.content, server)

Handle(c) ==
  /\ c \in flying
  /\ flying' = flying \ {c}
  /\ \/ /\ Accepts(c)
        /\ \E s \in Following(server.situation) :
             /\ Publish(After(server, s, "HUMAN"))
             /\ answers' = answers \cup {Answer(c.id, "OK", After(server, s, "HUMAN"))}
     \/ /\ ~Accepts(c)
        /\ answers' = answers \cup {Answer(c.id, "REFUSED", server)}
        /\ UNCHANGED <<server, stream>>
  /\ UNCHANGED <<view, ui, passed, issued, lost, local>>

-----------------------------------------------------------------------------

Init ==
  /\ \E s \in Opening :
       server = After([revision |-> 0], s, "HUMAN")
  /\ view = server /\ stream = <<server>>
  /\ ui = initialUiState
  /\ passed = 0
  /\ flying = {} /\ answers = {} /\ issued = 0 /\ lost = {}
  /\ local \in BOOLEAN

Player ==
  \/ \E c \in Cards \cup Miracles : Click(c)
  \/ \E p \in Rivals : ClickTarget(p)
  \/ \E type \in HandModes : ClickHandAction(type)
  \/ SubmitAction \/ SubmitExchange \/ SubmitHandAction \/ SubmitTrade
  \/ SubmitPray \/ SubmitReaction \/ ConfirmBuy

Network ==
  \/ Receive \/ Reconnect \/ Tick
  \/ \E a \in answers : GetAnswer(a) \/ LoseAnswer(a)
  \/ \E c \in flying : LoseCommand(c)

Server == MoveOn \/ Note \/ TimeOut \/ GiveBack \/ (\E c \in flying : Handle(c))

Next == Player \/ Network \/ Server

Spec == Init /\ [][Next]_vars

(* What was sent on an open socket arrives.                                  *)
FairSpec == Spec /\ WF_vars(Receive)

-----------------------------------------------------------------------------
(* Properties *)

Views == [revision : 1..MaxRevision, situation : Situations,
          controller : {"HUMAN", "CPU"}, deadline : {None} \cup 1..MaxRevision]

(* What the player has picked for one kind of input never survives into       *)
(* another: a defence is there only while composing a reaction, a trade only  *)
(* while composing an action.                                                *)
InterfaceOK(u) ==
  /\ DOMAIN u = DOMAIN initialUiState
  /\ u.mode \in HumanInputModes
       \cup {"MATCH_SETUP", "MATCH_RESULT", "SPECTATING", "WAITING", "RESOLVING"}
  /\ u.chosen \subseteq Cards \cup Miracles /\ u.defence \subseteq Cards \cup Miracles
  /\ u.handMode \in HandModes \cup {None}
  /\ u.deadline \in {None} \cup 1..MaxRevision
  /\ u.chosen # {} => u.mode \in {"COMPOSING_ACTION", "CHOOSING_TARGET"}
  /\ u.defence # {} => u.mode = "COMPOSING_REACTION"
  /\ u.trade # None => u.mode = "COMPOSING_ACTION"
  /\ u.expired \in BOOLEAN /\ u.locked \in BOOLEAN /\ u.invalid \in BOOLEAN

(* The state has its type, no picks survive the input they were made for, and *)
(* the interface never believes in a later revision than there is.           *)
TypeOK ==
  /\ server \in Views /\ view \in Views /\ stream \in Seq(Views)
  /\ \A c \in flying : c.id \in 1..issued /\ c.expected \in 1..server.revision
  /\ \A a \in answers : a.id \in 1..issued /\ a.view \in Views
  /\ passed \in 0..MaxRevision /\ issued \in 0..MaxCommands /\ lost \subseteq 1..issued
  /\ InterfaceOK(ui)
  /\ ui.revision \in 0..server.revision /\ view.revision <= server.revision

(* The defence that is picked suits the reaction it is picked for.            *)
DefenceSuits ==
  \A s \in Situations : \A a \in ToSet(s.actions) :
    a.type = "DECLARE_REACTION" /\ a.id = ui.reaction => Accepted(a, ui.defence)

(* However selections outlive snapshots, late answers and lost messages, a    *)
(* command sent for the current revision is one the rules allow, unless it is *)
(* a defence that does not suit the reaction; and a defence stops suiting its *)
(* reaction only by a click on a snapshot older than the interface: the       *)
(* buttons of battle-screen.ts and the guards of ui-machine.ts together offer *)
(* nothing else that is illegal.                                             *)
CurrentCommandsAreLegal ==
  [][/\ \A c \in flying' \ flying :
          c.expected = server.revision /\ IsAsked(server) /\ DefenceSuits
            => Legal(c.content, server)
     /\ DefenceSuits /\ ui.revision <= view.revision => DefenceSuits']_vars

(* An input whose deadline the browser has seen pass stays closed, through     *)
(* every snapshot that still carries the same deadline.                      *)
ClosedInputStaysClosed ==
  [][\A c \in flying' \ flying :
       c.expected = server.revision /\ server.deadline # None
         => server.deadline > passed]_vars

(* A locked screen waits for something: a command or an answer on its way, or *)
(* a snapshot after the deadline.  The one exception is a command whose loss  *)
(* left nothing to wait for.                                                 *)
LockHasReason ==
  ui.locked =>
    \/ ui.expired
    \/ ui.awaiting \in {c.id : c \in flying} \cup {a.id : a \in answers} \cup lost

(* Once the match has ended the interface comes to rest in the result, and no *)
(* snapshot that arrives late takes it away (synchronizeUiState).            *)
ResultIsReached == Ended(server) ~> [](ui.mode = "MATCH_RESULT")
=============================================================================
