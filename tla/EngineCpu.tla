------------------------------ MODULE EngineCpu ------------------------------
(* The CPU player: what the projection offers a player as legal, the command *)
(* a CPU makes of it, and whether the engine takes that command.  A CPU sees *)
(* the view its own player would see and nothing else.                       *)
EXTENDS Engine

---------------------------------------------------------------------------
(* legalActionsFor                                                           *)

(* With a filter in the hand, everything that could stop a physical attack   *)
(* is offered; what could not stop the attack as it is is marked filterOnly. *)
OfferedElement(s, p) ==
  IF CardsWith(s, p, "FILTER_ATTACK_ELEMENT") # {} THEN "PHYSICAL" ELSE s.pending.element
Payable(s, p, c) ==
  c \in s.learned[p] \/ c.kind.category = "MIRACLE" => c.kind.cost <= s.mp[p]
offeredDefences(s, p) ==
  {c \in s.hand[p] \cup s.learned[p] :
     canReact(s.pending, c.kind, OfferedElement(s, p), c \in s.learned[p]) /\ Payable(s, p, c)}

isPureCostCutter(k) == Has(k, "CUT_COST") /\ ~attackStandsAlone(k)
costCutters(s, p) == {c \in s.hand[p] : isPureCostCutter(c.kind)}

(* The cards an action on c needs at least: a miracle that is too dear comes *)
(* with a cost cutter, if there is one.                                      *)
minimumActionCards(s, p, c) ==
  IF c.kind.cost <= s.mp[p] THEN {{c}}
  ELSE IF c.kind.category = "MIRACLE" THEN {{c, cutter} : cutter \in costCutters(s, p)}
  ELSE {}

(* Cures go to whoever needs them, and a CPU needs them itself; attacks and  *)
(* harmful cards go to enemies.                                              *)
cpuTargets(s, p, k) ==
  IF attackStandsAlone(k) \/ (directEffectTargetsEnemy(k) /\ ~isSupportiveDirectAction(k))
  THEN EnemiesOf(p, Alive(s)) ELSE {p}

Actionable(k) ==
  \/ attackStandsAlone(k) /\ k.category \in {"WEAPON", "MIRACLE", "GOODS", "ARMOR"}
  \/ ~attackStandsAlone(k) /\ isSupportedDirectAction(k)

---------------------------------------------------------------------------
(* chooseCpuCommand: one of the actions that can be executed, surrender only *)
(* when there is no other.                                                   *)

cpuActions(s, p) ==
  UNION {{[sel |-> sel, target |-> q] : sel \in minimumActionCards(s, p, c),
                                        q \in cpuTargets(s, p, c.kind)}
           : c \in {x \in s.hand[p] \cup s.learned[p] : Actionable(x.kind)}}
cpuSales(s, p) ==
  {[card |-> c, product |-> d, target |-> q] :
     c \in CardsWith(s, p, "SELL"), d \in s.hand[p], q \in EnemiesOf(p, Alive(s))}
cpuPurchases(s, p) ==
  {[card |-> c, target |-> q] :
     c \in CardsWith(s, p, "BUY"), q \in {r \in EnemiesOf(p, Alive(s)) : s.hand[r] # {}}}
(* Mutant: any card at all is thrown away. *)
cpuDiscardsAnything(s, p) == s.hand[p]
cpuDiscards(s, p) ==
  {c \in s.hand[p] : s.endTimeActive \/ isDiscardableDefinition(c.kind)}

(* One of the defences offered, or none when none is.                        *)
cpuReactions(s, p) ==
  IF offeredDefences(s, p) = {} THEN {{}} ELSE {{c} : c \in offeredDefences(s, p)}

(* Every command the CPU may choose is taken by the engine.                  *)
cpuIsServed(s, p) ==
  CASE s.phase = "REACTION_SELECTION" -> \A sel \in cpuReactions(s, p) : MayReact(s, p, sel)
    [] s.phase = "TRADE_CONFIRMATION" -> MayConfirmBuy(s, p, s.pending.canAfford)
    [] s.phase = "ACTION_SELECTION" ->
         /\ \A a \in cpuActions(s, p) : MayDeclareAction(s, p, a.sel, a.target)
         /\ \A a \in cpuSales(s, p) :
              a.product # a.card => MaySell(s, p, a.card, a.product, a.target)
         /\ \A a \in cpuPurchases(s, p) : MayBuy(s, p, a.card, a.target)
         /\ \A c \in CardsWith(s, p, "EXCHANGE") :
              MayExchangeResources(s, p, c, s.hp[p], s.mp[p], s.money[p])
         /\ \A c \in cpuDiscards(s, p) : MayDiscard(s, p, {c})
    [] OTHER -> TRUE

(* A CPU whose command is refused leaves the match where it is: the same     *)
(* state makes it choose the same command again.                             *)
CpuIsNeverRefused == AskedPlayer # "NONE" => cpuIsServed(state, AskedPlayer)
=============================================================================
