----------------------------- MODULE MCBattleUi -----------------------------
(* Instances of BattleUi for TLC. *)
EXTENDS BattleUi

CONSTANTS c1, c2, c3, m1, me, foe

Situation(phase, actions) == [phase |-> phase, actions |-> actions]
Declare(primary, needs, additive, targets) ==
  [type |-> "DECLARE_ACTION", primary |-> primary, needs |-> needs,
   additive |-> additive, targets |-> targets]
Reaction(id, sources, filterOnly, filters, maxCards) ==
  [type |-> "DECLARE_REACTION", id |-> id, sources |-> sources,
   filterOnly |-> filterOnly, filters |-> filters, maxCards |-> maxCards]

(* A turn with a weapon that takes an addition, a miracle and a sale.         *)
Turn == Situation("ACTION_SELECTION", <<
  Declare(c1, {c1}, {c2}, <<foe, me>>),
  Declare(m1, {m1}, {}, <<foe, me>>),
  [type |-> "SELL_CARD", cards |-> {c3}, products |-> {c1, c2}, targets |-> <<foe>>],
  [type |-> "SACRIFICE", cards |-> {c3}]>>)

(* A turn without a weapon: an addition that must be thrown away or traded.   *)
Idle == Situation("ACTION_SELECTION", <<
  [type |-> "EXCHANGE_RESOURCES", cards |-> {c1}, total |-> 3],
  [type |-> "DECLARE_BUY", cards |-> {c3}, targets |-> <<foe>>],
  [type |-> "DISCARD", cards |-> {c2, c3}],
  [type |-> "PRAY"]>>)

(* Two attacks: one with a filter among the answers, one under FLASH.         *)
Hit == Situation("REACTION_SELECTION", <<Reaction(1, {c1, c2, m1}, {c2}, {m1}, 3)>>)
Flash == Situation("REACTION_SELECTION", <<Reaction(2, {c1, c3}, {}, {}, 1)>>)

Offer == Situation("TRADE_CONFIRMATION",
  <<[type |-> "CONFIRM_BUY", trade |-> 1, canAfford |-> TRUE]>>)
Elsewhere == Situation("OTHERS", <<>>)
Gone == Situation("ASCENDED", <<>>)
Over == Situation("MATCH_ENDED", <<>>)

AllSituations == {Turn, Idle, Hit, Flash, Offer, Elsewhere, Gone, Over}
OpeningTurns == {Turn, Elsewhere}
=============================================================================
