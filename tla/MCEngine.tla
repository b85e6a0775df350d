----------------------------- MODULE MCEngine -----------------------------
(* Small matches: cards of the real catalogue with their amounts scaled down, *)
(* and decks that put together the cards that meet.                          *)
EXTENDS EngineCpu, Catalogue

SelfTeam == [p \in Players |-> p]
SmallWealth == [hp |-> 2, mp |-> 1, money |-> 1]
SmallDisease == [COLD |-> -1, FEVER |-> -1, HELL_SICKNESS |-> -1, HEAVEN_SICKNESS |-> 1, NONE |-> 0]
Two == <<"a", "b">>
TwoSet == {"a", "b"}
PairTeam == [p \in Players |-> IF p = "a" THEN "a" ELSE "bc"]
Three == <<"a", "b", "c">>
ThreeSet == {"a", "b", "c"}

Deck(dealt, met, called) ==
  [grants |-> dealt, demons |-> met, phenomena |-> called, endTime |-> Never]
LateDeck(dealt, met) ==
  [grants |-> dealt, demons |-> met, phenomena |-> {}, endTime |-> 2]

(* Two players: every way to act meets every way to answer it.               *)
Duels ==
  {Deck({"saw-boom-boom", "leather-cap"}, {}, {}), Deck({"blowgun", "dragon-claws"}, {}, {}),
   Deck({"magical-stick", "super-mirror"}, {}, {}), Deck({"meteor", "spiritual-doll"}, {}, {}),
   Deck({"ghost-sword", "evil-broadsword"}, {}, {}),
   Deck({"dangerous-pestle", "dangerous-mortar"}, {}, {}),
   Deck({"dreaming-hat", "punch"}, {}, {}), Deck({"wall", "punch"}, {}, {}),
   Deck({"wind", "super-mirror"}, {}, {}), Deck({"mars-ring", "dragon-claws"}, {}, {}),
   Deck({"mercury-ring", "blowgun"}, {}, {}), Deck({"venus-ring", "punch"}, {}, {}),
   Deck({"neptune-ring", "punch"}, {}, {}), Deck({"rainbow-curtain", "wand-of-ignition"}, {}, {}),
   Deck({"reflection-sword"}, {}, {}), Deck({"moonlight-axe", "ice"}, {}, {}),
   Deck({"angel-knife", "ice"}, {}, {}), Deck({"aura", "blowgun"}, {}, {}),
   Deck({"mirage", "punch"}, {}, {}), Deck({"goddess-s-soap", "spring"}, {}, {}),
   Deck({"thump-thump-tear", "heaven-herb"}, {}, {}),
   Deck({"string-of-fate", "smile-dew"}, {},
        {"warm-current", "tornado", "gold-mine", "magnetic-storm", "black-hole", "eclipse"}),
   Deck({"string-of-fate", "blowgun"}, {}, {"mushrooms"}),
   Deck({"guardian-pot", "smile-shell"}, {}, {}),
   Deck({"fog", "nocturnal-broom"}, {}, {}), Deck({"fog", "dragon-claws"}, {}, {}),
   Deck({"sell", "smile-dew"}, {}, {}), Deck({"buy", "exchange"}, {}, {}),
   Deck({"sun-amulet", "ascension-bow"}, {}, {}),
   LateDeck({"smile-dew", "dragon-claws"}, {"trickster", "little-demon"})}

(* One against two: attacks on everybody and attacks that are passed on.     *)
Trios ==
  {Deck({"bouncing-sword", "dragon-claws"}, {}, {}), Deck({"flame-cup", "ascension-bow"}, {}, {}),
   Deck({"flame-cup", "leather-cap"}, {}, {}), Deck({"super-mirror", "ghost-sword"}, {}, {}),
   Deck({"turbulence", "ice"}, {}, {}), Deck({"magical-stick", "ice"}, {}, {}),
   Deck({"string-of-fate", "dragon-claws"}, {}, {"black-hole"})}

CounterMatches == {Deck({"guardian-pot", "mars-ring"}, {}, {})}
Sales == {Deck({"sell", "super-mirror", "smile-dew"}, {}, {})}

(* Amounts are divided, a part of a unit counting as one: a unit is 10, of   *)
(* MP costs 6.  Counters keep their factor.                                  *)
Units(n, unit) == (n + unit - 1) \div unit
Scaled(card) ==
  [card EXCEPT !.attack = IF @ = NoAttack THEN @ ELSE Units(@, 10), !.defense = Units(@, 10),
               !.cost = Units(@, 6), !.price = Units(@, 10), !.damage = Units(@, 10),
               !.take = Units(@, 10), !.boost = [r \in DOMAIN @ |-> Units(@[r], 10)]]

CardsOf(ids) == {Scaled(STANDARD_CARD_DEFINITIONS[k]) : k \in ids}
WithCards(decks) ==
  {[d EXCEPT !.grants = CardsOf(@), !.demons = CardsOf(@), !.phenomena = CardsOf(@)] : d \in decks}
DuelDecks == WithCards(Duels)
TrioDecks == WithCards(Trios)
CounterDecks == WithCards(CounterMatches)
SaleDecks == WithCards(Sales)

AllDecks == Duels \cup Trios \cup CounterMatches \cup Sales
DealtKinds == UNION {d.grants \cup d.demons \cup d.phenomena : d \in AllDecks}
SmallCatalog == CardsOf(DealtKinds \cup {"mars-1", "earth-1", "venus-2", "venus-3", "moon-1"})

(* The decks hold what the pools do, and every operation of a card that can  *)
(* be granted is in some deck.                                               *)
ASSUME DecksAreOfThePools ==
  \A d \in AllDecks : /\ d.grants \subseteq NORMAL_GRANT_POOL
                       /\ d.demons \subseteq DEMON_GRANT_POOL
                       /\ d.phenomena \subseteq PHENOMENON_DEFINITIONS
OperationsOf(ks) == UNION {STANDARD_CARD_DEFINITIONS[k].ops : k \in ks}
ASSUME EveryOperationIsDealt ==
  OperationsOf(NORMAL_GRANT_POOL) \subseteq OperationsOf(DealtKinds)

NoAttackIs == -1
===========================================================================
