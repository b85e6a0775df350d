----------------------------- MODULE Catalogue -----------------------------
(* The card catalogue as it is shipped: 296 definitions.  A row of a group is *)
(* a card's id, its price (a miracle's MP cost) and its instructions.  Names,  *)
(* texts, weights and hit rates are left out: a card either may miss or may    *)
(* not.  Cards that are never held have a short name here instead of their id. *)
EXTENDS EngineRules, TLC

Blank ==
  [category |-> "GOODS", element |-> "PHYSICAL", attack |-> NoAttack, additive |-> FALSE,
   counter |-> 0, defense |-> 0, chance |-> FALSE, cost |-> 0, price |-> 0,
   boost |-> [hp |-> 0, mp |-> 0, money |-> 0], damage |-> 0, counterMp |-> 0,
   calamities |-> {}, cure |-> "NONE", paint |-> "NONE", ops |-> {}, god |-> "NONE", take |-> 0]

(* The instructions, which @@ puts together.                                 *)
Hits(n) == [attack |-> n]
Adds(n) == [attack |-> n, additive |-> TRUE]
Counters(n) == [counter |-> n]
Stops(n) == [defense |-> n]
MayMiss == [chance |-> TRUE]
Gains(hp, mp, money) == [boost |-> [hp |-> hp, mp |-> mp, money |-> money]]
Inflicts(c, when) == [calamities |-> {[calamity |-> c, timing |-> when]}]
Does(operations) == [ops |-> operations]

Group(category, element, rows) ==
  LET row(k) == CHOOSE r \in {rows[i] : i \in DOMAIN rows} : r[1] = k
      valued(k) == IF category = "MIRACLE" THEN [cost |-> row(k)[2]] ELSE [price |-> row(k)[2]]
  IN [k \in {rows[i][1] : i \in DOMAIN rows} |->
        row(k)[3] @@ valued(k) @@ [id |-> k, category |-> category, element |-> element] @@ Blank]
OfGod(god, group) == [k \in DOMAIN group |-> [group[k] EXCEPT !.god = god]]

trades ==
  Group("TRADE", "PHYSICAL", <<
    <<"discard", 0, Does({"DISCARD"})>>, <<"sacrifice", 0, Does({"SACRIFICE"})>>,
    <<"exchange", 5, Does({"EXCHANGE"})>>, <<"sell", 5, Does({"SELL"})>>,
    <<"buy", 5, Does({"BUY"})>> >>)

physicalWeapons ==
  Group("WEAPON", "PHYSICAL", <<
    <<"bronze-club", 1, Hits(1)>>, <<"silver-club", 10, Hits(1)>>,
    <<"gold-club", 25, Hits(1)>>, <<"blowgun", 1, Adds(1)>>, <<"whip", 1, Hits(2)>>,
    <<"saver-rod", 10, Hits(2) @@ Stops(6)>>, <<"crossbow", 2, Adds(2)>>,
    <<"punch", 1, Hits(3)>>, <<"saw-boom-boom", 10, Hits(3) @@ Does({"ATTACK_TWICE"})>>,
    <<"boomerang", 3, Adds(3)>>, <<"hatchet", 2, Hits(4)>>,
    <<"spiked-belt", 3, Hits(4) @@ Stops(2)>>, <<"battle-ball", 4, Adds(4)>>,
    <<"chain-sickle", 2, Hits(5)>>, <<"plate-of-strike", 3, Hits(5) @@ Stops(7)>>,
    <<"bouncing-sword", 10, Hits(5) @@ Does({"BOUNCE_WEAPON"})>>,
    <<"warrior-s-bow", 5, Adds(5)>>, <<"hard-hammer", 2, Hits(6)>>,
    <<"elbow-sack", 3, Hits(6) @@ Stops(3)>>, <<"jet-yo-yo", 6, Adds(6)>>,
    <<"glaive-classic", 3, Hits(7)>>, <<"ghost-sword", 10, Hits(7) @@ Does({"ABSORB_HP"})>>,
    <<"unknown-feather", 7, Adds(7)>>, <<"final-tusk", 3, Hits(8)>>,
    <<"hell-scissors", 15, Hits(8) @@ Inflicts("HELL_SICKNESS", "ON_DAMAGE")>>,
    <<"psychic-card", 8, Adds(8)>>, <<"power-halberd", 3, Hits(9)>>,
    <<"gale-sword", 10, Hits(9) @@ Inflicts("COLD", "ON_DAMAGE")>>,
    <<"sky-harpoon", 5, Adds(9) @@ Does({"BOUNCE_MIRACLE"})>>,
    <<"wonder-sword", 4, Hits(10)>>,
    <<"bogus-spear", 10, Hits(10) @@ Inflicts("DREAM", "ON_DAMAGE")>>,
    <<"sword-shield", 15, Hits(10) @@ Stops(10)>>,
    <<"reflection-sword", 5, Hits(10) @@ Does({"REFLECT_WEAPON"})>>,
    <<"moonlight-axe", 10, Hits(10) @@ Does({"REFLECT_MIRACLE"})>>,
    <<"gravity-mace", 4, Hits(11)>>,
    <<"hexagon-doom", 15, Hits(11) @@ Inflicts("DARK_CLOUD", "ON_DAMAGE")>>,
    <<"angel-knife", 15, Hits(11) @@ Does({"BLOCK_MIRACLE"})>>,
    <<"horror-wheel", 10, Adds(11)>>, <<"direct-smash-axe", 4, Hits(12)>>,
    <<"real-ghost-sword", 15, Hits(12) @@ Does({"ABSORB_HP"})>>,
    <<"spiritual-staff", 20, Hits(12) @@ Does({"CUT_COST"})>>,
    <<"spear-in-fine-view", 5, Hits(13)>>,
    <<"severe-gale-sword", 15, Hits(13) @@ Inflicts("COLD", "ON_DAMAGE")>>,
    <<"legendary-scabbard", 3, Hits(13) @@ Stops(1)>>,
    <<"angel-sword", 15, Hits(13) @@ Does({"BLOCK_MIRACLE"})>>,
    <<"top-of-combat", 10, Adds(13)>>, <<"violent-flail", 5, Hits(14)>>,
    <<"evil-broadsword", 1, Hits(14) @@ Does({"DEAL_SAME_DAMAGE"})>>,
    <<"dragon-claws", 5, Hits(15)>>,
    <<"angel-axe", 15, Hits(15) @@ Does({"BLOCK_MIRACLE"})>>,
    <<"angel-bow", 15, Adds(15) @@ Does({"BLOCK_MIRACLE"})>>, <<"god-sword", 30, Hits(30)>>,
    <<"magical-stick", 10, Does({"CURRENT_MP_X2"})>> >>)

elementalWeapons ==
  Group("WEAPON", "FIRE", <<
    <<"torch", 1, Hits(1)>>, <<"ouch-knife", 2, Hits(2)>>,
    <<"wand-of-ignition", 15, Adds(2) @@ [paint |-> "FIRE"]>>, <<"fire-whip", 3, Hits(3)>>,
    <<"flaming-roll", 8, Hits(4) @@ Stops(4)>>, <<"fire-crossbow", 8, Adds(4)>>,
    <<"blaze-blade", 5, Hits(5)>>, <<"fire-dragon-s-horn", 10, Hits(8)>> >>) @@
  Group("WEAPON", "WATER", <<
    <<"icicle", 1, Hits(1)>>, <<"fog-gun", 10, Hits(3) @@ Inflicts("FOG", "ON_DAMAGE")>>,
    <<"frozen-hammer", 4, Hits(4)>>,
    <<"wand-of-mystic-water", 15, Adds(5) @@ [paint |-> "WATER"]>>,
    <<"water-dragon-s-horn", 10, Hits(8)>> >>) @@
  Group("WEAPON", "WOOD", <<
    <<"wooden-sword", 1, Hits(1)>>, <<"thorn-whip", 2, Hits(2)>>,
    <<"leaf-shuriken", 4, Adds(2)>>, <<"bur-nut", 3, Hits(3)>>,
    <<"mature-rubber-bow", 6, Adds(3)>>,
    <<"dream-mallet", 15, Hits(4) @@ Inflicts("DREAM", "ON_DAMAGE")>> >>) @@
  Group("WEAPON", "EARTH", <<
    <<"wind-talons", 10, Hits(1) @@ Inflicts("COLD", "ON_DAMAGE")>>,
    <<"sword-ware", 2, Hits(2)>>, <<"paleolithic-javelin", 10, Adds(5)>>,
    <<"neolithic-tomahawk", 10, Adds(7)>>, <<"diamond-sword", 25, Hits(13)>> >>) @@
  Group("WEAPON", "LIGHT", <<
    <<"piece-of-brightness", 10, Adds(1)>>,
    <<"flash-dagger", 15, Hits(2) @@ Inflicts("FLASH", "ON_DAMAGE")>>,
    <<"star-staff", 3, Hits(3)>>, <<"justice-lance", 5, Hits(5)>>,
    <<"holy-sword", 15, Hits(9)>>, <<"dangerous-pestle", 5, Hits(30)>> >>) @@
  Group("WEAPON", "DARK", <<
    <<"pri-pri-pricker", 10, Hits(1)>>, <<"cobra", 10, Hits(3)>>,
    <<"goodbye-sword", 10, Hits(4)>>, <<"killer-fork", 10, Hits(5)>>,
    <<"abyss-dart", 15, Adds(5)>>, <<"death-s-scythe", 20, Hits(10)>> >>)

chanceWeapons ==
  Group("WEAPON", "FIRE", <<
    <<"spark-bag", 2, Hits(1) @@ MayMiss>>, <<"flame-cup", 6, Hits(4) @@ MayMiss>>,
    <<"fire-shower", 10, Hits(7) @@ MayMiss>>, <<"flare-axe", 10, Hits(10) @@ MayMiss>> >>) @@
  Group("WEAPON", "WATER", <<
    <<"fog-fan", 8, Hits(3) @@ MayMiss @@ Inflicts("FOG", "ON_DAMAGE")>>,
    <<"chill-cup", 6, Hits(4) @@ MayMiss>>, <<"oversize-snowball", 5, Hits(5) @@ MayMiss>>,
    <<"rain-deity-s-saber", 9, Hits(9) @@ MayMiss>> >>) @@
  Group("WEAPON", "WOOD", <<
    <<"vine-shoot", 10, Hits(3) @@ MayMiss @@ Does({"ABSORB_HP"})>>,
    <<"plant-cup", 6, Hits(4) @@ MayMiss>>,
    <<"jinn-s-rocking-horse", 15, Hits(8) @@ Stops(6) @@ MayMiss>> >>) @@
  Group("WEAPON", "EARTH", <<
    <<"rock-cup", 6, Hits(4) @@ MayMiss>>, <<"cliff-hammer", 4, Hits(6) @@ MayMiss>>,
    <<"petit-saturn", 15, Hits(20) @@ MayMiss>> >>) @@
  Group("WEAPON", "LIGHT", <<
    <<"lightning-kids", 2, Hits(3) @@ MayMiss>>, <<"light-orb", 10, Hits(6) @@ MayMiss>>,
    <<"ascension-bow", 10, Hits(1) @@ MayMiss @@ Does({"ATTACK_DYINGLY"})>> >>) @@
  Group("WEAPON", "DARK", <<
    <<"shadow-hand", 8, Hits(2) @@ MayMiss>> >>)

lightArmor ==
  Group("ARMOR", "PHYSICAL", <<
    <<"leather-cap", 1, Stops(1)>>,
    <<"sky-boots", 5, Stops(1) @@ Does({"BOUNCE_MIRACLE"})>>,
    <<"leather-clothes", 2, Stops(2)>>, <<"iron-gauntlet", 3, Stops(3)>>,
    <<"ogre-s-shoes", 10, Adds(5) @@ Stops(3)>>,
    <<"sky-gauntlet", 5, Stops(3) @@ Does({"BOUNCE_MIRACLE"})>>,
    <<"iron-shield", 4, Stops(4)>>, <<"iron-armor", 5, Stops(5)>>,
    <<"ogre-s-gauntlet", 15, Adds(10) @@ Stops(5)>>,
    <<"sky-helm", 5, Stops(5) @@ Does({"BOUNCE_MIRACLE"})>> >>) @@
  Group("ARMOR", "FIRE", <<
    <<"sparkle-glove", 4, Stops(2)>>, <<"flame-boots", 6, Stops(3)>>,
    <<"flame-helm", 8, Stops(4)>>, <<"flame-shield", 10, Stops(5)>> >>) @@
  Group("ARMOR", "WATER", <<
    <<"aqua-shoes", 2, Stops(1)>>, <<"aqua-glove", 4, Stops(2)>>,
    <<"ice-boots", 6, Stops(3)>>, <<"ice-helm", 8, Stops(4)>>,
    <<"ice-shield", 10, Stops(5)>> >>) @@
  Group("ARMOR", "WOOD", <<
    <<"laurel-wreath", 2, Stops(1)>>, <<"wood-shield", 4, Stops(2)>>,
    <<"sacred-tree-gauntlet", 6, Stops(3)>>, <<"grove-shield", 8, Stops(4)>>,
    <<"resin-knit-robe", 10, Stops(5)>> >>) @@
  Group("ARMOR", "EARTH", <<
    <<"slate", 2, Stops(1)>>, <<"bedrock", 4, Stops(2)>>, <<"crystal-board", 6, Stops(3)>>,
    <<"terra-shoes", 8, Stops(4)>>, <<"terra-gauntlet", 10, Stops(5)>> >>)

mediumArmor ==
  Group("ARMOR", "PHYSICAL", <<
    <<"steel-gauntlet", 6, Stops(6)>>,
    <<"spiritual-socks", 20, Stops(6) @@ Does({"CUT_COST"})>>,
    <<"steel-helm", 7, Stops(7)>>, <<"ogre-s-helm", 15, Adds(10) @@ Stops(7)>>,
    <<"sky-shield", 5, Stops(7) @@ Does({"BOUNCE_MIRACLE"})>>,
    <<"steel-shield", 8, Stops(8)>>, <<"beautiful-glasswork", 20, Stops(8)>>,
    <<"moonlight-helm", 10, Stops(8) @@ Does({"REFLECT_MIRACLE"})>>,
    <<"steel-armor", 9, Stops(9)>>, <<"ogre-s-armor", 20, Adds(15) @@ Stops(9)>>,
    <<"spiritual-hood", 20, Stops(9) @@ Does({"CUT_COST"})>>,
    <<"sky-armor", 5, Stops(9) @@ Does({"BOUNCE_MIRACLE"})>>,
    <<"angel-gauntlet", 15, Stops(9) @@ Does({"BLOCK_MIRACLE"})>> >>) @@
  Group("ARMOR", "FIRE", <<
    <<"flame-mail", 10, Stops(6)>>, <<"burning-shield", 10, Stops(7)>>,
    <<"burning-jacket", 10, Stops(8)>> >>) @@
  Group("ARMOR", "WATER", <<
    <<"ice-armor", 10, Stops(6)>>, <<"snow-mitten", 10, Stops(7)>>,
    <<"snow-mask", 10, Stops(8)>> >>) @@
  Group("ARMOR", "WOOD", <<
    <<"forest-shield", 10, Stops(6)>>, <<"amber-breastplate", 10, Stops(8)>> >>) @@
  Group("ARMOR", "EARTH", <<
    <<"terra-helm", 10, Stops(6)>>, <<"terra-armor", 10, Stops(8)>> >>) @@
  Group("ARMOR", "LIGHT", <<
    <<"shining-high-heels", 15, Stops(6)>> >>)

heavyArmor ==
  Group("ARMOR", "PHYSICAL", <<
    <<"energy-helm", 10, Stops(10)>>,
    <<"moonlight-shield", 10, Stops(10) @@ Does({"REFLECT_MIRACLE"})>>,
    <<"energy-armor", 10, Stops(11)>>,
    <<"angel-cap", 15, Stops(11) @@ Does({"BLOCK_MIRACLE"})>>,
    <<"core-barrier", 10, Stops(12)>>,
    <<"spiritual-sash", 20, Stops(12) @@ Does({"CUT_COST"})>>,
    <<"moonlight-armor", 10, Stops(12) @@ Does({"REFLECT_MIRACLE"})>>,
    <<"core-protector", 10, Stops(13)>>,
    <<"angel-shield", 15, Stops(13) @@ Does({"BLOCK_MIRACLE"})>>,
    <<"angel-armor", 15, Stops(15) @@ Does({"BLOCK_MIRACLE"})>>,
    <<"god-shield", 30, Stops(30)>> >>) @@
  Group("ARMOR", "FIRE", <<
    <<"fever-mask", 10, Stops(10) @@ Inflicts("FEVER", "SELF")>>,
    <<"heat-haze-armor", 15, Stops(12)>> >>) @@
  Group("ARMOR", "WOOD", <<
    <<"dreaming-hat", 15, Stops(14) @@ Inflicts("DREAM", "SELF") @@ Does({"REDRAW_HAND"})>> >>) @@
  Group("ARMOR", "LIGHT", <<
    <<"glittering-dress", 15, Stops(10)>> >>)

rings ==
  Group("ARMOR", "PHYSICAL", <<
    <<"neptune-ring", 10, [counterMp |-> 2]>>,
    <<"venus-ring", 10, Does({"TAKE_DAMAGE_MONEY"})>>,
    <<"rainbow-curtain", 15, Does({"FILTER_ATTACK_ELEMENT"})>>,
    <<"super-mirror", 10, Does({"REFLECT_ANYTHING"})>> >>) @@
  Group("ARMOR", "FIRE", <<
    <<"mars-ring", 10, Counters(1) @@ MayMiss>> >>) @@
  Group("ARMOR", "WATER", <<
    <<"mercury-ring", 10, Inflicts("FOG", "COUNTER")>> >>) @@
  Group("ARMOR", "WOOD", <<
    <<"jupiter-ring", 10, Inflicts("DREAM", "COUNTER")>> >>) @@
  Group("ARMOR", "EARTH", <<
    <<"saturn-ring", 10, Counters(2)>> >>) @@
  Group("ARMOR", "LIGHT", <<
    <<"uranus-ring", 10, Inflicts("FLASH", "COUNTER")>> >>) @@
  Group("ARMOR", "DARK", <<
    <<"pluto-ring", 10, Inflicts("DARK_CLOUD", "COUNTER")>> >>)

goods ==
  Group("GOODS", "PHYSICAL", <<
    <<"smile-dew", 1, Gains(5, 0, 0)>>, <<"heart-dew", 3, Gains(10, 0, 0)>>,
    <<"romance-water", 5, Gains(15, 0, 0)>>, <<"galaxy-geyser", 20, Gains(20, 0, 0)>>,
    <<"smile-flower", 1, Gains(0, 5, 0)>>, <<"heart-flower", 3, Gains(0, 10, 0)>>,
    <<"romance-fragrance", 5, Gains(0, 15, 0)>>,
    <<"heaven-herb", 20, Gains(0, 20, 0) @@ Inflicts("HEAVEN_SICKNESS", "SELF")>>,
    <<"smile-shell", 5, [cure |-> "MILD"]>>, <<"heart-shell", 15, [cure |-> "ALL"]>>,
    <<"guardian-pot", 10, Does({"SET_GUARDIAN"})>>,
    <<"thump-thump-tear", 1, Gains(10, 0, 0) @@ [damage |-> 10]>>,
    <<"strength-powder", 15, Adds(10)>>, <<"spiritual-doll", 5, Does({"CUT_COST"})>>,
    <<"nocturnal-broom", 10, Does({"REMOVE_ITEMS"})>>,
    <<"goddess-s-soap", 10, Does({"REMOVE_USED_MIRACLES"})>>,
    <<"string-of-fate", 3, Does({"CALL_PHENOMENON"})>>,
    <<"sun-amulet", 10, Gains(10, 0, 0) @@ Does({"REVIVE"})>>,
    <<"dangerous-mortar", 1, [damage |-> 99] @@ Does({"ATTRACT_DANGER"})>> >>)

attackMiracles ==
  Group("MIRACLE", "FIRE", <<
    <<"fireball", 2, Adds(2)>>, <<"flame", 5, Hits(10)>> >>) @@
  Group("MIRACLE", "WATER", <<
    <<"ice", 2, Hits(4)>>, <<"waterfall", 12, Hits(25)>> >>) @@
  Group("MIRACLE", "WOOD", <<
    <<"big-tree", 3, Hits(6)>> >>) @@
  Group("MIRACLE", "EARTH", <<
    <<"rock", 4, Hits(8)>> >>) @@
  Group("MIRACLE", "LIGHT", <<
    <<"absorption", 10, Hits(10) @@ Does({"ABSORB_HP"})>>, <<"meteor", 7, Adds(10)>> >>) @@
  Group("MIRACLE", "DARK", <<
    <<"darkness", 5, Hits(5)>> >>)

calamityMiracles ==
  Group("MIRACLE", "PHYSICAL", <<
    <<"wind", 6, Inflicts("COLD", "IMMEDIATE")>>,
    <<"heaven-wind", 15, Inflicts("HEAVEN_SICKNESS", "IMMEDIATE")>> >>) @@
  Group("MIRACLE", "WATER", <<
    <<"fog", 3, Inflicts("FOG", "IMMEDIATE")>> >>) @@
  Group("MIRACLE", "WOOD", <<
    <<"dream", 6, Inflicts("DREAM", "IMMEDIATE")>> >>) @@
  Group("MIRACLE", "DARK", <<
    <<"dark-cloud", 5, Inflicts("DARK_CLOUD", "IMMEDIATE")>> >>)

chanceMiracles ==
  Group("MIRACLE", "FIRE", <<
    <<"smoke", 4, Hits(5) @@ MayMiss>>, <<"magma", 10, Hits(15) @@ MayMiss>> >>) @@
  Group("MIRACLE", "WATER", <<
    <<"avalanche", 6, Hits(8) @@ MayMiss>>, <<"ice-age", 30, Hits(30) @@ MayMiss>> >>) @@
  Group("MIRACLE", "EARTH", <<
    <<"mudflow", 6, Hits(12) @@ MayMiss>> >>) @@
  Group("MIRACLE", "LIGHT", <<
    <<"flash", 3, Hits(1) @@ MayMiss @@ Inflicts("FLASH", "ON_DAMAGE")>>,
    <<"thunder", 4, Hits(10) @@ MayMiss>> >>)

otherMiracles ==
  Group("MIRACLE", "PHYSICAL", <<
    <<"aura", 6, Does({"DOUBLE_ATTACK"})>>, <<"mirage", 5, Does({"ATTACK_EVERY_ENEMY"})>>,
    <<"wall", 6, Does({"BLOCK_WEAPON"})>>, <<"turbulence", 5, Does({"BOUNCE_MIRACLE"})>>,
    <<"spring", 7, Gains(10, 0, 0)>>, <<"treasure", 5, Gains(0, 0, 10)>>,
    <<"tone", 2, [cure |-> "MILD"]>>, <<"song", 5, [cure |-> "ALL"]>>,
    <<"release", 15, Does({"SET_GUARDIAN"})>> >>)

demons ==
  Group("DEMON", "PHYSICAL", <<
    <<"little-demon", 0, [damage |-> 10]>>, <<"middle-demon", 0, [damage |-> 20]>>,
    <<"great-demon", 0, [damage |-> 30]>>, <<"trickster", 0, Does({"REMOVE_SOMETHING"})>>,
    <<"blessing-fairy", 0, Gains(10, 10, 10) @@ Does({"BOOST_SOMETHING"})>> >>)

marsActions ==
  OfGod("mars", Group("GUARDIAN_ACTION", "FIRE", <<
    <<"mars-1", 0, Hits(3) @@ MayMiss>>, <<"mars-2", 0, Hits(4) @@ MayMiss>>,
    <<"mars-3", 0, Hits(5) @@ MayMiss>>, <<"mars-4", 0, Hits(6) @@ MayMiss>>,
    <<"mars-5", 0, Hits(7) @@ MayMiss>> >>))

mercuryActions ==
  OfGod("mercury", Group("GUARDIAN_ACTION", "WATER", <<
    <<"mercury-1", 0, Hits(1) @@ MayMiss @@ Inflicts("FOG", "ON_DAMAGE")>>,
    <<"mercury-2", 0, Hits(2) @@ Inflicts("FOG", "ON_DAMAGE")>>,
    <<"mercury-3", 0, Hits(3) @@ MayMiss>>, <<"mercury-4", 0, Hits(3)>>,
    <<"mercury-5", 0, Hits(6) @@ MayMiss>> >>))

jupiterActions ==
  OfGod("jupiter", Group("GUARDIAN_ACTION", "WOOD", <<
    <<"jupiter-1", 0, Hits(1)>>, <<"jupiter-2", 0, Hits(2)>>,
    <<"jupiter-3", 0, Hits(1) @@ MayMiss @@ Does({"ABSORB_HP"})>>,
    <<"jupiter-4", 0, Inflicts("DREAM", "IMMEDIATE")>>,
    <<"jupiter-5", 0, Hits(2) @@ MayMiss @@ Inflicts("DREAM", "ON_DAMAGE")>> >>))

saturnActions ==
  OfGod("saturn", Group("GUARDIAN_ACTION", "EARTH", <<
    <<"saturn-1", 0, Hits(2)>>, <<"saturn-2", 0, Hits(4)>>, <<"saturn-3", 0, Hits(6)>>,
    <<"saturn-4", 0, Hits(9)>>, <<"saturn-5", 0, Hits(15) @@ Does({"CATEGORY_WEAPON"})>> >>))

uranusActions ==
  OfGod("uranus", Group("GUARDIAN_ACTION", "LIGHT", <<
    <<"uranus-1", 0, Hits(2)>>, <<"uranus-2", 0, Hits(4) @@ MayMiss>>,
    <<"uranus-3", 0, Inflicts("FLASH", "IMMEDIATE")>>,
    <<"uranus-4", 0, Hits(5) @@ Does({"ABSORB_HP"})>>,
    <<"uranus-5", 0, Hits(10) @@ MayMiss>> >>))

plutoActions ==
  OfGod("pluto", Group("GUARDIAN_ACTION", "DARK", <<
    <<"pluto-1", 0, Hits(1) @@ MayMiss>>, <<"pluto-2", 0, Hits(2)>>,
    <<"pluto-3", 0, Inflicts("DARK_CLOUD", "IMMEDIATE")>>, <<"pluto-4", 0, Hits(4)>>,
    <<"pluto-5", 0, Hits(8)>> >>))

neptuneActions ==
  OfGod("neptune", Group("GUARDIAN_ACTION", "PHYSICAL", <<
    <<"neptune-1", 0, [cure |-> "ALL"]>>, <<"neptune-2", 0, Gains(5, 0, 0)>>,
    <<"neptune-3", 0, Gains(0, 5, 0)>>, <<"neptune-4", 0, Gains(10, 0, 0)>>,
    <<"neptune-5", 0, Gains(0, 10, 0)>> >>))

venusActions ==
  OfGod("venus", Group("GUARDIAN_ACTION", "PHYSICAL", <<
    <<"venus-1", 0, Gains(0, 0, 1)>>, <<"venus-2", 0, Gains(0, 0, 5)>>,
    <<"venus-3", 0, [take |-> 3]>>, <<"venus-4", 0, Gains(0, 0, 8)>>,
    <<"venus-5", 0, Gains(0, 0, 20)>> >>))

earthAndMoonActions ==
  OfGod("earth", Group("GUARDIAN_ACTION", "PHYSICAL", << <<"earth-1", 0, Does({"ADD_ITEM"})>> >>)) @@
  OfGod("moon", Group("GUARDIAN_ACTION", "PHYSICAL", <<
    <<"moon-1", 0, Hits(10) @@ Does({"CATEGORY_WEAPON"})>> >>))

phenomena ==
  Group("PHENOMENON", "PHYSICAL", <<
    <<"sunset", 0, Inflicts("FEVER", "IMMEDIATE")>>,
    <<"dense-fog", 0, Inflicts("FOG", "IMMEDIATE")>>,
    <<"mushrooms", 0, Does({"CONFUSE_EVERYBODY"})>>,
    <<"tornado", 0, Does({"SET_HP_OF_EVERYBODY"})>>, <<"warm-current", 0, Gains(50, 0, 0)>>,
    <<"gold-mine", 0, Does({"COLLECT_MONEY_OF_EVERYBODY"})>>,
    <<"magnetic-storm", 0, Does({"SHUFFLE_ITEMS_OF_EVERYBODY"})>>,
    <<"eclipse", 0, Does({"SET_GUARDIAN", "SET_GUARDIAN_OF_EVERYBODY"})>> >>) @@
  Group("PHENOMENON", "LIGHT", <<
    <<"giant-tub", 0, Hits(50) @@ Does({"ATTACK_SOMEBODY"})>> >>) @@
  Group("PHENOMENON", "DARK", <<
    <<"black-hole", 0, Hits(30) @@ MayMiss>> >>)

STANDARD_CARD_DEFINITIONS ==
  trades @@ physicalWeapons @@ elementalWeapons @@ chanceWeapons @@
  lightArmor @@ mediumArmor @@ heavyArmor @@ rings @@ goods @@
  attackMiracles @@ calamityMiracles @@ chanceMiracles @@ otherMiracles @@ demons @@
  marsActions @@ mercuryActions @@ jupiterActions @@ saturnActions @@ uranusActions @@
  plutoActions @@ neptuneActions @@ venusActions @@ earthAndMoonActions @@ phenomena

InCategory(c) ==
  {k \in DOMAIN STANDARD_CARD_DEFINITIONS : STANDARD_CARD_DEFINITIONS[k].category = c}
DEMON_GRANT_POOL == InCategory("DEMON")
NORMAL_GRANT_POOL ==
  UNION {InCategory(c) : c \in {"TRADE", "WEAPON", "ARMOR", "GOODS", "MIRACLE"}}
    \ {"discard", "sacrifice"}
PHENOMENON_DEFINITIONS == InCategory("PHENOMENON")

validateStandardCatalog ==
  /\ Cardinality(DOMAIN STANDARD_CARD_DEFINITIONS) = 296
  /\ Cardinality(NORMAL_GRANT_POOL) = 237 /\ Cardinality(DEMON_GRANT_POOL) = 5
ASSUME StandardCatalog == validateStandardCatalog
=============================================================================
