---------------------------- MODULE MCRandomCombo ----------------------------
EXTENDS RandomCombo
CONSTANTS h, g1

MCConsoles == {h, g1}

Plain == [haw |-> FALSE, miiHeads |-> TRUE, allowMiiHeads |-> TRUE,
          allItems |-> FALSE, megaCloud |-> FALSE, variants |-> FALSE,
          raceCount |-> 1, trackList |-> 0, randomCombo |-> "disabled",
          forceCC |-> "none"]

\* Two pages that differ in every packed field, each with a host whose own Mii
\* heads are not what it allows.
MCMenus ==
  {[Plain EXCEPT !.haw = TRUE, !.variants = TRUE, !.raceCount = 4, !.trackList = 2,
                 !.allowMiiHeads = FALSE],
   [Plain EXCEPT !.miiHeads = FALSE, !.megaCloud = TRUE, !.raceCount = 6,
                 !.trackList = 1, !.randomCombo = "common"]}

\* The option "24", no Mii heads, all items.
PageMenus ==
  {[Plain EXCEPT !.raceCount = 5, !.allowMiiHeads = FALSE, !.allItems = TRUE]}

\* Every page comes through the sixteen bits, and nothing else changes.
ASSUME PackedRulesComeBack ==
  \A m \in Menus, items \in BOOLEAN :
    ParseHostSettings([allItems |-> items], Pack(m)) =
      [allItems |-> items,
       haw |-> m.haw, miiHeads |-> m.miiHeads, raceCount |-> raceCounts[m.raceCount],
       megaCloud |-> m.megaCloud, variants |-> m.variants,
       forcedRandom |-> m.randomCombo # "disabled",
       commonRandom |-> m.randomCombo = "common", trackList |-> m.trackList]
=============================================================================
