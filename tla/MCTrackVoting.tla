---------------------------- MODULE MCTrackVoting ----------------------------
EXTENDS TrackVoting
CONSTANTS h, g1, c1, c2, v1, v2, grp, ar

Two == {h, g1}

\* A group with two variants.
MCVariants == [s \in {grp} |-> {v1, v2}]
NoVariants == [s \in {} |-> {c1}]

\* All courses, and two disjoint lists.
MCTrackLists == [l \in 0..2 |-> CASE l = 0 -> {c1, grp} [] l = 1 -> {c1} [] l = 2 -> {grp}]
TwoCourses == [l \in 0..2 |-> CASE l = 0 -> {c1, c2} [] l = 1 -> {c1} [] l = 2 -> {c2}]

Plain == [haw |-> FALSE, miiHeads |-> TRUE, allowMiiHeads |-> TRUE,
          allItems |-> FALSE, megaCloud |-> FALSE, variants |-> FALSE,
          raceCount |-> 0, trackList |-> 0, randomCombo |-> "disabled",
          forceCC |-> "150"]
PlainMenus == {Plain}
ListMenus == {[Plain EXCEPT !.trackList = 1, !.variants = TRUE, !.forceCC = "none"],
              [Plain EXCEPT !.trackList = 2, !.haw = TRUE, !.forceCC = "200"]}
HawMenus == {[Plain EXCEPT !.haw = TRUE]}
=============================================================================
