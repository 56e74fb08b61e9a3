------------------------------ MODULE UserData ------------------------------
(***************************************************************************)
(* What the save file holds and how it changes: the settings and their     *)
(* migration from older releases, the trophies of each licence in one      *)
(* array shared by the track lists, the online score and the licence       *)
(* class.  Whether a save reaches the NAND is the matter of SettingsSave:  *)
(* here a save is stored or lost as a whole.                               *)
(***************************************************************************)
EXTENDS Integers, FiniteSets, FiniteSetsExt

CONSTANTS
  Licences,     \* 0..3
  Lists,        \* track lists
  CupCount,     \* of each track list; list 0 is the full one
  StoredFiles,  \* what the NAND may hold when the module is first installed
  Changes,      \* settings the player touches and the values: <<name, value>>
  GPResults,    \* how a Grand Prix may end: [engine, rank, trophy]
  OnlineRaces,  \* how an online race may end, see Score
  MaxEvents     \* bound: races and changes of settings since the start

\* The offsets in rawSettings of the settings that moved or appeared in
\* revision 15, with one that did neither.
Raw == [musicCutoff |-> 64, blues |-> 0, miiHeads |-> 1, speedometer |-> 2,
        frameMode |-> 3, ghostSaving |-> 4, trackBlocking |-> 52,
        mainVolume |-> 65, randomCombo |-> 51]
Names == DOMAIN Raw
\* Where revision 14 had them; the others did not exist.
OldRaw == [musicCutoff |-> 0, blues |-> 1, miiHeads |-> 2, speedometer |-> 3,
           frameMode |-> 4, ghostSaving |-> 5, randomCombo |-> 51]
\* The bytes of a licence's settings that the model follows.
RawSettings == 0..5 \union {51, 52, 64, 65}

\* GlobalSettingDefinitions.
OptionCount == [musicCutoff |-> 3, blues |-> 2, miiHeads |-> 2, speedometer |-> 4,
                frameMode |-> 3, ghostSaving |-> 2, trackBlocking |-> 2,
                mainVolume |-> 11, randomCombo |-> 3]
DefaultValue == [musicCutoff |-> 0, blues |-> 0, miiHeads |-> 1, speedometer |-> 2,
                 frameMode |-> 0, ghostSaving |-> 0, trackBlocking |-> 1,
                 mainVolume |-> 10, randomCombo |-> 0]
RevisionAdded == [n \in Names |-> IF n \in {"trackBlocking", "mainVolume"} THEN 15 ELSE 0]

Engines == 0..3
\* A gpData byte, rank in the low six bits; 0xFF is a cup never finished.
NotPlayed == [rank |-> 63, trophy |-> 3]
Results == [rank : 0..63, trophy : 0..3]
MaxCupCount == CupCount[0]
Cups == 0..(MaxCupCount - 1)
Cells == 0..(MaxCupCount * Cardinality(Licences) - 1)

\* score is kept as an unsigned number, gp and online are the two halves of
\* unlockFlags; nothing in the code sets UNLOCK_LOCK.
LicenceData == [score : Nat, races : Nat, gp : SUBSET (0..4), online : SUBSET (0..4)]

\* The sections of the file, each under its version (0: none there).
\* chosen and won are history: what the player chose and last won.
Files == [main : Nat, settingsVersion : Nat, trophyVersion : Nat, licenceVersion : Nat,
          settings : [Licences -> [RawSettings -> Nat]],
          licences : [Licences -> LicenceData],
          trophies : [Cells -> [Engines -> Results]],
          chosen : [Licences -> [Names -> Nat]],
          won : [Licences -> [Cups -> [Engines -> Results]]]]

ASSUME UserDataAssumption ==
  /\ Licences = 0..(Cardinality(Licences) - 1) /\ IsFiniteSet(Licences) /\ Licences # {}
  /\ 0 \in Lists /\ CupCount \in [Lists -> Nat \ {0}]
  /\ \A l \in Lists : CupCount[l] <= CupCount[0]
  /\ StoredFiles \subseteq Files /\ StoredFiles # {}
  /\ \A c \in Changes : c[1] \in Names /\ c[2] \in 0..(OptionCount[c[1]] - 1)
  /\ GPResults \subseteq [engine : Engines, rank : 0..7, trophy : 0..3]
  /\ OnlineRaces \subseteq [players : Nat, leader : Nat \ {0}, frames : Nat, first : Nat,
                           bonus : Nat, penalty : Nat]
  /\ MaxEvents \in Nat

VARIABLES
  file,            \* the buffer all accessors work on
  nand,            \* the stored file
  currentLicense,
  layout,          \* CupManager: the track list of the current layout
  events           \* bounded

vars == <<file, nand, currentLicense, layout, events>>

-----------------------------------------------------------------------------
(* Unsigned division of 32-bit words held as two halves.                    *)

Quotient32(high, low, d) ==
  (high \div d) * 65536 + ((high % d) * 65536 + low) \div d

\* x as u32, divided by d.
U32Div(x, d) == Quotient32((x \div 65536) % 65536, x % 65536, d)

Clamp(x, low, high) == IF x < low THEN low ELSE IF x > high THEN high ELSE x

\* UpdateOnlineScore: the score of one race. bonus and penalty stand for the
\* sums of the statistics that add and subtract.
Score(r) ==
  LET lowest == (r.leader * 5) \div 4
  IN  4 * Clamp(U32Div(1000 * (lowest - r.frames), lowest)
                  + (150 * r.first) \div lowest + r.bonus - r.penalty,
                -50, 250)

\* How much of the licence's score a race of so many players makes, of 36.
Weight(players) == IF players - 2 > 6 THEN 6 ELSE players - 2

\* The new onlineScore: the sum is unsigned, whatever the sign of the score.
Averaged(old, r) ==
  LET w == Weight(r.players)
      low == (36 - w) * (old % 65536) + w * Score(r)
      high == (36 - w) * (old \div 65536) + low \div 65536
  IN  Quotient32(high % 65536, low % 65536, 36)

-----------------------------------------------------------------------------
(* Init: the file is read, checked and brought to this release.             *)

\* AdjustRevisionShifts: the first race setting goes to the sound page, the
\* others move up by one.
\* (wrong variant) The others move first.
ShiftedFirst(s) ==
  LET moved == [raw \in RawSettings |-> IF raw \in 0..4 THEN s[raw + 1] ELSE s[raw]]
  IN  [moved EXCEPT ![64] = moved[0]]
AdjustRevisionShifts(s) ==
  [raw \in RawSettings |-> IF raw = 64 THEN s[0]
                           ELSE IF raw \in 0..4 THEN s[raw + 1] ELSE s[raw]]

\* Settings of an older revision: moved, and those it did not have at their
\* default.
Migrated(s, revision) ==
  [raw \in RawSettings |->
     IF \E n \in Names : Raw[n] = raw /\ RevisionAdded[n] >= revision
     THEN DefaultValue[CHOOSE n \in Names : Raw[n] = raw]
     ELSE AdjustRevisionShifts(s)[raw]]

DefaultSettings ==
  [raw \in RawSettings |->
     IF \E n \in Names : Raw[n] = raw THEN DefaultValue[CHOOSE n \in Names : Raw[n] = raw] ELSE 0]
NewLicence == [score |-> 400, races |-> 0, gp |-> {}, online |-> {}]
NoTrophies == [c \in Cells |-> [e \in Engines |-> NotPlayed]]

\* The checks of the sections, each of a file read into a cleared buffer.
MainValid(f) == f.main = 13
SettingsValid(f) == MainValid(f) /\ f.settingsVersion \in 1..15
\* A licence section of another release makes the trophies invalid.
TrophiesValid(f) ==
  MainValid(f) /\ f.trophyVersion = 1 /\ f.licenceVersion \in 1..2

\* The buffer after Init, read from f.
Loaded(f) ==
  [main |-> 13, settingsVersion |-> 15, trophyVersion |-> 1,
   licenceVersion |-> IF MainValid(f) THEN f.licenceVersion ELSE 2,
   settings |-> [l \in Licences |->
     IF ~SettingsValid(f) THEN DefaultSettings
     ELSE IF f.settingsVersion < 15 THEN Migrated(f.settings[l], f.settingsVersion)
     ELSE f.settings[l]],
   licences |-> IF MainValid(f) THEN f.licences ELSE [l \in Licences |-> NewLicence],
   trophies |-> IF TrophiesValid(f) THEN f.trophies ELSE NoTrophies,
   chosen |-> IF MainValid(f) /\ f.settingsVersion \in 1..15 THEN f.chosen
              ELSE [l \in Licences |-> DefaultValue],
   won |-> IF MainValid(f) /\ f.trophyVersion = 1 /\ f.licenceVersion \in 1..2 THEN f.won
           ELSE [l \in Licences |-> [c \in Cups |-> [e \in Engines |-> NotPlayed]]]]

\* The result of a read that failed: the cleared buffer.
Unread(f) == [f EXCEPT !.main = 0]

-----------------------------------------------------------------------------
(* Trophies: cups[GetCupCount() * license + cupSlot].                       *)

Cell(list, l, cup) == CupCount[list] * l + cup
GPData(f, list, l, cup) == f.trophies[Cell(list, l, cup)]

\* The file holds what was chosen and won before it was stored: the settings
\* where its revision has them, those it does not have at their default.
Agrees(f) ==
  /\ SettingsValid(f) => \A l \in Licences, n \in Names :
       f.chosen[l][n] = IF f.settingsVersion = 15 THEN f.settings[l][Raw[n]]
                        ELSE IF n \in DOMAIN OldRaw THEN f.settings[l][OldRaw[n]]
                        ELSE DefaultValue[n]
  /\ TrophiesValid(f) => \A l \in Licences, c \in Cups : GPData(f, 0, l, c) = f.won[l][c]

ASSUME StoredAssumption == \A f \in StoredFiles : Agrees(f)

\* GetLicenseClass: the highest bit of one half of the flags, from 1.
ClassOf(bits) == IF bits = {} THEN 0 ELSE Max(bits) + 1
MaxLicenseClass(d) == Max({ClassOf(d.gp), ClassOf(d.online)})

\* globalClassRequirements.
Requirements == [class \in 0..4 |->
  [cups |-> <<40, 55, 75, 90, 100>>[class + 1], rank |-> <<6, 5, 4, 3, 2>>[class + 1],
   races |-> <<300, 600, 900, 1300, 1700>>[class + 1],
   score |-> <<420, 510, 600, 700, 850>>[class + 1]]]

\* The cups LicenseClassUpdate counts: all but the 100cc ones, looked up with
\* the layout of the moment.
\* (wrong variant) The 100cc ones too.
CompletedAll(f, list, l) ==
  {ce \in Cups \X Engines : GPData(f, list, l, ce[1])[ce[2]] # NotPlayed}
Completed(f, list, l) ==
  {ce \in Cups \X (Engines \ {0}) : GPData(f, list, l, ce[1])[ce[2]] # NotPlayed}

\* The average rank; without a cup the division is by zero and the processor
\* leaves any number.
Average(ranks, completed) == SumFunctionOnSet(ranks, completed) \div Cardinality(completed)
Ranks(f, list, l) == [ce \in Cups \X Engines |-> GPData(f, list, l, ce[1])[ce[2]].rank]
AverageRanks(f, list, l, completed) ==
  IF completed = {} THEN {0, 63} ELSE {Average(Ranks(f, list, l), completed)}

EnoughCups(completed, average, class) ==
  /\ Cardinality(completed) >= (MaxCupCount * Requirements[class].cups * 3) \div 100
  /\ average <= Requirements[class].rank
EnoughRaces(d, class) ==
  d.races >= Requirements[class].races /\ d.score >= Requirements[class].score

\* The licences LicenseClassUpdate may leave.
ClassUpdated(f, list, l) ==
  LET d == f.licences[l]  class == MaxLicenseClass(d)  done == Completed(f, list, l)
  IN  IF class = 5 THEN {d}
      ELSE {IF EnoughCups(done, average, class) THEN [d EXCEPT !.gp = @ \union {class}]
            ELSE IF EnoughRaces(d, class) THEN [d EXCEPT !.online = @ \union {class}]
            ELSE d
              : average \in AverageRanks(f, list, l, done)}

-----------------------------------------------------------------------------
\* A save of the buffer: stored, or lost.
Save == nand' \in {nand, file'}

Init ==
  /\ nand \in StoredFiles
  /\ file \in {Loaded(nand), Loaded(Unread(nand))}
  /\ currentLicense = 0 /\ layout = 0 /\ events = 0

\* SettingsHolder::Create after a power cycle; the read may fail.
Boot ==
  /\ \E f \in {nand, Unread(nand)} : file' = Loaded(f)
  /\ Save
  /\ currentLicense' = 0 /\ layout' = 0
  /\ UNCHANGED events

\* LoadLicenseSettings: the player picks a licence.
SetCurrentLicense(l) ==
  /\ currentLicense' = l
  /\ UNCHANGED <<file, nand, layout, events>>

Event == events < MaxEvents /\ events' = events + 1

\* SetSettingValue and Update, from the settings pages.
SetSettingValue(name, value) ==
  /\ Event
  /\ file' = [file EXCEPT !.settings[currentLicense][Raw[name]] = value,
                          !.chosen[currentLicense][name] = value]
  /\ Save
  /\ UNCHANGED <<currentLicense, layout>>

\* The trophy of a result: none is 0 in the game and 3 in the file.
StoredTrophy(trophy) == IF trophy \in 1..3 THEN trophy - 1 ELSE 3

\* SaveGP: rank and trophy are written together when either is better.
Better(new, old) == old.rank = 63 \/ new.rank < old.rank \/ new.trophy < old.trophy

\* The Grand Prix opens the cup page, which sets the full list.
\* (wrong variant) It keeps the list of the last room.
GPLayoutKept == layout
GPLayout == 0

FinishGP(cup, r) ==
  /\ Event
  /\ layout' = GPLayout
  /\ LET l == currentLicense
         result == [rank |-> r.rank, trophy |-> StoredTrophy(r.trophy)]
         saved == IF Better(result, GPData(file, layout', l, cup)[r.engine])
                  THEN [file EXCEPT !.trophies[Cell(layout', l, cup)][r.engine] = result,
                                    !.won[l][cup][r.engine] = result]
                  ELSE file
     IN  \E d \in ClassUpdated(saved, layout', l) : file' = [saved EXCEPT !.licences[l] = d]
  /\ Save
  /\ UNCHANGED currentLicense

\* UpdateOnlineScoreAfterRace, in a room with this track list; a player who
\* did not vote has not opened the cup page.
FinishOnlineRace(list, r) ==
  /\ Event
  /\ layout' \in {layout, list}
  /\ LET l == currentLicense
         raced == IF r.players < 3
                  THEN [file EXCEPT !.licences[l].races = @ + 1]
                  ELSE [file EXCEPT !.licences[l].races = @ + 1,
                                    !.licences[l].score = Averaged(@, r)]
     IN  \E d \in ClassUpdated(raced, layout', l) : file' = [raced EXCEPT !.licences[l] = d]
  /\ Save
  /\ UNCHANGED currentLicense

Next ==
  \/ Boot
  \/ \E l \in Licences : SetCurrentLicense(l)
  \/ \E c \in Changes : SetSettingValue(c[1], c[2])
  \/ \E cup \in Cups, r \in GPResults : FinishGP(cup, r)
  \/ \E list \in Lists, r \in OnlineRaces : FinishOnlineRace(list, r)

Spec == Init /\ [][Next]_vars

-----------------------------------------------------------------------------
TypeOK ==
  /\ file \in Files /\ nand \in Files
  /\ currentLicense \in Licences /\ layout \in Lists
  /\ events \in 0..MaxEvents

\* Every setting is what its player chose, or its default, across the move of
\* the settings between pages, a power cut before the migrated file was
\* stored, and the next start (UserData.cpp:147-157, 217-305).
SettingsKept ==
  \A l \in Licences, n \in Names : file.settings[l][Raw[n]] = file.chosen[l][n]

\* A licence's trophies are those of its own Grands Prix, although the array
\* is indexed by the cup count of the current list
\* (UserData.hpp:539-542, SlotExpansion.cpp:190-221).
TrophiesAreOwn ==
  \A l \in Licences, c \in Cups : GPData(file, 0, l, c) = file.won[l][c]

\* A class for cups goes to a licence that has finished the required share of
\* its own cups with the required average, whatever the division without any
\* cup gives; after an online race on a shorter list the cups counted may be
\* another licence's (UserData.cpp:448-463).
OwnCups(f, l) == {ce \in Cups \X (Engines \ {0}) : f.won[l][ce[1]][ce[2]] # NotPlayed}
OwnRanks(f, l) == [ce \in Cups \X Engines |-> f.won[l][ce[1]][ce[2]].rank]
ClassEarned ==
  [][\A l \in Licences :
       \A class \in file'.licences[l].gp \ file.licences[l].gp :
         \/ events' = events
         \/ CupCount[layout'] # MaxCupCount
         \/ LET own == OwnCups(file', l)
            IN  /\ own # {}
                /\ 100 * Cardinality(own)
                     > MaxCupCount * 3 * Requirements[class].cups - 100
                /\ Average(OwnRanks(file', l), own) <= Requirements[class].rank]_vars
=============================================================================
