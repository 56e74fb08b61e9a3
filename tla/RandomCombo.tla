----------------------------- MODULE RandomCombo -----------------------------
(***************************************************************************)
(* The pages between a friend room's start message and its track vote, in  *)
(* which a console's character and vehicle may be rolled: by the player's  *)
(* wish, or, when the host's rules say so, for everyone and before any     *)
(* page is shown.  A common combo is drawn from one seed, the selectId of  *)
(* the host's SELECT packet, by every console for itself.                  *)
(*                                                                         *)
(* One local player, and the pages of the VS votes: SetRandomCombo uses a  *)
(* kart page the battle and two-player votes do not have.  What the game's *)
(* own pages do (ending when the countdown is over, the next page they     *)
(* name) is external.                                                      *)
(***************************************************************************)
EXTENDS RoomRules

CONSTANTS
  VSModes,  \* the start messages' modes that are MODE_PRIVATE_VS
  Ticks     \* values of OSGetTick and of the selectId a host draws

ASSUME ComboAssumption == VSModes \subseteq GameModes /\ Ticks \subseteq Nat \ {0}

VARIABLES
  selectId,  \* the host's toSendPacket.selectId
  vote       \* per console: its way through the pages of the vote

vars == <<roomVars, selectId, vote>>

\* The player's own combo; a rolled one is a number.
Own == -1
Random(seed) == seed \div 32

\* `heard` is receivedPackets[hostAid].selectId, `early` a history: rolled
\* before the host's packet of this vote; `clock` is countdown.isActive, `spin`
\* the roulettes (character, kart, drift) that have not clicked yet, and
\* `chose` a history: these pages were shown.
NoVote(heard) ==
  [page |-> "none", menuState |-> 0, clock |-> TRUE, heard |-> heard, fresh |-> FALSE,
   rolled |-> FALSE, combo |-> Own, early |-> FALSE, spin |-> 0, chose |-> FALSE]

Pages == {"none", "players", "settings", "choose", "cups", "votes"}
Combos == {Own} \union {Random(seed) : seed \in Ticks \union {0}}
Votes == [page : Pages, menuState : {0, 1, 2, 3, 6}, clock : BOOLEAN, heard : Ticks \union {0},
          fresh : BOOLEAN, rolled : BOOLEAN, combo : Combos, early : BOOLEAN, spin : 0..3,
          chose : BOOLEAN]

InVS(c) == session[c] # NoSession /\ session[c].mode \in VSModes
IsRandomComboForced(c) == InVS(c) /\ rules[c].forcedRandom
IsRandomComboCommon(c) == InVS(c) /\ rules[c].commonRandom

-----------------------------------------------------------------------------
\* A console's pages as it leaves v behind: SetRandomCombo, once per vote.
\* (wrong variant) The host reads its own slot of the received packets.
SeedOfSlot(c, v) == v.heard
Seed(c, v) == IF c = Host THEN selectId ELSE v.heard

Rolled(c, v, tick) ==
  [v EXCEPT !.rolled = TRUE, !.spin = 3,
            !.combo = Random(IF IsRandomComboCommon(c) THEN Seed(c, v) ELSE tick),
            !.early = IsRandomComboCommon(c) /\ c # Host /\ ~v.fresh]

\* (wrong variant) A roll does not remember that it was made.
SetRandomComboAgain(c, v) == {Rolled(c, v, tick) : tick \in Ticks}
SetRandomCombo(c, v) == IF v.rolled THEN {v} ELSE {Rolled(c, v, tick) : tick \in Ticks}

Shows(v, page) == [v EXCEPT !.page = page, !.chose = @ \/ page = "choose"]

\* OnActivate of the players' page.
Players(c, v) ==
  LET shown == [Shows(v, "players") EXCEPT !.menuState = 0]
  IN  IF IsRandomComboForced(c) THEN SetRandomCombo(c, shown) ELSE {shown}

\* AddCharacterSelectLayer: the page after one that ended; without a wish of
\* the player's it is the game's own, the choice of the cup.
FastChoose(v) == [Shows(v, "choose") EXCEPT !.spin = 3]
NextPage(c, v, late, forced) ==
  IF ~v.clock \/ v.menuState > 5
  THEN IF v.menuState < 6 /\ forced THEN late ELSE Shows(v, "votes")
  ELSE IF v.menuState = 3 THEN Shows(v, "settings")
  ELSE IF forced \/ v.menuState # 0 THEN Shows(v, "choose")
  ELSE Shows(v, "cups")
MovedOn(before, after) ==
  IF ~before.clock \/ before.menuState # 3 THEN [after EXCEPT !.menuState = 6] ELSE after

\* (wrong variant) The menu state is not moved on.
LayerRepeats(c, v) == NextPage(c, v, FastChoose(v), IsRandomComboForced(c))
\* (wrong variant) Time is over for a forced combo as for any other.
LayerUnforced(c, v) == MovedOn(v, NextPage(c, v, Shows(v, "votes"), IsRandomComboForced(c)))
AddCharacterSelectLayer(c, v) ==
  MovedOn(v, NextPage(c, v, FastChoose(v), IsRandomComboForced(c)))

-----------------------------------------------------------------------------
ComboInit ==
  /\ Init
  /\ selectId \in Ticks
  /\ vote = [c \in Consoles |-> NoVote(0)]

\* A step of the room.  A session begins a vote of its own; the host draws
\* another selectId, and what was heard of it is cleared or is still the last.
RoomStep ==
  /\ Next
  /\ IF session'[Host] # session[Host] /\ session'[Host] # NoSession
     THEN selectId' \in Ticks ELSE UNCHANGED selectId
  /\ \E cleared \in BOOLEAN :
       vote' = [c \in Consoles |->
                  IF session'[c] = session[c] THEN vote[c]
                  ELSE NoVote(IF cleared THEN 0 ELSE vote[c].heard)]

Goes(c, after) ==
  /\ vote' = [vote EXCEPT ![c] = after]
  /\ UNCHANGED <<roomVars, selectId>>

\* A SELECT packet of the host's comes in.
HearHost(c) ==
  /\ c # Host /\ InVS(c) /\ session[Host] = session[c]
  /\ ~vote[c].fresh
  /\ Goes(c, [vote[c] EXCEPT !.heard = selectId, !.fresh = TRUE])

OpenPlayers(c) ==
  /\ InVS(c) /\ vote[c].page = "none"
  /\ \E after \in Players(c, vote[c]) : Goes(c, after)

\* OK, or the end of the countdown.
LeavePlayers(c) ==
  /\ vote[c].page = "players"
  /\ Goes(c, AddCharacterSelectLayer(c, vote[c]))

\* The button and its question, hidden when the combo is forced.
ChangeCombo(c) ==
  /\ vote[c].page = "players" /\ ~IsRandomComboForced(c)
  /\ Goes(c, AddCharacterSelectLayer(c, [vote[c] EXCEPT !.menuState = 1]))

RandomCombo(c) ==
  /\ vote[c].page = "players" /\ ~IsRandomComboForced(c)
  /\ \E after \in SetRandomCombo(c, [vote[c] EXCEPT !.menuState = 2]) :
       Goes(c, AddCharacterSelectLayer(c, after))

OnSettingsButton(c) ==
  /\ vote[c].page = "players"
  /\ Goes(c, AddCharacterSelectLayer(c, [vote[c] EXCEPT !.menuState = 3]))

\* Back from the settings, or out of them when the time is over.
LeaveSettings(c) ==
  /\ vote[c].page = "settings" /\ vote[c].clock
  /\ \E after \in Players(c, vote[c]) : Goes(c, after)

SettingsTimeOut(c) ==
  /\ vote[c].page = "settings" /\ ~vote[c].clock
  /\ Goes(c, Shows(vote[c], IF IsRandomComboForced(c) THEN "choose" ELSE "votes"))

\* The roulettes: without a roll the player chooses, or goes back.
Roulette(c) ==
  /\ vote[c].page = "choose" /\ vote[c].rolled /\ vote[c].spin > 0
  /\ Goes(c, [vote[c] EXCEPT !.spin = @ - 1, !.page = IF vote[c].spin = 1 THEN "cups" ELSE @])

Choose(c) ==
  /\ vote[c].page = "choose" /\ ~vote[c].rolled
  /\ Goes(c, Shows(vote[c], "cups"))

OnBackPressNew(c) ==
  /\ vote[c].page = "choose" /\ ~vote[c].rolled
  /\ \E after \in Players(c, vote[c]) : Goes(c, after)

\* The cup is chosen; external: time ends these pages too.
LeaveCups(c) ==
  /\ vote[c].page = "cups"
  /\ Goes(c, AddCharacterSelectLayer(c, vote[c]))

ChooseTimeOut(c) ==
  /\ vote[c].page = "choose" /\ ~vote[c].clock
  /\ Goes(c, AddCharacterSelectLayer(c, vote[c]))

CountDown(c) ==
  /\ vote[c].page \notin {"none", "votes"} /\ vote[c].clock
  /\ Goes(c, [vote[c] EXCEPT !.clock = FALSE])

TimeOut(c) ==
  /\ ~vote[c].clock
  /\ LeavePlayers(c) \/ SettingsTimeOut(c) \/ ChooseTimeOut(c) \/ LeaveCups(c)

VoteStep(c) ==
  \/ HearHost(c) \/ OpenPlayers(c) \/ LeavePlayers(c) \/ ChangeCombo(c) \/ RandomCombo(c)
  \/ OnSettingsButton(c) \/ LeaveSettings(c) \/ SettingsTimeOut(c)
  \/ Roulette(c) \/ Choose(c) \/ OnBackPressNew(c) \/ ChooseTimeOut(c)
  \/ LeaveCups(c) \/ CountDown(c)

ComboNext == RoomStep \/ \E c \in Consoles : VoteStep(c)

\* The countdown runs, and ends the page it finds; nobody has to press a key.
ComboSpec ==
  /\ ComboInit /\ [][ComboNext]_vars
  /\ \A c \in Consoles : WF_vars(CountDown(c) \/ TimeOut(c))

-----------------------------------------------------------------------------
ComboTypeOK ==
  /\ TypeOK
  /\ selectId \in Ticks
  /\ vote \in [Consoles -> Votes]
  /\ \A c \in Consoles : vote[c].rolled <=> vote[c].combo # Own

\* "All players will get the same random combo before race."
\* (CosmosExtra.txt:1642), as far as they had the host's packet when they
\* rolled (SetRandomCombo, MultiPlayer.cpp:123-173).
SameCombo ==
  \A c, d \in Consoles :
    session[c] = session[d] /\ IsRandomComboCommon(c)
      /\ vote[c].rolled /\ vote[d].rolled /\ ~vote[c].early /\ ~vote[d].early
      => vote[c].combo = vote[d].combo

\* Nobody comes to the vote with a combo of his own when the host forces a
\* random one: the roll is made and its pages are shown, however late.  Those
\* pages take no input, so every time they open, also once more after the
\* settings, their roulettes were set going (MultiPlayer.cpp:231-262, 406-441).
ForcedIsShown ==
  \A c \in Consoles :
    /\ IsRandomComboForced(c) /\ vote[c].page = "votes" => vote[c].rolled /\ vote[c].chose
    /\ vote[c].page = "choose" /\ vote[c].rolled => vote[c].spin > 0

\* A rolled combo is final: no way through the pages rolls a second time
\* (hasSetRandomCombo, MultiPlayer.cpp:124, 172).
RolledOnce ==
  [][\A c \in Consoles :
       vote[c].rolled /\ session'[c] = session[c] => vote'[c].combo = vote[c].combo]_vars

\* Whatever pages a player opens, the countdown brings everyone to the vote
\* (MultiPlayer.cpp:410-437, NewSettingsPage.cpp:76-84).
VotesReached ==
  \A c \in Consoles : (vote[c].page = "players") ~> (vote[c].page = "votes" \/ InLobby(c))
=============================================================================
