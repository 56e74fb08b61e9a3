-------------------------- MODULE RandomComboProofs --------------------------
(***************************************************************************)
(* Proofs about RandomCombo for any consoles, rules, modes and seeds.      *)
(***************************************************************************)
EXTENDS RandomCombo, RoomRulesProofs

-----------------------------------------------------------------------------
(* The invariant.                                                           *)

\* Where c is in the pages of its vote, with what was rolled and shown so far.
OnItsWay(c, v) ==
  /\ v.page = "none" => ~v.rolled
  /\ v.page # "none" \/ v.fresh => InVS(c)
  /\ v.page = "players" => v.menuState = 0
  /\ v.page = "choose" => v.chose /\ (v.rolled => v.spin > 0)
  /\ v.page \in {"players", "settings"} /\ v.rolled => v.spin = 3
  /\ v.page \in {"choose", "cups"} /\ v.clock => v.menuState = 6
  /\ IsRandomComboForced(c) /\ v.page # "none" => v.rolled
  /\ IsRandomComboForced(c) /\ v.page \in {"cups", "votes"} => v.chose

\* What a common combo was rolled from.
FromSeed(c, v) ==
  /\ v.rolled <=> v.combo # Own
  /\ v.rolled /\ IsRandomComboCommon(c) /\ ~v.early =>
       v.combo = Random(Seed(c, v)) /\ (c # Host => v.fresh)

\* What the consoles of one session have heard is the same, and the host's
\* selectId as long as it is there.
HeardSame ==
  /\ \A c \in Guests :
       vote[c].fresh /\ session[c] = session[Host] => vote[c].heard = selectId
  /\ \A c, d \in Guests :
       vote[c].fresh /\ vote[d].fresh /\ session[c] = session[d] => vote[c].heard = vote[d].heard

ComboInv ==
  /\ RoomInv
  /\ selectId \in Ticks /\ vote \in [Consoles -> Votes]
  /\ \A c \in Consoles : OnItsWay(c, vote[c]) /\ FromSeed(c, vote[c])
  /\ HeardSame

-----------------------------------------------------------------------------
(* What the pages leave behind, field by field.                             *)

\* Everything but the page, the roulettes and the menu state.
SameVote(v, w) ==
  /\ w.clock = v.clock /\ w.heard = v.heard /\ w.fresh = v.fresh
  /\ w.rolled = v.rolled /\ w.combo = v.combo /\ w.early = v.early

\* The updates the actions make, named to be cited.
WithMenuState(v, s) == [v EXCEPT !.menuState = s]
WithSpin(v, n) == [v EXCEPT !.spin = n]
TimeOver(v) == [v EXCEPT !.clock = FALSE]
Heard(v, n) == [v EXCEPT !.heard = n, !.fresh = TRUE]

\* Another menu state.
LEMMA MenuStateFields ==
  ASSUME NEW v \in Votes, NEW s \in {0, 1, 2, 3, 6}
  PROVE  LET w == WithMenuState(v, s)
         IN  /\ w \in Votes /\ SameVote(v, w) /\ w.menuState = s
             /\ w.page = v.page /\ w.spin = v.spin /\ w.chose = v.chose
BY DEF Votes, SameVote, WithMenuState

\* Another page.
LEMMA ShowsFields ==
  ASSUME NEW v \in Votes, NEW page \in Pages
  PROVE  LET w == Shows(v, page)
         IN  /\ w \in Votes /\ SameVote(v, w) /\ w.page = page
             /\ w.spin = v.spin /\ w.menuState = v.menuState
             /\ w.chose <=> v.chose \/ page = "choose"
BY DEF Votes, SameVote, Shows

\* The roulettes, set going or one further.
LEMMA SpinFields ==
  ASSUME NEW v \in Votes, NEW n \in 0..3
  PROVE  LET w == WithSpin(v, n)
         IN  /\ w \in Votes /\ SameVote(v, w) /\ w.spin = n
             /\ w.page = v.page /\ w.menuState = v.menuState /\ w.chose = v.chose
BY DEF Votes, SameVote, WithSpin

\* The countdown is over.
LEMMA ClockFields ==
  ASSUME NEW v \in Votes
  PROVE  LET w == TimeOver(v)
         IN  /\ w \in Votes /\ ~w.clock /\ w.heard = v.heard /\ w.fresh = v.fresh
             /\ w.rolled = v.rolled /\ w.combo = v.combo /\ w.early = v.early
             /\ w.page = v.page /\ w.menuState = v.menuState /\ w.spin = v.spin
             /\ w.chose = v.chose
BY DEF Votes, TimeOver

\* A SELECT packet of the host's.
LEMMA HeardFields ==
  ASSUME NEW v \in Votes, NEW n \in Ticks
  PROVE  LET w == Heard(v, n)
         IN  /\ w \in Votes /\ w.clock = v.clock /\ w.heard = n /\ w.fresh
             /\ w.rolled = v.rolled /\ w.combo = v.combo /\ w.early = v.early
             /\ w.page = v.page /\ w.menuState = v.menuState /\ w.spin = v.spin
             /\ w.chose = v.chose
BY DEF Votes, Heard

\* A seed gives a combo, and that is never the player's own.
LEMMA RandomIsCombo ==
  ASSUME NEW seed \in Ticks \union {0}
  PROVE  Random(seed) \in Combos /\ Random(seed) # Own
<1>1. seed \in Nat
  BY ComboAssumption
<1>2. Random(seed) # Own
  BY <1>1 DEF Random, Own
<1> QED
  BY <1>2 DEF Combos

\* One roll.
LEMMA RolledFields ==
  ASSUME NEW c \in Consoles, NEW v \in Votes, NEW tick \in Ticks, selectId \in Ticks
  PROVE  LET w == Rolled(c, v, tick)
         IN  /\ w \in Votes /\ w.clock = v.clock /\ w.heard = v.heard /\ w.fresh = v.fresh
             /\ w.rolled /\ w.combo # Own /\ w.spin = 3
             /\ IsRandomComboCommon(c) => w.combo = Random(Seed(c, v))
             /\ w.early <=> (IsRandomComboCommon(c) /\ c # Host /\ ~v.fresh)
             /\ w.page = v.page /\ w.menuState = v.menuState /\ w.chose = v.chose
<1> DEFINE seed == IF IsRandomComboCommon(c) THEN Seed(c, v) ELSE tick
           combo == Random(seed)
           early == IsRandomComboCommon(c) /\ c # Host /\ ~v.fresh
           v1 == [v EXCEPT !.rolled = TRUE]
           v2 == [v1 EXCEPT !.spin = 3]
           v3 == [v2 EXCEPT !.combo = combo]
           w == [v3 EXCEPT !.early = early]
<1>1. seed \in Ticks \union {0}
  BY DEF Seed, Votes
<1>2. combo \in Combos /\ combo # Own /\ early \in BOOLEAN
  BY <1>1, RandomIsCombo
<1>3. IsRandomComboCommon(c) => combo = Random(Seed(c, v))
  OBVIOUS
<1>4. Rolled(c, v, tick) = w
  BY DEF Rolled
<1> HIDE DEF seed, combo
<1>5. early <=> (IsRandomComboCommon(c) /\ c # Host /\ ~v.fresh)
  OBVIOUS
<1> HIDE DEF early
<1>6. v1 \in Votes /\ v1.rolled = TRUE
  BY DEF Votes
<1>7. /\ v1.clock = v.clock /\ v1.heard = v.heard /\ v1.fresh = v.fresh
      /\ v1.page = v.page /\ v1.menuState = v.menuState /\ v1.chose = v.chose
  BY DEF Votes
<1> HIDE DEF v1
<1>8. v2 \in Votes /\ v2.rolled = TRUE /\ v2.spin = 3
  BY <1>6 DEF Votes
<1>9. /\ v2.clock = v.clock /\ v2.heard = v.heard /\ v2.fresh = v.fresh
      /\ v2.page = v.page /\ v2.menuState = v.menuState /\ v2.chose = v.chose
  BY <1>6, <1>7 DEF Votes
<1> HIDE DEF v2
<1>10. v3 \in Votes /\ v3.rolled = TRUE /\ v3.spin = 3 /\ v3.combo = combo
  BY <1>2, <1>8 DEF Votes
<1>11. /\ v3.clock = v.clock /\ v3.heard = v.heard /\ v3.fresh = v.fresh
       /\ v3.page = v.page /\ v3.menuState = v.menuState /\ v3.chose = v.chose
  BY <1>8, <1>9 DEF Votes
<1> HIDE DEF v3
<1>12. /\ w \in Votes /\ w.rolled = TRUE /\ w.spin = 3 /\ w.combo = combo /\ w.early = early
  BY <1>2, <1>10 DEF Votes
<1>13. /\ w.clock = v.clock /\ w.heard = v.heard /\ w.fresh = v.fresh
       /\ w.page = v.page /\ w.menuState = v.menuState /\ w.chose = v.chose
  BY <1>10, <1>11 DEF Votes
<1> HIDE DEF w
<1> QED
  BY <1>2, <1>3, <1>4, <1>5, <1>12, <1>13

\* SetRandomCombo: at most one roll.
LEMMA RollFields ==
  ASSUME NEW c \in Consoles, NEW v \in Votes, NEW w \in SetRandomCombo(c, v),
         selectId \in Ticks
  PROVE  /\ w \in Votes /\ w.clock = v.clock /\ w.heard = v.heard /\ w.fresh = v.fresh
         /\ w.rolled /\ w.page = v.page /\ w.menuState = v.menuState /\ w.chose = v.chose
         /\ v.rolled => w = v
         /\ ~v.rolled => /\ w.combo # Own /\ w.spin = 3
                         /\ IsRandomComboCommon(c) => w.combo = Random(Seed(c, v))
                         /\ w.early <=> (IsRandomComboCommon(c) /\ c # Host /\ ~v.fresh)
<1>1. CASE v.rolled
  BY <1>1 DEF SetRandomCombo
<1>2. CASE ~v.rolled
  <2>1. PICK tick \in Ticks : w = Rolled(c, v, tick)
    BY <1>2 DEF SetRandomCombo
  <2> QED
    BY <1>2, <2>1, RolledFields
<1> QED
  BY <1>1, <1>2

\* AddCharacterSelectLayer: the page after v's, by its menu state.
LayerPage(c, v) ==
  IF ~v.clock \/ v.menuState > 5
  THEN IF v.menuState < 6 /\ IsRandomComboForced(c) THEN "choose" ELSE "votes"
  ELSE IF v.menuState = 3 THEN "settings"
  ELSE IF IsRandomComboForced(c) \/ v.menuState # 0 THEN "choose" ELSE "cups"

\* What AddCharacterSelectLayer sets: the page by the order of its conditions,
\* the roulette when the countdown is over, the state of the menus.
LEMMA LayerFields ==
  ASSUME NEW c \in Consoles, NEW v \in Votes
  PROVE  LET w == AddCharacterSelectLayer(c, v)
         IN  /\ w \in Votes /\ SameVote(v, w) /\ w.page = LayerPage(c, v)
             /\ w.spin = IF ~v.clock /\ w.page = "choose" THEN 3 ELSE v.spin
             /\ w.chose <=> v.chose \/ w.page = "choose"
             /\ w.menuState = IF v.clock /\ v.menuState = 3 THEN 3 ELSE 6
<1> DEFINE late == FastChoose(v)
           forced == IsRandomComboForced(c)
           next == NextPage(c, v, late, forced)
<1>0. v.menuState \in {0, 1, 2, 3, 6} /\ forced \in BOOLEAN
  BY DEF Votes, IsRandomComboForced
<1>1. /\ late \in Votes /\ SameVote(v, late) /\ late.page = "choose"
      /\ late.spin = 3 /\ late.menuState = v.menuState /\ late.chose
  <2> DEFINE shown == Shows(v, "choose")
  <2>1. /\ shown \in Votes /\ SameVote(v, shown) /\ shown.page = "choose"
        /\ shown.menuState = v.menuState /\ shown.chose
    BY ShowsFields DEF Pages
  <2> HIDE DEF shown
  <2>2. late = WithSpin(shown, 3)
    BY DEF FastChoose, shown, WithSpin, late
  <2> QED
    BY <2>1, <2>2, SpinFields DEF SameVote
<1> HIDE DEF late
<1>2. /\ next \in Votes /\ SameVote(v, next) /\ next.page = LayerPage(c, v)
      /\ next.spin = IF ~v.clock /\ next.page = "choose" THEN 3 ELSE v.spin
      /\ next.chose <=> v.chose \/ next.page = "choose"
      /\ next.menuState = v.menuState
  <2>1. CASE ~v.clock \/ v.menuState > 5
    <3>1. CASE v.menuState < 6 /\ forced
      BY <1>0, <1>1, <2>1, <3>1 DEF NextPage, LayerPage
    <3>2. CASE ~(v.menuState < 6 /\ forced)
      <4>1. next = Shows(v, "votes") /\ LayerPage(c, v) = "votes"
        BY <2>1, <3>2 DEF NextPage, LayerPage
      <4> QED
        BY <4>1, ShowsFields DEF Pages
    <3> QED
      BY <3>1, <3>2
  <2>2. CASE ~(~v.clock \/ v.menuState > 5)
    <3>1. next = Shows(v, LayerPage(c, v)) /\ LayerPage(c, v) \in Pages
      BY <2>2 DEF NextPage, LayerPage, Pages
    <3> QED
      BY <2>2, <3>1, ShowsFields
  <2> QED
    BY <2>1, <2>2
<1> HIDE DEF next
<1>3. AddCharacterSelectLayer(c, v) = MovedOn(v, next)
  BY DEF AddCharacterSelectLayer, next, late, forced
<1>4. CASE v.clock /\ v.menuState = 3
  BY <1>2, <1>3, <1>4 DEF MovedOn
<1>5. CASE ~(v.clock /\ v.menuState = 3)
  <2>1. AddCharacterSelectLayer(c, v) = WithMenuState(next, 6)
    BY <1>3, <1>5 DEF MovedOn, WithMenuState
  <2> QED
    BY <1>2, <1>5, <2>1, MenuStateFields DEF SameVote
<1> QED
  BY <1>4, <1>5

-----------------------------------------------------------------------------
(* One console's own steps.                                                 *)

\* A step through the pages from v to w: it keeps the invariant, what was
\* heard of the host, and a combo that was rolled.
Moves(c, v, w) ==
  /\ w \in Votes /\ OnItsWay(c, w) /\ FromSeed(c, w)
  /\ w.heard = v.heard /\ w.fresh = v.fresh
  /\ v.rolled => w.combo = v.combo

\* What was rolled from which seed does not change with the page.
LEMMA SameSeed ==
  ASSUME NEW c \in Consoles, NEW v, NEW w, SameVote(v, w), FromSeed(c, v)
  PROVE  FromSeed(c, w) /\ w.heard = v.heard /\ w.fresh = v.fresh
         /\ (v.rolled => w.combo = v.combo) /\ w.rolled = v.rolled /\ w.clock = v.clock
BY DEF SameVote, FromSeed, Seed

\* Players: the page opens, and rolls if it must.
LEMMA PlayersMoves ==
  ASSUME NEW c \in Consoles, NEW v \in Votes, NEW w \in Players(c, v),
         selectId \in Ticks, FromSeed(c, v), InVS(c), v.rolled => v.spin = 3
  PROVE  Moves(c, v, w)
<1> DEFINE shown == Shows(v, "players")
           opened == WithMenuState(shown, 0)
<1>1. /\ shown \in Votes /\ SameVote(v, shown) /\ shown.page = "players" /\ shown.spin = v.spin
  BY ShowsFields DEF Pages
<1> HIDE DEF shown
<1>2. /\ opened \in Votes /\ SameVote(v, opened) /\ opened.page = "players"
      /\ opened.menuState = 0 /\ opened.spin = v.spin
  BY <1>1, MenuStateFields DEF SameVote
<1>3. w \in IF IsRandomComboForced(c) THEN SetRandomCombo(c, opened) ELSE {opened}
  BY DEF Players, shown, WithMenuState
<1> HIDE DEF opened
<1>4. /\ FromSeed(c, opened) /\ opened.heard = v.heard /\ opened.fresh = v.fresh
      /\ v.rolled => opened.combo = v.combo
      /\ opened.rolled = v.rolled
  BY <1>2, SameSeed
<1>5. CASE ~IsRandomComboForced(c) \/ v.rolled
  <2>1. w = opened
    BY <1>3, <1>4, <1>5 DEF SetRandomCombo
  <2>2. OnItsWay(c, opened)
    BY <1>2, <1>4, <1>5 DEF OnItsWay
  <2> QED
    BY <1>2, <1>4, <2>1, <2>2 DEF Moves
<1>6. CASE IsRandomComboForced(c) /\ ~v.rolled
  <2>1. /\ w \in Votes /\ w.heard = v.heard /\ w.fresh = v.fresh /\ w.rolled
        /\ w.page = "players" /\ w.menuState = 0
        /\ w.combo # Own /\ w.spin = 3
        /\ IsRandomComboCommon(c) => w.combo = Random(Seed(c, opened))
        /\ w.early <=> (IsRandomComboCommon(c) /\ c # Host /\ ~v.fresh)
    BY <1>2, <1>3, <1>4, <1>6, RollFields
  <2>2. OnItsWay(c, w)
    BY <2>1 DEF OnItsWay
  <2>3. FromSeed(c, w)
    BY <1>4, <2>1 DEF FromSeed, Seed
  <2> QED
    BY <1>6, <2>1, <2>2, <2>3 DEF Moves
<1> QED
  BY <1>5, <1>6

\* AddCharacterSelectLayer: forced combos come to the vote only when their
\* pages were shown.
LEMMA LayerMoves ==
  ASSUME NEW c \in Consoles, NEW v \in Votes, FromSeed(c, v), InVS(c),
         v.clock /\ v.menuState # 6 /\ v.rolled => v.spin = 3,
         IsRandomComboForced(c) => v.rolled,
         IsRandomComboForced(c) /\ v.menuState = 6 => v.chose
  PROVE  Moves(c, v, AddCharacterSelectLayer(c, v))
<1> DEFINE w == AddCharacterSelectLayer(c, v)
<1>1. /\ w \in Votes /\ SameVote(v, w) /\ w.page = LayerPage(c, v)
      /\ w.spin = IF ~v.clock /\ w.page = "choose" THEN 3 ELSE v.spin
      /\ w.chose <=> v.chose \/ w.page = "choose"
      /\ w.menuState = IF v.clock /\ v.menuState = 3 THEN 3 ELSE 6
  BY LayerFields
<1> HIDE DEF w
<1>2. /\ FromSeed(c, w) /\ w.heard = v.heard /\ w.fresh = v.fresh
      /\ v.rolled => w.combo = v.combo
      /\ w.rolled = v.rolled /\ w.clock = v.clock
  BY <1>1, SameSeed
<1>3. v.menuState \in {0, 1, 2, 3, 6}
  BY DEF Votes
<1>4. /\ w.page \in {"choose", "settings", "cups", "votes"}
      /\ w.page = "settings" => v.clock /\ v.menuState = 3
      /\ w.page \in {"choose", "cups"} => ~(v.clock /\ v.menuState = 3)
      /\ w.page = "choose" /\ v.clock => v.menuState # 6
      /\ IsRandomComboForced(c) => w.page # "cups" /\ (w.page = "votes" => v.menuState = 6)
  BY <1>1, <1>3 DEF LayerPage
<1>5. OnItsWay(c, w)
  BY <1>1, <1>2, <1>4 DEF OnItsWay
<1> QED
  BY <1>1, <1>2, <1>5 DEF Moves, w

\* Another menu state for the question that ends the players' page.
LEMMA AnswerMoves ==
  ASSUME NEW c \in Consoles, NEW v \in Votes, FromSeed(c, v), OnItsWay(c, v), InVS(c),
         v.page = "players", NEW s \in {1, 2, 3}
  PROVE  Moves(c, v, AddCharacterSelectLayer(c, WithMenuState(v, s)))
<1> DEFINE u == WithMenuState(v, s)
<1>1. u \in Votes /\ SameVote(v, u) /\ u.menuState = s /\ u.spin = v.spin
  BY MenuStateFields
<1> HIDE DEF u
<1>2. /\ FromSeed(c, u) /\ u.heard = v.heard /\ u.fresh = v.fresh
      /\ v.rolled => u.combo = v.combo
      /\ u.rolled = v.rolled /\ u.clock = v.clock
  BY <1>1, SameSeed
<1>3. Moves(c, u, AddCharacterSelectLayer(c, u))
  BY <1>1, <1>2, LayerMoves DEF OnItsWay
<1> QED
  BY <1>2, <1>3 DEF Moves, u

\* Every step of a console but the packet it hears is one through the pages.
LEMMA VoteStepMoves ==
  ASSUME NEW c \in Consoles, vote[c] \in Votes, selectId \in Ticks,
         OnItsWay(c, vote[c]), FromSeed(c, vote[c]), VoteStep(c)
  PROVE  HearHost(c) \/ \E w \in Votes : Goes(c, w) /\ Moves(c, vote[c], w)
<1> DEFINE v == vote[c]
           Done == \E w \in Votes : Goes(c, w) /\ Moves(c, v, w)
<1>0. \A w : Goes(c, w) /\ Moves(c, v, w) => Done
  BY DEF Moves
<1>1. CASE OpenPlayers(c) \/ LeaveSettings(c) \/ OnBackPressNew(c)
  <2>1. InVS(c) /\ (v.rolled => v.spin = 3)
    BY <1>1 DEF OpenPlayers, LeaveSettings, OnBackPressNew, OnItsWay
  <2>2. PICK w \in Players(c, v) : Goes(c, w)
    BY <1>1 DEF OpenPlayers, LeaveSettings, OnBackPressNew
  <2> QED
    BY <1>0, <2>1, <2>2, PlayersMoves
<1>2. CASE LeavePlayers(c) \/ LeaveCups(c) \/ ChooseTimeOut(c)
  <2>1. /\ InVS(c)
        /\ v.clock /\ v.menuState # 6 /\ v.rolled => v.spin = 3
        /\ IsRandomComboForced(c) => v.rolled
        /\ IsRandomComboForced(c) /\ v.menuState = 6 => v.chose
    BY <1>2 DEF LeavePlayers, LeaveCups, ChooseTimeOut, OnItsWay
  <2>2. Goes(c, AddCharacterSelectLayer(c, v))
    BY <1>2 DEF LeavePlayers, LeaveCups, ChooseTimeOut
  <2> QED
    BY <1>0, <2>1, <2>2, LayerMoves
<1>3. CASE ChangeCombo(c) \/ OnSettingsButton(c)
  <2>1. v.page = "players" /\ InVS(c)
    BY <1>3 DEF ChangeCombo, OnSettingsButton, OnItsWay
  <2>2. PICK s \in {1, 3} : Goes(c, AddCharacterSelectLayer(c, WithMenuState(v, s)))
    BY <1>3 DEF ChangeCombo, OnSettingsButton, WithMenuState
  <2> QED
    BY <1>0, <2>1, <2>2, AnswerMoves
<1>4. CASE RandomCombo(c)
  <2> DEFINE u == WithMenuState(v, 2)
  <2>1. /\ v.page = "players" /\ InVS(c) /\ ~IsRandomComboForced(c)
        /\ v.rolled => v.spin = 3
    BY <1>4 DEF RandomCombo, OnItsWay
  <2>2. u \in Votes /\ SameVote(v, u) /\ u.menuState = 2 /\ u.spin = v.spin
    BY MenuStateFields
  <2>3. PICK r \in SetRandomCombo(c, u) : Goes(c, AddCharacterSelectLayer(c, r))
    BY <1>4 DEF RandomCombo, WithMenuState
  <2> HIDE DEF u
  <2>4. /\ FromSeed(c, u) /\ u.heard = v.heard /\ u.fresh = v.fresh
        /\ v.rolled => u.combo = v.combo
        /\ u.rolled = v.rolled /\ u.clock = v.clock
    BY <2>2, SameSeed
  <2>5. /\ r \in Votes /\ r.heard = v.heard /\ r.fresh = v.fresh
        /\ r.rolled /\ r.menuState = 2 /\ r.spin = 3
        /\ v.rolled => r.combo = v.combo
    BY <2>1, <2>2, <2>3, <2>4, RollFields
  <2>6. FromSeed(c, r)
    BY <2>2, <2>3, <2>4, RollFields DEF FromSeed, Seed
  <2>7. Moves(c, r, AddCharacterSelectLayer(c, r))
    BY <2>1, <2>5, <2>6, LayerMoves
  <2>8. Moves(c, v, AddCharacterSelectLayer(c, r))
    BY <2>5, <2>7 DEF Moves
  <2> QED
    BY <1>0, <2>3, <2>8
<1>5. CASE SettingsTimeOut(c) \/ Choose(c)
  <2>1. PICK page \in {"choose", "votes", "cups"} :
          /\ Goes(c, Shows(v, page))
          /\ page = "choose" => v.page = "settings" /\ ~v.clock
          /\ page = "votes" => ~IsRandomComboForced(c)
          /\ page = "cups" => v.page = "choose" /\ ~v.rolled
          /\ v.page \in {"settings", "choose"}
    BY <1>5 DEF SettingsTimeOut, Choose
  <2> DEFINE w == Shows(v, page)
  <2>2. /\ w \in Votes /\ SameVote(v, w) /\ w.page = page
        /\ w.spin = v.spin /\ w.menuState = v.menuState
        /\ w.chose <=> v.chose \/ page = "choose"
    BY ShowsFields DEF Pages
  <2> HIDE DEF w
  <2>3. /\ FromSeed(c, w) /\ w.heard = v.heard /\ w.fresh = v.fresh
        /\ v.rolled => w.combo = v.combo
        /\ w.rolled = v.rolled /\ w.clock = v.clock
    BY <2>2, SameSeed
  <2>4. OnItsWay(c, w)
    BY <2>1, <2>2, <2>3 DEF OnItsWay
  <2>5. Moves(c, v, w)
    BY <2>2, <2>3, <2>4 DEF Moves
  <2> QED
    BY <1>0, <2>1, <2>5 DEF w
<1>6. CASE Roulette(c)
  <2> DEFINE u == WithSpin(v, v.spin - 1)
             w == [v EXCEPT !.spin = @ - 1, !.page = IF v.spin = 1 THEN "cups" ELSE @]
  <2>1. v.page = "choose" /\ v.rolled /\ v.spin \in 1..3 /\ Goes(c, w)
    BY <1>6 DEF Roulette, Votes
  <2>2. /\ u \in Votes /\ SameVote(v, u) /\ u.spin = v.spin - 1
        /\ u.page = v.page /\ u.menuState = v.menuState /\ u.chose = v.chose
    BY <2>1, SpinFields
  <2>3. w = [u EXCEPT !.page = IF v.spin = 1 THEN "cups" ELSE v.page]
    BY DEF WithSpin
  <2> HIDE DEF u, w
  <2>4. /\ w \in Votes /\ SameVote(v, w) /\ w.spin = v.spin - 1
        /\ w.page = (IF v.spin = 1 THEN "cups" ELSE v.page)
        /\ w.menuState = v.menuState /\ w.chose = v.chose
    BY <2>1, <2>2, <2>3 DEF Votes, SameVote, Pages
  <2>5. /\ FromSeed(c, w) /\ w.heard = v.heard /\ w.fresh = v.fresh
        /\ v.rolled => w.combo = v.combo
        /\ w.rolled = v.rolled /\ w.clock = v.clock
    BY <2>4, SameSeed
  <2>6. OnItsWay(c, w)
    BY <2>1, <2>4, <2>5 DEF OnItsWay
  <2>7. Moves(c, v, w)
    BY <2>4, <2>5, <2>6 DEF Moves
  <2> QED
    BY <1>0, <2>1, <2>7
<1>7. CASE CountDown(c)
  <2> DEFINE w == TimeOver(v)
  <2>1. Goes(c, w) /\ v.page # "none"
    BY <1>7 DEF CountDown, TimeOver
  <2>2. /\ w \in Votes /\ ~w.clock /\ w.heard = v.heard /\ w.fresh = v.fresh
        /\ w.rolled = v.rolled /\ w.combo = v.combo /\ w.early = v.early
        /\ w.page = v.page /\ w.menuState = v.menuState /\ w.spin = v.spin
        /\ w.chose = v.chose
    BY ClockFields
  <2> HIDE DEF w
  <2>3. OnItsWay(c, w) /\ FromSeed(c, w)
    BY <2>2 DEF OnItsWay, FromSeed, Seed
  <2> QED
    BY <1>0, <2>1, <2>2, <2>3 DEF Moves
<1> QED
  BY <1>1, <1>2, <1>3, <1>4, <1>5, <1>6, <1>7 DEF VoteStep

-----------------------------------------------------------------------------
(* The invariant is kept.                                                   *)

\* A console that stays where it is, by the same rules, in the same vote.
Stays(c) ==
  /\ vote'[c] = vote[c] /\ session'[c] = session[c]
  /\ InLobby(c) \/ rules'[c] = rules[c]

\* The rules of the vote are those of the console's session.
LEMMA SameRules ==
  ASSUME NEW c \in Consoles, session'[c] = session[c], InLobby(c) \/ rules'[c] = rules[c]
  PROVE  /\ InVS(c)' <=> InVS(c)
         /\ IsRandomComboForced(c)' <=> IsRandomComboForced(c)
         /\ IsRandomComboCommon(c)' <=> IsRandomComboCommon(c)
BY DEF InLobby, InVS, IsRandomComboForced, IsRandomComboCommon

\* A console that stays on its page is as far as it was.
LEMMA StaysOnItsWay ==
  ASSUME NEW c \in Consoles, Stays(c), OnItsWay(c, vote[c])
  PROVE  OnItsWay(c, vote[c])'
BY SameRules DEF Stays, OnItsWay

\* A console that stays keeps its combo, and the host's seed of it.
LEMMA StaysFromSeed ==
  ASSUME NEW c \in Consoles, Stays(c), FromSeed(c, vote[c]), c # Host \/ selectId' = selectId
  PROVE  FromSeed(c, vote[c])'
BY SameRules DEF Stays, FromSeed, Seed

\* The pages of one console.
LEMMA GoesKeeps ==
  ASSUME ComboInv, NEW c \in Consoles, NEW w \in Votes, Goes(c, w), Moves(c, vote[c], w)
  PROVE  ComboInv'
<1>1. /\ vote' = [vote EXCEPT ![c] = w] /\ UNCHANGED <<roomVars, selectId>>
      /\ UNCHANGED <<session, rules>>
  BY DEF Goes, roomVars
<1>2. /\ vote' \in [Consoles -> Votes] /\ vote'[c] = w
      /\ \A d \in Consoles \ {c} : vote'[d] = vote[d]
  BY <1>1 DEF ComboInv
<1>3. RoomInv'
  BY <1>1, RoomInvStep DEF ComboInv
<1>4. OnItsWay(c, vote[c])' /\ FromSeed(c, vote[c])'
  <2>1. OnItsWay(c, vote[c])'
    BY <1>1, <1>2, SameRules DEF Moves, OnItsWay
  <2>2. FromSeed(c, vote[c])'
    BY <1>1, <1>2, SameRules DEF Moves, FromSeed, Seed
  <2> QED
    BY <2>1, <2>2
<1>5. ASSUME NEW d \in Consoles \ {c} PROVE OnItsWay(d, vote[d])' /\ FromSeed(d, vote[d])'
  <2>1. Stays(d)
    BY <1>1, <1>2 DEF Stays
  <2> QED
    BY <1>1, <2>1, StaysOnItsWay, StaysFromSeed DEF ComboInv
<1>6. \A d \in Consoles : vote'[d].heard = vote[d].heard /\ vote'[d].fresh = vote[d].fresh
  BY <1>2 DEF Moves
<1>7. HeardSame'
  BY <1>1, <1>6 DEF ComboInv, HeardSame, Guests
<1> QED
  BY <1>1, <1>2, <1>3, <1>4, <1>5, <1>7 DEF ComboInv

\* A packet of the host's tells the selectId every other has heard.
LEMMA HearHostKeeps ==
  ASSUME ComboInv, NEW c \in Consoles, HearHost(c)
  PROVE  ComboInv'
<1> DEFINE w == Heard(vote[c], selectId)
<1>1. /\ c \in Guests /\ InVS(c) /\ session[Host] = session[c] /\ ~vote[c].fresh
      /\ vote' = [vote EXCEPT ![c] = w] /\ UNCHANGED <<roomVars, selectId>>
      /\ UNCHANGED <<session, rules>>
  BY DEF HearHost, Goes, Heard, Guests, roomVars
<1>2. /\ vote[c] \in Votes /\ selectId \in Ticks /\ OnItsWay(c, vote[c]) /\ FromSeed(c, vote[c])
      /\ HeardSame
  BY DEF ComboInv
<1>3. /\ w \in Votes /\ w.clock = vote[c].clock /\ w.heard = selectId /\ w.fresh
      /\ w.rolled = vote[c].rolled /\ w.combo = vote[c].combo /\ w.early = vote[c].early
      /\ w.page = vote[c].page /\ w.menuState = vote[c].menuState /\ w.spin = vote[c].spin
      /\ w.chose = vote[c].chose
  BY <1>2, HeardFields
<1> HIDE DEF w
<1>4. /\ vote' \in [Consoles -> Votes] /\ vote'[c] = w
      /\ \A d \in Consoles \ {c} : vote'[d] = vote[d]
  BY <1>1, <1>3 DEF ComboInv
<1>5. RoomInv'
  BY <1>1, RoomInvStep DEF ComboInv
<1>6. OnItsWay(c, vote[c])' /\ FromSeed(c, vote[c])'
  <2>1. OnItsWay(c, vote[c])'
    BY <1>1, <1>2, <1>3, <1>4, SameRules DEF OnItsWay
  <2>2. FromSeed(c, vote[c])'
    BY <1>1, <1>2, <1>3, <1>4, SameRules DEF FromSeed, Guests
  <2> QED
    BY <2>1, <2>2
<1>7. ASSUME NEW d \in Consoles \ {c} PROVE OnItsWay(d, vote[d])' /\ FromSeed(d, vote[d])'
  <2>1. Stays(d)
    BY <1>1, <1>4 DEF Stays
  <2> QED
    BY <1>1, <2>1, StaysOnItsWay, StaysFromSeed DEF ComboInv
<1>8. HeardSame'
  <2>1. \A d \in Guests : vote'[d].fresh /\ session[d] = session[Host] =>
                            vote'[d].heard = selectId
    BY <1>2, <1>3, <1>4 DEF HeardSame, Guests
  <2>2. ASSUME NEW d \in Guests, NEW e \in Guests,
               vote'[d].fresh, vote'[e].fresh, session[d] = session[e]
        PROVE  vote'[d].heard = vote'[e].heard
    <3>1. CASE d = c \/ e = c
      BY <1>1, <2>1, <2>2, <3>1
    <3>2. CASE d # c /\ e # c
      BY <1>2, <1>4, <2>2, <3>2 DEF HeardSame, Guests
    <3> QED
      BY <3>1, <3>2
  <2> QED
    BY <1>1, <2>1, <2>2 DEF HeardSame
<1> QED
  BY <1>1, <1>2, <1>4, <1>5, <1>6, <1>7, <1>8 DEF ComboInv

\* A step of the room: the votes of the sessions that begin or end.
LEMMA RoomStepKeeps ==
  ASSUME ComboInv, RoomStep
  PROVE  ComboInv'
<1>1. /\ RoomInv /\ RoomInv' /\ [Next]_roomVars /\ Host \in Consoles
      /\ selectId \in Ticks /\ vote \in [Consoles -> Votes] /\ HeardSame
  BY RoomInvStep, RoomAssumption DEF ComboInv, RoomStep
<1>2. PICK cleared \in BOOLEAN :
        vote' = [c \in Consoles |->
                   IF session'[c] = session[c] THEN vote[c]
                   ELSE NoVote(IF cleared THEN 0 ELSE vote[c].heard)]
  BY DEF RoomStep
<1>3. /\ selectId' \in Ticks
      /\ session'[Host] = session[Host] \/ session'[Host] = NoSession => selectId' = selectId
  BY <1>1 DEF RoomStep
<1>4. ASSUME NEW c \in Consoles, session'[c] = session[c] PROVE Stays(c)
  BY <1>1, <1>2, <1>4, RulesStay DEF Stays
<1>5. ASSUME NEW c \in Consoles, session'[c] # session[c]
      PROVE  /\ vote'[c] \in Votes /\ vote'[c].page = "none" /\ vote'[c].combo = Own
             /\ ~vote'[c].rolled /\ ~vote'[c].fresh
  <2> DEFINE heard == IF cleared THEN 0 ELSE vote[c].heard
  <2>1. heard \in Ticks \union {0}
    BY <1>1 DEF Votes
  <2> HIDE DEF heard
  <2>2. Own \in Combos
    BY DEF Combos
  <2>3. /\ NoVote(heard) \in Votes /\ NoVote(heard).page = "none" /\ NoVote(heard).combo = Own
        /\ ~NoVote(heard).rolled /\ ~NoVote(heard).fresh
    BY <2>1, <2>2 DEF NoVote, Votes, Pages
  <2>4. vote'[c] = NoVote(heard)
    BY <1>2, <1>5 DEF heard
  <2> QED
    BY <2>3, <2>4
<1>6. vote' \in [Consoles -> Votes]
  <2>1. \A c \in Consoles : vote'[c] \in Votes
    BY <1>1, <1>4, <1>5 DEF Stays
  <2>2. vote' = [c \in Consoles |-> vote'[c]]
    BY <1>2
  <2> QED
    BY <2>1, <2>2
<1>7. ASSUME NEW c \in Consoles PROVE OnItsWay(c, vote[c])' /\ FromSeed(c, vote[c])'
  <2>1. CASE session'[c] = session[c]
    <3>1. Stays(c) /\ OnItsWay(c, vote[c]) /\ FromSeed(c, vote[c])
      BY <1>4, <2>1 DEF ComboInv
    <3>2. c # Host \/ selectId' = selectId
      BY <1>3, <2>1
    <3> QED
      BY <3>1, <3>2, StaysOnItsWay, StaysFromSeed
  <2>2. CASE session'[c] # session[c]
    <3>1. OnItsWay(c, vote[c])'
      BY <1>5, <2>2 DEF OnItsWay
    <3>2. FromSeed(c, vote[c])'
      BY <1>5, <2>2 DEF FromSeed
    <3> QED
      BY <3>1, <3>2
  <2> QED
    BY <2>1, <2>2
<1>8. ASSUME NEW c \in Guests, vote'[c].fresh
      PROVE  /\ c \in Consoles /\ session'[c] = session[c] /\ vote'[c] = vote[c]
             /\ ~InLobby(c)
  <2>1. c \in Consoles /\ session'[c] = session[c]
    BY <1>5, <1>8 DEF Guests
  <2>2. vote'[c] = vote[c]
    BY <1>4, <2>1 DEF Stays
  <2>3. OnItsWay(c, vote[c])
    BY <2>1 DEF ComboInv
  <2> QED
    BY <1>8, <2>1, <2>2, <2>3 DEF OnItsWay, InVS, InLobby
<1>9. HeardSame'
  <2>1. ASSUME NEW c \in Guests, vote'[c].fresh, session'[c] = session'[Host]
        PROVE  vote'[c].heard = selectId'
    <3>1. c \in Consoles /\ session'[c] = session[c] /\ vote'[c] = vote[c] /\ ~InLobby(c)
      BY <1>8, <2>1
    <3>2. session'[Host] # NoSession
      BY <2>1, <3>1 DEF InLobby
    <3>3. session'[Host] = session[Host]
      BY <1>1, <2>1, <3>1, <3>2, HostStarts
    <3> QED
      BY <1>1, <1>3, <2>1, <3>1, <3>3 DEF HeardSame
  <2>2. ASSUME NEW c \in Guests, NEW d \in Guests,
               vote'[c].fresh, vote'[d].fresh, session'[c] = session'[d]
        PROVE  vote'[c].heard = vote'[d].heard
    BY <1>1, <1>8, <2>2 DEF HeardSame
  <2> QED
    BY <2>1, <2>2 DEF HeardSame
<1> QED
  BY <1>1, <1>3, <1>6, <1>7, <1>9 DEF ComboInv

\* No vote has begun.
LEMMA ComboInvInit == ComboInit => ComboInv
<1> SUFFICES ASSUME ComboInit PROVE ComboInv
  OBVIOUS
<1>1. selectId \in Ticks /\ vote = [c \in Consoles |-> NoVote(0)] /\ RoomInv
  BY RoomInvInit DEF ComboInit
<1>2. /\ NoVote(0) \in Votes /\ NoVote(0).page = "none" /\ NoVote(0).combo = Own
      /\ ~NoVote(0).rolled /\ ~NoVote(0).fresh
  BY DEF NoVote, Votes, Pages, Combos
<1>3. \A c \in Consoles : vote[c] = NoVote(0)
  BY <1>1
<1>4. \A c \in Consoles : OnItsWay(c, vote[c]) /\ FromSeed(c, vote[c])
  BY <1>2, <1>3 DEF OnItsWay, FromSeed
<1>5. HeardSame
  BY <1>2, <1>3 DEF HeardSame, Guests
<1> QED
  BY <1>1, <1>2, <1>4, <1>5 DEF ComboInv

\* Every step keeps the invariant.
LEMMA ComboInvStep == ComboInv /\ [ComboNext]_vars => ComboInv'
<1> SUFFICES ASSUME ComboInv, [ComboNext]_vars PROVE ComboInv'
  OBVIOUS
<1>1. CASE RoomStep
  BY <1>1, RoomStepKeeps
<1>2. ASSUME NEW c \in Consoles, VoteStep(c) PROVE ComboInv'
  <2>1. /\ vote[c] \in Votes /\ selectId \in Ticks
        /\ OnItsWay(c, vote[c]) /\ FromSeed(c, vote[c])
    BY DEF ComboInv
  <2> QED
    BY <1>2, <2>1, VoteStepMoves, GoesKeeps, HearHostKeeps
<1>3. CASE UNCHANGED vars
  <2>1. UNCHANGED <<roomVars, selectId, vote, session, rules>>
    BY <1>3 DEF vars, roomVars
  <2>2. RoomInv'
    BY <2>1, RoomInvStep DEF ComboInv
  <2>3. ASSUME NEW c \in Consoles PROVE OnItsWay(c, vote[c])' /\ FromSeed(c, vote[c])'
    BY <2>1, StaysOnItsWay, StaysFromSeed DEF ComboInv, Stays
  <2> QED
    BY <2>1, <2>2, <2>3 DEF ComboInv, HeardSame
<1> QED
  BY <1>1, <1>2, <1>3 DEF ComboNext

\* The invariant holds of the room and its votes.
LEMMA ComboInvariant == ComboSpec => []ComboInv
BY ComboInvInit, ComboInvStep, PTL DEF ComboSpec

-----------------------------------------------------------------------------
(* The properties.                                                          *)

\* The pages of the vote keep their types: a console has a combo other than the
\* player's own exactly when it rolled one, and it is one that a seed in reach
\* gives.
THEOREM ComboTypeCorrect == ComboSpec => []ComboTypeOK
<1>1. ComboInv => ComboTypeOK
  BY DEF ComboInv, ComboTypeOK, RoomInv, TypeInv, FromSeed
<1> QED
  BY <1>1, ComboInvariant, PTL

\* The votes leave the rules of the room alone, and so do the settings pages
\* that open in a vote: what RoomCorrect says of a session holds in every page
\* of its votes.
THEOREM RulesCorrect == ComboSpec => []RulesAsShown
<1>1. ComboInv => RulesAsShown
  BY RoomShown DEF ComboInv
<1> QED
  BY <1>1, ComboInvariant, PTL

\* A forced combo is rolled and shown before the vote, whichever pages the
\* player opens and whenever the countdown ends them, and roulettes that are on
\* the screen are still turning.
THEOREM ForcedCorrect == ComboSpec => []ForcedIsShown
<1>1. ComboInv => ForcedIsShown
  BY DEF ComboInv, OnItsWay, ForcedIsShown
<1> QED
  BY <1>1, ComboInvariant, PTL

\* Consoles of one session that rolled with the host's packet at hand, or are
\* the host, have rolled the same common combo.
THEOREM SameComboCorrect == ComboSpec => []SameCombo
<1>1. ComboInv => SameCombo
  <2> SUFFICES ASSUME ComboInv, NEW c \in Consoles, NEW d \in Consoles,
                      session[c] = session[d], IsRandomComboCommon(c),
                      vote[c].rolled, vote[d].rolled, ~vote[c].early, ~vote[d].early
               PROVE  vote[c].combo = vote[d].combo
    BY DEF SameCombo
  <2>1. HeardSame /\ FromSeed(c, vote[c]) /\ FromSeed(d, vote[d])
    BY DEF ComboInv
  <2>2. IsRandomComboCommon(d)
    <3>1. ~InLobby(c) /\ ~InLobby(d) /\ RoomInv /\ session[c].number = session[d].number
      BY DEF ComboInv, IsRandomComboCommon, InVS, InLobby
    <3>2. rules[c].commonRandom = rules[d].commonRandom
      BY <3>1, SessionRules
    <3> QED
      BY <3>2 DEF IsRandomComboCommon, InVS
  <2>3. /\ vote[c].combo = Random(Seed(c, vote[c])) /\ (c # Host => vote[c].fresh)
        /\ vote[d].combo = Random(Seed(d, vote[d])) /\ (d # Host => vote[d].fresh)
    BY <2>1, <2>2 DEF FromSeed
  <2>4. Seed(c, vote[c]) = Seed(d, vote[d])
    BY <2>1, <2>3 DEF HeardSame, Seed, Guests
  <2> QED
    BY <2>3, <2>4
<1> QED
  BY <1>1, ComboInvariant, PTL

\* A combo that was rolled is the combo of the vote, until the session is over.
THEOREM RolledOnceCorrect == ComboSpec => RolledOnce
<1>1. ComboInv /\ [ComboNext]_vars =>
        \A c \in Consoles : vote[c].rolled /\ session'[c] = session[c] =>
                              vote'[c].combo = vote[c].combo
  <2> SUFFICES ASSUME ComboInv, [ComboNext]_vars, NEW c \in Consoles,
                      vote[c].rolled, session'[c] = session[c]
               PROVE  vote'[c].combo = vote[c].combo
    OBVIOUS
  <2>1. CASE RoomStep
    BY <2>1 DEF RoomStep
  <2>2. ASSUME NEW d \in Consoles, VoteStep(d) PROVE vote'[c].combo = vote[c].combo
    <3>1. /\ vote[d] \in Votes /\ selectId \in Ticks /\ vote \in [Consoles -> Votes]
          /\ OnItsWay(d, vote[d]) /\ FromSeed(d, vote[d])
      BY DEF ComboInv
    <3>2. CASE HearHost(d)
      <4>1. vote' = [vote EXCEPT ![d] = Heard(vote[d], selectId)]
        BY <3>2 DEF HearHost, Goes, Heard
      <4>2. Heard(vote[d], selectId).combo = vote[d].combo
        BY <3>1, HeardFields
      <4> QED
        BY <3>1, <4>1, <4>2
    <3>3. ASSUME NEW w \in Votes, Goes(d, w), Moves(d, vote[d], w)
          PROVE  vote'[c].combo = vote[c].combo
      BY <3>1, <3>3 DEF Goes, Moves
    <3> QED
      BY <2>2, <3>1, <3>2, <3>3, VoteStepMoves
  <2>3. CASE UNCHANGED vars
    BY <2>3 DEF vars
  <2> QED
    BY <2>1, <2>2, <2>3 DEF ComboNext
<1> QED
  BY <1>1, ComboInvariant, PTL DEF ComboSpec, RolledOnce
=============================================================================
