------------------------------ MODULE CupPages ------------------------------
(***************************************************************************)
(* The way to a course: the cups page, its courses, the variants of a      *)
(* group, and what CupManager makes of the choice for a time trial, a VS   *)
(* and a Grand Prix.  Where the player is lives in several places that     *)
(* have to agree: CupManager's layout and lastSelectedCup, the number      *)
(* lastLeftCup the icons are counted from, and what each page last drew.   *)
(*                                                                         *)
(* The offline modes; what a vote does with the choice is TrackVoting's.   *)
(* When the game opens a page, runs a race or ends one is external, and so *)
(* is that a page's controls are set up after its OnActivate.  Which of a  *)
(* page's course buttons is highlighted is left out.                       *)
(***************************************************************************)
EXTENDS Integers, Sequences

CONSTANTS
  Courses, Groups,  \* what a slot of a layout may be
  Variants,         \* per group: the courses of its VariantDef
  Slots,            \* per list and sorting: the slots of its LayoutDef
  CupSize,          \* slots of a cup and course buttons of a page: 4
  Icons,            \* cups a page shows: 8
  RaceLimit,        \* length of vsTracks: 32
  NoTrack,          \* 0xFFFFFFFF as a course
  MaxLeft           \* bound: how far lastLeftCup goes

Lists == {layout.list : layout \in DOMAIN Slots}
Modes == {"gp", "tt", "vs"}

\* What is on a layout.
OnLayout(lay) == {Slots[lay][i] : i \in DOMAIN Slots[lay]}

\* A layout is a row of cups, and the other sorting has the same slots in
\* another order (EditorBase.cpp:903-940); the page has two rows of icons.
ASSUME LayoutAssumption ==
  /\ Lists \subseteq 0..2 /\ 0 \in Lists
  /\ DOMAIN Slots = [list : Lists, sorting : {0, 1}]
  /\ \A layout \in DOMAIN Slots : Slots[layout] \in Seq(Courses \cup Groups)
  /\ \A layout \in DOMAIN Slots :
       Slots[layout] # <<>> /\ Len(Slots[layout]) % CupSize = 0
  /\ \A list \in Lists :
       OnLayout([list |-> list, sorting |-> 0]) = OnLayout([list |-> list, sorting |-> 1])
  /\ DOMAIN Variants = Groups
  /\ \A g \in Groups : Variants[g] \in Seq(Courses) \ {<<>>}
  /\ Courses \cap Groups = {} /\ NoTrack \notin Courses \cup Groups
  /\ CupSize \in Nat \ {0} /\ Icons \in Nat \ {0} /\ RaceLimit \in Nat \ {0}
  /\ Icons % 2 = 0
  /\ MaxLeft \in Nat /\ \A layout \in DOMAIN Slots : Len(Slots[layout]) <= CupSize * MaxLeft

VARIABLES
  mode,      \* menusScenario's game mode
  settings,  \* SettingsHolder: the offline list, its variants, the sorting
  layout,    \* CupManager::currentTrackList and currentLayout
  cup,       \* CupManager::lastSelectedCup
  left,      \* lastLeftCup, a signed word
  view,      \* the page and what it has drawn
  winning,   \* CupManager::winningCourse
  order,     \* gpTrackArray, or the context's vsTracks
  far        \* history: some page was set up with lastLeftCup out of range

vars == <<mode, settings, layout, cup, left, view, winning, order, far>>

-----------------------------------------------------------------------------
\* CupManager.
Count(lay) == Len(Slots[lay]) \div CupSize
CoursesOfCup(lay, c) == [i \in 1..CupSize |-> Slots[lay][c * CupSize + i]]

\* The courses a slot may become: GetRandomVariantTrack for a group.
Members(g) == {Variants[g][i] : i \in DOMAIN Variants[g]}
Expand(slot) == IF slot \in Groups THEN Members(slot) ELSE {slot}
Draws(slots) ==
  {tracks \in [DOMAIN slots -> Courses] : \A i \in DOMAIN slots : tracks[i] \in Expand(slots[i])}

\* A sum of words, then its remainder: a negative one has wrapped.
Wrapped(sum, n) == ((sum + IF sum < 0 THEN (65536 % n) * (65536 % n) ELSE 0) % n)

\* The columns of the page: even cups above, odd ones below.
IconOffset(i) == IF 2 * i < Icons THEN 2 * i ELSE 2 * i - Icons + 1
IconFor(id) == IF id % 2 = 1 THEN Icons \div 2 + (id - 1) \div 2 ELSE id \div 2

CupOfIcon(i, from, n) == Wrapped(IconOffset(i) + from + n, n)

\* SettingsHolder.
GetTrackList == IF mode = "vs" THEN settings.list ELSE 0
CanChooseVariant == mode = "tt" \/ (mode = "vs" /\ settings.variants)

-----------------------------------------------------------------------------
Menu == [page |-> "menu"]

\* ExtendCupSelectCupInitSelf, on a layout with a cup to point at.
CupsView(lay, c) ==
  [page |-> "cups", cur |-> c,
   buttons |-> [i \in 0..(Icons - 1) |-> CupOfIcon(i, left, Count(lay))]]

\* CorrectCourseSelectCup, PatchCourseSelectCup and
\* ExtendCourseSelectCourseInitSelf: the icon that is marked, the cup it
\* shows, the courses.  clickedCupId is lastSelectedCup while this page is up.
CoursesView(lay, c, from) ==
  LET n == Count(lay)
      mark == IconFor(Wrapped(c - from + n, n))
  IN  [page |-> "courses", mark |-> mark, icon |-> CupOfIcon(mark, from, n),
       listed |-> CoursesOfCup(lay, c)]

\* VariantSelectPlus: the random button, if there is one, then the variants.
HasRandom == IF mode = "tt" THEN 0 ELSE 1
SubPageCount(g, random) == (Len(Variants[g]) - 1 + random) \div CupSize + 1
VariantButtons(g, random, sub) ==
  LET all == (IF random = 1 THEN <<g>> ELSE <<>>) \o Variants[g]
      shown == Len(all) - CupSize * sub
  IN  [i \in 1..(IF shown > CupSize THEN CupSize ELSE shown) |-> all[CupSize * sub + i]]

-----------------------------------------------------------------------------
\* The constructor: the default layout, and no course chosen yet.
Init ==
  /\ mode \in Modes
  /\ settings \in [list : Lists, variants : BOOLEAN, sorting : {0, 1}]
  /\ layout = [list |-> 0, sorting |-> 0]
  /\ cup = 0 /\ left = 0
  /\ view = Menu /\ winning = NoTrack /\ order = <<>>
  /\ far = FALSE

\* The menus before: another mode, another offline list (ApplyVSSettings).
Choose ==
  /\ view = Menu
  /\ mode' \in Modes
  /\ \E list \in Lists, variants \in BOOLEAN :
       settings' = [settings EXCEPT !.list = list, !.variants = variants]
  /\ UNCHANGED <<layout, cup, left, view, winning, order, far>>

\* CupSelectPlus::OnActivate under a sorting: the layout the page is for.
\* (wrong variant) a Grand Prix is shown in the player's sorting.
LayoutUnsorted(sorting) == [list |-> GetTrackList, sorting |-> sorting]
\* (wrong variant) only the sorting is new.
LayoutKept(sorting) == IF mode = "gp" THEN [list |-> 0, sorting |-> 0]
                       ELSE [layout EXCEPT !.sorting = sorting]
ActivatedLayout(sorting) ==
  IF mode = "gp" THEN [list |-> 0, sorting |-> 0]
  ELSE [list |-> GetTrackList, sorting |-> sorting]

\* The cups page opens: from the menus, or back from the courses.
OpenCups ==
  /\ view.page \in {"menu", "courses"}
  /\ layout' = ActivatedLayout(settings.sorting)
  /\ view' = CupsView(layout', cup)
  /\ far' = (left < -Count(layout'))
  /\ UNCHANGED <<mode, settings, cup, left, winning, order>>

\* The player's cursor is on a cup; external: curCupID follows it.
Point(i) ==
  /\ view.page = "cups"
  /\ view' = [view EXCEPT !.cur = view.buttons[i]]
  /\ UNCHANGED <<mode, settings, layout, cup, left, winning, order, far>>

ScrollCups(direction) ==
  LET n == Count(layout)
      Moved(id) == (id + 2 * direction + n) % n
  IN  /\ view.page = "cups"
      /\ view' = [view EXCEPT !.cur = Moved(@),
                              !.buttons = [i \in DOMAIN @ |-> Moved(@[i])]]
      /\ UNCHANGED <<mode, settings, layout, cup, left, winning, order, far>>

\* The other sorting; the page is left for itself.
OnSwitchPress ==
  /\ view.page = "cups" /\ mode # "gp"
  /\ settings' = [settings EXCEPT !.sorting = 1 - @]
  /\ cup' = view.cur
  /\ layout' = ActivatedLayout(settings'.sorting)
  /\ view' = CupsView(layout', cup')
  /\ far' = (left < -Count(layout'))
  /\ UNCHANGED <<mode, left, winning, order>>

\* UpdateSelection: a cup is chosen; a Grand Prix draws its courses.
\* (wrong variant) lastLeftCup is that of the visit before.
UpdateSelectionStale(i) ==
  /\ view.page = "cups"
  /\ cup' = view.buttons[i] /\ UNCHANGED left
  /\ IF mode = "gp"
     THEN /\ order' \in Draws(CoursesOfCup(layout, cup'))
          /\ view' = [page |-> "race", by |-> "gp", number |-> 1]
          /\ winning' = order'[1]
     ELSE view' = CoursesView(layout, cup', left) /\ UNCHANGED <<order, winning>>
  /\ UNCHANGED <<mode, settings, layout, far>>
UpdateSelection(i) ==
  /\ view.page = "cups"
  /\ cup' = view.buttons[i] /\ left' = view.buttons[0]
  /\ IF mode = "gp"
     THEN /\ order' \in Draws(CoursesOfCup(layout, cup'))
          /\ view' = [page |-> "race", by |-> "gp", number |-> 1]
          /\ winning' = order'[1]
     ELSE view' = CoursesView(layout, cup', left') /\ UNCHANGED <<order, winning>>
  /\ UNCHANGED <<mode, settings, layout, far>>

\* The next cup to the right or left: its courses, the marked icon redrawn.
SlideCup(offset) ==
  LET n == Count(layout)
  IN  /\ view.page = "courses" /\ left + offset \in (-MaxLeft)..MaxLeft
      /\ cup' = (cup + offset + n) % n
      /\ left' = left + offset
      /\ far' = (far \/ left' < -n \/ left' > cup' + n)
      /\ view' = [view EXCEPT !.icon = CupOfIcon(view.mark, left', n),
                              !.listed = CoursesOfCup(layout, cup')]
      /\ UNCHANGED <<mode, settings, layout, winning, order>>

\* VSRaceOrderFix: the layout's slots from the chosen button on, which is a
\* button of the page the choice was made on.
Following(b) ==
  LET n == Len(Slots[layout])
  IN  [k \in 1..RaceLimit |-> Slots[layout][((cup * CupSize + b + k - 2) % n) + 1]]

\* UpdateSelectedCourse with the id of button b, and the way to the race.
Take(id, b) ==
  /\ winning' \in Expand(id)
  /\ \/ view' = [page |-> "race", by |-> "choice", number |-> 1] /\ UNCHANGED order
     \/ /\ mode = "vs"
        /\ view' = [page |-> "race", by |-> "order", number |-> 1]
        /\ order' \in Draws(Following(b))
  /\ UNCHANGED <<mode, settings, layout, cup, left, far>>

\* OnCourseButtonClickOverride on the courses page.
ChooseCourse(b) ==
  /\ view.page = "courses" /\ b \in DOMAIN view.listed
  /\ ~(CanChooseVariant /\ view.listed[b] \in Groups)
  /\ Take(view.listed[b], b)

ChooseGroup(b) ==
  /\ view.page = "courses" /\ b \in DOMAIN view.listed
  /\ CanChooseVariant /\ view.listed[b] \in Groups
  /\ view' = [page |-> "variants", group |-> view.listed[b], sub |-> 0]
  /\ UNCHANGED <<mode, settings, layout, cup, left, winning, order, far>>

\* The variants page.
TurnSubPage(step) ==
  /\ view.page = "variants"
  /\ view.sub + step \in 0..(SubPageCount(view.group, HasRandom) - 1)
  /\ view' = [view EXCEPT !.sub = @ + step]
  /\ UNCHANGED <<mode, settings, layout, cup, left, winning, order, far>>

ChooseVariant(b) ==
  /\ view.page = "variants"
  /\ LET ids == VariantButtons(view.group, HasRandom, view.sub)
     IN  b \in DOMAIN ids /\ Take(ids[b], b)

BackToCourses ==
  /\ view.page = "variants"
  /\ view' = CoursesView(layout, cup, left)
  /\ UNCHANGED <<mode, settings, layout, cup, left, winning, order, far>>

\* VSRaceRandomFix: distinct slots of the layout there is; of a group the
\* number of the slot is looked up, which is no group.
VSRaceRandomFix ==
  /\ view = Menu /\ mode = "vs" /\ RaceLimit <= Len(Slots[layout])
  /\ \E drawn \in [1..RaceLimit -> DOMAIN Slots[layout]] :
       /\ \A i, j \in 1..RaceLimit : drawn[i] = drawn[j] => i = j
       /\ order' = [i \in 1..RaceLimit |->
                      IF Slots[layout][drawn[i]] \in Groups THEN NoTrack
                      ELSE Slots[layout][drawn[i]]]
  /\ winning' = order'[1]
  /\ view' = [page |-> "race", by |-> "random", number |-> 1]
  /\ UNCHANGED <<mode, settings, layout, cup, left, far>>

\* GPCorrectNextTrack and VSRaceOrderNextTrack.
NextTrack ==
  /\ view.page = "race" /\ view.by # "choice" /\ view.number < Len(order)
  /\ view' = [view EXCEPT !.number = @ + 1]
  /\ winning' = order[view.number + 1]
  /\ UNCHANGED <<mode, settings, layout, cup, left, order, far>>

\* Back to the menus, from the races or without one.
Leave ==
  /\ view.page \in {"cups", "race"}
  /\ view' = Menu /\ order' = <<>> /\ winning' = NoTrack
  /\ UNCHANGED <<mode, settings, layout, cup, left, far>>

Next ==
  \/ Choose \/ OpenCups \/ OnSwitchPress \/ BackToCourses \/ VSRaceRandomFix
  \/ NextTrack \/ Leave
  \/ \E i \in 0..(Icons - 1) : Point(i) \/ UpdateSelection(i)
  \/ \E direction \in {1, -1} :
       ScrollCups(direction) \/ SlideCup(direction) \/ TurnSubPage(direction)
  \/ \E b \in 1..CupSize : ChooseCourse(b) \/ ChooseGroup(b) \/ ChooseVariant(b)

Spec == Init /\ [][Next]_vars

-----------------------------------------------------------------------------
CupsViews == [page : {"cups"}, cur : Nat, buttons : [0..(Icons - 1) -> Nat]]
CoursesViews == [page : {"courses"}, mark : Nat, icon : Nat,
                 listed : [1..CupSize -> Courses \cup Groups]]
VariantsViews == [page : {"variants"}, group : Groups, sub : Nat]
RaceViews == [page : {"race"}, by : {"gp", "choice", "order", "random"}, number : Nat \ {0}]
Views == {Menu} \cup CupsViews \cup CoursesViews \cup VariantsViews \cup RaceViews

TypeOK ==
  /\ mode \in Modes
  /\ settings \in [list : Lists, variants : BOOLEAN, sorting : {0, 1}]
  /\ layout \in DOMAIN Slots
  /\ cup \in Nat /\ left \in (-MaxLeft)..MaxLeft /\ far \in BOOLEAN
  /\ winning \in Courses \cup {NoTrack}
  /\ order \in Seq(Courses \cup {NoTrack})
  /\ view \in Views

\* The player is shown the cup whose courses he gets: however he scrolled,
\* slid, switched and went back, the marked icon is lastSelectedCup and its
\* courses are listed, as long as the slides do not take lastLeftCup a turn
\* away from the cups (CupSelect.cpp:357-412, CourseSelect.cpp:72-118).
IconIsCup ==
  view.page = "courses" =>
    /\ view.listed = CoursesOfCup(layout, cup)
    /\ ~far => view.mark < Icons /\ view.icon = cup

\* A course that was chosen is one of the list the player set for his mode,
\* and so are the next ones of a VS in order; a random VS stays on the layout
\* there is (CupManager.cpp:73-98, SlotExpansion.cpp:134-186).
ChosenIsOnList ==
  view.page = "race" =>
    LET list == [list |-> IF view.by = "random" THEN layout.list ELSE GetTrackList,
                 sorting |-> 0]
        reachable == UNION {Expand(Slots[list][i]) : i \in DOMAIN Slots[list]}
    IN  winning \in reachable \/ (view.by = "random" /\ winning = NoTrack)

\* A Grand Prix is saved for lastSelectedCup: all its races were on that
\* cup's courses in the order trophies are counted by (SlotExpansion.cpp:92-99,
\* 190-220; CupSelect.cpp:184-205).
SavedCupIsRaced ==
  view.page = "race" /\ view.by = "gp" =>
    /\ cup < Count([list |-> 0, sorting |-> 0])
    /\ winning \in Expand(CoursesOfCup([list |-> 0, sorting |-> 0], cup)[view.number])
=============================================================================
