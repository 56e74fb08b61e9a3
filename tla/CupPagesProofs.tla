---------------------------- MODULE CupPagesProofs ----------------------------
(***************************************************************************)
(* Proofs about CupPages for any courses, groups, layouts, cup size and    *)
(* number of icons.                                                        *)
(***************************************************************************)
EXTENDS CupPages, TLAPS

-----------------------------------------------------------------------------
(* Remainders by any number of cups.                                        *)

\* A remainder.
LEMMA ModFacts ==
  ASSUME NEW a \in Int, NEW n \in Nat \ {0}
  PROVE  a % n \in 0..(n - 1) /\ a \div n \in Int /\ a = n * (a \div n) + (a % n)
<1>1. a % n \in 0..(n - 1)
  OBVIOUS
<1>2. a \div n \in Int
  OBVIOUS
<1>3. a = n * (a \div n) + (a % n)
  OBVIOUS
<1> QED
  BY <1>1, <1>2, <1>3

\* Two numbers below n that are a multiple of n apart are the same.
LEMMA Turns ==
  ASSUME NEW k \in Int, NEW n \in Nat \ {0}, n * k < n, -n < n * k
  PROVE  k = 0
<1>1. CASE k >= 1
  <2>1. n * k >= n * 1
    BY <1>1
  <2> QED
    BY <2>1
<1>2. CASE k <= -1
  <2>1. n * k <= n * (-1)
    BY <1>2
  <2> QED
    BY <2>1
<1> QED
  BY <1>1, <1>2

\* What makes a number the remainder.
LEMMA ModIs ==
  ASSUME NEW a \in Int, NEW n \in Nat \ {0}, NEW q \in Int, NEW r \in 0..(n - 1), a = n * q + r
  PROVE  a % n = r
<1> DEFINE d == a \div n
           m == a % n
<1>1. m \in 0..(n - 1) /\ d \in Int /\ a = n * d + m
  BY ModFacts
<1> HIDE DEF d, m
<1>2. n * (d - q) = r - m
  BY <1>1
<1>3. d - q = 0
  BY <1>1, <1>2, Turns
<1>4. m = r
  BY <1>1, <1>3
<1> QED
  BY <1>4 DEF m

\* A number below n is its own remainder.
LEMMA ModSmall ==
  ASSUME NEW n \in Nat \ {0}, NEW r \in 0..(n - 1)
  PROVE  r % n = r
OBVIOUS

\* A summand may be reduced before the sum is.
LEMMA ModOfSum ==
  ASSUME NEW a \in Int, NEW b \in Int, NEW n \in Nat \ {0}
  PROVE  ((a % n) + b) % n = (a + b) % n
<1> DEFINE d == a \div n
           m == a % n
           e == (m + b) \div n
           r == (m + b) % n
<1>1. m \in 0..(n - 1) /\ d \in Int /\ a = n * d + m
  BY ModFacts
<1> HIDE DEF d, m
<1>2. m + b \in Int
  BY <1>1
<1>3. r \in 0..(n - 1) /\ e \in Int /\ m + b = n * e + r
  BY <1>2, ModFacts
<1> HIDE DEF e, r
<1>4. a + b = n * (d + e) + r /\ a + b \in Int /\ d + e \in Int
  BY <1>1, <1>3
<1>5. (a + b) % n = r
  BY <1>3, <1>4, ModIs
<1> QED
  BY <1>5 DEF r, m

\* Another turn changes no remainder.
LEMMA ModOfTurn ==
  ASSUME NEW a \in Int, NEW n \in Nat \ {0}
  PROVE  (a + n) % n = a % n
<1> DEFINE d == a \div n
           m == a % n
<1>1. m \in 0..(n - 1) /\ d \in Int /\ a = n * d + m
  BY ModFacts
<1> HIDE DEF d, m
<1>2. a + n = n * (d + 1) + m
  BY <1>1
<1>3. (a + n) % n = m
  BY <1>1, <1>2, ModIs
<1> QED
  BY <1>3 DEF m

\* A difference that is added again.
LEMMA ModOfDifference ==
  ASSUME NEW a \in Int, NEW b \in Int, NEW n \in Nat \ {0}
  PROVE  (((a - b) % n) + b) % n = a % n
<1> DEFINE d == a - b
<1>1. d \in Int /\ d + b = a
  OBVIOUS
<1> HIDE DEF d
<1>2. ((d % n) + b) % n = (d + b) % n
  BY <1>1, ModOfSum
<1> QED
  BY <1>1, <1>2 DEF d

\* The sum of words, as long as it is not negative.
LEMMA WrappedSum ==
  ASSUME NEW sum \in Int, NEW n \in Nat \ {0}
  PROVE  /\ Wrapped(sum, n) \in 0..(n - 1)
         /\ sum >= 0 => Wrapped(sum, n) = sum % n
<1> DEFINE turn == 65536 % n
           word == IF sum < 0 THEN turn * turn ELSE 0
<1>1. turn \in Int
  BY ModFacts
<1>2. turn * turn \in Int
  BY <1>1
<1>3. word \in Int /\ (sum >= 0 => word = 0)
  BY <1>2
<1>4. Wrapped(sum, n) = (sum + word) % n
  BY DEF Wrapped
<1> HIDE DEF word
<1>5. sum + word \in Int /\ (sum >= 0 => sum + word = sum)
  BY <1>3
<1> QED
  BY <1>4, <1>5, ModFacts

-----------------------------------------------------------------------------
(* The icons and the layouts.                                               *)

\* The two rows: each icon has its place among the cups, each place its icon.
LEMMA IconPlaces ==
  /\ Icons \in Nat \ {0} /\ 0 \in 0..(Icons - 1) /\ IconOffset(0) = 0
  /\ \A i \in 0..(Icons - 1) : IconOffset(i) \in 0..(Icons - 1)
  /\ \A id \in Nat : IconFor(id) \in Nat
  /\ \A id \in 0..(Icons - 1) : IconFor(id) \in 0..(Icons - 1) /\ IconOffset(IconFor(id)) = id
<1>1. Icons \in Nat \ {0} /\ Icons % 2 = 0
  BY LayoutAssumption
<1> QED
  BY <1>1 DEF IconOffset, IconFor

\* What is on a layout has its place, and every place something.
LEMMA LayoutFacts ==
  ASSUME NEW lay \in DOMAIN Slots
  PROVE  /\ lay.list \in Lists /\ lay.sorting \in {0, 1} /\ lay = [list |-> lay.list, sorting |-> lay.sorting]
         /\ Slots[lay] \in Seq(Courses \union Groups) /\ Len(Slots[lay]) \in Nat \ {0}
         /\ Count(lay) \in Nat \ {0} /\ Len(Slots[lay]) = CupSize * Count(lay)
         /\ Count(lay) <= MaxLeft
<1> DEFINE n == Len(Slots[lay])
<1>1. /\ DOMAIN Slots = [list : Lists, sorting : {0, 1}]
      /\ Slots[lay] \in Seq(Courses \union Groups) /\ Slots[lay] # <<>> /\ n % CupSize = 0
      /\ CupSize \in Nat \ {0} /\ n <= CupSize * MaxLeft /\ MaxLeft \in Nat
  BY LayoutAssumption
<1>2. lay.list \in Lists /\ lay.sorting \in {0, 1} /\ lay = [list |-> lay.list, sorting |-> lay.sorting]
  BY <1>1
<1>3. n \in Nat \ {0}
  BY <1>1
<1> HIDE DEF n
<1>4. n \div CupSize \in Int /\ n = CupSize * (n \div CupSize)
  <2>1. n \in Int /\ n = CupSize * (n \div CupSize) + (n % CupSize)
    BY <1>1, <1>3, ModFacts
  <2>2. n \div CupSize \in Int
    BY <1>1, <1>3, ModFacts
  <2> QED
    BY <1>1, <2>1, <2>2
<1> DEFINE c == n \div CupSize
<1>5. c \in Int /\ n = CupSize * c
  BY <1>4
<1> HIDE DEF c
<1>6. c >= 1
  <2>1. CASE c <= 0
    <3>1. CupSize * c <= CupSize * 0
      BY <1>1, <1>5, <2>1
    <3> QED
      BY <1>1, <1>3, <1>5, <3>1
  <2> QED
    BY <1>5, <2>1
<1>7. c <= MaxLeft
  <2>1. CASE c >= MaxLeft + 1
    <3>1. CupSize * c >= CupSize * (MaxLeft + 1)
      BY <1>1, <1>5, <2>1
    <3>2. CupSize * (MaxLeft + 1) = CupSize * MaxLeft + CupSize
      BY <1>1
    <3>3. CupSize * MaxLeft \in Int
      BY <1>1
    <3> QED
      BY <1>1, <1>3, <1>5, <3>1, <3>2, <3>3
  <2> QED
    BY <1>1, <1>5, <2>1
<1>8. Count(lay) = c
  BY DEF Count, c, n
<1> QED
  BY <1>1, <1>2, <1>3, <1>5, <1>6, <1>7, <1>8 DEF n

\* The courses of a cup are slots of its layout.
LEMMA CupSlots ==
  ASSUME NEW lay \in DOMAIN Slots, NEW c \in 0..(Count(lay) - 1)
  PROVE  /\ CoursesOfCup(lay, c) \in [1..CupSize -> Courses \union Groups]
         /\ \A i \in 1..CupSize :
              CoursesOfCup(lay, c)[i] \in OnLayout(lay) \intersect (Courses \union Groups)
<1>1. /\ Slots[lay] \in Seq(Courses \union Groups) /\ Count(lay) \in Nat \ {0}
      /\ Len(Slots[lay]) = CupSize * Count(lay) /\ CupSize \in Nat \ {0}
  BY LayoutFacts, LayoutAssumption
<1> DEFINE m == Count(lay)
<1>2. m \in Nat \ {0} /\ Len(Slots[lay]) = CupSize * m /\ c \in 0..(m - 1)
  BY <1>1
<1> HIDE DEF m
<1>3. c * CupSize >= 0 /\ c * CupSize \in Int
  BY <1>1, <1>2
<1>4. c * CupSize + CupSize <= Len(Slots[lay])
  <2>1. CupSize * (c + 1) <= CupSize * m
    BY <1>1, <1>2
  <2>2. CupSize * (c + 1) = c * CupSize + CupSize
    BY <1>1, <1>2
  <2> QED
    BY <1>2, <2>1, <2>2
<1>5. ASSUME NEW i \in 1..CupSize
      PROVE  /\ c * CupSize + i \in DOMAIN Slots[lay]
             /\ Slots[lay][c * CupSize + i] \in OnLayout(lay) \intersect (Courses \union Groups)
  <2> DEFINE k == c * CupSize + i
  <2>1. k \in 1..Len(Slots[lay])
    BY <1>1, <1>3, <1>4
  <2> HIDE DEF k
  <2>2. k \in DOMAIN Slots[lay] /\ Slots[lay][k] \in Courses \union Groups
    BY <1>1, <2>1
  <2>3. Slots[lay][k] \in OnLayout(lay)
    BY <2>2 DEF OnLayout
  <2> QED
    BY <2>2, <2>3 DEF k
<1> QED
  BY <1>5 DEF CoursesOfCup

\* What slots stand for.
LEMMA Expansion ==
  /\ \A slot \in Courses \union Groups : Expand(slot) \subseteq Courses
  /\ \A g \in Groups : Expand(g) = Members(g)
  /\ \A t \in Courses : Expand(t) = {t}
<1>1. ASSUME NEW g \in Groups PROVE Members(g) \subseteq Courses
  <2>1. Variants[g] \in Seq(Courses)
    BY LayoutAssumption
  <2> QED
    BY <2>1 DEF Members
<1>2. Courses \intersect Groups = {}
  BY LayoutAssumption
<1> QED
  BY <1>1, <1>2 DEF Expand

-----------------------------------------------------------------------------
(* What the pages draw.                                                     *)

\* The icons count up from the first one.
LEMMA IconCup ==
  ASSUME NEW i \in Nat, NEW from \in Int, NEW n \in Nat \ {0}
  PROVE  /\ CupOfIcon(i, from, n) \in 0..(n - 1)
         /\ from >= -n /\ i < Icons => CupOfIcon(i, from, n) = (IconOffset(i) + from) % n
<1> DEFINE o == IconOffset(i)
           sum == o + from + n
<1>1. o \in Int /\ (i < Icons => o \in Nat)
  <2>1. Icons \in Nat \ {0}
    BY IconPlaces
  <2> QED
    BY <2>1 DEF IconOffset
<1> HIDE DEF o
<1>2. sum \in Int /\ (from >= -n /\ i < Icons => sum >= 0)
  <2>1. Icons \in Nat \ {0}
    BY IconPlaces
  <2> QED
    BY <1>1, <2>1
<1>3. (o + from) \in Int /\ sum = (o + from) + n
  BY <1>1
<1> DEFINE base == o + from
<1>4. base \in Int /\ sum = base + n
  BY <1>3
<1> HIDE DEF base, sum
<1>5. Wrapped(sum, n) \in 0..(n - 1) /\ (sum >= 0 => Wrapped(sum, n) = sum % n)
  BY <1>2, WrappedSum
<1>6. sum % n = base % n
  BY <1>4, ModOfTurn
<1>7. CupOfIcon(i, from, n) = Wrapped(sum, n)
  BY DEF CupOfIcon, sum, o
<1> QED
  BY <1>2, <1>5, <1>6, <1>7 DEF base, o

\* The cups page: cups of the layout, counted up from the first icon.
Row(buttons, n) ==
  \A i \in 0..(Icons - 1) : buttons[i] = (IconOffset(i) + buttons[0]) % n

\* The cups page shows a cup on every icon, one after the other from the
\* leftmost unless the sum below zero wraps.
LEMMA CupsDrawn ==
  ASSUME NEW lay \in DOMAIN Slots, NEW c \in Nat, left \in Int
  PROVE  /\ CupsView(lay, c) \in CupsViews /\ CupsView(lay, c).page = "cups"
         /\ \A i \in 0..(Icons - 1) : CupsView(lay, c).buttons[i] \in 0..(Count(lay) - 1)
         /\ left >= -Count(lay) => Row(CupsView(lay, c).buttons, Count(lay))
<1> DEFINE n == Count(lay)
           b == CupsView(lay, c).buttons
<1>1. n \in Nat \ {0}
  BY LayoutFacts
<1>2. /\ CupsView(lay, c) = [page |-> "cups", cur |-> c, buttons |-> b]
      /\ b = [i \in 0..(Icons - 1) |-> CupOfIcon(i, left, n)]
  BY DEF CupsView
<1> HIDE DEF n, b
<1>3. Icons \in Nat \ {0} /\ 0 \in 0..(Icons - 1)
  BY IconPlaces
<1>4. ASSUME NEW i \in 0..(Icons - 1)
      PROVE  /\ b[i] \in 0..(n - 1)
             /\ left >= -n => b[i] = (IconOffset(i) + left) % n
  <2>1. i \in Nat /\ i < Icons
    BY <1>3
  <2>2. b[i] = CupOfIcon(i, left, n)
    BY <1>2
  <2>3. /\ CupOfIcon(i, left, n) \in 0..(n - 1)
        /\ left >= -n /\ i < Icons => CupOfIcon(i, left, n) = (IconOffset(i) + left) % n
    BY <1>1, <2>1, IconCup
  <2> QED
    BY <2>1, <2>2, <2>3
<1>5. b \in [0..(Icons - 1) -> Nat]
  BY <1>1, <1>2, <1>4
<1>6. ASSUME left >= -n PROVE Row(b, n)
  <2>1. b[0] = left % n
    <3>1. b[0] = (IconOffset(0) + left) % n
      BY <1>3, <1>4, <1>6
    <3> QED
      BY <3>1, IconPlaces
  <2>2. ASSUME NEW i \in 0..(Icons - 1) PROVE b[i] = (IconOffset(i) + b[0]) % n
    <3> DEFINE o == IconOffset(i)
    <3>1. o \in Int
      BY IconPlaces
    <3>2. b[i] = (o + left) % n
      BY <1>4, <1>6
    <3> HIDE DEF o
    <3>3. ((left % n) + o) % n = (left + o) % n
      BY <1>1, <3>1, ModOfSum
    <3>4. left % n \in Int
      BY <1>1
    <3>5. (left % n) + o = o + (left % n) /\ left + o = o + left
      BY <3>1, <3>4
    <3> QED
      BY <2>1, <3>2, <3>3, <3>5 DEF o
  <2> QED
    BY <2>2 DEF Row
<1> QED
  BY <1>2, <1>4, <1>5, <1>6 DEF CupsViews, n, b

\* The courses page: the icon of the cup is on it and shows the cup.
Aligned(c, from, n) == from >= -n /\ from <= c + n /\ (c - from) % n < Icons

\* The icon a cup is marked on is one that shows it, if it is within a turn of
\* the leftmost cup and on the page.
LEMMA IconOfCup ==
  ASSUME NEW n \in Nat \ {0}, NEW c \in 0..(n - 1), NEW from \in Int, Aligned(c, from, n)
  PROVE  /\ IconFor((c - from) % n) \in 0..(Icons - 1)
         /\ CupOfIcon(IconFor((c - from) % n), from, n) = c
<1> DEFINE id == (c - from) % n
           mark == IconFor(id)
<1>1. c - from \in Int
  OBVIOUS
<1>2. id \in 0..(n - 1)
  BY <1>1, ModFacts
<1>3. id < Icons /\ from >= -n
  BY DEF Aligned
<1>4. (id + from) % n = c % n
  <2>1. c \in Int
    OBVIOUS
  <2>2. (((c - from) % n) + from) % n = c % n
    BY <2>1, ModOfDifference
  <2> QED
    BY <2>2
<1> HIDE DEF id
<1>5. Icons \in Nat \ {0} /\ id \in 0..(Icons - 1)
  BY <1>2, <1>3, IconPlaces
<1>6. mark \in 0..(Icons - 1) /\ IconOffset(mark) = id
  BY <1>5, IconPlaces
<1> HIDE DEF mark
<1>7. mark \in Nat /\ mark < Icons
  BY <1>5, <1>6
<1>8. CupOfIcon(mark, from, n) = (IconOffset(mark) + from) % n
  BY <1>3, <1>7, IconCup
<1>9. c % n = c
  BY ModSmall
<1> QED
  BY <1>4, <1>6, <1>8, <1>9 DEF mark, id

\* The course page marks the icon of its cup and lists the courses of it.
LEMMA CoursesDrawn ==
  ASSUME NEW lay \in DOMAIN Slots, NEW c \in 0..(Count(lay) - 1), NEW from \in Int
  PROVE  /\ CoursesView(lay, c, from) \in CoursesViews
         /\ CoursesView(lay, c, from).page = "courses"
         /\ CoursesView(lay, c, from).listed = CoursesOfCup(lay, c)
         /\ Aligned(c, from, Count(lay)) =>
              /\ CoursesView(lay, c, from).mark = IconFor((c - from) % Count(lay))
              /\ CoursesView(lay, c, from).icon = c
<1> DEFINE n == Count(lay)
           v == CoursesView(lay, c, from)
           sum == c - from + n
           id == Wrapped(sum, n)
           mark == IconFor(id)
           icon == CupOfIcon(mark, from, n)
           listed == CoursesOfCup(lay, c)
<1>1. n \in Nat \ {0}
  BY LayoutFacts
<1>2. v = [page |-> "courses", mark |-> mark, icon |-> icon, listed |-> listed]
  BY DEF CoursesView
<1>3. listed \in [1..CupSize -> Courses \union Groups]
  BY CupSlots
<1> HIDE DEF v, listed
<1>4. c - from \in Int /\ (from <= c + n => (c - from) + n >= 0) /\ sum = (c - from) + n
  BY <1>1
<1>5. sum % n = (c - from) % n
  BY <1>1, <1>4, ModOfTurn
<1>6. sum \in Int /\ (from <= c + n => sum >= 0)
  BY <1>1, <1>4
<1> HIDE DEF sum
<1>7. id \in 0..(n - 1) /\ (sum >= 0 => id = sum % n)
  BY <1>1, <1>6, WrappedSum
<1> HIDE DEF id
<1>8. id \in Nat
  BY <1>1, <1>7
<1>9. mark \in Nat
  BY <1>8, IconPlaces
<1>10. Aligned(c, from, n) => mark = IconFor((c - from) % n)
  BY <1>5, <1>6, <1>7 DEF Aligned
<1> HIDE DEF mark
<1>11. icon \in 0..(n - 1)
  BY <1>1, <1>9, IconCup
<1>12. Aligned(c, from, n) => icon = c
  BY <1>1, <1>10, IconOfCup
<1> HIDE DEF icon
<1>13. icon \in Nat
  BY <1>1, <1>11
<1>14. v \in CoursesViews
  BY <1>2, <1>3, <1>9, <1>13 DEF CoursesViews
<1> QED
  BY <1>2, <1>10, <1>12, <1>14 DEF v, listed, n

-----------------------------------------------------------------------------
(* The invariant.                                                           *)

Front(list) == [list |-> list, sorting |-> 0]

\* A course is, or is a variant of, something on a layout.
Reaches(t, lay) == \E i \in DOMAIN Slots[lay] : t \in Expand(Slots[lay][i])

\* The cups page shows cups of its list, one after the other unless the leftmost
\* one went too far below zero.
CupsOnPage ==
  view.page = "cups" =>
    /\ layout = ActivatedLayout(settings.sorting)
    /\ \A i \in 0..(Icons - 1) : view.buttons[i] \in 0..(Count(layout) - 1)
    /\ ~far => Row(view.buttons, Count(layout))

\* Below the cups page the cup is one of the list, and on the page it was taken
\* from.
CupIsChosen ==
  view.page \in {"courses", "variants"} =>
    /\ mode # "gp" /\ layout = ActivatedLayout(settings.sorting)
    /\ cup \in 0..(Count(layout) - 1)
    /\ ~far => Aligned(cup, left, Count(layout))

\* The course page lists the courses of its cup, and marks its icon.
IconMarked ==
  view.page = "courses" =>
    /\ view.listed = CoursesOfCup(layout, cup)
    /\ ~far => view.mark = IconFor((cup - left) % Count(layout)) /\ view.icon = cup

\* The variants page is about a group of the list.
GroupOnLayout == view.page = "variants" => view.group \in OnLayout(layout)

\* What the player chose, and what follows in order, is on the list.
ChoiceOnList ==
  view.page = "race" /\ view.by \in {"choice", "order"} =>
    /\ Reaches(winning, Front(GetTrackList))
    /\ view.by = "order" => \A k \in DOMAIN order : Reaches(order[k], Front(GetTrackList))

OnLayoutOrNone(t) == t = NoTrack \/ Reaches(t, Front(layout.list))

\* So is what was drawn for a random race, if anything was.
RandomOnLayout ==
  view.page = "race" /\ view.by = "random" =>
    OnLayoutOrNone(winning) /\ \A k \in DOMAIN order : OnLayoutOrNone(order[k])

\* A Grand Prix runs through courses of the cup that is saved.
CupIsRaced ==
  view.page = "race" /\ view.by = "gp" =>
    /\ mode = "gp" /\ layout = Front(0) /\ cup \in 0..(Count(layout) - 1)
    /\ order \in Draws(CoursesOfCup(layout, cup))
    /\ view.number \in 1..CupSize /\ winning = order[view.number]

\* The inductive invariant.
CupInv ==
  /\ TypeOK
  /\ CupsOnPage /\ CupIsChosen /\ IconMarked /\ GroupOnLayout
  /\ ChoiceOnList /\ RandomOnLayout /\ CupIsRaced

-----------------------------------------------------------------------------
(* What can be reached from a layout.                                       *)

\* What a slot of a layout stands for is reached from it, whatever the
\* sorting.
LEMMA SlotReached ==
  ASSUME NEW lay \in DOMAIN Slots, NEW s \in OnLayout(lay), NEW t \in Expand(s)
  PROVE  Reaches(t, lay) /\ Reaches(t, Front(lay.list))
<1>1. ASSUME NEW l, s \in OnLayout(l) PROVE Reaches(t, l)
  BY <1>1 DEF OnLayout, Reaches
<1>2. OnLayout(lay) = OnLayout(Front(lay.list))
  <2>1. /\ lay.list \in Lists /\ lay.sorting \in {0, 1}
        /\ lay = [list |-> lay.list, sorting |-> lay.sorting]
    BY LayoutFacts
  <2> DEFINE k == lay.list
  <2>2. OnLayout([list |-> k, sorting |-> 0]) = OnLayout([list |-> k, sorting |-> 1])
    BY <2>1, LayoutAssumption
  <2> HIDE DEF k
  <2>3. CASE lay.sorting = 0
    <3>1. lay = [list |-> k, sorting |-> 0]
      BY <2>1, <2>3 DEF k
    <3> QED
      BY <3>1 DEF Front, k
  <2>4. CASE lay.sorting = 1
    <3>1. lay = [list |-> k, sorting |-> 1]
      BY <2>1, <2>4 DEF k
    <3> QED
      BY <2>2, <3>1 DEF Front, k
  <2> QED
    BY <2>1, <2>3, <2>4
<1> QED
  BY <1>1, <1>2

\* The page's layout is one there is, of the list for the mode.
LEMMA Activated ==
  ASSUME mode \in Modes, settings \in [list : Lists, variants : BOOLEAN, sorting : {0, 1}],
         NEW sorting \in {0, 1}
  PROVE  /\ ActivatedLayout(sorting) \in DOMAIN Slots
         /\ ActivatedLayout(sorting).list = GetTrackList
         /\ mode = "gp" => ActivatedLayout(sorting) = Front(0)
<1>1. DOMAIN Slots = [list : Lists, sorting : {0, 1}] /\ 0 \in Lists
  BY LayoutAssumption
<1>2. GetTrackList \in Lists /\ (mode = "gp" => GetTrackList = 0)
  BY <1>1 DEF GetTrackList
<1>3. [list |-> GetTrackList, sorting |-> sorting] \in DOMAIN Slots
  BY <1>1, <1>2
<1>4. [list |-> 0, sorting |-> 0] \in DOMAIN Slots
  BY <1>1
<1> QED
  BY <1>2, <1>3, <1>4 DEF ActivatedLayout, Front

\* A function on 1..n is a sequence.
LEMMA RowIsSeq ==
  ASSUME NEW n \in Nat, NEW S, NEW f \in [1..n -> S]
  PROVE  f \in Seq(S) /\ Len(f) = n
OBVIOUS

\* A row over some values is one over more.
LEMMA WiderSeq ==
  ASSUME NEW S, NEW T, S \subseteq T, NEW n \in Nat, NEW f \in [1..n -> S]
  PROVE  f \in [1..n -> T]
OBVIOUS

\* A draw is a course for each slot.
LEMMA Drawn ==
  ASSUME NEW n \in Nat, NEW slots \in [1..n -> Courses \union Groups], NEW f \in Draws(slots)
  PROVE  /\ DOMAIN f = 1..n /\ Len(f) = n /\ f \in Seq(Courses \union {NoTrack})
         /\ \A i \in 1..n : f[i] \in Courses /\ f[i] \in Expand(slots[i])
<1>1. DOMAIN slots = 1..n
  OBVIOUS
<1>2. f \in [1..n -> Courses] /\ \A i \in 1..n : f[i] \in Expand(slots[i])
  BY <1>1 DEF Draws
<1>3. f \in [1..n -> Courses \union {NoTrack}]
  BY <1>2, WiderSeq
<1> QED
  BY <1>2, <1>3, RowIsSeq

\* The next races of a VS in order are slots of the layout.
LEMMA FollowingSlots ==
  ASSUME layout \in DOMAIN Slots, cup \in Nat, NEW b \in 1..CupSize
  PROVE  /\ Following(b) \in [1..RaceLimit -> Courses \union Groups]
         /\ \A k \in 1..RaceLimit : Following(b)[k] \in OnLayout(layout)
<1> DEFINE n == Len(Slots[layout])
<1>1. n \in Nat \ {0} /\ Slots[layout] \in Seq(Courses \union Groups)
  BY LayoutFacts
<1>2. CupSize \in Nat \ {0} /\ RaceLimit \in Nat \ {0}
  BY LayoutAssumption
<1> HIDE DEF n
<1>3. ASSUME NEW k \in 1..RaceLimit
      PROVE  /\ Following(b)[k] = Slots[layout][((cup * CupSize + b + k - 2) % n) + 1]
             /\ Following(b)[k] \in OnLayout(layout) \intersect (Courses \union Groups)
  <2> DEFINE x == cup * CupSize + b + k - 2
             j == (x % n) + 1
  <2>1. x \in Int
    <3>1. cup * CupSize \in Int
      BY <1>2
    <3> QED
      BY <1>2, <3>1
  <2>2. Following(b)[k] = Slots[layout][j]
    BY DEF Following, n
  <2> HIDE DEF x
  <2>3. x % n \in 0..(n - 1)
    BY <1>1, <2>1, ModFacts
  <2>4. j \in 1..n
    BY <1>1, <2>3
  <2> HIDE DEF j
  <2>5. j \in DOMAIN Slots[layout] /\ Slots[layout][j] \in Courses \union Groups
    BY <1>1, <2>4 DEF n
  <2>6. Slots[layout][j] \in OnLayout(layout)
    BY <2>5 DEF OnLayout
  <2> QED
    BY <2>2, <2>5, <2>6 DEF j, x
<1>4. \A k \in 1..RaceLimit : Following(b)[k] \in OnLayout(layout) /\ Following(b)[k] \in Courses \union Groups
  BY <1>3
<1>5. DOMAIN Following(b) = 1..RaceLimit /\ Following(b) = [k \in 1..RaceLimit |-> Following(b)[k]]
  BY DEF Following
<1>6. Following(b) \in [1..RaceLimit -> Courses \union Groups]
  BY <1>4, <1>5
<1> QED
  BY <1>4, <1>6

\* The buttons of the variants page are the group and its variants.
LEMMA ButtonsOfGroup ==
  ASSUME NEW g \in Groups, NEW random \in {0, 1}, NEW sub \in Nat,
         NEW b \in DOMAIN VariantButtons(g, random, sub)
  PROVE  /\ VariantButtons(g, random, sub)[b] \in Courses \union Groups
         /\ Expand(VariantButtons(g, random, sub)[b]) \subseteq Expand(g)
<1> DEFINE first == IF random = 1 THEN <<g>> ELSE <<>>
           all == first \o Variants[g]
           shown == Len(all) - CupSize * sub
           count == IF shown > CupSize THEN CupSize ELSE shown
           k == CupSize * sub + b
<1>1. Variants[g] \in Seq(Courses) /\ CupSize \in Nat \ {0}
  BY LayoutAssumption
<1>2. first \in Seq({g})
  <2>1. <<g>> \in Seq({g}) /\ <<>> \in Seq({g})
    OBVIOUS
  <2> QED
    BY <2>1
<1>3. VariantButtons(g, random, sub) = [i \in 1..count |-> all[CupSize * sub + i]]
  BY DEF VariantButtons
<1> HIDE DEF first
<1>4. /\ Len(all) \in Nat
      /\ \A j \in 1..Len(all) : all[j] = g \/ \E i \in DOMAIN Variants[g] : all[j] = Variants[g][i]
  BY <1>1, <1>2
<1> HIDE DEF all
<1>5. CupSize * sub \in Nat
  BY <1>1
<1>6. b \in 1..count /\ VariantButtons(g, random, sub)[b] = all[k]
  BY <1>3
<1>7. k \in 1..Len(all)
  BY <1>1, <1>4, <1>5, <1>6
<1> HIDE DEF k
<1>8. all[k] = g \/ all[k] \in Members(g)
  BY <1>4, <1>7 DEF Members
<1>9. all[k] \in Courses \union Groups /\ Expand(all[k]) \subseteq Expand(g)
  <2>1. Members(g) \subseteq Courses /\ Expand(g) = Members(g)
    BY Expansion
  <2>2. CASE all[k] = g
    BY <2>2
  <2>3. CASE all[k] \in Members(g)
    BY <2>1, <2>3, Expansion
  <2> QED
    BY <1>8, <2>2, <2>3
<1> QED
  BY <1>6, <1>9

-----------------------------------------------------------------------------
(* The steps.  Each is read as the page it leads to and what that page      *)
(* needs of the state.                                                      *)

\* Which page is up says what it has.
LEMMA PageFields ==
  ASSUME view \in Views
  PROVE  /\ view.page \in {"menu", "cups", "courses", "variants", "race"}
         /\ view.page = "cups" => view \in CupsViews
         /\ view.page = "courses" => view \in CoursesViews
         /\ view.page = "variants" => view \in VariantsViews
         /\ view.page = "race" => view \in RaceViews
BY DEF Views, Menu, CupsViews, CoursesViews, VariantsViews, RaceViews

\* What a page leaves alone when another one follows.
Kept == UNCHANGED <<mode, settings, layout, cup, left, far>>

Typed ==
  /\ mode \in Modes
  /\ settings \in [list : Lists, variants : BOOLEAN, sorting : {0, 1}]
  /\ layout \in DOMAIN Slots
  /\ cup \in Nat /\ left \in (-MaxLeft)..MaxLeft /\ far \in BOOLEAN

\* What a page leaves alone keeps its type.
LEMMA TypedKept ==
  ASSUME TypeOK, Kept
  PROVE  Typed'
BY DEF TypeOK, Kept, Typed

\* The menu needs nothing.
LEMMA ToMenu ==
  ASSUME CupInv, Typed', view' = Menu,
         winning' \in Courses \union {NoTrack}, order' \in Seq(Courses \union {NoTrack})
  PROVE  CupInv'
<1>1. view'.page = "menu" /\ view' \in Views
  BY DEF Menu, Views
<1>2. TypeOK'
  BY <1>1 DEF TypeOK, Typed
<1> QED
  BY <1>1, <1>2 DEF CupInv, CupsOnPage, CupIsChosen, IconMarked, GroupOnLayout, ChoiceOnList,
                    RandomOnLayout, CupIsRaced

\* The cups page.
LEMMA ToCups ==
  ASSUME CupInv, Typed', view' \in CupsViews, UNCHANGED <<winning, order>>,
         (layout = ActivatedLayout(settings.sorting))',
         \A i \in 0..(Icons - 1) : view'.buttons[i] \in 0..(Count(layout') - 1),
         ~far' => Row(view'.buttons, Count(layout'))
  PROVE  CupInv'
<1>1. view'.page = "cups" /\ view' \in Views
  BY DEF CupsViews, Views
<1>2. TypeOK'
  BY <1>1 DEF CupInv, TypeOK, Typed
<1>3. CupsOnPage'
  BY DEF CupsOnPage
<1> QED
  BY <1>1, <1>2, <1>3 DEF CupInv, CupIsChosen, IconMarked, GroupOnLayout, ChoiceOnList,
                    RandomOnLayout, CupIsRaced

\* The courses page.
LEMMA ToCourses ==
  ASSUME CupInv, Typed', view' \in CoursesViews, UNCHANGED <<winning, order>>,
         mode' # "gp", (layout = ActivatedLayout(settings.sorting))',
         cup' \in 0..(Count(layout') - 1), view'.listed = CoursesOfCup(layout', cup'),
         ~far' => /\ Aligned(cup', left', Count(layout'))
                  /\ view'.mark = IconFor((cup' - left') % Count(layout'))
                  /\ view'.icon = cup'
  PROVE  CupInv'
<1>1. view'.page = "courses" /\ view' \in Views
  BY DEF CoursesViews, Views
<1>2. TypeOK'
  BY <1>1 DEF CupInv, TypeOK, Typed
<1>3. CupIsChosen'
  BY DEF CupIsChosen
<1>4. IconMarked'
  BY DEF IconMarked
<1> QED
  BY <1>1, <1>2, <1>3, <1>4 DEF CupInv, CupsOnPage, GroupOnLayout, ChoiceOnList,
                    RandomOnLayout, CupIsRaced

\* The variants page, from a page the cup was chosen on.
LEMMA ToVariants ==
  ASSUME CupInv, Kept, view.page \in {"courses", "variants"}, view' \in VariantsViews,
         UNCHANGED <<winning, order>>, view'.group \in OnLayout(layout)
  PROVE  CupInv'
<1>1. view'.page = "variants" /\ view' \in Views
  BY DEF VariantsViews, Views
<1>2. TypeOK'
  BY <1>1 DEF CupInv, TypeOK, Kept
<1>3. CupIsChosen'
  BY DEF CupInv, CupIsChosen, Kept, ActivatedLayout, GetTrackList
<1>4. GroupOnLayout'
  BY DEF GroupOnLayout, Kept
<1> QED
  BY <1>1, <1>2, <1>3, <1>4 DEF CupInv, CupsOnPage, IconMarked, ChoiceOnList,
                    RandomOnLayout, CupIsRaced

\* The races.
RaceInv == ChoiceOnList /\ RandomOnLayout /\ CupIsRaced

\* A race needs its course, its list and its cup only.
LEMMA ToRace ==
  ASSUME CupInv, Kept, view' \in RaceViews, RaceInv',
         winning' \in Courses \union {NoTrack}, order' \in Seq(Courses \union {NoTrack})
  PROVE  CupInv'
<1>1. view'.page = "race" /\ view' \in Views
  BY DEF RaceViews, Views
<1>2. TypeOK'
  BY <1>1 DEF CupInv, TypeOK, Kept
<1> QED
  BY <1>1, <1>2 DEF CupInv, CupsOnPage, CupIsChosen, IconMarked, GroupOnLayout, RaceInv

-----------------------------------------------------------------------------
(* Menus and the cups page.                                                 *)

\* The first menu has drawn nothing.
LEMMA CupInit ==
  ASSUME Init
  PROVE  CupInv
<1>1. /\ DOMAIN Slots = [list : Lists, sorting : {0, 1}] /\ 0 \in Lists /\ MaxLeft \in Nat
  BY LayoutAssumption
<1>2. view.page = "menu" /\ view \in Views
  BY DEF Init, Menu, Views
<1>3. layout \in DOMAIN Slots
  BY <1>1 DEF Init
<1>4. 0 \in (-MaxLeft)..MaxLeft
  BY <1>1
<1>5. order \in Seq(Courses \union {NoTrack})
  BY DEF Init
<1>6. TypeOK
  BY <1>2, <1>3, <1>4, <1>5 DEF Init, TypeOK
<1> QED
  BY <1>2, <1>6 DEF CupInv, CupsOnPage, CupIsChosen, IconMarked, GroupOnLayout, ChoiceOnList,
                    RandomOnLayout, CupIsRaced

\* Another mode, list or way to take variants is chosen in a menu.
LEMMA ChooseKeeps ==
  ASSUME CupInv, Choose
  PROVE  CupInv'
<1>1. view' = Menu /\ Typed' /\ winning' \in Courses \union {NoTrack}
  <2>1. PICK list \in Lists, variants \in BOOLEAN :
          settings' = [settings EXCEPT !.list = list, !.variants = variants]
    BY DEF Choose
  <2>2. settings' \in [list : Lists, variants : BOOLEAN, sorting : {0, 1}]
    BY <2>1 DEF CupInv, TypeOK
  <2> QED
    BY <2>2 DEF CupInv, TypeOK, Typed, Choose
<1>2. order' \in Seq(Courses \union {NoTrack})
  BY DEF CupInv, TypeOK, Choose
<1> QED
  BY <1>1, <1>2, ToMenu

\* Leaving for the menus.
LEMMA LeaveKeeps ==
  ASSUME CupInv, Leave
  PROVE  CupInv'
<1>1. Kept /\ view' = Menu /\ winning' = NoTrack /\ order' = <<>>
  BY DEF Leave, Kept
<1>2. order' \in Seq(Courses \union {NoTrack})
  BY <1>1
<1> QED
  BY <1>1, <1>2, ToMenu, TypedKept DEF CupInv

\* The page is set up for a layout, with the cursor on some cup.
LEMMA CupsSetUp ==
  ASSUME CupInv, mode' = mode, UNCHANGED <<left, winning, order>>, cup' \in Nat,
         settings' \in [list : Lists, variants : BOOLEAN, sorting : {0, 1}],
         (layout = ActivatedLayout(settings.sorting))',
         view' = CupsView(layout', cup'), far' = (left < -Count(layout'))
  PROVE  CupInv'
<1>1. (mode \in Modes)' /\ settings'.sorting \in {0, 1} /\ left \in Int
  <2>1. MaxLeft \in Nat /\ left \in (-MaxLeft)..MaxLeft
    BY LayoutAssumption DEF CupInv, TypeOK
  <2> QED
    BY <2>1 DEF CupInv, TypeOK
<1>2. layout' \in DOMAIN Slots
  <2>1. ASSUME NEW m \in Modes, NEW s \in [list : Lists, variants : BOOLEAN, sorting : {0, 1}]
        PROVE  /\ [list |-> IF m = "vs" THEN s.list ELSE 0, sorting |-> s.sorting] \in DOMAIN Slots
               /\ [list |-> 0, sorting |-> 0] \in DOMAIN Slots
    BY LayoutAssumption
  <2> QED
    BY <1>1, <2>1 DEF ActivatedLayout, GetTrackList
<1>3. Count(layout') \in Nat \ {0}
  BY <1>2, LayoutFacts
<1>4. Typed'
  BY <1>1, <1>2, <1>3 DEF CupInv, TypeOK, Typed
<1> DEFINE lay == layout'
           c == cup'
<1>5. /\ CupsView(lay, c) \in CupsViews
      /\ \A i \in 0..(Icons - 1) : CupsView(lay, c).buttons[i] \in 0..(Count(lay) - 1)
      /\ left >= -Count(lay) => Row(CupsView(lay, c).buttons, Count(lay))
  BY <1>1, <1>2, CupsDrawn
<1>6. ~far' => left >= -Count(layout')
  <2> SUFFICES ASSUME ~far' PROVE left >= -Count(layout')
    OBVIOUS
  <2>1. ~(left < -Count(layout'))
    OBVIOUS
  <2> DEFINE n == Count(layout')
             l == left
  <2>2. n \in Int /\ l \in Int /\ ~(l < -n)
    BY <1>1, <1>3, <2>1
  <2> HIDE DEF n, l
  <2>3. l >= -n
    BY <2>2
  <2> QED
    BY <2>3 DEF n, l
<1> QED
  BY <1>4, <1>5, <1>6, ToCups

\* The cups page opens: its icons are a row that begins with the leftmost cup.
LEMMA OpenCupsKeeps ==
  ASSUME CupInv, OpenCups
  PROVE  CupInv'
<1>1. mode' = mode /\ settings' = settings /\ cup' = cup /\ UNCHANGED <<left, winning, order>>
  BY DEF OpenCups
<1>2. (layout = ActivatedLayout(settings.sorting))'
  BY <1>1 DEF OpenCups, ActivatedLayout, GetTrackList
<1>3. view' = CupsView(layout', cup') /\ far' = (left < -Count(layout'))
  BY <1>1 DEF OpenCups
<1>4. cup' \in Nat /\ settings' \in [list : Lists, variants : BOOLEAN, sorting : {0, 1}]
  BY <1>1 DEF CupInv, TypeOK
<1> QED
  BY <1>1, <1>2, <1>3, <1>4, CupsSetUp

\* The other sorting holds the same slots, and its page is opened again.
LEMMA SwitchKeeps ==
  ASSUME CupInv, OnSwitchPress
  PROVE  CupInv'
<1>1. /\ mode' = mode /\ settings' = [settings EXCEPT !.sorting = 1 - @] /\ cup' = view.cur
      /\ UNCHANGED <<left, winning, order>>
      /\ view' = CupsView(layout', cup') /\ far' = (left < -Count(layout'))
  BY DEF OnSwitchPress
<1>2. settings' \in [list : Lists, variants : BOOLEAN, sorting : {0, 1}]
  <2>1. 1 - settings.sorting \in {0, 1}
    BY DEF CupInv, TypeOK
  <2> QED
    BY <1>1, <2>1 DEF CupInv, TypeOK
<1>3. (layout = ActivatedLayout(settings.sorting))'
  BY <1>1, <1>2 DEF OnSwitchPress, ActivatedLayout, GetTrackList
<1>4. cup' \in Nat
  <2>1. view \in CupsViews
    BY PageFields DEF CupInv, TypeOK, OnSwitchPress
  <2> QED
    BY <1>1, <2>1 DEF CupsViews
<1> QED
  BY <1>1, <1>2, <1>3, <1>4, CupsSetUp

\* The cursor goes to another cup; the icons stay.
LEMMA PointKeeps ==
  ASSUME CupInv, NEW i \in 0..(Icons - 1), Point(i)
  PROVE  CupInv'
<1>1. Kept /\ UNCHANGED <<winning, order>> /\ view' = [view EXCEPT !.cur = view.buttons[i]]
  BY DEF Point, Kept
<1>2. view \in CupsViews /\ view.page = "cups"
  BY PageFields DEF CupInv, TypeOK, Point
<1>3. view' \in CupsViews /\ view'.buttons = view.buttons
  BY <1>1, <1>2 DEF CupsViews
<1>4. (layout = ActivatedLayout(settings.sorting))'
  BY <1>1, <1>2 DEF CupInv, CupsOnPage, Kept, ActivatedLayout, GetTrackList
<1>5. /\ \A k \in 0..(Icons - 1) : view'.buttons[k] \in 0..(Count(layout') - 1)
      /\ ~far' => Row(view'.buttons, Count(layout'))
  BY <1>1, <1>2, <1>3 DEF CupInv, CupsOnPage, Kept
<1> QED
  BY <1>1, <1>3, <1>4, <1>5, TypedKept, ToCups DEF CupInv

\* Every icon is moved by as much, so that they still count up.
LEMMA MovedRow ==
  ASSUME NEW n \in Nat \ {0}, NEW d \in Int, NEW old \in [0..(Icons - 1) -> Nat], Row(old, n)
  PROVE  Row([i \in 0..(Icons - 1) |-> (old[i] + d) % n], n)
<1> DEFINE new == [i \in 0..(Icons - 1) |-> (old[i] + d) % n]
<1>1. ASSUME NEW i \in 0..(Icons - 1)
      PROVE  (old[i] + d) % n = (IconOffset(i) + ((old[0] + d) % n)) % n
  <2> DEFINE o == IconOffset(i)
             b == old[0]
             x == old[i]
  <2>1. o \in Int /\ b \in Int
    BY IconPlaces
  <2>2. x = (o + b) % n
    BY <1>1 DEF Row
  <2> HIDE DEF o, b, x
  <2> DEFINE e == o + b
             h == b + d
  <2>3. e \in Int /\ h \in Int /\ e + d = h + o
    BY <2>1
  <2> HIDE DEF e, h
  <2>4. (x + d) % n = (e + d) % n
    BY <2>2, <2>3, ModOfSum DEF e
  <2>5. ((h % n) + o) % n = (h + o) % n
    BY <2>1, <2>3, ModOfSum
  <2>6. h % n \in Int
    BY <2>3
  <2>7. (h % n) + o = o + (h % n)
    BY <2>1, <2>6
  <2> QED
    BY <2>3, <2>4, <2>5, <2>7 DEF h, o, b, x
<1>2. 0 \in 0..(Icons - 1)
  BY IconPlaces
<1>3. \A i \in 0..(Icons - 1) : new[i] = (old[i] + d) % n
  OBVIOUS
<1>4. new[0] = (old[0] + d) % n
  BY <1>2, <1>3
<1> HIDE DEF new
<1>5. \A i \in 0..(Icons - 1) : new[i] = (IconOffset(i) + new[0]) % n
  BY <1>1, <1>3, <1>4
<1> QED
  BY <1>5 DEF Row, new

\* Scrolling moves every icon by two cups, and the row stays one.
LEMMA ScrollKeeps ==
  ASSUME CupInv, NEW direction \in {1, -1}, ScrollCups(direction)
  PROVE  CupInv'
<1> DEFINE n == Count(layout)
           d == 2 * direction + n
           old == view.buttons
           new == [i \in 0..(Icons - 1) |-> (old[i] + d) % n]
<1>1. view \in CupsViews /\ view.page = "cups" /\ n \in Nat \ {0}
  BY PageFields, LayoutFacts DEF CupInv, TypeOK, ScrollCups
<1>2. old \in [0..(Icons - 1) -> Nat] /\ view.cur \in Nat
  BY <1>1 DEF CupsViews
<1>3. /\ Kept /\ UNCHANGED <<winning, order>>
      /\ view' = [view EXCEPT !.cur = (view.cur + 2 * direction + n) % n,
                              !.buttons = [i \in DOMAIN old |-> (old[i] + 2 * direction + n) % n]]
  BY DEF ScrollCups, Kept
<1>4. d \in Int
  BY <1>1
<1>5. \A x \in Nat : x + 2 * direction + n = x + d
  BY <1>1
<1>6. ~far => Row(old, n)
  BY <1>1 DEF CupInv, CupsOnPage
<1>7. ~far => Row(new, n)
  BY <1>1, <1>2, <1>4, <1>6, MovedRow
<1>8. [i \in DOMAIN old |-> (old[i] + 2 * direction + n) % n] = new
  BY <1>2, <1>5
<1> HIDE DEF d
<1>9. new \in [0..(Icons - 1) -> 0..(n - 1)]
  <2>1. ASSUME NEW i \in 0..(Icons - 1) PROVE (old[i] + d) % n \in 0..(n - 1)
    <3>1. old[i] \in Nat
      BY <1>2
    <3>2. old[i] + d \in Int
      BY <1>4, <3>1
    <3> QED
      BY <1>1, <3>2, ModFacts
  <2> QED
    BY <2>1
<1>10. (view.cur + 2 * direction + n) % n \in Nat
  <2>1. view.cur + 2 * direction + n \in Int
    BY <1>1, <1>2
  <2> QED
    BY <1>1, <2>1
<1> HIDE DEF new, old, n
<1>11. view' \in CupsViews /\ view'.buttons = new
  <2>1. new \in [0..(Icons - 1) -> Nat]
    BY <1>1, <1>9
  <2> QED
    BY <1>1, <1>3, <1>8, <1>10, <2>1 DEF CupsViews, old
<1>12. (layout = ActivatedLayout(settings.sorting))'
  BY <1>1, <1>3 DEF CupInv, CupsOnPage, Kept, ActivatedLayout, GetTrackList
<1>13. Count(layout') = n /\ far' = far
  BY <1>3 DEF Kept, n
<1>14. \A i \in 0..(Icons - 1) : view'.buttons[i] \in 0..(Count(layout') - 1)
  BY <1>9, <1>11, <1>13
<1>15. ~far' => Row(view'.buttons, Count(layout'))
  BY <1>7, <1>11, <1>13
<1> QED
  BY <1>3, <1>11, <1>12, <1>14, <1>15, TypedKept, ToCups DEF CupInv

\* The chosen icon is on the page that counts from the first one.
LEMMA ChosenAligned ==
  ASSUME NEW n \in Nat \ {0}, NEW buttons, NEW i \in 0..(Icons - 1), Row(buttons, n),
         buttons[0] \in 0..(n - 1), buttons[i] \in 0..(n - 1)
  PROVE  Aligned(buttons[i], buttons[0], n)
<1> DEFINE o == IconOffset(i)
           b == buttons[0]
           x == buttons[i]
<1>1. o \in 0..(Icons - 1) /\ o \in Nat /\ b \in 0..(n - 1) /\ x \in 0..(n - 1)
  BY IconPlaces
<1>2. x = (o + b) % n
  BY DEF Row
<1>3. Icons \in Nat
  BY IconPlaces
<1> HIDE DEF o, b, x
<1> DEFINE e == o + b
           f == -b
<1>4. e \in Int /\ f \in Int /\ e + f = o /\ x + f = x - b
  BY <1>1
<1> HIDE DEF e, f
<1>5. (x + f) % n = (e + f) % n
  BY <1>2, <1>4, ModOfSum DEF e
<1>6. o % n <= o
  <2>1. CASE o < n
    <3>1. o \in 0..(n - 1)
      BY <1>1, <2>1
    <3>2. o % n = o
      BY <3>1, ModSmall
    <3> QED
      BY <1>1, <3>2
  <2>2. CASE o >= n
    <3>1. o % n \in 0..(n - 1)
      BY <1>1, ModFacts
    <3> QED
      BY <1>1, <2>2, <3>1
  <2> QED
    BY <1>1, <2>1, <2>2
<1>7. (x - b) % n < Icons
  <2>1. (x - b) % n = o % n
    BY <1>4, <1>5
  <2>2. o % n \in Int
    BY <1>1
  <2> QED
    BY <1>1, <1>3, <1>6, <2>1, <2>2
<1>8. b >= -n /\ b <= x + n
  BY <1>1
<1> QED
  BY <1>7, <1>8 DEF Aligned, x, b

-----------------------------------------------------------------------------
(* From a cup to its courses.                                               *)

\* A drawn row of courses for a cup.
LEMMA CupDrawn ==
  ASSUME NEW lay \in DOMAIN Slots, NEW c \in 0..(Count(lay) - 1),
         NEW f \in Draws(CoursesOfCup(lay, c))
  PROVE  /\ DOMAIN f = 1..CupSize /\ Len(f) = CupSize /\ f \in Seq(Courses \union {NoTrack})
         /\ \A i \in 1..CupSize : f[i] \in Courses /\ f[i] \in Expand(CoursesOfCup(lay, c)[i])
<1>1. CupSize \in Nat
  BY LayoutAssumption
<1>2. CoursesOfCup(lay, c) \in [1..CupSize -> Courses \union Groups]
  BY CupSlots
<1> DEFINE slots == CoursesOfCup(lay, c)
<1> HIDE DEF slots
<1>3. slots \in [1..CupSize -> Courses \union Groups] /\ f \in Draws(slots)
  BY <1>2 DEF slots
<1>4. /\ DOMAIN f = 1..CupSize /\ Len(f) = CupSize /\ f \in Seq(Courses \union {NoTrack})
      /\ \A i \in 1..CupSize : f[i] \in Courses /\ f[i] \in Expand(slots[i])
  BY <1>1, <1>3, Drawn
<1> QED
  BY <1>4 DEF slots

\* A cup is selected: the course page marks the icon that showed it.
LEMMA SelectKeeps ==
  ASSUME CupInv, NEW i \in 0..(Icons - 1), UpdateSelection(i)
  PROVE  CupInv'
<1> DEFINE n == Count(layout)
           buttons == view.buttons
<1>1. /\ view \in CupsViews /\ view.page = "cups" /\ n \in Nat \ {0} /\ n <= MaxLeft
      /\ layout \in DOMAIN Slots /\ 0 \in 0..(Icons - 1)
  BY PageFields, LayoutFacts, IconPlaces DEF CupInv, TypeOK, UpdateSelection
<1>2. /\ layout = ActivatedLayout(settings.sorting)
      /\ \A k \in 0..(Icons - 1) : buttons[k] \in 0..(n - 1)
      /\ ~far => Row(buttons, n)
  BY <1>1 DEF CupInv, CupsOnPage
<1>3. /\ cup' = buttons[i] /\ left' = buttons[0]
      /\ UNCHANGED <<mode, settings, layout, far>>
  BY DEF UpdateSelection
<1>4. cup' \in 0..(n - 1) /\ left' \in 0..(n - 1) /\ n' = n
  BY <1>1, <1>2, <1>3
<1>5. ~far' => Aligned(cup', left', n)
  BY <1>1, <1>2, <1>3, ChosenAligned
<1>6. (layout = ActivatedLayout(settings.sorting))'
  BY <1>2, <1>3 DEF ActivatedLayout, GetTrackList
<1>7. Typed'
  <2>1. MaxLeft \in Nat
    BY LayoutAssumption
  <2>2. cup' \in Nat /\ left' \in (-MaxLeft)..MaxLeft
    BY <1>1, <1>4, <2>1
  <2> QED
    BY <1>3, <2>2 DEF CupInv, TypeOK, Typed
<1>8. CASE mode = "gp"
  <2> DEFINE c == cup'
             f == order'
  <2>1. /\ f \in Draws(CoursesOfCup(layout, c)) /\ winning' = f[1]
        /\ view' = [page |-> "race", by |-> "gp", number |-> 1]
    BY <1>8 DEF UpdateSelection
  <2>2. /\ DOMAIN f = 1..CupSize /\ Len(f) = CupSize /\ f \in Seq(Courses \union {NoTrack})
        /\ \A k \in 1..CupSize : f[k] \in Courses /\ f[k] \in Expand(CoursesOfCup(layout, c)[k])
    <3>1. c \in 0..(Count(layout) - 1)
      BY <1>4
    <3> HIDE DEF c, f
    <3> QED
      BY <1>1, <2>1, <3>1, CupDrawn
  <2>3. 1 \in 1..CupSize
    BY LayoutAssumption
  <2>4. winning' \in Courses /\ view' \in RaceViews
    BY <2>1, <2>2, <2>3 DEF RaceViews
  <2>5. layout' = Front(0) /\ mode' = "gp"
    BY <1>2, <1>3, <1>8 DEF ActivatedLayout, Front
  <2>6. CupIsRaced'
    BY <1>3, <1>4, <2>1, <2>3, <2>5 DEF CupIsRaced
  <2>7. ChoiceOnList' /\ RandomOnLayout'
    BY <2>1 DEF ChoiceOnList, RandomOnLayout
  <2>8. view'.page = "race" /\ view' \in Views
    BY <2>1, <2>4 DEF Views
  <2>9. TypeOK'
    BY <1>7, <2>2, <2>4, <2>8 DEF TypeOK, Typed
  <2> QED
    BY <2>6, <2>7, <2>8, <2>9 DEF CupInv, CupsOnPage, CupIsChosen, IconMarked, GroupOnLayout
<1>9. CASE mode # "gp"
  <2> DEFINE c == cup'
             l == left'
  <2>1. view' = CoursesView(layout, c, l) /\ UNCHANGED <<order, winning>>
    BY <1>9 DEF UpdateSelection
  <2>2. c \in 0..(Count(layout) - 1) /\ l \in Int
    BY <1>1, <1>4
  <2>3. /\ view' \in CoursesViews /\ view'.listed = CoursesOfCup(layout, c)
        /\ Aligned(c, l, n) => /\ view'.mark = IconFor((c - l) % n)
                               /\ view'.icon = c
    <3> HIDE DEF c, l
    <3> QED
      BY <1>1, <2>1, <2>2, CoursesDrawn
  <2>4. mode' # "gp" /\ layout' = layout
    BY <1>3, <1>9
  <2> QED
    BY <1>4, <1>5, <1>6, <1>7, <2>1, <2>3, <2>4, ToCourses
<1> QED
  BY <1>8, <1>9

\* Sliding moves the cup and the first icon by as much.
LEMMA SlideKeeps ==
  ASSUME CupInv, NEW offset \in {1, -1}, SlideCup(offset)
  PROVE  CupInv'
<1> DEFINE n == Count(layout)
           new == [view EXCEPT !.icon = CupOfIcon(view.mark, left + offset, n),
                               !.listed = CoursesOfCup(layout, cup')]
<1>1. /\ view \in CoursesViews /\ view.page = "courses" /\ n \in Nat \ {0}
      /\ layout \in DOMAIN Slots /\ left \in Int /\ left + offset \in (-MaxLeft)..MaxLeft
  <2>1. MaxLeft \in Nat
    BY LayoutAssumption
  <2> QED
    BY <2>1, PageFields, LayoutFacts DEF CupInv, TypeOK, SlideCup
<1>2. /\ mode # "gp" /\ layout = ActivatedLayout(settings.sorting)
      /\ cup \in 0..(n - 1) /\ (~far => Aligned(cup, left, n))
      /\ (~far => view.mark = IconFor((cup - left) % n))
  BY <1>1 DEF CupInv, CupIsChosen, IconMarked
<1>3. /\ cup' = (cup + offset + n) % n /\ left' = left + offset
      /\ far' = (far \/ left' < -n \/ left' > cup' + n)
      /\ view' = new
      /\ UNCHANGED <<mode, settings, layout, winning, order>>
  BY DEF SlideCup
<1>4. cup' \in 0..(n - 1) /\ left' \in Int
  <2>1. cup + offset + n \in Int
    BY <1>1, <1>2
  <2> QED
    BY <1>1, <1>3, <2>1, ModFacts
<1>5. (cup' - left') % n = (cup - left) % n
  <2> DEFINE moved == cup + offset + n
             back == -(left + offset)
             c == cup
             l == left
             d == c - l
  <2>1. moved \in Int /\ back \in Int /\ d \in Int /\ moved + back = d + n
    BY <1>1, <1>2
  <2>2. cup' = moved % n /\ cup' - left' = cup' + back
    BY <1>1, <1>3, <1>4
  <2> HIDE DEF moved, back, d
  <2>3. ((moved % n) + back) % n = (moved + back) % n
    BY <1>1, <2>1, ModOfSum
  <2>4. (d + n) % n = d % n
    BY <1>1, <2>1, ModOfTurn
  <2> QED
    BY <2>1, <2>2, <2>3, <2>4 DEF d, c, l
<1>6. ~far' => ~far /\ left' >= -n /\ left' <= cup' + n
  <2> SUFFICES ASSUME ~far' PROVE ~far /\ left' >= -n /\ left' <= cup' + n
    OBVIOUS
  <2>1. ~far /\ ~(left' < -n) /\ ~(left' > cup' + n)
    BY <1>3
  <2> DEFINE l == left'
             c == cup'
  <2>2. l \in Int /\ c \in Int /\ ~(l < -n) /\ ~(l > c + n)
    BY <1>4, <2>1
  <2> HIDE DEF l, c, n
  <2>3. n \in Nat
    BY <1>1
  <2>4. l >= -n /\ l <= c + n
    BY <2>2, <2>3
  <2> QED
    BY <2>1, <2>4 DEF l, c
<1> DEFINE c == cup'
           l == left'
<1>7. ~far' => Aligned(c, l, n)
  BY <1>2, <1>5, <1>6 DEF Aligned
<1>8. c \in 0..(Count(layout) - 1) /\ l \in Int
  BY <1>4
<1>9. CoursesOfCup(layout, c) \in [1..CupSize -> Courses \union Groups]
  <2> HIDE DEF c
  <2> QED
    BY <1>1, <1>8, CupSlots
<1>10. CupOfIcon(view.mark, l, n) \in Nat
  <2>1. view.mark \in Nat
    BY <1>1 DEF CoursesViews
  <2> HIDE DEF l
  <2>2. CupOfIcon(view.mark, l, n) \in 0..(n - 1)
    BY <1>1, <1>8, <2>1, IconCup
  <2> QED
    BY <1>1, <2>2
<1>11. /\ view' \in CoursesViews /\ view'.mark = view.mark
       /\ view'.icon = CupOfIcon(view.mark, l, n) /\ view'.listed = CoursesOfCup(layout, c)
  BY <1>1, <1>3, <1>9, <1>10 DEF CoursesViews
<1>12. ~far' => /\ view'.mark = IconFor((c - l) % n)
                /\ view'.icon = c
  <2> SUFFICES ASSUME ~far' PROVE view'.mark = IconFor((c - l) % n) /\ view'.icon = c
    OBVIOUS
  <2>1. view.mark = IconFor((c - l) % n) /\ Aligned(c, l, n)
    BY <1>2, <1>5, <1>6, <1>7
  <2> HIDE DEF c, l, n
  <2>2. CupOfIcon(IconFor((c - l) % n), l, n) = c
    BY <1>1, <1>8, <2>1, IconOfCup DEF n
  <2> QED
    BY <1>11, <2>1, <2>2
<1>13. (layout = ActivatedLayout(settings.sorting))' /\ mode' # "gp" /\ layout' = layout
  BY <1>2, <1>3 DEF ActivatedLayout, GetTrackList
<1>14. Typed'
  <2>1. cup' \in Nat /\ far' \in BOOLEAN
    BY <1>1, <1>3, <1>4
  <2> QED
    BY <1>1, <1>3, <2>1 DEF CupInv, TypeOK, Typed
<1> QED
  BY <1>3, <1>4, <1>7, <1>11, <1>12, <1>13, <1>14, ToCourses

-----------------------------------------------------------------------------
(* From the courses and the variants to the race.                           *)

\* A course is taken that a slot of the layout stands for.
LEMMA TakeKeeps ==
  ASSUME CupInv, view.page \in {"courses", "variants"}, NEW id, NEW b \in 1..CupSize,
         NEW s \in OnLayout(layout), Expand(id) \subseteq Expand(s) \intersect Courses,
         Take(id, b)
  PROVE  CupInv'
<1> DEFINE front == Front(GetTrackList)
<1>1. /\ layout \in DOMAIN Slots /\ layout.list = GetTrackList /\ mode # "gp"
      /\ cup \in Nat
  <2>1. settings.sorting \in {0, 1}
    BY DEF CupInv, TypeOK
  <2>2. ActivatedLayout(settings.sorting).list = GetTrackList
    BY <2>1, Activated DEF CupInv, TypeOK
  <2> QED
    BY <2>2 DEF CupInv, TypeOK, CupIsChosen
<1>2. Kept /\ winning' \in Expand(id)
  BY DEF Take, Kept
<1>3. \A slot \in OnLayout(layout) : \A t \in Expand(slot) : Reaches(t, front)
  BY <1>1, SlotReached
<1>4. winning' \in Courses /\ Reaches(winning', front)
  BY <1>2, <1>3
<1>5. front' = front
  BY <1>2 DEF Kept, Front, GetTrackList
<1> HIDE DEF front
<1>6. CASE view' = [page |-> "race", by |-> "choice", number |-> 1] /\ UNCHANGED order
  <2>1. view' \in RaceViews /\ view'.by = "choice"
    BY <1>6 DEF RaceViews
  <2>2. RaceInv'
    BY <1>4, <1>5, <2>1 DEF RaceInv, ChoiceOnList, RandomOnLayout, CupIsRaced, front
  <2>3. order' \in Seq(Courses \union {NoTrack})
    BY <1>6 DEF CupInv, TypeOK
  <2> QED
    BY <1>2, <1>4, <2>1, <2>2, <2>3, ToRace
<1>7. CASE /\ view' = [page |-> "race", by |-> "order", number |-> 1]
           /\ order' \in Draws(Following(b))
  <2> DEFINE slots == Following(b)
             f == order'
  <2>1. view' \in RaceViews /\ view'.by = "order"
    BY <1>7 DEF RaceViews
  <2>2. /\ slots \in [1..RaceLimit -> Courses \union Groups]
        /\ \A k \in 1..RaceLimit : slots[k] \in OnLayout(layout)
    BY <1>1, FollowingSlots
  <2>3. f \in Draws(slots) /\ RaceLimit \in Nat
    BY <1>7, LayoutAssumption
  <2> HIDE DEF slots, f
  <2>4. /\ DOMAIN f = 1..RaceLimit /\ f \in Seq(Courses \union {NoTrack})
        /\ \A k \in 1..RaceLimit : f[k] \in Expand(slots[k])
    BY <2>2, <2>3, Drawn
  <2>5. \A k \in DOMAIN f : Reaches(f[k], front)
    BY <1>3, <2>2, <2>4
  <2>6. RaceInv'
    BY <1>4, <1>5, <2>1, <2>5 DEF RaceInv, ChoiceOnList, RandomOnLayout, CupIsRaced, f, front
  <2> QED
    BY <1>2, <1>4, <2>1, <2>4, <2>6, ToRace DEF f
<1> QED
  BY <1>6, <1>7 DEF Take

\* What is on the cup's page is on the layout.
LEMMA ListedOnLayout ==
  ASSUME CupInv, view.page = "courses"
  PROVE  /\ DOMAIN view.listed = 1..CupSize
         /\ \A b \in 1..CupSize :
              view.listed[b] \in OnLayout(layout) \intersect (Courses \union Groups)
<1>1. view.listed = CoursesOfCup(layout, cup) /\ cup \in 0..(Count(layout) - 1)
  BY DEF CupInv, IconMarked, CupIsChosen
<1>2. layout \in DOMAIN Slots
  BY DEF CupInv, TypeOK
<1>3. /\ CoursesOfCup(layout, cup) \in [1..CupSize -> Courses \union Groups]
      /\ \A i \in 1..CupSize :
           CoursesOfCup(layout, cup)[i] \in OnLayout(layout) \intersect (Courses \union Groups)
  BY <1>1, <1>2, CupSlots
<1> QED
  BY <1>1, <1>3

\* A course of the page is raced.
LEMMA ChooseCourseKeeps ==
  ASSUME CupInv, NEW b \in 1..CupSize, ChooseCourse(b)
  PROVE  CupInv'
<1> DEFINE id == view.listed[b]
<1>1. view.page = "courses" /\ Take(id, b)
  BY DEF ChooseCourse
<1>2. id \in OnLayout(layout) /\ id \in Courses \union Groups
  BY <1>1, ListedOnLayout
<1> HIDE DEF id
<1>3. Expand(id) \subseteq Expand(id) \intersect Courses
  BY <1>2, Expansion
<1> QED
  BY <1>1, <1>2, <1>3, TakeKeeps

\* A group of the page opens its variants.
LEMMA ChooseGroupKeeps ==
  ASSUME CupInv, NEW b \in 1..CupSize, ChooseGroup(b)
  PROVE  CupInv'
<1>1. /\ view.page = "courses" /\ Kept /\ UNCHANGED <<winning, order>>
      /\ view' = [page |-> "variants", group |-> view.listed[b], sub |-> 0]
      /\ view.listed[b] \in Groups
  BY DEF ChooseGroup, Kept
<1>2. view.listed[b] \in OnLayout(layout)
  BY <1>1, ListedOnLayout
<1>3. view' \in VariantsViews /\ view'.group \in OnLayout(layout)
  BY <1>1, <1>2 DEF VariantsViews
<1> QED
  BY <1>1, <1>3, ToVariants

\* The next page of a group is of the same group.
LEMMA TurnKeeps ==
  ASSUME CupInv, NEW step \in {1, -1}, TurnSubPage(step)
  PROVE  CupInv'
<1>1. /\ view \in VariantsViews /\ view.page = "variants" /\ Kept /\ UNCHANGED <<winning, order>>
      /\ view' = [view EXCEPT !.sub = view.sub + step]
      /\ view.sub + step \in 0..(SubPageCount(view.group, HasRandom) - 1)
  BY PageFields DEF CupInv, TypeOK, TurnSubPage, Kept
<1>2. view.group \in OnLayout(layout)
  BY <1>1 DEF CupInv, GroupOnLayout
<1>3. view.sub + step \in Nat
  <2> DEFINE x == view.sub + step
             m == SubPageCount(view.group, HasRandom) - 1
  <2>1. x \in 0..m
    BY <1>1
  <2> HIDE DEF x, m
  <2>2. x \in Nat
    BY <2>1
  <2> QED
    BY <2>2 DEF x
<1>4. view' \in VariantsViews /\ view'.group = view.group
  BY <1>1, <1>3 DEF VariantsViews
<1> QED
  BY <1>1, <1>2, <1>4, ToVariants

\* A variant is raced, or any of its group.
LEMMA ChooseVariantKeeps ==
  ASSUME CupInv, NEW b \in 1..CupSize, ChooseVariant(b)
  PROVE  CupInv'
<1> DEFINE g == view.group
           ids == VariantButtons(g, HasRandom, view.sub)
           id == ids[b]
<1>1. view.page = "variants" /\ view \in VariantsViews /\ b \in DOMAIN ids /\ Take(id, b)
  BY PageFields DEF CupInv, TypeOK, ChooseVariant
<1>2. g \in Groups /\ g \in OnLayout(layout) /\ view.sub \in Nat /\ HasRandom \in {0, 1}
  BY <1>1 DEF CupInv, GroupOnLayout, VariantsViews, HasRandom
<1> HIDE DEF g
<1>3. id \in Courses \union Groups /\ Expand(id) \subseteq Expand(g)
  BY <1>1, <1>2, ButtonsOfGroup
<1> HIDE DEF id
<1>4. Expand(id) \subseteq Expand(g) \intersect Courses
  BY <1>3, Expansion
<1> QED
  BY <1>1, <1>2, <1>4, TakeKeeps

\* Back from the courses or the variants.
LEMMA BackKeeps ==
  ASSUME CupInv, BackToCourses
  PROVE  CupInv'
<1>1. /\ view.page = "variants" /\ view' = CoursesView(layout, cup, left)
      /\ Kept /\ UNCHANGED <<winning, order>>
  BY DEF BackToCourses, Kept
<1>2. /\ layout \in DOMAIN Slots /\ cup \in 0..(Count(layout) - 1) /\ left \in Int
      /\ mode # "gp" /\ layout = ActivatedLayout(settings.sorting)
      /\ (~far => Aligned(cup, left, Count(layout)))
  <2>1. MaxLeft \in Nat
    BY LayoutAssumption
  <2> QED
    BY <1>1, <2>1 DEF CupInv, TypeOK, CupIsChosen
<1>3. /\ view' \in CoursesViews /\ view'.listed = CoursesOfCup(layout, cup)
      /\ ~far => /\ view'.mark = IconFor((cup - left) % Count(layout))
                 /\ view'.icon = cup
  BY <1>1, <1>2, CoursesDrawn
<1>4. (layout = ActivatedLayout(settings.sorting))'
  BY <1>1, <1>2 DEF Kept, ActivatedLayout, GetTrackList
<1>5. /\ mode' = mode /\ layout' = layout /\ cup' = cup /\ left' = left /\ far' = far
  BY <1>1 DEF Kept
<1> QED
  BY <1>1, <1>2, <1>3, <1>4, <1>5, TypedKept, ToCourses DEF CupInv

\* A random VS draws slots of the layout there is.
LEMMA RandomKeeps ==
  ASSUME CupInv, VSRaceRandomFix
  PROVE  CupInv'
<1>1. /\ Kept /\ view' = [page |-> "race", by |-> "random", number |-> 1]
      /\ winning' = order'[1] /\ layout \in DOMAIN Slots
  BY DEF VSRaceRandomFix, Kept, CupInv, TypeOK
<1>2. Slots[layout] \in Seq(Courses \union Groups) /\ RaceLimit \in Nat \ {0}
  BY <1>1, LayoutFacts, LayoutAssumption
<1>3. PICK drawn \in [1..RaceLimit -> DOMAIN Slots[layout]] :
        order' = [i \in 1..RaceLimit |->
                    IF Slots[layout][drawn[i]] \in Groups THEN NoTrack
                    ELSE Slots[layout][drawn[i]]]
  BY DEF VSRaceRandomFix
<1>4. ASSUME NEW i \in 1..RaceLimit
      PROVE  order'[i] \in Courses \union {NoTrack} /\ OnLayoutOrNone(order'[i])
  <2> DEFINE slot == Slots[layout][drawn[i]]
  <2>1. drawn[i] \in DOMAIN Slots[layout]
    OBVIOUS
  <2>2. slot \in Courses \union Groups
    BY <1>2, <2>1
  <2>3. slot \in OnLayout(layout)
    BY <2>1 DEF OnLayout
  <2>4. order'[i] = IF slot \in Groups THEN NoTrack ELSE slot
    BY <1>3
  <2> HIDE DEF slot
  <2>5. CASE slot \in Groups
    BY <2>4, <2>5 DEF OnLayoutOrNone
  <2>6. CASE slot \notin Groups
    <3>1. slot \in Courses /\ order'[i] = slot
      BY <2>2, <2>4, <2>6
    <3>2. slot \in Expand(slot)
      BY <3>1, Expansion
    <3>3. Reaches(slot, Front(layout.list))
      BY <1>1, <2>3, <3>2, SlotReached
    <3> QED
      BY <3>1, <3>3 DEF OnLayoutOrNone
  <2> QED
    BY <2>5, <2>6
<1> DEFINE f == order'
<1>5. f = [i \in 1..RaceLimit |-> f[i]] /\ DOMAIN f = 1..RaceLimit
  BY <1>3
<1>6. \A i \in 1..RaceLimit : f[i] \in Courses \union {NoTrack} /\ OnLayoutOrNone(f[i])
  BY <1>4
<1> HIDE DEF f
<1>7. f \in [1..RaceLimit -> Courses \union {NoTrack}]
  BY <1>5, <1>6
<1>8. f \in Seq(Courses \union {NoTrack})
  BY <1>2, <1>7, RowIsSeq
<1>9. winning' \in Courses \union {NoTrack} /\ OnLayoutOrNone(winning')
  <2>1. 1 \in 1..RaceLimit
    BY <1>2
  <2> QED
    BY <1>1, <1>6, <2>1 DEF f
<1>10. view' \in RaceViews /\ view'.by = "random"
  BY <1>1 DEF RaceViews
<1>11. RandomOnLayout'
  BY <1>1, <1>5, <1>6, <1>9 DEF RandomOnLayout, OnLayoutOrNone, Kept, f
<1>12. RaceInv'
  BY <1>10, <1>11 DEF RaceInv, ChoiceOnList, CupIsRaced
<1> QED
  BY <1>1, <1>8, <1>9, <1>10, <1>12, ToRace DEF f

\* The next race is the next of the order.
LEMMA NextTrackKeeps ==
  ASSUME CupInv, NextTrack
  PROVE  CupInv'
<1> DEFINE k == view.number + 1
<1>1. /\ view \in RaceViews /\ view.page = "race" /\ view.by # "choice"
      /\ Kept /\ order' = order /\ order \in Seq(Courses \union {NoTrack})
      /\ view' = [view EXCEPT !.number = view.number + 1]
      /\ winning' = order[k] /\ view.number < Len(order)
  BY PageFields DEF CupInv, TypeOK, NextTrack, Kept
<1>2. k \in DOMAIN order /\ k \in Nat \ {0}
  BY <1>1 DEF RaceViews
<1>3. /\ view' \in RaceViews /\ view'.by = view.by /\ view'.number = k
  BY <1>1, <1>2 DEF RaceViews
<1>4. winning' \in Courses \union {NoTrack}
  BY <1>1, <1>2
<1> HIDE DEF k
<1>5. GetTrackList' = GetTrackList
  BY <1>1 DEF Kept, GetTrackList
<1>6. ChoiceOnList'
  BY <1>1, <1>2, <1>3, <1>5 DEF CupInv, ChoiceOnList
<1>7. RandomOnLayout'
  BY <1>1, <1>2, <1>3 DEF CupInv, RandomOnLayout, OnLayoutOrNone, Kept
<1>8. CupIsRaced'
  <2> SUFFICES ASSUME view'.by = "gp" PROVE CupIsRaced'
    BY DEF CupIsRaced
  <2>1. /\ mode = "gp" /\ layout = Front(0) /\ cup \in 0..(Count(layout) - 1)
        /\ order \in Draws(CoursesOfCup(layout, cup))
    BY <1>1, <1>3 DEF CupInv, CupIsRaced
  <2>2. layout \in DOMAIN Slots
    BY DEF CupInv, TypeOK
  <2>3. DOMAIN order = 1..CupSize
    BY <2>1, <2>2, CupDrawn
  <2>4. mode' = mode /\ layout' = layout /\ cup' = cup
    BY <1>1 DEF Kept
  <2> QED
    BY <1>1, <1>2, <1>3, <2>1, <2>3, <2>4 DEF CupIsRaced
<1> QED
  BY <1>1, <1>3, <1>4, <1>6, <1>7, <1>8, ToRace DEF RaceInv

-----------------------------------------------------------------------------
\* Every step keeps the invariant.
LEMMA CupStep ==
  ASSUME CupInv, [Next]_vars
  PROVE  CupInv'
<1>1. CASE Choose
  BY <1>1, ChooseKeeps
<1>2. CASE OpenCups
  BY <1>2, OpenCupsKeeps
<1>3. CASE OnSwitchPress
  BY <1>3, SwitchKeeps
<1>4. CASE BackToCourses
  BY <1>4, BackKeeps
<1>5. CASE VSRaceRandomFix
  BY <1>5, RandomKeeps
<1>6. CASE NextTrack
  BY <1>6, NextTrackKeeps
<1>7. CASE Leave
  BY <1>7, LeaveKeeps
<1>8. ASSUME NEW i \in 0..(Icons - 1), Point(i) \/ UpdateSelection(i) PROVE CupInv'
  BY <1>8, PointKeeps, SelectKeeps
<1>9. ASSUME NEW direction \in {1, -1},
             ScrollCups(direction) \/ SlideCup(direction) \/ TurnSubPage(direction)
      PROVE  CupInv'
  BY <1>9, ScrollKeeps, SlideKeeps, TurnKeeps
<1>10. ASSUME NEW b \in 1..CupSize, ChooseCourse(b) \/ ChooseGroup(b) \/ ChooseVariant(b)
       PROVE  CupInv'
  BY <1>10, ChooseCourseKeeps, ChooseGroupKeeps, ChooseVariantKeeps
<1>11. CASE UNCHANGED vars
  <2>1. UNCHANGED <<mode, settings, layout, cup, left, view, winning, order, far>>
    BY <1>11 DEF vars
  <2> QED
    BY <2>1 DEF CupInv, TypeOK, CupsOnPage, CupIsChosen, IconMarked, GroupOnLayout,
                ChoiceOnList, RandomOnLayout, CupIsRaced, OnLayoutOrNone, ActivatedLayout,
                GetTrackList
<1> QED
  BY <1>1, <1>2, <1>3, <1>4, <1>5, <1>6, <1>7, <1>8, <1>9, <1>10, <1>11 DEF Next

\* The invariant holds in every state.
THEOREM CupInvariant == Spec => []CupInv
<1>1. Init => CupInv
  BY CupInit
<1>2. CupInv /\ [Next]_vars => CupInv'
  BY CupStep
<1> QED
  BY <1>1, <1>2, PTL DEF Spec

\* Every variable keeps its type (CupManager.hpp, CupSelect.cpp): a page
\* has drawn what it is for, whatever the layout and the way to it.
THEOREM CupTypeCorrect == Spec => []TypeOK
<1>1. CupInv => TypeOK
  BY DEF CupInv
<1> QED
  BY <1>1, CupInvariant, PTL

\* The marked icon is the cup whose courses are listed and, once one is
\* chosen, raced: the rows of CorrectCourseSelectCup and PatchCourseSelectCup
\* agree for every number of cups and icons (CourseSelect.cpp:72-118).
THEOREM IconIsTheCup == Spec => []IconIsCup
<1>1. ASSUME CupInv, view.page = "courses", ~far PROVE view.mark < Icons
  <2> DEFINE id == (cup - left) % Count(layout)
  <2>1. /\ view.mark = IconFor(id) /\ cup \in 0..(Count(layout) - 1)
        /\ Aligned(cup, left, Count(layout)) /\ left \in Int
    <3>1. MaxLeft \in Nat
      BY LayoutAssumption
    <3> QED
      BY <1>1, <3>1 DEF CupInv, IconMarked, CupIsChosen, TypeOK
  <2>2. Count(layout) \in Nat \ {0}
    BY <1>1, LayoutFacts DEF CupInv, TypeOK
  <2>3. IconFor(id) \in 0..(Icons - 1)
    BY <2>1, <2>2, IconOfCup
  <2> HIDE DEF id
  <2>4. Icons \in Nat
    BY IconPlaces
  <2> QED
    BY <2>1, <2>3, <2>4
<1>2. CupInv => IconIsCup
  BY <1>1 DEF CupInv, IconMarked, IconIsCup
<1> QED
  BY <1>2, CupInvariant, PTL

\* A chosen course, and each next one of its order, is on the list set for
\* the mode; a random VS's on the list of the layout (CupManager.cpp:73-98,
\* SlotExpansion.cpp:134-186).
THEOREM ChoiceIsOnList == Spec => []ChosenIsOnList
<1>1. ASSUME NEW t, NEW l, Reaches(t, Front(l))
      PROVE  t \in UNION {Expand(Slots[[list |-> l, sorting |-> 0]][i]) :
                            i \in DOMAIN Slots[[list |-> l, sorting |-> 0]]}
  BY <1>1 DEF Reaches, Front
<1>2. ASSUME CupInv, view.page = "race", view.by = "gp"
      PROVE  Reaches(winning, Front(GetTrackList))
  <2>1. /\ mode = "gp" /\ layout = Front(0) /\ cup \in 0..(Count(layout) - 1)
        /\ order \in Draws(CoursesOfCup(layout, cup))
        /\ view.number \in 1..CupSize /\ winning = order[view.number]
        /\ layout \in DOMAIN Slots
    BY <1>2 DEF CupInv, CupIsRaced, TypeOK
  <2> DEFINE slot == CoursesOfCup(layout, cup)[view.number]
  <2>2. winning \in Expand(slot)
    BY <2>1, CupDrawn
  <2>3. slot \in OnLayout(layout)
    BY <2>1, CupSlots
  <2> HIDE DEF slot
  <2>4. Reaches(winning, layout)
    BY <2>1, <2>2, <2>3, SlotReached
  <2>5. GetTrackList = 0
    BY <2>1 DEF GetTrackList
  <2> QED
    BY <2>1, <2>4, <2>5
<1>3. ASSUME CupInv, view.page = "race"
      PROVE  /\ view.by # "random" => Reaches(winning, Front(GetTrackList))
             /\ view.by = "random" => winning = NoTrack \/ Reaches(winning, Front(layout.list))
  <2>1. view.by \in {"gp", "choice", "order", "random"}
    BY <1>3, PageFields DEF CupInv, TypeOK, RaceViews
  <2> QED
    BY <1>2, <1>3, <2>1 DEF CupInv, ChoiceOnList, RandomOnLayout, OnLayoutOrNone
<1>4. ASSUME CupInv, view.page = "race" PROVE ChosenIsOnList
  <2>1. CASE view.by = "random"
    BY <1>1, <1>3, <1>4, <2>1 DEF ChosenIsOnList
  <2>2. CASE view.by # "random"
    BY <1>1, <1>3, <1>4, <2>2 DEF ChosenIsOnList
  <2> QED
    BY <2>1, <2>2
<1>5. CupInv => ChosenIsOnList
  BY <1>4 DEF ChosenIsOnList
<1> QED
  BY <1>5, CupInvariant, PTL

\* Every race of a Grand Prix is on a course of the cup it is saved for
\* (SlotExpansion.cpp:92-99, 190-220; CupSelect.cpp:184-205).
THEOREM SavedCupWasRaced == Spec => []SavedCupIsRaced
<1>1. ASSUME CupInv, view.page = "race", view.by = "gp"
      PROVE  /\ cup < Count([list |-> 0, sorting |-> 0])
             /\ winning \in Expand(CoursesOfCup([list |-> 0, sorting |-> 0], cup)[view.number])
  <2>1. /\ layout = Front(0) /\ cup \in 0..(Count(layout) - 1)
        /\ order \in Draws(CoursesOfCup(layout, cup))
        /\ view.number \in 1..CupSize /\ winning = order[view.number]
        /\ layout \in DOMAIN Slots
    BY <1>1 DEF CupInv, CupIsRaced, TypeOK
  <2>2. winning \in Expand(CoursesOfCup(layout, cup)[view.number])
    BY <2>1, CupDrawn
  <2>3. Count(layout) \in Nat
    BY <2>1, LayoutFacts
  <2>4. cup < Count(layout)
    BY <2>1, <2>3
  <2> QED
    BY <2>1, <2>2, <2>4 DEF Front
<1>2. CupInv => SavedCupIsRaced
  BY <1>1 DEF SavedCupIsRaced
<1> QED
  BY <1>2, CupInvariant, PTL

-----------------------------------------------------------------------------
(* The variants of a group, page by page.                                   *)

\* What the pages of a group have to show.
Offered(g, random) == (IF random = 1 THEN <<g>> ELSE <<>>) \o Variants[g]

\* They are the random choice and the variants; a group without a repeated
\* variant offers nothing twice.
LEMMA OfferedAre ==
  ASSUME NEW g \in Groups, NEW random \in {0, 1}
  PROVE  LET all == Offered(g, random)
         IN  /\ Len(all) = Len(Variants[g]) + random /\ Len(all) \in Nat \ {0}
             /\ {all[k] : k \in 1..Len(all)} = Members(g) \cup (IF random = 1 THEN {g} ELSE {})
             /\ (\A i, j \in DOMAIN Variants[g] : Variants[g][i] = Variants[g][j] => i = j)
                  => \A k, l \in 1..Len(all) : all[k] = all[l] => k = l
<1> DEFINE s == Variants[g]
           all == Offered(g, random)
<1>1. s \in Seq(Courses) /\ Len(s) \in Nat \ {0} /\ DOMAIN s = 1..Len(s)
  <2>1. s \in Seq(Courses) /\ s # <<>>
    BY LayoutAssumption
  <2> QED
    BY <2>1
<1>2. g \notin Courses /\ Members(g) = {s[i] : i \in 1..Len(s)}
  BY <1>1, LayoutAssumption DEF Members
<1> HIDE DEF s
<1>3. CASE random = 0
  <2>1. all = <<>> \o s
    BY <1>3 DEF Offered, s
  <2> HIDE DEF all
  <2>2. Len(all) = Len(s) /\ \A k \in 1..Len(s) : all[k] = s[k]
    BY <1>1, <2>1
  <2> QED
    BY <1>1, <1>2, <1>3, <2>2 DEF s, all
<1>4. CASE random = 1
  <2>1. all = <<g>> \o s
    BY <1>4 DEF Offered, s
  <2> HIDE DEF all
  <2>2. /\ Len(all) = Len(s) + 1 /\ all[1] = g
        /\ \A k \in 2..(Len(s) + 1) : all[k] = s[k - 1]
    <3>1. <<g>> \in Seq({g} \cup Courses) /\ s \in Seq({g} \cup Courses)
      BY <1>1
    <3> QED
      BY <1>1, <2>1, <3>1
  <2>3. {all[k] : k \in 1..Len(all)} = {s[i] : i \in 1..Len(s)} \cup {g}
    <3>1. \A i \in 1..Len(s) : i + 1 \in 1..Len(all) /\ all[i + 1] = s[i]
      BY <1>1, <2>2
    <3>2. \A k \in 1..Len(all) : all[k] = g \/ (k - 1 \in 1..Len(s) /\ all[k] = s[k - 1])
      BY <1>1, <2>2
    <3>3. 1 \in 1..Len(all)
      BY <1>1, <2>2
    <3> QED
      BY <2>2, <3>1, <3>2, <3>3
  <2>4. ASSUME \A i, j \in 1..Len(s) : s[i] = s[j] => i = j
        PROVE  \A k, l \in 1..Len(all) : all[k] = all[l] => k = l
    <3> SUFFICES ASSUME NEW k \in 1..Len(all), NEW l \in 1..Len(all), all[k] = all[l]
                 PROVE  k = l
      OBVIOUS
    <3>1. \A m \in 1..Len(all) : m # 1 => m - 1 \in 1..Len(s) /\ all[m] = s[m - 1] /\ all[m] # g
      BY <1>1, <1>2, <2>2
    <3>2. k = 1 <=> l = 1
      BY <2>2, <3>1
    <3>3. CASE k # 1 /\ l # 1
      BY <2>4, <3>1, <3>3
    <3> QED
      BY <3>2, <3>3
  <2>5. Len(all) = Len(s) + random /\ Len(all) \in Nat \ {0}
    BY <1>1, <1>4, <2>2
  <2>6. {all[k] : k \in 1..Len(all)} = Members(g) \cup (IF random = 1 THEN {g} ELSE {})
    BY <1>2, <1>4, <2>3
  <2>7. ASSUME \A i, j \in DOMAIN s : s[i] = s[j] => i = j
        PROVE  \A k, l \in 1..Len(all) : all[k] = all[l] => k = l
    BY <1>1, <2>4, <2>7
  <2> QED
    BY <2>5, <2>6, <2>7 DEF s, all
<1> QED
  BY <1>3, <1>4

\* Rows of c make up a list of n: each place is in one row, and there is no
\* row without a place.
LEMMA Rows ==
  ASSUME NEW n \in Nat \ {0}, NEW c \in Nat \ {0}
  PROVE  LET last == (n - 1) \div c
         IN  /\ last \in Nat
             /\ \A s \in 0..last : c * s \in Nat /\ c * s < n
             /\ \A k \in 1..n : \E s \in 0..last, b \in 1..c : k = c * s + b
             /\ \A s, t \in 0..last, a, b \in 1..c : c * s + a = c * t + b => s = t /\ a = b
<1> DEFINE last == (n - 1) \div c
<1>1. /\ last \in Nat /\ (n - 1) % c \in 0..(c - 1)
      /\ n - 1 = c * last + ((n - 1) % c)
  <2> DEFINE m == n - 1
  <2>1. m \in Nat
    OBVIOUS
  <2> HIDE DEF m
  <2>2. m \div c \in Nat
    BY <2>1
  <2>3. m % c \in 0..(c - 1) /\ m = c * (m \div c) + (m % c)
    BY <2>1, ModFacts
  <2> QED
    BY <2>2, <2>3 DEF m
<1>2. c * last <= n - 1 /\ n - 1 < c * last + c
  <2>1. c * last \in Nat
    BY <1>1
  <2> QED
    BY <1>1, <2>1
<1> HIDE DEF last
<1>3. ASSUME NEW s \in 0..last PROVE c * s \in Nat /\ c * s < n
  <2>1. c * s \in Nat /\ c * (last - s) \in Nat
    BY <1>1
  <2>2. c * (last - s) = c * last - c * s
    BY <1>1
  <2>3. c * last \in Nat
    BY <1>1
  <2> QED
    BY <1>2, <2>1, <2>2, <2>3
<1>4. ASSUME NEW k \in 1..n PROVE \E s \in 0..last, b \in 1..c : k = c * s + b
  <2> DEFINE s == (k - 1) \div c
             m == (k - 1) % c
  <2>1. s \in Nat
    OBVIOUS
  <2>2. m \in 0..(c - 1) /\ k - 1 = c * s + m
    <3> DEFINE i == k - 1
    <3>1. i \in Nat
      OBVIOUS
    <3> HIDE DEF i
    <3>2. i % c \in 0..(c - 1) /\ i = c * (i \div c) + (i % c)
      BY <3>1, ModFacts
    <3> QED
      BY <3>2 DEF i
  <2> HIDE DEF s, m
  <2>3. s <= last
    <3> SUFFICES ASSUME s - last - 1 \in Nat PROVE FALSE
      BY <1>1, <2>1
    <3>1. c * (s - last - 1) \in Nat
      OBVIOUS
    <3>2. c * (s - last - 1) = c * s - c * last - c
      BY <1>1, <2>1
    <3>3. c * s \in Nat /\ c * last \in Nat
      BY <1>1, <2>1
    <3> QED
      BY <1>2, <2>2, <3>1, <3>2, <3>3
  <2>4. m + 1 \in 1..c /\ k = c * s + (m + 1)
    <3>1. c * s \in Nat
      BY <2>1
    <3> QED
      BY <2>2, <3>1
  <2>5. s \in 0..last
    BY <1>1, <2>1, <2>3
  <2> QED
    BY <2>4, <2>5
<1>5. ASSUME NEW s \in 0..last, NEW t \in 0..last, NEW a \in 1..c, NEW b \in 1..c,
             c * s + a = c * t + b
      PROVE  s = t /\ a = b
  <2>1. c * (s - t) = c * s - c * t /\ c * s \in Nat /\ c * t \in Nat
    BY <1>1
  <2>2. s - t = 0
    BY <1>1, <1>5, <2>1, Turns
  <2> QED
    BY <1>1, <1>5, <2>1, <2>2
<1> QED
  BY <1>1, <1>3, <1>4, <1>5 DEF last

\* The sub pages of a group show the random choice, if there is one, and every
\* variant, once, and none of them is empty (SetupPage, SetupButtons).
THEOREM VariantsOfferedOnce ==
  ASSUME NEW g \in Groups, NEW random \in {0, 1},
         \A i, j \in DOMAIN Variants[g] : Variants[g][i] = Variants[g][j] => i = j
  PROVE  LET pages == 0..(SubPageCount(g, random) - 1)
             shown == {p \in pages \X (1..CupSize) : p[2] \in DOMAIN VariantButtons(g, random, p[1])}
             Slot(p) == VariantButtons(g, random, p[1])[p[2]]
         IN  /\ {Slot(p) : p \in shown} = Members(g) \cup (IF random = 1 THEN {g} ELSE {})
             /\ \A p, q \in shown : Slot(p) = Slot(q) => p = q
             /\ \A sub \in pages : 1 \in DOMAIN VariantButtons(g, random, sub)
<1> DEFINE all == Offered(g, random)
           n == Len(all)
           last == (n - 1) \div CupSize
           pages == 0..(SubPageCount(g, random) - 1)
           shown == {p \in pages \X (1..CupSize) : p[2] \in DOMAIN VariantButtons(g, random, p[1])}
           Slot(p) == VariantButtons(g, random, p[1])[p[2]]
<1>1. /\ n = Len(Variants[g]) + random /\ n \in Nat \ {0}
      /\ {all[k] : k \in 1..n} = Members(g) \cup (IF random = 1 THEN {g} ELSE {})
      /\ \A k, l \in 1..n : all[k] = all[l] => k = l
  BY OfferedAre
<1>2. CupSize \in Nat \ {0} /\ Len(Variants[g]) \in Nat
  <2>1. Variants[g] \in Seq(Courses)
    BY LayoutAssumption
  <2> QED
    BY <2>1, LayoutAssumption
<1> HIDE DEF n, all
<1>3. /\ last \in Nat
      /\ \A s \in 0..last : CupSize * s \in Nat /\ CupSize * s < n
      /\ \A k \in 1..n : \E s \in 0..last, b \in 1..CupSize : k = CupSize * s + b
      /\ \A s, t \in 0..last, a, b \in 1..CupSize :
           CupSize * s + a = CupSize * t + b => s = t /\ a = b
  BY <1>1, <1>2, Rows
<1>4. pages = 0..last
  <2>1. SubPageCount(g, random) = last + 1
    BY <1>1, <1>2 DEF SubPageCount
  <2> HIDE DEF last
  <2> QED
    BY <1>3, <2>1
<1> HIDE DEF last
<1>5. ASSUME NEW s \in 0..last
      PROVE  /\ \A b \in 1..CupSize :
                  b \in DOMAIN VariantButtons(g, random, s) <=> CupSize * s + b <= n
             /\ \A b \in DOMAIN VariantButtons(g, random, s) :
                  VariantButtons(g, random, s)[b] = all[CupSize * s + b]
             /\ 1 \in DOMAIN VariantButtons(g, random, s)
  <2> DEFINE x == CupSize * s
             rest == n - x
             count == IF rest > CupSize THEN CupSize ELSE rest
  <2>1. VariantButtons(g, random, s) = [i \in 1..count |-> all[CupSize * s + i]]
    BY DEF VariantButtons, Offered, all, n
  <2>2. CupSize * s \in Nat /\ CupSize * s < n
    BY <1>3
  <2>3. x \in Nat /\ x < n
    BY <2>2
  <2> HIDE DEF x
  <2>4. count \in 1..CupSize /\ \A b \in 1..CupSize : b \in 1..count <=> x + b <= n
    BY <1>1, <1>2, <2>3
  <2> HIDE DEF count
  <2> QED
    BY <2>1, <2>4 DEF x
<1>6. ASSUME NEW p \in shown
      PROVE  /\ p[1] \in 0..last /\ p[2] \in 1..CupSize /\ p = <<p[1], p[2]>>
             /\ CupSize * p[1] + p[2] \in 1..n /\ Slot(p) = all[CupSize * p[1] + p[2]]
  <2>1. p \in (0..last) \X (1..CupSize) /\ p[2] \in DOMAIN VariantButtons(g, random, p[1])
    BY <1>4
  <2>2. p[1] \in 0..last /\ p[2] \in 1..CupSize /\ p = <<p[1], p[2]>>
    BY <2>1
  <2>3. CupSize * p[1] + p[2] <= n /\ Slot(p) = all[CupSize * p[1] + p[2]]
    BY <1>5, <2>1, <2>2
  <2>4. CupSize * p[1] \in Nat
    BY <1>3, <2>2
  <2> QED
    BY <1>1, <1>2, <2>2, <2>3, <2>4
<1>7. ASSUME NEW k \in 1..n PROVE \E p \in shown : Slot(p) = all[k]
  <2>1. PICK s \in 0..last, b \in 1..CupSize : k = CupSize * s + b
    BY <1>3
  <2>2. b \in DOMAIN VariantButtons(g, random, s) /\ VariantButtons(g, random, s)[b] = all[k]
    BY <1>1, <1>5, <2>1
  <2>3. <<s, b>> \in shown /\ Slot(<<s, b>>) = all[k]
    BY <1>4, <2>2
  <2> QED
    BY <2>3
<1>8. {Slot(p) : p \in shown} = {all[k] : k \in 1..n}
  BY <1>6, <1>7
<1>9. ASSUME NEW p \in shown, NEW q \in shown, Slot(p) = Slot(q) PROVE p = q
  <2>1. CupSize * p[1] + p[2] = CupSize * q[1] + q[2]
    BY <1>1, <1>6, <1>9
  <2>2. p[1] = q[1] /\ p[2] = q[2]
    BY <1>3, <1>6, <2>1
  <2> QED
    BY <1>6, <2>2
<1>10. \A sub \in pages : 1 \in DOMAIN VariantButtons(g, random, sub)
  BY <1>4, <1>5
<1> QED
  BY <1>1, <1>8, <1>9, <1>10
=============================================================================
