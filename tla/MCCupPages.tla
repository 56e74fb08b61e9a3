----------------------------- MODULE MCCupPages -----------------------------
EXTENDS CupPages

\* Six cups of two, and four of them again on a shorter list; two groups.
MCCourses == 1..14
MCGroups == {101, 102}
MCVariants == [g \in MCGroups |-> IF g = 101 THEN <<12, 13, 14>> ELSE <<11>>]
All == <<1, 2, 3, 101, 4, 5, 6, 7, 102, 8, 9, 10>>
Short == <<3, 101, 5, 6, 102, 8, 9, 10>>
Reversed(s) == [i \in DOMAIN s |-> s[Len(s) + 1 - i]]
MCSlots ==
  [l \in [list : {0, 1}, sorting : {0, 1}] |->
     LET slots == IF l.list = 0 THEN All ELSE Short
     IN  IF l.sorting = 0 THEN slots ELSE Reversed(slots)]

\* The sub pages of a group show the random choice and every variant, once.
ASSUME EveryVariantOffered ==
  \A g \in MCGroups, random \in {0, 1} :
    LET pages == 0..(SubPageCount(g, random) - 1)
        buttons == {<<sub, b>> : sub \in pages, b \in 1..CupSize}
        shown == {p \in buttons : p[2] \in DOMAIN VariantButtons(g, random, p[1])}
        ids == {VariantButtons(g, random, p[1])[p[2]] : p \in shown}
    IN  /\ ids = Members(g) \cup (IF random = 1 THEN {g} ELSE {})
        /\ \A p, q \in shown :
             VariantButtons(g, random, p[1])[p[2]] = VariantButtons(g, random, q[1])[q[2]]
               => p = q
        /\ \A sub \in pages : VariantButtons(g, random, sub) # <<>>
=============================================================================
