SPECIFICATION VotingSpec
CONSTANTS
  h = h  g1 = g1  c1 = c1  c2 = c2  v1 = v1  v2 = v2  grp = grp  ar = ar
  None = None
  Consoles <- Two
  Host = h
  Memory = {TRUE, FALSE}
  GameModes = {0, 2}
  BattleModes = {2}
  Public = FALSE
  Courses = {c1, v1, v2}
  Groups = {grp}
  Arenas = {ar}
  Variants <- MCVariants
  TrackLists <- MCTrackLists
  MenuChoices <- ListMenus
  BlockCount = 2
  MaxRounds = 2
  MaxMessages = 1
INVARIANTS SameEngine HostAlwaysWins OnTheList
