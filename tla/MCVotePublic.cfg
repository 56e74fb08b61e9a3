SPECIFICATION FairVoting
CONSTANTS
  h = h  g1 = g1  c1 = c1  c2 = c2  v1 = v1  v2 = v2  grp = grp  ar = ar
  None = None
  Consoles <- Two
  Host = h
  Memory = {TRUE, FALSE}
  GameModes = {0}
  BattleModes = {2}
  Public = TRUE
  Courses = {c1, c2}
  Groups = {}
  Arenas = {}
  Variants <- NoVariants
  TrackLists <- TwoCourses
  MenuChoices <- PlainMenus
  BlockCount = 2
  MaxRounds = 2
  MaxMessages = 0
INVARIANTS SameCourse DecidedByAVote
PROPERTIES EveryVoteEnds ImplementsAgreement
