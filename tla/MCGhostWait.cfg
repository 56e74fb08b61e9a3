SPECIFICATION FairSpec
CONSTANTS
  a = a  b = b  NoCourse = NoCourse
  Freed = Freed  NoFile = NoFile
  Courses = {a}
  StorageFails = TRUE
  Ranks = 1
  ListSize = 1
  MaxFiles = 2
  Depth = 2
  MaxTime = 1
  MaxLap = 1
  MaxGhosts = 2
INVARIANTS PickedIsLoaded NoFreedAccess
PROPERTIES WaitEnds
