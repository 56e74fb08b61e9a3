SPECIFICATION Spec
CONSTANTS
  a = a  b = b  NoCourse = NoCourse
  Freed = Freed  NoFile = NoFile
  Courses = {a, b}
  StorageFails = FALSE
  Ranks = 2
  ListSize = 1
  MaxFiles = 2
  Depth = 2
  MaxTime = 2
  MaxLap = 1
  MaxGhosts = 2
SYMMETRY CourseSymmetry
INVARIANTS RecordOnItsWay EntryHasGhost ListShowsGhosts BoardsSorted
PROPERTIES StoredNeverWorse
