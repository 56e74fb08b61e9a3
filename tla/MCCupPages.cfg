SPECIFICATION Spec
CONSTANTS
  Courses <- MCCourses
  Groups <- MCGroups
  Variants <- MCVariants
  Slots <- MCSlots
  CupSize = 2
  Icons = 4
  RaceLimit = 2
  NoTrack = 0
  MaxLeft = 12
INVARIANTS IconIsCup ChosenIsOnList SavedCupIsRaced
