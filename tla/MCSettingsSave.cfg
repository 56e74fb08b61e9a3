SPECIFICATION FairSpec
CONSTANTS
  h1 = h1  h2 = h2  NoFd = NoFd
  Handles = {h1, h2}
  Depth = 2
  OtherTasks <- MCOtherTasks
  MaxEdits = 2
  MaxUnread = 1
  MaxBlocks = 2
INVARIANTS TypeOK NoHandleLeak NoSilentLoss
PROPERTIES StoredNeverRegresses SavesInPlace ImplementsDurableCell RequestedIsSaved
