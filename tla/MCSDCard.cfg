SPECIFICATION SDSpec
CONSTANTS
  main = main  task = task
  Threads = {main, task}
  Main = main
  Sectors = 4
  TmpSectors = 2
  SectorSize = 2
  Addresses = {1, 2}
  Requests <- FatRequests
  MaxTransfers = 2
  MaxFailures = 1
  MaxSwaps = 1
INVARIANTS AnswerIsTrue
PROPERTIES WritesStayInside
