SPECIFICATION FairSpec
CONSTANTS
  a1 = a1  a2 = a2  o1 = o1  o2 = o2  None = None
  Adapters = {a1, a2}
  Others = {o1, o2}
  BusOrders <- Orders
  Timeout = 1
  MaxFailures = 1
  MaxChanges = 2
INVARIANTS WorkingIsPolled ListensUntilFound ChainsAreCounted
PROPERTIES UnpluggedIsSeen FoundIsUsed
