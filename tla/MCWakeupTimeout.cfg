SPECIFICATION TimeoutFairSpec
CONSTANTS
  Parent = Parent
  Child = Child
  MaxMessages = 3
  StoresDelayed = TRUE
  SharedEventFd = TRUE
PROPERTY EveryMessageRead
