SPECIFICATION WakeupFairSpec
CONSTANTS
  Parent = Parent
  Child = Child
  MaxMessages = 4
  StoresDelayed = FALSE
  SharedEventFd = FALSE
INVARIANTS
  TypeOK
  NoSleepWithUnread
  WakeupsBounded
PROPERTY EveryMessageRead
