SPECIFICATION Spec
CONSTANTS
  Parent = Parent
  Child = Child
  MaxMessages = 2
  StoresDelayed = TRUE
  SharedEventFd = FALSE
INVARIANT NoSleepWithUnread
