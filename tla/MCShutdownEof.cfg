SPECIFICATION Spec
CONSTANTS
  Parent = Parent
  Child = Child
  MaxMessages = 1
  StartMayFail = FALSE
  MayCrash <- MCNobody
INVARIANT WakeupEofIsIgnored
CHECK_DEADLOCK FALSE
