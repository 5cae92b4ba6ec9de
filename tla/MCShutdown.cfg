SPECIFICATION FairSpec
CONSTANTS
  Parent = Parent
  Child = Child
  MaxMessages = 2
  StartMayFail = TRUE
  MayCrash <- MCBoth
INVARIANTS
  TypeOK
  NothingLost
  CleanUnlessLate
  EndOfFileIsTrue
PROPERTY BothEnd
CHECK_DEADLOCK FALSE
