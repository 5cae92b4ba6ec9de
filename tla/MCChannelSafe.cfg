CONSTANTS
  Size <- MCSize
  Word <- MCWord
  Ids <- MCIds
  Sizes <- MCSizes
  Thresholds <- MCThresholds
SPECIFICATION FairSafeSpec
INVARIANTS
  FifoInv
  ReaderNeverFails
  NoOverwrite
  HeldIntact
  RefusesOnlyWhenShort
PROPERTIES
  ImplementsFifo
  DeliversEverything
  RefusedForeverOnlyAtEnd
