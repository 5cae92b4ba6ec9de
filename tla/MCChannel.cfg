CONSTANTS
  Size <- MCLargeSize
  Word <- MCWord
  Ids <- MCOneId
  Sizes <- MCLargeSizes
  Thresholds <- MCOneThreshold
SPECIFICATION Spec
INVARIANTS
  TypeOK
  WriterNeverFails
  CanWriteIsEnough
