CONSTANTS
  Size <- MCSize
  Word <- MCWord
  Ids <- MCOneId
  Sizes <- MCTwoSizes
  Thresholds <- MCOneThreshold
SPECIFICATION Spec
PROPERTY
  ConsumingLeavesTheRest
