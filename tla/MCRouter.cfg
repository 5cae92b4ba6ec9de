CONSTANTS
  Size <- MCSize
  Word <- MCWord
  Ids <- MCIds
  Sizes <- MCSizes
  Thresholds <- MCThresholds
  NewChannels = 2
  MaxTexts = 5
  MaxReplies = 2
SPECIFICATION RouterSafeSpec
INVARIANTS
  NobodyThrows
  AnnouncedAhead
  SameChannels
PROPERTIES
  
  ChannelsOpen
CHECK_DEADLOCK FALSE
