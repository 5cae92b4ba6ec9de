SPECIFICATION FairSpec
CONSTANTS
  Base = 5
  max_message_size = 6
  Capacity = 7
  Prefix <- MCPrefix
  Graceful <- MCGraceful
  Forceful <- MCForceful
  Letter = 3
  ReportSizes <- MCReportSizes
  MaxMessages = 3
  Platforms <- MCBothPlatforms
  Junk = Junk
INVARIANT RefusesOnlyJunk
PROPERTIES
  ImplementsLink
  LinkServes
CHECK_DEADLOCK FALSE
