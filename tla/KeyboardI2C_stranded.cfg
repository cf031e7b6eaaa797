CONSTANTS
  Keys <- OnlyA
  FifoSize = 2
  SchedDepth = 4
  HasCallback = TRUE
  MaxEvents = 3
SPECIFICATION FairSpec
PROPERTIES
  ReadyEventIsRead
