CONSTANTS
  Keys <- ShiftAndA
  FifoSize = 2
  SchedDepth = 2
  HasCallback = TRUE
  MaxEvents = 4
SPECIFICATION FairSpec
INVARIANTS
  OneCallPerKey
PROPERTIES
  EveryPressArrives
  ImplementsKeyStream
