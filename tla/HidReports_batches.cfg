CONSTANTS
  Keys <- TypingKeys
  Slots = 2
  HasCallback = TRUE
  MaxEvents = 5
SPECIFICATION HidSpec
INVARIANTS
  TypeOK
  EveryPressReported
  ModifiersSettle
CHECK_DEADLOCK FALSE
