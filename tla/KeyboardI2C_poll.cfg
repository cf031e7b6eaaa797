CONSTANTS
  Keys <- FnShiftA
  FifoSize = 2
  SchedDepth = 2
  HasCallback = FALSE
  MaxEvents = 4
SPECIFICATION Spec
INVARIANTS
  TypeOK
  KeysInOrder
  ModifiersOfThePress
  NoLostWakeup
