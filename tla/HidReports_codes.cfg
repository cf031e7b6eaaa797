CONSTANTS
  Keys <- LetterKeys
  Slots = 6
  HasCallback = FALSE
  MaxEvents = 4
SPECIFICATION HidSpec
INVARIANTS
  CodesOfTheComments
CHECK_DEADLOCK FALSE
