CONSTANT MaxFiles = 6
SPECIFICATION ListSpec
INVARIANTS
  RunsWhatIsShown
CHECK_DEADLOCK FALSE
