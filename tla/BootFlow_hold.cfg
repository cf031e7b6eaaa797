CONSTANTS
  Programs = {p1, p2}
  None = None
  Partial = Partial
SPECIFICATION BootSpec
INVARIANTS
  HoldShowsMenu
