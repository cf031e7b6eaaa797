SPECIFICATION Spec
CONSTANTS
  Requests <- MCRequests
  Events <- MCEvents
  Tries = 2
  NoPacket = NoPacket
  MaxCalls = 2
  MaxEvents = 2
  MaxBoth = 2
CHECK_DEADLOCK FALSE
INVARIANT ReturnedIsRemoved
