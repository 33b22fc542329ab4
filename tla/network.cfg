SPECIFICATION Spec

CONSTANTS
  NumNodes = 2
  MaxStarts = 6
  MaxCrashes = 3

INVARIANT NetworkTypeOK
INVARIANT OneConnection
INVARIANT NoStaleEntry

CHECK_DEADLOCK FALSE
