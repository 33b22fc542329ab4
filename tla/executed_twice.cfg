SPECIFICATION Spec

CONSTANTS
  NumNodes = 2
  MaxCommands = 2
  Benchmark = FALSE
  Patience = 0
  MaxTimeouts = 1
  MaxLeaderChanges = 0
  MaxCrashes = 0
  MaxSends = 2
  MaxLosses = 0
  MaxFaults = 0
  MaxMoves = 1

INVARIANT ExecutedOnce

CHECK_DEADLOCK FALSE
