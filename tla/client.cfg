SPECIFICATION Spec

CONSTANTS
  NumNodes = 2
  MaxCommands = 2
  Benchmark = FALSE
  Patience = 0
  MaxTimeouts = 1
  MaxLeaderChanges = 1
  MaxCrashes = 1
  MaxLosses = 1
  MaxFaults = 1
  MaxMoves = 1
  MaxSends = 2

INVARIANT ClientTypeOK
INVARIANT DuplicatesOnlyByResending
INVARIANT OrderInv
INVARIANT AtMostOneSkipped

CHECK_DEADLOCK FALSE
