SPECIFICATION FairSpec

CONSTANTS
  NumNodes = 2
  MaxCommands = 2
  Benchmark = FALSE
  Patience = 2
  MaxTimeouts = 1
  MaxLeaderChanges = 0
  MaxCrashes = 0
  MaxLosses = 0
  MaxFaults = 0
  MaxMoves = 1
  MaxSends = 5

 
PROPERTY SentAgain

CHECK_DEADLOCK FALSE
