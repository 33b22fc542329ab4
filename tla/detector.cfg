SPECIFICATION Spec
CONSTANTS
  Candidates = {0, 1, 2}
  NodeIDs <- ThreeNodes
  Self = 0
  RoundTrip = 2
  ChanCap = 3
  MaxFaults = 1
CHECK_DEADLOCK FALSE
INVARIANTS DetectorTypeOK LeaderIsMonarch PublicationsFollowLeader
PROPERTIES EventuallyStable
