SPECIFICATION Spec
CONSTANTS
  Proposers = {0, 1}
  Acceptors = {a1, a2}
  Learners = {0, 1}
  ClientValues = {v1}
  Noop = Noop
  MaxRound = 3
  MaxDeliveries = 2
SYMMETRY Symmetry
CHECK_DEADLOCK FALSE
INVARIANTS DecisionsAccounted AduFollowsBank DecidedIsChosen
