SPECIFICATION Spec
CONSTANTS
  Proposers = {0, 1}
  Acceptors = {a1, a2}
  Learners = {1}
  ClientValues = {v1}
  Noop = Noop
  MaxRound = 4
  MaxDeliveries = 2
SYMMETRY Symmetry
CHECK_DEADLOCK FALSE
INVARIANTS TypeOK SafetyInv PromiseReportsVotes ProposalHasQuorum
PROPERTIES VotesOnlyAdvance
