SPECIFICATION Spec
CONSTANTS
  Proposers = {0, 1}
  Acceptors = {a1, a2, a3}
  Learners = {}
  ClientValues = {v1, v2}
  Noop = Noop
  MaxRound = 4
  MaxDeliveries = 2
SYMMETRY Symmetry
CHECK_DEADLOCK FALSE
INVARIANTS AgreementIfProposedOnce
