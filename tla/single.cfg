SPECIFICATION Spec
CONSTANTS
  Proposers = {0, 1}
  Acceptors = {0, 1, 2}
  Learners = {0}
  Values = {"x", "y"}
  ZeroValue = ""
  MaxRound = 4
INVARIANTS
  SingleTypeOK
  SingleInv
  AgreementIfUnambiguous
  RepliesIfUnambiguous
  PromiseTellsLastVote
CHECK_DEADLOCK FALSE
