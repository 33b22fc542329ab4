SPECIFICATION BankAccountsSpec
CONSTANTS
  Proposers = {0, 1}
  Acceptors = {a1}
  Learners = {0, 1}
  ClientValues <- Commands
  Noop = Noop
  MaxSlot = 2
  Limit = 4
INVARIANTS
  AccountsTypeOK
  SameAccounts
  BalancesAddUp
  OverdrawnOnlyByOverflow
  DecisionsInOrder
PROPERTIES ImplementsLog
