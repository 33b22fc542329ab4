-------------------------------- MODULE Bank --------------------------------
(***************************************************************************)
(* lab5/bank: what a transaction does to the balance of an account, in     *)
(* Go's int, which wraps around.                                           *)
(***************************************************************************)
EXTENDS Integers

CONSTANT Limit  \* ints are -Limit..Limit-1

ASSUME BankAssumption == Limit \in Nat \ {0}

Int64 == -Limit..(Limit - 1)

Wrap(x) == ((x + Limit) % (2 * Limit)) - Limit

Transaction == [Op : {"Balance", "Deposit", "Withdrawal"}, Amount : Int64]

\* What a transaction that is carried out adds to the balance.
Effect(txn) ==
  IF txn.Op = "Deposit" THEN txn.Amount
  ELSE IF txn.Op = "Withdrawal" THEN -txn.Amount ELSE 0

\* Mutant of Granted: the account is not looked at.
GrantedUnseen(balance, txn) == txn.Op = "Deposit" => txn.Amount >= 0

\* The withdrawal of a negative amount is not refused.
Granted(balance, txn) ==
  \/ txn.Op = "Balance"
  \/ txn.Op = "Deposit" /\ txn.Amount >= 0
  \/ txn.Op = "Withdrawal" /\ Wrap(balance - txn.Amount) >= 0

\* Mutant of Process: a refused transaction is carried out all the same.
ProcessRefused(balance, txn) ==
  [Balance |-> Wrap(balance + Effect(txn)), ok |-> Granted(balance, txn)]

\* The TransactionResult; ok stands for an empty ErrorString.
Process(balance, txn) ==
  [Balance |-> IF Granted(balance, txn) THEN Wrap(balance + Effect(txn)) ELSE balance,
   ok |-> Granted(balance, txn)]
=============================================================================
