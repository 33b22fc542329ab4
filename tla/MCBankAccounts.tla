--------------------------- MODULE MCBankAccounts ----------------------------
(***************************************************************************)
(* Commands of the TLC instance of BankAccounts, with ints of -4 to 3.     *)
(***************************************************************************)
EXTENDS BankAccounts

Transfer(account, op, amount) ==
  [AccountNum |-> account, Txn |-> [Op |-> op, Amount |-> amount]]

Commands ==
  {Transfer(1, "Deposit", 3), Transfer(1, "Withdrawal", 2), Transfer(1, "Withdrawal", -2),
   Transfer(1, "Deposit", -1), Transfer(2, "Deposit", 1), Transfer(2, "Balance", 0)}
=============================================================================
