---------------------------- MODULE BankAccounts -----------------------------
(***************************************************************************)
(* The bank handlers of several nodes with what they keep the log for: the *)
(* accounts, and the responses they hand to the client handler.            *)
(***************************************************************************)
EXTENDS BankDelivery, Bank, SequencesExt

VARIABLES
  bankAccounts,  \* the balance of each account a node knows
  responses      \* what a node put on responseChanOut

accountVars == <<deliveryVars, bankAccounts, responses>>

\* A client's command, less its ClientID and ClientSeq.
Command == [AccountNum : Nat, Txn : Transaction]

ASSUME CommandAssumption == ClientValues \subseteq Command

BankAccountsInit ==
  /\ Init
  /\ bankAccounts = [l \in Learners |-> <<>>]
  /\ responses = [l \in Learners |-> <<>>]

\* Mutant of ProcessValue: the copy is stored only if the transaction was
\* carried out, so that a refused one leaves no account behind.
ProcessValueIfDone(l, val) ==
  LET known == bankAccounts[l]
      res == Process(IF val.AccountNum \in DOMAIN known THEN known[val.AccountNum] ELSE 0,
                     val.Txn)
      done == IF res.ok THEN {val.AccountNum} ELSE {}
      stored == [account \in DOMAIN known \cup done |->
                   IF account = val.AccountNum THEN res.Balance ELSE known[account]]
  IN  /\ bankAccounts' = [bankAccounts EXCEPT ![l] = stored]
      /\ responses' = [responses EXCEPT ![l] = Append(@, [val |-> val, res |-> res])]

\* The transaction is processed on a copy of the account, a new one with
\* nothing on it the first time, and the copy stored.
ProcessValue(l, val) ==
  LET known == bankAccounts[l]
      res == Process(IF val.AccountNum \in DOMAIN known THEN known[val.AccountNum] ELSE 0,
                     val.Txn)
      stored == [account \in DOMAIN known \cup {val.AccountNum} |->
                   IF account = val.AccountNum THEN res.Balance ELSE known[account]]
  IN  /\ bankAccounts' = [bankAccounts EXCEPT ![l] = stored]
      /\ responses' = [responses EXCEPT ![l] = Append(@, [val |-> val, res |-> res])]

\* The value of the slot just applied, unless it is a no-op.
Post(l) ==
  LET val == Last(bankLog'[l])
  IN  IF bankLog' # bankLog /\ val # Noop THEN ProcessValue(l, val)
        ELSE UNCHANGED <<bankAccounts, responses>>

BankAccountsNext == \E l \in Learners :
  \/ Deliver(l) /\ Post(l)
  \/ Drain(l) /\ Post(l)
  \/ TakeIncrement(l) /\ UNCHANGED <<bankAccounts, responses>>

BankAccountsSpec == BankAccountsInit /\ [][BankAccountsNext]_accountVars /\ Fairness

-----------------------------------------------------------------------------
\* What a response says was done to an account, and the first i of rs together.
Added(r, account) ==
  IF r.val.AccountNum = account /\ r.res.ok THEN Effect(r.val.Txn) ELSE 0

AddedUp(rs, account, i) ==
  LET sum[n \in 0..Len(rs)] == IF n = 0 THEN 0 ELSE sum[n - 1] + Added(rs[n], account)
  IN  sum[i]

\* Types; a node has the accounts it was asked about, and no-ops ask for none.
AccountsTypeOK ==
  \A l \in Learners :
    /\ DOMAIN bankAccounts[l] =
         {bankLog[l][i].AccountNum : i \in {i \in DOMAIN bankLog[l] : bankLog[l][i] # Noop}}
    /\ \A account \in DOMAIN bankAccounts[l] : bankAccounts[l][account] \in Int64

\* Nodes in whatever order they hear of the slots tell clients the same, and
\* those that have come as far as each other hold the same money.
SameAccounts ==
  \A l, m \in Learners :
    /\ IsPrefix(responses[l], responses[m]) \/ IsPrefix(responses[m], responses[l])
    /\ bankAdu[l] = bankAdu[m] =>
         responses[l] = responses[m] /\ bankAccounts[l] = bankAccounts[m]

\* The balance in a response is what the responses so far say was paid in less
\* what they say was taken out: refusals cost nothing, nothing is done twice.
BalancesAddUp ==
  \A l \in Learners : \A i \in DOMAIN responses[l] :
    LET r == responses[l][i]
    IN  r.res.Balance = Wrap(AddedUp(responses[l], r.val.AccountNum, i))

\* An account is overdrawn only after its money no longer fitted in an int.
OverdrawnOnlyByOverflow ==
  \A l \in Learners : \A account \in DOMAIN bankAccounts[l] :
    bankAccounts[l][account] < 0 =>
      \E i \in DOMAIN responses[l] : AddedUp(responses[l], account, i) \notin Int64
=============================================================================
