---------------------------- MODULE ReplicatedLog ----------------------------
(***************************************************************************)
(* What a bank handler promises the rest of the system: it executes the    *)
(* decided entries in slot order, each once and none before the entries    *)
(* below it, whatever the order in which it gets to know them, and as long *)
(* as it knows the next entry it goes on to execute it.                    *)
(***************************************************************************)
EXTENDS Naturals, Sequences

CONSTANT Entries  \* [slot, val] records

VARIABLES known,  \* decided entries received
          log     \* the values executed; log[i] is that of slot i - 1

logVars == <<known, log>>

Init == known = {} /\ log = <<>>

Execute(entries) ==
  \E e \in entries : e.slot = Len(log) /\ log' = Append(log, e.val)

\* Entries are received, and the next one executed, in the same step or not.
Next ==
  /\ known \subseteq known'
  /\ known' \subseteq Entries
  /\ UNCHANGED log \/ Execute(known')

ExecuteNext == UNCHANGED known /\ Execute(known)

Spec == Init /\ [][Next]_logVars /\ WF_logVars(ExecuteNext)
=============================================================================
