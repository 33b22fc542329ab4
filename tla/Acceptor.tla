------------------------------ MODULE Acceptor ------------------------------
(***************************************************************************)
(* lab5/multipaxos/acceptor.go.  One round per acceptor for all slots, one *)
(* vote per slot.  The slice accSlots is kept sorted and holds one entry   *)
(* per slot; here it is the set of its entries.                            *)
(***************************************************************************)
EXTENDS MultiPaxosDefs

VARIABLES
  accRnd,    \* a.rnd: highest round seen
  accSlots   \* a.accSlots: last vote for each slot voted in

acceptorVars == <<accRnd, accSlots>>

AcceptorInit ==
  /\ accRnd = [a \in Acceptors |-> NoRound]
  /\ accSlots = [a \in Acceptors |-> {}]

\* Mutants of HandlePrepare: a promise that leaves out the slot the prepare
\* names; a promise for any round.
HandlePrepareAboveSlot(a) ==
  \E prp \in Sent("Prepare") :
    /\ prp.crnd > accRnd[a]
    /\ accRnd' = [accRnd EXCEPT ![a] = prp.crnd]
    /\ Send([type |-> "Promise", to |-> prp.from, from |-> a, rnd |-> prp.crnd,
             slots |-> {ps \in accSlots[a] : ps.id > prp.slot}])
    /\ UNCHANGED accSlots

HandlePrepareAnyRound(a) ==
  \E prp \in Sent("Prepare") :
    /\ accRnd' = [accRnd EXCEPT ![a] = prp.crnd]
    /\ Send([type |-> "Promise", to |-> prp.from, from |-> a, rnd |-> prp.crnd,
             slots |-> {ps \in accSlots[a] : ps.id >= prp.slot}])
    /\ UNCHANGED accSlots

HandlePrepare(a) ==
  \E prp \in Sent("Prepare") :
    /\ prp.crnd > accRnd[a]
    /\ accRnd' = [accRnd EXCEPT ![a] = prp.crnd]
    /\ Send([type |-> "Promise", to |-> prp.from, from |-> a, rnd |-> prp.crnd,
             slots |-> {ps \in accSlots[a] : ps.id >= prp.slot}])
    /\ UNCHANGED accSlots

\* Mutant of HandleAccept: votes whatever was promised.
HandleAcceptAnyRound(a) ==
  \E acc \in Sent("Accept") :
    /\ accRnd' = [accRnd EXCEPT ![a] = acc.rnd]
    /\ accSlots' = [accSlots EXCEPT ![a] =
         {ps \in @ : ps.id # acc.slot}
           \cup {[id |-> acc.slot, vrnd |-> acc.rnd, vval |-> acc.val]}]
    /\ Send([type |-> "Learn", from |-> a, slot |-> acc.slot, rnd |-> acc.rnd,
             val |-> acc.val])

HandleAccept(a) ==
  \E acc \in Sent("Accept") :
    /\ acc.rnd >= accRnd[a]
    /\ accRnd' = [accRnd EXCEPT ![a] = acc.rnd]
    /\ accSlots' = [accSlots EXCEPT ![a] =
         {ps \in @ : ps.id # acc.slot}
           \cup {[id |-> acc.slot, vrnd |-> acc.rnd, vval |-> acc.val]}]
    /\ Send([type |-> "Learn", from |-> a, slot |-> acc.slot, rnd |-> acc.rnd,
             val |-> acc.val])
=============================================================================
