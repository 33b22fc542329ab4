---------------------------- MODULE BankDelivery -----------------------------
(***************************************************************************)
(* A bank handler by itself, fed by a learner that reports the decided     *)
(* slots in any order and possibly more than once, and by a proposer that  *)
(* takes every increment.  MultiPaxos feeds it the slots its learner       *)
(* really decides, each once.                                              *)
(***************************************************************************)
EXTENDS BankHandler

CONSTANT MaxSlot   \* bound: the highest slot decided

VARIABLES
  decision,  \* the value decided in each slot
  delivered  \* history: what each handler has taken from its learner's channel

ASSUME DeliveryAssumption == Learners # {} /\ MaxSlot \in Nat

deliveryVars == <<msgs, decision, delivered, bankVars>>

Decided(s) == [slot |-> s, val |-> decision[s]]

Init ==
  /\ msgs = {}
  /\ decision \in [0..MaxSlot -> Value]
  /\ delivered = [l \in Learners |-> {}]
  /\ BankInit

Deliver(l) ==
  /\ \E s \in 0..MaxSlot :
       /\ HandleDecidedValue(l, Decided(s))
       /\ delivered' = [delivered EXCEPT ![l] = @ \cup {Decided(s)}]
  /\ UNCHANGED <<msgs, decision>>

Drain(l) == HandleBuffered(l) /\ UNCHANGED <<msgs, decision, delivered>>

TakeIncrement(l) == ProposerTold(l) /\ UNCHANGED <<msgs, decision, delivered>>

Next == \E l \in Learners : Deliver(l) \/ Drain(l) \/ TakeIncrement(l)

\* HandleDecidedValue runs to its end once called, and the proposer's loop
\* receives the increment it is offered.  Nothing says a slot is delivered.
Fairness == \A l \in Learners :
  /\ WF_deliveryVars(Drain(l))
  /\ WF_deliveryVars(TakeIncrement(l))

Spec == Init /\ [][Next]_deliveryVars /\ Fairness

-----------------------------------------------------------------------------
\* Any learner: the bank handlers of different nodes share nothing here.
Node == CHOOSE l \in Learners : TRUE

Log == INSTANCE ReplicatedLog WITH
         Entries <- DecidedValue,
         known <- delivered[Node],
         log <- bankLog[Node]

\* The handler executes what was delivered to it in slot order, each slot
\* exactly once, whatever the order and repetition of the deliveries, and a
\* value delivered early is executed once the slots below it have been.
ImplementsLog == Log!Spec

\* Every node executes the decided values in slot order, each once: nodes that
\* have come as far as each other have executed the same.
DecisionsInOrder ==
  \A l \in Learners :
    /\ Len(bankLog[l]) = bankAdu[l] + 1
    /\ \A i \in DOMAIN bankLog[l] : i - 1 <= MaxSlot /\ bankLog[l][i] = decision[i - 1]
=============================================================================
