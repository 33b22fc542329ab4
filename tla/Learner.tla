------------------------------ MODULE Learner -------------------------------
(***************************************************************************)
(* lab5/multipaxos/learner.go.  lrnSlots keeps the list of learns of every *)
(* slot; a list never holds two learns of one sender and round, so all     *)
(* lists together are a set of Learn messages.                             *)
(***************************************************************************)
EXTENDS MultiPaxosDefs

VARIABLES
  lrnRnd,     \* l.rnd: highest round learned in, in any slot
  lrnSlots,   \* l.lrnSlots
  lrnSent,    \* slots already reported decided
  decidedOut  \* the channel to the bank handler

learnerVars == <<lrnRnd, lrnSlots, lrnSent, decidedOut>>

LearnerInit ==
  /\ lrnRnd = [l \in Learners |-> NoRound]
  /\ lrnSlots = [l \in Learners |-> {}]
  /\ lrnSent = [l \in Learners |-> {}]
  /\ decidedOut = [l \in Learners |-> <<>>]

InSlot(learns, s) == {lrn \in learns : lrn.slot = s}

\* A higher round empties the list of the learn's own slot and no other.
Record(l, lrn) ==
  /\ lrnRnd' = [lrnRnd EXCEPT ![l] = lrn.rnd]
  /\ lrnSlots' = [lrnSlots EXCEPT ![l] =
       {lrn} \cup (IF lrn.rnd > lrnRnd[l] THEN @ \ InSlot(@, lrn.slot) ELSE @)]

\* Mutant of HandleLearn: one learn less than a majority is enough.
HandleLearnEarly(l) ==
  \E lrn \in Sent("Learn") :
    /\ lrn.rnd >= lrnRnd[l]
    /\ Record(l, lrn)
    /\ IF Cardinality(InSlot(lrnSlots'[l], lrn.slot)) + 1 >= Quorum /\ lrn.slot \notin lrnSent[l]
         THEN /\ lrnSent' = [lrnSent EXCEPT ![l] = @ \cup {lrn.slot}]
              /\ decidedOut' = [decidedOut EXCEPT ![l] =
                   Append(@, [slot |-> lrn.slot, val |-> lrn.val])]
         ELSE UNCHANGED <<lrnSent, decidedOut>>
    /\ UNCHANGED msgs

\* The list's length decides, whatever rounds its learns are of, and the
\* value is that of the learn that completes it.
HandleLearn(l) ==
  \E lrn \in Sent("Learn") :
    /\ lrn.rnd >= lrnRnd[l]
    /\ lrn.rnd = lrnRnd[l] =>
         \A known \in InSlot(lrnSlots[l], lrn.slot) :
           ~(known.from = lrn.from /\ known.rnd = lrn.rnd)
    /\ Record(l, lrn)
    /\ LET complete == Cardinality(InSlot(lrnSlots'[l], lrn.slot)) >= Quorum
       IN  \/ /\ complete
              /\ lrn.slot \notin lrnSent[l]
              /\ lrnSent' = [lrnSent EXCEPT ![l] = @ \cup {lrn.slot}]
              /\ decidedOut' = [decidedOut EXCEPT ![l] =
                   Append(@, [slot |-> lrn.slot, val |-> lrn.val])]
           \/ /\ ~complete \/ lrn.slot \in lrnSent[l]
              /\ UNCHANGED <<lrnSent, decidedOut>>
    /\ UNCHANGED msgs
=============================================================================
