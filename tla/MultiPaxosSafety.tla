-------------------------- MODULE MultiPaxosSafety --------------------------
(***************************************************************************)
(* The safety properties of MultiPaxos.                                    *)
(***************************************************************************)
EXTENDS MultiPaxos

-----------------------------------------------------------------------------
(* Votes and choices, read off the messages *)

VotersFor(s, r, v) ==
  {a \in Acceptors : \E lrn \in Sent("Learn") :
     lrn.from = a /\ lrn.slot = s /\ lrn.rnd = r /\ lrn.val = v}

Chosen(s, r, v) == Cardinality(VotersFor(s, r, v)) >= Quorum

\* No round has two values proposed for slot s.
ProposedOnce(s) ==
  \A acc1, acc2 \in Sent("Accept") :
    acc1.slot = s /\ acc2.slot = s /\ acc1.rnd = acc2.rnd => acc1.val = acc2.val

\* The votes for slot s were cast in one round only.
OneRound(s) ==
  \A lrn1, lrn2 \in Sent("Learn") : lrn1.slot = s /\ lrn2.slot = s => lrn1.rnd = lrn2.rnd

\* What node l decided: on the channel, in the bank's buffer, or processed.
DecidedBy(l) ==
  {decidedOut[l][i] : i \in DOMAIN decidedOut[l]} \cup bankBuffer[l]
    \cup {[slot |-> i - 1, val |-> bankLog[l][i]] : i \in DOMAIN bankLog[l]}

-----------------------------------------------------------------------------
(* Invariants *)

\* As long as no round proposes two values for a slot, majorities of
\* acceptors never vote for different values in that slot, whatever rounds
\* they vote in, whichever proposers believe they lead and whatever the
\* learners report: the promise, accept and propose handlers together.
AgreementIfProposedOnce ==
  \A lrn1, lrn2 \in Sent("Learn") :
    /\ lrn1.slot = lrn2.slot
    /\ ProposedOnce(lrn1.slot)
    /\ Chosen(lrn1.slot, lrn1.rnd, lrn1.val)
    /\ Chosen(lrn2.slot, lrn2.rnd, lrn2.val)
    => lrn1.val = lrn2.val

\* A promise hides no vote: what its sender voted for in earlier rounds, in
\* a slot the prepare asked about, is reported with that round or a later
\* one, even when the vote was cast after other promises or is cast late.
PromiseReportsVotes ==
  \A prm \in Sent("Promise"), lrn \in Sent("Learn"), prp \in Sent("Prepare") :
    /\ lrn.from = prm.from
    /\ prp.from = prm.to /\ prp.crnd = prm.rnd
    /\ lrn.rnd < prm.rnd
    /\ lrn.slot >= prp.slot
    => \E ps \in prm.slots : ps.id = lrn.slot /\ ps.vrnd >= lrn.rnd

\* A proposer proposes in a round only after a majority promised it that
\* round, however often the leader changed and phase one restarted with
\* accepts of an older round still queued.
ProposalHasQuorum ==
  \A acc \in Sent("Accept") :
    Cardinality({prm.from : prm \in {m \in Sent("Promise") :
                   m.to = acc.from /\ m.rnd = acc.rnd}}) >= Quorum

\* Every slot the learner reported decided is in exactly one place: on the
\* channel, in the bank's buffer, or processed; the log holds one value for
\* each processed slot.  None is lost or handled twice.
DecisionsAccounted ==
  \A l \in Learners :
    LET queued == {decidedOut[l][i].slot : i \in DOMAIN decidedOut[l]}
        buffered == {dVal.slot : dVal \in bankBuffer[l]}
        done == 0..bankAdu[l]
    IN  /\ lrnSent[l] = queued \cup buffered \cup done
        /\ Cardinality(lrnSent[l]) =
             Len(decidedOut[l]) + Cardinality(bankBuffer[l]) + Len(bankLog[l])
        /\ Len(bankLog[l]) = bankAdu[l] + 1

\* What a node hands to its bank and executes in a slot, a majority chose, as
\* long as all votes for the slot are of one round that proposed one value:
\* learner, channel, buffer and log together.
DecidedIsChosen ==
  \A l \in Learners : \A dVal \in DecidedBy(l) :
    OneRound(dVal.slot) /\ ProposedOnce(dVal.slot)
      => \E lrn \in Sent("Learn") :
           /\ lrn.slot = dVal.slot /\ lrn.val = dVal.val
           /\ Chosen(lrn.slot, lrn.rnd, lrn.val)

\* The proposer's adu is the bank's, one behind while the bank waits for the
\* proposer to take the increment.
AduFollowsBank ==
  \A l \in Learners :
    adu[l] = bankAdu[l] - (IF bankWaiting[l] THEN 1 ELSE 0)

-----------------------------------------------------------------------------
(* Action properties *)

\* An acceptor's round never decreases and a vote is replaced only by a vote
\* of the same or a later round in the same slot.
VotesOnlyAdvance ==
  [][\A a \in Acceptors :
       /\ accRnd'[a] >= accRnd[a]
       /\ \A ps \in accSlots[a] : \E new \in accSlots'[a] :
            new.id = ps.id /\ new.vrnd >= ps.vrnd]_vars

-----------------------------------------------------------------------------
(* What the repository says and the code does not keep *)

\* lab5/README.md:278: "The Paxos protocol ensure that the same value will be
\* decided for the same slot".
SameValueForSlot ==
  \A lrn1, lrn2 \in Sent("Learn") :
    /\ lrn1.slot = lrn2.slot
    /\ Chosen(lrn1.slot, lrn1.rnd, lrn1.val)
    /\ Chosen(lrn2.slot, lrn2.rnd, lrn2.val)
    => lrn1.val = lrn2.val

\* lab5/multipaxos/learner_test.go:171: learns of "different rounds, unique
\* senders = no quorum".
DecideOnOneRound ==
  [][\A l \in Learners : \A s \in lrnSent'[l] \ lrnSent[l] :
       \E r \in {lrn.rnd : lrn \in lrnSlots'[l]} :
         Cardinality({lrn.from : lrn \in {e \in InSlot(lrnSlots'[l], s) : e.rnd = r}})
           >= Quorum]_vars
=============================================================================
