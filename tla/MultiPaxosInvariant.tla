------------------------- MODULE MultiPaxosInvariant -------------------------
(***************************************************************************)
(* The inductive invariant behind the agreement and promise properties of  *)
(* MultiPaxosSafety: what the messages say of the acceptors that sent      *)
(* them, what a proposer may still propose in its round, and that every    *)
(* proposal is safe, in the sense that no other value was or can still be  *)
(* chosen in an earlier round of its slot.                                 *)
(***************************************************************************)
EXTENDS MultiPaxosSafety

IsQuorum(Q) == Q \subseteq Acceptors /\ Cardinality(Q) >= Quorum

VotedFor(a, s, r, v) ==
  \E lrn \in Sent("Learn") :
    lrn.from = a /\ lrn.slot = s /\ lrn.rnd = r /\ lrn.val = v

WontVoteIn(a, s, r) ==
  /\ accRnd[a] > r
  /\ \A lrn \in Sent("Learn") : ~(lrn.from = a /\ lrn.slot = s /\ lrn.rnd = r)

\* In no round below r can a value other than v be or become chosen in slot s.
SafeAt(s, r, v) ==
  \A r2 \in 0..(r - 1) : \E Q \in SUBSET Acceptors :
    /\ IsQuorum(Q)
    /\ \A a \in Q : VotedFor(a, s, r2, v) \/ WontVoteIn(a, s, r2)

Proposed(s, r) == \E acc \in Sent("Accept") : acc.slot = s /\ acc.rnd = r

-----------------------------------------------------------------------------
(* Acceptors *)

\* A vote is for an accept that was sent, in a round its acceptor has seen.
LearnInv ==
  \A lrn \in Sent("Learn") :
    /\ lrn.rnd <= accRnd[lrn.from]
    /\ \E acc \in Sent("Accept") :
         acc.slot = lrn.slot /\ acc.rnd = lrn.rnd /\ acc.val = lrn.val

\* accSlots holds votes, and for each vote one at least as recent.
AcceptorInv ==
  /\ \A a \in Acceptors : \A ps \in accSlots[a] : VotedFor(a, ps.id, ps.vrnd, ps.vval)
  /\ \A lrn \in Sent("Learn") : \E ps \in accSlots[lrn.from] :
       ps.id = lrn.slot /\ ps.vrnd >= lrn.rnd

\* The votes below the promised round that prm must report.
Reports(prm, prp) ==
  \A lrn \in Sent("Learn") :
    lrn.from = prm.from /\ lrn.rnd < prm.rnd /\ lrn.slot >= prp.slot
      => \E ps \in prm.slots : ps.id = lrn.slot /\ ps.vrnd >= lrn.rnd

PromiseInv ==
  \A prm \in Sent("Promise") :
    /\ prm.rnd <= accRnd[prm.from]
    /\ \A ps \in prm.slots :
         ps.vrnd < prm.rnd /\ VotedFor(prm.from, ps.id, ps.vrnd, ps.vval)
    /\ \E prp \in Sent("Prepare") :
         prp.from = prm.to /\ prp.crnd = prm.rnd /\ Reports(prm, prp)

-----------------------------------------------------------------------------
(* Proposers *)

\* One prepare per proposer and round.
PrepareInv ==
  /\ \A prp \in Sent("Prepare") :
       /\ prp.crnd <= crnd[prp.from]
       /\ prp.crnd = crnd[prp.from] => prp.slot <= adu[prp.from]
  /\ \A prp1, prp2 \in Sent("Prepare") :
       prp1.from = prp2.from /\ prp1.crnd = prp2.crnd => prp1 = prp2

\* Promises p can hold: sent to it, for its current round, by different
\* acceptors.
Held(p, prms) ==
  /\ IsFiniteSet(prms)
  /\ prms \subseteq Sent("Promise")
  /\ \A prm \in prms : prm.to = p /\ prm.rnd = crnd[p]
  /\ \A prm1, prm2 \in prms : prm1.from = prm2.from => prm1 = prm2

HeldInv == \A p \in Proposers : Held(p, promises[p])

\* The queued accepts are of p's current round, and safe.
QueueSafe(p, out) ==
  \A i \in DOMAIN out :
    /\ out[i].from = p
    /\ out[i].rnd = crnd[p]
    /\ ProposedOnce(out[i].slot) => SafeAt(out[i].slot, out[i].rnd, out[i].val)

\* The promises speak of every slot from next on.
Covered(p, next) ==
  \A prp \in Sent("Prepare") :
    prp.from = p /\ prp.crnd = crnd[p] => prp.slot < next

\* A reported slot that is not behind next is queued, or was proposed in this
\* round: a client value cannot take it unnoticed.
NoneOverlooked(p, prms, next, out) ==
  \A prm \in prms : \A ps \in prm.slots :
    ps.id >= next =>
      \/ \E i \in DOMAIN out : out[i].slot = ps.id
      \/ Proposed(ps.id, crnd[p])

\* What p may rely on when it proposes with promises prms, nextSlot = next
\* and acceptsOut = out.
Ready(p, prms, next, out) ==
  /\ Cardinality(prms) >= Quorum
  /\ QueueSafe(p, out)
  /\ Covered(p, next)
  /\ NoneOverlooked(p, prms, next, out)

PhaseTwoInv ==
  \A p \in Proposers :
    phaseOneDone[p] => Ready(p, promises[p], nextSlot[p], acceptsOut[p])

\* Every proposal is safe in a slot where no round has two proposals.
ProposalInv ==
  \A acc \in Sent("Accept") :
    ProposedOnce(acc.slot) => SafeAt(acc.slot, acc.rnd, acc.val)

-----------------------------------------------------------------------------
\* What agreement rests on: the acceptors' votes are what their messages say,
\* the proposers' state is what their promises allow, proposals are safe.
SafetyInv ==
  /\ LearnInv
  /\ AcceptorInv
  /\ PromiseInv
  /\ PrepareInv
  /\ HeldInv
  /\ PhaseTwoInv
  /\ ProposalInv
=============================================================================
