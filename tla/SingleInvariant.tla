--------------------------- MODULE SingleInvariant ---------------------------
(***************************************************************************)
(* Why SinglePaxos agrees: every value proposed is safe, that is, for each *)
(* earlier round there is a majority whose members voted for it in that    *)
(* round or never will vote in it.                                         *)
(***************************************************************************)
EXTENDS SinglePaxos

IsQuorum(Q) == Q \subseteq Acceptors /\ Cardinality(Q) >= Quorum

VotedFor(a, r, v) == [from |-> a, rnd |-> r, val |-> v] \in learns

WontVoteIn(a, r) ==
  /\ HighestRound[a] > r
  /\ ~ \E lrn \in learns : lrn.from = a /\ lrn.rnd = r

SafeAt(r, v) ==
  \A r2 \in 0..(r - 1) : \E Q \in SUBSET Acceptors :
    /\ IsQuorum(Q)
    /\ \A a \in Q : VotedFor(a, r2, v) \/ WontVoteIn(a, r2)

\* An acceptor's fields are its last vote, and learns are votes for proposals.
VotesInv ==
  /\ \A a \in Acceptors :
       IF VotedRound[a] = NoRound THEN VotedValue[a] = ZeroValue
                                 ELSE VotedFor(a, VotedRound[a], VotedValue[a])
  /\ \A lrn \in learns :
       /\ lrn.rnd <= VotedRound[lrn.from]
       /\ lrn.rnd = VotedRound[lrn.from] => lrn.val = VotedValue[lrn.from]
       /\ \E acc \in accepts : acc.rnd = lrn.rnd /\ acc.val = lrn.val

\* A promise reports a vote of its sender below its round, or none, and binds.
PromisesInv ==
  /\ PromiseTellsLastVote
  /\ \A prm \in promises :
       /\ prm.rnd <= HighestRound[prm.from]
       /\ prm.vrnd < prm.rnd
       /\ IF prm.vrnd = NoRound THEN prm.vval = ZeroValue
                               ELSE VotedFor(prm.from, prm.vrnd, prm.vval)

\* A proposer holds promises of its round, from different acceptors.
HeldInv ==
  \A p \in Proposers : \A i \in DOMAIN PromiseRequests[p] :
    LET prm == PromiseRequests[p][i]
    IN  /\ prm \in promises /\ prm.rnd = crnd[p]
        /\ \A j \in DOMAIN PromiseRequests[p] :
             PromiseRequests[p][j].from = prm.from => i = j

ProposalsSafe == Unambiguous => \A acc \in accepts : SafeAt(acc.rnd, acc.val)

\* The learns a learner counts together are of one round and of different
\* acceptors.
CountedInv ==
  \A l \in Learners : \A lrn \in LrnVals[l] :
    /\ lrn.rnd = lrnRound[l]
    /\ \A other \in LrnVals[l] : other.from = lrn.from => other = lrn

\* The inductive invariant of SinglePaxos.
SingleInv ==
  /\ SingleTypeOK
  /\ VotesInv /\ PromisesInv /\ HeldInv /\ ProposalsSafe /\ CountedInv
  /\ RepliesIfUnambiguous
=============================================================================
