-------------------------- MODULE SinglePaxosProof --------------------------
(***************************************************************************)
(* Single-decree Paxos of lab4, for every set of acceptors, proposers,     *)
(* learners and values, and any number of rounds: its types, the inductive *)
(* invariant, and from it agreement and true replies.                      *)
(***************************************************************************)
EXTENDS SingleInvariant, FiniteSetTheorems, SequenceTheorems, TLAPS

-----------------------------------------------------------------------------
(* Quorums *)

\* proposer.go and learner.go compute the majority from the number of nodes.
LEMMA QuorumType ==
  /\ NumNodes \in Nat /\ NumNodes > 0
  /\ Quorum \in Nat /\ Quorum > 0 /\ 2 * Quorum > NumNodes
<1>1. NumNodes \in Nat /\ NumNodes > 0
  <2>1. Cardinality(Acceptors) \in Nat /\ Cardinality(Acceptors) # 0
    BY SinglePaxosAssumption, FS_CardinalityType, FS_EmptySet
  <2> QED BY <2>1 DEF NumNodes
<1> QED BY <1>1 DEF Quorum

\* Two majorities have an acceptor in common.
LEMMA QuorumsMeet ==
  ASSUME NEW Q1, NEW Q2, IsQuorum(Q1), IsQuorum(Q2)
  PROVE  Q1 \cap Q2 # {}
<1>1. Cardinality(Q1) \in Nat /\ Cardinality(Q2) \in Nat
  BY SinglePaxosAssumption, FS_Subset, FS_CardinalityType DEF IsQuorum
<1>2. Cardinality(Q1) + Cardinality(Q2) > Cardinality(Acceptors)
  BY <1>1, QuorumType DEF IsQuorum, NumNodes
<1> QED BY <1>2, SinglePaxosAssumption, FS_MajoritiesIntersect DEF IsQuorum

\* As many messages as make a majority, from different acceptors, have a
\* majority of senders.
LEMMA SendersQuorum ==
  ASSUME NEW S, NEW from \in [S -> Acceptors], Cardinality(S) >= Quorum,
         \A x, y \in S : from[x] = from[y] => x = y
  PROVE  IsQuorum({from[x] : x \in S})
<1> DEFINE Q == {from[x] : x \in S}
<1>1. Q \subseteq Acceptors
  OBVIOUS
<1>2. IsFiniteSet(Q)
  BY <1>1, SinglePaxosAssumption, FS_Subset
<1>3. from \in Injection(S, Q)
  BY DEF Injection, IsInjective
<1>4. IsFiniteSet(S) /\ Cardinality(S) <= Cardinality(Q)
  BY <1>2, <1>3, FS_Injection
<1>5. Cardinality(S) \in Nat /\ Cardinality(Q) \in Nat
  BY <1>2, <1>4, FS_CardinalityType
<1> QED BY <1>1, <1>4, <1>5, QuorumType DEF IsQuorum

-----------------------------------------------------------------------------
(* Types *)

\* The promise a proposer takes in is of a round it asked for.
LEMMA HandlePromiseType ==
  ASSUME SingleTypeOK, NEW p \in Proposers, HandlePromise(p)
  PROVE  SingleTypeOK'
<1>1. PICK prm \in promises :
        /\ prm.to = p /\ prm.rnd = crnd[p]
        /\ PromiseRequests' = [PromiseRequests EXCEPT ![p] = Append(@, prm)]
  BY DEF HandlePromise
<1>2. prm \in Promise
  BY DEF SingleTypeOK
<1>3. crnd[p] \in 0..MaxRound
  BY <1>1, <1>2 DEF Promise
<1>4. PromiseRequests' \in [Proposers -> Seq(Promise)]
  BY <1>1, <1>2, AppendProperties DEF SingleTypeOK
<1>5. accepts' \subseteq Accept
  <2>1. PromiseRequests'[p] \in Seq(Promise)
    BY <1>4
  <2>2. constrainedValue(PromiseRequests'[p]) \subseteq Value
    <3>1. \A i \in DOMAIN PromiseRequests'[p] : PromiseRequests'[p][i] \in Promise
      BY <2>1
    <3> QED BY <3>1 DEF constrainedValue, Promise
  <2>3. clientValue[p] \in Value
    BY DEF SingleTypeOK
  <2>4. \/ accepts' = accepts
        \/ \E v \in Value : accepts' = accepts \cup {[from |-> p, rnd |-> crnd[p], val |-> v]}
    BY <2>2, <2>3 DEF HandlePromise
  <2> QED BY <2>4, <1>3 DEF SingleTypeOK, Accept
<1> QED BY <1>4, <1>5 DEF SingleTypeOK, HandlePromise, acceptorVars, learnerVars

LEMMA ClientHandlerType ==
  ASSUME SingleTypeOK, NEW p \in Proposers, ClientHandler(p)
  PROVE  SingleTypeOK'
<1>1. crnd[p] \in Nat /\ crnd[p] + NumNodes \in 0..MaxRound
  BY QuorumType, SinglePaxosAssumption DEF SingleTypeOK, ClientHandler
<1>2. crnd' \in [Proposers -> Nat] /\ crnd'[p] = crnd[p] + NumNodes
  BY <1>1 DEF SingleTypeOK, ClientHandler
<1>3. prepares' \subseteq Prepare
  BY <1>1, <1>2 DEF SingleTypeOK, ClientHandler, Prepare
<1>4. clientValue' \in [Proposers -> Value]
  BY DEF SingleTypeOK, ClientHandler, Value
<1>5. PromiseRequests' \in [Proposers -> Seq(Promise)]
  BY DEF SingleTypeOK, ClientHandler
<1> QED BY <1>2, <1>3, <1>4, <1>5 DEF SingleTypeOK, ClientHandler, acceptorVars, learnerVars

LEMMA HandlePrepareType ==
  ASSUME SingleTypeOK, NEW a \in Acceptors, HandlePrepare(a)
  PROVE  SingleTypeOK'
<1>1. PICK prp \in prepares :
        /\ prp.crnd > HighestRound[a]
        /\ HighestRound' = [HighestRound EXCEPT ![a] = prp.crnd]
        /\ promises' = promises \cup {[to |-> prp.from, from |-> a, rnd |-> prp.crnd,
                          vrnd |-> VotedRound[a], vval |-> VotedValue[a]]}
  BY DEF HandlePrepare
<1>2. prp.from \in Proposers /\ prp.crnd \in 0..MaxRound
  BY DEF SingleTypeOK, Prepare
<1>3. VotedRound[a] \in Round /\ VotedValue[a] \in Value
  BY DEF SingleTypeOK
<1>4. promises' \subseteq Promise
  BY <1>1, <1>2, <1>3 DEF SingleTypeOK, Promise
<1>5. HighestRound' \in [Acceptors -> Round]
  BY <1>1, <1>2, SinglePaxosAssumption DEF SingleTypeOK, Round, NoRound
<1>6. \A b \in Acceptors : VotedRound[b] <= HighestRound'[b]
  <2> TAKE b \in Acceptors
  <2>1. VotedRound[b] \in Int /\ HighestRound[b] \in Int /\ VotedRound[b] <= HighestRound[b]
    BY DEF SingleTypeOK, Round, NoRound
  <2>2. HighestRound'[b] = IF b = a THEN prp.crnd ELSE HighestRound[b]
    BY <1>1 DEF SingleTypeOK
  <2> QED BY <2>1, <2>2, <1>1, <1>2
<1> QED BY <1>4, <1>5, <1>6
        DEF SingleTypeOK, HandlePrepare, proposerVars, learnerVars

LEMMA HandleAcceptType ==
  ASSUME SingleTypeOK, NEW a \in Acceptors, HandleAccept(a)
  PROVE  SingleTypeOK'
<1>1. PICK acc \in accepts :
        /\ HighestRound' = [HighestRound EXCEPT ![a] = acc.rnd]
        /\ VotedRound' = [VotedRound EXCEPT ![a] = acc.rnd]
        /\ VotedValue' = [VotedValue EXCEPT ![a] = acc.val]
        /\ learns' = learns \cup {[from |-> a, rnd |-> acc.rnd, val |-> acc.val]}
  BY DEF HandleAccept
<1>2. acc.rnd \in 0..MaxRound /\ acc.val \in Value
  BY DEF SingleTypeOK, Accept
<1>3. acc.rnd \in Round
  BY <1>2, SinglePaxosAssumption DEF Round, NoRound
<1>4. learns' \subseteq Learn
  BY <1>1, <1>2 DEF SingleTypeOK, Learn
<1>5. \A b \in Acceptors : VotedRound'[b] <= HighestRound'[b]
  BY <1>1, <1>2 DEF SingleTypeOK
<1>6. LrnVals' \in [Learners -> SUBSET learns']
  BY <1>1 DEF SingleTypeOK, HandleAccept, learnerVars
<1> QED BY <1>1, <1>2, <1>3, <1>4, <1>5, <1>6
        DEF SingleTypeOK, HandleAccept, proposerVars, learnerVars

LEMMA HandleLearnType ==
  ASSUME SingleTypeOK, NEW l \in Learners, HandleLearn(l)
  PROVE  SingleTypeOK'
<1>1. PICK lrn \in learns :
        /\ lrnRound' = [lrnRound EXCEPT ![l] = lrn.rnd]
        /\ LrnVals' = [LrnVals EXCEPT ![l] = Kept(l, lrn.rnd) \cup {lrn}]
  BY DEF HandleLearn
<1>2. lrn.rnd \in Round
  BY SinglePaxosAssumption DEF SingleTypeOK, Learn, Round, NoRound
<1>3. Kept(l, lrn.rnd) \subseteq learns
  BY DEF SingleTypeOK, Kept
<1>4. LrnVals' \in [Learners -> SUBSET learns] /\ LrnVals'[l] \subseteq learns
  BY <1>1, <1>3 DEF SingleTypeOK
<1>5. \A other \in learns : other.val \in Value
  BY DEF SingleTypeOK, Learn
<1>6. ConsensusValue' \in [Learners -> Value]
  BY <1>4, <1>5 DEF SingleTypeOK, HandleLearn
<1>7. replies' \subseteq Value
  <2>1. replies' \subseteq replies \cup {ConsensusValue'[l]}
    BY DEF HandleLearn
  <2> QED BY <1>6, <2>1 DEF SingleTypeOK
<1> QED BY <1>1, <1>2, <1>4, <1>6, <1>7
        DEF SingleTypeOK, HandleLearn, proposerVars, acceptorVars

\* Types hold initially.
LEMMA InitType == Init => SingleTypeOK
BY SinglePaxosAssumption
   DEF Init, SingleTypeOK, Value, Round, NoRound, Prepare, Promise, Accept, Learn

\* Every step keeps them.
LEMMA NextType ==
  ASSUME SingleTypeOK, [Next]_vars
  PROVE  SingleTypeOK'
<1>1. CASE UNCHANGED vars
  BY <1>1 DEF SingleTypeOK, vars, proposerVars, acceptorVars, learnerVars
<1>2. CASE Next
  BY <1>2, ClientHandlerType, HandlePromiseType, HandlePrepareType, HandleAcceptType,
     HandleLearnType DEF Next
<1> QED BY <1>1, <1>2

\* Types hold in every state of lab4's single-decree Paxos.
THEOREM SingleTypeCorrect == Spec => []SingleTypeOK
BY InitType, NextType, PTL DEF Spec

-----------------------------------------------------------------------------
(* What steps keep *)

\* Messages are not forgotten, the highest round an acceptor saw does not
\* decrease, and a new vote is in a round at least as high.
Advances ==
  /\ promises \subseteq promises' /\ accepts \subseteq accepts' /\ learns \subseteq learns'
  /\ \A a \in Acceptors : HighestRound[a] <= HighestRound'[a]
  /\ \A lrn \in learns' : lrn \in learns \/ lrn.rnd >= HighestRound[lrn.from]

LEMMA NextAdvances ==
  ASSUME SingleTypeOK, [Next]_vars
  PROVE  Advances
<1>1. \A a \in Acceptors : HighestRound[a] \in Int
  BY DEF SingleTypeOK, Round, NoRound
<1>2. CASE UNCHANGED <<HighestRound, learns>>
  <2>1. promises \subseteq promises' /\ accepts \subseteq accepts'
    BY DEF Next, vars, ClientHandler, HandlePromise, HandlePrepare, HandleAccept, HandleLearn
  <2> QED BY <1>1, <1>2, <2>1 DEF Advances
<1>3. ASSUME NEW a \in Acceptors, HandlePrepare(a) PROVE Advances
  <2>1. PICK prp \in prepares :
          prp.crnd > HighestRound[a] /\ HighestRound' = [HighestRound EXCEPT ![a] = prp.crnd]
    BY <1>3 DEF HandlePrepare
  <2>2. prp.crnd \in Int
    BY DEF SingleTypeOK, Prepare
  <2>3. \A b \in Acceptors : HighestRound[b] <= HighestRound'[b]
    BY <1>1, <2>1, <2>2 DEF SingleTypeOK
  <2> QED BY <1>3, <2>3 DEF HandlePrepare, Advances
<1>4. ASSUME NEW a \in Acceptors, HandleAccept(a) PROVE Advances
  <2>1. PICK acc \in accepts :
          /\ acc.rnd >= HighestRound[a]
          /\ HighestRound' = [HighestRound EXCEPT ![a] = acc.rnd]
          /\ learns' = learns \cup {[from |-> a, rnd |-> acc.rnd, val |-> acc.val]}
    BY <1>4 DEF HandleAccept
  <2>2. acc.rnd \in Int
    BY DEF SingleTypeOK, Accept
  <2>3. \A b \in Acceptors : HighestRound[b] <= HighestRound'[b]
    BY <1>1, <2>1, <2>2 DEF SingleTypeOK
  <2> QED BY <1>4, <2>1, <2>3 DEF HandleAccept, Advances
<1> QED BY <1>2, <1>3, <1>4
        DEF Next, vars, ClientHandler, HandlePromise, HandleLearn, acceptorVars

\* A vote that will never be cast stays uncast.
LEMMA WontVoteStable ==
  ASSUME SingleTypeOK, SingleTypeOK', Advances, NEW a \in Acceptors, NEW r \in Int,
         WontVoteIn(a, r)
  PROVE  WontVoteIn(a, r)'
<1>1. HighestRound[a] \in Int /\ HighestRound'[a] \in Int
  BY DEF SingleTypeOK, Round, NoRound
<1>2. HighestRound'[a] > r
  BY <1>1 DEF Advances, WontVoteIn
<1>3. \A lrn \in learns' : ~(lrn.from = a /\ lrn.rnd = r)
  BY <1>1 DEF Advances, WontVoteIn
<1> QED BY <1>2, <1>3 DEF WontVoteIn

\* A value that is safe stays safe.
LEMMA SafeAtStable ==
  ASSUME SingleTypeOK, SingleTypeOK', Advances, NEW r \in Int, NEW v, SafeAt(r, v)
  PROVE  SafeAt(r, v)'
<1> SUFFICES ASSUME NEW r2 \in 0..(r - 1)
             PROVE  \E Q \in SUBSET Acceptors :
                      /\ IsQuorum(Q)
                      /\ \A a \in Q : VotedFor(a, r2, v)' \/ WontVoteIn(a, r2)'
  BY DEF SafeAt, IsQuorum, Quorum, NumNodes
<1>1. PICK Q \in SUBSET Acceptors :
        /\ IsQuorum(Q)
        /\ \A a \in Q : VotedFor(a, r2, v) \/ WontVoteIn(a, r2)
  BY DEF SafeAt
<1>2. \A a \in Q : VotedFor(a, r2, v)' \/ WontVoteIn(a, r2)'
  BY <1>1, WontVoteStable DEF VotedFor, Advances
<1> QED BY <1>1, <1>2

\* A value that was chosen stays chosen.
LEMMA ChosenStable ==
  ASSUME SingleTypeOK, Advances, NEW r, NEW v, Chosen(r, v)
  PROVE  Chosen(r, v)'
<1> DEFINE before == {a \in Acceptors : [from |-> a, rnd |-> r, val |-> v] \in learns}
           after == {a \in Acceptors : [from |-> a, rnd |-> r, val |-> v] \in learns'}
<1>1. before \subseteq after /\ IsFiniteSet(after)
  BY SinglePaxosAssumption, FS_Subset DEF Advances
<1>2. /\ Cardinality(before) <= Cardinality(after)
      /\ Cardinality(before) \in Nat /\ Cardinality(after) \in Nat
  BY <1>1, FS_Subset, FS_CardinalityType
<1>3. Cardinality(before) >= Quorum
  BY DEF Chosen
<1>4. Cardinality(after) >= Quorum
  BY <1>2, <1>3, QuorumType
<1> QED BY <1>4 DEF Chosen, Quorum, NumNodes

\* What is unambiguous after a step was so before.
LEMMA UnambiguousBefore ==
  ASSUME Advances, Unambiguous'
  PROVE  Unambiguous
BY DEF Advances, Unambiguous

-----------------------------------------------------------------------------
(* Agreement follows from safe proposals *)

\* A value chosen in a round below that of a safe value is that value.
LEMMA ChosenBelow ==
  ASSUME VotesInv, Unambiguous, NEW r1 \in Nat, NEW r2 \in Int, r1 < r2, NEW v1, NEW v2,
         Chosen(r1, v1), SafeAt(r2, v2)
  PROVE  v1 = v2
<1> DEFINE voters == {a \in Acceptors : [from |-> a, rnd |-> r1, val |-> v1] \in learns}
<1>1. PICK Q \in SUBSET Acceptors :
        /\ IsQuorum(Q)
        /\ \A a \in Q : VotedFor(a, r1, v2) \/ WontVoteIn(a, r1)
  BY DEF SafeAt
<1>2. IsQuorum(voters)
  BY DEF Chosen, IsQuorum
<1>3. PICK a \in Q : a \in voters
  BY <1>1, <1>2, QuorumsMeet
<1>4. [from |-> a, rnd |-> r1, val |-> v1] \in learns
  BY <1>3
<1>5. [from |-> a, rnd |-> r1, val |-> v2] \in learns
  BY <1>1, <1>4 DEF VotedFor, WontVoteIn
<1>6. /\ \E acc \in accepts : acc.rnd = r1 /\ acc.val = v1
      /\ \E acc \in accepts : acc.rnd = r1 /\ acc.val = v2
  BY <1>4, <1>5 DEF VotesInv
<1> QED BY <1>6 DEF Unambiguous

LEMMA InvAgreement == SingleInv => AgreementIfUnambiguous
<1> SUFFICES ASSUME SingleInv, Unambiguous,
                    NEW lrn1 \in learns, NEW lrn2 \in learns,
                    Chosen(lrn1.rnd, lrn1.val), Chosen(lrn2.rnd, lrn2.val)
             PROVE  lrn1.val = lrn2.val
  BY DEF AgreementIfUnambiguous, OneChosen
<1>1. PICK acc1 \in accepts : acc1.rnd = lrn1.rnd /\ acc1.val = lrn1.val
  BY DEF SingleInv, VotesInv
<1>2. PICK acc2 \in accepts : acc2.rnd = lrn2.rnd /\ acc2.val = lrn2.val
  BY DEF SingleInv, VotesInv
<1>3. SafeAt(lrn1.rnd, lrn1.val) /\ SafeAt(lrn2.rnd, lrn2.val)
  BY <1>1, <1>2 DEF SingleInv, ProposalsSafe
<1>4. lrn1.rnd \in Nat /\ lrn2.rnd \in Nat
  BY DEF SingleInv, SingleTypeOK, Learn
<1>5. CASE lrn1.rnd = lrn2.rnd
  BY <1>1, <1>2, <1>5 DEF Unambiguous
<1>6. CASE lrn1.rnd < lrn2.rnd
  BY <1>3, <1>4, <1>6, ChosenBelow DEF SingleInv
<1>7. CASE lrn2.rnd < lrn1.rnd
  BY <1>3, <1>4, <1>7, ChosenBelow DEF SingleInv
<1> QED BY <1>4, <1>5, <1>6, <1>7

-----------------------------------------------------------------------------
(* What a majority of promises allows *)

\* A sequence of promises of round r, as a proposer holds it.
Held(prms, r) ==
  /\ prms \in Seq(promises)
  /\ \A i, j \in DOMAIN prms : prms[i].from = prms[j].from => i = j
  /\ \A i \in DOMAIN prms : prms[i].rnd = r

LEMMA HeldQuorum ==
  ASSUME SingleTypeOK, NEW prms, NEW r, Held(prms, r), Len(prms) >= Quorum
  PROVE  IsQuorum({prms[i].from : i \in DOMAIN prms})
<1> DEFINE from == [i \in DOMAIN prms |-> prms[i].from]
<1>1. DOMAIN prms = 1..Len(prms) /\ Len(prms) \in Nat
  BY DEF Held
<1>2. Cardinality(DOMAIN prms) = Len(prms)
  <2>1. Cardinality(1..Len(prms)) = IF 1 > Len(prms) THEN 0 ELSE Len(prms) - 1 + 1
    BY <1>1, FS_Interval
  <2> QED BY <1>1, <2>1
<1>3. \A i \in DOMAIN prms : prms[i] \in Promise
  BY <1>1 DEF Held, SingleTypeOK
<1>4. from \in [DOMAIN prms -> Acceptors]
  BY <1>3 DEF Promise
<1>5. \A i, j \in DOMAIN prms : from[i] = from[j] => i = j
  BY DEF Held
<1>6. IsQuorum({from[i] : i \in DOMAIN prms})
  BY <1>2, <1>4, <1>5, SendersQuorum
<1> QED BY <1>6

\* An acceptor that promised round r and reports no vote as late as r2 does not
\* vote in r2.
LEMMA SilentWontVote ==
  ASSUME SingleTypeOK, PromisesInv, NEW prm \in promises, NEW r2 \in Int,
         prm.vrnd < r2, r2 < prm.rnd
  PROVE  WontVoteIn(prm.from, r2)
<1>1. prm \in Promise
  BY DEF SingleTypeOK
<1>2. /\ prm.rnd \in Int /\ prm.vrnd \in Int
      /\ HighestRound[prm.from] \in Int
  BY <1>1 DEF Promise, SingleTypeOK, Round, NoRound
<1>3. HighestRound[prm.from] > r2
  BY <1>2 DEF PromisesInv
<1>4. ASSUME NEW lrn \in learns, lrn.from = prm.from, lrn.rnd = r2 PROVE FALSE
  BY <1>2, <1>4 DEF PromisesInv, PromiseTellsLastVote
<1> QED BY <1>3, <1>4 DEF WontVoteIn

\* If none of a majority of promises reports a value, any value is safe.
LEMMA UnreportedSafe ==
  ASSUME SingleTypeOK, VotesInv, PromisesInv, Unambiguous,
         NEW prms, NEW r \in Int, Held(prms, r), Len(prms) >= Quorum,
         \A i \in DOMAIN prms : prms[i].vval = ZeroValue,
         NEW v
  PROVE  SafeAt(r, v)
<1> DEFINE Q == {prms[i].from : i \in DOMAIN prms}
<1>1. IsQuorum(Q)
  BY HeldQuorum
<1>2. \A i \in DOMAIN prms : prms[i] \in promises /\ prms[i].rnd = r
  BY DEF Held
<1>3. ASSUME NEW i \in DOMAIN prms PROVE prms[i].vrnd = NoRound
  <2>1. \A acc \in accepts : acc.val # ZeroValue
    BY DEF Unambiguous
  <2>2. ~VotedFor(prms[i].from, prms[i].vrnd, ZeroValue)
    BY <2>1 DEF VotesInv, VotedFor
  <2> QED BY <1>2, <2>2 DEF PromisesInv
<1>4. ASSUME NEW r2 \in 0..(r - 1), NEW a \in Q PROVE WontVoteIn(a, r2)
  <2>1. PICK i \in DOMAIN prms : prms[i].from = a
    OBVIOUS
  <2>2. prms[i].vrnd < r2 /\ r2 < prms[i].rnd /\ r2 \in Int
    BY <1>2, <1>3 DEF NoRound
  <2> QED BY <1>2, <2>1, <2>2, SilentWontVote
<1> QED BY <1>1, <1>4 DEF SafeAt, IsQuorum

\* A value reported by one of a majority of promises is safe: all that report a
\* vote report one of the same round.
LEMMA ReportedSafe ==
  ASSUME SingleTypeOK, VotesInv, PromisesInv, ProposalsSafe, Unambiguous,
         NEW prms, NEW r \in Int, Held(prms, r), Len(prms) >= Quorum,
         NEW i0 \in DOMAIN prms, prms[i0].vval # ZeroValue
  PROVE  SafeAt(r, prms[i0].vval)
<1> DEFINE Q == {prms[i].from : i \in DOMAIN prms}
           k == prms[i0].vrnd
           v == prms[i0].vval
<1>1. IsQuorum(Q)
  BY HeldQuorum
<1>2. \A i \in DOMAIN prms :
        prms[i] \in promises /\ prms[i] \in Promise /\ prms[i].rnd = r
  BY DEF Held, SingleTypeOK
<1>3. k # NoRound /\ VotedFor(prms[i0].from, k, v)
  BY <1>2 DEF PromisesInv
<1>4. \A i \in DOMAIN prms : prms[i].vrnd \in {NoRound, k}
  BY <1>2, <1>3 DEF Unambiguous
<1>5. PICK acc \in accepts : acc.rnd = k /\ acc.val = v
  BY <1>3 DEF VotesInv, VotedFor
<1>6. k \in Nat
  BY <1>5 DEF SingleTypeOK, Accept
<1> SUFFICES ASSUME NEW r2 \in 0..(r - 1)
             PROVE  \E Q2 \in SUBSET Acceptors :
                      /\ IsQuorum(Q2)
                      /\ \A a \in Q2 : VotedFor(a, r2, v) \/ WontVoteIn(a, r2)
  BY DEF SafeAt
<1>7. r2 \in Nat /\ r2 < r
  OBVIOUS
<1>8. CASE r2 > k
  <2>1. ASSUME NEW i \in DOMAIN prms PROVE WontVoteIn(prms[i].from, r2)
    <3>1. prms[i].vrnd < r2 /\ r2 < prms[i].rnd
      BY <1>2, <1>4, <1>6, <1>7, <1>8 DEF NoRound
    <3> QED BY <1>2, <1>7, <3>1, SilentWontVote
  <2> QED BY <1>1, <2>1 DEF IsQuorum
<1>9. CASE r2 = k
  <2>1. ASSUME NEW i \in DOMAIN prms
        PROVE  VotedFor(prms[i].from, r2, v) \/ WontVoteIn(prms[i].from, r2)
    <3>1. ASSUME NEW lrn \in learns, lrn.from = prms[i].from, lrn.rnd = r2
          PROVE  VotedFor(prms[i].from, r2, v)
      <4>1. lrn.val = v
        BY <1>5, <1>9, <3>1 DEF VotesInv, Unambiguous
      <4>2. lrn = [from |-> lrn.from, rnd |-> lrn.rnd, val |-> lrn.val]
        BY DEF SingleTypeOK, Learn
      <4> QED BY <3>1, <4>1, <4>2 DEF VotedFor
    <3>2. HighestRound[prms[i].from] > r2
      <4>1. HighestRound[prms[i].from] \in Int
        BY <1>2 DEF SingleTypeOK, Promise, Round, NoRound
      <4>2. r <= HighestRound[prms[i].from]
        BY <1>2 DEF PromisesInv
      <4> QED BY <1>7, <4>1, <4>2
    <3> QED BY <3>1, <3>2 DEF WontVoteIn
  <2> QED BY <1>1, <2>1 DEF IsQuorum
<1>10. CASE r2 < k
  <2>1. SafeAt(k, v)
    BY <1>5 DEF ProposalsSafe
  <2>2. r2 \in 0..(k - 1)
    BY <1>6, <1>7, <1>10
  <2> QED BY <2>1, <2>2 DEF SafeAt
<1> QED BY <1>6, <1>7, <1>8, <1>9, <1>10

-----------------------------------------------------------------------------
(* The conjuncts of the invariant, each over the steps that disturb it *)

\* Votes.  Only an acceptor that takes an accept changes its vote.
LEMMA AcceptVotes ==
  ASSUME SingleTypeOK, VotesInv, NEW a \in Acceptors, HandleAccept(a)
  PROVE  VotesInv'
<1>1. PICK acc \in accepts :
        /\ acc.rnd >= HighestRound[a] /\ acc.rnd # VotedRound[a]
        /\ VotedRound' = [VotedRound EXCEPT ![a] = acc.rnd]
        /\ VotedValue' = [VotedValue EXCEPT ![a] = acc.val]
        /\ learns' = learns \cup {[from |-> a, rnd |-> acc.rnd, val |-> acc.val]}
        /\ accepts' = accepts
  BY DEF HandleAccept
<1>2. acc.rnd \in Nat
  BY DEF SingleTypeOK, Accept
<1>3. /\ VotedRound[a] \in Int /\ HighestRound[a] \in Int
      /\ VotedRound[a] <= HighestRound[a]
  BY DEF SingleTypeOK, Round, NoRound
<1>4. \A b \in Acceptors :
        /\ VotedRound'[b] = IF b = a THEN acc.rnd ELSE VotedRound[b]
        /\ VotedValue'[b] = IF b = a THEN acc.val ELSE VotedValue[b]
  BY <1>1 DEF SingleTypeOK
<1>5. ASSUME NEW b \in Acceptors
      PROVE  IF VotedRound'[b] = NoRound THEN VotedValue'[b] = ZeroValue
                                       ELSE VotedFor(b, VotedRound[b], VotedValue[b])'
  <2>1. CASE b = a
    BY <1>1, <1>2, <1>4, <2>1 DEF VotedFor, NoRound
  <2>2. CASE b # a
    BY <1>1, <1>4, <2>2 DEF VotesInv, VotedFor
  <2> QED BY <2>1, <2>2
<1>6. ASSUME NEW lrn \in learns'
      PROVE  /\ lrn.rnd <= VotedRound'[lrn.from]
             /\ lrn.rnd = VotedRound'[lrn.from] => lrn.val = VotedValue'[lrn.from]
             /\ \E other \in accepts' : other.rnd = lrn.rnd /\ other.val = lrn.val
  <2>1. CASE lrn = [from |-> a, rnd |-> acc.rnd, val |-> acc.val]
    BY <1>1, <1>2, <1>4, <2>1
  <2>2. CASE lrn \in learns
    <3>1. lrn.from \in Acceptors /\ lrn.rnd \in Int
      BY <2>2 DEF SingleTypeOK, Learn
    <3>2. /\ lrn.rnd <= VotedRound[lrn.from]
          /\ lrn.rnd = VotedRound[lrn.from] => lrn.val = VotedValue[lrn.from]
          /\ \E other \in accepts : other.rnd = lrn.rnd /\ other.val = lrn.val
      BY <2>2 DEF VotesInv
    <3>3. CASE lrn.from = a
      BY <1>1, <1>2, <1>3, <1>4, <3>1, <3>2, <3>3
    <3>4. CASE lrn.from # a
      BY <1>1, <1>4, <3>1, <3>2, <3>4
    <3> QED BY <3>3, <3>4
  <2> QED BY <1>1, <2>1, <2>2
<1> QED BY <1>5, <1>6 DEF VotesInv

LEMMA NextVotes ==
  ASSUME SingleTypeOK, VotesInv, [Next]_vars
  PROVE  VotesInv'
<1>1. CASE \E a \in Acceptors : HandleAccept(a)
  BY <1>1, AcceptVotes
<1>2. CASE ~ \E a \in Acceptors : HandleAccept(a)
  <2>1. UNCHANGED <<VotedRound, VotedValue, learns>> /\ accepts \subseteq accepts'
    BY <1>2 DEF Next, vars, ClientHandler, HandlePromise, HandlePrepare, HandleLearn,
                acceptorVars
  <2> QED BY <2>1 DEF VotesInv, VotedFor
<1> QED BY <1>1, <1>2

\* Promises.  A new one reports the vote its sender holds, and binds it.
LEMMA PreparePromises ==
  ASSUME SingleTypeOK, SingleTypeOK', VotesInv, PromisesInv, Advances,
         NEW a \in Acceptors, HandlePrepare(a)
  PROVE  PromisesInv'
<1>1. PICK prp \in prepares :
        /\ prp.crnd > HighestRound[a]
        /\ HighestRound' = [HighestRound EXCEPT ![a] = prp.crnd]
        /\ promises' = promises \cup {[to |-> prp.from, from |-> a, rnd |-> prp.crnd,
                          vrnd |-> VotedRound[a], vval |-> VotedValue[a]]}
        /\ learns' = learns
  BY DEF HandlePrepare
<1> DEFINE new == [to |-> prp.from, from |-> a, rnd |-> prp.crnd,
                   vrnd |-> VotedRound[a], vval |-> VotedValue[a]]
<1>2. prp.crnd \in Int
  BY DEF SingleTypeOK, Prepare
<1>3. /\ VotedRound[a] \in Int /\ HighestRound[a] \in Int
      /\ VotedRound[a] <= HighestRound[a]
      /\ HighestRound'[a] = prp.crnd
  BY <1>1 DEF SingleTypeOK, Round, NoRound
<1>4. ASSUME NEW prm \in promises', NEW lrn \in learns',
             lrn.from = prm.from, lrn.rnd < prm.rnd
      PROVE  lrn.rnd <= prm.vrnd /\ (lrn.rnd = prm.vrnd => lrn.val = prm.vval)
  <2>1. CASE prm \in promises
    BY <1>1, <1>4, <2>1 DEF PromisesInv, PromiseTellsLastVote
  <2>2. CASE prm = new
    BY <1>1, <1>4, <2>2 DEF VotesInv
  <2> QED BY <1>1, <2>1, <2>2
<1>5. ASSUME NEW prm \in promises'
      PROVE  /\ prm.rnd <= HighestRound'[prm.from]
             /\ prm.vrnd < prm.rnd
             /\ IF prm.vrnd = NoRound THEN prm.vval = ZeroValue
                  ELSE VotedFor(prm.from, prm.vrnd, prm.vval)'
  <2>1. CASE prm \in promises
    <3>1. prm.from \in Acceptors /\ prm.rnd \in Int
      BY <2>1 DEF SingleTypeOK, Promise
    <3>2. HighestRound[prm.from] \in Int /\ HighestRound'[prm.from] \in Int
      BY <3>1 DEF SingleTypeOK, Round, NoRound
    <3>3. HighestRound[prm.from] <= HighestRound'[prm.from]
      BY <3>1 DEF Advances
    <3> QED BY <1>1, <2>1, <3>1, <3>2, <3>3 DEF PromisesInv, VotedFor
  <2>2. CASE prm = new
    BY <1>1, <1>2, <1>3, <2>2 DEF VotesInv, VotedFor
  <2> QED BY <1>1, <2>1, <2>2
<1> QED BY <1>4, <1>5 DEF PromisesInv, PromiseTellsLastVote

\* A vote cast later is in a round the promise did not exclude.
LEMMA NextPromises ==
  ASSUME SingleTypeOK, SingleTypeOK', VotesInv, PromisesInv, Advances, [Next]_vars
  PROVE  PromisesInv'
<1>1. CASE \E a \in Acceptors : HandlePrepare(a)
  BY <1>1, PreparePromises
<1>2. CASE ~ \E a \in Acceptors : HandlePrepare(a)
  <2>1. promises' = promises
    BY <1>2 DEF Next, vars, ClientHandler, HandlePromise, HandleAccept, HandleLearn
  <2>2. ASSUME NEW prm \in promises
        PROVE  /\ prm.from \in Acceptors /\ prm.rnd \in Int
               /\ HighestRound[prm.from] \in Int /\ HighestRound'[prm.from] \in Int
               /\ HighestRound[prm.from] <= HighestRound'[prm.from]
               /\ prm.rnd <= HighestRound[prm.from]
    <3>1. prm \in Promise
      BY DEF SingleTypeOK
    <3> QED BY <3>1 DEF SingleTypeOK, Promise, Round, NoRound, Advances, PromisesInv
  <2>3. ASSUME NEW prm \in promises, NEW lrn \in learns',
               lrn.from = prm.from, lrn.rnd < prm.rnd
        PROVE  lrn.rnd <= prm.vrnd /\ (lrn.rnd = prm.vrnd => lrn.val = prm.vval)
    <3>1. lrn.rnd \in Int
      BY DEF SingleTypeOK, Learn
    <3>2. lrn \in learns
      BY <2>2, <2>3, <3>1 DEF Advances
    <3> QED BY <2>3, <3>2 DEF PromisesInv, PromiseTellsLastVote
  <2>4. ASSUME NEW prm \in promises
        PROVE  /\ prm.rnd <= HighestRound'[prm.from]
               /\ prm.vrnd < prm.rnd
               /\ IF prm.vrnd = NoRound THEN prm.vval = ZeroValue
                    ELSE VotedFor(prm.from, prm.vrnd, prm.vval)'
    BY <2>2 DEF PromisesInv, VotedFor, Advances
  <2> QED BY <2>1, <2>3, <2>4 DEF PromisesInv, PromiseTellsLastVote
<1> QED BY <1>1, <1>2

\* Promises in hand.
LEMMA NextHeld ==
  ASSUME SingleTypeOK, HeldInv, Advances, [Next]_vars
  PROVE  HeldInv'
<1> SUFFICES ASSUME NEW p \in Proposers, NEW i \in DOMAIN PromiseRequests'[p]
             PROVE  /\ PromiseRequests'[p][i] \in promises'
                    /\ PromiseRequests'[p][i].rnd = crnd'[p]
                    /\ \A j \in DOMAIN PromiseRequests'[p] :
                         PromiseRequests'[p][j].from = PromiseRequests'[p][i].from => i = j
  BY DEF HeldInv
<1>1. CASE PromiseRequests'[p] = PromiseRequests[p] /\ crnd'[p] = crnd[p]
  BY <1>1 DEF HeldInv, Advances
<1>2. CASE ClientHandler(p)
  BY <1>2 DEF ClientHandler, SingleTypeOK
<1>3. CASE HandlePromise(p)
  <2>1. PICK prm \in promises :
          /\ prm.rnd = crnd[p]
          /\ \A k \in DOMAIN PromiseRequests[p] : PromiseRequests[p][k].from # prm.from
          /\ PromiseRequests'[p] = Append(PromiseRequests[p], prm)
    BY <1>3 DEF HandlePromise, SingleTypeOK
  <2>2. crnd' = crnd /\ promises' = promises
    BY <1>3 DEF HandlePromise
  <2>3. PromiseRequests[p] \in Seq(Promise) /\ prm \in Promise
    BY DEF SingleTypeOK
  <2> DEFINE old == PromiseRequests[p]
  <2>4. /\ DOMAIN PromiseRequests'[p] = 1..(Len(old) + 1)
        /\ DOMAIN old = 1..Len(old) /\ Len(old) \in Nat
        /\ \A k \in 1..Len(old) : PromiseRequests'[p][k] = old[k]
        /\ PromiseRequests'[p][Len(old) + 1] = prm
    BY <2>1, <2>3, AppendProperties
  <2>5. \A k \in DOMAIN old :
          /\ old[k] \in promises /\ old[k].rnd = crnd[p]
          /\ \A j \in DOMAIN old : old[j].from = old[k].from => k = j
    BY DEF HeldInv
  <2> HIDE DEF old
  <2>6. CASE i = Len(old) + 1
    BY <2>1, <2>2, <2>4, <2>6 DEF old
  <2>7. CASE i \in 1..Len(old)
    BY <2>1, <2>2, <2>4, <2>5, <2>7 DEF old
  <2> QED BY <2>4, <2>6, <2>7
<1>4. ASSUME NEW q \in Proposers, q # p, ClientHandler(q) \/ HandlePromise(q)
      PROVE  PromiseRequests'[p] = PromiseRequests[p] /\ crnd'[p] = crnd[p]
  BY <1>4 DEF ClientHandler, HandlePromise, SingleTypeOK
<1>5. \/ UNCHANGED proposerVars
      \/ \E q \in Proposers : ClientHandler(q) \/ HandlePromise(q)
  BY DEF Next, vars, HandlePrepare, HandleAccept, HandleLearn
<1>6. CASE UNCHANGED proposerVars
  BY <1>1, <1>6 DEF proposerVars
<1> QED BY <1>1, <1>2, <1>3, <1>4, <1>5, <1>6

\* A set of positions in a sequence has a last one.
LEMMA LastIndex ==
  ASSUME NEW n \in Nat, NEW I \in SUBSET (1..n), I # {}
  PROVE  \E i \in I : \A j \in I : j <= i
<1> DEFINE S == 1..n
           T == {i..n : i \in I}
<1>1. IsFiniteSet(S)
  BY FS_Interval
<1>2. T # {}
  OBVIOUS
<1>3. \A i \in I : i..n \in SUBSET S
  OBVIOUS
<1>4. T \subseteq FiniteSubsetsOf(S)
  BY <1>1, <1>3, FS_FiniteSubsetsOfFinite
<1>5. PICK X \in T : \A Y \in T : <<Y, X>> \notin StrictSubsetOrdering(S)
  <2>1. IsWellFoundedOn(StrictSubsetOrdering(S), FiniteSubsetsOf(S))
    BY FS_StrictSubsetOrderingWellFounded
  <2> HIDE DEF S, T
  <2> QED BY <1>2, <1>4, <2>1, WFMin
<1>6. PICK i \in I : X = i..n
  BY <1>5
<1>7. ASSUME NEW j \in I, j > i PROVE FALSE
  <2>1. j..n \subseteq i..n /\ j..n # i..n
    BY <1>7
  <2>2. <<j..n, i..n>> \in StrictSubsetOrdering(S)
    BY <1>3, <2>1 DEF StrictSubsetOrdering
  <2> QED BY <1>5, <1>6, <2>2
<1> QED BY <1>7

\* If promises report values, constrainedValue returns one of them.
LEMMA ConstrainedReported ==
  ASSUME NEW prms, NEW n \in Nat, DOMAIN prms = 1..n,
         NEW k \in DOMAIN prms, prms[k].vval # ZeroValue
  PROVE  /\ constrainedValue(prms) # {}
         /\ \A v \in constrainedValue(prms) :
              \E i \in DOMAIN prms : prms[i].vval # ZeroValue /\ prms[i].vval = v
<1> DEFINE I == {i \in DOMAIN prms : prms[i].vval # ZeroValue /\ prms[i].vrnd = prms[k].vrnd}
<1>1. I \in SUBSET (1..n) /\ I # {}
  OBVIOUS
<1>2. PICK i \in I : \A j \in I : j <= i
  <2> HIDE DEF I
  <2> QED BY <1>1, LastIndex
<1>3. prms[i].vval \in constrainedValue(prms)
  BY <1>2 DEF constrainedValue
<1> QED BY <1>3 DEF constrainedValue

\* Proposals.  What a proposer proposes on a majority of promises is safe.
LEMMA PromiseProposals ==
  ASSUME SingleTypeOK, SingleTypeOK', VotesInv, PromisesInv, ProposalsSafe, HeldInv',
         Advances, Unambiguous', NEW p \in Proposers, HandlePromise(p),
         NEW acc \in accepts', acc \notin accepts
  PROVE  SafeAt(acc.rnd, acc.val)'
<1> DEFINE prms == PromiseRequests'[p]
<1>1. /\ UNCHANGED <<crnd, HighestRound, promises, learns>>
      /\ acc = [from |-> p, rnd |-> crnd[p], val |-> acc.val]
      /\ Len(prms) >= Quorum
      /\ acc.val \in IF constrainedValue(prms) = {} THEN {clientValue[p]}
                                                  ELSE constrainedValue(prms)
  BY DEF HandlePromise, acceptorVars
<1>2. acc.rnd = crnd[p] /\ crnd[p] \in Int
  BY <1>1 DEF SingleTypeOK
<1>3. Held(prms, crnd[p])
  <2>1. prms \in Seq(Promise)
    BY DEF SingleTypeOK
  <2>2. \A i \in DOMAIN prms : prms[i] \in promises /\ prms[i].rnd = crnd[p]
    BY <1>1 DEF HeldInv
  <2>3. prms \in Seq(promises)
    <3>1. prms = [i \in 1..Len(prms) |-> prms[i]] /\ Len(prms) \in Nat
      BY <2>1
    <3>2. \A i \in 1..Len(prms) : prms[i] \in promises
      BY <2>1, <2>2
    <3> QED BY <3>1, <3>2, IsASeq
  <2> QED BY <2>2, <2>3 DEF Held, HeldInv
<1>4. Unambiguous
  BY UnambiguousBefore
<1> HIDE DEF prms
<1>5. SafeAt(crnd[p], acc.val)
  <2>1. CASE \A i \in DOMAIN prms : prms[i].vval = ZeroValue
    BY <1>1, <1>2, <1>3, <1>4, <2>1, UnreportedSafe
  <2>2. CASE \E i \in DOMAIN prms : prms[i].vval # ZeroValue
    <3>1. PICK i \in DOMAIN prms : prms[i].vval # ZeroValue /\ prms[i].vval = acc.val
      <4>1. Len(prms) \in Nat /\ DOMAIN prms = 1..Len(prms)
        BY <1>3, LenProperties DEF Held
      <4> QED BY <1>1, <2>2, <4>1, ConstrainedReported
    <3> QED BY <1>1, <1>2, <1>3, <1>4, <3>1, ReportedSafe
  <2> QED BY <2>1, <2>2
<1> QED BY <1>2, <1>5, SafeAtStable

LEMMA NextProposals ==
  ASSUME SingleTypeOK, SingleTypeOK', VotesInv, PromisesInv, ProposalsSafe, HeldInv',
         Advances, [Next]_vars
  PROVE  ProposalsSafe'
<1> SUFFICES ASSUME Unambiguous', NEW acc \in accepts'
             PROVE  SafeAt(acc.rnd, acc.val)'
  BY DEF ProposalsSafe
<1>1. CASE acc \in accepts
  <2>1. SafeAt(acc.rnd, acc.val)
    BY <1>1, UnambiguousBefore DEF ProposalsSafe
  <2>2. acc.rnd \in Int
    BY DEF SingleTypeOK, Accept
  <2> QED BY <2>1, <2>2, SafeAtStable
<1>2. CASE acc \notin accepts
  <2>1. PICK p \in Proposers : HandlePromise(p)
    BY <1>2 DEF Next, vars, ClientHandler, HandlePrepare, HandleAccept, HandleLearn
  <2> QED BY <1>2, <2>1, PromiseProposals
<1> QED BY <1>1, <1>2

\* What a learner counts together.
LEMMA NextCounted ==
  ASSUME SingleTypeOK, CountedInv, [Next]_vars
  PROVE  CountedInv'
<1>1. CASE UNCHANGED <<lrnRound, LrnVals>>
  BY <1>1 DEF CountedInv
<1>2. ASSUME NEW l \in Learners, HandleLearn(l) PROVE CountedInv'
  <2>1. PICK lrn \in learns :
          /\ lrn.rnd >= lrnRound[l]
          /\ lrnRound' = [lrnRound EXCEPT ![l] = lrn.rnd]
          /\ \A known \in Kept(l, lrn.rnd) : known.from # lrn.from
          /\ LrnVals' = [LrnVals EXCEPT ![l] = Kept(l, lrn.rnd) \cup {lrn}]
    BY <1>2 DEF HandleLearn
  <2>2. lrn.rnd \in Int /\ lrnRound[l] \in Int
    BY DEF SingleTypeOK, Learn, Round, NoRound
  <2>3. \A known \in Kept(l, lrn.rnd) :
          /\ known.rnd = lrn.rnd
          /\ \A other \in Kept(l, lrn.rnd) : other.from = known.from => other = known
    BY <2>1, <2>2 DEF Kept, CountedInv
  <2>4. lrnRound'[l] = lrn.rnd /\ LrnVals'[l] = Kept(l, lrn.rnd) \cup {lrn}
    BY <2>1 DEF SingleTypeOK
  <2>5. \A m \in Learners : m # l => lrnRound'[m] = lrnRound[m] /\ LrnVals'[m] = LrnVals[m]
    BY <2>1 DEF SingleTypeOK
  <2>6. ASSUME NEW m \in Learners, NEW one \in LrnVals'[m]
        PROVE  /\ one.rnd = lrnRound'[m]
               /\ \A other \in LrnVals'[m] : other.from = one.from => other = one
    <3>1. CASE m = l
      BY <2>1, <2>3, <2>4, <3>1
    <3>2. CASE m # l
      BY <2>5, <3>2 DEF CountedInv
    <3> QED BY <3>1, <3>2
  <2> QED BY <2>6 DEF CountedInv
<1> QED BY <1>1, <1>2
        DEF Next, vars, ClientHandler, HandlePromise, HandlePrepare, HandleAccept, learnerVars

\* Replies.  The learns a learner counts are votes for one value, so that a
\* majority of them chose it.
LEMMA CountedChosen ==
  ASSUME SingleTypeOK, VotesInv, Unambiguous, NEW lv \in SUBSET learns, NEW r,
         \A x \in lv : x.rnd = r,
         \A x, y \in lv : x.from = y.from => x = y,
         Cardinality(lv) >= Quorum, NEW lrn \in lv
  PROVE  Majority(lv, lrn.val) /\ Chosen(r, lrn.val)
<1>1. \A x \in lv : \E acc \in accepts : acc.rnd = r /\ acc.val = x.val
  BY DEF VotesInv
<1>2. \A x \in lv : x.val = lrn.val
  BY <1>1 DEF Unambiguous
<1>3. {x \in lv : x.val = lrn.val} = lv
  BY <1>2
<1>4. \A x \in lv : x \in Learn /\ x = [from |-> x.from, rnd |-> r, val |-> lrn.val]
  BY <1>2 DEF SingleTypeOK, Learn
<1> DEFINE from == [x \in lv |-> x.from]
           voters == {a \in Acceptors : [from |-> a, rnd |-> r, val |-> lrn.val] \in learns}
<1>5. from \in [lv -> Acceptors] /\ \A x, y \in lv : from[x] = from[y] => x = y
  BY <1>4 DEF Learn
<1>6. IsQuorum({from[x] : x \in lv})
  <2> HIDE DEF from
  <2> QED BY <1>5, SendersQuorum
<1>7. {from[x] : x \in lv} \subseteq voters
  BY <1>4, <1>5
<1>8. IsFiniteSet(voters)
  BY SinglePaxosAssumption, FS_Subset
<1>9. Cardinality({from[x] : x \in lv}) <= Cardinality(voters)
  BY <1>7, <1>8, FS_Subset
<1>10. Cardinality(voters) >= Quorum
  <2>1. Cardinality({from[x] : x \in lv}) \in Nat /\ Cardinality(voters) \in Nat
    BY <1>7, <1>8, FS_Subset, FS_CardinalityType
  <2> QED BY <2>1, <1>6, <1>9, QuorumType DEF IsQuorum
<1> QED BY <1>3, <1>10 DEF Majority, Chosen

LEMMA NextReplies ==
  ASSUME SingleTypeOK, SingleTypeOK', VotesInv, CountedInv', RepliesIfUnambiguous,
         Advances, [Next]_vars
  PROVE  RepliesIfUnambiguous'
<1> SUFFICES ASSUME Unambiguous', NEW v \in replies'
             PROVE  \E lrn \in learns' : lrn.val = v /\ Chosen(lrn.rnd, v)'
  BY DEF RepliesIfUnambiguous
<1>1. Unambiguous
  BY UnambiguousBefore
<1>2. CASE v \in replies
  <2>1. PICK lrn \in learns : lrn.val = v /\ Chosen(lrn.rnd, v)
    BY <1>1, <1>2 DEF RepliesIfUnambiguous
  <2> QED BY <2>1, ChosenStable DEF Advances
<1>3. CASE v \notin replies
  <2>1. PICK l \in Learners : HandleLearn(l)
    BY <1>3 DEF Next, vars, ClientHandler, HandlePromise, HandlePrepare, HandleAccept,
                learnerVars
  <2> DEFINE lv == LrnVals'[l]
  <2>2. /\ Cardinality(lv) >= Quorum
        /\ v = ConsensusValue'[l]
        /\ \/ \E lrn \in lv : Majority(lv, lrn.val) /\ ConsensusValue'[l] = lrn.val
           \/ \A lrn \in lv : ~Majority(lv, lrn.val)
    BY <1>3, <2>1 DEF HandleLearn, SingleTypeOK
  <2>3. learns' = learns
    BY <2>1 DEF HandleLearn
  <2>4. lv \in SUBSET learns
    BY <2>3 DEF SingleTypeOK
  <2>5. /\ \A x \in lv : x.rnd = lrnRound'[l]
        /\ \A x, y \in lv : x.from = y.from => x = y
    BY DEF CountedInv
  <2>6. lv # {}
    BY <2>1 DEF HandleLearn, SingleTypeOK
  <2> HIDE DEF lv
  <2>7. \A lrn \in lv : Majority(lv, lrn.val) /\ Chosen(lrnRound'[l], lrn.val)
    BY <1>1, <2>2, <2>4, <2>5, CountedChosen
  <2>8. PICK lrn \in lv : v = lrn.val
    BY <2>2, <2>6, <2>7
  <2>9. lrn \in learns /\ lrn.rnd = lrnRound'[l] /\ Chosen(lrn.rnd, v)
    BY <2>4, <2>5, <2>7, <2>8
  <2> QED BY <2>3, <2>8, <2>9, ChosenStable
<1> QED BY <1>2, <1>3

-----------------------------------------------------------------------------
(* The theorems *)

LEMMA InitInv == Init => SingleInv
BY InitType DEF Init, SingleInv, VotesInv, PromisesInv, PromiseTellsLastVote, HeldInv,
                ProposalsSafe, CountedInv, RepliesIfUnambiguous, SingleTypeOK

LEMMA NextInv == SingleInv /\ [Next]_vars => SingleInv'
<1> SUFFICES ASSUME SingleInv, [Next]_vars PROVE SingleInv'
  OBVIOUS
<1>1. SingleTypeOK' /\ Advances
  BY NextType, NextAdvances DEF SingleInv
<1>2. VotesInv' /\ PromisesInv'
  BY <1>1, NextVotes, NextPromises DEF SingleInv
<1>3. HeldInv' /\ CountedInv'
  BY <1>1, NextHeld, NextCounted DEF SingleInv
<1>4. ProposalsSafe'
  BY <1>1, <1>3, NextProposals DEF SingleInv
<1>5. RepliesIfUnambiguous'
  BY <1>1, <1>3, NextReplies DEF SingleInv
<1> QED BY <1>1, <1>2, <1>3, <1>4, <1>5 DEF SingleInv

\* Votes, promises, proposals and counts are what they should be in every state.
THEOREM SingleInvariantHolds == Spec => []SingleInv
BY InitInv, NextInv, PTL DEF Spec

\* Majorities never choose two values, until a round proposes two values or the
\* empty one, or promises report votes of two rounds.
THEOREM SingleAgreement == Spec => []AgreementIfUnambiguous
BY SingleInvariantHolds, InvAgreement, PTL

\* Until then every value a learner hands to the client handler was chosen.
THEOREM SingleReplies == Spec => []RepliesIfUnambiguous
<1>1. SingleInv => RepliesIfUnambiguous
  BY DEF SingleInv
<1> QED BY <1>1, SingleInvariantHolds, PTL

\* A promise tells its sender's last vote below its round, for good.
THEOREM SinglePromises == Spec => []PromiseTellsLastVote
<1>1. SingleInv => PromiseTellsLastVote
  BY DEF SingleInv, PromisesInv
<1> QED BY <1>1, SingleInvariantHolds, PTL
=============================================================================
