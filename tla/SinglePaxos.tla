----------------------------- MODULE SinglePaxos -----------------------------
(***************************************************************************)
(* Single-decree Paxos of lab4: the handlers of proposer, acceptor and     *)
(* learner in lab4/singlepaxos, wired as lab4/app/main.go does.  A sent    *)
(* message stays in its set: it may be handled late, or never; the         *)
(* handlers ignore one they have handled.                                  *)
(***************************************************************************)
EXTENDS Integers, Sequences, FiniteSets

CONSTANTS
  Proposers, Acceptors, Learners,
  Values,      \* what clients send: what was typed, the empty line included
  ZeroValue,   \* the empty string, which the code takes for no value
  MaxRound     \* bound on rounds

VARIABLES
  crnd, clientValue, PromiseRequests,     \* proposers
  HighestRound, VotedRound, VotedValue,   \* acceptors
  lrnRound, LrnVals, ConsensusValue,      \* learners (HighestRound is lrnRound)
  prepares, promises, accepts, learns,    \* messages sent
  replies                                 \* values learners put on valueOut

proposerVars == <<crnd, clientValue, PromiseRequests>>
acceptorVars == <<HighestRound, VotedRound, VotedValue>>
learnerVars == <<lrnRound, LrnVals, ConsensusValue, replies>>
vars == <<proposerVars, acceptorVars, learnerVars, prepares, promises, accepts, learns>>

ASSUME SinglePaxosAssumption ==
  /\ IsFiniteSet(Acceptors) /\ Acceptors # {}
  /\ Proposers \subseteq Nat
  /\ MaxRound \in Nat

NumNodes == Cardinality(Acceptors)

Quorum == NumNodes \div 2 + 1

NoRound == -1

Value == Values \cup {ZeroValue}

Init ==
  /\ crnd = [p \in Proposers |-> p]
  /\ clientValue = [p \in Proposers |-> ZeroValue]
  /\ PromiseRequests = [p \in Proposers |-> <<>>]
  /\ HighestRound = [a \in Acceptors |-> NoRound]
  /\ VotedRound = [a \in Acceptors |-> NoRound]
  /\ VotedValue = [a \in Acceptors |-> ZeroValue]
  /\ lrnRound = [l \in Learners |-> NoRound]
  /\ LrnVals = [l \in Learners |-> {}]
  /\ ConsensusValue = [l \in Learners |-> ZeroValue]
  /\ prepares = {} /\ promises = {} /\ accepts = {} /\ learns = {}
  /\ replies = {}

-----------------------------------------------------------------------------
(* Proposer *)

\* clientHandler, at a proposer whose LeaderDetector.Leader() is itself: any,
\* as suspicions go.  At the others it drops the value.
ClientHandler(p) ==
  /\ crnd[p] + NumNodes <= MaxRound
  /\ clientValue' \in {[clientValue EXCEPT ![p] = v] : v \in Values}
  /\ crnd' = [crnd EXCEPT ![p] = @ + NumNodes]
  /\ PromiseRequests' = [PromiseRequests EXCEPT ![p] = <<>>]
  /\ prepares' = prepares \cup {[from |-> p, crnd |-> crnd'[p]]}
  /\ UNCHANGED <<acceptorVars, learnerVars, promises, accepts, learns>>

\* Mutant of constrainedValue: values reported are not looked at.
constrainedValueNone(prms) == IF prms = <<>> THEN {ZeroValue} ELSE {}

\* The reported values constrainedValue can return: of a map from round to the
\* last value reported for it, the loop returns the entry it meets first, and
\* Go's order is random.
constrainedValue(prms) ==
  LET reported == {i \in DOMAIN prms : prms[i].vval # ZeroValue}
  IN  {prms[i].vval : i \in {i \in reported :
         \A j \in reported : j > i => prms[j].vrnd # prms[i].vrnd}}

\* handlePromise.  Every promise from the majority on leads to an accept.  (A
\* promise of a round above crnd[p] does not occur: it answers a prepare of p.)
HandlePromise(p) ==
  /\ \E prm \in promises :
       /\ prm.to = p /\ prm.rnd = crnd[p]
       /\ \A i \in DOMAIN PromiseRequests[p] : PromiseRequests[p][i].from # prm.from
       /\ PromiseRequests' = [PromiseRequests EXCEPT ![p] = Append(@, prm)]
  /\ LET prms == PromiseRequests'[p]
         constrained == constrainedValue(prms)
     IN  \/ Len(prms) < Quorum /\ UNCHANGED accepts
         \/ /\ Len(prms) >= Quorum
            /\ \E v \in IF constrained = {} THEN {clientValue[p]} ELSE constrained :
                 accepts' = accepts \cup {[from |-> p, rnd |-> crnd[p], val |-> v]}
  /\ UNCHANGED <<crnd, clientValue, acceptorVars, learnerVars, prepares, promises, learns>>

-----------------------------------------------------------------------------
(* Acceptor *)

\* Mutant of HandlePrepare: the promise does not bind.
HandlePrepareUnbound(a) ==
  /\ \E prp \in prepares :
       /\ prp.crnd > HighestRound[a]
       /\ promises' = promises \cup {[to |-> prp.from, from |-> a, rnd |-> prp.crnd,
                         vrnd |-> VotedRound[a], vval |-> VotedValue[a]]}
  /\ UNCHANGED <<acceptorVars, proposerVars, learnerVars, prepares, accepts, learns>>

HandlePrepare(a) ==
  /\ \E prp \in prepares :
       /\ prp.crnd > HighestRound[a]
       /\ HighestRound' = [HighestRound EXCEPT ![a] = prp.crnd]
       /\ promises' = promises \cup {[to |-> prp.from, from |-> a, rnd |-> prp.crnd,
                         vrnd |-> VotedRound[a], vval |-> VotedValue[a]]}
  /\ UNCHANGED <<VotedRound, VotedValue, proposerVars, learnerVars, prepares, accepts, learns>>

\* Mutant of HandleAccept: the round of the vote is not kept as one seen.
HandleAcceptUnseen(a) ==
  /\ \E acc \in accepts :
       /\ acc.rnd >= HighestRound[a] /\ acc.rnd # VotedRound[a]
       /\ VotedRound' = [VotedRound EXCEPT ![a] = acc.rnd]
       /\ VotedValue' = [VotedValue EXCEPT ![a] = acc.val]
       /\ learns' = learns \cup {[from |-> a, rnd |-> acc.rnd, val |-> acc.val]}
  /\ UNCHANGED <<HighestRound, proposerVars, learnerVars, prepares, promises, accepts>>

HandleAccept(a) ==
  /\ \E acc \in accepts :
       /\ acc.rnd >= HighestRound[a] /\ acc.rnd # VotedRound[a]
       /\ HighestRound' = [HighestRound EXCEPT ![a] = acc.rnd]
       /\ VotedRound' = [VotedRound EXCEPT ![a] = acc.rnd]
       /\ VotedValue' = [VotedValue EXCEPT ![a] = acc.val]
       /\ learns' = learns \cup {[from |-> a, rnd |-> acc.rnd, val |-> acc.val]}
  /\ UNCHANGED <<proposerVars, learnerVars, prepares, promises, accepts>>

-----------------------------------------------------------------------------
(* Learner *)

Majority(lv, v) == Cardinality({lrn \in lv : lrn.val = v}) >= Quorum

\* Mutant of Kept: learns of lower rounds go on counting.
KeptAll(l, rnd) == LrnVals[l]

Kept(l, rnd) == IF rnd > lrnRound[l] THEN {} ELSE LrnVals[l]

\* handleLearn.  From the majority on every learn leads to a reply, also when
\* no value has a majority.
HandleLearn(l) ==
  /\ \E lrn \in learns :
       /\ lrn.rnd >= lrnRound[l]
       /\ lrnRound' = [lrnRound EXCEPT ![l] = lrn.rnd]
       /\ \A known \in Kept(l, lrn.rnd) : known.from # lrn.from
       /\ LrnVals' = [LrnVals EXCEPT ![l] = Kept(l, lrn.rnd) \cup {lrn}]
  /\ LET lv == LrnVals'[l]
     IN  \/ /\ Cardinality(lv) < Quorum
            /\ UNCHANGED <<ConsensusValue, replies>>
         \/ /\ Cardinality(lv) >= Quorum
            /\ \/ \E lrn \in lv :
                    /\ Majority(lv, lrn.val)
                    /\ ConsensusValue' = [ConsensusValue EXCEPT ![l] = lrn.val]
               \/ /\ \A lrn \in lv : ~Majority(lv, lrn.val)
                  /\ UNCHANGED ConsensusValue
            /\ replies' = replies \cup {ConsensusValue'[l]}
  /\ UNCHANGED <<proposerVars, acceptorVars, prepares, promises, accepts, learns>>

Next ==
  \/ \E p \in Proposers : ClientHandler(p) \/ HandlePromise(p)
  \/ \E a \in Acceptors : HandlePrepare(a) \/ HandleAccept(a)
  \/ \E l \in Learners : HandleLearn(l)

Spec == Init /\ [][Next]_vars

-----------------------------------------------------------------------------
(* Properties *)

Round == NoRound..MaxRound

Prepare == [from : Proposers, crnd : 0..MaxRound]

Promise == [to : Proposers, from : Acceptors, rnd : 0..MaxRound, vrnd : Round, vval : Value]

Accept == [from : Proposers, rnd : 0..MaxRound, val : Value]

Learn == [from : Acceptors, rnd : 0..MaxRound, val : Value]

\* Types; a vote is in a round the acceptor has seen.
SingleTypeOK ==
  /\ crnd \in [Proposers -> Nat]
  /\ clientValue \in [Proposers -> Value]
  /\ PromiseRequests \in [Proposers -> Seq(Promise)]
  /\ HighestRound \in [Acceptors -> Round]
  /\ VotedRound \in [Acceptors -> Round]
  /\ VotedValue \in [Acceptors -> Value]
  /\ \A a \in Acceptors : VotedRound[a] <= HighestRound[a]
  /\ lrnRound \in [Learners -> Round]
  /\ LrnVals \in [Learners -> SUBSET learns]
  /\ ConsensusValue \in [Learners -> Value]
  /\ prepares \subseteq Prepare /\ promises \subseteq Promise
  /\ accepts \subseteq Accept /\ learns \subseteq Learn
  /\ replies \subseteq Value

Chosen(r, v) ==
  Cardinality({a \in Acceptors : [from |-> a, rnd |-> r, val |-> v] \in learns}) >= Quorum

\* "only one client command can be chosen": the empty command counts as one.
\* Violated, see README.
OneChosen ==
  \A lrn1, lrn2 \in learns :
    Chosen(lrn1.rnd, lrn1.val) /\ Chosen(lrn2.rnd, lrn2.val) => lrn1.val = lrn2.val

\* No round proposes two values, no value proposed is the empty one, and the
\* promises of a round report votes of one round at most.
Unambiguous ==
  /\ \A acc1, acc2 \in accepts : acc1.rnd = acc2.rnd => acc1.val = acc2.val
  /\ \A acc \in accepts : acc.val # ZeroValue
  /\ \A prm1, prm2 \in promises :
       prm1.rnd = prm2.rnd /\ prm1.vrnd # NoRound /\ prm2.vrnd # NoRound
         => prm1.vrnd = prm2.vrnd

\* Until one of these happens, majorities never choose two values, whatever
\* the rounds and however many proposers take themselves for the leader.
AgreementIfUnambiguous ==
  Unambiguous => OneChosen

\* Until then the client is told a value only if a majority chose it.
RepliesIfUnambiguous ==
  Unambiguous => \A v \in replies : \E lrn \in learns : lrn.val = v /\ Chosen(lrn.rnd, v)

\* A promise tells its sender's last vote below its round: the acceptor has not
\* voted in between and does not later, when accepts of lower rounds arrive.
PromiseTellsLastVote ==
  \A prm \in promises, lrn \in learns :
    /\ lrn.from = prm.from
    /\ lrn.rnd < prm.rnd
    => lrn.rnd <= prm.vrnd /\ (lrn.rnd = prm.vrnd => lrn.val = prm.vval)

\* "two different values reported -> propose correct value (highest vrnd) in
\* accept".  Violated, see README.
HighestVoteWins ==
  [][\A acc \in accepts' \ accepts :
       LET prms == PromiseRequests'[acc.from]
       IN  \A i \in DOMAIN prms :
             /\ prms[i].vval # ZeroValue
             /\ \A j \in DOMAIN prms : prms[j].vval = ZeroValue \/ prms[j].vrnd < prms[i].vrnd \/ i = j
             => acc.val = prms[i].vval]_vars

\* "values that has been learned, i.e. decided by the Paxos nodes": a value on
\* valueOut was chosen by a majority.  Violated, see README.
ReplyIsChosen ==
  \A v \in replies : \E lrn \in learns : lrn.val = v /\ Chosen(lrn.rnd, v)
=============================================================================
