----------------------- MODULE MultiPaxosAgreementProof -----------------------
(***************************************************************************)
(* The acceptors' side of MultiPaxos, for every configuration, in three    *)
(* parts.  Types.  SafetyInv, and with it agreement and the promise        *)
(* properties; no leaf mentions the learners or the bank: they reach the   *)
(* acceptors only through adu.  And, given SafetyInv, that every proposal  *)
(* has a majority of promises behind it: promises are not taken back, and  *)
(* a new accept is of the round whose promises its proposer holds.         *)
(***************************************************************************)
EXTENDS MultiPaxosInvariant, FiniteSetTheorems, SequenceTheorems, TLAPS

-----------------------------------------------------------------------------
(* Types *)

\* The number of acceptors and the majority computed from it are positive
\* naturals: proposer.go and learner.go divide len(netconf.Acceptors) by two.
LEMMA QuorumType == /\ N \in Nat
                    /\ N > 0
                    /\ Quorum \in Nat
                    /\ Quorum > 0
                    /\ 2 * Quorum > N
<1>1. N \in Nat /\ N > 0
  <2>1. Cardinality(Acceptors) \in Nat
    BY ConfigAssumption, FS_CardinalityType
  <2>2. Cardinality(Acceptors) # 0
    BY ConfigAssumption, FS_EmptySet
  <2> QED BY <2>1, <2>2 DEF N
<1> QED BY <1>1 DEF Quorum

-----------------------------------------------------------------------------
(* Helpers of the proposer *)

\* The queue sendAccept leaves and the accept it sends are well typed when the
\* queue and the slot it starts from are.
LEMMA SendAcceptType ==
  ASSUME TypeOK,
         NEW p \in Proposers, NEW next \in Nat, NEW decided \in Int,
         NEW out \in Seq(Accept), NEW reqs \in Seq(ClientValues),
         SendAccept(p, next, decided, out, reqs)
  PROVE  /\ msgs' \subseteq Messages
         /\ nextSlot' \in [Proposers -> SlotID]
         /\ acceptsOut' \in [Proposers -> Seq(Accept)]
         /\ requestsIn' \in [Proposers -> Seq(ClientValues)]
<1> DEFINE Queues(n, o, r) ==
             /\ nextSlot' = [nextSlot EXCEPT ![p] = n]
             /\ acceptsOut' = [acceptsOut EXCEPT ![p] = o]
             /\ requestsIn' = [requestsIn EXCEPT ![p] = r]
<1> DEFINE new == [type |-> "Accept", from |-> p, slot |-> next, rnd |-> crnd[p],
                   val |-> Head(reqs)]
<1>1. PICK n, o, r :
        /\ Queues(n, o, r)
        /\ n \in {next, next + 1}
        /\ o = out \/ (out # <<>> /\ o = Tail(out))
        /\ r = reqs \/ (reqs # <<>> /\ r = Tail(reqs))
        /\ \/ msgs' = msgs
           \/ out # <<>> /\ msgs' = msgs \cup {Head(out)}
           \/ reqs # <<>> /\ msgs' = msgs \cup {new}
  BY DEF SendAccept, Send
<1>2. n \in SlotID /\ o \in Seq(Accept) /\ r \in Seq(ClientValues)
  <2>1. n \in SlotID
    BY <1>1 DEF SlotID
  <2>2. o \in Seq(Accept)
    BY <1>1, HeadTailProperties
  <2>3. r \in Seq(ClientValues)
    BY <1>1, HeadTailProperties
  <2> QED BY <2>1, <2>2, <2>3
<1>3. out # <<>> => Head(out) \in Messages
  BY DEF Messages
<1>4. reqs # <<>> => new \in Accept
  <2> SUFFICES ASSUME reqs # <<>> PROVE new \in Accept
    OBVIOUS
  <2>1. Head(reqs) \in Value
    BY DEF Value
  <2>2. crnd[p] \in Nat
    BY DEF TypeOK
  <2> QED BY <2>1, <2>2 DEF Accept, SlotID
<1>5. msgs' \subseteq Messages
  BY <1>1, <1>3, <1>4 DEF TypeOK, Messages
<1> QED BY <1>1, <1>2, <1>5 DEF TypeOK

\* The slots and values purgePrmSlots takes from promises are slots above the
\* given one and values that were voted for.
LEMMA PurgeType ==
  ASSUME NEW prms \in SUBSET Promise, NEW decided \in Int,
         NEW votes \in PurgePrmSlots(prms, decided)
  PROVE  /\ DOMAIN votes \subseteq SlotID
         /\ \A s \in DOMAIN votes : s > decided /\ votes[s] \in Value
<1> DEFINE reported == {ps \in UNION {prm.slots : prm \in prms} : ps.id > decided}
<1>1. reported \subseteq PromiseSlot
  BY DEF Promise
<1>2. /\ DOMAIN votes = {ps.id : ps \in reported}
      /\ \A s \in DOMAIN votes : \E ps \in reported : ps.id = s /\ ps.vval = votes[s]
  BY DEF PurgePrmSlots
<1>3. \A ps \in reported : ps.id \in SlotID /\ ps.vval \in Value /\ ps.id > decided
  BY <1>1 DEF PromiseSlot
<1> QED BY <1>2, <1>3

\* The accepts of sortAndFillGap: one for each slot from the lowest to the
\* highest, for the proposer's current round.
LEMMA FillGapType ==
  ASSUME TypeOK, NEW p \in Proposers,
         NEW prms \in SUBSET Promise, NEW decided \in Int,
         NEW votes \in PurgePrmSlots(prms, decided),
         NEW low \in DOMAIN votes, NEW high \in DOMAIN votes, low <= high
  PROVE  SortAndFillGap(p, votes, low, high) \in Seq(Accept)
<1> DEFINE acc(i) ==
      [type |-> "Accept", from |-> p, slot |-> low + i - 1, rnd |-> crnd[p],
       val |-> IF low + i - 1 \in DOMAIN votes THEN votes[low + i - 1] ELSE Noop]
<1>1. low \in Nat /\ high \in Nat /\ \A s \in DOMAIN votes : votes[s] \in Value
  BY PurgeType DEF SlotID
<1>2. high - low + 1 \in Nat
  BY <1>1
<1>3. \A i \in 1..(high - low + 1) : acc(i) \in Accept
  <2> TAKE i \in 1..(high - low + 1)
  <2>1. low + i - 1 \in SlotID
    BY <1>1 DEF SlotID
  <2>2. crnd[p] \in Nat
    BY DEF TypeOK
  <2>3. (IF low + i - 1 \in DOMAIN votes THEN votes[low + i - 1] ELSE Noop) \in Value
    BY <1>1 DEF Value
  <2> QED BY <2>1, <2>2, <2>3 DEF Accept
<1> HIDE DEF acc
<1>4. [i \in 1..(high - low + 1) |-> acc(i)] \in Seq(Accept)
  BY <1>2, <1>3, IsASeq
<1> QED BY <1>4 DEF SortAndFillGap, acc

-----------------------------------------------------------------------------
(* The steps *)

\* Starting phase one keeps the types of what it changes.
LEMMA StartPhaseOneType ==
  ASSUME TypeOK, NEW p \in Proposers, StartPhaseOne(p)
  PROVE  /\ msgs' \subseteq Messages
         /\ crnd' \in [Proposers -> Nat]
         /\ promises' \in [Proposers -> SUBSET Promise]
         /\ phaseOneDone' \in [Proposers -> BOOLEAN]
<1>1. crnd[p] + N \in Nat
  BY QuorumType DEF TypeOK
<1>2. crnd' \in [Proposers -> Nat]
  BY <1>1 DEF TypeOK, StartPhaseOne, IncreaseCrnd
<1>3. [type |-> "Prepare", from |-> p, slot |-> adu[p], crnd |-> crnd[p] + N] \in Prepare
  BY <1>1 DEF TypeOK, Prepare, SlotID
<1> QED BY <1>2, <1>3 DEF TypeOK, StartPhaseOne, Send, Messages

\* A promise, completing phase one or not, keeps the proposer's types.
LEMMA HandlePromiseType ==
  ASSUME TypeOK, NEW p \in Proposers, HandlePromise(p)
  PROVE  /\ msgs' \subseteq Messages
         /\ promises' \in [Proposers -> SUBSET Promise]
         /\ phaseOneDone' \in [Proposers -> BOOLEAN]
         /\ nextSlot' \in [Proposers -> SlotID]
         /\ acceptsOut' \in [Proposers -> Seq(Accept)]
         /\ requestsIn' \in [Proposers -> Seq(ClientValues)]
<1> DEFINE prms(prm) == promises[p] \cup {prm}
<1>1. PICK prm \in Sent("Promise") :
        /\ promises' = [promises EXCEPT ![p] = prms(prm)]
        /\ \/ UNCHANGED <<msgs, phaseOneDone, queueVars>>
           \/ CompletePhaseOne(p, prms(prm))
  BY DEF HandlePromise
<1>2. prms(prm) \in SUBSET Promise
  <2>1. prm \in Promise
    BY DEF Sent, TypeOK, Messages, Prepare, Accept, Learn
  <2> QED BY <2>1 DEF TypeOK
<1>3. promises' \in [Proposers -> SUBSET Promise]
  BY <1>1, <1>2 DEF TypeOK
<1> HIDE DEF prms
<1>4. CASE UNCHANGED <<msgs, phaseOneDone, queueVars>>
  BY <1>3, <1>4 DEF TypeOK, queueVars
<1>5. CASE CompletePhaseOne(p, prms(prm))
  <2>1. adu[p] \in Int /\ adu[p] + 1 \in Nat /\ requestsIn[p] \in Seq(ClientValues)
    BY DEF TypeOK
  <2>2. phaseOneDone' \in [Proposers -> BOOLEAN]
    BY <1>5 DEF CompletePhaseOne, TypeOK
  <2>3. PICK out \in Seq(Accept) : SendAccept(p, adu[p] + 1, adu[p], out, requestsIn[p])
    <3>1. PICK votes \in PurgePrmSlots(prms(prm), adu[p]) :
            \/ SendAccept(p, adu[p] + 1, adu[p], <<>>, requestsIn[p])
            \/ \E low, high \in DOMAIN votes :
                 /\ \A s \in DOMAIN votes : low <= s /\ s <= high
                 /\ SendAccept(p, adu[p] + 1, adu[p],
                               SortAndFillGap(p, votes, low, high), requestsIn[p])
      BY <1>5 DEF CompletePhaseOne
    <3>2. CASE SendAccept(p, adu[p] + 1, adu[p], <<>>, requestsIn[p])
      BY <3>2, EmptySeq
    <3>3. CASE \E low, high \in DOMAIN votes :
                 /\ \A s \in DOMAIN votes : low <= s /\ s <= high
                 /\ SendAccept(p, adu[p] + 1, adu[p],
                               SortAndFillGap(p, votes, low, high), requestsIn[p])
      <4>1. PICK low \in DOMAIN votes, high \in DOMAIN votes :
              /\ low <= high
              /\ SendAccept(p, adu[p] + 1, adu[p],
                            SortAndFillGap(p, votes, low, high), requestsIn[p])
        BY <3>3
      <4>2. SortAndFillGap(p, votes, low, high) \in Seq(Accept)
        BY <4>1, <2>1, <1>2, FillGapType
      <4> QED BY <4>1, <4>2
    <3> QED BY <3>1, <3>2, <3>3
  <2> QED BY <2>1, <2>2, <2>3, <1>3, SendAcceptType
<1> QED BY <1>1, <1>4, <1>5

\* The proposer's own steps keep all types.
LEMMA ProposerStepType ==
  ASSUME TypeOK, NEW p \in Proposers, ProposerStep(p)
  PROVE  TypeOK'
<1> USE DEF proposerVars, queueVars, acceptorVars, learnerVars, bankVars
<1>1. CASE HandlePromise(p)
  <2>1. UNCHANGED <<crnd, adu, leader, deliveries, acceptorVars, learnerVars, bankVars>>
    BY <1>1 DEF HandlePromise, ProposerStep
  <2> QED BY <1>1, <2>1, HandlePromiseType DEF TypeOK
<1>2. CASE HandleClientValue(p)
  <2>1. PICK v \in ClientValues :
          /\ deliveries' = deliveries + 1
          /\ \/ /\ requestsIn' = [requestsIn EXCEPT ![p] = Append(requestsIn[p], v)]
                /\ UNCHANGED <<msgs, nextSlot, acceptsOut>>
             \/ SendAccept(p, nextSlot[p], adu[p], acceptsOut[p],
                           Append(requestsIn[p], v))
          /\ UNCHANGED <<crnd, adu, promises, phaseOneDone, leader>>
    BY <1>2 DEF HandleClientValue
  <2>2. Append(requestsIn[p], v) \in Seq(ClientValues)
    BY AppendProperties DEF TypeOK
  <2>3. /\ msgs' \subseteq Messages
        /\ nextSlot' \in [Proposers -> SlotID]
        /\ acceptsOut' \in [Proposers -> Seq(Accept)]
        /\ requestsIn' \in [Proposers -> Seq(ClientValues)]
    <3>1. CASE UNCHANGED <<msgs, nextSlot, acceptsOut>>
               /\ requestsIn' = [requestsIn EXCEPT ![p] = Append(requestsIn[p], v)]
      BY <3>1, <2>2 DEF TypeOK
    <3>2. CASE SendAccept(p, nextSlot[p], adu[p], acceptsOut[p], Append(requestsIn[p], v))
      <4>1. nextSlot[p] \in Nat /\ adu[p] \in Int /\ acceptsOut[p] \in Seq(Accept)
        BY DEF TypeOK, SlotID
      <4> QED BY <3>2, <2>2, <4>1, SendAcceptType
    <3> QED BY <2>1, <3>1, <3>2
  <2>4. UNCHANGED <<acceptorVars, learnerVars, bankVars>>
    BY DEF ProposerStep
  <2>5. deliveries' \in Nat
    BY <2>1 DEF TypeOK
  <2> QED BY <2>1, <2>3, <2>4, <2>5 DEF TypeOK
<1>3. CASE PhaseOneTick(p)
  <2>1. UNCHANGED <<adu, queueVars, leader, deliveries, acceptorVars, learnerVars, bankVars>>
    BY <1>3 DEF PhaseOneTick, ProposerStep
  <2> QED BY <1>3, <2>1, StartPhaseOneType DEF PhaseOneTick, TypeOK
<1>4. CASE HandleTrust(p)
  <2>1. UNCHANGED <<adu, queueVars, deliveries, acceptorVars, learnerVars, bankVars>>
    BY <1>4 DEF HandleTrust, ProposerStep
  <2>2. leader' \in [Proposers -> Proposers \cup {UnknownID}]
    BY <1>4 DEF HandleTrust, TypeOK
  <2>3. StartPhaseOne(p) \/ UNCHANGED <<msgs, crnd, promises, phaseOneDone>>
    BY <1>4 DEF HandleTrust
  <2>4. CASE StartPhaseOne(p)
    BY <2>1, <2>2, <2>4, StartPhaseOneType DEF TypeOK
  <2>5. CASE UNCHANGED <<msgs, crnd, promises, phaseOneDone>>
    BY <2>1, <2>2, <2>5 DEF TypeOK
  <2> QED BY <2>3, <2>4, <2>5
<1> QED BY <1>1, <1>2, <1>3, <1>4 DEF ProposerStep

\* Promising and voting keep all types.
LEMMA AcceptorStepType ==
  ASSUME TypeOK, NEW a \in Acceptors, AcceptorStep(a)
  PROVE  TypeOK'
<1>1. UNCHANGED <<proposerVars, learnerVars, bankVars>>
  BY DEF AcceptorStep
<1>2. CASE HandlePrepare(a)
  <2>1. PICK prp \in Sent("Prepare") :
          /\ accRnd' = [accRnd EXCEPT ![a] = prp.crnd]
          /\ msgs' = msgs \cup {[type |-> "Promise", to |-> prp.from, from |-> a,
                                 rnd |-> prp.crnd,
                                 slots |-> {ps \in accSlots[a] : ps.id >= prp.slot}]}
          /\ UNCHANGED accSlots
    BY <1>2 DEF HandlePrepare, Send
  <2>2. prp \in Prepare
    BY DEF Sent, TypeOK, Messages, Promise, Accept, Learn
  <2>3. prp.from \in Proposers /\ prp.crnd \in Nat /\ prp.crnd \in Round
    BY <2>2 DEF Prepare, Round
  <2>4. {ps \in accSlots[a] : ps.id >= prp.slot} \in SUBSET PromiseSlot
    BY DEF TypeOK
  <2>5. msgs' \subseteq Messages
    BY <2>1, <2>3, <2>4 DEF TypeOK, Messages, Promise
  <2> QED BY <1>1, <2>1, <2>3, <2>5
       DEF TypeOK, proposerVars, queueVars, learnerVars, bankVars
<1>3. CASE HandleAccept(a)
  <2> DEFINE kept(acc) == {ps \in accSlots[a] : ps.id # acc.slot}
                          \cup {[id |-> acc.slot, vrnd |-> acc.rnd, vval |-> acc.val]}
  <2>1. PICK acc \in Sent("Accept") :
          /\ accRnd' = [accRnd EXCEPT ![a] = acc.rnd]
          /\ accSlots' = [accSlots EXCEPT ![a] = kept(acc)]
          /\ msgs' = msgs \cup {[type |-> "Learn", from |-> a, slot |-> acc.slot,
                                 rnd |-> acc.rnd, val |-> acc.val]}
    BY <1>3 DEF HandleAccept, Send
  <2>2. acc \in Accept
    BY DEF Sent, TypeOK, Messages, Promise, Prepare, Learn
  <2>3. acc.slot \in SlotID /\ acc.rnd \in Nat /\ acc.rnd \in Round /\ acc.val \in Value
    BY <2>2 DEF Accept, Round
  <2>4. kept(acc) \in SUBSET PromiseSlot
    BY <2>3 DEF TypeOK, PromiseSlot
  <2>5. accSlots' \in [Acceptors -> SUBSET PromiseSlot]
    BY <2>1, <2>4 DEF TypeOK
  <2>6. msgs' \subseteq Messages
    BY <2>1, <2>3 DEF TypeOK, Messages, Learn
  <2> QED BY <1>1, <2>1, <2>3, <2>5, <2>6
       DEF TypeOK, proposerVars, queueVars, learnerVars, bankVars
<1> QED BY <1>2, <1>3 DEF AcceptorStep

\* Counting learns and reporting decisions keeps all types.
LEMMA LearnerStepType ==
  ASSUME TypeOK, NEW l \in Learners, LearnerStep(l)
  PROVE  TypeOK'
<1>1. UNCHANGED <<msgs, proposerVars, acceptorVars, bankVars>>
  BY DEF LearnerStep, HandleLearn
<1>2. PICK lrn \in Sent("Learn") :
        /\ lrnRnd' = [lrnRnd EXCEPT ![l] = lrn.rnd]
        /\ \E learns \in SUBSET (lrnSlots[l] \cup {lrn}) :
             lrnSlots' = [lrnSlots EXCEPT ![l] = learns]
        /\ \/ /\ lrnSent' = [lrnSent EXCEPT ![l] = @ \cup {lrn.slot}]
              /\ decidedOut' = [decidedOut EXCEPT ![l] =
                   Append(@, [slot |-> lrn.slot, val |-> lrn.val])]
           \/ UNCHANGED <<lrnSent, decidedOut>>
  <2>1. PICK lrn \in Sent("Learn") :
          /\ Record(l, lrn)
          /\ \/ /\ lrnSent' = [lrnSent EXCEPT ![l] = @ \cup {lrn.slot}]
                /\ decidedOut' = [decidedOut EXCEPT ![l] =
                     Append(@, [slot |-> lrn.slot, val |-> lrn.val])]
             \/ UNCHANGED <<lrnSent, decidedOut>>
    BY DEF LearnerStep, HandleLearn
  <2> DEFINE learns == {lrn} \cup (IF lrn.rnd > lrnRnd[l]
                                    THEN lrnSlots[l] \ InSlot(lrnSlots[l], lrn.slot)
                                    ELSE lrnSlots[l])
  <2>2. learns \in SUBSET (lrnSlots[l] \cup {lrn})
    OBVIOUS
  <2>3. lrnSlots' = [lrnSlots EXCEPT ![l] = learns] /\ lrnRnd' = [lrnRnd EXCEPT ![l] = lrn.rnd]
    BY <2>1 DEF Record
  <2> QED BY <2>1, <2>2, <2>3
<1>3. lrn \in Learn
  BY DEF Sent, TypeOK, Messages, Promise, Prepare, Accept
<1>4. lrn.slot \in SlotID /\ lrn.rnd \in Round /\ lrn.val \in Value
  BY <1>3 DEF Learn, Round
<1>5. lrnRnd' \in [Learners -> Round] /\ lrnSlots' \in [Learners -> SUBSET Learn]
  BY <1>2, <1>3, <1>4 DEF TypeOK
<1>6. lrnSent' \in [Learners -> SUBSET SlotID] /\ decidedOut' \in [Learners -> Seq(DecidedValue)]
  <2>1. [slot |-> lrn.slot, val |-> lrn.val] \in DecidedValue
    BY <1>4 DEF DecidedValue
  <2>2. Append(decidedOut[l], [slot |-> lrn.slot, val |-> lrn.val]) \in Seq(DecidedValue)
    BY <2>1, AppendProperties DEF TypeOK
  <2>3. CASE UNCHANGED <<lrnSent, decidedOut>>
    BY <2>3 DEF TypeOK
  <2>4. CASE /\ lrnSent' = [lrnSent EXCEPT ![l] = @ \cup {lrn.slot}]
             /\ decidedOut' = [decidedOut EXCEPT ![l] =
                  Append(@, [slot |-> lrn.slot, val |-> lrn.val])]
    <3>1. lrnSent' \in [Learners -> SUBSET SlotID]
      BY <2>4, <1>4 DEF TypeOK
    <3>2. decidedOut' \in [Learners -> Seq(DecidedValue)]
      BY <2>4, <2>2 DEF TypeOK
    <3> QED BY <3>1, <3>2
  <2> QED BY <1>2, <2>3, <2>4
<1> QED BY <1>1, <1>5, <1>6 DEF TypeOK, proposerVars, queueVars, acceptorVars, bankVars

\* Processing a decided value for the next slot keeps the bank's types.
LEMMA ApplyType ==
  ASSUME TypeOK, NEW l \in Learners, NEW dVal \in DecidedValue, Apply(l, dVal)
  PROVE  /\ bankAdu' \in [Learners -> Nat \cup {-1}]
         /\ bankLog' \in [Learners -> Seq(Value)]
         /\ bankWaiting' \in [Learners -> BOOLEAN]
<1>1. Append(bankLog[l], dVal.val) \in Seq(Value)
  BY AppendProperties DEF TypeOK, DecidedValue
<1>2. bankAdu[l] + 1 \in Nat
  <2>1. bankAdu[l] \in Nat \cup {-1}
    BY DEF TypeOK
  <2> QED BY <2>1
<1> QED BY <1>1, <1>2 DEF TypeOK, Apply

\* The bank handler's steps keep all types.
LEMMA BankStepType ==
  ASSUME TypeOK, NEW l \in Learners,
         TakeDecided(l) \/ DrainBuffer(l) \/ IncrementAllDecidedUpTo(l)
  PROVE  TypeOK'
<1>1. CASE TakeDecided(l)
  <2> DEFINE dVal == Head(decidedOut[l])
  <2>1. dVal \in DecidedValue /\ Tail(decidedOut[l]) \in Seq(DecidedValue)
    BY <1>1, HeadTailProperties DEF TakeDecided, TypeOK
  <2>2. decidedOut' \in [Learners -> Seq(DecidedValue)]
    BY <1>1, <2>1 DEF TakeDecided, TypeOK
  <2>3. UNCHANGED <<msgs, proposerVars, acceptorVars, lrnRnd, lrnSlots, lrnSent>>
    BY <1>1 DEF TakeDecided
  <2>4. \/ UNCHANGED bankVars
        \/ /\ bankBuffer' = [bankBuffer EXCEPT ![l] = @ \cup {dVal}]
           /\ UNCHANGED <<bankAdu, bankLog, bankWaiting>>
        \/ Apply(l, dVal) /\ UNCHANGED bankBuffer
    BY <1>1 DEF TakeDecided, HandleDecidedValue
  <2> HIDE DEF dVal
  <2>5. /\ bankAdu' \in [Learners -> Nat \cup {-1}]
        /\ bankBuffer' \in [Learners -> SUBSET DecidedValue]
        /\ bankLog' \in [Learners -> Seq(Value)]
        /\ bankWaiting' \in [Learners -> BOOLEAN]
    <3>1. CASE UNCHANGED bankVars
      BY <3>1 DEF bankVars, TypeOK
    <3>2. CASE /\ bankBuffer' = [bankBuffer EXCEPT ![l] = @ \cup {dVal}]
               /\ UNCHANGED <<bankAdu, bankLog, bankWaiting>>
      BY <3>2, <2>1 DEF TypeOK
    <3>3. CASE Apply(l, dVal) /\ UNCHANGED bankBuffer
      BY <3>3, <2>1, ApplyType DEF TypeOK
    <3> QED BY <2>4, <3>1, <3>2, <3>3
  <2> QED BY <2>2, <2>3, <2>5 DEF TypeOK, proposerVars, queueVars, acceptorVars
<1>2. CASE DrainBuffer(l)
  <2>1. PICK dVal \in bankBuffer[l] :
          /\ bankBuffer' = [bankBuffer EXCEPT ![l] = @ \ {dVal}]
          /\ Apply(l, dVal)
    BY <1>2 DEF DrainBuffer, HandleBuffered, NextBuffered
  <2>2. dVal \in DecidedValue /\ bankBuffer' \in [Learners -> SUBSET DecidedValue]
    BY <2>1 DEF TypeOK
  <2>3. UNCHANGED <<msgs, proposerVars, acceptorVars, learnerVars>>
    BY <1>2 DEF DrainBuffer
  <2> QED BY <2>1, <2>2, <2>3, ApplyType
       DEF TypeOK, proposerVars, queueVars, acceptorVars, learnerVars
<1>3. CASE IncrementAllDecidedUpTo(l)
  <2>1. /\ UNCHANGED <<acceptorVars, learnerVars, bankAdu, bankBuffer, bankLog>>
        /\ bankWaiting' = [bankWaiting EXCEPT ![l] = FALSE]
        /\ UNCHANGED <<crnd, promises, phaseOneDone, leader, deliveries>>
        /\ adu' = [adu EXCEPT ![l] = adu[l] + 1]
    BY <1>3 DEF IncrementAllDecidedUpTo, ProposerTold, HandleIncDcd
  <2>2. l \in Proposers /\ adu[l] + 1 \in Nat
    <3>1. l \in Proposers
      BY ConfigAssumption
    <3>2. adu[l] \in Nat \cup {-1}
      BY <3>1 DEF TypeOK
    <3> QED BY <3>1, <3>2
  <2>3. adu' \in [Proposers -> Nat \cup {-1}] /\ bankWaiting' \in [Learners -> BOOLEAN]
    BY <2>1, <2>2 DEF TypeOK
  <2>4. /\ msgs' \subseteq Messages
        /\ nextSlot' \in [Proposers -> SlotID]
        /\ acceptsOut' \in [Proposers -> Seq(Accept)]
        /\ requestsIn' \in [Proposers -> Seq(ClientValues)]
    <3>1. \/ SendAccept(l, nextSlot[l], adu[l] + 1, acceptsOut[l], requestsIn[l])
          \/ UNCHANGED <<msgs, queueVars>>
      BY <1>3 DEF IncrementAllDecidedUpTo, HandleIncDcd
    <3>2. CASE SendAccept(l, nextSlot[l], adu[l] + 1, acceptsOut[l], requestsIn[l])
      <4>1. /\ nextSlot[l] \in Nat
            /\ acceptsOut[l] \in Seq(Accept)
            /\ requestsIn[l] \in Seq(ClientValues)
            /\ adu[l] + 1 \in Int
        BY <2>2 DEF TypeOK, SlotID
      <4> QED BY <3>2, <4>1, <2>2, SendAcceptType
    <3>3. CASE UNCHANGED <<msgs, queueVars>>
      BY <3>3 DEF TypeOK, queueVars
    <3> QED BY <3>1, <3>2, <3>3
  <2> QED BY <2>1, <2>3, <2>4 DEF TypeOK, acceptorVars, learnerVars
<1> QED BY <1>1, <1>2, <1>3

-----------------------------------------------------------------------------
(* The theorem *)

\* What the constructors set up is well typed.
LEMMA InitType == Init => TypeOK
<1> SUFFICES ASSUME Init PROVE TypeOK
  OBVIOUS
<1> USE DEF Init
<1>1. FirstLeader \in Proposers
  BY ConfigAssumption DEF FirstLeader
<1>2. /\ msgs \subseteq Messages
      /\ crnd \in [Proposers -> Nat]
      /\ adu \in [Proposers -> Nat \cup {-1}]
      /\ nextSlot \in [Proposers -> SlotID]
      /\ promises \in [Proposers -> SUBSET Promise]
      /\ phaseOneDone \in [Proposers -> BOOLEAN]
      /\ leader \in [Proposers -> Proposers \cup {UnknownID}]
      /\ deliveries \in Nat
  BY <1>1, ConfigAssumption DEF ProposerInit, SlotID
<1>3. /\ acceptsOut \in [Proposers -> Seq(Accept)]
      /\ requestsIn \in [Proposers -> Seq(ClientValues)]
  BY EmptySeq DEF ProposerInit
<1>4. accRnd \in [Acceptors -> Round] /\ accSlots \in [Acceptors -> SUBSET PromiseSlot]
  BY DEF AcceptorInit, Round
<1>5. /\ lrnRnd \in [Learners -> Round]
      /\ lrnSlots \in [Learners -> SUBSET Learn]
      /\ lrnSent \in [Learners -> SUBSET SlotID]
      /\ decidedOut \in [Learners -> Seq(DecidedValue)]
  BY EmptySeq DEF LearnerInit, Round
<1>6. /\ bankAdu \in [Learners -> Nat \cup {-1}]
      /\ bankBuffer \in [Learners -> SUBSET DecidedValue]
      /\ bankLog \in [Learners -> Seq(Value)]
      /\ bankWaiting \in [Learners -> BOOLEAN]
  BY EmptySeq DEF BankInit
<1> QED BY <1>2, <1>3, <1>4, <1>5, <1>6 DEF TypeOK

\* Every step of a node keeps the types.
LEMMA NextType == TypeOK /\ [Next]_vars => TypeOK'
<1> SUFFICES ASSUME TypeOK, [Next]_vars PROVE TypeOK'
  OBVIOUS
<1>1. CASE UNCHANGED vars
  BY <1>1 DEF TypeOK, vars, proposerVars, queueVars, acceptorVars, learnerVars, bankVars
<1>2. CASE Next
  BY <1>2, ProposerStepType, AcceptorStepType, LearnerStepType, BankStepType DEF Next
<1> QED BY <1>1, <1>2

\* Every variable of the system keeps its type, for any configuration of
\* nodes, any values and any bounds.
THEOREM TypeCorrect == Spec => []TypeOK
<1>1. Init => TypeOK
  BY InitType
<1>2. TypeOK /\ [Next]_vars => TypeOK'
  BY NextType
<1> QED BY <1>1, <1>2, PTL DEF Spec

-----------------------------------------------------------------------------
(* Quorums *)

\* Two majorities of acceptors have a member in common.
LEMMA QuorumsMeet ==
  ASSUME NEW Q1, NEW Q2, IsQuorum(Q1), IsQuorum(Q2)
  PROVE  Q1 \cap Q2 # {}
<1>1. Cardinality(Q1) \in Nat /\ Cardinality(Q2) \in Nat
  BY ConfigAssumption, FS_Subset, FS_CardinalityType DEF IsQuorum
<1>2. Cardinality(Q1) + Cardinality(Q2) > Cardinality(Acceptors)
  BY <1>1, QuorumType DEF IsQuorum, N
<1> QED BY <1>2, ConfigAssumption, FS_MajoritiesIntersect DEF IsQuorum

\* The senders of enough promises from different acceptors are a quorum.
LEMMA SendersQuorum ==
  ASSUME TypeOK, NEW p, NEW prms, Held(p, prms), Cardinality(prms) >= Quorum
  PROVE  IsQuorum({prm.from : prm \in prms})
<1> DEFINE from == [prm \in prms |-> prm.from]
           senders == {prm.from : prm \in prms}
<1>1. prms \subseteq Promise
  BY DEF Held, Sent, TypeOK, Messages, Prepare, Accept, Learn
<1>2. senders \subseteq Acceptors
  BY <1>1 DEF Promise
<1>3. from \in Injection(prms, senders)
  BY DEF Held, Injection, IsInjective
<1>4. IsFiniteSet(senders)
  BY <1>2, ConfigAssumption, FS_Subset
<1>5. Cardinality(prms) <= Cardinality(senders)
  BY <1>3, <1>4, FS_Injection
<1>6. Cardinality(prms) \in Nat /\ Cardinality(senders) \in Nat
  BY <1>4, FS_CardinalityType DEF Held
<1> QED BY <1>2, <1>5, <1>6, QuorumType DEF IsQuorum

-----------------------------------------------------------------------------
(* What steps keep *)

\* Messages are not forgotten, rounds do not decrease, and a new vote is in a
\* round at least as high as its acceptor had reached.
Advances ==
  /\ msgs \subseteq msgs'
  /\ \A a \in Acceptors : accRnd[a] <= accRnd'[a]
  /\ \A lrn \in Sent("Learn")' : lrn \in Sent("Learn") \/ lrn.rnd >= accRnd[lrn.from]

\* A vote that will never be cast stays uncast.
LEMMA WontVoteStable ==
  ASSUME TypeOK, TypeOK', Advances,
         NEW a \in Acceptors, NEW s, NEW r \in Int, WontVoteIn(a, s, r)
  PROVE  WontVoteIn(a, s, r)'
<1>1. accRnd[a] \in Int /\ accRnd'[a] \in Int
  BY DEF TypeOK, Round, NoRound
<1>2. accRnd'[a] > r
  BY <1>1 DEF Advances, WontVoteIn
<1>3. ASSUME NEW lrn \in Sent("Learn")', lrn.from = a, lrn.slot = s, lrn.rnd = r
      PROVE  FALSE
  BY <1>1, <1>3 DEF Advances, WontVoteIn
<1> QED BY <1>2, <1>3 DEF WontVoteIn

\* A safe value stays safe.
LEMMA SafeAtStable ==
  ASSUME TypeOK, TypeOK', Advances,
         NEW s, NEW r \in Int, NEW v, SafeAt(s, r, v)
  PROVE  SafeAt(s, r, v)'
<1> SUFFICES ASSUME NEW r2 \in 0..(r - 1)
             PROVE  \E Q \in SUBSET Acceptors :
                      /\ IsQuorum(Q)
                      /\ \A a \in Q : VotedFor(a, s, r2, v)' \/ WontVoteIn(a, s, r2)'
  BY DEF SafeAt, IsQuorum, Quorum, N
<1>1. PICK Q \in SUBSET Acceptors :
        /\ IsQuorum(Q)
        /\ \A a \in Q : VotedFor(a, s, r2, v) \/ WontVoteIn(a, s, r2)
  BY DEF SafeAt
<1>2. \A a \in Q : VotedFor(a, s, r2, v) => VotedFor(a, s, r2, v)'
  BY DEF VotedFor, Sent, Advances
<1>3. \A a \in Q : WontVoteIn(a, s, r2) => WontVoteIn(a, s, r2)'
  BY WontVoteStable
<1> QED BY <1>1, <1>2, <1>3

\* If a slot's rounds have one proposal each later, they have now.
LEMMA ProposedOnceBefore ==
  ASSUME msgs \subseteq msgs', NEW s, ProposedOnce(s)'
  PROVE  ProposedOnce(s)
BY DEF ProposedOnce, Sent

-----------------------------------------------------------------------------
(* Agreement follows from safe proposals *)

\* A value chosen in a round below that of a safe value is that value.
LEMMA ChosenBelow ==
  ASSUME TypeOK, LearnInv, NEW s, ProposedOnce(s),
         NEW r1 \in Nat, NEW r2 \in Int, r1 < r2, NEW v1, NEW v2,
         Chosen(s, r1, v1), SafeAt(s, r2, v2)
  PROVE  v1 = v2
<1>1. r1 \in 0..(r2 - 1)
  OBVIOUS
<1>2. PICK Q \in SUBSET Acceptors :
        /\ IsQuorum(Q)
        /\ \A a \in Q : VotedFor(a, s, r1, v2) \/ WontVoteIn(a, s, r1)
  BY <1>1 DEF SafeAt
<1>3. IsQuorum(VotersFor(s, r1, v1))
  BY DEF Chosen, VotersFor, IsQuorum
<1>4. PICK a \in Q : a \in VotersFor(s, r1, v1)
  BY <1>2, <1>3, QuorumsMeet
<1>5. PICK lrn1 \in Sent("Learn") :
        lrn1.from = a /\ lrn1.slot = s /\ lrn1.rnd = r1 /\ lrn1.val = v1
  BY <1>4 DEF VotersFor
<1>6. PICK lrn2 \in Sent("Learn") :
        lrn2.from = a /\ lrn2.slot = s /\ lrn2.rnd = r1 /\ lrn2.val = v2
  BY <1>2, <1>5 DEF VotedFor, WontVoteIn
<1>7. \E acc1, acc2 \in Sent("Accept") :
        /\ acc1.slot = s /\ acc1.rnd = r1 /\ acc1.val = v1
        /\ acc2.slot = s /\ acc2.rnd = r1 /\ acc2.val = v2
  BY <1>5, <1>6 DEF LearnInv
<1> QED BY <1>7 DEF ProposedOnce

\* The agreement property follows from the invariants on votes and proposals.
LEMMA InvAgreement ==
  ASSUME TypeOK, LearnInv, ProposalInv
  PROVE  AgreementIfProposedOnce
<1> SUFFICES ASSUME NEW lrn1 \in Sent("Learn"), NEW lrn2 \in Sent("Learn"),
                    lrn1.slot = lrn2.slot,
                    ProposedOnce(lrn1.slot),
                    Chosen(lrn1.slot, lrn1.rnd, lrn1.val),
                    Chosen(lrn2.slot, lrn2.rnd, lrn2.val)
             PROVE  lrn1.val = lrn2.val
  BY DEF AgreementIfProposedOnce
<1>1. PICK acc1 \in Sent("Accept") :
        acc1.slot = lrn1.slot /\ acc1.rnd = lrn1.rnd /\ acc1.val = lrn1.val
  BY DEF LearnInv
<1>2. PICK acc2 \in Sent("Accept") :
        acc2.slot = lrn2.slot /\ acc2.rnd = lrn2.rnd /\ acc2.val = lrn2.val
  BY DEF LearnInv
<1>3. /\ SafeAt(lrn1.slot, lrn1.rnd, lrn1.val)
      /\ SafeAt(lrn2.slot, lrn2.rnd, lrn2.val)
  BY <1>1, <1>2 DEF ProposalInv
<1>7. lrn1.rnd \in Nat /\ lrn2.rnd \in Nat
  BY DEF Sent, TypeOK, Messages, Prepare, Promise, Accept, Learn
<1>4. CASE lrn1.rnd = lrn2.rnd
  BY <1>1, <1>2, <1>4 DEF ProposedOnce
<1>5. CASE lrn1.rnd < lrn2.rnd
  BY <1>3, <1>5, <1>7, ChosenBelow
<1>6. CASE lrn2.rnd < lrn1.rnd
  BY <1>3, <1>6, <1>7, ChosenBelow
<1> QED BY <1>4, <1>5, <1>6, <1>7

-----------------------------------------------------------------------------
(* What a quorum of promises allows *)

\* An acceptor that promised round r and reported no vote of round r2 or later
\* in a covered slot will not vote there in r2.
LEMMA SilentWontVote ==
  ASSUME TypeOK, PromiseInv, NEW p \in Proposers, NEW prms, Held(p, prms),
         NEW s \in Int, Covered(p, s), NEW prm \in prms, NEW r2 \in Int, r2 < crnd[p],
         \A ps \in prm.slots : ps.id = s => ps.vrnd < r2
  PROVE  WontVoteIn(prm.from, s, r2)
<1>1. prm \in Sent("Promise") /\ prm.to = p /\ prm.rnd = crnd[p]
  BY DEF Held
<1>2. prm \in Promise /\ prm.from \in Acceptors /\ prm.slots \subseteq PromiseSlot
  BY <1>1 DEF Sent, TypeOK, Messages, Prepare, Promise, Accept, Learn
<1>3. crnd[p] \in Int /\ accRnd[prm.from] \in Int
  BY <1>2 DEF TypeOK, Round, NoRound
<1>4. accRnd[prm.from] > r2
  BY <1>1, <1>3 DEF PromiseInv
<1>5. PICK prp \in Sent("Prepare") :
        prp.from = p /\ prp.crnd = crnd[p] /\ Reports(prm, prp)
  BY <1>1 DEF PromiseInv
<1>6. prp.slot \in Int /\ prp.slot < s
  <2>1. prp \in Prepare
    BY DEF Sent, TypeOK, Messages, Promise, Accept, Learn
  <2>2. prp.slot \in Int
    BY <2>1 DEF Prepare, SlotID
  <2> QED BY <1>5, <2>2 DEF Covered
<1>7. ASSUME NEW lrn \in Sent("Learn"), lrn.from = prm.from, lrn.slot = s, lrn.rnd = r2
      PROVE  FALSE
  <2>1. PICK ps \in prm.slots : ps.id = s /\ ps.vrnd >= r2
    BY <1>1, <1>3, <1>5, <1>6, <1>7 DEF Reports
  <2>2. ps.vrnd \in Int
    BY <1>2 DEF PromiseSlot, Round, NoRound
  <2> QED BY <2>1, <2>2
<1> QED BY <1>4, <1>7 DEF WontVoteIn

\* In a covered slot that no promise of a quorum reports, any value is safe.
LEMMA UnreportedSafe ==
  ASSUME TypeOK, PromiseInv, NEW p \in Proposers, NEW prms, Held(p, prms),
         Cardinality(prms) >= Quorum, NEW s \in Int, Covered(p, s),
         \A prm \in prms : \A ps \in prm.slots : ps.id # s,
         NEW v
  PROVE  SafeAt(s, crnd[p], v)
<1> DEFINE Q == {prm.from : prm \in prms}
<1>1. IsQuorum(Q)
  BY SendersQuorum
<1>2. ASSUME NEW r2 \in 0..(crnd[p] - 1), NEW a \in Q
      PROVE  WontVoteIn(a, s, r2)
  <2>1. r2 \in Int /\ r2 < crnd[p]
    BY DEF TypeOK
  <2> QED BY <2>1, SilentWontVote
<1> QED BY <1>1, <1>2 DEF SafeAt, IsQuorum

\* In a covered slot, the value reported with the highest round by a quorum of
\* promises is safe, if no round has two proposals there.
LEMMA ReportedSafe ==
  ASSUME TypeOK, LearnInv, PromiseInv, ProposalInv,
         NEW p \in Proposers, NEW prms, Held(p, prms),
         Cardinality(prms) >= Quorum, NEW s \in Int, Covered(p, s), ProposedOnce(s),
         NEW best, NEW prm0 \in prms, best \in prm0.slots, best.id = s,
         \A prm \in prms : \A ps \in prm.slots : ps.id = s => ps.vrnd <= best.vrnd
  PROVE  SafeAt(s, crnd[p], best.vval)
<1> DEFINE Q == {prm.from : prm \in prms}
<1>1. IsQuorum(Q)
  BY SendersQuorum
<1>2. prms \subseteq Sent("Promise") /\ prms \subseteq Promise
  BY DEF Held, Sent, TypeOK, Messages, Prepare, Accept, Learn
<1>3. best.vrnd \in Int /\ \A prm \in prms : \A ps \in prm.slots : ps.vrnd \in Int
  BY <1>2 DEF Promise, PromiseSlot, Round, NoRound
<1>4. PICK acc \in Sent("Accept") :
        acc.slot = s /\ acc.rnd = best.vrnd /\ acc.val = best.vval
  BY <1>2 DEF PromiseInv, LearnInv, VotedFor
<1> SUFFICES ASSUME NEW r2 \in 0..(crnd[p] - 1)
             PROVE  \E Q2 \in SUBSET Acceptors :
                      /\ IsQuorum(Q2)
                      /\ \A a \in Q2 : VotedFor(a, s, r2, best.vval) \/ WontVoteIn(a, s, r2)
  BY DEF SafeAt
<1>5. r2 \in Int /\ r2 < crnd[p] /\ r2 >= 0
  BY DEF TypeOK
<1>6. CASE r2 > best.vrnd
  <2>1. \A prm \in prms : \A ps \in prm.slots : ps.id = s => ps.vrnd < r2
    BY <1>3, <1>5, <1>6
  <2>2. \A prm \in prms : WontVoteIn(prm.from, s, r2)
    BY <2>1, <1>5, SilentWontVote
  <2> QED BY <1>1, <2>2 DEF IsQuorum
<1>7. CASE r2 = best.vrnd
  <2>1. ASSUME NEW prm \in prms
        PROVE  VotedFor(prm.from, s, r2, best.vval) \/ WontVoteIn(prm.from, s, r2)
    <3>1. CASE \E lrn \in Sent("Learn") :
                 lrn.from = prm.from /\ lrn.slot = s /\ lrn.rnd = r2
      <4>1. PICK lrn \in Sent("Learn") :
              lrn.from = prm.from /\ lrn.slot = s /\ lrn.rnd = r2
        BY <3>1
      <4>2. PICK acc2 \in Sent("Accept") :
              acc2.slot = s /\ acc2.rnd = r2 /\ acc2.val = lrn.val
        BY <4>1 DEF LearnInv
      <4>3. lrn.val = best.vval
        BY <1>4, <1>7, <4>2 DEF ProposedOnce
      <4> QED BY <4>1, <4>3 DEF VotedFor
    <3>2. CASE ~ \E lrn \in Sent("Learn") :
                 lrn.from = prm.from /\ lrn.slot = s /\ lrn.rnd = r2
      <4>1. prm.rnd = crnd[p] /\ prm.rnd <= accRnd[prm.from]
        BY <1>2 DEF Held, PromiseInv
      <4>2. prm.from \in Acceptors
        BY <1>2 DEF Promise
      <4>3. crnd[p] \in Int /\ accRnd[prm.from] \in Int
        BY <4>2 DEF TypeOK, Round, NoRound
      <4>4. accRnd[prm.from] > r2
        BY <4>1, <4>3, <1>5
      <4> QED BY <3>2, <4>4 DEF WontVoteIn
    <3> QED BY <3>1, <3>2
  <2> QED BY <1>1, <2>1 DEF IsQuorum
<1>8. CASE r2 < best.vrnd
  <2>1. SafeAt(s, best.vrnd, best.vval)
    BY <1>4 DEF ProposalInv
  <2>2. r2 \in 0..(best.vrnd - 1)
    BY <1>3, <1>5, <1>8
  <2> QED BY <2>1, <2>2 DEF SafeAt
<1> QED BY <1>3, <1>5, <1>6, <1>7, <1>8

-----------------------------------------------------------------------------
(* Proposing *)

\* Messages of the other kinds stay the same when accepts are sent.
OnlyAcceptsSent ==
  /\ msgs \subseteq msgs'
  /\ \A kind \in {"Prepare", "Promise", "Learn"} : Sent(kind)' = Sent(kind)

\* The accept sendAccept emits, if any: of p's round, and safe.
LEMMA SendAcceptSafe ==
  ASSUME TypeOK, PromiseInv, ProposalInv,
         NEW p \in Proposers, NEW prms, Held(p, prms),
         NEW next \in Nat, NEW decided \in Int,
         NEW out \in Seq(Accept), NEW reqs \in Seq(ClientValues),
         Ready(p, prms, next, out),
         SendAccept(p, next, decided, out, reqs)
  PROVE  \/ msgs' = msgs
         \/ \E acc \in Accept :
              /\ msgs' = msgs \cup {acc}
              /\ acc.from = p /\ acc.rnd = crnd[p]
              /\ ProposedOnce(acc.slot)' => SafeAt(acc.slot, acc.rnd, acc.val)
<1> DEFINE new == [type |-> "Accept", from |-> p, slot |-> next, rnd |-> crnd[p],
                   val |-> Head(reqs)]
<1>1. \/ msgs' = msgs
      \/ out # <<>> /\ msgs' = msgs \cup {Head(out)}
      \/ out = <<>> /\ reqs # <<>> /\ msgs' = msgs \cup {new}
  BY DEF SendAccept, Send
<1>2. CASE out # <<>> /\ msgs' = msgs \cup {Head(out)}
  <2>1. 1 \in DOMAIN out /\ Head(out) = out[1] /\ out[1] \in Accept
    BY <1>2
  <2>2. ProposedOnce(out[1].slot)' => ProposedOnce(out[1].slot)
    BY <1>2, ProposedOnceBefore
  <2> QED BY <1>2, <2>1, <2>2 DEF Ready, QueueSafe
<1>3. CASE out = <<>> /\ reqs # <<>> /\ msgs' = msgs \cup {new}
  <2>1. new \in Accept
    <3>1. Head(reqs) \in Value
      BY <1>3 DEF Value
    <3>2. crnd[p] \in Nat
      BY DEF TypeOK
    <3> QED BY <3>1, <3>2 DEF Accept, SlotID
  <2>2. ASSUME ProposedOnce(next)' PROVE SafeAt(next, crnd[p], new.val)
    <3>1. CASE Proposed(next, crnd[p])
      <4>1. PICK acc \in Sent("Accept") : acc.slot = next /\ acc.rnd = crnd[p]
        BY <3>1 DEF Proposed
      <4>2. acc \in Sent("Accept")' /\ new \in Sent("Accept")'
        BY <1>3 DEF Sent
      <4>3. acc.val = new.val
        BY <2>2, <4>1, <4>2 DEF ProposedOnce
      <4>4. ProposedOnce(next)
        BY <2>2, <1>3, ProposedOnceBefore
      <4> QED BY <4>1, <4>3, <4>4 DEF ProposalInv
    <3>2. CASE ~Proposed(next, crnd[p])
      <4>1. ASSUME NEW prm \in prms, NEW ps \in prm.slots, ps.id = next
            PROVE  FALSE
        <5>1. DOMAIN out = {}
          BY <1>3
        <5> QED BY <3>2, <4>1, <5>1 DEF Ready, NoneOverlooked
      <4> QED BY <4>1, UnreportedSafe DEF Ready
    <3> QED BY <3>1, <3>2
  <2> QED BY <1>3, <2>1, <2>2
<1> QED BY <1>1, <1>2, <1>3

\* Proposals stay safe, if the new ones are.
LEMMA ProposalsStaySafe ==
  ASSUME TypeOK, TypeOK', ProposalInv, Advances,
         \A acc \in Sent("Accept")' :
           \/ acc \in Sent("Accept")
           \/ ProposedOnce(acc.slot)' => SafeAt(acc.slot, acc.rnd, acc.val)
  PROVE  ProposalInv'
<1> SUFFICES ASSUME NEW acc \in Sent("Accept")', ProposedOnce(acc.slot)'
             PROVE  SafeAt(acc.slot, acc.rnd, acc.val)'
  BY DEF ProposalInv
<1>1. ProposedOnce(acc.slot)
  BY ProposedOnceBefore DEF Advances
<1>2. SafeAt(acc.slot, acc.rnd, acc.val)
  BY <1>1 DEF ProposalInv
<1>3. acc \in Accept
  BY DEF Sent, TypeOK, Messages, Prepare, Promise, Learn
<1>4. acc.rnd \in Int
  BY <1>3 DEF Accept
<1> QED BY <1>2, <1>4, SafeAtStable

\* Sending at most an accept, and that one safe, keeps every proposal safe.
LEMMA ProposalStep ==
  ASSUME TypeOK, TypeOK', ProposalInv, UNCHANGED accRnd,
         \/ msgs' = msgs
         \/ \E acc \in Accept :
              /\ msgs' = msgs \cup {acc}
              /\ ProposedOnce(acc.slot)' => SafeAt(acc.slot, acc.rnd, acc.val)
  PROVE  Advances /\ OnlyAcceptsSent /\ ProposalInv'
<1>1. OnlyAcceptsSent
  BY DEF OnlyAcceptsSent, Sent, Accept
<1>2. Advances
  <2>1. \A a \in Acceptors : accRnd[a] \in Int
    BY DEF TypeOK, Round, NoRound
  <2> QED BY <1>1, <2>1 DEF Advances, OnlyAcceptsSent
<1>3. ASSUME NEW acc \in Sent("Accept")', acc \notin Sent("Accept")
      PROVE  ProposedOnce(acc.slot)' => SafeAt(acc.slot, acc.rnd, acc.val)
  BY <1>3 DEF Sent
<1> QED BY <1>1, <1>2, <1>3, ProposalsStaySafe

\* The queue after sendAccept: the same, or its tail once the head was sent.
LEMMA SendAcceptQueue ==
  ASSUME TypeOK, NEW p \in Proposers, NEW next \in Nat, NEW decided \in Int,
         NEW out \in Seq(Accept), NEW reqs \in Seq(ClientValues),
         SendAccept(p, next, decided, out, reqs)
  PROVE  \E n \in Nat, o \in Seq(Accept) :
           /\ nextSlot' = [nextSlot EXCEPT ![p] = n]
           /\ acceptsOut' = [acceptsOut EXCEPT ![p] = o]
           /\ n >= next
           /\ \A i \in DOMAIN o : \E j \in DOMAIN out : o[i] = out[j]
           /\ \A j \in DOMAIN out : \/ \E i \in DOMAIN o : o[i] = out[j]
                                    \/ msgs' = msgs \cup {out[j]}
<1>1. \/ /\ nextSlot' = [nextSlot EXCEPT ![p] = next] \/ nextSlot' = [nextSlot EXCEPT ![p] = next + 1]
         /\ acceptsOut' = [acceptsOut EXCEPT ![p] = out]
      \/ /\ out # <<>>
         /\ nextSlot' = [nextSlot EXCEPT ![p] = next + 1]
         /\ acceptsOut' = [acceptsOut EXCEPT ![p] = Tail(out)]
         /\ msgs' = msgs \cup {Head(out)}
  BY DEF SendAccept, Send
<1>2. next + 1 \in Nat /\ next + 1 >= next /\ next >= next
  OBVIOUS
<1>3. CASE /\ out # <<>>
           /\ nextSlot' = [nextSlot EXCEPT ![p] = next + 1]
           /\ acceptsOut' = [acceptsOut EXCEPT ![p] = Tail(out)]
           /\ msgs' = msgs \cup {Head(out)}
  <2>1. /\ Tail(out) \in Seq(Accept)
        /\ Len(Tail(out)) = Len(out) - 1
        /\ \A i \in 1..Len(Tail(out)) : Tail(out)[i] = out[i + 1]
    BY <1>3, HeadTailProperties
  <2>2. /\ DOMAIN out = 1..Len(out) /\ Len(out) \in Nat /\ Head(out) = out[1]
        /\ DOMAIN Tail(out) = 1..Len(Tail(out))
    BY <1>3, <2>1
  <2>3. \A i \in DOMAIN Tail(out) : i + 1 \in DOMAIN out /\ Tail(out)[i] = out[i + 1]
    BY <2>1, <2>2
  <2>4. ASSUME NEW j \in DOMAIN out
        PROVE  \/ \E i \in DOMAIN Tail(out) : Tail(out)[i] = out[j]
               \/ msgs' = msgs \cup {out[j]}
    <3>1. CASE j = 1
      BY <3>1, <1>3, <2>2
    <3>2. CASE j # 1
      <4>1. j - 1 \in DOMAIN Tail(out) /\ Tail(out)[j - 1] = out[j]
        BY <3>2, <2>1, <2>2
      <4> QED BY <4>1
    <3> QED BY <3>1, <3>2
  <2>5. \A i \in DOMAIN Tail(out) : \E j \in DOMAIN out : Tail(out)[i] = out[j]
    BY <2>3
  <2> DEFINE rest == Tail(out)
  <2>6. /\ rest \in Seq(Accept)
        /\ acceptsOut' = [acceptsOut EXCEPT ![p] = rest]
        /\ \A i \in DOMAIN rest : \E j \in DOMAIN out : rest[i] = out[j]
        /\ \A j \in DOMAIN out : \/ \E i \in DOMAIN rest : rest[i] = out[j]
                                 \/ msgs' = msgs \cup {out[j]}
    BY <1>3, <2>1, <2>4, <2>5
  <2> HIDE DEF rest
  <2> QED BY <1>2, <1>3, <2>6
<1> QED BY <1>1, <1>2, <1>3

\* sendAccept leaves a proposer that was ready to propose ready to propose,
\* and every proposal safe.
LEMMA SendAcceptReady ==
  ASSUME TypeOK, TypeOK', PromiseInv, ProposalInv,
         NEW p \in Proposers, NEW prms, Held(p, prms),
         NEW next \in Nat, NEW decided \in Int,
         NEW out \in Seq(Accept), NEW reqs \in Seq(ClientValues),
         Ready(p, prms, next, out),
         SendAccept(p, next, decided, out, reqs),
         UNCHANGED <<crnd, accRnd>>
  PROVE  /\ Advances
         /\ OnlyAcceptsSent
         /\ ProposalInv'
         /\ \E n \in Nat, o \in Seq(Accept) :
              /\ nextSlot' = [nextSlot EXCEPT ![p] = n]
              /\ acceptsOut' = [acceptsOut EXCEPT ![p] = o]
              /\ Ready(p, prms, n, o)'
<1>1. Advances /\ OnlyAcceptsSent /\ ProposalInv'
  BY SendAcceptSafe, ProposalStep
<1>2. PICK n \in Nat, o \in Seq(Accept) :
        /\ nextSlot' = [nextSlot EXCEPT ![p] = n]
        /\ acceptsOut' = [acceptsOut EXCEPT ![p] = o]
        /\ n >= next
        /\ \A i \in DOMAIN o : \E j \in DOMAIN out : o[i] = out[j]
        /\ \A j \in DOMAIN out : \/ \E i \in DOMAIN o : o[i] = out[j]
                                 \/ msgs' = msgs \cup {out[j]}
  BY ZenonT(40), SendAcceptQueue
<1>3. QueueSafe(p, o)'
  <2> SUFFICES ASSUME NEW i \in DOMAIN o
               PROVE  /\ o[i].from = p
                      /\ o[i].rnd = crnd[p]
                      /\ ProposedOnce(o[i].slot)' => SafeAt(o[i].slot, o[i].rnd, o[i].val)'
    BY DEF QueueSafe
  <2>1. PICK j \in DOMAIN out : o[i] = out[j]
    BY <1>2
  <2>2. /\ out[j].from = p /\ out[j].rnd = crnd[p]
        /\ ProposedOnce(out[j].slot) => SafeAt(out[j].slot, out[j].rnd, out[j].val)
    BY DEF Ready, QueueSafe
  <2>3. out[j].rnd \in Int
    <3>1. out[j] \in Accept
      BY ElementOfSeq
    <3> QED BY <3>1 DEF Accept
  <2>4. ASSUME ProposedOnce(out[j].slot)'
        PROVE  SafeAt(out[j].slot, out[j].rnd, out[j].val)'
    BY <1>1, <2>2, <2>3, <2>4, SafeAtStable, ProposedOnceBefore DEF OnlyAcceptsSent
  <2> QED BY <2>1, <2>2, <2>4
<1>4. Covered(p, n)'
  <2> SUFFICES ASSUME NEW prp \in Sent("Prepare"), prp.from = p, prp.crnd = crnd[p]
               PROVE  prp.slot < n
    BY <1>1 DEF Covered, OnlyAcceptsSent
  <2>1. prp \in Prepare
    BY DEF Sent, TypeOK, Messages, Promise, Accept, Learn
  <2>2. prp.slot \in Int
    BY <2>1 DEF Prepare, SlotID
  <2>3. prp.slot < next
    BY DEF Ready, Covered
  <2> QED BY <1>2, <2>2, <2>3
<1>5. NoneOverlooked(p, prms, n, o)'
  <2> SUFFICES ASSUME NEW prm \in prms, NEW ps \in prm.slots, ps.id >= n
               PROVE  \/ \E i \in DOMAIN o : o[i].slot = ps.id
                      \/ Proposed(ps.id, crnd[p])'
    BY DEF NoneOverlooked, Proposed
  <2>1. prm \in Promise
    BY ZenonT(40) DEF Held, Sent, TypeOK, Messages, Prepare, Accept, Learn
  <2>2. ps.id >= next
    BY <1>2, <2>1 DEF Promise, PromiseSlot, SlotID
  <2>3. CASE Proposed(ps.id, crnd[p])
    BY <1>1, <2>3 DEF Proposed, Sent, OnlyAcceptsSent
  <2>4. CASE \E j \in DOMAIN out : out[j].slot = ps.id
    <3>1. PICK j \in DOMAIN out : out[j].slot = ps.id
      BY <2>4
    <3>2. CASE msgs' = msgs \cup {out[j]}
      <4>1. out[j] \in Sent("Accept")'
        <5>1. out[j] \in Accept
          BY ElementOfSeq
        <5> QED BY <3>2, <5>1 DEF Sent, Accept
      <4>2. out[j].rnd = crnd[p]
        BY DEF Ready, QueueSafe
      <4> QED BY <3>1, <4>1, <4>2 DEF Proposed
    <3>3. CASE \E i \in DOMAIN o : o[i] = out[j]
      BY <3>1, <3>3
    <3> QED BY <1>2, <3>2, <3>3
  <2> QED BY <2>2, <2>3, <2>4 DEF Ready, NoneOverlooked
<1>6. (Cardinality(prms) >= Quorum)'
  BY DEF Ready, Quorum, N
<1> QED BY <1>1, <1>2, <1>3, <1>4, <1>5, <1>6 DEF Ready

-----------------------------------------------------------------------------
(* Completing phase one *)

\* A report on slot s with the highest round of those in prms.
BestReport(prms, s, best) ==
  /\ best.id = s
  /\ \E prm \in prms : best \in prm.slots
  /\ \A prm \in prms : \A ps \in prm.slots : ps.id = s => ps.vrnd <= best.vrnd

Reported(prms, s) == \E prm \in prms : \E ps \in prm.slots : ps.id = s

\* The votes phase one proposes again are, slot by slot, those a promise
\* reports with the highest round, for every reported slot above decided.
LEMMA PurgeChoosesHighest ==
  ASSUME NEW prms \in SUBSET Promise, NEW decided \in Int,
         NEW votes \in PurgePrmSlots(prms, decided)
  PROVE  /\ \A s : Reported(prms, s) /\ s > decided => s \in DOMAIN votes
         /\ \A s \in DOMAIN votes : \E best :
              BestReport(prms, s, best) /\ best.vval = votes[s]
<1> DEFINE reported == {ps \in UNION {prm.slots : prm \in prms} : ps.id > decided}
<1>1. /\ DOMAIN votes = {ps.id : ps \in reported}
      /\ \A s \in DOMAIN votes : \E ps \in reported :
           /\ ps.id = s /\ ps.vval = votes[s]
           /\ \A other \in reported : other.id = s => other.vrnd <= ps.vrnd
  BY DEF PurgePrmSlots
<1>2. \A prm \in prms : \A ps \in prm.slots : ps.id > decided => ps \in reported
  OBVIOUS
<1>3. \A ps \in reported : ps.id > decided /\ \E prm \in prms : ps \in prm.slots
  OBVIOUS
<1> HIDE DEF reported
<1>4. ASSUME NEW s \in DOMAIN votes
      PROVE  \E best : BestReport(prms, s, best) /\ best.vval = votes[s]
  <2>1. PICK best \in reported :
           /\ best.id = s /\ best.vval = votes[s]
           /\ \A other \in reported : other.id = s => other.vrnd <= best.vrnd
    BY <1>1
  <2>2. s > decided /\ \E prm0 \in prms : best \in prm0.slots
    BY <1>3, <2>1
  <2>3. \A prm \in prms : \A ps \in prm.slots : ps.id = s => ps.vrnd <= best.vrnd
    BY <1>2, <2>1, <2>2
  <2> QED BY <2>1, <2>2, <2>3 DEF BestReport
<1>5. \A s : Reported(prms, s) /\ s > decided => s \in DOMAIN votes
  BY <1>1, <1>2 DEF Reported
<1> QED BY <1>4, <1>5

\* What promises of a quorum report, and the no-ops between, is safe.
LEMMA FillGapSafe ==
  ASSUME TypeOK, LearnInv, PromiseInv, ProposalInv,
         NEW p \in Proposers, NEW prms, Held(p, prms), Cardinality(prms) >= Quorum,
         Covered(p, adu[p] + 1),
         NEW votes \in PurgePrmSlots(prms, adu[p]), NEW low \in DOMAIN votes,
         NEW s \in Int, s >= low, ProposedOnce(s)
  PROVE  SafeAt(s, crnd[p], IF s \in DOMAIN votes THEN votes[s] ELSE Noop)
<1>1. prms \subseteq Promise /\ prms \in SUBSET Promise
  <2>1. prms \subseteq Promise
    BY DEF Held, Sent, TypeOK, Messages, Prepare, Accept, Learn
  <2> QED BY <2>1
<1>2. adu[p] \in Int
  BY DEF TypeOK
<1>range. /\ DOMAIN votes \subseteq SlotID
      /\ \A s1 \in DOMAIN votes : s1 > adu[p] /\ votes[s1] \in Value
  BY <1>1, <1>2, PurgeType
<1>best. /\ \A s1 : Reported(prms, s1) /\ s1 > adu[p] => s1 \in DOMAIN votes
      /\ \A s1 \in DOMAIN votes : \E best :
           BestReport(prms, s1, best) /\ best.vval = votes[s1]
  BY <1>1, <1>2, PurgeChoosesHighest
<1>3. low > adu[p] /\ low \in Int
  BY <1>range DEF SlotID
<1>4. Covered(p, s)
  <2> SUFFICES ASSUME NEW prp \in Sent("Prepare"), prp.from = p, prp.crnd = crnd[p]
               PROVE  prp.slot < s
    BY DEF Covered
  <2>1. prp \in Prepare
    BY DEF Sent, TypeOK, Messages, Promise, Accept, Learn
  <2>2. prp.slot \in Int
    BY <2>1 DEF Prepare, SlotID
  <2>3. prp.slot < adu[p] + 1
    BY DEF Covered
  <2> QED BY <1>2, <1>3, <2>2, <2>3
<1>5. CASE s \in DOMAIN votes
  <2>1. PICK best : BestReport(prms, s, best) /\ best.vval = votes[s]
    BY <1>5, <1>best
  <2>2. PICK prm0 \in prms : best \in prm0.slots
    BY <2>1 DEF BestReport
  <2>3. SafeAt(s, crnd[p], best.vval)
    BY <1>4, <2>1, <2>2, ReportedSafe DEF BestReport
  <2> QED BY <1>5, <2>1, <2>3
<1>6. CASE s \notin DOMAIN votes
  <2>1. \A prm \in prms : \A ps \in prm.slots : ps.id # s
    BY <1>2, <1>3, <1>6, <1>best DEF Reported
  <2> QED BY <1>4, <1>6, <2>1, UnreportedSafe
<1> QED BY <1>5, <1>6

\* A proposer that completes phase one is ready to propose from the slot after
\* adu, with an empty queue if nothing was reported and else with the accepts
\* of sortAndFillGap.
LEMMA PhaseOneReady ==
  ASSUME TypeOK, LearnInv, PromiseInv, PrepareInv, ProposalInv,
         NEW p \in Proposers, NEW prms, Held(p, prms), Cardinality(prms) >= Quorum,
         NEW votes \in PurgePrmSlots(prms, adu[p])
  PROVE  /\ DOMAIN votes = {} => Ready(p, prms, adu[p] + 1, <<>>)
         /\ \A low, high \in DOMAIN votes :
              (\A s \in DOMAIN votes : low <= s /\ s <= high) =>
                /\ SortAndFillGap(p, votes, low, high) \in Seq(Accept)
                /\ Ready(p, prms, adu[p] + 1, SortAndFillGap(p, votes, low, high))
<1>1. prms \subseteq Promise /\ prms \in SUBSET Promise
  <2>1. prms \subseteq Promise
    BY DEF Held, Sent, TypeOK, Messages, Prepare, Accept, Learn
  <2> QED BY <2>1
<1>2. adu[p] \in Int
  BY DEF TypeOK
<1>range. /\ DOMAIN votes \subseteq SlotID
      /\ \A s1 \in DOMAIN votes : s1 > adu[p] /\ votes[s1] \in Value
  BY <1>1, <1>2, PurgeType
<1>best. /\ \A s1 : Reported(prms, s1) /\ s1 > adu[p] => s1 \in DOMAIN votes
      /\ \A s1 \in DOMAIN votes : \E best :
           BestReport(prms, s1, best) /\ best.vval = votes[s1]
  BY <1>1, <1>2, PurgeChoosesHighest
<1>3. Covered(p, adu[p] + 1)
  <2> SUFFICES ASSUME NEW prp \in Sent("Prepare"), prp.from = p, prp.crnd = crnd[p]
               PROVE  prp.slot < adu[p] + 1
    BY DEF Covered
  <2>1. prp \in Prepare
    BY DEF Sent, TypeOK, Messages, Promise, Accept, Learn
  <2>2. prp.slot \in Int
    BY <2>1 DEF Prepare, SlotID
  <2> QED BY <1>2, <2>2 DEF PrepareInv
<1>4. \A prm \in prms : \A ps \in prm.slots :
        ps.id >= adu[p] + 1 => ps.id \in DOMAIN votes
  <2> SUFFICES ASSUME NEW prm \in prms, NEW ps \in prm.slots, ps.id >= adu[p] + 1
               PROVE  ps.id \in DOMAIN votes
    OBVIOUS
  <2>1. ps.id \in Int
    BY <1>1 DEF Promise, PromiseSlot, SlotID
  <2>2. ps.id > adu[p]
    BY <1>2, <2>1
  <2> QED BY <2>2, <1>best DEF Reported
<1>5. ASSUME DOMAIN votes = {}
      PROVE  Ready(p, prms, adu[p] + 1, <<>>)
  <2>1. QueueSafe(p, <<>>)
    BY DEF QueueSafe
  <2>2. NoneOverlooked(p, prms, adu[p] + 1, <<>>)
    BY <1>4, <1>5 DEF NoneOverlooked
  <2> QED BY <1>3, <2>1, <2>2 DEF Ready
<1>6. ASSUME NEW low \in DOMAIN votes, NEW high \in DOMAIN votes,
             \A s \in DOMAIN votes : low <= s /\ s <= high
      PROVE  /\ SortAndFillGap(p, votes, low, high) \in Seq(Accept)
             /\ Ready(p, prms, adu[p] + 1, SortAndFillGap(p, votes, low, high))
  <2> DEFINE out == SortAndFillGap(p, votes, low, high)
  <2>1. low \in Int /\ high \in Int /\ \A s \in DOMAIN votes : s \in Int
    BY <1>range DEF SlotID
  <2>2. out \in Seq(Accept)
    BY <1>1, <1>2, <1>6, FillGapType
  <2>3. /\ DOMAIN out = 1..(high - low + 1)
        /\ \A i \in DOMAIN out :
             /\ out[i].from = p /\ out[i].rnd = crnd[p] /\ out[i].slot = low + i - 1
             /\ out[i].val = IF low + i - 1 \in DOMAIN votes
                               THEN votes[low + i - 1] ELSE Noop
    BY DEF SortAndFillGap
  <2> HIDE DEF out
  <2>4. QueueSafe(p, out)
    <3> SUFFICES ASSUME NEW i \in DOMAIN out, ProposedOnce(out[i].slot)
                 PROVE  SafeAt(out[i].slot, out[i].rnd, out[i].val)
      BY <2>3 DEF QueueSafe
    <3>1. PICK s \in Int : s = out[i].slot
      BY <2>1, <2>3
    <3>2. s = low + i - 1 /\ s >= low
      BY <2>1, <2>3, <3>1
    <3>3. SafeAt(s, crnd[p], IF s \in DOMAIN votes THEN votes[s] ELSE Noop)
      BY <1>3, <3>1, <3>2, FillGapSafe
    <3> QED BY <2>3, <3>1, <3>2, <3>3
  <2>5. NoneOverlooked(p, prms, adu[p] + 1, out)
    <3> SUFFICES ASSUME NEW prm \in prms, NEW ps \in prm.slots, ps.id >= adu[p] + 1
                 PROVE  \E i \in DOMAIN out : out[i].slot = ps.id
      BY DEF NoneOverlooked
    <3>1. ps.id \in DOMAIN votes
      BY <1>4
    <3>2. PICK s \in Int : s = ps.id /\ low <= s /\ s <= high
      BY <1>6, <2>1, <3>1
    <3>3. s - low + 1 \in DOMAIN out /\ low + (s - low + 1) - 1 = s
      BY <2>1, <2>3, <3>2
    <3> QED BY <2>3, <3>2, <3>3
  <2>6. Ready(p, prms, adu[p] + 1, out)
    BY <1>3, <2>4, <2>5 DEF Ready
  <2> QED BY <2>2, <2>6 DEF out
<1> QED BY <1>5, <1>6

-----------------------------------------------------------------------------
(* What a step leaves alone *)

\* No new vote and no new promise: what votes and promises say still holds.
LEMMA VotesStay ==
  ASSUME LearnInv, AcceptorInv, PromiseInv, msgs \subseteq msgs',
         Sent("Learn")' = Sent("Learn"), Sent("Promise")' = Sent("Promise"),
         UNCHANGED <<accRnd, accSlots>>
  PROVE  LearnInv' /\ AcceptorInv' /\ PromiseInv'
<1>1. Sent("Accept") \subseteq Sent("Accept")' /\ Sent("Prepare") \subseteq Sent("Prepare")'
  BY DEF Sent
<1>2. \A a, s, r, v : VotedFor(a, s, r, v)' = VotedFor(a, s, r, v)
  BY DEF VotedFor
<1>3. \A prm, prp : Reports(prm, prp)' = Reports(prm, prp)
  BY DEF Reports
<1>4. LearnInv'
  BY <1>1 DEF LearnInv
<1>5. AcceptorInv'
  BY <1>2 DEF AcceptorInv
<1>6. PromiseInv'
  BY <1>1, <1>2, <1>3 DEF PromiseInv
<1> QED BY <1>4, <1>5, <1>6

\* A proposer that was ready to propose in its round still is, as long as it
\* sends no other prepare in that round.
LEMMA ReadyStays ==
  ASSUME TypeOK, TypeOK', Advances,
         NEW q \in Proposers, NEW prms, NEW next, NEW out \in Seq(Accept),
         Ready(q, prms, next, out), crnd'[q] = crnd[q],
         \A prp \in Sent("Prepare")' :
           prp.from = q /\ prp.crnd = crnd[q] => prp \in Sent("Prepare")
  PROVE  Ready(q, prms, next, out)'
<1>1. (Cardinality(prms) >= Quorum)'
  BY DEF Ready, Quorum, N
<1>2. QueueSafe(q, out)'
  <2> SUFFICES ASSUME NEW i \in DOMAIN out
               PROVE  /\ out[i].from = q
                      /\ out[i].rnd = crnd'[q]
                      /\ ProposedOnce(out[i].slot)' => SafeAt(out[i].slot, out[i].rnd, out[i].val)'
    BY DEF QueueSafe
  <2>1. out[i].from = q /\ out[i].rnd = crnd'[q]
    BY DEF Ready, QueueSafe
  <2>2. out[i].rnd \in Int
    <3>1. out[i] \in Accept
      BY ElementOfSeq
    <3> QED BY <3>1 DEF Accept
  <2>3. ASSUME ProposedOnce(out[i].slot)'
        PROVE  SafeAt(out[i].slot, out[i].rnd, out[i].val)'
    <3>1. ProposedOnce(out[i].slot)
      BY <2>3, ProposedOnceBefore DEF Advances
    <3>2. SafeAt(out[i].slot, out[i].rnd, out[i].val)
      BY <3>1 DEF Ready, QueueSafe
    <3> QED BY <2>2, <3>2, SafeAtStable
  <2> QED BY <2>1, <2>3
<1>3. Covered(q, next)'
  BY DEF Ready, Covered
<1>4. \A s : Proposed(s, crnd[q]) => Proposed(s, crnd[q])'
  BY DEF Proposed, Sent, Advances
<1>5. NoneOverlooked(q, prms, next, out)'
  BY <1>4 DEF Ready, NoneOverlooked
<1> QED BY <1>1, <1>2, <1>3, <1>5 DEF Ready

\* PhaseTwoInv for a proposer whose state a step leaves alone.
LEMMA OthersStayReady ==
  ASSUME TypeOK, TypeOK', Advances, PhaseTwoInv, NEW q \in Proposers,
         phaseOneDone'[q], phaseOneDone[q],
         crnd'[q] = crnd[q], promises'[q] = promises[q],
         nextSlot'[q] = nextSlot[q], acceptsOut'[q] = acceptsOut[q],
         \A prp \in Sent("Prepare")' :
           prp.from = q /\ prp.crnd = crnd[q] => prp \in Sent("Prepare")
  PROVE  Ready(q, promises[q], nextSlot[q], acceptsOut[q])'
<1>1. PICK prms \in SUBSET Promise, next \in Nat, out \in Seq(Accept) :
        prms = promises[q] /\ next = nextSlot[q] /\ out = acceptsOut[q]
  BY DEF TypeOK, SlotID
<1>2. Ready(q, prms, next, out)
  BY <1>1 DEF PhaseTwoInv
<1>3. Ready(q, prms, next, out)'
  BY <1>2, ReadyStays
<1>4. prms = promises'[q] /\ next = nextSlot'[q] /\ out = acceptsOut'[q]
  BY <1>1
<1> QED BY <1>3, <1>4

\* Promises in hand stay in hand.
LEMMA HeldStays ==
  ASSUME msgs \subseteq msgs', NEW q, NEW prms, Held(q, prms), crnd'[q] = crnd[q]
  PROVE  Held(q, prms)'
BY DEF Held, Sent

-----------------------------------------------------------------------------
(* Acceptor steps *)

\* A step that sends no prepare and no accept, and changes no proposer, keeps
\* the proposers' part of the invariant.
LEMMA ProposersStay ==
  ASSUME TypeOK, TypeOK', Advances, PrepareInv, HeldInv, PhaseTwoInv, ProposalInv,
         Sent("Prepare")' = Sent("Prepare"), Sent("Accept")' = Sent("Accept"),
         UNCHANGED <<crnd, adu, promises, phaseOneDone, nextSlot, acceptsOut>>
  PROVE  PrepareInv' /\ HeldInv' /\ PhaseTwoInv' /\ ProposalInv'
<1>1. PrepareInv'
  BY DEF PrepareInv
<1>2. HeldInv'
  <2> SUFFICES ASSUME NEW q \in Proposers PROVE Held(q, promises[q])'
    BY DEF HeldInv
  <2>1. PICK prms \in SUBSET Promise : prms = promises[q]
    BY DEF TypeOK
  <2>2. Held(q, prms)
    BY <2>1 DEF HeldInv
  <2>3. Held(q, prms)'
    BY <2>2, HeldStays DEF Advances
  <2>4. prms = promises'[q]
    BY <2>1
  <2> QED BY <2>3, <2>4
<1>3. PhaseTwoInv'
  BY OthersStayReady DEF PhaseTwoInv
<1>4. ProposalInv'
  BY ProposalsStaySafe
<1> QED BY <1>1, <1>2, <1>3, <1>4

\* Promising keeps the invariant: the promise reports the votes in accSlots,
\* all of them of lower rounds.
LEMMA HandlePrepareSafe ==
  ASSUME TypeOK, TypeOK', SafetyInv, NEW a \in Acceptors, HandlePrepare(a),
         UNCHANGED proposerVars
  PROVE  SafetyInv'
<1>1. PICK prp \in Sent("Prepare") :
        /\ prp.crnd > accRnd[a]
        /\ accRnd' = [accRnd EXCEPT ![a] = prp.crnd]
        /\ msgs' = msgs \cup {[type |-> "Promise", to |-> prp.from, from |-> a,
                               rnd |-> prp.crnd,
                               slots |-> {ps \in accSlots[a] : ps.id >= prp.slot}]}
        /\ accSlots' = accSlots
  BY DEF HandlePrepare, Send
<1>2. PICK new :
         new = [type |-> "Promise", to |-> prp.from, from |-> a, rnd |-> prp.crnd,
                slots |-> {ps \in accSlots[a] : ps.id >= prp.slot}]
  OBVIOUS
<1>3. /\ new.to = prp.from /\ new.from = a /\ new.rnd = prp.crnd
       /\ new.slots = {ps \in accSlots[a] : ps.id >= prp.slot}
  BY <1>2
<1>4. /\ Sent("Prepare")' = Sent("Prepare")
      /\ Sent("Accept")' = Sent("Accept")
      /\ Sent("Learn")' = Sent("Learn")
      /\ Sent("Promise")' = Sent("Promise") \cup {new}
  BY <1>1, <1>2 DEF Sent
<1>5. prp \in Prepare /\ prp.crnd \in Int
  <2>1. prp \in Prepare
    BY DEF Sent, TypeOK, Messages, Promise, Accept, Learn
  <2> QED BY <2>1 DEF Prepare
<1>6. \A b \in Acceptors : accRnd[b] \in Int /\ accRnd'[b] \in Int /\ accRnd[b] <= accRnd'[b]
  <2>1. \A b \in Acceptors : accRnd[b] \in Int /\ accRnd'[b] \in Int
    BY DEF TypeOK, Round, NoRound
  <2>2. \A b \in Acceptors : accRnd'[b] = IF b = a THEN prp.crnd ELSE accRnd[b]
    BY <1>1 DEF TypeOK
  <2> QED BY <1>1, <1>5, <2>1, <2>2
<1>7. Advances
  BY <1>1, <1>4, <1>6 DEF Advances
<1>8. \A b, s, r, v : VotedFor(b, s, r, v)' = VotedFor(b, s, r, v)
  BY <1>4 DEF VotedFor
<1>9. \A prm, p2 : Reports(prm, p2)' = Reports(prm, p2)
  BY <1>4 DEF Reports
<1>10. \A lrn \in Sent("Learn") : lrn.from \in Acceptors /\ lrn.rnd \in Int
  <2>1. Sent("Learn") \subseteq Learn
    BY DEF Sent, TypeOK, Messages, Prepare, Promise, Accept
  <2> QED BY <2>1 DEF Learn
<1>11. LearnInv'
  BY <1>4, <1>6, <1>10 DEF SafetyInv, LearnInv
<1>12. AcceptorInv'
  BY <1>1, <1>4, <1>8 DEF SafetyInv, AcceptorInv
<1>13. PromiseInv'
  <2>1. ASSUME NEW prm \in Sent("Promise")
        PROVE  /\ prm.rnd <= accRnd'[prm.from]
               /\ \A ps \in prm.slots :
                    ps.vrnd < prm.rnd /\ VotedFor(prm.from, ps.id, ps.vrnd, ps.vval)'
               /\ \E p2 \in Sent("Prepare")' :
                    p2.from = prm.to /\ p2.crnd = prm.rnd /\ Reports(prm, p2)'
    <3>1. prm \in Promise
      BY DEF Sent, TypeOK, Messages, Prepare, Accept, Learn
    <3>2. prm.from \in Acceptors /\ prm.rnd \in Int
      BY <3>1 DEF Promise
    <3> QED BY <1>4, <1>6, <1>8, <1>9, <3>2 DEF SafetyInv, PromiseInv
  <2>2. new.rnd <= accRnd'[new.from]
    BY <1>1, <1>5, <1>3 DEF TypeOK
  <2>3. ASSUME NEW ps \in new.slots
        PROVE  ps.vrnd < new.rnd /\ VotedFor(new.from, ps.id, ps.vrnd, ps.vval)'
    <3>1. VotedFor(a, ps.id, ps.vrnd, ps.vval)
      BY <1>3 DEF SafetyInv, AcceptorInv
    <3>2. ps.vrnd <= accRnd[a] /\ ps.vrnd \in Int
      BY <3>1, <1>10 DEF VotedFor, SafetyInv, LearnInv
    <3> QED BY <3>1, <3>2, <1>1, <1>5, <1>6, <1>8, <1>3
  <2>4. Reports(new, prp)
    BY <1>3 DEF SafetyInv, AcceptorInv, Reports
  <2>5. prp \in Sent("Prepare")' /\ Reports(new, prp)'
    BY <1>4, <1>9, <2>4
  <2> QED BY <1>4, <2>1, <2>2, <2>3, <2>5, <1>3 DEF PromiseInv
<1>14. PrepareInv' /\ HeldInv' /\ PhaseTwoInv' /\ ProposalInv'
  BY <1>4, <1>7, ProposersStay DEF SafetyInv, proposerVars, queueVars
<1> QED BY <1>11, <1>12, <1>13, <1>14 DEF SafetyInv

\* Voting keeps the invariant: the vote is for an accept, and in a round no
\* lower than any its acceptor has promised or voted in.
LEMMA HandleAcceptSafe ==
  ASSUME TypeOK, TypeOK', SafetyInv, NEW a \in Acceptors, HandleAccept(a),
         UNCHANGED proposerVars
  PROVE  SafetyInv'
<1>1. PICK acc \in Sent("Accept") :
        /\ acc.rnd >= accRnd[a]
        /\ accRnd' = [accRnd EXCEPT ![a] = acc.rnd]
        /\ accSlots' = [accSlots EXCEPT ![a] =
             {ps \in @ : ps.id # acc.slot}
               \cup {[id |-> acc.slot, vrnd |-> acc.rnd, vval |-> acc.val]}]
        /\ msgs' = msgs \cup {[type |-> "Learn", from |-> a, slot |-> acc.slot,
                               rnd |-> acc.rnd, val |-> acc.val]}
  BY DEF HandleAccept, Send
<1> DEFINE new == [type |-> "Learn", from |-> a, slot |-> acc.slot, rnd |-> acc.rnd,
                   val |-> acc.val]
           vote == [id |-> acc.slot, vrnd |-> acc.rnd, vval |-> acc.val]
<1>2. /\ Sent("Prepare")' = Sent("Prepare")
      /\ Sent("Accept")' = Sent("Accept")
      /\ Sent("Promise")' = Sent("Promise")
      /\ Sent("Learn")' = Sent("Learn") \cup {new}
  BY <1>1 DEF Sent
<1>3. acc \in Accept /\ acc.rnd \in Int
  <2>1. acc \in Accept
    BY DEF Sent, TypeOK, Messages, Prepare, Promise, Learn
  <2> QED BY <2>1 DEF Accept
<1>4. \A b \in Acceptors : accRnd[b] \in Int /\ accRnd'[b] \in Int /\ accRnd[b] <= accRnd'[b]
  <2>1. \A b \in Acceptors : accRnd[b] \in Int /\ accRnd'[b] \in Int
    BY DEF TypeOK, Round, NoRound
  <2>2. \A b \in Acceptors : accRnd'[b] = IF b = a THEN acc.rnd ELSE accRnd[b]
    BY <1>1 DEF TypeOK
  <2> QED BY <1>1, <1>3, <2>1, <2>2
<1>5. Advances
  BY <1>1, <1>2, <1>4 DEF Advances
<1>6. \A b, s, r, v : VotedFor(b, s, r, v) => VotedFor(b, s, r, v)'
  BY <1>2 DEF VotedFor
<1>7. \A lrn \in Sent("Learn") : lrn.from \in Acceptors /\ lrn.rnd \in Int
  <2>1. Sent("Learn") \subseteq Learn
    BY DEF Sent, TypeOK, Messages, Prepare, Promise, Accept
  <2> QED BY <2>1 DEF Learn
<1>8. /\ accSlots'[a] = {ps \in accSlots[a] : ps.id # acc.slot} \cup {vote}
      /\ \A b \in Acceptors : b # a => accSlots'[b] = accSlots[b]
      /\ accRnd'[a] = acc.rnd
  BY <1>1 DEF TypeOK
<1> HIDE DEF vote
<1>9. vote.id = acc.slot /\ vote.vrnd = acc.rnd /\ vote.vval = acc.val
  BY DEF vote
<1>10. LearnInv'
  BY <1>2, <1>3, <1>4, <1>7, <1>8 DEF SafetyInv, LearnInv
<1>11. AcceptorInv'
  <2>1. ASSUME NEW b \in Acceptors, NEW ps \in accSlots'[b]
        PROVE  VotedFor(b, ps.id, ps.vrnd, ps.vval)'
    <3>1. CASE ps \in accSlots[b]
      BY <3>1, <1>6 DEF SafetyInv, AcceptorInv
    <3>2. CASE b = a /\ ps = vote
      <4>1. PICK lrn \in Sent("Learn")' : lrn = new
        BY <1>2
      <4>2. /\ lrn.from = b /\ lrn.slot = ps.id
            /\ lrn.rnd = ps.vrnd /\ lrn.val = ps.vval
        BY <4>1, <3>2, <1>9
      <4> QED BY <4>1, <4>2 DEF VotedFor
    <3> QED BY <1>8, <3>1, <3>2
  <2>2. ASSUME NEW lrn \in Sent("Learn")
        PROVE  \E ps \in accSlots'[lrn.from] : ps.id = lrn.slot /\ ps.vrnd >= lrn.rnd
    <3>1. PICK ps \in accSlots[lrn.from] : ps.id = lrn.slot /\ ps.vrnd >= lrn.rnd
      BY DEF SafetyInv, AcceptorInv
    <3>2. CASE lrn.from = a /\ lrn.slot = acc.slot
      <4>1. lrn.rnd <= accRnd[a]
        BY <3>2 DEF SafetyInv, LearnInv
      <4>2. acc.rnd >= lrn.rnd
        BY <4>1, <1>1, <1>3, <1>4, <1>7
      <4> QED BY <3>2, <4>2, <1>8, <1>9
    <3>3. CASE ~(lrn.from = a /\ lrn.slot = acc.slot)
      BY <3>1, <3>3, <1>7, <1>8
    <3> QED BY <3>2, <3>3
  <2>3. \E ps \in accSlots'[new.from] : ps.id = new.slot /\ ps.vrnd >= new.rnd
    BY <1>3, <1>8, <1>9
  <2> QED BY <1>2, <2>1, <2>2, <2>3 DEF AcceptorInv
<1>12. PromiseInv'
  <2> SUFFICES ASSUME NEW prm \in Sent("Promise")
               PROVE  /\ prm.rnd <= accRnd'[prm.from]
                      /\ \A ps \in prm.slots :
                           ps.vrnd < prm.rnd /\ VotedFor(prm.from, ps.id, ps.vrnd, ps.vval)'
                      /\ \E prp \in Sent("Prepare") :
                           prp.from = prm.to /\ prp.crnd = prm.rnd /\ Reports(prm, prp)'
    BY <1>2 DEF PromiseInv
  <2>1. prm \in Promise
    BY DEF Sent, TypeOK, Messages, Prepare, Accept, Learn
  <2>2. prm.from \in Acceptors /\ prm.rnd \in Int /\ prm.rnd <= accRnd[prm.from]
    BY <2>1 DEF Promise, SafetyInv, PromiseInv
  <2>3. PICK prp \in Sent("Prepare") :
          prp.from = prm.to /\ prp.crnd = prm.rnd /\ Reports(prm, prp)
    BY DEF SafetyInv, PromiseInv
  <2>4. ~(new.from = prm.from /\ new.rnd < prm.rnd)
    BY <1>1, <1>3, <1>4, <2>2
  <2>5. Reports(prm, prp)'
    BY <1>2, <2>3, <2>4 DEF Reports
  <2> QED BY <1>4, <1>6, <2>2, <2>3, <2>5 DEF SafetyInv, PromiseInv
<1>13. PrepareInv' /\ HeldInv' /\ PhaseTwoInv' /\ ProposalInv'
  BY <1>2, <1>5, ProposersStay DEF SafetyInv, proposerVars, queueVars
<1> QED BY <1>10, <1>11, <1>12, <1>13 DEF SafetyInv

-----------------------------------------------------------------------------
(* Proposer steps *)

\* Starting phase one keeps the invariant: the prepare is the first of its
\* round, and the proposer holds no promise of it yet.
LEMMA StartPhaseOneSafe ==
  ASSUME TypeOK, TypeOK', SafetyInv, NEW p \in Proposers, StartPhaseOne(p),
         UNCHANGED <<adu, queueVars, acceptorVars>>
  PROVE  SafetyInv'
<1>1. /\ crnd' = [crnd EXCEPT ![p] = crnd[p] + N]
      /\ phaseOneDone' = [phaseOneDone EXCEPT ![p] = FALSE]
      /\ promises' = [promises EXCEPT ![p] = {}]
      /\ msgs' = msgs \cup {[type |-> "Prepare", from |-> p, slot |-> adu[p],
                             crnd |-> crnd[p] + N]}
      /\ UNCHANGED <<adu, nextSlot, acceptsOut, accRnd, accSlots>>
  BY DEF StartPhaseOne, IncreaseCrnd, Send, queueVars, acceptorVars
<1>2. PICK new :
        new = [type |-> "Prepare", from |-> p, slot |-> adu[p], crnd |-> crnd[p] + N]
  OBVIOUS
<1>3. new.from = p /\ new.slot = adu[p] /\ new.crnd = crnd[p] + N
  BY <1>2
<1>4. /\ Sent("Prepare")' = Sent("Prepare") \cup {new}
      /\ Sent("Accept")' = Sent("Accept")
      /\ Sent("Learn")' = Sent("Learn")
      /\ Sent("Promise")' = Sent("Promise")
      /\ msgs \subseteq msgs'
  BY <1>1, <1>2 DEF Sent
<1>5. Advances
  <2>1. \A a \in Acceptors : accRnd[a] \in Int
    BY DEF TypeOK, Round, NoRound
  <2> QED BY <1>1, <1>4, <2>1 DEF Advances
<1>6. LearnInv' /\ AcceptorInv' /\ PromiseInv'
  BY <1>1, <1>4, VotesStay DEF SafetyInv
<1>7. /\ crnd'[p] = crnd[p] + N /\ promises'[p] = {} /\ ~phaseOneDone'[p]
      /\ \A q \in Proposers : q # p =>
           /\ crnd'[q] = crnd[q] /\ promises'[q] = promises[q]
           /\ phaseOneDone'[q] = phaseOneDone[q]
  BY <1>1 DEF TypeOK
<1>8. crnd[p] \in Int /\ adu[p] \in Int /\ N \in Nat /\ N > 0
  BY QuorumType DEF TypeOK
<1>9. PrepareInv'
  <2>1. \A prp \in Sent("Prepare") :
          prp.from \in Proposers /\ prp.crnd \in Int /\ prp.crnd <= crnd[prp.from]
    <3>1. Sent("Prepare") \subseteq Prepare
      BY DEF Sent, TypeOK, Messages, Promise, Accept, Learn
    <3> QED BY <3>1 DEF Prepare, SafetyInv, PrepareInv
  <2>2. \A prp \in Sent("Prepare")' :
          /\ prp.crnd <= crnd'[prp.from]
          /\ prp.crnd = crnd'[prp.from] => prp.slot <= adu'[prp.from]
    BY <1>1, <1>3, <1>4, <1>7, <1>8, <2>1 DEF SafetyInv, PrepareInv
  <2>3. \A prp \in Sent("Prepare") : ~(prp.from = p /\ prp.crnd = new.crnd)
    BY <1>3, <1>8, <2>1
  <2>4. \A prp1, prp2 \in Sent("Prepare")' :
          prp1.from = prp2.from /\ prp1.crnd = prp2.crnd => prp1 = prp2
    BY <1>3, <1>4, <2>3 DEF SafetyInv, PrepareInv
  <2> QED BY <2>2, <2>4 DEF PrepareInv
<1>10. HeldInv'
  <2> SUFFICES ASSUME NEW q \in Proposers PROVE Held(q, promises[q])'
    BY DEF HeldInv
  <2>1. CASE q = p
    BY <2>1, <1>7, FS_EmptySet DEF Held
  <2>2. CASE q # p
    <3>1. PICK prms \in SUBSET Promise : prms = promises[q]
      BY DEF TypeOK
    <3>2. Held(q, prms)'
      BY <1>4, <1>7, <2>2, <3>1, HeldStays DEF SafetyInv, HeldInv
    <3>3. prms = promises'[q]
      BY <1>7, <2>2, <3>1
    <3> QED BY <3>2, <3>3
  <2> QED BY <2>1, <2>2
<1>11. PhaseTwoInv'
  <2> SUFFICES ASSUME NEW q \in Proposers, phaseOneDone'[q]
               PROVE  Ready(q, promises[q], nextSlot[q], acceptsOut[q])'
    BY DEF PhaseTwoInv
  <2>1. q # p
    BY <1>7
  <2>2. \A prp \in Sent("Prepare")' : prp.from = q => prp \in Sent("Prepare")
    BY <1>3, <1>4, <2>1
  <2> QED BY <1>1, <1>5, <1>7, <2>1, <2>2, OthersStayReady DEF SafetyInv
<1>12. ProposalInv'
  BY <1>4, <1>5, ProposalsStaySafe DEF SafetyInv
<1> QED BY <1>6, <1>9, <1>10, <1>11, <1>12 DEF SafetyInv

\* A step that sends nothing and changes of the proposers at most adu, which
\* grows, keeps the invariant.
LEMMA QuietStepSafe ==
  ASSUME TypeOK, TypeOK', SafetyInv,
         UNCHANGED <<msgs, crnd, promises, phaseOneDone, nextSlot, acceptsOut,
                     accRnd, accSlots>>,
         \A p \in Proposers : adu'[p] >= adu[p]
  PROVE  SafetyInv'
<1>1. \A kind : Sent(kind)' = Sent(kind)
  BY DEF Sent
<1>2. Advances
  <2>1. \A a \in Acceptors : accRnd[a] \in Int
    BY DEF TypeOK, Round, NoRound
  <2> QED BY <1>1, <2>1 DEF Advances
<1>3. LearnInv' /\ AcceptorInv' /\ PromiseInv'
  BY <1>1, VotesStay DEF SafetyInv
<1>4. PrepareInv'
  <2>1. \A prp \in Sent("Prepare") : prp.from \in Proposers /\ prp.slot \in Int
    <3>1. Sent("Prepare") \subseteq Prepare
      BY DEF Sent, TypeOK, Messages, Promise, Accept, Learn
    <3> QED BY <3>1 DEF Prepare, SlotID
  <2>2. \A p \in Proposers : adu[p] \in Int /\ adu'[p] \in Int
    BY DEF TypeOK
  <2>3. \A prp \in Sent("Prepare") :
          prp.slot <= adu[prp.from] => prp.slot <= adu'[prp.from]
    BY <2>1, <2>2
  <2> QED BY <1>1, <2>3 DEF SafetyInv, PrepareInv
<1>5. HeldInv' /\ PhaseTwoInv'
  <2>1. \A p \in Proposers : Held(p, promises[p])'
    BY <1>1 DEF SafetyInv, HeldInv, Held
  <2>2. \A p \in Proposers :
          phaseOneDone'[p] => Ready(p, promises[p], nextSlot[p], acceptsOut[p])'
    BY <1>1, <1>2, OthersStayReady DEF SafetyInv
  <2> QED BY <2>1, <2>2 DEF HeldInv, PhaseTwoInv
<1>6. ProposalInv'
  BY <1>1, <1>2, ProposalsStaySafe DEF SafetyInv
<1> QED BY <1>3, <1>4, <1>5, <1>6 DEF SafetyInv

\* sendAccept, called by a proposer that is ready to propose, keeps the
\* invariant; the caller may have added a promise and raised adu.
LEMMA ProposingSafe ==
  ASSUME TypeOK, TypeOK', SafetyInv,
         NEW p \in Proposers, NEW prms \in SUBSET Promise, Held(p, prms),
         NEW next \in Nat, NEW decided \in Int,
         NEW out \in Seq(Accept), NEW reqs \in Seq(ClientValues),
         Ready(p, prms, next, out),
         SendAccept(p, next, decided, out, reqs),
         UNCHANGED <<crnd, accRnd, accSlots>>,
         promises' = [promises EXCEPT ![p] = prms],
         \A q \in Proposers : q # p => phaseOneDone'[q] = phaseOneDone[q],
         \A q \in Proposers : adu'[q] >= adu[q]
  PROVE  SafetyInv'
<1>1. Advances /\ OnlyAcceptsSent /\ ProposalInv'
  BY SendAcceptReady DEF SafetyInv
<1>2. PICK n \in Nat, o \in Seq(Accept) :
        /\ nextSlot' = [nextSlot EXCEPT ![p] = n]
        /\ acceptsOut' = [acceptsOut EXCEPT ![p] = o]
        /\ Ready(p, prms, n, o)'
  BY SendAcceptReady DEF SafetyInv
<1>3. /\ promises'[p] = prms /\ nextSlot'[p] = n /\ acceptsOut'[p] = o
      /\ \A q \in Proposers : q # p =>
           /\ promises'[q] = promises[q] /\ nextSlot'[q] = nextSlot[q]
           /\ acceptsOut'[q] = acceptsOut[q]
  BY <1>2 DEF TypeOK
<1>4. LearnInv' /\ AcceptorInv' /\ PromiseInv'
  BY <1>1, VotesStay DEF SafetyInv, OnlyAcceptsSent
<1>5. PrepareInv'
  <2>1. \A prp \in Sent("Prepare") : prp.from \in Proposers /\ prp.slot \in Int
    <3>1. Sent("Prepare") \subseteq Prepare
      BY DEF Sent, TypeOK, Messages, Promise, Accept, Learn
    <3> QED BY <3>1 DEF Prepare, SlotID
  <2>2. \A q \in Proposers : adu[q] \in Int /\ adu'[q] \in Int
    BY SMTT(30) DEF TypeOK
  <2>3. \A prp \in Sent("Prepare") :
          prp.slot <= adu[prp.from] => prp.slot <= adu'[prp.from]
    BY <2>1, <2>2
  <2> QED BY <1>1, <2>3 DEF SafetyInv, PrepareInv, OnlyAcceptsSent
<1>6. HeldInv'
  <2> SUFFICES ASSUME NEW q \in Proposers PROVE Held(q, promises[q])'
    BY DEF HeldInv
  <2>1. PICK mine \in SUBSET Promise :
          mine = promises'[q] /\ Held(q, mine)
    BY SMTT(30), <1>3 DEF SafetyInv, HeldInv, TypeOK
  <2>2. Held(q, mine)'
    BY <1>1, <2>1, HeldStays DEF OnlyAcceptsSent
  <2> QED BY <2>1, <2>2
<1>7. PhaseTwoInv'
  <2> SUFFICES ASSUME NEW q \in Proposers, phaseOneDone'[q]
               PROVE  Ready(q, promises[q], nextSlot[q], acceptsOut[q])'
    BY DEF PhaseTwoInv
  <2>1. CASE q = p
    BY <1>2, <1>3, <2>1
  <2>2. CASE q # p
    BY <1>1, <1>3, <2>2, OthersStayReady DEF SafetyInv, OnlyAcceptsSent
  <2> QED BY <2>1, <2>2
<1> QED BY <1>1, <1>4, <1>5, <1>6, <1>7 DEF SafetyInv

\* One more promise keeps the promises in hand distinct, and does not make
\* them fewer.
LEMMA HeldGrows ==
  ASSUME NEW p, NEW prms, Held(p, prms), NEW prm \in Sent("Promise"),
         prm.to = p, prm.rnd = crnd[p], \A known \in prms : known.from # prm.from
  PROVE  /\ Held(p, prms \cup {prm})
         /\ Cardinality(prms \cup {prm}) >= Cardinality(prms)
<1>1. IsFiniteSet(prms)
  BY DEF Held
<1>2. /\ IsFiniteSet(prms \cup {prm})
      /\ Cardinality(prms) \in Nat
      /\ \/ Cardinality(prms \cup {prm}) = Cardinality(prms)
         \/ Cardinality(prms \cup {prm}) = Cardinality(prms) + 1
  BY <1>1, FS_AddElement, FS_CardinalityType
<1> QED BY <1>2 DEF Held

\* Receiving a promise keeps the invariant, whether it is one too few, the
\* one that completes phase one, or a late one that completes it again.
LEMMA HandlePromiseSafe ==
  ASSUME TypeOK, TypeOK', SafetyInv, NEW p \in Proposers, HandlePromise(p),
         UNCHANGED acceptorVars
  PROVE  SafetyInv'
<1>1. PICK prm \in Sent("Promise") :
        /\ prm.to = p /\ prm.rnd = crnd[p]
        /\ \A known \in promises[p] : known.from # prm.from
        /\ promises' = [promises EXCEPT ![p] = promises[p] \cup {prm}]
        /\ \/ /\ Cardinality(promises[p] \cup {prm}) < Quorum
              /\ UNCHANGED <<msgs, phaseOneDone, queueVars>>
           \/ /\ Cardinality(promises[p] \cup {prm}) >= Quorum
              /\ CompletePhaseOne(p, promises[p] \cup {prm})
        /\ UNCHANGED <<crnd, adu>>
  BY DEF HandlePromise
<1>2. PICK prms \in SUBSET Promise : prms = promises[p] \cup {prm}
  <2>1. prm \in Promise
    BY DEF Sent, TypeOK, Messages, Prepare, Accept, Learn
  <2>2. promises[p] \cup {prm} \in SUBSET Promise
    BY <2>1 DEF TypeOK
  <2> QED BY <2>2
<1>3. UNCHANGED <<accRnd, accSlots>>
  BY DEF acceptorVars
<1>4. Held(p, prms) /\ Cardinality(prms) >= Cardinality(promises[p])
  BY <1>1, <1>2, HeldGrows DEF SafetyInv, HeldInv
<1>5. promises' = [promises EXCEPT ![p] = prms]
  BY <1>1, <1>2
<1>6. \A q \in Proposers : adu'[q] >= adu[q]
  <2>1. \A q \in Proposers : adu[q] \in Int /\ adu'[q] = adu[q]
    BY <1>1 DEF TypeOK
  <2> QED BY <2>1
<1>7. CASE Cardinality(prms) < Quorum
  <2>1. UNCHANGED <<msgs, crnd, adu, phaseOneDone, nextSlot, acceptsOut>>
    <3>1. Cardinality(prms) \in Nat /\ Quorum \in Nat
      BY <1>4, FS_CardinalityType, QuorumType DEF Held
    <3> QED BY <1>1, <1>2, <1>7, <3>1 DEF queueVars
  <2>2. ~phaseOneDone[p]
    <3>1. /\ Cardinality(prms) \in Nat /\ Quorum \in Nat
          /\ Cardinality(promises[p]) \in Nat
      BY <1>4, FS_CardinalityType, QuorumType DEF Held, SafetyInv, HeldInv
    <3> QED BY <1>4, <1>7, <3>1 DEF SafetyInv, PhaseTwoInv, Ready
  <2>3. \A kind : Sent(kind)' = Sent(kind)
    BY <2>1 DEF Sent
  <2>4. Advances
    <3>1. \A a \in Acceptors : accRnd[a] \in Int
      BY DEF TypeOK, Round, NoRound
    <3> QED BY <1>3, <2>1, <2>3, <3>1 DEF Advances
  <2>5. LearnInv' /\ AcceptorInv' /\ PromiseInv'
    BY <1>3, <2>1, <2>3, VotesStay DEF SafetyInv
  <2>6. PrepareInv'
    BY <2>1, <2>3 DEF SafetyInv, PrepareInv
  <2>7. \A q \in Proposers : promises'[q] = IF q = p THEN prms ELSE promises[q]
    BY <1>5 DEF TypeOK
  <2>8. HeldInv'
    <3> SUFFICES ASSUME NEW q \in Proposers PROVE Held(q, promises[q])'
      BY DEF HeldInv
    <3>1. PICK mine \in SUBSET Promise : mine = promises'[q] /\ Held(q, mine)
      BY <1>4, <2>7 DEF SafetyInv, HeldInv, TypeOK
    <3>2. Held(q, mine)'
      BY <2>1, <3>1, HeldStays
    <3> QED BY <3>1, <3>2
  <2>9. PhaseTwoInv'
    <3> SUFFICES ASSUME NEW q \in Proposers, phaseOneDone'[q]
                 PROVE  Ready(q, promises[q], nextSlot[q], acceptsOut[q])'
      BY DEF PhaseTwoInv
    <3>1. q # p /\ promises'[q] = promises[q] /\ phaseOneDone[q]
      BY <2>1, <2>2, <2>7
    <3> QED BY <2>1, <2>3, <2>4, <3>1, OthersStayReady DEF SafetyInv
  <2>10. ProposalInv'
    BY <2>3, <2>4, ProposalsStaySafe DEF SafetyInv
  <2> QED BY <2>5, <2>6, <2>8, <2>9, <2>10 DEF SafetyInv
<1>8. CASE Cardinality(prms) >= Quorum
  <2>1. CompletePhaseOne(p, prms)
    <3>1. Cardinality(prms) \in Nat /\ Quorum \in Nat
      BY <1>4, FS_CardinalityType, QuorumType DEF Held
    <3> QED BY <1>1, <1>2, <1>8, <3>1
  <2>2. \A q \in Proposers : q # p => phaseOneDone'[q] = phaseOneDone[q]
    BY <2>1 DEF CompletePhaseOne, TypeOK
  <2>3. adu[p] \in Int /\ adu[p] + 1 \in Nat /\ requestsIn[p] \in Seq(ClientValues)
    <3>1. adu[p] \in Nat \cup {-1} /\ requestsIn[p] \in Seq(ClientValues)
      BY DEF TypeOK
    <3> QED BY <3>1
  <2>4. PICK votes \in PurgePrmSlots(prms, adu[p]) :
          \/ /\ DOMAIN votes = {}
             /\ SendAccept(p, adu[p] + 1, adu[p], <<>>, requestsIn[p])
          \/ \E low, high \in DOMAIN votes :
               /\ \A s \in DOMAIN votes : low <= s /\ s <= high
               /\ SendAccept(p, adu[p] + 1, adu[p],
                             SortAndFillGap(p, votes, low, high), requestsIn[p])
    BY <2>1 DEF CompletePhaseOne
  <2>5. PICK out \in Seq(Accept) :
          /\ Ready(p, prms, adu[p] + 1, out)
          /\ SendAccept(p, adu[p] + 1, adu[p], out, requestsIn[p])
    <3>1. CASE /\ DOMAIN votes = {}
               /\ SendAccept(p, adu[p] + 1, adu[p], <<>>, requestsIn[p])
      <4>1. Ready(p, prms, adu[p] + 1, <<>>)
        BY <1>4, <1>8, <3>1, PhaseOneReady DEF SafetyInv
      <4> DEFINE empty == <<>>
      <4>2. /\ empty \in Seq(Accept)
            /\ Ready(p, prms, adu[p] + 1, empty)
            /\ SendAccept(p, adu[p] + 1, adu[p], empty, requestsIn[p])
        BY <3>1, <4>1
      <4> HIDE DEF empty
      <4> QED BY <4>2
    <3>2. CASE \E low, high \in DOMAIN votes :
                 /\ \A s \in DOMAIN votes : low <= s /\ s <= high
                 /\ SendAccept(p, adu[p] + 1, adu[p],
                               SortAndFillGap(p, votes, low, high), requestsIn[p])
      <4>1. PICK low, high \in DOMAIN votes :
              /\ \A s \in DOMAIN votes : low <= s /\ s <= high
              /\ SendAccept(p, adu[p] + 1, adu[p],
                            SortAndFillGap(p, votes, low, high), requestsIn[p])
        BY <3>2
      <4>2. /\ SortAndFillGap(p, votes, low, high) \in Seq(Accept)
            /\ Ready(p, prms, adu[p] + 1, SortAndFillGap(p, votes, low, high))
        BY <1>4, <1>8, <4>1, PhaseOneReady DEF SafetyInv
      <4> DEFINE filled == SortAndFillGap(p, votes, low, high)
      <4>3. /\ filled \in Seq(Accept)
            /\ Ready(p, prms, adu[p] + 1, filled)
            /\ SendAccept(p, adu[p] + 1, adu[p], filled, requestsIn[p])
        BY <4>1, <4>2
      <4> HIDE DEF filled
      <4> QED BY <4>3
    <3> QED BY <2>4, <3>1, <3>2
  <2> QED BY <1>1, <1>3, <1>4, <1>5, <1>6, <2>2, <2>3, <2>5, ProposingSafe
<1>9. Cardinality(prms) \in Nat /\ Quorum \in Nat
  BY <1>4, FS_CardinalityType, QuorumType DEF Held
<1> QED BY <1>7, <1>8, <1>9

\* A proposer in phase two may call sendAccept with any request queue.
LEMMA PhaseTwoSafe ==
  ASSUME TypeOK, TypeOK', SafetyInv, NEW p \in Proposers, phaseOneDone[p],
         NEW decided \in Int, NEW reqs \in Seq(ClientValues),
         SendAccept(p, nextSlot[p], decided, acceptsOut[p], reqs),
         UNCHANGED <<crnd, accRnd, accSlots, promises, phaseOneDone>>,
         \A q \in Proposers : adu'[q] >= adu[q]
  PROVE  SafetyInv'
<1>1. PICK prms \in SUBSET Promise, next \in Nat, out \in Seq(Accept) :
        prms = promises[p] /\ next = nextSlot[p] /\ out = acceptsOut[p]
  BY DEF TypeOK, SlotID
<1>2. Held(p, prms) /\ Ready(p, prms, next, out)
  BY <1>1 DEF SafetyInv, HeldInv, PhaseTwoInv
<1>3. promises' = [promises EXCEPT ![p] = prms]
  BY <1>1 DEF TypeOK
<1>4. SendAccept(p, next, decided, out, reqs)
  BY <1>1
<1> QED BY <1>2, <1>3, <1>4, ProposingSafe

\* A client value keeps the invariant, whether it is queued or proposed.
LEMMA HandleClientValueSafe ==
  ASSUME TypeOK, TypeOK', SafetyInv, NEW p \in Proposers, HandleClientValue(p),
         UNCHANGED acceptorVars
  PROVE  SafetyInv'
<1>1. PICK v \in ClientValues :
        /\ \/ /\ ~phaseOneDone[p]
              /\ UNCHANGED <<msgs, nextSlot, acceptsOut>>
           \/ /\ phaseOneDone[p]
              /\ SendAccept(p, nextSlot[p], adu[p], acceptsOut[p],
                            Append(requestsIn[p], v))
        /\ UNCHANGED <<crnd, adu, promises, phaseOneDone>>
  BY DEF HandleClientValue
<1>2. adu[p] \in Int /\ Append(requestsIn[p], v) \in Seq(ClientValues)
  BY AppendProperties DEF TypeOK
<1>3. \A q \in Proposers : adu'[q] >= adu[q]
  <2>1. \A q \in Proposers : adu[q] \in Int /\ adu'[q] = adu[q]
    BY <1>1 DEF TypeOK
  <2> QED BY <2>1
<1>4. UNCHANGED <<accRnd, accSlots>>
  BY DEF acceptorVars
<1>5. CASE UNCHANGED <<msgs, nextSlot, acceptsOut>>
  BY <1>1, <1>3, <1>4, <1>5, QuietStepSafe
<1>6. CASE /\ phaseOneDone[p]
           /\ SendAccept(p, nextSlot[p], adu[p], acceptsOut[p],
                         Append(requestsIn[p], v))
  BY <1>1, <1>2, <1>3, <1>4, <1>6, PhaseTwoSafe
<1> QED BY <1>1, <1>5, <1>6

\* A decided slot keeps the invariant: it raises adu and may let the proposer
\* send the accept it was holding back.
LEMMA HandleIncDcdSafe ==
  ASSUME TypeOK, TypeOK', SafetyInv, NEW p \in Proposers, HandleIncDcd(p),
         UNCHANGED acceptorVars
  PROVE  SafetyInv'
<1>1. /\ adu' = [adu EXCEPT ![p] = adu[p] + 1]
      /\ \/ /\ phaseOneDone[p]
            /\ SendAccept(p, nextSlot[p], adu[p] + 1, acceptsOut[p], requestsIn[p])
         \/ UNCHANGED <<msgs, queueVars>>
      /\ UNCHANGED <<crnd, promises, phaseOneDone>>
  BY DEF HandleIncDcd
<1>2. adu[p] + 1 \in Int /\ requestsIn[p] \in Seq(ClientValues)
  <2>1. adu[p] \in Nat \cup {-1} /\ requestsIn[p] \in Seq(ClientValues)
    BY DEF TypeOK
  <2> QED BY <2>1
<1>3. \A q \in Proposers : adu'[q] >= adu[q]
  <2>1. \A q \in Proposers : adu[q] \in Int
    BY DEF TypeOK
  <2>2. \A q \in Proposers : adu'[q] = IF q = p THEN adu[q] + 1 ELSE adu[q]
    BY <1>1 DEF TypeOK
  <2> QED BY <2>1, <2>2
<1>4. UNCHANGED <<accRnd, accSlots>>
  BY DEF acceptorVars
<1>5. CASE UNCHANGED <<msgs, queueVars>>
  BY <1>1, <1>3, <1>4, <1>5, QuietStepSafe DEF queueVars
<1>6. CASE /\ phaseOneDone[p]
           /\ SendAccept(p, nextSlot[p], adu[p] + 1, acceptsOut[p], requestsIn[p])
  BY <1>1, <1>2, <1>3, <1>4, <1>6, PhaseTwoSafe
<1> QED BY <1>1, <1>5, <1>6

-----------------------------------------------------------------------------
(* The invariant *)

\* With no message sent and nothing promised or queued, all of it holds.
LEMMA InitSafe == Init => SafetyInv
<1> SUFFICES ASSUME Init PROVE SafetyInv
  OBVIOUS
<1>1. \A kind : Sent(kind) = {}
  BY DEF Init, Sent
<1>2. \A p \in Proposers : promises[p] = {} /\ ~phaseOneDone[p]
  BY DEF Init, ProposerInit
<1>3. \A a \in Acceptors : accSlots[a] = {}
  BY DEF Init, AcceptorInit
<1>4. LearnInv /\ AcceptorInv /\ PromiseInv /\ PrepareInv /\ ProposalInv
  BY <1>1, <1>3 DEF LearnInv, AcceptorInv, PromiseInv, PrepareInv, ProposalInv
<1>5. HeldInv
  BY <1>2, FS_EmptySet DEF HeldInv, Held
<1>6. PhaseTwoInv
  BY <1>2 DEF PhaseTwoInv
<1> QED BY <1>4, <1>5, <1>6 DEF SafetyInv

\* No case of the proposer's select loop disturbs the invariant.
LEMMA ProposerStepSafe ==
  ASSUME TypeOK, TypeOK', SafetyInv, NEW p \in Proposers, ProposerStep(p)
  PROVE  SafetyInv'
<1>1. UNCHANGED acceptorVars
  BY DEF ProposerStep
<1>2. CASE HandlePromise(p)
  BY <1>1, <1>2, HandlePromiseSafe
<1>3. CASE HandleClientValue(p)
  BY <1>1, <1>3, HandleClientValueSafe
<1>4. CASE PhaseOneTick(p)
  BY <1>1, <1>4, StartPhaseOneSafe DEF PhaseOneTick
<1>5. CASE HandleTrust(p)
  <2>1. UNCHANGED <<adu, queueVars>>
    BY <1>5 DEF HandleTrust
  <2>2. CASE StartPhaseOne(p)
    BY <1>1, <2>1, <2>2, StartPhaseOneSafe
  <2>3. CASE UNCHANGED <<msgs, crnd, promises, phaseOneDone>>
    <3>1. \A q \in Proposers : adu'[q] >= adu[q]
      <4>1. \A q \in Proposers : adu[q] \in Int /\ adu'[q] = adu[q]
        BY <2>1 DEF TypeOK
      <4> QED BY <4>1
    <3> QED BY <1>1, <2>1, <2>3, <3>1, QuietStepSafe DEF queueVars, acceptorVars
  <2> QED BY <1>5, <2>2, <2>3 DEF HandleTrust
<1> QED BY <1>2, <1>3, <1>4, <1>5 DEF ProposerStep

\* What a learner and its bank handler do touches no vote and no promise; only
\* the increment they hand to the proposer may send.
LEMMA LearnerNodeStepSafe ==
  ASSUME TypeOK, TypeOK', SafetyInv, NEW l \in Learners,
         \/ LearnerStep(l) \/ TakeDecided(l)
         \/ DrainBuffer(l) \/ IncrementAllDecidedUpTo(l)
  PROVE  SafetyInv'
<1>1. CASE LearnerStep(l) \/ TakeDecided(l) \/ DrainBuffer(l)
  <2>1. UNCHANGED <<msgs, proposerVars, acceptorVars>>
    BY <1>1 DEF LearnerStep, HandleLearn, TakeDecided, DrainBuffer
  <2>2. \A q \in Proposers : adu'[q] >= adu[q]
    <3>1. \A q \in Proposers : adu[q] \in Int /\ adu'[q] = adu[q]
      BY <2>1 DEF TypeOK, proposerVars
    <3> QED BY <3>1
  <2> QED BY <2>1, <2>2, QuietStepSafe DEF proposerVars, queueVars, acceptorVars
<1>2. CASE IncrementAllDecidedUpTo(l)
  <2>1. l \in Proposers
    BY ConfigAssumption
  <2> QED BY <1>2, <2>1, HandleIncDcdSafe DEF IncrementAllDecidedUpTo
<1> QED BY <1>1, <1>2

\* The invariant is inductive.
LEMMA NextSafe == TypeOK /\ TypeOK' /\ SafetyInv /\ [Next]_vars => SafetyInv'
<1> SUFFICES ASSUME TypeOK, TypeOK', SafetyInv, [Next]_vars
             PROVE  SafetyInv'
  OBVIOUS
<1>1. CASE UNCHANGED vars
  <2>1. UNCHANGED <<msgs, proposerVars, acceptorVars>>
    BY <1>1 DEF vars
  <2>2. \A q \in Proposers : adu'[q] >= adu[q]
    <3>1. \A q \in Proposers : adu[q] \in Int /\ adu'[q] = adu[q]
      BY <2>1 DEF TypeOK, proposerVars
    <3> QED BY <3>1
  <2> QED BY <2>1, <2>2, QuietStepSafe DEF proposerVars, queueVars, acceptorVars
<1>2. ASSUME NEW a \in Acceptors, AcceptorStep(a)
      PROVE  SafetyInv'
  BY <1>2, HandlePrepareSafe, HandleAcceptSafe DEF AcceptorStep
<1>3. CASE Next
  BY <1>2, <1>3, ProposerStepSafe, LearnerNodeStepSafe DEF Next
<1> QED BY <1>1, <1>3

\* The inductive invariant holds in every reachable state, for any number of
\* proposers, acceptors, learners and client values, any bound on rounds.
THEOREM SafetyInvariant == Spec => []SafetyInv
<1>1. Init => SafetyInv
  BY InitSafe
<1>2. TypeOK /\ TypeOK' /\ SafetyInv /\ [Next]_vars => SafetyInv'
  BY NextSafe
<1> QED BY <1>1, <1>2, TypeCorrect, PTL DEF Spec

\* Two majorities never choose different values in a slot, as long as no round
\* proposes two values for it: the acceptors' and proposers' handlers together.
THEOREM Agreement == Spec => []AgreementIfProposedOnce
<1>1. TypeOK /\ SafetyInv => AgreementIfProposedOnce
  BY InvAgreement DEF SafetyInv
<1> QED BY <1>1, TypeCorrect, SafetyInvariant, PTL

\* A promise reports every vote of a lower round in the slots it was asked
\* about, also after its acceptor has gone on to other rounds.
THEOREM PromisesComplete == Spec => []PromiseReportsVotes
<1>1. SafetyInv => PromiseReportsVotes
  BY DEF SafetyInv, PromiseInv, PrepareInv, Reports, PromiseReportsVotes
<1> QED BY <1>1, SafetyInvariant, PTL

-----------------------------------------------------------------------------
(* Votes only advance *)

\* A vote replaces that of its own slot only, and never one of a later round.
LEMMA HandleAcceptAdvances ==
  ASSUME TypeOK, SafetyInv, NEW a \in Acceptors, HandleAccept(a)
  PROVE  \A b \in Acceptors :
           /\ accRnd'[b] >= accRnd[b]
           /\ \A ps \in accSlots[b] : \E new \in accSlots'[b] :
                new.id = ps.id /\ new.vrnd >= ps.vrnd
<1>1. PICK acc \in Sent("Accept") :
        /\ acc.rnd >= accRnd[a]
        /\ accRnd' = [accRnd EXCEPT ![a] = acc.rnd]
        /\ accSlots' = [accSlots EXCEPT ![a] =
             {ps \in @ : ps.id # acc.slot}
               \cup {[id |-> acc.slot, vrnd |-> acc.rnd, vval |-> acc.val]}]
  BY DEF HandleAccept
<1> DEFINE vote == [id |-> acc.slot, vrnd |-> acc.rnd, vval |-> acc.val]
<1>2. /\ accSlots'[a] = {ps \in accSlots[a] : ps.id # acc.slot} \cup {vote}
      /\ accRnd'[a] = acc.rnd
      /\ \A b \in Acceptors : b # a =>
           accSlots'[b] = accSlots[b] /\ accRnd'[b] = accRnd[b]
  BY <1>1 DEF TypeOK
<1>3. acc.rnd \in Int
  <2>1. acc \in Accept
    BY DEF Sent, TypeOK, Messages, Prepare, Promise, Learn
  <2> QED BY <2>1 DEF Accept
<1>4. \A b \in Acceptors : accRnd[b] \in Int /\ \A ps \in accSlots[b] : ps.vrnd \in Int
  <2>1. \A b \in Acceptors : accRnd[b] \in Round /\ accSlots[b] \subseteq PromiseSlot
    BY DEF TypeOK
  <2> QED BY <2>1 DEF Round, NoRound, PromiseSlot
<1>5. vote.id = acc.slot /\ vote.vrnd = acc.rnd
  OBVIOUS
<1> HIDE DEF vote
<1>6. ASSUME NEW ps \in accSlots[a]
      PROVE  \E new \in accSlots'[a] : new.id = ps.id /\ new.vrnd >= ps.vrnd
  <2>1. ps.vrnd <= accRnd[a]
    BY DEF SafetyInv, AcceptorInv, VotedFor, LearnInv
  <2>2. CASE ps.id = acc.slot
    BY <2>1, <2>2, <1>1, <1>2, <1>3, <1>4, <1>5
  <2>3. CASE ps.id # acc.slot
    BY <2>3, <1>2, <1>4
  <2> QED BY <2>2, <2>3
<1>7. ASSUME NEW b \in Acceptors, b # a
      PROVE  /\ accRnd'[b] >= accRnd[b]
             /\ \A ps \in accSlots[b] : \E new \in accSlots'[b] :
                  new.id = ps.id /\ new.vrnd >= ps.vrnd
  BY <1>2, <1>4, <1>7
<1> QED BY <1>1, <1>2, <1>6, <1>7

\* An acceptor's round never decreases, and a vote is replaced only by one of
\* the same or a later round in its slot: accSlots never holds a vote of a
\* round the acceptor has not reached.
THEOREM VotesAdvance == Spec => VotesOnlyAdvance
<1> DEFINE advance ==
      \A a \in Acceptors :
        /\ accRnd'[a] >= accRnd[a]
        /\ \A ps \in accSlots[a] : \E new \in accSlots'[a] :
             new.id = ps.id /\ new.vrnd >= ps.vrnd
<1>1. TypeOK /\ SafetyInv /\ [Next]_vars => [advance]_vars
  <2> SUFFICES ASSUME TypeOK, SafetyInv, Next PROVE advance
    OBVIOUS
  <2>1. \A a \in Acceptors :
          accRnd[a] \in Int /\ \A ps \in accSlots[a] : ps.vrnd \in Int
    <3>1. \A a \in Acceptors : accRnd[a] \in Round /\ accSlots[a] \subseteq PromiseSlot
      BY DEF TypeOK
    <3> QED BY <3>1 DEF Round, NoRound, PromiseSlot
  <2>2. CASE UNCHANGED acceptorVars
    BY <2>1, <2>2 DEF acceptorVars
  <2>3. ASSUME NEW a \in Acceptors, HandlePrepare(a) PROVE advance
    <3>1. PICK prp \in Sent("Prepare") :
            /\ prp.crnd > accRnd[a]
            /\ accRnd' = [accRnd EXCEPT ![a] = prp.crnd]
            /\ accSlots' = accSlots
      BY <2>3 DEF HandlePrepare
    <3>2. prp \in Prepare
      BY DEF Sent, TypeOK, Messages, Promise, Accept, Learn
    <3>3. prp.crnd \in Int
      BY <3>2 DEF Prepare
    <3>4. \A b \in Acceptors : accRnd'[b] = IF b = a THEN prp.crnd ELSE accRnd[b]
      BY <3>1 DEF TypeOK
    <3> QED BY <2>1, <3>1, <3>3, <3>4
  <2>4. ASSUME NEW a \in Acceptors, HandleAccept(a) PROVE advance
    BY <2>4, HandleAcceptAdvances
  <2>5. \/ UNCHANGED acceptorVars
        \/ \E a \in Acceptors : HandlePrepare(a) \/ HandleAccept(a)
    BY DEF Next, ProposerStep, AcceptorStep, LearnerStep, TakeDecided,
           DrainBuffer, IncrementAllDecidedUpTo
  <2> QED BY <2>2, <2>3, <2>4, <2>5
<1> QED BY <1>1, TypeCorrect, SafetyInvariant, PTL DEF Spec, VotesOnlyAdvance

-----------------------------------------------------------------------------
(* Majorities behind proposals *)

Backers(q, r) ==
  {prm.from : prm \in {m \in Sent("Promise") : m.to = q /\ m.rnd = r}}

\* An accept of proposer p's current round.
MadeBy(p, acc) == acc.from = p /\ acc.rnd = crnd[p]

\* All the accepts a step adds are of proposers that hold a majority of
\* promises, for their rounds before the step and with its messages.
BackedStep ==
  \/ Sent("Accept")' = Sent("Accept")
  \/ \E p \in Proposers :
       /\ Cardinality(Backers(p, crnd[p])) >= Quorum
       /\ \A acc \in Sent("Accept")' : acc \in Sent("Accept") \/ MadeBy(p, acc)

-----------------------------------------------------------------------------
(* Promises in hand and promises sent *)

\* Senders of promises are acceptors, so there are finitely many.
LEMMA BackersFinite ==
  ASSUME TypeOK, NEW q, NEW r
  PROVE  /\ IsFiniteSet(Backers(q, r))
         /\ Cardinality(Backers(q, r)) \in Nat
<1>1. Sent("Promise") \subseteq Promise
  BY DEF Sent, TypeOK, Messages, Prepare, Accept, Learn
<1>2. Backers(q, r) \subseteq Acceptors
  BY <1>1 DEF Backers, Promise
<1> QED BY <1>2, ConfigAssumption, FS_Subset, FS_CardinalityType

\* The promises a proposer holds are among those sent to it.
LEMMA HeldBacked ==
  ASSUME TypeOK, NEW p, NEW prms, Held(p, prms), Cardinality(prms) >= Quorum
  PROVE  Cardinality(Backers(p, crnd[p])) >= Quorum
<1> DEFINE senders == {prm.from : prm \in prms}
<1>1. IsQuorum(senders)
  BY SendersQuorum
<1>2. senders \subseteq Backers(p, crnd[p])
  BY DEF Held, Backers
<1>3. Cardinality(senders) <= Cardinality(Backers(p, crnd[p]))
  BY <1>2, BackersFinite, FS_Subset
<1>4. Cardinality(senders) \in Nat
  BY <1>2, BackersFinite, FS_Subset, FS_CardinalityType
<1> QED BY <1>1, <1>3, <1>4, BackersFinite, QuorumType DEF IsQuorum

\* Later messages only add to them.
LEMMA BackersGrow ==
  ASSUME TypeOK, TypeOK', msgs \subseteq msgs', NEW q, NEW r,
         Cardinality(Backers(q, r)) >= Quorum
  PROVE  Cardinality(Backers(q, r)') >= Quorum
<1>1. Backers(q, r) \subseteq Backers(q, r)'
  BY DEF Backers, Sent
<1>2. IsFiniteSet(Backers(q, r)') /\ Cardinality(Backers(q, r)') \in Nat
  <2>1. Sent("Promise")' \subseteq Promise
    BY DEF Sent, TypeOK, Messages, Prepare, Accept, Learn
  <2>2. Backers(q, r)' \subseteq Acceptors
    BY <2>1 DEF Backers, Promise
  <2> QED BY <2>2, ConfigAssumption, FS_Subset, FS_CardinalityType
<1>3. Cardinality(Backers(q, r)) <= Cardinality(Backers(q, r)')
  BY <1>1, <1>2, FS_Subset
<1> QED BY <1>2, <1>3, BackersFinite, QuorumType

-----------------------------------------------------------------------------
(* What the steps send *)

\* sendAccept sends an accept of the current round, if what is queued is.
LEMMA SendAcceptMadeBy ==
  ASSUME NEW p, NEW next, NEW decided, NEW out \in Seq(Accept), NEW reqs,
         \A i \in DOMAIN out : MadeBy(p, out[i]),
         SendAccept(p, next, decided, out, reqs)
  PROVE  /\ msgs \subseteq msgs'
         /\ \A acc \in Sent("Accept")' : acc \in Sent("Accept") \/ MadeBy(p, acc)
<1> DEFINE new == [type |-> "Accept", from |-> p, slot |-> next, rnd |-> crnd[p],
                   val |-> Head(reqs)]
<1>1. \/ msgs' = msgs
      \/ out # <<>> /\ msgs' = msgs \cup {Head(out)}
      \/ msgs' = msgs \cup {new}
  BY DEF SendAccept, Send
<1>2. CASE out # <<>> /\ msgs' = msgs \cup {Head(out)}
  <2>1. MadeBy(p, Head(out))
    BY <1>2
  <2> QED BY <1>2, <2>1 DEF Sent
<1>3. CASE msgs' = msgs \cup {new}
  <2>1. MadeBy(p, new)
    BY DEF MadeBy
  <2> QED BY <1>3, <2>1 DEF Sent
<1> QED BY <1>1, <1>2, <1>3 DEF Sent

\* The promise that completes phase one, or completes it again: the accepts
\* are generated for the current round.
LEMMA HandlePromiseBacked ==
  ASSUME TypeOK, SafetyInv, NEW p \in Proposers, HandlePromise(p)
  PROVE  msgs \subseteq msgs' /\ BackedStep
<1>1. PICK prm \in Sent("Promise") :
        /\ prm.to = p /\ prm.rnd = crnd[p]
        /\ \A known \in promises[p] : known.from # prm.from
        /\ \/ UNCHANGED msgs
           \/ /\ Cardinality(promises[p] \cup {prm}) >= Quorum
              /\ CompletePhaseOne(p, promises[p] \cup {prm})
  BY DEF HandlePromise
<1>2. CASE UNCHANGED msgs
  BY <1>2 DEF BackedStep, Sent
<1>3. CASE /\ Cardinality(promises[p] \cup {prm}) >= Quorum
           /\ CompletePhaseOne(p, promises[p] \cup {prm})
  <2>1. Held(p, promises[p] \cup {prm})
    BY <1>1, HeldGrows DEF SafetyInv, HeldInv
  <2>2. Cardinality(Backers(p, crnd[p])) >= Quorum
    BY <1>3, <2>1, HeldBacked
  <2>3. PICK prms \in SUBSET Promise : prms = promises[p] \cup {prm}
    <3>1. prm \in Promise
      BY DEF Sent, TypeOK, Messages, Prepare, Accept, Learn
    <3>2. promises[p] \cup {prm} \in SUBSET Promise
      BY <3>1 DEF TypeOK
    <3> QED BY <3>2
  <2>4. PICK votes \in PurgePrmSlots(prms, adu[p]) :
          \/ SendAccept(p, adu[p] + 1, adu[p], <<>>, requestsIn[p])
          \/ \E low, high \in DOMAIN votes :
               /\ \A s \in DOMAIN votes : low <= s /\ s <= high
               /\ SendAccept(p, adu[p] + 1, adu[p],
                             SortAndFillGap(p, votes, low, high), requestsIn[p])
    BY <1>3, <2>3 DEF CompletePhaseOne
  <2>5. CASE SendAccept(p, adu[p] + 1, adu[p], <<>>, requestsIn[p])
    <3> DEFINE empty == <<>>
    <3>1. /\ empty \in Seq(Accept)
          /\ \A i \in DOMAIN empty : MadeBy(p, empty[i])
          /\ SendAccept(p, adu[p] + 1, adu[p], empty, requestsIn[p])
      BY <2>5
    <3> HIDE DEF empty
    <3> QED BY <2>2, <3>1, SendAcceptMadeBy DEF BackedStep
  <2>6. ASSUME NEW low \in DOMAIN votes, NEW high \in DOMAIN votes,
               \A s \in DOMAIN votes : low <= s /\ s <= high,
               SendAccept(p, adu[p] + 1, adu[p],
                          SortAndFillGap(p, votes, low, high), requestsIn[p])
        PROVE  msgs \subseteq msgs' /\ BackedStep
    <3> DEFINE filled == SortAndFillGap(p, votes, low, high)
    <3>1. \A i \in DOMAIN filled : MadeBy(p, filled[i])
      BY DEF SortAndFillGap, MadeBy
    <3>2. filled \in Seq(Accept)
      <4>1. adu[p] \in Nat \cup {-1}
        BY DEF TypeOK
      <4>2. adu[p] \in Int
        BY <4>1
      <4> QED BY <2>6, <4>2, FillGapType
    <3>3. SendAccept(p, adu[p] + 1, adu[p], filled, requestsIn[p])
      BY <2>6
    <3> HIDE DEF filled
    <3> QED BY <2>2, <3>1, <3>2, <3>3, SendAcceptMadeBy DEF BackedStep
  <2> QED BY <2>4, <2>5, <2>6
<1> QED BY <1>1, <1>2, <1>3

\* A proposer in phase two holds the promises it needs, and its queue is of
\* its current round.
LEMMA PhaseTwoBacked ==
  ASSUME TypeOK, SafetyInv, NEW p \in Proposers, phaseOneDone[p],
         NEW decided, NEW reqs,
         SendAccept(p, nextSlot[p], decided, acceptsOut[p], reqs)
  PROVE  msgs \subseteq msgs' /\ BackedStep
<1>1. Held(p, promises[p]) /\ Ready(p, promises[p], nextSlot[p], acceptsOut[p])
  BY DEF SafetyInv, HeldInv, PhaseTwoInv
<1>2. Cardinality(Backers(p, crnd[p])) >= Quorum
  BY <1>1, HeldBacked DEF Ready
<1>3. \A i \in DOMAIN acceptsOut[p] : MadeBy(p, acceptsOut[p][i])
  BY <1>1 DEF Ready, QueueSafe, MadeBy
<1>4. acceptsOut[p] \in Seq(Accept)
  BY DEF TypeOK
<1>5. /\ msgs \subseteq msgs'
      /\ \A acc \in Sent("Accept")' : acc \in Sent("Accept") \/ MadeBy(p, acc)
  BY <1>3, <1>4, SendAcceptMadeBy
<1> QED BY <1>2, <1>5 DEF BackedStep

\* Whatever a node does, its proposals are backed.
LEMMA NextBacked ==
  ASSUME TypeOK, SafetyInv, [Next]_vars
  PROVE  msgs \subseteq msgs' /\ BackedStep
<1>1. CASE UNCHANGED msgs
  BY <1>1 DEF BackedStep, Sent
<1>2. ASSUME NEW m, m.type # "Accept", Send(m)
      PROVE  msgs \subseteq msgs' /\ BackedStep
  BY <1>2 DEF Send, Sent, BackedStep
<1>3. ASSUME NEW p \in Proposers, HandleClientValue(p)
      PROVE  msgs \subseteq msgs' /\ BackedStep
  BY <1>1, <1>3, PhaseTwoBacked DEF HandleClientValue
<1>4. ASSUME NEW p \in Proposers, HandleIncDcd(p)
      PROVE  msgs \subseteq msgs' /\ BackedStep
  BY <1>1, <1>4, PhaseTwoBacked DEF HandleIncDcd
<1>5. ASSUME NEW p \in Proposers, PhaseOneTick(p) \/ HandleTrust(p)
      PROVE  msgs \subseteq msgs' /\ BackedStep
  BY <1>1, <1>2, <1>5 DEF PhaseOneTick, HandleTrust, StartPhaseOne
<1>6. ASSUME NEW a \in Acceptors, AcceptorStep(a)
      PROVE  msgs \subseteq msgs' /\ BackedStep
  BY <1>2, <1>6 DEF AcceptorStep, HandlePrepare, HandleAccept
<1>7. ASSUME NEW l \in Learners,
             LearnerStep(l) \/ TakeDecided(l) \/ DrainBuffer(l)
      PROVE  msgs \subseteq msgs' /\ BackedStep
  BY <1>1, <1>7 DEF LearnerStep, HandleLearn, TakeDecided, DrainBuffer
<1>8. ASSUME NEW l \in Learners, IncrementAllDecidedUpTo(l)
      PROVE  msgs \subseteq msgs' /\ BackedStep
  <2>1. l \in Proposers
    BY ConfigAssumption
  <2> QED BY <1>4, <1>8, <2>1 DEF IncrementAllDecidedUpTo
<1>9. CASE UNCHANGED vars
  BY <1>1, <1>9 DEF vars
<1> QED BY <1>3, <1>5, <1>6, <1>7, <1>8, <1>9, HandlePromiseBacked
        DEF Next, ProposerStep

-----------------------------------------------------------------------------
(* The invariant *)

\* A backed step adds no proposal without a majority of promises.
LEMMA BackedStepKeeps ==
  ASSUME TypeOK, TypeOK', ProposalHasQuorum, msgs \subseteq msgs', BackedStep
  PROVE  ProposalHasQuorum'
<1> SUFFICES ASSUME NEW acc \in Sent("Accept")'
             PROVE  Cardinality(Backers(acc.from, acc.rnd)') >= Quorum
  BY DEF ProposalHasQuorum, Backers
<1>1. CASE acc \in Sent("Accept")
  <2>1. Cardinality(Backers(acc.from, acc.rnd)) >= Quorum
    BY <1>1 DEF ProposalHasQuorum, Backers
  <2> QED BY <2>1, BackersGrow
<1>2. CASE acc \notin Sent("Accept")
  <2>1. PICK p \in Proposers : /\ Cardinality(Backers(p, crnd[p])) >= Quorum
                               /\ MadeBy(p, acc)
    BY <1>2 DEF BackedStep
  <2>2. Cardinality(Backers(acc.from, acc.rnd)) >= Quorum
    BY <2>1 DEF MadeBy
  <2> QED BY <2>2, BackersGrow
<1> QED BY <1>1, <1>2

\* No proposer proposes in a round that a majority of acceptors has not
\* promised it, after any number of restarts of phase one.
THEOREM ProposalsBacked == Spec => []ProposalHasQuorum
<1>1. Init => ProposalHasQuorum
  BY DEF Init, Sent, ProposalHasQuorum
<1>2. TypeOK /\ TypeOK' /\ SafetyInv /\ ProposalHasQuorum /\ [Next]_vars
        => ProposalHasQuorum'
  BY NextBacked, BackedStepKeeps
<1> QED BY <1>1, <1>2, TypeCorrect, SafetyInvariant, PTL DEF Spec
=============================================================================
