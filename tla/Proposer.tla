------------------------------ MODULE Proposer ------------------------------
(***************************************************************************)
(* lab5/multipaxos/proposer.go.  Each case of the select loop in Start is  *)
(* one action: promise, client value, decided slot, ticker, leader change. *)
(***************************************************************************)
EXTENDS MultiPaxosDefs

CONSTANTS
  MaxRound,      \* bound: no proposer starts a round above it
  MaxDeliveries  \* bound: client values handed to proposers in a run

VARIABLES
  crnd, adu, nextSlot,
  promises,      \* promises of the current round, one per sender
  phaseOneDone,
  acceptsOut,    \* accepts generated by phase one, in slot order
  requestsIn,    \* client values not yet proposed
  leader,        \* the proposer's copy of the leader detector's output
  deliveries     \* counts client values, for MaxDeliveries

queueVars == <<nextSlot, acceptsOut, requestsIn>>
proposerVars == <<crnd, adu, promises, phaseOneDone, queueVars, leader, deliveries>>

\* ld.Leader() before any suspicion: the highest id of netConf.Proposers.
FirstLeader == CHOOSE p \in Proposers : \A q \in Proposers : q <= p

ProposerInit ==
  /\ crnd = [p \in Proposers |-> p]
  /\ adu = [p \in Proposers |-> -1]
  /\ nextSlot = [p \in Proposers |-> 0]
  /\ promises = [p \in Proposers |-> {}]
  /\ phaseOneDone = [p \in Proposers |-> FALSE]
  /\ acceptsOut = [p \in Proposers |-> <<>>]
  /\ requestsIn = [p \in Proposers |-> <<>>]
  /\ leader = [p \in Proposers |-> FirstLeader]
  /\ deliveries = 0

-----------------------------------------------------------------------------
(* Phase one *)

IncreaseCrnd(p) ==
  /\ crnd[p] + N <= MaxRound
  /\ crnd' = [crnd EXCEPT ![p] = crnd[p] + N]

\* Mutants of StartPhaseOne: the promises of the last round still count; the
\* proposer stays in phase two.
StartPhaseOneKeepsPromises(p) ==
  /\ IncreaseCrnd(p)
  /\ phaseOneDone' = [phaseOneDone EXCEPT ![p] = FALSE]
  /\ UNCHANGED promises
  /\ Send([type |-> "Prepare", from |-> p, slot |-> adu[p], crnd |-> crnd[p] + N])

StartPhaseOneStaysDone(p) ==
  /\ IncreaseCrnd(p)
  /\ UNCHANGED phaseOneDone
  /\ promises' = [promises EXCEPT ![p] = {}]
  /\ Send([type |-> "Prepare", from |-> p, slot |-> adu[p], crnd |-> crnd[p] + N])

\* The queues and nextSlot of an earlier round stay as they are.
StartPhaseOne(p) ==
  /\ IncreaseCrnd(p)
  /\ phaseOneDone' = [phaseOneDone EXCEPT ![p] = FALSE]
  /\ promises' = [promises EXCEPT ![p] = {}]
  /\ Send([type |-> "Prepare", from |-> p, slot |-> adu[p], crnd |-> crnd[p] + N])

\* The value to propose in each reported slot above decided: one with the
\* highest vrnd.  On equal vrnd the code keeps the promise that came first,
\* which may be any of them.
PurgePrmSlots(prms, decided) ==
  LET reported == {ps \in UNION {prm.slots : prm \in prms} : ps.id > decided}
  IN  {f \in [{ps.id : ps \in reported} -> {ps.vval : ps \in reported}] :
         \A s \in DOMAIN f : \E ps \in reported :
           /\ ps.id = s
           /\ ps.vval = f[s]
           /\ \A other \in reported : other.id = s => other.vrnd <= ps.vrnd}

\* Mutant of SortAndFillGap: every accept is one slot early.
SortAndFillGapEarly(p, votes, low, high) ==
  [i \in 1..(high - low + 1) |->
     [type |-> "Accept", from |-> p, slot |-> low + i - 2, rnd |-> crnd[p],
      val |-> IF low + i - 1 \in DOMAIN votes THEN votes[low + i - 1] ELSE Noop]]

\* From the lowest to the highest reported slot, with a no-op in every gap.
SortAndFillGap(p, votes, low, high) ==
  [i \in 1..(high - low + 1) |->
     [type |-> "Accept", from |-> p, slot |-> low + i - 1, rnd |-> crnd[p],
      val |-> IF low + i - 1 \in DOMAIN votes THEN votes[low + i - 1] ELSE Noop]]

-----------------------------------------------------------------------------
(* Phase two *)

\* sendAccept, called with nextSlot = next, acceptsOut = out and
\* requestsIn = reqs once the caller has set them, and adu = decided.
SendAccept(p, next, decided, out, reqs) ==
  LET alpha == 1
      acc == [type |-> "Accept", from |-> p, slot |-> next, rnd |-> crnd[p],
              val |-> Head(reqs)]
      Set(n, o, r) == /\ nextSlot' = [nextSlot EXCEPT ![p] = n]
                      /\ acceptsOut' = [acceptsOut EXCEPT ![p] = o]
                      /\ requestsIn' = [requestsIn EXCEPT ![p] = r]
  IN  \/ /\ next > decided + alpha
         /\ Set(next, out, reqs)
         /\ UNCHANGED msgs
      \/ /\ next <= decided + alpha
         /\ out # <<>>
         /\ Send(Head(out))
         /\ Set(next + 1, Tail(out), reqs)
      \/ /\ next <= decided + alpha
         /\ out = <<>>
         /\ reqs # <<>>
         /\ Send(acc)
         /\ Set(next + 1, out, Tail(reqs))
      \/ /\ next <= decided + alpha
         /\ out = <<>>
         /\ reqs = <<>>
         /\ Set(next, out, reqs)
         /\ UNCHANGED msgs

-----------------------------------------------------------------------------
(* The cases of the select loop *)

\* Every promise from the quorum-th on completes phase one, the late ones too.
CompletePhaseOne(p, prms) ==
  /\ phaseOneDone' = [phaseOneDone EXCEPT ![p] = TRUE]
  /\ \E votes \in PurgePrmSlots(prms, adu[p]) :
       \/ /\ DOMAIN votes = {}
          /\ SendAccept(p, adu[p] + 1, adu[p], <<>>, requestsIn[p])
       \/ \E low, high \in DOMAIN votes :
            /\ \A s \in DOMAIN votes : low <= s /\ s <= high
            /\ SendAccept(p, adu[p] + 1, adu[p],
                          SortAndFillGap(p, votes, low, high), requestsIn[p])

HandlePromise(p) ==
  \E prm \in Sent("Promise") :
    LET prms == promises[p] \cup {prm}
    IN  /\ prm.to = p
        /\ prm.rnd = crnd[p]
        /\ \A known \in promises[p] : known.from # prm.from
        /\ promises' = [promises EXCEPT ![p] = prms]
        /\ \/ /\ Cardinality(prms) < Quorum
              /\ UNCHANGED <<msgs, phaseOneDone, queueVars>>
           \/ /\ Cardinality(prms) >= Quorum
              /\ CompletePhaseOne(p, prms)
        /\ UNCHANGED <<crnd, adu, leader, deliveries>>

\* A value that reaches a proposer which is not the leader is dropped.
HandleClientValue(p) ==
  \E v \in ClientValues :
    LET reqs == Append(requestsIn[p], v)
    IN  /\ deliveries < MaxDeliveries
        /\ deliveries' = deliveries + 1
        /\ leader[p] = p
        /\ \/ /\ ~phaseOneDone[p]
              /\ requestsIn' = [requestsIn EXCEPT ![p] = reqs]
              /\ UNCHANGED <<msgs, nextSlot, acceptsOut>>
           \/ /\ phaseOneDone[p]
              /\ SendAccept(p, nextSlot[p], adu[p], acceptsOut[p], reqs)
        /\ UNCHANGED <<crnd, adu, promises, phaseOneDone, leader>>

\* Mutant of HandleIncDcd: only a leader in phase two takes note.
HandleIncDcdLeaderOnly(p) ==
  /\ \/ /\ leader[p] = p /\ phaseOneDone[p]
        /\ adu' = [adu EXCEPT ![p] = adu[p] + 1]
        /\ SendAccept(p, nextSlot[p], adu[p] + 1, acceptsOut[p], requestsIn[p])
     \/ /\ ~(leader[p] = p /\ phaseOneDone[p])
        /\ UNCHANGED <<msgs, adu, queueVars>>
  /\ UNCHANGED <<crnd, promises, phaseOneDone, leader, deliveries>>

\* The receiving end of IncrementAllDecidedUpTo.
HandleIncDcd(p) ==
  /\ adu' = [adu EXCEPT ![p] = adu[p] + 1]
  /\ \/ /\ leader[p] = p /\ phaseOneDone[p]
        /\ SendAccept(p, nextSlot[p], adu[p] + 1, acceptsOut[p], requestsIn[p])
     \/ /\ ~(leader[p] = p /\ phaseOneDone[p])
        /\ UNCHANGED <<msgs, queueVars>>
  /\ UNCHANGED <<crnd, promises, phaseOneDone, leader, deliveries>>

\* phaseOneProgressTicker
PhaseOneTick(p) ==
  /\ leader[p] = p
  /\ ~phaseOneDone[p]
  /\ StartPhaseOne(p)
  /\ UNCHANGED <<adu, queueVars, leader, deliveries>>

\* A leader published by the detector.  It publishes changes only, in order,
\* and the proposer subscribes before the failure detector starts, so the id
\* differs from the last one received.
HandleTrust(p) ==
  \E id \in Proposers \cup {UnknownID} :
    /\ id # leader[p]
    /\ leader' = [leader EXCEPT ![p] = id]
    /\ \/ id = p /\ StartPhaseOne(p)
       \/ id # p /\ UNCHANGED <<msgs, crnd, promises, phaseOneDone>>
    /\ UNCHANGED <<adu, queueVars, deliveries>>
=============================================================================
