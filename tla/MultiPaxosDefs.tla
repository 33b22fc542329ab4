--------------------------- MODULE MultiPaxosDefs ---------------------------
(***************************************************************************)
(* The vocabulary of lab5/multipaxos: node roles, rounds, slots and the    *)
(* four message types of defs.go, with the network they travel on.         *)
(*                                                                         *)
(* The network is a growing set of messages.  Receiving does not remove a  *)
(* message, so a message may be lost (never received), delayed, reordered  *)
(* or received again; lab3/network loses and reorders (a TCP read that     *)
(* coalesces two JSON objects loses both; a replaced connection reorders)  *)
(* and every handler except one ignores or repeats a duplicate without     *)
(* effect (README, "The network").                                         *)
(***************************************************************************)
EXTENDS Integers, FiniteSets, Sequences

CONSTANTS
  Proposers,     \* netConf.Proposers, node ids
  Acceptors,     \* netConf.Acceptors
  Learners,      \* netConf.Learners
  ClientValues,  \* commands a client submits
  Noop           \* the Value with Noop: true

VARIABLE msgs    \* every message sent so far

NoRound == -1
UnknownID == -1

\* nrOfNodes as main.go passes it, and the majority the proposer and the
\* learner both compute from it.
N == Cardinality(Acceptors)
Quorum == (N \div 2) + 1

\* main.go gives every node's bank handler the node's own proposer.
ASSUME ConfigAssumption ==
  /\ IsFiniteSet(Acceptors)
  /\ Acceptors # {}
  /\ Proposers \subseteq Nat
  /\ \E p \in Proposers : \A q \in Proposers : q <= p
  /\ Learners \subseteq Proposers
  /\ Noop \notin ClientValues

Value == ClientValues \cup {Noop}
Round == Nat \cup {NoRound}
SlotID == Nat

PromiseSlot == [id: SlotID, vrnd: Round, vval: Value]

\* Prepare.Slot is the proposer's adu, -1 before anything is decided.  No
\* message carries NoRound: proposers start at their id and count up.
Prepare == [type: {"Prepare"}, from: Proposers, slot: SlotID \cup {-1}, crnd: Nat]
Promise == [type: {"Promise"}, to: Proposers, from: Acceptors, rnd: Nat,
            slots: SUBSET PromiseSlot]
Accept == [type: {"Accept"}, from: Proposers, slot: SlotID, rnd: Nat, val: Value]
Learn == [type: {"Learn"}, from: Acceptors, slot: SlotID, rnd: Nat, val: Value]
DecidedValue == [slot: SlotID, val: Value]

Messages == Prepare \cup Promise \cup Accept \cup Learn

Sent(kind) == {m \in msgs : m.type = kind}

Send(m) == msgs' = msgs \cup {m}
=============================================================================
