----------------------------- MODULE MultiPaxos -----------------------------
(***************************************************************************)
(* The replicated bank of lab5: the proposers, acceptors, learners and     *)
(* bank handlers of all nodes, wired as lab5/app/main.go wires them.       *)
(***************************************************************************)
EXTENDS Proposer, Acceptor, Learner, BankHandler

vars == <<msgs, proposerVars, acceptorVars, learnerVars, bankVars>>

Init ==
  /\ msgs = {}
  /\ ProposerInit
  /\ AcceptorInit
  /\ LearnerInit
  /\ BankInit

ProposerStep(p) ==
  /\ \/ HandlePromise(p)
     \/ HandleClientValue(p)
     \/ PhaseOneTick(p)
     \/ HandleTrust(p)
  /\ UNCHANGED <<acceptorVars, learnerVars, bankVars>>

AcceptorStep(a) ==
  /\ HandlePrepare(a) \/ HandleAccept(a)
  /\ UNCHANGED <<proposerVars, learnerVars, bankVars>>

LearnerStep(l) ==
  /\ HandleLearn(l)
  /\ UNCHANGED <<proposerVars, acceptorVars, bankVars>>

\* main.go's select: the learner's channel feeds the bank handler.
TakeDecided(l) ==
  /\ decidedOut[l] # <<>>
  /\ decidedOut' = [decidedOut EXCEPT ![l] = Tail(@)]
  /\ HandleDecidedValue(l, Head(decidedOut[l]))
  /\ UNCHANGED <<msgs, proposerVars, acceptorVars, lrnRnd, lrnSlots, lrnSent>>

DrainBuffer(l) ==
  /\ HandleBuffered(l)
  /\ UNCHANGED <<msgs, proposerVars, acceptorVars, learnerVars>>

\* The rendezvous on the proposer's unbuffered incDcd channel.
IncrementAllDecidedUpTo(l) ==
  /\ ProposerTold(l)
  /\ HandleIncDcd(l)
  /\ UNCHANGED <<acceptorVars, learnerVars>>

Next ==
  \/ \E p \in Proposers : ProposerStep(p)
  \/ \E a \in Acceptors : AcceptorStep(a)
  \/ \E l \in Learners : \/ LearnerStep(l)
                         \/ TakeDecided(l)
                         \/ DrainBuffer(l)
                         \/ IncrementAllDecidedUpTo(l)

Spec == Init /\ [][Next]_vars

-----------------------------------------------------------------------------
(* Types *)

\* Every variable keeps its type: the fields of the proposer, acceptor,
\* learner and bank handler structs, and the message structs of defs.go.
TypeOK ==
  /\ msgs \subseteq Messages
  /\ crnd \in [Proposers -> Nat]
  /\ adu \in [Proposers -> Nat \cup {-1}]
  /\ nextSlot \in [Proposers -> SlotID]
  /\ promises \in [Proposers -> SUBSET Promise]
  /\ phaseOneDone \in [Proposers -> BOOLEAN]
  /\ acceptsOut \in [Proposers -> Seq(Accept)]
  /\ requestsIn \in [Proposers -> Seq(ClientValues)]
  /\ leader \in [Proposers -> Proposers \cup {UnknownID}]
  /\ deliveries \in Nat
  /\ accRnd \in [Acceptors -> Round]
  /\ accSlots \in [Acceptors -> SUBSET PromiseSlot]
  /\ lrnRnd \in [Learners -> Round]
  /\ lrnSlots \in [Learners -> SUBSET Learn]
  /\ lrnSent \in [Learners -> SUBSET SlotID]
  /\ decidedOut \in [Learners -> Seq(DecidedValue)]
  /\ bankAdu \in [Learners -> Nat \cup {-1}]
  /\ bankBuffer \in [Learners -> SUBSET DecidedValue]
  /\ bankLog \in [Learners -> Seq(Value)]
  /\ bankWaiting \in [Learners -> BOOLEAN]
=============================================================================
