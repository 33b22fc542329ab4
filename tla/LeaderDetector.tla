--------------------------- MODULE LeaderDetector ----------------------------
(***************************************************************************)
(* lab3/detector/ld.go, with one subscriber.  The failure detector calls   *)
(* Suspect and Restore several times in one timeout, so both are operators *)
(* on the detector's fields; FailureDetector assigns them.                 *)
(***************************************************************************)
EXTENDS Integers, Sequences, FiniteSets, FiniteSetsExt

CONSTANT Candidates  \* m.nodes: main.go passes netConf.Proposers

VARIABLE ld  \* SuspectedNodes, leaderNode, and the subscriber's channel

UnknownID == -1

ASSUME CandidateAssumption == Candidates \subseteq Int /\ IsFiniteSet(Candidates)

\* The highest candidate that is not suspected; negative ids are ignored.
Monarch(suspected) ==
  Max({UnknownID} \cup {id \in Candidates \ suspected : id > UnknownID})

\* The channel is made at Subscribe, after the first leader was published.
NewMonLeaderDetector ==
  [suspectedNodes |-> {}, leaderNode |-> Monarch({}), channel |-> <<>>]

\* Mutants of Indicate: publishes without a change; keeps a leader that is
\* still trusted when a higher one is restored.
IndicateAlways(m, suspected) ==
  [suspectedNodes |-> suspected,
   leaderNode |-> Monarch(suspected),
   channel |-> Append(m.channel, Monarch(suspected))]

IndicateKeepsLeader(m, suspected) ==
  LET leader == IF m.leaderNode \in Candidates \ suspected
                  THEN m.leaderNode ELSE Monarch(suspected)
  IN  [suspectedNodes |-> suspected,
       leaderNode |-> leader,
       channel |-> IF leader = m.leaderNode THEN m.channel
                                            ELSE Append(m.channel, leader)]

\* LeaderChange, and Publish if it returned true.
Indicate(m, suspected) ==
  [suspectedNodes |-> suspected,
   leaderNode |-> Monarch(suspected),
   channel |-> IF Monarch(suspected) = m.leaderNode
                 THEN m.channel
                 ELSE Append(m.channel, Monarch(suspected))]

Suspect(m, id) == Indicate(m, m.suspectedNodes \cup {id})

Restore(m, id) == Indicate(m, m.suspectedNodes \ {id})
=============================================================================
