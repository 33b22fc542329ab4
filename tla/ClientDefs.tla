----------------------------- MODULE ClientDefs -----------------------------
(***************************************************************************)
(* One client of lab5 and the nodes it talks to: who runs, how far each    *)
(* connection has got, and the messages on it (lab3/network's Message, of  *)
(* the types Value, Timeout, Redirect and Response).                       *)
(*                                                                         *)
(* A command is its sequence number.  TCP keeps the order of one           *)
(* connection; the client handler reads values and timeouts from a channel *)
(* each, so toNode has one queue for either.                               *)
(***************************************************************************)
EXTENDS Integers, Sequences, FiniteSets

CONSTANTS
  NumNodes,     \* len(netConf.Nodes)
  MaxCommands   \* bound: commands the user enters in a run

VARIABLES
  up,        \* nodes that run
  links,     \* the connection with each node, see Stages
  toNode,    \* what the client sent to each node and its handler has not taken
  toClient   \* what each node sent and the client has not read

ASSUME NodesAssumption == NumNodes \in Nat \ {0} /\ MaxCommands \in Nat

\* The client steps from one node to the next by subtracting one: it takes the
\* ids to be those of netConf.json.
Nodes == 0..(NumNodes - 1)

NoLeader == -1

\* dialing; accepted by the node; Getinfo sent; ClientInfo sent; registered.
Stages == {"dialing", "accepted", "asked", "told", "known"}

Commands == 1..MaxCommands

Redirect == [type: {"Redirect"}, node: Nodes \cup {NoLeader}, seq: Commands]
Response == [type: {"Response"}, seq: Commands]

linkVars == <<up, links, toNode, toClient>>

LinksInit ==
  /\ up = Nodes
  /\ links = [n \in Nodes |-> "dialing"]
  /\ toNode = [n \in Nodes |-> [Value |-> <<>>, Timeout |-> <<>>]]
  /\ toClient = [n \in Nodes |-> <<>>]

Advance(n, from, to) ==
  /\ links[n] = from
  /\ links' = [links EXCEPT ![n] = to]
=============================================================================
