--------------------------- MODULE ClientService ----------------------------
(***************************************************************************)
(* A client, the client handlers of all nodes, and what stands behind      *)
(* them: proposers and acceptors, taken here to be a log on which the nodes*)
(* agree (MultiPaxos says how), and bank handlers, which execute it in     *)
(* order (BankDelivery) and answer every command they execute.             *)
(***************************************************************************)
EXTENDS Client, ClientHandler

CONSTANTS
  MaxLeaderChanges,  \* bound: suspicions, false ones included
  MaxCrashes,        \* bound: crashes that are not the client handler's own
  MaxLosses,         \* bound: values never decided, and messages lost
  MaxFaults,         \* bound: these three together
  MaxMoves,          \* bound: suspicions and timeouts together
  MaxSends           \* bound: how often a command is sent

VARIABLES
  log,       \* the commands decided, in slot order, no-ops left out
  applied,   \* how many of them each node's bank handler has executed
  sends,     \* how often the client sent each command
  changes, crashes, losses

serviceVars == <<log, applied, sends, changes, crashes, losses>>
vars == <<linkVars, clientVars, handlerVars, serviceVars>>

ASSUME ServiceAssumption ==
  {MaxLeaderChanges, MaxCrashes, MaxLosses, MaxFaults, MaxMoves, MaxSends} \subseteq Nat

Init ==
  /\ LinksInit
  /\ ClientInit
  /\ HandlerInit
  /\ log = <<>>
  /\ applied = [n \in Nodes |-> 0]
  /\ sends = [c \in Commands |-> 0]
  /\ changes = 0 /\ crashes = 0 /\ losses = 0

\* Every message that the client's main loop gets to a node is counted.
Counted(A) ==
  /\ A
  /\ sends' = [c \in Commands |-> sends[c] +
       IF toNode' # toNode /\ Head(sendChan).seq = c THEN 1 ELSE 0]
  /\ \A c \in Commands : sends'[c] <= MaxSends
  /\ changes + timeouts' <= MaxMoves
  /\ UNCHANGED <<handlerVars, log, applied, changes, crashes, losses>>

Handler(n) == HandlerStep(n) /\ UNCHANGED <<clientVars, serviceVars>>

\* A value the leader proposed, or that reached acceptors before its proposer
\* lost the lead or crashed, is decided.
Decide(n) ==
  /\ requestsIn[n] # <<>>
  /\ log' = Append(log, Head(requestsIn[n]))
  /\ requestsIn' = [requestsIn EXCEPT ![n] = Tail(@)]
  /\ UNCHANGED <<linkVars, clientVars, published, handlerRead, proposerRead, clientValues,
                 applied, sends, changes, crashes, losses>>

FaultLeft == changes + crashes + losses < MaxFaults

\* Or it is not: its proposer crashed or was overtaken, or phase one was
\* completed again (README, finding 1).
Lose(n) ==
  /\ losses < MaxLosses /\ FaultLeft
  /\ losses' = losses + 1
  /\ requestsIn[n] # <<>>
  /\ requestsIn' = [requestsIn EXCEPT ![n] = Tail(@)]
  /\ UNCHANGED <<linkVars, clientVars, published, handlerRead, proposerRead, clientValues,
                 log, applied, sends, changes, crashes>>

\* Client and node take what one Read returns for one message: messages read
\* together, or one read in parts, are lost, here one by one.
LoseMessage(n) ==
  /\ losses < MaxLosses /\ FaultLeft
  /\ losses' = losses + 1
  /\ \/ /\ toClient[n] # <<>>
        /\ toClient' = [toClient EXCEPT ![n] = Tail(@)]
        /\ UNCHANGED toNode
     \/ /\ \E kind \in {"Value", "Timeout"} :
             /\ toNode[n][kind] # <<>>
             /\ toNode' = [toNode EXCEPT ![n][kind] = Tail(@)]
        /\ UNCHANGED toClient
  /\ UNCHANGED <<up, links, clientVars, handlerVars, log, applied, sends, changes, crashes>>

\* The bank handler executes the next command and main.go hands its response to
\* the client handler, on every node.
Execute(n) ==
  /\ n \in up
  /\ applied[n] < Len(log)
  /\ applied' = [applied EXCEPT ![n] = @ + 1]
  /\ SendResToCli(n, log[applied[n] + 1])
  /\ UNCHANGED <<up, links, toNode, clientVars, handlerVars, log, sends,
                 changes, crashes, losses>>

Publish(n, id) ==
  /\ n \in up
  /\ id # published[n][Len(published[n])]
  /\ published' = [published EXCEPT ![n] = Append(@, id)]
  /\ UNCHANGED <<linkVars, clientVars, handlerRead, proposerRead, clientValues,
                 requestsIn, log, applied, sends, crashes, losses>>

\* No node is the leader if all are suspected.
Suspicion(n) ==
  /\ changes < MaxLeaderChanges /\ FaultLeft
  /\ changes + timeouts < MaxMoves
  /\ changes' = changes + 1
  /\ \E id \in Nodes \cup {NoLeader} : Publish(n, id)

\* What the failure detector comes to: the highest node that runs.
Settle(n) ==
  /\ \E id \in up : (\A m \in up : m <= id) /\ Publish(n, id)
  /\ UNCHANGED changes

\* Not before the client has dialled: a client whose first dial fails panics.
Crash(n) ==
  /\ crashes < MaxCrashes /\ FaultLeft
  /\ crashes' = crashes + 1
  /\ n \in up
  /\ links[n] # "dialing"
  /\ up' = up \ {n}
  /\ UNCHANGED <<links, toNode, toClient, clientVars, handlerVars, log, applied,
                 sends, changes, losses>>

Next ==
  \/ Counted(ClientStep)
  \/ \E n \in Nodes : \/ Handler(n)
                      \/ Decide(n)
                      \/ Lose(n)
                      \/ LoseMessage(n)
                      \/ Execute(n)
                      \/ Suspicion(n)
                      \/ Settle(n)
                      \/ Crash(n)

Spec == Init /\ [][Next]_vars

\* Goroutines of running processes run, connections deliver, a value the leader
\* has is decided, and the failure detector settles.  The user may stop typing.
Fairness ==
  /\ WF_vars(Counted(SendCommand \/ ArmTimer))
  /\ WF_vars(Counted(SendMessage))
  /\ WF_vars(Counted(HandleTimeout))
  /\ WF_vars(Counted(Proceed))
  /\ \A n \in Nodes :
       /\ WF_vars(Counted(Connect(n)))
       /\ WF_vars(Counted(MainLoop(n)))
       /\ WF_vars(Handler(n))
       /\ WF_vars(Decide(n))
       /\ WF_vars(Execute(n))
       /\ WF_vars(Settle(n))

FairSpec == Spec /\ Fairness

\* The benchmark's input never stops.
BenchmarkSpec == FairSpec /\ WF_vars(Counted(EnterCommand))

=============================================================================
