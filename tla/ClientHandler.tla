--------------------------- MODULE ClientHandler ----------------------------
(***************************************************************************)
(* lab5/clienthandler2 on every node, between the client, the node's       *)
(* proposer and its bank handler.  Handler and proposer each keep a copy   *)
(* of the leader, fed by a channel of its own from the leader detector.    *)
(***************************************************************************)
EXTENDS ClientDefs

VARIABLES
  published,      \* leaders the node's detector published, in order
  handlerRead,    \* how many of them the client handler has received
  proposerRead,   \* how many the proposer has
  clientValues,   \* values on the channel from the handler to the proposer
  requestsIn      \* values the proposer took in and did not propose yet

handlerVars == <<published, handlerRead, proposerRead, clientValues, requestsIn>>

HandlerInit ==
  /\ published = [n \in Nodes |-> <<NumNodes - 1>>]
  /\ handlerRead = [n \in Nodes |-> 1]
  /\ proposerRead = [n \in Nodes |-> 1]
  /\ clientValues = [n \in Nodes |-> <<>>]
  /\ requestsIn = [n \in Nodes |-> <<>>]

HandlerLeader(n) == published[n][handlerRead[n]]
ProposerLeader(n) == published[n][proposerRead[n]]

DeliverClientValue(n, seq) ==
  clientValues' = [clientValues EXCEPT ![n] = Append(@, seq)]

Take(n, kind) ==
  /\ n \in up
  /\ toNode[n][kind] # <<>>
  /\ toNode' = [toNode EXCEPT ![n][kind] = Tail(@)]

\* ClientInfoMap has no entry for a client that is not registered, and the
\* write on its nil connection panics: the node goes down.
RedirectClient(n, seq) ==
  \/ /\ links[n] = "known"
     /\ toClient' = [toClient EXCEPT ![n] =
          Append(@, [type |-> "Redirect", node |-> HandlerLeader(n), seq |-> seq])]
     /\ UNCHANGED up
  \/ /\ links[n] # "known"
     /\ up' = up \ {n}
     /\ UNCHANGED toClient

\* GetClientInfo, when the connection reaches the handler.
GetClientInfo(n) ==
  /\ n \in up
  /\ Advance(n, "accepted", "asked")
  /\ UNCHANGED <<up, toNode, toClient, handlerVars>>

\* DeliverClientInfo, run by the node's main loop.
RegisterClient(n) ==
  /\ n \in up
  /\ Advance(n, "told", "known")
  /\ UNCHANGED <<up, toNode, toClient, handlerVars>>

\* Mutant of HandleClientValue: the value stays in the channel.
HandleClientValueTwice(n) ==
  /\ n \in up
  /\ toNode[n].Value # <<>>
  /\ DeliverClientValue(n, Head(toNode[n].Value))
  /\ UNCHANGED <<linkVars, published, handlerRead, proposerRead, requestsIn>>

\* A value is redirected if this node is not the leader, and in any case handed
\* to the proposer, whose copy of the leader decides.
HandleClientValue(n) ==
  /\ Take(n, "Value")
  /\ LET seq == Head(toNode[n].Value)
     IN  \/ /\ HandlerLeader(n) = n
            /\ DeliverClientValue(n, seq)
            /\ UNCHANGED <<up, toClient>>
         \/ /\ HandlerLeader(n) # n
            /\ RedirectClient(n, seq)
            /\ IF links[n] = "known" THEN DeliverClientValue(n, seq)
                                    ELSE UNCHANGED clientValues
  /\ UNCHANGED <<links, published, handlerRead, proposerRead, requestsIn>>


HandleClientTimeout(n) ==
  /\ Take(n, "Timeout")
  /\ LET seq == Head(toNode[n].Timeout)
     IN  \/ /\ HandlerLeader(n) = n
            /\ DeliverClientValue(n, seq)
            /\ UNCHANGED <<up, toClient>>
         \/ /\ HandlerLeader(n) # n
            /\ RedirectClient(n, seq)
            /\ UNCHANGED clientValues
  /\ UNCHANGED <<links, published, handlerRead, proposerRead, requestsIn>>

\* SendResToCli: a response for a client that is not registered is dropped.
SendResToCli(n, seq) ==
  toClient' = IF links[n] = "known"
                THEN [toClient EXCEPT ![n] = Append(@, [type |-> "Response", seq |-> seq])]
                ELSE toClient

HandleNewLeader(n) ==
  /\ n \in up
  /\ handlerRead[n] < Len(published[n])
  /\ handlerRead' = [handlerRead EXCEPT ![n] = @ + 1]
  /\ UNCHANGED <<linkVars, published, proposerRead, clientValues, requestsIn>>

ProposerNewLeader(n) ==
  /\ n \in up
  /\ proposerRead[n] < Len(published[n])
  /\ proposerRead' = [proposerRead EXCEPT ![n] = @ + 1]
  /\ UNCHANGED <<linkVars, published, handlerRead, clientValues, requestsIn>>

\* The proposer's loop, case cVal: unless it leads, the value is dropped.
TakeClientValue(n) ==
  /\ n \in up
  /\ clientValues[n] # <<>>
  /\ clientValues' = [clientValues EXCEPT ![n] = Tail(@)]
  /\ requestsIn' = IF ProposerLeader(n) = n
                     THEN [requestsIn EXCEPT ![n] = Append(@, Head(clientValues[n]))]
                     ELSE requestsIn
  /\ UNCHANGED <<linkVars, published, handlerRead, proposerRead>>

HandlerStep(n) ==
  \/ GetClientInfo(n)
  \/ RegisterClient(n)
  \/ HandleClientValue(n)
  \/ HandleClientTimeout(n)
  \/ HandleNewLeader(n)
  \/ ProposerNewLeader(n)
  \/ TakeClientValue(n)
=============================================================================
