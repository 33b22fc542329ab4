-------------------------- MODULE ClientOrderProof --------------------------
(***************************************************************************)
(* The client moves past at most one of two commands in a row without its  *)
(* being executed, and commands multiply only by being sent again, for any *)
(* number of nodes, commands, resends, crashes, suspicions and losses.     *)
(***************************************************************************)
EXTENDS ClientInvariant, SequenceTheorems, FiniteSetTheorems, TLAPS

-----------------------------------------------------------------------------
(* Queues *)

\* What is taken from a queue was in it, and the rest stays in order.
LEMMA Taken ==
  ASSUME NEW S, NEW q \in Seq(S), q # <<>>
  PROVE  /\ Head(q) \in S /\ Head(q) = q[1] /\ 1 \in DOMAIN q
         /\ Tail(q) \in Seq(S)
         /\ \A i \in DOMAIN Tail(q) : i + 1 \in DOMAIN q /\ Tail(q)[i] = q[i + 1]
<1>1. /\ Len(q) \in Nat /\ Len(q) # 0
      /\ DOMAIN q = 1..Len(q)
  BY EmptySeq, LenProperties
<1>2. /\ Head(q) \in S /\ Tail(q) \in Seq(S)
      /\ Len(Tail(q)) = Len(q) - 1
      /\ \A i \in 1..Len(Tail(q)) : Tail(q)[i] = q[i + 1]
  BY HeadTailProperties
<1>3. DOMAIN Tail(q) = 1..Len(Tail(q))
  BY <1>2, LenProperties
<1> QED BY <1>1, <1>2, <1>3

\* What is put in a queue comes last.
LEMMA Put ==
  ASSUME NEW S, NEW q \in Seq(S), NEW x \in S
  PROVE  /\ Append(q, x) \in Seq(S)
         /\ DOMAIN Append(q, x) = DOMAIN q \cup {Len(q) + 1}
         /\ Append(q, x)[Len(q) + 1] = x
         /\ \A i \in DOMAIN q : Append(q, x)[i] = q[i] /\ i <= Len(q)
<1>1. Len(q) \in Nat /\ DOMAIN q = 1..Len(q)
  BY LenProperties
<1>2. /\ Append(q, x) \in Seq(S)
      /\ Len(Append(q, x)) = Len(q) + 1
      /\ \A i \in 1..Len(q) : Append(q, x)[i] = q[i]
      /\ Append(q, x)[Len(q) + 1] = x
  BY AppendProperties
<1>3. DOMAIN Append(q, x) = 1..Len(Append(q, x))
  BY <1>2, LenProperties
<1> QED BY <1>1, <1>2, <1>3

\* The elements of a queue lie in T.
In(T, q) == \A i \in DOMAIN q : q[i] \in T

LEMMA InTaken ==
  ASSUME NEW q \in Seq(Commands), q # <<>>, NEW T, In(T, q)
  PROVE  /\ Head(q) \in Commands /\ Head(q) \in T
         /\ Tail(q) \in Seq(Commands) /\ In(T, Tail(q))
BY Taken DEF In

LEMMA InPut ==
  ASSUME NEW q \in Seq(Commands), NEW T, In(T, q), NEW c \in Commands, c \in T
  PROVE  Append(q, c) \in Seq(Commands) /\ In(T, Append(q, c))
BY Put DEF In

LEMMA InMore ==
  ASSUME NEW q, NEW T, NEW U, T \subseteq U, In(T, q)
  PROVE  In(U, q)
BY DEF In

\* The two queues of a connection are changed one at a time.
LEMMA ToNode ==
  ASSUME NEW old \in [Nodes -> [Value : Seq(Commands), Timeout : Seq(Commands)]],
         NEW c \in Nodes, NEW kind \in {"Value", "Timeout"}, NEW q \in Seq(Commands)
  PROVE  LET new == [old EXCEPT ![c][kind] = q]
         IN  /\ new \in [Nodes -> [Value : Seq(Commands), Timeout : Seq(Commands)]]
             /\ new[c][kind] = q
             /\ \A n \in Nodes, k \in {"Value", "Timeout"} :
                  n # c \/ k # kind => new[n][k] = old[n][k]
<1>1. CASE kind = "Value"
  BY <1>1
<1>2. CASE kind = "Timeout"
  BY <1>2
<1> QED BY <1>1, <1>2
-----------------------------------------------------------------------------
(* Types *)

\* ClientTypeOK in four parts: connections, client, handlers, the rest.
LinksType ==
  /\ up \subseteq Nodes
  /\ links \in [Nodes -> Stages]
  /\ toNode \in [Nodes -> [Value : Seq(Commands), Timeout : Seq(Commands)]]
  /\ toClient \in [Nodes -> Seq(Redirect \cup Response)]

ClientType ==
  /\ seqNum \in 0..MaxCommands /\ reqSeq \in 0..seqNum
  /\ responseOK \in BOOLEAN
  /\ currentConn \in Nodes /\ connTable \subseteq Nodes
  /\ sendChan \in Seq([type : {"Value", "Timeout"}, seq : Commands])
  /\ responseTimer \in Tickers /\ selected \in Tickers \cup {"current"}
  /\ input \in {"idle", "send", "arm"} /\ next \in 0..seqNum
  /\ mainLoop \in LoopSteps /\ val \in 0..seqNum
  /\ timeouts \in Nat

HandlerType ==
  /\ published \in [Nodes -> Seq(Nodes \cup {NoLeader})]
  /\ handlerRead \in [Nodes -> Nat] /\ proposerRead \in [Nodes -> Nat]
  /\ \A n \in Nodes : {handlerRead[n], proposerRead[n]} \subseteq 1..Len(published[n])
  /\ clientValues \in [Nodes -> Seq(Commands)]
  /\ requestsIn \in [Nodes -> Seq(Commands)]

ServiceType ==
  /\ log \in Seq(Commands)
  /\ applied \in [Nodes -> 0..Len(log)]
  /\ sends \in [Commands -> Nat]
  /\ {changes, crashes, losses} \subseteq Nat

LEMMA TypeParts ==
  ClientTypeOK <=> LinksType /\ ClientType /\ HandlerType /\ ServiceType
BY DEF ClientTypeOK, LinksType, ClientType, HandlerType, ServiceType

\* Every node has an id, the client starts at the first.
LEMMA NodesType ==
  /\ 0 \in Nodes /\ NumNodes - 1 \in Nodes /\ Nodes \subseteq Nat
  /\ Commands \subseteq Nat \ {0}
  /\ MaxCommands \in Nat
BY NodesAssumption DEF Nodes, Commands

LEMMA InitInv ==
  ASSUME Init
  PROVE  ClientTypeOK /\ OrderInv /\ AtMostOneSkipped
<1> USE DEF Init, LinksInit, ClientInit, HandlerInit
<1>1. ClientTypeOK
  <2>1. /\ up \subseteq Nodes
        /\ links \in [Nodes -> Stages]
        /\ toNode \in [Nodes -> [Value : Seq(Commands), Timeout : Seq(Commands)]]
        /\ toClient \in [Nodes -> Seq(Redirect \cup Response)]
    BY EmptySeq DEF Stages
  <2>2. /\ published \in [Nodes -> Seq(Nodes \cup {NoLeader})]
        /\ \A n \in Nodes : Len(published[n]) = 1
    <3>1. <<NumNodes - 1>> \in Seq(Nodes \cup {NoLeader}) /\ Len(<<NumNodes - 1>>) = 1
      BY NodesType
    <3> QED BY <3>1
  <2>3. /\ clientValues \in [Nodes -> Seq(Commands)]
        /\ requestsIn \in [Nodes -> Seq(Commands)]
        /\ log \in Seq(Commands) /\ Len(log) = 0
        /\ sendChan \in Seq([type : {"Value", "Timeout"}, seq : Commands])
    BY EmptySeq
  <2> QED BY <2>1, <2>2, <2>3, NodesType DEF ClientTypeOK, Tickers, LoopSteps
<1>2. OrderInv
  BY EmptySeq DEF OrderInv, NothingNewer, AllSent, ResponsesTrue, InputInv, MainLoopInv,
                  TickersInv
<1>3. AtMostOneSkipped
  <2>1. 1..(0 - 2) = {} /\ 1..(0 + 1 - 2) = {}
    OBVIOUS
  <2> QED BY <2>1, EmptySeq DEF AtMostOneSkipped, Past
<1> QED BY <1>1, <1>2, <1>3

LEMMA ReadType ==
  ASSUME LinksType, NEW n \in Nodes, NEW m, Read(n, m)
  PROVE  /\ toClient' \in [Nodes -> Seq(Redirect \cup Response)]
         /\ m \in Redirect \cup Response
         /\ toClient[n] # <<>> /\ m = Head(toClient[n])
         /\ toClient' = [toClient EXCEPT ![n] = Tail(toClient[n])]
BY Taken DEF LinksType, Read

LEMMA SwitchType ==
  ASSUME LinksType, ClientType, NEW n, SwitchTo(n)
  PROVE  currentConn' \in Nodes /\ connTable' \subseteq Nodes
BY DEF LinksType, ClientType, SwitchTo

\* What syncTxRx puts on the send channel.
LEMMA SendChanType ==
  ASSUME ClientType, NEW kind \in {"Value", "Timeout"}, NEW c \in 1..seqNum,
         sendChan' = Append(sendChan, [type |-> kind, seq |-> c])
  PROVE  sendChan' \in Seq([type : {"Value", "Timeout"}, seq : Commands])
<1>1. [type |-> kind, seq |-> c] \in [type : {"Value", "Timeout"}, seq : Commands]
  BY NodesType DEF ClientType, Commands
<1> QED BY <1>1, Put DEF ClientType

LEMMA ClientStepType ==
  ASSUME LinksType, ClientType, OrderInv, ClientStep
  PROVE  LinksType' /\ ClientType'
<1> USE NodesType
<1>1. CASE EnterCommand
  <2>1. /\ UNCHANGED <<up, links, toNode, toClient, reqSeq, responseOK, currentConn, connTable,
                        sendChan, responseTimer, selected, mainLoop, val, timeouts>>
        /\ seqNum' = seqNum + 1 /\ seqNum < MaxCommands
        /\ input' \in {"send", input} /\ next' \in {reqSeq + 1, next}
    BY <1>1, Zenon DEF EnterCommand, inputToValue, linkVars
  <2>2. /\ seqNum' \in 0..MaxCommands /\ reqSeq' \in 0..seqNum'
        /\ next' \in 0..seqNum' /\ val' \in 0..seqNum'
    BY <2>1 DEF ClientType
  <2>3. LinksType'
    BY <2>1 DEF LinksType
  <2>4. input' \in {"idle", "send", "arm"}
    BY <2>1 DEF ClientType
  <2> QED BY <2>1, <2>2, <2>3, <2>4, Zenon DEF ClientType
<1>2. CASE SendCommand
  <2>1. next \in 1..seqNum
    BY <1>2 DEF SendCommand, OrderInv, InputInv, ClientType
  <2>2. sendChan' = Append(sendChan, [type |-> "Value", seq |-> next])
    BY <1>2, Zenon DEF SendCommand
  <2>3. sendChan' \in Seq([type : {"Value", "Timeout"}, seq : Commands])
    BY <2>1, <2>2, SendChanType
  <2>4. responseOK' \in BOOLEAN
    BY <1>2, Zenon DEF SendCommand
  <2>5. /\ UNCHANGED <<up, links, toNode, toClient, seqNum, currentConn, connTable,
                        responseTimer, selected, mainLoop, val, timeouts>>
        /\ reqSeq' = next /\ input' = "arm" /\ next' = 0
    BY <1>2, Zenon DEF SendCommand, linkVars
  <2>6. LinksType'
    BY <2>5 DEF LinksType
  <2>7. reqSeq' \in 0..seqNum' /\ next' \in 0..seqNum'
    BY <2>1, <2>5 DEF ClientType
  <2> QED BY <2>3, <2>4, <2>5, <2>6, <2>7, Zenon DEF ClientType
<1>3. CASE ArmTimer
  BY <1>3 DEF ArmTimer, linkVars, LinksType, ClientType, Tickers
<1>4. CASE Resend
  <2>1. val \in 1..seqNum /\ mainLoop \in {"Value", "Timeout"}
    BY <1>4 DEF Resend, OrderInv, MainLoopInv, ClientType
  <2>2. sendChan' = Append(sendChan, [type |-> mainLoop, seq |-> val])
    BY <1>4, Zenon DEF Resend
  <2>3. sendChan' \in Seq([type : {"Value", "Timeout"}, seq : Commands])
    BY <2>1, <2>2, SendChanType
  <2>4. responseOK' \in BOOLEAN
    BY <1>4, Zenon DEF Resend
  <2>5. /\ UNCHANGED <<up, links, toNode, toClient, seqNum, currentConn, connTable,
                        selected, input, next, timeouts>>
        /\ reqSeq' = val /\ responseTimer' = "running" /\ mainLoop' = "select" /\ val' = 0
    BY <1>4, Zenon DEF Resend, linkVars
  <2>6. LinksType'
    BY <2>5 DEF LinksType
  <2>7. /\ reqSeq' \in 0..seqNum' /\ val' \in 0..seqNum'
        /\ mainLoop' \in LoopSteps /\ responseTimer' \in Tickers
    BY <2>1, <2>5 DEF ClientType, LoopSteps, Tickers
  <2> QED BY <2>3, <2>4, <2>5, <2>6, <2>7, Zenon DEF ClientType
<1>5. CASE SendMessage
  <2>1. /\ Head(sendChan) \in [type : {"Value", "Timeout"}, seq : Commands]
        /\ sendChan' \in Seq([type : {"Value", "Timeout"}, seq : Commands])
    BY <1>5, Taken DEF SendMessage, ClientType
  <2>2. toNode' \in [Nodes -> [Value : Seq(Commands), Timeout : Seq(Commands)]]
    <3> DEFINE m == Head(sendChan)
               kind == m.type
               q == toNode[currentConn][kind]
               longer == Append(q, m.seq)
    <3>1. kind \in {"Value", "Timeout"} /\ m.seq \in Commands
      BY <2>1
    <3>2. q \in Seq(Commands) /\ currentConn \in Nodes
      BY <3>1 DEF LinksType, ClientType
    <3>3. longer \in Seq(Commands)
      BY <3>1, <3>2, Put
    <3>4. toNode' = toNode \/ toNode' = [toNode EXCEPT ![currentConn][kind] = longer]
      BY <1>5 DEF SendMessage
    <3>5. [toNode EXCEPT ![currentConn][kind] = longer]
            \in [Nodes -> [Value : Seq(Commands), Timeout : Seq(Commands)]]
      <4>1. toNode \in [Nodes -> [Value : Seq(Commands), Timeout : Seq(Commands)]]
        BY DEF LinksType
      <4> HIDE DEF q, kind, m, longer
      <4> QED BY <3>1, <3>2, <3>3, <4>1, ToNode
    <3> QED BY <3>4, <3>5, Zenon DEF LinksType
  <2> QED BY <1>5, <2>1, <2>2 DEF SendMessage, LinksType, ClientType
<1>6. CASE HandleTimeout
  <2>1. NextNode \in Nodes
    BY DEF NextNode, ClientType, Nodes
  <2>2. /\ UNCHANGED <<up, links, toNode, toClient, seqNum, reqSeq, responseOK, connTable,
                        sendChan, input, next>>
        /\ timeouts' = timeouts + 1 /\ currentConn' = NextNode /\ selected' = "current"
        /\ mainLoop' = "timedOut" /\ val' = reqSeq
        /\ responseTimer' \in {"stopped", responseTimer}
    BY <1>6, Zenon DEF HandleTimeout, linkVars
  <2>3. LinksType'
    BY <2>2 DEF LinksType
  <2>4. /\ timeouts' \in Nat /\ mainLoop' \in LoopSteps /\ val' \in 0..seqNum'
        /\ responseTimer' \in Tickers
    BY <2>2 DEF ClientType, LoopSteps, Tickers
  <2> QED BY <2>1, <2>2, <2>3, <2>4, Zenon DEF ClientType
<1>7. CASE SetResponseOK
  BY <1>7 DEF SetResponseOK, linkVars, LinksType, ClientType, LoopSteps
<1>8. CASE CompareTimeout
  <2>1. /\ UNCHANGED <<up, links, toNode, toClient, seqNum, reqSeq, responseOK, currentConn,
                        connTable, sendChan, responseTimer, selected, input, next, timeouts>>
        /\ mainLoop' \in {"Timeout", "select"} /\ val' \in {val, 0}
    BY <1>8, Zenon DEF CompareTimeout, linkVars
  <2>2. LinksType'
    BY <2>1 DEF LinksType
  <2>3. mainLoop' \in LoopSteps /\ val' \in 0..seqNum'
    BY <2>1 DEF ClientType, LoopSteps
  <2> QED BY <2>1, <2>2, <2>3, Zenon DEF ClientType
<1>9. ASSUME NEW n \in Nodes, Connect(n) PROVE LinksType' /\ ClientType'
  BY <1>9 DEF Connect, Advance, LinksType, ClientType, Stages
<1>10. ASSUME NEW n \in Nodes, HandleRedirect(n) PROVE LinksType' /\ ClientType'
  <2>1. PICK m \in Redirect :
          /\ Read(n, m)
          /\ SwitchTo(m.node)
          /\ \/ m.seq = reqSeq /\ mainLoop' = "Value" /\ val' = m.seq
             \/ m.seq # reqSeq /\ UNCHANGED <<mainLoop, val>>
          /\ UNCHANGED <<up, links, toNode, seqNum, reqSeq, responseOK, sendChan,
                         responseTimer, input, next, timeouts>>
    BY <1>10, Zenon DEF HandleRedirect
  <2>2. mainLoop' \in LoopSteps /\ val' \in 0..seqNum
    BY <2>1 DEF ClientType, LoopSteps
  <2>3. selected' = "current"
    BY <2>1 DEF Read
  <2> QED BY <2>1, <2>2, <2>3, ReadType, SwitchType DEF LinksType, ClientType
<1>11. ASSUME NEW n \in Nodes, HandleResponse(n) PROVE LinksType' /\ ClientType'
  <2>1. PICK m \in Response :
          /\ Read(n, m)
          /\ responseTimer' \in IF responseTimer = "running" THEN {"stopped", "ticked"}
                                                            ELSE {responseTimer}
          /\ mainLoop' \in {"answered", mainLoop}
          /\ UNCHANGED <<up, links, toNode, seqNum, reqSeq, responseOK, currentConn,
                         connTable, sendChan, input, next, val, timeouts>>
    BY <1>11 DEF HandleResponse
  <2>2. mainLoop' \in LoopSteps /\ responseTimer' \in Tickers
    BY <2>1 DEF ClientType, LoopSteps, Tickers
  <2>3. selected' = "current"
    BY <2>1 DEF Read
  <2> QED BY <2>1, <2>2, <2>3, ReadType DEF LinksType, ClientType
<1>12. ASSUME NEW n \in Nodes, DeliverClientInfo(n) PROVE LinksType' /\ ClientType'
  BY <1>12 DEF DeliverClientInfo, Advance, LinksType, ClientType, Stages
<1> QED BY <1>1, <1>2, <1>3, <1>4, <1>5, <1>6, <1>7, <1>8, <1>9, <1>10, <1>11, <1>12
        DEF ClientStep, MainLoop, Proceed

\* What a node sends the client joins the queue of their connection.
LEMMA SendType ==
  ASSUME LinksType, NEW n \in Nodes, NEW m \in Redirect \cup Response
  PROVE  [toClient EXCEPT ![n] = Append(@, m)] \in [Nodes -> Seq(Redirect \cup Response)]
BY Put DEF LinksType

LEMMA RedirectType ==
  ASSUME LinksType, HandlerType, NEW n \in Nodes, NEW seq \in Commands,
         RedirectClient(n, seq)
  PROVE  up' \subseteq Nodes /\ toClient' \in [Nodes -> Seq(Redirect \cup Response)]
<1> DEFINE m == [type |-> "Redirect", node |-> HandlerLeader(n), seq |-> seq]
<1>1. HandlerLeader(n) \in Nodes \cup {NoLeader}
  BY ElementOfSeq DEF HandlerLeader, HandlerType
<1>2. m \in Redirect
  BY <1>1 DEF Redirect
<1>3. \/ up' = up /\ toClient' = [toClient EXCEPT ![n] = Append(@, m)]
      \/ up' = up \ {n} /\ toClient' = toClient
  BY DEF RedirectClient
<1>4. [toClient EXCEPT ![n] = Append(@, m)] \in [Nodes -> Seq(Redirect \cup Response)]
  <2> HIDE DEF m
  <2> QED BY <1>2, SendType
<1> HIDE DEF m
<1> QED BY <1>3, <1>4 DEF LinksType

\* A message to a node is taken by its handler, or lost.
Leaves(n, kind) ==
  /\ toNode[n][kind] # <<>>
  /\ toNode' = [toNode EXCEPT ![n][kind] = Tail(@)]

\* What leaves a queue, and what is left there.
LEMMA TakeType ==
  ASSUME LinksType, NEW n \in Nodes, NEW kind \in {"Value", "Timeout"}, Leaves(n, kind)
  PROVE  /\ toNode' \in [Nodes -> [Value : Seq(Commands), Timeout : Seq(Commands)]]
         /\ toNode[n][kind] \in Seq(Commands) /\ toNode[n][kind] # <<>>
         /\ Head(toNode[n][kind]) \in Commands
         /\ toNode'[n][kind] = Tail(toNode[n][kind])
         /\ \A m \in Nodes, k \in {"Value", "Timeout"} :
              m # n \/ k # kind => toNode'[m][k] = toNode[m][k]
<1> DEFINE q == toNode[n][kind]
           rest == Tail(q)
<1>1. q \in Seq(Commands) /\ q # <<>>
  BY DEF LinksType, Leaves
<1>2. Head(q) \in Commands /\ rest \in Seq(Commands)
  BY <1>1, Taken
<1>3. toNode' = [toNode EXCEPT ![n][kind] = rest]
  BY DEF Leaves
<1>4. /\ toNode' \in [Nodes -> [Value : Seq(Commands), Timeout : Seq(Commands)]]
      /\ toNode'[n][kind] = rest
      /\ \A m \in Nodes, k \in {"Value", "Timeout"} :
           m # n \/ k # kind => toNode'[m][k] = toNode[m][k]
  <2> HIDE DEF rest
  <2> QED BY <1>2, <1>3, ToNode DEF LinksType
<1> QED BY <1>1, <1>2, <1>4

LEMMA DeliverType ==
  ASSUME HandlerType, NEW n \in Nodes, NEW seq \in Commands,
         DeliverClientValue(n, seq) \/ UNCHANGED clientValues
  PROVE  clientValues' \in [Nodes -> Seq(Commands)]
<1>1. clientValues[n] \in Seq(Commands) /\ Append(clientValues[n], seq) \in Seq(Commands)
  BY Put DEF HandlerType
<1> QED BY <1>1 DEF HandlerType, DeliverClientValue

LEMMA HandlerStepType ==
  ASSUME LinksType, HandlerType, NEW n \in Nodes, HandlerStep(n)
  PROVE  LinksType' /\ HandlerType'
<1>1. CASE GetClientInfo(n)
  BY <1>1 DEF GetClientInfo, Advance, handlerVars, LinksType, HandlerType, Stages
<1>2. CASE RegisterClient(n)
  BY <1>2 DEF RegisterClient, Advance, handlerVars, LinksType, HandlerType, Stages
<1>3. CASE HandleClientValue(n)
  <2> DEFINE seq == Head(toNode[n].Value)
  <2>1. Leaves(n, "Value")
    BY <1>3 DEF HandleClientValue, Take, Leaves
  <2>2. seq \in Commands /\ toNode' \in [Nodes -> [Value : Seq(Commands), Timeout : Seq(Commands)]]
    BY <2>1, TakeType
  <2>3. /\ RedirectClient(n, seq) \/ UNCHANGED <<up, toClient>>
        /\ DeliverClientValue(n, seq) \/ UNCHANGED clientValues
        /\ UNCHANGED <<links, published, handlerRead, proposerRead, requestsIn>>
    BY <1>3 DEF HandleClientValue
  <2> HIDE DEF seq
  <2> QED BY <2>2, <2>3, RedirectType, DeliverType DEF LinksType, HandlerType
<1>4. CASE HandleClientTimeout(n)
  <2> DEFINE seq == Head(toNode[n].Timeout)
  <2>1. Leaves(n, "Timeout")
    BY <1>4 DEF HandleClientTimeout, Take, Leaves
  <2>2. seq \in Commands /\ toNode' \in [Nodes -> [Value : Seq(Commands), Timeout : Seq(Commands)]]
    BY <2>1, TakeType
  <2>3. /\ RedirectClient(n, seq) \/ UNCHANGED <<up, toClient>>
        /\ DeliverClientValue(n, seq) \/ UNCHANGED clientValues
        /\ UNCHANGED <<links, published, handlerRead, proposerRead, requestsIn>>
    BY <1>4 DEF HandleClientTimeout
  <2> HIDE DEF seq
  <2> QED BY <2>2, <2>3, RedirectType, DeliverType DEF LinksType, HandlerType
<1>5. CASE HandleNewLeader(n)
  <2>1. Len(published[n]) \in Nat /\ handlerRead[n] \in 1..Len(published[n])
    BY LenProperties DEF HandlerType
  <2>2. handlerRead[n] + 1 \in 1..Len(published[n])
    BY <1>5, <2>1 DEF HandleNewLeader
  <2>3. \A m \in Nodes : {handlerRead'[m], proposerRead'[m]} \subseteq 1..Len(published[m])
    BY <1>5, <2>2 DEF HandleNewLeader, HandlerType
  <2>4. handlerRead' \in [Nodes -> Nat]
    <3>1. handlerRead' = [handlerRead EXCEPT ![n] = handlerRead[n] + 1]
      BY <1>5 DEF HandleNewLeader
    <3>2. handlerRead \in [Nodes -> Nat]
      BY DEF HandlerType
    <3>3. handlerRead[n] + 1 \in Nat
      BY <2>1
    <3> QED BY <3>1, <3>2, <3>3
  <2> QED BY <1>5, <2>3, <2>4 DEF HandleNewLeader, linkVars, LinksType, HandlerType
<1>6. CASE ProposerNewLeader(n)
  <2>1. Len(published[n]) \in Nat /\ proposerRead[n] \in 1..Len(published[n])
    BY LenProperties DEF HandlerType
  <2>2. proposerRead[n] + 1 \in 1..Len(published[n])
    BY <1>6, <2>1 DEF ProposerNewLeader
  <2>3. \A m \in Nodes : {handlerRead'[m], proposerRead'[m]} \subseteq 1..Len(published[m])
    BY <1>6, <2>2 DEF ProposerNewLeader, HandlerType
  <2>4. proposerRead' \in [Nodes -> Nat]
    <3>1. proposerRead' = [proposerRead EXCEPT ![n] = proposerRead[n] + 1]
      BY <1>6 DEF ProposerNewLeader
    <3>2. proposerRead \in [Nodes -> Nat]
      BY DEF HandlerType
    <3>3. proposerRead[n] + 1 \in Nat
      BY <2>1
    <3> QED BY <3>1, <3>2, <3>3
  <2> QED BY <1>6, <2>3, <2>4 DEF ProposerNewLeader, linkVars, LinksType, HandlerType
<1>7. CASE TakeClientValue(n)
  <2>1. /\ Head(clientValues[n]) \in Commands
        /\ clientValues' \in [Nodes -> Seq(Commands)]
    BY <1>7, Taken DEF TakeClientValue, HandlerType
  <2>2. requestsIn' \in [Nodes -> Seq(Commands)]
    BY <1>7, <2>1, Put DEF TakeClientValue, HandlerType
  <2> QED BY <1>7, <2>1, <2>2 DEF TakeClientValue, linkVars, LinksType, HandlerType
<1> QED BY <1>1, <1>2, <1>3, <1>4, <1>5, <1>6, <1>7 DEF HandlerStep

LEMMA NextType ==
  ASSUME ClientTypeOK, OrderInv, [Next]_vars
  PROVE  ClientTypeOK'
<1> USE TypeParts
<1>1. CASE UNCHANGED vars
  BY <1>1 DEF vars, linkVars, clientVars, handlerVars, serviceVars, ClientTypeOK
<1>2. CASE Counted(ClientStep)
  <2>1. LinksType' /\ ClientType'
    BY <1>2, ClientStepType DEF Counted
  <2>2. HandlerType'
    BY <1>2 DEF Counted, handlerVars, HandlerType
  <2>3. ServiceType'
    BY <1>2 DEF Counted, ServiceType
  <2> QED BY <2>1, <2>2, <2>3 DEF ClientTypeOK, LinksType, ClientType, HandlerType, ServiceType
<1>3. ASSUME NEW n \in Nodes, Handler(n) PROVE ClientTypeOK'
  <2>1. LinksType' /\ HandlerType'
    BY <1>3, HandlerStepType DEF Handler
  <2>2. ClientType' /\ ServiceType'
    BY <1>3 DEF Handler, clientVars, serviceVars, ClientType, ServiceType
  <2> QED BY <2>1, <2>2 DEF ClientTypeOK, LinksType, ClientType, HandlerType, ServiceType
<1>4. ASSUME NEW n \in Nodes, Decide(n) PROVE ClientTypeOK'
  <2>1. /\ Head(requestsIn[n]) \in Commands
        /\ requestsIn' \in [Nodes -> Seq(Commands)]
    BY <1>4, Taken DEF Decide, HandlerType
  <2>2. log' \in Seq(Commands) /\ Len(log') = Len(log) + 1 /\ Len(log) \in Nat
    BY <1>4, <2>1, AppendProperties, LenProperties DEF Decide, ServiceType
  <2>3. ServiceType'
    BY <1>4, <2>2 DEF Decide, ServiceType
  <2>4. LinksType' /\ ClientType' /\ HandlerType'
    BY <1>4, <2>1 DEF Decide, linkVars, clientVars, LinksType, ClientType, HandlerType
  <2> QED BY <2>3, <2>4 DEF ClientTypeOK, LinksType, ClientType, HandlerType, ServiceType
<1>5. ASSUME NEW n \in Nodes, Lose(n) PROVE ClientTypeOK'
  <2>1. requestsIn' \in [Nodes -> Seq(Commands)]
    BY <1>5, Taken DEF Lose, HandlerType
  <2>2. ServiceType'
    BY <1>5 DEF Lose, ServiceType
  <2>3. LinksType' /\ ClientType' /\ HandlerType'
    BY <1>5, <2>1 DEF Lose, linkVars, clientVars, LinksType, ClientType, HandlerType
  <2> QED BY <2>2, <2>3 DEF ClientTypeOK, LinksType, ClientType, HandlerType, ServiceType
<1>6. ASSUME NEW n \in Nodes, Execute(n) PROVE ClientTypeOK'
  <2>1. applied' \in [Nodes -> 0..Len(log)] /\ log[applied[n] + 1] \in Commands
    BY <1>6, LenProperties, ElementOfSeq DEF Execute, ServiceType
  <2>2. toClient' \in [Nodes -> Seq(Redirect \cup Response)]
    <3>1. [type |-> "Response", seq |-> log[applied[n] + 1]] \in Response
      BY <2>1 DEF Response
    <3> QED BY <1>6, <3>1, SendType DEF Execute, SendResToCli, LinksType
  <2>3. LinksType' /\ ClientType' /\ HandlerType' /\ ServiceType'
    BY <1>6, <2>1, <2>2 DEF Execute, clientVars, handlerVars, LinksType, ClientType,
                            HandlerType, ServiceType
  <2> QED BY <2>3 DEF ClientTypeOK, LinksType, ClientType, HandlerType, ServiceType
<1>7. ASSUME NEW n \in Nodes, Suspicion(n) \/ Settle(n) PROVE ClientTypeOK'
  <2>1. PICK id \in Nodes \cup {NoLeader} : Publish(n, id) /\ changes' \in Nat
    <3>1. CASE Suspicion(n)
      <4>1. changes \in Nat /\ changes' = changes + 1
        BY <3>1 DEF Suspicion, ServiceType
      <4>2. \E id \in Nodes \cup {NoLeader} : Publish(n, id)
        BY <3>1 DEF Suspicion
      <4> QED BY <4>1, <4>2
    <3>2. CASE Settle(n)
      <4>1. up \subseteq Nodes /\ changes' \in Nat
        BY <3>2 DEF Settle, LinksType, ServiceType
      <4>2. \E id \in up : Publish(n, id)
        BY <3>2 DEF Settle
      <4> QED BY <4>1, <4>2, Zenon
    <3> QED BY <1>7, <3>1, <3>2
  <2>2. HandlerType'
    <3>1. published[n] \in Seq(Nodes \cup {NoLeader})
      BY DEF HandlerType
    <3>2. /\ Append(published[n], id) \in Seq(Nodes \cup {NoLeader})
          /\ Len(Append(published[n], id)) = Len(published[n]) + 1
          /\ Len(published[n]) \in Nat
      BY <3>1, AppendProperties, LenProperties
    <3>3. /\ published' \in [Nodes -> Seq(Nodes \cup {NoLeader})]
          /\ Len(published'[n]) = Len(published[n]) + 1
          /\ \A m \in Nodes : m # n => published'[m] = published[m]
      BY <2>1, <3>2 DEF Publish, HandlerType
    <3>4. UNCHANGED <<handlerRead, proposerRead, clientValues, requestsIn>>
      BY <2>1 DEF Publish
    <3>5. ASSUME NEW m \in Nodes
          PROVE  1..Len(published[m]) \subseteq 1..Len(published'[m])
      <4>1. CASE m = n
        BY <3>2, <3>3, <4>1
      <4>2. CASE m # n
        BY <3>3, <4>2
      <4> QED BY <4>1, <4>2
    <3> QED BY <3>3, <3>4, <3>5 DEF HandlerType
  <2>3. LinksType' /\ ClientType' /\ ServiceType'
    BY <2>1 DEF Publish, linkVars, clientVars, LinksType, ClientType, ServiceType
  <2> QED BY <2>2, <2>3 DEF ClientTypeOK, LinksType, ClientType, HandlerType, ServiceType
<1>8. ASSUME NEW n \in Nodes, Crash(n) PROVE ClientTypeOK'
  <2>1. LinksType'
    BY <1>8 DEF Crash, LinksType
  <2>2. ClientType' /\ HandlerType'
    BY <1>8 DEF Crash, clientVars, handlerVars, ClientType, HandlerType
  <2>3. ServiceType'
    BY <1>8 DEF Crash, ServiceType
  <2> QED BY <2>1, <2>2, <2>3 DEF ClientTypeOK, LinksType, ClientType, HandlerType, ServiceType
<1>9. ASSUME NEW n \in Nodes, LoseMessage(n) PROVE ClientTypeOK'
  <2>1. LinksType'
    <3>1. UNCHANGED <<up, links>>
      BY <1>9 DEF LoseMessage
    <3>2. CASE toClient[n] # <<>> /\ toClient' = [toClient EXCEPT ![n] = Tail(@)] /\ UNCHANGED toNode
      <4>1. Tail(toClient[n]) \in Seq(Redirect \cup Response)
        BY <3>2, Taken DEF LinksType
      <4> QED BY <3>1, <3>2, <4>1 DEF LinksType
    <3>3. ASSUME NEW kind \in {"Value", "Timeout"}, Leaves(n, kind), UNCHANGED toClient
          PROVE  LinksType'
      BY <3>1, <3>3, TakeType DEF LinksType
    <3> QED BY <1>9, <3>2, <3>3 DEF LoseMessage, Leaves
  <2>2. ClientType' /\ HandlerType'
    BY <1>9 DEF LoseMessage, clientVars, handlerVars, ClientType, HandlerType
  <2>3. ServiceType'
    BY <1>9 DEF LoseMessage, ServiceType
  <2> QED BY <2>1, <2>2, <2>3 DEF ClientTypeOK, LinksType, ClientType, HandlerType, ServiceType
<1> QED BY <1>1, <1>2, <1>3, <1>4, <1>5, <1>6, <1>7, <1>8, <1>9 DEF Next

-----------------------------------------------------------------------------
(* The log only grows *)

LEMMA LogGrows ==
  ASSUME ClientTypeOK, ClientTypeOK', [Next]_vars
  PROVE  \/ UNCHANGED log
         \/ \E n \in Nodes :
              /\ Decide(n)
              /\ log' = Append(log, Head(requestsIn[n]))
              /\ DOMAIN log' = DOMAIN log \cup {Len(log) + 1}
              /\ log'[Len(log) + 1] = Head(requestsIn[n])
              /\ \A i \in DOMAIN log : log'[i] = log[i] /\ i <= Len(log)
<1>1. ASSUME NEW n \in Nodes, Decide(n)
      PROVE  /\ log' = Append(log, Head(requestsIn[n]))
             /\ DOMAIN log' = DOMAIN log \cup {Len(log) + 1}
             /\ log'[Len(log) + 1] = Head(requestsIn[n])
             /\ \A i \in DOMAIN log : log'[i] = log[i] /\ i <= Len(log)
  <2>1. /\ requestsIn[n] \in Seq(Commands) /\ requestsIn[n] # <<>>
        /\ log \in Seq(Commands)
        /\ log' = Append(log, Head(requestsIn[n]))
    BY <1>1 DEF Decide, ClientTypeOK
  <2>2. Head(requestsIn[n]) \in Commands
    BY <2>1, Taken
  <2> QED BY <2>1, <2>2, Put
<1>2. ASSUME NEW n \in Nodes,
             \/ Handler(n) \/ Lose(n) \/ LoseMessage(n) \/ Execute(n)
             \/ Suspicion(n) \/ Settle(n) \/ Crash(n)
      PROVE  UNCHANGED log
  BY <1>2 DEF Handler, Lose, LoseMessage, Execute, Suspicion, Settle, Publish, Crash, serviceVars
<1> QED BY <1>1, <1>2 DEF Next, Counted, vars, serviceVars

LEMMA ExecutedStays ==
  ASSUME ClientTypeOK, ClientTypeOK', [Next]_vars, NEW c, Executed(c)
  PROVE  Executed(c)'
BY LogGrows DEF Executed

Done == {d \in Nat : Executed(d)}

\* Past, for a set of executed commands.
PastIn(c, D) == \A d \in 1..(c - 2) : d \in D \/ d + 1 \in D

LEMMA DoneGrows ==
  ASSUME ClientTypeOK, ClientTypeOK', [Next]_vars
  PROVE  Done \subseteq Done'
<1>1. \A d : Executed(d) => Executed(d)'
  BY ExecutedStays
<1> QED BY <1>1 DEF Done

LEMMA PastMore ==
  ASSUME NEW c \in Int, NEW b \in Int, b <= c, NEW D, NEW E, D \subseteq E, PastIn(c, D)
  PROVE  PastIn(b, E)
<1>1. 1..(b - 2) \subseteq 1..(c - 2)
  OBVIOUS
<1> QED BY <1>1 DEF PastIn

LEMMA PastNext ==
  ASSUME NEW c \in Int, NEW D, PastIn(c, D), c \in D \/ c - 1 \in D
  PROVE  PastIn(c + 1, D)
<1>1. SUFFICES ASSUME NEW d \in 1..(c + 1 - 2)
               PROVE  d \in D \/ d + 1 \in D
  BY DEF PastIn
<1>2. CASE d \in 1..(c - 2)
  BY <1>2 DEF PastIn
<1>3. CASE d = c - 1
  <2>1. d + 1 = c
    BY <1>3
  <2> QED BY <1>3, <2>1
<1>4. d \in 1..(c - 2) \/ d = c - 1
  BY <1>1
<1> QED BY <1>2, <1>3, <1>4

LEMMA PastDone ==
  ASSUME NEW c \in Int
  PROVE  Past(c) <=> PastIn(c, Done)
<1>1. \A d \in 1..(c - 2) : d \in Nat /\ d + 1 \in Nat
  OBVIOUS
<1> QED BY <1>1 DEF Past, PastIn, Done

-----------------------------------------------------------------------------
(* Responses speak of executed commands *)

\* How the queue of a connection to the client changes.
LEMMA HeadKeeps ==
  ASSUME ClientTypeOK, ResponsesTrue, NEW n \in Nodes, toClient[n] # <<>>,
         toClient' = [toClient EXCEPT ![n] = Tail(@)]
  PROVE  /\ Head(toClient[n]) \in Response => Executed(Head(toClient[n]).seq)
         /\ \A k \in Nodes : \A i \in DOMAIN toClient'[k] :
              toClient'[k][i].type = "Response" => Executed(toClient'[k][i].seq)
<1> DEFINE S == Redirect \cup Response
           q == toClient[n]
<1>1. /\ q \in Seq(S) /\ q # <<>>
      /\ toClient' = [toClient EXCEPT ![n] = Tail(q)]
  BY DEF ClientTypeOK
<1>2. \A r \in Response : r.type = "Response"
  BY DEF Response
<1>3. \A i \in DOMAIN q : q[i].type = "Response" => Executed(q[i].seq)
  BY DEF ResponsesTrue
<1> HIDE DEF S
<1>4. /\ Head(q) = q[1] /\ 1 \in DOMAIN q
      /\ \A i \in DOMAIN Tail(q) : i + 1 \in DOMAIN q /\ Tail(q)[i] = q[i + 1]
  BY <1>1, Taken
<1>5. toClient'[n] = Tail(q) /\ \A k \in Nodes : k # n => toClient'[k] = toClient[k]
  BY <1>1 DEF ClientTypeOK
<1>6. Head(q) \in Response => Executed(Head(q).seq)
  BY <1>2, <1>3, <1>4
<1> HIDE DEF q
<1>7. ASSUME NEW k \in Nodes, NEW i \in DOMAIN toClient'[k], toClient'[k][i].type = "Response"
      PROVE  Executed(toClient'[k][i].seq)
  BY <1>3, <1>4, <1>5, <1>7 DEF ResponsesTrue
<1> QED BY <1>6, <1>7 DEF q

LEMMA ReadKeeps ==
  ASSUME ClientTypeOK, ResponsesTrue, NEW n \in Nodes, NEW m, Read(n, m)
  PROVE  /\ m \in Response => Executed(m.seq)
         /\ \A k \in Nodes : \A i \in DOMAIN toClient'[k] :
              toClient'[k][i].type = "Response" => Executed(toClient'[k][i].seq)
BY HeadKeeps DEF Read

LEMMA SendKeeps ==
  ASSUME ClientTypeOK, ResponsesTrue, NEW n \in Nodes, NEW m \in Redirect \cup Response,
         m.type = "Response" => Executed(m.seq),
         toClient' = [toClient EXCEPT ![n] = Append(@, m)]
  PROVE  \A k \in Nodes : \A i \in DOMAIN toClient'[k] :
           toClient'[k][i].type = "Response" => Executed(toClient'[k][i].seq)
<1> DEFINE S == Redirect \cup Response
           q == toClient[n]
<1>1. q \in Seq(S) /\ m \in S /\ toClient' = [toClient EXCEPT ![n] = Append(q, m)]
  BY DEF ClientTypeOK
<1>2. \A i \in DOMAIN q : q[i].type = "Response" => Executed(q[i].seq)
  BY DEF ResponsesTrue
<1> HIDE DEF S
<1>3. /\ DOMAIN Append(q, m) = DOMAIN q \cup {Len(q) + 1}
      /\ Append(q, m)[Len(q) + 1] = m
      /\ \A i \in DOMAIN q : Append(q, m)[i] = q[i]
  BY <1>1, Put
<1>4. toClient'[n] = Append(q, m) /\ \A k \in Nodes : k # n => toClient'[k] = toClient[k]
  BY <1>1 DEF ClientTypeOK
<1> HIDE DEF q
<1> QED BY <1>2, <1>3, <1>4 DEF ResponsesTrue

LEMMA RedirectKeeps ==
  ASSUME ClientTypeOK, ResponsesTrue, NEW n \in Nodes, NEW seq \in Commands,
         RedirectClient(n, seq) \/ UNCHANGED toClient
  PROVE  \A k \in Nodes : \A i \in DOMAIN toClient'[k] :
           toClient'[k][i].type = "Response" => Executed(toClient'[k][i].seq)
<1>1. CASE UNCHANGED toClient
  BY <1>1 DEF ResponsesTrue
<1>2. CASE RedirectClient(n, seq)
  <2> DEFINE m == [type |-> "Redirect", node |-> HandlerLeader(n), seq |-> seq]
  <2>1. HandlerLeader(n) \in Nodes \cup {NoLeader}
    BY ElementOfSeq DEF HandlerLeader, ClientTypeOK
  <2>2. m \in Redirect /\ m.type # "Response"
    BY <2>1 DEF Redirect
  <2>3. \/ UNCHANGED toClient
        \/ toClient' = [toClient EXCEPT ![n] = Append(@, m)]
    BY <1>2 DEF RedirectClient
  <2>4. CASE toClient' = [toClient EXCEPT ![n] = Append(@, m)]
    <3> HIDE DEF m
    <3> QED BY <2>2, <2>4, SendKeeps
  <2> QED BY <1>1, <2>3, <2>4
<1> QED BY <1>1, <1>2

LEMMA NextResponsesTrue ==
  ASSUME ClientTypeOK, ClientTypeOK', OrderInv, [Next]_vars
  PROVE  ResponsesTrue'
<1> DEFINE Kept == \A k \in Nodes : \A i \in DOMAIN toClient'[k] :
             toClient'[k][i].type = "Response" => Executed(toClient'[k][i].seq)
<1>1. SUFFICES Kept
  BY ExecutedStays DEF ResponsesTrue
<1>2. ResponsesTrue
  BY DEF OrderInv
<1>3. CASE UNCHANGED toClient
  BY <1>2, <1>3 DEF ResponsesTrue
<1>4. ASSUME NEW n \in Nodes, HandleRedirect(n) \/ HandleResponse(n) PROVE Kept
  BY <1>2, <1>4, ReadKeeps DEF HandleRedirect, HandleResponse
<1>5. CASE ClientStep
  <2>1. ASSUME NEW n \in Nodes,
               \/ EnterCommand \/ SendCommand \/ ArmTimer \/ SendMessage \/ HandleTimeout
               \/ Proceed \/ Connect(n) \/ DeliverClientInfo(n)
        PROVE  UNCHANGED toClient
    BY <2>1 DEF EnterCommand, SendCommand, ArmTimer, SendMessage, HandleTimeout, Proceed,
                SetResponseOK, CompareTimeout, Resend, Connect, DeliverClientInfo, linkVars
  <2> QED BY <1>3, <1>4, <1>5, <2>1, NodesType DEF ClientStep, MainLoop
<1>6. ASSUME NEW n \in Nodes, HandleClientValue(n) PROVE Kept
  <2> DEFINE seq == Head(toNode[n].Value)
  <2>1. Leaves(n, "Value") /\ (RedirectClient(n, seq) \/ UNCHANGED toClient)
    BY <1>6 DEF HandleClientValue, Take, Leaves
  <2>2. seq \in Commands
    BY <2>1, TakeType, TypeParts
  <2> HIDE DEF seq
  <2> QED BY <1>2, <2>1, <2>2, RedirectKeeps
<1>7. ASSUME NEW n \in Nodes, HandleClientTimeout(n) PROVE Kept
  <2> DEFINE seq == Head(toNode[n].Timeout)
  <2>1. Leaves(n, "Timeout") /\ (RedirectClient(n, seq) \/ UNCHANGED toClient)
    BY <1>7 DEF HandleClientTimeout, Take, Leaves
  <2>2. seq \in Commands
    BY <2>1, TakeType, TypeParts
  <2> HIDE DEF seq
  <2> QED BY <1>2, <2>1, <2>2, RedirectKeeps
<1>8. ASSUME NEW n \in Nodes, Execute(n) PROVE Kept
  <2> DEFINE seq == log[applied[n] + 1]
             m == [type |-> "Response", seq |-> seq]
  <2>1. applied[n] + 1 \in 1..Len(log) /\ log \in Seq(Commands)
    <3>1. log \in Seq(Commands) /\ applied[n] \in 0..Len(log) /\ Len(log) \in Nat
      BY LenProperties DEF ClientTypeOK
    <3> QED BY <1>8, <3>1 DEF Execute
  <2>2. seq \in Commands /\ Executed(seq)
    BY <2>1, ElementOfSeq, LenProperties DEF Executed
  <2>3. m \in Response /\ m.seq = seq
    BY <2>2 DEF Response
  <2>4. UNCHANGED toClient \/ toClient' = [toClient EXCEPT ![n] = Append(@, m)]
    BY <1>8 DEF Execute, SendResToCli
  <2>5. CASE toClient' = [toClient EXCEPT ![n] = Append(@, m)]
    <3> HIDE DEF m, seq
    <3> QED BY <1>2, <2>2, <2>3, <2>5, SendKeeps
  <2> QED BY <1>3, <2>4, <2>5
<1>9. ASSUME NEW n \in Nodes,
             \/ GetClientInfo(n) \/ RegisterClient(n) \/ HandleNewLeader(n)
             \/ ProposerNewLeader(n) \/ TakeClientValue(n)
             \/ Decide(n) \/ Lose(n) \/ Suspicion(n) \/ Settle(n) \/ Crash(n)
      PROVE  UNCHANGED toClient
  BY <1>9 DEF GetClientInfo, RegisterClient, HandleNewLeader, ProposerNewLeader, TakeClientValue,
              Decide, Lose, Suspicion, Settle, Publish, Crash, linkVars
<1>10. ASSUME NEW n \in Nodes, LoseMessage(n) PROVE Kept
  <2>1. CASE toClient[n] # <<>> /\ toClient' = [toClient EXCEPT ![n] = Tail(@)]
    BY <1>2, <2>1, HeadKeeps
  <2> QED BY <1>3, <1>10, <2>1 DEF LoseMessage
<1> HIDE DEF Kept
<1> QED BY <1>3, <1>5, <1>6, <1>7, <1>8, <1>9, <1>10
        DEF Next, Counted, Handler, HandlerStep, vars, linkVars

-----------------------------------------------------------------------------
(* What the two goroutines of the client have checked still holds *)

Control ==
  /\ input = "send" => next = reqSeq + 1 /\ PastIn(next, Done)
  /\ mainLoop = "answered" => \E c \in Done : c = reqSeq \/ Overtaken(c)
  /\ mainLoop \in {"timedOut", "Value", "Timeout"} => val > 0
  /\ mainLoop \in {"Value", "Timeout"} => val = reqSeq \/ Overtaken(val)
  /\ input = "arm" => reqSeq > 0
  /\ responseTimer # "stopped" \/ selected \in {"running", "ticked"} => reqSeq > 0
  /\ PastIn(reqSeq, Done)
  /\ responseOK => PastIn(reqSeq + 1, Done)

LEMMA ControlParts ==
  ASSUME ClientTypeOK, OrderInv, AtMostOneSkipped
  PROVE  Control
<1>1. reqSeq \in Int /\ next \in Int /\ reqSeq + 1 \in Int
  BY DEF ClientTypeOK
<1>2. mainLoop = "answered" => \E c \in Done : c = reqSeq \/ Overtaken(c)
  BY NodesType DEF OrderInv, MainLoopInv, Done
<1> QED BY <1>1, <1>2, PastDone DEF OrderInv, InputInv, MainLoopInv, TickersInv, AtMostOneSkipped, Control

LEMMA ClientStepControl ==
  ASSUME ClientTypeOK, OrderInv, Control, ClientStep, UNCHANGED log
  PROVE  Control'
<1> DEFINE D == Done
<1>1. reqSeq \in Nat /\ val \in Nat /\ next \in Nat
  BY NodesType DEF ClientTypeOK
<1>2. Done' = D
  BY DEF Done, Executed
<1>3. CASE EnterCommand
  <2>1. UNCHANGED <<reqSeq, responseOK, responseTimer, selected, mainLoop, val>>
    BY <1>3 DEF EnterCommand
  <2>2. \/ responseOK /\ input' = "send" /\ next' = reqSeq + 1
        \/ UNCHANGED <<input, next>>
    BY <1>3 DEF EnterCommand
  <2>3. input' = "send" => next' = reqSeq + 1 /\ PastIn(next', D)
    BY <2>2 DEF Control
  <2>4. \A c : Overtaken(c) => Overtaken(c)'
    BY <2>1, <2>2, <1>3 DEF Overtaken, EnterCommand
  <2>5. input' = "arm" => input = "arm"
    BY <2>2
  <2> HIDE DEF D
  <2> QED BY <1>2, <2>1, <2>3, <2>4, <2>5 DEF Control, D
<1>4. CASE SendCommand
  <2>1. /\ reqSeq' = reqSeq + 1 /\ input' = "arm" /\ input = "send" /\ PastIn(reqSeq', D)
        /\ UNCHANGED <<responseTimer, selected, mainLoop, val>>
    <3>1. /\ reqSeq' = next /\ input' = "arm" /\ input = "send"
          /\ UNCHANGED <<responseTimer, selected, mainLoop, val>>
      BY <1>4, Zenon DEF SendCommand
    <3> QED BY <3>1 DEF Control
  <2>2. ~responseOK'
    BY <1>4, Zenon DEF SendCommand
  <2>3. \A c : ~Overtaken(c) /\ (c = reqSeq => Overtaken(c)')
    BY <1>1, <2>1, <2>2 DEF Overtaken
  <2>4. reqSeq' > 0
    BY <1>1, <2>1
  <2> HIDE DEF D
  <2> QED BY <1>2, <2>1, <2>2, <2>3, <2>4 DEF Control, D
<1>5. CASE ArmTimer
  <2>1. /\ input = "arm" /\ input' = "idle"
        /\ UNCHANGED <<reqSeq, responseOK, mainLoop, val>>
    BY <1>5 DEF ArmTimer
  <2>2. \A c : Overtaken(c) => Overtaken(c)'
    BY <2>1 DEF Overtaken
  <2> HIDE DEF D
  <2> QED BY <1>2, <2>1, <2>2 DEF Control, D
<1>6. CASE Resend
  <2>1. /\ mainLoop \in {"Value", "Timeout"} /\ mainLoop' = "select" /\ reqSeq' = val
        /\ input # "arm" /\ UNCHANGED <<input, next, selected>>
    BY <1>6, Zenon DEF Resend
  <2>2. ~responseOK'
    BY <1>6, Zenon DEF Resend
  <2>3. val > 0 /\ (val = reqSeq \/ Overtaken(val))
    BY <2>1 DEF Control
  <2>4. val <= reqSeq /\ (input = "send" => val = reqSeq)
    BY <1>1, <2>3 DEF Overtaken
  <2>5. PastIn(val, D)
    BY <1>1, <2>4, PastMore DEF Control
  <2> HIDE DEF D
  <2> QED BY <1>2, <2>1, <2>2, <2>3, <2>4, <2>5 DEF Control, D
<1>7. CASE HandleTimeout
  <2>1. /\ UNCHANGED <<reqSeq, responseOK, input, next>>
        /\ mainLoop' = "timedOut" /\ val' = reqSeq /\ selected' = "current"
        /\ responseTimer' \in {responseTimer, "stopped"}
    BY <1>7, Zenon DEF HandleTimeout
  <2>2. reqSeq > 0
    BY <1>7 DEF HandleTimeout, Ticking, Control
  <2> HIDE DEF D
  <2> QED BY <1>2, <2>1, <2>2 DEF Control, D
<1>8. CASE CompareTimeout
  <2>1. /\ UNCHANGED <<reqSeq, responseOK, input, next, responseTimer, selected>>
        /\ \/ val = reqSeq /\ mainLoop' = "Timeout" /\ val' = val
           \/ mainLoop' = "select"
        /\ mainLoop = "timedOut"
    BY <1>8 DEF CompareTimeout
  <2> HIDE DEF D
  <2> QED BY <1>2, <2>1 DEF Control, D
<1>9. CASE SetResponseOK
  <2>1. /\ UNCHANGED <<reqSeq, input, next, responseTimer, selected>>
        /\ mainLoop = "answered" /\ mainLoop' = "select"
    BY <1>9 DEF SetResponseOK
  <2>2. PastIn(reqSeq + 1, D)
    <3>1. PICK c \in D : c = reqSeq \/ Overtaken(c)
      BY <2>1 DEF Control
    <3>2. reqSeq \in D \/ reqSeq - 1 \in D
      BY <3>1 DEF Overtaken
    <3> HIDE DEF D
    <3> QED BY <1>1, <3>2, PastNext DEF Control, D
  <2> HIDE DEF D
  <2> QED BY <1>2, <2>1, <2>2 DEF Control, D
<1>10. ASSUME NEW n \in Nodes, HandleRedirect(n) PROVE Control'
  <2>1. PICK m \in Redirect :
          /\ \/ m.seq = reqSeq /\ mainLoop' = "Value" /\ val' = m.seq
             \/ UNCHANGED <<mainLoop, val>>
          /\ Read(n, m)
          /\ UNCHANGED <<reqSeq, responseOK, input, next, responseTimer>>
    BY <1>10 DEF HandleRedirect
  <2>2. m.seq > 0 /\ selected' = "current" /\ mainLoop = "select"
    <3>1. m.seq \in Commands
      BY DEF Redirect
    <3>2. \A c \in Commands : c > 0
      BY NodesType
    <3> QED BY <2>1, <3>1, <3>2 DEF Read
  <2> HIDE DEF D
  <2> QED BY <1>2, <2>1, <2>2 DEF Control, D
<1>11. ASSUME NEW n \in Nodes, HandleResponse(n) PROVE Control'
  <2>1. PICK m \in Response :
          /\ \/ m.seq = reqSeq /\ mainLoop' = "answered"
             \/ UNCHANGED mainLoop
          /\ Read(n, m)
          /\ responseTimer' \in IF responseTimer = "running" THEN {"stopped", "ticked"}
                                                            ELSE {responseTimer}
          /\ UNCHANGED <<reqSeq, responseOK, input, next, val>>
    BY <1>11 DEF HandleResponse
  <2>2. m.seq \in D /\ selected' = "current" /\ mainLoop = "select"
    BY <2>1, ReadKeeps, NodesType DEF OrderInv, Read, Response, Done
  <2>3. responseTimer' # "stopped" => responseTimer # "stopped"
    BY <2>1
  <2>4. mainLoop' = "answered" => reqSeq \in D
    BY <2>1, <2>2
  <2>5. mainLoop' \in {"answered", "select"}
    BY <2>1, <2>2
  <2>6. UNCHANGED <<reqSeq, responseOK, input, next>>
    BY <2>1
  <2> HIDE DEF D
  <2> QED BY <1>2, <2>2, <2>3, <2>4, <2>5, <2>6 DEF Control, D
<1>12. ASSUME NEW n \in Nodes, Connect(n) \/ DeliverClientInfo(n) \/ SendMessage PROVE Control'
  <2>1. /\ UNCHANGED <<reqSeq, responseOK, responseTimer, input, next, mainLoop, val>>
        /\ selected' \in {selected, "current"}
    BY <1>12 DEF Connect, DeliverClientInfo, SendMessage
  <2>2. \A c : Overtaken(c) => Overtaken(c)'
    BY <2>1 DEF Overtaken
  <2> HIDE DEF D
  <2> QED BY <1>2, <2>1, <2>2 DEF Control, D
<1> QED BY <1>3, <1>4, <1>5, <1>6, <1>7, <1>8, <1>9, <1>10, <1>11, <1>12, NodesType
        DEF ClientStep, MainLoop, Proceed

LEMMA NextControl ==
  ASSUME ClientTypeOK, ClientTypeOK', OrderInv, AtMostOneSkipped, [Next]_vars
  PROVE  Control'
<1>1. Control
  BY ControlParts
<1>2. CASE Counted(ClientStep)
  BY <1>1, <1>2, ClientStepControl DEF Counted
<1>3. CASE UNCHANGED clientVars
  <2>1. UNCHANGED <<reqSeq, responseOK, responseTimer, selected, input, next, mainLoop, val>>
    BY <1>3 DEF clientVars
  <2>2. \A c : Overtaken(c) => Overtaken(c)'
    BY <2>1 DEF Overtaken
  <2>3. Done \subseteq Done'
    BY DoneGrows
  <2>4. reqSeq \in Int /\ next \in Int /\ reqSeq + 1 \in Int
    BY DEF ClientTypeOK
  <2>5. \A c \in Int : PastIn(c, Done) => PastIn(c, Done')
    BY <2>3, PastMore
  <2> QED BY <1>1, <2>1, <2>2, <2>3, <2>4, <2>5 DEF Control
<1>4. ASSUME NEW n \in Nodes,
             \/ Handler(n) \/ Decide(n) \/ Lose(n) \/ LoseMessage(n) \/ Execute(n)
             \/ Suspicion(n) \/ Settle(n) \/ Crash(n)
      PROVE  UNCHANGED clientVars
  BY <1>4 DEF Handler, Decide, Lose, LoseMessage, Execute, Suspicion, Settle, Publish, Crash
<1> QED BY <1>2, <1>3, <1>4 DEF Next, vars

-----------------------------------------------------------------------------
(* Nothing on its way is newer than what was sent *)

Allowed(newest, D) == {c \in Commands : c <= newest /\ PastIn(c, D)}

ChanIn(T, s) == \A i \in DOMAIN s : s[i].seq \in T

QueuesIn(T, tn, cv, ri) ==
  \A n \in Nodes : In(T, tn[n].Value) /\ In(T, tn[n].Timeout) /\ In(T, cv[n]) /\ In(T, ri[n])

AllIn(T) == ChanIn(T, sendChan) /\ QueuesIn(T, toNode, clientValues, requestsIn)

\* After a step.
StillIn(T) == ChanIn(T, sendChan') /\ QueuesIn(T, toNode', clientValues', requestsIn')

LEMMA NothingNewerIn ==
  ASSUME ClientTypeOK
  PROVE  NothingNewer <=> AllIn(Allowed(Newest, Done))
<1> DEFINE T == Allowed(Newest, Done)
<1>1. \A c \in Commands : Sent(c) <=> c \in T
  <2>1. \A c \in Commands : Past(c) <=> PastIn(c, Done)
    BY PastDone, NodesType
  <2> QED BY <2>1 DEF Sent, Allowed
<1>2. \A i \in DOMAIN sendChan : sendChan[i].seq \in Commands
  <2> DEFINE S == [type : {"Value", "Timeout"}, seq : Commands]
  <2>1. sendChan \in Seq(S)
    BY DEF ClientTypeOK
  <2>2. \A x \in S : x.seq \in Commands
    OBVIOUS
  <2> HIDE DEF S
  <2> QED BY <2>1, <2>2, ElementOfSeq, LenProperties
<1>3. ASSUME NEW q \in Seq(Commands) PROVE AllSent(q) <=> In(T, q)
  <2>1. \A i \in DOMAIN q : q[i] \in Commands
    BY ElementOfSeq, LenProperties
  <2> HIDE DEF T
  <2> QED BY <1>1, <2>1 DEF AllSent, In
<1>4. \A n \in Nodes : /\ toNode[n].Value \in Seq(Commands) /\ toNode[n].Timeout \in Seq(Commands)
                       /\ clientValues[n] \in Seq(Commands) /\ requestsIn[n] \in Seq(Commands)
  BY DEF ClientTypeOK
<1> HIDE DEF T
<1>5. (\A i \in DOMAIN sendChan : Sent(sendChan[i].seq)) <=> ChanIn(T, sendChan)
  BY <1>1, <1>2 DEF ChanIn
<1>6. ASSUME NEW n \in Nodes
      PROVE  /\ AllSent(toNode[n].Value) <=> In(T, toNode[n].Value)
             /\ AllSent(toNode[n].Timeout) <=> In(T, toNode[n].Timeout)
             /\ AllSent(clientValues[n]) <=> In(T, clientValues[n])
             /\ AllSent(requestsIn[n]) <=> In(T, requestsIn[n])
  BY <1>3, <1>4
<1>7. NothingNewer <=> AllIn(T)
  BY <1>5, <1>6 DEF NothingNewer, AllIn, QueuesIn
<1> QED BY <1>7 DEF T

LEMMA NothingNewerThen ==
  ASSUME ClientTypeOK'
  PROVE  NothingNewer' <=> StillIn(Allowed(Newest', Done'))
<1> DEFINE T == Allowed(Newest', Done')
<1>1. \A c \in Commands : Sent(c)' <=> c \in T
  <2>1. \A c \in Commands : Past(c)' <=> PastIn(c, Done')
    <3>1. ASSUME NEW c \in Commands, NEW d \in 1..(c - 2) PROVE d \in Nat /\ d + 1 \in Nat
      BY NodesType
    <3> QED BY <3>1 DEF Past, PastIn, Done
  <2> QED BY <2>1 DEF Sent, Allowed
<1>2. \A i \in DOMAIN sendChan' : sendChan'[i].seq \in Commands
  <2> DEFINE S == [type : {"Value", "Timeout"}, seq : Commands]
  <2>1. sendChan' \in Seq(S)
    BY DEF ClientTypeOK
  <2>2. \A x \in S : x.seq \in Commands
    OBVIOUS
  <2> HIDE DEF S
  <2> QED BY <2>1, <2>2, ElementOfSeq, LenProperties
<1>3. ASSUME NEW q \in Seq(Commands) PROVE AllSent(q)' <=> In(T, q)
  <2>1. \A i \in DOMAIN q : q[i] \in Commands
    BY ElementOfSeq, LenProperties
  <2> HIDE DEF T
  <2> QED BY <1>1, <2>1 DEF AllSent, In
<1>4. \A n \in Nodes : /\ toNode'[n].Value \in Seq(Commands) /\ toNode'[n].Timeout \in Seq(Commands)
                       /\ clientValues'[n] \in Seq(Commands) /\ requestsIn'[n] \in Seq(Commands)
  BY DEF ClientTypeOK
<1> HIDE DEF T
<1>5. (\A i \in DOMAIN sendChan : Sent(sendChan[i].seq))' <=> ChanIn(T, sendChan')
  BY <1>1, <1>2 DEF ChanIn
<1>6. ASSUME NEW n \in Nodes
      PROVE  /\ AllSent(toNode[n].Value)' <=> In(T, toNode'[n].Value)
             /\ AllSent(toNode[n].Timeout)' <=> In(T, toNode'[n].Timeout)
             /\ AllSent(clientValues[n])' <=> In(T, clientValues'[n])
             /\ AllSent(requestsIn[n])' <=> In(T, requestsIn'[n])
  BY <1>3, <1>4
<1>7. NothingNewer' <=> StillIn(T)
  BY <1>5, <1>6 DEF NothingNewer, StillIn, QueuesIn
<1> QED BY <1>7 DEF T

LEMMA AllInMore ==
  ASSUME NEW T, NEW U, T \subseteq U, AllIn(T)
  PROVE  AllIn(U)
BY InMore DEF AllIn, ChanIn, QueuesIn

LEMMA StillInMore ==
  ASSUME NEW T, NEW U, T \subseteq U, StillIn(T)
  PROVE  StillIn(U)
BY InMore DEF StillIn, ChanIn, QueuesIn

LEMMA AllowedMore ==
  ASSUME NEW a \in Int, NEW b \in Int, a <= b, NEW D, NEW E, D \subseteq E
  PROVE  Allowed(a, D) \subseteq Allowed(b, E)
<1> SUFFICES ASSUME NEW c \in Allowed(a, D)
             PROVE  c \in Allowed(b, E)
  OBVIOUS
<1>1. c \in Commands /\ c \in Int /\ c <= a /\ PastIn(c, D)
  BY NodesType DEF Allowed
<1>2. PastIn(c, E) /\ c <= b
  BY <1>1, PastMore
<1> QED BY <1>1, <1>2 DEF Allowed

\* How far the commands sent may go never shrinks, and what the client sends in
\* a step is within it.
LEMMA NewestGrows ==
  ASSUME ClientTypeOK, ClientTypeOK', Control, ClientStep, UNCHANGED log
  PROVE  /\ Newest <= Newest' /\ Newest \in Int /\ Newest' \in Int
         /\ SendCommand => next \in Allowed(Newest', Done)
         /\ Resend => val \in Allowed(Newest', Done)
<1>1. /\ reqSeq \in Nat /\ val \in Nat /\ next \in Nat
      /\ reqSeq' \in Nat /\ val' \in Nat
  BY NodesType DEF ClientTypeOK
<1>2. Newest \in Int /\ Newest' \in Int
  BY <1>1 DEF Newest
<1>3. CASE SendCommand
  <2>1. /\ reqSeq' = next /\ next = reqSeq + 1 /\ input = "send" /\ PastIn(next, Done)
        /\ UNCHANGED <<mainLoop, val, seqNum>>
    BY <1>3 DEF SendCommand, Control
  <2>2. mainLoop \in {"Value", "Timeout"} => val = reqSeq
    BY <2>1 DEF Control, Overtaken
  <2>3. Newest <= Newest' /\ next <= Newest'
    BY <1>1, <2>1, <2>2 DEF Newest
  <2>4. next \in Commands
    BY <1>1, <2>1, NodesType DEF ClientTypeOK, Commands
  <2>5. ~Resend
    BY <2>1 DEF Resend
  <2> QED BY <1>2, <2>1, <2>3, <2>4, <2>5 DEF Allowed
<1>4. CASE Resend
  <2>1. /\ mainLoop \in {"Value", "Timeout"} /\ mainLoop' = "select" /\ reqSeq' = val
    BY <1>4, Zenon DEF Resend
  <2>2. val > 0 /\ (val = reqSeq \/ Overtaken(val))
    BY <2>1 DEF Control
  <2>3. val <= reqSeq /\ val \in Commands
    <3>1. val <= reqSeq
      BY <1>1, <2>2 DEF Overtaken
    <3> QED BY <1>1, <2>2, <3>1, NodesType DEF ClientTypeOK, Commands
  <2>4. PastIn(val, Done)
    BY <1>1, <2>3, PastMore DEF Control
  <2>5. Newest = val + 1 /\ Newest' = val + 1
    BY <2>1 DEF Newest
  <2>6. ~SendCommand
    BY <1>4 DEF SendCommand, Resend
  <2> QED BY <1>1, <1>2, <2>3, <2>4, <2>5, <2>6 DEF Allowed
<1>5. ASSUME NEW n \in Nodes,
             \/ EnterCommand \/ ArmTimer \/ SendMessage \/ HandleTimeout \/ SetResponseOK
             \/ CompareTimeout \/ Connect(n) \/ MainLoop(n)
      PROVE  Newest' = Newest
  <2>1. CASE EnterCommand \/ ArmTimer \/ SendMessage \/ Connect(n) \/ DeliverClientInfo(n)
    <3>1. UNCHANGED <<reqSeq, mainLoop, val>>
      BY <2>1 DEF EnterCommand, ArmTimer, SendMessage, Connect, DeliverClientInfo
    <3> QED BY <3>1 DEF Newest
  <2>2. CASE HandleTimeout \/ SetResponseOK \/ CompareTimeout
    <3>1. /\ reqSeq' = reqSeq /\ mainLoop \in {"select", "answered", "timedOut"}
          /\ mainLoop' \in {"timedOut", "select"} \/ val' = reqSeq
      BY <2>2 DEF HandleTimeout, SetResponseOK, CompareTimeout
    <3> QED BY <3>1 DEF Newest
  <2>3. CASE HandleRedirect(n) \/ HandleResponse(n)
    <3>1. /\ reqSeq' = reqSeq /\ mainLoop = "select"
          /\ mainLoop' \in {"answered", "select"} \/ val' = reqSeq
      BY <2>3 DEF HandleRedirect, HandleResponse, Read
    <3> QED BY <3>1 DEF Newest
  <2> QED BY <1>5, <2>1, <2>2, <2>3 DEF MainLoop
<1>6. CASE SendCommand \/ Resend
  BY <1>3, <1>4, <1>6
<1>7. ASSUME Newest' = Newest, ~SendCommand, ~Resend
      PROVE  Newest <= Newest'
  BY <1>2, <1>7
<1> QED BY <1>2, <1>5, <1>6, <1>7, NodesType DEF ClientStep, MainLoop, Proceed

LEMMA ChanPut ==
  ASSUME ClientTypeOK, NEW T, ChanIn(T, sendChan),
         NEW m \in [type : {"Value", "Timeout"}, seq : Commands], m.seq \in T,
         sendChan' = Append(sendChan, m)
  PROVE  ChanIn(T, sendChan')
<1> DEFINE S == [type : {"Value", "Timeout"}, seq : Commands]
<1>1. sendChan \in Seq(S) /\ m \in S
  BY DEF ClientTypeOK
<1> HIDE DEF S
<1>2. /\ DOMAIN sendChan' = DOMAIN sendChan \cup {Len(sendChan) + 1}
      /\ sendChan'[Len(sendChan) + 1] = m
      /\ \A i \in DOMAIN sendChan : sendChan'[i] = sendChan[i]
  BY <1>1, Put
<1> QED BY <1>2 DEF ChanIn

LEMMA ClientStepKeeps ==
  ASSUME ClientTypeOK, Control, ClientStep, UNCHANGED <<clientValues, requestsIn>>,
         NEW T, T \subseteq Commands, AllIn(T),
         SendCommand => next \in T, Resend => val \in T
  PROVE  StillIn(T)
<1>1. ChanIn(T, sendChan) /\ QueuesIn(T, toNode, clientValues, requestsIn)
  BY DEF AllIn
<1>2. SUFFICES ChanIn(T, sendChan') /\ QueuesIn(T, toNode', clientValues', requestsIn')
  BY DEF StillIn
<1>3. CASE UNCHANGED <<sendChan, toNode>>
  BY <1>1, <1>3
<1>4. CASE SendCommand
  <2>1. sendChan' = Append(sendChan, [type |-> "Value", seq |-> next]) /\ UNCHANGED toNode
    BY <1>4, Zenon DEF SendCommand, linkVars
  <2>2. next \in T
    BY <1>4
  <2> QED BY <1>1, <2>1, <2>2, ChanPut
<1>5. CASE Resend
  <2>1. /\ sendChan' = Append(sendChan, [type |-> mainLoop, seq |-> val]) /\ UNCHANGED toNode
        /\ mainLoop \in {"Value", "Timeout"}
    BY <1>5, Zenon DEF Resend, linkVars
  <2>2. val \in T
    BY <1>5
  <2> QED BY <1>1, <2>1, <2>2, ChanPut
<1>6. CASE SendMessage
  <2> DEFINE m == Head(sendChan)
             kind == m.type
             q == toNode[currentConn][kind]
             new == Append(q, m.seq)
  <2>1. /\ m \in [type : {"Value", "Timeout"}, seq : Commands]
        /\ m = sendChan[1] /\ 1 \in DOMAIN sendChan
        /\ \A i \in DOMAIN sendChan' : i + 1 \in DOMAIN sendChan
                                        /\ sendChan'[i] = sendChan[i + 1]
    BY <1>6, Taken DEF SendMessage, ClientTypeOK
  <2>2. kind \in {"Value", "Timeout"} /\ m.seq \in Commands /\ m.seq \in T
    BY <1>1, <2>1 DEF ChanIn
  <2>3. ChanIn(T, sendChan')
    BY <1>1, <2>1 DEF ChanIn
  <2>4. CASE toNode' = [toNode EXCEPT ![currentConn][kind] = new]
    <3>1. currentConn \in Nodes /\ q \in Seq(Commands)
      BY <2>2 DEF ClientTypeOK
    <3>2. In(T, q)
      BY <1>1, <2>2, <3>1 DEF QueuesIn
    <3>3. new \in Seq(Commands) /\ In(T, new)
      BY <2>2, <3>1, <3>2, InPut
    <3> HIDE DEF new, q, m, kind
    <3>4. /\ toNode'[currentConn][kind] = new
          /\ \A n \in Nodes, k \in {"Value", "Timeout"} :
               n # currentConn \/ k # kind => toNode'[n][k] = toNode[n][k]
      <4>1. toNode \in [Nodes -> [Value : Seq(Commands), Timeout : Seq(Commands)]]
        BY DEF ClientTypeOK
      <4> QED BY <2>2, <2>4, <3>1, <3>3, <4>1, ToNode
    <3>5. ASSUME NEW n \in Nodes, NEW k \in {"Value", "Timeout"} PROVE In(T, toNode'[n][k])
      <4>1. In(T, toNode[n][k])
        BY <1>1 DEF QueuesIn
      <4>2. toNode'[n][k] = new \/ toNode'[n][k] = toNode[n][k]
        BY <3>4
      <4> QED BY <3>3, <4>1, <4>2
    <3> QED BY <1>1, <2>3, <3>5 DEF QueuesIn
  <2> QED BY <1>1, <1>6, <2>3, <2>4 DEF SendMessage
<1>7. ASSUME NEW n \in Nodes,
             \/ EnterCommand \/ ArmTimer \/ HandleTimeout \/ SetResponseOK \/ CompareTimeout
             \/ Connect(n) \/ MainLoop(n)
      PROVE  UNCHANGED <<sendChan, toNode>>
  BY <1>7 DEF EnterCommand, ArmTimer, HandleTimeout, SetResponseOK, CompareTimeout, Connect,
              MainLoop, HandleRedirect, HandleResponse, DeliverClientInfo, linkVars
<1> QED BY <1>3, <1>4, <1>5, <1>6, <1>7, NodesType DEF ClientStep, Proceed

\* A queue of a connection loses its head, another may gain it.
LEMMA TakeKeeps ==
  ASSUME ClientTypeOK, NEW T, AllIn(T), NEW n \in Nodes, NEW kind \in {"Value", "Timeout"},
         Leaves(n, kind),
         \/ DeliverClientValue(n, Head(toNode[n][kind]))
         \/ UNCHANGED clientValues,
         UNCHANGED <<sendChan, requestsIn>>
  PROVE  StillIn(T)
<1> DEFINE q == toNode[n][kind]
<1>1. /\ q \in Seq(Commands) /\ q # <<>> /\ Head(q) \in Commands
      /\ toNode'[n][kind] = Tail(q)
      /\ \A m \in Nodes, k \in {"Value", "Timeout"} :
           m # n \/ k # kind => toNode'[m][k] = toNode[m][k]
  BY TakeType, TypeParts
<1>2. ChanIn(T, sendChan) /\ QueuesIn(T, toNode, clientValues, requestsIn)
  BY DEF AllIn
<1>3. In(T, q)
  BY <1>2 DEF QueuesIn
<1>4. Head(q) \in T /\ In(T, Tail(q))
  BY <1>1, <1>3, InTaken
<1>5. ASSUME NEW m \in Nodes, NEW k \in {"Value", "Timeout"} PROVE In(T, toNode'[m][k])
  <2>1. In(T, toNode[m][k])
    BY <1>2 DEF QueuesIn
  <2> HIDE DEF q
  <2>2. toNode'[m][k] = Tail(q) \/ toNode'[m][k] = toNode[m][k]
    BY <1>1
  <2> QED BY <1>4, <2>1, <2>2
<1>6. \A m \in Nodes : In(T, clientValues'[m])
  <2> DEFINE c == Head(q)
             cv == clientValues[n]
  <2>1. cv \in Seq(Commands) /\ In(T, cv)
    BY <1>2 DEF ClientTypeOK, QueuesIn
  <2>2. In(T, Append(cv, c))
    BY <1>1, <1>4, <2>1, InPut
  <2>3. clientValues' = clientValues \/ clientValues' = [clientValues EXCEPT ![n] = Append(cv, c)]
    BY DEF DeliverClientValue
  <2> HIDE DEF c, cv
  <2> QED BY <1>2, <2>2, <2>3 DEF QueuesIn, ClientTypeOK
<1>7. ChanIn(T, sendChan') /\ QueuesIn(T, toNode', clientValues', requestsIn')
  BY <1>2, <1>5, <1>6 DEF QueuesIn
<1> QED BY <1>7 DEF StillIn

LEMMA TakeClientValueKeeps ==
  ASSUME ClientTypeOK, NEW T, AllIn(T), NEW n \in Nodes, TakeClientValue(n), UNCHANGED sendChan
  PROVE  StillIn(T)
<1> DEFINE q == clientValues[n]
           c == Head(q)
           taken == requestsIn[n]
<1>1. /\ q \in Seq(Commands) /\ q # <<>> /\ In(T, q)
      /\ taken \in Seq(Commands) /\ In(T, taken)
  BY DEF TakeClientValue, ClientTypeOK, AllIn, QueuesIn
<1>2. c \in Commands /\ c \in T /\ In(T, Tail(q))
  BY <1>1, InTaken
<1>3. In(T, Append(taken, c))
  BY <1>1, <1>2, InPut
<1>4. /\ clientValues' = [clientValues EXCEPT ![n] = Tail(q)]
      /\ \/ requestsIn' = requestsIn
         \/ requestsIn' = [requestsIn EXCEPT ![n] = Append(taken, c)]
      /\ UNCHANGED toNode
  BY DEF TakeClientValue, linkVars
<1> HIDE DEF taken, c, q
<1>5. \A m \in Nodes : In(T, clientValues'[m]) /\ In(T, requestsIn'[m])
  BY <1>2, <1>3, <1>4 DEF AllIn, QueuesIn, ClientTypeOK
<1>6. ChanIn(T, sendChan') /\ QueuesIn(T, toNode', clientValues', requestsIn')
  BY <1>4, <1>5 DEF AllIn, QueuesIn
<1> QED BY <1>6 DEF StillIn

LEMMA ProposedKeeps ==
  ASSUME ClientTypeOK, NEW T, AllIn(T), NEW n \in Nodes, requestsIn[n] # <<>>,
         requestsIn' = [requestsIn EXCEPT ![n] = Tail(@)],
         UNCHANGED <<sendChan, toNode, clientValues>>
  PROVE  StillIn(T) /\ Head(requestsIn[n]) \in Commands /\ Head(requestsIn[n]) \in T
<1> DEFINE q == requestsIn[n]
<1>1. q \in Seq(Commands) /\ q # <<>> /\ In(T, q)
  BY DEF ClientTypeOK, AllIn, QueuesIn
<1>2. Head(q) \in Commands /\ Head(q) \in T /\ In(T, Tail(q))
  BY <1>1, InTaken
<1>3. \A m \in Nodes : In(T, requestsIn'[m])
  BY <1>2 DEF AllIn, QueuesIn, ClientTypeOK
<1>4. ChanIn(T, sendChan') /\ QueuesIn(T, toNode', clientValues', requestsIn')
  BY <1>3 DEF AllIn, QueuesIn
<1> QED BY <1>2, <1>4 DEF StillIn

\* Every step but the client's keeps what is on its way.
LEMMA OthersKeep ==
  ASSUME ClientTypeOK, NEW T, AllIn(T), [Next]_vars, ~Counted(ClientStep)
  PROVE  StillIn(T) /\ UNCHANGED clientVars
<1>1. ASSUME UNCHANGED <<sendChan, toNode, clientValues, requestsIn>>
      PROVE  StillIn(T)
  BY <1>1 DEF AllIn, StillIn
<1>2. ASSUME NEW n \in Nodes, Handler(n) PROVE StillIn(T) /\ UNCHANGED clientVars
  <2>1. UNCHANGED clientVars /\ UNCHANGED sendChan
    BY <1>2 DEF Handler, clientVars
  <2>2. CASE HandleClientValue(n)
    <3>1. /\ Leaves(n, "Value") /\ UNCHANGED requestsIn
          /\ DeliverClientValue(n, Head(toNode[n].Value)) \/ UNCHANGED clientValues
      BY <2>2 DEF HandleClientValue, Take, Leaves
    <3> QED BY <2>1, <3>1, TakeKeeps
  <2>3. CASE HandleClientTimeout(n)
    <3>1. /\ Leaves(n, "Timeout") /\ UNCHANGED requestsIn
          /\ DeliverClientValue(n, Head(toNode[n].Timeout)) \/ UNCHANGED clientValues
      BY <2>3 DEF HandleClientTimeout, Take, Leaves
    <3> QED BY <2>1, <3>1, TakeKeeps
  <2>4. CASE TakeClientValue(n)
    BY <2>1, <2>4, TakeClientValueKeeps
  <2>5. CASE GetClientInfo(n) \/ RegisterClient(n) \/ HandleNewLeader(n) \/ ProposerNewLeader(n)
    BY <1>1, <2>1, <2>5 DEF GetClientInfo, RegisterClient, HandleNewLeader, ProposerNewLeader,
                       handlerVars, linkVars
  <2> QED BY <1>2, <2>1, <2>2, <2>3, <2>4, <2>5 DEF Handler, HandlerStep
<1>3. ASSUME NEW n \in Nodes, Decide(n) \/ Lose(n) PROVE StillIn(T) /\ UNCHANGED clientVars
  <2>1. /\ requestsIn[n] # <<>> /\ requestsIn' = [requestsIn EXCEPT ![n] = Tail(@)]
        /\ UNCHANGED <<sendChan, toNode, clientValues>> /\ UNCHANGED clientVars
    BY <1>3 DEF Decide, Lose, linkVars, clientVars
  <2> QED BY <2>1, ProposedKeeps
<1>4. ASSUME NEW n \in Nodes, LoseMessage(n) PROVE StillIn(T) /\ UNCHANGED clientVars
  <2>1. UNCHANGED <<sendChan, clientValues, requestsIn>> /\ UNCHANGED clientVars
    BY <1>4 DEF LoseMessage, clientVars, handlerVars
  <2> QED BY <1>1, <1>4, <2>1, TakeKeeps DEF LoseMessage, Leaves
<1>5. ASSUME NEW n \in Nodes, Execute(n) \/ Suspicion(n) \/ Settle(n) \/ Crash(n)
      PROVE  StillIn(T) /\ UNCHANGED clientVars
  <2>1. UNCHANGED <<sendChan, toNode, clientValues, requestsIn>> /\ UNCHANGED clientVars
    BY <1>5 DEF Execute, Suspicion, Settle, Publish, Crash, linkVars, clientVars, handlerVars
  <2> QED BY <1>1, <2>1
<1>6. CASE UNCHANGED vars
  BY <1>1, <1>6 DEF vars, linkVars, clientVars, handlerVars
<1> QED BY <1>2, <1>3, <1>4, <1>5, <1>6 DEF Next

LEMMA NextNothingNewer ==
  ASSUME ClientTypeOK, ClientTypeOK', OrderInv, AtMostOneSkipped, [Next]_vars
  PROVE  NothingNewer'
<1>1. Control
  BY ControlParts
<1>2. AllIn(Allowed(Newest, Done))
  BY NothingNewerIn DEF OrderInv
<1>3. Done \subseteq Done'
  BY DoneGrows
<1>4. NothingNewer' <=> StillIn(Allowed(Newest', Done'))
  BY NothingNewerThen
<1>5. CASE Counted(ClientStep)
  <2> DEFINE T == Allowed(Newest', Done')
  <2>1. ClientStep /\ UNCHANGED <<log, clientValues, requestsIn>>
    BY <1>5 DEF Counted, handlerVars
  <2>2. /\ Newest <= Newest' /\ Newest \in Int /\ Newest' \in Int
        /\ SendCommand => next \in Allowed(Newest', Done)
        /\ Resend => val \in Allowed(Newest', Done)
    BY <1>1, <2>1, NewestGrows
  <2>3. Allowed(Newest, Done) \subseteq T /\ Allowed(Newest', Done) \subseteq T
    BY <1>3, <2>2, AllowedMore
  <2>4. T \subseteq Commands
    BY DEF Allowed
  <2> HIDE DEF T
  <2>5. AllIn(T)
    BY <1>2, <2>3, AllInMore
  <2>6. StillIn(T)
    BY <1>1, <2>1, <2>2, <2>3, <2>4, <2>5, ClientStepKeeps
  <2> QED BY <1>4, <2>6 DEF T
<1>6. CASE ~Counted(ClientStep)
  <2> DEFINE T == Allowed(Newest, Done)
  <2>1. StillIn(T) /\ UNCHANGED clientVars
    BY <1>2, <1>6, OthersKeep
  <2>2. Newest' = Newest /\ Newest \in Int
    BY <2>1, NodesType DEF clientVars, Newest, ClientTypeOK
  <2>3. T \subseteq Allowed(Newest', Done')
    BY <1>3, <2>2, AllowedMore
  <2> HIDE DEF T
  <2> QED BY <1>4, <2>1, <2>3, StillInMore
<1> QED BY <1>5, <1>6

-----------------------------------------------------------------------------
(* Of two commands in a row, one is executed before those after them *)

\* What the leader has taken in was sent.
LEMMA NextLog ==
  ASSUME ClientTypeOK, ClientTypeOK', OrderInv, AtMostOneSkipped, [Next]_vars
  PROVE  \A i \in DOMAIN log' : \A d \in 1..(log'[i] - 2) :
           \E j \in 1..(i - 1) : log'[j] \in {d, d + 1}
<1>1. CASE UNCHANGED log
  BY <1>1 DEF AtMostOneSkipped
<1>2. ASSUME NEW n \in Nodes, Decide(n),
             DOMAIN log' = DOMAIN log \cup {Len(log) + 1},
             log'[Len(log) + 1] = Head(requestsIn[n]),
             \A i \in DOMAIN log : log'[i] = log[i] /\ i <= Len(log)
      PROVE  \A i \in DOMAIN log' : \A d \in 1..(log'[i] - 2) :
               \E j \in 1..(i - 1) : log'[j] \in {d, d + 1}
  <2> DEFINE new == Head(requestsIn[n])
  <2>1. new \in Allowed(Newest, Done)
    <3>1. AllIn(Allowed(Newest, Done))
      BY NothingNewerIn DEF OrderInv
    <3>2. /\ requestsIn[n] # <<>> /\ requestsIn' = [requestsIn EXCEPT ![n] = Tail(@)]
          /\ UNCHANGED <<sendChan, toNode, clientValues>>
      BY <1>2 DEF Decide, clientVars, linkVars
    <3> QED BY <3>1, <3>2, ProposedKeeps
  <2>2. \A d \in 1..(new - 2) : Executed(d) \/ Executed(d + 1)
    BY <2>1 DEF Allowed, PastIn, Done
  <2>3. DOMAIN log = 1..Len(log) /\ Len(log) \in Nat
    BY LenProperties DEF ClientTypeOK
  <2> HIDE DEF new
  <2>4. ASSUME NEW d \in 1..(new - 2)
        PROVE  \E j \in 1..Len(log) : log'[j] \in {d, d + 1}
    <3>1. PICK j \in DOMAIN log : log[j] \in {d, d + 1}
      BY <2>2, <2>4 DEF Executed
    <3> QED BY <1>2, <2>3, <3>1
  <2>5. ASSUME NEW i \in DOMAIN log, NEW d \in 1..(log'[i] - 2)
        PROVE  \E j \in 1..(i - 1) : log'[j] \in {d, d + 1}
    <3>1. PICK j \in 1..(i - 1) : log[j] \in {d, d + 1}
      BY <1>2, <2>5 DEF AtMostOneSkipped
    <3>2. j \in DOMAIN log
      BY <2>3, <2>5, <3>1
    <3> QED BY <1>2, <3>1, <3>2
  <2>6. Len(log) + 1 - 1 = Len(log)
    BY <2>3
  <2> QED BY <1>2, <2>4, <2>5, <2>6 DEF new
<1> QED BY <1>1, <1>2, LogGrows

\* The inductive invariant.
ClientInv == ClientTypeOK /\ OrderInv /\ AtMostOneSkipped

LEMMA NextInv ==
  ASSUME ClientInv, [Next]_vars
  PROVE  ClientInv'
<1>1. ClientTypeOK'
  BY NextType DEF ClientInv
<1>2. NothingNewer' /\ ResponsesTrue'
  BY <1>1, NextNothingNewer, NextResponsesTrue DEF ClientInv
<1>3. Control'
  BY <1>1, NextControl DEF ClientInv
<1>4. \A c \in Nat : PastIn(c, Done') => Past(c)'
  <2>1. ASSUME NEW c \in Nat, NEW d \in 1..(c - 2) PROVE d \in Nat /\ d + 1 \in Nat
    OBVIOUS
  <2> QED BY <2>1 DEF Past, PastIn, Done
<1>5. reqSeq' \in Nat /\ next' \in Nat /\ \A c \in Nat : c + 1 \in Nat
  <2>1. seqNum' \in 0..MaxCommands /\ reqSeq' \in 0..seqNum' /\ next' \in 0..seqNum'
    BY <1>1 DEF ClientTypeOK
  <2>2. seqNum' \in Nat
    BY <2>1
  <2>3. reqSeq' \in Nat /\ next' \in Nat
    BY <2>1, <2>2
  <2> QED BY <2>3
<1>6. InputInv'
  BY <1>3, <1>4, <1>5 DEF Control, InputInv, Past
<1>7. MainLoopInv'
  <2>1. ASSUME mainLoop' = "answered"
        PROVE  \E c \in Commands : Executed(c)' /\ (c = reqSeq' \/ Overtaken(c)')
    <3>1. PICK c \in Done' : c = reqSeq' \/ Overtaken(c)'
      BY <1>3, <2>1 DEF Control
    <3>2. Executed(c)'
      BY DEF Done
    <3>3. c \in Commands
      <4>1. PICK i \in DOMAIN log' : log'[i] = c
        BY <3>2 DEF Executed
      <4>2. log' \in Seq(Commands)
        BY <1>1 DEF ClientTypeOK
      <4> QED BY <4>1, <4>2, ElementOfSeq, LenProperties
    <3> QED BY <3>1, <3>2, <3>3
  <2> QED BY <1>3, <2>1 DEF Control, MainLoopInv
<1>8. TickersInv'
  BY <1>3 DEF Control, TickersInv
<1>9. OrderInv'
  BY <1>2, <1>6, <1>7, <1>8 DEF OrderInv
<1>10. AtMostOneSkipped'
  <2>1. Past(reqSeq)' /\ (responseOK' => Past(reqSeq + 1)')
    BY <1>3, <1>4, <1>5 DEF Control, Past
  <2>2. \A i \in DOMAIN log' : \A d \in 1..(log'[i] - 2) :
          \E j \in 1..(i - 1) : log'[j] \in {d, d + 1}
    BY <1>1, NextLog DEF ClientInv
  <2> QED BY <2>1, <2>2 DEF AtMostOneSkipped
<1> QED BY <1>1, <1>9, <1>10 DEF ClientInv

\* It holds in every run.
THEOREM ClientInvariantHolds == Spec => []ClientInv
<1>1. Init => ClientInv
  BY InitInv DEF ClientInv
<1>2. ClientInv /\ [Next]_vars => ClientInv'
  BY NextInv
<1> QED BY <1>1, <1>2, PTL DEF Spec

\* Client, handlers and the log keep their types in every run.
THEOREM ClientTypeCorrect == Spec => []ClientTypeOK
<1>1. ClientInv => ClientTypeOK
  BY DEF ClientInv
<1> QED BY <1>1, ClientInvariantHolds, PTL

\* What either goroutine of the client checked without the mutex still holds when
\* it acts on it, or the other went ahead by one request; and nothing on its way
\* is further ahead than that.
THEOREM OrderInvariant == Spec => []OrderInv
<1>1. ClientInv => OrderInv
  BY DEF ClientInv
<1> QED BY <1>1, ClientInvariantHolds, PTL

\* syncTxRx and the response case of the main loop: whatever is resent, lost or
\* redirected, and however the two goroutines interleave, of two commands in a
\* row one is executed before the client moves past them, and before the
\* replicated bank executes any command after them.
THEOREM SkipsAtMostOne == Spec => []AtMostOneSkipped
<1>1. ClientInv => AtMostOneSkipped
  BY DEF ClientInv
<1> QED BY <1>1, ClientInvariantHolds, PTL

-----------------------------------------------------------------------------
(* A command multiplies only by being sent again *)

\* The lines a command stands in: the four queues of every node, and the log.
Places == (Nodes \X (1..4)) \cup {<<0, 5>>}

LinesOf(connections, values, taken, decided) ==
  [p \in Places |->
     IF p[2] = 1 THEN connections[p[1]].Value
     ELSE IF p[2] = 2 THEN connections[p[1]].Timeout
     ELSE IF p[2] = 3 THEN values[p[1]]
     ELSE IF p[2] = 4 THEN taken[p[1]]
     ELSE decided]

Lines == LinesOf(toNode, clientValues, requestsIn, log)

\* Where a command stands in them.
Spots(L, c) == {s \in Places \X Nat : s[2] \in DOMAIN L[s[1]] /\ L[s[1]][s[2]] = c}

AllLines == [Places -> Seq(Commands)]

LEMMA PlacesAre ==
  /\ <<0, 5>> \in Places
  /\ \A n \in Nodes : /\ <<n, 1>> \in Places /\ <<n, 2>> \in Places
                      /\ <<n, 3>> \in Places /\ <<n, 4>> \in Places
  /\ \A p \in Places : p = <<0, 5>> \/ \E n \in Nodes, q \in 1..4 : p = <<n, q>>
BY DEF Places

Connections == [Nodes -> [Value : Seq(Commands), Timeout : Seq(Commands)]]
Waiting == [Nodes -> Seq(Commands)]

LEMMA LinesAre ==
  ASSUME NEW tn \in Connections, NEW cv \in Waiting, NEW ri \in Waiting,
         NEW lg \in Seq(Commands), NEW L, L = LinesOf(tn, cv, ri, lg)
  PROVE  /\ L \in AllLines
         /\ L[<<0, 5>>] = lg
         /\ \A n \in Nodes : /\ L[<<n, 1>>] = tn[n].Value
                             /\ L[<<n, 2>>] = tn[n].Timeout
                             /\ L[<<n, 3>>] = cv[n]
                             /\ L[<<n, 4>>] = ri[n]
<1>1. L[<<0, 5>>] = lg
  BY PlacesAre DEF LinesOf
<1>2. ASSUME NEW n \in Nodes
      PROVE  /\ L[<<n, 1>>] = tn[n].Value /\ L[<<n, 2>>] = tn[n].Timeout
             /\ L[<<n, 3>>] = cv[n] /\ L[<<n, 4>>] = ri[n]
  <2>1. <<n, 1>> \in Places /\ <<n, 2>> \in Places /\ <<n, 3>> \in Places /\ <<n, 4>> \in Places
    BY PlacesAre
  <2> QED BY <2>1 DEF LinesOf
<1>3. ASSUME NEW p \in Places PROVE L[p] \in Seq(Commands)
  <2>1. CASE p = <<0, 5>>
    BY <1>1, <2>1
  <2>2. ASSUME NEW n \in Nodes, NEW q \in 1..4, p = <<n, q>> PROVE L[p] \in Seq(Commands)
    <3>1. q = 1 \/ q = 2 \/ q = 3 \/ q = 4
      OBVIOUS
    <3>2. /\ tn[n].Value \in Seq(Commands) /\ tn[n].Timeout \in Seq(Commands)
          /\ cv[n] \in Seq(Commands) /\ ri[n] \in Seq(Commands)
      BY DEF Connections, Waiting
    <3> QED BY <1>2, <2>2, <3>1, <3>2
  <2> QED BY <2>1, <2>2, PlacesAre
<1>4. L \in AllLines
  <2>1. L = [p \in Places |-> L[p]]
    BY DEF LinesOf
  <2> QED BY <1>3, <2>1 DEF AllLines
<1> QED BY <1>1, <1>2, <1>4

\* The first of a line leaves it, and the others move up.
LEMMA Popped ==
  ASSUME NEW L \in AllLines, NEW M \in AllLines, NEW p \in Places, L[p] # <<>>,
         M[p] = Tail(L[p]), \A r \in Places : r # p => M[r] = L[r],
         NEW c, IsFiniteSet(Spots(L, c))
  PROVE  /\ IsFiniteSet(Spots(M, c))
         /\ Cardinality(Spots(M, c)) + (IF Head(L[p]) = c THEN 1 ELSE 0)
              <= Cardinality(Spots(L, c))
<1> DEFINE S == Spots(M, c)
           T == Spots(L, c) \ {<<p, 1>>}
           f == [s \in S |-> IF s[1] = p THEN <<p, s[2] + 1>> ELSE s]
<1>1. /\ L[p] \in Seq(Commands)
      /\ Head(L[p]) = L[p][1] /\ 1 \in DOMAIN L[p]
      /\ \A i \in DOMAIN Tail(L[p]) : i + 1 \in DOMAIN L[p] /\ Tail(L[p])[i] = L[p][i + 1]
  BY Taken DEF AllLines
<1>2. ASSUME NEW s \in S PROVE f[s] \in T
  <2>1. /\ s \in Places \X Nat /\ s = <<s[1], s[2]>>
        /\ s[2] \in DOMAIN M[s[1]] /\ M[s[1]][s[2]] = c
    BY DEF Spots
  <2>2. CASE s[1] = p
    <3>1. s[2] + 1 \in DOMAIN L[p] /\ L[p][s[2] + 1] = c
      BY <1>1, <2>1, <2>2
    <3>2. s[2] + 1 \in Nat /\ s[2] + 1 # 1
      <4>1. s[2] \in Nat /\ s[2] # 0
        <5>1. M[p] \in Seq(Commands)
          BY DEF AllLines
        <5>2. DOMAIN M[p] = 1..Len(M[p]) /\ Len(M[p]) \in Nat
          BY <5>1, LenProperties
        <5>3. s[2] \in DOMAIN M[p]
          BY <2>1, <2>2
        <5> QED BY <5>2, <5>3
      <4> QED BY <4>1
    <3>3. <<p, s[2] + 1>> \in Spots(L, c)
      BY <3>1, <3>2 DEF Spots
    <3>4. f[s] = <<p, s[2] + 1>>
      BY <2>2
    <3> QED BY <3>2, <3>3, <3>4
  <2>3. CASE s[1] # p
    <3>1. M[s[1]] = L[s[1]]
      BY <2>1, <2>3
    <3>2. s \in Spots(L, c)
      BY <2>1, <3>1 DEF Spots
    <3>3. f[s] = s /\ s # <<p, 1>>
      BY <2>1, <2>3
    <3> QED BY <3>2, <3>3
  <2> QED BY <2>2, <2>3
<1>3. ASSUME NEW s \in S, NEW t \in S, f[s] = f[t] PROVE s = t
  <2>1. s = <<s[1], s[2]>> /\ t = <<t[1], t[2]>> /\ s[2] \in Nat /\ t[2] \in Nat
    BY DEF Spots
  <2>2. /\ f[s] = IF s[1] = p THEN <<p, s[2] + 1>> ELSE s
        /\ f[t] = IF t[1] = p THEN <<p, t[2] + 1>> ELSE t
    OBVIOUS
  <2>3. f[s][1] = s[1] /\ f[t][1] = t[1]
    BY <2>1, <2>2
  <2>4. CASE s[1] = p
    <3>1. s[2] + 1 = t[2] + 1
      BY <1>3, <2>2, <2>3, <2>4
    <3> QED BY <1>3, <2>1, <2>3, <3>1
  <2>5. CASE s[1] # p
    BY <1>3, <2>2, <2>3, <2>5
  <2> QED BY <2>4, <2>5
<1>4. f \in Injection(S, T)
  <2>1. f \in [S -> T]
    BY <1>2
  <2> HIDE DEF f, S, T
  <2> QED BY <1>3, <2>1 DEF Injection, IsInjective
<1>5. /\ IsFiniteSet(T)
      /\ Cardinality(T) = IF <<p, 1>> \in Spots(L, c) THEN Cardinality(Spots(L, c)) - 1
                                                     ELSE Cardinality(Spots(L, c))
  BY FS_RemoveElement
<1>6. IsFiniteSet(S) /\ Cardinality(S) <= Cardinality(T)
  <2> HIDE DEF f, S, T
  <2> QED BY <1>4, <1>5, FS_Injection
<1>7. <<p, 1>> \in Spots(L, c) <=> Head(L[p]) = c
  BY <1>1 DEF Spots
<1>8. Cardinality(S) \in Nat /\ Cardinality(T) \in Nat /\ Cardinality(Spots(L, c)) \in Nat
  BY <1>5, <1>6, FS_CardinalityType
<1> HIDE DEF T
<1> QED BY <1>5, <1>6, <1>7, <1>8

\* One more joins a line at its end.
LEMMA Pushed ==
  ASSUME NEW L \in AllLines, NEW M \in AllLines, NEW p \in Places, NEW x \in Commands,
         M[p] = Append(L[p], x), \A r \in Places : r # p => M[r] = L[r],
         NEW c, IsFiniteSet(Spots(L, c))
  PROVE  /\ IsFiniteSet(Spots(M, c))
         /\ Cardinality(Spots(M, c))
              <= Cardinality(Spots(L, c)) + (IF x = c THEN 1 ELSE 0)
<1> DEFINE last == <<p, Len(L[p]) + 1>>
           T == IF x = c THEN Spots(L, c) \cup {last} ELSE Spots(L, c)
<1>1. /\ L[p] \in Seq(Commands)
      /\ DOMAIN M[p] = DOMAIN L[p] \cup {Len(L[p]) + 1}
      /\ M[p][Len(L[p]) + 1] = x
      /\ \A i \in DOMAIN L[p] : M[p][i] = L[p][i]
  BY Put DEF AllLines
<1>2. ASSUME NEW s \in Spots(M, c) PROVE s \in T
  <2>1. /\ s \in Places \X Nat /\ s = <<s[1], s[2]>>
        /\ s[2] \in DOMAIN M[s[1]] /\ M[s[1]][s[2]] = c
    BY DEF Spots
  <2>2. CASE s[1] # p \/ s[2] \in DOMAIN L[p]
    <3>1. s[2] \in DOMAIN L[s[1]] /\ L[s[1]][s[2]] = c
      BY <1>1, <2>1, <2>2
    <3> QED BY <2>1, <3>1 DEF Spots
  <2>3. CASE s[1] = p /\ s[2] = Len(L[p]) + 1
    BY <1>1, <2>1, <2>3
  <2> QED BY <1>1, <2>1, <2>2, <2>3
<1>3. /\ IsFiniteSet(Spots(L, c) \cup {last})
      /\ Cardinality(Spots(L, c) \cup {last}) <= Cardinality(Spots(L, c)) + 1
      /\ Cardinality(Spots(L, c)) \in Nat
  <2> HIDE DEF last
  <2>1. /\ IsFiniteSet(Spots(L, c) \cup {last})
        /\ Cardinality(Spots(L, c) \cup {last}) =
             IF last \in Spots(L, c) THEN Cardinality(Spots(L, c))
                                    ELSE Cardinality(Spots(L, c)) + 1
    BY FS_AddElement
  <2>2. Cardinality(Spots(L, c)) \in Nat
    BY FS_CardinalityType
  <2> QED BY <2>1, <2>2
<1>4. /\ IsFiniteSet(T)
      /\ Cardinality(T) <= Cardinality(Spots(L, c)) + (IF x = c THEN 1 ELSE 0)
  BY <1>3
<1>5. Spots(M, c) \in SUBSET T
  BY <1>2
<1> HIDE DEF T
<1>6. IsFiniteSet(Spots(M, c)) /\ Cardinality(Spots(M, c)) <= Cardinality(T)
  BY <1>4, <1>5, FS_Subset
<1>7. Cardinality(Spots(M, c)) \in Nat /\ Cardinality(T) \in Nat
  BY <1>4, <1>6, FS_CardinalityType
<1> QED BY <1>3, <1>4, <1>6, <1>7

\* The first of a line leaves it, for the end of another or for good.
LEMMA Moved ==
  ASSUME NEW L \in AllLines, NEW M \in AllLines, NEW p \in Places, NEW t \in Places,
         p # t, L[p] # <<>>, M[p] = Tail(L[p]),
         M[t] = L[t] \/ M[t] = Append(L[t], Head(L[p])),
         \A r \in Places : r # p /\ r # t => M[r] = L[r],
         NEW c, IsFiniteSet(Spots(L, c))
  PROVE  /\ IsFiniteSet(Spots(M, c))
         /\ Cardinality(Spots(M, c)) <= Cardinality(Spots(L, c))
<1> DEFINE K == [L EXCEPT ![p] = Tail(L[p])]
<1>1. L[p] \in Seq(Commands) /\ Head(L[p]) \in Commands /\ Tail(L[p]) \in Seq(Commands)
  BY Taken DEF AllLines
<1>2. /\ K \in AllLines /\ K[p] = Tail(L[p])
      /\ \A r \in Places : r # p => K[r] = L[r]
  BY <1>1 DEF AllLines
<1> HIDE DEF K
<1>3. /\ IsFiniteSet(Spots(K, c))
      /\ Cardinality(Spots(K, c)) + (IF Head(L[p]) = c THEN 1 ELSE 0)
           <= Cardinality(Spots(L, c))
  BY <1>2, Popped
<1>4. Cardinality(Spots(K, c)) \in Nat /\ Cardinality(Spots(L, c)) \in Nat
  BY <1>3, FS_CardinalityType
<1>5. CASE M[t] = L[t]
  <2>1. M = K
    <3>1. \A r \in Places : M[r] = K[r]
      BY <1>2, <1>5
    <3> QED BY <1>2, <3>1 DEF AllLines
  <2> QED BY <1>3, <1>4, <2>1
<1>6. CASE M[t] = Append(L[t], Head(L[p]))
  <2>1. M[t] = Append(K[t], Head(L[p])) /\ \A r \in Places : r # t => M[r] = K[r]
    BY <1>2, <1>6
  <2>2. /\ IsFiniteSet(Spots(M, c))
        /\ Cardinality(Spots(M, c))
             <= Cardinality(Spots(K, c)) + (IF Head(L[p]) = c THEN 1 ELSE 0)
    BY <1>1, <1>2, <1>3, <2>1, Pushed
  <2>3. Cardinality(Spots(M, c)) \in Nat
    BY <2>2, FS_CardinalityType
  <2> QED BY <1>3, <1>4, <2>2, <2>3
<1> QED BY <1>5, <1>6

\* The lines before a step and after it.
LEMMA LinesNow ==
  ASSUME ClientTypeOK
  PROVE  /\ Lines \in AllLines
         /\ Lines[<<0, 5>>] = log
         /\ \A n \in Nodes : /\ Lines[<<n, 1>>] = toNode[n].Value
                             /\ Lines[<<n, 2>>] = toNode[n].Timeout
                             /\ Lines[<<n, 3>>] = clientValues[n]
                             /\ Lines[<<n, 4>>] = requestsIn[n]
<1>1. Lines = LinesOf(toNode, clientValues, requestsIn, log)
  BY DEF Lines
<1>2. /\ toNode \in Connections /\ clientValues \in Waiting
      /\ requestsIn \in Waiting /\ log \in Seq(Commands)
  BY DEF ClientTypeOK, Connections, Waiting
<1> QED BY <1>1, <1>2, LinesAre

LEMMA LinesThen ==
  ASSUME ClientTypeOK'
  PROVE  /\ Lines' \in AllLines
         /\ Lines'[<<0, 5>>] = log'
         /\ \A n \in Nodes : /\ Lines'[<<n, 1>>] = toNode'[n].Value
                             /\ Lines'[<<n, 2>>] = toNode'[n].Timeout
                             /\ Lines'[<<n, 3>>] = clientValues'[n]
                             /\ Lines'[<<n, 4>>] = requestsIn'[n]
<1>1. Lines' = LinesOf(toNode', clientValues', requestsIn', log')
  BY DEF Lines, LinesOf
<1>2. /\ toNode' \in Connections /\ clientValues' \in Waiting
      /\ requestsIn' \in Waiting /\ log' \in Seq(Commands)
  BY DEF ClientTypeOK, Connections, Waiting
<1> QED BY <1>1, <1>2, LinesAre

\* Lines that agree in every queue and in the log agree.
Same(L, M, X) == \A r \in Places : r \notin X => M[r] = L[r]

LEMMA SameLines ==
  ASSUME NEW L, NEW M, NEW X \in SUBSET Places,
         <<0, 5>> \in X \/ M[<<0, 5>>] = L[<<0, 5>>],
         \A n \in Nodes :
           /\ <<n, 1>> \in X \/ M[<<n, 1>>] = L[<<n, 1>>]
           /\ <<n, 2>> \in X \/ M[<<n, 2>>] = L[<<n, 2>>]
           /\ <<n, 3>> \in X \/ M[<<n, 3>>] = L[<<n, 3>>]
           /\ <<n, 4>> \in X \/ M[<<n, 4>>] = L[<<n, 4>>]
  PROVE  Same(L, M, X)
<1> USE DEF Same
<1> SUFFICES ASSUME NEW r \in Places, r \notin X
             PROVE  M[r] = L[r]
  OBVIOUS
<1>1. CASE r = <<0, 5>>
  BY <1>1
<1>2. ASSUME NEW n \in Nodes, NEW q \in 1..4, r = <<n, q>> PROVE M[r] = L[r]
  <2>1. q = 1 \/ q = 2 \/ q = 3 \/ q = 4
    OBVIOUS
  <2> QED BY <1>2, <2>1
<1> QED BY <1>1, <1>2, PlacesAre

\* A step that takes the first of a line to the end of another, or drops it.
Moves ==
  \E p \in Places, t \in Places :
    /\ p # t /\ Lines[p] # <<>> /\ Lines'[p] = Tail(Lines[p])
    /\ Lines'[t] = Lines[t] \/ Lines'[t] = Append(Lines[t], Head(Lines[p]))
    /\ \A r \in Places : r # p /\ r # t => Lines'[r] = Lines[r]

LEMMA MovesStep ==
  ASSUME ClientTypeOK, ClientTypeOK', Moves,
         NEW c, IsFiniteSet(Spots(Lines, c))
  PROVE  /\ IsFiniteSet(Spots(Lines', c))
         /\ Cardinality(Spots(Lines', c)) <= Cardinality(Spots(Lines, c))
<1>1. Lines \in AllLines /\ Lines' \in AllLines
  BY LinesNow, LinesThen
<1> QED BY <1>1, Moved DEF Moves

\* A message that leaves a connection joins the handler's values, or is gone.
LEMMA LeavesMoves ==
  ASSUME ClientTypeOK, ClientTypeOK', NEW n \in Nodes, NEW kind \in {"Value", "Timeout"},
         Leaves(n, kind),
         DeliverClientValue(n, Head(toNode[n][kind])) \/ UNCHANGED clientValues,
         UNCHANGED <<requestsIn, log>>
  PROVE  Moves
<1> USE PlacesAre
<1> DEFINE p == IF kind = "Value" THEN <<n, 1>> ELSE <<n, 2>>
           t == <<n, 3>>
<1>10. <<n, 1>> \in Places /\ <<n, 2>> \in Places /\ t \in Places
  OBVIOUS
<1>11. /\ Lines[<<n, 1>>] = toNode[n].Value /\ Lines'[<<n, 1>>] = toNode'[n].Value
      /\ Lines[<<n, 2>>] = toNode[n].Timeout /\ Lines'[<<n, 2>>] = toNode'[n].Timeout
  BY LinesNow, LinesThen
<1>1. /\ toNode[n][kind] # <<>> /\ toNode'[n][kind] = Tail(toNode[n][kind])
      /\ \A m \in Nodes, k \in {"Value", "Timeout"} :
           m # n \/ k # kind => toNode'[m][k] = toNode[m][k]
  BY TakeType, TypeParts
<1>2. /\ p \in Places /\ t \in Places /\ p # t
      /\ Lines[p] = toNode[n][kind] /\ Lines'[p] = toNode'[n][kind]
  <2>1. CASE kind = "Value"
    BY <1>10, <1>11, <2>1
  <2>2. CASE kind = "Timeout"
    BY <1>10, <1>11, <2>2
  <2> QED BY <2>1, <2>2
<1>3. /\ clientValues'[n] = clientValues[n]
           \/ clientValues'[n] = Append(clientValues[n], Head(toNode[n][kind]))
      /\ \A m \in Nodes : m # n => clientValues'[m] = clientValues[m]
  BY DEF DeliverClientValue, ClientTypeOK
<1>4. Lines'[t] = Lines[t] \/ Lines'[t] = Append(Lines[t], Head(Lines[p]))
  BY <1>2, <1>3, LinesNow, LinesThen
<1>5. Same(Lines, Lines', {p, t})
  <2>1. Lines'[<<0, 5>>] = Lines[<<0, 5>>]
    BY LinesNow, LinesThen
  <2>2. ASSUME NEW m \in Nodes
        PROVE  /\ <<m, 1>> \in {p, t} \/ Lines'[<<m, 1>>] = Lines[<<m, 1>>]
               /\ <<m, 2>> \in {p, t} \/ Lines'[<<m, 2>>] = Lines[<<m, 2>>]
               /\ <<m, 3>> \in {p, t} \/ Lines'[<<m, 3>>] = Lines[<<m, 3>>]
               /\ <<m, 4>> \in {p, t} \/ Lines'[<<m, 4>>] = Lines[<<m, 4>>]
    <3>1. <<m, 1>> = p \/ toNode'[m].Value = toNode[m].Value
      BY <1>1
    <3>2. <<m, 2>> = p \/ toNode'[m].Timeout = toNode[m].Timeout
      BY <1>1
    <3>3. <<m, 3>> = t \/ clientValues'[m] = clientValues[m]
      BY <1>3
    <3> HIDE DEF p, t
    <3> QED BY <3>1, <3>2, <3>3, LinesNow, LinesThen
  <2> HIDE DEF p, t
  <2>3. {p, t} \in SUBSET Places
    BY <1>2
  <2> QED BY <2>1, <2>2, <2>3, SameLines
<1> HIDE DEF p, t
<1> QED BY <1>1, <1>2, <1>4, <1>5 DEF Moves, Same

LEMMA HandlerMoves ==
  ASSUME ClientTypeOK, ClientTypeOK', NEW n \in Nodes, Handler(n)
  PROVE  Moves \/ Lines' = Lines
<1> USE PlacesAre
<1>1. log' = log
  BY DEF Handler, serviceVars
<1>2. CASE UNCHANGED <<toNode, clientValues, requestsIn>>
  BY <1>1, <1>2 DEF Lines, LinesOf
<1>4. CASE HandleClientValue(n)
  <2>1. /\ Leaves(n, "Value")
        /\ DeliverClientValue(n, Head(toNode[n].Value)) \/ UNCHANGED clientValues
        /\ UNCHANGED requestsIn
    BY <1>4 DEF HandleClientValue, Take, Leaves
  <2> QED BY <1>1, <2>1, LeavesMoves
<1>5. CASE HandleClientTimeout(n)
  <2>1. /\ Leaves(n, "Timeout")
        /\ DeliverClientValue(n, Head(toNode[n].Timeout)) \/ UNCHANGED clientValues
        /\ UNCHANGED requestsIn
    BY <1>5 DEF HandleClientTimeout, Take, Leaves
  <2> QED BY <1>1, <2>1, LeavesMoves
<1>6. CASE TakeClientValue(n)
  <2> DEFINE p == <<n, 3>>
             t == <<n, 4>>
  <2>1. /\ p \in Places /\ t \in Places /\ p # t
        /\ Lines[p] = clientValues[n] /\ Lines'[p] = clientValues'[n]
        /\ Lines[t] = requestsIn[n] /\ Lines'[t] = requestsIn'[n]
    <3>1. p \in Places /\ t \in Places
      OBVIOUS
    <3>4. p # t
      OBVIOUS
    <3>2. Lines[p] = clientValues[n] /\ Lines[t] = requestsIn[n]
      BY LinesNow
    <3>3. Lines'[p] = clientValues'[n] /\ Lines'[t] = requestsIn'[n]
      BY LinesThen
    <3> QED BY <3>1, <3>2, <3>3, <3>4
  <2>2. /\ clientValues[n] # <<>> /\ clientValues'[n] = Tail(clientValues[n])
        /\ \A m \in Nodes : m # n => clientValues'[m] = clientValues[m]
    BY <1>6 DEF TakeClientValue, ClientTypeOK
  <2>3. /\ requestsIn'[n] = requestsIn[n]
             \/ requestsIn'[n] = Append(requestsIn[n], Head(clientValues[n]))
        /\ \A m \in Nodes : m # n => requestsIn'[m] = requestsIn[m]
    BY <1>6 DEF TakeClientValue, ClientTypeOK
  <2>4. UNCHANGED toNode
    BY <1>6 DEF TakeClientValue, linkVars
  <2>5. Same(Lines, Lines', {p, t})
    <3>1. Lines'[<<0, 5>>] = Lines[<<0, 5>>]
      BY <1>1, LinesNow, LinesThen
    <3>2. ASSUME NEW m \in Nodes
          PROVE  /\ <<m, 1>> \in {p, t} \/ Lines'[<<m, 1>>] = Lines[<<m, 1>>]
                 /\ <<m, 2>> \in {p, t} \/ Lines'[<<m, 2>>] = Lines[<<m, 2>>]
                 /\ <<m, 3>> \in {p, t} \/ Lines'[<<m, 3>>] = Lines[<<m, 3>>]
                 /\ <<m, 4>> \in {p, t} \/ Lines'[<<m, 4>>] = Lines[<<m, 4>>]
      BY <2>2, <2>3, <2>4, LinesNow, LinesThen
    <3> HIDE DEF p, t
    <3>3. {p, t} \in SUBSET Places
      BY <2>1
    <3> QED BY <3>1, <3>2, <3>3, SameLines
  <2> HIDE DEF p, t
  <2>6. Lines[p] # <<>> /\ Lines'[p] = Tail(Lines[p])
    BY <2>1, <2>2
  <2>7. Lines'[t] = Lines[t] \/ Lines'[t] = Append(Lines[t], Head(Lines[p]))
    BY <2>1, <2>3
  <2>8. \A r \in Places : r # p /\ r # t => Lines'[r] = Lines[r]
    BY <2>5 DEF Same
  <2> QED BY <2>1, <2>6, <2>7, <2>8, Zenon DEF Moves
<1>7. CASE \/ GetClientInfo(n) \/ RegisterClient(n)
           \/ HandleNewLeader(n) \/ ProposerNewLeader(n)
  BY <1>2, <1>7 DEF GetClientInfo, RegisterClient, HandleNewLeader, ProposerNewLeader,
                    linkVars, handlerVars
<1> QED BY <1>4, <1>5, <1>6, <1>7 DEF Handler, HandlerStep

LEMMA DecideMoves ==
  ASSUME ClientTypeOK, ClientTypeOK', NEW n \in Nodes, Decide(n) \/ Lose(n)
  PROVE  Moves
<1> DEFINE p == <<n, 4>>
           t == <<0, 5>>
<1>1. p \in Places /\ t \in Places
  BY PlacesAre
<1>2. p # t
  OBVIOUS
<1>3. /\ Lines[p] = requestsIn[n] /\ Lines[t] = log
      /\ \A m \in Nodes : /\ Lines[<<m, 1>>] = toNode[m].Value
                          /\ Lines[<<m, 2>>] = toNode[m].Timeout
                          /\ Lines[<<m, 3>>] = clientValues[m]
                          /\ Lines[<<m, 4>>] = requestsIn[m]
  BY LinesNow
<1>4. /\ Lines'[p] = requestsIn'[n] /\ Lines'[t] = log'
      /\ \A m \in Nodes : /\ Lines'[<<m, 1>>] = toNode'[m].Value
                          /\ Lines'[<<m, 2>>] = toNode'[m].Timeout
                          /\ Lines'[<<m, 3>>] = clientValues'[m]
                          /\ Lines'[<<m, 4>>] = requestsIn'[m]
  BY LinesThen
<1>5. /\ requestsIn[n] # <<>> /\ requestsIn'[n] = Tail(requestsIn[n])
      /\ \A m \in Nodes : m # n => requestsIn'[m] = requestsIn[m]
      /\ log' = log \/ log' = Append(log, Head(requestsIn[n]))
      /\ UNCHANGED <<toNode, clientValues>>
  BY DEF Decide, Lose, linkVars, ClientTypeOK
<1>6. Same(Lines, Lines', {p, t})
  <2>1. ASSUME NEW m \in Nodes
        PROVE  /\ <<m, 1>> \in {p, t} \/ Lines'[<<m, 1>>] = Lines[<<m, 1>>]
               /\ <<m, 2>> \in {p, t} \/ Lines'[<<m, 2>>] = Lines[<<m, 2>>]
               /\ <<m, 3>> \in {p, t} \/ Lines'[<<m, 3>>] = Lines[<<m, 3>>]
               /\ <<m, 4>> \in {p, t} \/ Lines'[<<m, 4>>] = Lines[<<m, 4>>]
    BY <1>3, <1>4, <1>5
  <2>2. {p, t} \in SUBSET Places
    BY <1>1
  <2>3. <<0, 5>> \in {p, t}
    OBVIOUS
  <2> HIDE DEF p, t
  <2> QED BY <2>1, <2>2, <2>3, SameLines
<1> HIDE DEF p, t
<1>7. Lines[p] # <<>> /\ Lines'[p] = Tail(Lines[p])
  BY <1>3, <1>4, <1>5
<1>8. Lines'[t] = Lines[t] \/ Lines'[t] = Append(Lines[t], Head(Lines[p]))
  BY <1>3, <1>4, <1>5
<1>9. \A r \in Places : r # p /\ r # t => Lines'[r] = Lines[r]
  BY <1>6 DEF Same
<1> QED BY <1>1, <1>2, <1>7, <1>8, <1>9, Zenon DEF Moves

\* Only the main loop's send adds to a line, and the send is counted.
LEMMA ClientStepAdds ==
  ASSUME ClientTypeOK, ClientTypeOK', Counted(ClientStep),
         NEW c \in Commands, IsFiniteSet(Spots(Lines, c)),
         Cardinality(Spots(Lines, c)) <= sends[c]
  PROVE  /\ IsFiniteSet(Spots(Lines', c))
         /\ Cardinality(Spots(Lines', c)) <= sends'[c]
<1>1. /\ UNCHANGED <<clientValues, requestsIn, log>>
      /\ sends'[c] = sends[c] + (IF toNode' # toNode /\ Head(sendChan).seq = c THEN 1 ELSE 0)
      /\ sends[c] \in Nat
  BY DEF Counted, handlerVars, ClientTypeOK
<1>2. CASE UNCHANGED toNode
  <2>1. Lines' = Lines
    BY <1>1, <1>2 DEF Lines, LinesOf
  <2>2. sends'[c] = sends[c]
    BY <1>1, <1>2
  <2> QED BY <2>1, <2>2
<1>5. \A k \in Nodes : /\ Lines[<<k, 1>>] = toNode[k].Value
                       /\ Lines[<<k, 2>>] = toNode[k].Timeout
                       /\ Lines[<<k, 3>>] = clientValues[k]
                       /\ Lines[<<k, 4>>] = requestsIn[k]
  BY LinesNow, Zenon
<1>6. \A k \in Nodes : /\ Lines'[<<k, 1>>] = toNode'[k].Value
                       /\ Lines'[<<k, 2>>] = toNode'[k].Timeout
                       /\ Lines'[<<k, 3>>] = clientValues'[k]
                       /\ Lines'[<<k, 4>>] = requestsIn'[k]
  BY LinesThen, Zenon
<1>3. CASE SendMessage /\ toNode' # toNode
  <2> DEFINE m == Head(sendChan)
             kind == m.type
             n == currentConn
             p == IF kind = "Value" THEN <<n, 1>> ELSE <<n, 2>>
  <2>1. n \in Nodes /\ kind \in {"Value", "Timeout"} /\ m.seq \in Commands
    <3>1. m \in [type : {"Value", "Timeout"}, seq : Commands]
      <4> DEFINE S == [type : {"Value", "Timeout"}, seq : Commands]
      <4>1. sendChan \in Seq(S) /\ sendChan # <<>>
        BY <1>3 DEF SendMessage, ClientTypeOK
      <4> HIDE DEF S
      <4>2. Head(sendChan) \in S
        BY <4>1, Taken
      <4> QED BY <4>2 DEF S
    <3>2. n \in Nodes
      BY DEF ClientTypeOK
    <3> HIDE DEF m
    <3> QED BY <3>1, <3>2
  <2>2. toNode' = [toNode EXCEPT ![n][kind] = Append(toNode[n][kind], m.seq)]
    BY <1>3 DEF SendMessage
  <2>3. /\ toNode'[n][kind] = Append(toNode[n][kind], m.seq)
        /\ \A k \in Nodes, j \in {"Value", "Timeout"} :
             k # n \/ j # kind => toNode'[k][j] = toNode[k][j]
    <3> DEFINE q == Append(toNode[n][kind], m.seq)
    <3>1. q \in Seq(Commands)
      <4>1. toNode[n][kind] \in Seq(Commands)
        BY <2>1 DEF ClientTypeOK
      <4> HIDE DEF m, n, kind
      <4> QED BY <2>1, <4>1, Put
    <3>2. toNode \in [Nodes -> [Value : Seq(Commands), Timeout : Seq(Commands)]]
      BY DEF ClientTypeOK
    <3> HIDE DEF q, m, n, kind
    <3> QED BY <2>1, <2>2, <3>1, <3>2, ToNode DEF q
  <2>10. <<n, 1>> \in Places /\ <<n, 2>> \in Places
    BY <2>1, PlacesAre
  <2>4. p \in Places /\ Lines'[p] = Append(Lines[p], m.seq)
    <3>1. /\ Lines[<<n, 1>>] = toNode[n].Value /\ Lines'[<<n, 1>>] = toNode'[n].Value
          /\ Lines[<<n, 2>>] = toNode[n].Timeout /\ Lines'[<<n, 2>>] = toNode'[n].Timeout
      BY <1>5, <1>6, <2>1
    <3>2. (kind = "Value" => p = <<n, 1>>) /\ (kind = "Timeout" => p = <<n, 2>>)
      OBVIOUS
    <3> HIDE DEF p, kind, n, m
    <3>3. CASE kind = "Value"
      BY <2>3, <2>10, <3>1, <3>2, <3>3
    <3>4. CASE kind = "Timeout"
      BY <2>3, <2>10, <3>1, <3>2, <3>4
    <3> QED BY <2>1, <3>3, <3>4
  <2>5. Same(Lines, Lines', {p})
    <3>1. ASSUME NEW k \in Nodes
          PROVE  /\ <<k, 1>> \in {p} \/ Lines'[<<k, 1>>] = Lines[<<k, 1>>]
                 /\ <<k, 2>> \in {p} \/ Lines'[<<k, 2>>] = Lines[<<k, 2>>]
                 /\ <<k, 3>> \in {p} \/ Lines'[<<k, 3>>] = Lines[<<k, 3>>]
                 /\ <<k, 4>> \in {p} \/ Lines'[<<k, 4>>] = Lines[<<k, 4>>]
      <4>1. <<k, 1>> = p \/ toNode'[k].Value = toNode[k].Value
        BY <2>1, <2>3
      <4>2. <<k, 2>> = p \/ toNode'[k].Timeout = toNode[k].Timeout
        BY <2>1, <2>3
      <4> HIDE DEF p
      <4> QED BY <1>1, <1>5, <1>6, <4>1, <4>2
    <3>2. Lines'[<<0, 5>>] = Lines[<<0, 5>>]
      BY <1>1, LinesNow, LinesThen
    <3>3. {p} \in SUBSET Places
      BY <2>4
    <3> HIDE DEF p
    <3> QED BY <3>1, <3>2, <3>3, SameLines
  <2> HIDE DEF p
  <2>6. \A r \in Places : r # p => Lines'[r] = Lines[r]
    BY <2>5 DEF Same
  <2>7. Lines \in AllLines /\ Lines' \in AllLines
    BY LinesNow, LinesThen
  <2>8. /\ IsFiniteSet(Spots(Lines', c))
        /\ Cardinality(Spots(Lines', c))
             <= Cardinality(Spots(Lines, c)) + (IF m.seq = c THEN 1 ELSE 0)
    <3> HIDE DEF m
    <3> QED BY <2>1, <2>4, <2>6, <2>7, Pushed
  <2>9. Cardinality(Spots(Lines', c)) \in Nat /\ Cardinality(Spots(Lines, c)) \in Nat
    BY <2>8, FS_CardinalityType
  <2> QED BY <1>1, <1>3, <2>8, <2>9
<1>4. SendMessage \/ UNCHANGED toNode
  BY DEF Counted, ClientStep, MainLoop, Proceed, EnterCommand, SendCommand, ArmTimer,
         HandleTimeout, SetResponseOK, CompareTimeout, Resend, Connect, HandleRedirect, HandleResponse, DeliverClientInfo, linkVars
<1> QED BY <1>2, <1>3, <1>4

\* Counted in all lines, a command is sent as often as it stands there, or more.
SendsInv ==
  \A c \in Commands : IsFiniteSet(Spots(Lines, c)) /\ Cardinality(Spots(Lines, c)) <= sends[c]

LEMMA InitSends ==
  ASSUME Init
  PROVE  SendsInv
<1>1. ClientTypeOK
  BY InitInv
<1>2. \A p \in Places : Lines[p] = <<>>
  <2>1. /\ log = <<>>
        /\ \A n \in Nodes : /\ toNode[n].Value = <<>> /\ toNode[n].Timeout = <<>>
                            /\ clientValues[n] = <<>> /\ requestsIn[n] = <<>>
    BY DEF Init, LinksInit, HandlerInit
  <2>2. ASSUME NEW n \in Nodes, NEW q \in 1..4 PROVE Lines[<<n, q>>] = <<>>
    <3>1. q = 1 \/ q = 2 \/ q = 3 \/ q = 4
      OBVIOUS
    <3> QED BY <1>1, <2>1, <3>1, LinesNow
  <2>3. Lines[<<0, 5>>] = <<>>
    BY <1>1, <2>1, LinesNow
  <2> SUFFICES ASSUME NEW p \in Places
               PROVE  Lines[p] = <<>>
    OBVIOUS
  <2>4. p = <<0, 5>> \/ \E n \in Nodes, q \in 1..4 : p = <<n, q>>
    BY PlacesAre
  <2> QED BY <2>2, <2>3, <2>4
<1>3. ASSUME NEW c PROVE Spots(Lines, c) = {}
  BY <1>2 DEF Spots
<1>4. \A c \in Commands : sends[c] = 0
  BY DEF Init
<1> QED BY <1>3, <1>4, FS_EmptySet DEF SendsInv

LEMMA NextSends ==
  ASSUME ClientTypeOK, ClientTypeOK', SendsInv, [Next]_vars
  PROVE  SendsInv'
<1> SUFFICES ASSUME NEW c \in Commands
             PROVE  /\ IsFiniteSet(Spots(Lines', c))
                    /\ Cardinality(Spots(Lines', c)) <= sends'[c]
  BY DEF SendsInv, Spots
<1>1. /\ IsFiniteSet(Spots(Lines, c))
      /\ Cardinality(Spots(Lines, c)) <= sends[c]
      /\ Cardinality(Spots(Lines, c)) \in Nat
  BY FS_CardinalityType DEF SendsInv
<1>2. CASE Lines' = Lines /\ UNCHANGED sends
  BY <1>1, <1>2
<1>3. CASE Moves /\ UNCHANGED sends
  <2>1. /\ IsFiniteSet(Spots(Lines', c))
        /\ Cardinality(Spots(Lines', c)) <= Cardinality(Spots(Lines, c))
    BY <1>1, <1>3, MovesStep
  <2>2. Cardinality(Spots(Lines', c)) \in Nat /\ sends[c] \in Nat
    BY <2>1, FS_CardinalityType DEF ClientTypeOK
  <2> QED BY <1>1, <1>3, <2>1, <2>2
<1>4. CASE Counted(ClientStep)
  BY <1>1, <1>4, ClientStepAdds
<1>5. ASSUME NEW n \in Nodes, Handler(n)
      PROVE  (Moves \/ Lines' = Lines) /\ UNCHANGED sends
  BY <1>5, HandlerMoves DEF Handler, serviceVars
<1>6. ASSUME NEW n \in Nodes, Decide(n) \/ Lose(n)
      PROVE  Moves /\ UNCHANGED sends
  BY <1>6, DecideMoves DEF Decide, Lose
<1>7. CASE UNCHANGED <<toNode, clientValues, requestsIn, log, sends>>
  BY <1>2, <1>7 DEF Lines, LinesOf
<1>10. ASSUME NEW n \in Nodes, LoseMessage(n)
       PROVE  (Moves \/ Lines' = Lines) /\ UNCHANGED sends
  <2>1. UNCHANGED <<clientValues, requestsIn, log, sends>>
    BY <1>10 DEF LoseMessage, handlerVars
  <2>2. CASE UNCHANGED toNode
    BY <2>1, <2>2 DEF Lines, LinesOf
  <2> QED BY <1>10, <2>1, <2>2, LeavesMoves DEF LoseMessage, Leaves
<1>8. ASSUME NEW n \in Nodes, Execute(n) \/ Suspicion(n) \/ Settle(n) \/ Crash(n)
      PROVE  UNCHANGED <<toNode, clientValues, requestsIn, log, sends>>
  BY <1>8 DEF Execute, Suspicion, Settle, Publish, Crash, handlerVars, linkVars
<1>9. ASSUME UNCHANGED vars
      PROVE  UNCHANGED <<toNode, clientValues, requestsIn, log, sends>>
  BY <1>9 DEF vars, linkVars, handlerVars, serviceVars
<1> QED BY <1>2, <1>3, <1>4, <1>5, <1>6, <1>7, <1>8, <1>9, <1>10 DEF Next

\* What is under way and what is in the log are spots in the lines.
LEMMA SpotsCounted ==
  ASSUME ClientTypeOK, NEW c, IsFiniteSet(Spots(Lines, c))
  PROVE  /\ Cardinality(UnderWay(c)) + Occurrences(c, log) <= Cardinality(Spots(Lines, c))
         /\ Cardinality(UnderWay(c)) \in Nat /\ Occurrences(c, log) \in Nat
<1> DEFINE S == Spots(Lines, c)
           Queued == {s \in S : s[1][2] # 5}
           Logged == {s \in S : s[1][2] = 5}
           Found == {i \in DOMAIN log : log[i] = c}
           f == [u \in UnderWay(c) |-> <<<<u[1], u[2]>>, u[3]>>]
           g == [i \in Found |-> <<<<0, 5>>, i>>]
<1>1. /\ IsFiniteSet(Queued) /\ IsFiniteSet(Logged)
      /\ Cardinality(Queued) + Cardinality(Logged) = Cardinality(S)
  <2>1. Queued \in SUBSET S /\ Logged \in SUBSET S
    OBVIOUS
  <2>2. IsFiniteSet(Queued) /\ IsFiniteSet(Logged)
    <3> HIDE DEF S, Queued, Logged
    <3> QED BY <2>1, FS_Subset DEF S
  <2>3. Queued \cup Logged = S /\ Queued \cap Logged = {}
    OBVIOUS
  <2>4. Cardinality(Queued \cup Logged)
          = Cardinality(Queued) + Cardinality(Logged) - Cardinality(Queued \cap Logged)
    <3> HIDE DEF Queued, Logged
    <3> QED BY <2>2, FS_Union
  <2>5. Cardinality({}) = 0
    BY FS_EmptySet
  <2>6. Cardinality(Queued) \in Nat /\ Cardinality(Logged) \in Nat
    <3> HIDE DEF Queued, Logged
    <3> QED BY <2>2, FS_CardinalityType
  <2>7. Cardinality(Queued \cap Logged) = 0 /\ Cardinality(Queued \cup Logged) = Cardinality(S)
    BY <2>3, <2>5
  <2> HIDE DEF S, Queued, Logged
  <2> QED BY <2>2, <2>4, <2>6, <2>7
<1>2. ASSUME NEW u \in UnderWay(c)
      PROVE  /\ u = <<u[1], u[2], u[3]>> /\ f[u] = <<<<u[1], u[2]>>, u[3]>>
             /\ f[u] \in Queued
  <2>1. PICK n \in Nodes, q \in 1..4 :
          u \in {<<n, q, i>> : i \in {i \in DOMAIN Queues(n)[q] : Queues(n)[q][i] = c}}
    BY DEF UnderWay
  <2>2. PICK i \in DOMAIN Queues(n)[q] : Queues(n)[q][i] = c /\ u = <<n, q, i>>
    BY <2>1
  <2>3. Queues(n)[q] = Lines[<<n, q>>]
    <3>1. q = 1 \/ q = 2 \/ q = 3 \/ q = 4
      OBVIOUS
    <3>2. /\ Queues(n)[1] = toNode[n].Value /\ Queues(n)[2] = toNode[n].Timeout
          /\ Queues(n)[3] = clientValues[n] /\ Queues(n)[4] = requestsIn[n]
      BY DEF Queues
    <3>3. /\ Lines[<<n, 1>>] = toNode[n].Value /\ Lines[<<n, 2>>] = toNode[n].Timeout
          /\ Lines[<<n, 3>>] = clientValues[n] /\ Lines[<<n, 4>>] = requestsIn[n]
      BY LinesNow
    <3> QED BY <3>1, <3>2, <3>3
  <2>4. <<n, q>> \in Places /\ i \in Nat
    <3>1. <<n, q>> \in Places
      BY DEF Places
    <3>2. Lines[<<n, q>>] \in Seq(Commands)
      BY <3>1, LinesNow DEF AllLines
    <3>3. DOMAIN Lines[<<n, q>>] \subseteq Nat
      BY <3>2, LenProperties
    <3> QED BY <2>2, <2>3, <3>1, <3>3
  <2>5. <<<<n, q>>, i>> \in S
    BY <2>2, <2>3, <2>4 DEF Spots
  <2>6. f[u] = <<<<n, q>>, i>> /\ q # 5
    BY <2>2
  <2>7. <<<<n, q>>, i>>[1][2] # 5
    BY <2>6
  <2> HIDE DEF S
  <2> QED BY <2>2, <2>5, <2>6, <2>7
<1>3. /\ IsFiniteSet(UnderWay(c))
      /\ Cardinality(UnderWay(c)) <= Cardinality(Queued)
  <2>1. f \in [UnderWay(c) -> Queued]
    BY <1>2
  <2>2. ASSUME NEW u \in UnderWay(c), NEW v \in UnderWay(c), f[u] = f[v] PROVE u = v
    <3>1. /\ f[u][1][1] = u[1] /\ f[u][1][2] = u[2] /\ f[u][2] = u[3]
          /\ f[v][1][1] = v[1] /\ f[v][1][2] = v[2] /\ f[v][2] = v[3]
      <4> HIDE DEF f
      <4> QED BY <1>2
    <3>2. u[1] = v[1] /\ u[2] = v[2] /\ u[3] = v[3]
      BY <2>2, <3>1
    <3> HIDE DEF f
    <3> QED BY <1>2, <3>2
  <2> HIDE DEF f, Queued
  <2>3. f \in Injection(UnderWay(c), Queued)
    BY <2>1, <2>2 DEF Injection, IsInjective
  <2> QED BY <1>1, <2>3, FS_Injection
<1>4. /\ IsFiniteSet(Found)
      /\ Cardinality(Found) <= Cardinality(Logged)
  <2>1. ASSUME NEW i \in Found PROVE g[i] = <<<<0, 5>>, i>> /\ g[i] \in Logged
    <3>1. <<0, 5>> \in Places /\ Lines[<<0, 5>>] = log
      BY PlacesAre, LinesNow
    <3>2. i \in Nat
      <4>1. log \in Seq(Commands)
        BY DEF ClientTypeOK
      <4>2. DOMAIN log = 1..Len(log) /\ Len(log) \in Nat
        BY <4>1, LenProperties
      <4>3. i \in DOMAIN log
        OBVIOUS
      <4> QED BY <4>2, <4>3
    <3>3. <<<<0, 5>>, i>> \in S
      BY <3>1, <3>2 DEF Spots
    <3>4. <<<<0, 5>>, i>>[1][2] = 5
      OBVIOUS
    <3> HIDE DEF S
    <3> QED BY <3>3, <3>4
  <2>2. g \in [Found -> Logged]
    BY <2>1
  <2>3. ASSUME NEW i \in Found, NEW j \in Found, g[i] = g[j] PROVE i = j
    <3>1. g[i][2] = i /\ g[j][2] = j
      OBVIOUS
    <3> HIDE DEF g, Found
    <3> QED BY <2>3, <3>1
  <2> HIDE DEF g, Found, Logged
  <2>4. g \in Injection(Found, Logged)
    BY <2>2, <2>3 DEF Injection, IsInjective
  <2> QED BY <1>1, <2>4, FS_Injection
<1>5. Occurrences(c, log) = Cardinality(Found)
  BY DEF Occurrences
<1> HIDE DEF S, Queued, Logged, Found
<1>6. /\ Cardinality(UnderWay(c)) \in Nat /\ Cardinality(Found) \in Nat
      /\ Cardinality(Queued) \in Nat /\ Cardinality(Logged) \in Nat
  BY <1>1, <1>3, <1>4, FS_CardinalityType
<1> QED BY <1>1, <1>3, <1>4, <1>5, <1>6 DEF S

\* syncTxRx, handlers and proposers: between the client's connection and the log
\* a command multiplies only by being sent again, whatever is redirected, lost
\* or decided.
THEOREM SentAsOften == Spec => []DuplicatesOnlyByResending
<1>1. Init => ClientInv /\ SendsInv
  BY InitInv, InitSends DEF ClientInv
<1>2. ClientInv /\ SendsInv /\ [Next]_vars => (ClientInv /\ SendsInv)'
  <2>1. ASSUME ClientInv, SendsInv, [Next]_vars PROVE ClientInv' /\ SendsInv'
    <3>1. ClientInv'
      BY <2>1, NextInv
    <3> QED BY <2>1, <3>1, NextSends DEF ClientInv
  <2> QED BY <2>1
<1>3. ClientInv /\ SendsInv => DuplicatesOnlyByResending
  <2>1. ASSUME ClientInv, SendsInv, NEW c \in Commands
        PROVE  Cardinality(UnderWay(c)) + Occurrences(c, log) <= sends[c]
    <3>1. /\ IsFiniteSet(Spots(Lines, c)) /\ Cardinality(Spots(Lines, c)) <= sends[c]
      BY <2>1 DEF SendsInv
    <3>2. Cardinality(UnderWay(c)) + Occurrences(c, log) <= Cardinality(Spots(Lines, c))
      BY <2>1, <3>1, SpotsCounted DEF ClientInv
    <3>3. /\ Cardinality(UnderWay(c)) \in Nat /\ Occurrences(c, log) \in Nat
          /\ Cardinality(Spots(Lines, c)) \in Nat /\ sends[c] \in Nat
      BY <2>1, <3>1, SpotsCounted, FS_CardinalityType DEF ClientInv, ClientTypeOK
    <3> QED BY <3>1, <3>2, <3>3
  <2> QED BY <2>1 DEF DuplicatesOnlyByResending
<1> QED BY <1>1, <1>2, <1>3, PTL DEF Spec

=============================================================================
