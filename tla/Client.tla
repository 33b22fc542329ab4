------------------------------- MODULE Client -------------------------------
(***************************************************************************)
(* lab5/client2: the goroutine that reads commands from the user and the   *)
(* main loop, whose select handles messages, the send channel and the      *)
(* timer.  They share the variables below.  Only syncTxRx, which runs in   *)
(* both, and the setting of responseOK are under the mutex; the checks     *)
(* before them are not, so a check and what follows are steps of their own.*)
(*                                                                         *)
(* client2_bench differs in where the commands come from and in that its   *)
(* main loop has no case for a message of type Timeout on the send channel.*)
(***************************************************************************)
EXTENDS ClientDefs

CONSTANTS
  Benchmark,    \* the client is client2_bench
  Patience,     \* the user waits until this many nodes know the client
  MaxTimeouts   \* bound: timeouts in a run

VARIABLES
  seqNum, reqSeq, responseOK, currentConn,
  connTable,      \* nodes connTable has an entry for
  sendChan,
  responseTimer,  \* the ticker responseTimer points to, see Tickers
  selected,       \* the ticker the main loop's select waits on
  input,          \* where the input goroutine is: idle, send or arm
  next,           \* the command it is about to send, 0 if none
  mainLoop,       \* where the main loop is, see LoopSteps
  val,            \* the command it may send again, 0 if none
  timeouts        \* counts timeouts, for MaxTimeouts

clientVars == <<seqNum, reqSeq, responseOK, currentConn, connTable, sendChan,
                responseTimer, selected, input, next, mainLoop, val, timeouts>>

ASSUME ClientAssumption ==
  Benchmark \in BOOLEAN /\ Patience \in 0..NumNodes /\ MaxTimeouts \in Nat

\* Stop does not empty the ticker's channel: a ticker that is stopped may still
\* hold a tick.
Tickers == {"running", "stopped", "ticked"}

\* At its select; about to set responseOK; about to compare val with reqSeq;
\* about to enter syncTxRx(val, "Value") or syncTxRx(val, "Timeout").
LoopSteps == {"select", "answered", "timedOut", "Value", "Timeout"}

ClientInit ==
  /\ seqNum = 0 /\ reqSeq = 0
  /\ responseOK = TRUE
  /\ currentConn = 0
  /\ connTable = {}
  /\ sendChan = <<>>
  /\ responseTimer = "stopped"
  /\ selected = "current"
  /\ input = "idle" /\ next = 0
  /\ mainLoop = "select" /\ val = 0
  /\ timeouts = 0

-----------------------------------------------------------------------------
(* The input goroutine *)

\* connectToNodes dials every node in a goroutine of its own.
Connect(n) ==
  /\ n \in up
  /\ Advance(n, "dialing", "accepted")
  /\ connTable' = connTable \cup {n}
  /\ UNCHANGED <<up, toNode, toClient, seqNum, reqSeq, responseOK, currentConn,
                 sendChan, responseTimer, selected, input, next, mainLoop, val, timeouts>>

\* A valid command gets the next number; others are refused and change nothing.
inputToValue ==
  /\ seqNum < MaxCommands
  /\ seqNum' = seqNum + 1

\* If the last request was answered, the command after it in seqCmd is sent.
\* Otherwise the new command stays in seqCmd.
EnterCommand ==
  /\ input = "idle"
  /\ Cardinality({n \in Nodes : links[n] = "known"}) >= Patience
  /\ inputToValue
  /\ \/ responseOK /\ input' = "send" /\ next' = reqSeq + 1
     \/ ~responseOK /\ UNCHANGED <<input, next>>
  /\ UNCHANGED <<linkVars, reqSeq, responseOK, currentConn, connTable, sendChan,
                 responseTimer, selected, mainLoop, val, timeouts>>

\* Mutant of SendCommand: responseOK is not reset.
SendCommandAnswered ==
  /\ input = "send"
  /\ reqSeq' = next
  /\ sendChan' = Append(sendChan, [type |-> "Value", seq |-> next])
  /\ input' = "arm" /\ next' = 0
  /\ UNCHANGED <<linkVars, seqNum, responseOK, currentConn, connTable,
                 responseTimer, selected, mainLoop, val, timeouts>>

\* syncTxRx as far as the send on SendChan.  From here to the new ticker the
\* goroutine holds the mutex.
SendCommand ==
  /\ input = "send"
  /\ responseOK' = FALSE
  /\ reqSeq' = next
  /\ sendChan' = Append(sendChan, [type |-> "Value", seq |-> next])
  /\ input' = "arm" /\ next' = 0
  /\ UNCHANGED <<linkVars, seqNum, currentConn, connTable, responseTimer,
                 selected, mainLoop, val, timeouts>>

\* A main loop that is in its select already goes on waiting on the old ticker.
ArmTimer ==
  /\ input = "arm"
  /\ input' = "idle"
  /\ responseTimer' = "running"
  /\ selected' \in IF mainLoop = "select" /\ selected = "current"
                     THEN {"current", responseTimer} ELSE {selected}
  /\ UNCHANGED <<linkVars, seqNum, reqSeq, responseOK, currentConn, connTable,
                 sendChan, next, mainLoop, val, timeouts>>

-----------------------------------------------------------------------------
(* The main loop.  After each case the select looks up responseTimer anew. *)

\* syncTxRx in the main loop, which first waits for the mutex.  The request in
\* flight becomes val, also if the input goroutine has sent the next by now.
Resend ==
  /\ mainLoop \in {"Value", "Timeout"}
  /\ input # "arm"
  /\ responseOK' = FALSE
  /\ reqSeq' = val
  /\ sendChan' = Append(sendChan, [type |-> mainLoop, seq |-> val])
  /\ responseTimer' = "running"
  /\ mainLoop' = "select" /\ val' = 0
  /\ UNCHANGED <<linkVars, seqNum, currentConn, connTable, selected, input, next,
                 timeouts>>

\* The node whose connection the loop switches to: the one named, if there is
\* an entry for it or a second dial succeeds (nobody listens on that connection).
SwitchTo(n) ==
  \/ /\ n \in connTable
     /\ currentConn' = n
     /\ UNCHANGED connTable
  \/ /\ n \in up \ connTable
     /\ currentConn' = n
     /\ connTable' = connTable \cup {n}
  \/ /\ n \notin connTable \cup up
     /\ UNCHANGED <<currentConn, connTable>>

\* The select takes a message, which listenOnConn read from the connection.
Read(n, m) ==
  /\ mainLoop = "select"
  /\ selected' = "current"
  /\ toClient[n] # <<>>
  /\ m = Head(toClient[n])
  /\ toClient' = [toClient EXCEPT ![n] = Tail(@)]

\* Mutant of HandleRedirect: the number is not compared.
HandleRedirectAny(n) ==
  \E m \in Redirect :
    /\ Read(n, m)
    /\ SwitchTo(m.node)
    /\ mainLoop' = "Value" /\ val' = m.seq
    /\ UNCHANGED <<up, links, toNode, seqNum, reqSeq, responseOK, sendChan,
                   responseTimer, input, next, timeouts>>

\* Only the request in flight is to be sent again.
HandleRedirect(n) ==
  \E m \in Redirect :
    /\ Read(n, m)
    /\ SwitchTo(m.node)
    /\ \/ m.seq = reqSeq /\ mainLoop' = "Value" /\ val' = m.seq
       \/ m.seq # reqSeq /\ UNCHANGED <<mainLoop, val>>
    /\ UNCHANGED <<up, links, toNode, seqNum, reqSeq, responseOK, sendChan,
                   responseTimer, input, next, timeouts>>

\* Every response stops the ticker, also one for another command.
HandleResponse(n) ==
  \E m \in Response :
    /\ Read(n, m)
    /\ responseTimer' \in IF responseTimer = "running" THEN {"stopped", "ticked"}
                                                      ELSE {responseTimer}
    /\ \/ m.seq = reqSeq /\ mainLoop' = "answered"
       \/ m.seq # reqSeq /\ UNCHANGED mainLoop
    /\ UNCHANGED <<up, links, toNode, seqNum, reqSeq, responseOK, currentConn,
                   connTable, sendChan, input, next, val, timeouts>>

\* By now the input goroutine may have sent the next request.
SetResponseOK ==
  /\ mainLoop = "answered"
  /\ input # "arm"
  /\ responseOK' = TRUE
  /\ mainLoop' = "select"
  /\ UNCHANGED <<linkVars, seqNum, reqSeq, currentConn, connTable, sendChan,
                 responseTimer, selected, input, next, val, timeouts>>

\* Getinfo is answered with ClientInfo.
DeliverClientInfo(n) ==
  /\ mainLoop = "select"
  /\ n \in up
  /\ Advance(n, "asked", "told")
  /\ selected' = "current"
  /\ UNCHANGED <<up, toNode, toClient, seqNum, reqSeq, responseOK, currentConn,
                 connTable, sendChan, responseTimer, input, next, mainLoop, val, timeouts>>

\* Mutant of Sendable: timeouts are dropped, as client2_bench does.
SendableValue == {"Value"}

\* Types the main loop's switch on the send channel has a case for.
Sendable == IF Benchmark THEN {"Value"} ELSE {"Value", "Timeout"}

\* The message goes to the node the client is at now, and is lost when there
\* is no connection or the node is gone.
SendMessage ==
  /\ mainLoop = "select"
  /\ sendChan # <<>>
  /\ sendChan' = Tail(sendChan)
  /\ LET m == Head(sendChan)
     IN  \/ /\ m.type \in Sendable
            /\ currentConn \in connTable \cap up
            /\ toNode' = [toNode EXCEPT ![currentConn][m.type] = Append(@, m.seq)]
         \/ /\ m.type \notin Sendable \/ currentConn \notin connTable \cap up
            /\ UNCHANGED toNode
  /\ selected' = "current"
  /\ UNCHANGED <<up, links, toClient, seqNum, reqSeq, responseOK, currentConn,
                 connTable, responseTimer, input, next, mainLoop, val, timeouts>>

\* Mutant of NextNode: no wrap-around.
NextNodeUnwrapped == currentConn - 1

NextNode == IF currentConn = 0 THEN NumNodes - 1 ELSE currentConn - 1

Ticking == IF selected = "current" THEN responseTimer ELSE selected

\* A tick: the request in flight is looked up, and the client moves on to the
\* next node.  A ticker that was stopped before has no further tick.
HandleTimeout ==
  /\ timeouts < MaxTimeouts
  /\ timeouts' = timeouts + 1
  /\ mainLoop = "select"
  /\ Ticking \in {"running", "ticked"}
  /\ responseTimer' = IF selected = "current" /\ responseTimer = "ticked"
                        THEN "stopped" ELSE responseTimer
  /\ selected' = "current"
  /\ mainLoop' = "timedOut" /\ val' = reqSeq
  /\ currentConn' = NextNode
  /\ UNCHANGED <<linkVars, seqNum, reqSeq, responseOK, connTable, sendChan, input,
                 next>>

\* Sent again unless the input goroutine has sent the next request meanwhile.
\* Then the comparison that follows in the code fails as well: only the main loop
\* itself sets reqSeq back.
CompareTimeout ==
  /\ mainLoop = "timedOut"
  /\ \/ val = reqSeq /\ mainLoop' = "Timeout" /\ UNCHANGED val
     \/ val # reqSeq /\ mainLoop' = "select" /\ val' = 0
  /\ UNCHANGED <<linkVars, seqNum, reqSeq, responseOK, currentConn, connTable,
                 sendChan, responseTimer, selected, input, next, timeouts>>

MainLoop(n) ==
  \/ HandleRedirect(n)
  \/ HandleResponse(n)
  \/ DeliverClientInfo(n)

\* What the main loop goes on with after an unlocked check.
Proceed ==
  \/ SetResponseOK
  \/ CompareTimeout
  \/ Resend

ClientStep ==
  \/ EnterCommand
  \/ SendCommand
  \/ ArmTimer
  \/ SendMessage
  \/ HandleTimeout
  \/ Proceed
  \/ \E n \in Nodes : Connect(n) \/ MainLoop(n)
=============================================================================
