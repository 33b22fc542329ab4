--------------------------- MODULE ClientInvariant ---------------------------
(***************************************************************************)
(* AtMostOneSkipped is not inductive: it says neither what is on its way   *)
(* nor what the two goroutines have checked and not acted on yet.  OrderInv*)
(* says that.  The two together, with the types, are.                      *)
(***************************************************************************)
EXTENDS ClientProperties

\* The newest command sent is at most one ahead of the request in flight.  While
\* the main loop is about to set reqSeq back, at most one ahead of that.
Newest == IF mainLoop \in {"Value", "Timeout"} THEN val + 1 ELSE reqSeq + 1

Sent(c) == c <= Newest /\ Past(c)

AllSent(s) == \A i \in DOMAIN s : Sent(s[i])

NothingNewer ==
  /\ \A i \in DOMAIN sendChan : Sent(sendChan[i].seq)
  /\ \A n \in Nodes :
       /\ AllSent(toNode[n].Value) /\ AllSent(toNode[n].Timeout)
       /\ AllSent(clientValues[n]) /\ AllSent(requestsIn[n])

ResponsesTrue ==
  \A n \in Nodes : \A i \in DOMAIN toClient[n] :
    toClient[n][i].type = "Response" => Executed(toClient[n][i].seq)

\* The input goroutine has read that the last request was answered.
InputInv ==
  input = "send" => next = reqSeq + 1 /\ Past(next)

\* The input goroutine got ahead of the main loop by one request, and will not
\* send another before the main loop has gone on.
Overtaken(c) == c = reqSeq - 1 /\ ~responseOK /\ input # "send"

\* What the main loop checked still holds, or it was overtaken.
MainLoopInv ==
  /\ mainLoop = "answered" =>
       \E c \in Commands : Executed(c) /\ (c = reqSeq \/ Overtaken(c))
  /\ mainLoop \in {"timedOut", "Value", "Timeout"} => val > 0
  /\ mainLoop \in {"Value", "Timeout"} => val = reqSeq \/ Overtaken(val)

\* No ticker runs before the first request.
TickersInv ==
  responseTimer # "stopped" \/ selected \in {"running", "ticked"} \/ input = "arm"
    => reqSeq > 0

OrderInv ==
  /\ NothingNewer
  /\ ResponsesTrue
  /\ InputInv
  /\ MainLoopInv
  /\ TickersInv
=============================================================================
