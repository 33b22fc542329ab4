-------------------------- MODULE ClientProperties --------------------------
(***************************************************************************)
(* What a client may rely on, and what it may not (README, section 4).     *)
(***************************************************************************)
EXTENDS ClientService

\* Types: the client is always at a node, nothing is numbered beyond what was
\* entered, and no copy of the leader is ahead of what was published.
ClientTypeOK ==
  /\ up \subseteq Nodes
  /\ links \in [Nodes -> Stages]
  /\ toNode \in [Nodes -> [Value : Seq(Commands), Timeout : Seq(Commands)]]
  /\ toClient \in [Nodes -> Seq(Redirect \cup Response)]
  /\ seqNum \in 0..MaxCommands /\ reqSeq \in 0..seqNum
  /\ responseOK \in BOOLEAN
  /\ currentConn \in Nodes /\ connTable \subseteq Nodes
  /\ sendChan \in Seq([type : {"Value", "Timeout"}, seq : Commands])
  /\ responseTimer \in Tickers /\ selected \in Tickers \cup {"current"}
  /\ input \in {"idle", "send", "arm"} /\ next \in 0..seqNum
  /\ mainLoop \in LoopSteps /\ val \in 0..seqNum
  /\ timeouts \in Nat
  /\ published \in [Nodes -> Seq(Nodes \cup {NoLeader})]
  /\ handlerRead \in [Nodes -> Nat] /\ proposerRead \in [Nodes -> Nat]
  /\ \A n \in Nodes : {handlerRead[n], proposerRead[n]} \subseteq 1..Len(published[n])
  /\ clientValues \in [Nodes -> Seq(Commands)]
  /\ requestsIn \in [Nodes -> Seq(Commands)]
  /\ log \in Seq(Commands)
  /\ applied \in [Nodes -> 0..Len(log)]
  /\ sends \in [Commands -> Nat]
  /\ {changes, crashes, losses} \subseteq Nat

Occurrences(c, s) == Cardinality({i \in DOMAIN s : s[i] = c})

Executed(c) == \E i \in DOMAIN log : log[i] = c

\* "wait for a response to the previous request before sending a new one", a
\* comment in the client: violated, see README.
Synchronous == [][reqSeq' > reqSeq /\ reqSeq > 0 => Executed(reqSeq)]_vars

\* Of two commands entered one after the other, at least one is executed before
\* any command after them.
Past(c) == \A d \in 1..(c - 2) : Executed(d) \/ Executed(d + 1)

\* What is left of synchronous sending: the client moves past at most one of two
\* commands that follow each other without its being executed, and commands get
\* into the log in that order too.
AtMostOneSkipped ==
  /\ Past(reqSeq)
  /\ responseOK => Past(reqSeq + 1)
  /\ \A i \in DOMAIN log : \A d \in 1..(log[i] - 2) :
       \E j \in 1..(i - 1) : log[j] \in {d, d + 1}

\* Where a command is on its way from the client's connection to the log.
Queues(n) == <<toNode[n].Value, toNode[n].Timeout, clientValues[n], requestsIn[n]>>

UnderWay(c) ==
  UNION {{<<n, q, i>> : i \in {i \in DOMAIN Queues(n)[q] : Queues(n)[q][i] = c}} :
           n \in Nodes, q \in 1..4}

\* Between client, handlers, proposers and log a command multiplies only by
\* being sent again.
DuplicatesOnlyByResending ==
  \A c \in Commands : Cardinality(UnderWay(c)) + Occurrences(c, log) <= sends[c]

\* "no command has been decided twice": violated, see README.
ExecutedOnce == \A c \in Commands : Occurrences(c, log) <= 1

\* A timer the main loop waits on goes off unless the response comes: violated,
\* see README.
TimesOut ==
  \A k \in 0..(MaxTimeouts - 1) :
    ~responseOK /\ timeouts = k /\ input = "idle" /\ Ticking = "running"
      ~> (responseOK \/ timeouts > k)

\* A command whose response did not come in time goes out to a node again:
\* violated for the benchmark client, see README.
SentAgain ==
  \A c \in Commands :
    (\E i \in DOMAIN sendChan : sendChan[i] = [type |-> "Timeout", seq |-> c])
      ~> \E n \in Nodes : Occurrences(c, toNode[n].Timeout) > 0


\* Every command entered is sent: violated, see README.
EverySent == \A c \in Commands : seqNum >= c ~> reqSeq >= c
=============================================================================
