------------------------------ MODULE Network -------------------------------
(***************************************************************************)
(* lab3/network on every node: who dials whom at start-up, the table       *)
(* Connections, and the goroutines that write to it: the main loop         *)
(* (SendMsgTo) and the one that empties SendChan.  Neither holds the mutex *)
(* while it reads the table.  What is read from a connection is in         *)
(* ReceiveLoop.                                                            *)
(***************************************************************************)
EXTENDS Integers, Sequences, FiniteSets

CONSTANTS
  NumNodes,    \* len(netConf.Nodes)
  MaxStarts,   \* bound: starts of processes, restarts included
  MaxCrashes   \* bound: crashes not caused by the network code itself

VARIABLES
  phase,        \* down, dialing, listening (served by AcceptTCP from here on)
  toDial,       \* nodes InitConns has still to dial
  conns,        \* every connection made: its two nodes, the sockets still open
  Connections,  \* a node's table: the connection to each other node, or None
  backlog,      \* connections the kernel accepted and AcceptTCP did not return
  sender,       \* a goroutine's SendMessage: where it is, the node it sends to,
                \* and what CloseConn was called with
  starts, crashes

vars == <<phase, toDial, conns, Connections, backlog, sender, starts, crashes>>

ASSUME NetworkAssumption ==
  NumNodes \in Nat \ {0} /\ MaxStarts \in Nat /\ MaxCrashes \in Nat

Nodes == 0..(NumNodes - 1)

None == 0

Goroutines == {"main", "sendChan"}

Idle == [at |-> "idle", to |-> -1, conn |-> None]

NoConnections == [m \in Nodes |-> None]

Init ==
  /\ phase = [n \in Nodes |-> "down"]
  /\ toDial = [n \in Nodes |-> {}]
  /\ conns = <<>>
  /\ Connections = [n \in Nodes |-> NoConnections]
  /\ backlog = [n \in Nodes |-> <<>>]
  /\ sender = [n \in Nodes |-> [g \in Goroutines |-> Idle]]
  /\ starts = 0 /\ crashes = 0

Peer(n, c) == CHOOSE m \in conns[c].pair : m # n

Whole(c) == conns[c].open = conns[c].pair

Shut(n, cs) == [c \in DOMAIN cs |-> [cs[c] EXCEPT !.open = @ \ {n}]]

-----------------------------------------------------------------------------
(* Start-up *)

Start(n) ==
  /\ phase[n] = "down"
  /\ starts < MaxStarts
  /\ starts' = starts + 1
  /\ phase' = [phase EXCEPT ![n] = "dialing"]
  /\ toDial' = [toDial EXCEPT ![n] = Nodes \ {n}]
  /\ UNCHANGED <<conns, Connections, backlog, sender, crashes>>

\* Mutant of Dial: a node that listens goes on dialling those it is not
\* connected to.
DialAgain(n) ==
  /\ phase[n] # "down"
  /\ \E m \in Nodes \ {n} :
       /\ Connections[n][m] = None
       /\ toDial' = [toDial EXCEPT ![n] = @ \ {m}]
       /\ \/ /\ phase[m] = "listening"
             /\ conns' = Append(conns, [pair |-> {n, m}, open |-> {n, m}])
             /\ Connections' = [Connections EXCEPT ![n][m] = Len(conns')]
             /\ backlog' = [backlog EXCEPT ![m] = Append(@, Len(conns'))]
          \/ /\ phase[m] # "listening"
             /\ UNCHANGED <<conns, Connections, backlog>>
  /\ UNCHANGED <<phase, sender, starts, crashes>>

\* One round of the loop in InitConns; the nodes are dialled in the order of
\* netConf.json.  There is no second attempt.
Dial(n) ==
  /\ phase[n] = "dialing"
  /\ \E m \in toDial[n] :
       /\ \A k \in toDial[n] : m <= k
       /\ toDial' = [toDial EXCEPT ![n] = @ \ {m}]
       /\ \/ /\ phase[m] = "listening"
             /\ conns' = Append(conns, [pair |-> {n, m}, open |-> {n, m}])
             /\ Connections' = [Connections EXCEPT ![n][m] = Len(conns')]
             /\ backlog' = [backlog EXCEPT ![m] = Append(@, Len(conns'))]
          \/ /\ phase[m] # "listening"
             /\ UNCHANGED <<conns, Connections, backlog>>
  /\ UNCHANGED <<phase, sender, starts, crashes>>

StartServer(n) ==
  /\ phase[n] = "dialing"
  /\ toDial[n] = {}
  /\ phase' = [phase EXCEPT ![n] = "listening"]
  /\ UNCHANGED <<toDial, conns, Connections, backlog, sender, starts, crashes>>

\* Mutant of AcceptConn: entered under the node's own id.
AcceptConnOwn(n) ==
  /\ phase[n] = "listening"
  /\ backlog[n] # <<>>
  /\ Connections' = [Connections EXCEPT ![n][n] = Head(backlog[n])]
  /\ backlog' = [backlog EXCEPT ![n] = Tail(@)]
  /\ UNCHANGED <<phase, toDial, conns, sender, starts, crashes>>

\* Mutant of AcceptConn: the first connection with a node is kept.
AcceptConnFirst(n) ==
  /\ phase[n] = "listening"
  /\ backlog[n] # <<>>
  /\ LET c == Head(backlog[n])
     IN  Connections' = IF Connections[n][Peer(n, c)] = None
                          THEN [Connections EXCEPT ![n][Peer(n, c)] = c] ELSE Connections
  /\ backlog' = [backlog EXCEPT ![n] = Tail(@)]
  /\ UNCHANGED <<phase, toDial, conns, sender, starts, crashes>>

\* AcceptTCP: the remote address names the node, and the connection replaces
\* the one in the table, which is not closed.
AcceptConn(n) ==
  /\ phase[n] = "listening"
  /\ backlog[n] # <<>>
  /\ LET c == Head(backlog[n])
     IN  Connections' = [Connections EXCEPT ![n][Peer(n, c)] = c]
  /\ backlog' = [backlog EXCEPT ![n] = Tail(@)]
  /\ UNCHANGED <<phase, toDial, conns, sender, starts, crashes>>

Down(n) ==
  /\ phase' = [phase EXCEPT ![n] = "down"]
  /\ toDial' = [toDial EXCEPT ![n] = {}]
  /\ conns' = Shut(n, conns)
  /\ Connections' = [Connections EXCEPT ![n] = NoConnections]
  /\ backlog' = [backlog EXCEPT ![n] = <<>>]
  /\ sender' = [sender EXCEPT ![n] = [g \in Goroutines |-> Idle]]
  /\ UNCHANGED starts

Crash(n) ==
  /\ phase[n] # "down"
  /\ crashes < MaxCrashes
  /\ crashes' = crashes + 1
  /\ Down(n)

-----------------------------------------------------------------------------
(* SendMessage: it looks the connection up, looks it up again to write, and  *)
(* if the write failed a third time for CloseConn, which closes what it was  *)
(* given and only then deletes the entry of that node.                       *)

Goto(n, g, at, m, c) ==
  sender' = [sender EXCEPT ![n][g] = [at |-> at, to |-> m, conn |-> c]]

SendMessage(n, g, m) ==
  /\ phase[n] = "listening"
  /\ sender[n][g] = Idle
  /\ m # n /\ Connections[n][m] # None
  /\ Goto(n, g, "found", m, None)
  /\ UNCHANGED <<phase, toDial, conns, Connections, backlog, starts, crashes>>

\* The first writes after the peer closed may still succeed, and are lost.
Write(n, g) ==
  /\ sender[n][g].at = "found"
  /\ LET m == sender[n][g].to
         c == Connections[n][m]
     IN  /\ c # None
         /\ \/ n \in conns[c].open /\ sender' = [sender EXCEPT ![n][g] = Idle]
            \/ ~Whole(c) /\ Goto(n, g, "failed", m, None)
  /\ UNCHANGED <<phase, toDial, conns, Connections, backlog, starts, crashes>>

\* The call CloseConn(n.Connections[message.To]).
CallCloseConn(n, g) ==
  /\ sender[n][g].at = "failed"
  /\ LET m == sender[n][g].to
     IN  Connections[n][m] # None /\ Goto(n, g, "CloseConn", m, Connections[n][m])
  /\ UNCHANGED <<phase, toDial, conns, Connections, backlog, starts, crashes>>

\* c.Close()
Close(n, g) ==
  /\ sender[n][g].at = "CloseConn"
  /\ LET c == sender[n][g].conn
     IN  /\ conns' = [conns EXCEPT ![c].open = @ \ {n}]
         /\ Goto(n, g, "closed", sender[n][g].to, c)
  /\ UNCHANGED <<phase, toDial, Connections, backlog, starts, crashes>>

\* delete(n.Connections, nodeID): the entry of the node that c led to, whatever
\* connection AcceptTCP has entered there by now.
Delete(n, g) ==
  /\ sender[n][g].at = "closed"
  /\ LET c == sender[n][g].conn
     IN  Connections' = [Connections EXCEPT ![n][Peer(n, c)] = None]
  /\ sender' = [sender EXCEPT ![n][g] = Idle]
  /\ UNCHANGED <<phase, toDial, conns, backlog, starts, crashes>>

\* Write, or Close, of a connection the other goroutine has just deleted: a nil
\* pointer, and the process ends.
Panic(n, g) ==
  /\ sender[n][g].at \in {"found", "failed"}
  /\ Connections[n][sender[n][g].to] = None
  /\ Down(n)
  /\ UNCHANGED crashes

Sending(n, g) ==
  \/ \E m \in Nodes : SendMessage(n, g, m)
  \/ Write(n, g)
  \/ CallCloseConn(n, g)
  \/ Close(n, g)
  \/ Delete(n, g)
  \/ Panic(n, g)

Next == \E n \in Nodes :
  \/ Start(n)
  \/ Dial(n)
  \/ StartServer(n)
  \/ AcceptConn(n)
  \/ Crash(n)
  \/ \E g \in Goroutines : Sending(n, g)

Spec == Init /\ [][Next]_vars

\* Start-up and the accept loop go on; nothing says that a node is started, or
\* that anything is sent.
Fairness == \A n \in Nodes : WF_vars(Dial(n) \/ StartServer(n)) /\ WF_vars(AcceptConn(n))

FairSpec == Spec /\ Fairness

-----------------------------------------------------------------------------
\* Types: a table holds connections of its own node, under the other's id.
NetworkTypeOK ==
  /\ phase \in [Nodes -> {"down", "dialing", "listening"}]
  /\ toDial \in [Nodes -> SUBSET Nodes]
  /\ \A c \in DOMAIN conns : /\ conns[c].open \subseteq conns[c].pair
                             /\ conns[c].pair \subseteq Nodes
                             /\ Cardinality(conns[c].pair) = 2
  /\ \A n, m \in Nodes : Connections[n][m] # None =>
       Connections[n][m] \in DOMAIN conns /\ conns[Connections[n][m]].pair = {n, m}
  /\ \A n \in Nodes : \A i \in DOMAIN backlog[n] :
       backlog[n][i] \in DOMAIN conns /\ n \in conns[backlog[n][i]].pair

\* Two running processes never hold two connections with each other: a node
\* dials before it listens, so that of two nodes at most one dials the other.
OneConnection ==
  \A c, d \in DOMAIN conns :
    Whole(c) /\ Whole(d) /\ conns[c].pair = conns[d].pair => c = d

\* An old connection never stands in for the one two running nodes have: each
\* table holds that one or, if the entry was deleted with an older connection,
\* none, unless it still waits to be accepted.
NoStaleEntry ==
  \A c \in DOMAIN conns : \A n \in conns[c].pair :
    Whole(c) => \/ Connections[n][Peer(n, c)] \in {c, None}
                \/ \E i \in DOMAIN backlog[n] : backlog[n][i] = c

\* CloseConn takes the connection it closed out of the table: one between two
\* running nodes that was accepted is in both.  Violated, see README.
WholeIsUsed ==
  \A c \in DOMAIN conns : \A n \in conns[c].pair :
    Whole(c) => \/ Connections[n][Peer(n, c)] = c
                \/ \E i \in DOMAIN backlog[n] : backlog[n][i] = c

\* "Assumes the connection is broken": SendMessage closes no connection whose
\* both ends are open.  Violated, see README.
ClosesBroken ==
  [][\A c \in DOMAIN conns : \A n \in conns[c].open :
       Whole(c) /\ n \notin conns'[c].open => phase'[n] = "down"]_vars

\* A failed write is no reason for the process to end.  Violated, see README.
SendersSurvive ==
  \A n \in Nodes, g \in Goroutines :
    sender[n][g].at \in {"found", "failed"} => Connections[n][sender[n][g].to] # None

Linked(n, m) == Connections[n][m] # None /\ Whole(Connections[n][m])

\* Nodes that run stay connected or become so.  Violated, see README.
StartsConnected ==
  \A n, m \in Nodes : n # m =>
    (phase[n] = "listening" /\ phase[m] = "listening")
      ~> (Linked(n, m) \/ phase[n] = "down" \/ phase[m] = "down")
=============================================================================
