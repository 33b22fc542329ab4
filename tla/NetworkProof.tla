---------------------------- MODULE NetworkProof ----------------------------
(***************************************************************************)
(* Connections between nodes, for any number of nodes, starts and crashes: *)
(* two running processes never have two, and an older one never stands in  *)
(* for the one they have.                                                  *)
(***************************************************************************)
EXTENDS Network, FiniteSetTheorems, SequenceTheorems, TLAPS

Connection == [pair : SUBSET Nodes, open : SUBSET Nodes]

SenderAt == [at : {"idle", "found", "failed", "CloseConn", "closed"}, to : Int, conn : Nat]

SenderType == [Nodes -> [Goroutines -> SenderAt]]

NetworkTypes ==
  /\ phase \in [Nodes -> {"down", "dialing", "listening"}]
  /\ toDial \in [Nodes -> SUBSET Nodes]
  /\ conns \in Seq(Connection)
  /\ Connections \in [Nodes -> [Nodes -> Nat]]
  /\ backlog \in [Nodes -> Seq(Nat)]
  /\ sender \in SenderType

\* A connection is between two nodes, and those that have it open run.
ConnsInv ==
  \A c \in DOMAIN conns :
    /\ \E n, m \in Nodes : n # m /\ conns[c].pair = {n, m}
    /\ conns[c].open \subseteq conns[c].pair
    /\ \A n \in conns[c].open : phase[n] # "down"

\* A node that still has to dial another is not connected to it.
DialInv ==
  \A n \in Nodes : phase[n] = "dialing" =>
    \A m \in toDial[n] : m # n /\ \A c \in DOMAIN conns : Whole(c) => conns[c].pair # {n, m}

\* A connection whose ends are both open is the last between its nodes.
LastInv ==
  \A c, d \in DOMAIN conns : Whole(c) /\ conns[c].pair = conns[d].pair => d <= c

\* Table and backlog: what waits to be accepted is newer than what it replaces.
TableInv ==
  \A n, m \in Nodes : Connections[n][m] # None =>
    Connections[n][m] \in DOMAIN conns /\ conns[Connections[n][m]].pair = {n, m}

BacklogInv ==
  \A n \in Nodes :
    /\ phase[n] # "listening" => backlog[n] = <<>>
    /\ \A i \in DOMAIN backlog[n] :
         /\ backlog[n][i] \in DOMAIN conns
         /\ n \in conns[backlog[n][i]].pair
         /\ \A m \in Nodes : conns[backlog[n][i]].pair = {n, m} =>
              Connections[n][m] < backlog[n][i]
         /\ \A j \in DOMAIN backlog[n] : i < j => backlog[n][i] < backlog[n][j]

\* Connections are accepted in the order in which they were made.
QueuedInv ==
  \A n \in Nodes : \A i \in DOMAIN backlog[n] : \A d \in DOMAIN conns :
    conns[d].pair = conns[backlog[n][i]].pair /\ backlog[n][i] < d =>
      \E j \in DOMAIN backlog[n] : backlog[n][j] = d

\* A goroutine sends to another node, and CloseConn has a connection to it.
SendsFrom(s, n, cs) ==
  /\ s.at # "idle" => s.to \in Nodes \ {n}
  /\ s.at \in {"CloseConn", "closed"} => s.conn \in DOMAIN cs /\ cs[s.conn].pair = {n, s.to}

SenderInv ==
  \A n \in Nodes, g \in Goroutines : SendsFrom(sender[n][g], n, conns)

NetworkInv ==
  /\ NetworkTypes
  /\ ConnsInv
  /\ DialInv
  /\ LastInv
  /\ TableInv
  /\ BacklogInv
  /\ QueuedInv
  /\ SenderInv
  /\ NoStaleEntry

-----------------------------------------------------------------------------
(* Lemmas *)

\* The other end of a connection.
LEMMA PeerIs ==
  ASSUME NEW n, NEW m, n # m, NEW c, conns[c].pair = {n, m}
  PROVE  Peer(n, c) = m /\ Peer(m, c) = n
BY DEF Peer

LEMMA HasPeer ==
  ASSUME ConnsInv, NEW c \in DOMAIN conns, NEW n \in conns[c].pair
  PROVE  /\ n \in Nodes /\ Peer(n, c) \in Nodes \ {n}
         /\ conns[c].pair = {n, Peer(n, c)}
<1>1. PICK a, b \in Nodes : a # b /\ conns[c].pair = {a, b}
  BY DEF ConnsInv
<1>2. Peer(a, c) = b /\ Peer(b, c) = a
  BY <1>1, PeerIs
<1>3. n \in {a, b} /\ {a, b} = {b, a}
  BY <1>1
<1> QED BY <1>1, <1>2, <1>3

LEMMA ConnsType ==
  ASSUME NetworkTypes
  PROVE  /\ Len(conns) \in Nat /\ DOMAIN conns = 1..Len(conns)
         /\ \A c \in DOMAIN conns : conns[c] \in Connection
BY LenProperties, ElementOfSeq DEF NetworkTypes

LEMMA InitNetwork ==
  ASSUME Init
  PROVE  NetworkInv
<1>1. NetworkTypes
  <2>1. sender \in SenderType
    BY DEF Init, SenderType, SenderAt, Idle, None
  <2> QED BY <2>1, EmptySeq, NetworkAssumption DEF Init, NetworkTypes, NoConnections, None
<1>2. conns = <<>> /\ DOMAIN conns = {}
  BY DEF Init
<1>3. \A n \in Nodes : backlog[n] = <<>> /\ DOMAIN backlog[n] = {}
  BY DEF Init
<1>4. ConnsInv /\ DialInv /\ LastInv /\ NoStaleEntry
  BY <1>2 DEF Init, ConnsInv, DialInv, LastInv, NoStaleEntry
<1>5. TableInv /\ BacklogInv /\ QueuedInv
  BY <1>3 DEF Init, TableInv, BacklogInv, QueuedInv, NoConnections
<1>6. SenderInv
  BY DEF Init, SenderInv, SendsFrom, Idle
<1> QED BY <1>1, <1>4, <1>5, <1>6 DEF NetworkInv

\* Steps that make no connection: ends are closed, at most.
Closing ==
  /\ DOMAIN conns' = DOMAIN conns
  /\ \A c \in DOMAIN conns : /\ conns'[c].pair = conns[c].pair
                             /\ conns'[c].open \subseteq conns[c].open

LEMMA ClosingKeeps ==
  ASSUME ConnsInv, Closing
  PROVE  /\ \A c \in DOMAIN conns : Whole(c)' => Whole(c)
         /\ \A n : \A c \in DOMAIN conns : Peer(n, c)' = Peer(n, c)
BY DEF ConnsInv, Closing, Whole, Peer

LEMMA ClosingLast ==
  ASSUME ConnsInv, LastInv, Closing
  PROVE  LastInv'
BY ClosingKeeps DEF LastInv, Closing

LEMMA BacklogStays ==
  ASSUME BacklogInv, Closing, UNCHANGED <<phase, Connections, backlog>>
  PROVE  BacklogInv'
<1> SUFFICES ASSUME NEW n \in Nodes
             PROVE  /\ phase[n] # "listening" => backlog[n] = <<>>
                    /\ \A i \in DOMAIN backlog[n] :
                         /\ backlog[n][i] \in DOMAIN conns'
                         /\ n \in conns'[backlog[n][i]].pair
                         /\ \A m \in Nodes : conns'[backlog[n][i]].pair = {n, m} =>
                              Connections[n][m] < backlog[n][i]
                         /\ \A j \in DOMAIN backlog[n] :
                              i < j => backlog[n][i] < backlog[n][j]
  BY DEF BacklogInv
<1>1. \A i \in DOMAIN backlog[n] :
        /\ backlog[n][i] \in DOMAIN conns /\ DOMAIN conns' = DOMAIN conns
        /\ conns'[backlog[n][i]].pair = conns[backlog[n][i]].pair
  BY DEF BacklogInv, Closing
<1> QED BY <1>1 DEF BacklogInv

LEMMA QueuedStays ==
  ASSUME BacklogInv, QueuedInv, Closing,
         \A n \in Nodes : backlog'[n] = backlog[n] \/ backlog'[n] = <<>>
  PROVE  QueuedInv'
<1> SUFFICES ASSUME NEW n \in Nodes, NEW i \in DOMAIN backlog'[n], NEW d \in DOMAIN conns,
                    conns'[d].pair = conns'[backlog'[n][i]].pair, backlog'[n][i] < d
             PROVE  \E j \in DOMAIN backlog'[n] : backlog'[n][j] = d
  BY DEF QueuedInv, Closing
<1>1. DOMAIN <<>> = {}
  OBVIOUS
<1>2. backlog'[n] = backlog[n]
  BY <1>1
<1>3. backlog[n][i] \in DOMAIN conns
  BY <1>2 DEF BacklogInv
<1>4. conns[d].pair = conns[backlog[n][i]].pair
  BY <1>2, <1>3 DEF Closing
<1> QED BY <1>2, <1>4 DEF QueuedInv

\* Connections stay between their two nodes.
PairsStay ==
  /\ DOMAIN conns \subseteq DOMAIN conns'
  /\ \A c \in DOMAIN conns : conns'[c].pair = conns[c].pair

LEMMA SendsStill ==
  ASSUME NEW s, NEW n, SendsFrom(s, n, conns), PairsStay
  PROVE  SendsFrom(s, n, conns')
BY DEF SendsFrom, PairsStay

LEMMA SenderStays ==
  ASSUME SenderInv, UNCHANGED sender, PairsStay
  PROVE  SenderInv'
<1> SUFFICES ASSUME NEW n \in Nodes, NEW g \in Goroutines
             PROVE  SendsFrom(sender'[n][g], n, conns')
  BY DEF SenderInv
<1>1. PICK s : s = sender[n][g]
  OBVIOUS
<1>2. SendsFrom(s, n, conns)
  BY <1>1 DEF SenderInv
<1> QED BY <1>1, <1>2, SendsStill

LEMMA SenderMoves ==
  ASSUME SenderInv, sender \in SenderType, PairsStay,
         NEW n \in Nodes, NEW g \in Goroutines, NEW s \in SenderAt,
         sender' = [sender EXCEPT ![n][g] = s], SendsFrom(s, n, conns')
  PROVE  sender' \in SenderType /\ SenderInv'
<1>1. sender' \in SenderType
  BY DEF SenderType
<1>2. /\ sender'[n][g] = s
      /\ \A k \in Nodes, h \in Goroutines : k # n \/ h # g => sender'[k][h] = sender[k][h]
  BY DEF SenderType
<1>3. ASSUME NEW k \in Nodes, NEW h \in Goroutines
      PROVE  SendsFrom(sender'[k][h], k, conns')
  <2>1. CASE k = n /\ h = g
    BY <1>2, <2>1
  <2>2. CASE k # n \/ h # g
    <3>1. PICK t : t = sender[k][h]
      OBVIOUS
    <3>2. SendsFrom(t, k, conns)
      BY <3>1 DEF SenderInv
    <3> QED BY <1>2, <2>2, <3>1, <3>2, SendsStill
  <2> QED BY <2>1, <2>2
<1> QED BY <1>1, <1>3 DEF SenderInv

LEMMA IdleSends ==
  /\ Idle \in SenderAt
  /\ \A n, cs : SendsFrom(Idle, n, cs)
BY DEF Idle, SenderAt, SendsFrom, None

-----------------------------------------------------------------------------
(* Start-up *)

LEMMA StartKeeps ==
  ASSUME NetworkInv, NEW n \in Nodes, Start(n)
  PROVE  NetworkInv'
<1> USE DEF NetworkInv
<1>1. /\ phase[n] = "down" /\ phase' = [phase EXCEPT ![n] = "dialing"]
      /\ toDial' = [toDial EXCEPT ![n] = Nodes \ {n}]
      /\ UNCHANGED <<conns, Connections, backlog, sender>>
  BY DEF Start
<1>2. /\ phase'[n] = "dialing" /\ toDial'[n] = Nodes \ {n}
      /\ \A m \in Nodes : m # n => phase'[m] = phase[m] /\ toDial'[m] = toDial[m]
  BY <1>1 DEF NetworkTypes
<1>3. NetworkTypes'
  BY <1>1 DEF NetworkTypes
<1>4. \A c \in DOMAIN conns : n \notin conns[c].open
  BY <1>1 DEF ConnsInv
<1>5. ConnsInv'
  <2>1. \A c \in DOMAIN conns : \A k \in conns[c].open : k \in Nodes /\ phase'[k] # "down"
    BY <1>2, <1>4 DEF ConnsInv
  <2> QED BY <1>1, <2>1 DEF ConnsInv
<1>6. DialInv'
  BY <1>1, <1>2, <1>4 DEF DialInv, Whole
<1>7. LastInv' /\ TableInv' /\ NoStaleEntry'
  BY <1>1 DEF LastInv, TableInv, NoStaleEntry, Whole, Peer
<1>9. SenderInv' /\ QueuedInv'
  BY <1>1, SenderStays, QueuedStays DEF PairsStay, Closing
<1>8. BacklogInv'
  BY <1>1, <1>2 DEF BacklogInv
<1> QED BY <1>3, <1>5, <1>6, <1>7, <1>8, <1>9

LEMMA StartServerKeeps ==
  ASSUME NetworkInv, NEW n \in Nodes, StartServer(n)
  PROVE  NetworkInv'
<1> USE DEF NetworkInv
<1>1. /\ phase[n] = "dialing" /\ phase' = [phase EXCEPT ![n] = "listening"]
      /\ UNCHANGED <<toDial, conns, Connections, backlog, sender>>
  BY DEF StartServer
<1>2. /\ phase'[n] = "listening"
      /\ \A m \in Nodes : m # n => phase'[m] = phase[m]
  BY <1>1 DEF NetworkTypes
<1>3. NetworkTypes'
  BY <1>1 DEF NetworkTypes
<1>4. ConnsInv'
  <2>1. \A c \in DOMAIN conns : \A k \in conns[c].open : k \in Nodes /\ phase'[k] # "down"
    BY <1>2 DEF ConnsInv
  <2> QED BY <1>1, <2>1 DEF ConnsInv
<1>5. DialInv'
  BY <1>1, <1>2 DEF DialInv, Whole
<1>6. LastInv' /\ TableInv' /\ NoStaleEntry'
  BY <1>1 DEF LastInv, TableInv, NoStaleEntry, Whole, Peer
<1>8. SenderInv' /\ QueuedInv'
  BY <1>1, SenderStays, QueuedStays DEF PairsStay, Closing
<1>7. BacklogInv'
  BY <1>1, <1>2 DEF BacklogInv
<1> QED BY <1>3, <1>4, <1>5, <1>6, <1>7, <1>8

LEMMA AcceptKeeps ==
  ASSUME NetworkInv, NEW n \in Nodes, AcceptConn(n)
  PROVE  NetworkInv'
<1> USE DEF NetworkInv
<1> DEFINE q == backlog[n]
           c == Head(q)
           p == Peer(n, c)
<1>1. /\ phase[n] = "listening" /\ q # <<>>
      /\ Connections' = [Connections EXCEPT ![n][p] = c]
      /\ backlog' = [backlog EXCEPT ![n] = Tail(q)]
      /\ UNCHANGED <<phase, toDial, conns, sender>>
  BY DEF AcceptConn
<1>2. /\ q \in Seq(Nat) /\ c = q[1] /\ 1 \in DOMAIN q /\ c \in Nat /\ Tail(q) \in Seq(Nat)
      /\ DOMAIN q \subseteq Nat \ {0}
      /\ \A i \in DOMAIN Tail(q) : i + 1 \in DOMAIN q /\ Tail(q)[i] = q[i + 1] /\ i \in Nat \ {0}
      /\ \A i \in DOMAIN q : i = 1 \/ (i - 1 \in DOMAIN Tail(q) /\ Tail(q)[i - 1] = q[i])
  <2>1. q \in Seq(Nat)
    BY DEF NetworkTypes
  <2>2. Len(q) \in Nat /\ Len(q) # 0 /\ DOMAIN q = 1..Len(q)
    BY <1>1, <2>1, EmptySeq, LenProperties
  <2>3. /\ c = q[1] /\ c \in Nat /\ Tail(q) \in Seq(Nat)
        /\ Len(Tail(q)) = Len(q) - 1
        /\ \A i \in 1..Len(Tail(q)) : Tail(q)[i] = q[i + 1]
    BY <1>1, <2>1, HeadTailProperties
  <2>4. DOMAIN Tail(q) = 1..Len(Tail(q))
    BY <2>3, LenProperties
  <2> HIDE DEF c, q
  <2> QED BY <2>1, <2>2, <2>3, <2>4
<1>3. /\ c \in DOMAIN conns /\ n \in conns[c].pair
      /\ \A m \in Nodes : conns[c].pair = {n, m} => Connections[n][m] < c
  BY <1>2 DEF BacklogInv
<1>4. p \in Nodes \ {n} /\ conns[c].pair = {n, p} /\ Connections[n][p] < c
  <2>1. p \in Nodes \ {n} /\ conns[c].pair = {n, p}
    BY <1>3, HasPeer
  <2> QED BY <1>3, <2>1
<1> HIDE DEF p, c, q
<1>5. /\ Connections'[n][p] = c /\ backlog'[n] = Tail(q)
      /\ \A k, m \in Nodes : k # n \/ m # p => Connections'[k][m] = Connections[k][m]
      /\ \A k \in Nodes : k # n => backlog'[k] = backlog[k]
  BY <1>1, <1>4 DEF NetworkTypes
<1>6. NetworkTypes'
  <2>1. Connections' \in [Nodes -> [Nodes -> Nat]]
    BY <1>1, <1>2, <1>4 DEF NetworkTypes
  <2>2. backlog' \in [Nodes -> Seq(Nat)]
    BY <1>1, <1>2 DEF NetworkTypes
  <2> QED BY <1>1, <2>1, <2>2 DEF NetworkTypes
<1>7. ConnsInv' /\ DialInv' /\ LastInv'
  BY <1>1 DEF ConnsInv, DialInv, LastInv, Whole
<1>12. SenderInv'
  BY <1>1, SenderStays DEF PairsStay
<1>13. QueuedInv'
  <2> SUFFICES ASSUME NEW k \in Nodes, NEW i \in DOMAIN backlog'[k], NEW d \in DOMAIN conns,
                      conns[d].pair = conns[backlog'[k][i]].pair, backlog'[k][i] < d
               PROVE  \E j \in DOMAIN backlog'[k] : backlog'[k][j] = d
    BY <1>1 DEF QueuedInv
  <2>1. CASE k # n
    BY <1>5, <2>1 DEF QueuedInv
  <2>2. CASE k = n
    <3>1. i + 1 \in DOMAIN q /\ Tail(q)[i] = q[i + 1] /\ 1 < i + 1 /\ i \in DOMAIN Tail(q)
      BY <1>2, <1>5, <2>2
    <3>2. q[i + 1] < d /\ conns[d].pair = conns[q[i + 1]].pair
      BY <1>5, <2>2, <3>1
    <3>3. PICK j \in DOMAIN q : q[j] = d
      BY <3>1, <3>2 DEF QueuedInv, q
    <3>4. j # 1
      <4>1. q[1] < q[i + 1]
        BY <1>2, <3>1 DEF BacklogInv, q
      <4>2. q[1] \in DOMAIN conns /\ q[i + 1] \in DOMAIN conns
        BY <1>2, <3>1 DEF BacklogInv, q
      <4>3. q[1] \in Nat /\ q[i + 1] \in Nat
        BY <4>2, ConnsType
      <4> QED BY <3>2, <3>3, <4>1, <4>3
    <3>5. j - 1 \in DOMAIN Tail(q) /\ Tail(q)[j - 1] = d
      BY <1>2, <3>3, <3>4
    <3> QED BY <1>5, <2>2, <3>5
  <2> QED BY <2>1, <2>2
<1>8. TableInv'
  BY <1>1, <1>3, <1>4, <1>5 DEF TableInv
<1>9. \A d, k : Peer(k, d)' = Peer(k, d) /\ (Whole(d)' <=> Whole(d))
  BY <1>1 DEF Peer, Whole
<1>10. BacklogInv'
  <2>1. ASSUME NEW i \in DOMAIN Tail(q)
        PROVE  /\ Tail(q)[i] \in DOMAIN conns
               /\ n \in conns[Tail(q)[i]].pair
               /\ \A m \in Nodes : conns[Tail(q)[i]].pair = {n, m} =>
                    Connections'[n][m] < Tail(q)[i]
               /\ \A j \in DOMAIN Tail(q) : i < j => Tail(q)[i] < Tail(q)[j]
    <3> DEFINE d == Tail(q)[i]
    <3>1. i + 1 \in DOMAIN q /\ d = q[i + 1] /\ 1 < i + 1
      BY <1>2
    <3>2. /\ d \in DOMAIN conns /\ n \in conns[d].pair /\ c < d
          /\ \A m \in Nodes : conns[d].pair = {n, m} => Connections[n][m] < d
      BY ZenonT(40), <1>2, <3>1 DEF BacklogInv, q
    <3>3. \A m \in Nodes : conns[d].pair = {n, m} => Connections'[n][m] < d
      BY <1>5, <3>2
    <3>4. ASSUME NEW j \in DOMAIN Tail(q), i < j PROVE d < Tail(q)[j]
      <4>1. j + 1 \in DOMAIN q /\ Tail(q)[j] = q[j + 1] /\ i + 1 < j + 1
        BY <1>2, <3>4
      <4> QED BY <3>1, <4>1 DEF BacklogInv, q
    <3> QED BY <3>2, <3>3, <3>4
  <2>2. \A k, m \in Nodes : k # n => Connections'[k][m] = Connections[k][m]
    BY <1>5
  <2> QED BY <1>1, <1>5, <2>1, <2>2 DEF BacklogInv
<1>11. NoStaleEntry'
  <2> SUFFICES ASSUME NEW d \in DOMAIN conns, NEW k \in conns[d].pair, Whole(d)
               PROVE  \/ Connections'[k][Peer(k, d)] \in {d, None}
                      \/ \E i \in DOMAIN backlog'[k] : backlog'[k][i] = d
    BY <1>1, <1>9 DEF NoStaleEntry
  <2>1. k \in Nodes /\ Peer(k, d) \in Nodes /\ conns[d].pair = {k, Peer(k, d)}
    BY HasPeer
  <2>2. CASE k # n
    BY <1>5, <2>1, <2>2 DEF NoStaleEntry
  <2>3. CASE k = n /\ Connections[n][Peer(n, d)] \in {d, None} /\ ~\E i \in DOMAIN q : q[i] = d
    <3>1. CASE Peer(n, d) # p
      BY <1>5, <2>1, <2>3, <3>1
    <3>2. CASE Peer(n, d) = p
      <4>1. conns[d].pair = conns[c].pair
        BY <1>4, <2>1, <2>3, <3>2
      <4>2. c <= d
        BY <1>3, <4>1 DEF LastInv
      <4>3. d \in Nat /\ c \in Nat
        BY <1>3, ConnsType
      <4>4. c # d
        BY <1>2, <2>3
      <4>5. \E i \in DOMAIN q : q[i] = d
        BY <1>2, <4>1, <4>2, <4>3, <4>4 DEF QueuedInv, q
      <4> QED BY <2>3, <4>5
    <3> QED BY <3>1, <3>2
  <2>4. CASE k = n /\ \E i \in DOMAIN q : q[i] = d
    <3>1. PICK i \in DOMAIN q : q[i] = d
      BY <2>4
    <3>2. CASE i = 1
      BY <1>2, <1>5, <2>4, <3>1, <3>2 DEF p
    <3>3. CASE i # 1
      BY ZenonT(40), <1>2, <1>5, <2>4, <3>1, <3>3
    <3> QED BY <3>2, <3>3
  <2> QED BY <2>2, <2>3, <2>4 DEF NoStaleEntry, q
<1> QED BY <1>6, <1>7, <1>8, <1>10, <1>11, <1>12, <1>13

LEMMA DialKeeps ==
  ASSUME NetworkInv, NEW n \in Nodes, Dial(n)
  PROVE  NetworkInv'
<1> USE DEF NetworkInv
<1>1. PICK m \in toDial[n] :
        /\ toDial' = [toDial EXCEPT ![n] = @ \ {m}]
        /\ \/ /\ phase[m] = "listening"
              /\ conns' = Append(conns, [pair |-> {n, m}, open |-> {n, m}])
              /\ Connections' = [Connections EXCEPT ![n][m] = Len(conns')]
              /\ backlog' = [backlog EXCEPT ![m] = Append(@, Len(conns'))]
           \/ UNCHANGED <<conns, Connections, backlog>>
  BY DEF Dial
<1>2. phase[n] = "dialing" /\ UNCHANGED <<phase, sender>>
  BY DEF Dial
<1>3. /\ m \in Nodes /\ m # n
      /\ \A c \in DOMAIN conns : Whole(c) => conns[c].pair # {n, m}
  BY <1>2 DEF NetworkTypes, DialInv
<1>4. /\ toDial' \in [Nodes -> SUBSET Nodes]
      /\ toDial'[n] = toDial[n] \ {m} /\ \A k \in Nodes : k # n => toDial'[k] = toDial[k]
  BY <1>1 DEF NetworkTypes
<1>6. CASE UNCHANGED <<conns, Connections, backlog>>
  <2>1. NetworkTypes'
    BY <1>2, <1>4, <1>6 DEF NetworkTypes
  <2>4. ConnsInv' /\ LastInv' /\ TableInv'
    BY <1>2, <1>6 DEF ConnsInv, LastInv, TableInv, Whole
  <2>3. NoStaleEntry'
    BY <1>6 DEF NoStaleEntry, Whole, Peer
  <2>2. DialInv' /\ BacklogInv'
    BY <1>2, <1>4, <1>6 DEF DialInv, BacklogInv, Whole
  <2>5. SenderInv' /\ QueuedInv'
    BY <1>2, <1>6, SenderStays, QueuedStays DEF PairsStay, Closing
  <2> QED BY <2>1, <2>2, <2>3, <2>4, <2>5
<1>7. CASE /\ phase[m] = "listening"
           /\ conns' = Append(conns, [pair |-> {n, m}, open |-> {n, m}])
           /\ Connections' = [Connections EXCEPT ![n][m] = Len(conns')]
           /\ backlog' = [backlog EXCEPT ![m] = Append(@, Len(conns'))]
  <2> DEFINE made == [pair |-> {n, m}, open |-> {n, m}]
             new == Len(conns) + 1
             old == backlog[m]
  <2>1. /\ Len(conns) \in Nat /\ DOMAIN conns = 1..Len(conns) /\ new \in Nat /\ new > 0
        /\ conns' \in Seq(Connection) /\ Len(conns') = new
        /\ DOMAIN conns' = DOMAIN conns \cup {new} /\ new \notin DOMAIN conns
        /\ conns'[new] = made
        /\ \A c \in DOMAIN conns : conns'[c] = conns[c] /\ c < new
    <3>1. made \in Connection /\ conns \in Seq(Connection)
      BY <1>3 DEF Connection, NetworkTypes
    <3>2. Len(conns) \in Nat /\ DOMAIN conns = 1..Len(conns)
      BY <3>1, LenProperties
    <3>3. /\ conns' \in Seq(Connection) /\ Len(conns') = new /\ conns'[new] = made
          /\ \A c \in 1..Len(conns) : conns'[c] = conns[c]
      <4> HIDE DEF made
      <4> QED BY <1>7, <3>1, AppendProperties DEF made
    <3>4. DOMAIN conns' = 1..Len(conns')
      BY <3>3, LenProperties
    <3> HIDE DEF made
    <3> QED BY <3>2, <3>3, <3>4
  <2>2. /\ old \in Seq(Nat) /\ Append(old, new) \in Seq(Nat)
        /\ DOMAIN old \subseteq Nat /\ Len(old) \in Nat
        /\ DOMAIN Append(old, new) = DOMAIN old \cup {Len(old) + 1}
        /\ Append(old, new)[Len(old) + 1] = new
        /\ \A i \in DOMAIN old : Append(old, new)[i] = old[i] /\ i <= Len(old)
    <3>1. old \in Seq(Nat) /\ new \in Nat
      BY <1>3, <2>1 DEF NetworkTypes
    <3>2. /\ Append(old, new) \in Seq(Nat) /\ Len(Append(old, new)) = Len(old) + 1
          /\ Append(old, new)[Len(old) + 1] = new
          /\ \A i \in 1..Len(old) : Append(old, new)[i] = old[i]
      BY <3>1, AppendProperties
    <3>3. Len(old) \in Nat /\ DOMAIN old = 1..Len(old)
      BY <3>1, LenProperties
    <3>4. DOMAIN Append(old, new) = 1..Len(Append(old, new))
      BY <3>2, LenProperties
    <3> HIDE DEF old, new
    <3> QED BY <3>1, <3>2, <3>3, <3>4
  <2> HIDE DEF old, new
  <2>3. /\ Connections'[n][m] = new /\ backlog'[m] = Append(old, new)
        /\ \A k, j \in Nodes : k # n \/ j # m => Connections'[k][j] = Connections[k][j]
        /\ \A k \in Nodes : k # m => backlog'[k] = backlog[k]
    BY <1>3, <1>7, <2>1 DEF NetworkTypes, old
  <2>4. NetworkTypes'
    <3>1. Connections' \in [Nodes -> [Nodes -> Nat]]
      BY <1>3, <1>7, <2>1 DEF NetworkTypes
    <3>2. backlog' \in [Nodes -> Seq(Nat)]
      BY <1>7, <2>1, <2>2 DEF NetworkTypes, old
    <3> QED BY <1>2, <1>4, <2>1, <3>1, <3>2 DEF NetworkTypes
  <2>5. ConnsInv'
    BY SMTT(30), <1>2, <1>3, <1>7, <2>1 DEF ConnsInv
  <2>6. /\ \A c \in DOMAIN conns : /\ Whole(c)' <=> Whole(c)
                                   /\ \A k : Peer(k, c)' = Peer(k, c)
    <3>1. ASSUME NEW c \in DOMAIN conns
          PROVE  (Whole(c)' <=> Whole(c)) /\ \A k : Peer(k, c)' = Peer(k, c)
      <4>1. conns'[c] = conns[c]
        BY <2>1
      <4> QED BY <4>1 DEF Whole, Peer
    <3> QED BY <3>1
  <2>7. DialInv'
    <3> SUFFICES ASSUME NEW j \in Nodes, phase[j] = "dialing", NEW k \in toDial'[j]
                 PROVE  k # j /\ \A c \in DOMAIN conns' : Whole(c)' => conns'[c].pair # {j, k}
      BY <1>2 DEF DialInv
    <3>1. k \in toDial[j]
      BY <1>4
    <3>2. {n, m} # {j, k}
      BY <1>4, <1>7
    <3>3. k # j /\ \A c \in DOMAIN conns : Whole(c) => conns[c].pair # {j, k}
      BY <3>1 DEF DialInv
    <3>4. ASSUME NEW c \in DOMAIN conns', Whole(c)'
          PROVE  conns'[c].pair # {j, k}
      <4>1. CASE c = new
        <5>1. conns'[c].pair = {n, m}
          BY <2>1, <4>1
        <5> QED BY <3>2, <5>1
      <4>2. CASE c \in DOMAIN conns
        <5>1. Whole(c) /\ conns'[c].pair = conns[c].pair
          BY <2>1, <2>6, <3>4, <4>2
        <5> QED BY <3>3, <4>2, <5>1
      <4> QED BY <2>1, <4>1, <4>2
    <3> QED BY <3>3, <3>4
  <2>8. LastInv'
    <3>1. ASSUME NEW c \in DOMAIN conns', NEW d \in DOMAIN conns', Whole(c)',
                 conns'[c].pair = conns'[d].pair
          PROVE  d <= c
      <4>1. CASE c = new
        BY <2>1, <4>1
      <4>2. CASE c # new /\ d = new
        <5>1. Whole(c) /\ conns[c].pair = {n, m}
          BY <2>1, <2>6, <3>1, <4>2
        <5> QED BY <1>3, <2>1, <4>2, <5>1
      <4>3. CASE c # new /\ d # new
        BY <2>1, <2>6, <3>1, <4>3 DEF LastInv
      <4> QED BY <4>1, <4>2, <4>3
    <3> QED BY <3>1 DEF LastInv
  <2>9. TableInv'
    <3>1. ASSUME NEW k \in Nodes, NEW j \in Nodes, Connections'[k][j] # None
          PROVE  /\ Connections'[k][j] \in DOMAIN conns'
                 /\ conns'[Connections'[k][j]].pair = {k, j}
      <4>1. CASE k = n /\ j = m
        BY <2>1, <2>3, <4>1
      <4>2. CASE k # n \/ j # m
        <5>1. Connections'[k][j] = Connections[k][j]
          BY <2>3, <4>2
        <5> QED BY <2>1, <3>1, <5>1 DEF TableInv
      <4> QED BY <4>1, <4>2
    <3> QED BY <3>1 DEF TableInv
  <2>10. BacklogInv'
    <3>1. backlog'[n] = <<>> /\ DOMAIN backlog'[n] = {}
      BY <1>2, <1>3, <2>3 DEF BacklogInv
    <3>2. ASSUME NEW k \in Nodes, NEW i \in DOMAIN backlog[k], k # n
          PROVE  /\ backlog[k][i] \in DOMAIN conns' /\ backlog[k][i] < new
                 /\ k \in conns'[backlog[k][i]].pair
                 /\ \A j \in Nodes : conns'[backlog[k][i]].pair = {k, j} =>
                      Connections'[k][j] < backlog[k][i]
      <4> DEFINE b == backlog[k][i]
      <4>1. /\ b \in DOMAIN conns /\ k \in conns[b].pair
            /\ \A j \in Nodes : conns[b].pair = {k, j} => Connections[k][j] < b
        BY <3>2 DEF BacklogInv
      <4>2. \A j \in Nodes : Connections'[k][j] = Connections[k][j]
        BY <2>3, <3>2
      <4>3. b \in DOMAIN conns' /\ b < new /\ conns'[b] = conns[b]
        BY <2>1, <4>1
      <4> HIDE DEF b
      <4>4. /\ b \in DOMAIN conns' /\ b < new /\ k \in conns'[b].pair
            /\ \A j \in Nodes : conns'[b].pair = {k, j} => Connections'[k][j] < b
        BY <4>1, <4>2, <4>3
      <4> QED BY <4>4 DEF b
    <3>3. \A j \in Nodes : {n, m} = {m, j} => Connections'[m][j] < new
      <4>1. Connections'[m][n] = Connections[m][n] /\ Connections[m][n] \in Nat
        BY <1>3, <2>3 DEF NetworkTypes
      <4>2. Connections[m][n] < new
        <5>1. CASE Connections[m][n] = None
          BY <2>1, <5>1 DEF None
        <5>2. CASE Connections[m][n] # None
          BY <1>3, <2>1, <5>2 DEF TableInv
        <5> QED BY <5>1, <5>2
      <4>3. \A j \in Nodes : {n, m} = {m, j} => j = n
        BY <1>3
      <4> QED BY <4>1, <4>2, <4>3
    <3>4. ASSUME NEW i \in DOMAIN backlog'[m]
          PROVE  /\ backlog'[m][i] \in DOMAIN conns'
                 /\ m \in conns'[backlog'[m][i]].pair
                 /\ \A j \in Nodes : conns'[backlog'[m][i]].pair = {m, j} =>
                      Connections'[m][j] < backlog'[m][i]
                 /\ \A j \in DOMAIN backlog'[m] : i < j => backlog'[m][i] < backlog'[m][j]
      <4>1. CASE i = Len(old) + 1
        <5>1. backlog'[m][i] = new /\ \A j \in DOMAIN backlog'[m] : ~(i < j)
          BY <2>2, <2>3, <4>1
        <5>2. new \in DOMAIN conns' /\ conns'[new].pair = {n, m}
          BY <2>1
        <5> QED BY <3>3, <5>1, <5>2
      <4>2. CASE i \in DOMAIN old
        <5>1. backlog'[m][i] = old[i] /\ old[i] < new
          BY <1>3, <2>2, <2>3, <3>2, <4>2 DEF old
        <5>2. ASSUME NEW j \in DOMAIN backlog'[m], i < j
              PROVE  old[i] < backlog'[m][j]
          <6>1. CASE j \in DOMAIN old
            <7>1. backlog'[m][j] = old[j]
              BY <2>2, <2>3, <6>1
            <7> QED BY <1>3, <4>2, <5>2, <6>1, <7>1 DEF BacklogInv, old
          <6>2. CASE j = Len(old) + 1
            BY <2>2, <2>3, <5>1, <6>2
          <6> QED BY <2>2, <2>3, <5>2, <6>1, <6>2
        <5>3. /\ old[i] \in DOMAIN conns' /\ m \in conns'[old[i]].pair
              /\ \A j \in Nodes : conns'[old[i]].pair = {m, j} => Connections'[m][j] < old[i]
          BY <1>3, <3>2, <4>2 DEF old
        <5> QED BY <5>1, <5>2, <5>3
      <4> QED BY <2>2, <2>3, <4>1, <4>2
    <3>5. ASSUME NEW k \in Nodes, k # n, k # m, NEW i \in DOMAIN backlog'[k]
          PROVE  /\ backlog'[k][i] \in DOMAIN conns'
                 /\ k \in conns'[backlog'[k][i]].pair
                 /\ \A j \in Nodes : conns'[backlog'[k][i]].pair = {k, j} =>
                      Connections'[k][j] < backlog'[k][i]
                 /\ \A j \in DOMAIN backlog'[k] : i < j => backlog'[k][i] < backlog'[k][j]
      <4>1. backlog'[k] = backlog[k]
        BY <2>3, <3>5
      <4>2. \A j \in DOMAIN backlog[k] : i < j => backlog[k][i] < backlog[k][j]
        BY <3>5, <4>1 DEF BacklogInv
      <4> QED BY <3>2, <3>5, <4>1, <4>2
    <3>6. \A k \in Nodes : phase'[k] # "listening" => backlog'[k] = <<>>
      BY <1>2, <1>7, <2>3 DEF BacklogInv
    <3> QED BY <3>1, <3>4, <3>5, <3>6 DEF BacklogInv
  <2>11. NoStaleEntry'
    <3> SUFFICES ASSUME NEW c \in DOMAIN conns', NEW k \in conns'[c].pair, Whole(c)'
                 PROVE  \/ Connections'[k][Peer(k, c)'] \in {c, None}
                        \/ \E i \in DOMAIN backlog'[k] : backlog'[k][i] = c
      BY DEF NoStaleEntry
    <3>1. CASE c = new
      <4>1. k \in {n, m}
        BY <2>1, <3>1
      <4>2. conns'[c].pair = {n, m}
        BY <2>1, <3>1
      <4>3. CASE k = n
        <5>1. Peer(k, c)' = m
          BY <1>3, <4>2, <4>3 DEF Peer
        <5> QED BY <2>3, <3>1, <4>3, <5>1
      <4>4. CASE k = m
        BY <2>2, <2>3, <3>1, <4>4
      <4> QED BY <4>1, <4>3, <4>4
    <3>2. CASE c \in DOMAIN conns
      <4>1. /\ k \in conns[c].pair /\ Whole(c) /\ Peer(k, c)' = Peer(k, c)
            /\ conns[c].pair # {n, m}
        BY <1>3, <2>1, <2>6, <3>2
      <4>2. k \in Nodes /\ Peer(k, c) \in Nodes /\ (k # n \/ Peer(k, c) # m)
        BY <3>2, <4>1, HasPeer
      <4>3. CASE Connections[k][Peer(k, c)] \in {c, None}
        BY <2>3, <4>1, <4>2, <4>3
      <4>4. CASE \E i \in DOMAIN backlog[k] : backlog[k][i] = c
        BY SMTT(30), <2>2, <2>3, <4>2, <4>4 DEF old
      <4> QED BY <3>2, <4>1, <4>3, <4>4 DEF NoStaleEntry
    <3> QED BY <2>1, <3>1, <3>2
  <2>12. SenderInv'
    BY <1>2, <2>1, SenderStays DEF PairsStay
  <2>13. QueuedInv'
    <3> SUFFICES ASSUME NEW k \in Nodes, NEW i \in DOMAIN backlog'[k], NEW d \in DOMAIN conns',
                        conns'[d].pair = conns'[backlog'[k][i]].pair, backlog'[k][i] < d
                 PROVE  \E j \in DOMAIN backlog'[k] : backlog'[k][j] = d
      BY DEF QueuedInv
    <3>1. k # n
      BY <1>2, <1>3, <2>3 DEF BacklogInv
    <3>2. ASSUME i \in DOMAIN backlog[k], backlog'[k][i] = backlog[k][i]
          PROVE  (d = new /\ k = m) \/ \E j \in DOMAIN backlog[k] : backlog[k][j] = d
      <4>1. backlog[k][i] \in DOMAIN conns /\ k \in conns[backlog[k][i]].pair
        BY <3>2 DEF BacklogInv
      <4>2. conns'[backlog[k][i]].pair = conns[backlog[k][i]].pair
        BY <2>1, <4>1
      <4>3. CASE d = new
        <5>1. k \in {n, m}
          BY <2>1, <3>2, <4>1, <4>2, <4>3
        <5> QED BY <3>1, <4>3, <5>1
      <4>4. CASE d \in DOMAIN conns
        <5>1. conns[d].pair = conns[backlog[k][i]].pair
          BY <2>1, <3>2, <4>2, <4>4
        <5> QED BY <3>2, <4>4, <5>1 DEF QueuedInv
      <4> QED BY <2>1, <4>3, <4>4
    <3>3. CASE k # m
      <4>1. backlog'[k] = backlog[k]
        BY <2>3, <3>3
      <4> QED BY <3>2, <3>3, <4>1
    <3>4. CASE k = m
      <4>1. CASE i \in DOMAIN old
        <5>1. backlog'[k][i] = backlog[k][i]
          BY <2>2, <2>3, <3>4, <4>1 DEF old
        <5>2. d = new \/ \E j \in DOMAIN old : old[j] = d
          BY <3>2, <3>4, <4>1, <5>1 DEF old
        <5> QED BY <2>2, <2>3, <3>4, <5>2
      <4>2. CASE i = Len(old) + 1
        <5>1. new < d
          BY <2>2, <2>3, <3>4, <4>2
        <5> QED BY <2>1, <5>1
      <4> QED BY <2>2, <2>3, <3>4, <4>1, <4>2
    <3> QED BY <3>3, <3>4
  <2> QED BY <2>4, <2>5, <2>7, <2>8, <2>9, <2>10, <2>11, <2>12, <2>13
<1> QED BY <1>1, <1>6, <1>7

-----------------------------------------------------------------------------
(* A process that ends, and a connection that is closed *)

LEMMA DownKeeps ==
  ASSUME NetworkInv, NEW n \in Nodes, Down(n)
  PROVE  NetworkInv'
<1> USE DEF NetworkInv
<1>1. /\ phase' = [phase EXCEPT ![n] = "down"]
      /\ toDial' = [toDial EXCEPT ![n] = {}]
      /\ conns' = Shut(n, conns)
      /\ Connections' = [Connections EXCEPT ![n] = NoConnections]
      /\ backlog' = [backlog EXCEPT ![n] = <<>>]
      /\ sender' = [sender EXCEPT ![n] = [g \in Goroutines |-> Idle]]
  BY DEF Down
<1>2. /\ phase'[n] = "down" /\ backlog'[n] = <<>> /\ DOMAIN backlog'[n] = {}
      /\ \A m \in Nodes : Connections'[n][m] = None
      /\ \A k \in Nodes : k # n => /\ phase'[k] = phase[k] /\ toDial'[k] = toDial[k]
                                  /\ Connections'[k] = Connections[k]
                                  /\ backlog'[k] = backlog[k]
  <2>1. DOMAIN <<>> = {}
    OBVIOUS
  <2> QED BY <1>1, <2>1 DEF NetworkTypes, NoConnections
<1>3. /\ conns' \in Seq(Connection) /\ DOMAIN conns' = DOMAIN conns
      /\ \A c \in DOMAIN conns : /\ conns'[c].pair = conns[c].pair
                                 /\ conns'[c].open = conns[c].open \ {n}
  <2>1. \A c \in DOMAIN conns :
          /\ [conns[c] EXCEPT !.open = @ \ {n}] \in Connection
          /\ [conns[c] EXCEPT !.open = @ \ {n}].pair = conns[c].pair
          /\ [conns[c] EXCEPT !.open = @ \ {n}].open = conns[c].open \ {n}
    BY ConnsType DEF Connection
  <2>2. conns' \in [1..Len(conns) -> Connection]
    BY <1>1, <2>1, ConnsType DEF Shut
  <2>3. conns' \in Seq(Connection)
    BY <2>2, ConnsType, SeqDef
  <2> QED BY <1>1, <2>1, <2>3 DEF Shut
<1>4. Closing
  BY <1>3 DEF Closing
<1>5. NetworkTypes'
  <2>1. NoConnections \in [Nodes -> Nat]
    BY DEF NoConnections, None
  <2>2. <<>> \in Seq(Nat)
    BY EmptySeq
  <2>3. Connections' \in [Nodes -> [Nodes -> Nat]]
    BY <1>1, <2>1 DEF NetworkTypes
  <2>4. backlog' \in [Nodes -> Seq(Nat)]
    BY <1>1, <2>2 DEF NetworkTypes
  <2>5. sender' \in SenderType
    <3>1. [g \in Goroutines |-> Idle] \in [Goroutines -> SenderAt]
      BY IdleSends
    <3> QED BY <1>1, <3>1 DEF NetworkTypes, SenderType
  <2> QED BY <1>1, <1>3, <2>3, <2>4, <2>5 DEF NetworkTypes
<1>6. ConnsInv'
  <2> SUFFICES ASSUME NEW c \in DOMAIN conns
               PROVE  /\ \E k, m \in Nodes : k # m /\ conns'[c].pair = {k, m}
                      /\ conns'[c].open \subseteq conns'[c].pair
                      /\ \A k \in conns'[c].open : phase'[k] # "down"
    BY <1>3 DEF ConnsInv
  <2>1. /\ \E k, m \in Nodes : k # m /\ conns[c].pair = {k, m}
        /\ conns[c].open \subseteq conns[c].pair
        /\ \A k \in conns[c].open : k \in Nodes /\ phase[k] # "down"
    BY DEF ConnsInv
  <2> QED BY <1>2, <1>3, <2>1
<1>7. DialInv'
  BY <1>2, <1>4, ClosingKeeps DEF DialInv, Closing
<1>8. LastInv'
  BY <1>4, ClosingLast
<1>9. TableInv'
  BY <1>2, <1>3 DEF TableInv
<1>10. BacklogInv'
  <2> SUFFICES ASSUME NEW k \in Nodes, k # n
               PROVE  /\ phase[k] # "listening" => backlog[k] = <<>>
                      /\ \A i \in DOMAIN backlog[k] :
                           /\ backlog[k][i] \in DOMAIN conns
                           /\ k \in conns'[backlog[k][i]].pair
                           /\ \A m \in Nodes : conns'[backlog[k][i]].pair = {k, m} =>
                                Connections[k][m] < backlog[k][i]
                           /\ \A j \in DOMAIN backlog[k] : i < j => backlog[k][i] < backlog[k][j]
    BY ZenonT(40), <1>2, <1>3 DEF BacklogInv
  <2>1. \A i \in DOMAIN backlog[k] :
          /\ backlog[k][i] \in DOMAIN conns
          /\ conns'[backlog[k][i]].pair = conns[backlog[k][i]].pair
    BY <1>3 DEF BacklogInv
  <2> QED BY <2>1 DEF BacklogInv
<1>11. SenderInv'
  <2> SUFFICES ASSUME NEW k \in Nodes, NEW g \in Goroutines
               PROVE  SendsFrom(sender'[k][g], k, conns')
    BY DEF SenderInv
  <2>1. CASE k = n
    <3>1. sender'[k][g] = Idle
      BY <1>1, <2>1 DEF NetworkTypes, SenderType
    <3> QED BY <3>1, IdleSends
  <2>2. CASE k # n
    <3>1. PICK t : t = sender[k][g]
      OBVIOUS
    <3>2. SendsFrom(t, k, conns) /\ sender'[k][g] = t
      BY <1>1, <2>2, <3>1 DEF SenderInv, NetworkTypes, SenderType
    <3>3. PairsStay
      BY <1>3 DEF PairsStay
    <3> QED BY <3>2, <3>3, SendsStill
  <2> QED BY <2>1, <2>2
<1>13. QueuedInv'
  BY <1>2, <1>4, QueuedStays
<1>12. NoStaleEntry'
  <2> SUFFICES ASSUME NEW c \in DOMAIN conns, NEW k \in conns[c].pair, Whole(c)'
               PROVE  \/ Connections'[k][Peer(k, c)'] \in {c, None}
                      \/ \E i \in DOMAIN backlog'[k] : backlog'[k][i] = c
    BY <1>3 DEF NoStaleEntry
  <2>1. Whole(c) /\ Peer(k, c)' = Peer(k, c) /\ k \in Nodes
    BY <1>4, ClosingKeeps, HasPeer
  <2>2. k # n
    BY <1>3 DEF Whole
  <2> QED BY <1>2, <2>1, <2>2 DEF NoStaleEntry
<1> QED BY <1>5, <1>6, <1>7, <1>8, <1>9, <1>10, <1>11, <1>12, <1>13

\* c.Close()
LEMMA CloseKeeps ==
  ASSUME NetworkInv, NEW n \in Nodes, NEW g \in Goroutines, Close(n, g)
  PROVE  NetworkInv'
<1> USE DEF NetworkInv
<1> DEFINE m == sender[n][g].to
           c == sender[n][g].conn
<1>1. /\ sender[n][g].at = "CloseConn"
      /\ conns' = [conns EXCEPT ![c].open = @ \ {n}]
      /\ sender' = [sender EXCEPT ![n][g] = [at |-> "closed", to |-> m, conn |-> c]]
      /\ UNCHANGED <<phase, toDial, Connections, backlog>>
  BY DEF Close, Goto
<1>2. m \in Nodes \ {n} /\ c \in DOMAIN conns /\ conns[c].pair = {n, m}
  BY <1>1 DEF SenderInv, SendsFrom
<1> DEFINE closed == [at |-> "closed", to |-> m, conn |-> c]
<1>3. /\ closed.at = "closed" /\ closed.to = m /\ closed.conn = c
      /\ closed \in SenderAt
  <2>1. m \in Int /\ c \in Nat
    BY <1>2, NetworkAssumption, ConnsType DEF Nodes
  <2> QED BY <2>1 DEF SenderAt
<1>4. sender' = [sender EXCEPT ![n][g] = closed]
  BY <1>1
<1> HIDE DEF m, c, closed
<1>5. /\ conns' \in Seq(Connection) /\ DOMAIN conns' = DOMAIN conns
      /\ \A d \in DOMAIN conns : conns'[d].pair = conns[d].pair
      /\ \A d \in DOMAIN conns : d # c => conns'[d] = conns[d]
      /\ conns'[c].open = conns[c].open \ {n}
  <2> DEFINE shut == [conns[c] EXCEPT !.open = @ \ {n}]
  <2>1. /\ shut \in Connection /\ shut.pair = conns[c].pair
        /\ shut.open = conns[c].open \ {n}
    BY <1>2, ConnsType DEF Connection
  <2>2. conns' = [conns EXCEPT ![c] = shut]
    BY <1>1
  <2> HIDE DEF shut
  <2>3. conns' \in [1..Len(conns) -> Connection]
    BY <1>2, <2>1, <2>2, ConnsType DEF NetworkTypes
  <2>4. conns' \in Seq(Connection)
    BY <2>3, ConnsType, SeqDef
  <2>5. DOMAIN conns' = DOMAIN conns /\ conns'[c] = shut
        /\ \A d \in DOMAIN conns : d # c => conns'[d] = conns[d]
    BY <1>2, <2>2, ConnsType
  <2> QED BY <2>1, <2>4, <2>5
<1>6. Closing /\ PairsStay
  BY <1>2, <1>5 DEF Closing, PairsStay
<1>7. SendsFrom(closed, n, conns')
  BY <1>2, <1>3, <1>5 DEF SendsFrom
<1>8. sender' \in SenderType /\ SenderInv'
  BY <1>3, <1>4, <1>6, <1>7, SenderMoves DEF NetworkTypes
<1>9. NetworkTypes'
  BY <1>1, <1>5, <1>8 DEF NetworkTypes
<1>10. ConnsInv'
  <2> SUFFICES ASSUME NEW d \in DOMAIN conns
               PROVE  /\ \E k, j \in Nodes : k # j /\ conns'[d].pair = {k, j}
                      /\ conns'[d].open \subseteq conns'[d].pair
                      /\ \A k \in conns'[d].open : phase'[k] # "down"
    BY <1>5 DEF ConnsInv
  <2>1. /\ \E k, j \in Nodes : k # j /\ conns[d].pair = {k, j}
        /\ conns[d].open \subseteq conns[d].pair
        /\ \A k \in conns[d].open : phase'[k] # "down"
    BY <1>1 DEF ConnsInv
  <2>2. conns'[d].pair = conns[d].pair /\ conns'[d].open \subseteq conns[d].open
    BY <1>6 DEF Closing
  <2> QED BY <2>1, <2>2
<1>11. DialInv' /\ LastInv'
  BY <1>1, <1>6, ClosingKeeps, ClosingLast DEF DialInv, Closing
<1>12. TableInv'
  BY <1>1, <1>5 DEF TableInv
<1>13. BacklogInv'
  BY <1>1, <1>6, BacklogStays
<1>14. QueuedInv'
  BY <1>1, <1>6, QueuedStays
<1>15. NoStaleEntry'
  <2> SUFFICES ASSUME NEW d \in DOMAIN conns, NEW k \in conns[d].pair, Whole(d)'
               PROVE  \/ Connections[k][Peer(k, d)'] \in {d, None}
                      \/ \E i \in DOMAIN backlog[k] : backlog[k][i] = d
    BY <1>1, <1>5 DEF NoStaleEntry
  <2>1. Whole(d) /\ Peer(k, d)' = Peer(k, d)
    BY <1>6, ClosingKeeps
  <2> QED BY <2>1 DEF NoStaleEntry
<1> QED BY <1>8, <1>9, <1>10, <1>11, <1>12, <1>13, <1>14, <1>15

\* delete(n.Connections, nodeID)
LEMMA DeleteKeeps ==
  ASSUME NetworkInv, NEW n \in Nodes, NEW g \in Goroutines, Delete(n, g)
  PROVE  NetworkInv'
<1> USE DEF NetworkInv
<1>1. PICK m : m = Peer(n, sender[n][g].conn)
  OBVIOUS
<1>2. /\ sender[n][g].at = "closed"
      /\ Connections' = [Connections EXCEPT ![n][m] = None]
      /\ sender' = [sender EXCEPT ![n][g] = Idle]
      /\ UNCHANGED <<phase, toDial, conns, backlog>>
  BY <1>1 DEF Delete
<1>3. m \in Nodes
  <2>1. sender[n][g].conn \in DOMAIN conns /\ n \in conns[sender[n][g].conn].pair
    BY <1>2 DEF SenderInv, SendsFrom
  <2> QED BY <1>1, <2>1, HasPeer
<1>4. /\ Connections' \in [Nodes -> [Nodes -> Nat]]
      /\ Connections'[n][m] = None
      /\ \A k, j \in Nodes : k # n \/ j # m => Connections'[k][j] = Connections[k][j]
  BY <1>2, <1>3 DEF NetworkTypes, None
<1>5. PairsStay /\ Closing
  BY <1>2 DEF PairsStay, Closing
<1>6. sender' \in SenderType /\ SenderInv'
  BY <1>2, <1>5, IdleSends, SenderMoves DEF NetworkTypes
<1>7. NetworkTypes'
  BY <1>2, <1>4, <1>6 DEF NetworkTypes
<1>8. ConnsInv' /\ DialInv' /\ LastInv'
  BY <1>2 DEF ConnsInv, DialInv, LastInv, Whole
<1>9. TableInv'
  BY <1>2, <1>4 DEF TableInv
<1>10. QueuedInv'
  BY <1>2, <1>5, QueuedStays
<1>11. BacklogInv'
  <2> SUFFICES ASSUME NEW k \in Nodes, NEW i \in DOMAIN backlog[k], NEW j \in Nodes,
                      conns[backlog[k][i]].pair = {k, j}
               PROVE  Connections'[k][j] < backlog[k][i]
    BY <1>2 DEF BacklogInv
  <2>1. backlog[k][i] \in DOMAIN conns /\ Connections[k][j] < backlog[k][i]
    BY DEF BacklogInv
  <2>2. backlog[k][i] \in Nat /\ 0 < backlog[k][i]
    BY <2>1, ConnsType
  <2>3. CASE k = n /\ j = m
    BY <1>4, <2>2, <2>3 DEF None
  <2>4. CASE k # n \/ j # m
    BY <1>4, <2>1, <2>4
  <2> QED BY <2>3, <2>4
<1>12. NoStaleEntry'
  <2> SUFFICES ASSUME NEW d \in DOMAIN conns, NEW k \in conns[d].pair, Whole(d)
               PROVE  \/ Connections'[k][Peer(k, d)] \in {d, None}
                      \/ \E i \in DOMAIN backlog[k] : backlog[k][i] = d
    BY <1>2 DEF NoStaleEntry, Whole, Peer
  <2>1. k \in Nodes /\ Peer(k, d) \in Nodes
    BY HasPeer
  <2>2. CASE k = n /\ Peer(k, d) = m
    BY <1>4, <2>2
  <2>3. CASE k # n \/ Peer(k, d) # m
    BY <1>4, <2>1, <2>3 DEF NoStaleEntry
  <2> QED BY <2>2, <2>3
<1> QED BY <1>6, <1>7, <1>8, <1>9, <1>10, <1>11, <1>12

\* Steps of a goroutine that leave the connections alone.
LEMMA SenderKeeps ==
  ASSUME NetworkInv, UNCHANGED <<phase, toDial, conns, Connections, backlog>>,
         sender' \in SenderType, SenderInv'
  PROVE  NetworkInv'
<1> USE DEF NetworkInv
<1>1. NetworkTypes'
  BY DEF NetworkTypes
<1>2. ConnsInv' /\ DialInv' /\ LastInv' /\ TableInv' /\ BacklogInv' /\ QueuedInv'
  BY DEF ConnsInv, DialInv, LastInv, TableInv, BacklogInv, QueuedInv, Whole
<1>3. NoStaleEntry'
  BY DEF NoStaleEntry, Whole, Peer
<1> QED BY <1>1, <1>2, <1>3

LEMMA GotoKeeps ==
  ASSUME NetworkInv, NEW n \in Nodes, NEW g \in Goroutines,
         NEW at \in {"found", "failed", "CloseConn"}, NEW m \in Nodes \ {n}, NEW c \in Nat,
         at = "CloseConn" => c \in DOMAIN conns /\ conns[c].pair = {n, m},
         Goto(n, g, at, m, c), UNCHANGED <<phase, toDial, conns, Connections, backlog>>
  PROVE  NetworkInv'
<1> DEFINE s == [at |-> at, to |-> m, conn |-> c]
<1>1. s.at = at /\ s.to = m /\ s.conn = c /\ s \in SenderAt
  <2>1. m \in Int
    BY NetworkAssumption DEF Nodes
  <2> QED BY <2>1 DEF SenderAt
<1>2. sender' = [sender EXCEPT ![n][g] = s]
  BY DEF Goto
<1> HIDE DEF s
<1>3. SendsFrom(s, n, conns')
  BY <1>1 DEF SendsFrom
<1>4. PairsStay /\ SenderInv /\ sender \in SenderType
  BY DEF PairsStay, NetworkInv, NetworkTypes
<1>5. sender' \in SenderType /\ SenderInv'
  BY <1>1, <1>2, <1>3, <1>4, SenderMoves
<1> QED BY <1>5, SenderKeeps

LEMMA SendingKeeps ==
  ASSUME NetworkInv, NEW n \in Nodes, NEW g \in Goroutines, Sending(n, g)
  PROVE  NetworkInv'
<1>1. None \in Nat
  BY DEF None
<1>2. ASSUME NEW m \in Nodes, SendMessage(n, g, m) PROVE NetworkInv'
  BY <1>1, <1>2, GotoKeeps DEF SendMessage
<1>3. CASE Write(n, g)
  <2>1. /\ sender[n][g].at = "found"
        /\ \/ sender' = [sender EXCEPT ![n][g] = Idle]
           \/ Goto(n, g, "failed", sender[n][g].to, None)
        /\ UNCHANGED <<phase, toDial, conns, Connections, backlog>>
    BY <1>3 DEF Write
  <2>2. sender[n][g].to \in Nodes \ {n}
    BY <2>1 DEF SenderInv, SendsFrom, NetworkInv
  <2>3. CASE Goto(n, g, "failed", sender[n][g].to, None)
    BY <1>1, <2>1, <2>2, <2>3, GotoKeeps
  <2>4. CASE sender' = [sender EXCEPT ![n][g] = Idle]
    <3>1. PairsStay /\ SenderInv /\ sender \in SenderType
      BY <2>1 DEF PairsStay, NetworkInv, NetworkTypes
    <3>2. sender' \in SenderType /\ SenderInv'
      BY <2>4, <3>1, IdleSends, SenderMoves
    <3> QED BY <2>1, <3>2, SenderKeeps
  <2> QED BY <2>1, <2>3, <2>4
<1>4. CASE CallCloseConn(n, g)
  <2> DEFINE m == sender[n][g].to
             c == Connections[n][m]
  <2>1. /\ sender[n][g].at = "failed" /\ c # None
        /\ Goto(n, g, "CloseConn", m, c)
        /\ UNCHANGED <<phase, toDial, conns, Connections, backlog>>
    BY <1>4 DEF CallCloseConn
  <2>2. m \in Nodes \ {n}
    BY <2>1 DEF SenderInv, SendsFrom, NetworkInv
  <2>3. c \in DOMAIN conns /\ conns[c].pair = {n, m}
    BY <2>1, <2>2 DEF TableInv, NetworkInv
  <2>4. c \in Nat
    BY <2>2 DEF NetworkInv, NetworkTypes
  <2> HIDE DEF m, c
  <2> QED BY <2>1, <2>2, <2>3, <2>4, GotoKeeps
<1>5. CASE Close(n, g)
  BY <1>5, CloseKeeps
<1>6. CASE Delete(n, g)
  BY <1>6, DeleteKeeps
<1>7. CASE Panic(n, g)
  BY <1>7, DownKeeps DEF Panic
<1> QED BY <1>2, <1>3, <1>4, <1>5, <1>6, <1>7 DEF Sending

LEMMA NextNetwork ==
  ASSUME NetworkInv, [Next]_vars
  PROVE  NetworkInv'
<1>1. ASSUME NEW n \in Nodes, Start(n) PROVE NetworkInv'
  BY <1>1, StartKeeps
<1>2. ASSUME NEW n \in Nodes, Dial(n) PROVE NetworkInv'
  BY <1>2, DialKeeps
<1>3. ASSUME NEW n \in Nodes, StartServer(n) PROVE NetworkInv'
  BY <1>3, StartServerKeeps
<1>4. ASSUME NEW n \in Nodes, AcceptConn(n) PROVE NetworkInv'
  BY <1>4, AcceptKeeps
<1>5. ASSUME NEW n \in Nodes, Crash(n) PROVE NetworkInv'
  BY <1>5, DownKeeps DEF Crash
<1>6. ASSUME NEW n \in Nodes, NEW g \in Goroutines, Sending(n, g) PROVE NetworkInv'
  BY <1>6, SendingKeeps
<1>7. CASE UNCHANGED vars
  <2>1. PairsStay /\ SenderInv /\ sender' \in SenderType
    BY <1>7 DEF vars, PairsStay, NetworkInv, NetworkTypes
  <2>2. SenderInv'
    BY <1>7, <2>1, SenderStays DEF vars
  <2> QED BY <1>7, <2>1, <2>2, SenderKeeps DEF vars
<1> QED BY <1>1, <1>2, <1>3, <1>4, <1>5, <1>6, <1>7 DEF Next

-----------------------------------------------------------------------------
(* Theorems *)

\* NetworkInv is inductive.
THEOREM NetworkInvariant == Spec => []NetworkInv
<1>1. Init => NetworkInv
  BY InitNetwork
<1>2. NetworkInv /\ [Next]_vars => NetworkInv'
  BY NextNetwork
<1> QED BY <1>1, <1>2, PTL DEF Spec

\* A table holds, under the id of another node, a connection between the two,
\* and every socket that is open belongs to a node that runs.
THEOREM NetworkTypeCorrect == Spec => []NetworkTypeOK
<1>1. NetworkInv => NetworkTypeOK
  <2> SUFFICES ASSUME NetworkInv PROVE NetworkTypeOK
    OBVIOUS
  <2> USE DEF NetworkInv
  <2>1. ASSUME NEW c \in DOMAIN conns
        PROVE  /\ conns[c].open \subseteq conns[c].pair
               /\ conns[c].pair \subseteq Nodes /\ Cardinality(conns[c].pair) = 2
    <3>1. PICK n, m \in Nodes : n # m /\ conns[c].pair = {n, m}
      BY DEF ConnsInv
    <3>2. Cardinality({n, m}) = 2
      <4>1. IsFiniteSet({n}) /\ Cardinality({n}) = 1
        BY FS_Singleton
      <4>2. m \notin {n} /\ {n} \cup {m} = {n, m}
        BY <3>1
      <4>3. Cardinality({n} \cup {m}) = Cardinality({n}) + 1
        BY <4>1, <4>2, FS_AddElement, Zenon
      <4> QED BY <4>1, <4>2, <4>3
    <3> QED BY <3>1, <3>2 DEF ConnsInv
  <2>2. \A n \in Nodes : \A i \in DOMAIN backlog[n] :
          backlog[n][i] \in DOMAIN conns /\ n \in conns[backlog[n][i]].pair
    BY DEF BacklogInv
  <2> QED BY <2>1, <2>2 DEF NetworkTypeOK, NetworkTypes, TableInv
<1> QED BY <1>1, NetworkInvariant, PTL

\* However often nodes crash and start again, two running processes never
\* hold two connections with each other.
THEOREM OneConnectionEach == Spec => []OneConnection
<1>1. NetworkInv => OneConnection
  <2> SUFFICES ASSUME NetworkInv, NEW c \in DOMAIN conns, NEW d \in DOMAIN conns,
                      Whole(c), Whole(d), conns[c].pair = conns[d].pair
               PROVE  c = d
    BY DEF OneConnection
  <2>1. c <= d /\ d <= c
    BY DEF NetworkInv, LastInv
  <2>2. c \in Nat /\ d \in Nat
    BY ConnsType DEF NetworkInv
  <2> QED BY <2>1, <2>2
<1> QED BY <1>1, NetworkInvariant, PTL

\* An older connection never stands in for the one two running nodes have:
\* what a table holds is that one or, after a delete, nothing.
THEOREM EntryNotStale == Spec => []NoStaleEntry
<1>1. NetworkInv => NoStaleEntry
  BY DEF NetworkInv
<1> QED BY <1>1, NetworkInvariant, PTL

=============================================================================
