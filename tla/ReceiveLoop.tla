---------------------------- MODULE ReceiveLoop ----------------------------
(***************************************************************************)
(* How messages get from a connection to a replica's main loop:            *)
(* ListenConns of lab3/network reads from the connection and fills         *)
(* ReceiveChan, which only the main loop empties (lab5/app/main.go), and   *)
(* which SendMessage, called by the main loop, fills as well when a        *)
(* message is for the node itself.                                         *)
(*                                                                         *)
(* Bytes are counted in pieces.  A promise has a piece for each slot it    *)
(* reports; in the code an empty message takes 654 bytes, each slot some   *)
(* 145, and the buffer 1024.                                               *)
(***************************************************************************)
EXTENDS Integers, Sequences

CONSTANTS
  Sizes,     \* how long messages are
  Buffer,    \* how much one Read takes
  ChanCap,   \* capacity of ReceiveChan
  MaxSent    \* bound: messages the peer sends

VARIABLES
  open,         \* the peer has not closed the connection
  sizeOf,       \* the messages the peer sent: their sizes, in order
  unread,       \* the pieces on the connection: message and position in it
  ReceiveChan,
  outgoing,     \* messages of this node's roles for itself, not sent yet
  sending,      \* the main loop is in SendMessage for one of them
  received      \* the peer's messages the main loop took, in order

vars == <<open, sizeOf, unread, ReceiveChan, outgoing, sending, received>>

ASSUME ReceiveAssumption ==
  /\ Sizes \subseteq Nat \ {0}
  /\ Buffer \in Nat \ {0} /\ ChanCap \in Nat \ {0} /\ MaxSent \in Nat

\* What the channel carries besides the peer's messages: a message that could
\* not be unmarshalled, and one from this node.
Empty == 0
Own == -1

Init ==
  /\ open = TRUE
  /\ sizeOf = <<>> /\ unread = <<>> /\ ReceiveChan = <<>>
  /\ outgoing = 0 /\ sending = FALSE
  /\ received = <<>>

PeerSends ==
  /\ open
  /\ Len(sizeOf) < MaxSent
  /\ \E size \in Sizes :
       /\ sizeOf' = Append(sizeOf, size)
       /\ unread' = unread \o [p \in 1..size |-> <<Len(sizeOf) + 1, p>>]
  /\ UNCHANGED <<open, ReceiveChan, outgoing, sending, received>>

PeerCloses ==
  /\ open
  /\ open' = FALSE
  /\ UNCHANGED <<sizeOf, unread, ReceiveChan, outgoing, sending, received>>

\* Mutant of Unmarshal: the start of a message will do.
UnmarshalPrefix(pieces) == IF pieces[1][2] = 1 THEN pieces[1][1] ELSE Empty

\* json.Unmarshal of what one Read returned: a message if it is exactly one.
Unmarshal(pieces) ==
  LET m == pieces[1][1]
  IN  IF pieces = [p \in 1..sizeOf[m] |-> <<m, p>>] THEN m ELSE Empty

Push(m) ==
  /\ Len(ReceiveChan) < ChanCap
  /\ ReceiveChan' = Append(ReceiveChan, m)

\* One round of ListenConns.  Read returns some of what is there.
ListenConns ==
  /\ \E k \in 1..Buffer :
       /\ k <= Len(unread)
       /\ Push(Unmarshal(SubSeq(unread, 1, k)))
       /\ unread' = SubSeq(unread, k + 1, Len(unread))
  /\ UNCHANGED <<open, sizeOf, outgoing, sending, received>>

\* Once the peer closed, Read returns nothing at once, and its error is ignored.
ListenClosed ==
  /\ ~open /\ unread = <<>>
  /\ Push(Empty)
  /\ UNCHANGED <<open, sizeOf, unread, outgoing, sending, received>>

\* The main loop hands a message to a role, which may answer this node (an
\* acceptor the proposer, say).  Empty messages match no case.
Receive ==
  /\ ~sending
  /\ ReceiveChan # <<>>
  /\ ReceiveChan' = Tail(ReceiveChan)
  /\ received' = IF Head(ReceiveChan) \in {Empty, Own} THEN received
                   ELSE Append(received, Head(ReceiveChan))
  /\ outgoing' \in IF Head(ReceiveChan) = Empty THEN {outgoing}
                     ELSE {outgoing, outgoing + 1}
  /\ outgoing' <= MaxSent
  /\ UNCHANGED <<open, sizeOf, unread, sending>>

SendOwn ==
  /\ ~sending /\ outgoing > 0
  /\ outgoing' = outgoing - 1
  /\ sending' = TRUE
  /\ UNCHANGED <<open, sizeOf, unread, ReceiveChan, received>>

SelfDelivery ==
  /\ sending
  /\ Push(Own)
  /\ sending' = FALSE
  /\ UNCHANGED <<open, sizeOf, unread, outgoing, received>>

Listen == ListenConns \/ ListenClosed

MainLoop == Receive \/ SendOwn \/ SelfDelivery

Next == PeerSends \/ PeerCloses \/ Listen \/ MainLoop

\* Both goroutines run; a select with two cases ready takes either sooner or
\* later.
Fairness ==
  /\ WF_vars(Listen)
  /\ WF_vars(Receive) /\ SF_vars(SendOwn) /\ SF_vars(SelfDelivery)

Spec == Init /\ [][Next]_vars /\ Fairness

-----------------------------------------------------------------------------
\* Messages of one connection are received in the order sent, each at most once,
\* and none that does not fit the buffer: a promise that reports three slots or
\* more never arrives.
InOrderIfFits ==
  LET arrived == received \o ReceiveChan
      FromPeer == {i \in DOMAIN arrived : arrived[i] \notin {Empty, Own}}
  IN  /\ \A i, j \in FromPeer : i < j => arrived[i] < arrived[j]
      /\ \A i \in FromPeer : sizeOf[arrived[i]] <= Buffer

\* The main loop comes back to its select.  Violated, see README.
MainLoopServes == sending ~> ~sending
=============================================================================
