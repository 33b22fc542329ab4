--------------------------- MODULE FailureDetector ---------------------------
(***************************************************************************)
(* lab3/detector/fd.go: one node's failure detector and the leader         *)
(* detector it drives, the heartbeats it exchanges with every node, itself *)
(* included, and the proposer that subscribes to the leader.  Other nodes  *)
(* run the same code; of theirs only the reply to a request matters here.  *)
(*                                                                         *)
(* Time is partially synchronous: once delay has reached RoundTrip, a      *)
(* timeout comes only after the requests to running nodes were answered    *)
(* and the answers received.  Below RoundTrip it may come at any moment,   *)
(* and a heartbeat may still be on its way for any number of timeouts.     *)
(***************************************************************************)
EXTENDS LeaderDetector

CONSTANTS
  NodeIDs,    \* nodeIDs, a sequence: every node of the cluster
  Self,       \* e.id
  RoundTrip,  \* heartbeat round trip time, in units of delta
  ChanCap,    \* capacity of a subscriber's channel, 3000 in the code
  MaxFaults   \* bound: crashes in a run

VARIABLES
  alive, suspected, delay,
  requests, replies,  \* nodes a request, or whose reply, is on its way
  crashed, faults,    \* nodes that are down; crashes so far
  trusted             \* the leader the subscriber last received

detectorVars == <<alive, suspected, delay, ld>>
networkVars == <<requests, replies>>
faultVars == <<crashed, faults>>
vars == <<detectorVars, networkVars, faultVars, trusted>>

ASSUME DetectorAssumption ==
  /\ NodeIDs \in Seq(Int)
  /\ RoundTrip \in Nat /\ ChanCap \in Nat /\ MaxFaults \in Nat

Nodes == {NodeIDs[i] : i \in DOMAIN NodeIDs}

\* NewEvtFailureDetector takes every node to be alive; the subscriber reads
\* Leader() before the failure detector starts.
Init ==
  /\ alive = Nodes
  /\ suspected = {}
  /\ delay = 1
  /\ ld = NewMonLeaderDetector
  /\ requests = {}
  /\ replies = {}
  /\ crashed = {}
  /\ faults = 0
  /\ trusted = ld.leaderNode

-----------------------------------------------------------------------------
(* The timeout procedure *)

\* One round of timeout's loop over nodeIDs.
CheckNode(e, q) ==
  IF q \notin alive /\ q \notin e.suspected
    THEN [suspected |-> e.suspected \cup {q}, ld |-> Suspect(e.ld, q)]
  ELSE IF q \in alive /\ q \in e.suspected
    THEN [suspected |-> e.suspected \ {q}, ld |-> Restore(e.ld, q)]
  ELSE e

\* The loop's state after each of its rounds.
Checked[i \in 0..Len(NodeIDs)] ==
  IF i = 0 THEN [suspected |-> suspected, ld |-> ld]
           ELSE CheckNode(Checked[i - 1], NodeIDs[i])

\* Mutants of NextDelay: a false suspicion teaches nothing, or the opposite.
NextDelayFixed == delay

NextDelayShrinks == IF alive \cap suspected # {} THEN delay - 1 ELSE delay

NextDelay == IF alive \cap suspected # {} THEN delay + 1 ELSE delay

Answered == (requests \cup replies) \subseteq crashed

\* Publish blocks in a channel that is full, and the timeout with it, until
\* the subscriber has made room.
Timeout ==
  LET checked == Checked[Len(NodeIDs)]
  IN  /\ delay >= RoundTrip => Answered
      /\ Len(checked.ld.channel) <= ChanCap
      /\ delay' = NextDelay
      /\ suspected' = checked.suspected
      /\ ld' = checked.ld
      /\ alive' = {}
      /\ requests' = requests \cup (Nodes \ crashed)
      /\ UNCHANGED <<replies, faultVars, trusted>>

-----------------------------------------------------------------------------
(* Heartbeats *)

\* The detector of q answers the request.
HandleRequest(q) ==
  /\ q \in requests
  /\ requests' = requests \ {q}
  /\ replies' = replies \cup {q}
  /\ UNCHANGED <<detectorVars, faultVars, trusted>>

HandleReply(q) ==
  /\ q \in replies
  /\ replies' = replies \ {q}
  /\ alive' = alive \cup {q}
  /\ UNCHANGED <<suspected, delay, ld, requests, faultVars, trusted>>

-----------------------------------------------------------------------------
(* Subscriber and faults *)

ReceiveLeader ==
  /\ ld.channel # <<>>
  /\ trusted' = Head(ld.channel)
  /\ ld' = [ld EXCEPT !.channel = Tail(@)]
  /\ UNCHANGED <<alive, suspected, delay, networkVars, faultVars>>

\* A crash loses the requests not yet answered, not the answers sent.
Crash(q) ==
  /\ faults < MaxFaults
  /\ faults' = faults + 1
  /\ q \notin crashed \cup {Self}
  /\ crashed' = crashed \cup {q}
  /\ requests' = requests \ {q}
  /\ UNCHANGED <<detectorVars, replies, trusted>>

Restart(q) ==
  /\ q \in crashed
  /\ crashed' = crashed \ {q}
  /\ UNCHANGED <<detectorVars, networkVars, faults, trusted>>

Next ==
  \/ Timeout
  \/ ReceiveLeader
  \/ \E q \in Nodes : HandleRequest(q) \/ HandleReply(q) \/ Crash(q) \/ Restart(q)

-----------------------------------------------------------------------------
(* Fairness: the ticker keeps ticking and the run loops of the detectors    *)
(* keep running; heartbeats between running nodes arrive.  A crashed node   *)
(* need not be restarted.                                                   *)

DetectorFairness ==
  /\ WF_vars(Timeout)
  /\ \A q \in Nodes : WF_vars(HandleRequest(q)) /\ WF_vars(HandleReply(q))

\* The subscriber may stop reading its channel.
SlowSubscriberSpec == Init /\ [][Next]_vars /\ DetectorFairness

Spec == SlowSubscriberSpec /\ WF_vars(ReceiveLeader)

-----------------------------------------------------------------------------
(* Properties *)

DetectorTypeOK ==
  /\ alive \subseteq Nodes /\ suspected \subseteq Nodes
  /\ requests \subseteq Nodes /\ replies \subseteq Nodes
  /\ crashed \subseteq Nodes \ {Self} /\ faults \in 0..MaxFaults
  /\ delay \in Nat \ {0}
  /\ ld.suspectedNodes \subseteq Nodes
  /\ ld.leaderNode \in Candidates \cup {UnknownID}
  /\ ld.channel \in Seq(Candidates \cup {UnknownID})
  /\ trusted \in Candidates \cup {UnknownID}

\* Through all the Suspect and Restore calls of a timeout, whatever their
\* order, the leader is the highest candidate the failure detector itself does
\* not suspect.
LeaderIsMonarch == ld.leaderNode = Monarch(suspected)

\* What a subscriber has read and what waits in its channel are the changes of
\* the leader, all of them and nothing else: it never reads the id it already
\* has, and once it has read everything it has the leader.
PublicationsFollowLeader ==
  LET seen == <<trusted>> \o ld.channel
  IN  /\ seen[Len(seen)] = ld.leaderNode
      /\ \A i \in 1..(Len(seen) - 1) : seen[i] # seen[i + 1]

\* The delay grows with every false suspicion until none is left: eventually
\* exactly the crashed nodes are suspected, and the subscriber trusts the
\* highest candidate that is up, for good.
EventuallyStable == <>[](suspected = crashed /\ trusted = Monarch(crashed))

\* lab3/detector/ld.go:71: "Subscribe will drop publications to slow
\* subscribers".  The detector then never waits for one.
NeverHeldUp == []<><<Timeout>>_vars
=============================================================================
