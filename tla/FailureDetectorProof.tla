------------------------ MODULE FailureDetectorProof ------------------------
(***************************************************************************)
(* The failure detector and the leader detector it drives, for any number  *)
(* of nodes and candidates: through any timeout procedure, any number of   *)
(* crashes and heartbeats in any order, the leader is the highest          *)
(* candidate not suspected, and the subscriber gets its changes.           *)
(***************************************************************************)
EXTENDS FailureDetector, SequenceTheorems, FiniteSetTheorems, WellFoundedInduction, TLAPS

Leaders == Candidates \cup {UnknownID}

\* What the subscriber's channel tells of the leader, to one that trusts t: every
\* entry is a change, and the last one is the leader.
Follows(t, m) ==
  /\ m.channel \in Seq(Leaders)
  /\ IF m.channel = <<>> THEN t = m.leaderNode
                         ELSE m.channel[Len(m.channel)] = m.leaderNode
  /\ m.channel # <<>> => t # m.channel[1]
  /\ \A i \in 1..(Len(m.channel) - 1) : m.channel[i] # m.channel[i + 1]

\* Failure detector and leader detector agree, as they do after each round of
\* timeout's loop.
Agrees(e) ==
  /\ e.suspected \subseteq Nodes
  /\ e.ld.suspectedNodes = e.suspected
  /\ e.ld.leaderNode = Monarch(e.suspected)
  /\ Follows(trusted, e.ld)

HeartbeatInv ==
  /\ alive \subseteq Nodes /\ requests \subseteq Nodes /\ replies \subseteq Nodes
  /\ crashed \subseteq Nodes \ {Self} /\ faults \in 0..MaxFaults
  /\ delay \in Nat \ {0}

DetectorInv ==
  /\ HeartbeatInv
  /\ Agrees([suspected |-> suspected, ld |-> ld])
  /\ trusted \in Leaders

-----------------------------------------------------------------------------
(* Induction, from the well-foundedness of the natural numbers *)

LEMMA Least ==
  ASSUME NEW T \in SUBSET Nat, T # {}
  PROVE  \E x \in T : \A y \in T : x <= y
<1> DEFINE R == OpToRel(<, Nat)
<1>1. IsWellFoundedOn(R, Nat)
  BY NatLessThanWellFounded
<1>2. \A x, y \in Nat : y < x => <<y, x>> \in R
  BY DEF OpToRel
<1> HIDE DEF R
<1>3. PICK x \in T : \A y \in T : ~ (<<y, x>> \in R)
  BY <1>1, WFMin
<1>4. ASSUME NEW y \in T PROVE x <= y
  <2>1. <<y, x>> \notin R
    BY <1>3
  <2>2. x \in Nat /\ y \in Nat
    OBVIOUS
  <2>3. ~ (y < x)
    BY <1>2, <2>1, <2>2
  <2> QED BY <2>2, <2>3
<1> QED BY <1>4

LEMMA Induction ==
  ASSUME NEW S, 0 \in S, \A n \in Nat : n \in S => n + 1 \in S
  PROVE  Nat \subseteq S
<1> SUFFICES ASSUME ~ (Nat \subseteq S) PROVE FALSE
  OBVIOUS
<1>1. PICK x \in Nat \ S : \A y \in Nat \ S : x <= y
  BY Least
<1>2. x # 0 /\ x - 1 \in Nat /\ x - 1 \in S
  BY <1>1
<1> QED BY <1>1, <1>2

-----------------------------------------------------------------------------
(* The monarch *)

\* A finite set of integers that is not empty has a greatest element.
LEMMA Greatest ==
  ASSUME NEW T \in SUBSET Int, IsFiniteSet(T), T # {}
  PROVE  \E x \in T : \A y \in T : x >= y
<1> DEFINE S == {n \in Nat : \A U \in SUBSET Int :
                   IsFiniteSet(U) /\ U # {} /\ Cardinality(U) = n =>
                     \E x \in U : \A y \in U : x >= y}
<1>1. 0 \in S
  BY FS_EmptySet
<1>2. ASSUME NEW n \in Nat, n \in S PROVE n + 1 \in S
  <2> SUFFICES ASSUME NEW U \in SUBSET Int, IsFiniteSet(U), U # {}, Cardinality(U) = n + 1
               PROVE  \E x \in U : \A y \in U : x >= y
    OBVIOUS
  <2>1. PICK u \in U : TRUE
    OBVIOUS
  <2>2. IsFiniteSet(U \ {u}) /\ Cardinality(U \ {u}) = n
    <3>1. IsFiniteSet(U \ {u}) /\ Cardinality(U \ {u}) = Cardinality(U) - 1
      BY FS_RemoveElement
    <3> QED BY <3>1
  <2>3. CASE U \ {u} = {}
    BY <2>3
  <2>4. CASE U \ {u} # {}
    <3>1. PICK x \in U \ {u} : \A y \in U \ {u} : x >= y
      BY <1>2, <2>2, <2>4
    <3>2. CASE x >= u
      BY <3>1, <3>2
    <3>3. CASE u > x
      BY <3>1, <3>3
    <3> QED BY <3>2, <3>3
  <2> QED BY <2>3, <2>4
<1> HIDE DEF S
<1>3. Nat \subseteq S
  BY <1>1, <1>2, Induction
<1>4. Cardinality(T) \in S
  BY <1>3, FS_CardinalityType
<1> QED BY <1>4 DEF S

\* The monarch is a candidate, or nobody.
LEMMA MonarchType ==
  ASSUME NEW s
  PROVE  Monarch(s) \in Leaders
<1> DEFINE T == {UnknownID} \cup {id \in Candidates \ s : id > UnknownID}
<1>1. IsFiniteSet({UnknownID}) /\ IsFiniteSet({id \in Candidates \ s : id > UnknownID})
  BY CandidateAssumption, FS_Singleton, FS_Subset
<1>2. IsFiniteSet(T)
  BY <1>1, FS_Union
<1>3. T \in SUBSET Int /\ T # {} /\ T \subseteq Leaders
  <2>1. UnknownID \in Int
    BY DEF UnknownID
  <2> QED BY <2>1, CandidateAssumption DEF Leaders
<1> HIDE DEF T
<1>4. \E x \in T : \A y \in T : x >= y
  BY <1>2, <1>3, Greatest
<1>5. Max(T) \in T
  BY <1>4 DEF Max
<1> QED BY <1>3, <1>5 DEF Monarch, T

-----------------------------------------------------------------------------
(* Suspecting and restoring *)

\* LeaderChange and Publish keep the subscriber's view of the leader.
LEMMA IndicateFollows ==
  ASSUME NEW t, NEW m, Follows(t, m), NEW s
  PROVE  /\ Indicate(m, s).suspectedNodes = s
         /\ Indicate(m, s).leaderNode = Monarch(s)
         /\ Follows(t, Indicate(m, s))
<1> DEFINE i == Indicate(m, s)
           c == m.channel
<1>1. /\ i.suspectedNodes = s /\ i.leaderNode = Monarch(s)
      /\ i.channel = IF Monarch(s) = m.leaderNode THEN c ELSE Append(c, Monarch(s))
  BY DEF Indicate
<1> HIDE DEF i
<1>2. c \in Seq(Leaders) /\ Monarch(s) \in Leaders
  BY MonarchType DEF Follows
<1> SUFFICES i.suspectedNodes = s /\ i.leaderNode = Monarch(s) /\ Follows(t, i)
  BY DEF i
<1>3. CASE Monarch(s) = m.leaderNode
  <2>1. i.channel = m.channel /\ i.leaderNode = m.leaderNode
    BY <1>1, <1>3
  <2>2. Follows(t, i)
    BY <2>1 DEF Follows
  <2> QED BY <1>1, <2>2
<1>4. CASE Monarch(s) # m.leaderNode
  <2>1. i.channel = Append(c, Monarch(s))
    BY <1>1, <1>4
  <2>2. /\ Append(c, Monarch(s)) \in Seq(Leaders)
        /\ Append(c, Monarch(s)) # <<>>
        /\ Len(Append(c, Monarch(s))) = Len(c) + 1
        /\ \A k \in 1..Len(c) : Append(c, Monarch(s))[k] = c[k]
        /\ Append(c, Monarch(s))[Len(c) + 1] = Monarch(s)
    BY <1>2, AppendProperties
  <2>3. Len(c) \in Nat /\ (c # <<>> => Len(c) # 0) /\ (c = <<>> => Len(c) = 0)
    BY <1>2, LenProperties, EmptySeq
  <2>4. t # i.channel[1]
    <3>1. CASE c = <<>>
      BY <1>4, <2>1, <2>2, <2>3, <3>1 DEF Follows
    <3>2. CASE c # <<>>
      <4>1. 1 \in 1..Len(c)
        BY <2>3, <3>2
      <4> QED BY <2>1, <2>2, <3>2, <4>1 DEF Follows
    <3> QED BY <3>1, <3>2
  <2>5. ASSUME NEW k \in 1..(Len(i.channel) - 1) PROVE i.channel[k] # i.channel[k + 1]
    <3>1. k \in 1..Len(c) /\ c # <<>>
      BY <2>1, <2>2, <2>3
    <3>2. CASE k = Len(c)
      <4>1. c[Len(c)] = m.leaderNode
        BY <3>1 DEF Follows
      <4> QED BY <1>4, <2>1, <2>2, <3>1, <3>2, <4>1
    <3>3. CASE k # Len(c)
      <4>1. k \in 1..(Len(c) - 1) /\ k + 1 \in 1..Len(c)
        BY <2>3, <3>1, <3>3
      <4>2. c[k] # c[k + 1]
        BY <4>1 DEF Follows
      <4> QED BY <2>1, <2>2, <3>1, <4>1, <4>2
    <3> QED BY <3>2, <3>3
  <2>6. i.channel[Len(i.channel)] = i.leaderNode
    BY <1>1, <2>1, <2>2
  <2>7. i.channel \in Seq(Leaders) /\ i.channel # <<>>
    BY <2>1, <2>2
  <2>8. Follows(t, i)
    BY <2>4, <2>5, <2>6, <2>7 DEF Follows
  <2> QED BY <1>1, <2>8
<1> QED BY <1>3, <1>4

\* A round of timeout's loop keeps the two detectors together.
LEMMA CheckNodeAgrees ==
  ASSUME NEW e, Agrees(e), NEW q \in Nodes
  PROVE  Agrees(CheckNode(e, q))
<1>1. CASE q \notin alive /\ q \notin e.suspected
  <2>1. CheckNode(e, q) =
          [suspected |-> e.suspected \cup {q},
           ld |-> Indicate(e.ld, e.suspected \cup {q})]
    BY <1>1 DEF CheckNode, Suspect, Agrees
  <2> QED BY <2>1, IndicateFollows DEF Agrees
<1>2. CASE q \in alive /\ q \in e.suspected
  <2>1. CheckNode(e, q) =
          [suspected |-> e.suspected \ {q},
           ld |-> Indicate(e.ld, e.suspected \ {q})]
    BY <1>2 DEF CheckNode, Restore, Agrees
  <2> QED BY <2>1, IndicateFollows DEF Agrees
<1>3. CASE ~ (q \notin alive /\ q \notin e.suspected) /\ ~ (q \in alive /\ q \in e.suspected)
  BY <1>3 DEF CheckNode
<1> QED BY <1>1, <1>2, <1>3

\* The loop's state after any number of rounds is what the recursion says.
LEMMA CheckedUnfolds ==
  /\ Checked[0] = [suspected |-> suspected, ld |-> ld]
  /\ \A i \in 1..Len(NodeIDs) : Checked[i] = CheckNode(Checked[i - 1], NodeIDs[i])
<1> DEFINE b == [suspected |-> suspected, ld |-> ld]
           Rounds(f, n) == f = [i \in 0..n |-> IF i = 0 THEN b
                                                ELSE CheckNode(f[i - 1], NodeIDs[i])]
           S == {n \in Nat : \E f : Rounds(f, n)}
<1>1. 0 \in S
  <2> DEFINE f == [i \in 0..0 |-> b]
  <2>1. f = [i \in 0..0 |-> IF i = 0 THEN b ELSE CheckNode(f[i - 1], NodeIDs[i])]
    OBVIOUS
  <2> QED BY <2>1
<1>2. ASSUME NEW n \in Nat, n \in S PROVE n + 1 \in S
  <2>1. PICK f : Rounds(f, n)
    BY <1>2
  <2> DEFINE g == [i \in 0..(n + 1) |-> IF i <= n THEN f[i] ELSE CheckNode(f[n], NodeIDs[n + 1])]
  <2>2. ASSUME NEW i \in 0..(n + 1)
        PROVE  g[i] = IF i = 0 THEN b ELSE CheckNode(g[i - 1], NodeIDs[i])
    <3>1. CASE i = 0
      BY <2>1, <3>1
    <3>2. CASE i \in 1..n
      <4>1. i - 1 \in 0..n /\ i \in 0..n /\ i # 0
        BY <3>2
      <4>2. f[i] = CheckNode(f[i - 1], NodeIDs[i])
        BY <2>1, <4>1
      <4>3. g[i] = f[i] /\ g[i - 1] = f[i - 1]
        BY <3>2, <4>1
      <4> QED BY <4>1, <4>2, <4>3
    <3>3. CASE i = n + 1
      <4>1. g[i] = CheckNode(f[n], NodeIDs[n + 1]) /\ g[n] = f[n] /\ i - 1 = n /\ i # 0
        BY <3>3
      <4> QED BY <3>3, <4>1
    <3> QED BY <3>1, <3>2, <3>3
  <2>3. Rounds(g, n + 1)
    BY <2>2
  <2> HIDE DEF g, Rounds
  <2>4. \E h : Rounds(h, n + 1)
    BY <2>3
  <2> QED BY <2>4
<1> HIDE DEF S
<1>3. Nat \subseteq S
  BY <1>1, <1>2, Induction
<1>4. Len(NodeIDs) \in Nat
  BY DetectorAssumption, LenProperties
<1>5. \E f : Rounds(f, Len(NodeIDs))
  BY <1>3, <1>4 DEF S
<1>6. Rounds(Checked, Len(NodeIDs))
  BY <1>5 DEF Checked
<1> QED BY <1>4, <1>6

\* After the whole loop the two detectors agree, if they did before it.
LEMMA CheckedAgrees ==
  ASSUME Agrees([suspected |-> suspected, ld |-> ld])
  PROVE  Agrees(Checked[Len(NodeIDs)])
<1> DEFINE S == {i \in Nat : i <= Len(NodeIDs) => Agrees(Checked[i])}
<1>1. Len(NodeIDs) \in Nat /\ DOMAIN NodeIDs = 1..Len(NodeIDs)
  BY DetectorAssumption, LenProperties
<1>2. 0 \in S
  BY CheckedUnfolds
<1>3. ASSUME NEW i \in Nat, i \in S PROVE i + 1 \in S
  <2> SUFFICES ASSUME i + 1 <= Len(NodeIDs) PROVE Agrees(Checked[i + 1])
    OBVIOUS
  <2>1. i + 1 \in 1..Len(NodeIDs) /\ (i + 1) - 1 = i /\ i <= Len(NodeIDs)
    BY <1>1
  <2>2. Checked[i + 1] = CheckNode(Checked[i], NodeIDs[i + 1])
    BY <2>1, CheckedUnfolds
  <2>3. NodeIDs[i + 1] \in Nodes
    BY <1>1, <2>1 DEF Nodes
  <2>4. Agrees(Checked[i])
    BY <1>3, <2>1
  <2> QED BY <2>2, <2>3, <2>4, CheckNodeAgrees
<1> HIDE DEF S
<1>4. Nat \subseteq S
  BY <1>2, <1>3, Induction
<1> QED BY <1>1, <1>4 DEF S

-----------------------------------------------------------------------------
(* The steps *)

LEMMA InitDetector ==
  ASSUME Init
  PROVE  DetectorInv
<1>1. HeartbeatInv
  BY DetectorAssumption DEF Init, HeartbeatInv
<1>2. ld.suspectedNodes = {} /\ ld.leaderNode = Monarch({}) /\ ld.channel = <<>>
  BY DEF Init, NewMonLeaderDetector
<1>3. <<>> \in Seq(Leaders) /\ Len(<<>>) = 0
  BY EmptySeq
<1>4. Follows(trusted, ld)
  BY <1>2, <1>3 DEF Init, Follows
<1>5. Agrees([suspected |-> suspected, ld |-> ld])
  BY <1>2, <1>4 DEF Init, Agrees
<1>6. trusted \in Leaders
  BY <1>2, MonarchType DEF Init
<1> QED BY <1>1, <1>5, <1>6 DEF DetectorInv

LEMMA TimeoutKeeps ==
  ASSUME DetectorInv, Timeout
  PROVE  DetectorInv'
<1> DEFINE e == Checked[Len(NodeIDs)]
<1>1. Agrees(e)
  BY CheckedAgrees DEF DetectorInv
<1>2. suspected' = e.suspected /\ ld' = e.ld /\ trusted' = trusted
  BY DEF Timeout
<1> HIDE DEF e
<1>3. Agrees([suspected |-> suspected, ld |-> ld])'
  BY <1>1, <1>2 DEF Agrees, Follows
<1>4. HeartbeatInv'
  <2>1. /\ delay' = NextDelay /\ alive' = {} /\ requests' = requests \cup (Nodes \ crashed)
        /\ UNCHANGED <<replies, crashed, faults>>
    BY DEF Timeout, faultVars
  <2>2. NextDelay \in Nat \ {0}
    BY DEF NextDelay, DetectorInv, HeartbeatInv
  <2> QED BY <2>1, <2>2 DEF DetectorInv, HeartbeatInv
<1> QED BY <1>2, <1>3, <1>4 DEF DetectorInv

\* The subscriber takes the first change from its channel.
LEMMA ReceiveLeaderKeeps ==
  ASSUME DetectorInv, ReceiveLeader
  PROVE  DetectorInv'
<1> DEFINE c == ld.channel
<1>1. /\ c # <<>> /\ trusted' = Head(c) /\ ld' = [ld EXCEPT !.channel = Tail(c)]
      /\ UNCHANGED <<alive, suspected, delay, requests, replies, crashed, faults>>
  BY DEF ReceiveLeader, networkVars, faultVars
<1>2. Follows(trusted, ld) /\ c \in Seq(Leaders)
  BY DEF DetectorInv, Agrees, Follows
<1>3. /\ Len(c) \in Nat \ {0}
      /\ Head(c) \in Leaders /\ Head(c) = c[1]
      /\ Tail(c) \in Seq(Leaders) /\ Len(Tail(c)) = Len(c) - 1
      /\ \A i \in 1..(Len(c) - 1) : Tail(c)[i] = c[i + 1]
  BY <1>1, <1>2, EmptySeq, HeadTailProperties
<1>4. Tail(c) = <<>> <=> Len(Tail(c)) = 0
  BY <1>3, EmptySeq
<1>5. ld'.channel = Tail(c) /\ ld'.leaderNode = ld.leaderNode /\ ld'.suspectedNodes = ld.suspectedNodes
  BY <1>1
<1> HIDE DEF c
<1>6. Follows(trusted', ld')
  <2> DEFINE d == Tail(c)
  <2>1. IF d = <<>> THEN trusted' = ld.leaderNode ELSE d[Len(d)] = ld.leaderNode
    BY <1>1, <1>2, <1>3, <1>4 DEF Follows, c
  <2>2. ASSUME d # <<>> PROVE trusted' # d[1]
    <3>1. 1 \in 1..(Len(c) - 1)
      BY <1>3, <1>4, <2>2
    <3>2. c[1] # c[1 + 1] /\ d[1] = c[1 + 1]
      BY <1>2, <1>3, <3>1 DEF Follows, c
    <3> QED BY <1>1, <1>3, <3>2
  <2>3. \A i \in 1..(Len(d) - 1) : d[i] # d[i + 1]
    BY <1>2, <1>3 DEF Follows, c
  <2> QED BY <1>3, <1>5, <2>1, <2>2, <2>3 DEF Follows
<1>7. Agrees([suspected |-> suspected, ld |-> ld])'
  BY <1>1, <1>5, <1>6 DEF DetectorInv, Agrees
<1>8. HeartbeatInv'
  BY <1>1 DEF DetectorInv, HeartbeatInv
<1> QED BY <1>1, <1>3, <1>7, <1>8 DEF DetectorInv

\* Heartbeats, crashes and restarts leave both detectors alone.
LEMMA HeartbeatKeeps ==
  ASSUME DetectorInv, UNCHANGED <<suspected, ld, trusted>>, HeartbeatInv'
  PROVE  DetectorInv'
BY DEF DetectorInv, Agrees, Follows

LEMMA StepDetector ==
  ASSUME DetectorInv, [Next]_vars
  PROVE  DetectorInv'
<1>1. CASE Timeout
  BY <1>1, TimeoutKeeps
<1>2. CASE ReceiveLeader
  BY <1>2, ReceiveLeaderKeeps
<1>3. ASSUME NEW q \in Nodes, HandleRequest(q) PROVE DetectorInv'
  <2>1. HeartbeatInv' /\ UNCHANGED <<suspected, ld, trusted>>
    BY <1>3 DEF HandleRequest, DetectorInv, HeartbeatInv, detectorVars, faultVars
  <2> QED BY <2>1, HeartbeatKeeps
<1>4. ASSUME NEW q \in Nodes, HandleReply(q) PROVE DetectorInv'
  <2>1. HeartbeatInv' /\ UNCHANGED <<suspected, ld, trusted>>
    BY <1>4 DEF HandleReply, DetectorInv, HeartbeatInv, faultVars
  <2> QED BY <2>1, HeartbeatKeeps
<1>5. ASSUME NEW q \in Nodes, Crash(q) PROVE DetectorInv'
  <2>1. faults' \in 0..MaxFaults
    BY <1>5, DetectorAssumption DEF Crash, DetectorInv, HeartbeatInv
  <2>2. HeartbeatInv' /\ UNCHANGED <<suspected, ld, trusted>>
    BY <1>5, <2>1 DEF Crash, DetectorInv, HeartbeatInv, detectorVars
  <2> QED BY <2>2, HeartbeatKeeps
<1>6. ASSUME NEW q \in Nodes, Restart(q) PROVE DetectorInv'
  <2>1. HeartbeatInv' /\ UNCHANGED <<suspected, ld, trusted>>
    BY <1>6 DEF Restart, DetectorInv, HeartbeatInv, detectorVars, networkVars
  <2> QED BY <2>1, HeartbeatKeeps
<1>7. CASE UNCHANGED vars
  <2>1. HeartbeatInv' /\ UNCHANGED <<suspected, ld, trusted>>
    BY <1>7 DEF vars, detectorVars, networkVars, faultVars, DetectorInv, HeartbeatInv
  <2> QED BY <2>1, HeartbeatKeeps
<1> QED BY <1>1, <1>2, <1>3, <1>4, <1>5, <1>6, <1>7 DEF Next

-----------------------------------------------------------------------------
\* The failure detector, the leader detector and what was published to the
\* subscriber agree at every moment, whether or not the subscriber keeps reading.
THEOREM DetectorInvariant == SlowSubscriberSpec => []DetectorInv
<1>1. Init => DetectorInv
  BY InitDetector
<1>2. DetectorInv /\ [Next]_vars => DetectorInv'
  BY StepDetector
<1> QED BY <1>1, <1>2, PTL DEF SlowSubscriberSpec

\* The detectors' fields are sets of nodes of the cluster, and a leader, published
\* or read, is one of the candidates or UnknownID.
THEOREM DetectorTypeCorrect == Spec => []DetectorTypeOK
<1>1. DetectorInv => DetectorTypeOK
  <2> SUFFICES ASSUME DetectorInv PROVE DetectorTypeOK
    OBVIOUS
  <2>1. /\ suspected \subseteq Nodes /\ ld.suspectedNodes = suspected
        /\ ld.leaderNode = Monarch(suspected) /\ ld.channel \in Seq(Leaders)
    BY DEF DetectorInv, Agrees, Follows
  <2>2. ld.leaderNode \in Leaders
    BY <2>1, MonarchType
  <2> QED BY <2>1, <2>2 DEF DetectorInv, HeartbeatInv, DetectorTypeOK, Leaders
<1> QED BY <1>1, DetectorInvariant, PTL DEF Spec

\* Whatever Suspect and Restore calls the timeouts made, in whatever order, the
\* leader is the highest candidate the failure detector does not suspect.
THEOREM LeaderCorrect == Spec => []LeaderIsMonarch
<1>1. DetectorInv => LeaderIsMonarch
  BY DEF DetectorInv, Agrees, LeaderIsMonarch
<1> QED BY <1>1, DetectorInvariant, PTL DEF Spec

\* A subscriber of the leader detector gets every change of the leader, in order,
\* and nothing else, however late it reads its channel.
THEOREM PublicationsCorrect == Spec => []PublicationsFollowLeader
<1>1. ASSUME DetectorInv PROVE PublicationsFollowLeader
  <2> DEFINE c == ld.channel
             seen == <<trusted>> \o c
  <2>1. Follows(trusted, ld) /\ c \in Seq(Leaders) /\ trusted \in Leaders
    BY <1>1 DEF DetectorInv, Agrees, Follows
  <2>2. Len(c) \in Nat /\ (c = <<>> <=> Len(c) = 0)
    BY <2>1, LenProperties, EmptySeq
  <2>3. <<trusted>> \in Seq(Leaders) /\ Len(<<trusted>>) = 1 /\ <<trusted>>[1] = trusted
    BY <2>1
  <2>4. /\ Len(seen) = 1 + Len(c)
        /\ \A i \in 1..(1 + Len(c)) :
             seen[i] = IF i <= 1 THEN <<trusted>>[i] ELSE c[i - 1]
    BY <2>1, <2>3, ConcatProperties
  <2> HIDE DEF seen
  <2>5. seen[Len(seen)] = ld.leaderNode
    <3>1. CASE c = <<>>
      BY <2>1, <2>2, <2>3, <2>4, <3>1 DEF Follows
    <3>2. CASE c # <<>>
      BY <2>1, <2>2, <2>4, <3>2 DEF Follows
    <3> QED BY <3>1, <3>2
  <2>6. ASSUME NEW i \in 1..(Len(seen) - 1) PROVE seen[i] # seen[i + 1]
    <3>1. CASE i = 1
      BY <2>1, <2>2, <2>3, <2>4, <3>1 DEF Follows
    <3>2. CASE i # 1
      <4>1. i - 1 \in 1..(Len(c) - 1) /\ seen[i] = c[i - 1] /\ seen[i + 1] = c[i - 1 + 1]
        BY SMTT(30), <2>2, <2>4, <3>2
      <4> QED BY <2>1, <4>1 DEF Follows
    <3> QED BY <3>1, <3>2
  <2> QED BY <2>5, <2>6 DEF PublicationsFollowLeader, seen
<1> QED BY <1>1, DetectorInvariant, PTL DEF Spec
=============================================================================
