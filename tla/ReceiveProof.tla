---------------------------- MODULE ReceiveProof ----------------------------
(***************************************************************************)
(* Receiving, for messages of any sizes, any buffer and channel: what      *)
(* reaches the main loop is in the order sent, each message at most once,  *)
(* however the stream is cut into reads.                                   *)
(***************************************************************************)
EXTENDS ReceiveLoop, SequenceTheorems, TLAPS

FromPeer(m) == m \notin {Empty, Own}

\* The messages of the peer in q are in the order sent, without repetition.
Ordered(q) ==
  \A i, j \in DOMAIN q : i < j /\ FromPeer(q[i]) /\ FromPeer(q[j]) => q[i] < q[j]

\* What q holds was sent by the peer and fits the buffer, or is Empty or Own.
Arrivals(q) ==
  \A i \in DOMAIN q :
    FromPeer(q[i]) => q[i] \in DOMAIN sizeOf /\ sizeOf[q[i]] <= Buffer

TypeInv ==
  /\ sizeOf \in Seq(Sizes)
  /\ unread \in Seq(Nat \X Nat)
  /\ ReceiveChan \in Seq(Int) /\ Len(ReceiveChan) <= ChanCap
  /\ received \in Seq(Int)
  /\ outgoing \in 0..MaxSent /\ {open, sending} \subseteq BOOLEAN

\* The pieces on the connection are in the order sent, each once.
Before(a, b) == a[1] < b[1] \/ (a[1] = b[1] /\ a[2] < b[2])

StreamInv ==
  /\ \A i \in DOMAIN unread :
       unread[i][1] \in DOMAIN sizeOf /\ unread[i][2] \in 1..sizeOf[unread[i][1]]
  /\ \A i, j \in DOMAIN unread : i < j => Before(unread[i], unread[j])

\* No piece of a message that has arrived, or of an earlier one, is still to come.
Passed(q) == \A i \in DOMAIN q : \A j \in DOMAIN unread : q[i] < unread[j][1]

ArrivedInv ==
  /\ Arrivals(received) /\ Arrivals(ReceiveChan)
  /\ Ordered(received) /\ Ordered(ReceiveChan)
  /\ \A i \in DOMAIN received, j \in DOMAIN ReceiveChan :
       FromPeer(received[i]) /\ FromPeer(ReceiveChan[j]) => received[i] < ReceiveChan[j]
  /\ Passed(received) /\ Passed(ReceiveChan)

ReceiveInv == TypeInv /\ StreamInv /\ ArrivedInv

-----------------------------------------------------------------------------
(* Sequences *)

\* What is put at the end of a sequence comes last.
LEMMA Put ==
  ASSUME NEW S, NEW q \in Seq(S), NEW x \in S
  PROVE  /\ Append(q, x) \in Seq(S) /\ Len(Append(q, x)) = Len(q) + 1
         /\ DOMAIN q = 1..Len(q) /\ Len(q) \in Nat
         /\ DOMAIN Append(q, x) = 1..(Len(q) + 1)
         /\ Append(q, x)[Len(q) + 1] = x
         /\ \A i \in 1..Len(q) : Append(q, x)[i] = q[i]
<1>1. Len(q) \in Nat /\ DOMAIN q = 1..Len(q)
  BY LenProperties
<1>2. /\ Append(q, x) \in Seq(S)
      /\ Len(Append(q, x)) = Len(q) + 1
      /\ \A i \in 1..Len(q) : Append(q, x)[i] = q[i]
      /\ Append(q, x)[Len(q) + 1] = x
  BY AppendProperties
<1>3. DOMAIN Append(q, x) = 1..Len(Append(q, x))
  BY <1>2, LenProperties
<1> QED BY <1>1, <1>2, <1>3

\* What is taken from a queue was its first element, and the rest moves up.
LEMMA Taken ==
  ASSUME NEW S, NEW q \in Seq(S), q # <<>>
  PROVE  /\ Head(q) = q[1] /\ Head(q) \in S
         /\ Tail(q) \in Seq(S) /\ Len(Tail(q)) = Len(q) - 1
         /\ Len(q) \in Nat \ {0} /\ DOMAIN q = 1..Len(q)
         /\ DOMAIN Tail(q) = 1..(Len(q) - 1)
         /\ \A i \in 1..(Len(q) - 1) : Tail(q)[i] = q[i + 1]
<1>1. Len(q) \in Nat /\ Len(q) # 0 /\ DOMAIN q = 1..Len(q)
  BY EmptySeq, LenProperties
<1>2. /\ Head(q) \in S /\ Tail(q) \in Seq(S)
      /\ Len(Tail(q)) = Len(q) - 1
      /\ \A i \in 1..Len(Tail(q)) : Tail(q)[i] = q[i + 1]
  BY HeadTailProperties
<1>3. DOMAIN Tail(q) = 1..Len(Tail(q))
  BY <1>2, LenProperties
<1> QED BY <1>1, <1>2, <1>3

\* What is left of a sequence without its first k elements.
LEMMA Cut ==
  ASSUME NEW S, NEW q \in Seq(S), NEW k \in 0..Len(q)
  PROVE  /\ SubSeq(q, k + 1, Len(q)) \in Seq(S)
         /\ Len(q) \in Nat /\ DOMAIN q = 1..Len(q)
         /\ DOMAIN SubSeq(q, k + 1, Len(q)) = 1..(Len(q) - k)
         /\ \A i \in 1..(Len(q) - k) : SubSeq(q, k + 1, Len(q))[i] = q[i + k]
<1>1. Len(q) \in Nat /\ DOMAIN q = 1..Len(q)
  BY LenProperties
<1>2. k + 1 \in Int /\ Len(q) \in Int /\ \A i \in (k + 1)..Len(q) : q[i] \in S
  BY <1>1, ElementOfSeq
<1>3. /\ SubSeq(q, k + 1, Len(q)) \in Seq(S)
      /\ Len(SubSeq(q, k + 1, Len(q))) =
           IF k + 1 <= Len(q) THEN Len(q) - (k + 1) + 1 ELSE 0
      /\ \A i \in 1..(Len(q) - (k + 1) + 1) :
           SubSeq(q, k + 1, Len(q))[i] = q[(k + 1) + i - 1]
  BY <1>2, SubSeqProperties
<1>4. Len(SubSeq(q, k + 1, Len(q))) = Len(q) - k
  <2> DEFINE n == Len(q)
             l == Len(SubSeq(q, k + 1, n))
  <2>1. k \in 0..n /\ n \in Nat /\ l = IF k + 1 <= n THEN n - (k + 1) + 1 ELSE 0
    BY <1>1, <1>3
  <2> HIDE DEF n, l
  <2>2. l = n - k
    BY <2>1
  <2> QED BY <2>2 DEF n, l
<1>5. DOMAIN SubSeq(q, k + 1, Len(q)) = 1..(Len(q) - k)
  BY <1>3, <1>4, LenProperties
<1>6. \A i \in 1..(Len(q) - k) : SubSeq(q, k + 1, Len(q))[i] = q[i + k]
  BY <1>1, <1>3
<1> QED BY <1>1, <1>3, <1>5, <1>6

\* Two sequences, one after the other.
LEMMA Joined ==
  ASSUME NEW S, NEW q \in Seq(S), NEW r \in Seq(S)
  PROVE  /\ q \o r \in Seq(S)
         /\ Len(q) \in Nat /\ DOMAIN q = 1..Len(q)
         /\ Len(r) \in Nat /\ DOMAIN r = 1..Len(r)
         /\ DOMAIN (q \o r) = 1..(Len(q) + Len(r))
         /\ \A i \in 1..Len(q) : (q \o r)[i] = q[i]
         /\ \A i \in 1..(Len(q) + Len(r)) : i > Len(q) => (q \o r)[i] = r[i - Len(q)]
<1>1. Len(q) \in Nat /\ DOMAIN q = 1..Len(q) /\ Len(r) \in Nat /\ DOMAIN r = 1..Len(r)
  BY LenProperties
<1>2. /\ q \o r \in Seq(S)
      /\ Len(q \o r) = Len(q) + Len(r)
      /\ \A i \in 1..(Len(q) + Len(r)) : (q \o r)[i] =
           IF i <= Len(q) THEN q[i] ELSE r[i - Len(q)]
  BY ConcatProperties
<1>3. DOMAIN (q \o r) = 1..(Len(q) + Len(r))
  BY <1>2, LenProperties
<1> QED BY <1>1, <1>2, <1>3

-----------------------------------------------------------------------------
(* The steps *)

LEMMA InitReceive ==
  ASSUME Init
  PROVE  ReceiveInv
<1>1. /\ <<>> \in Seq(Sizes) /\ <<>> \in Seq(Nat \X Nat) /\ <<>> \in Seq(Int)
      /\ Len(<<>>) = 0
  BY EmptySeq
<1>2. DOMAIN <<>> = {}
  BY <1>1, LenProperties
<1>3. TypeInv
  <2>1. MaxSent \in Nat /\ 0 <= ChanCap
    BY ReceiveAssumption
  <2>2. 0 \in 0..MaxSent /\ {TRUE, FALSE} \subseteq BOOLEAN
    BY <2>1
  <2> QED BY <1>1, <2>1, <2>2 DEF Init, TypeInv
<1>4. StreamInv /\ ArrivedInv
  BY <1>2 DEF Init, StreamInv, ArrivedInv, Arrivals, Ordered, Passed
<1> QED BY <1>3, <1>4 DEF ReceiveInv

\* A message the peer sends comes after all that it sent before.
LEMMA PeerSendsKeeps ==
  ASSUME ReceiveInv, PeerSends
  PROVE  ReceiveInv'
<1>1. PICK size \in Sizes :
        /\ sizeOf' = Append(sizeOf, size)
        /\ unread' = unread \o [p \in 1..size |-> <<Len(sizeOf) + 1, p>>]
  BY DEF PeerSends
<1>2. UNCHANGED <<open, ReceiveChan, outgoing, sending, received>>
  BY DEF PeerSends
<1> DEFINE m == Len(sizeOf) + 1
           pieces == [p \in 1..size |-> <<m, p>>]
<1>3. size \in Nat \ {0}
  BY ReceiveAssumption
<1>4. /\ sizeOf' \in Seq(Sizes) /\ DOMAIN sizeOf = 1..Len(sizeOf) /\ Len(sizeOf) \in Nat
      /\ DOMAIN sizeOf' = 1..m /\ sizeOf'[m] = size
      /\ \A i \in DOMAIN sizeOf : sizeOf'[i] = sizeOf[i]
  BY <1>1, Put DEF ReceiveInv, TypeInv
<1>5. pieces \in Seq(Nat \X Nat) /\ Len(pieces) = size
  <2>1. pieces \in [1..size -> Nat \X Nat]
    BY <1>3, <1>4
  <2> QED BY <1>3, <2>1, IsASeq, LenProperties
<1>6. unread \in Seq(Nat \X Nat) /\ unread' = unread \o pieces
  BY <1>1 DEF ReceiveInv, TypeInv
<1>7. \A p \in 1..size : pieces[p] = <<m, p>>
  OBVIOUS
<1> HIDE DEF pieces
<1>8. /\ unread' \in Seq(Nat \X Nat)
      /\ Len(unread) \in Nat /\ DOMAIN unread = 1..Len(unread)
      /\ DOMAIN unread' = 1..(Len(unread) + size)
      /\ \A i \in 1..Len(unread) : unread'[i] = unread[i]
      /\ \A i \in 1..(Len(unread) + size) :
           i > Len(unread) => unread'[i] = pieces[i - Len(unread)]
  BY <1>5, <1>6, Joined
<1>9. \A i \in 1..(Len(unread) + size) :
        i > Len(unread) => unread'[i] = <<m, i - Len(unread)>> /\ i - Len(unread) \in 1..size
  <2> SUFFICES ASSUME NEW i \in 1..(Len(unread) + size), i > Len(unread)
               PROVE  unread'[i] = <<m, i - Len(unread)>> /\ i - Len(unread) \in 1..size
    OBVIOUS
  <2>1. i - Len(unread) \in 1..size
    BY SMTT(30), <1>3, <1>8
  <2> QED BY <1>7, <1>8, <2>1
<1>10. TypeInv'
  BY <1>2, <1>4, <1>8 DEF ReceiveInv, TypeInv
<1>11. StreamInv'
  <2>1. ASSUME NEW i \in DOMAIN unread'
        PROVE  unread'[i][1] \in DOMAIN sizeOf' /\ unread'[i][2] \in 1..sizeOf'[unread'[i][1]]
    <3>1. CASE i <= Len(unread)
      BY <1>4, <1>8, <1>9, <3>1 DEF ReceiveInv, StreamInv
    <3>2. CASE i > Len(unread)
      <4>1. unread'[i] = <<m, i - Len(unread)>> /\ i - Len(unread) \in 1..size
        BY <1>8, <1>9, <3>2
      <4>2. unread'[i][1] = m /\ unread'[i][2] \in 1..size
        BY <4>1
      <4> QED BY <1>4, <4>2
    <3> QED BY <1>8, <1>9, <3>1, <3>2
  <2>2. ASSUME NEW i \in DOMAIN unread', NEW j \in DOMAIN unread', i < j
        PROVE  Before(unread'[i], unread'[j])
    <3>1. CASE j <= Len(unread)
      BY <1>8, <1>9, <2>2, <3>1 DEF ReceiveInv, StreamInv
    <3>2. CASE i <= Len(unread) /\ j > Len(unread)
      <4>1. unread'[j][1] = m
        BY <1>8, <1>9, <3>2
      <4>2. unread'[i] = unread[i] /\ unread[i][1] \in DOMAIN sizeOf
        BY <1>8, <3>2 DEF ReceiveInv, StreamInv
      <4>3. unread'[i][1] \in 1..Len(sizeOf)
        BY <1>4, <4>2
      <4>4. unread'[i][1] < unread'[j][1]
        BY <1>4, <4>1, <4>3
      <4> QED BY <4>4 DEF Before
    <3>3. CASE i > Len(unread)
      <4>1. unread'[i] = <<m, i - Len(unread)>> /\ unread'[j] = <<m, j - Len(unread)>>
        BY <1>8, <1>9, <2>2, <3>3
      <4>2. /\ i - Len(unread) \in Int /\ j - Len(unread) \in Int
            /\ i - Len(unread) < j - Len(unread)
        BY <1>8, <2>2
      <4>3. /\ unread'[i][1] = m /\ unread'[i][2] = i - Len(unread)
            /\ unread'[j][1] = m /\ unread'[j][2] = j - Len(unread)
        BY <4>1
      <4>4. unread'[i][1] = unread'[j][1] /\ unread'[i][2] < unread'[j][2]
        BY <4>2, <4>3
      <4> QED BY <4>4 DEF Before
    <3> QED BY <1>8, <1>9, <3>1, <3>2, <3>3
  <2> QED BY <2>1, <2>2 DEF StreamInv
<1>12. ASSUME NEW q \in Seq(Int), Arrivals(q), Passed(q), q' = q
      PROVE  Arrivals(q)' /\ Passed(q)'
  <2>1. Arrivals(q)'
    BY <1>4, <1>12 DEF Arrivals
  <2>2. ASSUME NEW i \in DOMAIN q, NEW j \in DOMAIN unread' PROVE q[i] < unread'[j][1]
    <3>1. CASE j <= Len(unread)
      BY <1>8, <1>9, <1>12, <3>1 DEF Passed
    <3>2. CASE j > Len(unread)
      <4>1. unread'[j][1] = m
        BY <1>8, <1>9, <3>2
      <4>2. q[i] \in 1..Len(sizeOf) \/ q[i] \in {Empty, Own}
        BY <1>4, <1>12 DEF Arrivals, FromPeer
      <4> QED BY <1>4, <4>1, <4>2 DEF Empty, Own
    <3> QED BY <1>8, <1>9, <3>1, <3>2
  <2> QED BY <1>12, <2>1, <2>2 DEF Passed
<1>13. ArrivedInv'
  BY <1>2, <1>12 DEF ReceiveInv, TypeInv, ArrivedInv, Ordered
<1> QED BY <1>10, <1>11, <1>13 DEF ReceiveInv

\* What one Read returned is a message only if it is exactly one: the message
\* fits the buffer, and no piece of it is left.
LEMMA WholeMessage ==
  ASSUME ReceiveInv, NEW k \in 1..Buffer, k <= Len(unread),
         Unmarshal(SubSeq(unread, 1, k)) # Empty
  PROVE  LET x == Unmarshal(SubSeq(unread, 1, k))
         IN  /\ x = unread[1][1]
             /\ x \in DOMAIN sizeOf /\ sizeOf[x] <= Buffer
             /\ \A j \in (k + 1)..Len(unread) : x < unread[j][1]
<1> DEFINE pieces == SubSeq(unread, 1, k)
           x == unread[1][1]
<1>1. /\ unread \in Seq(Nat \X Nat) /\ Len(unread) \in Nat /\ DOMAIN unread = 1..Len(unread)
      /\ sizeOf \in Seq(Sizes) /\ DOMAIN sizeOf = 1..Len(sizeOf) /\ Len(sizeOf) \in Nat
  BY LenProperties DEF ReceiveInv, TypeInv
<1>2. Buffer \in Nat /\ k \in Nat \ {0}
  BY ReceiveAssumption
<1>3. /\ pieces \in Seq(Nat \X Nat) /\ Len(pieces) = k
      /\ \A i \in 1..k : pieces[i] = unread[i]
  <2>1. 1 \in Int /\ k \in Int /\ \A i \in 1..k : unread[i] \in Nat \X Nat
    BY <1>1, <1>2, ElementOfSeq
  <2>2. /\ pieces \in Seq(Nat \X Nat)
        /\ Len(pieces) = IF 1 <= k THEN k - 1 + 1 ELSE 0
        /\ \A i \in 1..(k - 1 + 1) : pieces[i] = unread[1 + i - 1]
    BY <2>1, SubSeqProperties
  <2> HIDE DEF pieces
  <2>3. Len(pieces) = k
    BY <1>2, <2>2
  <2> QED BY <1>2, <2>2, <2>3
<1>4. DOMAIN pieces = 1..k
  BY <1>3, LenProperties
<1> HIDE DEF pieces
<1>5. pieces[1] = unread[1]
  BY <1>2, <1>3
<1>6. Unmarshal(pieces) = x /\ pieces = [p \in 1..sizeOf[x] |-> <<x, p>>]
  BY <1>5 DEF pieces, Unmarshal
<1>7. x \in DOMAIN sizeOf /\ sizeOf[x] \in Nat \ {0}
  <2>1. 1 \in DOMAIN unread
    BY <1>1, <1>2
  <2>2. x \in DOMAIN sizeOf
    BY <2>1 DEF ReceiveInv, StreamInv
  <2> HIDE DEF x
  <2>3. sizeOf[x] \in Sizes
    BY <1>1, <2>2, ElementOfSeq
  <2> QED BY <2>2, <2>3, ReceiveAssumption
<1>8. sizeOf[x] = k
  <2>1. 1..sizeOf[x] = 1..k
    BY <1>4, <1>6
  <2> QED BY <1>2, <1>7, <2>1
<1>9. unread[k] = <<x, k>>
  <2>1. k \in 1..k
    BY <1>2
  <2> QED BY <1>3, <1>6, <1>8, <2>1
<1>10. ASSUME NEW j \in (k + 1)..Len(unread) PROVE x < unread[j][1]
  <2>1. j \in DOMAIN unread /\ k \in DOMAIN unread /\ k < j
    BY <1>1, <1>2
  <2>2. Before(unread[k], unread[j])
    BY <2>1 DEF ReceiveInv, StreamInv
  <2>3. unread[j][2] \in 1..sizeOf[unread[j][1]]
    BY <2>1 DEF ReceiveInv, StreamInv
  <2>4. CASE unread[k][1] < unread[j][1]
    BY <1>9, <2>4
  <2>5. CASE unread[k][1] = unread[j][1] /\ unread[k][2] < unread[j][2]
    <3>1. unread[j][1] = x /\ k < unread[j][2]
      BY <1>9, <2>5
    <3>2. unread[j][2] \in 1..k
      BY <1>8, <2>3, <3>1
    <3> QED BY <1>2, <3>1, <3>2
  <2> QED BY <2>2, <2>4, <2>5 DEF Before
<1>11. sizeOf[x] <= Buffer
  BY <1>2, <1>8
<1> QED BY <1>6, <1>7, <1>10, <1>11 DEF pieces

\* A message put into the channel comes after all that came before it, if no
\* piece of it is left on the connection.
LEMMA PushKeeps ==
  ASSUME ReceiveInv, NEW x \in Int, Push(x), UNCHANGED <<sizeOf, received>>,
         NEW k \in 0..Len(unread), unread' = SubSeq(unread, k + 1, Len(unread)),
         FromPeer(x) =>
           /\ k > 0 /\ x = unread[1][1] /\ x \in DOMAIN sizeOf /\ sizeOf[x] <= Buffer
           /\ \A j \in (k + 1)..Len(unread) : x < unread[j][1]
  PROVE  /\ unread' \in Seq(Nat \X Nat)
         /\ ReceiveChan' \in Seq(Int) /\ Len(ReceiveChan') <= ChanCap
         /\ StreamInv' /\ ArrivedInv'
<1>1. /\ unread \in Seq(Nat \X Nat) /\ sizeOf \in Seq(Sizes)
      /\ received \in Seq(Int) /\ ReceiveChan \in Seq(Int)
  BY DEF ReceiveInv, TypeInv
<1>2. /\ unread' \in Seq(Nat \X Nat)
      /\ Len(unread) \in Nat /\ DOMAIN unread = 1..Len(unread)
      /\ DOMAIN unread' = 1..(Len(unread) - k)
      /\ \A i \in 1..(Len(unread) - k) : unread'[i] = unread[i + k]
  BY <1>1, Cut
<1>3. /\ ReceiveChan' \in Seq(Int) /\ Len(ReceiveChan') = Len(ReceiveChan) + 1
      /\ DOMAIN ReceiveChan = 1..Len(ReceiveChan) /\ Len(ReceiveChan) \in Nat
      /\ DOMAIN ReceiveChan' = 1..(Len(ReceiveChan) + 1)
      /\ ReceiveChan'[Len(ReceiveChan) + 1] = x
      /\ \A i \in 1..Len(ReceiveChan) : ReceiveChan'[i] = ReceiveChan[i]
  BY <1>1, Put DEF Push
<1>4. Len(ReceiveChan') <= ChanCap
  BY <1>3, ReceiveAssumption DEF Push
<1>5. \A i \in DOMAIN unread' :
        i + k \in DOMAIN unread /\ i + k > k /\ unread'[i] = unread[i + k]
  BY SMTT(30), <1>2
<1>6. StreamInv'
  <2>1. \A i \in DOMAIN unread' :
          unread'[i][1] \in DOMAIN sizeOf' /\ unread'[i][2] \in 1..sizeOf'[unread'[i][1]]
    BY <1>5 DEF ReceiveInv, StreamInv
  <2>2. ASSUME NEW i \in DOMAIN unread', NEW j \in DOMAIN unread', i < j
        PROVE  Before(unread'[i], unread'[j])
    <3>1. i + k \in DOMAIN unread /\ j + k \in DOMAIN unread /\ i + k < j + k
      BY <1>2, <1>5, <2>2
    <3> QED BY <1>5, <3>1 DEF ReceiveInv, StreamInv
  <2> QED BY <2>1, <2>2 DEF StreamInv
<1>7. \A j \in DOMAIN unread : unread[j][1] \in Nat
  BY <1>1, <1>2, ElementOfSeq
<1>8. ASSUME NEW q \in Seq(Int), Passed(q), q' = q
      PROVE  Passed(q)'
  BY <1>5, <1>8 DEF Passed
<1>9. ASSUME FromPeer(x), NEW q \in Seq(Int), Passed(q)
      PROVE  \A i \in DOMAIN q : q[i] < x
  <2>1. 1 \in DOMAIN unread
    BY <1>2, <1>9
  <2> QED BY <1>9, <2>1 DEF Passed
<1>10. Arrivals(ReceiveChan)'
  <2> SUFFICES ASSUME NEW i \in DOMAIN ReceiveChan', FromPeer(ReceiveChan'[i])
               PROVE  ReceiveChan'[i] \in DOMAIN sizeOf /\ sizeOf[ReceiveChan'[i]] <= Buffer
    BY DEF Arrivals
  <2>1. CASE i = Len(ReceiveChan) + 1
    BY <1>3, <2>1
  <2>2. CASE i \in 1..Len(ReceiveChan)
    BY <1>3, <2>2 DEF ReceiveInv, ArrivedInv, Arrivals
  <2> QED BY <1>3, <2>1, <2>2
<1>11. Ordered(ReceiveChan)'
  <2> SUFFICES ASSUME NEW i \in DOMAIN ReceiveChan', NEW j \in DOMAIN ReceiveChan', i < j,
                      FromPeer(ReceiveChan'[i]), FromPeer(ReceiveChan'[j])
               PROVE  ReceiveChan'[i] < ReceiveChan'[j]
    BY DEF Ordered
  <2>1. i \in 1..Len(ReceiveChan)
    BY <1>3
  <2>2. CASE j = Len(ReceiveChan) + 1
    BY <1>1, <1>3, <1>9, <2>1, <2>2 DEF ReceiveInv, ArrivedInv
  <2>3. CASE j \in 1..Len(ReceiveChan)
    BY <1>3, <2>1, <2>3 DEF ReceiveInv, ArrivedInv, Ordered
  <2> QED BY <1>3, <2>2, <2>3
<1>12. ASSUME NEW i \in DOMAIN received, NEW j \in DOMAIN ReceiveChan',
              FromPeer(received[i]), FromPeer(ReceiveChan'[j])
       PROVE  received[i] < ReceiveChan'[j]
  <2>1. CASE j = Len(ReceiveChan) + 1
    BY <1>1, <1>3, <1>9, <1>12, <2>1 DEF ReceiveInv, ArrivedInv
  <2>2. CASE j \in 1..Len(ReceiveChan)
    BY <1>3, <1>12, <2>2 DEF ReceiveInv, ArrivedInv
  <2> QED BY <1>3, <2>1, <2>2
<1>13. Passed(ReceiveChan)'
  <2> SUFFICES ASSUME NEW i \in DOMAIN ReceiveChan', NEW j \in DOMAIN unread'
               PROVE  ReceiveChan'[i] < unread'[j][1]
    BY DEF Passed
  <2>1. CASE i \in 1..Len(ReceiveChan)
    BY <1>3, <1>5, <2>1 DEF ReceiveInv, ArrivedInv, Passed
  <2>2. CASE i = Len(ReceiveChan) + 1 /\ FromPeer(x)
    <3>1. j + k \in (k + 1)..Len(unread)
      BY <1>2, <1>5
    <3> QED BY <1>3, <1>5, <2>2, <3>1
  <2>3. CASE i = Len(ReceiveChan) + 1 /\ ~ FromPeer(x)
    <3>1. x <= 0
      BY <2>3 DEF FromPeer, Empty, Own
    <3>2. unread'[j][1] \in DOMAIN sizeOf
      BY <1>6 DEF StreamInv
    <3>3. DOMAIN sizeOf = 1..Len(sizeOf) /\ Len(sizeOf) \in Nat
      BY <1>1, LenProperties
    <3>4. unread'[j][1] \in Nat \ {0}
      BY <3>2, <3>3
    <3> QED BY SMTT(30), <1>3, <2>3, <3>1, <3>4
  <2> QED BY <1>3, <2>1, <2>2, <2>3
<1>14. Arrivals(received)' /\ Ordered(received)' /\ Passed(received)'
  BY <1>1, <1>8 DEF ReceiveInv, ArrivedInv, Arrivals, Ordered
<1>15. ArrivedInv'
  BY <1>10, <1>11, <1>12, <1>13, <1>14 DEF ArrivedInv
<1> QED BY <1>2, <1>3, <1>4, <1>6, <1>15

\* The goroutine of the connection takes a part of the stream.
LEMMA ListenConnsKeeps ==
  ASSUME ReceiveInv, ListenConns
  PROVE  ReceiveInv'
<1>1. PICK k \in 1..Buffer :
        /\ k <= Len(unread)
        /\ Push(Unmarshal(SubSeq(unread, 1, k)))
        /\ unread' = SubSeq(unread, k + 1, Len(unread))
  BY DEF ListenConns
<1>2. UNCHANGED <<open, sizeOf, outgoing, sending, received>>
  BY DEF ListenConns
<1> DEFINE x == Unmarshal(SubSeq(unread, 1, k))
<1>3. Buffer \in Nat /\ k \in Nat \ {0}
  BY ReceiveAssumption
<1>4. k \in 0..Len(unread) /\ k > 0
  BY <1>1, <1>3, LenProperties DEF ReceiveInv, TypeInv
<1>5. x # Empty =>
        /\ x = unread[1][1] /\ x \in DOMAIN sizeOf /\ sizeOf[x] <= Buffer
        /\ \A j \in (k + 1)..Len(unread) : x < unread[j][1]
  BY <1>1, WholeMessage
<1>6. x \in Int
  <2>1. DOMAIN sizeOf \subseteq Int
    BY LenProperties DEF ReceiveInv, TypeInv
  <2> HIDE DEF x
  <2> QED BY <1>5, <2>1 DEF Empty
<1>7. Push(x)
  BY <1>1
<1> HIDE DEF x
<1>8. /\ unread' \in Seq(Nat \X Nat)
      /\ ReceiveChan' \in Seq(Int) /\ Len(ReceiveChan') <= ChanCap
      /\ StreamInv' /\ ArrivedInv'
  BY <1>1, <1>2, <1>4, <1>5, <1>6, <1>7, PushKeeps DEF FromPeer
<1>9. TypeInv'
  BY <1>2, <1>8 DEF ReceiveInv, TypeInv
<1> QED BY <1>8, <1>9 DEF ReceiveInv

\* An Empty message, or one of this node, is pushed: the stream stays.
LEMMA PushOther ==
  ASSUME ReceiveInv, NEW x \in {Empty, Own}, Push(x), UNCHANGED <<sizeOf, received, unread>>
  PROVE  /\ ReceiveChan' \in Seq(Int) /\ Len(ReceiveChan') <= ChanCap
         /\ StreamInv' /\ ArrivedInv'
<1>1. unread \in Seq(Nat \X Nat)
  BY DEF ReceiveInv, TypeInv
<1>2. 0 \in 0..Len(unread) /\ 0 + 1 = 1
  BY <1>1, LenProperties
<1>3. unread' = SubSeq(unread, 0 + 1, Len(unread))
  BY <1>1, <1>2, SubSeqFull
<1>4. x \in Int /\ ~ FromPeer(x)
  BY DEF FromPeer, Empty, Own
<1> QED BY <1>2, <1>3, <1>4, PushKeeps

\* The main loop takes the first message of the channel.
LEMMA ReceiveKeeps ==
  ASSUME ReceiveInv, Receive
  PROVE  ReceiveInv'
<1> DEFINE h == ReceiveChan[1]
<1>1. /\ sizeOf \in Seq(Sizes) /\ unread \in Seq(Nat \X Nat)
      /\ received \in Seq(Int) /\ ReceiveChan \in Seq(Int)
  BY DEF ReceiveInv, TypeInv
<1>2. UNCHANGED <<open, sizeOf, unread, sending>>
  BY DEF Receive
<1>3. /\ Head(ReceiveChan) = h /\ h \in Int
      /\ ReceiveChan' \in Seq(Int) /\ Len(ReceiveChan') = Len(ReceiveChan) - 1
      /\ Len(ReceiveChan) \in Nat \ {0} /\ DOMAIN ReceiveChan = 1..Len(ReceiveChan)
      /\ DOMAIN ReceiveChan' = 1..(Len(ReceiveChan) - 1)
      /\ \A i \in 1..(Len(ReceiveChan) - 1) : ReceiveChan'[i] = ReceiveChan[i + 1]
  BY <1>1, Taken DEF Receive
<1>4. received' = IF FromPeer(h) THEN Append(received, h) ELSE received
  BY <1>3 DEF Receive, FromPeer
<1> HIDE DEF h
<1>5. /\ Append(received, h) \in Seq(Int)
      /\ DOMAIN received = 1..Len(received) /\ Len(received) \in Nat
      /\ DOMAIN Append(received, h) = 1..(Len(received) + 1)
      /\ Append(received, h)[Len(received) + 1] = h
      /\ \A i \in 1..Len(received) : Append(received, h)[i] = received[i]
  BY <1>1, <1>3, Put
<1>6. /\ 1 \in DOMAIN ReceiveChan /\ h = ReceiveChan[1]
      /\ \A i \in DOMAIN ReceiveChan' :
           i + 1 \in DOMAIN ReceiveChan /\ 1 < i + 1 /\ ReceiveChan'[i] = ReceiveChan[i + 1]
  BY <1>3 DEF h
<1>7. \A i \in DOMAIN received' :
        \/ i \in DOMAIN received /\ received'[i] = received[i]
        \/ i = Len(received) + 1 /\ FromPeer(h) /\ received'[i] = h
  <2>1. CASE FromPeer(h)
    BY <1>4, <1>5, <2>1
  <2>2. CASE ~ FromPeer(h)
    BY <1>4, <2>2
  <2> QED BY <2>1, <2>2
<1>8. TypeInv'
  <2>1. received' \in Seq(Int)
    BY <1>1, <1>4, <1>5
  <2>2. Len(ReceiveChan') <= ChanCap
    BY <1>3, ReceiveAssumption DEF ReceiveInv, TypeInv
  <2>3. outgoing' \in 0..MaxSent
    BY ReceiveAssumption DEF Receive, ReceiveInv, TypeInv
  <2> QED BY <1>1, <1>2, <1>3, <2>1, <2>2, <2>3 DEF ReceiveInv, TypeInv
<1>9. StreamInv'
  BY <1>2 DEF ReceiveInv, StreamInv
<1>10. Arrivals(received)' /\ Arrivals(ReceiveChan)'
  BY <1>2, <1>6, <1>7 DEF ReceiveInv, ArrivedInv, Arrivals
<1>11. Passed(received)' /\ Passed(ReceiveChan)'
  BY <1>2, <1>6, <1>7 DEF ReceiveInv, ArrivedInv, Passed
<1>12. Ordered(ReceiveChan)'
  <2> SUFFICES ASSUME NEW i \in DOMAIN ReceiveChan', NEW j \in DOMAIN ReceiveChan', i < j,
                      FromPeer(ReceiveChan'[i]), FromPeer(ReceiveChan'[j])
               PROVE  ReceiveChan'[i] < ReceiveChan'[j]
    BY DEF Ordered
  <2>1. i + 1 < j + 1
    BY <1>3
  <2> QED BY <1>6, <2>1 DEF ReceiveInv, ArrivedInv, Ordered
<1>13. Ordered(received)'
  <2> SUFFICES ASSUME NEW i \in DOMAIN received', NEW j \in DOMAIN received', i < j,
                      FromPeer(received'[i]), FromPeer(received'[j])
               PROVE  received'[i] < received'[j]
    BY DEF Ordered
  <2>1. i \in DOMAIN received /\ received'[i] = received[i]
    BY <1>4, <1>5, <1>7
  <2>2. CASE j \in DOMAIN received /\ received'[j] = received[j]
    BY <2>1, <2>2 DEF ReceiveInv, ArrivedInv, Ordered
  <2>3. CASE FromPeer(h) /\ received'[j] = h
    BY <1>6, <2>1, <2>3 DEF ReceiveInv, ArrivedInv
  <2> QED BY <1>7, <2>2, <2>3
<1>14. ASSUME NEW i \in DOMAIN received', NEW j \in DOMAIN ReceiveChan',
              FromPeer(received'[i]), FromPeer(ReceiveChan'[j])
       PROVE  received'[i] < ReceiveChan'[j]
  <2>1. CASE i \in DOMAIN received /\ received'[i] = received[i]
    BY <1>6, <1>14, <2>1 DEF ReceiveInv, ArrivedInv
  <2>2. CASE FromPeer(h) /\ received'[i] = h
    BY <1>6, <1>14, <2>2 DEF ReceiveInv, ArrivedInv, Ordered
  <2> QED BY <1>7, <2>1, <2>2
<1>15. ArrivedInv'
  BY <1>10, <1>11, <1>12, <1>13, <1>14 DEF ArrivedInv
<1> QED BY <1>8, <1>9, <1>15 DEF ReceiveInv

LEMMA StepReceive ==
  ASSUME ReceiveInv, [Next]_vars
  PROVE  ReceiveInv'
<1>1. CASE PeerSends
  BY <1>1, PeerSendsKeeps
<1>2. CASE PeerCloses
  <2>1. UNCHANGED <<sizeOf, unread, ReceiveChan, outgoing, sending, received>> /\ open' \in BOOLEAN
    BY <1>2 DEF PeerCloses
  <2>2. TypeInv'
    BY <2>1 DEF ReceiveInv, TypeInv
  <2>3. StreamInv' /\ ArrivedInv'
    BY <2>1 DEF ReceiveInv, StreamInv, ArrivedInv, Arrivals, Ordered, Passed
  <2> QED BY <2>2, <2>3 DEF ReceiveInv
<1>3. CASE ListenConns
  BY <1>3, ListenConnsKeeps
<1>4. CASE ListenClosed
  <2>1. Push(Empty) /\ UNCHANGED <<open, sizeOf, unread, outgoing, sending, received>>
    BY <1>4 DEF ListenClosed
  <2>2. /\ ReceiveChan' \in Seq(Int) /\ Len(ReceiveChan') <= ChanCap
        /\ StreamInv' /\ ArrivedInv'
    BY <2>1, PushOther
  <2>3. TypeInv'
    BY <2>1, <2>2 DEF ReceiveInv, TypeInv
  <2> QED BY <2>2, <2>3 DEF ReceiveInv
<1>5. CASE Receive
  BY <1>5, ReceiveKeeps
<1>6. CASE SendOwn
  <2>1. UNCHANGED <<open, sizeOf, unread, ReceiveChan, received>>
    BY <1>6 DEF SendOwn
  <2>2. outgoing' \in 0..MaxSent /\ sending' \in BOOLEAN
    BY <1>6, ReceiveAssumption DEF SendOwn, ReceiveInv, TypeInv
  <2>3. TypeInv'
    BY <2>1, <2>2 DEF ReceiveInv, TypeInv
  <2>4. StreamInv' /\ ArrivedInv'
    BY <2>1 DEF ReceiveInv, StreamInv, ArrivedInv, Arrivals, Ordered, Passed
  <2> QED BY <2>3, <2>4 DEF ReceiveInv
<1>7. CASE SelfDelivery
  <2>1. Push(Own) /\ UNCHANGED <<open, sizeOf, unread, outgoing, received>> /\ sending' \in BOOLEAN
    BY <1>7 DEF SelfDelivery
  <2>2. /\ ReceiveChan' \in Seq(Int) /\ Len(ReceiveChan') <= ChanCap
        /\ StreamInv' /\ ArrivedInv'
    BY <2>1, PushOther
  <2>3. TypeInv'
    BY <2>1, <2>2 DEF ReceiveInv, TypeInv
  <2> QED BY <2>2, <2>3 DEF ReceiveInv
<1>8. CASE UNCHANGED vars
  <2>1. TypeInv'
    BY <1>8 DEF ReceiveInv, TypeInv, vars
  <2>2. StreamInv' /\ ArrivedInv'
    BY <1>8 DEF ReceiveInv, StreamInv, ArrivedInv, Arrivals, Ordered, Passed, vars
  <2> QED BY <2>1, <2>2 DEF ReceiveInv
<1> QED
  BY <1>1, <1>2, <1>3, <1>4, <1>5, <1>6, <1>7, <1>8 DEF Next, Listen, MainLoop

-----------------------------------------------------------------------------
\* The stream, the channel and what was received fit together at every moment.
THEOREM ReceiveInvariant == Spec => []ReceiveInv
<1>1. Init => ReceiveInv
  BY InitReceive
<1>2. ReceiveInv /\ [Next]_vars => ReceiveInv'
  BY StepReceive
<1> QED BY <1>1, <1>2, PTL DEF Spec

\* Whatever part of the stream a Read of ListenConns returns, the main loop gets
\* the peer's messages in the order sent, each at most once, and none that is
\* larger than the buffer.
THEOREM ArrivesInOrder == Spec => []InOrderIfFits
<1>1. ASSUME ReceiveInv PROVE InOrderIfFits
  <2> DEFINE arrived == received \o ReceiveChan
  <2>1. received \in Seq(Int) /\ ReceiveChan \in Seq(Int)
    BY <1>1 DEF ReceiveInv, TypeInv
  <2>2. /\ Len(received) \in Nat /\ DOMAIN received = 1..Len(received)
        /\ Len(ReceiveChan) \in Nat /\ DOMAIN ReceiveChan = 1..Len(ReceiveChan)
        /\ DOMAIN arrived = 1..(Len(received) + Len(ReceiveChan))
        /\ \A i \in 1..Len(received) : arrived[i] = received[i]
        /\ \A i \in 1..(Len(received) + Len(ReceiveChan)) :
             i > Len(received) => arrived[i] = ReceiveChan[i - Len(received)]
    BY <2>1, Joined
  <2> HIDE DEF arrived
  <2>3. \A i \in DOMAIN arrived :
          \/ i \in DOMAIN received /\ arrived[i] = received[i]
          \/ /\ i - Len(received) \in DOMAIN ReceiveChan
             /\ i > Len(received) /\ arrived[i] = ReceiveChan[i - Len(received)]
    BY <2>2
  <2>4. ASSUME NEW i \in DOMAIN arrived, NEW j \in DOMAIN arrived, i < j,
               FromPeer(arrived[i]), FromPeer(arrived[j])
        PROVE  arrived[i] < arrived[j]
    <3>1. CASE i \in DOMAIN received /\ j \in DOMAIN received
      BY <1>1, <2>2, <2>4, <3>1 DEF ReceiveInv, ArrivedInv, Ordered
    <3>2. CASE i \in DOMAIN received /\ j \notin DOMAIN received
      BY <1>1, <2>3, <2>4, <2>2, <3>2 DEF ReceiveInv, ArrivedInv
    <3>3. CASE i \notin DOMAIN received /\ j \notin DOMAIN received
      <4>1. i - Len(received) < j - Len(received)
        BY <2>2, <2>4
      <4> QED BY <1>1, <2>3, <2>4, <3>3, <4>1 DEF ReceiveInv, ArrivedInv, Ordered
    <3>4. j \in DOMAIN received => i \in DOMAIN received
      BY <2>2, <2>4
    <3> QED BY <3>1, <3>2, <3>3, <3>4
  <2>5. ASSUME NEW i \in DOMAIN arrived, FromPeer(arrived[i])
        PROVE  sizeOf[arrived[i]] <= Buffer
    BY <1>1, <2>3, <2>5 DEF ReceiveInv, ArrivedInv, Arrivals
  <2> QED BY <2>4, <2>5 DEF InOrderIfFits, FromPeer, arrived
<1> QED BY <1>1, ReceiveInvariant, PTL
=============================================================================
