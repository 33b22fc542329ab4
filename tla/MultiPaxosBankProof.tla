------------------------- MODULE MultiPaxosBankProof -------------------------
(***************************************************************************)
(* Decided slots on their way from the learners through the bank handlers  *)
(* to the proposers, for every configuration, in three parts.  The hand-   *)
(* over to the proposer: AduFollowsBank is inductive as it stands, as only *)
(* two actions touch either counter.  The accounting: no decided slot is   *)
(* lost or handled twice.  And what is decided was chosen: a learner's     *)
(* votes were sent, and those it counts are of one round when the slot had *)
(* votes of one round only.                                                *)
(***************************************************************************)
EXTENDS MultiPaxosAgreementProof

\* What the steps of all nodes do to the counters: nothing, or a bank handler
\* that does not wait for its proposer processes a slot and waits, or one that
\* waits is heard and its own proposer counts the slot.
HandOver ==
  \/ UNCHANGED <<adu, bankAdu, bankWaiting>>
  \/ \E l \in Learners :
       \/ /\ ~bankWaiting[l]
          /\ adu' = adu
          /\ bankAdu' = [bankAdu EXCEPT ![l] = @ + 1]
          /\ bankWaiting' = [bankWaiting EXCEPT ![l] = TRUE]
       \/ /\ bankWaiting[l]
          /\ adu' = [adu EXCEPT ![l] = @ + 1]
          /\ bankAdu' = bankAdu
          /\ bankWaiting' = [bankWaiting EXCEPT ![l] = FALSE]

\* Every step of the system is one of these.
LEMMA NextHandsOver == [Next]_vars => HandOver
<1> SUFFICES ASSUME [Next]_vars PROVE HandOver
  OBVIOUS
<1>1. CASE UNCHANGED vars
  BY <1>1 DEF vars, proposerVars, bankVars, HandOver
<1>2. ASSUME NEW p \in Proposers, ProposerStep(p)
      PROVE  HandOver
  BY <1>2 DEF ProposerStep, HandlePromise, HandleClientValue, PhaseOneTick,
              HandleTrust, bankVars, HandOver
<1>3. ASSUME NEW a \in Acceptors, AcceptorStep(a)
      PROVE  HandOver
  BY <1>3 DEF AcceptorStep, proposerVars, bankVars, HandOver
<1>4. ASSUME NEW l \in Learners, LearnerStep(l)
      PROVE  HandOver
  BY <1>4 DEF LearnerStep, proposerVars, bankVars, HandOver
<1>5. ASSUME NEW l \in Learners, TakeDecided(l)
      PROVE  HandOver
  BY <1>5 DEF TakeDecided, HandleDecidedValue, Apply, proposerVars, bankVars, HandOver
<1>6. ASSUME NEW l \in Learners, DrainBuffer(l)
      PROVE  HandOver
  BY <1>6 DEF DrainBuffer, HandleBuffered, Apply, proposerVars, HandOver
<1>7. ASSUME NEW l \in Learners, IncrementAllDecidedUpTo(l)
      PROVE  HandOver
  BY <1>7 DEF IncrementAllDecidedUpTo, ProposerTold, HandleIncDcd, HandOver
<1> QED BY <1>1, <1>2, <1>3, <1>4, <1>5, <1>6, <1>7 DEF Next

\* Such a step keeps each proposer's count where its bank handler's puts it.
LEMMA HandOverCounts ==
  ASSUME TypeOK, AduFollowsBank, HandOver
  PROVE  AduFollowsBank'
<1> SUFFICES ASSUME NEW m \in Learners
             PROVE  adu'[m] = bankAdu'[m] - (IF bankWaiting'[m] THEN 1 ELSE 0)
  BY DEF AduFollowsBank
<1>1. m \in Proposers
  BY ConfigAssumption
<1>2. adu[m] \in Int /\ bankAdu[m] \in Int
  <2>1. adu[m] \in Nat \cup {-1} /\ bankAdu[m] \in Nat \cup {-1}
    BY <1>1 DEF TypeOK
  <2> QED BY <2>1
<1>3. adu[m] = bankAdu[m] - (IF bankWaiting[m] THEN 1 ELSE 0)
  BY DEF AduFollowsBank
<1>4. CASE UNCHANGED <<adu, bankAdu, bankWaiting>>
  BY <1>3, <1>4
<1>5. ASSUME NEW l \in Learners, ~bankWaiting[l],
             adu' = adu,
             bankAdu' = [bankAdu EXCEPT ![l] = @ + 1],
             bankWaiting' = [bankWaiting EXCEPT ![l] = TRUE]
      PROVE  adu'[m] = bankAdu'[m] - (IF bankWaiting'[m] THEN 1 ELSE 0)
  <2>1. CASE m = l
    <3>1. adu[m] = bankAdu[m]
      BY <1>2, <1>3, <1>5, <2>1
    <3>2. adu'[m] = adu[m] /\ bankAdu'[m] = bankAdu[m] + 1
      BY <1>5, <2>1 DEF TypeOK
    <3>3. bankWaiting'[m]
      BY <1>5, <2>1 DEF TypeOK
    <3>4. adu'[m] = bankAdu'[m] - 1
      BY <1>2, <3>1, <3>2
    <3> QED BY <3>3, <3>4
  <2>2. CASE m # l
    <3>1. adu'[m] = adu[m] /\ bankAdu'[m] = bankAdu[m]
      BY <1>5, <2>2 DEF TypeOK
    <3>2. bankWaiting'[m] = bankWaiting[m]
      BY <1>5, <2>2 DEF TypeOK
    <3> QED BY <1>3, <3>1, <3>2
  <2> QED BY <2>1, <2>2
<1>6. ASSUME NEW l \in Learners, bankWaiting[l],
             adu' = [adu EXCEPT ![l] = @ + 1],
             bankAdu' = bankAdu,
             bankWaiting' = [bankWaiting EXCEPT ![l] = FALSE]
      PROVE  adu'[m] = bankAdu'[m] - (IF bankWaiting'[m] THEN 1 ELSE 0)
  <2>1. CASE m = l
    <3>1. adu[m] = bankAdu[m] - 1
      BY <1>2, <1>3, <1>6, <2>1
    <3>2. adu'[m] = adu[m] + 1 /\ bankAdu'[m] = bankAdu[m]
      BY <1>1, <1>6, <2>1 DEF TypeOK
    <3>3. ~bankWaiting'[m]
      BY <1>6, <2>1 DEF TypeOK
    <3>4. adu'[m] = bankAdu'[m] - 0
      BY <1>2, <3>1, <3>2
    <3> QED BY <3>3, <3>4
  <2>2. CASE m # l
    <3>1. adu'[m] = adu[m] /\ bankAdu'[m] = bankAdu[m]
      BY <1>1, <1>6, <2>2 DEF TypeOK
    <3>2. bankWaiting'[m] = bankWaiting[m]
      BY <1>6, <2>2 DEF TypeOK
    <3> QED BY <1>3, <3>1, <3>2
  <2> QED BY <2>1, <2>2
<1> QED BY <1>4, <1>5, <1>6 DEF HandOver

\* A proposer's adu never leaves its bank handler's by more than the slot that
\* is just being handed over.
THEOREM BankFollowed == Spec => []AduFollowsBank
<1>1. Init => AduFollowsBank
  <2> SUFFICES ASSUME Init, NEW l \in Learners
               PROVE  adu[l] = bankAdu[l] - (IF bankWaiting[l] THEN 1 ELSE 0)
    BY DEF AduFollowsBank
  <2>1. l \in Proposers
    BY ConfigAssumption
  <2>2. adu[l] = -1 /\ bankAdu[l] = -1 /\ bankWaiting[l] = FALSE
    BY <2>1 DEF Init, ProposerInit, BankInit
  <2> QED BY <2>2
<1>2. TypeOK /\ AduFollowsBank /\ [Next]_vars => AduFollowsBank'
  BY NextHandsOver, HandOverCounts
<1> QED BY <1>1, <1>2, TypeCorrect, PTL DEF Spec

-----------------------------------------------------------------------------
(* Decided slots on their way *)

SlotsOf(queue) == {queue[i].slot : i \in DOMAIN queue}

Distinct(queue) ==
  \A i, j \in DOMAIN queue : queue[i].slot = queue[j].slot => i = j

BufferedSlots(l) == {dVal.slot : dVal \in bankBuffer[l]}

\* What makes DecisionsAccounted inductive: the slots reported decided fall
\* into three parts that have no slot in common, and neither the channel nor
\* the buffer holds a slot twice.
Accounted(l) ==
  /\ lrnSent[l] = SlotsOf(decidedOut[l]) \cup BufferedSlots(l) \cup 0..bankAdu[l]
  /\ Distinct(decidedOut[l])
  /\ \A s \in SlotsOf(decidedOut[l]) : s > bankAdu[l] /\ s \notin BufferedSlots(l)
  /\ IsFiniteSet(bankBuffer[l])
  /\ \A dVal1, dVal2 \in bankBuffer[l] : dVal1.slot = dVal2.slot => dVal1 = dVal2
  /\ \A s \in BufferedSlots(l) : s > bankAdu[l]
  /\ Len(bankLog[l]) = bankAdu[l] + 1

AccountedInv == \A l \in Learners : Accounted(l)

\* A slot new to the channel goes to its end.
LEMMA AppendSlot ==
  ASSUME NEW queue \in Seq(DecidedValue), NEW dVal \in DecidedValue, Distinct(queue),
         dVal.slot \notin SlotsOf(queue)
  PROVE  /\ SlotsOf(Append(queue, dVal)) = SlotsOf(queue) \cup {dVal.slot}
         /\ Distinct(Append(queue, dVal))
<1>1. /\ DOMAIN queue = 1..Len(queue) /\ Len(queue) \in Nat
      /\ DOMAIN Append(queue, dVal) = 1..(Len(queue) + 1)
      /\ \A i \in 1..Len(queue) : Append(queue, dVal)[i] = queue[i]
      /\ Append(queue, dVal)[Len(queue) + 1] = dVal
  BY AppendProperties, LenProperties
<1>2. \A i \in DOMAIN Append(queue, dVal) :
        i \in 1..Len(queue) \/ i = Len(queue) + 1
  BY <1>1
<1>3. SlotsOf(Append(queue, dVal)) = SlotsOf(queue) \cup {dVal.slot}
  BY <1>1, <1>2 DEF SlotsOf
<1>4. Distinct(Append(queue, dVal))
  BY <1>1, <1>2 DEF SlotsOf, Distinct
<1> QED BY <1>3, <1>4

\* The slot at the head of the channel leaves it.
LEMMA TailSlots ==
  ASSUME NEW queue \in Seq(DecidedValue), queue # <<>>, Distinct(queue)
  PROVE  /\ Head(queue) \in DecidedValue
         /\ SlotsOf(queue) = {Head(queue).slot} \cup SlotsOf(Tail(queue))
         /\ Head(queue).slot \notin SlotsOf(Tail(queue))
         /\ Distinct(Tail(queue))
<1>1. /\ DOMAIN queue = 1..Len(queue) /\ Len(queue) \in Nat /\ Len(queue) > 0
      /\ DOMAIN Tail(queue) = 1..(Len(queue) - 1)
      /\ \A i \in 1..(Len(queue) - 1) : Tail(queue)[i] = queue[i + 1]
      /\ Head(queue) = queue[1] /\ Head(queue) \in DecidedValue
  BY EmptySeq, HeadTailProperties, LenProperties
<1>2. \A i \in DOMAIN Tail(queue) :
        i \in Nat /\ i + 1 \in DOMAIN queue /\ i + 1 # 1 /\ Tail(queue)[i] = queue[i + 1]
  BY <1>1
<1>3. \A i \in DOMAIN queue : i = 1 \/ (i - 1 \in DOMAIN Tail(queue) /\ i = (i - 1) + 1)
  BY <1>1
<1>4. SlotsOf(queue) = {Head(queue).slot} \cup SlotsOf(Tail(queue))
  <2>1. ASSUME NEW s \in SlotsOf(queue)
        PROVE  s \in {Head(queue).slot} \cup SlotsOf(Tail(queue))
    <3>1. PICK i \in DOMAIN queue : s = queue[i].slot
      BY DEF SlotsOf
    <3>2. CASE i = 1
      BY <1>1, <3>1, <3>2
    <3>3. CASE i - 1 \in DOMAIN Tail(queue) /\ i = (i - 1) + 1
      <4>1. Tail(queue)[i - 1] = queue[i]
        BY <1>2, <3>3
      <4> QED BY <3>1, <3>3, <4>1 DEF SlotsOf
    <3> QED BY <1>3, <3>2, <3>3
  <2>2. 1 \in DOMAIN queue
    BY <1>1
  <2>3. SlotsOf(Tail(queue)) \subseteq SlotsOf(queue)
    BY <1>2 DEF SlotsOf
  <2>4. Head(queue).slot \in SlotsOf(queue)
    BY <1>1, <2>2 DEF SlotsOf
  <2> QED BY <2>1, <2>3, <2>4
<1>5. 1 \in DOMAIN queue
  BY <1>1
<1>6. Head(queue).slot \notin SlotsOf(Tail(queue))
  BY <1>1, <1>2, <1>5 DEF SlotsOf, Distinct
<1>7. Distinct(Tail(queue))
  BY <1>2 DEF Distinct
<1> QED BY <1>1, <1>4, <1>6, <1>7

\* The steps of other nodes leave a node's account alone.
LEMMA OthersAccounted ==
  ASSUME NEW l, Accounted(l),
         lrnSent'[l] = lrnSent[l], decidedOut'[l] = decidedOut[l],
         bankBuffer'[l] = bankBuffer[l], bankAdu'[l] = bankAdu[l],
         bankLog'[l] = bankLog[l]
  PROVE  Accounted(l)'
<1>1. BufferedSlots(l)' = BufferedSlots(l)
  BY DEF BufferedSlots
<1> QED BY <1>1 DEF Accounted

\* A learner reports a slot it has not reported before.
LEMMA ReportAccounted ==
  ASSUME TypeOK, NEW l \in Learners, Accounted(l), NEW dVal \in DecidedValue,
         dVal.slot \notin lrnSent[l],
         lrnSent'[l] = lrnSent[l] \cup {dVal.slot},
         decidedOut'[l] = Append(decidedOut[l], dVal),
         UNCHANGED <<bankBuffer, bankAdu, bankLog>>
  PROVE  Accounted(l)'
<1>1. decidedOut[l] \in Seq(DecidedValue) /\ bankAdu[l] \in Int /\ bankAdu[l] >= -1
  <2>1. bankAdu[l] \in Nat \cup {-1}
    BY DEF TypeOK
  <2> QED BY <2>1 DEF TypeOK
<1>2. dVal.slot \in Nat
  BY DEF DecidedValue, SlotID
<1>3. /\ SlotsOf(decidedOut'[l]) = SlotsOf(decidedOut[l]) \cup {dVal.slot}
      /\ Distinct(decidedOut'[l])
  BY <1>1, AppendSlot DEF Accounted
<1>4. BufferedSlots(l)' = BufferedSlots(l)
  BY DEF BufferedSlots
<1>5. dVal.slot > bankAdu[l] /\ dVal.slot \notin BufferedSlots(l)
  BY <1>1, <1>2 DEF Accounted
<1> QED BY <1>3, <1>4, <1>5 DEF Accounted

\* The slot after the last one processed is counted as processed.
LEMMA NextSlotDone ==
  ASSUME TypeOK, NEW l \in Learners, NEW dVal, Apply(l, dVal),
         Len(bankLog[l]) = bankAdu[l] + 1
  PROVE  /\ bankAdu[l] \in Int
         /\ bankAdu'[l] = bankAdu[l] + 1
         /\ 0..bankAdu'[l] = 0..bankAdu[l] \cup {bankAdu[l] + 1}
         /\ Len(bankLog'[l]) = bankAdu'[l] + 1
<1>1. bankAdu[l] \in Int /\ bankAdu[l] >= -1
  <2>1. bankAdu[l] \in Nat \cup {-1}
    BY DEF TypeOK
  <2> QED BY <2>1
<1>2. bankAdu'[l] = bankAdu[l] + 1
  BY DEF Apply, TypeOK
<1>3. bankLog'[l] = Append(bankLog[l], dVal.val) /\ bankLog[l] \in Seq(Value)
  BY DEF Apply, TypeOK
<1>4. Len(bankLog'[l]) = Len(bankLog[l]) + 1
  BY <1>3
<1> QED BY <1>1, <1>2, <1>4

\* The bank handler takes the slot at the head of the channel: it cannot be
\* one already processed, and goes to the buffer or is processed.
LEMMA TakeDecidedAccounted ==
  ASSUME TypeOK, NEW l \in Learners, Accounted(l), TakeDecided(l)
  PROVE  Accounted(l)'
<1> DEFINE dVal == Head(decidedOut[l])
<1>1. /\ decidedOut[l] \in Seq(DecidedValue) /\ decidedOut[l] # <<>>
      /\ decidedOut'[l] = Tail(decidedOut[l])
      /\ lrnSent' = lrnSent
  BY DEF TypeOK, TakeDecided
<1>2. /\ dVal \in DecidedValue
      /\ SlotsOf(decidedOut[l]) = {dVal.slot} \cup SlotsOf(decidedOut'[l])
      /\ dVal.slot \notin SlotsOf(decidedOut'[l])
      /\ Distinct(decidedOut'[l])
  BY <1>1, TailSlots DEF Accounted
<1>3. \/ dVal.slot <= bankAdu[l]
      \/ /\ dVal.slot > bankAdu[l] + 1
         /\ bankBuffer' = [bankBuffer EXCEPT ![l] = @ \cup {dVal}]
         /\ UNCHANGED <<bankAdu, bankLog>>
      \/ /\ dVal.slot = bankAdu[l] + 1
         /\ Apply(l, dVal)
         /\ UNCHANGED bankBuffer
  BY DEF TakeDecided, HandleDecidedValue
<1> HIDE DEF dVal
<1>4. dVal.slot \in Nat /\ bankAdu[l] \in Int
  <2>1. bankAdu[l] \in Nat \cup {-1}
    BY DEF TypeOK
  <2> QED BY <1>2, <2>1 DEF DecidedValue, SlotID
<1>5. dVal.slot > bankAdu[l] /\ dVal.slot \notin BufferedSlots(l)
  BY <1>2 DEF Accounted
<1>6. CASE dVal.slot <= bankAdu[l]
  BY <1>4, <1>5, <1>6
<1>7. CASE /\ dVal.slot > bankAdu[l] + 1
           /\ bankBuffer' = [bankBuffer EXCEPT ![l] = @ \cup {dVal}]
           /\ UNCHANGED <<bankAdu, bankLog>>
  <2>1. bankBuffer'[l] = bankBuffer[l] \cup {dVal}
    BY <1>7 DEF TypeOK
  <2>2. BufferedSlots(l)' = BufferedSlots(l) \cup {dVal.slot}
    BY <2>1 DEF BufferedSlots
  <2>3. IsFiniteSet(bankBuffer'[l])
    BY <2>1, FS_AddElement DEF Accounted
  <2>4. \A dVal1, dVal2 \in bankBuffer'[l] : dVal1.slot = dVal2.slot => dVal1 = dVal2
    BY <1>5, <2>1 DEF Accounted, BufferedSlots
  <2>5. lrnSent'[l] = SlotsOf(decidedOut'[l]) \cup BufferedSlots(l)' \cup 0..bankAdu'[l]
    BY <1>1, <1>2, <1>7, <2>2 DEF Accounted
  <2>6. \A s \in SlotsOf(decidedOut'[l]) : s > bankAdu'[l] /\ s \notin BufferedSlots(l)'
    BY <1>2, <1>7, <2>2 DEF Accounted
  <2>7. \A s \in BufferedSlots(l)' : s > bankAdu'[l]
    BY <1>5, <1>7, <2>2 DEF Accounted
  <2> QED BY <1>2, <1>7, <2>3, <2>4, <2>5, <2>6, <2>7 DEF Accounted
<1>8. CASE /\ dVal.slot = bankAdu[l] + 1
           /\ Apply(l, dVal)
           /\ UNCHANGED bankBuffer
  <2>1. /\ bankAdu'[l] = bankAdu[l] + 1
        /\ 0..bankAdu'[l] = 0..bankAdu[l] \cup {dVal.slot}
        /\ Len(bankLog'[l]) = bankAdu'[l] + 1
    BY <1>8, NextSlotDone DEF Accounted
  <2>2. BufferedSlots(l)' = BufferedSlots(l)
    BY <1>8 DEF BufferedSlots
  <2>3. lrnSent'[l] = SlotsOf(decidedOut'[l]) \cup BufferedSlots(l)' \cup 0..bankAdu'[l]
    BY <1>1, <1>2, <2>1, <2>2 DEF Accounted
  <2>4. \A s \in SlotsOf(decidedOut'[l]) \cup BufferedSlots(l) : s \in Int /\ s # dVal.slot
    <3>1. SlotsOf(decidedOut'[l]) \cup BufferedSlots(l) \subseteq lrnSent[l]
      BY <1>2 DEF Accounted
    <3>2. lrnSent[l] \subseteq Nat
      BY DEF TypeOK, SlotID
    <3> QED BY <1>2, <1>5, <3>1, <3>2
  <2>5. \A s \in SlotsOf(decidedOut'[l]) \cup BufferedSlots(l) : s > bankAdu'[l]
    BY <1>2, <1>4, <1>8, <2>1, <2>4 DEF Accounted
  <2> QED BY <1>2, <1>8, <2>1, <2>2, <2>3, <2>5 DEF Accounted
<1> QED BY <1>3, <1>6, <1>7, <1>8

\* The loop over the buffer processes the slot whose turn it is.
LEMMA DrainBufferAccounted ==
  ASSUME TypeOK, NEW l \in Learners, Accounted(l), DrainBuffer(l)
  PROVE  Accounted(l)'
<1>1. PICK dVal \in bankBuffer[l] :
        /\ dVal.slot = bankAdu[l] + 1
        /\ bankBuffer' = [bankBuffer EXCEPT ![l] = @ \ {dVal}]
        /\ Apply(l, dVal)
  BY DEF DrainBuffer, HandleBuffered, NextBuffered
<1>2. decidedOut' = decidedOut /\ lrnSent' = lrnSent
  BY DEF DrainBuffer, learnerVars
<1>3. /\ bankAdu[l] \in Int
      /\ bankAdu'[l] = bankAdu[l] + 1
      /\ 0..bankAdu'[l] = 0..bankAdu[l] \cup {dVal.slot}
      /\ Len(bankLog'[l]) = bankAdu'[l] + 1
  BY <1>1, NextSlotDone DEF Accounted
<1>4. bankBuffer'[l] = bankBuffer[l] \ {dVal}
  BY <1>1 DEF TypeOK
<1>5. dVal.slot \in BufferedSlots(l)
  BY DEF BufferedSlots
<1>6. BufferedSlots(l)' = BufferedSlots(l) \ {dVal.slot}
  BY <1>4 DEF BufferedSlots, Accounted
<1>7. IsFiniteSet(bankBuffer'[l])
  BY <1>4, FS_RemoveElement DEF Accounted
<1>8. lrnSent'[l] = SlotsOf(decidedOut'[l]) \cup BufferedSlots(l)' \cup 0..bankAdu'[l]
  BY <1>2, <1>3, <1>5, <1>6 DEF Accounted
<1>9. \A s \in SlotsOf(decidedOut[l]) \cup BufferedSlots(l) : s \in Int
  <2>1. SlotsOf(decidedOut[l]) \cup BufferedSlots(l) \subseteq lrnSent[l]
    BY DEF Accounted
  <2>2. lrnSent[l] \subseteq Nat
    BY DEF TypeOK, SlotID
  <2> QED BY <2>1, <2>2
<1>10. \A s \in SlotsOf(decidedOut[l]) \cup BufferedSlots(l)' : s > bankAdu[l] /\ s # dVal.slot
  BY <1>5, <1>6 DEF Accounted
<1>11. \A s \in SlotsOf(decidedOut[l]) \cup BufferedSlots(l)' : s > bankAdu'[l]
  BY <1>1, <1>3, <1>6, <1>9, <1>10
<1>12. \A s \in SlotsOf(decidedOut'[l]) : s > bankAdu'[l] /\ s \notin BufferedSlots(l)'
  BY <1>2, <1>6, <1>11 DEF Accounted
<1>13. Distinct(decidedOut'[l])
  BY <1>2 DEF Accounted
<1>14. \A dVal1, dVal2 \in bankBuffer'[l] : dVal1.slot = dVal2.slot => dVal1 = dVal2
  BY <1>4 DEF Accounted
<1> QED BY <1>3, <1>7, <1>8, <1>11, <1>12, <1>13, <1>14 DEF Accounted

\* No step loses a slot or counts one twice.
LEMMA NextAccounted ==
  ASSUME TypeOK, AccountedInv, [Next]_vars
  PROVE  AccountedInv'
<1> USE DEF AccountedInv
<1>1. CASE UNCHANGED <<lrnSent, decidedOut, bankBuffer, bankAdu, bankLog>>
  BY <1>1, OthersAccounted
<1>2. ASSUME NEW l \in Learners,
             LearnerStep(l) \/ TakeDecided(l) \/ DrainBuffer(l)
      PROVE  AccountedInv'
  <2> SUFFICES ASSUME NEW m \in Learners PROVE Accounted(m)'
    OBVIOUS
  <2>1. CASE m # l
    <3>1. /\ lrnSent'[m] = lrnSent[m]
          /\ decidedOut'[m] = decidedOut[m]
      BY <1>2, <2>1 DEF TypeOK, LearnerStep, HandleLearn, TakeDecided, DrainBuffer,
                        learnerVars
    <3>2. /\ bankBuffer'[m] = bankBuffer[m]
          /\ bankAdu'[m] = bankAdu[m]
          /\ bankLog'[m] = bankLog[m]
      BY <1>2, <2>1 DEF TypeOK, LearnerStep, TakeDecided, HandleDecidedValue,
                        DrainBuffer, HandleBuffered, Apply, bankVars
    <3> QED BY <3>1, <3>2, OthersAccounted
  <2>2. CASE m = l /\ LearnerStep(l)
    <3>1. UNCHANGED <<bankBuffer, bankAdu, bankLog>>
      BY <2>2 DEF LearnerStep, bankVars
    <3>2. PICK lrn \in Sent("Learn") :
            \/ /\ lrn.slot \notin lrnSent[l]
               /\ lrnSent' = [lrnSent EXCEPT ![l] = @ \cup {lrn.slot}]
               /\ decidedOut' = [decidedOut EXCEPT ![l] =
                    Append(@, [slot |-> lrn.slot, val |-> lrn.val])]
            \/ UNCHANGED <<lrnSent, decidedOut>>
      BY <2>2 DEF LearnerStep, HandleLearn
    <3>3. CASE UNCHANGED <<lrnSent, decidedOut>>
      BY <2>2, <3>1, <3>3, OthersAccounted
    <3>4. CASE /\ lrn.slot \notin lrnSent[l]
               /\ lrnSent' = [lrnSent EXCEPT ![l] = @ \cup {lrn.slot}]
               /\ decidedOut' = [decidedOut EXCEPT ![l] =
                    Append(@, [slot |-> lrn.slot, val |-> lrn.val])]
      <4>1. lrn \in Learn
        BY DEF Sent, TypeOK, Messages, Promise, Prepare, Accept
      <4>2. PICK dVal \in DecidedValue :
              dVal = [slot |-> lrn.slot, val |-> lrn.val]
        BY <4>1 DEF Learn, DecidedValue
      <4>3. /\ dVal.slot = lrn.slot
            /\ lrnSent'[l] = lrnSent[l] \cup {dVal.slot}
            /\ decidedOut'[l] = Append(decidedOut[l], dVal)
        BY <3>4, <4>2 DEF TypeOK
      <4> QED BY <2>2, <3>1, <3>4, <4>3, ReportAccounted
    <3> QED BY <3>2, <3>3, <3>4
  <2>3. CASE m = l /\ TakeDecided(l)
    BY <2>3, TakeDecidedAccounted
  <2>4. CASE m = l /\ DrainBuffer(l)
    BY <2>4, DrainBufferAccounted
  <2> QED BY <1>2, <2>1, <2>2, <2>3, <2>4
<1>3. ASSUME NEW p \in Proposers, ProposerStep(p)
      PROVE  AccountedInv'
  BY <1>1, <1>3 DEF ProposerStep, learnerVars, bankVars
<1>4. ASSUME NEW a \in Acceptors, AcceptorStep(a)
      PROVE  AccountedInv'
  BY <1>1, <1>4 DEF AcceptorStep, learnerVars, bankVars
<1>5. ASSUME NEW l \in Learners, IncrementAllDecidedUpTo(l)
      PROVE  AccountedInv'
  BY <1>1, <1>5 DEF IncrementAllDecidedUpTo, ProposerTold, learnerVars
<1>6. CASE UNCHANGED vars
  BY <1>1, <1>6 DEF vars, learnerVars, bankVars
<1> QED BY <1>2, <1>3, <1>4, <1>5, <1>6 DEF Next

\* Two sets without a common element count as many as both.
LEMMA DisjointCardinality ==
  ASSUME NEW S, IsFiniteSet(S), NEW T, IsFiniteSet(T), S \cap T = {}
  PROVE  /\ IsFiniteSet(S \cup T)
         /\ Cardinality(S \cup T) = Cardinality(S) + Cardinality(T)
<1>1. /\ IsFiniteSet(S \cup T)
      /\ Cardinality(S \cup T) = Cardinality(S) + Cardinality(T) - Cardinality(S \cap T)
  BY FS_Union
<1>2. Cardinality(S \cap T) = 0
  BY FS_EmptySet
<1>3. Cardinality(S) \in Nat /\ Cardinality(T) \in Nat
  BY FS_CardinalityType
<1> QED BY <1>1, <1>2, <1>3

\* The three parts have no slot in common, and each slot of the channel and of
\* the buffer has one entry: so the numbers add up.
LEMMA AccountedAddsUp ==
  ASSUME TypeOK, NEW l \in Learners, Accounted(l)
  PROVE  Cardinality(lrnSent[l]) =
           Len(decidedOut[l]) + Cardinality(bankBuffer[l]) + Len(bankLog[l])
<1> DEFINE queue == decidedOut[l]
           queued == SlotsOf(queue)
           buffered == BufferedSlots(l)
           done == 0..bankAdu[l]
<1>1. bankAdu[l] \in Int /\ bankAdu[l] >= -1
  <2>1. bankAdu[l] \in Nat \cup {-1}
    BY DEF TypeOK
  <2> QED BY <2>1
<1>2. IsFiniteSet(queued) /\ Cardinality(queued) = Len(queue)
  <2> DEFINE f == [i \in 1..Len(queue) |-> queue[i].slot]
  <2>1. Len(queue) \in Nat /\ DOMAIN queue = 1..Len(queue)
    BY LenProperties DEF TypeOK
  <2>2. f \in Bijection(1..Len(queue), queued)
    BY <2>1 DEF Accounted, Distinct, SlotsOf, Bijection, Injection, Surjection,
                IsInjective
  <2>3. IsFiniteSet(1..Len(queue)) /\ Cardinality(1..Len(queue)) = Len(queue)
    BY <2>1, FS_Interval
  <2> QED BY <2>2, <2>3, FS_Bijection DEF ExistsBijection
<1>3. IsFiniteSet(buffered) /\ Cardinality(buffered) = Cardinality(bankBuffer[l])
  <2> DEFINE f == [dVal \in bankBuffer[l] |-> dVal.slot]
  <2>1. f \in Bijection(bankBuffer[l], buffered)
    BY DEF Accounted, BufferedSlots, Bijection, Injection, Surjection, IsInjective
  <2> QED BY <2>1, FS_Bijection DEF ExistsBijection, Accounted
<1>4. IsFiniteSet(done) /\ Cardinality(done) = Len(bankLog[l])
  <2>1. /\ IsFiniteSet(done)
        /\ Cardinality(done) = IF 0 > bankAdu[l] THEN 0 ELSE bankAdu[l] - 0 + 1
    <3>1. 0 \in Int
      OBVIOUS
    <3>2. \A b \in Int : /\ IsFiniteSet(0..b)
                         /\ Cardinality(0..b) = IF 0 > b THEN 0 ELSE b - 0 + 1
      BY <3>1, FS_Interval, Zenon
    <3> QED BY <1>1, <3>2
  <2>2. Len(bankLog[l]) = bankAdu[l] + 1
    BY DEF Accounted
  <2> HIDE DEF done
  <2> QED BY <1>1, <2>1, <2>2
<1>5. queued \cap buffered = {} /\ (queued \cup buffered) \cap done = {}
  <2>1. \A s \in queued \cup buffered : s > bankAdu[l]
    BY DEF Accounted
  <2>2. queued \cap buffered = {}
    BY DEF Accounted
  <2> QED BY <1>1, <2>1, <2>2
<1>6. /\ Cardinality(queued) \in Nat /\ Cardinality(buffered) \in Nat
      /\ Cardinality(done) \in Nat
  BY <1>2, <1>3, <1>4, FS_CardinalityType
<1>7. lrnSent[l] = (queued \cup buffered) \cup done
  BY DEF Accounted
<1> HIDE DEF queue, queued, buffered, done
<1>8. /\ IsFiniteSet(queued \cup buffered)
      /\ Cardinality(queued \cup buffered) = Cardinality(queued) + Cardinality(buffered)
  BY <1>2, <1>3, <1>5, DisjointCardinality
<1>9. Cardinality(lrnSent[l]) = Cardinality(queued \cup buffered) + Cardinality(done)
  BY <1>4, <1>5, <1>7, <1>8, DisjointCardinality
<1> QED BY <1>2, <1>3, <1>4, <1>8, <1>9 DEF queue

LEMMA SlotsAccounted == Spec => []AccountedInv
<1>1. Init => AccountedInv
  <2> SUFFICES ASSUME Init, NEW l \in Learners PROVE Accounted(l)
    BY DEF AccountedInv
  <2>1. /\ lrnSent[l] = {} /\ decidedOut[l] = <<>> /\ bankBuffer[l] = {}
        /\ bankAdu[l] = -1 /\ bankLog[l] = <<>>
    BY DEF Init, LearnerInit, BankInit
  <2>2. SlotsOf(decidedOut[l]) = {} /\ BufferedSlots(l) = {} /\ 0..bankAdu[l] = {}
    BY <2>1 DEF SlotsOf, BufferedSlots
  <2>3. Distinct(decidedOut[l]) /\ IsFiniteSet(bankBuffer[l])
    BY <2>1, FS_EmptySet DEF Distinct
  <2> QED BY <2>1, <2>2, <2>3 DEF Accounted
<1>2. TypeOK /\ AccountedInv /\ [Next]_vars => AccountedInv'
  BY NextAccounted
<1> QED BY <1>1, <1>2, TypeCorrect, PTL DEF Spec

\* Between learner, channel, buffer and bank no decided slot is lost, doubled
\* or processed twice, for any number of slots and any order of decisions.
THEOREM DecisionsKept == Spec => []DecisionsAccounted
<1>1. TypeOK /\ AccountedInv => DecisionsAccounted
  <2> SUFFICES ASSUME TypeOK, AccountedInv, NEW l \in Learners
               PROVE  /\ lrnSent[l] = SlotsOf(decidedOut[l]) \cup BufferedSlots(l)
                                        \cup 0..bankAdu[l]
                      /\ Cardinality(lrnSent[l]) =
                           Len(decidedOut[l]) + Cardinality(bankBuffer[l])
                             + Len(bankLog[l])
                      /\ Len(bankLog[l]) = bankAdu[l] + 1
    BY DEF DecisionsAccounted, SlotsOf, BufferedSlots
  <2> QED BY AccountedAddsUp DEF AccountedInv, Accounted
<1> QED BY <1>1, SlotsAccounted, TypeCorrect, PTL

-----------------------------------------------------------------------------
(* What is decided was chosen *)

\* dVal is a decision a majority voted for, if the votes for its slot are of
\* one round that proposed one value.
Justified(dVal) ==
  OneRound(dVal.slot) /\ ProposedOnce(dVal.slot)
    => \E lrn \in Sent("Learn") :
         /\ lrn.slot = dVal.slot /\ lrn.val = dVal.val
         /\ Chosen(lrn.slot, lrn.rnd, lrn.val)

\* A learner's lists hold learns that were sent, and count no sender twice in
\* one round.
Counted(learns) ==
  /\ learns \subseteq Sent("Learn")
  /\ \A lrn1, lrn2 \in learns :
       lrn1.slot = lrn2.slot /\ lrn1.rnd = lrn2.rnd /\ lrn1.from = lrn2.from
         => lrn1 = lrn2

CountedInv == \A l \in Learners : Counted(lrnSlots[l])

LEMMA VotersFinite ==
  ASSUME TypeOK, NEW s, NEW r, NEW v
  PROVE  /\ IsFiniteSet(VotersFor(s, r, v))
         /\ Cardinality(VotersFor(s, r, v)) \in Nat
<1>1. VotersFor(s, r, v) \subseteq Acceptors
  BY DEF VotersFor
<1> QED BY <1>1, ConfigAssumption, FS_Subset, FS_CardinalityType

\* A list as long as a majority is a majority of votes for the value of each
\* of its learns.
LEMMA CompleteIsChosen ==
  ASSUME TypeOK, LearnInv, NEW learns, Counted(learns), NEW lrn \in learns,
         Cardinality(InSlot(learns, lrn.slot)) >= Quorum,
         OneRound(lrn.slot), ProposedOnce(lrn.slot)
  PROVE  Chosen(lrn.slot, lrn.rnd, lrn.val)
<1> DEFINE list == InSlot(learns, lrn.slot)
           voters == VotersFor(lrn.slot, lrn.rnd, lrn.val)
           from == [other \in list |-> other.from]
<1>1. ASSUME NEW other \in list
      PROVE  other.rnd = lrn.rnd /\ other.val = lrn.val /\ other.from \in voters
  <2>1. other \in Sent("Learn") /\ lrn \in Sent("Learn") /\ other.slot = lrn.slot
    BY DEF InSlot, Counted
  <2>2. other.rnd = lrn.rnd
    BY <2>1 DEF OneRound
  <2>3. other.val = lrn.val
    BY <2>1, <2>2 DEF LearnInv, ProposedOnce
  <2>4. other.from \in Acceptors
    BY <2>1 DEF Sent, TypeOK, Messages, Prepare, Promise, Accept, Learn
  <2> QED BY <2>1, <2>2, <2>3, <2>4 DEF VotersFor
<1>2. \A lrn1, lrn2 \in list : lrn1.from = lrn2.from => lrn1 = lrn2
  <2>1. \A lrn1, lrn2 \in list : lrn1.slot = lrn2.slot /\ lrn1.rnd = lrn2.rnd
    BY <1>1 DEF InSlot
  <2> QED BY <2>1 DEF InSlot, Counted
<1> HIDE DEF list, voters
<1>3. from \in Injection(list, voters)
  BY <1>1, <1>2 DEF Injection, IsInjective
<1>4. IsFiniteSet(voters) /\ Cardinality(voters) \in Nat
  BY VotersFinite DEF voters
<1>5. IsFiniteSet(list) /\ Cardinality(list) <= Cardinality(voters)
  BY <1>3, <1>4, FS_Injection DEF ExistsInjection
<1>6. Cardinality(list) \in Nat /\ Quorum \in Nat
  BY <1>5, FS_CardinalityType, QuorumType
<1> QED BY <1>4, <1>5, <1>6 DEF list, voters, Chosen

\* Votes only add to a majority.
LEMMA JustifiedStays ==
  ASSUME TypeOK, TypeOK', msgs \subseteq msgs', NEW dVal, Justified(dVal)
  PROVE  Justified(dVal)'
<1> SUFFICES ASSUME OneRound(dVal.slot)', ProposedOnce(dVal.slot)'
             PROVE  \E lrn \in Sent("Learn")' :
                      /\ lrn.slot = dVal.slot /\ lrn.val = dVal.val
                      /\ Chosen(lrn.slot, lrn.rnd, lrn.val)'
  BY DEF Justified
<1>1. Sent("Learn") \subseteq Sent("Learn")'
  BY DEF Sent
<1>2. OneRound(dVal.slot) /\ ProposedOnce(dVal.slot)
  BY <1>1, ProposedOnceBefore DEF OneRound
<1>3. PICK lrn \in Sent("Learn") : /\ lrn.slot = dVal.slot /\ lrn.val = dVal.val
                                   /\ Chosen(lrn.slot, lrn.rnd, lrn.val)
  BY <1>2 DEF Justified
<1>4. VotersFor(lrn.slot, lrn.rnd, lrn.val) \subseteq VotersFor(lrn.slot, lrn.rnd, lrn.val)'
  BY <1>1 DEF VotersFor
<1>5. /\ IsFiniteSet(VotersFor(lrn.slot, lrn.rnd, lrn.val)')
      /\ Cardinality(VotersFor(lrn.slot, lrn.rnd, lrn.val)') \in Nat
  <2>1. VotersFor(lrn.slot, lrn.rnd, lrn.val)' \subseteq Acceptors
    BY DEF VotersFor
  <2> QED BY <2>1, ConfigAssumption, FS_Subset, FS_CardinalityType
<1>6. Chosen(lrn.slot, lrn.rnd, lrn.val)'
  <2>1. Cardinality(VotersFor(lrn.slot, lrn.rnd, lrn.val))
          <= Cardinality(VotersFor(lrn.slot, lrn.rnd, lrn.val)')
    BY <1>4, <1>5, FS_Subset
  <2> QED BY <1>3, <1>5, <2>1, VotersFinite, QuorumType DEF Chosen
<1> QED BY <1>1, <1>3, <1>6

\* A learn is counted once, and one of a higher round with none of the old.
LEMMA RecordCounted ==
  ASSUME TypeOK, NEW learns, Counted(learns), NEW lrn \in Sent("Learn"),
         NEW kept, kept \subseteq learns,
         \A known \in InSlot(kept, lrn.slot) :
           ~(known.from = lrn.from /\ known.rnd = lrn.rnd)
  PROVE  Counted({lrn} \cup kept)
BY DEF Counted, InSlot

\* What a learner step leaves in the lists, and which decision it makes.
LEMMA LearnerStepCounted ==
  ASSUME TypeOK, TypeOK', SafetyInv, CountedInv, NEW l \in Learners, LearnerStep(l)
  PROVE  /\ CountedInv'
         /\ \/ decidedOut' = decidedOut
            \/ \E dVal \in DecidedValue :
                 /\ decidedOut' = [decidedOut EXCEPT ![l] = Append(@, dVal)]
                 /\ Justified(dVal)
<1> DEFINE kept(lrn) == IF lrn.rnd > lrnRnd[l] THEN lrnSlots[l] \ InSlot(lrnSlots[l], lrn.slot)
                          ELSE lrnSlots[l]
<1>1. PICK lrn \in Sent("Learn") :
        /\ lrn.rnd >= lrnRnd[l]
        /\ lrn.rnd = lrnRnd[l] =>
             \A known \in InSlot(lrnSlots[l], lrn.slot) :
               ~(known.from = lrn.from /\ known.rnd = lrn.rnd)
        /\ lrnSlots' = [lrnSlots EXCEPT ![l] = {lrn} \cup kept(lrn)]
        /\ \/ /\ Cardinality(InSlot(lrnSlots'[l], lrn.slot)) >= Quorum
              /\ decidedOut' = [decidedOut EXCEPT ![l] =
                   Append(@, [slot |-> lrn.slot, val |-> lrn.val])]
           \/ UNCHANGED decidedOut
  BY DEF LearnerStep, HandleLearn, Record
<1>2. msgs' = msgs
  BY DEF LearnerStep, HandleLearn
<1>3. lrn \in Learn
  BY DEF Sent, TypeOK, Messages, Promise, Prepare, Accept
<1>4. \A known \in InSlot(kept(lrn), lrn.slot) :
        ~(known.from = lrn.from /\ known.rnd = lrn.rnd)
  <2>1. lrn.rnd \in Int /\ lrnRnd[l] \in Int
    BY <1>3 DEF TypeOK, Learn, Round, NoRound
  <2>2. CASE lrn.rnd = lrnRnd[l]
    <3>1. kept(lrn) = lrnSlots[l]
      <4>1. ~(lrn.rnd > lrnRnd[l])
        BY <2>1, <2>2
      <4> QED BY <4>1
    <3> HIDE DEF kept
    <3> QED BY <1>1, <2>2, <3>1
  <2>3. CASE lrn.rnd > lrnRnd[l]
    <3>1. InSlot(kept(lrn), lrn.slot) = {}
      BY <2>3 DEF InSlot
    <3> QED BY <3>1
  <2> HIDE DEF kept
  <2> QED BY <1>1, <2>1, <2>2, <2>3
<1>5. kept(lrn) \subseteq lrnSlots[l]
  OBVIOUS
<1> DEFINE learns == {lrn} \cup kept(lrn)
<1>6. lrnSlots'[l] = learns
  BY <1>1 DEF TypeOK
<1> HIDE DEF kept
<1>7. Counted(learns)
  BY <1>4, <1>5, RecordCounted DEF CountedInv
<1>8. CountedInv'
  <2>1. \A m \in Learners : m # l => lrnSlots'[m] = lrnSlots[m]
    BY <1>1 DEF TypeOK
  <2>2. \A m \in Learners : Counted(lrnSlots'[m])
    BY <1>6, <1>7, <2>1 DEF CountedInv
  <2> QED BY <1>2, <2>2 DEF CountedInv, Counted, Sent
<1>9. CASE UNCHANGED decidedOut
  BY <1>8, <1>9
<1>10. CASE /\ Cardinality(InSlot(lrnSlots'[l], lrn.slot)) >= Quorum
            /\ decidedOut' = [decidedOut EXCEPT ![l] =
                 Append(@, [slot |-> lrn.slot, val |-> lrn.val])]
  <2>1. PICK dVal \in DecidedValue : dVal = [slot |-> lrn.slot, val |-> lrn.val]
    BY <1>3 DEF Learn, DecidedValue
  <2>2. Cardinality(InSlot(learns, lrn.slot)) >= Quorum /\ lrn \in learns
    BY <1>6, <1>10
  <2>3. LearnInv
    BY DEF SafetyInv
  <2> HIDE DEF learns
  <2>4. OneRound(lrn.slot) /\ ProposedOnce(lrn.slot) => Chosen(lrn.slot, lrn.rnd, lrn.val)
    BY <1>7, <2>2, <2>3, CompleteIsChosen
  <2>5. Justified(dVal)
    BY <2>1, <2>4 DEF Justified
  <2> QED BY <1>8, <1>10, <2>1, <2>5
<1> QED BY <1>1, <1>9, <1>10

LEMMA QueueGrows ==
  ASSUME NEW queue \in Seq(DecidedValue), NEW dVal \in DecidedValue
  PROVE  /\ \A i \in DOMAIN Append(queue, dVal) :
              \/ i \in DOMAIN queue /\ Append(queue, dVal)[i] = queue[i]
              \/ Append(queue, dVal)[i] = dVal
<1>1. /\ DOMAIN queue = 1..Len(queue) /\ Len(queue) \in Nat
      /\ DOMAIN Append(queue, dVal) = 1..(Len(queue) + 1)
      /\ \A i \in 1..Len(queue) : Append(queue, dVal)[i] = queue[i]
      /\ Append(queue, dVal)[Len(queue) + 1] = dVal
  BY AppendProperties, LenProperties
<1> QED BY <1>1

LEMMA QueueShrinks ==
  ASSUME NEW queue \in Seq(DecidedValue), queue # <<>>
  PROVE  /\ Head(queue) \in DecidedValue
         /\ \E i \in DOMAIN queue : Head(queue) = queue[i]
         /\ \A i \in DOMAIN Tail(queue) : \E j \in DOMAIN queue : Tail(queue)[i] = queue[j]
<1>1. /\ DOMAIN queue = 1..Len(queue) /\ Len(queue) \in Nat /\ Len(queue) > 0
      /\ DOMAIN Tail(queue) = 1..(Len(queue) - 1)
      /\ \A i \in 1..(Len(queue) - 1) : Tail(queue)[i] = queue[i + 1]
      /\ Head(queue) = queue[1] /\ Head(queue) \in DecidedValue
  BY EmptySeq, HeadTailProperties, LenProperties
<1>2. 1 \in DOMAIN queue /\ \A i \in DOMAIN Tail(queue) : i + 1 \in DOMAIN queue
  BY <1>1
<1> QED BY <1>1, <1>2

\* The slot executed is the one after the last.
LEMMA LogGrows ==
  ASSUME TypeOK, NEW l \in Learners, Accounted(l), NEW dVal \in DecidedValue,
         dVal.slot = bankAdu[l] + 1, Apply(l, dVal)
  PROVE  \A i \in DOMAIN bankLog'[l] :
           \/ i \in DOMAIN bankLog[l] /\ bankLog'[l][i] = bankLog[l][i]
           \/ [slot |-> i - 1, val |-> bankLog'[l][i]] = dVal
<1>1. /\ bankLog[l] \in Seq(Value) /\ dVal.val \in Value
      /\ bankLog'[l] = Append(bankLog[l], dVal.val)
      /\ dVal = [slot |-> dVal.slot, val |-> dVal.val]
  BY DEF Apply, TypeOK, DecidedValue
<1>2. bankAdu[l] \in Int /\ Len(bankLog[l]) = bankAdu[l] + 1
  BY DEF TypeOK, Accounted
<1>3. /\ DOMAIN bankLog[l] = 1..Len(bankLog[l]) /\ Len(bankLog[l]) \in Nat
      /\ DOMAIN bankLog'[l] = 1..(Len(bankLog[l]) + 1)
      /\ \A i \in 1..Len(bankLog[l]) : bankLog'[l][i] = bankLog[l][i]
      /\ bankLog'[l][Len(bankLog[l]) + 1] = dVal.val
  BY <1>1, AppendProperties, LenProperties
<1>4. ASSUME NEW i \in DOMAIN bankLog'[l], i \notin DOMAIN bankLog[l]
      PROVE  i - 1 = dVal.slot /\ bankLog'[l][i] = dVal.val
  BY <1>2, <1>3, <1>4
<1> QED BY <1>1, <1>3, <1>4

\* Bank handlers hand decisions on and make none.
LEMMA BankDecidesNothing ==
  ASSUME TypeOK, NEW l \in Learners, Accounted(l), TakeDecided(l) \/ DrainBuffer(l)
  PROVE  DecidedBy(l)' \subseteq DecidedBy(l)
<1>1. CASE TakeDecided(l)
  <2>1. PICK dVal : dVal = Head(decidedOut[l])
    OBVIOUS
  <2>2. /\ decidedOut[l] \in Seq(DecidedValue) /\ decidedOut[l] # <<>>
        /\ decidedOut'[l] = Tail(decidedOut[l])
    BY <1>1 DEF TypeOK, TakeDecided
  <2>3. /\ dVal \in DecidedValue /\ dVal \in DecidedBy(l)
        /\ \A i \in DOMAIN decidedOut'[l] : decidedOut'[l][i] \in DecidedBy(l)
    BY <2>1, <2>2, QueueShrinks DEF DecidedBy
  <2>4. CASE UNCHANGED bankVars
    BY <2>3, <2>4 DEF DecidedBy, bankVars
  <2>5. CASE /\ bankBuffer' = [bankBuffer EXCEPT ![l] = @ \cup {dVal}]
             /\ UNCHANGED bankLog
    <3>1. bankBuffer'[l] = bankBuffer[l] \cup {dVal} /\ bankLog'[l] = bankLog[l]
      BY <2>5 DEF TypeOK
    <3> QED BY <2>3, <3>1 DEF DecidedBy
  <2>6. CASE dVal.slot = bankAdu[l] + 1 /\ Apply(l, dVal) /\ UNCHANGED bankBuffer
    <3>1. \A i \in DOMAIN bankLog'[l] :
            \/ i \in DOMAIN bankLog[l] /\ bankLog'[l][i] = bankLog[l][i]
            \/ [slot |-> i - 1, val |-> bankLog'[l][i]] = dVal
      BY <2>3, <2>6, LogGrows
    <3>2. \A i \in DOMAIN bankLog'[l] :
            [slot |-> i - 1, val |-> bankLog'[l][i]] \in DecidedBy(l)
      BY <2>3, <3>1 DEF DecidedBy
    <3>3. bankBuffer'[l] \subseteq DecidedBy(l)
      BY <2>6 DEF DecidedBy
    <3> QED BY <2>3, <3>2, <3>3 DEF DecidedBy
  <2> QED BY <1>1, <2>1, <2>4, <2>5, <2>6 DEF TakeDecided, HandleDecidedValue
<1>2. CASE DrainBuffer(l)
  <2>1. PICK dVal \in bankBuffer[l] :
          /\ dVal.slot = bankAdu[l] + 1
          /\ bankBuffer' = [bankBuffer EXCEPT ![l] = @ \ {dVal}]
          /\ Apply(l, dVal)
    BY <1>2 DEF DrainBuffer, HandleBuffered, NextBuffered
  <2>2. dVal \in DecidedValue /\ dVal \in DecidedBy(l)
    BY DEF TypeOK, DecidedBy
  <2>3. \A i \in DOMAIN bankLog'[l] :
          \/ i \in DOMAIN bankLog[l] /\ bankLog'[l][i] = bankLog[l][i]
          \/ [slot |-> i - 1, val |-> bankLog'[l][i]] = dVal
    BY <2>1, <2>2, LogGrows
  <2>4. \A i \in DOMAIN bankLog'[l] :
          [slot |-> i - 1, val |-> bankLog'[l][i]] \in DecidedBy(l)
    BY <2>2, <2>3 DEF DecidedBy
  <2>5. bankBuffer'[l] \subseteq DecidedBy(l)
    BY <2>1 DEF TypeOK, DecidedBy
  <2>6. decidedOut' = decidedOut
    BY <1>2 DEF DrainBuffer, learnerVars
  <2>7. \A i \in DOMAIN decidedOut'[l] : decidedOut'[l][i] \in DecidedBy(l)
    BY <2>6 DEF DecidedBy
  <2> QED BY <2>4, <2>5, <2>7 DEF DecidedBy
<1> QED BY <1>1, <1>2

\* A node decides only what is justified, and goes on counting learns once.
LEMMA NextJustified ==
  ASSUME TypeOK, TypeOK', SafetyInv, AccountedInv, CountedInv, [Next]_vars
  PROVE  /\ CountedInv'
         /\ \A l \in Learners : \A dVal \in DecidedBy(l)' :
              dVal \in DecidedBy(l) \/ Justified(dVal)
<1>1. msgs \subseteq msgs'
  BY NextBacked
<1>2. CASE UNCHANGED <<lrnSlots, decidedOut, bankBuffer, bankLog>>
  <2>1. CountedInv'
    BY <1>1, <1>2 DEF CountedInv, Counted, Sent
  <2> QED BY <1>2, <2>1 DEF DecidedBy
<1>3. ASSUME NEW l \in Learners, TakeDecided(l) \/ DrainBuffer(l)
      PROVE  /\ CountedInv'
             /\ \A m \in Learners : DecidedBy(m)' \subseteq DecidedBy(m)
  <2>1. lrnSlots' = lrnSlots
    BY <1>3 DEF TakeDecided, DrainBuffer, learnerVars
  <2>2. CountedInv'
    BY <1>1, <2>1 DEF CountedInv, Counted, Sent
  <2> SUFFICES ASSUME NEW m \in Learners PROVE DecidedBy(m)' \subseteq DecidedBy(m)
    BY <2>2
  <2>3. CASE m = l
    BY <1>3, <2>3, BankDecidesNothing DEF AccountedInv
  <2>4. CASE m # l
    <3>1. decidedOut'[m] = decidedOut[m]
      BY <1>3, <2>4 DEF TypeOK, TakeDecided, DrainBuffer, learnerVars
    <3>2. bankBuffer'[m] = bankBuffer[m] /\ bankLog'[m] = bankLog[m]
      BY SMTT(30), <1>3, <2>4 DEF TypeOK, TakeDecided, HandleDecidedValue, DrainBuffer,
                        HandleBuffered, Apply, bankVars
    <3> QED BY <3>1, <3>2 DEF DecidedBy
  <2> QED BY <2>3, <2>4
<1>4. ASSUME NEW l \in Learners, LearnerStep(l)
      PROVE  /\ CountedInv'
             /\ \A m \in Learners : \A dVal \in DecidedBy(m)' :
                  dVal \in DecidedBy(m) \/ Justified(dVal)
  <2>1. UNCHANGED <<bankBuffer, bankLog>>
    BY <1>4 DEF LearnerStep, bankVars
  <2>2. CountedInv'
    BY <1>4, LearnerStepCounted
  <2>3. CASE decidedOut' = decidedOut
    BY <2>1, <2>2, <2>3 DEF DecidedBy
  <2>4. ASSUME NEW new \in DecidedValue, Justified(new),
               decidedOut' = [decidedOut EXCEPT ![l] = Append(@, new)]
        PROVE  \A m \in Learners : \A dVal \in DecidedBy(m)' :
                 dVal \in DecidedBy(m) \/ Justified(dVal)
    <3>1. /\ decidedOut[l] \in Seq(DecidedValue)
          /\ decidedOut'[l] = Append(decidedOut[l], new)
          /\ \A m \in Learners : m # l => decidedOut'[m] = decidedOut[m]
      BY <2>4 DEF TypeOK
    <3>2. \A i \in DOMAIN decidedOut'[l] :
            \/ i \in DOMAIN decidedOut[l] /\ decidedOut'[l][i] = decidedOut[l][i]
            \/ decidedOut'[l][i] = new
      BY <3>1, QueueGrows
    <3>3. \A dVal \in DecidedBy(l)' : dVal \in DecidedBy(l) \/ dVal = new
      BY <2>1, <3>2 DEF DecidedBy
    <3>4. \A m \in Learners : m # l => DecidedBy(m)' = DecidedBy(m)
      BY <2>1, <3>1 DEF DecidedBy
    <3> QED BY <2>4, <3>3, <3>4
  <2> QED BY <1>4, <2>2, <2>3, <2>4, LearnerStepCounted
<1>5. CASE UNCHANGED <<learnerVars, bankVars>>
  BY <1>2, <1>5 DEF learnerVars, bankVars
<1>6. ASSUME NEW l \in Learners, IncrementAllDecidedUpTo(l)
      PROVE  UNCHANGED <<lrnSlots, decidedOut, bankBuffer, bankLog>>
  BY <1>6 DEF IncrementAllDecidedUpTo, ProposerTold, learnerVars
<1>7. ASSUME NEW p \in Proposers, ProposerStep(p)
      PROVE  UNCHANGED <<learnerVars, bankVars>>
  BY <1>7 DEF ProposerStep
<1>8. ASSUME NEW a \in Acceptors, AcceptorStep(a)
      PROVE  UNCHANGED <<learnerVars, bankVars>>
  BY <1>8 DEF AcceptorStep
<1>9. CASE UNCHANGED vars
  BY <1>5, <1>9 DEF vars
<1> QED BY <1>2, <1>3, <1>4, <1>5, <1>6, <1>7, <1>8, <1>9 DEF Next

\* A node executes only what a majority chose, in every slot whose votes are of
\* one round with one proposal: learner, channel, buffer and log together.
THEOREM DecisionsChosen == Spec => []DecidedIsChosen
<1>1. Init => CountedInv /\ DecidedIsChosen
  <2> SUFFICES ASSUME Init PROVE CountedInv /\ DecidedIsChosen
    OBVIOUS
  <2>1. CountedInv
    BY DEF Init, LearnerInit, CountedInv, Counted
  <2>2. \A l \in Learners : DecidedBy(l) = {}
    BY DEF Init, LearnerInit, BankInit, DecidedBy
  <2> QED BY <2>1, <2>2 DEF DecidedIsChosen
<1>2. TypeOK /\ TypeOK' /\ SafetyInv /\ AccountedInv /\ CountedInv /\ DecidedIsChosen
        /\ [Next]_vars => CountedInv' /\ DecidedIsChosen'
  <2> SUFFICES ASSUME TypeOK, TypeOK', SafetyInv, AccountedInv, CountedInv,
                      DecidedIsChosen, [Next]_vars
               PROVE  CountedInv' /\ DecidedIsChosen'
    OBVIOUS
  <2>1. msgs \subseteq msgs'
    BY NextBacked
  <2>2. \A l \in Learners : \A dVal \in DecidedBy(l)' : Justified(dVal)
    BY NextJustified DEF DecidedIsChosen, Justified
  <2>3. \A l \in Learners : \A dVal \in DecidedBy(l)' : Justified(dVal)'
    BY <2>1, <2>2, JustifiedStays
  <2> QED BY <2>3, NextJustified DEF DecidedIsChosen, Justified
<1> QED BY <1>1, <1>2, TypeCorrect, SafetyInvariant, SlotsAccounted, PTL DEF Spec
=============================================================================
