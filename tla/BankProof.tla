----------------------------- MODULE BankProof ------------------------------
(***************************************************************************)
(* The bank handler, for any number of nodes, slots and commands, any ints *)
(* and every order and repetition in which the decided values arrive: it   *)
(* implements the replicated log (the initial states and the steps; what   *)
(* it must eventually execute stays with the model checker), and the       *)
(* accounts it keeps and the responses it makes are a function of the log. *)
(***************************************************************************)
EXTENDS BankAccounts, SequenceTheorems, WellFoundedInduction, TLAPS

DecidedValues == {Decided(s) : s \in 0..MaxSlot}

\* What was delivered was decided, what waits in a buffer was delivered, and the
\* log is DecisionsInOrder.
DeliveryInv ==
  /\ decision \in [0..MaxSlot -> Value]
  /\ bankAdu \in [Learners -> Int]
  /\ bankLog \in [Learners -> Seq(Value)]
  /\ delivered \in [Learners -> SUBSET DecidedValues]
  /\ bankBuffer \in [Learners -> SUBSET DecidedValues]
  /\ \A l \in Learners : bankBuffer[l] \subseteq delivered[l]
  /\ DecisionsInOrder

LEMMA InitDelivery ==
  ASSUME Init
  PROVE  DeliveryInv
BY EmptySeq DEF Init, BankInit, DeliveryInv, DecisionsInOrder

\* The next decided value is executed.
LEMMA ApplyInOrder ==
  ASSUME DeliveryInv, NEW l \in Learners, NEW s \in 0..MaxSlot, s = bankAdu[l] + 1,
         Apply(l, Decided(s)), UNCHANGED decision
  PROVE  /\ bankAdu' \in [Learners -> Int]
         /\ bankLog' \in [Learners -> Seq(Value)]
         /\ DecisionsInOrder'
         /\ Len(bankLog[l]) = s
         /\ bankLog'[l] = Append(bankLog[l], decision[s])
         /\ DOMAIN bankLog'[l] = DOMAIN bankLog[l] \cup {s + 1}
         /\ bankLog'[l][s + 1] = decision[s]
         /\ \A i \in DOMAIN bankLog[l] : bankLog'[l][i] = bankLog[l][i]
<1> DEFINE old == bankLog[l]
           new == Append(old, decision[s])
<1>1. /\ old \in Seq(Value) /\ decision[s] \in Value /\ Len(old) = s
      /\ \A i \in DOMAIN old : i - 1 <= MaxSlot /\ old[i] = decision[i - 1]
  BY DEF DeliveryInv, DecisionsInOrder
<1>2. /\ new \in Seq(Value) /\ Len(new) = s + 1
      /\ DOMAIN old = 1..s /\ DOMAIN new = 1..(s + 1)
      /\ new[s + 1] = decision[s]
      /\ \A i \in 1..s : new[i] = old[i]
  BY <1>1, AppendProperties, LenProperties
<1>3. /\ bankLog' = [bankLog EXCEPT ![l] = new]
      /\ bankAdu' = [bankAdu EXCEPT ![l] = s]
  BY DEF Apply, Decided
<1> HIDE DEF new
<1>4. /\ bankLog'[l] = new /\ bankAdu'[l] = s
      /\ bankLog' \in [Learners -> Seq(Value)] /\ bankAdu' \in [Learners -> Int]
      /\ \A m \in Learners : m # l => bankLog'[m] = bankLog[m] /\ bankAdu'[m] = bankAdu[m]
  BY <1>2, <1>3 DEF DeliveryInv
<1>5. \A i \in DOMAIN new : i - 1 <= MaxSlot /\ new[i] = decision[i - 1]
  <2>1. ASSUME NEW i \in 1..s PROVE i - 1 <= MaxSlot /\ new[i] = decision[i - 1]
    BY <1>1, <1>2, <2>1
  <2>2. s + 1 - 1 = s /\ s <= MaxSlot
    BY DeliveryAssumption
  <2> QED BY <1>2, <2>1, <2>2
<1>6. DecisionsInOrder'
  <2>1. ASSUME NEW m \in Learners
        PROVE  /\ Len(bankLog'[m]) = bankAdu'[m] + 1
               /\ \A i \in DOMAIN bankLog'[m] :
                    i - 1 <= MaxSlot /\ bankLog'[m][i] = decision[i - 1]
    <3>1. CASE m = l
      BY <1>2, <1>4, <1>5, <3>1
    <3>2. CASE m # l
      BY <1>4, <3>2 DEF DeliveryInv, DecisionsInOrder
    <3> QED BY <3>1, <3>2
  <2> QED BY <2>1 DEF DecisionsInOrder
<1> QED BY <1>1, <1>2, <1>4, <1>6 DEF new

\* What a step of one node's bank handler does with a value that was delivered,
\* by this step or an earlier one: it ignores, buffers or executes it, the last
\* perhaps out of the buffer.
StepOf(l, s) ==
  /\ delivered' = [delivered EXCEPT ![l] = @ \cup {Decided(s)}]
  /\ \/ UNCHANGED <<bankAdu, bankBuffer, bankLog>>
     \/ /\ bankBuffer' = [bankBuffer EXCEPT ![l] = @ \cup {Decided(s)}]
        /\ UNCHANGED <<bankAdu, bankLog>>
     \/ /\ s = bankAdu[l] + 1 /\ Apply(l, Decided(s))
        /\ \/ UNCHANGED bankBuffer
           \/ bankBuffer' = [bankBuffer EXCEPT ![l] = @ \ {Decided(s)}]

LEMMA NodeSteps ==
  ASSUME DeliveryInv, NEW l \in Learners, Deliver(l) \/ Drain(l)
  PROVE  UNCHANGED decision /\ \E s \in 0..MaxSlot : StepOf(l, s)
<1>1. CASE Deliver(l)
  <2>1. PICK s \in 0..MaxSlot :
          /\ HandleDecidedValue(l, Decided(s))
          /\ delivered' = [delivered EXCEPT ![l] = @ \cup {Decided(s)}]
    BY <1>1 DEF Deliver
  <2>2. Decided(s).slot = s
    BY DEF Decided
  <2>3. StepOf(l, s)
    BY <2>1, <2>2 DEF HandleDecidedValue, bankVars, StepOf
  <2> QED BY <1>1, <2>3 DEF Deliver
<1>2. CASE Drain(l)
  <2>1. PICK d \in NextBuffered(l) :
          /\ bankBuffer' = [bankBuffer EXCEPT ![l] = @ \ {d}]
          /\ Apply(l, d)
    BY <1>2 DEF Drain, HandleBuffered
  <2>2. PICK s \in 0..MaxSlot : d = Decided(s) /\ d \in bankBuffer[l] /\ s = bankAdu[l] + 1
    BY <2>1 DEF NextBuffered, DeliveryInv, DecidedValues, Decided
  <2>3. delivered' = [delivered EXCEPT ![l] = @ \cup {Decided(s)}]
    <3>1. delivered[l] \cup {Decided(s)} = delivered[l] /\ UNCHANGED delivered
      BY <1>2, <2>2 DEF Drain, DeliveryInv
    <3> QED BY <3>1 DEF DeliveryInv
  <2> QED BY <1>2, <2>1, <2>2, <2>3 DEF Drain, StepOf
<1> QED BY <1>1, <1>2

LEMMA NextSteps ==
  ASSUME DeliveryInv, [Next]_deliveryVars
  PROVE  /\ UNCHANGED decision
         /\ \/ UNCHANGED <<delivered, bankAdu, bankBuffer, bankLog>>
            \/ \E l \in Learners, s \in 0..MaxSlot : StepOf(l, s)
<1>1. ASSUME NEW l \in Learners, TakeIncrement(l)
      PROVE  UNCHANGED <<decision, delivered, bankAdu, bankBuffer, bankLog>>
  BY <1>1 DEF TakeIncrement, ProposerTold
<1> QED BY <1>1, NodeSteps DEF Next, deliveryVars, bankVars

LEMMA NextDelivery ==
  ASSUME DeliveryInv, [Next]_deliveryVars
  PROVE  DeliveryInv'
<1>1. UNCHANGED decision /\ DecidedValues' = DecidedValues
  BY NextSteps DEF DecidedValues, Decided
<1>2. CASE UNCHANGED <<delivered, bankAdu, bankBuffer, bankLog>>
  BY <1>1, <1>2 DEF DeliveryInv, DecisionsInOrder
<1>3. ASSUME NEW l \in Learners, NEW s \in 0..MaxSlot, StepOf(l, s) PROVE DeliveryInv'
  <2>1. Decided(s) \in DecidedValues
    BY DEF DecidedValues
  <2>2. PICK e : e = Decided(s)
    OBVIOUS
  <2>3. /\ delivered' \in [Learners -> SUBSET DecidedValues]
        /\ delivered'[l] = delivered[l] \cup {e}
        /\ \A m \in Learners : m # l => delivered'[m] = delivered[m]
    BY <1>3, <2>1, <2>2 DEF StepOf, DeliveryInv
  <2>4. /\ bankBuffer' \in [Learners -> SUBSET DecidedValues]
        /\ bankBuffer'[l] \subseteq bankBuffer[l] \cup {e}
        /\ \A m \in Learners : m # l => bankBuffer'[m] = bankBuffer[m]
    BY <1>3, <2>1, <2>2 DEF StepOf, DeliveryInv
  <2>5. \A m \in Learners : bankBuffer'[m] \subseteq delivered'[m]
    BY <2>3, <2>4 DEF DeliveryInv
  <2>6. /\ bankAdu' \in [Learners -> Int]
        /\ bankLog' \in [Learners -> Seq(Value)]
        /\ DecisionsInOrder'
    <3>1. CASE UNCHANGED <<bankAdu, bankLog>>
      BY <1>1, <3>1 DEF DeliveryInv, DecisionsInOrder
    <3>2. CASE s = bankAdu[l] + 1 /\ Apply(l, Decided(s))
      BY <1>1, <3>2, ApplyInOrder
    <3> QED BY <1>3, <3>1, <3>2 DEF StepOf
  <2>7. decision' \in [0..MaxSlot -> Value]
    BY <1>1 DEF DeliveryInv
  <2> QED BY <1>1, <2>3, <2>4, <2>5, <2>6, <2>7, Zenon DEF DeliveryInv
<1> QED BY <1>2, <1>3, NextSteps

\* It holds in every run.
THEOREM DeliveryInvariant == Spec => []DeliveryInv
BY InitDelivery, NextDelivery, PTL DEF Spec

\* Every node has executed the decided values, in slot order and each once.
THEOREM InSlotOrder == Spec => []DecisionsInOrder
<1>1. DeliveryInv => DecisionsInOrder
  BY DEF DeliveryInv
<1> QED BY <1>1, DeliveryInvariant, PTL

-----------------------------------------------------------------------------
(* Refinement *)

LEMMA NodeIsLearner == Node \in Learners
BY DeliveryAssumption DEF Node

LEMMA InitMaps ==
  ASSUME Init
  PROVE  Log!Init
BY NodeIsLearner DEF Init, BankInit, Log!Init

\* The step of the node that is looked at: what was delivered to it grows, and
\* what it executes is the next of that.
LEMMA StepMaps ==
  ASSUME DeliveryInv, NEW s \in 0..MaxSlot, StepOf(Node, s), UNCHANGED decision
  PROVE  /\ delivered[Node] \subseteq delivered'[Node]
         /\ \/ UNCHANGED bankLog[Node]
            \/ /\ Decided(s) \in delivered'[Node] /\ Decided(s).slot = Len(bankLog[Node])
               /\ bankLog'[Node] = Append(bankLog[Node], Decided(s).val)
<1> USE NodeIsLearner
<1>1. delivered'[Node] = delivered[Node] \cup {Decided(s)}
  BY DEF StepOf, DeliveryInv
<1>2. CASE UNCHANGED bankLog
  BY <1>1, <1>2
<1>3. CASE s = bankAdu[Node] + 1 /\ Apply(Node, Decided(s))
  <2>1. /\ Len(bankLog[Node]) = s
        /\ bankLog'[Node] = Append(bankLog[Node], decision[s])
    BY <1>3, ApplyInOrder
  <2>2. Decided(s).slot = s /\ Decided(s).val = decision[s]
    BY DEF Decided
  <2> QED BY <1>1, <2>1, <2>2
<1> QED BY <1>2, <1>3 DEF StepOf

LEMMA NextMaps ==
  ASSUME DeliveryInv, DeliveryInv', [Next]_deliveryVars
  PROVE  [Log!Next]_(Log!logVars)
<1>1. delivered'[Node] \subseteq DecidedValue
  <2>1. ASSUME NEW t \in 0..MaxSlot PROVE [slot |-> t, val |-> decision'[t]] \in DecidedValue
    <3>1. t \in SlotID /\ decision'[t] \in Value
      BY DeliveryAssumption DEF DeliveryInv, SlotID
    <3> QED BY <3>1 DEF DecidedValue
  <2> QED BY <2>1, NodeIsLearner DEF DeliveryInv, DecidedValues, Decided
<1>2. CASE UNCHANGED <<delivered, bankLog>>
  BY <1>2 DEF Log!logVars
<1>3. ASSUME NEW l \in Learners, NEW s \in 0..MaxSlot, StepOf(l, s)
      PROVE  [Log!Next]_(Log!logVars)
  <2>1. CASE l = Node
    <3>1. UNCHANGED decision
      BY NextSteps
    <3>2. /\ delivered[Node] \subseteq delivered'[Node]
          /\ \/ UNCHANGED bankLog[Node]
             \/ /\ Decided(s) \in delivered'[Node] /\ Decided(s).slot = Len(bankLog[Node])
                /\ bankLog'[Node] = Append(bankLog[Node], Decided(s).val)
      BY <1>3, <2>1, <3>1, StepMaps
    <3> QED BY <1>1, <3>2 DEF Log!Next, Log!Execute
  <2>2. CASE l # Node
    BY <1>3, <2>2, NodeIsLearner DEF StepOf, Apply, DeliveryInv, Log!logVars
  <2> QED BY <2>1, <2>2
<1> QED BY <1>2, <1>3, NextSteps

\* bankhandler.go: whatever the order and repetition of the decided values,
\* a node's bank handler does what ReplicatedLog says, step by step: it
\* executes the next slot, with a value that was delivered for it.
THEOREM ImplementsLogSteps == Spec => Log!Init /\ [][Log!Next]_(Log!logVars)
BY InitMaps, NextMaps, DeliveryInvariant, PTL DEF Spec

-----------------------------------------------------------------------------
(* Induction, from the well-foundedness of the natural numbers *)

LEMMA Least ==
  ASSUME NEW T \in SUBSET Nat, T # {}
  PROVE  \E x \in T : \A y \in T : x <= y
<1> DEFINE R == OpToRel(<, Nat)
<1>1. IsWellFoundedOn(R, Nat)
  BY NatLessThanWellFounded
<1>2. \A x, y \in Nat : y < x => <<y, x>> \in R
  BY DEF OpToRel
<1> HIDE DEF R
<1>3. PICK x \in T : \A y \in T : ~ (<<y, x>> \in R)
  BY <1>1, WFMin
<1>4. ASSUME NEW y \in T PROVE x <= y
  <2>1. <<y, x>> \notin R
    BY <1>3
  <2>2. x \in Nat /\ y \in Nat
    OBVIOUS
  <2>3. ~ (y < x)
    BY <1>2, <2>1, <2>2
  <2> QED BY <2>2, <2>3
<1> QED BY <1>4

LEMMA Induction ==
  ASSUME NEW S, 0 \in S, \A n \in Nat : n \in S => n + 1 \in S
  PROVE  Nat \subseteq S
<1> SUFFICES ASSUME ~ (Nat \subseteq S) PROVE FALSE
  OBVIOUS
<1>1. PICK x \in Nat \ S : \A y \in Nat \ S : x <= y
  BY Least
<1>2. x # 0 /\ x - 1 \in Nat /\ x - 1 \in S
  BY <1>1
<1> QED BY <1>1, <1>2

-----------------------------------------------------------------------------
(* Go's int *)

\* Quotient and remainder.
LEMMA Division ==
  ASSUME NEW m \in Nat \ {0}, NEW x \in Int
  PROVE  x % m \in 0..(m - 1) /\ x \div m \in Int /\ x = (m * (x \div m)) + (x % m)
OBVIOUS

\* A multiple of the modulus does not count.
LEMMA ModShift ==
  ASSUME NEW m \in Nat \ {0}, NEW x \in Int, NEW k \in Int
  PROVE  (x + m * k) % m = x % m
<1> DEFINE d == x \div m
           r == x % m
<1>1. r \in 0..(m - 1) /\ d \in Int /\ x = (m * d) + r
  OBVIOUS
<1>2. m * (d + k) = (m * d) + (m * k)
  BY <1>1
<1>3. ((m * (d + k)) + r) % m = r
  BY <1>1
<1>4. x + m * k = (m * (d + k)) + r
  BY <1>1, <1>2
<1> QED BY <1>3, <1>4

\* What does not fit in an int wraps around to something that does,
LEMMA WrapType ==
  ASSUME NEW x \in Int
  PROVE  Wrap(x) \in Int64
<1> DEFINE m == 2 * Limit
           y == x + Limit
<1>1. m \in Nat \ {0} /\ y \in Int /\ Limit \in Nat
  BY BankAssumption
<1>2. y % m \in 0..(m - 1)
  BY <1>1
<1>3. Wrap(x) = (y % m) - Limit
  BY DEF Wrap
<1> DEFINE r == y % m
<1>4. r \in 0..(m - 1) /\ Wrap(x) = r - Limit
  BY <1>2, <1>3
<1> HIDE DEF r
<1> QED BY <1>1, <1>4 DEF Int64

\* what fits stays,
LEMMA WrapFits ==
  ASSUME NEW x \in Int64
  PROVE  Wrap(x) = x
<1> DEFINE m == 2 * Limit
           y == x + Limit
<1>1. m \in Nat \ {0} /\ y \in 0..(m - 1)
  BY BankAssumption DEF Int64
<1>2. y % m = y
  BY <1>1
<1> QED BY <1>2, BankAssumption DEF Wrap, Int64

\* and an addition to a wrapped sum wraps to what the whole sum does.
LEMMA WrapAgain ==
  ASSUME NEW x \in Int, NEW e \in Int
  PROVE  Wrap(Wrap(x) + e) = Wrap(x + e)
<1> DEFINE m == 2 * Limit
           y == x + Limit
           d == y \div m
<1>1. m \in Nat \ {0} /\ y \in Int /\ Limit \in Nat
  BY BankAssumption
<1> HIDE DEF m, y
<1>2. d \in Int /\ y % m \in Int /\ y = (m * d) + (y % m)
  <2>1. y % m \in 0..(m - 1) /\ y \div m \in Int /\ y = (m * (y \div m)) + (y % m)
    BY <1>1, Division
  <2> QED BY <1>1, <2>1
<1> DEFINE r == y % m
<1> HIDE DEF d
<1>3. r \in Int /\ Wrap(x) = r - Limit /\ x + Limit = (m * d) + r
  BY <1>2 DEF Wrap, m, y
<1> HIDE DEF r
<1>4. -d \in Int /\ m * (-d) = -(m * d) /\ m * d \in Int
  BY <1>1, <1>2
<1>5. (Wrap(x) + e) + Limit = ((x + e) + Limit) + (m * (-d))
  <2> DEFINE md == m * d
  <2>1. md \in Int /\ m * (-d) = -md /\ x + Limit = md + r
    BY <1>3, <1>4
  <2> HIDE DEF md
  <2> QED BY <1>1, <1>3, <2>1
<1>6. (((x + e) + Limit) + (m * (-d))) % m = ((x + e) + Limit) % m
  <2> DEFINE z == (x + e) + Limit
             k == -d
  <2>1. z \in Int /\ k \in Int
    BY <1>1, <1>4
  <2> HIDE DEF z, k
  <2>2. (z + (m * k)) % m = z % m
    BY <1>1, <2>1, ModShift
  <2> QED BY <2>2 DEF z, k
<1> QED BY <1>5, <1>6 DEF Wrap, m

-----------------------------------------------------------------------------
(* Responses, added up *)

Responded == [val : ClientValues, res : [Balance : Int64, ok : BOOLEAN]]

\* What ProcessValue appends for a value.
Response(balance, val) == [val |-> val, res |-> Process(balance, val.Txn)]

LEMMA ResponseType ==
  ASSUME NEW balance \in Int64, NEW val \in ClientValues
  PROVE  /\ Response(balance, val) \in Responded
         /\ Effect(val.Txn) \in Int /\ val.AccountNum \in Nat
<1>1. val.AccountNum \in Nat /\ val.Txn \in Transaction
  BY CommandAssumption DEF Command
<1>2. val.Txn.Amount \in Int
  BY <1>1, BankAssumption DEF Transaction, Int64
<1>3. Effect(val.Txn) \in Int
  BY <1>2 DEF Effect
<1>4. balance \in Int
  BY BankAssumption DEF Int64
<1>5. Wrap(balance + Effect(val.Txn)) \in Int64
  BY <1>3, <1>4, WrapType
<1>6. Granted(balance, val.Txn) \in BOOLEAN
  BY DEF Granted
<1>7. Process(balance, val.Txn) \in [Balance : Int64, ok : BOOLEAN]
  BY <1>5, <1>6 DEF Process
<1> QED BY <1>1, <1>3, <1>7 DEF Response, Responded

LEMMA AddedType ==
  ASSUME NEW r \in Responded, NEW account
  PROVE  Added(r, account) \in Int
<1>1. r.val \in ClientValues /\ 0 \in Int64
  BY BankAssumption DEF Responded, Int64
<1>2. Effect(r.val.Txn) \in Int
  BY <1>1, ResponseType
<1> QED BY <1>2 DEF Added

\* Responses are added up one by one.
LEMMA SumUnfolds ==
  ASSUME NEW rs, Len(rs) \in Nat, NEW account
  PROVE  /\ AddedUp(rs, account, 0) = 0
         /\ \A i \in 1..Len(rs) :
              AddedUp(rs, account, i) = AddedUp(rs, account, i - 1) + Added(rs[i], account)
<1> DEFINE Sums(f, n) ==
             f = [i \in 0..n |-> IF i = 0 THEN 0 ELSE f[i - 1] + Added(rs[i], account)]
           S == {n \in Nat : \E f : Sums(f, n)}
<1>1. 0 \in S
  <2> DEFINE f == [i \in 0..0 |-> 0]
  <2>1. f = [i \in 0..0 |-> IF i = 0 THEN 0 ELSE f[i - 1] + Added(rs[i], account)]
    OBVIOUS
  <2> QED BY <2>1
<1>2. ASSUME NEW n \in Nat, n \in S PROVE n + 1 \in S
  <2>1. PICK f : Sums(f, n)
    BY <1>2
  <2> DEFINE g == [i \in 0..(n + 1) |-> IF i <= n THEN f[i]
                                          ELSE f[n] + Added(rs[n + 1], account)]
  <2>2. ASSUME NEW i \in 0..(n + 1)
        PROVE  g[i] = IF i = 0 THEN 0 ELSE g[i - 1] + Added(rs[i], account)
    <3>1. CASE i = 0
      BY <2>1, <3>1
    <3>2. CASE i \in 1..n
      <4>1. i - 1 \in 0..n /\ i \in 0..n /\ i # 0
        BY <3>2
      <4>2. f[i] = f[i - 1] + Added(rs[i], account)
        BY <2>1, <4>1
      <4>3. g[i] = f[i] /\ g[i - 1] = f[i - 1]
        BY <3>2, <4>1
      <4> QED BY <4>1, <4>2, <4>3
    <3>3. CASE i = n + 1
      <4>1. /\ g[i] = f[n] + Added(rs[n + 1], account)
            /\ g[n] = f[n] /\ i - 1 = n /\ i # 0
        BY <3>3
      <4> QED BY <3>3, <4>1
    <3> QED BY <3>1, <3>2, <3>3
  <2>3. Sums(g, n + 1)
    BY <2>2
  <2> HIDE DEF g, Sums
  <2>4. \E h : Sums(h, n + 1)
    BY <2>3
  <2> QED BY <2>4
<1> HIDE DEF S
<1>3. Nat \subseteq S
  BY <1>1, <1>2, Induction
<1> DEFINE sum == CHOOSE f : Sums(f, Len(rs))
<1>4. Sums(sum, Len(rs))
  BY <1>3 DEF S
<1>5. \A i : AddedUp(rs, account, i) = sum[i]
  BY DEF AddedUp
<1> HIDE DEF sum
<1>6. sum[0] = 0 /\ \A i \in 1..Len(rs) : sum[i] = sum[i - 1] + Added(rs[i], account)
  BY <1>4
<1> QED BY <1>5, <1>6

LEMMA SumType ==
  ASSUME NEW rs \in Seq(Responded), NEW account, NEW i \in 0..Len(rs)
  PROVE  AddedUp(rs, account, i) \in Int
<1> DEFINE S == {n \in Nat : n <= Len(rs) => AddedUp(rs, account, n) \in Int}
<1>1. Len(rs) \in Nat
  BY LenProperties
<1>2. 0 \in S
  BY <1>1, SumUnfolds
<1>3. ASSUME NEW n \in Nat, n \in S PROVE n + 1 \in S
  <2> SUFFICES ASSUME n + 1 <= Len(rs) PROVE AddedUp(rs, account, n + 1) \in Int
    OBVIOUS
  <2>1. n + 1 \in 1..Len(rs) /\ (n + 1) - 1 = n /\ n <= Len(rs)
    BY <1>1
  <2>2. AddedUp(rs, account, n + 1) = AddedUp(rs, account, n) + Added(rs[n + 1], account)
    BY <1>1, <2>1, SumUnfolds
  <2>3. Added(rs[n + 1], account) \in Int
    BY <2>1, ElementOfSeq, AddedType
  <2>4. AddedUp(rs, account, n) \in Int
    BY <1>3, <2>1
  <2> QED BY <2>2, <2>3, <2>4
<1> HIDE DEF S
<1>4. Nat \subseteq S
  BY <1>2, <1>3, Induction
<1> QED BY <1>1, <1>4 DEF S

\* A further response leaves the sums of those before it alone.
LEMMA SumAppend ==
  ASSUME NEW rs \in Seq(Responded), NEW r \in Responded, NEW account
  PROVE  /\ \A i \in 0..Len(rs) : AddedUp(Append(rs, r), account, i) = AddedUp(rs, account, i)
         /\ AddedUp(Append(rs, r), account, Len(rs) + 1) =
              AddedUp(rs, account, Len(rs)) + Added(r, account)
<1> DEFINE new == Append(rs, r)
           S == {n \in Nat : n <= Len(rs) => AddedUp(new, account, n) = AddedUp(rs, account, n)}
<1>1. /\ Len(rs) \in Nat /\ Len(new) = Len(rs) + 1
      /\ \A i \in 1..Len(rs) : new[i] = rs[i]
      /\ new[Len(rs) + 1] = r
  BY LenProperties, AppendProperties
<1> HIDE DEF new
<1>2. Len(new) \in Nat
  BY <1>1
<1>3. 0 \in S
  BY <1>1, <1>2, SumUnfolds
<1>4. ASSUME NEW n \in Nat, n \in S PROVE n + 1 \in S
  <2> SUFFICES ASSUME n + 1 <= Len(rs)
               PROVE  AddedUp(new, account, n + 1) = AddedUp(rs, account, n + 1)
    OBVIOUS
  <2>1. n + 1 \in 1..Len(rs) /\ n + 1 \in 1..Len(new) /\ (n + 1) - 1 = n /\ n <= Len(rs)
    BY <1>1
  <2>2. AddedUp(rs, account, n + 1) = AddedUp(rs, account, n) + Added(rs[n + 1], account)
    BY <1>1, <2>1, SumUnfolds
  <2>3. AddedUp(new, account, n + 1) = AddedUp(new, account, n) + Added(new[n + 1], account)
    BY <1>2, <2>1, SumUnfolds
  <2> QED BY <1>1, <1>4, <2>1, <2>2, <2>3
<1> HIDE DEF S
<1>5. Nat \subseteq S
  BY <1>3, <1>4, Induction
<1>6. \A i \in 0..Len(rs) : AddedUp(new, account, i) = AddedUp(rs, account, i)
  BY <1>1, <1>5 DEF S
<1>7. Len(rs) + 1 \in 1..Len(new) /\ (Len(rs) + 1) - 1 = Len(rs) /\ Len(rs) \in 0..Len(rs)
  BY <1>1
<1>8. AddedUp(new, account, Len(rs) + 1) = AddedUp(new, account, Len(rs)) + Added(r, account)
  BY <1>1, <1>2, <1>7, SumUnfolds
<1> QED BY <1>6, <1>7, <1>8 DEF new

-----------------------------------------------------------------------------
(* One node: the accounts and the responses after each of the decisions *)

BalanceOf(st, account) == IF account \in DOMAIN st.accounts THEN st.accounts[account] ELSE 0

\* ProcessValue, on the accounts and the responses of one node.
After(st, val) ==
  LET res == Process(BalanceOf(st, val.AccountNum), val.Txn)
  IN  [accounts |-> [account \in DOMAIN st.accounts \cup {val.AccountNum} |->
                       IF account = val.AccountNum THEN res.Balance ELSE st.accounts[account]],
       responses |-> Append(st.responses, [val |-> val, res |-> res])]

AfterDecision(st, val) == IF val = Noop THEN st ELSE After(st, val)

\* What is to be kept: balances are the sums of the responses, and a negative
\* one has an overflow behind it.
OverflowedIn(rs, account) == \E i \in DOMAIN rs : AddedUp(rs, account, i) \notin Int64

GoodBooks(st) ==
  /\ st.responses \in Seq(Responded)
  /\ \A account : /\ BalanceOf(st, account) \in Int64
                  /\ BalanceOf(st, account) =
                       Wrap(AddedUp(st.responses, account, Len(st.responses)))
                  /\ BalanceOf(st, account) < 0 => OverflowedIn(st.responses, account)
  /\ \A i \in DOMAIN st.responses :
       st.responses[i].res.Balance =
         Wrap(AddedUp(st.responses, st.responses[i].val.AccountNum, i))

LEMMA BooksOpened ==
  GoodBooks([accounts |-> <<>>, responses |-> <<>>])
<1> DEFINE st == [accounts |-> <<>>, responses |-> <<>>]
<1>1. <<>> \in Seq(Responded) /\ Len(<<>>) = 0
  BY EmptySeq
<1>2. DOMAIN <<>> = {}
  BY <1>1, LenProperties
<1>3. 0 \in Int64 /\ Wrap(0) = 0
  BY BankAssumption, WrapFits DEF Int64
<1>4. \A account : AddedUp(<<>>, account, 0) = 0
  BY <1>1, SumUnfolds
<1>5. st.responses = <<>> /\ \A account : BalanceOf(st, account) = 0
  BY <1>2 DEF BalanceOf
<1> HIDE DEF st
<1>6. GoodBooks(st)
  BY <1>1, <1>2, <1>3, <1>4, <1>5 DEF GoodBooks
<1> QED BY <1>6 DEF st

\* The account a value is for: its new balance.
LEMMA NewBalance ==
  ASSUME NEW st, GoodBooks(st), NEW val \in ClientValues,
         NEW b, b = BalanceOf(st, val.AccountNum),
         NEW rs, rs = Append(st.responses, Response(b, val)),
         NEW new, new = Process(b, val.Txn).Balance
  PROVE  /\ new \in Int64
         /\ new = Wrap(AddedUp(rs, val.AccountNum, Len(st.responses) + 1))
         /\ new < 0 => OverflowedIn(rs, val.AccountNum)
<1> DEFINE num == val.AccountNum
           old == st.responses
           r == Response(b, val)
           e == Effect(val.Txn)
           n == Len(old)
           s == AddedUp(old, num, n)
           t == AddedUp(rs, num, n + 1)
<1>1. /\ old \in Seq(Responded) /\ b \in Int64
      /\ b = Wrap(s)
      /\ b < 0 => OverflowedIn(old, num)
  BY DEF GoodBooks
<1>2. n \in Nat /\ DOMAIN old = 1..n
  BY <1>1, LenProperties
<1>3. b \in Int
  BY <1>1, BankAssumption DEF Int64
<1>4. r \in Responded /\ e \in Int /\ num \in Nat
  BY <1>1, ResponseType
<1>5. s \in Int
  BY <1>1, <1>2, SumType
<1>6. /\ \A i \in 0..n : AddedUp(rs, num, i) = AddedUp(old, num, i)
      /\ t = s + Added(r, num)
  BY <1>1, <1>4, SumAppend
<1>7. Added(r, num) = IF Granted(b, val.Txn) THEN e ELSE 0
  BY DEF Added, Response, Process
<1>8. new = IF Granted(b, val.Txn) THEN Wrap(b + e) ELSE b
  BY DEF Process
<1>9. DOMAIN rs = 1..(n + 1)
  <2>1. Len(rs) = n + 1 /\ rs \in Seq(Responded)
    BY <1>1, <1>4, AppendProperties
  <2> QED BY <2>1, LenProperties
<1> HIDE DEF num, old, r, e, n, s, t
<1>10. new \in Int64
  BY <1>1, <1>3, <1>4, <1>8, WrapType
<1>11. new = Wrap(t)
  <2>1. CASE Granted(b, val.Txn)
    <3>1. Wrap(b + e) = Wrap(s + e)
      BY <1>1, <1>4, <1>5, WrapAgain
    <3> QED BY <1>6, <1>7, <1>8, <2>1, <3>1
  <2>2. CASE ~ Granted(b, val.Txn)
    <3>1. t = s + 0 /\ s + 0 = s
      BY <1>5, <1>6, <1>7, <2>2
    <3> QED BY <1>1, <1>8, <2>2, <3>1
  <2> QED BY <2>1, <2>2
<1>12. ASSUME new < 0, ~ OverflowedIn(rs, num) PROVE FALSE
  <2>1. \A i \in 1..(n + 1) : AddedUp(rs, num, i) \in Int64
    BY <1>9, <1>12 DEF OverflowedIn
  <2>2. t \in Int64
    BY <1>2, <2>1 DEF t
  <2>3. ~ OverflowedIn(old, num)
    <3>1. \A i \in 1..n : i \in 0..n /\ i \in 1..(n + 1)
      BY <1>2
    <3> QED BY <1>2, <1>6, <2>1, <3>1 DEF OverflowedIn
  <2>4. b >= 0
    BY <1>1, <1>3, <2>3
  <2>5. Granted(b, val.Txn)
    BY <1>3, <1>8, <1>12, <2>4
  <2>6. b = s
    <3>1. s \in Int64
      <4>1. CASE n = 0
        <5>1. s = 0
          BY <1>1, <1>2, <4>1, SumUnfolds DEF s, n
        <5> QED BY <5>1, BankAssumption DEF Int64
      <4>2. CASE n # 0
        <5>1. n \in 1..(n + 1) /\ n \in 0..n
          BY <1>2, <4>2
        <5> QED BY <1>6, <2>1, <5>1 DEF s
      <4> QED BY <4>1, <4>2
    <3> QED BY <1>1, <3>1, WrapFits
  <2>7. t = b + e /\ new = b + e
    <3>1. t = b + e
      BY <1>6, <1>7, <2>5, <2>6
    <3>2. Wrap(t) = t
      BY <2>2, WrapFits
    <3> QED BY <1>11, <3>1, <3>2
  <2>8. val.Txn.Op \in {"Balance", "Deposit", "Withdrawal"} /\ val.Txn.Amount \in Int
    BY CommandAssumption, BankAssumption DEF Command, Transaction, Int64
  <2>9. CASE val.Txn.Op = "Balance"
    BY <1>3, <1>12, <2>4, <2>7, <2>9 DEF e, Effect
  <2>10. CASE val.Txn.Op = "Deposit" /\ val.Txn.Amount >= 0
    BY <1>3, <1>12, <2>4, <2>7, <2>8, <2>10 DEF e, Effect
  <2>11. CASE val.Txn.Op = "Withdrawal" /\ Wrap(b - val.Txn.Amount) >= 0
    <3>1. e = -val.Txn.Amount
      BY <2>11 DEF e, Effect
    <3>2. b - val.Txn.Amount = b + e
      BY <1>3, <2>8, <3>1
    <3>3. Wrap(b + e) >= 0
      BY <2>11, <3>2
    <3> QED BY <1>8, <1>10, <1>12, <2>5, <3>3, BankAssumption DEF Int64
  <2> QED BY <2>5, <2>9, <2>10, <2>11 DEF Granted
<1> QED BY <1>10, <1>11, <1>12 DEF num, t, n, old

\* A value processed keeps the books.
LEMMA BooksKept ==
  ASSUME NEW st, GoodBooks(st), NEW val \in Value
  PROVE  GoodBooks(AfterDecision(st, val))
<1>1. CASE val = Noop
  BY <1>1 DEF AfterDecision
<1>2. CASE val # Noop
  <2> DEFINE num == val.AccountNum
             old == st.responses
             b == BalanceOf(st, num)
             r == Response(b, val)
             rs == Append(old, r)
             n == Len(old)
             after == After(st, val)
  <2>1. val \in ClientValues
    BY <1>2 DEF Value
  <2>2. old \in Seq(Responded) /\ b \in Int64
    BY DEF GoodBooks
  <2>3. r \in Responded
    BY <2>1, <2>2, ResponseType
  <2>4. /\ rs \in Seq(Responded) /\ Len(rs) = n + 1 /\ n \in Nat
        /\ DOMAIN old = 1..n /\ DOMAIN rs = 1..(n + 1)
        /\ \A i \in 1..n : rs[i] = old[i]
        /\ rs[n + 1] = r
    <3>1. /\ rs \in Seq(Responded) /\ Len(rs) = n + 1
          /\ \A i \in 1..n : rs[i] = old[i]
          /\ rs[n + 1] = r
      BY <2>2, <2>3, AppendProperties
    <3> QED BY <2>2, <3>1, LenProperties
  <2>5. after.responses = rs
    BY DEF After, Response
  <2>6. \A account : BalanceOf(after, account) =
          IF account = num THEN Process(b, val.Txn).Balance ELSE BalanceOf(st, account)
    BY DEF After, BalanceOf
  <2>7. /\ Process(b, val.Txn).Balance \in Int64
        /\ Process(b, val.Txn).Balance = Wrap(AddedUp(rs, num, n + 1))
        /\ Process(b, val.Txn).Balance < 0 => OverflowedIn(rs, num)
    BY <2>1, NewBalance
  <2>8. r.val = val /\ r.res.Balance = Process(b, val.Txn).Balance
    BY DEF Response
  <2>9. \A account : \A i \in 0..n : AddedUp(rs, account, i) = AddedUp(old, account, i)
    BY <2>2, <2>3, SumAppend
  <2>10. \A account : account # num =>
           AddedUp(rs, account, n + 1) = AddedUp(old, account, n)
    <3> SUFFICES ASSUME NEW account, account # num
                 PROVE  AddedUp(rs, account, n + 1) = AddedUp(old, account, n)
      OBVIOUS
    <3>1. AddedUp(rs, account, n + 1) = AddedUp(old, account, n) + Added(r, account)
      BY <2>2, <2>3, SumAppend
    <3>2. Added(r, account) = 0
      BY <2>8 DEF Added
    <3>3. AddedUp(old, account, n) \in Int
      BY <2>2, <2>4, SumType
    <3> QED BY <3>1, <3>2, <3>3
  <2> HIDE DEF num, old, b, r, rs, n, after
  <2>11. ASSUME NEW account
         PROVE  /\ BalanceOf(after, account) \in Int64
                /\ BalanceOf(after, account) = Wrap(AddedUp(rs, account, Len(rs)))
                /\ BalanceOf(after, account) < 0 => OverflowedIn(rs, account)
    <3>1. CASE account = num
      BY <2>4, <2>6, <2>7, <3>1
    <3>2. CASE account # num
      <4>1. /\ BalanceOf(after, account) = BalanceOf(st, account)
            /\ BalanceOf(st, account) \in Int64
            /\ BalanceOf(st, account) = Wrap(AddedUp(old, account, n))
            /\ BalanceOf(st, account) < 0 => OverflowedIn(old, account)
        BY <2>6, <3>2 DEF GoodBooks, old, n
      <4>2. OverflowedIn(old, account) => OverflowedIn(rs, account)
        <5>1. \A i \in 1..n : i \in 0..n /\ i \in 1..(n + 1)
          BY <2>4
        <5> QED BY <2>4, <2>9, <5>1 DEF OverflowedIn
      <4> QED BY <2>4, <2>10, <3>2, <4>1, <4>2
    <3> QED BY <3>1, <3>2
  <2>12. ASSUME NEW i \in DOMAIN rs
         PROVE  rs[i].res.Balance = Wrap(AddedUp(rs, rs[i].val.AccountNum, i))
    <3>1. CASE i = n + 1
      BY <2>4, <2>7, <2>8, <3>1 DEF num
    <3>2. CASE i \in 1..n
      <4>1. rs[i] = old[i] /\ i \in 0..n /\ i \in DOMAIN old
        BY <2>4, <3>2
      <4>2. old[i].res.Balance = Wrap(AddedUp(old, old[i].val.AccountNum, i))
        BY <4>1 DEF GoodBooks, old
      <4> QED BY <2>9, <4>1, <4>2
    <3> QED BY <2>4, <3>1, <3>2
  <2>13. GoodBooks(after)
    BY <2>4, <2>5, <2>11, <2>12 DEF GoodBooks
  <2> QED BY <1>2, <2>13 DEF AfterDecision, after
<1> QED BY <1>1, <1>2

-----------------------------------------------------------------------------
(* The decisions, replayed *)

\* The accounts and the responses after the first n slots of d.
Replay(d) ==
  LET replay[n \in 0..(MaxSlot + 1)] ==
        IF n = 0 THEN [accounts |-> <<>>, responses |-> <<>>]
                 ELSE AfterDecision(replay[n - 1], d[n - 1])
  IN  replay

LEMMA ReplayUnfolds ==
  ASSUME NEW d
  PROVE  /\ Replay(d)[0] = [accounts |-> <<>>, responses |-> <<>>]
         /\ \A n \in 1..(MaxSlot + 1) :
              Replay(d)[n] = AfterDecision(Replay(d)[n - 1], d[n - 1])
<1> DEFINE b == [accounts |-> <<>>, responses |-> <<>>]
           Replays(f, n) ==
             f = [i \in 0..n |-> IF i = 0 THEN b ELSE AfterDecision(f[i - 1], d[i - 1])]
           S == {n \in Nat : \E f : Replays(f, n)}
<1>1. 0 \in S
  <2> DEFINE f == [i \in 0..0 |-> b]
  <2>1. f = [i \in 0..0 |-> IF i = 0 THEN b ELSE AfterDecision(f[i - 1], d[i - 1])]
    OBVIOUS
  <2> QED BY <2>1
<1>2. ASSUME NEW n \in Nat, n \in S PROVE n + 1 \in S
  <2>1. PICK f : Replays(f, n)
    BY <1>2
  <2> DEFINE g == [i \in 0..(n + 1) |-> IF i <= n THEN f[i] ELSE AfterDecision(f[n], d[n])]
  <2>2. ASSUME NEW i \in 0..(n + 1)
        PROVE  g[i] = IF i = 0 THEN b ELSE AfterDecision(g[i - 1], d[i - 1])
    <3>1. CASE i = 0
      BY <2>1, <3>1
    <3>2. CASE i \in 1..n
      <4>1. i - 1 \in 0..n /\ i \in 0..n /\ i # 0
        BY <3>2
      <4>2. f[i] = AfterDecision(f[i - 1], d[i - 1])
        BY <2>1, <4>1
      <4>3. g[i] = f[i] /\ g[i - 1] = f[i - 1]
        BY <3>2, <4>1
      <4> QED BY <4>1, <4>2, <4>3
    <3>3. CASE i = n + 1
      <4>1. g[i] = AfterDecision(f[n], d[n]) /\ g[n] = f[n] /\ i - 1 = n /\ i # 0
        BY <3>3
      <4> QED BY <3>3, <4>1
    <3> QED BY <3>1, <3>2, <3>3
  <2>3. Replays(g, n + 1)
    BY <2>2
  <2> HIDE DEF g, Replays
  <2>4. \E h : Replays(h, n + 1)
    BY <2>3
  <2> QED BY <2>4
<1> HIDE DEF S
<1>3. Nat \subseteq S
  BY <1>1, <1>2, Induction
<1>4. MaxSlot + 1 \in Nat
  BY DeliveryAssumption
<1>5. \E f : Replays(f, MaxSlot + 1)
  BY <1>3, <1>4 DEF S
<1>6. Replays(Replay(d), MaxSlot + 1)
  BY <1>5 DEF Replay
<1> QED BY <1>4, <1>6

\* The books are kept through the whole log.
LEMMA ReplayKeepsBooks ==
  ASSUME NEW d \in [0..MaxSlot -> Value], NEW n \in 0..(MaxSlot + 1)
  PROVE  GoodBooks(Replay(d)[n])
<1> DEFINE S == {i \in Nat : i <= MaxSlot + 1 => GoodBooks(Replay(d)[i])}
<1>1. MaxSlot \in Nat
  BY DeliveryAssumption
<1>2. 0 \in S
  BY ReplayUnfolds, BooksOpened
<1>3. ASSUME NEW i \in Nat, i \in S PROVE i + 1 \in S
  <2> SUFFICES ASSUME i + 1 <= MaxSlot + 1 PROVE GoodBooks(Replay(d)[i + 1])
    OBVIOUS
  <2>1. i + 1 \in 1..(MaxSlot + 1) /\ (i + 1) - 1 = i /\ i <= MaxSlot + 1 /\ i \in 0..MaxSlot
    BY <1>1
  <2>2. Replay(d)[i + 1] = AfterDecision(Replay(d)[i], d[i])
    BY <2>1, ReplayUnfolds
  <2>3. GoodBooks(Replay(d)[i]) /\ d[i] \in Value
    BY <1>3, <2>1
  <2> QED BY <2>2, <2>3, BooksKept
<1> HIDE DEF S
<1>4. Nat \subseteq S
  BY <1>2, <1>3, Induction
<1> QED BY <1>1, <1>4 DEF S

\* The accounts are those of the values so far that are no no-ops.
AskedIn(d, n) == {d[i - 1].AccountNum : i \in {i \in 1..n : d[i - 1] # Noop}}

LEMMA ReplayAccounts ==
  ASSUME NEW d, NEW n \in 0..(MaxSlot + 1)
  PROVE  DOMAIN Replay(d)[n].accounts = AskedIn(d, n)
<1> DEFINE S == {i \in Nat : i <= MaxSlot + 1 => DOMAIN Replay(d)[i].accounts = AskedIn(d, i)}
<1>1. MaxSlot \in Nat
  BY DeliveryAssumption
<1>2. 0 \in S
  <2>1. AskedIn(d, 0) = {}
    BY DEF AskedIn
  <2>2. DOMAIN <<>> = {}
    OBVIOUS
  <2>3. Replay(d)[0].accounts = <<>>
    BY ReplayUnfolds
  <2>4. DOMAIN Replay(d)[0].accounts = AskedIn(d, 0)
    BY <2>1, <2>2, <2>3, Zenon
  <2> QED BY <2>4
<1>3. ASSUME NEW i \in Nat, i \in S PROVE i + 1 \in S
  <2> SUFFICES ASSUME i + 1 <= MaxSlot + 1
               PROVE  DOMAIN Replay(d)[i + 1].accounts = AskedIn(d, i + 1)
    OBVIOUS
  <2>1. i + 1 \in 1..(MaxSlot + 1) /\ (i + 1) - 1 = i /\ i <= MaxSlot + 1
    BY <1>1
  <2>2. Replay(d)[i + 1] = AfterDecision(Replay(d)[i], d[i])
    BY <2>1, ReplayUnfolds
  <2>3. DOMAIN Replay(d)[i].accounts = AskedIn(d, i)
    BY <1>3, <2>1
  <2>4. 1..(i + 1) = 1..i \cup {i + 1}
    OBVIOUS
  <2>5. AskedIn(d, i + 1) = AskedIn(d, i) \cup (IF d[i] = Noop THEN {} ELSE {d[i].AccountNum})
    BY <2>1, <2>4 DEF AskedIn
  <2>6. CASE d[i] = Noop
    BY <2>2, <2>3, <2>5, <2>6 DEF AfterDecision
  <2>7. CASE d[i] # Noop
    <3>1. Replay(d)[i + 1] = After(Replay(d)[i], d[i])
      BY <2>2, <2>7 DEF AfterDecision
    <3>2. DOMAIN Replay(d)[i + 1].accounts =
            DOMAIN Replay(d)[i].accounts \cup {d[i].AccountNum}
      BY <3>1 DEF After
    <3> QED BY <2>3, <2>5, <2>7, <3>2
  <2> QED BY <2>6, <2>7
<1> HIDE DEF S
<1>4. Nat \subseteq S
  BY <1>2, <1>3, Induction
<1> QED BY <1>1, <1>4 DEF S

\* What was answered after n slots begins what is answered after k of them.
LEMMA ReplayGrows ==
  ASSUME NEW d \in [0..MaxSlot -> Value],
         NEW n \in 0..(MaxSlot + 1), NEW k \in 0..(MaxSlot + 1), n <= k
  PROVE  IsPrefix(Replay(d)[n].responses, Replay(d)[k].responses)
<1> DEFINE rs(i) == Replay(d)[i].responses
           Begins(s, t) == Len(s) <= Len(t) /\ \A j \in 1..Len(s) : s[j] = t[j]
           S == {i \in Nat : n <= i /\ i <= MaxSlot + 1 => Begins(rs(n), rs(i))}
<1>1. MaxSlot \in Nat
  BY DeliveryAssumption
<1>2. \A i \in 0..(MaxSlot + 1) : rs(i) \in Seq(Responded) /\ Len(rs(i)) \in Nat
  BY ReplayKeepsBooks, LenProperties DEF GoodBooks
<1>3. 0 \in S
  <2>1. n = 0 => Begins(rs(n), rs(0))
    BY <1>2
  <2> QED BY <2>1
<1>4. ASSUME NEW i \in Nat, i \in S PROVE i + 1 \in S
  <2> SUFFICES ASSUME n <= i + 1, i + 1 <= MaxSlot + 1 PROVE Begins(rs(n), rs(i + 1))
    OBVIOUS
  <2>1. CASE n = i + 1
    BY <1>2, <2>1
  <2>2. CASE n # i + 1
    <3>1. /\ n <= i /\ i <= MaxSlot + 1 /\ i \in 0..MaxSlot /\ i \in 0..(MaxSlot + 1)
          /\ i + 1 \in 1..(MaxSlot + 1) /\ (i + 1) - 1 = i
      BY <1>1, <2>2
    <3>2. Replay(d)[i + 1] = AfterDecision(Replay(d)[i], d[i])
      BY <3>1, ReplayUnfolds
    <3>3. Begins(rs(n), rs(i)) /\ rs(i) \in Seq(Responded)
      BY <1>2, <1>4, <3>1
    <3>4. CASE d[i] = Noop
      BY <3>2, <3>3, <3>4 DEF AfterDecision
    <3>5. CASE d[i] # Noop
      <4> DEFINE b == BalanceOf(Replay(d)[i], d[i].AccountNum)
      <4>1. rs(i + 1) = Append(rs(i), Response(b, d[i]))
        BY <3>2, <3>5 DEF AfterDecision, After, Response
      <4>2. d[i] \in ClientValues /\ b \in Int64
        BY <3>1, <3>5, ReplayKeepsBooks DEF Value, GoodBooks
      <4>3. Response(b, d[i]) \in Responded
        BY <4>2, ResponseType
      <4>4. /\ Len(rs(i + 1)) = Len(rs(i)) + 1
            /\ \A j \in 1..Len(rs(i)) : rs(i + 1)[j] = rs(i)[j]
        BY <3>3, <4>1, <4>3, AppendProperties
      <4> HIDE DEF rs
      <4> QED BY <1>2, <3>1, <3>3, <4>4
    <3> QED BY <3>4, <3>5
  <2> QED BY <2>1, <2>2
<1>5. Nat \subseteq S
  <2> HIDE DEF S
  <2> QED BY <1>3, <1>4, Induction
<1>6. Begins(rs(n), rs(k))
  BY <1>1, <1>5
<1> DEFINE s == rs(n)
           t == rs(k)
<1>7. s \in Seq(Responded) /\ t \in Seq(Responded) /\ Len(s) \in Nat /\ Len(t) \in Nat
  BY <1>2
<1> HIDE DEF rs, s, t
<1>8. Len(s) <= Len(t) /\ \A j \in 1..Len(s) : s[j] = t[j]
  BY <1>6 DEF s, t
<1>9. SubSeq(s, 1, Len(s)) = s
  BY <1>7, SubSeqFull
<1>10. /\ SubSeq(t, 1, Len(s)) \in Seq(Responded)
       /\ Len(SubSeq(t, 1, Len(s))) = IF 1 <= Len(s) THEN Len(s) - 1 + 1 ELSE 0
       /\ \A j \in 1..(Len(s) - 1 + 1) : SubSeq(t, 1, Len(s))[j] = t[1 + j - 1]
  <2>1. 1 \in Int /\ Len(s) \in Int /\ \A j \in 1..Len(s) : t[j] \in Responded
    BY <1>7, <1>8, ElementOfSeq
  <2> QED BY <2>1, SubSeqProperties
<1> DEFINE u == SubSeq(t, 1, Len(s))
<1> HIDE DEF u
<1>11. u \in Seq(Responded) /\ Len(u) = Len(s) /\ \A j \in 1..Len(s) : u[j] = s[j]
  <2>1. Len(u) = Len(s)
    BY <1>7, <1>10 DEF u
  <2>2. \A j \in 1..Len(s) : u[j] = t[j]
    BY <1>7, <1>10 DEF u
  <2> QED BY <1>8, <1>10, <2>1, <2>2 DEF u
<1>12. u = s
  BY <1>7, <1>11, SeqEqual
<1> QED BY <1>8, <1>9, <1>12 DEF IsPrefix, u, s, t, rs

-----------------------------------------------------------------------------
(* The nodes *)

\* Every node has the accounts and the responses the decisions so far make.
AccountsInv ==
  /\ DeliveryInv
  /\ bankAccounts = [l \in Learners |-> Replay(decision)[bankAdu[l] + 1].accounts]
  /\ responses = [l \in Learners |-> Replay(decision)[bankAdu[l] + 1].responses]

LEMMA InitAccounts ==
  ASSUME BankAccountsInit
  PROVE  AccountsInv
<1>1. DeliveryInv
  BY InitDelivery DEF BankAccountsInit
<1>2. \A l \in Learners : bankAdu[l] + 1 = 0
  BY DEF BankAccountsInit, Init, BankInit
<1>3. Replay(decision)[0] = [accounts |-> <<>>, responses |-> <<>>]
  BY ReplayUnfolds
<1> QED BY <1>1, <1>2, <1>3 DEF BankAccountsInit, AccountsInv

LEMMA DoesDelivery ==
  ASSUME [BankAccountsNext]_accountVars
  PROVE  [Next]_deliveryVars
BY DEF BankAccountsNext, Next, accountVars

\* Executing the next decision is a step of the replay.
LEMMA PostReplays ==
  ASSUME AccountsInv, NEW l \in Learners, NEW s \in 0..MaxSlot, s = bankAdu[l] + 1,
         Apply(l, Decided(s)), UNCHANGED decision, Post(l)
  PROVE  /\ bankAccounts' = [m \in Learners |-> Replay(decision)[bankAdu'[m] + 1].accounts]
         /\ responses' = [m \in Learners |-> Replay(decision)[bankAdu'[m] + 1].responses]
<1> DEFINE val == decision[s]
           st == Replay(decision)[s]
<1>1. DeliveryInv
  BY DEF AccountsInv
<1>2. Apply(l, [slot |-> s, val |-> val])
  BY DEF Decided
<1>3. /\ DecisionsInOrder' /\ bankAdu' \in [Learners -> Int]
      /\ Len(bankLog[l]) = s /\ bankLog'[l][s + 1] = val
  BY <1>1, <1>2, ApplyInOrder
<1>4. bankAdu' = [bankAdu EXCEPT ![l] = s]
  BY <1>2 DEF Apply
<1>5. /\ bankAdu'[l] = s /\ \A m \in Learners : m # l => bankAdu'[m] = bankAdu[m]
  BY <1>1, <1>4 DEF DeliveryInv
<1>6. Len(bankLog'[l]) = s + 1
  BY <1>3, <1>5 DEF DecisionsInOrder
<1>7. Last(bankLog'[l]) = val /\ bankLog' # bankLog
  BY <1>3, <1>6 DEF Last
<1>8. Replay(decision)[s + 1] = AfterDecision(st, val)
  <2>1. s + 1 \in 1..(MaxSlot + 1) /\ (s + 1) - 1 = s
    BY DeliveryAssumption
  <2> QED BY <2>1, ReplayUnfolds
<1>9. bankAccounts[l] = st.accounts /\ responses[l] = st.responses
  BY DEF AccountsInv
<1> HIDE DEF val, st
<1>10. CASE val = Noop
  <2>1. UNCHANGED <<bankAccounts, responses>>
    BY <1>7, <1>10 DEF Post
  <2>2. Replay(decision)[s + 1] = Replay(decision)[s]
    BY <1>8, <1>10 DEF AfterDecision, st
  <2>3. \A m \in Learners : Replay(decision)[bankAdu'[m] + 1] = Replay(decision)[bankAdu[m] + 1]
    BY <1>5, <2>2
  <2> QED BY <2>1, <2>3 DEF AccountsInv
<1>11. CASE val # Noop
  <2>1. ProcessValue(l, val)
    BY <1>7, <1>11 DEF Post
  <2>2. Replay(decision)[s + 1] = After(st, val)
    BY <1>8, <1>11 DEF AfterDecision
  <2>3. /\ bankAccounts' = [bankAccounts EXCEPT ![l] = After(st, val).accounts]
        /\ responses' = [responses EXCEPT ![l] = After(st, val).responses]
    BY <1>9, <2>1 DEF ProcessValue, After, BalanceOf, AccountsInv
  <2>4. \A m \in Learners :
          /\ bankAccounts'[m] = Replay(decision)[bankAdu'[m] + 1].accounts
          /\ responses'[m] = Replay(decision)[bankAdu'[m] + 1].responses
    BY <1>5, <2>2, <2>3 DEF AccountsInv
  <2> QED BY <2>3, <2>4 DEF AccountsInv
<1> QED BY <1>10, <1>11

LEMMA StepAccounts ==
  ASSUME AccountsInv, [BankAccountsNext]_accountVars
  PROVE  AccountsInv'
<1>1. DeliveryInv /\ DeliveryInv' /\ UNCHANGED decision
  BY DoesDelivery, NextDelivery, NextSteps DEF AccountsInv
<1>2. CASE UNCHANGED <<bankAdu, bankAccounts, responses>>
  BY <1>1, <1>2 DEF AccountsInv
<1>3. ASSUME NEW l \in Learners, Deliver(l) \/ Drain(l), Post(l) PROVE AccountsInv'
  <2>1. PICK s \in 0..MaxSlot : StepOf(l, s)
    BY <1>1, <1>3, NodeSteps
  <2>2. CASE UNCHANGED <<bankAdu, bankLog>>
    BY <1>2, <1>3, <2>2 DEF Post
  <2>3. CASE s = bankAdu[l] + 1 /\ Apply(l, Decided(s))
    BY <1>1, <1>3, <2>3, PostReplays DEF AccountsInv
  <2> QED BY <2>1, <2>2, <2>3 DEF StepOf
<1>4. ASSUME NEW l \in Learners, TakeIncrement(l), UNCHANGED <<bankAccounts, responses>>
      PROVE  AccountsInv'
  BY <1>2, <1>4 DEF TakeIncrement, ProposerTold
<1>5. CASE UNCHANGED accountVars
  BY <1>2, <1>5 DEF accountVars, deliveryVars, bankVars
<1> QED BY <1>3, <1>4, <1>5 DEF BankAccountsNext

\* At every moment a node's books are those of the decisions it has executed.
THEOREM AccountsInvariant == BankAccountsSpec => []AccountsInv
<1>1. BankAccountsInit => AccountsInv
  BY InitAccounts
<1>2. AccountsInv /\ [BankAccountsNext]_accountVars => AccountsInv'
  BY StepAccounts
<1> QED BY <1>1, <1>2, PTL DEF BankAccountsSpec

\* How far a node has come.
LEMMA ExecutedSlots ==
  ASSUME DeliveryInv, NEW l \in Learners
  PROVE  /\ bankAdu[l] + 1 \in 0..(MaxSlot + 1)
         /\ DOMAIN bankLog[l] = 1..(bankAdu[l] + 1)
         /\ \A i \in 1..(bankAdu[l] + 1) : bankLog[l][i] = decision[i - 1]
<1> DEFINE n == bankAdu[l] + 1
<1>1. /\ bankLog[l] \in Seq(Value) /\ Len(bankLog[l]) = n
      /\ \A i \in DOMAIN bankLog[l] : i - 1 <= MaxSlot /\ bankLog[l][i] = decision[i - 1]
  BY DEF DeliveryInv, DecisionsInOrder
<1>2. n \in Nat /\ DOMAIN bankLog[l] = 1..n
  BY <1>1, LenProperties
<1> HIDE DEF n
<1>3. n <= MaxSlot + 1
  <2>1. CASE n = 0
    BY <2>1, DeliveryAssumption
  <2>2. CASE n # 0
    <3>1. n \in 1..n
      BY <1>2, <2>2
    <3>2. n - 1 <= MaxSlot
      BY <1>1, <1>2, <3>1
    <3> QED BY <1>2, <3>2, DeliveryAssumption
  <2> QED BY <2>1, <2>2
<1> QED BY <1>1, <1>2, <1>3, DeliveryAssumption DEF n

LEMMA NodeBooks ==
  ASSUME AccountsInv, NEW l \in Learners
  PROVE  /\ bankAccounts[l] = Replay(decision)[bankAdu[l] + 1].accounts
         /\ responses[l] = Replay(decision)[bankAdu[l] + 1].responses
         /\ GoodBooks([accounts |-> bankAccounts[l], responses |-> responses[l]])
<1> DEFINE st == Replay(decision)[bankAdu[l] + 1]
<1>1. bankAccounts[l] = st.accounts /\ responses[l] = st.responses
  BY DEF AccountsInv
<1>2. GoodBooks(st)
  <2>1. decision \in [0..MaxSlot -> Value] /\ bankAdu[l] + 1 \in 0..(MaxSlot + 1)
    BY ExecutedSlots DEF AccountsInv, DeliveryInv
  <2> QED BY <2>1, ReplayKeepsBooks
<1> HIDE DEF st
<1>3. GoodBooks([accounts |-> bankAccounts[l], responses |-> responses[l]])
  BY <1>1, <1>2 DEF GoodBooks, BalanceOf
<1> QED BY <1>1, <1>3 DEF st

\* A bank handler has an account exactly for the numbers it was asked about, and
\* every balance is an int.
THEOREM AccountsTypeCorrect == BankAccountsSpec => []AccountsTypeOK
<1>1. ASSUME AccountsInv PROVE AccountsTypeOK
  <2> SUFFICES ASSUME NEW l \in Learners
               PROVE  /\ DOMAIN bankAccounts[l] =
                           {bankLog[l][i].AccountNum :
                              i \in {i \in DOMAIN bankLog[l] : bankLog[l][i] # Noop}}
                      /\ \A account \in DOMAIN bankAccounts[l] :
                           bankAccounts[l][account] \in Int64
    BY DEF AccountsTypeOK
  <2> DEFINE n == bankAdu[l] + 1
  <2>1. /\ n \in 0..(MaxSlot + 1)
        /\ DOMAIN bankLog[l] = 1..n /\ \A i \in 1..n : bankLog[l][i] = decision[i - 1]
    BY <1>1, ExecutedSlots DEF AccountsInv
  <2>2. DOMAIN bankAccounts[l] = AskedIn(decision, n)
    BY <1>1, <2>1, NodeBooks, ReplayAccounts
  <2> HIDE DEF n
  <2>3. AskedIn(decision, n) =
          {bankLog[l][i].AccountNum : i \in {i \in DOMAIN bankLog[l] : bankLog[l][i] # Noop}}
    BY <2>1 DEF AskedIn
  <2>4. \A account \in DOMAIN bankAccounts[l] : bankAccounts[l][account] \in Int64
    BY <1>1, NodeBooks DEF GoodBooks, BalanceOf
  <2> QED BY <2>2, <2>3, <2>4
<1> QED BY <1>1, AccountsInvariant, PTL

\* HandleDecidedValue on different nodes, whatever the order in which each hears
\* of the slots: clients are told the same, and nodes as far as each other hold
\* the same accounts.
THEOREM SameOnEveryNode == BankAccountsSpec => []SameAccounts
<1>1. ASSUME AccountsInv PROVE SameAccounts
  <2> SUFFICES ASSUME NEW l \in Learners, NEW m \in Learners
               PROVE  /\ \/ IsPrefix(responses[l], responses[m])
                         \/ IsPrefix(responses[m], responses[l])
                      /\ bankAdu[l] = bankAdu[m] =>
                           responses[l] = responses[m] /\ bankAccounts[l] = bankAccounts[m]
    BY DEF SameAccounts
  <2>1. /\ bankAdu[l] + 1 \in 0..(MaxSlot + 1) /\ bankAdu[m] + 1 \in 0..(MaxSlot + 1)
        /\ decision \in [0..MaxSlot -> Value]
    BY <1>1, ExecutedSlots DEF AccountsInv, DeliveryInv
  <2>2. bankAdu[l] + 1 <= bankAdu[m] + 1 \/ bankAdu[m] + 1 <= bankAdu[l] + 1
    BY <2>1
  <2>3. \/ IsPrefix(responses[l], responses[m])
        \/ IsPrefix(responses[m], responses[l])
    BY <1>1, <2>1, <2>2, NodeBooks, ReplayGrows
  <2>4. bankAdu[l] = bankAdu[m] =>
          responses[l] = responses[m] /\ bankAccounts[l] = bankAccounts[m]
    BY <1>1, NodeBooks
  <2> QED BY <2>3, <2>4
<1> QED BY <1>1, AccountsInvariant, PTL

\* Account.Process through any sequence of commands: a balance reported is what
\* the responses so far say was paid in less what they say was taken out, in Go's
\* int, and a refused command changes nothing.
THEOREM MoneyAddsUp == BankAccountsSpec => []BalancesAddUp
<1>1. AccountsInv => BalancesAddUp
  BY NodeBooks DEF GoodBooks, BalancesAddUp
<1> QED BY <1>1, AccountsInvariant, PTL

\* Account.Process lets no account become negative but by a sum that no longer
\* fits in an int.
THEOREM OnlyOverflowOverdraws == BankAccountsSpec => []OverdrawnOnlyByOverflow
<1>1. ASSUME AccountsInv PROVE OverdrawnOnlyByOverflow
  <2> SUFFICES ASSUME NEW l \in Learners, NEW account \in DOMAIN bankAccounts[l],
                      bankAccounts[l][account] < 0
               PROVE  \E i \in DOMAIN responses[l] :
                        AddedUp(responses[l], account, i) \notin Int64
    BY DEF OverdrawnOnlyByOverflow
  <2>1. GoodBooks([accounts |-> bankAccounts[l], responses |-> responses[l]])
    BY <1>1, NodeBooks
  <2> QED BY <2>1 DEF GoodBooks, BalanceOf, OverflowedIn
<1> QED BY <1>1, AccountsInvariant, PTL
=============================================================================
