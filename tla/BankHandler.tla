---------------------------- MODULE BankHandler -----------------------------
(***************************************************************************)
(* lab5/bankhandler: applies decided values in slot order and reports each *)
(* to the proposer.  The accounts are a function of the values processed,  *)
(* in order, so the model keeps that log.  HandleDecidedValue blocks in    *)
(* IncrementAllDecidedUpTo (an unbuffered channel) until the proposer's    *)
(* loop receives, and then searches its buffer for the next slot: each of  *)
(* these is a step, and the handler takes no new value in between.         *)
(* The buffer is a set: a slot's value delivered twice while it waits is   *)
(* kept twice by the code, and the second copy never matches adu + 1.      *)
(***************************************************************************)
EXTENDS MultiPaxosDefs

VARIABLES
  bankAdu,      \* bh.adu: highest slot processed
  bankBuffer,   \* bh.bufferDecidedValue
  bankLog,      \* the values processed, in order
  bankWaiting   \* blocked in IncrementAllDecidedUpTo

bankVars == <<bankAdu, bankBuffer, bankLog, bankWaiting>>

BankInit ==
  /\ bankAdu = [l \in Learners |-> -1]
  /\ bankBuffer = [l \in Learners |-> {}]
  /\ bankLog = [l \in Learners |-> <<>>]
  /\ bankWaiting = [l \in Learners |-> FALSE]

\* A no-op advances the slot without touching an account.
Apply(l, dVal) ==
  /\ bankLog' = [bankLog EXCEPT ![l] = Append(@, dVal.val)]
  /\ bankAdu' = [bankAdu EXCEPT ![l] = @ + 1]
  /\ bankWaiting' = [bankWaiting EXCEPT ![l] = TRUE]

\* Mutant of NextBuffered: any buffered value will do.
NextBufferedAny(l) == bankBuffer[l]

NextBuffered(l) == {dVal \in bankBuffer[l] : dVal.slot = bankAdu[l] + 1}

\* Mutant of HandleDecidedValue: a value that comes again is applied again.
HandleDecidedValueAgain(l, dVal) ==
  /\ ~bankWaiting[l]
  /\ NextBuffered(l) = {}
  /\ \/ /\ dVal.slot > bankAdu[l] + 1
        /\ bankBuffer' = [bankBuffer EXCEPT ![l] = @ \cup {dVal}]
        /\ UNCHANGED <<bankAdu, bankLog, bankWaiting>>
     \/ /\ dVal.slot <= bankAdu[l] + 1
        /\ Apply(l, dVal)
        /\ UNCHANGED bankBuffer

\* A value the handler takes from the learner's channel.
HandleDecidedValue(l, dVal) ==
  /\ ~bankWaiting[l]
  /\ NextBuffered(l) = {}
  /\ \/ /\ dVal.slot <= bankAdu[l]
        /\ UNCHANGED bankVars
     \/ /\ dVal.slot > bankAdu[l] + 1
        /\ bankBuffer' = [bankBuffer EXCEPT ![l] = @ \cup {dVal}]
        /\ UNCHANGED <<bankAdu, bankLog, bankWaiting>>
     \/ /\ dVal.slot = bankAdu[l] + 1
        /\ Apply(l, dVal)
        /\ UNCHANGED bankBuffer

\* The loop over the buffer, once the proposer has been told.
HandleBuffered(l) ==
  /\ ~bankWaiting[l]
  /\ \E dVal \in NextBuffered(l) :
       /\ bankBuffer' = [bankBuffer EXCEPT ![l] = @ \ {dVal}]
       /\ Apply(l, dVal)

ProposerTold(l) ==
  /\ bankWaiting[l]
  /\ bankWaiting' = [bankWaiting EXCEPT ![l] = FALSE]
  /\ UNCHANGED <<bankAdu, bankBuffer, bankLog>>
=============================================================================
