---------------------------- MODULE MonitorClients ----------------------------
(***************************************************************************)
(* A Lock and a Condition used as a monitor, the way ParallelHelperPool and *)
(* MessageQueue use them: consumers wait(lock, predicate) for a flag that   *)
(* producers raise under the lock and then announce, before or after they   *)
(* unlock, with notifyOne() or notifyAll().                                 *)
(***************************************************************************)
EXTENDS Condition

CONSTANTS
    Producers,        \* the threads that raise the flag; the others consume it
    Timeouts          \* the finite timeouts consumers use: "past", "future"

ASSUME MonitorAssumption == Producers \subseteq Threads /\ Timeouts \subseteq {"past", "future"}

VARIABLES
    ready,            \* the state the predicate reads
    client            \* what each thread is doing with the monitor

vars == <<lotVars, lockVars, condVars, ready, client>>

ClientLabels == {"out", "produce", "notify", "consume", "leave"}

Init ==
    /\ LotInit /\ LockInit /\ ConditionInit
    /\ ready = FALSE
    /\ client = [t \in Threads |-> "out"]

\* A producer comes back only when its last item has been taken: the lock lets threads barge
\* in, so one that never stopped could keep the consumers out for ever.
Enter(t) ==
    /\ client[t] = "out" /\ condPc[t] = "out"
    /\ t \in Producers => ~ready
    /\ LockFast(t)
    /\ client' = [client EXCEPT ![t] = IF t \in Producers THEN "produce" ELSE "consume"]
    /\ UNCHANGED <<condVars, ready>>

\* The owner of the lock, outside the calls of the condition.
Inside(t, label) == client[t] = label /\ lockPc[t] = "held" /\ condPc[t] = "out"

Produce(t) ==
    /\ Inside(t, "produce")
    /\ ready' = TRUE
    /\ client' = [client EXCEPT ![t] = "notify"]
    /\ UNCHANGED <<lotVars, lockVars, condVars>>

\* The predicate holds: the call returns true and the state is consumed.
Consume(t) ==
    /\ Inside(t, "consume") /\ ready
    /\ ready' = FALSE
    /\ client' = [client EXCEPT ![t] = "leave"]
    /\ waitResult' = [waitResult EXCEPT ![t] = TRUE]
    /\ UNCHANGED <<lotVars, lockVars, hasWaiters, condPc>>

\* while (!predicate()) wait(lock), or waitUntil(lock, timeout).
Wait(t) ==
    /\ Inside(t, "consume") /\ ~ready /\ waitResult[t]
    /\ \/ WaitBegin(t, FALSE)
       \/ "future" \in Timeouts /\ WaitBegin(t, TRUE)
       \/ "past" \in Timeouts /\ WaitPastTimeout(t)
    /\ UNCHANGED <<ready, client>>

\* waitUntil() returned false, and so does the predicate.
GiveUp(t) ==
    /\ Inside(t, "consume") /\ ~ready /\ ~waitResult[t]
    /\ client' = [client EXCEPT ![t] = "leave"]
    /\ waitResult' = [waitResult EXCEPT ![t] = TRUE]
    /\ UNCHANGED <<lotVars, lockVars, hasWaiters, condPc, ready>>

Announce(t) ==
    /\ client[t] = "notify"
    /\ NotifyOneLoad(t) \/ NotifyAllLoad(t)
    /\ client' = [client EXCEPT ![t] = IF lockPc[t] = "held" THEN "leave" ELSE "out"]
    /\ UNCHANGED ready

Leave(t) ==
    /\ Inside(t, "leave") \/ Inside(t, "notify")
    /\ UnlockFast(t)
    /\ client' = [client EXCEPT ![t] = IF @ = "leave" THEN "out" ELSE @]
    /\ UNCHANGED <<condVars, ready>>

\* The calls under way.
Calls(t) == (WaitStep(t) \/ NotifyStep(t) \/ InnerLockStep(t)) /\ UNCHANGED <<ready, client>>

Environment(t) == LotEnvironment(t) /\ UNCHANGED <<lockVars, condVars, ready, client>>

Step(t) ==
    Produce(t) \/ Consume(t) \/ Wait(t) \/ GiveUp(t) \/ Announce(t) \/ Leave(t) \/ Calls(t)

Next == \E t \in Threads : Enter(t) \/ Step(t) \/ Environment(t)

Spec == Init /\ [][Next]_vars

\* Running threads are scheduled; a thread inside the monitor goes on to leave it.
Fairness == \A t \in Threads : WF_vars(Step(t))

FairSpec == Spec /\ Fairness

-----------------------------------------------------------------------------
(* Types of the whole state.                                                *)
TypeOK ==
    /\ LotTypeOK /\ LockTypeOK /\ ConditionTypeOK
    /\ ready \in BOOLEAN
    /\ client \in [Threads -> ClientLabels]

(* No notification is missed: a consumer that sleeps while the flag is      *)
(* raised does not sleep for ever with the flag up; someone consumes it,    *)
(* whichever of the two calls announced it, inside or outside the lock.     *)
FlagIsConsumed ==
    (ready /\ \E t \in Threads \ Producers : client[t] = "consume") ~> ~ready
=============================================================================
