------------------------------ MODULE Condition ------------------------------
(***************************************************************************)
(* WTF::Condition (Source/WTF/wtf/Condition.h) used with a WTF::Lock: a     *)
(* condition variable in one byte, m_hasWaiters, on whose address the       *)
(* waiters are parked.  Waiting, releasing the lock in beforeSleep(),       *)
(* relocking and notifying all go through the same ParkingLot, on two       *)
(* addresses.                                                               *)
(***************************************************************************)
EXTENDS Lock

CONSTANT TheCondition     \* &m_hasWaiters

ASSUME ConditionAssumption == TheCondition \in Addresses \ {TheLock}

VARIABLES
    hasWaiters,       \* m_hasWaiters
    condPc,           \* where each thread is in waitUntil(), notifyOne() or notifyAll()
    waitResult        \* what the thread's last waitUntil() returned

condVars == <<hasWaiters, condPc, waitResult>>

CondLabels == {"out", "waiting", "pastTimeout", "relock", "notifyOneUnpark",
               "notifyAllStore", "notifyAllUnpark", "notifying"}

ConditionInit ==
    /\ hasWaiters = FALSE
    /\ condPc = [t \in Threads |-> "out"]
    /\ waitResult = [t \in Threads |-> TRUE]

CondGoto(t, label) == condPc' = [condPc EXCEPT ![t] = label]

-----------------------------------------------------------------------------
(* waitUntil(lock, timeout)                                                 *)

\* The timeout lies ahead: the thread is going to park on m_hasWaiters.
WaitBegin(t, finite) ==
    /\ condPc[t] = "out" /\ lockPc[t] = "held"
    /\ ParkBegin(t, TheCondition, finite)
    /\ CondGoto(t, "waiting")
    /\ UNCHANGED <<lockVars, hasWaiters, waitResult>>

\* The timeout is past: the lock is released all the same, and the result is false.
WaitPastTimeout(t) ==
    /\ condPc[t] = "out" /\ lockPc[t] = "held"
    /\ CondGoto(t, "pastTimeout")
    /\ waitResult' = [waitResult EXCEPT ![t] = FALSE]
    /\ UNCHANGED <<lotVars, lockVars, hasWaiters>>

\* Mutant of WaitEnqueue: the validation does not announce the waiter.
WaitEnqueueSilently(t) ==
    /\ condPc[t] = "waiting"
    /\ ParkEnqueue(t, TRUE)
    /\ UNCHANGED <<lockVars, condVars>>

\* The validation announces the waiter while the bucket is locked, and always succeeds.
WaitEnqueue(t) ==
    /\ condPc[t] = "waiting"
    /\ ParkEnqueue(t, TRUE)
    /\ hasWaiters' = TRUE
    /\ UNCHANGED <<lockVars, condPc, waitResult>>

\* lock.unlock(), called by beforeSleep() or because the timeout is past.
WaitUnlock(t) ==
    /\ condPc[t] = "pastTimeout" \/ (condPc[t] = "waiting" /\ parkPc[t] = "beforeSleep")
    /\ UnlockFast(t)
    /\ UNCHANGED condVars

\* beforeSleep() returns once unlock() has.
WaitSleep(t) ==
    /\ condPc[t] = "waiting" /\ lockPc[t] = "idle"
    /\ BeforeSleepReturns(t)
    /\ UNCHANGED <<lockVars, condVars>>

\* parkConditionally() returns; lock.lock() is next.
WaitParkReturned(t) ==
    /\ condPc[t] = "waiting"
    /\ waitResult' = [waitResult EXCEPT ![t] = parkPc[t] = "true"]
    /\ ParkReturned(t)
    /\ CondGoto(t, "relock")
    /\ UNCHANGED <<lockVars, hasWaiters>>

WaitRelock(t) ==
    /\ condPc[t] \in {"relock", "pastTimeout"}
    /\ LockFast(t)
    /\ CondGoto(t, "relock")
    /\ UNCHANGED <<hasWaiters, waitResult>>

WaitReturns(t) ==
    /\ condPc[t] = "relock" /\ lockPc[t] = "held"
    /\ CondGoto(t, "out")
    /\ UNCHANGED <<lotVars, lockVars, hasWaiters, waitResult>>

-----------------------------------------------------------------------------
(* notifyOne() and notifyAll(), with the lock or without it                 *)

MayNotify(t) == condPc[t] = "out" /\ lockPc[t] \in {"idle", "held"} /\ CanUnpark(t)

\* The load and branch of the fast path: without waiters the call is over.
NotifyOneLoad(t) ==
    /\ MayNotify(t)
    /\ CondGoto(t, IF hasWaiters THEN "notifyOneUnpark" ELSE "notifying")
    /\ UNCHANGED <<lotVars, lockVars, hasWaiters, waitResult>>

\* Mutant of NotifyOneUnpark: the callback clears m_hasWaiters whoever is left.
NotifyOneForgets(t) ==
    /\ condPc[t] = "notifyOneUnpark"
    /\ UnparkOneDequeue(t, TheCondition)
    /\ hasWaiters' = FALSE
    /\ CondGoto(t, "notifying")
    /\ UNCHANGED <<lockVars, waitResult>>

\* ParkingLot::unparkOne(&m_hasWaiters, callback)
NotifyOneUnpark(t) ==
    /\ condPc[t] = "notifyOneUnpark"
    /\ UnparkOneDequeue(t, TheCondition)
    /\ \E result \in UnparkResults(TheCondition) :
         hasWaiters' = (hasWaiters /\ result.mayHaveMoreThreads)
    /\ CondGoto(t, "notifying")
    /\ UNCHANGED <<lockVars, waitResult>>

NotifyAllLoad(t) ==
    /\ MayNotify(t)
    /\ CondGoto(t, IF hasWaiters THEN "notifyAllStore" ELSE "notifying")
    /\ UNCHANGED <<lotVars, lockVars, hasWaiters, waitResult>>

\* m_hasWaiters.store(false), with no lock held,
NotifyAllStore(t) ==
    /\ condPc[t] = "notifyAllStore"
    /\ hasWaiters' = FALSE
    /\ CondGoto(t, "notifyAllUnpark")
    /\ UNCHANGED <<lotVars, lockVars, waitResult>>

\* and ParkingLot::unparkAll(&m_hasWaiters) after it.
NotifyAllUnpark(t) ==
    /\ condPc[t] = "notifyAllUnpark"
    /\ UnparkAllDequeue(t, TheCondition)
    /\ CondGoto(t, "notifying")
    /\ UNCHANGED <<lockVars, hasWaiters, waitResult>>

NotifyReturns(t) ==
    /\ condPc[t] = "notifying" /\ unparkPc[t] = "idle"
    /\ CondGoto(t, "out")
    /\ UNCHANGED <<lotVars, lockVars, hasWaiters, waitResult>>

-----------------------------------------------------------------------------
\* The steps of the calls, and of the lock's calls on behalf of any thread.
WaitStep(t) ==
    \/ WaitEnqueue(t) \/ WaitUnlock(t) \/ WaitSleep(t) \/ WaitParkReturned(t)
    \/ WaitRelock(t) \/ WaitReturns(t)
NotifyStep(t) ==
    \/ NotifyOneUnpark(t) \/ NotifyAllStore(t) \/ NotifyAllUnpark(t) \/ NotifyReturns(t)
InnerLockStep(t) ==
    /\ LockStep(t) \/ UnlockStep(t) \/ LockParkStep(t) \/ LockUnparkStep(t)
    /\ UNCHANGED condVars

-----------------------------------------------------------------------------
(* What the condition promises                                              *)

(* Types of the condition's state.                                          *)
ConditionTypeOK ==
    /\ hasWaiters \in BOOLEAN
    /\ condPc \in [Threads -> CondLabels]
    /\ waitResult \in [Threads -> BOOLEAN]

(* Waiters are remembered: a parked waiter that m_hasWaiters denies is one  *)
(* that a notifyAll() under way is certain to unpark, so that the fast path *)
(* of a notify call loses nothing ("It's totally safe for us to set this to *)
(* false without any locking").                                             *)
WaitersRemembered ==
    queue[TheCondition] # <<>> /\ ~hasWaiters =>
        \E t \in Threads : condPc[t] = "notifyAllUnpark"
=============================================================================
