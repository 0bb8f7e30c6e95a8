----------------------------- MODULE LockClients -----------------------------
(***************************************************************************)
(* WTF::Lock under arbitrary callers: threads that call lock() or           *)
(* tryLock(), and unlock() once they have the lock, again and again.        *)
(***************************************************************************)
EXTENDS Lock

vars == <<lotVars, lockVars>>

Init == LotInit /\ LockInit

\* The steps of calls under way; who holds the lock calls unlock().
Step(t) ==
    \/ LockStep(t) \/ TryStep(t) \/ UnlockFast(t) \/ UnlockStep(t)
    \/ LockParkStep(t) \/ LockUnparkStep(t)

Next == \E t \in Threads : LockFast(t) \/ TryLoad(t) \/ Step(t) \/ LockEnvironment(t)

Spec == Init /\ [][Next]_vars

\* Running threads are scheduled, and who holds the lock calls unlock().  The compare-exchanges
\* of all threads do not fail for ever where one of them could win.
Fairness ==
    /\ \A t \in Threads : WF_vars(Step(t))
    /\ SF_vars(\E t \in Threads : Step(t) /\ byte' # byte)

FairSpec == Spec /\ Fairness

-----------------------------------------------------------------------------
(* Every thread that goes to sleep for the lock is woken: releases find     *)
(* hasParkedBit set while it is queued, and take it in its turn.            *)
ParkedThreadIsWoken == \A t \in Threads : parkPc[t] = "sleeping" ~> parkPc[t] = "true"

(* To its callers a Lock is a mutex: every step is a step of the abstract   *)
(* lock or invisible.                                                       *)
LockState == [t \in Threads |-> IF Owns(t) THEN "holding" ELSE IF Wants(t) THEN "waiting" ELSE "out"]
M == INSTANCE Mutex WITH state <- LockState
ImplementsMutex == M!Spec
=============================================================================
