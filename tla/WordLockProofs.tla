---------------------------- MODULE WordLockProofs ----------------------------
(***************************************************************************)
(* Proofs about WordLock for any finite set of threads, any spin limit, and *)
(* with or without spurious compare-exchange failures.                      *)
(***************************************************************************)
EXTENDS WordLock, FiniteSetTheorems, TLAPS

(* isQueueLockedBit is set exactly while one thread owns the queue, and     *)
(* nobody releases the lock under it.                                       *)
QueueExclusion ==
    /\ \A t, u \in Threads : OwnsQueue(t) /\ OwnsQueue(u) => t = u
    /\ word.queueLocked <=> \E t \in Threads : OwnsQueue(t)
    /\ word.queueLocked => word.locked

(* What each thread knows from its last load of m_word.  A value loaded     *)
(* before a compare-exchange may be stale, but has the shape the branch     *)
(* tested; what the owner of the queue has loaded is still the word.        *)
LoadedWord ==
    \A t \in Threads :
        /\ pc[t] = "barge" => ~cur[t].locked /\ ~cur[t].queueLocked
        /\ pc[t] = "lockQueueCAS" => cur[t].locked /\ ~cur[t].queueLocked
        /\ pc[t] = "unlockQueueCAS" => /\ cur[t].locked /\ ~cur[t].queueLocked
                                       /\ cur[t].head # Null
        /\ pc[t] = "enqueue" => cur[t].head = word.head
        /\ pc[t] \in {"enqueueReload", "publish"} => queueHead[t] = word.head
        /\ pc[t] \in {"publish", "unlockStore"} => cur[t] = word
        /\ pc[t] = "dequeue" => word.head # Null
        /\ pc[t] \in {"unlockReload", "unlockStore"} => queueHead[t] = word.head

(* The inductive invariant: mutual exclusion needs the queue lock's own     *)
(* exclusion, because the two load-then-store pairs rely on it.             *)
Inv == TypeOK /\ MutualExclusion /\ QueueExclusion /\ LoadedWord
-----------------------------------------------------------------------------
USE ThreadsAssumption, SpinAssumption, CASAssumption DEF ThreadOrNull, Word, Labels

LEMMA InitInv == Init => Inv
BY DEF Init, Inv, TypeOK, MutualExclusion, QueueExclusion, LoadedWord, Owns, OwnsQueue, Zero

LEMMA SpinOrQueueType ==
    ASSUME TypeOK, NEW t \in Threads, NEW w \in Word, SpinOrQueue(t, w)
    PROVE  pc' \in [Threads -> Labels] /\ spinCount' \in [Threads -> 0..SpinLimit]
<1>1. spinCount[t] \in 0..SpinLimit
  BY DEF TypeOK
<1>2. spinCount[t] < SpinLimit => spinCount[t] + 1 \in 0..SpinLimit
  BY <1>1
<1>3. QED
  BY <1>2 DEF SpinOrQueue, Goto, TypeOK

LEMMA StepType == Inv /\ [Next]_vars => TypeOK'
<1> SUFFICES ASSUME Inv, [Next]_vars PROVE TypeOK'
  OBVIOUS
<1> USE DEF Inv, TypeOK
<1>1. Zero \in Word /\ IsLockedBit \in Word
  BY DEF Zero, IsLockedBit
<1>2. ASSUME NEW t \in Threads, LockFast(t) PROVE TypeOK'
  BY <1>1, <1>2, SMTT(30) DEF LockFast, CASWins, CASLoses, Return, Goto, threadData
<1>3. ASSUME NEW t \in Threads, SpuriousWakeup(t) PROVE TypeOK'
  BY <1>3 DEF SpuriousWakeup, Goto, threadData
<1>4. ASSUME NEW t \in Threads, LockLoad(t) PROVE TypeOK'
  BY <1>4, SpinOrQueueType DEF LockLoad, Goto, threadData
<1>5. ASSUME NEW t \in Threads, Barge(t) PROVE TypeOK'
  <2>1. cur[t] \in Word
    OBVIOUS
  <2>2. [cur[t] EXCEPT !.locked = TRUE] \in Word
    BY <2>1
  <2>3. CASE CASWins(cur[t], [cur[t] EXCEPT !.locked = TRUE]) /\ Return(t, "held")
    BY <1>1, <1>5, <2>2, <2>3 DEF Barge, CASWins, Return, Goto, threadData
  <2>4. CASE CASLoses(cur[t]) /\ SpinOrQueue(t, cur[t]) /\ UNCHANGED <<cur, queueHead, newQueueHead>>
    BY <1>5, <2>1, <2>4, SpinOrQueueType DEF Barge, CASLoses, threadData
  <2>5. QED
    BY <1>5, <2>3, <2>4 DEF Barge
<1>6. ASSUME NEW t \in Threads, QueueReload(t) PROVE TypeOK'
  BY <1>6 DEF QueueReload, Goto, threadData
<1>7. ASSUME NEW t \in Threads, LockQueueCAS(t) PROVE TypeOK'
  <2>1. cur[t] \in Word /\ word \in Word
    OBVIOUS
  <2>2. [cur[t] EXCEPT !.queueLocked = TRUE] \in Word
    BY <2>1
  <2>3. word' \in Word
    BY <1>7, <2>1, <2>2 DEF LockQueueCAS, CASWins, CASLoses
  <2>4. pc' \in [Threads -> Labels]
    BY <1>7 DEF LockQueueCAS, Goto
  <2>5. QED
    BY <1>7, <2>3, <2>4 DEF LockQueueCAS, threadData
<1>8. ASSUME NEW t \in Threads, Enqueue(t) PROVE TypeOK'
  BY <1>8 DEF Enqueue, Goto
<1>9. ASSUME NEW t \in Threads, EnqueueReload(t) PROVE TypeOK'
  BY <1>9 DEF EnqueueReload, Goto, threadData
<1>10. ASSUME NEW t \in Threads, Publish(t) PROVE TypeOK'
  BY <1>1, <1>10 DEF Publish, Goto, threadData
<1>11. ASSUME NEW t \in Threads, Park(t) PROVE TypeOK'
  BY <1>11 DEF Park, Goto, threadData
<1>12. ASSUME NEW t \in Threads, UnlockFast(t) PROVE TypeOK'
  BY <1>1, <1>12 DEF UnlockFast, CASWins, CASLoses, Goto, threadData
<1>13. ASSUME NEW t \in Threads, UnlockLoad(t) PROVE TypeOK'
  BY <1>13 DEF UnlockLoad, Goto, threadData
<1>14. ASSUME NEW t \in Threads, UnlockCAS(t) PROVE TypeOK'
  <2>1. CASE CASWins(IsLockedBit, Zero) /\ Return(t, "idle")
    BY <1>1, <1>14, <2>1 DEF UnlockCAS, CASWins, Return, Goto, threadData
  <2>2. CASE /\ CASLoses(IsLockedBit) /\ Goto(t, "unlockLoad")
             /\ UNCHANGED <<cur, spinCount, queueHead, newQueueHead>>
    BY <1>14, <2>2 DEF UnlockCAS, CASLoses, Goto, threadData
  <2>3. QED
    BY <1>14, <2>1, <2>2 DEF UnlockCAS
<1>15. ASSUME NEW t \in Threads, UnlockQueueCAS(t) PROVE TypeOK'
  <2>1. cur[t] \in Word /\ word \in Word
    OBVIOUS
  <2>2. [cur[t] EXCEPT !.queueLocked = TRUE] \in Word
    BY <2>1
  <2>3. word' \in Word
    BY <1>15, <2>1, <2>2 DEF UnlockQueueCAS, CASWins, CASLoses
  <2>4. pc' \in [Threads -> Labels]
    BY <1>15 DEF UnlockQueueCAS, Goto
  <2>5. QED
    BY <1>15, <2>3, <2>4 DEF UnlockQueueCAS, threadData
<1>16. ASSUME NEW t \in Threads, Dequeue(t) PROVE TypeOK'
  <2>1. word.head \in Threads
    BY <1>16 DEF Dequeue, LoadedWord
  <2>2. QED
    BY <1>16, <2>1 DEF Dequeue, Goto
<1>17. ASSUME NEW t \in Threads, UnlockReload(t) PROVE TypeOK'
  BY <1>17 DEF UnlockReload, Goto, threadData
<1>18. ASSUME NEW t \in Threads, UnlockStore(t) PROVE TypeOK'
  BY <1>18 DEF UnlockStore, Goto, threadData
<1>19. ASSUME NEW t \in Threads, UnlockClear(t) PROVE TypeOK'
  BY <1>19 DEF UnlockClear, Goto
<1>20. ASSUME NEW t \in Threads, UnlockWake(t) PROVE TypeOK'
  BY <1>20 DEF UnlockWake, Goto
<1>21. ASSUME NEW t \in Threads, UnlockNotify(t) PROVE TypeOK'
  BY <1>1, <1>21 DEF UnlockNotify, threadData
<1>22. CASE UNCHANGED vars
  BY <1>22 DEF vars
<1>23. QED
  BY <1>2, <1>3, <1>4, <1>5, <1>6, <1>7, <1>8, <1>9, <1>10, <1>11, <1>12, <1>13, <1>14, <1>15,
     <1>16, <1>17, <1>18, <1>19, <1>20, <1>21, <1>22 DEF Next, Step

LEMMA StepExclusion == Inv /\ [Next]_vars => (MutualExclusion /\ QueueExclusion /\ LoadedWord)'
<1> SUFFICES ASSUME Inv, [Next]_vars PROVE (MutualExclusion /\ QueueExclusion /\ LoadedWord)'
  OBVIOUS
<1> USE DEF Inv, TypeOK, MutualExclusion, QueueExclusion, LoadedWord, Owns, OwnsQueue
<1>1. ASSUME NEW t \in Threads, LockFast(t) PROVE (MutualExclusion /\ QueueExclusion /\ LoadedWord)'
  <2>1. CASE CASWins(Zero, IsLockedBit) /\ Return(t, "held")
    BY <1>1, <2>1 DEF LockFast, CASWins, Return, Goto, Zero, IsLockedBit
  <2>2. CASE CASLoses(Zero) /\ Return(t, "lockLoad")
    BY <1>1, <2>2 DEF LockFast, CASLoses, Return, Goto
  <2>3. QED
    BY <1>1, <2>1, <2>2 DEF LockFast
<1>2. ASSUME NEW t \in Threads, SpuriousWakeup(t) PROVE (MutualExclusion /\ QueueExclusion /\ LoadedWord)'
  BY <1>2 DEF SpuriousWakeup, Goto
<1>3. ASSUME NEW t \in Threads, LockLoad(t) PROVE (MutualExclusion /\ QueueExclusion /\ LoadedWord)'
  <2>1. CASE word.locked
    BY <1>3, <2>1 DEF LockLoad, SpinOrQueue, Goto
  <2>2. CASE ~word.locked
    BY <1>3, <2>2 DEF LockLoad, Goto
  <2>3. QED
    BY <2>1, <2>2
<1>4. ASSUME NEW t \in Threads, Barge(t) PROVE (MutualExclusion /\ QueueExclusion /\ LoadedWord)'
  BY <1>4 DEF Barge, SpinOrQueue, CASWins, CASLoses, Return, Goto
<1>5. ASSUME NEW t \in Threads, QueueReload(t) PROVE (MutualExclusion /\ QueueExclusion /\ LoadedWord)'
  BY <1>5 DEF QueueReload, Goto
<1>6. ASSUME NEW t \in Threads, LockQueueCAS(t) PROVE (MutualExclusion /\ QueueExclusion /\ LoadedWord)'
  BY <1>6 DEF LockQueueCAS, CASWins, CASLoses, Goto
<1>7. ASSUME NEW t \in Threads, Enqueue(t) PROVE (MutualExclusion /\ QueueExclusion /\ LoadedWord)'
  BY <1>7 DEF Enqueue, Goto
<1>8. ASSUME NEW t \in Threads, EnqueueReload(t) PROVE (MutualExclusion /\ QueueExclusion /\ LoadedWord)'
  BY <1>8 DEF EnqueueReload, Goto
<1>9. ASSUME NEW t \in Threads, Publish(t) PROVE (MutualExclusion /\ QueueExclusion /\ LoadedWord)'
  BY <1>9 DEF Publish, Goto
<1>10. ASSUME NEW t \in Threads, Park(t) PROVE (MutualExclusion /\ QueueExclusion /\ LoadedWord)'
  BY <1>10 DEF Park, Goto
<1>11. ASSUME NEW t \in Threads, UnlockFast(t) PROVE (MutualExclusion /\ QueueExclusion /\ LoadedWord)'
  BY <1>11 DEF UnlockFast, CASWins, CASLoses, Goto, Zero, IsLockedBit
<1>12. ASSUME NEW t \in Threads, UnlockLoad(t) PROVE (MutualExclusion /\ QueueExclusion /\ LoadedWord)'
  BY <1>12 DEF UnlockLoad, Goto, IsLockedBit
<1>13. ASSUME NEW t \in Threads, UnlockCAS(t) PROVE (MutualExclusion /\ QueueExclusion /\ LoadedWord)'
  BY <1>13 DEF UnlockCAS, CASWins, CASLoses, Return, Goto, Zero, IsLockedBit
<1>14. ASSUME NEW t \in Threads, UnlockQueueCAS(t) PROVE (MutualExclusion /\ QueueExclusion /\ LoadedWord)'
  BY <1>14 DEF UnlockQueueCAS, CASWins, CASLoses, Goto
<1>15. ASSUME NEW t \in Threads, Dequeue(t) PROVE (MutualExclusion /\ QueueExclusion /\ LoadedWord)'
  BY <1>15 DEF Dequeue, Goto
<1>16. ASSUME NEW t \in Threads, UnlockReload(t) PROVE (MutualExclusion /\ QueueExclusion /\ LoadedWord)'
  BY <1>16 DEF UnlockReload, Goto
<1>17. ASSUME NEW t \in Threads, UnlockStore(t) PROVE (MutualExclusion /\ QueueExclusion /\ LoadedWord)'
  BY <1>17 DEF UnlockStore, Goto
<1>18. ASSUME NEW t \in Threads, UnlockClear(t) PROVE (MutualExclusion /\ QueueExclusion /\ LoadedWord)'
  BY <1>18 DEF UnlockClear, Goto
<1>19. ASSUME NEW t \in Threads, UnlockWake(t) PROVE (MutualExclusion /\ QueueExclusion /\ LoadedWord)'
  BY <1>19 DEF UnlockWake, Goto
<1>20. ASSUME NEW t \in Threads, UnlockNotify(t) PROVE (MutualExclusion /\ QueueExclusion /\ LoadedWord)'
  BY <1>20, SMTT(30) DEF UnlockNotify
<1>21. CASE UNCHANGED vars
  BY <1>21 DEF vars
<1>22. QED
  BY <1>1, <1>2, <1>3, <1>4, <1>5, <1>6, <1>7, <1>8, <1>9, <1>10, <1>11, <1>12, <1>13, <1>14, <1>15, <1>16, <1>17, <1>18, <1>19, <1>20, <1>21 DEF Next, Step

LEMMA InvariantHolds == Spec => []Inv
<1>1. Inv /\ [Next]_vars => Inv'
  BY StepType, StepExclusion DEF Inv
<1>2. QED
  BY InitInv, <1>1, PTL DEF Spec

(* Type correctness: pointers stay pointers, and lockSlow() never counts    *)
(* past its spin limit.                                                     *)
THEOREM TypeCorrect == Spec => []TypeOK
<1>1. Inv => TypeOK
  BY DEF Inv
<1>2. QED
  BY <1>1, InvariantHolds, PTL

(* WordLock excludes: never two threads between lock() and the releasing    *)
(* write of unlock(), and isLockedBit says whether there is one.            *)
THEOREM WordLockExcludes == Spec => []MutualExclusion
<1>1. Inv => MutualExclusion
  BY DEF Inv
<1>2. QED
  BY <1>1, InvariantHolds, PTL

(* The assertions on the loaded word hold: under the queue lock the two     *)
(* load-then-store pairs of lockSlow() and unlockSlow() act as one step.    *)
THEOREM WordAssertions == Spec => []WordAssertionsHold
<1>1. Inv => WordAssertionsHold
  <2> SUFFICES ASSUME Inv, NEW t \in Threads
               PROVE  WordAssertionsHold!(t)
    BY DEF WordAssertionsHold
  <2>1. pc[t] = "unlockLoad" => word.locked
    BY DEF Inv, MutualExclusion, Owns
  <2>2. OwnsQueue(t) => word.queueLocked /\ word.locked
    BY DEF Inv, QueueExclusion
  <2>3. QED
    BY <2>1, <2>2 DEF Inv, LoadedWord, OwnsQueue
<1>2. QED
  BY <1>1, InvariantHolds, PTL

-----------------------------------------------------------------------------
(* WordLock implements the abstract mutex.  A step moves at most one thread *)
(* from label to label as far as LockState can tell: the sleeper that       *)
(* notify_one() wakes goes on waiting.                                      *)
StateOf(label) ==
    IF label \in {"held", "unlockLoad", "unlockCAS", "unlockQueueCAS", "dequeue",
                  "unlockReload", "unlockStore"} THEN "holding"
    ELSE IF label \in {"lockLoad", "barge", "queueReload", "lockQueueCAS", "enqueue",
                       "enqueueReload", "publish", "park", "sleeping"} THEN "waiting"
    ELSE "out"

LEMMA LockStateOf == LockState = [t \in Threads |-> StateOf(pc[t])]
BY DEF LockState, StateOf, Owns, Wants

(* A move between labels of the same kind is invisible; the others are      *)
(* the steps of the mutex.                                                  *)
LEMMA MoveIsMutexStep ==
    ASSUME TypeOK, MutualExclusion,
           NEW t \in Threads, NEW l \in Labels, Goto(t, l),
           \/ StateOf(l) = StateOf(pc[t])
           \/ StateOf(pc[t]) = "out" /\ StateOf(l) = "waiting"
           \/ StateOf(pc[t]) \in {"out", "waiting"} /\ StateOf(l) = "holding" /\ ~word.locked
           \/ StateOf(pc[t]) = "holding" /\ StateOf(l) = "out"
    PROVE  [M!Next]_(M!vars)
<1>1. LockState' = [LockState EXCEPT ![t] = StateOf(l)]
  <2>1. LockState' = [u \in Threads |-> StateOf(pc'[u])]
    BY DEF LockState, StateOf, Owns, Wants
  <2>2. QED
    BY <2>1, LockStateOf DEF Goto, TypeOK
<1>2. LockState \in [Threads -> {"out", "waiting", "holding"}] /\ LockState[t] = StateOf(pc[t])
  BY LockStateOf DEF StateOf
<1>3. ~word.locked => \A u \in Threads : LockState[u] # "holding"
  BY DEF MutualExclusion, LockState
<1>4. CASE StateOf(l) = StateOf(pc[t])
  BY <1>1, <1>2, <1>4 DEF M!vars
<1>5. CASE StateOf(pc[t]) = "out" /\ StateOf(l) = "waiting"
  BY <1>1, <1>2, <1>5 DEF M!Next, M!Request
<1>6. CASE StateOf(pc[t]) \in {"out", "waiting"} /\ StateOf(l) = "holding" /\ ~word.locked
  BY <1>1, <1>2, <1>3, <1>6 DEF M!Next, M!Acquire
<1>7. CASE StateOf(pc[t]) = "holding" /\ StateOf(l) = "out"
  BY <1>1, <1>2, <1>7 DEF M!Next, M!Release
<1>8. QED
  BY <1>4, <1>5, <1>6, <1>7

LEMMA StepImplements == Inv /\ [Next]_vars => [M!Next]_(M!vars)
<1> SUFFICES ASSUME Inv, [Next]_vars PROVE [M!Next]_(M!vars)
  OBVIOUS
<1> USE MoveIsMutexStep DEF Inv, Labels, StateOf
<1>1. ASSUME NEW t \in Threads, LockFast(t) PROVE [M!Next]_(M!vars)
  <2>1. CASE CASWins(Zero, IsLockedBit) /\ Return(t, "held")
    BY <1>1, <2>1 DEF LockFast, CASWins, Return, Zero
  <2>2. CASE CASLoses(Zero) /\ Return(t, "lockLoad")
    BY <1>1, <2>2 DEF LockFast, Return
  <2>3. QED
    BY <1>1, <2>1, <2>2 DEF LockFast
<1>2. ASSUME NEW t \in Threads, Barge(t) PROVE [M!Next]_(M!vars)
  <2>1. CASE CASWins(cur[t], [cur[t] EXCEPT !.locked = TRUE]) /\ Return(t, "held")
    BY <1>2, <2>1 DEF Barge, CASWins, Return, LoadedWord
  <2>2. CASE SpinOrQueue(t, cur[t])
    BY <1>2, <2>2 DEF Barge, SpinOrQueue
  <2>3. QED
    BY <1>2, <2>1, <2>2 DEF Barge
<1>3. ASSUME NEW t \in Threads,
             \/ LockLoad(t) \/ QueueReload(t) \/ LockQueueCAS(t) \/ Enqueue(t)
             \/ EnqueueReload(t) \/ Publish(t) \/ Park(t) \/ SpuriousWakeup(t)
      PROVE  [M!Next]_(M!vars)
  <2>1. /\ pc[t] \in {"lockLoad", "queueReload", "lockQueueCAS", "enqueue", "enqueueReload",
                      "publish", "park", "sleeping"}
        /\ \E l \in {"lockLoad", "barge", "queueReload", "lockQueueCAS", "enqueue",
                      "enqueueReload", "publish", "park", "sleeping"} : Goto(t, l)
    BY <1>3 DEF LockLoad, SpinOrQueue, QueueReload, LockQueueCAS, Enqueue, EnqueueReload,
                Publish, Park, SpuriousWakeup
  <2>2. QED
    BY <2>1
<1>4. ASSUME NEW t \in Threads,
             \/ UnlockFast(t) \/ UnlockLoad(t) \/ UnlockCAS(t) \/ UnlockQueueCAS(t)
             \/ Dequeue(t) \/ UnlockReload(t) \/ UnlockStore(t)
      PROVE  [M!Next]_(M!vars)
  <2>1. /\ StateOf(pc[t]) = "holding"
        /\ \E l \in {"idle", "unlockLoad", "unlockCAS", "unlockQueueCAS", "dequeue",
                      "unlockReload", "unlockStore", "unlockClear"} : Goto(t, l)
    BY <1>4 DEF UnlockFast, UnlockLoad, UnlockCAS, UnlockQueueCAS, Dequeue, UnlockReload,
                UnlockStore, Return
  <2>2. QED
    BY <2>1
<1>5. ASSUME NEW t \in Threads, UnlockClear(t) \/ UnlockWake(t) PROVE [M!Next]_(M!vars)
  <2>1. /\ pc[t] \in {"unlockClear", "unlockWake"}
        /\ \E l \in {"unlockWake", "unlockNotify"} : Goto(t, l)
    BY <1>5 DEF UnlockClear, UnlockWake
  <2>2. QED
    BY <2>1
<1>6. ASSUME NEW t \in Threads, UnlockNotify(t) PROVE [M!Next]_(M!vars)
  <2>1. \A u \in Threads : StateOf(pc'[u]) = StateOf(pc[u])
    BY <1>6 DEF UnlockNotify, TypeOK
  <2>2. LockState' = [u \in Threads |-> StateOf(pc'[u])]
    BY DEF LockState, StateOf, Owns, Wants
  <2>3. QED
    BY <2>1, <2>2, LockStateOf DEF M!vars
<1>7. CASE UNCHANGED vars
  BY <1>7 DEF vars, M!vars, LockState, Owns, Wants
<1>8. QED
  BY <1>1, <1>2, <1>3, <1>4, <1>5, <1>6, <1>7 DEF Next, Step

(* To its callers a WordLock is a mutex: what threads see of lock() and     *)
(* unlock() is a behaviour of the abstract specification.                   *)
THEOREM WordLockIsMutex == Spec => ImplementsMutex
<1>1. Init => M!Init
  BY DEF Init, M!Init, LockState, Owns, Wants
<1>2. QED
  BY <1>1, InvariantHolds, StepImplements, PTL DEF Spec, ImplementsMutex, M!Spec

-----------------------------------------------------------------------------
(* The queue.  What the links form is stated with a sequence q; that it is  *)
(* the queue the model computes from the links is shown below.              *)

IsQueue(q) ==
    /\ q \in Seq(Threads)
    /\ \A i, j \in 1..Len(q) : q[i] = q[j] => i = j
    /\ word.head = IF q = <<>> THEN Null ELSE q[1]
    /\ q # <<>> => queueTail[word.head] = q[Len(q)]
    /\ \A i \in 1..Len(q) :
          /\ nextInQueue[q[i]] = IF i < Len(q) THEN q[i + 1] ELSE Null
          /\ shouldPark[q[i]] /\ ~BeingWoken(q[i])
    /\ \A t \in Threads : shouldPark[t] =>
          \/ \E i \in 1..Len(q) : q[i] = t
          \/ BeingWoken(t)
          \/ pc[t] \in {"enqueueReload", "publish"} /\ word.head = Null

(* What a waiter's own fields say: they are clear while shouldPark is, and  *)
(* a first waiter is its own tail before it is installed.                   *)
WaiterOK(t) ==
    /\ shouldPark[t] => pc[t] \in {"enqueueReload", "publish", "park", "sleeping"}
    /\ pc[t] \in {"enqueueReload", "publish"} =>
          shouldPark[t] /\ (word.head = Null => nextInQueue[t] = Null /\ queueTail[t] = t)
    /\ ~shouldPark[t] => nextInQueue[t] = Null /\ queueTail[t] = Null
WaiterInv == \A t \in Threads : WaiterOK(t)

(* Who has unlinked the head alone has it, and clears it before waking it.  *)
WakerOK(u) ==
    pc[u] \in {"unlockClear", "unlockWake"} =>
        /\ queueHead[u] \in Threads /\ shouldPark[queueHead[u]]
        /\ pc[queueHead[u]] \in {"park", "sleeping"}
        /\ pc[u] = "unlockWake" => nextInQueue[queueHead[u]] = Null /\ queueTail[queueHead[u]] = Null
        /\ \A v \in Threads :
              pc[v] \in {"unlockClear", "unlockWake"} /\ queueHead[v] = queueHead[u] => v = u
WakerInv == \A u \in Threads : WakerOK(u)

(* unlockSlow() has handed the tail to the thread that will be the head.    *)
HandOverInv ==
    \A t \in Threads : pc[t] \in {"unlockReload", "unlockStore"} =>
        /\ word.head # Null /\ newQueueHead[t] = nextInQueue[word.head]
        /\ newQueueHead[t] # Null => queueTail[newQueueHead[t]] = queueTail[word.head]


(* The links that form q give q back: the recursion through the heads is    *)
(* solved by q itself, and any two solutions agree at every node.           *)
LEMMA ChainIsQueue ==
    ASSUME TypeOK, NEW q, IsQueue(q)
    PROVE  Queue = q /\ QueueLength = Len(q) /\ Chain[Cardinality(Threads)] = Null
<1> DEFINE N == Cardinality(Threads)
           L == Len(q)
           g == [i \in 0..N |-> IF i < L THEN q[i + 1] ELSE Null]
           Links(c) == [i \in 0..N |-> IF i = 0 THEN word.head
                                       ELSE IF c[i - 1] = Null THEN Null ELSE nextInQueue[c[i - 1]]]
<1>1. N \in Nat /\ L \in Nat /\ q \in [1..L -> Threads]
  <2>1. N \in Nat
    BY FS_CardinalityType
  <2>2. q \in Seq(Threads)
    BY DEF IsQueue
  <2>3. QED
    BY <2>1, <2>2
<1>2. L <= N
  <2>1. q \in Injection(1..L, Threads)
    BY <1>1 DEF IsQueue, Injection, IsInjective
  <2> HIDE DEF L, g, Links
  <2>2. Cardinality(1..L) <= N
    <3>1. IsFiniteSet(Threads)
      OBVIOUS
    <3>2. QED
      BY <2>1, <3>1, FS_Injection, Zenon
  <2>3. Cardinality(1..L) = L
    <3>1. 1 \in Int /\ L \in Int
      BY <1>1
    <3>2. Cardinality(1..L) = IF 1 > L THEN 0 ELSE L - 1 + 1
      BY <3>1, FS_Interval
    <3>3. QED
      BY <1>1, <3>2
  <2>4. QED
    BY <2>2, <2>3
<1>3. g = Links(g)
  <2>1. ASSUME NEW i \in 0..N PROVE g[i] = Links(g)[i]
    <3>1. CASE i = 0
      <4>1. word.head = IF L = 0 THEN Null ELSE q[1]
        BY <1>1 DEF IsQueue
      <4>2. QED
        BY <1>1, <3>1, <4>1
    <3>2. CASE i # 0
      <4>1. i - 1 \in 0..N /\ i \in Nat /\ i >= 1
        BY <3>2, <1>1
      <4>2. CASE i - 1 < L
        <5>1. i \in 1..L /\ g[i - 1] = q[i] /\ q[i] # Null
          <6>1. i \in 1..L
            BY <1>1, <4>1, <4>2
          <6>2. g[i - 1] = q[(i - 1) + 1]
            BY <4>1, <4>2
          <6>3. (i - 1) + 1 = i /\ q[i] \in Threads
            BY <1>1, <4>1, <6>1
          <6>4. QED
            BY <6>1, <6>2, <6>3
        <5>2. nextInQueue[q[i]] = IF i < L THEN q[i + 1] ELSE Null
          BY <5>1 DEF IsQueue
        <5>3. QED
          BY <5>1, <5>2, <3>2
      <4>3. CASE ~(i - 1 < L)
        <5>1. ~(i < L) /\ g[i - 1] = Null
          BY <1>1, <4>1, <4>3
        <5>2. QED
          BY <5>1, <3>2
      <4>4. QED
        BY <4>2, <4>3
    <3>3. QED
      BY <3>1, <3>2
  <2> HIDE DEF L
  <2>2. QED
    BY <2>1
<1>4. Chain = Links(Chain)
  <2> HIDE DEF g, L
  <2>1. Chain = CHOOSE c : c = Links(c)
    BY DEF Chain
  <2> HIDE DEF Links
  <2>2. QED
    BY <1>3, <2>1
<1>5. \A i \in 0..N : Chain[i] = g[i]
  <2> DEFINE B == {i \in 0..N : Chain[i] # g[i]}
  <2>1. SUFFICES ASSUME B # {} PROVE FALSE
    OBVIOUS
  <2>2. B \subseteq Nat
    BY <1>1
  <2>3. PICK b \in B : \A c \in B : ~(<<c, b>> \in OpToRel(<, Nat))
    <3> HIDE DEF B
    <3>1. QED
      BY <2>1, <2>2, WFMin, NatLessThanWellFounded
  <2>4. b \in 0..N /\ Chain[b] # g[b] /\ b \in Nat
    BY <1>1
  <2> HIDE DEF g
  <2>5. Chain[b] = Links(Chain)[b] /\ g[b] = Links(g)[b]
    BY <1>3, <1>4
  <2>6. b # 0
    BY <2>4, <2>5
  <2>7. b - 1 \in 0..N /\ b - 1 \in Nat /\ b - 1 < b
    BY <2>4, <2>6, <1>1
  <2>8. b - 1 \notin B
    <3>1. <<b - 1, b>> \in Nat \X Nat /\ <<b - 1, b>>[1] < <<b - 1, b>>[2]
      BY <2>4, <2>7
    <3>2. <<b - 1, b>> \in OpToRel(<, Nat)
      BY <3>1 DEF OpToRel
    <3> HIDE DEF B
    <3>3. QED
      BY <2>3, <3>2
  <2>9. Chain[b - 1] = g[b - 1]
    BY <2>7, <2>8
  <2>10. QED
    BY <2>4, <2>5, <2>6, <2>9
<1>6. {i \in 0..N : Chain[i] # Null} = 0..(L - 1)
  <2>1. ASSUME NEW i \in 0..N PROVE Chain[i] # Null <=> i < L
    <3>1. Chain[i] = IF i < L THEN q[i + 1] ELSE Null
      BY <1>5
    <3> HIDE DEF g, Links, L
    <3>2. i < L => q[i + 1] \in Threads
      BY <1>1
    <3>3. QED
      BY <3>1, <3>2
  <2> HIDE DEF g, Links, L
  <2>2. QED
    BY <1>1, <1>2, <2>1
<1>7. QueueLength = L
  <2>1. Cardinality(0..(L - 1)) = L
    <3> HIDE DEF L
    <3>1. 0 \in Int /\ L - 1 \in Int
      BY <1>1
    <3>2. Cardinality(0..(L - 1)) = IF 0 > L - 1 THEN 0 ELSE (L - 1) - 0 + 1
      BY <3>1, FS_Interval
    <3>3. QED
      BY <1>1, <3>2
  <2> HIDE DEF g, Links, L
  <2>2. QED
    BY <1>6, <2>1 DEF QueueLength
<1>8. Queue = q
  <2>1. ASSUME NEW i \in 1..L PROVE Chain[i - 1] = q[i]
    <3>1. i - 1 \in 0..N /\ i - 1 < L /\ (i - 1) + 1 = i
      BY <1>1, <1>2
    <3>2. QED
      BY <1>5, <3>1
  <2>2. Queue = [i \in 1..L |-> Chain[i - 1]]
    BY <1>7 DEF Queue
  <2> HIDE DEF L, g, Links
  <2>3. q = [i \in 1..L |-> q[i]]
    BY <1>1
  <2>4. QED
    BY <2>1, <2>2, <2>3
<1>9. Chain[N] = Null
  BY <1>1, <1>2, <1>5
<1>10. QED
  BY <1>7, <1>8, <1>9

(* The steps that leave the queue's links and its holders alone.            *)
LEMMA QuietStep ==
    ASSUME NEW q, IsQueue(q), WaiterInv, WakerInv, HandOverInv,
           UNCHANGED threadData, word'.head = word.head,
           \A u \in Threads :
              /\ pc'[u] \in {"enqueueReload", "publish"} <=> pc[u] \in {"enqueueReload", "publish"}
              /\ shouldPark[u] => (pc'[u] \in {"park", "sleeping"} <=> pc[u] \in {"park", "sleeping"})
              /\ pc'[u] \in {"unlockReload", "unlockStore"} =>
                    pc[u] \in {"unlockReload", "unlockStore"} /\ newQueueHead'[u] = newQueueHead[u]
              /\ pc'[u] = "unlockClear" <=> pc[u] = "unlockClear"
              /\ pc'[u] = "unlockWake" <=> pc[u] = "unlockWake"
              /\ pc[u] \in {"unlockClear", "unlockWake"} => queueHead'[u] = queueHead[u]
    PROVE  IsQueue(q)' /\ WaiterInv' /\ WakerInv' /\ HandOverInv'
<1>1. \A u \in Threads : BeingWoken(u)' <=> BeingWoken(u)
  BY DEF BeingWoken
<1>2. IsQueue(q)'
  <2>1. q \in Seq(Threads) /\ \A i \in 1..Len(q) : q[i] \in Threads
    BY DEF IsQueue
  <2>2. \A i \in 1..Len(q) : shouldPark'[q[i]] /\ ~BeingWoken(q[i])'
    BY <1>1, <2>1 DEF IsQueue, threadData
  <2>3. \A t \in Threads : shouldPark'[t] =>
          \/ \E i \in 1..Len(q) : q[i] = t
          \/ BeingWoken(t)'
          \/ pc'[t] \in {"enqueueReload", "publish"} /\ word'.head = Null
    BY <1>1 DEF IsQueue, threadData
  <2>4. QED
    BY <2>2, <2>3 DEF IsQueue, threadData
<1>3. WaiterInv'
  BY DEF WaiterInv, WaiterOK, threadData
<1>4. WakerInv'
  BY DEF WakerInv, WakerOK, threadData
<1>5. HandOverInv'
  BY DEF HandOverInv, threadData
<1>6. QED
  BY <1>2, <1>3, <1>4, <1>5

(* What lockSlow() relies on under the queue lock: nobody else is linking   *)
(* or unlinking.                                                            *)
LEMMA OneLinker ==
    ASSUME QueueExclusion, NEW t \in Threads, OwnsQueue(t), NEW u \in Threads, u # t
    PROVE  pc[u] \notin {"enqueue", "enqueueReload", "publish", "dequeue", "unlockReload", "unlockStore"}
BY DEF QueueExclusion, OwnsQueue

LEMMA EnqueueKeeps ==
    ASSUME Inv, NEW q, IsQueue(q), WaiterInv, WakerInv, HandOverInv, NEW t \in Threads, Enqueue(t)
    PROVE  /\ IsQueue(q)' \/ IsQueue(Append(q, t))'
           /\ WaiterInv' /\ WakerInv' /\ HandOverInv'
<1> DEFINE h == word.head
           L == Len(q)
<1>1. /\ pc[t] = "enqueue" /\ pc' = [pc EXCEPT ![t] = "enqueueReload"]
      /\ shouldPark' = [shouldPark EXCEPT ![t] = TRUE]
      /\ queueHead' = [queueHead EXCEPT ![t] = h] /\ cur[t].head = h
      /\ word' = word /\ newQueueHead' = newQueueHead
  BY DEF Enqueue, Goto, Inv, LoadedWord
<1>2. \A u \in Threads : u # t =>
        pc[u] \notin {"enqueue", "enqueueReload", "publish", "dequeue", "unlockReload", "unlockStore"}
  BY <1>1, OneLinker DEF Inv, OwnsQueue
<1>3. ~shouldPark[t] /\ nextInQueue[t] = Null /\ queueTail[t] = Null
  BY <1>1 DEF WaiterInv, WaiterOK
<1>4. TypeOK /\ q \in Seq(Threads) /\ L \in Nat /\ \A i \in 1..L : q[i] \in Threads /\ q[i] # t
  BY <1>3 DEF Inv, IsQueue
<1>5. \A u \in Threads : (BeingWoken(u)' <=> BeingWoken(u)) /\ (BeingWoken(u) => u # t /\ shouldPark[u])
  BY <1>1, <1>3, <1>4 DEF BeingWoken, TypeOK, WakerInv, WakerOK
<1>6. \A u \in Threads : /\ pc'[u] = IF u = t THEN "enqueueReload" ELSE pc[u]
                         /\ shouldPark'[u] = IF u = t THEN TRUE ELSE shouldPark[u]
                         /\ queueHead'[u] = IF u = t THEN h ELSE queueHead[u]
  BY <1>1, <1>4 DEF TypeOK
<1>7. HandOverInv'
  BY <1>2, <1>6 DEF HandOverInv
<1>8. CASE h = Null
  <2>1. /\ \A u \in Threads : queueTail'[u] = IF u = t THEN t ELSE queueTail[u]
        /\ nextInQueue' = nextInQueue
    BY <1>1, <1>4, <1>8 DEF Enqueue, TypeOK
  <2>2. q = <<>>
    BY <1>4, <1>8 DEF IsQueue
  <2>3. IsQueue(q)'
    <3>1. Len(q) = 0 /\ 1..Len(q) = {}
      BY <2>2
    <3>2. ASSUME NEW u \in Threads, shouldPark'[u]
          PROVE  BeingWoken(u)' \/ (pc'[u] \in {"enqueueReload", "publish"} /\ word'.head = Null)
      BY <1>1, <1>2, <1>5, <1>6, <1>8, <3>1, <3>2 DEF IsQueue
    <3>3. QED
      BY <1>1, <1>4, <1>8, <2>2, <3>1, <3>2 DEF IsQueue
  <2>4. ASSUME NEW u \in Threads PROVE WaiterOK(u)'
    <3>1. WaiterOK(u)
      BY DEF WaiterInv
    <3>2. QED
      BY <1>1, <1>2, <1>3, <1>6, <2>1, <3>1 DEF WaiterOK
  <2>5. ASSUME NEW u \in Threads PROVE WakerOK(u)'
    <3>1. WakerOK(u)
      BY DEF WakerInv
    <3>2. queueHead[u] # t \/ pc[u] \notin {"unlockClear", "unlockWake"}
      BY <1>3, <3>1 DEF WakerOK
    <3>3. QED
      BY <1>6, <2>1, <3>1, <3>2 DEF WakerOK
  <2>6. QED
    BY <1>7, <2>3, <2>4, <2>5 DEF WaiterInv, WakerInv
<1>9. CASE h # Null
  <2>1. q # <<>> /\ L >= 1 /\ h = q[1] /\ queueTail[h] = q[L] /\ 1 \in 1..L /\ L \in 1..L
    BY <1>4, <1>9 DEF IsQueue
  <2>2. /\ \A u \in Threads : nextInQueue'[u] = IF u = q[L] THEN t ELSE nextInQueue[u]
        /\ \A u \in Threads : queueTail'[u] = IF u = h THEN t ELSE queueTail[u]
    BY <1>1, <1>4, <1>9, <2>1 DEF Enqueue, TypeOK
  <2>3. PICK r : r = Append(q, t)
    OBVIOUS
  <2>4. /\ r \in Seq(Threads) /\ Len(r) = L + 1 /\ r[L + 1] = t
        /\ \A i \in 1..L : r[i] = q[i]
    BY <1>4, <2>3
  <2>5. \A i, j \in 1..Len(r) : r[i] = r[j] => i = j
    <3>1. ASSUME NEW i \in 1..(L + 1), NEW j \in 1..(L + 1), r[i] = r[j] PROVE i = j
      <4>1. (i \in 1..L \/ i = L + 1) /\ (j \in 1..L \/ j = L + 1)
        BY <1>4
      <4>2. QED
        BY <1>4, <2>4, <3>1, <4>1 DEF IsQueue
    <3>2. QED
      BY <2>4, <3>1
  <2>6. \A i \in 1..Len(r) :
          /\ nextInQueue'[r[i]] = IF i < Len(r) THEN r[i + 1] ELSE Null
          /\ shouldPark'[r[i]] /\ ~BeingWoken(r[i])'
    <3>1. ASSUME NEW i \in 1..L
          PROVE  /\ nextInQueue'[r[i]] = IF i < Len(r) THEN r[i + 1] ELSE Null
                 /\ shouldPark'[r[i]] /\ ~BeingWoken(r[i])'
      <4>1. /\ r[i] = q[i] /\ q[i] \in Threads /\ q[i] # t /\ i < L + 1
            /\ nextInQueue[q[i]] = (IF i < L THEN q[i + 1] ELSE Null)
            /\ shouldPark[q[i]] /\ ~BeingWoken(q[i])
        BY <1>4, <2>4 DEF IsQueue
      <4>2. shouldPark'[r[i]] /\ ~BeingWoken(r[i])'
        BY <1>5, <1>6, <4>1
      <4>3. CASE i = L
        BY <1>4, <2>2, <2>4, <4>1, <4>2, <4>3
      <4>4. CASE i # L
        <5>1. i < L /\ i + 1 \in 1..L
          BY <1>4, <4>4
        <5>2. q[i] # q[L]
          BY <2>1, <4>4 DEF IsQueue
        <5>3. QED
          BY <2>2, <2>4, <4>1, <4>2, <5>1, <5>2
      <4>5. QED
        BY <4>2, <4>3, <4>4
    <3>2. /\ nextInQueue'[t] = Null /\ shouldPark'[t] /\ ~BeingWoken(t)'
      BY <1>3, <1>4, <1>5, <1>6, <2>1, <2>2
    <3>3. \A i \in 1..Len(r) : i \in 1..L \/ i = Len(r)
      BY <1>4, <2>4
    <3>4. QED
      BY <1>4, <2>4, <3>1, <3>2, <3>3
  <2>7. \A u \in Threads : shouldPark'[u] => (\E i \in 1..Len(r) : r[i] = u) \/ BeingWoken(u)'
    <3>1. ASSUME NEW u \in Threads, shouldPark'[u], u # t
          PROVE  (\E i \in 1..Len(r) : r[i] = u) \/ BeingWoken(u)'
      <4>1. (\E i \in 1..L : q[i] = u) \/ BeingWoken(u)
        BY <1>2, <1>6, <1>9, <3>1 DEF IsQueue
      <4>2. \A i \in 1..L : i \in 1..Len(r)
        BY <1>4, <2>4
      <4>3. QED
        BY <1>5, <2>4, <4>1, <4>2
    <3>2. L + 1 \in 1..Len(r)
      BY <1>4, <2>4
    <3>3. QED
      BY <2>4, <3>1, <3>2
  <2>8. IsQueue(r)'
    <3>1. word'.head = (IF r = <<>> THEN Null ELSE r[1]) /\ queueTail'[word'.head] = r[Len(r)]
      BY <1>1, <1>4, <2>1, <2>2, <2>4
    <3>2. QED
      BY <2>4, <2>5, <2>6, <2>7, <3>1 DEF IsQueue
  <2>9. shouldPark[h] /\ shouldPark[q[L]] /\ ~BeingWoken(h) /\ ~BeingWoken(q[L])
    BY <2>1 DEF IsQueue
  <2>10. ASSUME NEW u \in Threads PROVE WaiterOK(u)'
    <3>1. WaiterOK(u)
      BY DEF WaiterInv
    <3>2. ~shouldPark'[u] => ~shouldPark[u] /\ nextInQueue'[u] = nextInQueue[u] /\ queueTail'[u] = queueTail[u]
      BY <1>6, <2>2, <2>9
    <3> HIDE DEF L
    <3>3. QED
      BY <1>1, <1>2, <1>6, <1>9, <3>1, <3>2 DEF WaiterOK
  <2>11. ASSUME NEW u \in Threads PROVE WakerOK(u)'
    <3>1. WakerOK(u)
      BY DEF WakerInv
    <3>2. pc[u] \in {"unlockClear", "unlockWake"} => queueHead[u] \notin {t, h, q[L]}
      BY <1>3, <2>9, <3>1 DEF WakerOK, BeingWoken
    <3>3. \A v \in Threads : pc'[v] \in {"unlockClear", "unlockWake"} =>
            pc'[v] = pc[v] /\ queueHead'[v] = queueHead[v]
      BY <1>6
    <3>4. ASSUME pc[u] \in {"unlockClear", "unlockWake"}
          PROVE  /\ queueHead[u] \in Threads /\ shouldPark'[queueHead[u]] = shouldPark[queueHead[u]]
                 /\ pc'[queueHead[u]] = pc[queueHead[u]]
                 /\ nextInQueue'[queueHead[u]] = nextInQueue[queueHead[u]]
                 /\ queueTail'[queueHead[u]] = queueTail[queueHead[u]]
      <4>1. queueHead[u] \in Threads
        BY <3>1, <3>4 DEF WakerOK
      <4>2. QED
        BY <1>6, <2>2, <3>2, <3>4, <4>1
    <3> HIDE DEF h, L
    <3>5. QED
      BY <3>1, <3>3, <3>4 DEF WakerOK
  <2>12. QED
    BY <1>7, <2>3, <2>8, <2>10, <2>11 DEF WaiterInv, WakerInv
<1>10. QED
  BY <1>8, <1>9

LEMMA PublishKeeps ==
    ASSUME Inv, NEW q, IsQueue(q), WaiterInv, WakerInv, HandOverInv, NEW t \in Threads, Publish(t)
    PROVE  /\ IsQueue(q)' \/ IsQueue(Append(q, t))'
           /\ WaiterInv' /\ WakerInv' /\ HandOverInv'
<1>1. /\ pc[t] = "publish" /\ pc' = [pc EXCEPT ![t] = "park"]
      /\ queueHead[t] = word.head /\ cur[t] = word
      /\ queueHead' = [queueHead EXCEPT ![t] = Null] /\ newQueueHead' = newQueueHead
      /\ shouldPark' = shouldPark /\ nextInQueue' = nextInQueue /\ queueTail' = queueTail
  BY DEF Publish, Goto, Inv, LoadedWord, threadData
<1>2. word'.head = IF word.head = Null THEN t ELSE word.head
  BY <1>1 DEF Publish, Inv, TypeOK
<1>3. \A u \in Threads : u # t =>
        pc[u] \notin {"enqueue", "enqueueReload", "publish", "dequeue", "unlockReload", "unlockStore"}
  BY <1>1, OneLinker DEF Inv, OwnsQueue
<1>4. TypeOK /\ q \in Seq(Threads) /\ Len(q) \in Nat /\ \A i \in 1..Len(q) : q[i] \in Threads
  BY DEF Inv, IsQueue
<1>5. \A u \in Threads : /\ pc'[u] = IF u = t THEN "park" ELSE pc[u]
                         /\ queueHead'[u] = IF u = t THEN Null ELSE queueHead[u]
  BY <1>1, <1>4 DEF TypeOK
<1>6. \A u \in Threads : (BeingWoken(u)' <=> BeingWoken(u)) /\ (BeingWoken(u) => u # t)
  BY <1>1, <1>5 DEF BeingWoken, WakerInv, WakerOK
<1>7. shouldPark[t] /\ (word.head = Null => nextInQueue[t] = Null /\ queueTail[t] = t)
  BY <1>1 DEF WaiterInv, WaiterOK
<1>8. HandOverInv'
  BY <1>3, <1>5 DEF HandOverInv
<1>9. ASSUME NEW u \in Threads PROVE WaiterOK(u)'
  <2>1. WaiterOK(u)
    BY DEF WaiterInv
  <2>2. QED
    BY <1>1, <1>3, <1>5, <2>1 DEF WaiterOK
<1>10. ASSUME NEW u \in Threads PROVE WakerOK(u)'
  <2>1. WakerOK(u)
    BY DEF WakerInv
  <2>2. \A v \in Threads : pc'[v] \in {"unlockClear", "unlockWake"} =>
            pc'[v] = pc[v] /\ queueHead'[v] = queueHead[v]
    BY <1>5
  <2>3. QED
    BY <1>1, <1>5, <2>1, <2>2 DEF WakerOK
<1>11. CASE word.head = Null
  <2>1. q = <<>> /\ Len(q) = 0
    BY <1>4, <1>11 DEF IsQueue
  <2>2. PICK r : r = Append(q, t)
    OBVIOUS
  <2>3. r \in Seq(Threads) /\ Len(r) = 1 /\ r[1] = t /\ r # <<>> /\ \A i \in 1..Len(r) : i = 1
    BY <2>1, <2>2
  <2>4. ASSUME NEW u \in Threads, shouldPark'[u]
        PROVE  (\E i \in 1..Len(r) : r[i] = u) \/ BeingWoken(u)'
    <3>1. CASE u = t
      BY <2>3, <3>1
    <3>2. CASE u # t
      BY <1>1, <1>3, <1>6, <2>1, <2>4, <3>2 DEF IsQueue
    <3>3. QED
      BY <3>1, <3>2
  <2>5. word'.head = r[1] /\ queueTail'[word'.head] = r[Len(r)]
    BY <1>1, <1>2, <1>7, <1>11, <2>3
  <2>6. \A i \in 1..Len(r) :
          /\ nextInQueue'[r[i]] = IF i < Len(r) THEN r[i + 1] ELSE Null
          /\ shouldPark'[r[i]] /\ ~BeingWoken(r[i])'
    BY <1>1, <1>6, <1>7, <1>11, <2>3
  <2>7. IsQueue(r)'
    BY <2>3, <2>4, <2>5, <2>6 DEF IsQueue
  <2>8. QED
    BY <1>8, <1>9, <1>10, <2>2, <2>7 DEF WaiterInv, WakerInv
<1>12. CASE word.head # Null
  <2>1. word'.head = word.head
    BY <1>2, <1>12
  <2>2. \A i \in 1..Len(q) : shouldPark'[q[i]] /\ ~BeingWoken(q[i])'
    BY <1>1, <1>4, <1>6 DEF IsQueue
  <2>3. \A u \in Threads : shouldPark'[u] => (\E i \in 1..Len(q) : q[i] = u) \/ BeingWoken(u)'
    BY <1>1, <1>6, <1>12 DEF IsQueue
  <2>4. IsQueue(q)'
    BY <1>1, <2>1, <2>2, <2>3 DEF IsQueue
  <2>5. QED
    BY <1>8, <1>9, <1>10, <2>4 DEF WaiterInv, WakerInv
<1>13. QED
  BY <1>11, <1>12

LEMMA DequeueKeeps ==
    ASSUME Inv, NEW q, IsQueue(q), WaiterInv, WakerInv, HandOverInv, NEW t \in Threads, Dequeue(t)
    PROVE  IsQueue(q)' /\ WaiterInv' /\ WakerInv' /\ HandOverInv'
<1> DEFINE h == word.head
           new == nextInQueue[h]
<1>1. /\ pc[t] = "dequeue" /\ pc' = [pc EXCEPT ![t] = "unlockReload"]
      /\ queueHead' = [queueHead EXCEPT ![t] = h] /\ newQueueHead' = [newQueueHead EXCEPT ![t] = new]
      /\ shouldPark' = shouldPark /\ nextInQueue' = nextInQueue /\ word' = word
      /\ queueTail' = IF new = Null THEN queueTail ELSE [queueTail EXCEPT ![new] = queueTail[h]]
  BY DEF Dequeue, Goto
<1>2. \A u \in Threads : u # t =>
        pc[u] \notin {"enqueue", "enqueueReload", "publish", "dequeue", "unlockReload", "unlockStore"}
  BY <1>1, OneLinker DEF Inv, OwnsQueue
<1>3. TypeOK /\ q \in Seq(Threads) /\ Len(q) \in Nat /\ \A i \in 1..Len(q) : q[i] \in Threads
  BY DEF Inv, IsQueue
<1>4. q # <<>> /\ Len(q) >= 1 /\ 1 \in 1..Len(q) /\ h = q[1] /\ h \in Threads
  BY <1>1, <1>3 DEF IsQueue, Inv, LoadedWord
<1>5. new # Null => new \in Threads /\ new # h /\ shouldPark[new] /\ ~BeingWoken(new)
  <2>1. CASE Len(q) = 1
    BY <1>4, <2>1 DEF IsQueue
  <2>2. CASE Len(q) # 1
    <3>1. 1 < Len(q) /\ 2 \in 1..Len(q)
      <4>1. Len(q) \in Nat /\ Len(q) >= 1
        BY <1>3, <1>4
      <4>2. \A n \in Nat : n >= 1 /\ n # 1 => 1 < n /\ 2 \in 1..n
        OBVIOUS
      <4>3. QED
        BY <2>2, <4>1, <4>2
    <3>2. new = q[2] /\ q[2] \in Threads /\ shouldPark[q[2]] /\ ~BeingWoken(q[2])
      BY <1>3, <1>4, <3>1 DEF IsQueue
    <3>3. q[1] # q[2]
      BY <1>4, <3>1 DEF IsQueue
    <3>4. QED
      BY <1>4, <3>2, <3>3
  <2>3. QED
    BY <2>1, <2>2
<1>6. \A u \in Threads : /\ pc'[u] = IF u = t THEN "unlockReload" ELSE pc[u]
                         /\ queueHead'[u] = IF u = t THEN h ELSE queueHead[u]
                         /\ newQueueHead'[u] = IF u = t THEN new ELSE newQueueHead[u]
                         /\ queueTail'[u] = IF u = new THEN queueTail[h] ELSE queueTail[u]
  BY <1>1, <1>3, <1>5 DEF TypeOK
<1>7. \A u \in Threads : BeingWoken(u)' <=> BeingWoken(u)
  BY <1>1, <1>6 DEF BeingWoken
<1>8. IsQueue(q)'
  <2>1. \A i \in 1..Len(q) : shouldPark'[q[i]] /\ ~BeingWoken(q[i])'
    BY <1>1, <1>3, <1>7 DEF IsQueue
  <2>2. \A u \in Threads : shouldPark'[u] =>
          (\E i \in 1..Len(q) : q[i] = u) \/ BeingWoken(u)'
    BY <1>1, <1>2, <1>4, <1>7 DEF IsQueue
  <2>3. queueTail'[h] = queueTail[h]
    BY <1>4, <1>5, <1>6
  <2>4. QED
    BY <1>1, <2>1, <2>2, <2>3 DEF IsQueue
<1>9. ASSUME NEW u \in Threads PROVE WaiterOK(u)'
  <2>1. WaiterOK(u)
    BY DEF WaiterInv
  <2>2. ~shouldPark[u] => queueTail'[u] = queueTail[u]
    BY <1>5, <1>6
  <2>3. QED
    BY <1>1, <1>2, <1>6, <2>1, <2>2 DEF WaiterOK
<1>10. ASSUME NEW u \in Threads PROVE WakerOK(u)'
  <2>1. WakerOK(u)
    BY DEF WakerInv
  <2>2. \A v \in Threads : pc'[v] \in {"unlockClear", "unlockWake"} =>
            pc'[v] = pc[v] /\ queueHead'[v] = queueHead[v]
    BY <1>6
  <2>3. ASSUME pc[u] \in {"unlockClear", "unlockWake"}
        PROVE  /\ queueHead[u] \in Threads /\ queueTail'[queueHead[u]] = queueTail[queueHead[u]]
               /\ pc'[queueHead[u]] = pc[queueHead[u]]
    <3>1. queueHead[u] \in Threads /\ queueHead[u] # t /\ BeingWoken(queueHead[u])
      BY <1>1, <2>1, <2>3 DEF WakerOK, BeingWoken
    <3>2. queueHead[u] # new
      BY <1>5, <3>1
    <3>3. QED
      BY <1>6, <3>1, <3>2
  <2> HIDE DEF new, h
  <2>4. QED
    BY <1>1, <2>1, <2>2, <2>3 DEF WakerOK
<1>11. HandOverInv'
  <2>1. ASSUME NEW u \in Threads, pc'[u] \in {"unlockReload", "unlockStore"} PROVE u = t
    BY <1>2, <1>6, <2>1
  <2>2. word'.head # Null /\ newQueueHead'[t] = nextInQueue'[word'.head]
    BY <1>1, <1>4, <1>6
  <2>3. newQueueHead'[t] # Null => queueTail'[newQueueHead'[t]] = queueTail'[word'.head]
    BY <1>1, <1>4, <1>5, <1>6
  <2>4. QED
    BY <2>1, <2>2, <2>3 DEF HandOverInv
<1>12. QED
  BY <1>8, <1>9, <1>10, <1>11 DEF WaiterInv, WakerInv

LEMMA UnlockStoreKeeps ==
    ASSUME Inv, NEW q, IsQueue(q), WaiterInv, WakerInv, HandOverInv, NEW t \in Threads, UnlockStore(t)
    PROVE  /\ q # <<>> /\ IsQueue(Tail(q))'
           /\ WaiterInv' /\ WakerInv' /\ HandOverInv'
<1> DEFINE h == word.head
           L == Len(q)
<1>1. /\ pc[t] = "unlockStore" /\ pc' = [pc EXCEPT ![t] = "unlockClear"]
      /\ queueHead[t] = h /\ cur[t] = word
      /\ queueHead' = queueHead /\ newQueueHead' = newQueueHead
      /\ shouldPark' = shouldPark /\ nextInQueue' = nextInQueue /\ queueTail' = queueTail
  BY DEF UnlockStore, Goto, Inv, LoadedWord, threadData
<1>2. word'.head = newQueueHead[t] /\ newQueueHead[t] = nextInQueue[h]
      /\ (newQueueHead[t] # Null => queueTail[newQueueHead[t]] = queueTail[h])
  BY <1>1 DEF UnlockStore, Inv, TypeOK, HandOverInv
<1>3. \A u \in Threads : u # t =>
        pc[u] \notin {"enqueue", "enqueueReload", "publish", "dequeue", "unlockReload", "unlockStore"}
  BY <1>1, OneLinker DEF Inv, OwnsQueue
<1>4. TypeOK /\ q \in Seq(Threads) /\ L \in Nat /\ \A i \in 1..L : q[i] \in Threads
  BY DEF Inv, IsQueue
<1>5. q # <<>> /\ L >= 1 /\ 1 \in 1..L /\ L \in 1..L /\ h = q[1] /\ h \in Threads
  <2>1. h # Null
    BY <1>1 DEF HandOverInv
  <2>2. QED
    BY <1>4, <2>1 DEF IsQueue
<1>6. shouldPark[h] /\ ~BeingWoken(h) /\ pc[h] \in {"park", "sleeping"} /\ h # t
  <2>1. shouldPark[h] /\ ~BeingWoken(h)
    BY <1>5 DEF IsQueue
  <2>2. QED
    BY <1>1, <1>3, <1>5, <2>1 DEF WaiterInv, WaiterOK
<1>7. \A u \in Threads : pc'[u] = IF u = t THEN "unlockClear" ELSE pc[u]
  BY <1>1, <1>4 DEF TypeOK
<1>8. \A u \in Threads : BeingWoken(u)' <=> BeingWoken(u) \/ u = h
  BY <1>1, <1>7 DEF BeingWoken
<1>9. IsQueue(Tail(q))'
  <2>1. PICK r : r = Tail(q)
    OBVIOUS
  <2>2. /\ r \in Seq(Threads) /\ Len(r) = L - 1
        /\ \A i \in 1..(L - 1) : r[i] = q[i + 1] /\ i + 1 \in 1..L
    BY <1>4, <1>5, <2>1
  <2>3. \A i, j \in 1..Len(r) : r[i] = r[j] => i = j
    <3>1. ASSUME NEW i \in 1..(L - 1), NEW j \in 1..(L - 1), r[i] = r[j] PROVE i = j
      <4>1. i + 1 = j + 1
        BY <2>2, <3>1 DEF IsQueue
      <4>2. QED
        BY <1>4, <4>1
    <3>2. QED
      BY <2>2, <3>1
  <2>4. word'.head = IF r = <<>> THEN Null ELSE r[1]
    <3>1. nextInQueue[h] = IF 1 < L THEN q[2] ELSE Null
      BY <1>5 DEF IsQueue
    <3>2. (r = <<>> <=> ~(1 < L)) /\ (1 < L => r[1] = q[2])
      BY <1>4, <1>5, <2>2
    <3>3. QED
      BY <1>2, <3>1, <3>2
  <2>5. r # <<>> => queueTail'[word'.head] = r[Len(r)]
    <3>1. ASSUME r # <<>> PROVE queueTail'[word'.head] = r[Len(r)]
      <4>1. L - 1 \in 1..(L - 1) /\ (L - 1) + 1 = L
        BY <1>4, <2>2, <3>1
      <4>2. r[Len(r)] = q[L] /\ r[1] \in Threads
        BY <2>2, <4>1
      <4>3. queueTail[h] = q[L]
        BY <1>5 DEF IsQueue
      <4>4. QED
        BY <1>1, <1>2, <2>4, <3>1, <4>2, <4>3
    <3>2. QED
      BY <3>1
  <2>6. ASSUME NEW i \in 1..Len(r)
        PROVE  /\ nextInQueue'[r[i]] = IF i < Len(r) THEN r[i + 1] ELSE Null
               /\ shouldPark'[r[i]] /\ ~BeingWoken(r[i])'
    <3>1. i \in 1..(L - 1) /\ i + 1 \in 1..L /\ r[i] = q[i + 1] /\ q[i + 1] \in Threads
      BY <1>4, <2>2
    <3>2. /\ nextInQueue[q[i + 1]] = (IF i + 1 < L THEN q[(i + 1) + 1] ELSE Null)
          /\ shouldPark[q[i + 1]] /\ ~BeingWoken(q[i + 1])
      BY <3>1 DEF IsQueue
    <3>3. q[i + 1] # h
      <4>1. i + 1 # 1
        BY <3>1, <1>4
      <4>2. QED
        BY <1>5, <3>1, <4>1 DEF IsQueue
    <3>4. i < Len(r) <=> i + 1 < L
      BY <1>4, <2>2, <3>1
    <3>5. i < Len(r) => r[i + 1] = q[(i + 1) + 1]
      <4>1. ASSUME i < Len(r) PROVE r[i + 1] = q[(i + 1) + 1]
        <5>1. i + 1 \in 1..(L - 1)
          BY <1>4, <2>2, <3>1, <4>1
        <5>2. QED
          BY <2>2, <5>1
      <4>2. QED
        BY <4>1
    <3>6. QED
      BY <1>1, <1>8, <3>1, <3>2, <3>3, <3>4, <3>5
  <2>7. ASSUME NEW u \in Threads, shouldPark'[u]
        PROVE  (\E i \in 1..Len(r) : r[i] = u) \/ BeingWoken(u)'
    <3>1. (\E i \in 1..L : q[i] = u) \/ BeingWoken(u)
      BY <1>1, <1>5, <2>7 DEF IsQueue
    <3>2. CASE BeingWoken(u) \/ u = h
      BY <1>8, <3>2
    <3>3. CASE u # h /\ ~BeingWoken(u)
      <4>1. PICK i \in 1..L : q[i] = u
        BY <3>1, <3>3
      <4>2. i # 1
        BY <1>5, <3>3, <4>1
      <4>3. i - 1 \in 1..(L - 1) /\ (i - 1) + 1 = i
        BY <1>4, <4>2
      <4>4. r[i - 1] = u /\ i - 1 \in 1..Len(r)
        BY <2>2, <4>1, <4>3
      <4>5. QED
        BY <4>4
    <3>4. QED
      BY <3>2, <3>3
  <2>8. IsQueue(r)'
    BY <2>2, <2>3, <2>4, <2>5, <2>6, <2>7 DEF IsQueue
  <2>9. QED
    BY <2>1, <2>8
<1>10. ASSUME NEW u \in Threads PROVE WaiterOK(u)'
  <2>1. WaiterOK(u)
    BY DEF WaiterInv
  <2> HIDE DEF h, L
  <2>2. QED
    BY <1>1, <1>3, <1>7, <2>1 DEF WaiterOK
<1>11. ASSUME NEW u \in Threads PROVE WakerOK(u)'
  <2>1. WakerOK(u)
    BY DEF WakerInv
  <2>2. CASE u = t
    <3>1. pc'[h] = pc[h] /\ pc'[u] = "unlockClear" /\ queueHead'[u] = h
      BY <1>1, <1>5, <1>6, <1>7, <2>2
    <3>2. ASSUME NEW v \in Threads, pc'[v] \in {"unlockClear", "unlockWake"}, queueHead'[v] = h PROVE v = t
      BY <1>1, <1>6, <1>7, <3>2 DEF BeingWoken
    <3> HIDE DEF h, L
    <3>3. QED
      BY <1>1, <1>5, <1>6, <2>2, <3>1, <3>2 DEF WakerOK
  <2>3. CASE u # t /\ pc[u] \in {"unlockClear", "unlockWake"}
    <3>1. queueHead[u] # h /\ queueHead[u] \in Threads /\ queueHead[u] # t
      BY <1>1, <1>6, <2>1, <2>3 DEF BeingWoken, WakerOK
    <3>2. ASSUME NEW v \in Threads, pc'[v] \in {"unlockClear", "unlockWake"}, queueHead'[v] = queueHead[u]
          PROVE  v = u
      BY <1>1, <1>7, <2>1, <2>3, <3>1, <3>2 DEF WakerOK
    <3>3. pc'[u] = pc[u] /\ pc'[queueHead[u]] = pc[queueHead[u]]
      BY <1>7, <2>3, <3>1
    <3> HIDE DEF h, L
    <3>4. QED
      BY <1>1, <2>1, <2>3, <3>1, <3>2, <3>3 DEF WakerOK
  <2>4. CASE u # t /\ pc[u] \notin {"unlockClear", "unlockWake"}
    BY <1>7, <2>4 DEF WakerOK
  <2>5. QED
    BY <2>2, <2>3, <2>4
<1>12. HandOverInv'
  BY <1>3, <1>7 DEF HandOverInv
<1>13. QED
  BY <1>5, <1>9, <1>10, <1>11, <1>12 DEF WaiterInv, WakerInv

LEMMA UnlockClearKeeps ==
    ASSUME Inv, NEW q, IsQueue(q), WaiterInv, WakerInv, HandOverInv, NEW t \in Threads, UnlockClear(t)
    PROVE  IsQueue(q)' /\ WaiterInv' /\ WakerInv' /\ HandOverInv'
<1> DEFINE h == queueHead[t]
<1>1. /\ pc[t] = "unlockClear" /\ pc' = [pc EXCEPT ![t] = "unlockWake"]
      /\ queueHead' = queueHead /\ newQueueHead' = newQueueHead
      /\ shouldPark' = shouldPark /\ word' = word
      /\ nextInQueue' = [nextInQueue EXCEPT ![h] = Null] /\ queueTail' = [queueTail EXCEPT ![h] = Null]
  BY DEF UnlockClear, Goto
<1>2. TypeOK /\ q \in Seq(Threads) /\ Len(q) \in Nat /\ \A i \in 1..Len(q) : q[i] \in Threads
  BY DEF Inv, IsQueue
<1>3. h \in Threads /\ shouldPark[h] /\ pc[h] \in {"park", "sleeping"} /\ BeingWoken(h)
  BY <1>1 DEF WakerInv, WakerOK, BeingWoken
<1>4. \A u \in Threads : /\ pc'[u] = IF u = t THEN "unlockWake" ELSE pc[u]
                         /\ nextInQueue'[u] = IF u = h THEN Null ELSE nextInQueue[u]
                         /\ queueTail'[u] = IF u = h THEN Null ELSE queueTail[u]
  BY <1>1, <1>2 DEF TypeOK
<1>5. \A u \in Threads : BeingWoken(u)' <=> BeingWoken(u)
  BY <1>1, <1>4 DEF BeingWoken
<1>6. \A i \in 1..Len(q) : q[i] # h
  BY <1>3 DEF IsQueue
<1>7. word.head # Null => word.head \in Threads /\ word.head # h
  <2>1. ASSUME word.head # Null PROVE \E i \in 1..Len(q) : word.head = q[i]
    <3>1. q # <<>> /\ word.head = q[1]
      BY <2>1 DEF IsQueue
    <3>2. 1 \in 1..Len(q)
      BY <1>2, <3>1
    <3>3. QED
      BY <3>1, <3>2
  <2>2. QED
    BY <1>2, <1>6, <2>1
<1>8. IsQueue(q)'
  <2>1. \A i \in 1..Len(q) : /\ nextInQueue'[q[i]] = IF i < Len(q) THEN q[i + 1] ELSE Null
                             /\ shouldPark'[q[i]] /\ ~BeingWoken(q[i])'
    BY <1>1, <1>2, <1>4, <1>5, <1>6 DEF IsQueue
  <2>2. \A u \in Threads : shouldPark'[u] =>
          \/ \E i \in 1..Len(q) : q[i] = u
          \/ BeingWoken(u)'
          \/ pc'[u] \in {"enqueueReload", "publish"} /\ word'.head = Null
    BY <1>1, <1>4, <1>5 DEF IsQueue
  <2>3. q # <<>> => queueTail'[word'.head] = q[Len(q)]
    <3>1. ASSUME q # <<>> PROVE queueTail'[word'.head] = q[Len(q)]
      <4>1. queueTail[word.head] = q[Len(q)] /\ word.head = q[1] /\ 1 \in 1..Len(q)
        BY <1>2, <3>1 DEF IsQueue
      <4>2. QED
        BY <1>1, <1>2, <1>4, <1>6, <4>1
    <3>2. QED
      BY <3>1
  <2> HIDE DEF h
  <2>4. QED
    BY <1>1, <2>1, <2>2, <2>3 DEF IsQueue
<1>9. ASSUME NEW u \in Threads PROVE WaiterOK(u)'
  <2>1. WaiterOK(u)
    BY DEF WaiterInv
  <2>2. CASE u = h
    <3>1. pc'[u] \notin {"enqueueReload", "publish"} /\ shouldPark'[u]
          /\ (u # t => pc'[u] \in {"park", "sleeping"})
      BY <1>1, <1>3, <1>4, <2>2
    <3>2. u # t
      BY <1>1, <1>3, <2>2
    <3>3. QED
      BY <3>1, <3>2 DEF WaiterOK
  <2>3. CASE u # h
    BY <1>1, <1>4, <2>1, <2>3 DEF WaiterOK
  <2>4. QED
    BY <2>2, <2>3
<1>10. ASSUME NEW u \in Threads PROVE WakerOK(u)'
  <2>1. WakerOK(u)
    BY DEF WakerInv
  <2>2. \A v \in Threads : pc'[v] \in {"unlockClear", "unlockWake"} <=> pc[v] \in {"unlockClear", "unlockWake"}
    BY <1>1, <1>4
  <2>3. ASSUME pc[u] \in {"unlockClear", "unlockWake"}
        PROVE  /\ queueHead[u] \in Threads /\ pc'[queueHead[u]] = pc[queueHead[u]]
               /\ pc'[u] = "unlockWake" => nextInQueue'[queueHead[u]] = Null /\ queueTail'[queueHead[u]] = Null
    <3>1. queueHead[u] \in Threads /\ queueHead[u] # t
      BY <1>1, <2>1, <2>3 DEF WakerOK
    <3>2. CASE u = t
      BY <1>4, <3>1, <3>2
    <3>3. CASE u # t
      BY <1>4, <2>1, <2>3, <3>1, <3>3 DEF WakerOK
    <3>4. QED
      BY <3>2, <3>3
  <2> HIDE DEF h
  <2>4. QED
    BY <1>1, <2>1, <2>2, <2>3 DEF WakerOK
<1>11. HandOverInv'
  <2>1. SUFFICES ASSUME NEW u \in Threads, pc'[u] \in {"unlockReload", "unlockStore"}
                 PROVE  /\ word'.head # Null /\ newQueueHead'[u] = nextInQueue'[word'.head]
                        /\ newQueueHead'[u] # Null => queueTail'[newQueueHead'[u]] = queueTail'[word'.head]
    BY DEF HandOverInv
  <2>2. /\ word.head # Null /\ newQueueHead[u] = nextInQueue[word.head]
        /\ newQueueHead[u] # Null => queueTail[newQueueHead[u]] = queueTail[word.head]
    BY <1>4, <2>1 DEF HandOverInv
  <2>3. newQueueHead[u] # Null => newQueueHead[u] \in Threads /\ newQueueHead[u] # h
    <3>1. q # <<>> /\ word.head = q[1] /\ 1 \in 1..Len(q)
      BY <1>2, <2>2 DEF IsQueue
    <3>2. ASSUME newQueueHead[u] # Null PROVE \E i \in 1..Len(q) : newQueueHead[u] = q[i]
      <4>1. nextInQueue[q[1]] = IF 1 < Len(q) THEN q[1 + 1] ELSE Null
        BY <3>1 DEF IsQueue
      <4>2. 1 < Len(q) /\ newQueueHead[u] = q[2]
        BY <2>2, <3>1, <3>2, <4>1
      <4>3. 2 \in 1..Len(q)
        BY <1>2, <4>2
      <4>4. QED
        BY <4>2, <4>3
    <3>3. QED
      BY <1>2, <1>6, <3>2
  <2>4. QED
    BY <1>1, <1>4, <1>7, <2>2, <2>3
<1>12. QED
  BY <1>8, <1>9, <1>10, <1>11 DEF WaiterInv, WakerInv

LEMMA UnlockWakeKeeps ==
    ASSUME Inv, NEW q, IsQueue(q), WaiterInv, WakerInv, HandOverInv, NEW t \in Threads, UnlockWake(t)
    PROVE  IsQueue(q)' /\ WaiterInv' /\ WakerInv' /\ HandOverInv'
<1> DEFINE h == queueHead[t]
<1>1. /\ pc[t] = "unlockWake" /\ pc' = [pc EXCEPT ![t] = "unlockNotify"]
      /\ queueHead' = queueHead /\ newQueueHead' = newQueueHead
      /\ shouldPark' = [shouldPark EXCEPT ![h] = FALSE] /\ word' = word
      /\ nextInQueue' = nextInQueue /\ queueTail' = queueTail
  BY DEF UnlockWake, Goto
<1>2. TypeOK /\ q \in Seq(Threads) /\ Len(q) \in Nat /\ \A i \in 1..Len(q) : q[i] \in Threads
  BY DEF Inv, IsQueue
<1>3. /\ h \in Threads /\ shouldPark[h] /\ pc[h] \in {"park", "sleeping"} /\ BeingWoken(h)
      /\ nextInQueue[h] = Null /\ queueTail[h] = Null
      /\ \A v \in Threads : pc[v] \in {"unlockClear", "unlockWake"} /\ queueHead[v] = h => v = t
  BY <1>1 DEF WakerInv, WakerOK, BeingWoken
<1>4. \A u \in Threads : /\ pc'[u] = IF u = t THEN "unlockNotify" ELSE pc[u]
                         /\ shouldPark'[u] = IF u = h THEN FALSE ELSE shouldPark[u]
  BY <1>1, <1>2 DEF TypeOK
<1>5. \A u \in Threads : BeingWoken(u)' <=> BeingWoken(u) /\ u # h
  <2>1. \A v \in Threads : pc'[v] \in {"unlockClear", "unlockWake"} <=>
                           v # t /\ pc[v] \in {"unlockClear", "unlockWake"}
    BY <1>4
  <2>2. QED
    BY <1>1, <1>3, <2>1 DEF BeingWoken
<1>6. \A i \in 1..Len(q) : q[i] # h
  BY <1>3 DEF IsQueue
<1>7. IsQueue(q)'
  <2>1. \A i \in 1..Len(q) : shouldPark'[q[i]] /\ ~BeingWoken(q[i])'
    BY <1>2, <1>4, <1>5, <1>6 DEF IsQueue
  <2>2. \A u \in Threads : shouldPark'[u] =>
          \/ \E i \in 1..Len(q) : q[i] = u
          \/ BeingWoken(u)'
          \/ pc'[u] \in {"enqueueReload", "publish"} /\ word'.head = Null
    BY <1>1, <1>4, <1>5 DEF IsQueue
  <2> HIDE DEF h
  <2>3. QED
    BY <1>1, <2>1, <2>2 DEF IsQueue
<1>8. ASSUME NEW u \in Threads PROVE WaiterOK(u)'
  <2>1. WaiterOK(u)
    BY DEF WaiterInv
  <2>2. pc'[u] \in {"enqueueReload", "publish"} => u # h /\ pc[u] = pc'[u]
    BY <1>3, <1>4
  <2>3. QED
    BY <1>1, <1>3, <1>4, <2>1, <2>2 DEF WaiterOK
<1>9. ASSUME NEW u \in Threads PROVE WakerOK(u)'
  <2>1. WakerOK(u)
    BY DEF WakerInv
  <2>2. \A v \in Threads : pc'[v] \in {"unlockClear", "unlockWake"} => pc'[v] = pc[v] /\ v # t
    BY <1>4
  <2>3. ASSUME pc'[u] \in {"unlockClear", "unlockWake"}
        PROVE  /\ queueHead[u] \in Threads /\ pc'[queueHead[u]] = pc[queueHead[u]]
               /\ shouldPark'[queueHead[u]] = shouldPark[queueHead[u]]
    <3>1. queueHead[u] \in Threads /\ queueHead[u] # t /\ queueHead[u] # h
      BY <1>1, <1>3, <2>1, <2>2, <2>3 DEF WakerOK
    <3>2. QED
      BY <1>4, <3>1
  <2> HIDE DEF h
  <2>4. QED
    BY <1>1, <2>1, <2>2, <2>3 DEF WakerOK
<1>10. HandOverInv'
  BY <1>1, <1>4 DEF HandOverInv
<1>11. QED
  BY <1>7, <1>8, <1>9, <1>10 DEF WaiterInv, WakerInv

-----------------------------------------------------------------------------
\* What a step may do to the queue.
QueueMove(q, r) ==
    \/ r = q
    \/ \E t \in Threads : r = Append(q, t)
    \/ q # <<>> /\ r = Tail(q)

LEMMA StepQueue ==
    ASSUME Inv, NEW q, IsQueue(q), WaiterInv, WakerInv, HandOverInv, [Next]_vars
    PROVE  /\ \E r \in Seq(Threads) : IsQueue(r)' /\ QueueMove(q, r)
           /\ WaiterInv' /\ WakerInv' /\ HandOverInv'
<1> DEFINE Goal == /\ \E r \in Seq(Threads) : IsQueue(r)' /\ QueueMove(q, r)
                   /\ WaiterInv' /\ WakerInv' /\ HandOverInv'
           Quiet == /\ UNCHANGED threadData /\ word'.head = word.head
                    /\ \A u \in Threads :
                        /\ pc'[u] \in {"enqueueReload", "publish"} <=> pc[u] \in {"enqueueReload", "publish"}
                        /\ shouldPark[u] => (pc'[u] \in {"park", "sleeping"} <=> pc[u] \in {"park", "sleeping"})
                        /\ pc'[u] \in {"unlockReload", "unlockStore"} =>
                              pc[u] \in {"unlockReload", "unlockStore"} /\ newQueueHead'[u] = newQueueHead[u]
                        /\ pc'[u] = "unlockClear" <=> pc[u] = "unlockClear"
                        /\ pc'[u] = "unlockWake" <=> pc[u] = "unlockWake"
                        /\ pc[u] \in {"unlockClear", "unlockWake"} => queueHead'[u] = queueHead[u]
<1>1. TypeOK /\ q \in Seq(Threads)
  BY DEF Inv, IsQueue
<1>2. ASSUME Quiet PROVE Goal
  BY <1>1, <1>2, QuietStep DEF QueueMove
<1>3. ASSUME NEW t \in Threads, Enqueue(t) PROVE Goal
  <2>1. Append(q, t) \in Seq(Threads)
    BY <1>1
  <2>2. QED
    BY <1>1, <1>3, <2>1, EnqueueKeeps DEF QueueMove
<1>4. ASSUME NEW t \in Threads, Publish(t) PROVE Goal
  <2>1. Append(q, t) \in Seq(Threads)
    BY <1>1
  <2>2. QED
    BY <1>1, <1>4, <2>1, PublishKeeps DEF QueueMove
<1>5. ASSUME NEW t \in Threads, Dequeue(t) PROVE Goal
  BY <1>1, <1>5, DequeueKeeps DEF QueueMove
<1>6. ASSUME NEW t \in Threads, UnlockStore(t) PROVE Goal
  <2>1. q # <<>> /\ IsQueue(Tail(q))' /\ WaiterInv' /\ WakerInv' /\ HandOverInv'
    BY <1>6, UnlockStoreKeeps
  <2>2. Tail(q) \in Seq(Threads)
    BY <1>1, <2>1
  <2>3. QED
    BY <2>1, <2>2 DEF QueueMove
<1>7. ASSUME NEW t \in Threads, UnlockClear(t) PROVE Goal
  BY <1>1, <1>7, UnlockClearKeeps DEF QueueMove
<1>8. ASSUME NEW t \in Threads, UnlockWake(t) PROVE Goal
  BY <1>1, <1>8, UnlockWakeKeeps DEF QueueMove
<1>9. ASSUME NEW t \in Threads, LockFast(t) PROVE Quiet
  BY <1>1, <1>9 DEF LockFast, CASWins, CASLoses, Return, Goto, TypeOK, Zero, IsLockedBit, threadData
<1>10. ASSUME NEW t \in Threads, SpuriousWakeup(t) PROVE Quiet
  BY <1>1, <1>10 DEF SpuriousWakeup, Goto, TypeOK, threadData
<1>11. ASSUME NEW t \in Threads, LockLoad(t) PROVE Quiet
  BY <1>1, <1>11 DEF LockLoad, SpinOrQueue, Goto, TypeOK, threadData
<1>12. ASSUME NEW t \in Threads, Barge(t) PROVE Quiet
  BY <1>1, <1>12 DEF Barge, SpinOrQueue, CASWins, CASLoses, Return, Goto, TypeOK, threadData
<1>13. ASSUME NEW t \in Threads, QueueReload(t) PROVE Quiet
  BY <1>1, <1>13 DEF QueueReload, Goto, TypeOK, threadData
<1>14. ASSUME NEW t \in Threads, LockQueueCAS(t) PROVE Quiet
  BY <1>1, <1>14 DEF LockQueueCAS, CASWins, CASLoses, Goto, TypeOK, threadData
<1>15. ASSUME NEW t \in Threads, EnqueueReload(t) PROVE Quiet
  BY <1>1, <1>15 DEF EnqueueReload, Goto, TypeOK, threadData
<1>16. ASSUME NEW t \in Threads, Park(t) PROVE Quiet
  BY <1>1, <1>16 DEF Park, Goto, TypeOK, threadData
<1>17. ASSUME NEW t \in Threads, UnlockFast(t) PROVE Quiet
  BY <1>1, <1>17 DEF UnlockFast, CASWins, CASLoses, Goto, TypeOK, Zero, IsLockedBit, threadData
<1>18. ASSUME NEW t \in Threads, UnlockLoad(t) PROVE Quiet
  BY <1>1, <1>18 DEF UnlockLoad, Goto, TypeOK, threadData
<1>19. ASSUME NEW t \in Threads, UnlockCAS(t) PROVE Quiet
  BY <1>1, <1>19 DEF UnlockCAS, CASWins, CASLoses, Return, Goto, TypeOK, Zero, IsLockedBit, threadData
<1>20. ASSUME NEW t \in Threads, UnlockQueueCAS(t) PROVE Quiet
  BY <1>1, <1>20 DEF UnlockQueueCAS, CASWins, CASLoses, Goto, TypeOK, threadData
<1>21. ASSUME NEW t \in Threads, UnlockReload(t) PROVE Quiet
  BY <1>1, <1>21 DEF UnlockReload, Goto, TypeOK, threadData
<1>22. ASSUME NEW t \in Threads, UnlockNotify(t) PROVE Quiet
  BY <1>1, <1>22 DEF UnlockNotify, TypeOK, threadData
<1>23. ASSUME UNCHANGED vars PROVE Goal
  <2>1. Quiet
    BY <1>23 DEF vars, threadData
  <2> HIDE DEF Quiet, Goal
  <2>2. QED
    BY <1>2, <2>1
<1> HIDE DEF Quiet, Goal
<1>24. ASSUME NEW t \in Threads, LockFast(t) \/ SpuriousWakeup(t) \/ Step(t) PROVE Goal
  <2>1. CASE Enqueue(t) \/ Publish(t) \/ Dequeue(t) \/ UnlockStore(t) \/ UnlockClear(t) \/ UnlockWake(t)
    BY <1>3, <1>4, <1>5, <1>6, <1>7, <1>8, <2>1
  <2>2. CASE \/ LockFast(t) \/ SpuriousWakeup(t) \/ LockLoad(t) \/ Barge(t) \/ QueueReload(t)
             \/ LockQueueCAS(t) \/ EnqueueReload(t) \/ Park(t) \/ UnlockFast(t) \/ UnlockLoad(t)
             \/ UnlockCAS(t) \/ UnlockQueueCAS(t) \/ UnlockReload(t) \/ UnlockNotify(t)
    <3>1. Quiet
      BY <1>9, <1>10, <1>11, <1>12, <1>13, <1>14, <1>15, <1>16, <1>17, <1>18, <1>19, <1>20,
         <1>21, <1>22, <2>2
    <3>2. QED
      BY <1>2, <3>1
  <2>3. QED
    BY <1>24, <2>1, <2>2 DEF Step
<1>25. Goal
  BY <1>23, <1>24 DEF Next
<1>26. QED
  BY <1>25 DEF Goal

(* The inductive invariant of the queue.                                    *)
QueueInv ==
    /\ Inv
    /\ \E q \in Seq(Threads) : IsQueue(q)
    /\ WaiterInv /\ WakerInv /\ HandOverInv

LEMMA QueueInvariantHolds == Spec => []QueueInv
<1>1. Init => QueueInv
  <2> SUFFICES ASSUME Init PROVE QueueInv
    OBVIOUS
  <2>1. WaiterInv /\ WakerInv /\ HandOverInv
    BY DEF Init, WaiterInv, WaiterOK, WakerInv, WakerOK, HandOverInv
  <2>2. PICK q : q = <<>>
    OBVIOUS
  <2>3. q \in Seq(Threads) /\ Len(q) = 0 /\ 1..Len(q) = {}
    BY <2>2
  <2>4. IsQueue(q)
    BY <2>2, <2>3 DEF Init, IsQueue, Zero
  <2>5. QED
    BY InitInv, <2>1, <2>3, <2>4 DEF QueueInv
<1>2. QueueInv /\ [Next]_vars => QueueInv'
  <2> SUFFICES ASSUME QueueInv, [Next]_vars PROVE QueueInv'
    OBVIOUS
  <2>1. PICK q \in Seq(Threads) : IsQueue(q)
    BY DEF QueueInv
  <2>2. Inv'
    BY StepType, StepExclusion DEF QueueInv, Inv
  <2>3. (\E r \in Seq(Threads) : IsQueue(r)') /\ WaiterInv' /\ WakerInv' /\ HandOverInv'
    BY <2>1, StepQueue DEF QueueInv
  <2>4. QED
    BY <2>2, <2>3 DEF QueueInv
<1>3. QED
  BY <1>1, <1>2, PTL DEF Spec

(* A thread that spins or is about to queue up is linked nowhere: unlock()  *)
(* has cleared its ThreadData before it let shouldPark fall.                *)
THEOREM ThreadDataStaysClear == Spec => []ThreadDataIsClear
<1>1. QueueInv => ThreadDataIsClear
  BY DEF QueueInv, WaiterInv, WaiterOK, ThreadDataIsClear
<1>2. QED
  BY <1>1, QueueInvariantHolds, PTL

(* However lock() and unlock() interleave, a parked thread is linked in the *)
(* queue once or is about to be woken by exactly one unlock(), and the      *)
(* queue ends, at the tail its head records.                                *)
THEOREM NobodyForgotten == Spec => []NoWaiterForgotten
<1>1. ASSUME QueueInv PROVE NoWaiterForgotten
  <2>1. PICK q \in Seq(Threads) : IsQueue(q)
    BY <1>1 DEF QueueInv
  <2>2. TypeOK /\ WaiterInv /\ WakerInv
    BY <1>1 DEF QueueInv, Inv
  <2>3. Queue = q /\ QueueLength = Len(q) /\ Chain[Cardinality(Threads)] = Null
    BY <2>1, <2>2, ChainIsQueue
  <2>4. word.head # Null => queueTail[word.head] = Queue[QueueLength]
    BY <2>1, <2>3 DEF IsQueue
  <2>5. ASSUME NEW t \in Threads PROVE t \in Queued <=> \E i \in 1..Len(q) : q[i] = t
    BY <2>3 DEF Queued
  <2>6. ASSUME NEW t \in Threads, t \in Queued PROVE shouldPark[t] /\ ~BeingWoken(t)
    BY <2>1, <2>5, <2>6 DEF IsQueue
  <2>7. ASSUME NEW t \in Threads, pc[t] \in {"park", "sleeping"}, shouldPark[t]
        PROVE  (t \in Queued) # BeingWoken(t)
    <3>1. t \in Queued \/ BeingWoken(t)
      BY <2>1, <2>5, <2>7 DEF IsQueue
    <3>2. QED
      BY <2>6, <3>1
  <2>8. ASSUME NEW u \in Threads, NEW v \in Threads,
               pc[u] \in {"unlockClear", "unlockWake"}, pc[v] \in {"unlockClear", "unlockWake"},
               queueHead[u] = queueHead[v]
        PROVE  u = v
    BY <2>2, <2>8 DEF WakerInv, WakerOK
  <2>9. QED
    BY <2>3, <2>4, <2>6, <2>7, <2>8 DEF NoWaiterForgotten
<1>2. QED
  BY <1>1, QueueInvariantHolds, PTL

LEMMA QueueOfLinks == \A q \in Seq(Threads) : TypeOK /\ IsQueue(q) => Queue = q
BY ChainIsQueue

(* Threads are queued at the tail and let go from the head, one at a time.  *)
THEOREM WordLockQueueIsFIFO == Spec => QueueIsFIFO
<1>1. (\A q \in Seq(Threads) : TypeOK /\ IsQueue(q) => Queue = q)'
  BY QueueOfLinks, PTL
<1>2. ASSUME QueueInv, [Next]_vars PROVE QueueMove(Queue, Queue')
  <2>1. PICK q \in Seq(Threads) : IsQueue(q)
    BY <1>2 DEF QueueInv
  <2>2. PICK r \in Seq(Threads) : IsQueue(r)' /\ QueueMove(q, r)
    BY <1>2, <2>1, StepQueue DEF QueueInv
  <2>3. TypeOK /\ TypeOK'
    BY <1>2, StepType DEF QueueInv, Inv
  <2>4. Queue = q
    BY <2>1, <2>3, QueueOfLinks
  <2>5. Queue' = r
    BY <1>1, <2>2, <2>3
  <2>6. QED
    BY <2>2, <2>4, <2>5
<1>3. QED
  BY <1>2, QueueInvariantHolds, PTL DEF Spec, QueueIsFIFO, QueueMove
=============================================================================
