----------------------------- MODULE MonitorProofs -----------------------------
(***************************************************************************)
(* Proofs about WTF::Condition used with a WTF::Lock as a monitor, for any  *)
(* finite sets of threads and addresses and any timeouts: m_hasWaiters      *)
(* never denies a waiter nobody is going to unpark.  The parking lot's      *)
(* promises are used, so with finite timeouts NoStaleUnparker is assumed.   *)
(***************************************************************************)
EXTENDS MonitorClients, ParkingLotProofs

(* A thread that lockSlow() is about to queue is queued on the lock, though *)
(* the same thread parks on the condition at other times.                   *)
ParksOnLock ==
    \A t \in Threads : lockPc[t] = "parking" /\ parkPc[t] = "enqueue" => parkAddress[t] = TheLock

LabelsOK ==
    lockPc \in [Threads -> LockLabels] /\ condPc \in [Threads -> CondLabels] /\ hasWaiters \in BOOLEAN

MonitorInv == LotInv /\ LabelsOK /\ ParksOnLock /\ WaitersRemembered

USE ConditionAssumption, LockAssumption DEF LockLabels, CondLabels

-----------------------------------------------------------------------------
(* A step that leaves m_hasWaiters and the condition's queue alone, and does *)
(* not end a notifyAll(), forgets nobody.                                    *)
LEMMA WaitersStillRemembered ==
    ASSUME WaitersRemembered, UNCHANGED hasWaiters,
           queue'[TheCondition] = queue[TheCondition] \/ queue'[TheCondition] = <<>>,
           \A t \in Threads : condPc[t] = "notifyAllUnpark" => condPc'[t] = "notifyAllUnpark"
    PROVE  WaitersRemembered'
BY DEF WaitersRemembered

(* The steps on m_byte.                                                     *)
ByteStep(t) ==
    \/ LockFast(t) \/ LockLoad(t) \/ Barge(t) \/ SetParked(t)
    \/ UnlockFast(t) \/ UnlockLoad(t) \/ UnlockCAS(t) \/ UnlockReturns(t)

LEMMA ByteStepLabels ==
    ASSUME NEW t \in Threads, ByteStep(t)
    PROVE  /\ UNCHANGED lotVars
           /\ \E l \in LockLabels \ {"parking"} : lockPc' = [lockPc EXCEPT ![t] = l]
BY DEF ByteStep, LockFast, LockLoad, Barge, SetParked, SpinOrPark, UnlockFast, UnlockLoad, UnlockCAS,
       UnlockReturns, Return, Goto

(* Steps that leave the parking lot alone.                                  *)
LEMMA LotUntouched ==
    ASSUME MonitorInv, UNCHANGED lotVars, NEW t \in Threads,
           \/ UNCHANGED lockPc
           \/ \E l \in LockLabels \ {"parking"} : lockPc' = [lockPc EXCEPT ![t] = l]
    PROVE  /\ LotInv' /\ ParksOnLock' /\ lockPc' \in [Threads -> LockLabels]
           /\ queue' = queue
<1>1. UNCHANGED <<queue, parkPc, parkAddress>>
  BY DEF lotVars, parkVars
<1>2. LotInv'
  BY LotUnchanged DEF MonitorInv
<1>3. lockPc' \in [Threads -> LockLabels] /\ ParksOnLock'
  BY <1>1 DEF MonitorInv, LabelsOK, ParksOnLock
<1>4. QED
  BY <1>1, <1>2, <1>3

LEMMA ByteStepInv ==
    ASSUME MonitorInv, NEW t \in Threads, ByteStep(t), UNCHANGED hasWaiters,
           \/ UNCHANGED condPc
           \/ condPc[t] # "notifyAllUnpark" /\ \E l \in CondLabels : condPc' = [condPc EXCEPT ![t] = l]
    PROVE  MonitorInv'
<1>1. LotInv' /\ ParksOnLock' /\ lockPc' \in [Threads -> LockLabels] /\ queue' = queue
  BY ByteStepLabels, LotUntouched
<1>2. LabelsOK'
  BY <1>1 DEF MonitorInv, LabelsOK
<1>3. WaitersRemembered'
  BY <1>1, WaitersStillRemembered DEF MonitorInv, LabelsOK
<1>4. QED
  BY <1>1, <1>2, <1>3 DEF MonitorInv

(* Steps of the condition and of the monitor's callers on their own state.  *)
LEMMA CondStepInv ==
    ASSUME MonitorInv, NEW t \in Threads, UNCHANGED <<lotVars, lockVars, hasWaiters>>,
           \/ UNCHANGED condPc
           \/ condPc[t] # "notifyAllUnpark" /\ \E l \in CondLabels : condPc' = [condPc EXCEPT ![t] = l]
    PROVE  MonitorInv'
<1>1. LotInv' /\ ParksOnLock' /\ lockPc' \in [Threads -> LockLabels] /\ queue' = queue
  BY LotUntouched DEF lockVars
<1>2. LabelsOK'
  BY <1>1 DEF MonitorInv, LabelsOK
<1>3. WaitersRemembered'
  BY <1>1, WaitersStillRemembered DEF MonitorInv, LabelsOK
<1>4. QED
  BY <1>1, <1>2, <1>3 DEF MonitorInv

(* The steps of the parking lot for calls under way.                        *)
LEMMA LotStepKeeps ==
    ASSUME MonitorInv, NEW t \in Threads, UNCHANGED <<lockVars, condVars>>,
           LotStep(t) \/ LotEnvironment(t)
    PROVE  MonitorInv'
<1> USE DEF MonitorInv
<1>1. LotInv'
  BY LotStepInv
<1>2. LabelsOK' /\ UNCHANGED <<lockPc, condPc, hasWaiters>>
  BY DEF LabelsOK, lockVars, condVars
<1>3. \A x \in Threads : parkPc'[x] = "enqueue" => parkPc[x] = "enqueue" /\ parkAddress'[x] = parkAddress[x]
  <2> USE DEF LotInv, LotTypeOK
  <2>1. CASE SleepCheck(t)
    BY <2>1 DEF SleepCheck, ParkReturn, ParkGoto
  <2>2. CASE TimeoutWakeup(t) \/ DequeueSelf(t) \/ SpuriousWakeup(t)
    BY <2>2 DEF TimeoutWakeup, DequeueSelf, SpuriousWakeup, ParkGoto
  <2>3. CASE ClearSelf(t)
    BY <2>3 DEF ClearSelf, ParkReturn, ParkGoto
  <2>4. CASE ClearAddress(t)
    BY <2>4 DEF ClearAddress, parkVars
  <2>5. CASE NotifyOne(t)
    BY <2>5 DEF NotifyOne
  <2>6. CASE Expire(t)
    BY <2>6 DEF Expire
  <2>7. QED
    BY <2>1, <2>2, <2>3, <2>4, <2>5, <2>6 DEF LotStep, ParkStep, UnparkStep, LotEnvironment
<1>4. ParksOnLock'
  BY <1>2, <1>3 DEF ParksOnLock
<1>5. queue[TheCondition] = <<>> => queue'[TheCondition] = <<>>
  <2>1. CASE DequeueSelf(t)
    <3>1. SUFFICES ASSUME queue[TheCondition] = <<>> PROVE queue'[TheCondition] = <<>>
      OBVIOUS
    <3>2. queue'[TheCondition] \in {queue[TheCondition], Kept(queue[TheCondition], Threads \ {t})}
      BY <2>1 DEF DequeueSelf, LotInv, LotTypeOK
    <3>3. Kept(queue[TheCondition], Threads \ {t}) = <<>>
      BY <3>1, EmptyQueue, KeptNone
    <3>4. QED
      BY <3>1, <3>2, <3>3
  <2>2. CASE ~DequeueSelf(t)
    <3>1. queue' = queue
      BY <2>2 DEF LotStep, ParkStep, UnparkStep, LotEnvironment, SleepCheck, TimeoutWakeup,
         SpuriousWakeup, ClearSelf, ClearAddress, NotifyOne, Expire
    <3>2. QED
      BY <3>1
  <2>3. QED
    BY <2>1, <2>2
<1>6. WaitersRemembered'
  BY <1>2, <1>5 DEF WaitersRemembered
<1>7. QED
  BY <1>1, <1>2, <1>4, <1>6

(* The calls of lockSlow() into the parking lot leave the condition's queue *)
(* alone.                                                                   *)
LEMMA LockParkCallInv ==
    ASSUME MonitorInv, ParksFresh, NEW t \in Threads, UNCHANGED condVars,
           \/ CompareAndPark(t) \/ CompareAndEnqueue(t) \/ LockBeforeSleep(t) \/ LockParkReturned(t)
    PROVE  MonitorInv'
<1> USE DEF MonitorInv, LabelsOK, LotInv, LotTypeOK
<1>1. UNCHANGED <<condPc, hasWaiters>>
  BY DEF condVars
<1>2. CASE CompareAndPark(t)
  <2>1. ParkBegin(t, TheLock, FALSE) /\ lockPc' = [lockPc EXCEPT ![t] = "parking"]
    BY <1>2 DEF CompareAndPark, Goto
  <2>2. LotInv'
    BY <2>1, ParkBeginInv DEF ParksFresh
  <2>3. ParksOnLock' /\ queue' = queue
    BY <2>1 DEF ParkBegin, ParkGoto, ParksOnLock
  <2>4. QED
    BY <1>1, <2>1, <2>2, <2>3, WaitersStillRemembered
<1>3. CASE CompareAndEnqueue(t)
  <2>1. /\ ParkEnqueue(t, byte = HeldAndParked) /\ lockPc' = lockPc /\ lockPc[t] = "parking"
        /\ (byte = HeldAndParked) \in BOOLEAN /\ parkPc[t] = "enqueue"
    BY <1>3 DEF CompareAndEnqueue, lockVars, ParkEnqueue
  <2>2. LotInv'
    BY <2>1, ParkEnqueueInv
  <2>3. parkAddress[t] = TheLock
    BY <2>1 DEF ParksOnLock
  <2>4. queue'[TheCondition] = queue[TheCondition]
    BY <2>1, <2>3 DEF ParkEnqueue
  <2>5. ParksOnLock'
    BY <2>1 DEF ParkEnqueue, ParkReturn, ParkGoto, ParksOnLock
  <2>6. QED
    BY <1>1, <2>1, <2>2, <2>4, <2>5, WaitersStillRemembered
<1>4. CASE LockBeforeSleep(t)
  <2>1. BeforeSleepReturns(t) /\ lockPc' = lockPc
    BY <1>4 DEF LockBeforeSleep, lockVars
  <2>2. LotInv'
    BY <2>1, BeforeSleepReturnsInv
  <2>3. ParksOnLock' /\ queue' = queue
    BY <2>1 DEF BeforeSleepReturns, ParkGoto, ParksOnLock
  <2>4. QED
    BY <1>1, <2>1, <2>2, <2>3, WaitersStillRemembered
<1>5. CASE LockParkReturned(t)
  <2>1. ParkReturned(t) /\ lockPc' = [lockPc EXCEPT ![t] = "lockLoad"]
    BY <1>5 DEF LockParkReturned, Goto
  <2>2. LotInv'
    BY <2>1, ParkReturnedInv
  <2>3. ParksOnLock' /\ queue' = queue
    BY <2>1 DEF ParkReturned, ParkGoto, ParksOnLock
  <2>4. QED
    BY <1>1, <2>1, <2>2, <2>3, WaitersStillRemembered
<1>6. QED
  BY <1>2, <1>3, <1>4, <1>5

LEMMA UnlockUnparkInv ==
    ASSUME MonitorInv, NEW t \in Threads, UNCHANGED condVars, UnlockUnpark(t)
    PROVE  MonitorInv'
<1> USE DEF MonitorInv, LabelsOK
<1>1. UNCHANGED <<condPc, hasWaiters>>
  BY DEF condVars
<1>2. UnparkOneDequeue(t, TheLock) /\ lockPc' = [lockPc EXCEPT ![t] = "unparking"]
  BY DEF UnlockUnpark, Goto
<1>3. LotInv' /\ queue'[TheCondition] = queue[TheCondition]
  BY <1>2, UnparkOneInv
<1>4. ParksOnLock'
  BY <1>2 DEF UnparkOneDequeue, parkVars, ParksOnLock
<1>5. QED
  BY <1>1, <1>2, <1>3, <1>4, WaitersStillRemembered

(* waitUntil(): the waiter is announced in the step that queues it.         *)
LEMMA WaitStepInv ==
    ASSUME MonitorInv, ParksFresh, NEW t \in Threads,
           \/ \E finite \in BOOLEAN : WaitBegin(t, finite)
           \/ WaitEnqueue(t) \/ WaitSleep(t) \/ WaitParkReturned(t)
    PROVE  MonitorInv'
<1> USE DEF MonitorInv, LabelsOK, LotInv, LotTypeOK
<1>1. UNCHANGED lockPc
  BY DEF WaitBegin, WaitEnqueue, WaitSleep, WaitParkReturned, lockVars
<1>2. ASSUME NEW finite \in BOOLEAN, WaitBegin(t, finite) PROVE MonitorInv'
  <2>1. /\ ParkBegin(t, TheCondition, finite) /\ condPc[t] = "out" /\ lockPc[t] = "held"
        /\ condPc' = [condPc EXCEPT ![t] = "waiting"] /\ hasWaiters' = hasWaiters
    BY <1>2 DEF WaitBegin, CondGoto
  <2>2. LotInv'
    <3>1. \A u \in Threads : ~ToWake(u, t)
      BY <2>1 DEF ParksFresh
    <3>2. QED
      BY <2>1, <3>1, ParkBeginInv, SMTT(30)
  <2>3. ParksOnLock' /\ queue' = queue
    BY <1>1, <2>1 DEF ParkBegin, ParkGoto, ParksOnLock
  <2>4. QED
    BY <1>1, <2>1, <2>2, <2>3, WaitersStillRemembered
<1>3. CASE WaitEnqueue(t)
  <2>1. ParkEnqueue(t, TRUE) /\ hasWaiters' = TRUE /\ condPc' = condPc
    BY <1>3 DEF WaitEnqueue
  <2>2. LotInv'
    BY <2>1, ParkEnqueueInv
  <2>3. ParksOnLock' /\ WaitersRemembered'
    BY <1>1, <2>1 DEF ParkEnqueue, ParkGoto, ParksOnLock, WaitersRemembered
  <2>4. QED
    BY <1>1, <2>1, <2>2, <2>3
<1>4. CASE WaitSleep(t)
  <2>1. BeforeSleepReturns(t) /\ UNCHANGED <<condPc, hasWaiters>>
    BY <1>4 DEF WaitSleep, condVars
  <2>2. LotInv'
    BY <2>1, BeforeSleepReturnsInv
  <2>3. ParksOnLock' /\ queue' = queue
    BY <1>1, <2>1 DEF BeforeSleepReturns, ParkGoto, ParksOnLock
  <2>4. QED
    BY <1>1, <2>1, <2>2, <2>3, WaitersStillRemembered
<1>5. CASE WaitParkReturned(t)
  <2>1. /\ ParkReturned(t) /\ condPc[t] = "waiting" /\ condPc' = [condPc EXCEPT ![t] = "relock"]
        /\ hasWaiters' = hasWaiters
    BY <1>5 DEF WaitParkReturned, CondGoto
  <2>2. LotInv'
    BY <2>1, ParkReturnedInv
  <2>3. ParksOnLock' /\ queue' = queue
    BY <1>1, <2>1 DEF ParkReturned, ParkGoto, ParksOnLock
  <2>4. QED
    BY <1>1, <2>1, <2>2, <2>3, WaitersStillRemembered
<1>6. QED
  BY <1>2, <1>3, <1>4, <1>5

(* notifyOne() clears m_hasWaiters only when it dequeues the last waiter.   *)
LEMMA NotifyOneUnparkInv ==
    ASSUME MonitorInv, NEW t \in Threads, NotifyOneUnpark(t)
    PROVE  MonitorInv'
<1> USE DEF MonitorInv, LabelsOK
<1>1. /\ UnparkOneDequeue(t, TheCondition) /\ condPc[t] = "notifyOneUnpark" /\ lockPc' = lockPc
      /\ condPc' = [condPc EXCEPT ![t] = "notifying"]
  BY DEF NotifyOneUnpark, CondGoto, lockVars
<1>2. PICK result \in UnparkResults(TheCondition) :
         hasWaiters' = (hasWaiters /\ result.mayHaveMoreThreads)
  BY DEF NotifyOneUnpark
<1>3. hasWaiters' \in BOOLEAN
  BY <1>2
<1>4. /\ LotInv'
      /\ queue[TheCondition] = <<>> => queue' = queue
      /\ queue[TheCondition] # <<>> =>
           /\ queue'[TheCondition] \in Seq(Threads)
           /\ Members(queue'[TheCondition]) = Members(queue[TheCondition]) \ {Head(queue[TheCondition])}
  BY <1>1, UnparkOneInv
<1>5. ParksOnLock'
  BY <1>1 DEF UnparkOneDequeue, parkVars, ParksOnLock
<1>6. WaitersRemembered'
  <2>1. SUFFICES ASSUME queue'[TheCondition] # <<>>, ~hasWaiters'
                 PROVE  \E u \in Threads : condPc'[u] = "notifyAllUnpark"
    BY DEF WaitersRemembered
  <2>2. queue[TheCondition] # <<>>
    BY <1>4, <2>1
  <2>3. CASE ~hasWaiters
    BY <1>1, <2>2, <2>3 DEF WaitersRemembered
  <2>4. CASE hasWaiters
    <3>1. PICK w : w \in Members(queue'[TheCondition])
      BY <1>4, <2>1, <2>2, NonEmptyQueue
    <3>2. w \in Members(queue[TheCondition]) /\ w # Head(queue[TheCondition])
      BY <1>4, <2>2, <3>1
    <3>3. PICK i \in 1..Len(queue[TheCondition]) : queue[TheCondition][i] = w
      BY <3>2 DEF Members
    <3>4. Len(queue[TheCondition]) > 1
      <4>1. queue[TheCondition] \in Seq(Threads)
        BY DEF LotInv, LotTypeOK
      <4>2. i # 1 /\ Len(queue[TheCondition]) \in Nat
        BY <2>2, <3>2, <3>3, <4>1
      <4>3. QED
        BY <3>3, <4>2
    <3>5. result.mayHaveMoreThreads
      BY <3>4, WaitingIsQueue DEF UnparkResults
    <3>6. QED
      BY <1>2, <2>1, <2>4, <3>5
  <2>5. QED
    BY <2>3, <2>4
<1>7. QED
  BY <1>1, <1>3, <1>4, <1>5, <1>6

(* notifyAll() owes the waiters its unparkAll() from the moment it has      *)
(* cleared m_hasWaiters, and that leaves none of them.                      *)
LEMMA NotifyAllInv ==
    ASSUME MonitorInv, NEW t \in Threads, NotifyAllStore(t) \/ NotifyAllUnpark(t)
    PROVE  MonitorInv'
<1> USE DEF MonitorInv, LabelsOK
<1>1. CASE NotifyAllStore(t)
  <2>1. /\ UNCHANGED lotVars /\ lockPc' = lockPc /\ hasWaiters' = FALSE
        /\ condPc' = [condPc EXCEPT ![t] = "notifyAllUnpark"]
    BY <1>1 DEF NotifyAllStore, CondGoto, lockVars
  <2>2. LotInv' /\ ParksOnLock'
    BY <2>1, LotUntouched
  <2>3. LabelsOK' /\ WaitersRemembered'
    BY <2>1 DEF WaitersRemembered
  <2>4. QED
    BY <2>2, <2>3
<1>2. CASE NotifyAllUnpark(t)
  <2>1. /\ UnparkAllDequeue(t, TheCondition) /\ lockPc' = lockPc /\ hasWaiters' = hasWaiters
        /\ condPc' = [condPc EXCEPT ![t] = "notifying"]
    BY <1>2 DEF NotifyAllUnpark, CondGoto, lockVars
  <2>2. LotInv' /\ queue' = [queue EXCEPT ![TheCondition] = <<>>]
    BY <2>1, UnparkAllInv
  <2>3. queue'[TheCondition] = <<>>
    BY <2>2 DEF LotInv, LotTypeOK
  <2>4. ParksOnLock'
    BY <2>1 DEF UnparkAllDequeue, parkVars, ParksOnLock
  <2>5. QED
    BY <2>1, <2>2, <2>3, <2>4 DEF WaitersRemembered
<1>3. QED
  BY <1>1, <1>2

-----------------------------------------------------------------------------
LEMMA MonitorStepInv == MonitorInv /\ ParksFresh /\ [Next]_vars => MonitorInv'
<1> SUFFICES ASSUME MonitorInv, ParksFresh, [Next]_vars PROVE MonitorInv'
  OBVIOUS
<1>1. ASSUME NEW t \in Threads, Enter(t) \/ Leave(t) \/ WaitUnlock(t) PROVE MonitorInv'
  BY <1>1, ByteStepInv DEF Enter, Leave, WaitUnlock, ByteStep, condVars
<1>2. ASSUME NEW t \in Threads, WaitRelock(t) PROVE MonitorInv'
  <2>1. ByteStep(t) /\ UNCHANGED hasWaiters
    BY <1>2 DEF WaitRelock, ByteStep
  <2>2. condPc[t] # "notifyAllUnpark" /\ \E l \in CondLabels : condPc' = [condPc EXCEPT ![t] = l]
    BY <1>2 DEF WaitRelock, CondGoto
  <2>3. QED
    BY <2>1, <2>2, ByteStepInv
<1>3. ASSUME NEW t \in Threads,
             \/ Produce(t) \/ Consume(t) \/ GiveUp(t) \/ Announce(t)
             \/ WaitPastTimeout(t) \/ WaitReturns(t) \/ NotifyReturns(t)
      PROVE  MonitorInv'
  <2>1. UNCHANGED <<lotVars, lockVars, hasWaiters>>
    BY <1>3 DEF Produce, Consume, GiveUp, Announce, NotifyOneLoad, NotifyAllLoad, WaitPastTimeout,
                WaitReturns, NotifyReturns, condVars
  <2>2. \/ UNCHANGED condPc
        \/ condPc[t] # "notifyAllUnpark" /\ \E l \in CondLabels : condPc' = [condPc EXCEPT ![t] = l]
    BY <1>3 DEF Produce, Consume, GiveUp, Announce, NotifyOneLoad, NotifyAllLoad, MayNotify,
                WaitPastTimeout, WaitReturns, NotifyReturns, CondGoto, condVars
  <2>3. QED
    BY <2>1, <2>2, CondStepInv
<1>4. ASSUME NEW t \in Threads, Wait(t) PROVE MonitorInv'
  BY <1>3, <1>4, WaitStepInv DEF Wait
<1>5. ASSUME NEW t \in Threads, WaitStep(t) PROVE MonitorInv'
  BY <1>1, <1>2, <1>3, <1>5, WaitStepInv DEF WaitStep
<1>6. ASSUME NEW t \in Threads, NotifyStep(t) PROVE MonitorInv'
  BY <1>3, <1>6, NotifyOneUnparkInv, NotifyAllInv DEF NotifyStep
<1>7. ASSUME NEW t \in Threads, InnerLockStep(t) PROVE MonitorInv'
  <2>1. UNCHANGED condVars /\ UNCHANGED hasWaiters /\ UNCHANGED condPc
    BY <1>7 DEF InnerLockStep, condVars
  <2>2. CASE ByteStep(t)
    BY <2>1, <2>2, ByteStepInv
  <2>3. CASE CompareAndPark(t) \/ CompareAndEnqueue(t) \/ LockBeforeSleep(t) \/ LockParkReturned(t)
    BY <2>1, <2>3, LockParkCallInv
  <2>4. CASE UnlockUnpark(t)
    BY <2>1, <2>4, UnlockUnparkInv
  <2>5. CASE LockParkStep(t) \/ LockUnparkStep(t)
    BY <2>1, <2>5, LotStepKeeps DEF LockParkStep, LockUnparkStep, LotStep
  <2>6. QED
    BY <1>7, <2>2, <2>3, <2>4, <2>5 DEF InnerLockStep, LockStep, UnlockStep, ByteStep
<1>8. ASSUME NEW t \in Threads, Environment(t) PROVE MonitorInv'
  BY <1>8, LotStepKeeps DEF Environment
<1>9. CASE UNCHANGED vars
  <2>1. UNCHANGED lotVars /\ UNCHANGED <<queue, parkPc, parkAddress>> /\ UNCHANGED <<lockPc, condPc, hasWaiters>>
    BY <1>9 DEF vars, lockVars, condVars, lotVars, parkVars
  <2>2. QED
    BY <2>1, LotUnchanged DEF MonitorInv, LabelsOK, ParksOnLock, WaitersRemembered
<1>10. QED
  BY <1>1, <1>3, <1>4, <1>5, <1>6, <1>7, <1>8, <1>9 DEF Next, Step, Calls

LEMMA MonitorInitInv == Init => MonitorInv
<1>1. Init => LabelsOK
  BY DEF Init, LockInit, ConditionInit, LabelsOK
<1>2. Init => ParksOnLock /\ WaitersRemembered
  BY DEF Init, LotInit, ParksOnLock, WaitersRemembered
<1>3. QED
  BY <1>1, <1>2, LotInitInv DEF Init, MonitorInv

LEMMA MonitorInvHolds == Spec /\ []NoStaleUnparker => []MonitorInv
<1>1. MonitorInv => LotInv
  BY DEF MonitorInv
<1>2. QED
  BY <1>1, FreshUnlessStale, MonitorInitInv, MonitorStepInv, PTL DEF Spec

(* m_hasWaiters never denies a waiter that no notifyAll() under way is      *)
(* certain to unpark.  Timeouts may race with unparkers, as long as no      *)
(* thread parks again before its unparker has cleared its address.          *)
THEOREM WaitersAreRemembered == Spec /\ []NoStaleUnparker => []WaitersRemembered
BY MonitorInvHolds, PTL DEF MonitorInv

-----------------------------------------------------------------------------
(* Without finite timeouts no thread times out, and nothing is assumed.     *)
Untimed == NobodyTimesOut /\ NobodyHasTimedOut

LEMMA UntimedLotCall ==
    ASSUME MonitorInv, Untimed, NEW t \in Threads,
           \/ \E a \in Addresses : ParkBegin(t, a, FALSE)
           \/ \E valid \in BOOLEAN : ParkEnqueue(t, valid)
           \/ BeforeSleepReturns(t) \/ ParkReturned(t)
           \/ \E a \in Addresses : UnparkOneDequeue(t, a) \/ UnparkAllDequeue(t, a)
           \/ LotStep(t) \/ LotEnvironment(t)
    PROVE  Untimed'
<1> USE DEF Untimed, MonitorInv, LotInv
<1>1. NobodyHasTimedOut'
  BY UntimedStep
<1>2. timed' \in {timed} \cup {[timed EXCEPT ![u] = FALSE] : u \in Threads}
  BY DEF ParkBegin, ParkEnqueue, ParkReturn, BeforeSleepReturns, ParkReturned, UnparkOneDequeue,
         UnparkAllDequeue, parkVars, LotStep, ParkStep, UnparkStep, LotEnvironment, SleepCheck,
         TimeoutWakeup, DequeueSelf, ClearSelf, ClearAddress, NotifyOne, Expire, SpuriousWakeup
<1>3. NobodyTimesOut'
  BY <1>2 DEF NobodyTimesOut, LotTypeOK
<1>4. QED
  BY <1>1, <1>3

LEMMA UntimedMonitorStep ==
    ASSUME "future" \notin Timeouts, MonitorInv, Untimed, [Next]_vars PROVE Untimed'
<1>1. ASSUME UNCHANGED lotVars PROVE Untimed'
  BY <1>1 DEF lotVars, parkVars, unparkVars, ToWake, Untimed, NobodyTimesOut, NobodyHasTimedOut
<1>2. ASSUME NEW t \in Threads, ByteStep(t) PROVE Untimed'
  BY <1>1, <1>2, ByteStepLabels
<1>3. ASSUME NEW t \in Threads, Enter(t) \/ Leave(t) PROVE Untimed'
  BY <1>2, <1>3 DEF Enter, Leave, ByteStep
<1>4. ASSUME NEW t \in Threads, Produce(t) \/ Consume(t) \/ GiveUp(t) \/ Announce(t) PROVE Untimed'
  BY <1>1, <1>4 DEF Produce, Consume, GiveUp, Announce, NotifyOneLoad, NotifyAllLoad
<1>5. ASSUME NEW t \in Threads, Wait(t) PROVE Untimed'
  <2>1. CASE WaitBegin(t, FALSE)
    BY <2>1, UntimedLotCall DEF WaitBegin
  <2>2. CASE WaitPastTimeout(t)
    BY <1>1, <2>2 DEF WaitPastTimeout
  <2>3. QED
    BY <1>5, <2>1, <2>2 DEF Wait
<1>6. ASSUME NEW t \in Threads, WaitStep(t) PROVE Untimed'
  <2>1. CASE WaitUnlock(t) \/ WaitRelock(t)
    BY <1>2, <2>1 DEF WaitUnlock, WaitRelock, ByteStep
  <2>2. CASE WaitReturns(t)
    BY <1>1, <2>2 DEF WaitReturns
  <2>3. CASE WaitEnqueue(t) \/ WaitSleep(t) \/ WaitParkReturned(t)
    BY <2>3, UntimedLotCall DEF WaitEnqueue, WaitSleep, WaitParkReturned
  <2>4. QED
    BY <1>6, <2>1, <2>2, <2>3 DEF WaitStep
<1>7. ASSUME NEW t \in Threads, NotifyStep(t) PROVE Untimed'
  <2>1. CASE NotifyOneUnpark(t) \/ NotifyAllUnpark(t)
    BY <2>1, UntimedLotCall DEF NotifyOneUnpark, NotifyAllUnpark
  <2>2. CASE NotifyAllStore(t) \/ NotifyReturns(t)
    BY <1>1, <2>2 DEF NotifyAllStore, NotifyReturns
  <2>3. QED
    BY <1>7, <2>1, <2>2 DEF NotifyStep
<1>8. ASSUME NEW t \in Threads, InnerLockStep(t) PROVE Untimed'
  <2>1. CASE CompareAndPark(t) \/ CompareAndEnqueue(t) \/ LockBeforeSleep(t) \/ LockParkReturned(t)
    <3>1. (byte = HeldAndParked) \in BOOLEAN
      OBVIOUS
    <3>2. QED
      BY <2>1, <3>1, UntimedLotCall DEF CompareAndPark, CompareAndEnqueue, LockBeforeSleep, LockParkReturned
  <2>2. CASE UnlockUnpark(t)
    BY <2>2, UntimedLotCall DEF UnlockUnpark
  <2>3. CASE LockParkStep(t) \/ LockUnparkStep(t)
    BY <2>3, UntimedLotCall DEF LockParkStep, LockUnparkStep, LotStep
  <2>4. QED
    BY <1>2, <1>8, <2>1, <2>2, <2>3 DEF InnerLockStep, LockStep, UnlockStep, ByteStep
<1>9. ASSUME NEW t \in Threads, Environment(t) PROVE Untimed'
  BY <1>9, UntimedLotCall DEF Environment
<1>10. QED
  BY <1>1, <1>3, <1>4, <1>5, <1>6, <1>7, <1>8, <1>9 DEF Next, Step, Calls, vars

(* A monitor whose callers wait without a timeout, or only with one that is *)
(* already past, loses no waiter and no wakeup, on either of its addresses, *)
(* and ASSERT(threadData->address) of its unpark calls holds.               *)
THEOREM UntimedMonitorLosesNothing ==
    ASSUME "future" \notin Timeouts
    PROVE  Spec => [](/\ WaitersRemembered /\ QueuesConsistent /\ LotAssertionsHold /\ NoLostWakeup
                      /\ SleepsWhileQueued /\ UnparkAssertionHolds /\ ResultIsExact)
<1>1. Init => Untimed
  BY EmptyQueue DEF Init, LotInit, Untimed, NobodyTimesOut, NobodyHasTimedOut, ToWake
<1>2. MonitorInv /\ Untimed /\ [Next]_vars => Untimed'
  BY UntimedMonitorStep
<1>3. Untimed => ParksFresh
  BY UntimedFresh DEF Untimed
<1>4. MonitorInv /\ Untimed =>
         /\ WaitersRemembered /\ QueuesConsistent /\ LotAssertionsHold /\ NoLostWakeup
         /\ SleepsWhileQueued /\ UnparkAssertionHolds /\ ResultIsExact
  BY LotPromises, UntimedPromises DEF MonitorInv, Untimed
<1>5. QED
  BY <1>1, <1>2, <1>3, <1>4, MonitorInitInv, MonitorStepInv, PTL DEF Spec
=============================================================================
