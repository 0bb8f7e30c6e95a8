------------------------------- MODULE WordLock -------------------------------
(***************************************************************************)
(* WTF::WordLock (Source/WTF/wtf/WordLock.h, WordLock.cpp): an adaptive     *)
(* mutex in one machine word.  The word holds the lock bit, a spin lock     *)
(* that protects the queue, and the pointer to the first waiting thread's   *)
(* ThreadData; the queue is linked through the ThreadData of the waiters,   *)
(* and the first of them also stores the queue's tail.                      *)
(*                                                                         *)
(* A step is one access to m_word (load, weak compare-exchange, store)      *)
(* together with the thread-local branching that follows it, or one access  *)
(* to ThreadData.  The section of lockSlow() and unlockSlow() under a       *)
(* thread's parkingLock is one step, as std::mutex makes it.                *)
(***************************************************************************)
EXTENDS Naturals, FiniteSets, Sequences

CONSTANTS
    Threads,          \* the threads that use this lock; t stands for its ThreadData*
    Null,             \* nullptr
    SpinLimit,        \* spinLimit of lockSlow(), 40 in the source
    WeakCASMayFail    \* TRUE where compareExchangeWeak fails spuriously (LL/SC targets)

ASSUME ThreadsAssumption == IsFiniteSet(Threads) /\ Null \notin Threads
ASSUME SpinAssumption == SpinLimit \in Nat
ASSUME CASAssumption == WeakCASMayFail \in BOOLEAN

VARIABLES
    word,             \* m_word: isLockedBit, isQueueLockedBit, and the queue head above them
    shouldPark,       \* ThreadData::shouldPark
    nextInQueue,      \* ThreadData::nextInQueue
    queueTail,        \* ThreadData::queueTail, meaningful in the queue head
    pc,               \* where each thread is in lock() or unlock()
    cur,              \* local currentWordValue
    spinCount,        \* local spinCount of lockSlow()
    queueHead,        \* local queueHead
    newQueueHead      \* local newQueueHead of unlockSlow()

threadData == <<shouldPark, nextInQueue, queueTail>>
vars == <<word, shouldPark, nextInQueue, queueTail, pc, cur, spinCount, queueHead, newQueueHead>>

ThreadOrNull == Threads \cup {Null}
Word == [locked: BOOLEAN, queueLocked: BOOLEAN, head: ThreadOrNull]

\* The two values of m_word the fast paths name: 0 and isLockedBit.
Zero == [locked |-> FALSE, queueLocked |-> FALSE, head |-> Null]
IsLockedBit == [locked |-> TRUE, queueLocked |-> FALSE, head |-> Null]

Init ==
    /\ word = Zero
    /\ shouldPark = [t \in Threads |-> FALSE]
    /\ nextInQueue = [t \in Threads |-> Null]
    /\ queueTail = [t \in Threads |-> Null]
    /\ pc = [t \in Threads |-> "idle"]
    /\ cur = [t \in Threads |-> Zero]
    /\ spinCount = [t \in Threads |-> 0]
    /\ queueHead = [t \in Threads |-> Null]
    /\ newQueueHead = [t \in Threads |-> Null]

-----------------------------------------------------------------------------
(* m_word.compareExchangeWeak(expected, desired), and its failure.          *)
CASWins(expected, desired) == word = expected /\ word' = desired
CASLoses(expected) == (word # expected \/ WeakCASMayFail) /\ UNCHANGED word

Goto(t, label) == pc' = [pc EXCEPT ![t] = label]

\* A call begins or returns: none of its locals is live.
Return(t, label) ==
    /\ Goto(t, label)
    /\ cur' = [cur EXCEPT ![t] = Zero]
    /\ spinCount' = [spinCount EXCEPT ![t] = 0]
    /\ queueHead' = [queueHead EXCEPT ![t] = Null]
    /\ newQueueHead' = [newQueueHead EXCEPT ![t] = Null]

-----------------------------------------------------------------------------
(* lock() and lockSlow()                                                    *)

LockFast(t) ==
    /\ pc[t] = "idle"
    /\ \/ CASWins(Zero, IsLockedBit) /\ Return(t, "held")
       \/ CASLoses(Zero) /\ Return(t, "lockLoad")
    /\ UNCHANGED threadData

\* Mutant of SpinOrQueue: <= where the code has <.
SpinOrQueueOffByOne(t, w) ==
    IF w.head = Null /\ spinCount[t] <= SpinLimit
    THEN Goto(t, "lockLoad") /\ spinCount' = [spinCount EXCEPT ![t] = @ + 1]
    ELSE Goto(t, "queueReload") /\ UNCHANGED spinCount

\* The lock was not taken in this round: spin again, or go for the queue.
SpinOrQueue(t, w) ==
    IF w.head = Null /\ spinCount[t] < SpinLimit
    THEN Goto(t, "lockLoad") /\ spinCount' = [spinCount EXCEPT ![t] = @ + 1]
    ELSE Goto(t, "queueReload") /\ UNCHANGED spinCount

LockLoad(t) ==
    /\ pc[t] = "lockLoad"
    /\ cur' = [cur EXCEPT ![t] = word]
    /\ IF word.locked
       THEN SpinOrQueue(t, word)
       ELSE Goto(t, "barge") /\ UNCHANGED spinCount
    /\ UNCHANGED <<word, threadData, queueHead, newQueueHead>>

\* Mutant of Barge: a plain store where the code has a compare-exchange.
BargeByStore(t) ==
    /\ pc[t] = "barge"
    /\ word' = [cur[t] EXCEPT !.locked = TRUE]
    /\ Return(t, "held")
    /\ UNCHANGED threadData

Barge(t) ==
    /\ pc[t] = "barge"
    /\ \/ CASWins(cur[t], [cur[t] EXCEPT !.locked = TRUE]) /\ Return(t, "held")
       \/ /\ CASLoses(cur[t])
          /\ SpinOrQueue(t, cur[t])
          /\ UNCHANGED <<cur, queueHead, newQueueHead>>
    /\ UNCHANGED threadData

\* Mutant of QueueReload: the queue lock is taken though the lock has been released.
QueueReloadIgnoresLockBit(t) ==
    /\ pc[t] = "queueReload"
    /\ cur' = [cur EXCEPT ![t] = word]
    /\ IF word.queueLocked THEN Goto(t, "lockLoad") ELSE Goto(t, "lockQueueCAS")
    /\ UNCHANGED <<word, threadData, spinCount, queueHead, newQueueHead>>

QueueReload(t) ==
    /\ pc[t] = "queueReload"
    /\ cur' = [cur EXCEPT ![t] = word]
    /\ IF word.queueLocked \/ ~word.locked THEN Goto(t, "lockLoad") ELSE Goto(t, "lockQueueCAS")
    /\ UNCHANGED <<word, threadData, spinCount, queueHead, newQueueHead>>

LockQueueCAS(t) ==
    /\ pc[t] = "lockQueueCAS"
    /\ \/ CASWins(cur[t], [cur[t] EXCEPT !.queueLocked = TRUE]) /\ Goto(t, "enqueue")
       \/ CASLoses(cur[t]) /\ Goto(t, "lockLoad")
    /\ UNCHANGED <<threadData, cur, spinCount, queueHead, newQueueHead>>

\* Mutant of Enqueue: the head's queueTail is not moved to the new thread.
EnqueueKeepsTail(t) ==
    /\ pc[t] = "enqueue"
    /\ shouldPark' = [shouldPark EXCEPT ![t] = TRUE]
    /\ queueHead' = [queueHead EXCEPT ![t] = cur[t].head]
    /\ IF cur[t].head # Null
       THEN nextInQueue' = [nextInQueue EXCEPT ![queueTail[cur[t].head]] = t] /\ UNCHANGED queueTail
       ELSE queueTail' = [queueTail EXCEPT ![t] = t] /\ UNCHANGED nextInQueue
    /\ Goto(t, "enqueueReload")
    /\ UNCHANGED <<word, cur, spinCount, newQueueHead>>

\* shouldPark is set, and the thread linked behind the tail the head records.
Enqueue(t) ==
    /\ pc[t] = "enqueue"
    /\ shouldPark' = [shouldPark EXCEPT ![t] = TRUE]
    /\ queueHead' = [queueHead EXCEPT ![t] = cur[t].head]
    /\ IF cur[t].head # Null
       THEN /\ nextInQueue' = [nextInQueue EXCEPT ![queueTail[cur[t].head]] = t]
            /\ queueTail' = [queueTail EXCEPT ![cur[t].head] = t]
       ELSE /\ queueTail' = [queueTail EXCEPT ![t] = t]
            /\ UNCHANGED nextInQueue
    /\ Goto(t, "enqueueReload")
    /\ UNCHANGED <<word, cur, spinCount, newQueueHead>>

EnqueueReload(t) ==
    /\ pc[t] = "enqueueReload"
    /\ cur' = [cur EXCEPT ![t] = word]
    /\ Goto(t, "publish")
    /\ UNCHANGED <<word, threadData, spinCount, queueHead, newQueueHead>>

\* The store that releases the queue lock, and installs a first waiter as head.
Publish(t) ==
    /\ pc[t] = "publish"
    /\ word' = [cur[t] EXCEPT !.queueLocked = FALSE,
                              !.head = IF queueHead[t] = Null THEN t ELSE @]
    /\ queueHead' = [queueHead EXCEPT ![t] = Null]
    /\ cur' = [cur EXCEPT ![t] = Zero]
    /\ Goto(t, "park")
    /\ UNCHANGED <<threadData, spinCount, newQueueHead>>

\* while (me->shouldPark) parkingCondition.wait(locker), the test of the loop.
Park(t) ==
    /\ pc[t] = "park"
    /\ IF shouldPark[t] THEN Goto(t, "sleeping") ELSE Goto(t, "lockLoad")
    /\ UNCHANGED <<word, threadData, cur, spinCount, queueHead, newQueueHead>>

\* std::condition_variable::wait() may return without a notification.
SpuriousWakeup(t) ==
    /\ pc[t] = "sleeping"
    /\ Goto(t, "park")
    /\ UNCHANGED <<word, threadData, cur, spinCount, queueHead, newQueueHead>>

-----------------------------------------------------------------------------
(* unlock() and unlockSlow()                                                *)

UnlockFast(t) ==
    /\ pc[t] = "held"
    /\ \/ CASWins(IsLockedBit, Zero) /\ Goto(t, "idle")
       \/ CASLoses(IsLockedBit) /\ Goto(t, "unlockLoad")
    /\ UNCHANGED <<threadData, cur, spinCount, queueHead, newQueueHead>>

UnlockLoad(t) ==
    /\ pc[t] = "unlockLoad"
    /\ cur' = [cur EXCEPT ![t] = word]
    /\ Goto(t, IF word = IsLockedBit THEN "unlockCAS"
               ELSE IF word.queueLocked THEN "unlockLoad" ELSE "unlockQueueCAS")
    /\ UNCHANGED <<word, threadData, spinCount, queueHead, newQueueHead>>

UnlockCAS(t) ==
    /\ pc[t] = "unlockCAS"
    /\ \/ CASWins(IsLockedBit, Zero) /\ Return(t, "idle")
       \/ /\ CASLoses(IsLockedBit)
          /\ Goto(t, "unlockLoad")
          /\ UNCHANGED <<cur, spinCount, queueHead, newQueueHead>>
    /\ UNCHANGED threadData

UnlockQueueCAS(t) ==
    /\ pc[t] = "unlockQueueCAS"
    /\ \/ CASWins(cur[t], [cur[t] EXCEPT !.queueLocked = TRUE]) /\ Goto(t, "dequeue")
       \/ CASLoses(cur[t]) /\ Goto(t, "unlockLoad")
    /\ UNCHANGED <<threadData, cur, spinCount, queueHead, newQueueHead>>

\* The second thread of the queue takes over the head's bookkeeping.
Dequeue(t) ==
    /\ pc[t] = "dequeue"
    /\ cur' = [cur EXCEPT ![t] = word]
    /\ queueHead' = [queueHead EXCEPT ![t] = word.head]
    /\ LET new == nextInQueue[word.head]
       IN  /\ newQueueHead' = [newQueueHead EXCEPT ![t] = new]
           /\ queueTail' = IF new = Null THEN queueTail
                           ELSE [queueTail EXCEPT ![new] = queueTail[word.head]]
    /\ Goto(t, "unlockReload")
    /\ UNCHANGED <<word, shouldPark, nextInQueue, spinCount>>

UnlockReload(t) ==
    /\ pc[t] = "unlockReload"
    /\ cur' = [cur EXCEPT ![t] = word]
    /\ Goto(t, "unlockStore")
    /\ UNCHANGED <<word, threadData, spinCount, queueHead, newQueueHead>>

\* Mutant of UnlockStore: the new queue head is not installed.
UnlockStoreDropsQueue(t) ==
    /\ pc[t] = "unlockStore"
    /\ word' = Zero
    /\ Goto(t, "unlockClear")
    /\ UNCHANGED <<threadData, cur, spinCount, queueHead, newQueueHead>>

\* One store releases the lock and the queue lock and installs the new head.
UnlockStore(t) ==
    /\ pc[t] = "unlockStore"
    /\ word' = [cur[t] EXCEPT !.locked = FALSE, !.queueLocked = FALSE, !.head = newQueueHead[t]]
    /\ Goto(t, "unlockClear")
    /\ UNCHANGED <<threadData, cur, spinCount, queueHead, newQueueHead>>

\* Mutant of UnlockClear: the old head keeps its queueTail.
UnlockClearKeepsTail(t) ==
    /\ pc[t] = "unlockClear"
    /\ nextInQueue' = [nextInQueue EXCEPT ![queueHead[t]] = Null]
    /\ Goto(t, "unlockWake")
    /\ UNCHANGED <<word, shouldPark, queueTail, cur, spinCount, queueHead, newQueueHead>>

UnlockClear(t) ==
    /\ pc[t] = "unlockClear"
    /\ nextInQueue' = [nextInQueue EXCEPT ![queueHead[t]] = Null]
    /\ queueTail' = [queueTail EXCEPT ![queueHead[t]] = Null]
    /\ Goto(t, "unlockWake")
    /\ UNCHANGED <<word, shouldPark, cur, spinCount, queueHead, newQueueHead>>

\* Mutant of UnlockWake: shouldPark is left set.
UnlockWakeLeavesShouldPark(t) ==
    /\ pc[t] = "unlockWake"
    /\ Goto(t, "unlockNotify")
    /\ UNCHANGED <<word, threadData, cur, spinCount, queueHead, newQueueHead>>

UnlockWake(t) ==
    /\ pc[t] = "unlockWake"
    /\ shouldPark' = [shouldPark EXCEPT ![queueHead[t]] = FALSE]
    /\ Goto(t, "unlockNotify")
    /\ UNCHANGED <<word, nextInQueue, queueTail, cur, spinCount, queueHead, newQueueHead>>

\* Mutant of UnlockNotify: the old head is not notified.
UnlockWithoutNotify(t) ==
    /\ pc[t] = "unlockNotify"
    /\ Return(t, "idle")
    /\ UNCHANGED <<word, threadData>>

\* parkingCondition.notify_one(); the call to unlock() returns.
UnlockNotify(t) ==
    /\ pc[t] = "unlockNotify"
    /\ pc' = [pc EXCEPT ![t] = "idle",
                        ![queueHead[t]] = IF @ = "sleeping" THEN "park" ELSE @]
    /\ cur' = [cur EXCEPT ![t] = Zero]
    /\ queueHead' = [queueHead EXCEPT ![t] = Null]
    /\ newQueueHead' = [newQueueHead EXCEPT ![t] = Null]
    /\ UNCHANGED <<word, threadData, spinCount>>

-----------------------------------------------------------------------------
\* The steps a thread takes once it has called lock() or unlock().
Step(t) ==
    \/ LockLoad(t) \/ Barge(t) \/ QueueReload(t) \/ LockQueueCAS(t)
    \/ Enqueue(t) \/ EnqueueReload(t) \/ Publish(t) \/ Park(t)
    \/ UnlockFast(t) \/ UnlockLoad(t) \/ UnlockCAS(t) \/ UnlockQueueCAS(t)
    \/ Dequeue(t) \/ UnlockReload(t) \/ UnlockStore(t)
    \/ UnlockClear(t) \/ UnlockWake(t) \/ UnlockNotify(t)

Next == \E t \in Threads : LockFast(t) \/ SpuriousWakeup(t) \/ Step(t)

Spec == Init /\ [][Next]_vars

\* Running threads are scheduled, and who holds the lock calls unlock().  The compare-exchanges
\* of all threads do not fail for ever where one of them could win.
Fairness ==
    /\ \A t \in Threads : WF_vars(Step(t))
    /\ SF_vars(\E t \in Threads : Step(t) /\ word' # word)

FairSpec == Spec /\ Fairness

-----------------------------------------------------------------------------
(* What the lock promises                                                   *)

\* The thread's lock() has returned, or its compare-exchange has won, and its
\* unlock() has not yet given the lock up.
Owns(t) == pc[t] \in {"held", "unlockLoad", "unlockCAS", "unlockQueueCAS", "dequeue",
                      "unlockReload", "unlockStore"}

\* The thread has taken the queue spin lock, isQueueLockedBit.
OwnsQueue(t) == pc[t] \in {"enqueue", "enqueueReload", "publish",
                           "dequeue", "unlockReload", "unlockStore"}

\* t has called lock() and does not have the lock yet.
Wants(t) == pc[t] \in {"lockLoad", "barge", "queueReload", "lockQueueCAS", "enqueue",
                       "enqueueReload", "publish", "park", "sleeping"}

Labels == {"idle", "lockLoad", "barge", "queueReload", "lockQueueCAS", "enqueue", "enqueueReload",
           "publish", "park", "sleeping", "held", "unlockLoad", "unlockCAS", "unlockQueueCAS",
           "dequeue", "unlockReload", "unlockStore", "unlockClear", "unlockWake", "unlockNotify"}

(* Types: the word is three fields, pointers are threads or null, and the   *)
(* spin counter never passes the limit of lockSlow().                       *)
TypeOK ==
    /\ word \in Word
    /\ shouldPark \in [Threads -> BOOLEAN]
    /\ nextInQueue \in [Threads -> ThreadOrNull]
    /\ queueTail \in [Threads -> ThreadOrNull]
    /\ pc \in [Threads -> Labels]
    /\ cur \in [Threads -> Word]
    /\ spinCount \in [Threads -> 0..SpinLimit]
    /\ queueHead \in [Threads -> ThreadOrNull]
    /\ newQueueHead \in [Threads -> ThreadOrNull]

(* At most one thread is between the end of lock() and the releasing store  *)
(* or compare-exchange of unlock(), and exactly then is isLockedBit set:    *)
(* barging, spinning and the non-atomic load-then-store pairs under the     *)
(* queue lock never hand the lock to two threads nor lose it.               *)
MutualExclusion ==
    /\ \A t, u \in Threads : Owns(t) /\ Owns(u) => t = u
    /\ word.locked <=> \E t \in Threads : Owns(t)

(* The ASSERTs of lockSlow() and unlockSlow() on the loaded word, each      *)
(* where the code makes it: a store never meets a word that another thread  *)
(* changed since the load before it.                                        *)
WordAssertionsHold ==
    \A t \in Threads :
        /\ pc[t] = "barge" => ~cur[t].queueLocked
        /\ pc[t] = "publish" => /\ cur[t].locked /\ cur[t].queueLocked
                                /\ queueHead[t] # Null => cur[t].head # Null
        /\ pc[t] = "unlockLoad" => word.locked
        /\ pc[t] = "unlockQueueCAS" => cur[t].locked /\ cur[t].head # Null
        /\ pc[t] = "dequeue" => word.locked /\ word.queueLocked /\ word.head # Null
        /\ pc[t] = "unlockStore" => /\ cur[t].locked /\ cur[t].queueLocked
                                    /\ cur[t].head = queueHead[t]

(* The ASSERTs of lockSlow() on the thread's own ThreadData, before it      *)
(* queues up and after it has parked: it is linked nowhere, since the       *)
(* unlock() that let it go has cleared its fields before shouldPark.        *)
ThreadDataIsClear ==
    \A t \in Threads :
        pc[t] \in {"lockLoad", "queueReload"} =>
            ~shouldPark[t] /\ nextInQueue[t] = Null /\ queueTail[t] = Null

\* The queue as the links give it: Chain[i] is the i-th node after the head.
Chain[i \in 0..Cardinality(Threads)] ==
    IF i = 0 THEN word.head
    ELSE IF Chain[i - 1] = Null THEN Null ELSE nextInQueue[Chain[i - 1]]

QueueLength == Cardinality({i \in 0..Cardinality(Threads) : Chain[i] # Null})
Queue == [i \in 1..QueueLength |-> Chain[i - 1]]
Queued == {Queue[i] : i \in 1..QueueLength}

\* t has been unlinked by an unlockSlow() that has still to clear its shouldPark.
BeingWoken(t) == \E u \in Threads : pc[u] \in {"unlockClear", "unlockWake"} /\ queueHead[u] = t

(* No waiter is forgotten: a thread that waits for shouldPark to fall is    *)
(* either linked in the queue that starts at m_word, exactly once, or some  *)
(* unlock() has unlinked it and is on its way to clear shouldPark; never    *)
(* both, and never twice.  The queue ends at the tail its head records.     *)
NoWaiterForgotten ==
    /\ Chain[Cardinality(Threads)] = Null
    /\ word.head # Null /\ ~word.queueLocked => queueTail[word.head] = Queue[QueueLength]
    /\ \A t \in Threads :
         /\ pc[t] \in {"park", "sleeping"} /\ shouldPark[t] => (t \in Queued) # BeingWoken(t)
         /\ t \in Queued => shouldPark[t]
    /\ \A u, v \in Threads :
         /\ pc[u] \in {"unlockClear", "unlockWake"} /\ pc[v] \in {"unlockClear", "unlockWake"}
         /\ queueHead[u] = queueHead[v]
         => u = v

(* The queue is first in, first out: a step leaves it alone, adds one       *)
(* thread behind the tail, or takes the head away.                          *)
QueueIsFIFO ==
    [][ \/ Queue' = Queue
        \/ \E t \in Threads : Queue' = Append(Queue, t)
        \/ Queue # <<>> /\ Queue' = Tail(Queue) ]_vars

(* Every thread that parks is told to stop parking: the releasing store     *)
(* hands the queue on, and notify_one() cannot be missed because shouldPark *)
(* is tested and cleared under parkingLock.                                 *)
ParkedThreadIsWoken == \A t \in Threads : pc[t] = "sleeping" ~> pc[t] = "lockLoad"

(* Progress: while a thread is inside lock(), the lock is acquired again    *)
(* and again, though (it barges) not by any particular thread.              *)
SomeoneAcquires == (\E t \in Threads : Wants(t)) ~> (\E t \in Threads : pc[t] = "held")

(* To its callers a WordLock is a mutex: every step is a step of the        *)
(* abstract lock or invisible.                                              *)
LockState == [t \in Threads |-> IF Owns(t) THEN "holding" ELSE IF Wants(t) THEN "waiting" ELSE "out"]
M == INSTANCE Mutex WITH state <- LockState
ImplementsMutex == M!Spec
=============================================================================
