------------------------------ MODULE ParkingLot ------------------------------
(***************************************************************************)
(* WTF::ParkingLot (Source/WTF/wtf/ParkingLot.h, ParkingLot.cpp): threads   *)
(* park on an address until another thread unparks that address.            *)
(*                                                                         *)
(* A call is a sequence of steps.  What enqueue() and dequeue() do under    *)
(* the bucket's WordLock is one step: it contains a single access to memory *)
(* that others touch without the bucket lock, the one the validation or the *)
(* callback makes.  (Which bucket that is, and how the hashtable grows, is  *)
(* the subject of ParkingLotTable.)  So is a section under a thread's       *)
(* parkingLock.  The queue is kept per address; other addresses that hash   *)
(* to the same bucket show only in mayHaveMoreThreads.                      *)
(*                                                                         *)
(* unparkOne() and unparkAll() may be called from beforeSleep(), so a       *)
(* thread has one program counter for its park call, one for its unpark     *)
(* call.                                                                    *)
(***************************************************************************)
EXTENDS QueueOps

CONSTANTS
    Threads,          \* t stands for its ThreadData*
    Addresses,        \* what threads park on
    Null              \* nullptr

ASSUME ParkingAssumption ==
    IsFiniteSet(Threads) /\ IsFiniteSet(Addresses) /\ Null \notin Threads \cup Addresses

VARIABLES
    queue,            \* per address, the parked threads, first to be unparked first
    address,          \* ThreadData::address
    parkPc,           \* where a thread is in parkConditionallyImpl()
    parkAddress,      \* the address argument of that call
    timed,            \* whether its timeout is finite
    expired,          \* whether the clock passed that timeout before the call returned
    unparked,         \* history: an unparker has dequeued the thread since its call began
    unparkPc,         \* where a thread is in unparkOne() or unparkAll()
    threadDatas       \* the threads that call has dequeued and has still to wake

parkVars == <<parkPc, parkAddress, timed, expired>>
unparkVars == <<unparkPc, threadDatas>>
lotVars == <<queue, address, parkVars, unparked, unparkVars>>

\* The call ends in "true" or "false", its result, until the caller goes on.
ParkLabels == {"idle", "enqueue", "beforeSleep", "check", "sleeping", "dequeueSelf", "clearSelf",
               "true", "false"}
UnparkLabels == {"idle", "clear", "notify"}

LotInit ==
    /\ queue = [a \in Addresses |-> <<>>]
    /\ address = [t \in Threads |-> Null]
    /\ parkPc = [t \in Threads |-> "idle"]
    /\ parkAddress = [t \in Threads |-> Null]
    /\ timed = [t \in Threads |-> FALSE]
    /\ expired = [t \in Threads |-> FALSE]
    /\ unparked = [t \in Threads |-> FALSE]
    /\ unparkPc = [t \in Threads |-> "idle"]
    /\ threadDatas = [t \in Threads |-> <<>>]

Queued(t) == {a \in Addresses : \E i \in 1..Len(queue[a]) : queue[a][i] = t}

-----------------------------------------------------------------------------
(* parkConditionally()                                                      *)

ParkGoto(t, label) == parkPc' = [parkPc EXCEPT ![t] = label]

ParkBegin(t, a, finite) ==
    /\ parkPc[t] = "idle"
    /\ unparkPc[t] = "idle"
    /\ ParkGoto(t, "enqueue")
    /\ parkAddress' = [parkAddress EXCEPT ![t] = a]
    /\ timed' = [timed EXCEPT ![t] = finite]
    /\ UNCHANGED <<queue, address, expired, unparked, unparkVars>>

ParkReturn(t, result) ==
    /\ ParkGoto(t, result)
    /\ parkAddress' = [parkAddress EXCEPT ![t] = Null]
    /\ timed' = [timed EXCEPT ![t] = FALSE]
    /\ UNCHANGED expired

\* The caller has the result and goes on.
ParkReturned(t) ==
    /\ parkPc[t] \in {"true", "false"}
    /\ ParkGoto(t, "idle")
    /\ expired' = [expired EXCEPT ![t] = FALSE]
    /\ unparked' = [unparked EXCEPT ![t] = FALSE]
    /\ UNCHANGED <<queue, address, parkAddress, timed, unparkVars>>

\* The functor of enqueue(), and Bucket::enqueue() if the validation succeeds.
ParkEnqueue(t, valid) ==
    /\ parkPc[t] = "enqueue"
    /\ IF valid
       THEN /\ address' = [address EXCEPT ![t] = parkAddress[t]]
            /\ queue' = [queue EXCEPT ![parkAddress[t]] = Append(@, t)]
            /\ ParkGoto(t, "beforeSleep")
            /\ UNCHANGED <<parkAddress, timed, expired>>
       ELSE ParkReturn(t, "false") /\ UNCHANGED <<queue, address>>
    /\ UNCHANGED <<unparked, unparkVars>>

\* The caller's beforeSleep() returns.
BeforeSleepReturns(t) ==
    /\ parkPc[t] = "beforeSleep"
    /\ unparkPc[t] = "idle"
    /\ ParkGoto(t, "check")
    /\ UNCHANGED <<queue, address, parkAddress, timed, expired, unparked, unparkVars>>

\* while (me->address && Clock::now() < timeout), under parkingLock.  The code after the loop
\* tests me->address again, in the same section.
SleepCheck(t) ==
    /\ parkPc[t] = "check"
    /\ \/ address[t] = Null /\ ParkReturn(t, "true")
       \/ /\ address[t] # Null
          /\ ParkGoto(t, IF expired[t] THEN "dequeueSelf" ELSE "sleeping")
          /\ UNCHANGED <<parkAddress, timed, expired>>
    /\ UNCHANGED <<queue, address, unparked, unparkVars>>

\* Clock::now() reaches the timeout of t's call.
Expire(t) ==
    /\ timed[t] /\ ~expired[t]
    /\ expired' = [expired EXCEPT ![t] = TRUE]
    /\ UNCHANGED <<queue, address, parkPc, parkAddress, timed, unparked, unparkVars>>

\* wait_until() returns at the timeout.
TimeoutWakeup(t) ==
    /\ parkPc[t] = "sleeping" /\ expired[t]
    /\ ParkGoto(t, "check")
    /\ UNCHANGED <<queue, address, parkAddress, timed, expired, unparked, unparkVars>>

\* Mutant of SpuriousWakeup: the loop around wait() is an if, and any return but that of a
\* timeout is taken for a wakeup.
SpuriousWakeupTrusted(t) ==
    /\ parkPc[t] = "sleeping" /\ ~expired[t]
    /\ ParkReturn(t, "true")
    /\ UNCHANGED <<queue, address, unparked, unparkVars>>

\* wait() and wait_until() may return without notification or timeout.
SpuriousWakeup(t) ==
    /\ parkPc[t] = "sleeping"
    /\ ParkGoto(t, "check")
    /\ UNCHANGED <<queue, address, parkAddress, timed, expired, unparked, unparkVars>>

\* Mutant of DequeueSelf: the thread that timed out stays linked.
DequeueSelfSkipped(t) ==
    /\ parkPc[t] = "dequeueSelf"
    /\ ParkGoto(t, "clearSelf")
    /\ UNCHANGED <<queue, address, parkAddress, timed, expired, unparked, unparkVars>>

\* dequeue(address, IgnoreEmpty, ...) by a thread that timed out: an unparker may have been faster.
DequeueSelf(t) ==
    /\ parkPc[t] = "dequeueSelf"
    /\ queue' = [queue EXCEPT ![parkAddress[t]] = Kept(@, Threads \ {t})]
    /\ ParkGoto(t, "clearSelf")
    /\ UNCHANGED <<address, parkAddress, timed, expired, unparked, unparkVars>>

\* me->address = nullptr "no matter what", and parkConditionally() returns false.
ClearSelf(t) ==
    /\ parkPc[t] = "clearSelf"
    /\ address' = [address EXCEPT ![t] = Null]
    /\ ParkReturn(t, "false")
    /\ UNCHANGED <<queue, unparked, unparkVars>>

-----------------------------------------------------------------------------
(* unparkOne() and unparkAll()                                              *)

CanUnpark(t) == unparkPc[t] = "idle" /\ parkPc[t] \in {"idle", "beforeSleep"}

\* Who on the queue of a has not had its address taken away.
Waiting(a) == Kept(queue[a], {w \in Threads : address[w] = a})

\* The threads ws, no longer linked, are to be woken by t.
Unlinked(t, ws) ==
    /\ threadDatas' = [threadDatas EXCEPT ![t] = ws]
    /\ unparked' = [w \in Threads |-> unparked[w] \/ \E i \in 1..Len(ws) : ws[i] = w]
    /\ unparkPc' = [unparkPc EXCEPT ![t] = IF ws = <<>> THEN "idle" ELSE "clear"]

\* What the callback of unparkOne(), or its caller, is told: mayHaveMoreThreads is
\* whether the bucket is non-empty, and the bucket may hold waiters on other addresses.
UnparkResults(a) ==
    {r \in [didUnparkThread: BOOLEAN, mayHaveMoreThreads: BOOLEAN] :
        /\ r.didUnparkThread <=> Waiting(a) # <<>>
        /\ r.mayHaveMoreThreads => r.didUnparkThread
        /\ Len(Waiting(a)) > 1 => r.mayHaveMoreThreads}

\* Mutant of UnparkOneDequeue: the thread that is going to be woken stays linked.
UnparkOneKeepsLinked(t, a) ==
    /\ CanUnpark(t)
    /\ Unlinked(t, IF Waiting(a) = <<>> THEN <<>> ELSE <<Head(Waiting(a))>>)
    /\ UNCHANGED <<queue, address, parkVars>>

\* dequeue() of unparkOne(): the first thread that waits on a.
UnparkOneDequeue(t, a) ==
    /\ CanUnpark(t)
    /\ IF Waiting(a) = <<>>
       THEN Unlinked(t, <<>>) /\ UNCHANGED queue
       ELSE LET first == Head(Waiting(a))
            IN  /\ Unlinked(t, <<first>>)
                /\ queue' = [queue EXCEPT ![a] = Kept(@, Threads \ {first})]
    /\ UNCHANGED <<address, parkVars>>

UnparkAllDequeue(t, a) ==
    /\ CanUnpark(t)
    /\ Unlinked(t, Waiting(a))
    /\ queue' = [queue EXCEPT ![a] = Kept(@, {w \in Threads : address[w] # a})]
    /\ UNCHANGED <<address, parkVars>>

\* threadData->address = nullptr, under the other thread's parkingLock.
ClearAddress(t) ==
    /\ unparkPc[t] = "clear"
    /\ address' = [address EXCEPT ![Head(threadDatas[t])] = Null]
    /\ unparkPc' = [unparkPc EXCEPT ![t] = "notify"]
    /\ UNCHANGED <<queue, parkVars, unparked, threadDatas>>

\* Mutant of NotifyOne: no notify_one().
NotifyOneSkipped(t) ==
    /\ unparkPc[t] = "notify"
    /\ threadDatas' = [threadDatas EXCEPT ![t] = Tail(@)]
    /\ unparkPc' = [unparkPc EXCEPT ![t] = IF Len(threadDatas[t]) = 1 THEN "idle" ELSE "clear"]
    /\ UNCHANGED <<queue, address, parkVars, unparked>>

\* parkingCondition.notify_one(), and on to the next thread of unparkAll().
NotifyOne(t) ==
    /\ unparkPc[t] = "notify"
    /\ LET w == Head(threadDatas[t])
       IN  parkPc' = IF parkPc[w] = "sleeping" THEN [parkPc EXCEPT ![w] = "check"] ELSE parkPc
    /\ threadDatas' = [threadDatas EXCEPT ![t] = Tail(@)]
    /\ unparkPc' = [unparkPc EXCEPT ![t] = IF Len(threadDatas[t]) = 1 THEN "idle" ELSE "clear"]
    /\ UNCHANGED <<queue, address, parkAddress, timed, expired, unparked>>

-----------------------------------------------------------------------------
\* The steps of calls under way that depend on no caller.
ParkStep(t) == SleepCheck(t) \/ TimeoutWakeup(t) \/ DequeueSelf(t) \/ ClearSelf(t)
UnparkStep(t) == ClearAddress(t) \/ NotifyOne(t)
LotStep(t) == ParkStep(t) \/ UnparkStep(t)
LotEnvironment(t) == Expire(t) \/ SpuriousWakeup(t)

-----------------------------------------------------------------------------
(* What the parking lot promises                                            *)

(* Types of the parking lot's state.                                        *)
LotTypeOK ==
    /\ queue \in [Addresses -> Seq(Threads)]
    /\ address \in [Threads -> Addresses \cup {Null}]
    /\ parkPc \in [Threads -> ParkLabels]
    /\ parkAddress \in [Threads -> Addresses \cup {Null}]
    /\ timed \in [Threads -> BOOLEAN]
    /\ expired \in [Threads -> BOOLEAN]
    /\ unparked \in [Threads -> BOOLEAN]
    /\ unparkPc \in [Threads -> UnparkLabels]
    /\ threadDatas \in [Threads -> Seq(Threads)]

(* The queues are those of the threads asleep or on their way to sleep: a   *)
(* linked thread is linked once, on the address of its call, and its        *)
(* ThreadData says so; no call returns while its thread is linked.          *)
QueuesConsistent ==
    \A a \in Addresses : \A i \in 1..Len(queue[a]) :
        /\ address[queue[a][i]] = a
        /\ parkAddress[queue[a][i]] = a
        /\ parkPc[queue[a][i]] \in {"beforeSleep", "check", "sleeping", "dequeueSelf"}
        /\ \A j \in 1..Len(queue[a]) : queue[a][j] = queue[a][i] => j = i

\* u has unlinked t, and has not yet cleared its address.
Waking(u, t) == unparkPc[u] # "idle" /\
    \E i \in 1..Len(threadDatas[u]) :
        threadDatas[u][i] = t /\ (i = 1 => unparkPc[u] = "clear")

\* No thread parks again while an unparker that took it off a queue has yet to clear its
\* address.  A timeout may fire at any time, also in that window: the call then returns
\* false and the thread goes on.  What happens if it gets to another park call before the
\* unparker gets to the address is what SleepsWhileQueued shows.
NoStaleUnparker == \A u, t \in Threads : Waking(u, t) => parkPc[t] # "enqueue"

(* The assertions of parkConditionallyImpl() and enqueue(), each where the  *)
(* code makes it: a thread that parks has no address and is linked nowhere, *)
(* and one that timed out is not linked any more, whoever dequeued it.      *)
LotAssertionsHold ==
    \A t \in Threads :
        /\ parkPc[t] = "enqueue" => address[t] = Null /\ Queued(t) = {}
        /\ parkPc[t] = "check" => address[t] \in {Null, parkAddress[t]}
        /\ parkPc[t] = "clearSelf" => Queued(t) = {}

(* ASSERT(threadData->address) of the three unpark calls: the thread that   *)
(* was dequeued still has its address.  It is false where a timeout fires   *)
(* between the dequeue and the assertion, since the thread clears the       *)
(* address itself; callers without finite timeouts have it.                 *)
UnparkAssertionHolds ==
    \A u \in Threads : unparkPc[u] = "clear" => address[Head(threadDatas[u])] # Null

(* No wakeup is lost: a thread that parked and still has its address is     *)
(* linked, where an unpark call finds it, or exactly one unparker is going  *)
(* to clear the address; and one that sleeps on though its address has been *)
(* cleared is about to be notified.                                         *)
NoLostWakeup ==
    \A t \in Threads :
        /\ parkPc[t] \in {"beforeSleep", "check", "sleeping"} /\ address[t] # Null =>
             \/ Queued(t) = {address[t]} /\ \A u \in Threads : ~Waking(u, t)
             \/ /\ Queued(t) = {}
                /\ \E u \in Threads : Waking(u, t) /\ \A v \in Threads \ {u} : ~Waking(v, t)
        /\ parkPc[t] = "sleeping" /\ address[t] = Null =>
             \E u \in Threads : unparkPc[u] = "notify" /\ Head(threadDatas[u]) = t

(* "it will sleep so long as the thread continues to be on the queue and    *)
(* the timeout hasn't fired" (ParkingLot.h): a call that returns true has   *)
(* been taken off its queue.                                                *)
SleepsWhileQueued == \A t \in Threads : parkPc[t] = "true" => Queued(t) = {}

(* "returns true if we actually got unparked or false if the timeout was    *)
(* hit" (ParkingLot.h): true means that an unpark call has dequeued the     *)
(* thread since it was enqueued; false means that none was spent on it, or  *)
(* that the timeout was hit as well and the call gave up before it saw the  *)
(* unpark.                                                                  *)
ResultTellsUnparked ==
    \A t \in Threads : /\ parkPc[t] = "true" => unparked[t]
                       /\ parkPc[t] = "false" /\ unparked[t] => expired[t]
=============================================================================
