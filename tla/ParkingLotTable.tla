---------------------------- MODULE ParkingLotTable ----------------------------
(***************************************************************************)
(* The hashtable of WTF::ParkingLot (Source/WTF/wtf/ParkingLot.cpp): a      *)
(* spine of pointers to buckets, each with a queue and a WordLock.  Buckets *)
(* are made on demand; the table grows as threads park for the first time,  *)
(* while others look up buckets in it without a lock.  Old spines are never *)
(* freed, and the buckets of an old spine are reused in the new one.        *)
(*                                                                         *)
(* Every operation finds its buckets, locks them in address order, and then *)
(* looks whether the table is still the one it found them in.  enqueue()    *)
(* and dequeue() need one bucket; ensureHashtableSize() and forEach() need  *)
(* all of them.  A pointer of a spine is written once, so the load and      *)
(* compare-exchange loops that set it are one step.  How a dequeued thread  *)
(* is woken is the subject of ParkingLot: here it is unparked as soon as it *)
(* is dequeued.                                                             *)
(***************************************************************************)
EXTENDS QueueOps, SequencesExt

CONSTANTS
    Threads, Addresses, Null,
    Hash,             \* hashAddress(), a number for each address
    MaxLoadFactor,    \* maxLoadFactor, 3 in the source
    GrowthFactor,     \* growthFactor, 2 in the source
    Operations        \* what each thread does: operations of the parking lot, and "exit"

ASSUME TableAssumption ==
    /\ IsFiniteSet(Threads) /\ IsFiniteSet(Addresses) /\ Null \notin Threads \cup Addresses
    /\ Hash \in [Addresses -> Nat]
    /\ MaxLoadFactor \in Nat \ {0} /\ GrowthFactor \in Nat \ {0}
    /\ Operations \in [Threads -> SUBSET {"enqueue", "unparkOne", "unparkAll", "timeout", "forEach", "exit"}]

VARIABLES
    tables,           \* every Hashtable made, [size, data]; data[i] is a bucket or 0 for nullptr
    hashtable,        \* index in tables of the current one, 0 before there is any
    bucketQueue,      \* the queue of every Bucket made; a bucket's number is its place in memory
    bucketLock,       \* who holds each bucket's lock
    numThreads,       \* numThreads
    registered,       \* the threads that have a ThreadData
    address,          \* ThreadData::address: where a thread is parked
    pc,               \* where each thread is in its operation
    op,               \* which operation that is
    target,           \* its address argument
    mine,             \* local currentHashtable or myHashtable
    buckets,          \* local buckets: the ones found so far
    count             \* local currentNumThreads of ThreadData(), 0 outside it

shared == <<tables, hashtable, bucketQueue, bucketLock>>
locals == <<pc, op, target, mine, buckets, count>>
vars == <<shared, numThreads, registered, address, locals>>

Init ==
    /\ tables = <<>> /\ hashtable = 0
    /\ bucketQueue = <<>> /\ bucketLock = <<>>
    /\ numThreads = 0 /\ registered = {}
    /\ address = [t \in Threads |-> Null]
    /\ pc = [t \in Threads |-> "idle"]
    /\ op = [t \in Threads |-> "none"]
    /\ target = [t \in Threads |-> Null]
    /\ mine = [t \in Threads |-> 0]
    /\ buckets = [t \in Threads |-> {}]
    /\ count = [t \in Threads |-> 0]

-----------------------------------------------------------------------------
\* Hashtable::create(): a zeroed spine.
NewTable(size) == [size |-> size, data |-> [i \in 0..(size - 1) |-> 0]]
Index(a, size) == Hash[a] % size

Goto(t, label) == pc' = [pc EXCEPT ![t] = label]

\* Operation o on address a starts to look for its buckets.
Start(t, o, a) ==
    /\ Goto(t, "table")
    /\ op' = [op EXCEPT ![t] = o]
    /\ target' = [target EXCEPT ![t] = a]
    /\ UNCHANGED <<mine, buckets, count>>

ForgetLocals(t) ==
    /\ op' = [op EXCEPT ![t] = "none"]
    /\ target' = [target EXCEPT ![t] = Null]
    /\ mine' = [mine EXCEPT ![t] = 0]
    /\ buckets' = [buckets EXCEPT ![t] = {}]
    /\ count' = [count EXCEPT ![t] = 0]

Finish(t, label) == Goto(t, label) /\ ForgetLocals(t)

NeedsAll(t) == op[t] \in {"rehash", "forEach"}

-----------------------------------------------------------------------------
(* ThreadData, made when a thread first parks, and destroyed with it        *)

\* The first park of t: numThreads is incremented, and the size looked at.
ThreadDataMade(t) ==
    /\ pc[t] = "idle" /\ t \notin registered /\ "enqueue" \in Operations[t]
    /\ numThreads' = numThreads + 1
    /\ registered' = registered \cup {t}
    /\ count' = [count EXCEPT ![t] = numThreads + 1]
    /\ Goto(t, "sizeCheck")
    /\ UNCHANGED <<shared, address, op, target, mine, buckets>>

\* A thread that is not parked exits.
ThreadDataDestroyed(t) ==
    /\ pc[t] = "idle" /\ t \in registered /\ "exit" \in Operations[t]
    /\ numThreads' = numThreads - 1
    /\ registered' = registered \ {t}
    /\ Goto(t, "gone")
    /\ UNCHANGED <<shared, address, op, target, mine, buckets, count>>

\* static_cast<double>(size) / static_cast<double>(numThreads) >= maxLoadFactor
LargeEnough(h, n) == h # 0 /\ tables[h].size >= MaxLoadFactor * n

\* The fast check of ensureHashtableSize().
SizeCheck(t) ==
    /\ pc[t] = "sizeCheck"
    /\ IF LargeEnough(hashtable, count[t])
       THEN Finish(t, "idle")
       ELSE Start(t, "rehash", Null)
    /\ UNCHANGED <<shared, numThreads, registered, address>>

-----------------------------------------------------------------------------
(* The operations                                                           *)

ParkStart(t, a) ==
    /\ pc[t] = "idle" /\ t \in registered /\ "enqueue" \in Operations[t]
    /\ Start(t, "enqueue", a)
    /\ UNCHANGED <<shared, numThreads, registered, address>>

\* A parked thread's timeout expires.
TimeoutStart(t) ==
    /\ pc[t] = "parked" /\ "timeout" \in Operations[t]
    /\ Start(t, "timeout", address[t])
    /\ UNCHANGED <<shared, numThreads, registered, address>>

\* unparkOne(), unparkAll() and forEach() need no ThreadData.
UnparkStart(t) ==
    /\ pc[t] = "idle"
    /\ \/ \E a \in Addresses, o \in Operations[t] \cap {"unparkOne", "unparkAll"} : Start(t, o, a)
       \/ "forEach" \in Operations[t] /\ Start(t, "forEach", Null)
    /\ UNCHANGED <<shared, numThreads, registered, address>>

\* ensureHashtable(): the current table, made if there is none.
EnsureHashtable(t) ==
    /\ pc[t] = "table"
    /\ IF hashtable = 0
       THEN /\ tables' = Append(tables, NewTable(MaxLoadFactor))
            /\ hashtable' = Len(tables) + 1
       ELSE UNCHANGED <<tables, hashtable>>
    /\ mine' = [mine EXCEPT ![t] = hashtable']
    /\ Goto(t, "find")
    /\ UNCHANGED <<bucketQueue, bucketLock, numThreads, registered, address, op, target, buckets, count>>

\* Mutant of ToFind: lockHashtable() passes over the places that have no bucket.
ToFindMade(t) ==
    LET table == tables[mine[t]]
        wanted == IF NeedsAll(t) THEN {i \in 0..(table.size - 1) : table.data[i] # 0}
                  ELSE {Index(target[t], table.size)}
    IN  {i \in wanted : table.data[i] = 0 \/ table.data[i] \notin buckets[t]}

\* The places of t's table whose buckets it has still to find, the next one first.
ToFind(t) ==
    LET table == tables[mine[t]]
        wanted == IF NeedsAll(t) THEN 0..(table.size - 1) ELSE {Index(target[t], table.size)}
    IN  {i \in wanted : table.data[i] = 0 \/ table.data[i] \notin buckets[t]}
NextToFind(t) == Max(ToFind(t))

\* The pointer is loaded; where it is null, a new bucket is installed, except that
\* dequeue() with BucketMode::IgnoreEmpty returns.
FindBucket(t) ==
    /\ pc[t] = "find" /\ ToFind(t) # {}
    /\ LET i == NextToFind(t)
           found == tables[mine[t]].data[i]
           fresh == Len(bucketQueue) + 1
       IN  \/ /\ found # 0
              /\ buckets' = [buckets EXCEPT ![t] = @ \cup {found}]
              /\ UNCHANGED <<shared, pc, op, target, mine, count>>
           \/ /\ found = 0 /\ op[t] \notin {"unparkAll", "timeout"}
              /\ tables' = [tables EXCEPT ![mine[t]].data[i] = fresh]
              /\ bucketQueue' = Append(bucketQueue, <<>>)
              /\ bucketLock' = Append(bucketLock, Null)
              /\ buckets' = [buckets EXCEPT ![t] = @ \cup {fresh}]
              /\ UNCHANGED <<hashtable, pc, op, target, mine, count>>
           \/ /\ found = 0 /\ op[t] \in {"unparkAll", "timeout"}
              /\ Finish(t, "idle")
              /\ UNCHANGED shared
    /\ UNCHANGED <<numThreads, registered, address>>

\* Buckets in the order of their addresses.
Sorted(bs) == Ranked(bs, [b \in bs |-> {c \in bs : c <= b}])

Held(t) == {b \in buckets[t] : bucketLock[b] = t}

\* Mutant of NextToLock: the buckets are not sorted.
AnyToLock(t) == buckets[t] \ Held(t)

\* std::sort(): the buckets are locked in the order of their addresses.
NextToLock(t) ==
    LET rest == buckets[t] \ Held(t) IN {b \in rest : \A c \in rest : b <= c}

LockBucket(t) ==
    /\ pc[t] = "find" /\ ToFind(t) = {}
    /\ \E b \in NextToLock(t) :
         /\ bucketLock[b] = Null
         /\ bucketLock' = [bucketLock EXCEPT ![b] = t]
    /\ UNCHANGED <<tables, hashtable, bucketQueue, numThreads, registered, address, locals>>

\* t has locked every bucket it wants for its operation, one of ops; it releases them
\* in the step that uses them.
HasLocked(t, ops) ==
    pc[t] = "find" /\ op[t] \in ops /\ ToFind(t) = {} /\ Held(t) = buckets[t]

\* unlockHashtable(), or the unlock() of the one bucket
UnlockBuckets(t) ==
    bucketLock' = [b \in 1..Len(bucketQueue') |->
        IF b > Len(bucketLock) \/ b \in buckets[t] THEN Null ELSE bucketLock[b]]

\* Mutant of StillCurrent: nobody looks whether the table was rehashed.
AssumedCurrent(t) == TRUE

\* hashtable.load() == currentHashtable
StillCurrent(t) == hashtable = mine[t]

\* "At this point the hashtable could have rehashed under us."
Retry(t) ==
    /\ HasLocked(t, {"enqueue", "unparkOne", "unparkAll", "timeout", "rehash", "forEach"})
    /\ ~StillCurrent(t)
    /\ Goto(t, "table")
    /\ mine' = [mine EXCEPT ![t] = 0]
    /\ buckets' = [buckets EXCEPT ![t] = {}]
    /\ UNCHANGED <<tables, hashtable, bucketQueue, numThreads, registered, address, op, target, count>>
    /\ UnlockBuckets(t)

\* The one bucket of an enqueue() or dequeue().
TheBucket(t) == CHOOSE b \in buckets[t] : TRUE

\* The functor of enqueue(): the validation decides.
EnqueueSelf(t) ==
    /\ HasLocked(t, {"enqueue"}) /\ StillCurrent(t)
    /\ \/ /\ bucketQueue' = [bucketQueue EXCEPT ![TheBucket(t)] = Append(@, t)]
          /\ address' = [address EXCEPT ![t] = target[t]]
          /\ Finish(t, "parked")
       \/ Finish(t, "idle") /\ UNCHANGED <<bucketQueue, address>>
    /\ UNCHANGED <<tables, hashtable, numThreads, registered>>
    /\ UnlockBuckets(t)

\* What dequeue() removes: the first waiter, every waiter, or the caller itself.
Removed(t) ==
    LET q == bucketQueue[TheBucket(t)]
        waiters == {i \in 1..Len(q) : address[q[i]] = target[t]}
    IN  CASE op[t] = "unparkOne" -> {q[i] : i \in {j \in waiters : \A k \in waiters : j <= k}}
          [] op[t] = "unparkAll" -> {q[i] : i \in waiters}
          [] op[t] = "timeout" -> {t}

Dequeue(t) ==
    /\ HasLocked(t, {"unparkOne", "unparkAll", "timeout"}) /\ StillCurrent(t)
    /\ bucketQueue' = [bucketQueue EXCEPT ![TheBucket(t)] = Kept(@, Threads \ Removed(t))]
    /\ address' = [w \in Threads |-> IF w \in Removed(t) THEN Null ELSE address[w]]
    /\ pc' = [w \in Threads |->
                IF w = t \/ (w \in Removed(t) /\ pc[w] = "parked") THEN "idle" ELSE pc[w]]
    /\ ForgetLocals(t)
    /\ UNCHANGED <<tables, hashtable, numThreads, registered>>
    /\ UnlockBuckets(t)

\* forEach() only reads, with every bucket locked.
ForEach(t) ==
    /\ HasLocked(t, {"forEach"}) /\ StillCurrent(t)
    /\ Finish(t, "idle")
    /\ UNCHANGED <<tables, hashtable, bucketQueue, numThreads, registered, address>>
    /\ UnlockBuckets(t)

-----------------------------------------------------------------------------
(* ensureHashtableSize(), once every bucket is locked                       *)

NoNeedToRehash(t) ==
    /\ HasLocked(t, {"rehash"}) /\ StillCurrent(t)
    /\ LargeEnough(hashtable, count[t])
    /\ Finish(t, "idle")
    /\ UNCHANGED <<tables, hashtable, bucketQueue, numThreads, registered, address>>
    /\ UnlockBuckets(t)

\* Where a thread is linked in one of the buckets bs: the bucket and the place in its queue.
Linked(bs) == UNION {{b} \X DOMAIN bucketQueue[b] : b \in bs}

\* Mutant of Gathered: each queue is taken from its end.
GatheredReversed(bs) ==
    LET upTo == [p \in Linked(bs) |->
                    {l \in Linked(bs) : l[1] < p[1] \/ (l[1] = p[1] /\ l[2] >= p[2])}]
        places == Ranked(Linked(bs), upTo)
    IN  [k \in DOMAIN places |-> bucketQueue[places[k][1]][places[k][2]]]

\* The threads queued in the locked buckets: bucket by bucket, each in queue order.
Gathered(bs) ==
    LET upTo == [p \in Linked(bs) |->
                    {l \in Linked(bs) : l[1] < p[1] \/ (l[1] = p[1] /\ l[2] <= p[2])}]
        places == Ranked(Linked(bs), upTo)
    IN  [k \in DOMAIN places |-> bucketQueue[places[k][1]][places[k][2]]]

\* One thread goes to its place in the new table r.data, whose bucket is taken from the end
\* of reusable while there is one, and is new after that.
Rehashed(r, w) ==
    LET i == Index(address[w], r.size)
        b == IF r.data[i] # 0 THEN r.data[i]
             ELSE IF r.reusable # <<>> THEN Last(r.reusable) ELSE Len(r.queues) + 1
        qs == IF b > Len(r.queues) THEN Append(r.queues, <<>>) ELSE r.queues
    IN  [size |-> r.size, data |-> [r.data EXCEPT ![i] = b],
         reusable |-> IF r.data[i] = 0 /\ r.reusable # <<>> THEN Front(r.reusable) ELSE r.reusable,
         queues |-> [qs EXCEPT ![b] = Append(@, w)]]

\* The loop over the gathered threads.
Refilled(r, ws) ==
    LET after[k \in 0..Len(ws)] == IF k = 0 THEN r ELSE Rehashed(after[k - 1], ws[k])
    IN  after[Len(ws)]

\* Mutant of LeftOver: the buckets that are left are not placed.
LeftOverDropped(r, i) == r

\* A bucket that is left goes to an empty place.
LeftOver(r, i) ==
    IF r.data[i] # 0 \/ r.reusable = <<>> THEN r
    ELSE [r EXCEPT !.data = [@ EXCEPT ![i] = Last(r.reusable)], !.reusable = Front(@)]

\* The loop over the places of the new table.
Completed(r) ==
    LET after[k \in 0..r.size] == IF k = 0 THEN r ELSE LeftOver(after[k - 1], k - 1)
    IN  after[r.size]

\* The table for n threads, made of the buckets bs.
Resized(n, bs) ==
    LET size == n * GrowthFactor * MaxLoadFactor
        emptied == [b \in DOMAIN bucketQueue |-> IF b \in bs THEN <<>> ELSE bucketQueue[b]]
        start == [size |-> size, data |-> NewTable(size).data,
                  reusable |-> Sorted(bs), queues |-> emptied]
    IN  Completed(Refilled(start, Gathered(bs)))

Rehash(t) ==
    /\ HasLocked(t, {"rehash"}) /\ StillCurrent(t)
    /\ ~LargeEnough(hashtable, count[t])
    /\ LET new == Resized(count[t], buckets[t])
       IN  /\ tables' = Append(tables, [size |-> new.size, data |-> new.data])
           /\ bucketQueue' = new.queues
    /\ hashtable' = Len(tables) + 1
    /\ Finish(t, "idle")
    /\ UNCHANGED <<numThreads, registered, address>>
    /\ UnlockBuckets(t)

-----------------------------------------------------------------------------
\* The steps of an operation under way.
Step(t) ==
    \/ SizeCheck(t) \/ EnsureHashtable(t) \/ FindBucket(t) \/ LockBucket(t) \/ Retry(t)
    \/ EnqueueSelf(t) \/ Dequeue(t) \/ ForEach(t) \/ NoNeedToRehash(t) \/ Rehash(t)

Next == \E t \in Threads :
    \/ ThreadDataMade(t) \/ ThreadDataDestroyed(t)
    \/ (\E a \in Addresses : ParkStart(t, a)) \/ TimeoutStart(t) \/ UnparkStart(t)
    \/ Step(t)

Spec == Init /\ [][Next]_vars

-----------------------------------------------------------------------------
(* What the table promises                                                  *)

(* Types: spines and buckets only ever get more, locals refer to them.      *)
TypeOK ==
    /\ \A k \in 1..Len(tables) :
         /\ tables[k].size \in Nat \ {0}
         /\ tables[k].data \in [0..(tables[k].size - 1) -> 0..Len(bucketQueue)]
    /\ hashtable = Len(tables)
    /\ bucketQueue \in Seq(Seq(Threads))
    /\ bucketLock \in Seq(Threads \cup {Null}) /\ Len(bucketLock) = Len(bucketQueue)
    /\ numThreads = Cardinality(registered) /\ registered \subseteq Threads
    /\ address \in [Threads -> Addresses \cup {Null}]
    /\ pc \in [Threads -> {"idle", "sizeCheck", "table", "find", "parked", "gone"}]
    /\ op \in [Threads -> {"none", "enqueue", "unparkOne", "unparkAll", "timeout", "rehash", "forEach"}]
    /\ target \in [Threads -> Addresses \cup {Null}]
    /\ mine \in [Threads -> 0..Len(tables)]
    /\ buckets \in [Threads -> SUBSET (1..Len(bucketQueue))]
    /\ count \in [Threads -> 0..Cardinality(Threads)]

\* The queue that a lookup of address a in the current table finds.
QueueOf(a) ==
    IF hashtable = 0 THEN <<>>
    ELSE LET b == tables[hashtable].data[Index(a, tables[hashtable].size)]
         IN  IF b = 0 THEN <<>> ELSE Kept(bucketQueue[b], {w \in Threads : address[w] = a})

(* No parked thread is lost: it is linked once, in the bucket where a       *)
(* lookup of its address in the current table finds it, though the table    *)
(* may have been rebuilt since it parked; and no other thread is linked.    *)
NoThreadLost ==
    LET linked == Linked(DOMAIN bucketQueue) IN
    /\ \A t \in Threads : pc[t] = "parked" => t \in Members(QueueOf(address[t]))
    /\ \A p, l \in linked : bucketQueue[p[1]][p[2]] = bucketQueue[l[1]][l[2]] => p = l
    /\ \A p \in linked : LET t == bucketQueue[p[1]][p[2]] IN pc[t] = "parked" \/ op[t] = "timeout"

(* The assertions of ensureHashtableSize(): the table grows, its            *)
(* compare-exchange finds the old table, and every bucket of the old spine  *)
(* has a place in the new one, no two places sharing a bucket.              *)
RehashAssertionsHold ==
    /\ \A k \in 1..(Len(tables) - 1) :
         /\ tables[k + 1].size > tables[k].size
         /\ \A i \in DOMAIN tables[k].data :
              \E j \in DOMAIN tables[k + 1].data : tables[k + 1].data[j] = tables[k].data[i]
    /\ \A k \in 1..Len(tables) :
         LET data == tables[k].data IN
         IsInjective([i \in {j \in DOMAIN data : data[j] # 0} |-> data[i]])

(* The table is large enough for the threads there are, whenever none of    *)
(* them is still making its ThreadData, in whatever order those that are    *)
(* raise the size.                                                          *)
LoadFactorKept ==
    (\A t \in Threads : count[t] = 0) /\ numThreads > 0 =>
        hashtable # 0 /\ tables[hashtable].size >= MaxLoadFactor * numThreads

(* What ensureHashtableSize() leaves behind is sound in both respects.      *)
TableIsSound == RehashAssertionsHold /\ LoadFactorKept

\* t waits for a bucket lock that another thread has.
Blocked(t) ==
    /\ pc[t] = "find" /\ ToFind(t) = {} /\ Held(t) # buckets[t]
    /\ \A b \in NextToLock(t) : bucketLock[b] # Null

(* Nobody waits in a circle: while an operation is under way, one can make  *)
(* a step, though lockHashtable() holds one bucket while it waits for the   *)
(* next and buckets change places from one table to the next.               *)
NoCircularWait ==
    (\E t \in Threads : Blocked(t)) => \E t \in Threads : op[t] # "none" /\ ~Blocked(t)

(* unparkAll() misses nobody: when it returns, no thread is queued on its   *)
(* address.  This is not obvious where it returns at once because the       *)
(* spine, which may be an old one, has no bucket for the address.           *)
UnparkAllMissesNobody ==
    [][ \A t \in Threads, a \in Addresses :
          op[t] = "unparkAll" /\ target[t] = a /\ op'[t] = "none" => QueueOf(a)' = <<>> ]_vars

(* The table implements first-in first-out queues, one per address, that    *)
(* rehashing does not disturb.                                              *)
Q == INSTANCE ParkingQueues WITH queue <- [a \in Addresses |-> QueueOf(a)]
ImplementsQueues == Q!Spec
=============================================================================
