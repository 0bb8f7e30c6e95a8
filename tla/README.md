# A TLA+ verification of WebKit's locks, helpers and connections

The repository is a fork of WebKit: a browser engine of several processes, each
of several threads, written in C++.  Everything concurrent in it rests on the
same few hundred lines of `Source/WTF/wtf`: an adaptive mutex of one byte
(`Lock`), a condition variable of one byte (`Condition`), the queue of sleeping
threads behind both (`ParkingLot`) and the mutex below that (`WordLock`).  They
are written with atomics, plain stores where "no need for a CAS" is argued in a
comment, and lock-free lookups in a table that is rebuilt under its readers:
the part of the code that is hardest to test and most rewarding to model.  This
project models that stack, and above it three parts whose own protocols are as
delicate: the pool of helper threads (`ParallelHelperPool`), the page management
of the allocator with its scavenger thread (`bmalloc`), and the connections
between processes (`IPC::Connection`).

All paths below are relative to `src/webkit/Source`.

## 1. The system and its parts

| Part | State | Operations | Hard because of |
|---|---|---|---|
| `WTF::WordLock` (`WTF/wtf/WordLock.*`) | one word: lock bit, queue-lock bit, queue head; per thread `shouldPark`, `nextInQueue`, `queueTail` | `lock`, `unlock` and their slow paths | barging, load-then-store releases, the queue's tail stored in its head, sleep/wake races |
| `WTF::ParkingLot` (`WTF/wtf/ParkingLot.*`) | a queue of threads per address; per thread `address`, a mutex and a condition variable | `parkConditionally`, `unparkOne` (two forms), `unparkAll`, `forEach` | wakeups in three steps, timeouts that race with them, callbacks under a lock |
| its hashtable | spine of bucket pointers, buckets with a queue and a `WordLock`, `numThreads` | `ensureHashtable`, `lockHashtable`, `ensureHashtableSize`, `enqueue`, `dequeue` | lock-free lookup against rehashing, many locks held at once |
| `WTF::Lock` (`WTF/wtf/Lock.*`) | one byte: `isHeldBit`, `hasParkedBit` | `lock`, `tryLock`, `unlock` | the byte and the queue must agree though no lock covers both |
| `WTF::Condition` (`WTF/wtf/Condition.h`) | one byte: `m_hasWaiters` | `waitUntil` and its variants, `notifyOne`, `notifyAll` | unlock inside park, lock-free fast path of notify, timeouts |
| `WTF::ParallelHelperPool` (`WTF/wtf/ParallelHelperPool.*`) | clients with a task and a count of who runs it; helper threads; a dying flag | create and destroy a client, `setTask`, `doSomeHelping`, `finish`; the helpers' loop; the destructor | one lock and two conditions shared by all clients; a task that returns late; helpers asleep when work or the end comes |
| `WTF::MessageQueue` | a deque and a kill flag | append, filtered wait, kill | a monitor over `Lock` and `Condition` |
| `bmalloc::AsyncTask` (`bmalloc/bmalloc/AsyncTask.h`) | a three-state flag, a thread | `run`; the thread's loop | a request that arrives as the thread goes to sleep |
| `bmalloc` heaps (`Heap`, `VMHeap`, `XLargeMap`, `XLargeRange`) | small pages and large ranges, free or used, each with its physical size; what the system backs | allocate, free, shrink, scavenge | the scavenger gives memory back with the heap unlocked; ranges split and merge |
| `IPC::Connection` (`WebKit2/Platform/IPC`) | per connection: queues, pending sync replies, one waiter, validity; per process: marked messages, a semaphore, the main run loop | `send`, `sendSync` from main and other threads, `waitForMessage`, dispatch, `invalidate`, disconnection | waits that nest, cross and share a semaphore; order of sync and async messages; timeouts and lost peers |
| WebKit2 UI process | process proxies, throttlers, back/forward list | launch, suspend, crash, navigate | messages queued while a process starts, crashes between |
| network cache, IndexedDB, Web SQL, DFG worklist | files and indices; connections and transactions; reader/writer queues; compilation plans | | storage that fails half-way; work handed between threads |
| JavaScriptCore, WebCore DOM and rendering, Web Inspector, ThirdParty, Tools | | | not candidates: language implementation, object graphs of one thread, UI, vendored code |

How the modelled parts interact: `Condition` and `Lock` each own one byte and
use its address as the key of a queue in `ParkingLot`.  `Lock::lockSlow` parks
if the byte still has both bits set when it is compared under the bucket's
lock; `Lock::unlockSlow` stores the byte in the callback of `unparkOne`, under
the same bucket lock.  `Condition::waitUntil` sets `m_hasWaiters` in the
validation, releases the `Lock` in `beforeSleep` (so an unpark call is nested in
a park call) and takes it again afterwards, which may park the thread a second
time, on another address.  `ParkingLot` protects each bucket with a `WordLock`.
`ParallelHelperPool` and `Connection` are written with `Lock` and `Condition`
(the pool's conditions, the connection's `m_waitForMessageCondition`); `bmalloc`
sits below WTF and has a lock and a task of its own, whose function is the
heap's `concurrentScavenge`.  A connection moves work between three kinds of
threads: its work queue reads the socket and posts functions to the main run
loop or wakes the main thread, which dispatches messages and may wait for
replies inside their handlers, and other threads may wait for replies as well.

What makes each part correct:

* `WordLock` and `Lock`: at most one owner; a release is never lost and never
  overwrites another thread's change; whoever sleeps is remembered by the word
  or by someone about to wake it; somebody always gets the lock.
* `ParkingLot`: a thread that parked is found by an unpark call until one takes
  it; once taken it wakes up; `true` means unparked, and `false` that the thread
  gave up before an unpark call took it, or when its time was up.
* the hashtable: whatever rehashing goes on, it looks like one first-in
  first-out queue per address.
* `Condition`: a notification is not lost between a waiter's announcement, its
  release of the lock and its sleep.
* `ParallelHelperPool`: after `finish` nobody runs the client's task; a helper
  sleeps only when there is nothing to do; `finish` and the destructor return.
* `bmalloc`: memory handed out is backed by the system; no memory is lost or
  owned twice; a request to scavenge is served.
* `Connection`: every synchronous send returns, whatever crosses or breaks;
  requests and replies are matched; what was set aside is dispatched; messages
  that promise an order keep it; the loss of the peer is noticed.

`PROJECT.json` lists the parts with their status and, under `hazards`, each
place where the code could go wrong in a way a test would hardly reach.

## 2. Modules

| Module | Models | Extends |
|---|---|---|
| `WordLock` | `WordLock.h`, `WordLock.cpp` | |
| `Mutex` | what a lock promises: `Request`, `Acquire`, `Release` | |
| `QueueOps` | the lists of threads as sequences: members, walk, sort | |
| `ParkingLot` | the park and unpark calls, a queue per address | `QueueOps` |
| `ParkingLotClients` | arbitrary callers of the parking lot | `ParkingLot` |
| `Lock` | `Lock.h`, `Lock.cpp` and `compareAndPark` | `ParkingLot` |
| `LockClients` | threads that lock, try-lock and unlock | `Lock` |
| `Condition` | `Condition.h` with a `Lock` | `Lock` |
| `MonitorClients` | producers and consumers with a predicate | `Condition` |
| `ParkingQueues` | what the hashtable promises: a FIFO queue per address | `QueueOps` |
| `ParkingLotTable` | the hashtable, bucket locks and rehashing | `QueueOps` |
| `ParallelHelperPool` | the pool, its clients and its helpers | |
| `AsyncTask` | `AsyncTask.h` | |
| `BmallocHeap` | small pages, large ranges and the scavenger | `AsyncTask` |
| `Connection` | `Connection.cpp` and the Unix transport | |
| `WordLockProofs` | theorems | `WordLock` |
| `ParkingLotProofs` | theorems | `ParkingLotClients` |
| `LockProofs` | theorems | `LockClients`, `ParkingLotProofs` |
| `MonitorProofs` | theorems | `MonitorClients`, `ParkingLotProofs` |
| `ParkingLotTableProofs`, `ParallelHelperPoolProofs`, `BmallocHeapProofs`, `ConnectionProofs` | theorems | the modules of those names |
| `MC*` | instances for TLC: symmetry, hash values, topologies | |

### Atomicity

A step is one access to memory shared with other threads, followed by the
branches the thread takes on what it read.  In `WordLock` and `Lock` that is one
load, store or compare-exchange of the word or byte.  A weak compare-exchange
wins only if the value is the expected one, and may fail though it is where
`WeakCASMayFail` is true (targets with load-linked/store-conditional).  A
section under a thread's own `parkingLock` is one step, as `std::mutex` makes it;
`wait` releases that mutex atomically with going to sleep and may return
spuriously (`SpuriousWakeup`).

Memory orders are taken as sequentially consistent.  The slow paths use the
default order of `Atomic`, which is; the fast paths use acquire and release.

`ParkingLot` does what happens under a bucket's lock in one step.  The section
contains a single access to memory that others touch without the bucket's lock:
the load or store of the byte by the validation or callback.  Everything before
it can be moved later and everything after it earlier without changing what
another thread sees, so the section is equivalent to an atomic step.  That the
right bucket is locked is what `ParkingLotTable` shows: there, finding a bucket,
locking it and looking whether the table is still current are separate steps.
In turn `ParkingLotTable` takes each bucket lock to be a mutex, which is what
`ImplementsMutex` shows of `WordLock`, and takes a dequeued thread to be awake,
leaving the steps of the wakeup to `ParkingLot`.

In the parts above the locks a section under a lock is a step, since `Lock`
implements `Mutex`; a wait on a condition ends the section, and the thread goes
on in a section of its own after a notification.  `AsyncTask` is finer, because
its flag is atomic and is changed outside the lock: each access to `m_state`,
each acquisition of `m_conditionMutex`, the test of the wait's predicate and the
sleep itself are separate steps.  In `BmallocHeap` the mutex is a variable only
while `run()`, which has steps of its own, is called under it; the system call
that gives memory back is a separate step made without the mutex.

In `Connection` the main thread, the work queue of each end and the secondary
thread interleave at the connection's locks and at the run loop.  Three sections
are merged into one step.  `connectionDidClose` takes two locks in turn and then
posts a function; all the merged step leaves out is a main thread whose
synchronous send ends between the two and whose `waitForMessage`, started there,
is interrupted at once where the model leaves it asleep until it times out.
`SyncMessageState::processIncomingMessage` signals the
semaphore after its section: a main thread that takes the message before the
signal goes round its loop once more when the signal comes, as it may anyway
after any stale signal.  `sendMessage` appends to `m_outgoingMessages`, which
the work queue empties in order into the socket; `wire` stands for both, and a
message may stay on it for any time or be lost when either end is closed.

### State and actions

* `WordLock`: `word` is a record of the two bits and the head; the three fields
  of `ThreadData` are functions on threads; `pc` is the place in the code, and
  `cur`, `spinCount`, `queueHead`, `newQueueHead` are the locals, reset when a
  call returns.  `LockFast`, `LockLoad`, `Barge`, `SpinOrQueue`, `QueueReload`,
  `LockQueueCAS`, `Enqueue`, `EnqueueReload`, `Publish`, `Park` follow
  `lock`/`lockSlow` from top to bottom, the `Unlock...` actions and `Dequeue`
  follow `unlock`/`unlockSlow`.
* `ParkingLot`: `queue[a]`, `ThreadData::address`, and two program counters per
  thread, `parkPc` and `unparkPc`, since an unpark call may be nested in a park
  call's `beforeSleep`.  `threadDatas` is what an unpark call has still to wake.
  `unparked` is a history variable.  Whether the bucket is non-empty after a
  dequeue depends on addresses that hash alike, so `UnparkResults` allows
  `mayHaveMoreThreads` to be true without another waiter, never the converse.
  Time is `Expire`: a finite timeout passes at any moment, also between the
  steps of an unparker that has dequeued the thread.
* `Lock`: `byte`, `lockPc`, `cur` (the value loaded) and `spinCount`.
  `CompareAndEnqueue` and `UnlockUnpark` combine a step of the parking lot with
  the access to the byte made in its validation or callback.
* `Condition`: `hasWaiters`, `condPc`, `waitResult`.  `WaitUnlock` is the lock's
  `UnlockFast` inside `beforeSleep`; `WaitRelock` its `LockFast` after waking.
* `ParkingLotTable`: all spines ever made (none is freed), bucket queues and
  locks, and the locals of the operation each thread is in.  `FindBucket` is one
  slot's load or installation; slots are written once, so their
  compare-exchange loop is one step.  `Rehash` is one step because every bucket
  is locked; it gathers, resizes, reuses buckets from the end of the vector and
  places those left over, as the code does.  A bucket's number stands for its
  place in memory, by which buckets are sorted before they are locked.

* `ParallelHelperPool`: `clients`, `task`, `numActive`, `threads`, `isDying` are
  the members of those names; `waitsOn` says on which condition a thread sleeps,
  `claimed` which task of which client it runs.  `getClientWithTask` starts its
  search at a random index, so `ClientsWithTask` is a set.  A task is one of the
  two kinds described in `ParallelHelperPool.h`: it returns by itself, or when
  the client has told it to (`TellToStop`).
* `AsyncTask`: `state`, `taskPc` (the loop) and `runPc` (each caller of `run`).
  The thread is started in the constructor's initialiser list, before the object
  and the function are stored; `constructed` keeps the two apart.
* `BmallocHeap`: where each small page is (with the `VMHeap`, free in the heap,
  used, or in a scavenger's hands), the free ranges with their physical prefix,
  the allocated ones, and what the operating system backs, which the code does
  not record.  `Merge`, `SplitLeft`, `SplitRight` are the arithmetic of
  `XLargeRange`.  `m_free` is a set: `add` merges with the two neighbours, in the
  order it meets them, and merging is associative.  `removePhysical` takes any range with
  physical memory, as the order of the vector is arbitrary.
* `Connection`: `stack` is the main thread's call stack of handlers, dispatch
  loops and waits.  `SendSync`, `Swap`, `DispatchFromBatch`, `FinishBatch`,
  `CheckSyncReply`, `WakeUp` and `TimeOut` are `sendSyncMessage` and
  `waitForSyncReply` with the loop of `dispatchMessages`; `StartWait`,
  `RegisterWait`, `TestWait`, `WakeFromWait` (notified) and `WaitTimesOut` are
  `waitForMessage`; the actions of
  the work queue are one per kind of incoming message.  `Exit` is the `exit(0)`
  of a process that cannot get its reply, and also a crash.  Message numbers
  grow per end, and `lastPlain` is a history variable.

`MonitorClients` and the other client modules are the environment: threads call
in any order the interface allows.  In `MonitorClients` a producer raises its
flag again only when it has been taken; `Lock` lets threads barge in, and a
producer that never pauses could keep consumers from it.

## 3. Runs

| Run | Instance | Distinct states | What it shows |
|---|---|---|---|
| `wordlock` | 3 threads, `SpinLimit` 1, spurious failures | 49,000 | exclusion, every assertion on the word and on `ThreadData`, no waiter forgotten, FIFO order, refinement of `Mutex`; parked threads are woken, the lock keeps being acquired |
| `parkinglot` | 3 threads, 2 addresses, timeouts | 164,000 | consistent queues, the assertions, no lost wakeup, what the result means |
| `table` | 3 threads, 2 addresses; all park, two unpark all, one unparks, walks, times out and exits | 856,000 | no thread lost, the assertions of a rehash and the load factor, no circular wait, refinement of `ParkingQueues`, `unparkAll` misses nobody |
| `lock` | 3 threads, `SpinLimit` 1, spurious failures | 79,000 | exclusion, assertions, parked threads remembered, refinement of `Mutex`, liveness |
| `monitor` | 1 producer, 2 consumers, all kinds of timeouts, spurious failures | 833,000 | waiters remembered |
| `monitor_live` | 1 producer, 2 consumers | 246,000 | what is announced is consumed |
| `monitor_timed` | 1 producer, 2 consumers, timeouts | violation | finding 1 |
| `pool` | 2 clients, 2 helpers, 2 tasks | 17,000 | nobody runs a task after `finish`, helpers sleep only when idle, `finish` and the destructor return |
| `bmalloc` | 2 callers and the task's thread, 1 small page, a chunk of 3 units, alignments 1 and 2 | 199,000 | memory in use is backed, owned once, scavenged; requests are served |
| `connection` | UI and web process, 3 calls; a secondary thread, timeouts, `waitForMessage`, invalidation, a crash | 199,000 | order of messages, every sync send returns (if waits for messages have deadlines), the loss of the peer is noticed by all but a `waitForMessage` that fell asleep too late |
| `connection_chain` | UI, web and plug-in process, 3 sync sends from any of them | 154,000 | pending replies mirror the call stack, nothing set aside is stranded, no deadlock |
| `connection_wait` | UI and web process, 2 calls | violation | finding 2 |

Bounds.  With three threads a `WordLock` is held while two wait, so that head,
tail and owner are different threads and the tail moves when the head is
dequeued.  In the parking lot three threads make two waiters and two unparkers,
since a waiter in `beforeSleep` unparks as well.  `SpinLimit` is 40 in the
source; 1 makes a thread spin and then stop, and 0 in the monitor leaves the
spinning to the other runs.  In the table, `MaxLoadFactor` and `GrowthFactor` are
3 and 2 in the source; 1 and 1 make tables of sizes 1, 2 and 3, so that each of
three registrations rehashes and the two addresses, which collide in the
smallest table, part in a larger one.  `Operations` says which thread does what,
to keep the state space small: each operation meets another thread's parking,
unparking and rehashing.
Threads park and unpark without bound in every run.

Two clients and two helpers are the fewest with which helpers go from one client
to another while the first is in `finish`, and two tasks the fewest with which a
new round meets an old task; rounds repeat without bound.  The chunk of three
units lets a range have two neighbours; `WasteFactor` is 8 in the source, and 2
makes an allocation of two units keep a third it was not asked for, as larger
sizes do.  One chunk is obtained, once; a second would be
another set of ranges that never merge with the first's.  Operations repeat
without bound.  `MaxSends` 3 is a sync send, a crossing one and one nested in a
handler, which is what a deadlock, a stale signal, an overtaking or a wrong top
of the stack takes; in the pair, which also has the faults, every combination of
three calls is taken.  Only the web process has the options the code sets for it
(`m_onlySendMessagesAsDispatchWhenWaitingForSyncReplyWhenProcessingSuchAMessage`
and `m_shouldExitOnSyncMessageSendFailure`); it crashes, and the UI process
invalidates.  Symmetry permutes threads with the same role (and, in the parking
lot, addresses), which no action or property tells apart; the runs that check
liveness do not use it, except that `table`'s temporal properties are action
properties.  The connection runs do not check for
deadlock: once the bounded number of calls has been made and everything is
dispatched, nothing is left to do.  Neither does `table`, where one thread
may exit while the others are parked; `NoCircularWait` states what
must not happen instead.

In `parkinglot` and `monitor` a timeout may fire at any moment, also for a thread
that an unparker has dequeued and not yet marked; that thread clears its own
address, returns false and goes on.  The state constraint `NoStaleUnparker` cuts
what may follow only where such a thread parks *again* before the unparker has
cleared its address: from there the store of the old unparker hits the new park,
which is finding 1, and `monitor_timed`, which has no constraint, shows it.

The race itself has two consequences that the properties state and do not hide.
`ResultTellsUnparked` says that true means unparked, and that a thread that was
unparked and gets false had used up its timeout: false does *not* mean that no
unpark call took it (comment at `ParkingLot.cpp` 590-593, return at 611).
`LotAssertionsHold` has the assertions of the parking thread and of `enqueue`.
`ASSERT(threadData->address)` of the unpark calls (641, 679, 710) is apart, in
`UnparkAssertionHolds`: it fails in the race, is reported with finding 1, and is
proved for callers without finite timeouts (section 4).

Each module's type invariant documents the shape of its state; it is part of the
inductive invariants of section 4, and `WordLock`'s is also in a run.

### Findings

1. An unparker that has dequeued a thread and is delayed before it clears the
   thread's `address` (`ParkingLot.cpp` 645, 683, 713) may find that the timeout
   has fired, and the thread has returned, gone on to relock, and parked on
   another address; the store then ends that park while the thread is still in
   that queue, contrary to `ParkingLot.h` 47-49 ("it will sleep so long as the
   thread continues to be on the queue and the timeout hasn't fired").  A timed
   `Condition` wait followed by its own relock is enough.  In the same window
   `ASSERT(threadData->address)` of the unpark calls (641, 679, 710) fails, since
   the thread clears its own address (605-609); it takes one timeout and no
   second park (`UnparkAssertionHolds` is not an invariant of `parkinglot`).  The
   comment at 590 knows of the race.
2. `InterruptWaitingIfSyncMessageArrives` is documented to make `waitForMessage`
   "be interrupted immediately by any incoming sync messages" (`Connection.h`
   72).  The loop tests only the decoder before it sleeps (`Connection.cpp`
   436-446), so a sync message processed between the registration of the wait
   and the sleep sets `messageWaitingInterrupted` and notifies nobody; the thread
   sleeps until its timeout.  One enqueued between the search of the queue and
   the registration (411-427) is not noticed at all.  The same holds for the loss
   of the connection, which is to make the thread "stop waiting" (comment at 447):
   a close handled before line 427 finds no waiter to tell, and one handled
   between 427 and 446 sets a flag that is not tested before the sleep (765-770).
   A caller that passes `milliseconds::max()` (`WKContentView.mm` 673) then never
   learns of it.  `PeerLossNoticed` excuses this case by name (`Oversleeps`).

Not runs, noted while modelling:

* `ParkingLot.h` 49-50 says a call returns "false if the timeout was hit", which
  in the window above is also what a thread gets that an unpark call has chosen
  (`ResultTellsUnparked` says so; without timeouts `ResultIsExact` is proved).
* The fast path of `notifyOne` says "there is nobody waiting" (`Condition.h` 175)
  where a concurrent `notifyAll` may have cleared the flag before unparking, which
  is harmless because of `WaitersRemembered`.
* `ASSERT(~(currentWordValue & ~queueHeadMask))` in `WordLock.cpp` 153 has `~` for
  `!` and cannot fail.
* `merge` of two ranges forgets the physical size of the right one unless the
  left one is all physical (`XLargeRange.h` 84-87).  That is on the safe side of
  `MemoryIsBacked`; the memory stays committed and the scavenger, which goes by
  the recorded size, will not give it back for that reason alone.
  `NothingLeftBehind` speaks of recorded physical sizes.
* `waitForMessage` that times out or is interrupted after the decoder was stored
  drops the message (`Connection.cpp` 448-450).
* A synchronous send on a secondary thread is not woken when its own process
  invalidates the connection: nobody signals its semaphore.
  `SecondarySendReturns` excludes that case.
* `dispatchMessages` works on a local batch; a wait nested in one of its handlers
  sees newer marked messages first, so marked messages of one connection may be
  dispatched out of order.  `PlainMessagesInOrder` is about the others.
* A marked sync message goes to the `SyncMessageState` and never interrupts a
  `waitForMessage`.

### Fairness

Liveness is checked under weak fairness of each thread's own steps: a thread
that can run is eventually scheduled, and a thread that has the lock eventually
calls `unlock`.  Nothing makes a thread call `lock`, and no spurious wakeup is
assumed to happen.  Where a weak compare-exchange may fail spuriously, the two
locks' specifications add that the word (the byte) is not left unchanged for
ever while again and again some thread's step could change it: the progress that
load-linked/store-conditional gives the system as a whole, which promises
nothing to any one thread.  Both locks barge, so `SomeoneAcquires` says that some
thread gets the lock, and `ParkedThreadIsWoken` only that a sleeper wakes.
`monitor_live` has no spurious failures, and weak fairness alone.

In the pool, threads are scheduled and tasks return, when they are done or after
they have been told to; nothing makes a client call `finish`.  In `AsyncTask` the
task's thread and callers inside `run()` are scheduled, and the thread's weak
compare-exchange does not fail for ever where it could succeed (`SF`).  Nothing is assumed
about the heap's mutex, a spin lock that is not fair: `RequestIsServed` ends where
the task's function starts.  In `Connection`, main threads, work queues and
secondary threads are scheduled and handlers return; clients need not call
anything, and nothing makes a timeout, an invalidation or a crash happen.
`PeerLossNoticed` holds under that alone.  `SyncSendReturns` and
`SecondarySendReturns` do not: a `waitForMessage` for a message that never comes
may be on top of the waiting send, or keep the peer from answering it.  They have
the hypothesis `WaitsHaveDeadlines`, that such a wait ends by its timeout if by
nothing else.  The code justifies it for the waits of the instance, those with
`InterruptWaitingIfSyncMessageArrives`: each of their callers passes a finite
timeout (`RemoteLayerTreeDrawingAreaProxy.mm` 436,
`TiledCoreAnimationDrawingAreaProxy.mm` 82 and 137, `WebPageProxyIOS.mm` 306).  It
is not justified for `WKContentView.mm` 673, which waits without a deadline, and
nothing is claimed of a sync send behind that wait.

## 4. Proofs

The theorems hold for every finite set of threads, processes, connections, pages
or units, every bound and limit, and with or without spurious failures; their
assumptions are the `ASSUME`s of the modules.  Those about parking with finite
timeouts also have a hypothesis, explained below.  Each proof has the same shape:
an inductive invariant, its base, one lemma or case per action, and then the
properties that follow.

| Module | Theorems |
|---|---|
| `WordLockProofs` | `TypeCorrect`, `WordLockExcludes`, `WordAssertions`, `WordLockIsMutex`, `ThreadDataStaysClear`, `NobodyForgotten`, `WordLockQueueIsFIFO` |
| `ParkingLotProofs` | `QueuesStayConsistent`, `LotAssertionsNeverFail`, `NoWakeupIsLost`, `ResultIsRight`, `UntimedParking` |
| `ParkingLotTableProofs` | `TypeCorrect`, `NoThreadIsLost`, `TableSound`, `NobodyWaitsInCircle`, `UnparkAllIsComplete`, `TableImplementsQueues` |
| `LockProofs` | `LockExcludes`, `UnlockAssertions`, `LockIsMutex`, `NobodyForgotten`, `LockWakeupsNotLost` |
| `MonitorProofs` | `WaitersAreRemembered`, `UntimedMonitorLosesNothing` |
| `ParallelHelperPoolProofs` | `TypeCorrect`, `FinishIsBarrier`, `NobodySleepsOverWork` |
| `BmallocHeapProofs` | `HeapMemoryIsBacked`, `ChunkIsPartitioned`, `NoMemoryLeftBehind` |
| `ConnectionProofs` | `TypeCorrect`, `PendingMirrorsStack`, `NothingIsStranded`, `PlainMessagesStayInOrder` |

**`WordLock`.**  Mutual exclusion alone is not inductive: the releases are a load
and a later plain store, so the invariant must say that nobody changed the word
in between.  `Inv` adds exclusion for the queue lock (at most one thread is in a
section under `isQueueLockedBit`, and exactly then is the bit set), that the queue
lock is only held while the lock is, and that what a thread has loaded under the
queue lock is what the word still holds.  Then the store of `Publish` leaves the
lock bit as it was, and the store of `UnlockStore` is made by the owner.  The
refinement maps each `pc` to "out", "waiting" or "holding", and every step to a
step of `Mutex` or a stutter.

The queue is a linked list through `nextInQueue`, with its tail in its head.
`QueueInv` says that some sequence of distinct threads is that list (`IsQueue`):
the word points to its first, each one to the next, and the first has the last
as its tail; that the threads in it are those that have queued up and are not in
an `unlock`'s hands (`WaiterInv`, `WakerInv`), and what the links are during the
two moments when the word and they disagree, an enqueue not published yet and a
dequeue whose new head is not stored yet (`HandOverInv`).  The links determine
the sequence (`ChainIsQueue`, by the least place where two chains would differ),
so the properties, which follow the links, speak of the same queue.

**`ParkingLot`.**  `LotInv` relates the four places that know of a parked thread:
the queue it is in, the `threadDatas` of an unparker that has dequeued it, its
`address`, and where it is in its own call.  A thread is in at most one of the
first two, and once; while it sleeps with its address set it is in one; with the
address cleared it is awake, or its notification is under way.  A thread in an
unparker's hands may have given up in the meantime, cleared its address itself and
returned (`WakeInv`), which is the race of a timeout with the unparker.  What the
invariant does not survive is that such a thread queues up again before the
unparker has cleared its address (finding 1), so the four theorems about arbitrary
callers, and `WaitersAreRemembered`, assume `[]NoStaleUnparker`, the condition of
the constraint of the runs; the proofs use it where a park call begins
(`ParksFresh`).  Every other order of timeouts and unparkers is admitted, and in
particular the states where `ASSERT(threadData->address)` fails and where an
unparked thread returns false.

For callers without finite timeouts nothing is assumed: there `ParksFresh` follows
from the invariant, and `UntimedParking` adds to the properties of the run
`SleepsWhileQueued`, `UnparkAssertionHolds` (the assertion at 641, 679 and 710) and
`ResultIsExact` (a call returns true exactly when its thread was unparked).
`LockWakeupsNotLost` and `UntimedMonitorLosesNothing` conclude the same of the
parking lot under `Lock`, and under untimed `Condition` waits.

**The hashtable.**  The theorems hold for any threads, addresses, hash function,
load and growth factor of at least one, and any assignment of operations; there
is no bound on how often threads come, go, park and rehash.  `Inv` has seven parts:

* `TypeInv` and `LocalInv`: the shape of the state, and what a thread's locals are
  at each place of its operation.
* `FoundInv`: the buckets a thread has found are in the places it wants, of the
  table it looked in.
* `LockInv`: who holds a bucket has found all the buckets it wants, and holds
  every smaller one of them.  This is why nobody waits in a circle: of the
  buckets that threads are blocked on take the largest; its holder has all smaller
  ones, so what it is blocked on itself would be larger still.  That buckets
  change places from table to table does not matter, as they keep their address.
* `SpineInv`: tables grow; each bucket of a table has one place in the next; and
  a table that has been replaced has no empty place, since `lockHashtable` fills
  them all before it locks.  The last part is what `UnparkAllMissesNobody` rests on:
  an operation that meets an empty place is looking at the current table.
* `LinkInv`: a thread has an address exactly while it is linked, once, in the
  bucket that a search of the current table finds for that address.
* `LoadInv`: the table is large enough, or a thread has still to look at its size
  with a count that is no smaller than `numThreads`.

The step that matters is `Rehash`.  Its two loops are recursive functions on
`0..n`, not operators.  `LoopRuns` shows that such a function is the run of its
step and `Induction` is induction in the form of sets of numbers: both take sets
and functions and no operators, so that the provers can use them.  Then the loop
over the gathered threads keeps `Shape` (places and reusable buckets share no
bucket and have them all) and `Content` (what the first `k` threads make of the
queues), and the loop over the places uses up what is left, because the new table
has more places than there are buckets.  `Gathered` and `Sorted` come from `Ranked`,
the elements of a finite set in a linear order, for which `RankedInOrder` is proved
once by counting.

For the refinement of `ParkingQueues` every step must leave all queues but one as
they are and change that one by an append, a removal of the first, of all or of
the caller.  Two sequences without repetitions that have the same members in the
same order are equal (`SameSequence`), so it is enough to follow members and order
through `Kept`, `Gathered` and the loops: a rehash keeps both for each address,
though it mixes the queues of addresses that collide.

**`Lock`.**  `Inv` adds to exclusion that a thread about to take the lock compares
with a value that lacks `isHeldBit`, and that who finds `hasParkedBit` in the lock
it owns will find both bits in the callback, since only the owner clears either.
Exclusion needs nothing of the parking lot.  That nobody is forgotten does:
`LotAndLock` joins `Inv` and `LotInv`, with the fact that a lock parks on its own
address and without a timeout, so that no `NoStaleUnparker` is needed.  The two
steps that matter are the enqueue, whose validation sees both bits under the
bucket's lock, and the callback of `unparkOne`, which may clear `hasParkedBit` only
when it is told that nobody is left.

**`Condition`.**  `MonitorInv` is `LotInv` for both addresses with `WaitersRemembered`
itself, which is inductive over it: `m_hasWaiters` is set in the validation of the
enqueue, and only a `notifyAll` that has yet to unpark everybody, or a
`notifyOne` that was told of no other waiter, clears it.

**`ParallelHelperPool`.**  The count of a client is the number of threads inside its
task (`CountIsRunners`), who runs a task has claimed it in a round that has not
been finished (`RunnersInRound`), and each place in the code agrees with the
pool's lists (`PlacesAgree`).  When `finish` returns, the count is zero.

**`BmallocHeap`.**  The free ranges, the objects and what each scavenger holds are
disjoint and cover the chunk (`LargeInv`, `HeldInv`, `NothingLost`), what is
allocated or counted as physical is backed, and a scavenger's page is its own
(`PageInv`); the lemmas on `Merge`, the splits, `Added` and `SplitAndAllocate` say
what units and what physical prefix come out.  The system call of a scavenger
can then only hit memory that it holds.  `NothingLeftBehind` needs `DueInv`: free
physical memory is being looked for, has been requested, or is about to be by
the thread that has the mutex.

**`Connection`.**  `TypeInv` has the frames of the call stacks.  Then, per process:
`PendingOK` is `PendingIsStack` for one end, with the top of the stack pushed and
popped together with the request, and every other step leaving the waiting
frames where they are (`SameWaits`).  It is needed for the types as well: the pop
of a pending reply must find one.  `StrandInv` is why nothing is stranded: a
scheduled end has a task in the run loop; a call of `dispatchMessages` for one
connection is only made from the run loop, hence never nested; so what it keeps
back belongs to ends that are still scheduled, and what it swapped out for a
nested wait is dispatched by that wait.  `PlainInv` is why plain messages stay in
order.  Towards an end whose peer has the option none of them is marked, so that
none is ever set aside, in the shared queue or in a batch of some frame; hence
`lastPlain`, the plain messages of `m_incomingMessages`, those on the wire and
`m_syncRequestID` go upwards, in this order (`Ordered`).  Each step appends a new
number, moves the first of one sequence to the end of the other, or leaves some
out (`Thinned`).

Model-checked only: liveness, which is out of the prover's reach together with
`ENABLED`.  A theorem states every other property of the passing runs.

Threads are removed from queues with `Kept` of `QueueOps`, the subsequence of a
sequence with members in a set, written without recursion so that its lemmas can
be proved; it is what `SelectSeq` computes.  `Ranked` of that module is a sort.

## 5. What is not modelled

* Memory orders weaker than sequential consistency.
* The lifetime of `ThreadData`: `notify_one()` is called after the thread may
  have returned, and perhaps exited (`ParkingLot.cpp` 647).
* What follows a failed assertion, such as a thread linked into two queues.
* The conversion of relative and wall-clock timeouts to a deadline
  (`Condition.h` 103-168, 206-254); the model has deadlines that are past,
  ahead, or never.
* Allocation and leak bookkeeping (`hashtables`), logging.
* `MessageQueue`: each method is one section under one lock with one condition,
  and every queue in the repository has a single consumer, so what it does is
  the monitor of `MonitorClients`.
* `bmalloc::StaticMutex`, a test-and-set flag; the bump allocators, line counts
  and per-thread caches above the page level; the zone enumeration on Darwin.
* In `Connection`: replies sent after the handler has returned (and what the
  FIXME at `Connection.cpp` 923 says of them), receivers on work queues of their
  own, `installIncomingSyncMessageCallback`, priority overrides, the fully
  synchronous mode for tests, invalid messages, the encoding of messages and
  attachments, and the transports other than the Unix socket.
* The other parts of section 1, for the reasons given in `PROJECT.json`: above
  the modelled layers they are either sequential, or protocols of their own that
  share no state with what is modelled here.

## 6. Plan

Done: all modules and runs, and a theorem for every safety and action property of
a passing run and for the three refinements (section 4).  What would come next:

1. Replies sent after the handler has returned and the receivers on work queues of
   their own, in `Connection`, with the threads they run on.
2. The bump allocators and line counts of `bmalloc` above the page level.
3. The network cache and the IndexedDB server, as components of their own.
