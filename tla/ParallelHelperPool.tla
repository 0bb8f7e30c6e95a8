------------------------- MODULE ParallelHelperPool --------------------------
(***************************************************************************)
(* WTF::ParallelHelperPool and its clients: a shared set of helper threads  *)
(* that run the tasks of several clients, and the barrier finish() with     *)
(* which a client waits for everybody who runs its task.                    *)
(*                                                                         *)
(* Everything is protected by m_lock, so a section under the lock is one    *)
(* step (Lock implements Mutex).  Condition::wait() ends a section; a       *)
(* waiting thread is marked in waitsOn and goes on, in a section of its     *)
(* own, once a notification has cleared the mark.                           *)
(*                                                                         *)
(* A user thread owns one client at a time, named after the thread, and     *)
(* follows one of the two patterns of ParallelHelperPool.h: tasks that      *)
(* return when they are done, or tasks that run until they are told to.     *)
(***************************************************************************)
EXTENDS Integers, FiniteSets

CONSTANTS
    Users,      \* threads that own a client
    Helpers,    \* threads the pool may create
    Tasks,      \* identities of SharedTask objects
    Null

ASSUME PoolAssumption ==
    /\ IsFiniteSet(Users) /\ IsFiniteSet(Helpers)
    /\ Users \cap Helpers = {}
    /\ Null \notin Users \cup Helpers \cup Tasks

VARIABLES
    clients,    \* m_clients, as a set: a search starts at a random index
    task,       \* m_task of each client
    numActive,  \* m_numActive of each client
    threads,    \* m_threads
    numThreads, \* m_numThreads
    isDying,    \* m_isDying
    refs,       \* who holds a reference to the pool
    pc,         \* where each thread is
    waitsOn,    \* the condition a thread sleeps on
    claimed,    \* the client and task of the runTask() call a thread is in
    ret,        \* where a thread continues after runTask()
    untilTold,  \* the client's task runs until it is told to stop
    told        \* and has been told

vars == <<clients, task, numActive, threads, numThreads, isDying, refs, pc,
          waitsOn, claimed, ret, untilTold, told>>

poolVars   == <<threads, numThreads, isDying, refs>>
clientVars == <<clients, task, numActive>>
roundVars  == <<untilTold, told>>

AllThreads == Users \cup Helpers
NoClaim    == [client |-> Null, task |-> Null]

Init ==
    /\ clients = {}
    /\ task = [u \in Users |-> Null]
    /\ numActive = [u \in Users |-> 0]
    /\ threads = {} /\ numThreads = 0
    /\ isDying = FALSE
    /\ refs = Users
    /\ pc = [t \in AllThreads |-> IF t \in Users THEN "out" ELSE "none"]
    /\ waitsOn = [t \in AllThreads |-> "nothing"]
    /\ claimed = [t \in AllThreads |-> NoClaim]
    /\ ret = [t \in AllThreads |-> "none"]
    /\ untilTold = [u \in Users |-> FALSE]
    /\ told = [u \in Users |-> FALSE]

-----------------------------------------------------------------------------
(* Helpers of the sections. *)

\* Thread t is about to enter a section of the code at l.
At(t, l) == pc[t] = l /\ waitsOn[t] = "nothing"

Goto(t, l) == pc' = [pc EXCEPT ![t] = l]

\* notifyAll() on a condition.
Woken(condition) ==
    [t \in AllThreads |-> IF waitsOn[t] = condition THEN "nothing" ELSE waitsOn[t]]

ClientsWithTask == {c \in clients : task[c] # Null}

\* Mutant of DidMakeWorkAvailable: nobody is notified.
DidMakeWorkSilently(new, pcAfter) ==
    /\ threads \subseteq new
    /\ Cardinality(new) = IF numThreads' > Cardinality(threads) THEN numThreads' ELSE Cardinality(threads)
    /\ threads' = new
    /\ pc' = [t \in AllThreads |-> IF t \in new \ threads THEN "seek" ELSE pcAfter[t]]
    /\ UNCHANGED waitsOn

\* didMakeWorkAvailable(): new is m_threads once the missing threads are created.
\* They begin in helperThreadBody().
DidMakeWorkAvailable(new, pcAfter) ==
    /\ threads \subseteq new
    /\ Cardinality(new) = IF numThreads' > Cardinality(threads) THEN numThreads' ELSE Cardinality(threads)
    /\ threads' = new
    /\ pc' = [t \in AllThreads |-> IF t \in new \ threads THEN "seek" ELSE pcAfter[t]]
    /\ waitsOn' = Woken("available")

-----------------------------------------------------------------------------
(* A client's operations, called by its owner. *)

\* ParallelHelperClient()
CreateClient(u) ==
    /\ At(u, "out") /\ u \in refs
    /\ clients' = clients \cup {u}
    /\ Goto(u, "idle")
    /\ UNCHANGED <<task, numActive, poolVars, waitsOn, claimed, ret, roundVars>>

\* setTask(), and a new round begins.
SetTask(u) ==
    /\ At(u, "idle")
    /\ \E k \in Tasks : task' = [task EXCEPT ![u] = k]
    /\ \E b \in BOOLEAN : untilTold' = [untilTold EXCEPT ![u] = b]
    /\ told' = [told EXCEPT ![u] = FALSE]
    /\ UNCHANGED numThreads
    /\ \E new \in SUBSET Helpers : DidMakeWorkAvailable(new, [pc EXCEPT ![u] = "set"])
    /\ UNCHANGED <<clients, numActive, isDying, refs, claimed, ret>>

\* claimTask() of client c by thread t, which goes on in runTask().
ClaimTask(t, c, continue) ==
    /\ numActive' = [numActive EXCEPT ![c] = @ + 1]
    /\ claimed' = [claimed EXCEPT ![t] = [client |-> c, task |-> task[c]]]
    /\ ret' = [ret EXCEPT ![t] = continue]
    /\ Goto(t, "run")

\* ParallelHelperClient::doSomeHelping(): another thread may have cleared the task.
ClientDoSomeHelping(u) ==
    /\ At(u, "set") /\ ~untilTold[u]
    /\ \/ task[u] # Null /\ ClaimTask(u, u, "set")
       \/ task[u] = Null /\ UNCHANGED <<numActive, claimed, ret, pc>>
    /\ UNCHANGED <<clients, task, poolVars, waitsOn, roundVars>>

\* The client tells its tasks to stop ("keepGoing = false").
TellToStop(u) ==
    /\ At(u, "set") /\ untilTold[u] /\ ~told[u]
    /\ told' = [told EXCEPT ![u] = TRUE]
    /\ UNCHANGED <<clientVars, poolVars, pc, waitsOn, claimed, ret, untilTold>>

\* Mutant of FinishLoop: the count is tested once, not in a loop.
FinishOnce(u, here, back) ==
    \/ /\ numActive[u] # 0 /\ pc[u] # here
       /\ waitsOn' = [waitsOn EXCEPT ![u] = "complete"]
       /\ Goto(u, here)
       /\ UNCHANGED clients
    \/ /\ numActive[u] = 0 \/ pc[u] = here
       /\ Goto(u, back)
       /\ clients' = IF here = "destroy" THEN clients \ {u} ELSE clients
       /\ UNCHANGED waitsOn

\* The loop of finish(), called by finish() itself or by the destructor, which then
\* takes the client off the list in the same section.
FinishLoop(u, here, back) ==
    \/ /\ numActive[u] # 0
       /\ waitsOn' = [waitsOn EXCEPT ![u] = "complete"]
       /\ Goto(u, here)
       /\ UNCHANGED clients
    \/ /\ numActive[u] = 0
       /\ Goto(u, back)
       /\ clients' = IF here = "destroy" THEN clients \ {u} ELSE clients
       /\ UNCHANGED waitsOn

\* finish() and ~ParallelHelperClient() begin by clearing the task.  A round of tasks
\* that run until told ends only once they have been told.
StartFinish(u) ==
    /\ \/ /\ At(u, "set") /\ (untilTold[u] => told[u])
          /\ FinishLoop(u, "finish", "idle") \/ FinishLoop(u, "destroy", "out")
       \/ At(u, "idle") /\ FinishLoop(u, "destroy", "out")
    /\ task' = [task EXCEPT ![u] = Null]
    /\ UNCHANGED <<numActive, poolVars, claimed, ret, roundVars>>

\* Woken in finish().
FinishAgain(u) ==
    /\ \/ At(u, "finish") /\ FinishLoop(u, "finish", "idle")
       \/ At(u, "destroy") /\ FinishLoop(u, "destroy", "out")
    /\ UNCHANGED <<task, numActive, poolVars, claimed, ret, roundVars>>

-----------------------------------------------------------------------------
(* The task itself, on whichever thread runs it. *)

\* Mutant of RunTaskReturn: the notification is made one thread too early.
RunTaskReturnNotifiesEarly(t) ==
    LET c == claimed[t].client IN
    /\ At(t, "run")
    /\ untilTold[c] => told[c]
    /\ task' = [task EXCEPT ![c] = Null]
    /\ numActive' = [numActive EXCEPT ![c] = @ - 1]
    /\ waitsOn' = IF numActive[c] = 2 THEN Woken("complete") ELSE waitsOn
    /\ claimed' = [claimed EXCEPT ![t] = NoClaim]
    /\ Goto(t, ret[t])
    /\ ret' = [ret EXCEPT ![t] = "none"]
    /\ UNCHANGED <<clients, poolVars, roundVars>>

\* The second section of runTask(), after task->run() has returned.
RunTaskReturn(t) ==
    LET c == claimed[t].client IN
    /\ At(t, "run")
    /\ untilTold[c] => told[c]
    /\ task' = [task EXCEPT ![c] = Null]
    /\ numActive' = [numActive EXCEPT ![c] = @ - 1]
    /\ waitsOn' = IF numActive[c] = 1 THEN Woken("complete") ELSE waitsOn
    /\ claimed' = [claimed EXCEPT ![t] = NoClaim]
    /\ Goto(t, ret[t])
    /\ ret' = [ret EXCEPT ![t] = "none"]
    /\ UNCHANGED <<clients, poolVars, roundVars>>

-----------------------------------------------------------------------------
(* The pool. *)

\* ensureThreads(n)
EnsureThreads(u) ==
    /\ u \in refs /\ pc[u] \in {"out", "idle", "set"} /\ waitsOn[u] = "nothing"
    /\ \E n \in numThreads..Cardinality(Helpers) : numThreads' = n
    /\ IF ClientsWithTask # {}
          THEN \E new \in SUBSET Helpers : DidMakeWorkAvailable(new, pc)
          ELSE UNCHANGED <<threads, pc, waitsOn>>
    /\ UNCHANGED <<clientVars, isDying, refs, claimed, ret, roundVars>>

\* ParallelHelperPool::doSomeHelping(), for any client.
PoolDoSomeHelping(u) ==
    /\ u \in refs /\ pc[u] \in {"out", "idle"} /\ waitsOn[u] = "nothing"
    /\ \E c \in ClientsWithTask : ClaimTask(u, c, pc[u])
    /\ UNCHANGED <<clients, task, poolVars, waitsOn, roundVars>>

\* One round of helperThreadBody(): it is time to quit, there is a task, or there is none.
HelperQuit(h) ==
    /\ At(h, "seek") /\ isDying
    /\ Goto(h, "exited")
    /\ UNCHANGED <<clientVars, poolVars, waitsOn, claimed, ret, roundVars>>

HelperClaim(h) ==
    /\ At(h, "seek") /\ ~isDying
    /\ \E c \in ClientsWithTask : ClaimTask(h, c, "seek")
    /\ UNCHANGED <<clients, task, poolVars, waitsOn, roundVars>>

HelperSleep(h) ==
    /\ At(h, "seek") /\ ~isDying /\ ClientsWithTask = {}
    /\ waitsOn' = [waitsOn EXCEPT ![h] = "available"]
    /\ UNCHANGED <<clientVars, poolVars, pc, claimed, ret, roundVars>>

\* A user lets go of the pool; the last one destroys it.
Deref(u) ==
    /\ At(u, "out") /\ u \in refs
    /\ refs' = refs \ {u}
    /\ Goto(u, IF refs = {u} THEN "dying" ELSE "gone")
    /\ UNCHANGED <<clientVars, threads, numThreads, isDying, waitsOn, claimed, ret, roundVars>>

\* Mutant of StartDying: the helpers are not woken.
StartDyingSilently(u) ==
    /\ At(u, "dying")
    /\ isDying' = TRUE
    /\ UNCHANGED waitsOn
    /\ Goto(u, "join")
    /\ UNCHANGED <<clientVars, threads, numThreads, refs, claimed, ret, roundVars>>

\* ~ParallelHelperPool(): tell the helpers to quit, then wait for them.
StartDying(u) ==
    /\ At(u, "dying")
    /\ isDying' = TRUE
    /\ waitsOn' = Woken("available")
    /\ Goto(u, "join")
    /\ UNCHANGED <<clientVars, threads, numThreads, refs, claimed, ret, roundVars>>

Join(u) ==
    /\ At(u, "join")
    /\ \A h \in threads : pc[h] = "exited"
    /\ Goto(u, "gone")
    /\ UNCHANGED <<clientVars, poolVars, waitsOn, claimed, ret, roundVars>>

\* Nothing is left to do once the pool is destroyed.
AllGone == (\A u \in Users : pc[u] = "gone") /\ UNCHANGED vars

-----------------------------------------------------------------------------

\* What a thread does without being asked to by the program above it.
OwnStep(t) ==
    \/ t \in Users /\ (FinishAgain(t) \/ StartDying(t) \/ Join(t))
    \/ t \in Helpers /\ (HelperQuit(t) \/ HelperClaim(t) \/ HelperSleep(t))
    \/ RunTaskReturn(t)

Next ==
    \/ \E u \in Users : \/ CreateClient(u) \/ SetTask(u) \/ ClientDoSomeHelping(u)
                        \/ TellToStop(u) \/ StartFinish(u)
                        \/ EnsureThreads(u) \/ PoolDoSomeHelping(u) \/ Deref(u)
    \/ \E t \in AllThreads : OwnStep(t)
    \/ AllGone

Spec == Init /\ [][Next]_vars

\* Threads are scheduled, and tasks return when they are done or have been told to.
FairSpec == Spec /\ \A t \in AllThreads : WF_vars(OwnStep(t))
-----------------------------------------------------------------------------
(* Properties *)

TypeOK ==
    /\ clients \subseteq Users
    /\ task \in [Users -> Tasks \cup {Null}]
    /\ numActive \in [Users -> 0..Cardinality(AllThreads)]
    /\ threads \subseteq Helpers
    /\ numThreads \in 0..Cardinality(Helpers)
    /\ isDying \in BOOLEAN
    /\ refs \subseteq Users
    /\ pc \in [AllThreads -> {"none", "out", "idle", "set", "run", "finish", "destroy",
                              "dying", "join", "gone", "seek", "exited"}]
    /\ waitsOn \in [AllThreads -> {"nothing", "available", "complete"}]
    /\ claimed \in [AllThreads -> [client : Users, task : Tasks] \cup {NoClaim}]
    /\ ret \in [AllThreads -> {"none", "out", "idle", "set", "seek"}]
    /\ untilTold \in [Users -> BOOLEAN] /\ told \in [Users -> BOOLEAN]

\* Client u is between setTask() and the return of finish().
InRound(u) == pc[u] \in {"set", "finish", "destroy"} \/ (pc[u] = "run" /\ ret[u] = "set")

\* "Waiting for idle ensures that no old tasks are running anymore": a client that is
\* not in a round, or does not exist any more, has nobody inside runTask() for it.  So
\* the RELEASE_ASSERTs hold: runTask() finds itself counted and no newer task installed,
\* setTask() finds no task, and the pool is destroyed with no client left.
NobodyRunsAfterFinish ==
    /\ \A t \in AllThreads :
          LET u == claimed[t].client IN
          pc[t] = "run" => /\ u \in clients /\ InRound(u)
                           /\ numActive[u] > 0 /\ task[u] \in {Null, claimed[t].task}
    /\ \A u \in Users : pc[u] = "idle" => task[u] = Null
    /\ \A u \in Users : pc[u] = "dying" => clients = {}

\* A helper sleeps only while there is nothing to do: no task waits for it, and the
\* pool does not wait for it to exit.
SleepsOnlyWhenIdle ==
    \A h \in Helpers : waitsOn[h] = "available" => ClientsWithTask = {} /\ ~isDying

\* finish() returns, though the condition it waits on is shared by all clients and
\* notified only when a count falls to zero.
FinishReturns ==
    \A u \in Users : pc[u] \in {"finish", "destroy"} ~> pc[u] \in {"idle", "out"}

\* The destructor gets every helper to exit.
PoolIsDestroyed ==
    \A u \in Users : pc[u] = "join" ~> pc[u] = "gone"
=============================================================================
