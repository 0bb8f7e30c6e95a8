----------------------------- MODULE AsyncTask -------------------------------
(***************************************************************************)
(* bmalloc::AsyncTask: a thread that runs a function once after every       *)
(* request, and sleeps otherwise.  m_state is changed without a lock; only  *)
(* going to sleep and waking up use m_conditionMutex.                       *)
(*                                                                         *)
(* An access to m_state is a step.  m_conditionMutex is a test-and-set spin *)
(* lock (StaticMutex): a failed attempt changes nothing.  The function that *)
(* is run is left to the module that extends this one.                      *)
(***************************************************************************)
EXTENDS Integers

CONSTANTS
    Callers,        \* threads that call run()
    TaskThread,     \* m_thread
    Null

ASSUME AsyncTaskAssumption ==
    TaskThread \notin Callers /\ Null \notin Callers \cup {TaskThread}

VARIABLES
    state,          \* m_state
    conditionMutex, \* who holds m_conditionMutex
    taskPc,         \* where threadRunLoop() is
    runPc,          \* where each caller is in run()
    constructed     \* the constructor has set m_object and m_function

asyncVars == <<state, conditionMutex, taskPc, runPc, constructed>>

\* m_thread is created before m_object and m_function are set.
InitialState == "Running"

AsyncTaskInit ==
    /\ state = InitialState
    /\ conditionMutex = Null
    /\ taskPc = "requested?"
    /\ runPc = [c \in Callers |-> "none"]
    /\ constructed = FALSE

TaskGoto(l) == taskPc' = l
RunGoto(c, l) == runPc' = [runPc EXCEPT ![c] = l]

-----------------------------------------------------------------------------
(* The constructor, and run() on a caller's thread. *)

FinishConstruction ==
    /\ ~constructed /\ constructed' = TRUE
    /\ UNCHANGED <<state, conditionMutex, taskPc, runPc>>

\* run(): nothing to do if a request is pending.
RunLoad(c) ==
    /\ runPc[c] = "load"
    /\ RunGoto(c, IF state = "RunRequested" THEN "returned" ELSE "exchange")
    /\ UNCHANGED <<state, conditionMutex, taskPc, constructed>>

RunExchange(c) ==
    /\ runPc[c] = "exchange"
    /\ state' = "RunRequested"
    /\ RunGoto(c, IF state = "Sleeping" THEN "lock" ELSE "returned")
    /\ UNCHANGED <<conditionMutex, taskPc, constructed>>

RunLock(c) ==
    /\ runPc[c] = "lock" /\ conditionMutex = Null
    /\ conditionMutex' = c
    /\ RunGoto(c, "notify")
    /\ UNCHANGED <<state, taskPc, constructed>>

\* notify_all(), and the end of the lock_guard.
RunNotify(c) ==
    /\ runPc[c] = "notify"
    /\ taskPc' = IF taskPc = "asleep" THEN "relock" ELSE taskPc
    /\ conditionMutex' = IF conditionMutex = c THEN Null ELSE conditionMutex
    /\ RunGoto(c, "returned")
    /\ UNCHANGED <<state, constructed>>

RunStep(c) == RunLoad(c) \/ RunExchange(c) \/ RunLock(c) \/ RunNotify(c)

-----------------------------------------------------------------------------
(* threadRunLoop().  A weak compare-exchange may fail for no reason. *)

TakeRequest ==
    /\ taskPc = "requested?"
    /\ \/ state = "RunRequested" /\ state' = "Running" /\ TaskGoto("function")
       \/ UNCHANGED state /\ TaskGoto("running?")
    /\ UNCHANGED <<conditionMutex, runPc, constructed>>

\* Mutant of GoToSleep: the state is stored, not compared and exchanged.
GoToSleepByStore ==
    /\ taskPc = "running?"
    /\ state' = "Sleeping" /\ TaskGoto("lock")
    /\ UNCHANGED <<conditionMutex, runPc, constructed>>

GoToSleep ==
    /\ taskPc = "running?"
    /\ \/ state = "Running" /\ state' = "Sleeping" /\ TaskGoto("lock")
       \/ UNCHANGED state /\ TaskGoto("requested?")
    /\ UNCHANGED <<conditionMutex, runPc, constructed>>

\* The unique_lock, and the lock taken again by wait() when it wakes.
TaskLock ==
    /\ taskPc \in {"lock", "relock"} /\ conditionMutex = Null
    /\ conditionMutex' = TaskThread
    /\ TaskGoto("test")
    /\ UNCHANGED <<state, runPc, constructed>>

\* The predicate of wait().
TestSleeping ==
    /\ taskPc = "test"
    /\ IF state # "Sleeping"
          THEN TaskGoto("requested?") /\ conditionMutex' = Null
          ELSE TaskGoto("block") /\ UNCHANGED conditionMutex
    /\ UNCHANGED <<state, runPc, constructed>>

\* wait() releases the mutex and sleeps.
Block ==
    /\ taskPc = "block"
    /\ conditionMutex' = Null
    /\ TaskGoto("asleep")
    /\ UNCHANGED <<state, runPc, constructed>>

SpuriousWakeup ==
    /\ taskPc = "asleep"
    /\ TaskGoto("relock")
    /\ UNCHANGED <<state, conditionMutex, runPc, constructed>>

TaskStep == TakeRequest \/ GoToSleep \/ TaskLock \/ TestSleeping \/ Block

-----------------------------------------------------------------------------
(* Properties *)

AsyncTypeOK ==
    /\ state \in {"Sleeping", "Running", "RunRequested"}
    /\ conditionMutex \in Callers \cup {TaskThread, Null}
    /\ taskPc \in {"requested?", "function", "running?", "lock", "test", "block", "asleep", "relock"}
    /\ runPc \in [Callers -> {"none", "load", "exchange", "lock", "notify", "returned"}]
    /\ constructed \in BOOLEAN

\* A request is served: the function starts after it, even if the request comes while
\* the thread is on its way to sleep.
RequestIsServed == state = "RunRequested" ~> taskPc = "function"
=============================================================================
