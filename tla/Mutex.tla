--------------------------------- MODULE Mutex ---------------------------------
(***************************************************************************)
(* What WTF::WordLock and WTF::Lock promise their callers: a thread that    *)
(* calls lock() returns from it only when no other thread has the lock, and *)
(* unlock() lets the next one in.  No order among the waiters is promised.  *)
(***************************************************************************)
CONSTANT Threads

VARIABLE state     \* what each thread has to do with the lock

vars == state

Init == state = [t \in Threads |-> "out"]

Request(t) == state[t] = "out" /\ state' = [state EXCEPT ![t] = "waiting"]

\* lock() may succeed at once, without a waiting state in between.
Acquire(t) ==
    /\ state[t] \in {"out", "waiting"}
    /\ \A u \in Threads : state[u] # "holding"
    /\ state' = [state EXCEPT ![t] = "holding"]

Release(t) == state[t] = "holding" /\ state' = [state EXCEPT ![t] = "out"]

Next == \E t \in Threads : Request(t) \/ Acquire(t) \/ Release(t)

Spec == Init /\ [][Next]_vars
=============================================================================
