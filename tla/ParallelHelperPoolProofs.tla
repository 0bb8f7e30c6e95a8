----------------------- MODULE ParallelHelperPoolProofs -----------------------
(***************************************************************************)
(* Proofs about WTF::ParallelHelperPool for any finite sets of users and    *)
(* helpers and any set of tasks: finish() is a barrier, and no helper       *)
(* sleeps over work.                                                        *)
(***************************************************************************)
EXTENDS ParallelHelperPool, FiniteSetTheorems, TLAPS

\* The threads inside runTask() for client c.
Runners(c) == {t \in AllThreads : pc[t] = "run" /\ claimed[t].client = c}

\* The owner of client u is between its constructor and the end of its destructor.
\* A thread that helps elsewhere goes back to where it was.
HasClient(u) ==
    \/ pc[u] \in {"idle", "set", "finish", "destroy"}
    \/ pc[u] = "run" /\ ret[u] \in {"idle", "set"}

\* m_numActive counts the threads inside runTask().
CountIsRunners == \A u \in Users : numActive[u] = Cardinality(Runners(u))

\* Who runs a task has claimed one of a client that is in a round, and either the
\* client's task is still that one or the round has no task any more.
RunnersInRound ==
    \A t \in AllThreads : pc[t] = "run" =>
        /\ claimed[t].client \in clients /\ InRound(claimed[t].client)
        /\ claimed[t].task \in Tasks
        /\ task[claimed[t].client] \in {Null, claimed[t].task}

\* What each place in the code says of the pool's lists.
PlacesAgree ==
    /\ \A u \in Users :
          /\ u \in clients <=> HasClient(u)
          /\ task[u] # Null => InRound(u) /\ pc[u] \notin {"finish", "destroy"}
          /\ u \in refs <=> pc[u] \notin {"dying", "join", "gone"}
          /\ pc[u] = "run" => ret[u] \in {"out", "idle", "set"}
          /\ pc[u] \in {"dying", "join"} => refs = {}
          /\ pc[u] \notin {"none", "seek", "exited"}
    /\ \A h \in Helpers :
          /\ h \notin threads => pc[h] = "none"
          /\ pc[h] \in {"none", "seek", "run", "exited"}
          /\ pc[h] = "run" => ret[h] = "seek"

Inv == TypeOK /\ CountIsRunners /\ RunnersInRound /\ PlacesAgree /\ SleepsOnlyWhenIdle
-----------------------------------------------------------------------------
(* Counting the threads inside runTask(). *)

LEMMA ThreadsFinite == IsFiniteSet(AllThreads)
BY PoolAssumption, FS_Union DEF AllThreads

LEMMA SomeThreads ==
    ASSUME NEW S \in SUBSET AllThreads
    PROVE  IsFiniteSet(S) /\ Cardinality(S) \in 0..Cardinality(AllThreads)
<1>1. IsFiniteSet(S) /\ Cardinality(S) <= Cardinality(AllThreads)
  BY ThreadsFinite, FS_Subset
<1>2. Cardinality(S) \in Nat /\ Cardinality(AllThreads) \in Nat
  BY <1>1, ThreadsFinite, FS_CardinalityType
<1>3. QED
  BY <1>1, <1>2

LEMMA RunnersBounded ==
    ASSUME NEW c \in Users
    PROVE  /\ IsFiniteSet(Runners(c))
           /\ Cardinality(Runners(c)) \in 0..Cardinality(AllThreads)
BY SomeThreads DEF Runners

LEMMA CountedRunner ==
    ASSUME CountIsRunners, NEW t \in AllThreads, pc[t] = "run", claimed[t].client \in Users
    PROVE  numActive[claimed[t].client] > 0
<1> DEFINE c == claimed[t].client
<1>1. t \in Runners(c)
  BY DEF Runners
<1>2. Cardinality(Runners(c)) # 0
  BY <1>1, RunnersBounded, FS_EmptySet
<1>3. QED
  BY <1>2, RunnersBounded DEF CountIsRunners

LEMMA NobodyCounted ==
    ASSUME CountIsRunners, NEW u \in Users, numActive[u] = 0
    PROVE  \A t \in AllThreads : pc[t] = "run" => claimed[t].client # u
<1>1. Runners(u) = {}
  BY RunnersBounded, FS_EmptySet DEF CountIsRunners
<1>2. QED
  BY <1>1 DEF Runners

(* A step on which nobody enters or leaves runTask(). *)
LEMMA CountKept ==
    ASSUME CountIsRunners, UNCHANGED <<numActive, claimed>>,
           \A t \in AllThreads : pc'[t] = "run" <=> pc[t] = "run"
    PROVE  CountIsRunners'
<1>1. \A u \in Users : Runners(u)' = Runners(u)
  BY DEF Runners
<1>2. QED
  BY <1>1 DEF CountIsRunners

(* A step on which thread t enters runTask() for client c. *)
LEMMA CountUp ==
    ASSUME TypeOK, CountIsRunners, NEW t \in AllThreads, NEW c \in Users,
           pc[t] # "run", pc' = [pc EXCEPT ![t] = "run"],
           claimed' = [claimed EXCEPT ![t] = [client |-> c, task |-> task[c]]],
           numActive' = [numActive EXCEPT ![c] = @ + 1]
    PROVE  CountIsRunners'
<1>1. Runners(c)' = Runners(c) \cup {t} /\ t \notin Runners(c)
  BY DEF Runners, TypeOK
<1>2. \A u \in Users \ {c} : Runners(u)' = Runners(u)
  BY DEF Runners, TypeOK
<1>3. Cardinality(Runners(c)') = Cardinality(Runners(c)) + 1
  BY <1>1, RunnersBounded, FS_AddElement
<1>4. QED
  BY <1>2, <1>3 DEF CountIsRunners, TypeOK

(* A step on which thread t leaves it. *)
LEMMA CountDown ==
    ASSUME TypeOK, CountIsRunners, NEW t \in AllThreads, NEW c \in Users,
           pc[t] = "run", claimed[t].client = c, NEW l, l # "run",
           pc' = [pc EXCEPT ![t] = l],
           claimed' = [claimed EXCEPT ![t] = NoClaim],
           numActive' = [numActive EXCEPT ![c] = @ - 1]
    PROVE  CountIsRunners'
<1>1. Runners(c)' = Runners(c) \ {t} /\ t \in Runners(c)
  BY DEF Runners, TypeOK
<1>2. \A u \in Users \ {c} : Runners(u)' = Runners(u)
  BY DEF Runners, TypeOK
<1>3. Cardinality(Runners(c)') = Cardinality(Runners(c)) - 1
  BY <1>1, RunnersBounded, FS_RemoveElement
<1>4. QED
  BY <1>2, <1>3 DEF CountIsRunners, TypeOK

-----------------------------------------------------------------------------
(* The claims that every action keeps the inductive invariant. *)

LEMMA InitInv == Init => Inv
<1> SUFFICES ASSUME Init PROVE Inv
  OBVIOUS
<1> USE PoolAssumption DEF Init, AllThreads
<1>1. \A u \in Users : Runners(u) = {}
  BY DEF Runners
<1>2. CountIsRunners
  BY <1>1, FS_EmptySet DEF CountIsRunners
<1>3. \A u \in Users : numActive[u] \in 0..Cardinality(AllThreads)
  BY <1>2, RunnersBounded DEF CountIsRunners
<1>4. TypeOK
  <2>1. 0 \in 0..Cardinality(Helpers)
    BY FS_CardinalityType
  <2>2. numActive \in [Users -> 0..Cardinality(AllThreads)]
    BY <1>3
  <2>3. QED
    BY <2>1, <2>2 DEF TypeOK
<1>5. RunnersInRound /\ PlacesAgree /\ SleepsOnlyWhenIdle
  BY DEF RunnersInRound, PlacesAgree, SleepsOnlyWhenIdle, HasClient, InRound
<1>6. QED
  BY <1>2, <1>4, <1>5 DEF Inv

(* claimTask() by a thread that comes back to where it is. *)
LEMMA ClaimInv ==
    ASSUME Inv, NEW t \in AllThreads, At(t, pc[t]), pc[t] \in {"out", "idle", "set", "seek"},
           NEW c \in ClientsWithTask, ClaimTask(t, c, pc[t]),
           UNCHANGED <<clients, task, poolVars, waitsOn, roundVars>>
    PROVE  Inv'
<1> USE DEF Inv
<1>1. c \in Users /\ c \in clients /\ task[c] \in Tasks /\ InRound(c)
  BY DEF ClientsWithTask, TypeOK, PlacesAgree
<1>2. /\ pc' = [pc EXCEPT ![t] = "run"] /\ ret' = [ret EXCEPT ![t] = pc[t]]
      /\ claimed' = [claimed EXCEPT ![t] = [client |-> c, task |-> task[c]]]
      /\ numActive' = [numActive EXCEPT ![c] = @ + 1]
  BY DEF ClaimTask, Goto
<1>3. CountIsRunners'
  BY <1>1, <1>2, CountUp
<1>4. TypeOK'
  <2>1. \A u \in Users : numActive'[u] \in 0..Cardinality(AllThreads)
    BY <1>3, SomeThreads DEF CountIsRunners, Runners
  <2>2. QED
    BY <1>1, <1>2, <2>1 DEF TypeOK, poolVars, roundVars
<1>5. \A u \in Users : (InRound(u) => InRound(u)') /\ (HasClient(u)' <=> HasClient(u))
  BY <1>2 DEF InRound, HasClient, TypeOK, PlacesAgree, AllThreads
<1>6. RunnersInRound'
  BY <1>1, <1>2, <1>5 DEF RunnersInRound, TypeOK
<1>7. PlacesAgree'
  BY <1>2, <1>5, PoolAssumption DEF PlacesAgree, TypeOK, AllThreads, poolVars
<1>8. SleepsOnlyWhenIdle'
  BY DEF SleepsOnlyWhenIdle, ClientsWithTask, poolVars
<1>9. QED
  BY <1>3, <1>4, <1>6, <1>7, <1>8

(* runTask() returns. *)
LEMMA ReturnInv == ASSUME Inv, NEW t \in AllThreads, RunTaskReturn(t) PROVE Inv'
<1> USE DEF Inv
<1> DEFINE c == claimed[t].client
<1>1. c \in Users /\ c \in clients /\ pc[t] = "run" /\ ret[t] \in {"out", "idle", "set", "seek"}
  BY DEF RunTaskReturn, At, RunnersInRound, PlacesAgree, TypeOK, AllThreads
<1>2. /\ pc' = [pc EXCEPT ![t] = ret[t]] /\ ret' = [ret EXCEPT ![t] = "none"]
      /\ claimed' = [claimed EXCEPT ![t] = NoClaim]
      /\ numActive' = [numActive EXCEPT ![c] = @ - 1]
      /\ task' = [task EXCEPT ![c] = Null]
      /\ UNCHANGED <<clients, poolVars, roundVars>>
  BY DEF RunTaskReturn, Goto
<1>3. CountIsRunners'
  BY <1>1, <1>2, CountDown
<1>4. waitsOn' \in {Woken("complete"), waitsOn}
  BY DEF RunTaskReturn
<1>5. TypeOK'
  <2>1. \A u \in Users : numActive'[u] \in 0..Cardinality(AllThreads)
    BY <1>3, SomeThreads DEF CountIsRunners, Runners
  <2>2. QED
    BY <1>1, <1>2, <1>4, <2>1 DEF TypeOK, poolVars, roundVars, Woken
<1>6. \A u \in Users : (InRound(u)' <=> InRound(u)) /\ (HasClient(u)' <=> HasClient(u))
  BY <1>1, <1>2 DEF InRound, HasClient, TypeOK, PlacesAgree, AllThreads
<1>7. RunnersInRound'
  BY <1>1, <1>2, <1>6 DEF RunnersInRound, TypeOK
<1>8. PlacesAgree'
  BY <1>1, <1>2, <1>6, PoolAssumption DEF PlacesAgree, TypeOK, AllThreads, poolVars
<1>9. SleepsOnlyWhenIdle'
  BY <1>1, <1>2, <1>4 DEF SleepsOnlyWhenIdle, ClientsWithTask, poolVars, TypeOK, Woken, AllThreads
<1>10. QED
  BY <1>3, <1>5, <1>7, <1>8, <1>9

(* didMakeWorkAvailable(): the threads it creates begin to seek work, and every *)
(* helper that slept is awake.                                                  *)
LEMMA WorkAvailable ==
    ASSUME TypeOK, NEW new \in SUBSET Helpers, NEW pcAfter, DidMakeWorkAvailable(new, pcAfter)
    PROVE  /\ threads' = new /\ threads \subseteq new
           /\ waitsOn' \in [AllThreads -> {"nothing", "available", "complete"}]
           /\ \A t \in AllThreads : waitsOn'[t] # "available"
           /\ pc' = [t \in AllThreads |-> IF t \in new \ threads THEN "seek" ELSE pcAfter[t]]
BY DEF DidMakeWorkAvailable, Woken, TypeOK

LEMMA SetTaskInv == ASSUME Inv, NEW u \in Users, SetTask(u) PROVE Inv'
<1> USE DEF Inv
<1>1. u \in AllThreads /\ pc[u] = "idle"
  BY DEF SetTask, At, AllThreads
<1>2. /\ UNCHANGED <<clients, numActive, numThreads, isDying, refs, claimed, ret>>
      /\ task' \in [Users -> Tasks \cup {Null}]
      /\ untilTold' \in [Users -> BOOLEAN] /\ told' \in [Users -> BOOLEAN]
      /\ \A v \in Users \ {u} : task'[v] = task[v]
  BY DEF SetTask, TypeOK
<1>3. PICK new \in SUBSET Helpers : DidMakeWorkAvailable(new, [pc EXCEPT ![u] = "set"])
  BY DEF SetTask
<1>4. /\ threads' = new /\ threads \subseteq new
      /\ waitsOn' \in [AllThreads -> {"nothing", "available", "complete"}]
      /\ \A t \in AllThreads : waitsOn'[t] # "available"
      /\ pc' = [t \in AllThreads |-> IF t \in new \ threads THEN "seek" ELSE [pc EXCEPT ![u] = "set"][t]]
  BY <1>3, WorkAvailable
<1>5. \A t \in AllThreads : pc'[t] = IF t \in new \ threads THEN "seek"
                                     ELSE IF t = u THEN "set" ELSE pc[t]
  BY <1>4 DEF TypeOK
<1>6. \A h \in new \ threads : h \in Helpers /\ h \notin Users /\ pc[h] = "none"
  BY PoolAssumption DEF PlacesAgree
<1>7. CountIsRunners'
  BY <1>1, <1>2, <1>5, <1>6, CountKept
<1>8. TypeOK'
  BY <1>2, <1>4, <1>5 DEF TypeOK
<1>9. \A v \in Users : /\ InRound(v)' <=> (InRound(v) \/ v = u)
                       /\ HasClient(v)' <=> HasClient(v)
  BY <1>1, <1>2, <1>5, <1>6 DEF InRound, HasClient, AllThreads
<1>10. ~InRound(u)
  BY <1>1 DEF InRound
<1>11. RunnersInRound'
  BY <1>1, <1>2, <1>5, <1>6, <1>9, <1>10 DEF RunnersInRound, TypeOK
<1>12. PlacesAgree'
  BY <1>1, <1>2, <1>4, <1>5, <1>6, <1>9 DEF PlacesAgree, AllThreads
<1>13. SleepsOnlyWhenIdle'
  BY <1>4 DEF SleepsOnlyWhenIdle, AllThreads
<1>14. QED
  BY <1>7, <1>8, <1>11, <1>12, <1>13

LEMMA EnsureThreadsInv == ASSUME Inv, NEW u \in Users, EnsureThreads(u) PROVE Inv'
<1> USE DEF Inv
<1>1. /\ UNCHANGED <<clients, task, numActive, isDying, refs, claimed, ret, untilTold, told>>
      /\ numThreads' \in 0..Cardinality(Helpers)
  BY DEF EnsureThreads, clientVars, roundVars, TypeOK
<1>2. CASE UNCHANGED <<threads, pc, waitsOn>>
  BY <1>1, <1>2 DEF TypeOK, CountIsRunners, Runners, RunnersInRound, PlacesAgree,
     SleepsOnlyWhenIdle, InRound, HasClient, ClientsWithTask
<1>3. ASSUME NEW new \in SUBSET Helpers, DidMakeWorkAvailable(new, pc) PROVE Inv'
  <2>1. /\ threads' = new /\ threads \subseteq new
        /\ waitsOn' \in [AllThreads -> {"nothing", "available", "complete"}]
        /\ \A t \in AllThreads : waitsOn'[t] # "available"
        /\ pc' = [t \in AllThreads |-> IF t \in new \ threads THEN "seek" ELSE pc[t]]
    BY <1>3, WorkAvailable
  <2>2. \A h \in new \ threads : h \in Helpers /\ h \notin Users /\ pc[h] = "none"
    BY PoolAssumption DEF PlacesAgree
  <2>3. CountIsRunners'
    BY <1>1, <2>1, <2>2, CountKept
  <2>4. TypeOK'
    BY <1>1, <2>1 DEF TypeOK
  <2>5. \A v \in Users : /\ InRound(v)' <=> InRound(v)
                         /\ HasClient(v)' <=> HasClient(v)
    BY <1>1, <2>1, <2>2 DEF InRound, HasClient, AllThreads
  <2>6. RunnersInRound'
    BY <1>1, <2>1, <2>2, <2>5 DEF RunnersInRound, TypeOK
  <2>7. PlacesAgree'
    BY <1>1, <2>1, <2>2, <2>5 DEF PlacesAgree, AllThreads
  <2>8. SleepsOnlyWhenIdle'
    BY <2>1 DEF SleepsOnlyWhenIdle, AllThreads
  <2>9. QED
    BY <2>3, <2>4, <2>6, <2>7, <2>8
<1>4. QED
  BY <1>2, <1>3 DEF EnsureThreads

(* finish() and the destructor: the round goes on while somebody is counted. *)
LEMMA FinishInv ==
    ASSUME Inv, NEW u \in Users, pc[u] \in {"idle", "set", "finish", "destroy"},
           \/ FinishLoop(u, "finish", "idle") /\ pc[u] \in {"set", "finish"}
           \/ FinishLoop(u, "destroy", "out"),
           task' = [task EXCEPT ![u] = Null],
           UNCHANGED <<numActive, poolVars, claimed, ret, roundVars>>
    PROVE  Inv'
<1> USE DEF Inv
<1>1. u \in AllThreads
  BY DEF AllThreads
<1>2. PICK l \in {"idle", "out", "finish", "destroy"} : pc' = [pc EXCEPT ![u] = l]
  BY DEF FinishLoop, Goto
<1>3. /\ clients' = IF l = "out" THEN clients \ {u} ELSE clients
      /\ l \in {"idle", "out"} => numActive[u] = 0
      /\ waitsOn' \in [AllThreads -> {"nothing", "available", "complete"}]
      /\ \A h \in Helpers : waitsOn'[h] = waitsOn[h]
  BY <1>1, <1>2, PoolAssumption DEF FinishLoop, Goto, TypeOK, AllThreads
<1>4. CountIsRunners'
  BY <1>1, <1>2, CountKept DEF TypeOK
<1>5. TypeOK'
  BY <1>2, <1>3 DEF TypeOK, poolVars, roundVars
<1>6. \A v \in Users : v # u => (InRound(v)' <=> InRound(v)) /\ (HasClient(v)' <=> HasClient(v))
  BY <1>2 DEF InRound, HasClient, TypeOK
<1>7. \A t \in AllThreads : pc'[t] = "run" /\ claimed[t].client = u => InRound(u)' /\ l # "out"
  <2>1. l \in {"finish", "destroy"} => InRound(u)'
    BY <1>1, <1>2 DEF InRound, TypeOK
  <2>2. l \in {"idle", "out"} => \A t \in AllThreads : pc[t] = "run" => claimed[t].client # u
    BY <1>3, NobodyCounted
  <2>3. \A t \in AllThreads : pc'[t] = "run" => pc[t] = "run"
    BY <1>2 DEF TypeOK
  <2>4. QED
    BY <2>1, <2>2, <2>3
<1>8. RunnersInRound'
  BY <1>1, <1>2, <1>3, <1>6, <1>7 DEF RunnersInRound, TypeOK
<1>9. PlacesAgree'
  <2>1. u \in clients' <=> HasClient(u)'
    BY <1>1, <1>2, <1>3 DEF PlacesAgree, HasClient, TypeOK
  <2>2. QED
    BY <1>1, <1>2, <1>3, <1>6, <2>1, PoolAssumption DEF PlacesAgree, TypeOK, AllThreads, poolVars
<1>10. SleepsOnlyWhenIdle'
  BY <1>3 DEF SleepsOnlyWhenIdle, ClientsWithTask, TypeOK, poolVars
<1>11. QED
  BY <1>4, <1>5, <1>8, <1>9, <1>10

LEMMA StepInv == Inv /\ [Next]_vars => Inv'
<1> SUFFICES ASSUME Inv, [Next]_vars PROVE Inv'
  OBVIOUS
<1> USE PoolAssumption
<1>1. ASSUME NEW u \in Users, CreateClient(u) PROVE Inv'
  <2> USE <1>1 DEF Inv, CreateClient, At, Goto, poolVars, roundVars
  <2>1. u \in AllThreads
    BY DEF AllThreads
  <2>2. CountIsRunners'
    BY <2>1, CountKept DEF TypeOK
  <2>3. TypeOK'
    BY DEF TypeOK
  <2>4. \A v \in Users : /\ InRound(v)' <=> InRound(v)
                         /\ HasClient(v)' <=> (HasClient(v) \/ v = u)
    BY <2>1 DEF InRound, HasClient, TypeOK
  <2>5. RunnersInRound'
    BY <2>1, <2>4 DEF RunnersInRound, TypeOK
  <2>6. PlacesAgree'
    BY <2>1, <2>4 DEF PlacesAgree, TypeOK, AllThreads
  <2>7. SleepsOnlyWhenIdle'
    BY <2>1 DEF SleepsOnlyWhenIdle, ClientsWithTask, PlacesAgree, InRound
  <2>8. QED
    BY <2>2, <2>3, <2>5, <2>6, <2>7
<1>2. ASSUME NEW u \in Users, SetTask(u) PROVE Inv'
  BY <1>2, SetTaskInv
<1>3. ASSUME NEW u \in Users, ClientDoSomeHelping(u) PROVE Inv'
  <2>1. CASE task[u] # Null /\ ClaimTask(u, u, "set")
    <3>1. u \in AllThreads /\ u \in ClientsWithTask
      BY <1>3, <2>1 DEF ClientDoSomeHelping, At, ClientsWithTask, Inv, PlacesAgree, HasClient, AllThreads
    <3>2. QED
      BY <1>3, <2>1, <3>1, ClaimInv DEF ClientDoSomeHelping, At
  <2>2. CASE task[u] = Null /\ UNCHANGED <<numActive, claimed, ret, pc>>
    <3>1. UNCHANGED vars
      BY <1>3, <2>2 DEF ClientDoSomeHelping, vars, poolVars, roundVars
    <3>2. QED
      BY <3>1 DEF vars, Inv, TypeOK, CountIsRunners, Runners, RunnersInRound, PlacesAgree,
         SleepsOnlyWhenIdle, InRound, HasClient, ClientsWithTask
  <2>3. QED
    BY <1>3, <2>1, <2>2 DEF ClientDoSomeHelping
<1>4. ASSUME NEW u \in Users, TellToStop(u) PROVE Inv'
  BY <1>4 DEF TellToStop, clientVars, poolVars, Inv, TypeOK, CountIsRunners, Runners, RunnersInRound,
     PlacesAgree, SleepsOnlyWhenIdle, InRound, HasClient, ClientsWithTask
<1>5. ASSUME NEW u \in Users, StartFinish(u) PROVE Inv'
  BY <1>5, FinishInv DEF StartFinish, At
<1>6. ASSUME NEW u \in Users, FinishAgain(u) PROVE Inv'
  <2>1. pc[u] \in {"finish", "destroy"} /\ task[u] = Null
    BY <1>6 DEF FinishAgain, At, Inv, PlacesAgree
  <2>2. task' = [task EXCEPT ![u] = Null]
    BY <1>6, <2>1 DEF FinishAgain, Inv, TypeOK
  <2>3. QED
    BY <1>6, <2>1, <2>2, FinishInv DEF FinishAgain, At
<1>7. ASSUME NEW u \in Users, EnsureThreads(u) PROVE Inv'
  BY <1>7, EnsureThreadsInv
<1>8. ASSUME NEW u \in Users, PoolDoSomeHelping(u) PROVE Inv'
  <2>1. PICK c \in ClientsWithTask : ClaimTask(u, c, pc[u])
    BY <1>8 DEF PoolDoSomeHelping
  <2>2. QED
    BY <1>8, <2>1, ClaimInv DEF PoolDoSomeHelping, At, AllThreads
<1>9. ASSUME NEW h \in Helpers, HelperClaim(h) PROVE Inv'
  <2>1. PICK c \in ClientsWithTask : ClaimTask(h, c, "seek")
    BY <1>9 DEF HelperClaim
  <2>2. QED
    BY <1>9, <2>1, ClaimInv DEF HelperClaim, At, AllThreads
<1>10. ASSUME NEW t \in AllThreads, RunTaskReturn(t) PROVE Inv'
  BY <1>10, ReturnInv
<1>11. ASSUME NEW u \in Users, Deref(u) PROVE Inv'
  <2> USE <1>11 DEF Inv, Deref, At, Goto, clientVars, roundVars
  <2>1. u \in AllThreads
    BY DEF AllThreads
  <2>2. CountIsRunners'
    BY <2>1, CountKept DEF TypeOK
  <2>3. TypeOK'
    BY DEF TypeOK
  <2>4. \A v \in Users : (InRound(v)' <=> InRound(v)) /\ (HasClient(v)' <=> HasClient(v))
    BY <2>1 DEF InRound, HasClient, TypeOK
  <2>5. RunnersInRound'
    BY <2>1, <2>4 DEF RunnersInRound, TypeOK
  <2>6. PlacesAgree'
    BY <2>1, <2>4 DEF PlacesAgree, TypeOK, AllThreads
  <2>7. SleepsOnlyWhenIdle'
    BY DEF SleepsOnlyWhenIdle, ClientsWithTask
  <2>8. QED
    BY <2>2, <2>3, <2>5, <2>6, <2>7
<1>12. ASSUME NEW u \in Users, StartDying(u) \/ Join(u) PROVE Inv'
  <2> USE <1>12 DEF Inv, StartDying, Join, At, Goto, clientVars, poolVars, roundVars
  <2>1. /\ u \in AllThreads /\ pc[u] \in {"dying", "join"}
        /\ UNCHANGED <<clients, task, numActive, threads, numThreads, refs, claimed, ret, untilTold, told>>
    BY DEF AllThreads
  <2>2. PICK l \in {"join", "gone"} : pc' = [pc EXCEPT ![u] = l]
    OBVIOUS
  <2>3. /\ isDying' \in BOOLEAN /\ waitsOn' \in {waitsOn, Woken("available")}
        /\ isDying' # isDying => waitsOn' = Woken("available")
    BY DEF TypeOK
  <2>4. CountIsRunners'
    BY <2>1, <2>2, CountKept DEF TypeOK
  <2>5. TypeOK'
    BY <2>1, <2>2, <2>3 DEF TypeOK, Woken
  <2>6. \A v \in Users : (InRound(v)' <=> InRound(v)) /\ (HasClient(v)' <=> HasClient(v))
    BY <2>1, <2>2 DEF InRound, HasClient, TypeOK
  <2>7. RunnersInRound'
    BY <2>1, <2>2, <2>6 DEF RunnersInRound, TypeOK
  <2>8. PlacesAgree'
    BY <2>1, <2>2, <2>6 DEF PlacesAgree, TypeOK, AllThreads
  <2>9. SleepsOnlyWhenIdle'
    BY <2>1, <2>3 DEF SleepsOnlyWhenIdle, ClientsWithTask, Woken, AllThreads
  <2>10. QED
    BY <2>4, <2>5, <2>7, <2>8, <2>9
<1>13. ASSUME NEW h \in Helpers, HelperQuit(h) PROVE Inv'
  <2> USE <1>13 DEF Inv, HelperQuit, At, Goto, clientVars, poolVars, roundVars
  <2>1. h \in AllThreads /\ h \notin Users
    BY DEF AllThreads
  <2>2. CountIsRunners'
    BY <2>1, CountKept DEF TypeOK
  <2>3. TypeOK'
    BY DEF TypeOK
  <2>4. \A v \in Users : (InRound(v)' <=> InRound(v)) /\ (HasClient(v)' <=> HasClient(v))
    BY <2>1 DEF InRound, HasClient, TypeOK, AllThreads
  <2>5. RunnersInRound'
    BY <2>1, <2>4 DEF RunnersInRound, TypeOK
  <2>6. PlacesAgree'
    BY <2>1, <2>4 DEF PlacesAgree, TypeOK, AllThreads
  <2>7. SleepsOnlyWhenIdle'
    BY DEF SleepsOnlyWhenIdle, ClientsWithTask
  <2>8. QED
    BY <2>2, <2>3, <2>5, <2>6, <2>7
<1>14. ASSUME NEW h \in Helpers, HelperSleep(h) PROVE Inv'
  <2>1. /\ h \in AllThreads /\ ~isDying /\ ClientsWithTask = {}
        /\ waitsOn' = [waitsOn EXCEPT ![h] = "available"]
        /\ UNCHANGED <<clients, task, numActive, threads, numThreads, isDying, refs, pc,
                       claimed, ret, untilTold, told>>
    BY <1>14 DEF HelperSleep, clientVars, poolVars, roundVars, AllThreads
  <2>2. TypeOK'
    BY <2>1 DEF Inv, TypeOK
  <2>3. CountIsRunners' /\ RunnersInRound' /\ PlacesAgree'
    BY <2>1 DEF Inv, CountIsRunners, Runners, RunnersInRound, PlacesAgree, InRound, HasClient
  <2>4. SleepsOnlyWhenIdle'
    BY <2>1 DEF SleepsOnlyWhenIdle, ClientsWithTask
  <2>5. QED
    BY <2>2, <2>3, <2>4 DEF Inv
<1>15. CASE UNCHANGED vars
  BY <1>15 DEF vars, Inv, TypeOK, CountIsRunners, Runners, RunnersInRound, PlacesAgree,
     SleepsOnlyWhenIdle, InRound, HasClient, ClientsWithTask
<1>16. QED
  BY <1>1, <1>2, <1>3, <1>4, <1>5, <1>6, <1>7, <1>8, <1>9, <1>10, <1>11, <1>12, <1>13, <1>14, <1>15
     DEF Next, OwnStep, AllGone

LEMMA InvHolds == Spec => []Inv
BY InitInv, StepInv, PTL DEF Spec

-----------------------------------------------------------------------------

\* Every variable of the pool and its clients keeps its type; m_numActive never wraps
\* below zero or exceeds the number of threads.
THEOREM TypeCorrect == Spec => []TypeOK
<1>1. Inv => TypeOK
  BY DEF Inv
<1>2. QED
  BY <1>1, InvHolds, PTL

\* finish() is a barrier: once it has returned, or the client is gone, no thread is
\* inside runTask() for it, whoever helped whom in between.
THEOREM FinishIsBarrier == Spec => []NobodyRunsAfterFinish
<1>1. ASSUME Inv PROVE NobodyRunsAfterFinish
  <2> USE <1>1 DEF Inv
  <2>1. ASSUME NEW t \in AllThreads, pc[t] = "run"
        PROVE  LET u == claimed[t].client
               IN /\ u \in clients /\ InRound(u)
                  /\ numActive[u] > 0 /\ task[u] \in {Null, claimed[t].task}
    BY <2>1, CountedRunner DEF RunnersInRound, TypeOK
  <2>2. \A u \in Users : pc[u] = "idle" => task[u] = Null
    BY DEF PlacesAgree, InRound
  <2>3. ASSUME NEW u \in Users, pc[u] = "dying" PROVE clients = {}
    <3>1. refs = {}
      BY <2>3 DEF PlacesAgree
    <3>2. \A v \in Users : ~HasClient(v)
      BY <3>1 DEF PlacesAgree, HasClient
    <3>3. QED
      BY <3>2 DEF PlacesAgree, TypeOK
  <2>4. QED
    BY <2>1, <2>2, <2>3 DEF NobodyRunsAfterFinish
<1>2. QED
  BY <1>1, InvHolds, PTL

\* No helper sleeps while a client has a task or the pool waits for it to exit.
THEOREM NobodySleepsOverWork == Spec => []SleepsOnlyWhenIdle
<1>1. Inv => SleepsOnlyWhenIdle
  BY DEF Inv
<1>2. QED
  BY <1>1, InvHolds, PTL
=============================================================================
