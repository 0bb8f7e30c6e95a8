------------------------------ MODULE LockProofs ------------------------------
(***************************************************************************)
(* Proofs about WTF::Lock for any finite set of threads, any spin limit,    *)
(* with or without spurious compare-exchange failures.  Mutual exclusion    *)
(* and the refinement hold whatever the parking lot does; that no parked    *)
(* thread is forgotten rests on the parking lot's invariant.                *)
(***************************************************************************)
EXTENDS LockClients, ParkingLotProofs

(* What a thread knows of m_byte from its last load: the value a            *)
(* compare-exchange is to replace has the lock free, and whoever goes to    *)
(* unpark has seen hasParkedBit.                                            *)
LoadedByte ==
    \A t \in Threads :
        /\ lockPc[t] \in {"barge", "tryCAS"} => ~cur[t].held
        /\ lockPc[t] = "unlockUnpark" => byte.parked

Inv == LockTypeOK /\ MutualExclusion /\ LoadedByte
-----------------------------------------------------------------------------
USE LockAssumption DEF Byte, LockLabels

LEMMA Constants == Zero \in Byte /\ IsHeldBit \in Byte /\ HasParkedBit \in Byte
BY DEF Zero, IsHeldBit, HasParkedBit

LEMMA InitInv == Init => Inv
BY Constants DEF Init, LockInit, Inv, LockTypeOK, MutualExclusion, LoadedByte, Owns, Zero

LEMMA SpinOrParkType ==
    ASSUME LockTypeOK, NEW t \in Threads, NEW b \in Byte, SpinOrPark(t, b)
    PROVE  /\ lockPc' \in [Threads -> LockLabels]
           /\ spinCount' \in [Threads -> 0..SpinLimit]
           /\ lockPc'[t] \in {"lockLoad", "park", "setParked"}
           /\ \A u \in Threads \ {t} : lockPc'[u] = lockPc[u]
<1>1. spinCount[t] \in 0..SpinLimit
  BY DEF LockTypeOK
<1>2. spinCount[t] < SpinLimit => spinCount[t] + 1 \in 0..SpinLimit
  BY <1>1
<1>3. QED
  BY <1>2 DEF SpinOrPark, Goto, LockTypeOK

(* The steps that leave this lock's variables alone: those of the parking   *)
(* lot, and the ones that only park.                                        *)
LEMMA UnchangedInv == Inv /\ UNCHANGED lockVars => Inv'
BY DEF Inv, LockTypeOK, MutualExclusion, LoadedByte, Owns, lockVars

LEMMA StepInv == Inv /\ [Next]_vars => Inv'
<1> SUFFICES ASSUME Inv, [Next]_vars PROVE Inv'
  OBVIOUS
<1> USE Constants DEF Inv, LockTypeOK, MutualExclusion, LoadedByte, Owns
<1>1. ASSUME NEW t \in Threads, LockFast(t) PROVE Inv'
  <2>1. CASE CASWins(Zero, IsHeldBit) /\ Return(t, "held")
    BY <2>1 DEF CASWins, Return, Goto, Zero, IsHeldBit
  <2>2. CASE CASLoses(Zero) /\ Return(t, "lockLoad")
    BY <1>1, <2>2 DEF LockFast, CASLoses, Return, Goto
  <2>3. QED
    BY <1>1, <2>1, <2>2 DEF LockFast
<1>2. ASSUME NEW t \in Threads, TryLoad(t) PROVE Inv'
  <2>1. CASE byte.held
    <3>1. /\ lockPc[t] \in {"idle", "tryLoad"} /\ byte' = byte
          /\ lockPc' = [lockPc EXCEPT ![t] = "idle"]
          /\ cur' = [cur EXCEPT ![t] = Zero]
          /\ spinCount' = [spinCount EXCEPT ![t] = 0]
      BY <1>2, <2>1 DEF TryLoad, Return, Goto
    <3>2. LockTypeOK'
      BY <3>1
    <3>3. MutualExclusion' /\ LoadedByte'
      BY <3>1
    <3>4. QED
      BY <3>2, <3>3
  <2>2. CASE ~byte.held
    BY <1>2, <2>2 DEF TryLoad, Goto
  <2>3. QED
    BY <2>1, <2>2
<1>3. ASSUME NEW t \in Threads, TryCAS(t) PROVE Inv'
  <2>1. CASE CASWins(cur[t], [cur[t] EXCEPT !.held = TRUE]) /\ Return(t, "held")
    <3>1. byte' \in Byte /\ byte'.held
      BY <1>3, <2>1 DEF CASWins
    <3>2. \A u \in Threads : ~Owns(u)
      BY <1>3, <2>1 DEF TryCAS, CASWins
    <3>3. lockPc' = [lockPc EXCEPT ![t] = "held"] /\ byte'.parked = byte.parked
      BY <2>1 DEF CASWins, Return, Goto
    <3>4. /\ cur' = [cur EXCEPT ![t] = Zero]
          /\ spinCount' = [spinCount EXCEPT ![t] = 0]
      BY <2>1 DEF Return
    <3>5. QED
      BY <3>1, <3>2, <3>3, <3>4
  <2>2. CASE CASLoses(cur[t]) /\ Return(t, "tryLoad")
    BY <1>3, <2>2 DEF TryCAS, CASLoses, Return, Goto
  <2>3. QED
    BY <1>3, <2>1, <2>2 DEF TryCAS
<1>4. ASSUME NEW t \in Threads, LockLoad(t) PROVE Inv'
  <2>1. CASE byte.held
    BY <1>4, <2>1, SpinOrParkType DEF LockLoad
  <2>2. CASE ~byte.held
    BY <1>4, <2>2 DEF LockLoad, Goto
  <2>3. QED
    BY <2>1, <2>2
<1>5. ASSUME NEW t \in Threads, Barge(t) PROVE Inv'
  <2>1. CASE CASWins(cur[t], [cur[t] EXCEPT !.held = TRUE]) /\ Return(t, "held")
    <3>1. byte' \in Byte /\ byte'.held
      BY <1>5, <2>1 DEF CASWins
    <3>2. \A u \in Threads : ~Owns(u)
      BY <1>5, <2>1 DEF Barge, CASWins
    <3>3. lockPc' = [lockPc EXCEPT ![t] = "held"] /\ byte'.parked = byte.parked
      BY <2>1 DEF CASWins, Return, Goto
    <3>4. /\ cur' = [cur EXCEPT ![t] = Zero]
          /\ spinCount' = [spinCount EXCEPT ![t] = 0]
      BY <2>1 DEF Return
    <3>5. QED
      BY <3>1, <3>2, <3>3, <3>4
  <2>2. CASE CASLoses(cur[t]) /\ SpinOrPark(t, cur[t]) /\ UNCHANGED cur
    BY <1>5, <2>2, SpinOrParkType DEF Barge, CASLoses
  <2>3. QED
    BY <1>5, <2>1, <2>2 DEF Barge
<1>6. ASSUME NEW t \in Threads, SetParked(t) PROVE Inv'
  <2>1. CASE CASWins(cur[t], [cur[t] EXCEPT !.parked = TRUE]) /\ Goto(t, "park")
    <3>1. byte' \in Byte /\ byte'.held = byte.held /\ byte'.parked
      BY <1>6, <2>1 DEF CASWins
    <3>2. lockPc[t] = "setParked" /\ lockPc' = [lockPc EXCEPT ![t] = "park"]
          /\ UNCHANGED <<cur, spinCount>>
      BY <1>6, <2>1 DEF SetParked, Goto
    <3>3. LockTypeOK'
      BY <3>1, <3>2
    <3>4. MutualExclusion' /\ LoadedByte'
      BY <3>1, <3>2
    <3>5. QED
      BY <3>3, <3>4
  <2>2. CASE CASLoses(cur[t]) /\ Goto(t, "lockLoad")
    BY <1>6, <2>2 DEF SetParked, CASLoses, Goto
  <2>3. QED
    BY <1>6, <2>1, <2>2 DEF SetParked
<1>7. ASSUME NEW t \in Threads, CompareAndPark(t) PROVE Inv'
  BY <1>7 DEF CompareAndPark, Goto
<1>8. ASSUME NEW t \in Threads, LockParkReturned(t) PROVE Inv'
  BY <1>8 DEF LockParkReturned, Goto
<1>9. ASSUME NEW t \in Threads, UnlockFast(t) PROVE Inv'
  <2>1. CASE CASWins(IsHeldBit, Zero) /\ Goto(t, "idle")
    BY <1>9, <2>1 DEF UnlockFast, CASWins, Goto, Zero
  <2>2. CASE CASLoses(IsHeldBit) /\ Goto(t, "unlockLoad")
    BY <1>9, <2>2 DEF UnlockFast, CASLoses, Goto
  <2>3. QED
    BY <1>9, <2>1, <2>2 DEF UnlockFast
<1>10. ASSUME NEW t \in Threads, UnlockLoad(t) PROVE Inv'
  <2>1. byte.held
    BY <1>10 DEF UnlockLoad
  <2>2. byte # IsHeldBit => byte.parked
    BY <2>1 DEF IsHeldBit
  <2>3. QED
    BY <1>10, <2>2 DEF UnlockLoad, Goto
<1>11. ASSUME NEW t \in Threads, UnlockCAS(t) PROVE Inv'
  <2>1. CASE CASWins(IsHeldBit, Zero) /\ Goto(t, "idle")
    BY <1>11, <2>1 DEF UnlockCAS, CASWins, Goto, Zero
  <2>2. CASE CASLoses(IsHeldBit) /\ Goto(t, "unlockLoad")
    BY <1>11, <2>2 DEF UnlockCAS, CASLoses, Goto
  <2>3. QED
    BY <1>11, <2>1, <2>2 DEF UnlockCAS
<1>12. ASSUME NEW t \in Threads, UnlockUnpark(t) PROVE Inv'
  <2>1. byte' \in {HasParkedBit, Zero}
    BY <1>12 DEF UnlockUnpark
  <2>2. byte' \in Byte /\ ~byte'.held
    BY <2>1 DEF HasParkedBit, Zero
  <2>3. QED
    BY <1>12, <2>2 DEF UnlockUnpark, Goto
<1>13. ASSUME NEW t \in Threads, UnlockReturns(t) PROVE Inv'
  BY <1>13 DEF UnlockReturns, Goto
<1>14. ASSUME NEW t \in Threads,
              \/ CompareAndEnqueue(t) \/ LockBeforeSleep(t)
              \/ LockParkStep(t) \/ LockUnparkStep(t) \/ LockEnvironment(t)
       PROVE  UNCHANGED lockVars
  BY <1>14 DEF CompareAndEnqueue, LockBeforeSleep, LockParkStep, LockUnparkStep, LockEnvironment
<1>15. CASE UNCHANGED vars
  BY <1>15, UnchangedInv DEF vars, lockVars
<1>16. QED
  BY <1>1, <1>2, <1>3, <1>4, <1>5, <1>6, <1>7, <1>8, <1>9, <1>10, <1>11, <1>12, <1>13, <1>14,
     <1>15, UnchangedInv
     DEF Next, Step, LockStep, TryStep, UnlockStep

LEMMA InvariantHolds == Spec => []Inv
<1>1. QED
  BY InitInv, StepInv, PTL DEF Spec

(* At most one thread has a WTF::Lock, and isHeldBit is set exactly while   *)
(* one has: barging, tryLock() and the plain store that unlockSlow() makes  *)
(* in its unpark callback included.                                         *)
THEOREM LockExcludes == Spec => []MutualExclusion
<1>1. Inv => MutualExclusion
  BY DEF Inv
<1>2. QED
  BY <1>1, InvariantHolds, PTL

(* The assertions of unlockSlow() hold: the owner finds its bit, and still  *)
(* finds both bits in the callback.                                         *)
THEOREM UnlockAssertions == Spec => []LockAssertionsHold
<1>1. Inv => LockAssertionsHold
  BY DEF Inv, LockTypeOK, MutualExclusion, LoadedByte, LockAssertionsHold, Owns,
         IsHeldBit, HeldAndParked
<1>2. QED
  BY <1>1, InvariantHolds, PTL

-----------------------------------------------------------------------------
(* The lock implements the abstract mutex.  A step moves at most one thread *)
(* from label to label, and so at most one entry of LockState.              *)
StateOf(label) ==
    IF label \in {"held", "unlockLoad", "unlockCAS", "unlockUnpark"} THEN "holding"
    ELSE IF label \in {"lockLoad", "barge", "setParked", "park", "parking"} THEN "waiting"
    ELSE "out"

LEMMA LockStateOf == LockState = [t \in Threads |-> StateOf(lockPc[t])]
BY DEF LockState, StateOf, Owns, Wants

LEMMA OneThreadMoves ==
    ASSUME LockTypeOK, NEW t \in Threads, NEW l \in LockLabels, Goto(t, l)
    PROVE  LockState' = [LockState EXCEPT ![t] = StateOf(l)]
<1>1. LockState' = [u \in Threads |-> StateOf(lockPc'[u])]
  BY DEF LockState, StateOf, Owns, Wants
<1>2. QED
  BY <1>1, LockStateOf DEF Goto, LockTypeOK

(* A move between labels of the same kind is invisible; the others are      *)
(* the steps of the mutex.                                                  *)
LEMMA MoveIsMutexStep ==
    ASSUME LockTypeOK, MutualExclusion,
           NEW t \in Threads, NEW l \in LockLabels, Goto(t, l),
           \/ StateOf(l) = StateOf(lockPc[t])
           \/ StateOf(lockPc[t]) = "out" /\ StateOf(l) = "waiting"
           \/ StateOf(lockPc[t]) \in {"out", "waiting"} /\ StateOf(l) = "holding" /\ ~byte.held
           \/ StateOf(lockPc[t]) = "holding" /\ StateOf(l) = "out"
    PROVE  [M!Next]_(M!vars)
<1>1. LockState' = [LockState EXCEPT ![t] = StateOf(l)]
  BY OneThreadMoves
<1>2. LockState \in [Threads -> {"out", "waiting", "holding"}] /\ LockState[t] = StateOf(lockPc[t])
  BY LockStateOf DEF StateOf
<1>3. ~byte.held => \A u \in Threads : LockState[u] # "holding"
  BY DEF MutualExclusion, LockState
<1>4. CASE StateOf(l) = StateOf(lockPc[t])
  BY <1>1, <1>2, <1>4 DEF M!vars
<1>5. CASE StateOf(lockPc[t]) = "out" /\ StateOf(l) = "waiting"
  BY <1>1, <1>2, <1>5 DEF M!Next, M!Request
<1>6. CASE StateOf(lockPc[t]) \in {"out", "waiting"} /\ StateOf(l) = "holding" /\ ~byte.held
  BY <1>1, <1>2, <1>3, <1>6 DEF M!Next, M!Acquire
<1>7. CASE StateOf(lockPc[t]) = "holding" /\ StateOf(l) = "out"
  BY <1>1, <1>2, <1>7 DEF M!Next, M!Release
<1>8. QED
  BY <1>4, <1>5, <1>6, <1>7

LEMMA StepImplements == Inv /\ [Next]_vars => [M!Next]_(M!vars)
<1> SUFFICES ASSUME Inv, [Next]_vars PROVE [M!Next]_(M!vars)
  OBVIOUS
<1> USE MoveIsMutexStep DEF Inv, LockLabels, StateOf
<1>1. ASSUME NEW t \in Threads, LockFast(t) PROVE [M!Next]_(M!vars)
  <2>1. CASE CASWins(Zero, IsHeldBit) /\ Return(t, "held")
    BY <1>1, <2>1 DEF LockFast, CASWins, Return, Zero
  <2>2. CASE CASLoses(Zero) /\ Return(t, "lockLoad")
    BY <1>1, <2>2 DEF LockFast, Return
  <2>3. QED
    BY <1>1, <2>1, <2>2 DEF LockFast
<1>2. ASSUME NEW t \in Threads, TryLoad(t) PROVE [M!Next]_(M!vars)
  <2>1. Goto(t, "idle") \/ Goto(t, "tryCAS")
    BY <1>2 DEF TryLoad, Return
  <2>2. lockPc[t] \in {"idle", "tryLoad"}
    BY <1>2 DEF TryLoad
  <2>3. QED
    BY <2>1, <2>2
<1>3. ASSUME NEW t \in Threads, TryCAS(t) PROVE [M!Next]_(M!vars)
  <2>1. CASE CASWins(cur[t], [cur[t] EXCEPT !.held = TRUE]) /\ Return(t, "held")
    BY <1>3, <2>1 DEF TryCAS, CASWins, Return, LoadedByte
  <2>2. CASE CASLoses(cur[t]) /\ Return(t, "tryLoad")
    BY <1>3, <2>2 DEF TryCAS, Return
  <2>3. QED
    BY <1>3, <2>1, <2>2 DEF TryCAS
<1>4. ASSUME NEW t \in Threads, NEW b \in Byte, SpinOrPark(t, b), lockPc[t] \in {"lockLoad", "barge"}
      PROVE  [M!Next]_(M!vars)
  <2>1. \E l \in {"lockLoad", "park", "setParked"} : Goto(t, l)
    BY <1>4 DEF SpinOrPark
  <2>2. QED
    BY <1>4, <2>1
<1>5. ASSUME NEW t \in Threads, LockLoad(t) PROVE [M!Next]_(M!vars)
  <2>1. CASE byte.held
    BY <1>4, <1>5, <2>1 DEF LockLoad, LockTypeOK
  <2>2. CASE ~byte.held
    BY <1>5, <2>2 DEF LockLoad
  <2>3. QED
    BY <2>1, <2>2
<1>6. ASSUME NEW t \in Threads, Barge(t) PROVE [M!Next]_(M!vars)
  <2>1. CASE CASWins(cur[t], [cur[t] EXCEPT !.held = TRUE]) /\ Return(t, "held")
    BY <1>6, <2>1 DEF Barge, CASWins, Return, LoadedByte
  <2>2. CASE CASLoses(cur[t]) /\ SpinOrPark(t, cur[t]) /\ UNCHANGED cur
    BY <1>4, <1>6, <2>2 DEF Barge, LockTypeOK
  <2>3. QED
    BY <1>6, <2>1, <2>2 DEF Barge
<1>7. ASSUME NEW t \in Threads, SetParked(t) \/ CompareAndPark(t) \/ LockParkReturned(t)
      PROVE  [M!Next]_(M!vars)
  <2>1. /\ lockPc[t] \in {"setParked", "park", "parking"}
        /\ \E l \in {"park", "lockLoad", "parking"} : Goto(t, l)
    BY <1>7 DEF SetParked, CompareAndPark, LockParkReturned
  <2>2. QED
    BY <2>1
<1>8. ASSUME NEW t \in Threads, UnlockFast(t) \/ UnlockLoad(t) \/ UnlockCAS(t) \/ UnlockUnpark(t)
      PROVE  [M!Next]_(M!vars)
  <2>1. /\ lockPc[t] \in {"held", "unlockLoad", "unlockCAS", "unlockUnpark"}
        /\ \E l \in {"idle", "unlockLoad", "unlockCAS", "unlockUnpark", "unparking"} : Goto(t, l)
    BY <1>8 DEF UnlockFast, UnlockLoad, UnlockCAS, UnlockUnpark
  <2>2. QED
    BY <2>1
<1>9. ASSUME NEW t \in Threads, UnlockReturns(t) PROVE [M!Next]_(M!vars)
  BY <1>9 DEF UnlockReturns
<1>10. ASSUME UNCHANGED lockVars PROVE [M!Next]_(M!vars)
  BY <1>10 DEF lockVars, M!vars, LockState, Owns, Wants
<1>11. ASSUME NEW t \in Threads,
              \/ CompareAndEnqueue(t) \/ LockBeforeSleep(t)
              \/ LockParkStep(t) \/ LockUnparkStep(t) \/ LockEnvironment(t)
       PROVE  UNCHANGED lockVars
  BY <1>11 DEF CompareAndEnqueue, LockBeforeSleep, LockParkStep, LockUnparkStep, LockEnvironment
<1>12. CASE UNCHANGED vars
  BY <1>10, <1>12 DEF vars, lockVars
<1>13. QED
  BY <1>1, <1>2, <1>3, <1>5, <1>6, <1>7, <1>8, <1>9, <1>10, <1>11, <1>12
     DEF Next, Step, LockStep, TryStep, UnlockStep

(* To its callers a WTF::Lock is a mutex: what threads see of lock(),       *)
(* tryLock() and unlock() is a behaviour of the abstract specification.     *)
THEOREM LockIsMutex == Spec => ImplementsMutex
<1>1. Init => M!Init
  BY DEF Init, LockInit, M!Init, LockState, Owns, Wants
<1>2. QED
  BY <1>1, InvariantHolds, StepImplements, PTL DEF Spec, ImplementsMutex, M!Spec

-----------------------------------------------------------------------------
(* The lock and the parking lot together.                                   *)

(* A thread is in a park call exactly while lockSlow() waits for it, and    *)
(* that call is on this lock, without a timeout.                            *)
ParksForLock ==
    \A t \in Threads :
        /\ lockPc[t] = "parking" <=> parkPc[t] # "idle"
        /\ parkAddress[t] \in {Null, TheLock}

LotAndLock ==
    /\ Inv /\ LotInv /\ NobodyTimesOut /\ NobodyHasTimedOut
    /\ ParksForLock /\ ParkedThreadsRemembered

(* A step that leaves the queues alone forgets nobody if it keeps           *)
(* hasParkedBit, and leaves the lock held or the threads that want it       *)
(* wanting it.                                                              *)
LEMMA StillRemembered ==
    ASSUME ParkedThreadsRemembered, UNCHANGED queue,
           \/ queue[TheLock] = <<>>
           \/ /\ byte.parked => byte'.parked
              /\ byte'.held \/ (~byte.held /\ \A t \in Threads : Wants(t) => Wants(t)')
    PROVE  ParkedThreadsRemembered'
BY DEF ParkedThreadsRemembered, Queued

(* The steps on m_byte alone.                                               *)
LEMMA ByteStepRemembers ==
    ASSUME LotAndLock, UNCHANGED lotVars, NEW t \in Threads,
           \/ LockFast(t) \/ TryLoad(t) \/ TryCAS(t) \/ LockLoad(t) \/ Barge(t) \/ SetParked(t)
           \/ UnlockFast(t) \/ UnlockLoad(t) \/ UnlockCAS(t) \/ UnlockReturns(t)
    PROVE  ParksForLock' /\ ParkedThreadsRemembered'
<1> USE DEF LotAndLock, Inv, LockTypeOK
<1>1. UNCHANGED <<queue, parkPc, parkAddress>>
  BY DEF lotVars, parkVars
<1>2. PICK l \in LockLabels \ {"parking"} : lockPc' = [lockPc EXCEPT ![t] = l] /\ lockPc[t] # "parking"
  BY DEF LockFast, TryLoad, TryCAS, LockLoad, Barge, SetParked, SpinOrPark,
         UnlockFast, UnlockLoad, UnlockCAS, UnlockReturns, Return, Goto
<1>3. ParksForLock'
  BY <1>1, <1>2 DEF ParksForLock
<1>4. \/ queue[TheLock] = <<>>
      \/ /\ byte.parked => byte'.parked
         /\ byte'.held \/ (~byte.held /\ \A u \in Threads : Wants(u) => Wants(u)')
  <2>1. CASE LockFast(t)
    BY <2>1 DEF LockFast, CASWins, CASLoses, Return, Goto, Wants, Zero, ParkedThreadsRemembered
  <2>2. CASE TryLoad(t)
    BY <2>2 DEF TryLoad, Return, Goto, Wants
  <2>3. CASE TryCAS(t)
    <3>1. CASE CASWins(cur[t], [cur[t] EXCEPT !.held = TRUE])
      BY <3>1 DEF CASWins
    <3>2. CASE CASLoses(cur[t]) /\ Return(t, "tryLoad")
      BY <2>3, <3>2 DEF TryCAS, CASLoses, Return, Goto, Wants
    <3>3. QED
      BY <2>3, <3>1, <3>2 DEF TryCAS
  <2>4. CASE LockLoad(t)
    BY <2>4 DEF LockLoad, SpinOrPark, Goto, Wants
  <2>5. CASE Barge(t)
    <3>1. CASE CASWins(cur[t], [cur[t] EXCEPT !.held = TRUE])
      BY <3>1 DEF CASWins
    <3>2. CASE CASLoses(cur[t]) /\ SpinOrPark(t, cur[t])
      BY <2>5, <3>2 DEF Barge, CASLoses, SpinOrPark, Goto, Wants
    <3>3. QED
      BY <2>5, <3>1, <3>2 DEF Barge
  <2>6. CASE SetParked(t)
    <3>1. CASE CASWins(cur[t], [cur[t] EXCEPT !.parked = TRUE]) /\ Goto(t, "park")
      BY <2>6, <3>1 DEF SetParked, CASWins, Goto, Wants
    <3>2. CASE CASLoses(cur[t]) /\ Goto(t, "lockLoad")
      BY <2>6, <3>2 DEF SetParked, CASLoses, Goto, Wants
    <3>3. QED
      BY <2>6, <3>1, <3>2 DEF SetParked
  <2>7. CASE UnlockFast(t) \/ UnlockCAS(t)
    BY <2>7 DEF UnlockFast, UnlockCAS, CASWins, CASLoses, Goto, Wants, IsHeldBit, ParkedThreadsRemembered
  <2>8. CASE UnlockLoad(t) \/ UnlockReturns(t)
    BY <2>8 DEF UnlockLoad, UnlockReturns, Goto, Wants
  <2>9. QED
    BY <2>1, <2>2, <2>3, <2>4, <2>5, <2>6, <2>7, <2>8
<1>5. QED
  BY <1>1, <1>3, <1>4, StillRemembered

(* The steps of the parking lot for the calls under way.                    *)
LEMMA LotStepRemembers ==
    ASSUME LotAndLock, NEW t \in Threads, UNCHANGED lockVars,
           ParkStep(t) \/ UnparkStep(t) \/ SpuriousWakeup(t)
    PROVE  /\ NobodyTimesOut' /\ NobodyHasTimedOut' /\ LotInv'
           /\ ParksForLock' /\ ParkedThreadsRemembered'
<1> USE DEF LotAndLock, LotInv, LotTypeOK
<1>1. NobodyHasTimedOut'
  BY UntimedStep DEF LotStep, LotEnvironment
<1>2. LotInv'
  BY LotStepInv DEF LotStep, LotEnvironment
<1>3. /\ queue' = queue
      /\ \A x \in Threads : /\ parkPc'[x] = "idle" <=> parkPc[x] = "idle"
                            /\ parkAddress'[x] \in {Null, parkAddress[x]}
                            /\ ~timed'[x]
  <2>1. CASE SleepCheck(t)
    BY <2>1 DEF SleepCheck, ParkReturn, ParkGoto, NobodyTimesOut
  <2>2. CASE TimeoutWakeup(t) \/ DequeueSelf(t) \/ ClearSelf(t)
    BY <2>2 DEF TimeoutWakeup, DequeueSelf, ClearSelf, NobodyHasTimedOut
  <2>3. CASE ClearAddress(t)
    BY <2>3 DEF ClearAddress, parkVars, NobodyTimesOut
  <2>4. CASE NotifyOne(t)
    BY <2>4 DEF NotifyOne, NobodyTimesOut
  <2>5. CASE SpuriousWakeup(t)
    BY <2>5 DEF SpuriousWakeup, ParkGoto, NobodyTimesOut
  <2>6. QED
    BY <2>1, <2>2, <2>3, <2>4, <2>5 DEF ParkStep, UnparkStep
<1>4. NobodyTimesOut' /\ ParksForLock'
  BY <1>3 DEF NobodyTimesOut, ParksForLock, lockVars
<1>5. ParkedThreadsRemembered'
  <2>1. UNCHANGED <<byte, lockPc>>
    BY DEF lockVars
  <2>2. QED
    BY <1>3, <2>1 DEF ParkedThreadsRemembered, Queued, Wants
<1>6. QED
  BY <1>1, <1>2, <1>4, <1>5

(* The calls of compareAndPark(): a thread is queued only while the byte    *)
(* says both held and parked.                                               *)
LEMMA ParkCallRemembers ==
    ASSUME LotAndLock, NEW t \in Threads,
           \/ CompareAndPark(t) \/ CompareAndEnqueue(t) \/ LockBeforeSleep(t) \/ LockParkReturned(t)
    PROVE  /\ NobodyTimesOut' /\ NobodyHasTimedOut' /\ LotInv'
           /\ ParksForLock' /\ ParkedThreadsRemembered'
<1> USE DEF LotAndLock, LotInv, LotTypeOK, Inv, LockTypeOK
<1>1. CASE CompareAndPark(t)
  <2>1. ParkBegin(t, TheLock, FALSE) /\ lockPc[t] = "park" /\ lockPc' = [lockPc EXCEPT ![t] = "parking"]
        /\ byte' = byte
    BY <1>1 DEF CompareAndPark, Goto
  <2>2. LotInv'
    <3>1. \A u \in Threads : ~ToWake(u, t)
      BY <2>1 DEF ParkBegin, NobodyHasTimedOut, Asleep
    <3>2. QED
      BY <2>1, <3>1, ParkBeginInv
  <2>3. NobodyHasTimedOut'
    BY <2>1, UntimedStep
  <2>4. NobodyTimesOut' /\ ParksForLock'
    BY <2>1 DEF ParkBegin, ParkGoto, NobodyTimesOut, ParksForLock
  <2>5. queue' = queue /\ \A u \in Threads : Wants(u) => Wants(u)'
    BY <2>1 DEF ParkBegin, Wants
  <2>6. ParkedThreadsRemembered'
    BY <2>1, <2>5, StillRemembered
  <2>7. QED
    BY <2>2, <2>3, <2>4, <2>6
<1>2. CASE CompareAndEnqueue(t)
  <2>1. /\ ParkEnqueue(t, byte = HeldAndParked) /\ UNCHANGED <<byte, lockPc>>
        /\ (byte = HeldAndParked) \in BOOLEAN
    BY <1>2 DEF CompareAndEnqueue, lockVars
  <2>2. LotInv'
    BY <2>1, ParkEnqueueInv
  <2>3. NobodyHasTimedOut'
    BY <2>1, UntimedStep
  <2>4. CASE byte = HeldAndParked
    <3>1. NobodyTimesOut' /\ ParksForLock'
      BY <2>1, <2>4 DEF ParkEnqueue, ParkGoto, NobodyTimesOut, ParksForLock
    <3>2. ParkedThreadsRemembered'
      BY <2>1, <2>4 DEF HeldAndParked, ParkedThreadsRemembered
    <3>3. QED
      BY <2>2, <2>3, <3>1, <3>2
  <2>5. CASE byte # HeldAndParked
    <3>1. NobodyTimesOut' /\ ParksForLock'
      <4>1. /\ parkPc[t] = "enqueue" /\ parkPc' = [parkPc EXCEPT ![t] = "false"]
            /\ parkAddress' = [parkAddress EXCEPT ![t] = Null]
            /\ timed' = [timed EXCEPT ![t] = FALSE]
        BY <2>1, <2>5 DEF ParkEnqueue, ParkReturn, ParkGoto
      <4>2. NobodyTimesOut'
        BY <4>1 DEF NobodyTimesOut
      <4>3. ParksForLock'
        BY <2>1, <4>1 DEF ParksForLock
      <4>4. QED
        BY <4>2, <4>3
    <3>2. queue' = queue
      BY <2>1, <2>5 DEF ParkEnqueue
    <3>3. ParkedThreadsRemembered'
      BY <2>1, <3>2 DEF ParkedThreadsRemembered, Queued, Wants
    <3>4. QED
      BY <2>2, <2>3, <3>1, <3>3
  <2>6. QED
    BY <2>4, <2>5
<1>3. CASE LockBeforeSleep(t)
  <2>1. BeforeSleepReturns(t) /\ UNCHANGED <<byte, lockPc>>
    BY <1>3 DEF LockBeforeSleep, lockVars
  <2>2. LotInv' /\ NobodyHasTimedOut'
    BY <2>1, BeforeSleepReturnsInv, UntimedStep
  <2>3. NobodyTimesOut' /\ ParksForLock'
    BY <2>1 DEF BeforeSleepReturns, ParkGoto, NobodyTimesOut, ParksForLock
  <2>4. ParkedThreadsRemembered'
    BY <2>1 DEF BeforeSleepReturns, ParkedThreadsRemembered, Queued, Wants
  <2>5. QED
    BY <2>2, <2>3, <2>4
<1>4. CASE LockParkReturned(t)
  <2>1. /\ ParkReturned(t) /\ lockPc[t] = "parking" /\ lockPc' = [lockPc EXCEPT ![t] = "lockLoad"]
        /\ byte' = byte
    BY <1>4 DEF LockParkReturned, Goto
  <2>2. LotInv' /\ NobodyHasTimedOut'
    BY <2>1, ParkReturnedInv, UntimedStep
  <2>3. NobodyTimesOut' /\ ParksForLock'
    BY <2>1 DEF ParkReturned, ParkGoto, NobodyTimesOut, ParksForLock
  <2>4. queue' = queue /\ \A u \in Threads : Wants(u) => Wants(u)'
    BY <2>1 DEF ParkReturned, Wants
  <2>5. ParkedThreadsRemembered'
    BY <2>1, <2>4, StillRemembered
  <2>6. QED
    BY <2>2, <2>3, <2>5
<1>5. QED
  BY <1>1, <1>2, <1>3, <1>4

(* The release in unlockSlow(): the thread it dequeues wants the lock and   *)
(* is awake, and hasParkedBit stays unless it was the last one.             *)
LEMMA UnlockUnparkRemembers ==
    ASSUME LotAndLock, NEW t \in Threads, UnlockUnpark(t)
    PROVE  /\ NobodyTimesOut' /\ NobodyHasTimedOut' /\ LotInv'
           /\ ParksForLock' /\ ParkedThreadsRemembered'
<1> USE DEF LotAndLock, LotInv, LotTypeOK, Inv, LockTypeOK
<1>1. /\ UnparkOneDequeue(t, TheLock) /\ lockPc[t] = "unlockUnpark"
      /\ lockPc' = [lockPc EXCEPT ![t] = "unparking"]
  BY DEF UnlockUnpark, Goto
<1>2. NobodyHasTimedOut'
  BY <1>1, UntimedStep
<1>3. /\ LotInv'
      /\ \A b \in Addresses \ {TheLock} : queue'[b] = queue[b]
      /\ queue[TheLock] = <<>> => queue' = queue
      /\ queue[TheLock] # <<>> =>
           /\ queue'[TheLock] \in Seq(Threads)
           /\ Members(queue'[TheLock]) = Members(queue[TheLock]) \ {Head(queue[TheLock])}
  BY <1>1, UnparkOneInv
<1>4. UNCHANGED parkVars
  BY <1>1 DEF UnparkOneDequeue
<1>5. NobodyTimesOut' /\ ParksForLock'
  BY <1>1, <1>4 DEF parkVars, NobodyTimesOut, ParksForLock
<1>6. ParkedThreadsRemembered'
  <2>1. SUFFICES ASSUME queue'[TheLock] # <<>>
                 PROVE  /\ byte'.parked
                        /\ \E u \in Threads : Wants(u)' /\ Queued(u)' = {}
    BY DEF ParkedThreadsRemembered
  <2>2. queue[TheLock] # <<>>
    BY <1>3, <2>1
  <2>3. PICK first \in Threads : first = Head(queue[TheLock]) /\ first \in Members(queue[TheLock])
    BY <2>2, NonEmptyQueue
  <2>4. \A b \in Addresses : first \notin Members(queue'[b])
    <3>1. first \notin Members(queue'[TheLock])
      BY <1>3, <2>2, <2>3
    <3>2. \A b \in Addresses \ {TheLock} : first \notin Members(queue[b])
      BY <2>3 DEF QueueInv
    <3>3. QED
      BY <1>3, <3>1, <3>2
  <2>5. Queued(first)' = {}
    BY <2>4 DEF Queued, Members
  <2>6. lockPc[first] = "parking"
    BY <2>3 DEF QueueInv, ParksForLock, Asleep
  <2>7. Wants(first)'
    BY <1>1, <2>6 DEF Wants
  <2>8. byte'.parked
    <3>1. PICK result \in UnparkResults(TheLock) :
             byte' = IF result.mayHaveMoreThreads THEN HasParkedBit ELSE Zero
      BY DEF UnlockUnpark
    <3>2. PICK w : w \in Members(queue'[TheLock])
      BY <1>3, <2>1, <2>2, NonEmptyQueue
    <3>3. Len(queue[TheLock]) > 1
      <4>1. w \in Members(queue[TheLock]) /\ w # Head(queue[TheLock])
        BY <1>3, <2>2, <3>2
      <4>2. PICK i \in 1..Len(queue[TheLock]) : queue[TheLock][i] = w
        BY <4>1 DEF Members
      <4>3. i # 1 /\ Len(queue[TheLock]) \in Nat
        BY <2>2, <4>1, <4>2
      <4>4. QED
        BY <4>2, <4>3
    <3>4. result.mayHaveMoreThreads
      BY <3>1, <3>3, WaitingIsQueue DEF UnparkResults
    <3>5. QED
      BY <3>1, <3>4 DEF HasParkedBit
  <2>9. QED
    BY <2>5, <2>7, <2>8
<1>7. QED
  BY <1>2, <1>3, <1>5, <1>6

LEMMA LotAndLockStep == LotAndLock /\ [Next]_vars => LotAndLock'
<1> SUFFICES ASSUME LotAndLock, [Next]_vars PROVE LotAndLock'
  OBVIOUS
<1>1. Inv'
  BY StepInv DEF LotAndLock
<1>2. ASSUME UNCHANGED lotVars PROVE LotInv' /\ NobodyTimesOut' /\ NobodyHasTimedOut'
  BY <1>2, LotUnchanged DEF LotAndLock, lotVars, parkVars, unparkVars, ToWake, NobodyTimesOut, NobodyHasTimedOut
<1>3. ASSUME NEW t \in Threads,
             \/ LockFast(t) \/ TryLoad(t) \/ TryCAS(t) \/ LockLoad(t) \/ Barge(t) \/ SetParked(t)
             \/ UnlockFast(t) \/ UnlockLoad(t) \/ UnlockCAS(t) \/ UnlockReturns(t)
      PROVE  LotAndLock'
  <2>1. UNCHANGED lotVars
    BY <1>3 DEF LockFast, TryLoad, TryCAS, LockLoad, Barge, SetParked,
                UnlockFast, UnlockLoad, UnlockCAS, UnlockReturns
  <2>2. QED
    BY <1>1, <1>2, <1>3, <2>1, ByteStepRemembers DEF LotAndLock
<1>4. ASSUME NEW t \in Threads,
             \/ CompareAndPark(t) \/ CompareAndEnqueue(t) \/ LockBeforeSleep(t) \/ LockParkReturned(t)
      PROVE  LotAndLock'
  BY <1>1, <1>4, ParkCallRemembers DEF LotAndLock
<1>5. ASSUME NEW t \in Threads, UnlockUnpark(t) PROVE LotAndLock'
  BY <1>1, <1>5, UnlockUnparkRemembers DEF LotAndLock
<1>6. ASSUME NEW t \in Threads, LockParkStep(t) \/ LockUnparkStep(t) \/ LockEnvironment(t)
      PROVE  LotAndLock'
  BY <1>1, <1>6, LotStepRemembers DEF LotAndLock, LockParkStep, LockUnparkStep, LockEnvironment
<1>7. CASE UNCHANGED vars
  <2>1. UNCHANGED lotVars /\ UNCHANGED <<byte, lockPc>> /\ UNCHANGED <<queue, parkPc, parkAddress>>
    BY <1>7 DEF vars, lockVars, lotVars, parkVars
  <2>2. ParksForLock' /\ ParkedThreadsRemembered'
    BY <2>1 DEF LotAndLock, ParksForLock, ParkedThreadsRemembered, Queued, Wants
  <2>3. QED
    BY <1>1, <1>2, <2>1, <2>2 DEF LotAndLock
<1>8. QED
  BY <1>3, <1>4, <1>5, <1>6, <1>7 DEF Next, Step, LockStep, TryStep, UnlockStep

LEMMA LotAndLockHolds == Spec => []LotAndLock
<1>1. Init => LotAndLock
  BY InitInv, LotInitInv, EmptyQueue DEF Init, LotInit, LockInit, LotAndLock, NobodyTimesOut,
     NobodyHasTimedOut, ToWake, ParksForLock, ParkedThreadsRemembered
<1>2. QED
  BY <1>1, LotAndLockStep, PTL DEF Spec

(* No thread parked on the lock is forgotten: the release that could leave  *)
(* one behind keeps hasParkedBit, and while the lock is free a thread awake *)
(* wants it.                                                                *)
THEOREM NobodyForgotten == Spec => []ParkedThreadsRemembered
BY LotAndLockHolds, PTL DEF LotAndLock

(* A WTF::Lock parks without a timeout, so its threads have all of the      *)
(* parking lot's promises, ASSERT(threadData->address) of unparkOne() too.  *)
THEOREM LockWakeupsNotLost ==
    Spec => [](/\ QueuesConsistent /\ LotAssertionsHold /\ NoLostWakeup
               /\ UnparkAssertionHolds /\ ResultIsExact)
BY LotAndLockHolds, LotPromises, UntimedPromises, PTL DEF LotAndLock
=============================================================================
