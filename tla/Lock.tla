--------------------------------- MODULE Lock ---------------------------------
(***************************************************************************)
(* WTF::Lock (Source/WTF/wtf/Lock.h, Lock.cpp): an adaptive mutex in one    *)
(* byte.  The byte holds isHeldBit and hasParkedBit; the threads that wait  *)
(* are parked in the ParkingLot on the byte's address.                      *)
(*                                                                         *)
(* A step is one access to m_byte, or one step of the parking lot; the      *)
(* validation of compareAndPark() and the callback of unparkOne() happen in *)
(* the parking lot's step that calls them.                                  *)
(***************************************************************************)
EXTENDS ParkingLot

CONSTANTS
    TheLock,          \* &m_byte
    SpinLimit,        \* spinLimit of lockSlow(), 40 in the source
    WeakCASMayFail    \* TRUE where compareExchangeWeak fails spuriously (LL/SC targets)

ASSUME LockAssumption ==
    TheLock \in Addresses /\ SpinLimit \in Nat /\ WeakCASMayFail \in BOOLEAN

VARIABLES
    byte,             \* m_byte
    lockPc,           \* where each thread is in lock(), tryLock() or unlock()
    cur,              \* local currentByteValue or oldByteValue
    spinCount         \* local spinCount of lockSlow()

lockVars == <<byte, lockPc, cur, spinCount>>

Byte == [held: BOOLEAN, parked: BOOLEAN]
Zero == [held |-> FALSE, parked |-> FALSE]
IsHeldBit == [held |-> TRUE, parked |-> FALSE]
HasParkedBit == [held |-> FALSE, parked |-> TRUE]
HeldAndParked == [held |-> TRUE, parked |-> TRUE]

LockInit ==
    /\ byte = Zero
    /\ lockPc = [t \in Threads |-> "idle"]
    /\ cur = [t \in Threads |-> Zero]
    /\ spinCount = [t \in Threads |-> 0]

-----------------------------------------------------------------------------
(* m_byte.compareExchangeWeak(expected, desired), and its failure.          *)
CASWins(expected, desired) == byte = expected /\ byte' = desired
CASLoses(expected) == (byte # expected \/ WeakCASMayFail) /\ UNCHANGED byte

Goto(t, label) == lockPc' = [lockPc EXCEPT ![t] = label]

\* A call begins or returns: none of its locals is live.
Return(t, label) ==
    /\ Goto(t, label)
    /\ cur' = [cur EXCEPT ![t] = Zero]
    /\ spinCount' = [spinCount EXCEPT ![t] = 0]

-----------------------------------------------------------------------------
(* lock(), lockSlow() and tryLock()                                         *)

LockFast(t) ==
    /\ lockPc[t] = "idle"
    /\ \/ CASWins(Zero, IsHeldBit) /\ Return(t, "held")
       \/ CASLoses(Zero) /\ Return(t, "lockLoad")
    /\ UNCHANGED lotVars

TryLoad(t) ==
    /\ lockPc[t] \in {"idle", "tryLoad"}
    /\ IF byte.held
       THEN Return(t, "idle")
       ELSE Goto(t, "tryCAS") /\ cur' = [cur EXCEPT ![t] = byte] /\ UNCHANGED spinCount
    /\ UNCHANGED <<byte, lotVars>>

\* Mutant of TryCAS: a plain store where the code has a compare-exchange.
TryByStore(t) ==
    /\ lockPc[t] = "tryCAS"
    /\ byte' = [cur[t] EXCEPT !.held = TRUE]
    /\ Return(t, "held")
    /\ UNCHANGED lotVars

TryCAS(t) ==
    /\ lockPc[t] = "tryCAS"
    /\ \/ CASWins(cur[t], [cur[t] EXCEPT !.held = TRUE]) /\ Return(t, "held")
       \/ CASLoses(cur[t]) /\ Return(t, "tryLoad")
    /\ UNCHANGED lotVars

\* The lock was not taken in this round: spin again, or go to park.
SpinOrPark(t, b) ==
    IF ~b.parked /\ spinCount[t] < SpinLimit
    THEN Goto(t, "lockLoad") /\ spinCount' = [spinCount EXCEPT ![t] = @ + 1]
    ELSE Goto(t, IF b.parked THEN "park" ELSE "setParked") /\ UNCHANGED spinCount

LockLoad(t) ==
    /\ lockPc[t] = "lockLoad"
    /\ cur' = [cur EXCEPT ![t] = byte]
    /\ IF byte.held
       THEN SpinOrPark(t, byte)
       ELSE Goto(t, "barge") /\ UNCHANGED spinCount
    /\ UNCHANGED <<byte, lotVars>>

Barge(t) ==
    /\ lockPc[t] = "barge"
    /\ \/ CASWins(cur[t], [cur[t] EXCEPT !.held = TRUE]) /\ Return(t, "held")
       \/ CASLoses(cur[t]) /\ SpinOrPark(t, cur[t]) /\ UNCHANGED cur
    /\ UNCHANGED lotVars

SetParked(t) ==
    /\ lockPc[t] = "setParked"
    /\ \/ CASWins(cur[t], [cur[t] EXCEPT !.parked = TRUE]) /\ Goto(t, "park")
       \/ CASLoses(cur[t]) /\ Goto(t, "lockLoad")
    /\ UNCHANGED <<cur, spinCount, lotVars>>

\* ParkingLot::compareAndPark(&m_byte, isHeldBit | hasParkedBit) is called,
CompareAndPark(t) ==
    /\ lockPc[t] = "park"
    /\ ParkBegin(t, TheLock, FALSE)
    /\ Goto(t, "parking")
    /\ cur' = [cur EXCEPT ![t] = Zero]
    /\ UNCHANGED <<byte, spinCount>>

\* compares the byte under the bucket lock,
CompareAndEnqueue(t) ==
    /\ lockPc[t] = "parking"
    /\ ParkEnqueue(t, byte = HeldAndParked)
    /\ UNCHANGED lockVars

\* and has nothing to do before the thread sleeps.
LockBeforeSleep(t) == lockPc[t] = "parking" /\ BeforeSleepReturns(t) /\ UNCHANGED lockVars

\* Awake, or never parked: either way lockSlow() loops around.
LockParkReturned(t) ==
    /\ lockPc[t] = "parking"
    /\ ParkReturned(t)
    /\ Goto(t, "lockLoad")
    /\ UNCHANGED <<byte, cur, spinCount>>

-----------------------------------------------------------------------------
(* unlock() and unlockSlow()                                                *)

UnlockFast(t) ==
    /\ lockPc[t] = "held"
    /\ \/ CASWins(IsHeldBit, Zero) /\ Goto(t, "idle")
       \/ CASLoses(IsHeldBit) /\ Goto(t, "unlockLoad")
    /\ UNCHANGED <<cur, spinCount, lotVars>>

UnlockLoad(t) ==
    /\ lockPc[t] = "unlockLoad"
    /\ Goto(t, IF byte = IsHeldBit THEN "unlockCAS" ELSE "unlockUnpark")
    /\ UNCHANGED <<byte, cur, spinCount, lotVars>>

\* Mutant of UnlockCAS: a plain store where the code has a compare-exchange.
UnlockByStore(t) ==
    /\ lockPc[t] = "unlockCAS"
    /\ byte' = Zero
    /\ Goto(t, "idle")
    /\ UNCHANGED <<cur, spinCount, lotVars>>

UnlockCAS(t) ==
    /\ lockPc[t] = "unlockCAS"
    /\ \/ CASWins(IsHeldBit, Zero) /\ Goto(t, "idle")
       \/ CASLoses(IsHeldBit) /\ Goto(t, "unlockLoad")
    /\ UNCHANGED <<cur, spinCount, lotVars>>

\* Mutant of UnlockUnpark: the callback keeps no hasParkedBit for those still parked.
UnlockForgetsParked(t) ==
    /\ lockPc[t] = "unlockUnpark"
    /\ UnparkOneDequeue(t, TheLock)
    /\ byte' = Zero
    /\ Goto(t, "unparking")
    /\ UNCHANGED <<cur, spinCount>>

\* ParkingLot::unparkOne(&m_byte, callback): the callback releases the lock.
UnlockUnpark(t) ==
    /\ lockPc[t] = "unlockUnpark"
    /\ UnparkOneDequeue(t, TheLock)
    /\ \E result \in UnparkResults(TheLock) :
         byte' = IF result.mayHaveMoreThreads THEN HasParkedBit ELSE Zero
    /\ Goto(t, "unparking")
    /\ UNCHANGED <<cur, spinCount>>

UnlockReturns(t) ==
    /\ lockPc[t] = "unparking" /\ unparkPc[t] = "idle"
    /\ Goto(t, "idle")
    /\ UNCHANGED <<byte, cur, spinCount, lotVars>>

-----------------------------------------------------------------------------
\* The steps of a call to lock(), to tryLock() and to unlock().
LockStep(t) ==
    \/ LockLoad(t) \/ Barge(t) \/ SetParked(t)
    \/ CompareAndPark(t) \/ CompareAndEnqueue(t) \/ LockBeforeSleep(t) \/ LockParkReturned(t)
TryStep(t) == (lockPc[t] = "tryLoad" /\ TryLoad(t)) \/ TryCAS(t)
UnlockStep(t) == UnlockLoad(t) \/ UnlockCAS(t) \/ UnlockUnpark(t) \/ UnlockReturns(t)

\* What the parking lot does for this lock's threads.
LockParkStep(t) == ParkStep(t) /\ UNCHANGED lockVars
LockUnparkStep(t) == UnparkStep(t) /\ UNCHANGED lockVars
LockEnvironment(t) == SpuriousWakeup(t) /\ UNCHANGED lockVars

-----------------------------------------------------------------------------
(* What the lock promises                                                   *)

\* t has the lock, until the compare-exchange or store of its unlock().
Owns(t) == lockPc[t] \in {"held", "unlockLoad", "unlockCAS", "unlockUnpark"}

\* t has called lock() and does not have the lock yet.
Wants(t) == lockPc[t] \in {"lockLoad", "barge", "setParked", "park", "parking"}

LockLabels == {"idle", "lockLoad", "barge", "setParked", "park", "parking", "held", "tryLoad",
               "tryCAS", "unlockLoad", "unlockCAS", "unlockUnpark", "unparking"}

(* Types: the byte is two bits, and the spin counter never passes its limit.*)
LockTypeOK ==
    /\ byte \in Byte
    /\ lockPc \in [Threads -> LockLabels]
    /\ cur \in [Threads -> Byte]
    /\ spinCount \in [Threads -> 0..SpinLimit]

(* At most one thread is between the end of lock() or tryLock() and the     *)
(* release in unlock(), and exactly then is isHeldBit set, though the       *)
(* release of unlockSlow() is a plain store made in a callback.             *)
MutualExclusion ==
    /\ \A t, u \in Threads : Owns(t) /\ Owns(u) => t = u
    /\ byte.held <=> \E t \in Threads : Owns(t)

(* The assertions of unlockSlow(): its thread holds the lock, and in the    *)
(* callback both bits are still set ("We are the only ones that can clear   *)
(* either the isHeldBit or the hasParkedBit").                              *)
LockAssertionsHold ==
    \A t \in Threads :
        /\ lockPc[t] = "unlockLoad" => byte \in {IsHeldBit, HeldAndParked}
        /\ lockPc[t] = "unlockUnpark" => byte = HeldAndParked

(* No parked thread is forgotten: while one is queued, hasParkedBit makes   *)
(* the next unlock() look for it; and while the lock is free as well, some  *)
(* thread awake in lock() or tryLock() will take it or will have seen it    *)
(* taken.                                                                   *)
ParkedThreadsRemembered ==
    queue[TheLock] # <<>> =>
        /\ byte.parked
        /\ byte.held \/ \E t \in Threads : Wants(t) /\ Queued(t) = {}
=============================================================================
