---------------------------- MODULE BmallocHeap ------------------------------
(***************************************************************************)
(* The page management of bmalloc::Heap: small pages, large ranges, and the *)
(* scavenger that gives the physical memory of free ones back to the        *)
(* operating system.                                                        *)
(*                                                                         *)
(* All of it is protected by the heap's mutex.  A section under the mutex   *)
(* is one step, except that run() is called at the end of some and takes    *)
(* steps of its own (AsyncTask); heapMutex is then held.  The scavenger     *)
(* releases the mutex around each system call and while it sleeps.          *)
(*                                                                         *)
(* A small page stands for all the objects in it.  Large memory is counted  *)
(* in units of largeAlignment, numbered from 0, of one chunk.               *)
(***************************************************************************)
EXTENDS AsyncTask, FiniteSets

CONSTANTS
    SmallPages,     \* pages of one page class
    Units,          \* the size of the large chunk
    Alignments,     \* alignments that are asked for
    WasteFactor     \* pageSizeWasteFactor

ASSUME HeapAssumption ==
    /\ Units \in Nat /\ WasteFactor \in Nat \ {0}
    /\ Alignments \subseteq Nat \ {0}

VARIABLES
    heapMutex,          \* a caller that holds PerProcess<Heap>::mutex() during run()
    smallPage,          \* where each small page is
    largeFree,          \* m_largeFree
    largeAllocated,     \* m_largeAllocated
    chunkTaken,         \* the large chunk has been obtained
    isAllocatingPages,  \* m_isAllocatingPages
    committedPages, committedUnits,   \* what the operating system backs with memory
    scavPc,             \* where each thread is in scavenge()
    phase,              \* which of its two loops
    flight              \* the page or range it has taken off the heap's lists

heapVars == <<heapMutex, smallPage, largeFree, largeAllocated, chunkTaken,
              isAllocatingPages, committedPages, committedUnits>>
scavVars == <<scavPc, phase, flight>>
vars     == <<asyncVars, heapVars, scavVars>>

Scavengers == Callers \cup {TaskThread}
NoFlight   == [kind |-> "none", what |-> Null]

Init ==
    /\ AsyncTaskInit
    /\ heapMutex = Null
    /\ smallPage = [p \in SmallPages |-> "vm"]
    /\ largeFree = {} /\ largeAllocated = {}
    /\ chunkTaken = FALSE
    /\ isAllocatingPages = FALSE
    /\ committedPages = {} /\ committedUnits = {}
    /\ scavPc = [s \in Scavengers |-> "none"]
    /\ phase = [s \in Scavengers |-> "small"]
    /\ flight = [s \in Scavengers |-> NoFlight]

-----------------------------------------------------------------------------
(* XLargeRange and XLargeMap.  phys is the size of the physical prefix. *)

XLargeRange(begin, size, phys) == [begin |-> begin, size |-> size, phys |-> phys]

End(r) == r.begin + r.size
UnitsOf(r) == r.begin .. (r.begin + r.size - 1)

\* Mutant of Merge: the physical sizes are always added up.
MergeAdding(l, r) ==
    XLargeRange(l.begin, l.size + r.size, l.phys + r.phys)

\* merge(), of a range and the one to its right
Merge(l, r) ==
    XLargeRange(l.begin, l.size + r.size, IF l.size = l.phys THEN l.phys + r.phys ELSE l.phys)

\* XLargeMap::add(), which merges with the neighbours
Added(free, r) ==
    LET lefts  == {f \in free : End(f) = r.begin}
        rights == {f \in free : f.begin = End(r)}
        wide   == IF lefts = {} THEN r ELSE Merge(CHOOSE f \in lefts : TRUE, r)
        wider  == IF rights = {} THEN wide ELSE Merge(wide, CHOOSE f \in rights : TRUE)
    IN (free \ (lefts \cup rights)) \cup {wider}

AddedAll(free, prev, next) ==
    LET withPrev == IF prev.size = 0 THEN free ELSE Added(free, prev)
    IN IF next.size = 0 THEN withPrev ELSE Added(withPrev, next)

\* XLargeRange::split()
SplitLeft(r, size) ==
    XLargeRange(r.begin, size, IF size <= r.phys THEN size ELSE r.phys)
SplitRight(r, size) ==
    XLargeRange(r.begin + size, r.size - size, IF size <= r.phys THEN r.phys - size ELSE 0)

Aligned(begin, alignment) == ((begin + alignment - 1) \div alignment) * alignment

\* XLargeMap::remove(): the candidates, of which it takes the lowest
Candidates(free, alignment, size) ==
    {f \in free : Aligned(f.begin, alignment) + size <= End(f)}
Lowest(ranges) == CHOOSE f \in ranges : \A g \in ranges : f.begin <= g.begin

\* splitAndAllocate() of range r, which has been removed from the list free: what
\* it allocates, and what it puts back.
PrefixOf(r, alignment) == SplitLeft(r, Aligned(r.begin, alignment) - r.begin)
AfterPrefix(r, alignment) ==
    IF r.begin % alignment = 0 THEN r ELSE SplitRight(r, Aligned(r.begin, alignment) - r.begin)
Wasteful(r, size) == r.size - size > size \div WasteFactor
Allocated(r, size) == IF Wasteful(r, size) THEN SplitLeft(r, size) ELSE r
Leftover(r, size) == IF Wasteful(r, size) THEN SplitRight(r, size) ELSE XLargeRange(End(r), 0, 0)

SplitAndAllocate(free, allocated, r, alignment, size) ==
    LET aligned == AfterPrefix(r, alignment)
        object  == Allocated(aligned, size)
    IN /\ isAllocatingPages' = (isAllocatingPages \/ object.phys < object.size)
       /\ committedUnits' = committedUnits \cup ((object.begin + object.phys) .. (End(object) - 1))
       /\ largeFree' = AddedAll(free, PrefixOf(r, alignment), Leftover(aligned, size))
       /\ largeAllocated' = allocated \cup {[begin |-> object.begin, size |-> object.size]}

-----------------------------------------------------------------------------
(* Operations of the threads that allocate.  Each holds the mutex throughout. *)

CanEnter(t) == constructed /\ heapMutex = Null /\ runPc[t] = "none" /\ scavPc[t] = "none"

\* The operation ends with m_scavenger.run().
ThenRunScavenger(t) ==
    /\ heapMutex' = t
    /\ RunGoto(t, "load")
    /\ UNCHANGED <<state, conditionMutex, taskPc, constructed, scavVars>>

\* allocateSmallPage()
AllocateSmallPage(t) ==
    /\ CanEnter(t)
    /\ \E p \in SmallPages :
          /\ smallPage' = [smallPage EXCEPT ![p] = "used"]
          /\ \/ smallPage[p] = "free" /\ UNCHANGED <<isAllocatingPages, committedPages>>
             \/ /\ smallPage[p] = "vm" /\ \A q \in SmallPages : smallPage[q] # "free"
                /\ isAllocatingPages' = TRUE
                /\ committedPages' = committedPages \cup {p}
    /\ UNCHANGED <<asyncVars, scavVars, heapMutex, largeFree, largeAllocated, chunkTaken, committedUnits>>

\* deallocateSmallLine(), when the last line of the page is freed
DeallocateSmallPage(t) ==
    /\ CanEnter(t)
    /\ \E p \in SmallPages : smallPage[p] = "used" /\ smallPage' = [smallPage EXCEPT ![p] = "free"]
    /\ ThenRunScavenger(t)
    /\ UNCHANGED <<largeFree, largeAllocated, chunkTaken, isAllocatingPages, committedPages, committedUnits>>

\* tryAllocateLarge(): from the free ranges, or from a new chunk added to them
AllocateLarge(t) ==
    /\ CanEnter(t)
    /\ \E size \in 1..Units, alignment \in Alignments :
          LET grown == Added(largeFree, XLargeRange(0, Units, 0))
              free  == IF Candidates(largeFree, alignment, size) # {} THEN largeFree ELSE grown
              r     == Lowest(Candidates(free, alignment, size))
          IN /\ Candidates(largeFree, alignment, size) # {} \/ ~chunkTaken
             /\ chunkTaken' = (chunkTaken \/ free # largeFree)
             /\ SplitAndAllocate(free \ {r}, largeAllocated, r, alignment, size)
    /\ UNCHANGED <<asyncVars, scavVars, heapMutex, smallPage, committedPages>>

\* Mutant of DeallocateLarge: the scavenger is not asked to run.
DeallocateLargeQuietly(t) ==
    /\ CanEnter(t)
    /\ \E object \in largeAllocated :
          /\ largeAllocated' = largeAllocated \ {object}
          /\ largeFree' = Added(largeFree, XLargeRange(object.begin, object.size, object.size))
    /\ UNCHANGED <<asyncVars, scavVars, heapMutex, smallPage, chunkTaken, isAllocatingPages, committedPages, committedUnits>>

DeallocateLarge(t) ==
    /\ CanEnter(t)
    /\ \E object \in largeAllocated :
          /\ largeAllocated' = largeAllocated \ {object}
          /\ largeFree' = Added(largeFree, XLargeRange(object.begin, object.size, object.size))
    /\ ThenRunScavenger(t)
    /\ UNCHANGED <<smallPage, chunkTaken, isAllocatingPages, committedPages, committedUnits>>

ShrinkLarge(t) ==
    /\ CanEnter(t)
    /\ \E object \in largeAllocated : \E newSize \in 1..(object.size - 1) :
          SplitAndAllocate(largeFree, largeAllocated \ {object},
                           XLargeRange(object.begin, object.size, object.size), 1, newSize)
    /\ ThenRunScavenger(t)
    /\ UNCHANGED <<smallPage, chunkTaken, committedPages>>

\* The operation returns after run().
ReleaseHeap(t) ==
    /\ runPc[t] = "returned"
    /\ RunGoto(t, "none")
    /\ heapMutex' = Null
    /\ UNCHANGED <<state, conditionMutex, taskPc, constructed, scavVars, smallPage, largeFree,
                   largeAllocated, chunkTaken, isAllocatingPages, committedPages, committedUnits>>

-----------------------------------------------------------------------------
(* scavenge(), on the task's thread or, without sleeping, in api::scavenge(). *)

StartScavenge(s) ==
    /\ \/ s = TaskThread /\ taskPc = "function" /\ scavPc[s] = "none"
       \/ s \in Callers /\ CanEnter(s)
    /\ scavPc' = [scavPc EXCEPT ![s] = "enter"]
    /\ phase' = [phase EXCEPT ![s] = "small"]
    /\ UNCHANGED <<asyncVars, heapVars, flight>>

\* The section begins: what was taken comes back without physical memory.
PagesBack(s) ==
    IF flight[s].kind = "page" THEN [smallPage EXCEPT ![flight[s].what] = "vm"] ELSE smallPage
RangesBack(s) ==
    IF flight[s].kind = "range" THEN Added(largeFree, [flight[s].what EXCEPT !.phys = 0]) ELSE largeFree

InSection(s) == scavPc[s] \in {"enter", "relock", "paused"} /\ heapMutex = Null

\* waitUntilFalse() lets threads that need pages go first.
Pause(s) ==
    /\ InSection(s) /\ isAllocatingPages /\ s = TaskThread
    /\ isAllocatingPages' = FALSE
    /\ smallPage' = PagesBack(s) /\ largeFree' = RangesBack(s)
    /\ scavPc' = [scavPc EXCEPT ![s] = "paused"]
    /\ flight' = [flight EXCEPT ![s] = NoFlight]
    /\ UNCHANGED <<asyncVars, heapMutex, largeAllocated, chunkTaken, committedPages, committedUnits, phase>>

\* The scavenger goes on; a zero sleep only resets the flag.
GoesOn(s) ==
    /\ InSection(s) /\ (isAllocatingPages => s # TaskThread)
    /\ isAllocatingPages' = FALSE

FreePages(s) == {p \in SmallPages : PagesBack(s)[p] = "free"}
PhysicalRanges(s) == {r \in RangesBack(s) : r.phys # 0}

Take(s, kind, what) ==
    /\ flight' = [flight EXCEPT ![s] = [kind |-> kind, what |-> what]]
    /\ scavPc' = [scavPc EXCEPT ![s] = "decommit"]

\* scavengeSmallPages(), scavengeLargeObjects(): take one off the list and unlock
TakeSmallPage(s) ==
    /\ GoesOn(s) /\ phase[s] = "small"
    /\ \E p \in FreePages(s) :
          Take(s, "page", p) /\ smallPage' = [PagesBack(s) EXCEPT ![p] = "flight"]
    /\ largeFree' = RangesBack(s)
    /\ UNCHANGED <<asyncVars, heapMutex, largeAllocated, chunkTaken, committedPages, committedUnits, phase>>

\* Mutant of TakeLargeRange: the range stays in the list while its memory is given back.
TakeLargeRangeInPlace(s) ==
    /\ GoesOn(s) /\ (phase[s] = "small" => FreePages(s) = {})
    /\ phase' = [phase EXCEPT ![s] = "large"]
    /\ \E r \in PhysicalRanges(s) :
          Take(s, "range", r) /\ largeFree' = RangesBack(s)
    /\ smallPage' = PagesBack(s)
    /\ UNCHANGED <<asyncVars, heapMutex, largeAllocated, chunkTaken, committedPages, committedUnits>>

TakeLargeRange(s) ==
    /\ GoesOn(s) /\ (phase[s] = "small" => FreePages(s) = {})
    /\ phase' = [phase EXCEPT ![s] = "large"]
    /\ \E r \in PhysicalRanges(s) :
          Take(s, "range", r) /\ largeFree' = RangesBack(s) \ {r}
    /\ smallPage' = PagesBack(s)
    /\ UNCHANGED <<asyncVars, heapMutex, largeAllocated, chunkTaken, committedPages, committedUnits>>

\* vmDeallocatePhysicalPagesSloppy(), with the mutex released
Decommit(s) ==
    /\ scavPc[s] = "decommit"
    /\ scavPc' = [scavPc EXCEPT ![s] = "relock"]
    /\ \/ /\ flight[s].kind = "page"
          /\ committedPages' = committedPages \ {flight[s].what} /\ UNCHANGED committedUnits
       \/ /\ flight[s].kind = "range"
          /\ committedUnits' = committedUnits \ UnitsOf(flight[s].what) /\ UNCHANGED committedPages
    /\ UNCHANGED <<asyncVars, heapMutex, smallPage, largeFree, largeAllocated, chunkTaken,
                   isAllocatingPages, phase, flight>>

\* Nothing is left: the task's thread sleeps once more.
FinishScavenge(s) ==
    /\ GoesOn(s)
    /\ phase[s] = "small" => FreePages(s) = {}
    /\ PhysicalRanges(s) = {}
    /\ smallPage' = PagesBack(s) /\ largeFree' = RangesBack(s)
    /\ flight' = [flight EXCEPT ![s] = NoFlight]
    /\ scavPc' = [scavPc EXCEPT ![s] = IF s = TaskThread THEN "rest" ELSE "none"]
    /\ phase' = [phase EXCEPT ![s] = "small"]
    /\ UNCHANGED <<asyncVars, heapMutex, largeAllocated, chunkTaken, committedPages, committedUnits>>

\* The last sleep takes the mutex once more, and the function returns.
FunctionReturns ==
    /\ scavPc[TaskThread] = "rest" /\ heapMutex = Null
    /\ scavPc' = [scavPc EXCEPT ![TaskThread] = "none"]
    /\ TaskGoto("running?")
    /\ UNCHANGED <<state, conditionMutex, runPc, constructed, heapVars, phase, flight>>

-----------------------------------------------------------------------------

Operation(t) ==
    \/ AllocateSmallPage(t) \/ DeallocateSmallPage(t)
    \/ AllocateLarge(t) \/ DeallocateLarge(t) \/ ShrinkLarge(t)

ScavengeStep(s) ==
    Pause(s) \/ TakeSmallPage(s) \/ TakeLargeRange(s) \/ Decommit(s) \/ FinishScavenge(s)

\* The steps of AsyncTask leave the heap alone.
AsyncStep(a) == a /\ UNCHANGED <<heapVars, scavVars>>

TaskThreadStep ==
    AsyncStep(TaskStep) \/ StartScavenge(TaskThread) \/ ScavengeStep(TaskThread) \/ FunctionReturns

Next ==
    \/ AsyncStep(FinishConstruction) \/ AsyncStep(SpuriousWakeup) \/ TaskThreadStep
    \/ \E t \in Callers : \/ Operation(t) \/ StartScavenge(t) \/ ScavengeStep(t)
                          \/ AsyncStep(RunStep(t)) \/ ReleaseHeap(t)

Spec == Init /\ [][Next]_vars

\* The task's thread and callers in run() are scheduled, and a weak compare-exchange
\* that could succeed does not fail for ever.  Nothing is assumed of the contention
\* for the heap's mutex: allocating threads may keep the scavenger waiting.
FairSpec ==
    /\ Spec
    /\ WF_vars(AsyncStep(TaskStep))
    /\ SF_vars(AsyncStep(TakeRequest /\ taskPc' = "function"))
    /\ \A t \in Callers : WF_vars(AsyncStep(RunStep(t)))

-----------------------------------------------------------------------------
(* Properties *)

FreeRange == [begin : 0..Units, size : 1..Units, phys : 0..Units]

TypeOK ==
    /\ AsyncTypeOK
    /\ heapMutex \in Callers \cup {Null}
    /\ smallPage \in [SmallPages -> {"vm", "free", "used", "flight"}]
    /\ largeFree \subseteq FreeRange
    /\ largeAllocated \subseteq [begin : 0..Units, size : 1..Units]
    /\ chunkTaken \in BOOLEAN /\ isAllocatingPages \in BOOLEAN
    /\ committedPages \subseteq SmallPages /\ committedUnits \subseteq 0..(Units - 1)
    /\ scavPc \in [Scavengers -> {"none", "enter", "decommit", "relock", "paused", "rest"}]
    /\ phase \in [Scavengers -> {"small", "large"}]
    /\ flight \in [Scavengers ->
          {NoFlight} \cup [kind : {"page"}, what : SmallPages] \cup [kind : {"range"}, what : FreeRange]]

\* Memory the program may write to is backed: no system call of a scavenger, made
\* without the mutex, hits a page or range that has been handed out meanwhile.
AllocatedIsCommitted ==
    /\ \A p \in SmallPages : smallPage[p] = "used" => p \in committedPages
    /\ \A object \in largeAllocated : UnitsOf(object) \subseteq committedUnits

\* What a free range counts as physical is backed: the allocator will not ask for it.
PhysicalIsCommitted ==
    /\ \A p \in SmallPages : smallPage[p] = "free" => p \in committedPages
    /\ \A r \in largeFree : r.begin .. (r.begin + r.phys - 1) \subseteq committedUnits

\* Both: the heap's splits and merges of physical sizes never take memory that has been
\* returned to the system for memory that is backed, handed out or not.
MemoryIsBacked == AllocatedIsCommitted /\ PhysicalIsCommitted

\* Every unit of the chunk is in one allocated object, one free range, or one range a
\* scavenger holds: splits, merges and scavenges neither lose nor double memory.
MemoryOwnedOnce ==
    chunkTaken =>
        \A n \in 0..(Units - 1) :
            Cardinality({o \in largeAllocated : n \in UnitsOf(o)})
              + Cardinality({r \in largeFree : n \in UnitsOf(r)})
              + Cardinality({s \in Scavengers : /\ flight[s].kind = "range"
                                                /\ n \in UnitsOf(flight[s].what)}) = 1

\* The scavenger does not sleep over free physical memory: unless the thread that freed
\* it is still in run(), it has been scavenged or a scavenge is due.
NothingLeftBehind ==
    state = "Sleeping" /\ heapMutex = Null =>
        /\ \A p \in SmallPages : smallPage[p] # "free"
        /\ \A r \in largeFree : r.phys = 0
=============================================================================
