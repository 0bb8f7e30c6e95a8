-------------------------- MODULE BmallocHeapProofs --------------------------
(***************************************************************************)
(* Proofs about the page management of bmalloc::Heap, for any number of     *)
(* threads, of small pages and of units in the chunk, any alignments and    *)
(* any waste factor.                                                        *)
(***************************************************************************)
EXTENDS BmallocHeap, FiniteSetTheorems, TLAPS

-----------------------------------------------------------------------------
(* Ranges.  A piece may be empty, a range in the heap's lists may not.      *)

Piece(r) ==
    /\ r \in [begin : Nat, size : Nat, phys : Nat]
    /\ r.phys <= r.size /\ r.begin + r.size <= Units
WellFormed(r) == Piece(r) /\ r.size # 0

PhysOf(r) == r.begin .. (r.begin + r.phys - 1)

\* What the ranges of a list hold, and what of it they count as physical.
Covered(S) == {n \in 0..(Units - 1) : \E r \in S : n \in UnitsOf(r)}
Physical(S) == {n \in 0..(Units - 1) : \E r \in S : n \in PhysOf(r)}

Apart(S) == \A r, q \in S : r # q => UnitsOf(r) \cap UnitsOf(q) = {}

LEMMA PieceUnits ==
    ASSUME NEW r, Piece(r)
    PROVE  /\ UnitsOf(r) \subseteq 0..(Units - 1)
           /\ PhysOf(r) \subseteq UnitsOf(r)
           /\ r.size # 0 => r.begin \in UnitsOf(r)
           /\ r.size = 0 => UnitsOf(r) = {}
           /\ r.phys = 0 <=> PhysOf(r) = {}
<1> USE HeapAssumption DEF Piece, UnitsOf, PhysOf
<1>1. UnitsOf(r) \subseteq 0..(Units - 1) /\ PhysOf(r) \subseteq UnitsOf(r)
  OBVIOUS
<1>2. (r.size # 0 => r.begin \in UnitsOf(r)) /\ (r.size = 0 => UnitsOf(r) = {})
  OBVIOUS
<1>3. r.phys # 0 => r.begin \in PhysOf(r)
  OBVIOUS
<1>4. r.phys = 0 => PhysOf(r) = {}
  OBVIOUS
<1>5. QED
  BY <1>1, <1>2, <1>3, <1>4

(* merge() of neighbours counts nothing as physical that neither of them    *)
(* did.                                                                     *)
LEMMA MergeKeeps ==
    ASSUME NEW l, NEW r, Piece(l), Piece(r), End(l) = r.begin
    PROVE  /\ Piece(Merge(l, r)) /\ Merge(l, r).size = l.size + r.size
           /\ Merge(l, r).begin = l.begin /\ End(Merge(l, r)) = End(r)
           /\ UnitsOf(Merge(l, r)) = UnitsOf(l) \cup UnitsOf(r)
           /\ PhysOf(Merge(l, r)) \subseteq PhysOf(l) \cup PhysOf(r)
<1> USE HeapAssumption DEF Piece, UnitsOf, PhysOf, Merge, XLargeRange, End
<1>1. CASE l.size = l.phys
  BY <1>1
<1>2. CASE l.size # l.phys
  BY <1>2
<1>3. QED
  BY <1>1, <1>2

(* split() divides the units of a range, and its physical prefix.           *)
LEMMA SplitKeeps ==
    ASSUME NEW r, Piece(r), NEW k \in Nat, k <= r.size
    PROVE  /\ Piece(SplitLeft(r, k)) /\ Piece(SplitRight(r, k))
           /\ SplitLeft(r, k).size = k /\ SplitRight(r, k).size = r.size - k
           /\ SplitRight(r, k).begin = r.begin + k
           /\ UnitsOf(SplitLeft(r, k)) \cup UnitsOf(SplitRight(r, k)) = UnitsOf(r)
           /\ UnitsOf(SplitLeft(r, k)) \cap UnitsOf(SplitRight(r, k)) = {}
           /\ PhysOf(SplitLeft(r, k)) \subseteq PhysOf(r)
           /\ PhysOf(SplitRight(r, k)) \subseteq PhysOf(r)
<1> USE HeapAssumption DEF Piece, UnitsOf, PhysOf, SplitLeft, SplitRight, XLargeRange
<1>1. CASE k <= r.phys
  BY <1>1
<1>2. CASE ~(k <= r.phys)
  BY <1>2
<1>3. QED
  BY <1>1, <1>2

(* XLargeMap::add(): a list of ranges that do not touch each other's units  *)
(* stays one when a range apart from all of them is added.                  *)
List(S) == (\A r \in S : WellFormed(r)) /\ Apart(S)

LEMMA AddedKeeps ==
    ASSUME NEW free, List(free), NEW r, WellFormed(r), UnitsOf(r) \cap Covered(free) = {}
    PROVE  /\ List(Added(free, r))
           /\ Covered(Added(free, r)) = Covered(free) \cup UnitsOf(r)
           /\ Physical(Added(free, r)) \subseteq Physical(free) \cup PhysOf(r)
           /\ Added(free, r) # {}
<1> DEFINE lefts  == {f \in free : End(f) = r.begin}
           rights == {f \in free : f.begin = End(r)}
           wide   == IF lefts = {} THEN r ELSE Merge(CHOOSE f \in lefts : TRUE, r)
           wider  == IF rights = {} THEN wide ELSE Merge(wide, CHOOSE f \in rights : TRUE)
<1>1. Added(free, r) = (free \ (lefts \cup rights)) \cup {wider}
  BY DEF Added
<1>2. ASSUME NEW f \in lefts, NEW g \in lefts PROVE f = g
  <2>1. /\ f \in free /\ g \in free /\ WellFormed(f) /\ WellFormed(g)
        /\ r.begin - 1 \in UnitsOf(f) /\ r.begin - 1 \in UnitsOf(g)
    BY DEF List, WellFormed, Piece, End, UnitsOf
  <2>2. QED
    BY <2>1 DEF List, Apart
<1>3. ASSUME NEW f \in rights, NEW g \in rights PROVE f = g
  <2>1. /\ f \in free /\ g \in free /\ WellFormed(f) /\ WellFormed(g)
        /\ End(r) \in UnitsOf(f) /\ End(r) \in UnitsOf(g)
    BY DEF List, WellFormed, Piece, End, UnitsOf
  <2>2. QED
    BY <2>1 DEF List, Apart
<1>4. /\ Piece(wide) /\ wide.size # 0 /\ End(wide) = End(r)
      /\ UnitsOf(wide) = UnitsOf(r) \cup Covered(lefts)
      /\ PhysOf(wide) \subseteq PhysOf(r) \cup Physical(lefts)
  <2>1. CASE lefts = {}
    <3>1. wide = r
      BY <2>1
    <3>2. Covered(lefts) = {} /\ Physical(lefts) = {}
      BY <2>1 DEF Covered, Physical
    <3>3. QED
      BY <3>1, <3>2 DEF WellFormed
  <2>2. CASE lefts # {}
    <3>1. PICK l \in lefts : wide = Merge(l, r)
      BY <2>2
    <3>2. lefts = {l} /\ WellFormed(l) /\ End(l) = r.begin
      BY <1>2 DEF List
    <3> HIDE DEF lefts, wide
    <3>3. UnitsOf(l) \subseteq 0..(Units - 1) /\ PhysOf(l) \subseteq 0..(Units - 1)
      BY <3>2, PieceUnits DEF WellFormed
    <3>4. Covered(lefts) = UnitsOf(l) /\ Physical(lefts) = PhysOf(l)
      BY <3>2, <3>3 DEF Covered, Physical
    <3>5. wide.size # 0
      BY <3>1, <3>2, MergeKeeps DEF WellFormed, Piece
    <3>6. QED
      BY <3>1, <3>2, <3>4, <3>5, MergeKeeps DEF WellFormed
  <2>3. QED
    BY <2>1, <2>2
<1>5. /\ Piece(wider) /\ wider.size # 0
      /\ UnitsOf(wider) = UnitsOf(r) \cup Covered(lefts) \cup Covered(rights)
      /\ PhysOf(wider) \subseteq PhysOf(r) \cup Physical(lefts) \cup Physical(rights)
  <2> HIDE DEF wide, lefts
  <2>1. CASE rights = {}
    <3>1. wider = wide
      BY <2>1
    <3>2. Covered(rights) = {} /\ Physical(rights) = {}
      BY <2>1 DEF Covered, Physical
    <3>3. QED
      BY <1>4, <3>1, <3>2
  <2>2. CASE rights # {}
    <3>1. PICK q \in rights : wider = Merge(wide, q)
      BY <2>2
    <3>2. rights = {q} /\ WellFormed(q) /\ End(r) = q.begin
      BY <1>3 DEF List
    <3> HIDE DEF rights, wider
    <3>3. UnitsOf(q) \subseteq 0..(Units - 1) /\ PhysOf(q) \subseteq 0..(Units - 1)
      BY <3>2, PieceUnits DEF WellFormed
    <3>4. Covered(rights) = UnitsOf(q) /\ Physical(rights) = PhysOf(q)
      BY <3>2, <3>3 DEF Covered, Physical
    <3>5. wider.size # 0
      BY <1>4, <3>1, <3>2, MergeKeeps DEF WellFormed, Piece
    <3>6. QED
      BY <1>4, <3>1, <3>2, <3>4, <3>5, MergeKeeps DEF WellFormed
  <2>3. QED
    BY <2>1, <2>2
<1> DEFINE rest == free \ (lefts \cup rights)
<1>6. /\ rest \subseteq free /\ lefts \subseteq free /\ rights \subseteq free
      /\ rest \cap lefts = {} /\ rest \cap rights = {} /\ free = rest \cup lefts \cup rights
      /\ Added(free, r) = rest \cup {wider}
  BY <1>1
<1>7. UnitsOf(wider) \subseteq 0..(Units - 1) /\ PhysOf(wider) \subseteq 0..(Units - 1)
  BY <1>5, PieceUnits
<1> HIDE DEF lefts, rights, wide, wider, rest
<1>8. ASSUME NEW f \in rest PROVE UnitsOf(f) \cap UnitsOf(wider) = {}
  <2>1. f \in free /\ UnitsOf(f) \subseteq 0..(Units - 1)
    BY <1>6, PieceUnits DEF List, WellFormed
  <2>2. UnitsOf(f) \cap UnitsOf(r) = {}
    BY <2>1 DEF Covered
  <2>3. UnitsOf(f) \cap Covered(lefts) = {}
    BY <1>6, <2>1 DEF Covered, List, Apart
  <2>4. UnitsOf(f) \cap Covered(rights) = {}
    BY <1>6, <2>1 DEF Covered, List, Apart
  <2>5. QED
    BY <1>5, <2>2, <2>3, <2>4
<1>9. List(Added(free, r))
  <2>1. \A f \in rest \cup {wider} : WellFormed(f)
    BY <1>5, <1>6 DEF List, WellFormed
  <2>2. Apart(rest \cup {wider})
    BY <1>6, <1>8 DEF List, Apart
  <2>3. QED
    BY <1>6, <2>1, <2>2 DEF List
<1>10. Covered(Added(free, r)) = Covered(rest) \cup UnitsOf(wider)
  BY <1>6, <1>7 DEF Covered
<1>11. Physical(Added(free, r)) = Physical(rest) \cup PhysOf(wider)
  BY <1>6, <1>7 DEF Physical
<1>12. Covered(free) = Covered(rest) \cup Covered(lefts) \cup Covered(rights)
  BY <1>6 DEF Covered
<1>13. Physical(free) = Physical(rest) \cup Physical(lefts) \cup Physical(rights)
  BY <1>6 DEF Physical
<1>14. QED
  BY <1>5, <1>6, <1>9, <1>10, <1>11, <1>12, <1>13

LEMMA AddedAllKeeps ==
    ASSUME NEW free, List(free), NEW p, Piece(p), NEW q, Piece(q),
           UnitsOf(p) \cap Covered(free) = {}, UnitsOf(q) \cap Covered(free) = {},
           UnitsOf(p) \cap UnitsOf(q) = {}
    PROVE  /\ List(AddedAll(free, p, q))
           /\ Covered(AddedAll(free, p, q)) = Covered(free) \cup UnitsOf(p) \cup UnitsOf(q)
           /\ Physical(AddedAll(free, p, q)) \subseteq Physical(free) \cup PhysOf(p) \cup PhysOf(q)
<1> DEFINE withPrev == IF p.size = 0 THEN free ELSE Added(free, p)
<1>1. AddedAll(free, p, q) = IF q.size = 0 THEN withPrev ELSE Added(withPrev, q)
  BY DEF AddedAll
<1>2. /\ List(withPrev) /\ Covered(withPrev) = Covered(free) \cup UnitsOf(p)
      /\ Physical(withPrev) \subseteq Physical(free) \cup PhysOf(p)
  <2>1. CASE p.size = 0
    BY <2>1, PieceUnits
  <2>2. CASE p.size # 0
    BY <2>2, AddedKeeps DEF WellFormed
  <2>3. QED
    BY <2>1, <2>2
<1> HIDE DEF withPrev
<1>3. CASE q.size = 0
  BY <1>1, <1>2, <1>3, PieceUnits
<1>4. CASE q.size # 0
  BY <1>1, <1>2, <1>4, AddedKeeps DEF WellFormed
<1>5. QED
  BY <1>3, <1>4

(* Rounding up to an alignment.                                             *)
LEMMA AlignedFacts ==
    ASSUME NEW b \in Nat, NEW a \in Nat \ {0}
    PROVE  /\ Aligned(b, a) \in Nat /\ b <= Aligned(b, a)
           /\ b % a = 0 => Aligned(b, a) = b
<1> DEFINE q == (b + a - 1) \div a
           m == (b + a - 1) % a
<1>1. q \in Int /\ m \in 0..(a - 1) /\ b + a - 1 = a * q + m
  OBVIOUS
<1>2. Aligned(b, a) = q * a
  BY DEF Aligned
<1> HIDE DEF q, m
<1>3. q * a = b + a - 1 - m
  BY <1>1
<1>4. q * a \in Nat /\ b <= q * a
  BY <1>1, <1>3
<1>5. ASSUME b % a = 0 PROVE q * a = b
  <2>1. PICK k \in Int : b = a * k
    BY <1>5
  <2>2. a * (q - k) = a - 1 - m
    BY <1>1, <2>1
  <2>3. a * (q - k) < a /\ a * (q - k) >= 0
    BY <1>1, <2>2
  <2>4. q - k < 1 /\ q - k > -1
    BY <1>1, <2>3
  <2>5. q = k
    BY <1>1, <2>4
  <2>6. QED
    BY <2>1, <2>5
<1>6. QED
  BY <1>2, <1>4, <1>5

(* remove() finds its lowest candidate.                                     *)
LEMMA LowestIsMember ==
    ASSUME NEW S, S # {}, \A r \in S : r.begin \in Nat
    PROVE  Lowest(S) \in S
<1> DEFINE B == {r.begin : r \in S}
<1>1. B \subseteq Nat /\ B # {}
  OBVIOUS
<1>2. PICK b \in B : \A c \in B : ~(<<c, b>> \in OpToRel(<, Nat))
  BY <1>1, WFMin, NatLessThanWellFounded
<1>3. \A c \in B : b <= c
  <2>1. ASSUME NEW c \in Nat, NEW d \in Nat, c < d PROVE <<c, d>> \in OpToRel(<, Nat)
    <3>1. <<c, d>> \in Nat \X Nat /\ <<c, d>>[1] < <<c, d>>[2]
      BY <2>1
    <3>2. QED
      BY <3>1 DEF OpToRel
  <2>2. \A c \in B : ~(c < b)
    BY <1>1, <1>2, <2>1, Zenon
  <2>3. b \in Nat /\ \A c \in B : c \in Nat
    BY <1>1
  <2> HIDE DEF B
  <2>4. QED
    BY <2>2, <2>3
<1>4. PICK f \in S : f.begin = b
  BY <1>2
<1>5. \A g \in S : f.begin <= g.begin
  BY <1>3, <1>4
<1>6. QED
  BY <1>5 DEF Lowest

(* splitAndAllocate() divides the range into a prefix, the object, and what *)
(* is left over, and asks the system for exactly the part of the object     *)
(* that is not physical.                                                    *)
LEMMA SplitPieces ==
    ASSUME NEW r, WellFormed(r), NEW a \in Nat \ {0}, NEW size \in Nat \ {0},
           Aligned(r.begin, a) + size <= End(r),
           NEW al, al = AfterPrefix(r, a), NEW o, o = Allocated(al, size),
           NEW p, p = PrefixOf(r, a), NEW q, q = Leftover(al, size)
    PROVE  /\ Piece(p) /\ Piece(q) /\ WellFormed(o)
           /\ UnitsOf(r) = UnitsOf(p) \cup UnitsOf(o) \cup UnitsOf(q)
           /\ UnitsOf(p) \cap UnitsOf(o) = {} /\ UnitsOf(p) \cap UnitsOf(q) = {}
           /\ UnitsOf(o) \cap UnitsOf(q) = {}
           /\ PhysOf(p) \subseteq PhysOf(r) /\ PhysOf(q) \subseteq PhysOf(r)
           /\ PhysOf(o) \subseteq PhysOf(r)
           /\ (o.begin + o.phys) .. (End(o) - 1) = UnitsOf(o) \ PhysOf(o)
<1> USE HeapAssumption
<1>1. /\ Piece(r) /\ r.begin \in Nat /\ r.size \in Nat /\ End(r) = r.begin + r.size
      /\ Aligned(r.begin, a) \in Nat /\ r.begin <= Aligned(r.begin, a)
      /\ r.begin % a = 0 => Aligned(r.begin, a) = r.begin
  BY AlignedFacts DEF WellFormed, Piece, End
<1>2. PICK k \in Nat : k = Aligned(r.begin, a) - r.begin
  BY <1>1
<1>3. k + size <= r.size /\ k <= r.size /\ (r.begin % a = 0 => k = 0)
  BY <1>1, <1>2
<1>4. p = SplitLeft(r, k) /\ (k # 0 => al = SplitRight(r, k))
  BY <1>2, <1>3 DEF PrefixOf, AfterPrefix
<1>5. /\ Piece(p) /\ p.size = k /\ PhysOf(p) \subseteq PhysOf(r)
      /\ Piece(al) /\ size <= al.size /\ UnitsOf(p) \cup UnitsOf(al) = UnitsOf(r)
      /\ UnitsOf(p) \cap UnitsOf(al) = {} /\ PhysOf(al) \subseteq PhysOf(r)
  <2>1. /\ Piece(p) /\ p.size = k /\ PhysOf(p) \subseteq PhysOf(r)
        /\ Piece(SplitRight(r, k)) /\ SplitRight(r, k).size = r.size - k
        /\ UnitsOf(p) \cup UnitsOf(SplitRight(r, k)) = UnitsOf(r)
        /\ UnitsOf(p) \cap UnitsOf(SplitRight(r, k)) = {} /\ PhysOf(SplitRight(r, k)) \subseteq PhysOf(r)
    BY <1>1, <1>3, <1>4, SplitKeeps
  <2>2. CASE al = SplitRight(r, k)
    BY <1>1, <1>3, <2>1, <2>2
  <2>3. CASE al # SplitRight(r, k)
    <3>1. k = 0 /\ al = r /\ UnitsOf(p) = {}
      BY <1>2, <1>4, <2>1, <2>3, PieceUnits DEF AfterPrefix
    <3>2. QED
      BY <1>1, <1>3, <2>1, <3>1
  <2>4. QED
    BY <2>2, <2>3
<1>6. /\ Piece(q) /\ WellFormed(o) /\ UnitsOf(o) \cup UnitsOf(q) = UnitsOf(al)
      /\ UnitsOf(o) \cap UnitsOf(q) = {}
      /\ PhysOf(q) \subseteq PhysOf(al) /\ PhysOf(o) \subseteq PhysOf(al)
  <2>1. CASE Wasteful(al, size)
    <3>1. o = SplitLeft(al, size) /\ q = SplitRight(al, size)
      BY <2>1 DEF Allocated, Leftover
    <3>2. QED
      BY <1>5, <3>1, SplitKeeps DEF WellFormed
  <2>2. CASE ~Wasteful(al, size)
    <3>1. o = al /\ q = XLargeRange(End(al), 0, 0)
      BY <2>2 DEF Allocated, Leftover
    <3>2. WellFormed(o)
      BY <1>5, <3>1 DEF WellFormed, Piece
    <3>3. Piece(q) /\ q.size = 0 /\ q.phys = 0
      BY <1>5, <3>1 DEF Piece, XLargeRange, End
    <3>4. UnitsOf(q) = {} /\ PhysOf(q) = {}
      BY <3>3, PieceUnits
    <3>5. QED
      BY <3>1, <3>2, <3>3, <3>4
  <2>3. QED
    BY <2>1, <2>2
<1>7. (o.begin + o.phys) .. (End(o) - 1) = UnitsOf(o) \ PhysOf(o)
  BY <1>6 DEF WellFormed, Piece, UnitsOf, PhysOf, End
<1>8. QED
  BY <1>5, <1>6, <1>7

-----------------------------------------------------------------------------
(* The inductive invariant                                                  *)

Objects(S) ==
    /\ \A o \in S : o \in [begin : Nat, size : Nat \ {0}] /\ o.begin + o.size <= Units
    /\ Apart(S)

\* The units a scavenger has taken off the heap's list.
Held(s) == IF flight[s].kind = "range" THEN UnitsOf(flight[s].what) ELSE {}

(* Large memory: the free list, the allocated objects and what each         *)
(* scavenger holds share the chunk, and what is allocated or counted as     *)
(* physical is backed.                                                      *)
LargeInv ==
    /\ List(largeFree) /\ Objects(largeAllocated)
    /\ Covered(largeFree) \cap Covered(largeAllocated) = {}
    /\ Physical(largeFree) \subseteq committedUnits /\ Covered(largeAllocated) \subseteq committedUnits
    /\ chunkTaken \in BOOLEAN
    /\ ~chunkTaken => largeFree = {} /\ largeAllocated = {}

HeldInv ==
    \A s \in Scavengers :
        /\ flight[s].kind = "range" => WellFormed(flight[s].what) /\ chunkTaken
        /\ Held(s) \cap (Covered(largeFree) \cup Covered(largeAllocated)) = {}
        /\ \A u \in Scavengers : u # s => Held(u) \cap Held(s) = {}

NothingLost ==
    chunkTaken =>
        \A n \in 0..(Units - 1) :
            n \in Covered(largeFree) \cup Covered(largeAllocated) \/ \E s \in Scavengers : n \in Held(s)

(* Small pages: a scavenger's page is in no list, and only its own.         *)
PageInv ==
    /\ smallPage \in [SmallPages -> {"vm", "free", "used", "flight"}]
    /\ \A p \in SmallPages : smallPage[p] \in {"used", "free"} => p \in committedPages
    /\ \A s \in Scavengers : flight[s].kind = "page" =>
          /\ flight[s].what \in SmallPages /\ smallPage[flight[s].what] = "flight"
          /\ \A u \in Scavengers : u # s /\ flight[u].kind = "page" => flight[u].what # flight[s].what

\* Somebody who has freed memory has not made its request yet.
Requesting == \E t \in Callers : runPc[t] \in {"load", "exchange"}

(* Free physical memory has been reported, or its scavenge is going on.     *)
DueInv ==
    /\ \A t \in Callers : runPc[t] # "none" => heapMutex = t
    /\ taskPc # "function" => scavPc[TaskThread] = "none"
    /\ scavPc[TaskThread] \in {"none", "rest"} => phase[TaskThread] = "small"
    /\ state # "RunRequested" /\ ~Requesting =>
         /\ (\E p \in SmallPages : smallPage[p] = "free") =>
               taskPc = "function" /\ scavPc[TaskThread] # "rest" /\ phase[TaskThread] = "small"
         /\ Physical(largeFree) # {} => taskPc = "function" /\ scavPc[TaskThread] # "rest"
    /\ state = "Sleeping" => taskPc # "function"

LocalTypes ==
    /\ runPc \in [Callers -> {"none", "load", "exchange", "lock", "notify", "returned"}]
    /\ scavPc \in [Scavengers -> {"none", "enter", "decommit", "relock", "paused", "rest"}]
    /\ phase \in [Scavengers -> {"small", "large"}]
    /\ DOMAIN flight = Scavengers /\ flight = [s \in Scavengers |-> flight[s]]

Inv == LargeInv /\ HeldInv /\ NothingLost /\ PageInv /\ DueInv /\ LocalTypes

LEMMA InitInv == Init => Inv
<1> SUFFICES ASSUME Init PROVE Inv
  OBVIOUS
<1> USE HeapAssumption, AsyncTaskAssumption DEF Init, AsyncTaskInit, NoFlight, Scavengers
<1>1. Covered({}) = {} /\ Physical({}) = {} /\ List({}) /\ Objects({})
  BY DEF Covered, Physical, List, Objects, Apart
<1>2. LargeInv /\ HeldInv /\ NothingLost
  BY <1>1 DEF LargeInv, HeldInv, NothingLost, Held
<1>3. PageInv
  BY DEF PageInv
<1>4. DueInv
  BY <1>1 DEF DueInv, Requesting, InitialState
<1>5. LocalTypes
  BY DEF LocalTypes
<1>6. QED
  BY <1>2, <1>3, <1>4, <1>5 DEF Inv

-----------------------------------------------------------------------------
(* The heap's lists                                                         *)

LEMMA ObjectsCovered ==
    ASSUME NEW S, Objects(S), NEW o \in S
    PROVE  /\ UnitsOf(o) \subseteq Covered(S)
           /\ Objects(S \ {o}) /\ Covered(S \ {o}) = Covered(S) \ UnitsOf(o)
           /\ WellFormed(XLargeRange(o.begin, o.size, o.size))
           /\ UnitsOf(XLargeRange(o.begin, o.size, o.size)) = UnitsOf(o)
           /\ PhysOf(XLargeRange(o.begin, o.size, o.size)) = UnitsOf(o)
<1> USE HeapAssumption
<1>1. UnitsOf(o) \subseteq 0..(Units - 1)
  BY DEF Objects, UnitsOf
<1>2. UnitsOf(o) \subseteq Covered(S)
  BY <1>1 DEF Covered
<1>3. Objects(S \ {o}) /\ Covered(S \ {o}) = Covered(S) \ UnitsOf(o)
  BY <1>1 DEF Objects, Covered, Apart
<1>4. /\ WellFormed(XLargeRange(o.begin, o.size, o.size))
      /\ UnitsOf(XLargeRange(o.begin, o.size, o.size)) = UnitsOf(o)
      /\ PhysOf(XLargeRange(o.begin, o.size, o.size)) = UnitsOf(o)
  BY DEF Objects, XLargeRange, WellFormed, Piece, UnitsOf, PhysOf
<1>5. QED
  BY <1>2, <1>3, <1>4

LEMMA ListCovered ==
    ASSUME NEW S, List(S), NEW r \in S
    PROVE  /\ WellFormed(r) /\ UnitsOf(r) \subseteq Covered(S) /\ PhysOf(r) \subseteq Physical(S)
           /\ List(S \ {r}) /\ Covered(S \ {r}) = Covered(S) \ UnitsOf(r)
           /\ Physical(S \ {r}) \subseteq Physical(S)
<1>1. WellFormed(r) /\ UnitsOf(r) \subseteq 0..(Units - 1) /\ PhysOf(r) \subseteq 0..(Units - 1)
  BY PieceUnits DEF List, WellFormed
<1>2. QED
  BY <1>1 DEF List, Covered, Physical, Apart

LEMMA SplitAndAllocateKeeps ==
    ASSUME NEW free, List(free), NEW allocated, Objects(allocated),
           NEW r, WellFormed(r), NEW a \in Nat \ {0}, NEW size \in Nat \ {0},
           Aligned(r.begin, a) + size <= End(r),
           Covered(free) \cap Covered(allocated) = {},
           UnitsOf(r) \cap (Covered(free) \cup Covered(allocated)) = {},
           PhysOf(r) \subseteq committedUnits, Covered(allocated) \subseteq committedUnits,
           SplitAndAllocate(free, allocated, r, a, size)
    PROVE  /\ List(largeFree') /\ Objects(largeAllocated')
           /\ Covered(largeFree') \cap Covered(largeAllocated') = {}
           /\ Covered(largeFree') \cup Covered(largeAllocated')
                = Covered(free) \cup Covered(allocated) \cup UnitsOf(r)
           /\ Physical(largeFree') \subseteq Physical(free) \cup PhysOf(r)
           /\ Covered(largeAllocated') \subseteq committedUnits'
           /\ committedUnits \subseteq committedUnits'
<1>1. PICK al : al = AfterPrefix(r, a)
  OBVIOUS
<1>2. PICK o : o = Allocated(al, size)
  OBVIOUS
<1>3. PICK p : p = PrefixOf(r, a)
  OBVIOUS
<1>4. PICK q : q = Leftover(al, size)
  OBVIOUS
<1>5. /\ committedUnits' = committedUnits \cup ((o.begin + o.phys) .. (End(o) - 1))
      /\ largeFree' = AddedAll(free, p, q)
      /\ largeAllocated' = allocated \cup {[begin |-> o.begin, size |-> o.size]}
  BY <1>1, <1>2, <1>3, <1>4 DEF SplitAndAllocate
<1>6. /\ Piece(p) /\ Piece(q) /\ WellFormed(o)
      /\ UnitsOf(r) = UnitsOf(p) \cup UnitsOf(o) \cup UnitsOf(q)
      /\ UnitsOf(p) \cap UnitsOf(o) = {} /\ UnitsOf(p) \cap UnitsOf(q) = {}
      /\ UnitsOf(o) \cap UnitsOf(q) = {}
      /\ PhysOf(p) \subseteq PhysOf(r) /\ PhysOf(q) \subseteq PhysOf(r) /\ PhysOf(o) \subseteq PhysOf(r)
      /\ (o.begin + o.phys) .. (End(o) - 1) = UnitsOf(o) \ PhysOf(o)
  BY <1>1, <1>2, <1>3, <1>4, SplitPieces
<1>7. /\ List(largeFree') /\ Covered(largeFree') = Covered(free) \cup UnitsOf(p) \cup UnitsOf(q)
      /\ Physical(largeFree') \subseteq Physical(free) \cup PhysOf(r)
  <2>1. UnitsOf(p) \cap Covered(free) = {} /\ UnitsOf(q) \cap Covered(free) = {}
    BY <1>6
  <2>2. QED
    BY <1>5, <1>6, <2>1, AddedAllKeeps
<1>8. PICK object : object = [begin |-> o.begin, size |-> o.size]
  OBVIOUS
<1>9. /\ object \in [begin : Nat, size : Nat \ {0}] /\ object.begin + object.size <= Units
      /\ UnitsOf(object) = UnitsOf(o) /\ UnitsOf(o) \subseteq 0..(Units - 1)
  BY <1>6, <1>8, PieceUnits DEF WellFormed, Piece, UnitsOf
<1>10. /\ largeAllocated' = allocated \cup {object}
       /\ Covered(largeAllocated') = Covered(allocated) \cup UnitsOf(o)
  BY <1>5, <1>8, <1>9 DEF Covered
<1>11. Objects(largeAllocated')
  <2>1. \A x \in allocated : UnitsOf(x) \cap UnitsOf(object) = {}
    BY <1>6, <1>9, ObjectsCovered
  <2>2. QED
    BY <1>9, <1>10, <2>1 DEF Objects, Apart
<1>12. UnitsOf(o) \subseteq committedUnits'
  BY <1>5, <1>6
<1>13. QED
  BY <1>5, <1>6, <1>7, <1>10, <1>11, <1>12

-----------------------------------------------------------------------------
(* Steps that leave the large memory, or the small pages, or both alone.    *)

LEMMA LargeUnchanged ==
    ASSUME Inv, UNCHANGED <<largeFree, largeAllocated, chunkTaken, committedUnits, flight>>
    PROVE  LargeInv' /\ HeldInv' /\ NothingLost'
<1>1. LargeInv'
  BY DEF Inv, LargeInv
<1>2. HeldInv' /\ NothingLost'
  BY DEF Inv, HeldInv, NothingLost, Held
<1>3. QED
  BY <1>1, <1>2

LEMMA PagesUnchanged ==
    ASSUME Inv, UNCHANGED <<smallPage, committedPages, flight>> PROVE PageInv'
BY DEF Inv, PageInv

(* The lists exchange units among themselves.                               *)
LEMMA ListsExchange ==
    ASSUME Inv, UNCHANGED <<flight, chunkTaken>>, chunkTaken, List(largeFree'), Objects(largeAllocated'),
           Covered(largeFree') \cap Covered(largeAllocated') = {},
           Covered(largeFree') \cup Covered(largeAllocated') = Covered(largeFree) \cup Covered(largeAllocated),
           Physical(largeFree') \subseteq committedUnits', Covered(largeAllocated') \subseteq committedUnits'
    PROVE  LargeInv' /\ HeldInv' /\ NothingLost'
<1>1. LargeInv'
  BY DEF Inv, LargeInv
<1>2. \A s \in Scavengers : Held(s)' = Held(s)
  BY DEF Held
<1>3. HeldInv'
  BY <1>2 DEF Inv, HeldInv
<1>4. NothingLost'
  BY <1>2 DEF Inv, NothingLost
<1>5. QED
  BY <1>1, <1>3, <1>4

\* An operation that ends in run() may leave free memory behind it.
LEMMA RequestInv ==
    ASSUME Inv, NEW t \in Callers, CanEnter(t), ThenRunScavenger(t) PROVE DueInv' /\ LocalTypes'
<1>1. /\ heapMutex' = t /\ runPc' = [runPc EXCEPT ![t] = "load"]
      /\ UNCHANGED <<state, taskPc, scavPc, phase, flight>> /\ heapMutex = Null
  BY DEF ThenRunScavenger, RunGoto, scavVars, CanEnter
<1>2. LocalTypes'
  BY <1>1 DEF Inv, LocalTypes
<1>3. \A u \in Callers : runPc[u] = "none"
  BY <1>1, AsyncTaskAssumption DEF Inv, DueInv
<1>4. Requesting'
  BY <1>1 DEF Requesting, Inv, LocalTypes
<1>5. DueInv'
  BY <1>1, <1>3, <1>4 DEF Inv, DueInv, LocalTypes
<1>6. QED
  BY <1>2, <1>5

\* A step of the heap that makes no memory free that was not leaves nothing to report.
LEMMA NothingFreed ==
    ASSUME Inv, UNCHANGED <<asyncVars, scavPc, phase, heapMutex>>,
           \A p \in SmallPages : smallPage'[p] = "free" => smallPage[p] = "free",
           Physical(largeFree') \subseteq Physical(largeFree)
    PROVE  DueInv'
BY DEF Inv, DueInv, Requesting, asyncVars

-----------------------------------------------------------------------------
(* The operations                                                           *)

LEMMA AllocateSmallPageInv ==
    ASSUME Inv, NEW t \in Callers, AllocateSmallPage(t) PROVE Inv'
<1>1. /\ UNCHANGED <<asyncVars, scavPc, phase, flight, heapMutex>>
      /\ UNCHANGED <<largeFree, largeAllocated, chunkTaken, committedUnits, runPc>>
  BY DEF AllocateSmallPage, scavVars, asyncVars
<1>2. LargeInv' /\ HeldInv' /\ NothingLost'
  BY <1>1, LargeUnchanged
<1>3. PICK p \in SmallPages :
         /\ smallPage' = [smallPage EXCEPT ![p] = "used"] /\ smallPage[p] \in {"free", "vm"}
         /\ committedPages' = committedPages \/ committedPages' = committedPages \cup {p}
         /\ smallPage[p] = "free" \/ committedPages' = committedPages \cup {p}
  BY DEF AllocateSmallPage
<1>4. PageInv'
  BY <1>1, <1>3 DEF Inv, PageInv
<1>5. DueInv'
  <2>1. \A q \in SmallPages : smallPage'[q] = "free" => smallPage[q] = "free"
    BY <1>3 DEF Inv, PageInv
  <2>2. QED
    BY <1>1, <2>1, NothingFreed
<1>6. LocalTypes'
  BY <1>1 DEF Inv, LocalTypes
<1>7. QED
  BY <1>2, <1>4, <1>5, <1>6 DEF Inv

LEMMA DeallocateSmallPageInv ==
    ASSUME Inv, NEW t \in Callers, DeallocateSmallPage(t) PROVE Inv'
<1>1. /\ CanEnter(t) /\ ThenRunScavenger(t) /\ UNCHANGED flight
      /\ UNCHANGED <<largeFree, largeAllocated, chunkTaken, committedPages, committedUnits>>
  BY DEF DeallocateSmallPage, ThenRunScavenger, scavVars
<1>2. LargeInv' /\ HeldInv' /\ NothingLost'
  BY <1>1, LargeUnchanged
<1>3. PageInv'
  BY <1>1 DEF DeallocateSmallPage, Inv, PageInv
<1>4. QED
  BY <1>1, <1>2, <1>3, RequestInv DEF Inv

LEMMA DeallocateLargeInv ==
    ASSUME Inv, NEW t \in Callers, DeallocateLarge(t) PROVE Inv'
<1>1. /\ CanEnter(t) /\ ThenRunScavenger(t) /\ UNCHANGED <<flight, chunkTaken>>
      /\ UNCHANGED <<smallPage, committedPages, committedUnits>>
  BY DEF DeallocateLarge, ThenRunScavenger, scavVars
<1>2. PICK o \in largeAllocated :
         /\ largeAllocated' = largeAllocated \ {o}
         /\ largeFree' = Added(largeFree, XLargeRange(o.begin, o.size, o.size))
  BY DEF DeallocateLarge
<1>3. PICK r : r = XLargeRange(o.begin, o.size, o.size)
  OBVIOUS
<1>4. /\ UnitsOf(o) \subseteq Covered(largeAllocated)
      /\ Objects(largeAllocated') /\ Covered(largeAllocated') = Covered(largeAllocated) \ UnitsOf(o)
      /\ WellFormed(r) /\ UnitsOf(r) = UnitsOf(o) /\ PhysOf(r) = UnitsOf(o)
  BY <1>2, <1>3, ObjectsCovered DEF Inv, LargeInv
<1>5. /\ List(largeFree') /\ Covered(largeFree') = Covered(largeFree) \cup UnitsOf(o)
      /\ Physical(largeFree') \subseteq Physical(largeFree) \cup UnitsOf(o)
  <2>1. List(largeFree) /\ UnitsOf(r) \cap Covered(largeFree) = {}
    BY <1>4 DEF Inv, LargeInv
  <2>2. QED
    BY <1>2, <1>3, <1>4, <2>1, AddedKeeps
<1>6. LargeInv' /\ HeldInv' /\ NothingLost'
  <2>1. /\ chunkTaken /\ Physical(largeFree') \subseteq committedUnits'
        /\ Covered(largeAllocated') \subseteq committedUnits'
        /\ Covered(largeFree') \cap Covered(largeAllocated') = {}
        /\ Covered(largeFree') \cup Covered(largeAllocated') = Covered(largeFree) \cup Covered(largeAllocated)
    BY <1>1, <1>4, <1>5 DEF Inv, LargeInv
  <2>2. QED
    BY <1>1, <1>4, <1>5, <2>1, ListsExchange
<1>7. PageInv'
  BY <1>1, PagesUnchanged
<1>8. QED
  BY <1>1, <1>6, <1>7, RequestInv DEF Inv

LEMMA ShrinkLargeInv ==
    ASSUME Inv, NEW t \in Callers, ShrinkLarge(t) PROVE Inv'
<1> USE HeapAssumption
<1>1. /\ CanEnter(t) /\ ThenRunScavenger(t) /\ UNCHANGED <<flight, chunkTaken>>
      /\ UNCHANGED <<smallPage, committedPages>>
  BY DEF ShrinkLarge, ThenRunScavenger, scavVars
<1>2. PICK o \in largeAllocated : \E size \in 1..(o.size - 1) :
         SplitAndAllocate(largeFree, largeAllocated \ {o}, XLargeRange(o.begin, o.size, o.size), 1, size)
  BY DEF ShrinkLarge
<1>3. PICK size \in 1..(o.size - 1) :
         SplitAndAllocate(largeFree, largeAllocated \ {o}, XLargeRange(o.begin, o.size, o.size), 1, size)
  BY <1>2
<1>4. PICK r : r = XLargeRange(o.begin, o.size, o.size)
  OBVIOUS
<1>5. /\ UnitsOf(o) \subseteq Covered(largeAllocated)
      /\ Objects(largeAllocated \ {o}) /\ Covered(largeAllocated \ {o}) = Covered(largeAllocated) \ UnitsOf(o)
      /\ WellFormed(r) /\ UnitsOf(r) = UnitsOf(o) /\ PhysOf(r) = UnitsOf(o)
  BY <1>4, ObjectsCovered DEF Inv, LargeInv
<1>6. o.begin \in Nat /\ o.size \in Nat /\ size \in Nat \ {0} /\ size <= o.size
  BY DEF Inv, LargeInv, Objects
<1>7. Aligned(r.begin, 1) + size <= End(r)
  <2>1. r.begin = o.begin /\ r.size = o.size /\ o.begin % 1 = 0
    BY <1>4, <1>6 DEF XLargeRange
  <2>2. Aligned(r.begin, 1) = o.begin
    BY <1>6, <2>1, AlignedFacts
  <2>3. QED
    BY <1>6, <2>1, <2>2 DEF End
<1>8. /\ List(largeFree) /\ Covered(largeFree) \cap Covered(largeAllocated \ {o}) = {}
      /\ UnitsOf(r) \cap (Covered(largeFree) \cup Covered(largeAllocated \ {o})) = {}
      /\ PhysOf(r) \subseteq committedUnits /\ Covered(largeAllocated \ {o}) \subseteq committedUnits
      /\ Physical(largeFree) \subseteq committedUnits /\ chunkTaken
  BY <1>5 DEF Inv, LargeInv
<1>9. /\ List(largeFree') /\ Objects(largeAllocated')
      /\ Covered(largeFree') \cap Covered(largeAllocated') = {}
      /\ Covered(largeFree') \cup Covered(largeAllocated')
           = Covered(largeFree) \cup Covered(largeAllocated \ {o}) \cup UnitsOf(r)
      /\ Physical(largeFree') \subseteq Physical(largeFree) \cup PhysOf(r)
      /\ Covered(largeAllocated') \subseteq committedUnits' /\ committedUnits \subseteq committedUnits'
  <2>1. SplitAndAllocate(largeFree, largeAllocated \ {o}, r, 1, size) /\ 1 \in Nat \ {0}
    BY <1>3, <1>4
  <2>2. QED
    BY <1>5, <1>6, <1>7, <1>8, <2>1, SplitAndAllocateKeeps
<1>10. LargeInv' /\ HeldInv' /\ NothingLost'
  <2>1. /\ Physical(largeFree') \subseteq committedUnits'
        /\ Covered(largeFree') \cup Covered(largeAllocated') = Covered(largeFree) \cup Covered(largeAllocated)
    BY <1>5, <1>8, <1>9
  <2>2. QED
    BY <1>1, <1>8, <1>9, <2>1, ListsExchange
<1>11. PageInv'
  BY <1>1, PagesUnchanged
<1>12. QED
  BY <1>1, <1>10, <1>11, RequestInv DEF Inv

(* A new chunk is the only range of an empty list.                          *)
LEMMA NewChunk ==
    ASSUME Units # 0
    PROVE  /\ Added({}, XLargeRange(0, Units, 0)) = {XLargeRange(0, Units, 0)}
           /\ List({XLargeRange(0, Units, 0)}) /\ Physical({XLargeRange(0, Units, 0)}) = {}
           /\ Covered({XLargeRange(0, Units, 0)}) = 0..(Units - 1)
           /\ \A a \in Nat \ {0}, size \in 1..Units :
                 Candidates({XLargeRange(0, Units, 0)}, a, size) # {}
<1> USE HeapAssumption
<1>1. PICK r : r = XLargeRange(0, Units, 0)
  OBVIOUS
<1>2. /\ r.begin = 0 /\ r.size = Units /\ r.phys = 0 /\ WellFormed(r)
      /\ End(r) = Units /\ UnitsOf(r) = 0..(Units - 1) /\ PhysOf(r) = {}
  BY <1>1 DEF XLargeRange, WellFormed, Piece, End, UnitsOf, PhysOf
<1>3. Added({}, r) = {r}
  BY DEF Added
<1>4. List({r}) /\ Physical({r}) = {} /\ Covered({r}) = 0..(Units - 1)
  BY <1>2 DEF List, Apart, Physical, Covered
<1>5. ASSUME NEW a \in Nat \ {0}, NEW size \in 1..Units PROVE Candidates({r}, a, size) # {}
  <2>1. Aligned(0, a) = 0
    <3>1. 0 % a = 0
      OBVIOUS
    <3>2. QED
      BY <3>1, AlignedFacts
  <2>2. r \in Candidates({r}, a, size)
    BY <1>2, <2>1 DEF Candidates
  <2>3. QED
    BY <2>2
<1>6. QED
  BY <1>1, <1>3, <1>4, <1>5

(* Allocation from a list of free ranges, all of it.                        *)
LEMMA AllocateFrom ==
    ASSUME NEW free, List(free), NEW a \in Nat \ {0}, NEW size \in Nat \ {0},
           Candidates(free, a, size) # {}, NEW r, r = Lowest(Candidates(free, a, size)),
           Objects(largeAllocated), Covered(free) \cap Covered(largeAllocated) = {},
           Physical(free) \subseteq committedUnits, Covered(largeAllocated) \subseteq committedUnits,
           SplitAndAllocate(free \ {r}, largeAllocated, r, a, size)
    PROVE  /\ List(largeFree') /\ Objects(largeAllocated')
           /\ Covered(largeFree') \cap Covered(largeAllocated') = {}
           /\ Covered(largeFree') \cup Covered(largeAllocated') = Covered(free) \cup Covered(largeAllocated)
           /\ Physical(largeFree') \subseteq Physical(free)
           /\ Physical(largeFree') \subseteq committedUnits'
           /\ Covered(largeAllocated') \subseteq committedUnits'
           /\ largeAllocated' # {}
<1>1. r \in Candidates(free, a, size)
  <2>1. \A f \in Candidates(free, a, size) : f.begin \in Nat
    BY DEF Candidates, List, WellFormed, Piece
  <2>2. QED
    BY <2>1, LowestIsMember
<1>2. r \in free /\ Aligned(r.begin, a) + size <= End(r)
  BY <1>1 DEF Candidates
<1>3. /\ WellFormed(r) /\ UnitsOf(r) \subseteq Covered(free) /\ PhysOf(r) \subseteq Physical(free)
      /\ List(free \ {r}) /\ Covered(free \ {r}) = Covered(free) \ UnitsOf(r)
      /\ Physical(free \ {r}) \subseteq Physical(free)
  BY <1>2, ListCovered
<1>4. /\ UnitsOf(r) \cap (Covered(free \ {r}) \cup Covered(largeAllocated)) = {}
      /\ Covered(free \ {r}) \cap Covered(largeAllocated) = {} /\ PhysOf(r) \subseteq committedUnits
  BY <1>3
<1>5. /\ List(largeFree') /\ Objects(largeAllocated')
      /\ Covered(largeFree') \cap Covered(largeAllocated') = {}
      /\ Covered(largeFree') \cup Covered(largeAllocated')
           = Covered(free \ {r}) \cup Covered(largeAllocated) \cup UnitsOf(r)
      /\ Physical(largeFree') \subseteq Physical(free \ {r}) \cup PhysOf(r)
      /\ Covered(largeAllocated') \subseteq committedUnits' /\ committedUnits \subseteq committedUnits'
  BY <1>2, <1>3, <1>4, SplitAndAllocateKeeps
<1>6. largeAllocated' # {}
  BY DEF SplitAndAllocate
<1>7. QED
  BY <1>3, <1>5, <1>6

LEMMA AllocateLargeInv ==
    ASSUME Inv, NEW t \in Callers, AllocateLarge(t) PROVE Inv'
<1> USE HeapAssumption
<1>1. /\ UNCHANGED <<asyncVars, scavPc, phase, flight, heapMutex>>
      /\ UNCHANGED <<smallPage, committedPages, runPc>>
  BY DEF AllocateLarge, scavVars, asyncVars
<1>2. PICK size \in 1..Units, a \in Alignments :
         LET grown == Added(largeFree, XLargeRange(0, Units, 0))
             free  == IF Candidates(largeFree, a, size) # {} THEN largeFree ELSE grown
             r     == Lowest(Candidates(free, a, size))
         IN /\ Candidates(largeFree, a, size) # {} \/ ~chunkTaken
            /\ chunkTaken' = (chunkTaken \/ free # largeFree)
            /\ SplitAndAllocate(free \ {r}, largeAllocated, r, a, size)
  BY DEF AllocateLarge
<1>3. a \in Nat \ {0} /\ size \in Nat \ {0} /\ Units # 0
  OBVIOUS
<1>4. Physical(largeFree') \subseteq Physical(largeFree) /\ LargeInv' /\ HeldInv' /\ NothingLost'
  <2>1. CASE Candidates(largeFree, a, size) # {}
    <3>1. PICK r : r = Lowest(Candidates(largeFree, a, size))
      OBVIOUS
    <3>2. SplitAndAllocate(largeFree \ {r}, largeAllocated, r, a, size) /\ chunkTaken' = chunkTaken
      BY <1>2, <2>1, <3>1 DEF Inv, LargeInv
    <3>3. chunkTaken
      BY <2>1 DEF Candidates, Inv, LargeInv
    <3>4. /\ List(largeFree') /\ Objects(largeAllocated')
          /\ Covered(largeFree') \cap Covered(largeAllocated') = {}
          /\ Covered(largeFree') \cup Covered(largeAllocated') = Covered(largeFree) \cup Covered(largeAllocated)
          /\ Physical(largeFree') \subseteq Physical(largeFree)
          /\ Physical(largeFree') \subseteq committedUnits' /\ Covered(largeAllocated') \subseteq committedUnits'
      <4>1. /\ List(largeFree) /\ Objects(largeAllocated) /\ Covered(largeFree) \cap Covered(largeAllocated) = {}
            /\ Physical(largeFree) \subseteq committedUnits /\ Covered(largeAllocated) \subseteq committedUnits
        BY DEF Inv, LargeInv
      <4>2. QED
        BY <1>3, <2>1, <3>1, <3>2, <4>1, AllocateFrom
    <3>5. QED
      BY <1>1, <3>2, <3>3, <3>4, ListsExchange
  <2>2. CASE Candidates(largeFree, a, size) = {}
    <3>1. ~chunkTaken /\ largeFree = {} /\ largeAllocated = {}
      BY <1>2, <2>2 DEF Inv, LargeInv
    <3>2. PICK free : free = {XLargeRange(0, Units, 0)}
      OBVIOUS
    <3>3. /\ Added(largeFree, XLargeRange(0, Units, 0)) = free /\ free # {} /\ List(free)
          /\ Physical(free) = {} /\ Covered(free) = 0..(Units - 1) /\ Candidates(free, a, size) # {}
      BY <1>3, <3>1, <3>2, NewChunk
    <3>4. PICK r : r = Lowest(Candidates(free, a, size))
      OBVIOUS
    <3>5. SplitAndAllocate(free \ {r}, largeAllocated, r, a, size) /\ chunkTaken' = TRUE
      BY <1>2, <2>2, <3>1, <3>3, <3>4
    <3>6. Covered(largeAllocated) = {} /\ Objects(largeAllocated)
      BY <3>1 DEF Covered, Objects, Apart
    <3>7. /\ List(largeFree') /\ Objects(largeAllocated')
          /\ Covered(largeFree') \cap Covered(largeAllocated') = {}
          /\ Covered(largeFree') \cup Covered(largeAllocated') = Covered(free) \cup Covered(largeAllocated)
          /\ Physical(largeFree') = {} /\ Covered(largeAllocated') \subseteq committedUnits'
      BY <1>3, <3>3, <3>4, <3>5, <3>6, AllocateFrom
    <3>8. LargeInv'
      BY <3>5, <3>7 DEF LargeInv
    <3>9. \A s \in Scavengers : flight'[s].kind # "range" /\ Held(s)' = {}
      BY <1>1, <3>1 DEF Inv, HeldInv, Held
    <3>10. HeldInv'
      BY <3>9 DEF HeldInv
    <3>11. NothingLost'
      BY <3>3, <3>7 DEF NothingLost
    <3>12. QED
      BY <3>7, <3>8, <3>10, <3>11
  <2>3. QED
    BY <2>1, <2>2
<1>5. PageInv'
  BY <1>1, PagesUnchanged
<1>6. DueInv' /\ LocalTypes'
  <2>1. DueInv'
    BY <1>1, <1>4, NothingFreed
  <2>2. QED
    BY <1>1, <2>1 DEF Inv, LocalTypes
<1>7. QED
  BY <1>4, <1>5, <1>6 DEF Inv

-----------------------------------------------------------------------------
(* run(), threadRunLoop(), and the beginning and end of a scavenge          *)

LEMMA HeapUnchanged ==
    ASSUME Inv, UNCHANGED <<largeFree, largeAllocated, chunkTaken, committedUnits, flight>>,
           UNCHANGED <<smallPage, committedPages>>, DueInv', LocalTypes'
    PROVE  Inv'
BY LargeUnchanged, PagesUnchanged DEF Inv

LEMMA RunStepInv ==
    ASSUME Inv, NEW t \in Callers, AsyncStep(RunStep(t)) PROVE Inv'
<1>1. /\ UNCHANGED <<heapMutex, scavPc, phase>>
      /\ UNCHANGED <<largeFree, largeAllocated, chunkTaken, committedUnits, flight>>
      /\ UNCHANGED <<smallPage, committedPages>>
  BY DEF AsyncStep, heapVars, scavVars
<1>2. \E l \in {"exchange", "lock", "notify", "returned"} : runPc' = [runPc EXCEPT ![t] = l]
  BY DEF AsyncStep, RunStep, RunLoad, RunExchange, RunLock, RunNotify, RunGoto
<1>3. LocalTypes'
  BY <1>1, <1>2 DEF Inv, LocalTypes
<1>4. /\ runPc[t] # "none"
      /\ taskPc' = "function" <=> taskPc = "function"
      /\ state' = state \/ state' = "RunRequested"
      /\ state' = "RunRequested" \/ (Requesting => Requesting')
  <2>1. CASE RunLoad(t)
    BY <2>1 DEF RunLoad, RunGoto, Requesting, Inv, LocalTypes
  <2>2. CASE RunExchange(t)
    BY <2>2 DEF RunExchange
  <2>3. CASE RunLock(t) \/ RunNotify(t)
    BY <2>3 DEF RunLock, RunNotify, RunGoto, Requesting, Inv, LocalTypes
  <2>4. QED
    BY <2>1, <2>2, <2>3 DEF AsyncStep, RunStep
<1>5. DueInv'
  <2>1. \A u \in Callers : runPc'[u] # "none" => heapMutex' = u
    BY <1>1, <1>2, <1>4 DEF Inv, DueInv, LocalTypes
  <2>2. QED
    BY <1>1, <1>4, <2>1 DEF Inv, DueInv
<1>6. QED
  BY <1>1, <1>3, <1>5, HeapUnchanged

LEMMA TaskStepInv ==
    ASSUME Inv, AsyncStep(TaskStep) \/ AsyncStep(SpuriousWakeup) \/ AsyncStep(FinishConstruction)
    PROVE  Inv'
<1>1. /\ UNCHANGED <<heapMutex, scavPc, phase, runPc>>
      /\ UNCHANGED <<largeFree, largeAllocated, chunkTaken, committedUnits, flight>>
      /\ UNCHANGED <<smallPage, committedPages>>
  BY DEF AsyncStep, heapVars, scavVars, TaskStep, TakeRequest, GoToSleep, TaskLock, TestSleeping, Block,
         SpuriousWakeup, FinishConstruction
<1>2. LocalTypes'
  BY <1>1 DEF Inv, LocalTypes
<1>3. \/ /\ state = "RunRequested" /\ state' = "Running" /\ taskPc # "function" /\ taskPc' = "function"
      \/ /\ state' = state \/ (state = "Running" /\ state' = "Sleeping")
         /\ taskPc # "function" /\ taskPc' # "function"
      \/ UNCHANGED <<state, taskPc>>
  BY DEF AsyncStep, TaskStep, TakeRequest, GoToSleep, TaskLock, TestSleeping, Block,
         SpuriousWakeup, FinishConstruction, TaskGoto
<1>4. DueInv'
  BY <1>1, <1>3 DEF Inv, DueInv, Requesting
<1>5. QED
  BY <1>1, <1>2, <1>4, HeapUnchanged

LEMMA ReleaseHeapInv == ASSUME Inv, NEW t \in Callers, ReleaseHeap(t) PROVE Inv'
<1>1. /\ runPc[t] = "returned" /\ runPc' = [runPc EXCEPT ![t] = "none"] /\ heapMutex' = Null
      /\ UNCHANGED <<state, taskPc, scavPc, phase>>
      /\ UNCHANGED <<largeFree, largeAllocated, chunkTaken, committedUnits, flight>>
      /\ UNCHANGED <<smallPage, committedPages>>
  BY DEF ReleaseHeap, RunGoto, scavVars
<1>2. LocalTypes'
  BY <1>1 DEF Inv, LocalTypes
<1>3. DueInv'
  <2>1. \A u \in Callers : runPc[u] # "none" => u = t
    BY <1>1 DEF Inv, DueInv
  <2>2. ~Requesting /\ \A u \in Callers : runPc'[u] = "none"
    BY <1>1, <2>1 DEF Requesting, Inv, LocalTypes
  <2>3. QED
    BY <1>1, <2>2 DEF Inv, DueInv
<1>4. QED
  BY <1>1, <1>2, <1>3, HeapUnchanged

LEMMA StartScavengeInv == ASSUME Inv, NEW s \in Scavengers, StartScavenge(s) PROVE Inv'
<1>1. /\ UNCHANGED <<heapMutex, runPc, state, taskPc>>
      /\ UNCHANGED <<largeFree, largeAllocated, chunkTaken, committedUnits, flight>>
      /\ UNCHANGED <<smallPage, committedPages>>
      /\ scavPc' = [scavPc EXCEPT ![s] = "enter"] /\ phase' = [phase EXCEPT ![s] = "small"]
  BY DEF StartScavenge, asyncVars, heapVars
<1>2. LocalTypes'
  BY <1>1 DEF Inv, LocalTypes
<1>3. s # TaskThread \/ (taskPc = "function" /\ scavPc[TaskThread] = "none")
  BY AsyncTaskAssumption DEF StartScavenge
<1>4. TaskThread \in Scavengers
  BY DEF Scavengers
<1>5. DueInv'
  <2>1. CASE s # TaskThread
    <3>1. scavPc'[TaskThread] = scavPc[TaskThread] /\ phase'[TaskThread] = phase[TaskThread]
      BY <1>1, <1>4, <2>1 DEF Inv, LocalTypes
    <3>2. QED
      BY <1>1, <3>1 DEF Inv, DueInv, Requesting
  <2>2. CASE s = TaskThread
    <3>1. scavPc'[TaskThread] = "enter" /\ phase'[TaskThread] = "small" /\ taskPc = "function"
      BY <1>1, <1>3, <1>4, <2>2 DEF Inv, LocalTypes
    <3>2. QED
      BY <1>1, <3>1 DEF Inv, DueInv, Requesting
  <2>3. QED
    BY <2>1, <2>2
<1>6. QED
  BY <1>1, <1>2, <1>5, HeapUnchanged

LEMMA FunctionReturnsInv == ASSUME Inv, FunctionReturns PROVE Inv'
<1>1. /\ scavPc[TaskThread] = "rest" /\ scavPc' = [scavPc EXCEPT ![TaskThread] = "none"]
      /\ taskPc' = "running?" /\ UNCHANGED <<state, runPc, heapMutex, phase>>
      /\ UNCHANGED <<largeFree, largeAllocated, chunkTaken, committedUnits, flight>>
      /\ UNCHANGED <<smallPage, committedPages>>
  BY DEF FunctionReturns, TaskGoto, heapVars
<1>2. LocalTypes' /\ scavPc'[TaskThread] = "none"
  BY <1>1 DEF Inv, LocalTypes, Scavengers
<1>3. DueInv'
  BY <1>1, <1>2 DEF Inv, DueInv, Requesting
<1>4. QED
  BY <1>1, <1>2, <1>3, HeapUnchanged

(* The system call, without the mutex, hits only what the scavenger holds.  *)
LEMMA DecommitInv == ASSUME Inv, NEW s \in Scavengers, Decommit(s) PROVE Inv'
<1>1. /\ scavPc[s] = "decommit" /\ scavPc' = [scavPc EXCEPT ![s] = "relock"]
      /\ UNCHANGED <<asyncVars, heapMutex, phase>> /\ UNCHANGED <<largeFree, largeAllocated, chunkTaken>>
      /\ UNCHANGED <<smallPage, flight>> /\ UNCHANGED <<state, taskPc, runPc>>
  BY DEF Decommit, asyncVars
<1>2. LocalTypes'
  BY <1>1 DEF Inv, LocalTypes
<1>3. DueInv'
  <2>1. /\ scavPc'[TaskThread] = scavPc[TaskThread]
           \/ (scavPc[TaskThread] = "decommit" /\ scavPc'[TaskThread] = "relock")
    BY <1>1 DEF Inv, LocalTypes, Scavengers
  <2>2. QED
    BY <1>1, <2>1 DEF Inv, DueInv, Requesting
<1>4. HeldInv' /\ NothingLost'
  BY <1>1 DEF Inv, HeldInv, NothingLost, Held
<1>5. CASE flight[s].kind = "page"
  <2>1. committedPages' = committedPages \ {flight[s].what} /\ committedUnits' = committedUnits
    BY <1>5 DEF Decommit
  <2>2. LargeInv' /\ PageInv'
    BY <1>1, <1>5, <2>1 DEF Inv, LargeInv, PageInv
  <2>3. QED
    BY <1>2, <1>3, <1>4, <2>2 DEF Inv
<1>6. CASE flight[s].kind = "range"
  <2>1. committedUnits' = committedUnits \ Held(s) /\ committedPages' = committedPages
    BY <1>6 DEF Decommit, Held
  <2>2. PageInv'
    BY <1>1, <2>1 DEF Inv, PageInv
  <2>3. Held(s) \cap Covered(largeFree) = {} /\ Held(s) \cap Covered(largeAllocated) = {}
    BY DEF Inv, HeldInv
  <2>4. Physical(largeFree) \subseteq Covered(largeFree)
    <3>1. \A r \in largeFree : PhysOf(r) \subseteq UnitsOf(r)
      BY PieceUnits DEF Inv, LargeInv, List, WellFormed
    <3>2. QED
      BY <3>1 DEF Physical, Covered
  <2>5. LargeInv'
    BY <1>1, <2>1, <2>3, <2>4 DEF Inv, LargeInv
  <2>6. QED
    BY <1>2, <1>3, <1>4, <2>2, <2>5 DEF Inv
<1>7. QED
  BY <1>5, <1>6 DEF Decommit

-----------------------------------------------------------------------------
(* The sections of a scavenge                                               *)

LEMMA RangesBackKeeps ==
    ASSUME Inv, NEW s \in Scavengers
    PROVE  /\ List(RangesBack(s)) /\ Covered(RangesBack(s)) = Covered(largeFree) \cup Held(s)
           /\ Physical(RangesBack(s)) \subseteq Physical(largeFree)
<1>1. CASE flight[s].kind = "range"
  <2>1. PICK w : w = [flight[s].what EXCEPT !.phys = 0]
    OBVIOUS
  <2>2. WellFormed(w) /\ UnitsOf(w) = Held(s) /\ PhysOf(w) = {}
    <3>1. WellFormed(flight[s].what)
      BY <1>1 DEF Inv, HeldInv
    <3>2. /\ w.begin = flight[s].what.begin /\ w.size = flight[s].what.size /\ w.phys = 0
          /\ WellFormed(w)
      BY <2>1, <3>1 DEF WellFormed, Piece
    <3>3. QED
      BY <1>1, <3>2, PieceUnits DEF WellFormed, Held, UnitsOf
  <2>3. RangesBack(s) = Added(largeFree, w)
    BY <1>1, <2>1 DEF RangesBack
  <2>4. List(largeFree) /\ UnitsOf(w) \cap Covered(largeFree) = {}
    BY <2>2 DEF Inv, LargeInv, HeldInv
  <2>5. QED
    BY <2>2, <2>3, <2>4, AddedKeeps
<1>2. CASE flight[s].kind # "range"
  BY <1>2 DEF RangesBack, Held, Inv, LargeInv
<1>3. QED
  BY <1>1, <1>2

\* The range that was held is back, and nothing, or a range of the list, is held instead.
LEMMA LargeSection ==
    ASSUME Inv, NEW s \in Scavengers, UNCHANGED <<largeAllocated, chunkTaken, committedUnits>>,
           NEW x, flight' = [flight EXCEPT ![s] = x],
           \/ x.kind # "range" /\ largeFree' = RangesBack(s)
           \/ x.kind = "range" /\ x.what \in RangesBack(s) /\ largeFree' = RangesBack(s) \ {x.what}
    PROVE  /\ LargeInv' /\ HeldInv' /\ NothingLost'
           /\ Physical(largeFree') \subseteq Physical(largeFree)
<1>1. /\ List(RangesBack(s)) /\ Covered(RangesBack(s)) = Covered(largeFree) \cup Held(s)
      /\ Physical(RangesBack(s)) \subseteq Physical(largeFree)
  BY RangesBackKeeps
<1>2. flight'[s] = x /\ \A u \in Scavengers \ {s} : flight'[u] = flight[u]
  BY DEF Inv, LocalTypes
<1>3. \A u \in Scavengers \ {s} : Held(u)' = Held(u)
  BY <1>2 DEF Held
<1>4. /\ List(largeFree') /\ Physical(largeFree') \subseteq Physical(largeFree)
      /\ Covered(largeFree') = (Covered(largeFree) \cup Held(s)) \ Held(s)'
      /\ Held(s)' \subseteq Covered(largeFree) \cup Held(s)
      /\ x.kind = "range" => WellFormed(x.what)
  <2>1. CASE x.kind # "range"
    <3>1. Held(s)' = {}
      BY <1>2, <2>1 DEF Held
    <3>2. QED
      BY <1>1, <2>1, <3>1
  <2>2. CASE x.kind = "range"
    <3>1. Held(s)' = UnitsOf(x.what)
      BY <1>2, <2>2 DEF Held
    <3>2. PICK S : S = RangesBack(s)
      OBVIOUS
    <3>3. PICK r : r = x.what
      OBVIOUS
    <3>4. r \in S /\ List(S) /\ largeFree' = S \ {r} /\ Held(s)' = UnitsOf(r)
      BY <1>1, <2>2, <3>1, <3>2, <3>3
    <3>5. /\ WellFormed(r) /\ UnitsOf(r) \subseteq Covered(S) /\ List(S \ {r})
          /\ Covered(S \ {r}) = Covered(S) \ UnitsOf(r) /\ Physical(S \ {r}) \subseteq Physical(S)
      BY <3>4, ListCovered
    <3>6. QED
      BY <1>1, <3>2, <3>3, <3>4, <3>5
  <2>3. QED
    BY <2>1, <2>2
<1>5. ~chunkTaken => largeFree' = {} /\ x.kind # "range"
  <2>1. ASSUME ~chunkTaken PROVE RangesBack(s) = {}
    BY <2>1 DEF RangesBack, Inv, LargeInv, HeldInv
  <2>2. QED
    BY <2>1
<1>6. LargeInv'
  <2>1. Held(s) \cap Covered(largeAllocated) = {}
    BY DEF Inv, HeldInv
  <2>2. QED
    BY <1>4, <1>5, <2>1 DEF Inv, LargeInv
<1>7. HeldInv'
  <2>1. \A u \in Scavengers : flight'[u].kind = "range" => WellFormed(flight'[u].what) /\ chunkTaken'
    BY <1>2, <1>4, <1>5 DEF Inv, HeldInv
  <2>2. \A u \in Scavengers : Held(u)' \cap (Covered(largeFree') \cup Covered(largeAllocated')) = {}
    BY <1>3, <1>4 DEF Inv, HeldInv, LargeInv
  <2>3. \A u, v \in Scavengers : u # v => Held(v)' \cap Held(u)' = {}
    BY <1>3, <1>4 DEF Inv, HeldInv
  <2>4. QED
    BY <2>1, <2>2, <2>3 DEF HeldInv
<1>8. NothingLost'
  BY <1>3, <1>4 DEF Inv, NothingLost
<1>9. QED
  BY <1>4, <1>6, <1>7, <1>8

LEMMA PagesBackKeeps ==
    ASSUME Inv, NEW s \in Scavengers
    PROVE  /\ PagesBack(s) \in [SmallPages -> {"vm", "free", "used", "flight"}]
           /\ \A p \in SmallPages :
                 PagesBack(s)[p] = IF flight[s].kind = "page" /\ p = flight[s].what
                                   THEN "vm" ELSE smallPage[p]
BY DEF PagesBack, Inv, PageInv

LEMMA PageSection ==
    ASSUME Inv, NEW s \in Scavengers, UNCHANGED committedPages,
           NEW x, flight' = [flight EXCEPT ![s] = x],
           \/ x.kind # "page" /\ smallPage' = PagesBack(s)
           \/ /\ x.kind = "page" /\ x.what \in FreePages(s)
              /\ smallPage' = [PagesBack(s) EXCEPT ![x.what] = "flight"]
    PROVE  PageInv' /\ \A p \in SmallPages : smallPage'[p] = "free" => smallPage[p] = "free"
<1>1. flight'[s] = x /\ \A u \in Scavengers \ {s} : flight'[u] = flight[u]
  BY DEF Inv, LocalTypes
<1>2. /\ smallPage' \in [SmallPages -> {"vm", "free", "used", "flight"}]
      /\ \A p \in SmallPages :
            smallPage'[p] = IF x.kind = "page" /\ p = x.what THEN "flight" ELSE PagesBack(s)[p]
      /\ x.kind = "page" => x.what \in SmallPages /\ smallPage[x.what] = "free"
  BY PagesBackKeeps DEF FreePages
<1>3. \A p \in SmallPages : smallPage'[p] \in {"used", "free"} => smallPage'[p] = smallPage[p]
  BY <1>2, PagesBackKeeps
<1>4. \A p \in SmallPages : smallPage'[p] \in {"used", "free"} => p \in committedPages'
  BY <1>3 DEF Inv, PageInv
<1>5. ASSUME NEW u \in Scavengers, flight'[u].kind = "page"
      PROVE  /\ flight'[u].what \in SmallPages /\ smallPage'[flight'[u].what] = "flight"
             /\ \A v \in Scavengers : v # u /\ flight'[v].kind = "page" => flight'[v].what # flight'[u].what
  <2>1. \A v \in Scavengers : flight[v].kind = "page" =>
           /\ flight[v].what \in SmallPages /\ smallPage[flight[v].what] = "flight"
           /\ \A z \in Scavengers : z # v /\ flight[z].kind = "page" => flight[z].what # flight[v].what
    BY DEF Inv, PageInv
  <2>2. CASE u = s
    BY <1>1, <1>2, <1>5, <2>1, <2>2
  <2>3. CASE u # s
    <3>1. /\ flight'[u] = flight[u] /\ flight[u].kind = "page" /\ flight[u].what \in SmallPages
          /\ smallPage[flight[u].what] = "flight"
          /\ flight[s].kind = "page" => flight[s].what # flight[u].what
      BY <1>1, <1>5, <2>1, <2>3
    <3>2. smallPage'[flight[u].what] = "flight"
      BY <1>2, <3>1, PagesBackKeeps
    <3>3. QED
      BY <1>1, <1>2, <2>1, <2>3, <3>1, <3>2
  <2>4. QED
    BY <2>2, <2>3
<1>6. QED
  BY <1>2, <1>3, <1>4, <1>5 DEF PageInv

\* What a section that frees nothing has to say for the scavenges that are due.
LEMMA DueSection ==
    ASSUME Inv, NEW s \in Scavengers, heapMutex = Null, UNCHANGED <<asyncVars, heapMutex>>,
           NEW l \in {"decommit", "paused"}, scavPc' = [scavPc EXCEPT ![s] = l], InSection(s),
           NEW x, flight' = [flight EXCEPT ![s] = x],
           NEW h \in {"small", "large"}, phase' = [phase EXCEPT ![s] = h],
           h = "small" \/ phase[s] = "large" \/ \A p \in SmallPages : smallPage'[p] # "free",
           h = "large" \/ phase[s] = "small",
           \A p \in SmallPages : smallPage'[p] = "free" => smallPage[p] = "free",
           Physical(largeFree') \subseteq Physical(largeFree)
    PROVE  DueInv' /\ LocalTypes'
<1>1. LocalTypes' /\ UNCHANGED <<runPc, state, taskPc>>
  BY DEF Inv, LocalTypes, asyncVars
<1>2. TaskThread \in Scavengers
  BY DEF Scavengers
<1>3. CASE s # TaskThread
  <2>1. scavPc'[TaskThread] = scavPc[TaskThread] /\ phase'[TaskThread] = phase[TaskThread]
    BY <1>2, <1>3 DEF Inv, LocalTypes
  <2>2. QED
    BY <1>1, <2>1 DEF Inv, DueInv, Requesting
<1>4. CASE s = TaskThread
  <2>1. /\ scavPc'[TaskThread] = l /\ phase'[TaskThread] = h
        /\ scavPc[TaskThread] \notin {"none", "rest"}
    BY <1>2, <1>4 DEF Inv, LocalTypes, InSection
  <2>2. taskPc = "function"
    BY <2>1 DEF Inv, DueInv
  <2>3. QED
    BY <1>1, <1>4, <2>1, <2>2 DEF Inv, DueInv, Requesting
<1>5. QED
  BY <1>3, <1>4

LEMMA PauseInv == ASSUME Inv, NEW s \in Scavengers, Pause(s) PROVE Inv'
<1>1. /\ UNCHANGED <<asyncVars, heapMutex>> /\ InSection(s) /\ heapMutex = Null
      /\ UNCHANGED <<largeAllocated, chunkTaken, committedUnits>> /\ UNCHANGED committedPages
      /\ flight' = [flight EXCEPT ![s] = NoFlight] /\ scavPc' = [scavPc EXCEPT ![s] = "paused"]
      /\ smallPage' = PagesBack(s) /\ largeFree' = RangesBack(s) /\ phase' = [phase EXCEPT ![s] = phase[s]]
      /\ phase[s] \in {"small", "large"}
  BY DEF Pause, InSection, Inv, LocalTypes
<1>2. NoFlight.kind = "none"
  BY DEF NoFlight
<1>3. LargeInv' /\ HeldInv' /\ NothingLost' /\ Physical(largeFree') \subseteq Physical(largeFree)
  BY <1>1, <1>2, LargeSection
<1>4. PageInv' /\ \A p \in SmallPages : smallPage'[p] = "free" => smallPage[p] = "free"
  BY <1>1, <1>2, PageSection
<1>5. DueInv' /\ LocalTypes'
  BY <1>1, <1>3, <1>4, DueSection
<1>6. QED
  BY <1>3, <1>4, <1>5 DEF Inv

LEMMA TakeSmallPageInv == ASSUME Inv, NEW s \in Scavengers, TakeSmallPage(s) PROVE Inv'
<1>1. PICK p \in FreePages(s) :
         /\ Take(s, "page", p) /\ smallPage' = [PagesBack(s) EXCEPT ![p] = "flight"]
  BY DEF TakeSmallPage
<1>2. PICK x : x = [kind |-> "page", what |-> p]
  OBVIOUS
<1>3. x.kind = "page" /\ x.what = p
  BY <1>2
<1>4. /\ UNCHANGED <<asyncVars, heapMutex>> /\ InSection(s) /\ heapMutex = Null
      /\ UNCHANGED <<largeAllocated, chunkTaken, committedUnits>> /\ UNCHANGED committedPages
      /\ flight' = [flight EXCEPT ![s] = x] /\ scavPc' = [scavPc EXCEPT ![s] = "decommit"]
      /\ largeFree' = RangesBack(s) /\ phase' = phase /\ phase[s] = "small"
  BY <1>1, <1>2 DEF TakeSmallPage, Take, GoesOn, InSection
<1>5. LargeInv' /\ HeldInv' /\ NothingLost' /\ Physical(largeFree') \subseteq Physical(largeFree)
  BY <1>3, <1>4, LargeSection
<1>6. PageInv' /\ \A q \in SmallPages : smallPage'[q] = "free" => smallPage[q] = "free"
  BY <1>1, <1>3, <1>4, PageSection
<1>7. phase' = [phase EXCEPT ![s] = "small"]
  BY <1>4 DEF Inv, LocalTypes
<1>8. DueInv' /\ LocalTypes'
  BY <1>4, <1>5, <1>6, <1>7, DueSection
<1>9. QED
  BY <1>5, <1>6, <1>8 DEF Inv

LEMMA TakeLargeRangeInv == ASSUME Inv, NEW s \in Scavengers, TakeLargeRange(s) PROVE Inv'
<1>1. PICK r \in PhysicalRanges(s) : Take(s, "range", r) /\ largeFree' = RangesBack(s) \ {r}
  BY DEF TakeLargeRange
<1>2. PICK x : x = [kind |-> "range", what |-> r]
  OBVIOUS
<1>3. x.kind = "range" /\ x.what = r /\ r \in RangesBack(s)
  BY <1>2 DEF PhysicalRanges
<1>4. /\ UNCHANGED <<asyncVars, heapMutex>> /\ InSection(s) /\ heapMutex = Null
      /\ UNCHANGED <<largeAllocated, chunkTaken, committedUnits>> /\ UNCHANGED committedPages
      /\ flight' = [flight EXCEPT ![s] = x] /\ scavPc' = [scavPc EXCEPT ![s] = "decommit"]
      /\ smallPage' = PagesBack(s) /\ phase' = [phase EXCEPT ![s] = "large"]
      /\ phase[s] = "small" => FreePages(s) = {}
      /\ phase[s] \in {"small", "large"}
  BY <1>1, <1>2 DEF TakeLargeRange, Take, GoesOn, InSection, Inv, LocalTypes
<1>5. LargeInv' /\ HeldInv' /\ NothingLost' /\ Physical(largeFree') \subseteq Physical(largeFree)
  BY <1>1, <1>3, <1>4, LargeSection
<1>6. PageInv' /\ \A q \in SmallPages : smallPage'[q] = "free" => smallPage[q] = "free"
  BY <1>3, <1>4, PageSection
<1>7. phase[s] = "large" \/ \A p \in SmallPages : smallPage'[p] # "free"
  BY <1>4 DEF FreePages
<1>8. DueInv' /\ LocalTypes'
  BY <1>4, <1>5, <1>6, <1>7, DueSection
<1>9. QED
  BY <1>5, <1>6, <1>8 DEF Inv

(* A scavenge that ends has found nothing in the lists that was there when  *)
(* it last looked, and what has been freed since has been reported.         *)
LEMMA FinishScavengeInv == ASSUME Inv, NEW s \in Scavengers, FinishScavenge(s) PROVE Inv'
<1>1. /\ UNCHANGED <<asyncVars, heapMutex>> /\ InSection(s) /\ heapMutex = Null
      /\ UNCHANGED <<largeAllocated, chunkTaken, committedUnits>> /\ UNCHANGED committedPages
      /\ flight' = [flight EXCEPT ![s] = NoFlight]
      /\ scavPc' = [scavPc EXCEPT ![s] = IF s = TaskThread THEN "rest" ELSE "none"]
      /\ phase' = [phase EXCEPT ![s] = "small"]
      /\ smallPage' = PagesBack(s) /\ largeFree' = RangesBack(s)
      /\ phase[s] = "small" => FreePages(s) = {}
      /\ PhysicalRanges(s) = {} /\ UNCHANGED <<runPc, state, taskPc>>
  BY DEF FinishScavenge, GoesOn, InSection, asyncVars
<1>2. NoFlight.kind = "none"
  BY DEF NoFlight
<1>3. LargeInv' /\ HeldInv' /\ NothingLost' /\ Physical(largeFree') \subseteq Physical(largeFree)
  BY <1>1, <1>2, LargeSection
<1>4. PageInv' /\ \A p \in SmallPages : smallPage'[p] = "free" => smallPage[p] = "free"
  BY <1>1, <1>2, PageSection
<1>5. LocalTypes' /\ TaskThread \in Scavengers
  BY <1>1 DEF Inv, LocalTypes, Scavengers
<1>6. DueInv'
  <2>1. CASE s # TaskThread
    <3>1. scavPc'[TaskThread] = scavPc[TaskThread] /\ phase'[TaskThread] = phase[TaskThread]
      BY <1>1, <1>5, <2>1 DEF Inv, LocalTypes
    <3>2. QED
      BY <1>1, <1>3, <1>4, <3>1 DEF Inv, DueInv, Requesting
  <2>2. CASE s = TaskThread
    <3>1. /\ scavPc'[TaskThread] = "rest" /\ phase'[TaskThread] = "small"
          /\ scavPc[TaskThread] \notin {"none", "rest"} /\ taskPc = "function"
      BY <1>1, <1>5, <2>2 DEF Inv, LocalTypes, InSection, DueInv
    <3>2. Physical(largeFree') = {}
      <4>1. \A r \in largeFree' : PhysOf(r) = {}
        BY <1>1, <1>3, PieceUnits DEF PhysicalRanges, LargeInv, List, WellFormed
      <4>2. QED
        BY <4>1 DEF Physical
    <3>3. ~Requesting
      BY <1>1, AsyncTaskAssumption DEF Requesting, Inv, DueInv
    <3>4. phase[s] = "small" => \A p \in SmallPages : smallPage'[p] # "free"
      BY <1>1 DEF FreePages
    <3>5. state # "RunRequested" => \A p \in SmallPages : smallPage'[p] # "free"
      BY <1>4, <2>2, <3>3, <3>4 DEF Inv, DueInv
    <3>6. QED
      BY <1>1, <3>1, <3>2, <3>5 DEF Inv, DueInv
  <2>3. QED
    BY <2>1, <2>2
<1>7. QED
  BY <1>3, <1>4, <1>5, <1>6 DEF Inv

-----------------------------------------------------------------------------
(* The theorems                                                             *)

LEMMA StepInv == Inv /\ [Next]_vars => Inv'
<1> SUFFICES ASSUME Inv, [Next]_vars PROVE Inv'
  OBVIOUS
<1>1. Callers \subseteq Scavengers /\ TaskThread \in Scavengers
  BY DEF Scavengers
<1>2. ASSUME NEW t \in Callers, Operation(t) PROVE Inv'
  BY <1>2, AllocateSmallPageInv, DeallocateSmallPageInv, AllocateLargeInv, DeallocateLargeInv,
     ShrinkLargeInv DEF Operation
<1>3. ASSUME NEW s \in Scavengers, ScavengeStep(s) PROVE Inv'
  BY <1>3, PauseInv, TakeSmallPageInv, TakeLargeRangeInv, DecommitInv, FinishScavengeInv DEF ScavengeStep
<1>4. CASE TaskThreadStep
  BY <1>1, <1>3, <1>4, TaskStepInv, StartScavengeInv, FunctionReturnsInv DEF TaskThreadStep
<1>5. CASE AsyncStep(FinishConstruction) \/ AsyncStep(SpuriousWakeup)
  BY <1>5, TaskStepInv
<1>6. ASSUME NEW t \in Callers, StartScavenge(t) \/ AsyncStep(RunStep(t)) \/ ReleaseHeap(t) PROVE Inv'
  BY <1>1, <1>6, StartScavengeInv, RunStepInv, ReleaseHeapInv
<1>7. CASE UNCHANGED vars
  <2>1. /\ UNCHANGED <<largeFree, largeAllocated, chunkTaken, committedUnits, flight>>
        /\ UNCHANGED <<smallPage, committedPages>> /\ UNCHANGED <<heapMutex, runPc, state, taskPc, scavPc, phase>>
    BY <1>7 DEF vars, asyncVars, heapVars, scavVars
  <2>2. DueInv' /\ LocalTypes'
    BY <2>1 DEF Inv, DueInv, LocalTypes, Requesting
  <2>3. QED
    BY <2>1, <2>2, HeapUnchanged
<1>8. QED
  BY <1>1, <1>2, <1>3, <1>4, <1>5, <1>6, <1>7 DEF Next

LEMMA InvHolds == Spec => []Inv
BY InitInv, StepInv, PTL DEF Spec

(* Memory that is handed out, or that the heap counts as physical, is       *)
(* backed: splits, merges and shrinking never take memory that has been     *)
(* given back for memory that is there, and no system call of a scavenger,  *)
(* made without the mutex, hits memory that is in use.                      *)
THEOREM HeapMemoryIsBacked == Spec => []MemoryIsBacked
<1>1. Inv => MemoryIsBacked
  <2> SUFFICES ASSUME Inv PROVE MemoryIsBacked
    OBVIOUS
  <2>1. \A p \in SmallPages : smallPage[p] \in {"used", "free"} => p \in committedPages
    BY DEF Inv, PageInv
  <2>2. \A o \in largeAllocated : UnitsOf(o) \subseteq committedUnits
    BY ObjectsCovered DEF Inv, LargeInv
  <2>3. \A r \in largeFree : r.begin .. (r.begin + r.phys - 1) \subseteq committedUnits
    BY ListCovered DEF Inv, LargeInv, PhysOf
  <2>4. QED
    BY <2>1, <2>2, <2>3 DEF MemoryIsBacked, AllocatedIsCommitted, PhysicalIsCommitted
<1>2. QED
  BY <1>1, InvHolds, PTL

\* n is in exactly one member of the list, or in none.
LEMMA CountInList ==
    ASSUME NEW S, Apart(S), NEW n \in 0..(Units - 1)
    PROVE  Cardinality({r \in S : n \in UnitsOf(r)}) = IF n \in Covered(S) THEN 1 ELSE 0
<1>1. CASE n \in Covered(S)
  <2>1. PICK r \in S : n \in UnitsOf(r)
    BY <1>1 DEF Covered
  <2>2. {q \in S : n \in UnitsOf(q)} = {r}
    BY <2>1 DEF Apart
  <2>3. QED
    BY <1>1, <2>2, FS_Singleton
<1>2. CASE n \notin Covered(S)
  <2>1. {q \in S : n \in UnitsOf(q)} = {}
    BY <1>2 DEF Covered
  <2>2. QED
    BY <1>2, <2>1, FS_EmptySet
<1>3. QED
  BY <1>1, <1>2

(* Every unit of the chunk is in one object, one free range, or the hands   *)
(* of one scavenger: nothing is lost, nothing is owned twice.               *)
THEOREM ChunkIsPartitioned == Spec => []MemoryOwnedOnce
<1>1. Inv => MemoryOwnedOnce
  <2> SUFFICES ASSUME Inv, chunkTaken, NEW n \in 0..(Units - 1)
               PROVE  Cardinality({o \in largeAllocated : n \in UnitsOf(o)})
                        + Cardinality({r \in largeFree : n \in UnitsOf(r)})
                        + Cardinality({s \in Scavengers : /\ flight[s].kind = "range"
                                                          /\ n \in UnitsOf(flight[s].what)}) = 1
    BY DEF MemoryOwnedOnce
  <2>1. PICK H : H = {s \in Scavengers : /\ flight[s].kind = "range" /\ n \in UnitsOf(flight[s].what)}
    OBVIOUS
  <2>2. H = {s \in Scavengers : n \in Held(s)}
    BY <2>1 DEF Held
  <2>3. Cardinality({o \in largeAllocated : n \in UnitsOf(o)}) = IF n \in Covered(largeAllocated) THEN 1 ELSE 0
    BY CountInList DEF Inv, LargeInv, Objects
  <2>4. Cardinality({r \in largeFree : n \in UnitsOf(r)}) = IF n \in Covered(largeFree) THEN 1 ELSE 0
    BY CountInList DEF Inv, LargeInv, List
  <2>5. ~(n \in Covered(largeFree) /\ n \in Covered(largeAllocated))
    BY DEF Inv, LargeInv
  <2>6. CASE H = {}
    <3>1. n \in Covered(largeFree) \cup Covered(largeAllocated)
      BY <2>2, <2>6 DEF Inv, NothingLost
    <3>2. Cardinality(H) = 0
      BY <2>6, FS_EmptySet
    <3>3. QED
      BY <2>1, <2>3, <2>4, <2>5, <3>1, <3>2
  <2>7. CASE H # {}
    <3>1. PICK s \in Scavengers : s \in H /\ n \in Held(s)
      BY <2>2, <2>7
    <3>2. H = {s} /\ n \notin Covered(largeFree) /\ n \notin Covered(largeAllocated)
      BY <2>2, <3>1 DEF Inv, HeldInv
    <3>3. Cardinality(H) = 1
      BY <3>2, FS_Singleton
    <3>4. QED
      BY <2>1, <2>3, <2>4, <3>2, <3>3
  <2>8. QED
    BY <2>6, <2>7
<1>2. QED
  BY <1>1, InvHolds, PTL

(* The scavenger does not sleep over free physical memory, whichever steps  *)
(* of run() and of its loop meet.                                           *)
THEOREM NoMemoryLeftBehind == Spec => []NothingLeftBehind
<1>1. Inv => NothingLeftBehind
  <2> SUFFICES ASSUME Inv, state = "Sleeping", heapMutex = Null
               PROVE  /\ \A p \in SmallPages : smallPage[p] # "free"
                      /\ \A r \in largeFree : r.phys = 0
    BY DEF NothingLeftBehind
  <2>1. ~Requesting
    BY AsyncTaskAssumption DEF Requesting, Inv, DueInv
  <2>2. (\A p \in SmallPages : smallPage[p] # "free") /\ Physical(largeFree) = {}
    BY <2>1 DEF Inv, DueInv
  <2>3. \A r \in largeFree : Piece(r) /\ PhysOf(r) \subseteq Physical(largeFree)
    BY ListCovered DEF Inv, LargeInv, WellFormed
  <2>4. \A r \in largeFree : PhysOf(r) = {}
    BY <2>2, <2>3
  <2>5. QED
    BY <2>2, <2>3, <2>4, PieceUnits
<1>2. QED
  BY <1>1, InvHolds, PTL
=============================================================================
