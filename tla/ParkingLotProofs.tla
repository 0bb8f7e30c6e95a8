--------------------------- MODULE ParkingLotProofs ---------------------------
(***************************************************************************)
(* Proofs about WTF::ParkingLot for any finite sets of threads and          *)
(* addresses and any callers.  Timeouts race with everything else; with     *)
(* them the promises hold as long as no thread parks again before the       *)
(* unparker that dequeued it has cleared its address (NoStaleUnparker), and *)
(* without them always.                                                     *)
(***************************************************************************)
EXTENDS ParkingLotClients, FiniteSetTheorems, SequenceTheorems, TLAPS

-----------------------------------------------------------------------------
(* Queues as sets.                                                          *)

Distinct(q) == \A i, j \in 1..Len(q) : q[i] = q[j] => i = j

LEMMA EmptyQueue == <<>> \in Seq(Threads) /\ Members(<<>>) = {} /\ Distinct(<<>>)
BY DEF Members, Distinct

LEMMA NonEmptyQueue ==
    ASSUME NEW q \in Seq(Threads)
    PROVE  /\ q # <<>> => Head(q) \in Members(q) /\ Head(q) \in Threads /\ Head(q) = q[1] /\ Len(q) >= 1
           /\ Members(q) # {} => q # <<>>
           /\ Members(q) \subseteq Threads
BY DEF Members

LEMMA AppendQueue ==
    ASSUME NEW q \in Seq(Threads), NEW t \in Threads, t \notin Members(q), Distinct(q)
    PROVE  /\ Append(q, t) \in Seq(Threads)
           /\ Members(Append(q, t)) = Members(q) \cup {t}
           /\ Distinct(Append(q, t))
<1>1. /\ Append(q, t) \in Seq(Threads) /\ Len(Append(q, t)) = Len(q) + 1 /\ Len(q) \in Nat
      /\ \A i \in 1..Len(q) : Append(q, t)[i] = q[i]
      /\ Append(q, t)[Len(q) + 1] = t
  BY AppendProperties
<1>2. Members(Append(q, t)) = Members(q) \cup {t}
  BY <1>1 DEF Members
<1>3. Distinct(Append(q, t))
  BY <1>1 DEF Members, Distinct
<1>4. QED
  BY <1>1, <1>2, <1>3

LEMMA TailQueue ==
    ASSUME NEW q \in Seq(Threads), q # <<>>, Distinct(q)
    PROVE  /\ Tail(q) \in Seq(Threads) /\ Distinct(Tail(q))
           /\ Members(Tail(q)) = Members(q) \ {Head(q)}
           /\ (Tail(q) = <<>>) <=> (Len(q) = 1)
<1>1. /\ Tail(q) \in Seq(Threads) /\ Len(Tail(q)) = Len(q) - 1 /\ Len(q) \in Nat /\ Len(q) >= 1
      /\ \A i \in 1..(Len(q) - 1) : Tail(q)[i] = q[i + 1]
      /\ Head(q) = q[1]
  OBVIOUS
<1>2. Distinct(Tail(q))
  BY <1>1 DEF Distinct
<1>3. Members(Tail(q)) \subseteq Members(q) \ {Head(q)}
  BY <1>1 DEF Members, Distinct
<1>4. ASSUME NEW w \in Members(q), w # Head(q) PROVE w \in Members(Tail(q))
  <2>1. PICK i \in 1..Len(q) : q[i] = w
    BY DEF Members
  <2>2. i - 1 \in 1..Len(Tail(q)) /\ Tail(q)[i - 1] = w
    BY <1>1, <1>4, <2>1
  <2>3. QED
    BY <2>2 DEF Members
<1>5. (Tail(q) = <<>>) <=> (Len(q) = 1)
  <2>1. \A r \in Seq(Threads) : r = <<>> <=> Len(r) = 0
    BY EmptySeq
  <2>2. (Tail(q) = <<>>) <=> (Len(Tail(q)) = 0)
    BY <1>1, <2>1
  <2>3. QED
    BY <1>1, <2>2
<1>6. QED
  BY <1>1, <1>2, <1>3, <1>4, <1>5

(* A walk that finds all of a list, none of it, or all but one.             *)
LEMMA KeptAll ==
    ASSUME NEW q \in Seq(Threads), NEW S, Members(q) \subseteq S
    PROVE  Kept(q, S) = q
<1> DEFINE K == {i \in 1..Len(q) : q[i] \in S}
           below(i) == Cardinality({k \in K : k <= i})
           place(j) == CHOOSE i \in K : below(i) = j
<1>1. Kept(q, S) = [j \in 1..Cardinality(K) |-> q[place(j)]]
  BY DEF Kept
<1>2. Len(q) \in Nat /\ K = 1..Len(q)
  BY DEF Members
<1> HIDE DEF K
<1>3. Cardinality(K) = Len(q)
  BY <1>2, FS_Interval
<1>4. ASSUME NEW i \in K PROVE below(i) = i
  <2>1. {k \in K : k <= i} = 1..i /\ i \in Int /\ i >= 1
    BY <1>2
  <2>2. Cardinality(1..i) = i
    BY <2>1, FS_Interval
  <2>3. QED
    BY <2>1, <2>2
<1> HIDE DEF below
<1>5. \A j \in 1..Len(q) : place(j) = j
  BY <1>2, <1>4
<1> HIDE DEF place
<1>6. Kept(q, S) = [j \in 1..Len(q) |-> q[j]]
  BY <1>1, <1>3, <1>5
<1>7. QED
  BY <1>2, <1>6

LEMMA KeptNone ==
    ASSUME NEW q \in Seq(Threads), NEW S, Members(q) \cap S = {}
    PROVE  Kept(q, S) = <<>>
<1> DEFINE K == {i \in 1..Len(q) : q[i] \in S}
           place(j) == CHOOSE i \in K : Cardinality({k \in K : k <= i}) = j
<1>1. Kept(q, S) = [j \in 1..Cardinality(K) |-> q[place(j)]]
  BY DEF Kept
<1>2. K = {}
  BY DEF Members
<1> HIDE DEF K
<1>3. Cardinality(K) = 0
  BY <1>2, FS_EmptySet
<1> HIDE DEF place
<1>4. QED
  BY <1>1, <1>3

LEMMA KeptOthers ==
    ASSUME NEW q \in Seq(Threads), NEW t \in Threads, Distinct(q)
    PROVE  /\ Kept(q, Threads \ {t}) \in Seq(Threads)
           /\ Members(Kept(q, Threads \ {t})) = Members(q) \ {t}
           /\ Distinct(Kept(q, Threads \ {t}))
<1> DEFINE K == {i \in 1..Len(q) : q[i] \in Threads \ {t}}
           below(i) == Cardinality({k \in K : k <= i})
           place(j) == CHOOSE i \in K : below(i) = j
           r == Kept(q, Threads \ {t})
<1>0. r = [j \in 1..Cardinality(K) |-> q[place(j)]]
  BY DEF Kept
<1>1. CASE t \notin Members(q)
  <2>1. Members(q) \subseteq Threads \ {t}
    BY <1>1, NonEmptyQueue
  <2>2. r = q
    BY <2>1, KeptAll
  <2>3. QED
    BY <1>1, <2>2
<1>2. CASE t \in Members(q)
  <2>1. PICK p \in 1..Len(q) : q[p] = t
    BY <1>2 DEF Members
  <2>2. Len(q) \in Nat /\ p \in Nat /\ K = (1..Len(q)) \ {p} /\ \A i \in 1..Len(q) : q[i] \in Threads
    BY <2>1 DEF Distinct
  <2> HIDE DEF K, r
  <2>3. Cardinality(K) = Len(q) - 1
    <3>1. IsFiniteSet(1..Len(q)) /\ Cardinality(1..Len(q)) = Len(q)
      BY <2>2, FS_Interval
    <3>2. Cardinality((1..Len(q)) \ {p}) = Len(q) - 1
      BY <2>1, <3>1, FS_RemoveElement
    <3>3. QED
      BY <2>2, <3>2
  <2>4. ASSUME NEW i \in K PROVE below(i) = IF i < p THEN i ELSE i - 1
    <3>1. i \in Int /\ i >= 1 /\ i # p /\ i <= Len(q)
      BY <2>2
    <3>2. IsFiniteSet(1..i) /\ Cardinality(1..i) = i
      BY <3>1, FS_Interval
    <3>3. CASE i < p
      <4>1. {k \in K : k <= i} = 1..i
        BY <2>1, <2>2, <3>1, <3>3
      <4>2. QED
        BY <3>2, <3>3, <4>1
    <3>4. CASE i > p
      <4>1. {k \in K : k <= i} = (1..i) \ {p} /\ p \in 1..i
        BY <2>1, <2>2, <3>1, <3>4
      <4>2. Cardinality((1..i) \ {p}) = i - 1
        BY <3>2, <4>1, FS_RemoveElement
      <4>3. below(i) = i - 1
        BY <4>1, <4>2
      <4>4. QED
        BY <2>2, <3>1, <3>4, <4>3
    <3>5. QED
      BY <2>2, <3>1, <3>3, <3>4
  <2> HIDE DEF below
  <2>5. ASSUME NEW j \in 1..(Len(q) - 1)
        PROVE  place(j) = IF j < p THEN j ELSE j + 1
    <3>1. (IF j < p THEN j ELSE j + 1) \in K
      BY <2>2
    <3>2. \A i \in K : below(i) = j <=> i = IF j < p THEN j ELSE j + 1
      BY <2>2, <2>4
    <3>3. QED
      BY <3>1, <3>2
  <2> HIDE DEF place
  <2>6. r = [j \in 1..(Len(q) - 1) |-> q[IF j < p THEN j ELSE j + 1]]
    BY <1>0, <2>3, <2>5
  <2>7. Len(q) - 1 \in Nat
    BY <2>1, <2>2
  <2>8. r \in Seq(Threads) /\ Len(r) = Len(q) - 1
    BY <2>2, <2>6, <2>7
  <2>9. \A j \in 1..(Len(q) - 1) : r[j] = q[IF j < p THEN j ELSE j + 1]
    BY <2>6
  <2>10. Distinct(r)
    BY <2>2, <2>8, <2>9, SMTT(30) DEF Distinct
  <2>11. Members(r) \subseteq Members(q) \ {t}
    BY <2>1, <2>2, <2>8, <2>9 DEF Members, Distinct
  <2>12. ASSUME NEW w \in Members(q), w # t PROVE w \in Members(r)
    <3>1. PICK i \in 1..Len(q) : q[i] = w
      BY DEF Members
    <3>2. i # p
      BY <2>1, <2>12, <3>1
    <3>3. CASE i < p
      <4>1. i \in 1..Len(r) /\ r[i] = w
        BY <2>1, <2>2, <2>8, <2>9, <3>1, <3>3
      <4>2. QED
        BY <4>1 DEF Members
    <3>4. CASE i > p
      <4>1. i - 1 \in 1..Len(r) /\ r[i - 1] = w
        BY <2>1, <2>2, <2>8, <2>9, <3>1, <3>4, SMTT(30)
      <4>2. QED
        BY <4>1 DEF Members
    <3>5. QED
      BY <2>2, <3>2, <3>3, <3>4
  <2>13. QED
    BY <2>8, <2>10, <2>11, <2>12 DEF r
<1>3. QED
  BY <1>1, <1>2

-----------------------------------------------------------------------------
(* The inductive invariant.                                                 *)

Asleep == {"beforeSleep", "check", "sleeping"}

\* Waking(u, t), with threadDatas taken as a set.
ToWake(u, t) ==
    t \in Members(threadDatas[u]) /\ (unparkPc[u] = "notify" => t # Head(threadDatas[u]))

(* A thread on a queue is there once, has the address, and no unpark call   *)
(* has been spent on it.                                                    *)
QueueInv ==
    \A a \in Addresses :
        /\ Distinct(queue[a])
        /\ \A t \in Members(queue[a]) :
              /\ address[t] = a /\ parkAddress[t] = a /\ ~unparked[t]
              /\ parkPc[t] \in Asleep \cup {"dequeueSelf"}

(* A thread that has been dequeued is on no queue and in the hands of one   *)
(* unparker; it keeps its address until it is cleared, unless it times out, *)
(* and then it is not on its way to be queued again.                        *)
WakeInv ==
    /\ \A u \in Threads : Distinct(threadDatas[u]) /\ (unparkPc[u] = "idle" <=> threadDatas[u] = <<>>)
    /\ \A u, t \in Threads :
          ToWake(u, t) => /\ parkPc[t] # "enqueue" /\ \A a \in Addresses : t \notin Members(queue[a])
                          /\ parkPc[t] \in Asleep => address[t] # Null /\ unparked[t]
                          /\ \A v \in Threads : ToWake(v, t) => v = u

(* What each place in parkConditionallyImpl() says of its thread.           *)
ThreadInv ==
    \A t \in Threads :
        /\ parkPc[t] \in {"idle", "enqueue", "true", "false"} => address[t] = Null
        /\ parkPc[t] \in {"idle", "enqueue"} => ~unparked[t]
        /\ parkPc[t] = "true" => unparked[t]
        /\ parkPc[t] = "false" /\ unparked[t] => expired[t]
        /\ parkPc[t] \in {"dequeueSelf", "clearSelf"} => expired[t]
        /\ parkPc[t] \notin {"idle", "true", "false"} => parkAddress[t] \in Addresses
        /\ address[t] \in {Null, parkAddress[t]}
        /\ parkPc[t] \in Asleep =>
              IF address[t] = Null
              THEN /\ unparked[t]
                   /\ parkPc[t] = "sleeping" =>
                        \E u \in Threads : unparkPc[u] = "notify" /\ Head(threadDatas[u]) = t
              ELSE t \in Members(queue[address[t]]) \/ \E u \in Threads : ToWake(u, t)

LotInv == LotTypeOK /\ QueueInv /\ WakeInv /\ ThreadInv

LEMMA WakingAsSet ==
    ASSUME NEW q \in Seq(Threads), NEW l \in UnparkLabels, l = "idle" <=> q = <<>>,
           Distinct(q), NEW t
    PROVE  (l # "idle" /\ \E i \in 1..Len(q) : q[i] = t /\ (i = 1 => l = "clear"))
              <=> (t \in Members(q) /\ (l = "notify" => t # Head(q)))
<1>1. CASE q = <<>>
  BY <1>1 DEF Members
<1>2. CASE q # <<>>
  <2>1. Head(q) = q[1] /\ 1 \in 1..Len(q)
    BY <1>2
  <2>2. QED
    BY <1>2, <2>1 DEF Members, Distinct, UnparkLabels
<1>3. QED
  BY <1>1, <1>2

LEMMA LotInitInv == LotInit => LotInv
<1> SUFFICES ASSUME LotInit PROVE LotInv
  OBVIOUS
<1> USE ParkingAssumption, EmptyQueue DEF LotInit
<1>1. LotTypeOK
  BY DEF LotTypeOK, ParkLabels, UnparkLabels
<1>2. QueueInv
  BY DEF QueueInv
<1>3. WakeInv
  BY DEF WakeInv, ToWake
<1>4. ThreadInv
  BY DEF ThreadInv, Asleep
<1>5. QED
  BY <1>1, <1>2, <1>3, <1>4 DEF LotInv

LEMMA LotUnchanged == LotInv /\ UNCHANGED lotVars => LotInv'
BY DEF LotInv, LotTypeOK, QueueInv, WakeInv, ThreadInv, ToWake, lotVars, parkVars, unparkVars

(* The steps of a call that change no queue and nobody's address.           *)
LEMMA ParkBeginInv ==
    ASSUME LotInv, NEW t \in Threads, NEW a \in Addresses, NEW finite \in BOOLEAN,
           ParkBegin(t, a, finite), \A u \in Threads : ~ToWake(u, t)
    PROVE  LotInv'
<1> USE ParkingAssumption DEF LotInv, ParkBegin, ParkGoto, unparkVars
<1>1. LotTypeOK'
  BY DEF LotTypeOK, ParkLabels
<1>2. QueueInv' /\ WakeInv'
  BY DEF LotTypeOK, QueueInv, WakeInv, ToWake, Asleep
<1>3. ThreadInv'
  BY DEF LotTypeOK, ThreadInv, ToWake, Asleep
<1>4. QED
  BY <1>1, <1>2, <1>3

LEMMA ParkReturnedInv ==
    ASSUME LotInv, NEW t \in Threads, ParkReturned(t) PROVE LotInv'
<1> USE ParkingAssumption DEF LotInv, ParkReturned, ParkGoto, unparkVars
<1>1. LotTypeOK'
  BY DEF LotTypeOK, ParkLabels
<1>2. \A a \in Addresses : t \notin Members(queue[a])
  BY DEF QueueInv, Asleep
<1>3. QueueInv'
  BY <1>2, NonEmptyQueue DEF LotTypeOK, QueueInv
<1>4. WakeInv'
  BY DEF LotTypeOK, WakeInv, ToWake, Asleep, ParkLabels
<1>5. ThreadInv'
  BY DEF LotTypeOK, ThreadInv, ToWake, Asleep
<1>6. QED
  BY <1>1, <1>3, <1>4, <1>5

LEMMA ParkEnqueueInv ==
    ASSUME LotInv, NEW t \in Threads, NEW valid \in BOOLEAN, ParkEnqueue(t, valid)
    PROVE  LotInv'
<1> USE ParkingAssumption DEF LotInv
<1>1. /\ parkPc[t] = "enqueue" /\ parkAddress[t] \in Addresses /\ address[t] = Null /\ ~unparked[t]
      /\ UNCHANGED <<unparked, unparkPc, threadDatas>>
      /\ \A a \in Addresses : t \notin Members(queue[a])
      /\ \A u \in Threads : ~ToWake(u, t)
  BY DEF ParkEnqueue, ThreadInv, QueueInv, WakeInv, Asleep, unparkVars
<1>2. CASE ~valid
  <2> USE <1>2 DEF ParkEnqueue, ParkReturn, ParkGoto
  <2>1. LotTypeOK'
    BY <1>1 DEF LotTypeOK, ParkLabels
  <2>2. QueueInv'
    <3>1. \A a \in Addresses : Members(queue[a]) \subseteq Threads
      BY NonEmptyQueue DEF LotTypeOK
    <3>2. /\ queue' = queue /\ address' = address
          /\ \A w \in Threads \ {t} : parkPc'[w] = parkPc[w] /\ parkAddress'[w] = parkAddress[w]
      BY DEF LotTypeOK
    <3>3. QED
      BY <1>1, <3>1, <3>2 DEF QueueInv
  <2>3. WakeInv'
    BY <1>1 DEF LotTypeOK, WakeInv, ToWake
  <2>4. ThreadInv'
    BY <1>1 DEF LotTypeOK, ThreadInv, ToWake, Asleep
  <2>5. QED
    BY <2>1, <2>2, <2>3, <2>4
<1>3. CASE valid
  <2> DEFINE a == parkAddress[t]
             q == Append(queue[a], t)
  <2>1. /\ address' = [address EXCEPT ![t] = a] /\ queue' = [queue EXCEPT ![a] = q]
        /\ parkPc' = [parkPc EXCEPT ![t] = "beforeSleep"]
        /\ UNCHANGED <<parkAddress, timed, expired>>
    BY <1>3 DEF ParkEnqueue, ParkGoto
  <2>2. q \in Seq(Threads) /\ Members(q) = Members(queue[a]) \cup {t} /\ Distinct(q)
    BY <1>1, AppendQueue DEF LotTypeOK, QueueInv
  <2> HIDE DEF q
  <2>3. LotTypeOK'
    BY <1>1, <2>1, <2>2 DEF LotTypeOK, ParkLabels
  <2>4. QueueInv'
    <3>1. ASSUME NEW b \in Addresses
          PROVE  /\ Distinct(queue'[b])
                 /\ Members(queue'[b]) = IF b = a THEN Members(queue[a]) \cup {t} ELSE Members(queue[b])
      BY <1>1, <2>1, <2>2 DEF LotTypeOK, QueueInv
    <3>2. \A b \in Addresses : Members(queue[b]) \subseteq Threads
      BY NonEmptyQueue DEF LotTypeOK
    <3>3. ASSUME NEW b \in Addresses, NEW w \in Members(queue'[b])
          PROVE  /\ address'[w] = b /\ parkAddress'[w] = b /\ ~unparked'[w]
                 /\ parkPc'[w] \in Asleep \cup {"dequeueSelf"}
      <4>1. CASE w = t
        BY <1>1, <2>1, <3>1, <3>3, <4>1 DEF LotTypeOK, Asleep
      <4>2. CASE w # t
        <5>1. w \in Members(queue[b]) /\ w \in Threads
          BY <3>1, <3>2, <3>3, <4>2
        <5>2. QED
          BY <1>1, <2>1, <4>2, <5>1 DEF LotTypeOK, QueueInv
      <4>3. QED
        BY <4>1, <4>2
    <3>4. QED
      BY <3>1, <3>3 DEF QueueInv
  <2>5. WakeInv'
    <3>1. \A u, w \in Threads : ToWake(u, w)' <=> ToWake(u, w)
      BY <1>1 DEF ToWake
    <3>2. \A b \in Addresses : Members(queue'[b]) \subseteq Members(queue[b]) \cup {t}
      BY <1>1, <2>1, <2>2 DEF LotTypeOK
    <3>3. \A w \in Threads \ {t} : parkPc'[w] = parkPc[w] /\ address'[w] = address[w]
      BY <2>1 DEF LotTypeOK
    <3>4. QED
      BY <1>1, <3>1, <3>2, <3>3 DEF WakeInv
  <2>6. ThreadInv'
    BY <1>1, <2>1, <2>2 DEF LotTypeOK, ThreadInv, ToWake, Asleep
  <2>7. QED
    BY <2>3, <2>4, <2>5, <2>6
<1>4. QED
  BY <1>2, <1>3

LEMMA BeforeSleepReturnsInv ==
    ASSUME LotInv, NEW t \in Threads, BeforeSleepReturns(t) PROVE LotInv'
<1> USE ParkingAssumption DEF LotInv, BeforeSleepReturns, ParkGoto, unparkVars
<1>1. LotTypeOK'
  BY DEF LotTypeOK, ParkLabels
<1>2. QueueInv' /\ WakeInv'
  BY DEF LotTypeOK, QueueInv, WakeInv, ToWake, Asleep
<1>3. ThreadInv'
  BY DEF LotTypeOK, ThreadInv, ToWake, Asleep
<1>4. QED
  BY <1>1, <1>2, <1>3

(* A thread that has seen its timeout pass may be linked or be about to be  *)
(* woken; one that returns true is in nobody's hands.                       *)
LEMMA SleepCheckInv ==
    ASSUME LotInv, NEW t \in Threads, SleepCheck(t) PROVE LotInv'
<1> USE ParkingAssumption DEF LotInv
<1>1. /\ parkPc[t] = "check" /\ parkAddress[t] \in Addresses
      /\ UNCHANGED <<queue, address, unparked, unparkPc, threadDatas>>
  BY DEF SleepCheck, unparkVars, ThreadInv
<1>2. CASE address[t] = Null /\ ParkReturn(t, "true")
  <2> USE <1>1, <1>2 DEF ParkReturn, ParkGoto
  <2>1. LotTypeOK'
    BY DEF LotTypeOK, ParkLabels
  <2>2. QueueInv'
    BY NonEmptyQueue DEF LotTypeOK, QueueInv
  <2>3. WakeInv'
    BY DEF LotTypeOK, WakeInv, ToWake, Asleep
  <2>4. ThreadInv'
    BY DEF LotTypeOK, ThreadInv, ToWake, Asleep
  <2>5. QED
    BY <2>1, <2>2, <2>3, <2>4
<1>3. CASE /\ address[t] # Null
           /\ ParkGoto(t, IF expired[t] THEN "dequeueSelf" ELSE "sleeping")
           /\ UNCHANGED <<parkAddress, timed, expired>>
  <2>1. LotTypeOK'
    BY <1>1, <1>3 DEF LotTypeOK, ParkGoto, ParkLabels
  <2>2. QueueInv'
    BY <1>1, <1>3 DEF LotTypeOK, QueueInv, ParkGoto, Asleep
  <2>3. WakeInv'
    BY <1>1, <1>3 DEF LotTypeOK, WakeInv, ToWake, ParkGoto, Asleep
  <2>4. ThreadInv'
    BY <1>1, <1>3 DEF LotTypeOK, ThreadInv, ToWake, ParkGoto, Asleep
  <2>5. QED
    BY <2>1, <2>2, <2>3, <2>4
<1>4. QED
  BY <1>2, <1>3 DEF SleepCheck

LEMMA WakeupInv ==
    ASSUME LotInv, NEW t \in Threads, TimeoutWakeup(t) \/ SpuriousWakeup(t) PROVE LotInv'
<1> USE ParkingAssumption DEF LotInv
<1>1. /\ parkPc[t] = "sleeping" /\ parkPc' = [parkPc EXCEPT ![t] = "check"]
      /\ UNCHANGED <<queue, address, parkAddress, timed, expired, unparked, unparkPc, threadDatas>>
  BY DEF TimeoutWakeup, SpuriousWakeup, ParkGoto, unparkVars
<1>2. LotTypeOK'
  BY <1>1 DEF LotTypeOK, ParkLabels
<1>3. QueueInv' /\ WakeInv'
  BY <1>1 DEF LotTypeOK, QueueInv, WakeInv, ToWake, Asleep
<1>4. ThreadInv'
  BY <1>1 DEF LotTypeOK, ThreadInv, ToWake, Asleep
<1>5. QED
  BY <1>2, <1>3, <1>4

LEMMA ExpireInv == ASSUME LotInv, NEW t \in Threads, Expire(t) PROVE LotInv'
<1> USE DEF LotInv, Expire, unparkVars
<1>1. LotTypeOK'
  BY DEF LotTypeOK
<1>2. QueueInv' /\ WakeInv' /\ ThreadInv'
  BY DEF QueueInv, WakeInv, ThreadInv, ToWake
<1>3. QED
  BY <1>1, <1>2

LEMMA DequeueSelfInv == ASSUME LotInv, NEW t \in Threads, DequeueSelf(t) PROVE LotInv'
<1> USE ParkingAssumption DEF LotInv
<1> DEFINE a == parkAddress[t]
           q == Kept(queue[a], Threads \ {t})
<1>1. /\ parkPc[t] = "dequeueSelf" /\ a \in Addresses
      /\ queue' = [queue EXCEPT ![a] = q] /\ parkPc' = [parkPc EXCEPT ![t] = "clearSelf"]
      /\ UNCHANGED <<address, parkAddress, timed, expired, unparked, unparkPc, threadDatas>>
  BY DEF DequeueSelf, ParkGoto, unparkVars, ThreadInv
<1>2. q \in Seq(Threads) /\ Members(q) = Members(queue[a]) \ {t} /\ Distinct(q)
  BY <1>1, KeptOthers DEF LotTypeOK, QueueInv
<1> HIDE DEF q
<1>3. LotTypeOK'
  BY <1>1, <1>2 DEF LotTypeOK, ParkLabels
<1>4. \A b \in Addresses : /\ Distinct(queue'[b])
                           /\ Members(queue'[b]) = Members(queue[b]) \ {t}
  BY <1>1, <1>2 DEF LotTypeOK, QueueInv
<1>5. QueueInv'
  BY <1>1, <1>4 DEF LotTypeOK, QueueInv
<1>6. WakeInv'
  BY <1>1, <1>4 DEF LotTypeOK, WakeInv, ToWake, Asleep
<1>7. ThreadInv'
  <2>1. \A u, v \in Threads : ToWake(u, v)' <=> ToWake(u, v)
    BY <1>1 DEF ToWake
  <2>2. ASSUME NEW v \in Threads, v # t
        PROVE  /\ parkPc'[v] = parkPc[v]
               /\ \A b \in Addresses : v \in Members(queue'[b]) <=> v \in Members(queue[b])
    BY <1>1, <1>4, <2>2 DEF LotTypeOK
  <2>3. parkPc'[t] = "clearSelf"
    BY <1>1 DEF LotTypeOK
  <2>4. QED
    BY <1>1, <2>1, <2>2, <2>3 DEF LotTypeOK, ThreadInv, Asleep
<1>8. QED
  BY <1>3, <1>5, <1>6, <1>7

LEMMA ClearSelfInv == ASSUME LotInv, NEW t \in Threads, ClearSelf(t) PROVE LotInv'
<1> USE ParkingAssumption DEF LotInv, ClearSelf, ParkReturn, ParkGoto, unparkVars
<1>1. LotTypeOK'
  BY DEF LotTypeOK, ParkLabels
<1>2. \A a \in Addresses : t \notin Members(queue[a]) /\ Members(queue[a]) \subseteq Threads
  BY NonEmptyQueue DEF QueueInv, Asleep, LotTypeOK
<1>3. QueueInv'
  BY <1>2 DEF LotTypeOK, QueueInv
<1>4. WakeInv'
  BY DEF LotTypeOK, WakeInv, ToWake, Asleep
<1>5. ThreadInv'
  BY DEF LotTypeOK, ThreadInv, ToWake, Asleep
<1>6. QED
  BY <1>1, <1>3, <1>4, <1>5

(* The unparking side: the threads ws, some of those on the queue of a, are *)
(* unlinked by t.                                                           *)
LEMMA UnlinkedInv ==
    ASSUME LotInv, NEW t \in Threads, NEW a \in Addresses, unparkPc[t] = "idle",
           NEW ws \in Seq(Threads), Distinct(ws), Members(ws) \subseteq Members(queue[a]),
           NEW q \in Seq(Threads), Distinct(q), Members(q) = Members(queue[a]) \ Members(ws),
           queue' = [queue EXCEPT ![a] = q], Unlinked(t, ws), UNCHANGED <<address, parkVars>>
    PROVE  LotInv'
<1> USE ParkingAssumption DEF LotInv
<1>1. /\ threadDatas' = [threadDatas EXCEPT ![t] = ws]
      /\ unparkPc' = [unparkPc EXCEPT ![t] = IF ws = <<>> THEN "idle" ELSE "clear"]
      /\ unparked' \in [Threads -> BOOLEAN]
      /\ \A w \in Threads : unparked'[w] <=> unparked[w] \/ w \in Members(ws)
      /\ UNCHANGED <<address, parkPc, parkAddress, timed, expired>>
  BY DEF Unlinked, Members, parkVars, LotTypeOK
<1>2. LotTypeOK'
  BY <1>1 DEF LotTypeOK, UnparkLabels
<1>3. /\ \A b \in Addresses : Members(queue[b]) \subseteq Threads
      /\ Members(ws) \subseteq Threads
      /\ \A b \in Addresses : Members(queue'[b]) = Members(queue[b]) \ Members(ws) /\ Distinct(queue'[b])
  BY <1>1, NonEmptyQueue DEF LotTypeOK, QueueInv
<1>4. QueueInv'
  BY <1>1, <1>3 DEF QueueInv
<1>5. \A u, w \in Threads : ToWake(u, w)' <=> IF u = t THEN w \in Members(ws) ELSE ToWake(u, w)
  BY <1>1, EmptyQueue DEF ToWake, LotTypeOK
<1>6. \A u \in Threads : Distinct(threadDatas'[u]) /\ (unparkPc'[u] = "idle" <=> threadDatas'[u] = <<>>)
  BY <1>1 DEF WakeInv, LotTypeOK
<1>7. ASSUME NEW w \in Members(ws)
      PROVE  /\ w \in Threads /\ address[w] = a /\ parkPc[w] \in Asleep \cup {"dequeueSelf"}
             /\ \A b \in Addresses : w \notin Members(queue'[b])
  BY <1>3 DEF QueueInv
<1>8. \A u \in Threads, w \in Members(ws) : ~ToWake(u, w)
  BY <1>3 DEF QueueInv, WakeInv
<1>9. \A w \in Threads : ~ToWake(t, w)
  BY EmptyQueue DEF WakeInv, ToWake
<1>10. WakeInv'
  <2>1. ASSUME NEW u \in Threads, NEW w \in Threads, ToWake(u, w)'
        PROVE  /\ parkPc[w] # "enqueue" /\ \A b \in Addresses : w \notin Members(queue'[b])
               /\ parkPc[w] \in Asleep => address[w] # Null /\ unparked'[w]
               /\ \A v \in Threads : ToWake(v, w)' => v = u
    <3>1. CASE u = t
      BY <1>1, <1>5, <1>7, <1>8, <2>1, <3>1 DEF Asleep
    <3>2. CASE u # t
      BY <1>1, <1>3, <1>5, <1>8, <2>1, <3>2 DEF WakeInv
    <3>3. QED
      BY <3>1, <3>2
  <2>2. QED
    BY <1>1, <1>6, <2>1 DEF WakeInv
<1>11. ThreadInv'
  <2>1. ASSUME NEW w \in Threads, parkPc[w] \in Asleep, address[w] # Null
        PROVE  w \in Members(queue'[address[w]]) \/ \E u \in Threads : ToWake(u, w)'
    <3>1. address[w] \in Addresses
      BY <2>1 DEF LotTypeOK
    <3>2. CASE w \in Members(queue[address[w]])
      BY <1>3, <1>5, <3>1, <3>2
    <3>3. ASSUME NEW u \in Threads, ToWake(u, w) PROVE ToWake(u, w)'
      BY <1>5, <1>9, <3>3
    <3>4. QED
      BY <2>1, <3>2, <3>3 DEF ThreadInv
  <2>2. ASSUME NEW w \in Threads, w \in Members(ws)
        PROVE  address[w] # Null /\ parkPc[w] \in Asleep \cup {"dequeueSelf"}
    BY <1>7, <2>2
  <2>3. ASSUME NEW w \in Threads, NEW u \in Threads, unparkPc[u] = "notify", Head(threadDatas[u]) = w
        PROVE  unparkPc'[u] = "notify" /\ Head(threadDatas'[u]) = w
    BY <1>1, <2>3 DEF LotTypeOK
  <2>4. QED
    BY <1>1, <2>1, <2>2, <2>3 DEF ThreadInv, Asleep
<1>12. QED
  BY <1>2, <1>4, <1>10, <1>11

LEMMA WaitingIsQueue == ASSUME LotInv, NEW a \in Addresses PROVE Waiting(a) = queue[a]
<1>1. queue[a] \in Seq(Threads) /\ Members(queue[a]) \subseteq {w \in Threads : address[w] = a}
  BY NonEmptyQueue DEF LotInv, LotTypeOK, QueueInv
<1>2. QED
  BY <1>1, KeptAll DEF Waiting

LEMMA OneThread ==
    ASSUME NEW w \in Threads
    PROVE  <<w>> \in Seq(Threads) /\ Members(<<w>>) = {w} /\ Distinct(<<w>>)
BY DEF Members, Distinct

LEMMA UnparkOneInv ==
    ASSUME LotInv, NEW t \in Threads, NEW a \in Addresses, UnparkOneDequeue(t, a)
    PROVE  /\ LotInv'
           /\ \A b \in Addresses \ {a} : queue'[b] = queue[b]
           /\ queue[a] = <<>> => queue' = queue
           /\ queue[a] # <<>> =>
                /\ queue'[a] \in Seq(Threads) /\ Members(queue'[a]) = Members(queue[a]) \ {Head(queue[a])}
                /\ parkPc[Head(queue[a])] \in Asleep \cup {"dequeueSelf"}
<1>1. /\ unparkPc[t] = "idle" /\ UNCHANGED <<address, parkVars>>
      /\ queue[a] \in Seq(Threads) /\ Distinct(queue[a]) /\ Waiting(a) = queue[a]
      /\ queue = [queue EXCEPT ![a] = queue[a]]
  BY WaitingIsQueue DEF UnparkOneDequeue, CanUnpark, LotInv, LotTypeOK, QueueInv
<1>2. CASE queue[a] = <<>>
  <2>1. Unlinked(t, <<>>) /\ queue' = queue
    BY <1>1, <1>2 DEF UnparkOneDequeue
  <2>2. Members(queue[a]) = Members(queue[a]) \ Members(<<>>)
    BY EmptyQueue
  <2>3. LotInv'
    BY <1>1, <2>1, <2>2, EmptyQueue, UnlinkedInv
  <2>4. QED
    BY <1>2, <2>1, <2>3
<1>3. CASE queue[a] # <<>>
  <2>1. PICK first \in Threads : first = Head(queue[a]) /\ first \in Members(queue[a])
    BY <1>1, <1>3, NonEmptyQueue
  <2> DEFINE q == Kept(queue[a], Threads \ {first})
  <2>2. Unlinked(t, <<first>>) /\ queue' = [queue EXCEPT ![a] = q]
    BY <1>1, <1>3, <2>1 DEF UnparkOneDequeue
  <2>3. q \in Seq(Threads) /\ Distinct(q) /\ Members(q) = Members(queue[a]) \ {first}
    BY <1>1, <2>1, KeptOthers
  <2>4. <<first>> \in Seq(Threads) /\ Members(<<first>>) = {first} /\ Distinct(<<first>>)
    BY <2>1, OneThread
  <2> HIDE DEF q
  <2>5. LotInv'
    BY <1>1, <2>1, <2>2, <2>3, <2>4, UnlinkedInv
  <2>6. parkPc[first] \in Asleep \cup {"dequeueSelf"}
    BY <2>1 DEF LotInv, QueueInv
  <2>7. queue'[a] = q /\ \A b \in Addresses \ {a} : queue'[b] = queue[b]
    BY <2>2 DEF LotInv, LotTypeOK
  <2>8. QED
    BY <1>3, <2>1, <2>3, <2>5, <2>6, <2>7
<1>4. QED
  BY <1>2, <1>3

LEMMA UnparkAllInv ==
    ASSUME LotInv, NEW t \in Threads, NEW a \in Addresses, UnparkAllDequeue(t, a)
    PROVE  LotInv' /\ queue' = [queue EXCEPT ![a] = <<>>]
<1>1. /\ unparkPc[t] = "idle" /\ UNCHANGED <<address, parkVars>>
      /\ queue[a] \in Seq(Threads) /\ Distinct(queue[a]) /\ Waiting(a) = queue[a]
      /\ Unlinked(t, queue[a])
      /\ queue' = [queue EXCEPT ![a] = Kept(queue[a], {w \in Threads : address[w] # a})]
  BY WaitingIsQueue DEF UnparkAllDequeue, CanUnpark, LotInv, LotTypeOK, QueueInv
<1>2. Members(queue[a]) \cap {w \in Threads : address[w] # a} = {}
  BY DEF LotInv, QueueInv
<1>3. Kept(queue[a], {w \in Threads : address[w] # a}) = <<>>
  BY <1>1, <1>2, KeptNone
<1>4. queue' = [queue EXCEPT ![a] = <<>>]
  BY <1>1, <1>3
<1>5. Members(<<>>) = Members(queue[a]) \ Members(queue[a])
  BY EmptyQueue
<1>6. QED
  BY <1>1, <1>4, <1>5, EmptyQueue, UnlinkedInv

LEMMA ClearAddressInv == ASSUME LotInv, NEW t \in Threads, ClearAddress(t) PROVE LotInv'
<1> USE ParkingAssumption DEF LotInv
<1> DEFINE w == Head(threadDatas[t])
<1>1. /\ unparkPc[t] = "clear" /\ address' = [address EXCEPT ![w] = Null]
      /\ unparkPc' = [unparkPc EXCEPT ![t] = "notify"]
      /\ UNCHANGED <<queue, parkPc, parkAddress, timed, expired, unparked, threadDatas>>
  BY DEF ClearAddress, parkVars
<1>2. w \in Threads /\ w \in Members(threadDatas[t])
  BY <1>1, NonEmptyQueue DEF WakeInv, LotTypeOK
<1>3. ToWake(t, w)
  BY <1>1, <1>2 DEF ToWake
<1> HIDE DEF w
<1>4. /\ parkPc[w] \in Asleep => unparked[w]
      /\ \A v \in Threads : ToWake(v, w) => v = t
      /\ \A a \in Addresses : w \notin Members(queue[a])
  BY <1>2, <1>3 DEF WakeInv, QueueInv
<1>5. \A u, x \in Threads : ToWake(u, x)' <=> ToWake(u, x) /\ x # w
  BY <1>1, <1>4 DEF ToWake, LotTypeOK, w
<1>6. LotTypeOK'
  BY <1>1, <1>2 DEF LotTypeOK, UnparkLabels
<1>7. QueueInv'
  <2>1. \A a \in Addresses : Members(queue[a]) \subseteq Threads
    BY NonEmptyQueue DEF LotTypeOK
  <2>2. QED
    BY <1>1, <1>4, <2>1 DEF QueueInv, LotTypeOK
<1>8. WakeInv'
  <2>1. \A u \in Threads : Distinct(threadDatas'[u]) /\ (unparkPc'[u] = "idle" <=> threadDatas'[u] = <<>>)
    BY <1>1 DEF WakeInv, LotTypeOK
  <2>2. QED
    BY <1>1, <1>5, <2>1 DEF WakeInv, LotTypeOK
<1>9. ThreadInv'
  <2>1. \A x \in Threads \ {w} : address'[x] = address[x]
    BY <1>1 DEF LotTypeOK
  <2>2. unparkPc'[t] = "notify" /\ Head(threadDatas'[t]) = w /\ address'[w] = Null
    BY <1>1, <1>2 DEF LotTypeOK, w
  <2>3. \A u \in Threads : unparkPc[u] = "notify" => unparkPc'[u] = "notify"
    BY <1>1 DEF LotTypeOK
  <2>4. QED
    BY <1>1, <1>4, <1>5, <2>1, <2>2, <2>3 DEF ThreadInv, Asleep
<1>10. QED
  BY <1>6, <1>7, <1>8, <1>9

LEMMA NotifyOneInv == ASSUME LotInv, NEW t \in Threads, NotifyOne(t) PROVE LotInv'
<1> USE ParkingAssumption DEF LotInv
<1> DEFINE w == Head(threadDatas[t])
           rest == Tail(threadDatas[t])
<1>1. /\ unparkPc[t] = "notify" /\ threadDatas' = [threadDatas EXCEPT ![t] = rest]
      /\ unparkPc' = [unparkPc EXCEPT ![t] = IF Len(threadDatas[t]) = 1 THEN "idle" ELSE "clear"]
      /\ UNCHANGED <<queue, address, parkAddress, timed, expired, unparked>>
      /\ parkPc' = IF parkPc[w] = "sleeping" THEN [parkPc EXCEPT ![w] = "check"] ELSE parkPc
  BY DEF NotifyOne
<1>2. threadDatas[t] \in Seq(Threads) /\ threadDatas[t] # <<>> /\ Distinct(threadDatas[t])
  BY <1>1 DEF WakeInv, LotTypeOK
<1>3. w \in Threads
  BY <1>2, NonEmptyQueue
<1>4. /\ rest \in Seq(Threads) /\ Distinct(rest) /\ Members(rest) = Members(threadDatas[t]) \ {w}
      /\ rest = <<>> <=> Len(threadDatas[t]) = 1
  BY <1>2, TailQueue
<1> HIDE DEF rest
<1>5. \A u, x \in Threads : ToWake(u, x)' <=> ToWake(u, x)
  BY <1>1, <1>4 DEF ToWake, LotTypeOK
<1> HIDE DEF w
<1>6. \A x \in Threads : /\ parkPc'[x] = IF x = w /\ parkPc[w] = "sleeping" THEN "check" ELSE parkPc[x]
                         /\ parkPc'[x] \in Asleep <=> parkPc[x] \in Asleep
  BY <1>1, <1>3 DEF LotTypeOK, Asleep
<1>7. LotTypeOK'
  BY <1>1, <1>3, <1>4 DEF LotTypeOK, UnparkLabels, ParkLabels
<1>8. QueueInv'
  <2>1. \A a \in Addresses : Members(queue[a]) \subseteq Threads
    BY NonEmptyQueue DEF LotTypeOK
  <2>2. QED
    BY <1>1, <1>6, <2>1 DEF QueueInv, Asleep
<1>9. WakeInv'
  <2>1. \A u \in Threads : Distinct(threadDatas'[u]) /\ (unparkPc'[u] = "idle" <=> threadDatas'[u] = <<>>)
    BY <1>1, <1>4 DEF WakeInv, LotTypeOK
  <2>2. QED
    BY <1>1, <1>5, <1>6, <2>1 DEF WakeInv
<1>10. ThreadInv'
  <2>1. ASSUME NEW x \in Threads, parkPc'[x] = "sleeping", NEW u \in Threads,
               unparkPc[u] = "notify", Head(threadDatas[u]) = x
        PROVE  unparkPc'[u] = "notify" /\ Head(threadDatas'[u]) = x
    <3>1. x # w
      BY <1>6, <2>1
    <3>2. u # t
      BY <2>1, <3>1 DEF w
    <3>3. QED
      BY <1>1, <2>1, <3>2 DEF LotTypeOK
  <2>2. QED
    BY <1>1, <1>5, <1>6, <2>1 DEF ThreadInv, Asleep
<1>11. QED
  BY <1>7, <1>8, <1>9, <1>10

(* Steps of calls under way, and of the clock and the system.               *)
LEMMA LotStepInv ==
    ASSUME LotInv, NEW t \in Threads, LotStep(t) \/ LotEnvironment(t)
    PROVE  LotInv'
BY SleepCheckInv, WakeupInv, ExpireInv, DequeueSelfInv, ClearSelfInv, ClearAddressInv, NotifyOneInv
   DEF LotStep, ParkStep, UnparkStep, LotEnvironment

(* Whoever begins a park call is in no unparker's hands.                    *)
ParksFresh ==
    \A t \in Threads, a \in Addresses, finite \in BOOLEAN :
        ParkBegin(t, a, finite) => \A u \in Threads : ~ToWake(u, t)

LEMMA LotNextInv == LotInv /\ ParksFresh /\ [LotNext]_lotVars => LotInv'
<1> SUFFICES ASSUME LotInv, ParksFresh, [LotNext]_lotVars PROVE LotInv'
  OBVIOUS
<1>1. ASSUME NEW t \in Threads, ClientPark(t) PROVE LotInv'
  BY <1>1, ParkBeginInv DEF ClientPark, ParksFresh
<1>2. ASSUME NEW t \in Threads, ClientUnpark(t) PROVE LotInv'
  BY <1>2, UnparkOneInv, UnparkAllInv DEF ClientUnpark
<1>3. ASSUME NEW t \in Threads, ParkCall(t) PROVE LotInv'
  BY <1>3, ParkEnqueueInv, BeforeSleepReturnsInv, ParkReturnedInv, LotStepInv
     DEF ParkCall, ClientEnqueue, LotStep
<1>4. ASSUME NEW t \in Threads, UnparkStep(t) \/ LotEnvironment(t) PROVE LotInv'
  BY <1>4, LotStepInv DEF LotStep
<1>5. QED
  BY <1>1, <1>2, <1>3, <1>4, LotUnchanged DEF LotNext

-----------------------------------------------------------------------------
(* What the invariant says.                                                 *)

LEMMA QueuedIsMember ==
    ASSUME NEW t \in Threads, NEW a \in Addresses
    PROVE  a \in Queued(t) <=> t \in Members(queue[a])
BY DEF Queued, Members

LEMMA WakingIsToWake ==
    ASSUME LotInv, NEW u \in Threads, NEW t \in Threads PROVE Waking(u, t) <=> ToWake(u, t)
<1>1. /\ threadDatas[u] \in Seq(Threads) /\ unparkPc[u] \in UnparkLabels /\ Distinct(threadDatas[u])
      /\ unparkPc[u] = "idle" <=> threadDatas[u] = <<>>
  BY DEF LotInv, WakeInv, LotTypeOK
<1>2. QED
  BY <1>1, WakingAsSet DEF Waking, ToWake

LEMMA LotPromises ==
    ASSUME LotInv
    PROVE  /\ QueuesConsistent /\ LotAssertionsHold /\ NoLostWakeup
           /\ SleepsWhileQueued /\ ResultTellsUnparked
<1> USE ParkingAssumption DEF LotInv
<1>1. QueuesConsistent
  BY DEF QueuesConsistent, QueueInv, Members, Distinct, Asleep
<1>2. ASSUME NEW t \in Threads, NEW a \in Queued(t)
      PROVE  /\ address[t] = a /\ ~unparked[t]
             /\ parkPc[t] \in {"beforeSleep", "check", "sleeping", "dequeueSelf"}
  <2>1. a \in Addresses /\ t \in Members(queue[a])
    BY QueuedIsMember DEF Queued
  <2>2. QED
    BY <2>1 DEF QueueInv, Asleep
<1>3. LotAssertionsHold
  BY <1>2 DEF LotAssertionsHold, ThreadInv
<1>4. NoLostWakeup
  <2>1. ASSUME NEW t \in Threads, parkPc[t] \in {"beforeSleep", "check", "sleeping"}, address[t] # Null
        PROVE  \/ Queued(t) = {address[t]} /\ \A u \in Threads : ~Waking(u, t)
               \/ /\ Queued(t) = {}
                  /\ \E u \in Threads : Waking(u, t) /\ \A v \in Threads \ {u} : ~Waking(v, t)
    <3>1. CASE t \in Members(queue[address[t]])
      <4>1. address[t] \in Queued(t)
        BY <2>1, <3>1, QueuedIsMember DEF LotTypeOK
      <4>2. Queued(t) = {address[t]} /\ ~unparked[t]
        BY <1>2, <4>1
      <4>3. \A u \in Threads : ~Waking(u, t)
        BY <2>1, <3>1, WakingIsToWake DEF WakeInv, LotTypeOK
      <4>4. QED
        BY <4>2, <4>3
    <3>2. ASSUME NEW u \in Threads, ToWake(u, t)
          PROVE  Queued(t) = {} /\ Waking(u, t) /\ \A v \in Threads \ {u} : ~Waking(v, t)
      <4>1. Queued(t) = {}
        BY <3>2, QueuedIsMember DEF WakeInv, Queued
      <4>2. QED
        BY <3>2, <4>1, WakingIsToWake DEF WakeInv
    <3>3. QED
      BY <2>1, <3>1, <3>2 DEF ThreadInv, Asleep
  <2>2. ASSUME NEW t \in Threads, parkPc[t] = "sleeping", address[t] = Null
        PROVE  \E u \in Threads : unparkPc[u] = "notify" /\ Head(threadDatas[u]) = t
    BY <2>2 DEF ThreadInv, Asleep
  <2>3. QED
    BY <2>1, <2>2 DEF NoLostWakeup
<1>5. SleepsWhileQueued
  BY <1>2 DEF SleepsWhileQueued
<1>6. ResultTellsUnparked
  BY DEF ResultTellsUnparked, ThreadInv
<1>7. QED
  BY <1>1, <1>3, <1>4, <1>5, <1>6

(* A step that begins a park call is not one into a state with a stale      *)
(* unparker.                                                                *)
LEMMA FreshUnlessStale == LotInv /\ NoStaleUnparker' => ParksFresh
<1> SUFFICES ASSUME LotInv, NoStaleUnparker', NEW t \in Threads, NEW a \in Addresses,
                    NEW finite \in BOOLEAN, ParkBegin(t, a, finite), NEW u \in Threads, ToWake(u, t)
             PROVE  FALSE
  BY DEF ParksFresh
<1>1. parkPc'[t] = "enqueue" /\ UNCHANGED <<unparkPc, threadDatas>>
  BY DEF ParkBegin, ParkGoto, unparkVars, LotInv, LotTypeOK
<1>2. Waking(u, t)'
  BY <1>1, WakingIsToWake DEF Waking
<1>3. QED
  BY <1>1, <1>2 DEF NoStaleUnparker

(* Without finite timeouts no call gets to where a timeout leads, and a     *)
(* thread that has been dequeued stays in its call until it is woken.       *)
NobodyTimesOut == \A t \in Threads : ~timed[t]
NobodyHasTimedOut ==
    /\ \A t \in Threads : ~expired[t] /\ parkPc[t] \notin {"dequeueSelf", "clearSelf"}
    /\ \A u, t \in Threads : ToWake(u, t) => parkPc[t] \in Asleep

LEMMA UntimedFresh == NobodyHasTimedOut => ParksFresh
BY DEF NobodyHasTimedOut, ParksFresh, ParkBegin, Asleep

(* What a call's result says: an unpark call was spent on the thread, or    *)
(* none was.                                                                *)
ResultIsExact ==
    \A t \in Threads : parkPc[t] \in {"true", "false"} => (parkPc[t] = "true" <=> unparked[t])

LEMMA UntimedPromises ==
    ASSUME LotInv, NobodyHasTimedOut PROVE UnparkAssertionHolds /\ ResultIsExact
<1> USE DEF LotInv, NobodyHasTimedOut
<1>1. ASSUME NEW u \in Threads, unparkPc[u] = "clear" PROVE address[Head(threadDatas[u])] # Null
  <2>1. Head(threadDatas[u]) \in Threads /\ ToWake(u, Head(threadDatas[u]))
    BY <1>1, NonEmptyQueue DEF WakeInv, ToWake, LotTypeOK
  <2>2. QED
    BY <2>1 DEF WakeInv
<1>2. QED
  BY <1>1 DEF UnparkAssertionHolds, ResultIsExact, ThreadInv

LEMMA UntimedStep ==
    ASSUME LotInv, NobodyTimesOut, NobodyHasTimedOut, NEW t \in Threads,
           \/ \E a \in Addresses, finite \in BOOLEAN : ParkBegin(t, a, finite)
           \/ \E valid \in BOOLEAN : ParkEnqueue(t, valid)
           \/ BeforeSleepReturns(t) \/ ParkReturned(t)
           \/ \E a \in Addresses : UnparkOneDequeue(t, a) \/ UnparkAllDequeue(t, a)
           \/ LotStep(t) \/ LotEnvironment(t)
    PROVE  NobodyHasTimedOut'
<1> USE DEF LotInv, LotTypeOK, NobodyTimesOut, NobodyHasTimedOut, Asleep
<1>1. CASE \E a \in Addresses, finite \in BOOLEAN : ParkBegin(t, a, finite)
  BY <1>1 DEF ParkBegin, ParkGoto, ToWake, unparkVars
<1>2. CASE \E valid \in BOOLEAN : ParkEnqueue(t, valid)
  <2>1. PICK valid \in BOOLEAN : ParkEnqueue(t, valid)
    BY <1>2
  <2>2. CASE valid
    BY <2>1, <2>2 DEF ParkEnqueue, ParkGoto, ToWake, unparkVars
  <2>3. CASE ~valid
    BY <2>1, <2>3 DEF ParkEnqueue, ParkReturn, ParkGoto, ToWake, unparkVars
  <2>4. QED
    BY <2>2, <2>3
<1>3. CASE BeforeSleepReturns(t) \/ ParkReturned(t)
  BY <1>3 DEF BeforeSleepReturns, ParkReturned, ParkGoto, ToWake, unparkVars
<1>4. CASE \E a \in Addresses : UnparkOneDequeue(t, a) \/ UnparkAllDequeue(t, a)
  <2>1. PICK a \in Addresses : UnparkOneDequeue(t, a) \/ UnparkAllDequeue(t, a)
    BY <1>4
  <2>2. UNCHANGED parkVars
    BY <2>1 DEF UnparkOneDequeue, UnparkAllDequeue
  <2>3. /\ queue[a] \in Seq(Threads) /\ Waiting(a) = queue[a]
        /\ \A w \in Members(queue[a]) : w \in Threads /\ parkPc[w] \in Asleep
    <3>1. queue[a] \in Seq(Threads) /\ Waiting(a) = queue[a]
      BY WaitingIsQueue
    <3>2. Members(queue[a]) \subseteq Threads
      BY <3>1, NonEmptyQueue
    <3>3. QED
      BY <3>1, <3>2 DEF QueueInv
  <2>4. PICK ws \in Seq(Threads) : Unlinked(t, ws) /\ Members(ws) \subseteq Members(queue[a])
    <3>1. CASE UnparkAllDequeue(t, a)
      BY <2>3, <3>1 DEF UnparkAllDequeue
    <3>2. CASE UnparkOneDequeue(t, a) /\ queue[a] = <<>>
      BY <2>3, <3>2, EmptyQueue DEF UnparkOneDequeue
    <3>3. CASE UnparkOneDequeue(t, a) /\ queue[a] # <<>>
      <4>1. Unlinked(t, <<Head(queue[a])>>)
        BY <2>3, <3>3 DEF UnparkOneDequeue
      <4>2. <<Head(queue[a])>> \in Seq(Threads) /\ Members(<<Head(queue[a])>>) \subseteq Members(queue[a])
        BY <2>3, <3>3, NonEmptyQueue DEF Members
      <4>3. QED
        BY <4>1, <4>2
    <3>4. QED
      BY <2>1, <3>1, <3>2, <3>3
  <2>5. \A u, w \in Threads : ToWake(u, w)' => ToWake(u, w) \/ w \in Members(queue[a])
    BY <2>4 DEF Unlinked, ToWake
  <2>6. QED
    BY <2>2, <2>3, <2>5 DEF parkVars
<1>5. CASE SleepCheck(t)
  <2>1. \A u, w \in Threads : ToWake(u, w)' <=> ToWake(u, w)
    BY <1>5 DEF SleepCheck, unparkVars, ToWake
  <2>2. CASE address[t] = Null /\ ParkReturn(t, "true")
    <3>1. \A u \in Threads : ~ToWake(u, t)
      BY <1>5, <2>2 DEF SleepCheck, WakeInv
    <3>2. QED
      BY <2>1, <2>2, <3>1 DEF ParkReturn, ParkGoto
  <2>3. CASE ParkGoto(t, "sleeping") /\ UNCHANGED expired
    BY <2>1, <2>3 DEF ParkGoto
  <2>4. QED
    BY <1>5, <2>2, <2>3 DEF SleepCheck
<1>6. CASE TimeoutWakeup(t) \/ DequeueSelf(t) \/ ClearSelf(t) \/ Expire(t)
  BY <1>6 DEF TimeoutWakeup, DequeueSelf, ClearSelf, Expire
<1>7. CASE ClearAddress(t)
  BY <1>7 DEF ClearAddress, parkVars, ToWake
<1>8. CASE NotifyOne(t)
  <2>1. threadDatas[t] \in Seq(Threads) /\ threadDatas[t] # <<>> /\ Distinct(threadDatas[t])
    BY <1>8 DEF NotifyOne, WakeInv
  <2>2. Members(Tail(threadDatas[t])) = Members(threadDatas[t]) \ {Head(threadDatas[t])}
    BY <2>1, TailQueue
  <2>3. \A u, w \in Threads : ToWake(u, w)' => ToWake(u, w)
    BY <1>8, <2>2 DEF NotifyOne, ToWake
  <2>4. QED
    BY <1>8, <2>3 DEF NotifyOne
<1>9. CASE SpuriousWakeup(t)
  BY <1>9 DEF SpuriousWakeup, ParkGoto, ToWake, unparkVars
<1>10. QED
  BY <1>1, <1>2, <1>3, <1>4, <1>5, <1>6, <1>7, <1>8, <1>9
     DEF LotStep, ParkStep, UnparkStep, LotEnvironment

-----------------------------------------------------------------------------
(* The theorems, for any callers of the parking lot.                        *)

LEMMA LotInvHolds == LotSpec /\ []NoStaleUnparker => []LotInv
BY LotInitInv, LotNextInv, FreshUnlessStale, PTL DEF LotSpec

\* Every queue holds the threads parked on its address, each once, while it parks there.
\* Timeouts may race with unpark calls; only a second park call may not.
THEOREM QueuesStayConsistent == LotSpec /\ []NoStaleUnparker => []QueuesConsistent
BY LotInvHolds, LotPromises, PTL

\* The assertions of park and enqueue hold, also that of a thread that timed out while an
\* unpark call was dequeueing it (that the dequeue it makes itself leaves it unlinked).
THEOREM LotAssertionsNeverFail == LotSpec /\ []NoStaleUnparker => []LotAssertionsHold
BY LotInvHolds, LotPromises, PTL

\* A parked thread can be found by an unpark call or is about to be woken by one.
THEOREM NoWakeupIsLost == LotSpec /\ []NoStaleUnparker => []NoLostWakeup
BY LotInvHolds, LotPromises, PTL

\* parkConditionally() returns true only to a thread an unpark call was spent on, and false
\* to such a thread only if its timeout was hit too.
THEOREM ResultIsRight == LotSpec /\ []NoStaleUnparker => []ResultTellsUnparked
BY LotInvHolds, LotPromises, PTL

\* Callers that pass no finite timeout have all of it unconditionally.  They also have what a
\* timeout can break: ASSERT(threadData->address) of the unpark calls, and a result that is
\* true exactly when an unpark call was spent on the thread.
THEOREM UntimedParking ==
    LotSpec /\ []NobodyTimesOut =>
        [](/\ QueuesConsistent /\ LotAssertionsHold /\ NoLostWakeup
           /\ SleepsWhileQueued /\ UnparkAssertionHolds /\ ResultIsExact)
<1>1. LotInit => NobodyHasTimedOut
  BY EmptyQueue DEF LotInit, NobodyHasTimedOut, ToWake
<1>2. LotInv /\ NobodyTimesOut /\ NobodyHasTimedOut /\ [LotNext]_lotVars => NobodyHasTimedOut'
  <2> SUFFICES ASSUME LotInv, NobodyTimesOut, NobodyHasTimedOut, [LotNext]_lotVars
               PROVE  NobodyHasTimedOut'
    OBVIOUS
  <2>1. CASE UNCHANGED lotVars
    BY <2>1 DEF lotVars, parkVars, unparkVars, ToWake, NobodyHasTimedOut
  <2>2. QED
    BY <2>1, UntimedStep DEF LotNext, ClientPark, ClientUnpark, ParkCall, ClientEnqueue, LotStep
<1>3. LotInv /\ NobodyTimesOut /\ NobodyHasTimedOut /\ [LotNext]_lotVars => LotInv' /\ NobodyHasTimedOut'
  BY <1>2, UntimedFresh, LotNextInv
<1>4. QED
  BY <1>1, <1>3, LotInitInv, LotPromises, UntimedPromises, PTL DEF LotSpec
=============================================================================
