----------------------------- MODULE ParkingQueues -----------------------------
(***************************************************************************)
(* What the hashtable of WTF::ParkingLot promises: a queue of threads per   *)
(* address, first in first out, that enqueue() and dequeue() change in one  *)
(* step each and that nothing else changes, whatever the table does.        *)
(***************************************************************************)
EXTENDS QueueOps

CONSTANTS Threads, Addresses

VARIABLE queue

Init == queue = [a \in Addresses |-> <<>>]

Enqueue(t, a) ==
    /\ \A b \in Addresses : t \notin Members(queue[b])
    /\ queue' = [queue EXCEPT ![a] = Append(@, t)]

\* unparkOne()
DequeueFirst(a) == queue[a] # <<>> /\ queue' = [queue EXCEPT ![a] = Tail(@)]

\* unparkAll()
DequeueAll(a) == queue' = [queue EXCEPT ![a] = <<>>]

\* A thread whose timeout has expired.
DequeueSelf(t, a) == queue' = [queue EXCEPT ![a] = Kept(@, Threads \ {t})]

Next == \E a \in Addresses :
    \/ DequeueAll(a) \/ DequeueFirst(a)
    \/ \E t \in Threads : Enqueue(t, a) \/ DequeueSelf(t, a)

Spec == Init /\ [][Next]_queue
=============================================================================
