------------------------------- MODULE QueueOps -------------------------------
(***************************************************************************)
(* The lists of threads of WTF::ParkingLot as sequences, and what the       *)
(* walks over them compute, without recursion: the proof system knows       *)
(* nothing of SelectSeq and sorts nothing.                                  *)
(***************************************************************************)
EXTENDS Naturals, Sequences, FiniteSets

Members(q) == {q[i] : i \in 1..Len(q)}

\* What a walk of the bucket's list leaves of q, or takes from it: its members in S, in
\* their order.
Kept(q, S) ==
    LET K == {i \in 1..Len(q) : q[i] \in S}
    IN  [j \in 1..Cardinality(K) |-> q[CHOOSE i \in K : Cardinality({k \in K : k <= i}) = j]]

\* The elements of P in the order in which upTo[p] are those that come no later than p.
Ranked(P, upTo) ==
    [j \in 1..Cardinality(P) |-> CHOOSE p \in P : Cardinality(upTo[p]) = j]
=============================================================================
