------------------------------ MODULE MCMonitor ------------------------------
(***************************************************************************)
(* TLC instances of MonitorClients.                                         *)
(***************************************************************************)
EXTENDS MonitorClients, TLC

Symmetry == Permutations(Producers) \cup Permutations(Threads \ Producers)
=============================================================================
