-------------------------------- MODULE MCLock --------------------------------
(***************************************************************************)
(* TLC instances of LockClients.                                            *)
(***************************************************************************)
EXTENDS LockClients, TLC

Symmetry == Permutations(Threads)
=============================================================================
