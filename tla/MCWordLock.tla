------------------------------ MODULE MCWordLock ------------------------------
(***************************************************************************)
(* TLC instance of WordLock: one owner, two threads that queue or barge.    *)
(* No symmetry, since the run checks liveness.                              *)
(***************************************************************************)
EXTENDS WordLock
=============================================================================
