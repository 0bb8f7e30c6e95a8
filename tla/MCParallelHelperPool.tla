------------------------ MODULE MCParallelHelperPool -------------------------
(***************************************************************************)
(* The TLC instance of ParallelHelperPool.                                  *)
(***************************************************************************)
EXTENDS ParallelHelperPool
=============================================================================
