---------------------------- MODULE MCBmallocHeap ----------------------------
(***************************************************************************)
(* The TLC instance of BmallocHeap: two threads that allocate, free and     *)
(* scavenge, one small page, and one chunk of three units.                  *)
(***************************************************************************)
EXTENDS BmallocHeap
=============================================================================
