----------------------------- MODULE MCParkingLot -----------------------------
(***************************************************************************)
(* TLC instances of ParkingLotClients.                                      *)
(***************************************************************************)
EXTENDS ParkingLotClients, TLC

Symmetry == Permutations(Threads) \cup Permutations(Addresses)
=============================================================================
