-------------------------- MODULE MCParkingLotTable --------------------------
(***************************************************************************)
(* TLC instances of ParkingLotTable.                                        *)
(***************************************************************************)
EXTENDS ParkingLotTable

CONSTANTS t1, t2, t3, a1, a2

\* Two addresses that share a bucket of the smallest table and part in a larger one.
AddressHash == a1 :> 1 @@ a2 :> 2

\* All threads park, so that the table grows while others are parked in it.
Roles == t1 :> {"enqueue", "unparkAll"} @@ t2 :> {"enqueue", "unparkAll"}
         @@ t3 :> {"enqueue", "unparkOne", "forEach", "timeout", "exit"}

Symmetry == Permutations({t1, t2})
=============================================================================
