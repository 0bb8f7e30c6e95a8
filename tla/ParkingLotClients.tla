-------------------------- MODULE ParkingLotClients --------------------------
(***************************************************************************)
(* The parking lot under arbitrary callers: any thread parks on any address *)
(* with any answer of its validation and with or without a finite timeout,  *)
(* and unparks any address, also from inside its beforeSleep(), as often as *)
(* it likes.                                                                *)
(***************************************************************************)
EXTENDS ParkingLot

ClientPark(t) ==
    \E a \in Addresses, finite \in BOOLEAN : ParkBegin(t, a, finite)
ClientEnqueue(t) == \E valid \in BOOLEAN : ParkEnqueue(t, valid)
ClientUnpark(t) == \E a \in Addresses : UnparkOneDequeue(t, a) \/ UnparkAllDequeue(t, a)

\* What a thread inside a park call does, and inside an unpark call.
ParkCall(t) == ClientEnqueue(t) \/ BeforeSleepReturns(t) \/ ParkReturned(t) \/ ParkStep(t)

LotNext == \E t \in Threads :
    ClientPark(t) \/ ClientUnpark(t) \/ ParkCall(t) \/ UnparkStep(t) \/ LotEnvironment(t)

LotSpec == LotInit /\ [][LotNext]_lotVars
=============================================================================
