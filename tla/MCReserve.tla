------------------------------ MODULE MCReserve ------------------------------
(***************************************************************************)
(* A small instance of Reserve: two requests of one user whose balance     *)
(* covers either estimate but not both.                                    *)
(***************************************************************************)
EXTENDS Reserve

CONSTANTS r1, r2

MCUsers == {"u1"}
MCOwner == [r \in Requests |-> "u1"]

\* The real cost of r1 is above its estimate, that of r2 below.
MCEst == [r \in Requests |-> IF r = r2 THEN 3 ELSE 2]
MCCost == [r \in Requests |-> IF r = r2 THEN 1 ELSE 3]

MCOpening == [u \in MCUsers |-> 4]
=============================================================================
