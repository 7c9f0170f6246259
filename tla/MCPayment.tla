------------------------------ MODULE MCPayment ------------------------------
(***************************************************************************)
(* Two orders of one user and three trades: two of the orders' amount and  *)
(* one of another.                                                         *)
(***************************************************************************)
EXTENDS Payment

MCUsers == {"u1"}
MCOrders == {"o1", "o2"}
MCTrades == {"t1", "t2", "small"}
MCOwner == [o \in MCOrders |-> "u1"]
MCAmount == [o \in MCOrders |-> 2]
MCSum == [t \in MCTrades |-> IF t = "small" THEN 1 ELSE 2]

=============================================================================
