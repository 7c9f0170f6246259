---------------------------- MODULE MCSettlement ----------------------------
(***************************************************************************)
(* Small instances of Settlement: one user whose charges exceed the opening*)
(* balance and, in the serial run, another who has no balance row.         *)
(***************************************************************************)
EXTENDS Settlement, TLC

Settle(r) == [kind |-> "settle", req |-> r]
Refund(r) == [kind |-> "refund", req |-> r]

MCUsers == {"u1"}
MCRequests == {"r1", "r2"}
MCOwner == [r \in MCRequests |-> "u1"]
MCOpening == [u \in MCUsers |-> 4]

\* A settlement that overdraws unless its refund comes first, and one of a user
\* without a row.
MCSerialUsers == {"u1", "u2"}
MCSerialOwner == [r \in MCRequests |-> IF r = "r1" THEN "u1" ELSE "u2"]
MCSerialOpening == [u \in MCSerialUsers |-> IF u = "u1" THEN 4 ELSE 0]
MCTasks == {Settle("r1"), Settle("r2"), Refund("r1")}
MCCharge ==
    [t \in MCTasks |-> IF t = Settle("r1") THEN 5
                       ELSE IF t = Settle("r2") THEN 2 ELSE 1]

\* Two settlements, one of which exceeds the balance.
MCSettles == {Settle("r1"), Settle("r2")}
MCSettleCharge == [t \in MCSettles |-> IF t = Settle("r1") THEN 5 ELSE 2]

\* A settlement that exceeds the balance alone, and a refund beside it.
MCDuplicated == {Settle("r1"), Refund("r1")}
MCDuplicatedCharge == [t \in MCDuplicated |-> IF t = Settle("r1") THEN 5 ELSE 1]

NoOrders == {}
MCOrders == {"o1"}
MCOrderOwner == [o \in MCOrders |-> "u1"]
MCOrderAmount == [o \in MCOrders |-> 5]
MCAdjusts == {"a1"}
MCAdjustUser == [a \in MCAdjusts |-> "u1"]
MCAdjustDelta == [a \in MCAdjusts |-> -2]
Nothing == << >>

Symmetric == Permutations(Workers) \cup Permutations(Copies)
=============================================================================
