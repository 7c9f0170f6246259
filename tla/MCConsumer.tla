------------------------------ MODULE MCConsumer ------------------------------
(***************************************************************************)
(* A task with and one without a handler, and retry buckets of different   *)
(* length.                                                                 *)
(***************************************************************************)
EXTENDS Consumer

MCTasks == {"settle", "unknown"}
MCUnhandled == {"unknown"}
MCWorkers == {"w1", "w2"}
MCBuckets == <<1, 3>>
MCBackoff == [n \in 0 .. 2 |-> IF n = 0 THEN 0 ELSE IF n = 1 THEN 1 ELSE 4]
=============================================================================
