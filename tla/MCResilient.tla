----------------------------- MODULE MCResilient -----------------------------
(***************************************************************************)
(* Three tasks: one the primary enqueuer never accepts, one whose line is  *)
(* too long for readWAL.                                                   *)
(***************************************************************************)
EXTENDS Resilient

CONSTANTS t1, t2, t3
MCTasks == {t1, t2, t3}
MCInvalid == {t3}
MCLong == {t2}
=============================================================================
