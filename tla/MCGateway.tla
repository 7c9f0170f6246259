------------------------------ MODULE MCGateway -----------------------------
(***************************************************************************)
(* A small instance of Gateway: a chain in which both lists name the same  *)
(* fallback and the group's names the requested model again.               *)
(***************************************************************************)
EXTENDS Gateway

MCModels == {"m1", "m2"}
MCGroupFallbacks == <<"m1", "m2">>
MCModelFallbacks == <<"m2">>
=============================================================================
