-------------------------- MODULE MC_VllmScheduler --------------------------
(***************************************************************************)
(* A small instance of VllmScheduler: two requests of one route, one of    *)
(* the base model, one with an empty route id, and room for two running    *)
(* requests.                                                               *)
(***************************************************************************)
EXTENDS VllmScheduler, TLC

CONSTANTS a1, a2, base1, e1, rA

MCRouteOf == a1 :> rA @@ a2 :> rA @@ base1 :> Base @@ e1 :> EmptyId

=============================================================================
