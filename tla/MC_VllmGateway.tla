--------------------------- MODULE MC_VllmGateway ---------------------------
(***************************************************************************)
(* A small instance of VllmGateway: three clients of one tenant, two       *)
(* routes and batches of two, so a queue can hold more than a batch.       *)
(***************************************************************************)
EXTENDS VllmGateway, TLC

CONSTANTS c1, c2, c3, acme

MCTenantOf == c1 :> acme @@ c2 :> acme @@ c3 :> acme

=============================================================================
