--------------------------- MODULE MC_RouteWindow ---------------------------
(***************************************************************************)
(* A small instance of RouteWindow: two routes that share one of three     *)
(* layers, two payload versions of the one that can be registered, while   *)
(* the other gets into the registry only from the storage directory.       *)
(***************************************************************************)
EXTENDS RouteWindow, TLC

CONSTANTS rA, rB, l1, l2, l3, vllm

MCRouteLayers == rA :> {l1, l2} @@ rB :> {l2, l3}
MCUnfit       == rA :> {} @@ rB :> {}
MCTenant      == rA :> vllm @@ rB :> NoTenant

=============================================================================
