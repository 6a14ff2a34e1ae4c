------------------------ MODULE MC_HotSwapRuntime ------------------------
(***************************************************************************)
(* Small instances of HotSwapRuntime: two threads, two routes that overlap *)
(* in one layer (so the second route of a run neither reuses the golden    *)
(* snapshot of the first nor is independent of it), two tenants.           *)
(***************************************************************************)
EXTENDS HotSwapRuntime, TLC

CONSTANTS t1, t2, rA, rB, l1, l2, l3, acme, globex

MCRouteLayers == rA :> {l1, l2} @@ rB :> {l2, l3}
MCFit         == rA :> {} @@ rB :> {}
MCTenant      == rA :> acme @@ rB :> NoTenant

=============================================================================
