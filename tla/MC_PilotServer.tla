--------------------------- MODULE MC_PilotServer ---------------------------
(***************************************************************************)
(* A small instance of PilotServer: two clients, a route bound to a tenant *)
(* and an open one that targets another model, two backends and start-up   *)
(* environments that fail in every way but one.                            *)
(***************************************************************************)
EXTENDS PilotServer, TLC

CONSTANTS rA, rB, acme, globex

MCRouteTenant == rA :> acme @@ rB :> NoTenant

Good == [mode |-> "auto", gpu |-> FALSE, tensors |-> TRUE,
         registry_dir |-> "readable", payload_dir |-> "plain_file", factory |-> TRUE]

MCEnvironments ==
    {Good, [Good EXCEPT !.mode = "unset"], [Good EXCEPT !.registry_dir = "unreadable"],
     [Good EXCEPT !.tensors = FALSE]}

=============================================================================
