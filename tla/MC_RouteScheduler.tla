-------------------------- MODULE MC_RouteScheduler --------------------------
(***************************************************************************)
(* A small instance of RouteScheduler: three clients, three routes, two    *)
(* drain tasks and batches of two, so a queue can hold more than a batch.  *)
(* The constants are plain sets of model values, given in the .cfg file.   *)
(***************************************************************************)
EXTENDS RouteScheduler

=============================================================================
