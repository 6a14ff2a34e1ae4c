---------------------------- MODULE RuntimeState ----------------------------
(***************************************************************************)
(* The phases of the hot-swap runtime and its table of legal transitions   *)
(* (neural_scalpel/experimental/runtime_state.py).  The table is data: the *)
(* modules that own a phase variable decide what to do when a transition   *)
(* is not in it.                                                           *)
(***************************************************************************)

RuntimePhase ==
    {"READY", "VERIFYING", "SNAPSHOT_CAPTURED", "SWAPPING", "SWAPPED",
     "FORWARDING", "ROLLING_BACK", "ROUTE_QUARANTINED", "WORKER_QUARANTINED"}

\* quarantine_scope: None is written "NONE".
QuarantineScope == {"NONE", "ROUTE", "WORKER"}

\* Mutant: a worker whose last route was quarantined starts the next swap
\* without passing through READY.
ValidSuccessors_NoReady ==
    [READY              |-> {"VERIFYING"},
     VERIFYING          |-> {"SNAPSHOT_CAPTURED", "ROUTE_QUARANTINED"},
     SNAPSHOT_CAPTURED  |-> {"SWAPPING", "ROUTE_QUARANTINED"},
     SWAPPING           |-> {"SWAPPED", "ROLLING_BACK", "ROUTE_QUARANTINED"},
     SWAPPED            |-> {"FORWARDING", "ROLLING_BACK"},
     FORWARDING         |-> {"ROLLING_BACK"},
     ROLLING_BACK       |-> {"READY", "ROUTE_QUARANTINED", "WORKER_QUARANTINED"},
     ROUTE_QUARANTINED  |-> {"READY", "VERIFYING", "WORKER_QUARANTINED"},
     WORKER_QUARANTINED |-> {}]

\* _VALID_TRANSITIONS: the successors of every phase.
ValidSuccessors ==
    [READY              |-> {"VERIFYING"},
     VERIFYING          |-> {"SNAPSHOT_CAPTURED", "ROUTE_QUARANTINED"},
     SNAPSHOT_CAPTURED  |-> {"SWAPPING", "ROUTE_QUARANTINED"},
     SWAPPING           |-> {"SWAPPED", "ROLLING_BACK", "ROUTE_QUARANTINED"},
     SWAPPED            |-> {"FORWARDING", "ROLLING_BACK"},
     FORWARDING         |-> {"ROLLING_BACK"},
     ROLLING_BACK       |-> {"READY", "ROUTE_QUARANTINED", "WORKER_QUARANTINED"},
     ROUTE_QUARANTINED  |-> {"READY", "WORKER_QUARANTINED"},
     WORKER_QUARANTINED |-> {}]

\* The test at the head of transition(): outside the table it raises
\* InvalidStateTransition.
IsLegalTransition(from, to) == to \in ValidSuccessors[from]

\* The quarantine scope recorded by a successful transition() to phase `to`.
ScopeAfter(to, scope) ==
    CASE to = "ROUTE_QUARANTINED"  -> "ROUTE"
      [] to = "WORKER_QUARANTINED" -> "WORKER"
      [] to = "READY"              -> "NONE"
      [] OTHER                     -> scope

\* is_terminal: the worker accepts nothing until the process is restarted.
IsTerminal(p) == p = "WORKER_QUARANTINED"

=============================================================================
