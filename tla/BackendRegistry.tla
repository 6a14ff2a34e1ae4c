-------------------------- MODULE BackendRegistry --------------------------
(***************************************************************************)
(* Which external backend serves a route (neural_scalpel/serving/          *)
(* backend_registry.py).  Routes that share a URL share one BackendInfo,   *)
(* hence one health flag; the failure counter and the time of the last     *)
(* check are written and never read, and are left out.                     *)
(***************************************************************************)
CONSTANTS Routes, Urls,
          NoUrl            \* a route without a mapping

VARIABLES mapping,         \* _route_mappings, as the URL of the BackendInfo
          backends,        \* the keys of _backends, which are never removed
          healthy          \* is_healthy of each URL; TRUE until it is known

\* A URL that is known already keeps its health.
RegisterBackend(r, u) ==
    /\ mapping' = [mapping EXCEPT ![r] = u]
    /\ backends' = backends \cup {u}
    /\ UNCHANGED healthy

RemoveRoute(r) ==
    /\ mapping[r] # NoUrl
    /\ mapping' = [mapping EXCEPT ![r] = NoUrl]
    /\ UNCHANGED <<backends, healthy>>

\* A URL that was never registered is passed over.
UpdateHealth(u, isHealthy) ==
    /\ healthy' = IF u \in backends THEN [healthy EXCEPT ![u] = isHealthy] ELSE healthy
    /\ UNCHANGED <<mapping, backends>>

MappedRoutes == {r \in Routes : mapping[r] # NoUrl}

GetRouteStatus(r) ==
    CASE mapping[r] = NoUrl        -> "NOT_FOUND"
      [] mapping[r] # NoUrl /\ ~healthy[mapping[r]] -> "UNHEALTHY_BACKEND"
      [] OTHER                     -> "READY"

\* NoUrl when the route is not mapped or its backend is unhealthy.
ResolveBackend(r) == IF GetRouteStatus(r) = "READY" THEN mapping[r] ELSE NoUrl

=============================================================================
