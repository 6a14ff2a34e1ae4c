----------------------------- MODULE RouteWindow -----------------------------
(***************************************************************************)
(* The route window of the vLLM worker: patched_model_forward              *)
(* (integrations/vllm_route_plugin/model_runner_hook.py) calls             *)
(* HotSwapRuntime.ensure_route (neural_scalpel/experimental/runtime.py)    *)
(* before every forward pass and leaves the route's deltas in the weights  *)
(* until another route is asked for; clear_active_route removes them.      *)
(*                                                                         *)
(* One thread runs the forward passes, so what a call does between two     *)
(* looks at shared state is one step.  The registry is administered        *)
(* concurrently: a route can be revoked, or registered again with another  *)
(* payload, which is a new version of it.  The registry and the runtime    *)
(* are singletons of the worker process (runtime_context.py): when it is   *)
(* restarted, the registry is filled from the manifests in its storage     *)
(* directory, unverified, and the runtime is made anew.                    *)
(***************************************************************************)
EXTENDS WeightSwap, Naturals

CONSTANTS Base,           \* the route id "__base__"
          VllmTenant,     \* the tenant on whose behalf the hook asks
          MaxVersion,     \* bound on the payload versions of a route
          MaxRestarts     \* bound on the restarts of the worker process

ASSUME WindowAssumption ==
    /\ Base \notin Routes /\ VllmTenant \in Tenants
    /\ MaxVersion \in Nat \ {0} /\ MaxRestarts \in Nat

VARIABLES
    phase,      \* _state_machine.phase
    scope,      \* _state_machine.quarantine_scope
    active,     \* active_route_id
    cache,      \* _validated_delta_cache: version of a route's cached deltas, 0: none
    version,    \* version of the payload that a route is registered with
    pc,         \* where patched_model_forward is
    requested,  \* RoutePluginMetrics.get_active_route() of this forward pass
    loaded,     \* _GLOBAL_REGISTRY is not None
    stored,     \* routes with a manifest in the storage directory
    restarts    \* how often the process was restarted

processVars == <<loaded, stored, restarts>>
vars == <<phase, scope, active, cache, version, pc, requested, live,
          snapshots, statuses, processVars>>
runtimeVars == <<phase, scope, active, cache, live, snapshots>>
registryVars == <<version, statuses, processVars>>

Init ==
    /\ phase = "READY"
    /\ scope = "NONE"
    /\ active = Base
    /\ cache = [r \in Routes |-> 0]
    /\ version = [r \in Routes |-> 0]
    /\ pc = "idle"
    /\ requested = Base
    /\ live = BaseWeights
    /\ snapshots = [l \in {} |-> <<>>]
    /\ statuses = [r \in Routes |-> "ABSENT"]
    /\ loaded = FALSE
    /\ stored = {}
    /\ restarts = 0

\* _perform_rollback: whether the machine may enter ROLLING_BACK or is forced
\* to, it ends in READY or, when the rollback fails, in quarantine; the caller
\* is not told which.
RollbackEnds ==
    /\ \/ RollbackSucceeds /\ phase' = "READY"
       \/ \E fc \in RollbackFaults :
             live' \in RollbackDamage(fc) /\ phase' = EvaluateFailure(fc).target_phase
    /\ scope' = ScopeAfter(phase', scope)
    /\ UNCHANGED <<snapshots, cache>>

\* verify_rollback itself raises, nothing in _perform_rollback catches it, and
\* the machine stays in ROLLING_BACK.
RollbackUnverified ==
    /\ RollbackSucceeds
    /\ phase' = "ROLLING_BACK"
    /\ UNCHANGED <<scope, snapshots, cache>>

\* _perform_rollback, after which the callers reset active_route_id unless it
\* raised.
RollbackOfActive ==
    \/ RollbackEnds /\ active' = Base
    \/ RollbackUnverified /\ UNCHANGED active

-----------------------------------------------------------------------------
(* patched_model_forward and ensure_route.                                 *)

\* The scheduler has chosen the route of the next forward pass; the hook gets
\* the runtime, which needs the registry.
Request(r) ==
    /\ pc = "idle" /\ loaded
    /\ requested' = r
    /\ pc' = "ensure"
    /\ UNCHANGED <<runtimeVars, registryVars>>

\* Mutant: any active route is taken for the requested one.
Ensure_AnyActive ==
    /\ pc = "ensure"
    /\ pc' = IF IsTerminal(phase) THEN "cleanup"
             ELSE IF active # Base \/ active = requested THEN "forward"
             ELSE "prepare"
    /\ UNCHANGED <<requested, runtimeVars, registryVars>>

\* Mutant: the quarantine is not looked at.
Ensure_Unguarded ==
    /\ pc = "ensure"
    /\ pc' = IF active = requested THEN "forward"
             ELSE IF active # Base THEN "leave"
             ELSE "prepare"
    /\ UNCHANGED <<requested, runtimeVars, registryVars>>

\* The head of ensure_route: a quarantined worker refuses, a route that is
\* already active is served as it is.
Ensure ==
    /\ pc = "ensure"
    /\ pc' = IF IsTerminal(phase) THEN "cleanup"
             ELSE IF active = requested THEN "forward"
             ELSE IF active # Base THEN "leave"
             ELSE "prepare"
    /\ UNCHANGED <<requested, runtimeVars, registryVars>>

\* The active route is rolled back, with whatever result; for the base route
\* that is all.
LeaveRoute ==
    /\ pc = "leave"
    /\ \/ /\ RollbackEnds
          /\ active' = Base
          /\ pc' = IF requested = Base THEN "forward" ELSE "prepare"
       \/ RollbackUnverified /\ UNCHANGED active /\ pc' = "cleanup"
    /\ UNCHANGED <<requested, registryVars>>

\* The route is verified and its deltas come from the cache or, validated,
\* from its payload.
Prepare ==
    /\ pc = "prepare"
    /\ GetVerifiedRoute(requested, VllmTenant)
    /\ cache' = IF cache[requested] = 0
                  THEN [cache EXCEPT ![requested] = version[requested]]
                  ELSE cache
    /\ pc' = "swap"
    /\ UNCHANGED <<phase, scope, active, live, snapshots, requested, registryVars>>

RouteRejected ==
    /\ pc = "prepare"
    /\ ~GetVerifiedRoute(requested, VllmTenant)
    /\ pc' = "cleanup"
    /\ UNCHANGED <<requested, runtimeVars, registryVars>>

\* validate_payload raises and nothing in ensure_route catches it.
PayloadRejected ==
    /\ pc = "prepare"
    /\ GetVerifiedRoute(requested, VllmTenant)
    /\ cache[requested] = 0
    /\ PayloadFaults # {}
    /\ pc' = "cleanup"
    /\ UNCHANGED <<requested, runtimeVars, registryVars>>

\* The deltas in the cache are those of one version of the route.
CachedDelta(r) == <<r, cache[r]>>

\* The locked cycle of ensure_route: READY to SWAPPED.
Swap ==
    /\ pc = "swap"
    /\ IsLegalTransition(phase, "VERIFYING")
    /\ CaptureSnapshot(requested)
    /\ ApplySwap(requested, CachedDelta(requested))
    /\ phase' = "SWAPPED"
    /\ active' = requested
    /\ pc' = "forward"
    /\ UNCHANGED <<scope, cache, requested, registryVars>>

\* An exception in the cycle: the transition is refused, the capture or the
\* application of the deltas raises.
SwapRaises ==
    /\ pc = "swap"
    /\ \/ /\ ~IsLegalTransition(phase, "VERIFYING")
          /\ UNCHANGED <<phase, live, snapshots>>
       \/ /\ IsLegalTransition(phase, "VERIFYING")
          /\ CaptureSnapshotRaises(requested)
          /\ phase' = "VERIFYING"
          /\ UNCHANGED live
       \/ /\ IsLegalTransition(phase, "VERIFYING")
          /\ CaptureSnapshot(requested)
          /\ ApplySwapRaises(requested, CachedDelta(requested))
          /\ phase' = "SWAPPING"
    /\ pc' = "recover"
    /\ UNCHANGED <<scope, active, cache, requested, registryVars>>

\* Mutant: an exception in the cycle is passed on without a rollback.
Recover_NoRollback ==
    /\ pc = "recover"
    /\ active' = Base
    /\ pc' = "cleanup"
    /\ UNCHANGED <<phase, scope, live, snapshots, cache, requested, registryVars>>

\* The except branch of the cycle, which raises again.
Recover ==
    /\ pc = "recover"
    /\ RollbackOfActive
    /\ pc' = "cleanup"
    /\ UNCHANGED <<requested, registryVars>>

\* The model's own forward pass returns or raises.
Forward ==
    /\ pc = "forward"
    /\ pc' \in {"idle", "cleanup"}
    /\ UNCHANGED <<requested, runtimeVars, registryVars>>

\* clear_active_route
ClearActiveRoute ==
    \/ active # Base /\ RollbackOfActive
    \/ active = Base /\ UNCHANGED runtimeVars

\* The except branch of patched_model_forward.
Cleanup ==
    /\ pc = "cleanup"
    /\ ClearActiveRoute
    /\ pc' = "idle"
    /\ UNCHANGED <<requested, registryVars>>

-----------------------------------------------------------------------------
(* What happens around the forward passes.                                 *)

\* An operator clears the window between two forward passes.
OperatorClears ==
    /\ pc = "idle"
    /\ active # Base
    /\ ClearActiveRoute
    /\ UNCHANGED <<pc, requested, registryVars>>

\* get_vllm_registry, called for the first time: whatever lies in the storage
\* directory and can be read is in production, verified or not.
GetVllmRegistry ==
    /\ ~loaded
    /\ loaded' = TRUE
    /\ \E readable \in SUBSET stored :
          /\ statuses' = [r \in Routes |-> IF r \in readable THEN "PRODUCTION" ELSE "ABSENT"]
          /\ version' = [r \in Routes |-> IF r \in readable THEN 1 ELSE 0]
    /\ UNCHANGED <<pc, requested, runtimeVars, stored, restarts>>

\* A manifest is copied into the storage directory.
Publish(r) ==
    /\ r \notin stored
    /\ stored' = stored \cup {r}
    /\ UNCHANGED <<pc, requested, runtimeVars, version, statuses, loaded, restarts>>


\* The worker process dies, in the middle of a pass or between two, and is
\* started again with the model's own weights.
Restart ==
    /\ restarts < MaxRestarts /\ restarts' = restarts + 1
    /\ phase' = "READY" /\ scope' = "NONE" /\ active' = Base
    /\ cache' = [r \in Routes |-> 0]
    /\ live' = BaseWeights
    /\ snapshots' = [l \in {} |-> <<>>]
    /\ version' = [r \in Routes |-> 0]
    /\ statuses' = [r \in Routes |-> "ABSENT"]
    /\ loaded' = FALSE
    /\ pc' = "idle" /\ requested' = Base
    /\ UNCHANGED stored

Register(r) ==
    /\ loaded /\ version[r] < MaxVersion
    /\ RegisterRoute(r)
    /\ version' = [version EXCEPT ![r] = @ + 1]
    /\ UNCHANGED <<pc, requested, runtimeVars, processVars>>

Revoke(r) ==
    /\ RevokeRoute(r)
    /\ UNCHANGED <<pc, requested, version, runtimeVars, processVars>>

Next ==
    \/ \E r \in Routes \cup {Base} : Request(r)
    \/ Ensure \/ LeaveRoute
    \/ Prepare \/ RouteRejected \/ PayloadRejected
    \/ Swap \/ SwapRaises \/ Recover
    \/ Forward \/ Cleanup \/ OperatorClears
    \/ GetVllmRegistry \/ Restart
    \/ \E r \in Routes : Register(r) \/ Revoke(r) \/ Publish(r)

Spec == Init /\ [][Next]_vars

-----------------------------------------------------------------------------
(* Properties.                                                             *)

\* The weights with one version of a route's deltas, or none, in them.
Window(r) ==
    IF r = Base THEN {BaseWeights}
                ELSE {SwappedWeights(r, <<r, v>>) : v \in 1..MaxVersion}

Delta == (Routes \X (1..MaxVersion)) \cup {Garbage}

TypeOK ==
    /\ phase \in RuntimePhase
    /\ scope \in QuarantineScope
    /\ active \in Routes \cup {Base}
    /\ cache \in [Routes -> 0..MaxVersion]
    /\ version \in [Routes -> 0..MaxVersion]
    /\ pc \in {"idle", "ensure", "leave", "prepare", "swap", "recover",
               "forward", "cleanup"}
    /\ requested \in Routes \cup {Base}
    /\ live \in [Layers -> Seq(Delta)]
    /\ DOMAIN snapshots \subseteq Layers
    /\ snapshots \in [DOMAIN snapshots -> Seq(Delta)]
    /\ statuses \in [Routes -> RouteStatus]
    /\ loaded \in BOOLEAN /\ stored \subseteq Routes /\ restarts \in 0..MaxRestarts

\* On a worker that is not quarantined, a forward pass runs on the base
\* weights plus one version of exactly the requested route's deltas, however
\* many passes, failed swaps and cleanups went before; only when the
\* verification of a rollback raised, and raised again in the cleanup, may it
\* run on the bare base weights (ensure_route, _perform_rollback).
WindowIsolation ==
    pc = "forward" /\ ~IsTerminal(phase) =>
        \/ live \in Window(requested)
        \/ phase = "ROLLING_BACK" /\ live = BaseWeights

\* The state is well-formed, and between two forward passes active_route_id,
\* the phase and the weights tell the same story (ensure_route,
\* clear_active_route).
WindowConsistent ==
    /\ TypeOK
    /\ pc = "idle" =>
          \/ phase = "READY" /\ active = Base /\ live = BaseWeights
          \/ phase = "SWAPPED" /\ active # Base /\ live \in Window(active)
          \/ phase = "ROLLING_BACK" /\ live = BaseWeights
          \/ phase = "WORKER_QUARANTINED" /\ active = Base

\* A worker that is quarantined when a forward pass is over stays so until
\* its process is restarted.
OutlivesRequest ==
    \A n \in 0..MaxRestarts :
        [](pc = "idle" /\ IsTerminal(phase) /\ restarts = n
              => [](restarts = n => IsTerminal(phase)))

\* Without a restart a quarantine is lifted only by a second rollback of the
\* call whose first one failed, and only when it has repaired all the damage.
LiftedByRepair ==
    [][IsTerminal(phase) /\ ~IsTerminal(phase') /\ restarts' = restarts
          => pc = "recover" /\ live' = BaseWeights /\ active' = Base]_vars

\* Whatever quarantines the worker, nothing but a restart of the process or
\* the complete repair of the weights within the same call puts it back into
\* service (ensure_route, clear_active_route, _perform_rollback).
QuarantineEndsRepaired == OutlivesRequest /\ LiftedByRepair

\* A quarantined worker stays quarantined until its process is restarted,
\* which is what the head of runtime.py says of WORKER_QUARANTINED.  The code
\* breaks it: ensure_route goes on after a failed rollback, and the rollback
\* of its except branch is forced.
WorkerQuarantineIsTerminal ==
    [][IsTerminal(phase) /\ restarts' = restarts => IsTerminal(phase')]_vars

=============================================================================
