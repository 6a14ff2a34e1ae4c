------------------------- MODULE RouteWindow_proofs -------------------------
(***************************************************************************)
(* Proofs about RouteWindow for any number of routes, layers, payload      *)
(* versions and restarts: the inductive invariant WindowInv and, from it,  *)
(* WindowIsolation, WindowConsistent and QuarantineEndsRepaired.           *)
(***************************************************************************)
EXTENDS RouteWindow, TLAPS

\* What the phase says about the weights and about active_route_id.
PhaseFacts ==
    /\ phase \in {"READY", "VERIFYING", "SWAPPING", "SWAPPED", "ROLLING_BACK",
                 "WORKER_QUARANTINED"}
    /\ phase \in {"READY", "ROLLING_BACK"} => live = BaseWeights
    /\ phase = "SWAPPED" => active # Base /\ live \in Window(active)
    /\ active # Base => phase \in {"SWAPPED", "ROLLING_BACK"}

\* Where a forward pass is, and what it has found out on its way.
PassFacts ==
    /\ phase \in {"VERIFYING", "SWAPPING"} => pc = "recover"
    /\ pc \in {"prepare", "swap"} => active = Base /\ requested \in Routes
    /\ pc = "leave" => active # Base
    /\ pc = "recover" => active = Base
    /\ pc = "swap" => cache[requested] # 0
    /\ pc = "forward" /\ phase = "READY" => requested = Base
    /\ pc = "forward" /\ phase \in {"SWAPPED", "ROLLING_BACK"} => active = requested

\* A registered route has a payload.
Versioned == \A r \in Routes : statuses[r] # "ABSENT" => version[r] # 0

WindowInv ==
    /\ TypeOK
    /\ GoldenSnapshots
    /\ PhaseFacts
    /\ PassFacts
    /\ Versioned

-----------------------------------------------------------------------------
(* Facts about the tables and the swap operations.                         *)

\* READY is the only phase from which a swap may begin.
LEMMA SwapFromReady ==
    \A p \in RuntimePhase : IsLegalTransition(p, "VERIFYING") => p = "READY"
  BY DEF IsLegalTransition, ValidSuccessors, RuntimePhase

\* Every failed rollback condemns the worker.
LEMMA FailedRollbackVerdict ==
    ASSUME NEW fc \in RollbackFaults
    PROVE  EvaluateFailure(fc).target_phase = "WORKER_QUARANTINED"
  BY WeightAssumption DEF EvaluateFailure, Verdict, RollbackFailure, PayloadFailure

LEMMA ScopeStaysTyped ==
    ASSUME NEW s \in QuarantineScope, NEW p \in RuntimePhase
    PROVE  ScopeAfter(p, s) \in QuarantineScope
  BY DEF ScopeAfter, QuarantineScope

\* With golden snapshots a rollback that succeeds restores the base weights,
\* and one that fails damages only layers that a later one can restore.
LEMMA RollbackOutcome ==
    ASSUME WindowInv, RollbackEnds
    PROVE  /\ phase' \in {"READY", "WORKER_QUARANTINED"}
           /\ phase' = "READY" => live' = BaseWeights
           /\ live' \in [Layers -> Seq(Delta)]
           /\ GoldenSnapshots'
           /\ scope' \in QuarantineScope
           /\ UNCHANGED <<snapshots, cache>>
  <1>0. /\ live \in [Layers -> Seq(Delta)]
        /\ scope \in QuarantineScope
        /\ \A l \in DOMAIN snapshots : snapshots[l] = <<>>
        /\ \A l \in Layers : live[l] # <<>> => l \in DOMAIN snapshots
        /\ UNCHANGED <<snapshots, cache>>
    BY DEF WindowInv, TypeOK, GoldenSnapshots, RollbackEnds
  <1>1. Restored(DOMAIN snapshots) = BaseWeights
    BY <1>0 DEF Restored, BaseWeights
  <1>2. ASSUME NEW fc \in RollbackFaults, live' \in RollbackDamage(fc),
               phase' = EvaluateFailure(fc).target_phase
        PROVE  /\ phase' = "WORKER_QUARANTINED"
               /\ live' \in [Layers -> Seq(Delta)]
               /\ \A l \in Layers : live'[l] # <<>> => l \in DOMAIN snapshots
    <2>1. PICK S \in SUBSET DOMAIN snapshots :
              live' = IF fc = "rollback_checksum_mismatch"
                        THEN [l \in Layers |-> IF l \in S THEN <<Garbage>>
                                               ELSE Restored(DOMAIN snapshots)[l]]
                        ELSE Restored(DOMAIN snapshots \ S)
      BY <1>2 DEF RollbackDamage
    <2>2. <<Garbage>> \in Seq(Delta) /\ <<>> \in Seq(Delta)
      BY DEF Delta
    <2>3. CASE fc = "rollback_checksum_mismatch"
      BY <2>1, <2>2, <2>3, <1>1, <1>2, FailedRollbackVerdict DEF BaseWeights
    <2>4. CASE fc # "rollback_checksum_mismatch"
      <3>1. live' = [l \in Layers |-> IF l \in DOMAIN snapshots \ S THEN snapshots[l] ELSE live[l]]
        BY <2>1, <2>4 DEF Restored
      <3> QED
        BY <3>1, <2>2, <1>0, <1>2, FailedRollbackVerdict
    <2> QED
      BY <2>3, <2>4
  <1>3. \/ RollbackSucceeds /\ phase' = "READY"
        \/ phase' = "WORKER_QUARANTINED" /\ live' \in [Layers -> Seq(Delta)]
              /\ \A l \in Layers : live'[l] # <<>> => l \in DOMAIN snapshots
    BY <1>2 DEF RollbackEnds
  <1>4. phase' \in {"READY", "WORKER_QUARANTINED"} /\ scope' \in QuarantineScope
    BY <1>3, <1>0, ScopeStaysTyped DEF RollbackEnds, RuntimePhase
  <1>5. /\ phase' = "READY" => live' = BaseWeights
        /\ live' \in [Layers -> Seq(Delta)]
        /\ GoldenSnapshots'
    <2>1. CASE RollbackSucceeds /\ phase' = "READY"
      <3>1. live' = BaseWeights
        BY <1>1, <2>1 DEF RollbackSucceeds
      <3>2. BaseWeights \in [Layers -> Seq(Delta)] /\ \A l \in Layers : BaseWeights[l] = <<>>
        BY DEF BaseWeights
      <3> QED
        BY <1>0, <3>1, <3>2 DEF GoldenSnapshots
    <2>2. CASE phase' = "WORKER_QUARANTINED"
      BY <2>2, <1>3, <1>0 DEF GoldenSnapshots
    <2> QED
      BY <1>3, <2>1, <2>2
  <1> QED
    BY <1>0, <1>4, <1>5

\* Snapshots that are taken, or kept, on the base weights are golden.
LEMMA CaptureOnBase ==
    ASSUME WindowInv, live = BaseWeights, NEW r \in Routes,
           CaptureSnapshot(r) \/ CaptureSnapshotRaises(r)
    PROVE  /\ DOMAIN snapshots' \subseteq Layers
           /\ snapshots' \in [DOMAIN snapshots' -> Seq(Delta)]
           /\ \A l \in DOMAIN snapshots' : snapshots'[l] = <<>>
           /\ CaptureSnapshot(r) => RouteLayers[r] \subseteq DOMAIN snapshots'
  <1>0. /\ DOMAIN snapshots \subseteq Layers
        /\ snapshots \in [DOMAIN snapshots -> Seq(Delta)]
        /\ \A l \in DOMAIN snapshots : snapshots[l] = <<>>
        /\ RouteLayers[r] \subseteq Layers
        /\ <<>> \in Seq(Delta)
    BY WeightAssumption DEF WindowInv, TypeOK, GoldenSnapshots
  <1>1. CASE UNCHANGED snapshots /\ GoldenSnapshotsCover(r)
    BY <1>0, <1>1 DEF GoldenSnapshotsCover
  <1>2. ASSUME NEW S \in SUBSET RouteLayers[r], snapshots' = [l \in S |-> live[l]]
        PROVE  /\ DOMAIN snapshots' = S
               /\ S \subseteq Layers
               /\ snapshots' \in [S -> Seq(Delta)]
               /\ \A l \in S : snapshots'[l] = <<>>
    BY <1>0, <1>2 DEF BaseWeights
  <1>3. CASE CaptureSnapshot(r) /\ ~GoldenSnapshotsCover(r)
    BY <1>2, <1>3 DEF CaptureSnapshot
  <1>4. CASE CaptureSnapshotRaises(r)
    <2>1. ~CaptureSnapshot(r) \/ RouteLayers[r] \subseteq DOMAIN snapshots'
      BY <1>2, <1>4 DEF CaptureSnapshot, CaptureSnapshotRaises
    <2> QED
      BY <1>2, <1>4, <2>1 DEF CaptureSnapshotRaises
  <1> QED
    BY <1>1, <1>3, <1>4 DEF CaptureSnapshot, CaptureSnapshotRaises

-----------------------------------------------------------------------------
(* The invariant is inductive.                                             *)

LEMMA InitWindowInv == Init => WindowInv
  <1> SUFFICES ASSUME Init PROVE WindowInv
    OBVIOUS
  <1>1. TypeOK
    <2>1. live \in [Layers -> Seq(Delta)]
      BY DEF Init, BaseWeights
    <2>2. DOMAIN snapshots = {} /\ snapshots \in [DOMAIN snapshots -> Seq(Delta)]
      BY DEF Init
    <2>3. /\ phase \in RuntimePhase /\ scope \in QuarantineScope
          /\ statuses \in [Routes -> RouteStatus]
      BY DEF Init, RuntimePhase, QuarantineScope, RouteStatus
    <2>4. /\ cache \in [Routes -> 0..MaxVersion] /\ version \in [Routes -> 0..MaxVersion]
          /\ restarts \in 0..MaxRestarts
      BY WindowAssumption DEF Init
    <2>5. /\ active = Base /\ requested = Base /\ pc = "idle"
          /\ loaded \in BOOLEAN /\ stored \subseteq Routes
      BY DEF Init
    <2> QED
      BY <2>1, <2>2, <2>3, <2>4, <2>5 DEF TypeOK
  <1>2. GoldenSnapshots
    BY DEF Init, GoldenSnapshots, BaseWeights
  <1>3. PhaseFacts /\ PassFacts /\ Versioned
    BY DEF Init, PhaseFacts, PassFacts, Versioned
  <1> QED
    BY <1>1, <1>2, <1>3 DEF WindowInv

\* Steps of the hook that only move it, with the runtime as it is.
LEMMA PassStep ==
    ASSUME WindowInv, UNCHANGED <<runtimeVars, registryVars>>,
           pc' \in {"idle", "ensure", "leave", "prepare", "forward", "cleanup"},
           requested' \in Routes \cup {Base},
           PassFacts'
    PROVE  WindowInv'
  <1>1. TypeOK'
    BY DEF WindowInv, TypeOK, runtimeVars, registryVars, processVars
  <1>2. GoldenSnapshots' /\ PhaseFacts' /\ Versioned'
    BY DEF WindowInv, GoldenSnapshots, PhaseFacts, Versioned, Window, BaseWeights,
           SwappedWeights, runtimeVars, registryVars
  <1> QED
    BY <1>1, <1>2 DEF WindowInv

\* Steps that roll the weights back and forget the active route.
LEMMA RollbackKeeps ==
    ASSUME WindowInv, RollbackEnds, active' = Base,
           UNCHANGED <<requested, registryVars>>,
           pc' \in {"idle", "prepare", "forward", "cleanup"},
           pc' = "prepare" => requested \in Routes,
           pc' = "forward" => requested = Base
    PROVE  WindowInv'
  <1>1. TypeOK'
    BY RollbackOutcome DEF WindowInv, TypeOK, registryVars, processVars, RuntimePhase
  <1>2. PhaseFacts'
    BY RollbackOutcome DEF PhaseFacts
  <1>3. PassFacts'
    BY RollbackOutcome DEF PassFacts
  <1>4. Versioned'
    BY DEF WindowInv, Versioned, registryVars
  <1> QED
    BY <1>1, <1>2, <1>3, <1>4, RollbackOutcome DEF WindowInv

\* Steps in which the verification of the rollback raises.
LEMMA UnverifiedKeeps ==
    ASSUME WindowInv, RollbackUnverified, UNCHANGED <<active, requested, registryVars>>,
           pc' \in {"idle", "cleanup"}
    PROVE  WindowInv'
  <1>1. /\ live' = BaseWeights /\ live' \in [Layers -> Seq(Delta)]
        /\ \A l \in Layers : live'[l] = <<>>
    BY DEF RollbackUnverified, RollbackSucceeds, Restored, WindowInv, TypeOK, GoldenSnapshots,
           BaseWeights
  <1>2. TypeOK'
    BY <1>1 DEF RollbackUnverified, WindowInv, TypeOK, registryVars, processVars, RuntimePhase
  <1>3. GoldenSnapshots'
    BY <1>1 DEF RollbackUnverified, WindowInv, GoldenSnapshots
  <1>4. PhaseFacts' /\ PassFacts'
    BY <1>1 DEF RollbackUnverified, PhaseFacts, PassFacts, BaseWeights
  <1>5. Versioned'
    BY DEF WindowInv, Versioned, registryVars
  <1> QED
    BY <1>2, <1>3, <1>4, <1>5 DEF WindowInv

LEMMA SwapStep == ASSUME WindowInv, Swap PROVE WindowInv'
  <1>1. /\ requested \in Routes /\ cache[requested] \in 1..MaxVersion
        /\ phase = "READY" /\ live = BaseWeights
    BY SwapFromReady, WindowAssumption
       DEF WindowInv, TypeOK, PhaseFacts, PassFacts, Swap
  <1>2. /\ DOMAIN snapshots' \subseteq Layers
        /\ snapshots' \in [DOMAIN snapshots' -> Seq(Delta)]
        /\ \A l \in DOMAIN snapshots' : snapshots'[l] = <<>>
        /\ RouteLayers[requested] \subseteq DOMAIN snapshots'
    BY <1>1, CaptureOnBase DEF Swap
  <1>3. CachedDelta(requested) \in Delta
    BY <1>1 DEF CachedDelta, Delta
  <1>4. live' = SwappedWeights(requested, CachedDelta(requested))
    BY <1>1 DEF Swap, ApplySwap, AddDelta, SwappedWeights, BaseWeights
  <1>5. live' \in [Layers -> Seq(Delta)]
    BY <1>3, <1>4 DEF SwappedWeights
  <1>6. live' \in Window(requested)
    BY <1>1, <1>4, WindowAssumption DEF Window, CachedDelta
  <1>7. TypeOK'
    BY <1>1, <1>2, <1>5
       DEF Swap, WindowInv, TypeOK, RuntimePhase, registryVars, processVars
  <1>8. GoldenSnapshots'
    BY <1>2, <1>4 DEF GoldenSnapshots, SwappedWeights
  <1>9. PhaseFacts'
    BY <1>1, <1>6, WindowAssumption DEF Swap, PhaseFacts, Window, SwappedWeights, BaseWeights
  <1>10. PassFacts' /\ Versioned'
    BY <1>1 DEF Swap, WindowInv, PassFacts, Versioned, registryVars
  <1> QED
    BY <1>7, <1>8, <1>9, <1>10 DEF WindowInv

LEMMA SwapRaisesStep == ASSUME WindowInv, SwapRaises PROVE WindowInv'
  <1>1. /\ requested \in Routes /\ cache[requested] \in 1..MaxVersion
        /\ active = Base /\ phase \in {"READY", "ROLLING_BACK", "WORKER_QUARANTINED"}
        /\ phase \in {"READY", "ROLLING_BACK"} => live = BaseWeights
        /\ pc' = "recover"
        /\ UNCHANGED <<scope, active, cache, requested, registryVars>>
    BY WindowAssumption DEF WindowInv, TypeOK, PhaseFacts, PassFacts, SwapRaises
  <1>2. /\ phase' \in {"VERIFYING", "SWAPPING", "ROLLING_BACK", "WORKER_QUARANTINED"}
        /\ phase' = "ROLLING_BACK" => live' = BaseWeights
        /\ live' \in [Layers -> Seq(Delta)]
        /\ DOMAIN snapshots' \subseteq Layers
        /\ snapshots' \in [DOMAIN snapshots' -> Seq(Delta)]
        /\ GoldenSnapshots'
    <2>1. CASE ~IsLegalTransition(phase, "VERIFYING")
      <3>1. phase # "READY"
        BY <2>1 DEF IsLegalTransition, ValidSuccessors
      <3> QED
        BY <2>1, <3>1, <1>1 DEF SwapRaises, WindowInv, TypeOK, GoldenSnapshots
    <2>2. CASE IsLegalTransition(phase, "VERIFYING")
      <3>1. phase = "READY" /\ live = BaseWeights
        BY <1>1, <2>2, SwapFromReady DEF RuntimePhase
      <3>2. /\ DOMAIN snapshots' \subseteq Layers
            /\ snapshots' \in [DOMAIN snapshots' -> Seq(Delta)]
            /\ \A l \in DOMAIN snapshots' : snapshots'[l] = <<>>
            /\ CaptureSnapshot(requested) => RouteLayers[requested] \subseteq DOMAIN snapshots'
        BY <1>1, <2>2, <3>1, CaptureOnBase DEF SwapRaises
      <3>3. CASE phase' = "VERIFYING" /\ UNCHANGED live
        BY <3>1, <3>2, <3>3 DEF WindowInv, TypeOK, GoldenSnapshots, BaseWeights
      <3>4. CASE /\ CaptureSnapshot(requested) /\ phase' = "SWAPPING"
                 /\ ApplySwapRaises(requested, CachedDelta(requested))
        <4>1. PICK S \in SUBSET RouteLayers[requested] :
                  live' = AddDelta(CachedDelta(requested), S)
          BY <3>4 DEF ApplySwapRaises
        <4>2. CachedDelta(requested) \in Delta
          BY <1>1 DEF CachedDelta, Delta
        <4>3. live' = [l \in Layers |-> IF l \in S THEN <<CachedDelta(requested)>> ELSE <<>>]
          BY <3>1, <4>1 DEF AddDelta, BaseWeights
        <4>4. live' \in [Layers -> Seq(Delta)]
          BY <4>2, <4>3
        <4> QED
          BY <3>2, <3>4, <4>3, <4>4 DEF GoldenSnapshots
      <3> QED
        BY <2>2, <3>3, <3>4 DEF SwapRaises
    <2> QED
      BY <2>1, <2>2
  <1>3. TypeOK'
    BY <1>1, <1>2 DEF WindowInv, TypeOK, RuntimePhase, registryVars, processVars
  <1>4. PhaseFacts' /\ PassFacts' /\ Versioned'
    BY <1>1, <1>2 DEF WindowInv, PhaseFacts, PassFacts, Versioned, registryVars
  <1> QED
    BY <1>2, <1>3, <1>4 DEF WindowInv

\* What is done to the registry and the storage directory does not touch the
\* runtime.
LEMMA RegistryKeeps ==
    ASSUME WindowInv, UNCHANGED <<pc, requested, runtimeVars>>,
           version' \in [Routes -> 0..MaxVersion],
           statuses' \in [Routes -> RouteStatus],
           loaded' \in BOOLEAN, stored' \subseteq Routes, restarts' = restarts,
           Versioned'
    PROVE  WindowInv'
  <1>1. TypeOK'
    BY DEF WindowInv, TypeOK, runtimeVars
  <1>2. GoldenSnapshots' /\ PhaseFacts' /\ PassFacts'
    BY DEF WindowInv, GoldenSnapshots, PhaseFacts, PassFacts, Window, BaseWeights,
           SwappedWeights, runtimeVars
  <1> QED
    BY <1>1, <1>2 DEF WindowInv

LEMMA RestartStep == ASSUME WindowInv, Restart PROVE WindowInv'
  <1>1. TypeOK'
    <2>1. /\ live' \in [Layers -> Seq(Delta)]
          /\ DOMAIN snapshots' = {} /\ snapshots' \in [DOMAIN snapshots' -> Seq(Delta)]
      BY DEF Restart, BaseWeights
    <2>2. /\ phase' \in RuntimePhase /\ scope' \in QuarantineScope
          /\ statuses' \in [Routes -> RouteStatus]
      BY DEF Restart, RuntimePhase, QuarantineScope, RouteStatus
    <2>3. /\ cache' \in [Routes -> 0..MaxVersion] /\ version' \in [Routes -> 0..MaxVersion]
          /\ restarts' \in 0..MaxRestarts
      BY WindowAssumption DEF Restart, WindowInv, TypeOK
    <2>4. /\ active' = Base /\ requested' = Base /\ pc' = "idle"
          /\ loaded' \in BOOLEAN /\ stored' \subseteq Routes
      BY DEF Restart, WindowInv, TypeOK
    <2> QED
      BY <2>1, <2>2, <2>3, <2>4 DEF TypeOK
  <1>2. GoldenSnapshots'
    BY DEF Restart, GoldenSnapshots, BaseWeights
  <1>3. PhaseFacts' /\ PassFacts' /\ Versioned'
    BY DEF Restart, PhaseFacts, PassFacts, Versioned, BaseWeights
  <1> QED
    BY <1>1, <1>2, <1>3 DEF WindowInv

LEMMA NextWindowInv == WindowInv /\ [Next]_vars => WindowInv'
  <1> SUFFICES ASSUME WindowInv, [Next]_vars PROVE WindowInv'
    OBVIOUS
  <1>1. ASSUME NEW r \in Routes \cup {Base}, Request(r) PROVE WindowInv'
    <2>1. PassFacts'
      BY <1>1 DEF Request, WindowInv, PhaseFacts, PassFacts, runtimeVars
    <2> QED
      BY <1>1, <2>1, PassStep DEF Request
  <1>2. CASE Ensure
    <2>1. PassFacts'
      BY <1>2, WindowAssumption
         DEF Ensure, WindowInv, TypeOK, PhaseFacts, PassFacts, runtimeVars, IsTerminal
    <2>2. requested' = requested
          /\ pc' \in {"idle", "ensure", "leave", "prepare", "forward", "cleanup"}
      BY <1>2 DEF Ensure
    <2> QED
      BY <1>2, <2>1, <2>2, PassStep DEF Ensure, WindowInv, TypeOK
  <1>3. CASE LeaveRoute
    BY <1>3, RollbackKeeps, UnverifiedKeeps DEF LeaveRoute, WindowInv, TypeOK
  <1>4. CASE Prepare
    <2>1. requested \in Routes /\ version[requested] # 0
      BY <1>4 DEF Prepare, GetVerifiedRoute, WindowInv, PassFacts, Versioned
    <2>2. cache' \in [Routes -> 0..MaxVersion] /\ cache'[requested] # 0
      BY <1>4, <2>1 DEF Prepare, WindowInv, TypeOK
    <2>3. TypeOK'
      BY <1>4, <2>2 DEF Prepare, WindowInv, TypeOK, registryVars, processVars
    <2>4. GoldenSnapshots' /\ PhaseFacts' /\ Versioned'
      BY <1>4 DEF Prepare, WindowInv, GoldenSnapshots, PhaseFacts, Versioned, Window,
                  BaseWeights, SwappedWeights, registryVars
    <2>5. PassFacts'
      BY <1>4, <2>1, <2>2 DEF Prepare, WindowInv, PassFacts
    <2> QED
      BY <2>3, <2>4, <2>5 DEF WindowInv
  <1>5. CASE RouteRejected \/ PayloadRejected
    <2>1. PassFacts'
      BY <1>5 DEF RouteRejected, PayloadRejected, WindowInv, PassFacts, runtimeVars
    <2> QED
      BY <1>5, <2>1, PassStep DEF RouteRejected, PayloadRejected, WindowInv, TypeOK
  <1>6. CASE Swap
    BY <1>6, SwapStep
  <1>7. CASE SwapRaises
    BY <1>7, SwapRaisesStep
  <1>8. CASE Recover
    BY <1>8, RollbackKeeps, UnverifiedKeeps DEF Recover, RollbackOfActive
  <1>9. CASE Forward
    <2>1. PassFacts'
      BY <1>9 DEF Forward, WindowInv, PassFacts, runtimeVars
    <2>2. requested' = requested /\ pc' \in {"idle", "cleanup"}
      BY <1>9 DEF Forward
    <2> QED
      BY <1>9, <2>1, <2>2, PassStep DEF Forward, WindowInv, TypeOK
  <1>10. CASE Cleanup
    <2>1. CASE RollbackOfActive
      BY <1>10, <2>1, RollbackKeeps, UnverifiedKeeps DEF Cleanup, RollbackOfActive
    <2>2. CASE UNCHANGED runtimeVars
      <3>1. PassFacts'
        BY <1>10, <2>2 DEF Cleanup, WindowInv, PassFacts, runtimeVars
      <3> QED
        BY <1>10, <2>2, <3>1, PassStep DEF Cleanup, WindowInv, TypeOK
    <2> QED
      BY <1>10, <2>1, <2>2 DEF Cleanup, ClearActiveRoute
  <1>11. CASE OperatorClears
    BY <1>11, RollbackKeeps, UnverifiedKeeps
       DEF OperatorClears, ClearActiveRoute, RollbackOfActive
  <1>12. CASE GetVllmRegistry
    <2>1. PICK readable \in SUBSET stored :
             /\ statuses' = [r \in Routes |-> IF r \in readable THEN "PRODUCTION" ELSE "ABSENT"]
             /\ version' = [r \in Routes |-> IF r \in readable THEN 1 ELSE 0]
      BY <1>12 DEF GetVllmRegistry
    <2>2. /\ version' \in [Routes -> 0..MaxVersion]
          /\ statuses' \in [Routes -> RouteStatus]
          /\ Versioned'
      BY <2>1, WindowAssumption DEF RouteStatus, Versioned
    <2> QED
      BY <1>12, <2>2, RegistryKeeps DEF GetVllmRegistry, WindowInv, TypeOK
  <1>13. CASE Restart
    BY <1>13, RestartStep
  <1>14. ASSUME NEW r \in Routes, Register(r) \/ Revoke(r) \/ Publish(r) PROVE WindowInv'
    <2>1. /\ version' \in [Routes -> 0..MaxVersion]
          /\ statuses' \in [Routes -> RouteStatus]
          /\ Versioned'
      <3>1. CASE Register(r)
        <4>1. version[r] + 1 \in 1..MaxVersion
          BY <3>1, WindowAssumption DEF Register, WindowInv, TypeOK
        <4> QED
          BY <3>1, <4>1 DEF Register, RegisterRoute, RouteStatus, WindowInv, TypeOK, Versioned
      <3>2. CASE Revoke(r)
        BY <3>2 DEF Revoke, RevokeRoute, RouteStatus, WindowInv, TypeOK, Versioned
      <3>3. CASE Publish(r)
        BY <3>3 DEF Publish, WindowInv, TypeOK, Versioned
      <3> QED
        BY <1>14, <3>1, <3>2, <3>3
    <2>2. loaded' = loaded /\ stored' \subseteq Routes /\ restarts' = restarts
          /\ UNCHANGED <<pc, requested, runtimeVars>>
      BY <1>14 DEF Register, Revoke, Publish, WindowInv, TypeOK, processVars
    <2> QED
      BY <2>1, <2>2, RegistryKeeps DEF WindowInv, TypeOK
  <1>15. CASE UNCHANGED vars
    BY <1>15 DEF vars, processVars, WindowInv, TypeOK, GoldenSnapshots, PhaseFacts,
                 PassFacts, Versioned, Window, BaseWeights, SwappedWeights
  <1> QED
    BY <1>1, <1>2, <1>3, <1>4, <1>5, <1>6, <1>7, <1>8, <1>9, <1>10, <1>11, <1>12,
       <1>13, <1>14, <1>15 DEF Next

-----------------------------------------------------------------------------
(* The theorems.                                                           *)

\* Everything that ensure_route and clear_active_route rely on holds for ever.
THEOREM WindowInvariance == Spec => []WindowInv
  BY InitWindowInv, NextWindowInv, PTL DEF Spec

\* A forward pass on a worker that is not quarantined runs on the base weights
\* plus exactly the requested route (ensure_route).
THEOREM WindowIsIsolated == Spec => []WindowIsolation
  <1>1. WindowInv => WindowIsolation
    BY DEF WindowInv, PhaseFacts, PassFacts, WindowIsolation, IsTerminal, Window
  <1> QED
    BY <1>1, WindowInvariance, PTL

\* Between two forward passes active_route_id, phase and weights agree
\* (ensure_route, clear_active_route).
THEOREM WindowIsConsistent == Spec => []WindowConsistent
  <1>1. WindowInv => WindowConsistent
    BY DEF WindowInv, PhaseFacts, PassFacts, WindowConsistent
  <1> QED
    BY <1>1, WindowInvariance, PTL

\* The worker was quarantined before a pass began, in the n-th process, or that
\* process is gone.
Doomed(n) ==
    \/ /\ restarts = n /\ phase = "WORKER_QUARANTINED"
       /\ active = Base /\ pc \in {"idle", "ensure", "cleanup"}
    \/ restarts > n

LEMMA IdleQuarantineStays == Spec => OutlivesRequest
  <1> SUFFICES ASSUME NEW n \in 0..MaxRestarts
               PROVE  Spec => [](pc = "idle" /\ IsTerminal(phase) /\ restarts = n
                                   => [](restarts = n => IsTerminal(phase)))
    BY DEF OutlivesRequest
  <1>1. WindowInv /\ pc = "idle" /\ IsTerminal(phase) /\ restarts = n => Doomed(n)
    BY DEF WindowInv, PhaseFacts, PassFacts, IsTerminal, Doomed
  <1>2. WindowInv /\ Doomed(n) => (restarts = n => IsTerminal(phase))
    BY WindowAssumption DEF Doomed, IsTerminal, WindowInv, TypeOK
  <1>3. WindowInv /\ Doomed(n) /\ [Next]_vars => Doomed(n)'
    <2> SUFFICES ASSUME WindowInv, Doomed(n), [Next]_vars PROVE Doomed(n)'
      OBVIOUS
    <2>1. restarts \in Nat /\ n \in Nat /\ (restarts' = restarts \/ restarts' = restarts + 1)
      BY WindowAssumption
         DEF WindowInv, TypeOK, Next, vars, processVars, registryVars, runtimeVars, Request,
             Ensure, LeaveRoute, Prepare, RouteRejected, PayloadRejected, Swap, SwapRaises,
             Recover, Forward, Cleanup, OperatorClears, GetVllmRegistry, Restart, Register,
             Revoke, Publish
    <2>2. CASE restarts > n
      BY <2>1, <2>2 DEF Doomed
    <2>3. CASE ~(restarts > n)
      <3>1. /\ restarts = n /\ phase = "WORKER_QUARANTINED"
            /\ active = Base /\ pc \in {"idle", "ensure", "cleanup"}
        BY <2>3 DEF Doomed
      <3>2. CASE Restart
        BY <2>1, <3>1, <3>2 DEF Restart, Doomed
      <3>3. CASE Ensure
        <4>1. IsTerminal(phase)
          BY <3>1 DEF IsTerminal
        <4>2. pc' = "cleanup"
          BY <3>3, <4>1 DEF Ensure
        <4> QED
          BY <3>1, <3>3, <4>2 DEF Ensure, Doomed, runtimeVars, registryVars, processVars
      <3>4. CASE Cleanup
        BY <3>1, <3>4 DEF Cleanup, ClearActiveRoute, Doomed, runtimeVars, registryVars, processVars
      <3>5. CASE (\E r \in Routes \cup {Base} : Request(r)) \/ GetVllmRegistry
                 \/ (\E r \in Routes : Register(r) \/ Revoke(r) \/ Publish(r)) \/ UNCHANGED vars
        BY <3>1, <3>5 DEF Request, GetVllmRegistry, Register, Revoke, Publish, Doomed,
                          runtimeVars, registryVars, processVars, vars
      <3>6. ~(LeaveRoute \/ Prepare \/ RouteRejected \/ PayloadRejected \/ Swap \/ SwapRaises
                 \/ Recover \/ Forward \/ OperatorClears)
        BY <3>1 DEF LeaveRoute, Prepare, RouteRejected, PayloadRejected, Swap, SwapRaises,
                    Recover, Forward, OperatorClears
      <3> QED
        BY <3>2, <3>3, <3>4, <3>5, <3>6 DEF Next
    <2> QED
      BY <2>2, <2>3
  <1> QED
    BY <1>1, <1>2, <1>3, WindowInvariance, PTL DEF Spec

LEMMA RepairLifts == Spec => LiftedByRepair
  <1> DEFINE Lift == IsTerminal(phase) /\ ~IsTerminal(phase') /\ restarts' = restarts
                        => pc = "recover" /\ live' = BaseWeights /\ active' = Base
  <1>1. WindowInv /\ [Next]_vars => [Lift]_vars
    <2> SUFFICES ASSUME WindowInv, Next, phase = "WORKER_QUARANTINED",
                        phase' # "WORKER_QUARANTINED", restarts' = restarts
                 PROVE  pc = "recover" /\ live' = BaseWeights /\ active' = Base
      BY DEF IsTerminal
    <2>1. active = Base /\ restarts \in Nat
      BY WindowAssumption DEF WindowInv, PhaseFacts, TypeOK
    <2>2. ~Restart
      BY <2>1 DEF Restart
    <2>3. ~(LeaveRoute \/ OperatorClears \/ Cleanup)
      BY <2>1 DEF LeaveRoute, OperatorClears, Cleanup, ClearActiveRoute, WindowInv, PassFacts,
                  runtimeVars
    <2>4. ~(Swap \/ SwapRaises)
      <3>1. ~IsLegalTransition(phase, "VERIFYING")
        BY SwapFromReady DEF RuntimePhase
      <3> QED
        BY <3>1 DEF Swap, SwapRaises
    <2>5. Recover
      BY <2>2, <2>3, <2>4
         DEF Next, Request, Ensure, Prepare, RouteRejected, PayloadRejected, Forward,
             GetVllmRegistry, Register, Revoke, Publish, runtimeVars
    <2>6. live' = BaseWeights
      <3>1. CASE RollbackEnds
        BY <3>1, RollbackOutcome
      <3>2. CASE RollbackUnverified
        BY <3>2 DEF RollbackUnverified, RollbackSucceeds, Restored, WindowInv, TypeOK,
                    GoldenSnapshots, BaseWeights
      <3> QED
        BY <2>5, <3>1, <3>2 DEF Recover, RollbackOfActive
    <2> QED
      BY <2>1, <2>5, <2>6 DEF Recover, RollbackOfActive
  <1> QED
    BY <1>1, WindowInvariance, PTL DEF Spec, LiftedByRepair

\* A quarantined worker is back in service only after a restart of its process
\* or after the call whose rollback failed has repaired all the weights
\* (ensure_route, clear_active_route, _perform_rollback).
THEOREM QuarantineIsKeptOrRepaired == Spec => QuarantineEndsRepaired
  BY IdleQuarantineStays, RepairLifts DEF QuarantineEndsRepaired

=============================================================================
