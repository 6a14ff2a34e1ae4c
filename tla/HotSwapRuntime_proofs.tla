------------------------ MODULE HotSwapRuntime_proofs ------------------------
(***************************************************************************)
(* Proofs about HotSwapRuntime for any number of threads, routes and       *)
(* layers and any set of faults: the inductive invariant IInv and, from    *)
(* it, ForwardIsolation, LeaveNoTrace and GoldenSnapshots.                 *)
(***************************************************************************)
EXTENDS HotSwapRuntime, TLAPS

(* Facts about the tables.                                                 *)

\* READY is the only phase from which a swap may begin.
LEMMA VerifyingFromReady ==
    /\ IsLegalTransition("READY", "VERIFYING")
    /\ \A p \in RuntimePhase : IsLegalTransition(p, "VERIFYING") => p = "READY"
  BY DEF IsLegalTransition, ValidSuccessors, RuntimePhase

\* Every failed rollback condemns the worker.
LEMMA RollbackVerdict ==
    ASSUME NEW fc \in RollbackFaults
    PROVE  EvaluateFailure(fc).target_phase = "WORKER_QUARANTINED"
  BY ThreadAssumption, WeightAssumption
     DEF EvaluateFailure, Verdict, RollbackFailure, PayloadFailure

LEMMA ScopeAfterType ==
    ASSUME NEW s \in QuarantineScope, NEW p \in RuntimePhase
    PROVE  ScopeAfter(p, s) \in QuarantineScope
  BY DEF ScopeAfter, QuarantineScope

-----------------------------------------------------------------------------
(* The inductive invariant.                                                *)

LEMMA InitIInv == Init => IInv
  <1> SUFFICES ASSUME Init PROVE IInv
    OBVIOUS
  <1>1. TypeOK
    BY DEF Init, TypeOK, BaseWeights, Step, Delta, RuntimePhase, RouteStatus,
           QuarantineScope
  <1>2. LockOwner /\ StepShape /\ SectionFacts /\ BusyPhase /\ RollingPhase
    BY ThreadAssumption, WeightAssumption
       DEF Init, LockOwner, StepShape, SectionFacts, BusyPhase, RollingPhase, AtBody,
           InSection
  <1>3. LeaveNoTrace
    BY DEF Init, LeaveNoTrace
  <1>4. GoldenSnapshots
    BY DEF Init, GoldenSnapshots, BaseWeights
  <1> QED
    BY <1>1, <1>2, <1>3, <1>4 DEF IInv

\* The steps taken without the lock do not touch the weights, the snapshots
\* or the phase.
LEMMA UnlockedStep ==
    ASSUME IInv, NEW t \in Threads,
           UNCHANGED <<phase, live, snapshots>>,
           scope' \in QuarantineScope,
           statuses' \in [Routes -> RouteStatus],
           \/ step' = step /\ goal' = goal
           \/ ~InSection(t) /\ ~InSection(t)' /\ \E s \in Step \ {"force", "body"}, g \in RuntimePhase :
                 step' = [step EXCEPT ![t] = s] /\ goal' = [goal EXCEPT ![t] = g],
           lock' = lock,
           route' = route \/ (~InSection(t) /\ \E r \in Routes : route' = [route EXCEPT ![t] = r])
    PROVE  IInv'
  <1>1. TypeOK'
    BY DEF IInv, TypeOK
  <1>2. \A u \in Threads : InSection(u)' <=> InSection(u)
    BY DEF IInv, TypeOK, InSection
  <1>3. \A u \in Threads : InSection(u) =>
            step'[u] = step[u] /\ goal'[u] = goal[u] /\ route'[u] = route[u]
    BY DEF IInv, TypeOK
  <1>4. LockOwner'
    BY <1>2 DEF IInv, LockOwner
  <1>5. StepShape'
    BY DEF IInv, TypeOK, StepShape, InSection
  <1>6. SectionFacts'
    BY <1>2, <1>3 DEF IInv, SectionFacts, Pristine, BaseWeights, SwappedWeights
  <1>7. BusyPhase'
    BY <1>2, <1>3 DEF IInv, BusyPhase
  <1>8. LeaveNoTrace' /\ GoldenSnapshots'
    BY DEF IInv, LeaveNoTrace, GoldenSnapshots, BaseWeights
  <1>9. RollingPhase'
    BY DEF IInv, TypeOK, RollingPhase, AtBody
  <1> QED
    BY <1>1, <1>4, <1>5, <1>6, <1>7, <1>8, <1>9 DEF IInv

\* A step of the thread t inside the locked section only has to account for
\* t: no other thread is inside, before or after.  What the step leaves to
\* show is collected in the assumptions.
LEMMA LockedStep ==
    ASSUME IInv, NEW t \in Threads, InSection(t),
           NEW s \in Step, NEW g \in RuntimePhase,
           step' = [step EXCEPT ![t] = s], goal' = [goal EXCEPT ![t] = g],
           UNCHANGED <<statuses, route>>,
           phase' \in RuntimePhase, scope' \in QuarantineScope,
           live' \in [Layers -> Seq(Delta)],
           DOMAIN snapshots' \subseteq Layers,
           snapshots' \in [DOMAIN snapshots' -> Seq(Delta)],
           GoldenSnapshots', LeaveNoTrace',
           \/ InSection(t)' /\ lock' = t
           \/ ~InSection(t)' /\ lock' = NoThread,
           s = "force" => g \in ForcedPhases,
           s = "body" => g \in {"VERIFYING", "SWAPPING", "FORWARDING", "ROLLING_BACK"},
           s = "body" /\ g = "ROLLING_BACK" => phase' \in {"ROLLING_BACK", "ROUTE_QUARANTINED"},
           InSection(t)' =>
               /\ Pristine(t)' => live' = BaseWeights
               /\ g \in {"SWAPPED", "FORWARDING"} => live' = SwappedWeights(route[t], route[t])
               /\ g \in {"SNAPSHOT_CAPTURED", "SWAPPING", "SWAPPED", "FORWARDING"} =>
                     RouteLayers[route[t]] \subseteq DOMAIN snapshots'
               /\ phase' # "READY"
    PROVE  IInv'
  <1>1. step'[t] = s /\ goal'[t] = g
    BY DEF IInv, TypeOK
  <1>2. \A u \in Threads \ {t} :
            /\ ~InSection(u) /\ ~InSection(u)'
            /\ step'[u] = step[u] /\ goal'[u] = goal[u]
    BY DEF IInv, TypeOK, LockOwner, InSection
  <1>3. TypeOK'
    BY ThreadAssumption, WeightAssumption DEF IInv, TypeOK
  <1>4. LockOwner'
    BY <1>2, ThreadAssumption, WeightAssumption DEF LockOwner
  <1>5. StepShape'
    BY <1>1, <1>2 DEF IInv, StepShape
  <1>6. SectionFacts'
    BY <1>1, <1>2 DEF SectionFacts, BaseWeights, SwappedWeights
  <1>7. BusyPhase'
    BY <1>1, <1>2 DEF BusyPhase
  <1>8. RollingPhase'
    BY <1>1, <1>2 DEF RollingPhase, AtBody, InSection
  <1> QED
    BY <1>3, <1>4, <1>5, <1>6, <1>7, <1>8 DEF IInv

\* Every weight vector that differs from the original only where there are
\* golden snapshots is repaired by a full restore.
LEMMA RestoreAll ==
    ASSUME TypeOK, GoldenSnapshots
    PROVE  Restored(DOMAIN snapshots) = BaseWeights
  BY DEF TypeOK, GoldenSnapshots, Restored, BaseWeights

LEMMA CaptureStep ==
    ASSUME IInv, NEW t \in Threads, Capture(t) \/ CaptureFails(t)
    PROVE  IInv'
  <1> USE DEF IInv
  <1>1. InSection(t) /\ live = BaseWeights /\ lock = t /\ phase # "READY"
    BY DEF Capture, CaptureFails, AtBody, InSection, SectionFacts, Pristine,
           LockOwner, BusyPhase
  <1>2. route[t] \in Routes /\ RouteLayers[route[t]] \subseteq Layers
    BY ThreadAssumption, WeightAssumption DEF TypeOK
  <1>3. ASSUME NEW S \in SUBSET Layers, snapshots' = [l \in S |-> live[l]]
        PROVE  /\ DOMAIN snapshots' = S
               /\ snapshots' \in [DOMAIN snapshots' -> Seq(Delta)]
               /\ live' = live => GoldenSnapshots'
    BY <1>1, <1>3 DEF GoldenSnapshots, TypeOK, BaseWeights
  <1>4. CASE Capture(t)
    <2>1. /\ step' = [step EXCEPT ![t] = "check"]
          /\ goal' = [goal EXCEPT ![t] = "SNAPSHOT_CAPTURED"]
          /\ UNCHANGED <<phase, scope, lock, live, statuses, route>>
      BY <1>4 DEF Capture, StartTransition
    <2>2. /\ RouteLayers[route[t]] \subseteq DOMAIN snapshots'
          /\ DOMAIN snapshots' \subseteq Layers
          /\ snapshots' \in [DOMAIN snapshots' -> Seq(Delta)]
          /\ GoldenSnapshots'
      BY <1>2, <1>3, <1>4, <2>1
         DEF Capture, CaptureSnapshot, GoldenSnapshotsCover, GoldenSnapshots, TypeOK
    <2>3. LeaveNoTrace'
      BY <1>1, <2>1 DEF LeaveNoTrace, BaseWeights
    <2>4. InSection(t)'
      BY <2>1 DEF InSection, TypeOK
    <2> QED
      BY <1>1, <2>1, <2>2, <2>3, <2>4, LockedStep DEF TypeOK, Step, RuntimePhase
  <1>5. CASE CaptureFails(t)
    <2>1. /\ step' = [step EXCEPT ![t] = "check"]
          /\ goal' = [goal EXCEPT ![t] = "ROLLING_BACK"]
          /\ UNCHANGED <<phase, scope, lock, live, statuses, route>>
      BY <1>5 DEF CaptureFails, StartTransition
    <2>2. /\ DOMAIN snapshots' \subseteq Layers
          /\ snapshots' \in [DOMAIN snapshots' -> Seq(Delta)]
          /\ GoldenSnapshots'
      BY <1>2, <1>3, <1>5, <2>1 DEF CaptureFails, CaptureSnapshotRaises
    <2>3. LeaveNoTrace'
      BY <1>1, <2>1 DEF LeaveNoTrace, BaseWeights
    <2>4. InSection(t)' /\ ~Pristine(t)'
      BY <2>1 DEF InSection, Pristine, TypeOK
    <2> QED
      BY <1>1, <2>1, <2>2, <2>3, <2>4, LockedStep DEF TypeOK, Step, RuntimePhase
  <1> QED
    BY <1>4, <1>5

LEMMA ApplyStep ==
    ASSUME IInv, NEW t \in Threads, Apply(t) \/ ApplyFails(t)
    PROVE  IInv'
  <1> USE DEF IInv
  <1>1. /\ InSection(t) /\ lock = t /\ phase # "READY"
        /\ live = BaseWeights
        /\ RouteLayers[route[t]] \subseteq DOMAIN snapshots
    BY DEF Apply, ApplyFails, AtBody, InSection, SectionFacts, Pristine,
           LockOwner, BusyPhase
  <1>2. route[t] \in Routes /\ RouteLayers[route[t]] \subseteq Layers
    BY ThreadAssumption, WeightAssumption DEF TypeOK
  <1>3. ASSUME NEW S \in SUBSET RouteLayers[route[t]],
               live' = AddDelta(route[t], S), UNCHANGED snapshots
        PROVE  /\ live' \in [Layers -> Seq(Delta)]
               /\ live' = [l \in Layers |-> IF l \in S THEN <<route[t]>> ELSE <<>>]
               /\ GoldenSnapshots'
    <2>1. live' = [l \in Layers |-> IF l \in S THEN <<route[t]>> ELSE <<>>]
      BY <1>1, <1>3 DEF AddDelta, BaseWeights
    <2>2. <<route[t]>> \in Seq(Delta) /\ <<>> \in Seq(Delta)
      BY <1>2 DEF Delta
    <2> QED
      BY <1>1, <1>3, <2>1, <2>2 DEF GoldenSnapshots
  <1>4. CASE Apply(t)
    <2>1. /\ step' = [step EXCEPT ![t] = "check"]
          /\ goal' = [goal EXCEPT ![t] = "SWAPPED"]
          /\ UNCHANGED <<phase, scope, lock, snapshots, statuses, route>>
          /\ live' = AddDelta(route[t], RouteLayers[route[t]])
      BY <1>4 DEF Apply, ApplySwap, StartTransition
    <2>2. live' = SwappedWeights(route[t], route[t])
      BY <1>3, <2>1 DEF SwappedWeights
    <2>3. InSection(t)' /\ ~Pristine(t)' /\ LeaveNoTrace'
      BY <1>1, <2>1, ThreadAssumption DEF InSection, Pristine, TypeOK, LeaveNoTrace
    <2> QED
      BY <1>1, <1>3, <2>1, <2>2, <2>3, LockedStep DEF TypeOK, Step, RuntimePhase
  <1>5. CASE ApplyFails(t)
    <2>1. /\ step' = [step EXCEPT ![t] = "check"]
          /\ goal' = [goal EXCEPT ![t] = "ROLLING_BACK"]
          /\ UNCHANGED <<phase, scope, lock, snapshots, statuses, route>>
      BY <1>5 DEF ApplyFails, StartTransition
    <2>2. live' \in [Layers -> Seq(Delta)] /\ GoldenSnapshots'
      BY <1>3, <1>5, <2>1 DEF ApplyFails, ApplySwapRaises
    <2>3. InSection(t)' /\ ~Pristine(t)' /\ LeaveNoTrace'
      BY <1>1, <2>1, ThreadAssumption DEF InSection, Pristine, TypeOK, LeaveNoTrace
    <2> QED
      BY <1>1, <2>1, <2>2, <2>3, LockedStep DEF TypeOK, Step, RuntimePhase
  <1> QED
    BY <1>4, <1>5

LEMMA ForwardStep ==
    ASSUME IInv, NEW t \in Threads, Forward(t)
    PROVE  IInv'
  <1> USE DEF IInv
  <1>1. InSection(t) /\ lock = t /\ phase # "READY"
    BY DEF Forward, AtBody, InSection, LockOwner, BusyPhase
  <1>2. /\ step' = [step EXCEPT ![t] = "check"]
        /\ goal' = [goal EXCEPT ![t] = "ROLLING_BACK"]
        /\ UNCHANGED <<phase, scope, lock, live, snapshots, statuses, route>>
    BY DEF Forward, StartTransition
  <1>3. InSection(t)' /\ ~Pristine(t)' /\ LeaveNoTrace' /\ GoldenSnapshots'
    BY <1>1, <1>2 DEF InSection, Pristine, TypeOK, LeaveNoTrace, GoldenSnapshots
  <1> QED
    BY <1>1, <1>2, <1>3, LockedStep DEF TypeOK, Step, RuntimePhase

LEMMA RollbackStep ==
    ASSUME IInv, NEW t \in Threads,
           \/ Rollback(t)
           \/ \E fc \in RollbackFaults : RollbackFails(t, fc)
           \/ VerifyRollbackRaises(t)
    PROVE  IInv'
  <1> USE DEF IInv
  <1>1. InSection(t) /\ lock = t /\ phase # "READY"
    BY DEF Rollback, RollbackFails, VerifyRollbackRaises, AtBody, InSection, LockOwner,
           BusyPhase
  <1>2. CASE Rollback(t)
    <2>1. /\ step' = [step EXCEPT ![t] = "check"]
          /\ goal' = [goal EXCEPT ![t] = "READY"]
          /\ UNCHANGED <<phase, scope, lock, snapshots, statuses, route>>
      BY <1>2 DEF Rollback, StartTransition
    <2>2. live' = BaseWeights
      BY <1>2, RestoreAll DEF Rollback, RollbackSucceeds
    <2>3. live' \in [Layers -> Seq(Delta)]
      BY <2>2 DEF BaseWeights
    <2>4. InSection(t)' /\ LeaveNoTrace' /\ GoldenSnapshots'
      BY <1>1, <2>1, <2>2
         DEF InSection, TypeOK, LeaveNoTrace, GoldenSnapshots, BaseWeights
    <2> QED
      BY <1>1, <2>1, <2>2, <2>3, <2>4, LockedStep DEF TypeOK, Step, RuntimePhase
  <1>3. CASE \E fc \in RollbackFaults : RollbackFails(t, fc)
    <2>1. /\ step' = [step EXCEPT ![t] = "check"]
          /\ goal' = [goal EXCEPT ![t] = "WORKER_QUARANTINED"]
          /\ UNCHANGED <<phase, scope, lock, snapshots, statuses, route>>
      BY <1>3, RollbackVerdict DEF RollbackFails, StartTransition
    <2>2. PICK fc \in RollbackFaults : live' \in RollbackDamage(fc)
      BY <1>3 DEF RollbackFails
    <2>3. PICK S \in SUBSET DOMAIN snapshots :
             live' = IF fc = "rollback_checksum_mismatch"
                       THEN [l \in Layers |->
                               IF l \in S THEN <<Garbage>> ELSE Restored(DOMAIN snapshots)[l]]
                       ELSE Restored(DOMAIN snapshots \ S)
      BY <2>2 DEF RollbackDamage
    <2>4. <<Garbage>> \in Seq(Delta) /\ <<>> \in Seq(Delta)
      BY DEF Delta
    <2>5. /\ live' \in [Layers -> Seq(Delta)]
          /\ \A l \in Layers \ DOMAIN snapshots : live'[l] = <<>>
      <3>1. CASE fc = "rollback_checksum_mismatch"
        BY <2>3, <2>4, <3>1, RestoreAll DEF BaseWeights
      <3>2. CASE fc # "rollback_checksum_mismatch"
        BY <2>3, <3>2 DEF Restored, GoldenSnapshots, TypeOK
      <3> QED
        BY <3>1, <3>2
    <2>6. InSection(t)' /\ ~Pristine(t)' /\ LeaveNoTrace' /\ GoldenSnapshots'
      BY <1>1, <2>1, <2>5, ThreadAssumption
         DEF InSection, Pristine, TypeOK, LeaveNoTrace, GoldenSnapshots
    <2> QED
      BY <1>1, <2>1, <2>5, <2>6, LockedStep DEF TypeOK, Step, RuntimePhase
  <1>4. CASE VerifyRollbackRaises(t)
    <2>1. /\ goal[t] = "ROLLING_BACK"
          /\ phase \in {"ROLLING_BACK", "ROUTE_QUARANTINED"}
      BY <1>4 DEF VerifyRollbackRaises, RollingPhase, AtBody
    <2>2. /\ step' = [step EXCEPT ![t] = "idle"]
          /\ goal' = [goal EXCEPT ![t] = "ROLLING_BACK"]
          /\ lock' = NoThread
          /\ UNCHANGED <<phase, scope, snapshots, statuses, route>>
      BY <1>4, <2>1 DEF VerifyRollbackRaises, Goto, TypeOK
    <2>3. live' = BaseWeights
      BY <1>4, RestoreAll DEF VerifyRollbackRaises, RollbackSucceeds
    <2>4. live' \in [Layers -> Seq(Delta)]
      BY <2>3 DEF BaseWeights
    <2>5. ~InSection(t)' /\ LeaveNoTrace' /\ GoldenSnapshots'
      BY <2>1, <2>2, <2>3
         DEF InSection, TypeOK, LeaveNoTrace, GoldenSnapshots, BaseWeights
    <2> QED
      BY <1>1, <2>2, <2>3, <2>4, <2>5, LockedStep DEF TypeOK, Step, RuntimePhase
  <1> QED
    BY <1>2, <1>3, <1>4

LEMMA AcquireStep ==
    ASSUME IInv, NEW t \in Threads, Acquire(t)
    PROVE  IInv'
  <1> USE DEF IInv
  <1>1. /\ step' = [step EXCEPT ![t] = "check"]
        /\ goal' = [goal EXCEPT ![t] = "VERIFYING"]
        /\ lock = NoThread /\ lock' = t
        /\ UNCHANGED <<phase, scope, live, snapshots, statuses, route>>
    BY DEF Acquire, StartTransition
  <1>2. \A u \in Threads : ~InSection(u)
    BY <1>1, ThreadAssumption, WeightAssumption DEF LockOwner
  <1>3. step'[t] = "check" /\ goal'[t] = "VERIFYING" /\ InSection(t)'
    BY <1>1 DEF TypeOK, InSection
  <1>4. \A u \in Threads \ {t} :
            ~InSection(u)' /\ step'[u] = step[u] /\ goal'[u] = goal[u]
    BY <1>1, <1>2 DEF TypeOK, InSection
  <1>5. TypeOK'
    BY <1>1 DEF TypeOK, Step, RuntimePhase
  <1>6. LockOwner'
    BY <1>1, <1>3, <1>4 DEF LockOwner
  <1>7. StepShape'
    BY <1>3, <1>4 DEF StepShape
  <1>8. SectionFacts' /\ BusyPhase'
    BY <1>3, <1>4 DEF SectionFacts, BusyPhase, Pristine
  <1>9. LeaveNoTrace' /\ GoldenSnapshots'
    BY <1>1, ThreadAssumption, WeightAssumption DEF LeaveNoTrace, GoldenSnapshots
  <1>10. RollingPhase'
    BY <1>1, <1>3, <1>4 DEF RollingPhase, AtBody
  <1> QED
    BY <1>5, <1>6, <1>7, <1>8, <1>9, <1>10

\* The test of transition(), whoever calls it.
LEMMA CheckStep ==
    ASSUME IInv, NEW t \in Threads, TransitionAccepted(t) \/ TransitionRefused(t)
    PROVE  IInv'
  <1> USE DEF IInv
  <1>1. /\ UNCHANGED <<phase, lock, live, snapshots, statuses, route>>
        /\ scope' \in QuarantineScope
        /\ step[t] = "check" /\ goal[t] \in RuntimePhase
    BY ScopeAfterType DEF TransitionAccepted, TransitionRefused, TypeOK
  <1>2. CASE goal[t] = "ROUTE_QUARANTINED"
    <2>1. PICK s \in {"write", "idle"} :
             step' = [step EXCEPT ![t] = s] /\ goal' = goal
      BY <1>2 DEF TransitionAccepted, TransitionRefused, Goto, ForcedPhases
    <2>2. goal' = [goal EXCEPT ![t] = "ROUTE_QUARANTINED"] /\ s \in Step \ {"force", "body"}
      BY <1>2, <2>1 DEF TypeOK, Step
    <2>3. ~InSection(t) /\ ~InSection(t)'
      BY <1>2, <2>1 DEF InSection
    <2> QED
      BY <1>1, <2>1, <2>2, <2>3, UnlockedStep DEF TypeOK, RuntimePhase
  <1>3. CASE goal[t] # "ROUTE_QUARANTINED"
    <2>1. InSection(t) /\ lock = t
      BY <1>1, <1>3 DEF InSection, LockOwner
    <2>2. LeaveNoTrace' /\ GoldenSnapshots'
      BY <1>1 DEF LeaveNoTrace, GoldenSnapshots, BaseWeights
    <2>3. CASE TransitionAccepted(t)
      <3>1. step' = [step EXCEPT ![t] = "write"] /\ goal' = [goal EXCEPT ![t] = goal[t]]
        BY <2>3 DEF TransitionAccepted, Goto, TypeOK
      <3>2. goal[t] = "VERIFYING" => live = BaseWeights
        BY <2>3, VerifyingFromReady DEF TransitionAccepted, LeaveNoTrace, TypeOK
      <3>3. InSection(t)' /\ (Pristine(t)' => live = BaseWeights)
        BY <1>1, <1>3, <2>1, <3>1, <3>2
           DEF InSection, Pristine, TypeOK, SectionFacts
      <3>4. goal[t] # "VERIFYING" => phase # "READY"
        BY <2>1 DEF BusyPhase
      <3>5. TypeOK'
        BY <1>1, <3>1 DEF TypeOK, Step
      <3>6. \A u \in Threads \ {t} :
                ~InSection(u) /\ ~InSection(u)' /\ step'[u] = step[u] /\ goal'[u] = goal[u]
        BY <2>1, <3>1 DEF InSection, LockOwner, TypeOK
      <3>7. step'[t] = "write" /\ goal'[t] = goal[t]
        BY <3>1 DEF TypeOK
      <3>8. LockOwner' /\ StepShape'
        BY <1>1, <2>1, <3>3, <3>6, <3>7 DEF LockOwner, StepShape
      <3>9. SectionFacts'
        BY <1>1, <2>1, <3>3, <3>6, <3>7 DEF SectionFacts, BaseWeights, SwappedWeights
      <3>10. BusyPhase' /\ RollingPhase'
        BY <1>1, <3>4, <3>6, <3>7 DEF BusyPhase, RollingPhase, AtBody
      <3> QED
        BY <2>2, <3>5, <3>8, <3>9, <3>10
    <2>4. CASE TransitionRefused(t) /\ goal[t] \in ForcedPhases
      <3>1. step' = [step EXCEPT ![t] = "force"] /\ goal' = [goal EXCEPT ![t] = goal[t]]
        BY <1>3, <2>4 DEF TransitionRefused, Goto, TypeOK, ForcedPhases
      <3>2. InSection(t)' /\ (Pristine(t)' => live = BaseWeights)
        BY <1>1, <1>3, <2>1, <2>4, <3>1
           DEF InSection, Pristine, TypeOK, SectionFacts, ForcedPhases
      <3>3. phase # "READY"
        BY <2>1, <2>4 DEF BusyPhase, ForcedPhases
      <3> QED
        BY <1>1, <2>1, <2>2, <2>4, <3>1, <3>2, <3>3, LockedStep
           DEF TypeOK, Step, ForcedPhases
    <2>5. CASE TransitionRefused(t) /\ goal[t] \notin ForcedPhases
      <3>1. /\ step' = [step EXCEPT ![t] = "check"]
            /\ goal' = [goal EXCEPT ![t] = "ROLLING_BACK"]
        BY <1>3, <2>5 DEF TransitionRefused, StartTransition
      <3>2. InSection(t)' /\ ~Pristine(t)'
        BY <3>1 DEF InSection, Pristine, TypeOK
      <3>3. phase # "READY"
        BY <2>1, <2>5, VerifyingFromReady DEF TransitionRefused, BusyPhase
      <3> QED
        BY <1>1, <2>1, <2>2, <3>1, <3>2, <3>3, LockedStep
           DEF TypeOK, Step, RuntimePhase
    <2> QED
      BY <2>3, <2>4, <2>5
  <1> QED
    BY <1>2, <1>3

\* The write of the phase.  A thread outside the locked section can only
\* write ROUTE_QUARANTINED, over whatever the thread inside has reached.
LEMMA WriteStep ==
    ASSUME IInv, NEW t \in Threads, WritePhase(t)
    PROVE  IInv'
  <1> USE DEF IInv
  <1>1. /\ UNCHANGED <<scope, live, snapshots, statuses, route>>
        /\ phase' = goal[t] /\ goal[t] \in RuntimePhase
        /\ step[t] \in {"write", "force"}
        /\ AfterWrite(t, goal[t])
    BY DEF WritePhase, TypeOK
  <1>2. GoldenSnapshots'
    BY <1>1 DEF GoldenSnapshots
  <1>3. CASE goal[t] = "ROUTE_QUARANTINED"
    <2>1. step' = [step EXCEPT ![t] = "idle"] /\ UNCHANGED <<goal, lock>>
      BY <1>1, <1>3 DEF AfterWrite, Goto
    <2>2. /\ ~InSection(t) /\ ~InSection(t)'
          /\ \A u \in Threads \ {t} : step'[u] = step[u] /\ goal'[u] = goal[u]
      BY <1>3, <2>1 DEF InSection, TypeOK
    <2>3. \A u \in Threads : InSection(u)' <=> InSection(u)
      BY <2>1, <2>2 DEF InSection
    <2>4. TypeOK'
      BY <1>1, <2>1 DEF TypeOK, Step
    <2>5. LockOwner' /\ StepShape'
      BY <2>1, <2>2, <2>3 DEF LockOwner, StepShape, TypeOK
    <2>6. SectionFacts'
      BY <1>1, <2>2, <2>3 DEF SectionFacts, Pristine, BaseWeights, SwappedWeights
    <2>7. BusyPhase' /\ RollingPhase' /\ LeaveNoTrace'
      BY <1>1, <1>3 DEF BusyPhase, RollingPhase, LeaveNoTrace
    <2> QED
      BY <1>2, <2>4, <2>5, <2>6, <2>7
  <1>4. CASE goal[t] # "ROUTE_QUARANTINED"
    <2>1. InSection(t) /\ lock = t
      BY <1>1, <1>4 DEF InSection, LockOwner
    <2>2. CASE goal[t] \in {"READY", "WORKER_QUARANTINED"}
      <3>1. /\ step' = [step EXCEPT ![t] = "idle"]
            /\ goal' = [goal EXCEPT ![t] = goal[t]] /\ lock' = NoThread
        BY <1>1, <2>2 DEF AfterWrite, Goto, TypeOK
      <3>2. ~InSection(t)' /\ LeaveNoTrace'
        BY <1>1, <2>1, <2>2, <3>1
           DEF InSection, TypeOK, LeaveNoTrace, SectionFacts, Pristine, BaseWeights
      <3> QED
        BY <1>1, <1>2, <2>1, <3>1, <3>2, LockedStep DEF TypeOK, Step
    <2>3. CASE goal[t] \in {"SNAPSHOT_CAPTURED", "SWAPPED"}
      <3>1. PICK g \in {"SWAPPING", "FORWARDING"} :
               /\ step' = [step EXCEPT ![t] = "check"]
               /\ goal' = [goal EXCEPT ![t] = g] /\ lock' = t
               /\ g = "SWAPPING" <=> goal[t] = "SNAPSHOT_CAPTURED"
        BY <1>1, <2>1, <2>3 DEF AfterWrite, StartTransition
      <3>2. InSection(t)' /\ LeaveNoTrace'
        BY <1>1, <2>1, <2>3, <3>1, ThreadAssumption, WeightAssumption
           DEF InSection, TypeOK, LeaveNoTrace
      <3>3. /\ Pristine(t)' => live = BaseWeights
            /\ g = "FORWARDING" => live = SwappedWeights(route[t], route[t])
            /\ RouteLayers[route[t]] \subseteq DOMAIN snapshots
        BY <2>1, <2>3, <3>1 DEF SectionFacts, Pristine, TypeOK
      <3> QED
        BY <1>1, <1>2, <2>1, <2>3, <3>1, <3>2, <3>3, LockedStep
           DEF TypeOK, Step, RuntimePhase
    <2>4. CASE goal[t] \in {"VERIFYING", "SWAPPING", "FORWARDING", "ROLLING_BACK"}
      <3>1. /\ step' = [step EXCEPT ![t] = "body"]
            /\ goal' = [goal EXCEPT ![t] = goal[t]] /\ lock' = t
        BY <1>1, <2>1, <2>4 DEF AfterWrite, Goto, TypeOK
      <3>2. InSection(t)' /\ LeaveNoTrace'
        BY <1>1, <2>1, <2>4, <3>1, ThreadAssumption, WeightAssumption
           DEF InSection, TypeOK, LeaveNoTrace
      <3>3. Pristine(t)' => live = BaseWeights
        BY <1>1, <2>1, <2>4, <3>1 DEF SectionFacts, Pristine, TypeOK
      <3>4. /\ goal[t] \in {"SWAPPED", "FORWARDING"} => live = SwappedWeights(route[t], route[t])
            /\ goal[t] \in {"SNAPSHOT_CAPTURED", "SWAPPING", "SWAPPED", "FORWARDING"} =>
                  RouteLayers[route[t]] \subseteq DOMAIN snapshots
        BY <2>1 DEF SectionFacts
      <3> QED
        BY <1>1, <1>2, <2>1, <2>4, <3>1, <3>2, <3>3, <3>4, LockedStep
           DEF TypeOK, Step
    <2> QED
      BY <1>1, <1>4, <2>2, <2>3, <2>4 DEF RuntimePhase
  <1> QED
    BY <1>3, <1>4

\* Everything before the lock.
LEMMA BeforeLockStep ==
    ASSUME IInv, NEW t \in Threads,
           \/ \E r \in Routes : Call(t, r)
           \/ \E tenant \in Tenants : Verify(t, tenant)
           \/ ValidatePasses(t)
           \/ \E fc \in PayloadFaults : ValidateFails(t, fc)
    PROVE  IInv'
  <1> USE DEF IInv
  <1>1. UNCHANGED <<phase, scope, lock, live, snapshots>> /\ ~InSection(t)
    BY DEF Call, Verify, ValidatePasses, ValidateFails, InSection
  <1>2. statuses' \in [Routes -> RouteStatus]
    BY DEF Call, Verify, ValidatePasses, ValidateFails, QuarantineRoute, TypeOK, RouteStatus
  <1>3. \/ route' = route
        \/ \E r \in Routes : route' = [route EXCEPT ![t] = r]
    BY DEF Call, Verify, ValidatePasses, ValidateFails
  <1>4. PICK s \in {"idle", "verify", "validate", "acquire", "check"},
             g \in {goal[t], "ROUTE_QUARANTINED"} :
           /\ step' = [step EXCEPT ![t] = s]
           /\ goal' = [goal EXCEPT ![t] = g]
           /\ s = "check" => g = "ROUTE_QUARANTINED"
    BY DEF Call, Verify, ValidatePasses, ValidateFails, Goto, StartTransition, TypeOK
  <1>5. /\ ~InSection(t)' /\ s \in Step \ {"force", "body"} /\ g \in RuntimePhase
    BY <1>4 DEF InSection, TypeOK, Step, RuntimePhase
  <1> QED
    BY <1>1, <1>2, <1>3, <1>4, <1>5, UnlockedStep DEF TypeOK

\* A step that leaves everything but the registry alone.
LEMMA RegistryStep ==
    ASSUME IInv, UNCHANGED <<phase, scope, lock, live, snapshots, step, goal, route>>,
           statuses' \in [Routes -> RouteStatus]
    PROVE  IInv'
  BY DEF IInv, TypeOK, LockOwner, StepShape, SectionFacts, BusyPhase, RollingPhase, AtBody,
         InSection, Pristine, LeaveNoTrace, GoldenSnapshots, BaseWeights, SwappedWeights

LEMMA NextIInv == IInv /\ [Next]_vars => IInv'
  <1> SUFFICES ASSUME IInv, [Next]_vars PROVE IInv'
    OBVIOUS
  <1>1. CASE \E t \in Threads, r \in Routes : Call(t, r)
    BY <1>1, BeforeLockStep
  <1>2. CASE \E t \in Threads : ThreadStep(t)
    <2>1. PICK t \in Threads : ThreadStep(t)
      BY <1>2
    <2>2. CASE \/ \E tenant \in Tenants : Verify(t, tenant)
               \/ ValidatePasses(t)
               \/ \E fc \in PayloadFaults : ValidateFails(t, fc)
      BY <2>2, BeforeLockStep
    <2>3. CASE Acquire(t)
      BY <2>3, AcquireStep
    <2>4. CASE TransitionAccepted(t) \/ TransitionRefused(t)
      BY <2>4, CheckStep
    <2>5. CASE WritePhase(t)
      BY <2>5, WriteStep
    <2>6. CASE Capture(t) \/ CaptureFails(t)
      BY <2>6, CaptureStep
    <2>7. CASE Apply(t) \/ ApplyFails(t)
      BY <2>7, ApplyStep
    <2>8. CASE Forward(t)
      BY <2>8, ForwardStep
    <2>9. CASE \/ Rollback(t)
               \/ \E fc \in RollbackFaults : RollbackFails(t, fc)
               \/ VerifyRollbackRaises(t)
      BY <2>9, RollbackStep
    <2> QED
      BY <2>1, <2>2, <2>3, <2>4, <2>5, <2>6, <2>7, <2>8, <2>9 DEF ThreadStep
  <1>3. CASE \E r \in Routes : Register(r) \/ Revoke(r)
    <2>1. statuses' \in [Routes -> RouteStatus]
      BY <1>3 DEF Register, Revoke, RegisterRoute, RevokeRoute, IInv, TypeOK, RouteStatus
    <2>2. UNCHANGED <<phase, scope, lock, live, snapshots, step, goal, route>>
      BY <1>3 DEF Register, Revoke
    <2> QED
      BY <2>1, <2>2, RegistryStep
  <1>4. CASE UNCHANGED vars
    BY <1>4, RegistryStep DEF vars, IInv, TypeOK
  <1> QED
    BY <1>1, <1>2, <1>3, <1>4 DEF Next

\* IInv holds in every reachable state.
THEOREM Invariance == Spec => []IInv
  BY InitIInv, NextIInv, PTL DEF Spec

\* Type correctness of the runtime.
THEOREM TypeCorrect == Spec => []TypeOK
  <1>1. IInv => TypeOK
    BY DEF IInv
  <1> QED
    BY <1>1, Invariance, PTL

\* Every forward pass of infer runs on the base weights plus exactly its own
\* route's deltas, for any number of threads, routes, layers and faults.
THEOREM ForwardsAreIsolated == Spec => []ForwardIsolation
  <1>1. IInv => ForwardIsolation
    BY DEF IInv, SectionFacts, ForwardIsolation, AtBody, InSection
  <1> QED
    BY <1>1, Invariance, PTL

\* READY implies the original weights, and the machine is never left in the
\* middle of a swap when _lock is free.
THEOREM LeavesNoTrace == Spec => []LeaveNoTrace
  <1>1. IInv => LeaveNoTrace
    BY DEF IInv
  <1> QED
    BY <1>1, Invariance, PTL

\* The snapshots capture_snapshot keeps hold original values and cover every
\* modified layer.
THEOREM SnapshotsStayGolden == Spec => []GoldenSnapshots
  <1>1. IInv => GoldenSnapshots
    BY DEF IInv
  <1> QED
    BY <1>1, Invariance, PTL

=============================================================================
