--------------------------- MODULE HotSwapRuntime ---------------------------
(***************************************************************************)
(* HotSwapRuntime.infer (neural_scalpel/experimental/runtime.py)           *)
(* called by several threads on one worker.  A call verifies its route and *)
(* its payload without any lock, then takes the runtime's lock, captures   *)
(* the layers the route touches, adds the route's deltas to them, runs the *)
(* forward pass and restores the snapshot.  Failures are handled by the    *)
(* policy of FailurePolicy.                                                *)
(*                                                                         *)
(* The lock does not cover the state machine: transition() tests the table *)
(* and writes the phase in two steps, and a call whose payload is refused  *)
(* runs it while another call is inside the locked section.                *)
(***************************************************************************)
EXTENDS WeightSwap

CONSTANTS Threads,        \* threads that call infer
          NoThread        \* the owner of the lock when it is free

ASSUME ThreadAssumption == NoThread \notin Threads

VARIABLES
    phase,      \* _state_machine.phase
    scope,      \* _state_machine.quarantine_scope
    lock,       \* the thread that holds _lock, or NoThread
    step,       \* where each thread is in infer
    goal,       \* the phase a thread is moving, or has moved, the machine to
    route       \* the route of the thread's call

vars == <<phase, scope, lock, live, snapshots, statuses, step, goal, route>>

Step == {"idle", "verify", "validate", "acquire", "check", "write", "force",
         "body"}

Delta == Routes \cup {Garbage}
Init ==
    /\ phase = "READY"
    /\ scope = "NONE"
    /\ lock = NoThread
    /\ live = BaseWeights
    /\ snapshots = [l \in {} |-> <<>>]
    /\ statuses = [r \in Routes |-> "ABSENT"]
    /\ step = [t \in Threads |-> "idle"]
    /\ goal = [t \in Threads |-> "READY"]
    /\ route \in [Threads -> Routes]

Goto(t, s) == step' = [step EXCEPT ![t] = s] /\ UNCHANGED goal

\* Thread t calls _state_machine.transition(p) next.
StartTransition(t, p) ==
    /\ step' = [step EXCEPT ![t] = "check"]
    /\ goal' = [goal EXCEPT ![t] = p]

-----------------------------------------------------------------------------
(* Before the lock.                                                        *)

\* The guard at the head of infer.  A call that is refused, here or by the
\* registry, raises and leaves everything as it was.
Call(t, r) ==
    /\ step[t] = "idle"
    /\ ~IsTerminal(phase)
    /\ route' = [route EXCEPT ![t] = r]
    /\ Goto(t, "verify")
    /\ UNCHANGED <<phase, scope, lock, live, snapshots, statuses>>

Verify(t, tenant) ==
    /\ step[t] = "verify"
    /\ Goto(t, IF GetVerifiedRoute(route[t], tenant) THEN "validate" ELSE "idle")
    /\ UNCHANGED <<phase, scope, lock, live, snapshots, statuses, route>>

ValidatePasses(t) ==
    /\ step[t] = "validate"
    /\ Goto(t, "acquire")
    /\ UNCHANGED <<phase, scope, lock, live, snapshots, statuses, route>>

\* The payload is refused: the verdict is applied by _apply_verdict, outside
\* the lock, and the call raises.  No payload failure condemns the worker.
ValidateFails(t, fc) ==
    /\ step[t] = "validate"
    /\ LET verdict == EvaluateFailure(fc)
       IN  IF verdict.scope # "NONE" /\ verdict.target_phase = "ROUTE_QUARANTINED"
             THEN QuarantineRoute(route[t]) /\ StartTransition(t, "ROUTE_QUARANTINED")
             ELSE Goto(t, "idle") /\ UNCHANGED statuses
    /\ UNCHANGED <<phase, scope, lock, live, snapshots, route>>

Acquire(t) ==
    /\ step[t] = "acquire"
    /\ lock = NoThread
    /\ lock' = t
    /\ StartTransition(t, "VERIFYING")
    /\ UNCHANGED <<phase, scope, live, snapshots, statuses, route>>

-----------------------------------------------------------------------------
(* The state machine, as every thread uses it.                             *)

\* Phases the runtime writes directly when transition() refuses them.
ForcedPhases == {"ROLLING_BACK", "READY", "WORKER_QUARANTINED"}

\* The test passes, and the quarantine scope is written before the phase is.
TransitionAccepted(t) ==
    /\ step[t] = "check"
    /\ IsLegalTransition(phase, goal[t])
    /\ scope' = ScopeAfter(goal[t], scope)
    /\ Goto(t, "write")
    /\ UNCHANGED <<phase, lock, live, snapshots, statuses, route>>

\* InvalidStateTransition: ignored when quarantining a route, overridden in
\* ForcedPhases, and otherwise an exception of the locked section, which
\* starts the rollback.
TransitionRefused(t) ==
    /\ step[t] = "check"
    /\ ~IsLegalTransition(phase, goal[t])
    /\ \/ goal[t] = "ROUTE_QUARANTINED" /\ Goto(t, "idle")
       \/ goal[t] \in ForcedPhases /\ Goto(t, "force")
       \/ goal[t] \notin ForcedPhases \cup {"ROUTE_QUARANTINED"}
             /\ StartTransition(t, "ROLLING_BACK")
    /\ UNCHANGED <<phase, scope, lock, live, snapshots, statuses, route>>

\* Mutant: a worker that is quarantined keeps the lock.
AfterWrite_KeepsLock(t, p) ==
    \/ p = "SNAPSHOT_CAPTURED" /\ StartTransition(t, "SWAPPING") /\ UNCHANGED lock
    \/ p = "SWAPPED" /\ StartTransition(t, "FORWARDING") /\ UNCHANGED lock
    \/ p \in {"VERIFYING", "SWAPPING", "FORWARDING", "ROLLING_BACK"}
          /\ Goto(t, "body") /\ UNCHANGED lock
    \/ p \in {"ROUTE_QUARANTINED", "WORKER_QUARANTINED"}
          /\ Goto(t, "idle") /\ UNCHANGED lock
    \/ p = "READY" /\ Goto(t, "idle") /\ lock' = NoThread

\* What follows the write of phase p by thread t.
AfterWrite(t, p) ==
    \/ p = "SNAPSHOT_CAPTURED" /\ StartTransition(t, "SWAPPING") /\ UNCHANGED lock
    \/ p = "SWAPPED" /\ StartTransition(t, "FORWARDING") /\ UNCHANGED lock
    \/ p \in {"VERIFYING", "SWAPPING", "FORWARDING", "ROLLING_BACK"}
          /\ Goto(t, "body") /\ UNCHANGED lock
    \/ p = "ROUTE_QUARANTINED" /\ Goto(t, "idle") /\ UNCHANGED lock
    \/ p \in {"READY", "WORKER_QUARANTINED"} /\ Goto(t, "idle") /\ lock' = NoThread

\* The write of the phase, accepted earlier or forced.  _perform_rollback
\* ends with the write of READY or WORKER_QUARANTINED, and infer then leaves
\* the locked section and returns or raises.
WritePhase(t) ==
    /\ step[t] \in {"write", "force"}
    /\ phase' = goal[t]
    /\ AfterWrite(t, goal[t])
    /\ UNCHANGED <<scope, live, snapshots, statuses, route>>

-----------------------------------------------------------------------------
(* The locked section.                                                     *)

AtBody(t, p) == step[t] = "body" /\ goal[t] = p

Capture(t) ==
    /\ AtBody(t, "VERIFYING")
    /\ CaptureSnapshot(route[t])
    /\ StartTransition(t, "SNAPSHOT_CAPTURED")
    /\ UNCHANGED <<phase, scope, lock, live, statuses, route>>

CaptureFails(t) ==
    /\ AtBody(t, "VERIFYING")
    /\ CaptureSnapshotRaises(route[t])
    /\ StartTransition(t, "ROLLING_BACK")
    /\ UNCHANGED <<phase, scope, lock, live, statuses, route>>

Apply(t) ==
    /\ AtBody(t, "SWAPPING")
    /\ ApplySwap(route[t], route[t])
    /\ StartTransition(t, "SWAPPED")
    /\ UNCHANGED <<phase, scope, lock, snapshots, statuses, route>>

\* Mutant: a swap that raises is not rolled back.
ApplyFails_NoRollback(t) ==
    /\ AtBody(t, "SWAPPING")
    /\ ApplySwapRaises(route[t], route[t])
    /\ StartTransition(t, "READY")
    /\ UNCHANGED <<phase, scope, lock, snapshots, statuses, route>>

ApplyFails(t) ==
    /\ AtBody(t, "SWAPPING")
    /\ ApplySwapRaises(route[t], route[t])
    /\ StartTransition(t, "ROLLING_BACK")
    /\ UNCHANGED <<phase, scope, lock, snapshots, statuses, route>>

\* inference_func returns or raises: both ways lead to _perform_rollback.
Forward(t) ==
    /\ AtBody(t, "FORWARDING")
    /\ StartTransition(t, "ROLLING_BACK")
    /\ UNCHANGED <<phase, scope, lock, live, snapshots, statuses, route>>

\* The body of _perform_rollback, and its failures.
Rollback(t) ==
    /\ AtBody(t, "ROLLING_BACK")
    /\ RollbackSucceeds
    /\ StartTransition(t, "READY")
    /\ UNCHANGED <<phase, scope, lock, snapshots, statuses, route>>

RollbackFails(t, fc) ==
    /\ AtBody(t, "ROLLING_BACK")
    /\ live' \in RollbackDamage(fc)
    /\ StartTransition(t, EvaluateFailure(fc).target_phase)
    /\ UNCHANGED <<phase, scope, lock, snapshots, statuses, route>>

\* verify_rollback() itself raises: nothing in _perform_rollback catches it,
\* so the call leaves the locked section with the phase as it is.
VerifyRollbackRaises(t) ==
    /\ AtBody(t, "ROLLING_BACK")
    /\ RollbackSucceeds
    /\ lock' = NoThread
    /\ Goto(t, "idle")
    /\ UNCHANGED <<phase, scope, snapshots, statuses, route>>

-----------------------------------------------------------------------------
\* Everything a thread does once it has called infer.
ThreadStep(t) ==
    \/ \E tenant \in Tenants : Verify(t, tenant)
    \/ ValidatePasses(t)
    \/ \E fc \in PayloadFaults : ValidateFails(t, fc)
    \/ Acquire(t)
    \/ TransitionAccepted(t)
    \/ TransitionRefused(t)
    \/ WritePhase(t)
    \/ Capture(t)
    \/ CaptureFails(t)
    \/ Apply(t)
    \/ ApplyFails(t)
    \/ Forward(t)
    \/ Rollback(t)
    \/ \E fc \in RollbackFaults : RollbackFails(t, fc)
    \/ VerifyRollbackRaises(t)

\* The route administration of the server, concurrent with the calls.
Register(r) ==
    /\ RegisterRoute(r)
    /\ UNCHANGED <<phase, scope, lock, live, snapshots, step, goal, route>>

Revoke(r) ==
    /\ RevokeRoute(r)
    /\ UNCHANGED <<phase, scope, lock, live, snapshots, step, goal, route>>

Next ==
    \/ \E t \in Threads, r \in Routes : Call(t, r)
    \/ \E t \in Threads : ThreadStep(t)
    \/ \E r \in Routes : Register(r) \/ Revoke(r)

\* A thread that has called infer keeps running; nobody is obliged to call.
Fairness == \A t \in Threads : WF_vars(ThreadStep(t))

Spec == Init /\ [][Next]_vars /\ Fairness

-----------------------------------------------------------------------------
(* Properties.                                                             *)

TypeOK ==
    /\ phase \in RuntimePhase
    /\ scope \in QuarantineScope
    /\ lock \in Threads \cup {NoThread}
    /\ live \in [Layers -> Seq(Delta)]
    /\ DOMAIN snapshots \subseteq Layers
    /\ snapshots \in [DOMAIN snapshots -> Seq(Delta)]
    /\ statuses \in [Routes -> RouteStatus]
    /\ step \in [Threads -> Step]
    /\ goal \in [Threads -> RuntimePhase]
    /\ route \in [Threads -> Routes]

\* A forward pass runs on the base weights plus exactly the deltas of its own
\* route, each once: no residue of an earlier call, of a swap that failed
\* half way or of a failed rollback, whatever the other threads do to the
\* state machine meanwhile (infer, apply_swap).
ForwardIsolation ==
    \A t \in Threads : AtBody(t, "FORWARDING") => live = SwappedWeights(route[t], route[t])

\* Leave no trace: whenever the state machine says READY the weights are the
\* original ones, and when no call holds the lock the machine is READY or
\* quarantined, or a rollback whose verification raised has restored the
\* weights: it is never left in the middle of a swap (infer,
\* _perform_rollback).
LeaveNoTrace ==
    /\ phase = "READY" => live = BaseWeights
    /\ lock = NoThread =>
          \/ phase \in {"READY", "ROUTE_QUARANTINED", "WORKER_QUARANTINED"}
          \/ phase = "ROLLING_BACK" /\ live = BaseWeights

\* The lock is released on every path out of the locked section, exceptions
\* and failed rollbacks included (infer).
LockHolderFinishes ==
    \A t \in Threads : lock = t ~> lock # t

-----------------------------------------------------------------------------
(* The inductive invariant behind ForwardIsolation, LeaveNoTrace and       *)
(* GoldenSnapshots.                                                        *)

\* Thread t is between the acquisition and the release of the lock.
InSection(t) ==
    /\ step[t] \in {"check", "write", "force", "body"}
    /\ goal[t] # "ROUTE_QUARANTINED"

\* The lock is held by exactly the thread inside the locked section.
LockOwner == \A t \in Threads : lock = t <=> InSection(t)

\* A direct write is only ever one of ForcedPhases, and only four phases
\* have work to do.
StepShape ==
    \A t \in Threads :
        /\ step[t] = "force" => goal[t] \in ForcedPhases
        /\ step[t] = "body" =>
              goal[t] \in {"VERIFYING", "SWAPPING", "FORWARDING", "ROLLING_BACK"}

\* What the thread inside the locked section knows of the weights and the
\* snapshots at every point of its way.
Pristine(t) ==
    \/ goal[t] = "VERIFYING" /\ step[t] # "check"
    \/ goal[t] \in {"SNAPSHOT_CAPTURED", "SWAPPING", "READY"}

SectionFacts ==
    \A t \in Threads : InSection(t) =>
        /\ Pristine(t) => live = BaseWeights
        /\ goal[t] \in {"SWAPPED", "FORWARDING"} => live = SwappedWeights(route[t], route[t])
        /\ goal[t] \in {"SNAPSHOT_CAPTURED", "SWAPPING", "SWAPPED", "FORWARDING"} =>
              RouteLayers[route[t]] \subseteq DOMAIN snapshots

\* Once the thread inside the locked section has left READY, the machine is
\* not READY before that thread writes it.
BusyPhase ==
    \A t \in Threads :
        InSection(t) /\ ~(goal[t] = "VERIFYING" /\ step[t] \in {"check", "write"})
            => phase # "READY"

\* While the weights are restored nothing but the quarantine of another
\* call's route has moved the machine.
RollingPhase ==
    \A t \in Threads :
        AtBody(t, "ROLLING_BACK") => phase \in {"ROLLING_BACK", "ROUTE_QUARANTINED"}

IInv ==
    /\ TypeOK
    /\ LockOwner
    /\ StepShape
    /\ SectionFacts
    /\ BusyPhase
    /\ RollingPhase
    /\ LeaveNoTrace
    /\ GoldenSnapshots

=============================================================================
