----------------------------- MODULE WeightSwap -----------------------------
(***************************************************************************)
(* The weights of the base model and what HotSwapRuntime                   *)
(* (neural_scalpel/experimental/runtime.py) does to them: capture_snapshot, *)
(* apply_swap, rollback and verify_rollback.                               *)
(*                                                                         *)
(* A weight tensor is the sequence of what was added to its original       *)
(* value, so the original is <<>>.  A layer's manifest name is identified  *)
(* with the tensor it resolves to, a checksum with the value it is taken   *)
(* of.  The order of a manifest's layers is not fixed: a loop over them    *)
(* that an exception interrupts has handled an arbitrary subset.           *)
(***************************************************************************)
EXTENDS RouteRegistry, Sequences

CONSTANTS Layers,         \* weight tensors of the base model
          RouteLayers,    \* [Routes -> SUBSET Layers], a manifest's layers
          Unfit,          \* the layers of a manifest that the model lacks or
                          \* holds with another shape or dtype
          Garbage,        \* what a rollback that goes wrong leaves in a layer
          PayloadFaults,  \* the ways payload validation can fail
          RollbackFaults  \* the ways a rollback can fail

ASSUME WeightAssumption ==
    /\ RouteLayers \in [Routes -> SUBSET Layers]
    /\ Unfit \in [Routes -> SUBSET Layers]
    /\ PayloadFaults \subseteq PayloadFailure
    /\ RollbackFaults \subseteq RollbackFailure

VARIABLES
    live,       \* the model's weights
    snapshots   \* _snapshots (and _checksums): captured layer -> value

BaseWeights == [l \in Layers |-> <<>>]

\* The model while exactly the deltas d of route r are swapped in.
SwappedWeights(r, d) ==
    [l \in Layers |-> IF l \in RouteLayers[r] THEN <<d>> ELSE <<>>]

-----------------------------------------------------------------------------
(* capture_snapshot.                                                       *)

\* Mutant: any snapshot is taken for a snapshot of this route.
GoldenSnapshotsCover_Any(r) == DOMAIN snapshots # {}

\* The snapshots of an earlier swap are kept when they cover the route.
GoldenSnapshotsCover(r) ==
    DOMAIN snapshots # {} /\ RouteLayers[r] \subseteq DOMAIN snapshots

CaptureSnapshot(r) ==
    \/ /\ GoldenSnapshotsCover(r)
       /\ UNCHANGED snapshots
    \/ /\ ~GoldenSnapshotsCover(r)
       /\ RouteLayers[r] \cap Unfit[r] = {}
       /\ snapshots' = [l \in RouteLayers[r] |-> live[l]]

\* A layer is missing, misfits or cannot be copied: the old snapshots are
\* gone and only the layers before it are captured.
CaptureSnapshotRaises(r) ==
    /\ ~GoldenSnapshotsCover(r)
    /\ \E S \in SUBSET (RouteLayers[r] \ Unfit[r]) :
          /\ S # RouteLayers[r]
          /\ snapshots' = [l \in S |-> live[l]]

-----------------------------------------------------------------------------
(* apply_swap adds the deltas d of route r.                                *)

AddDelta(d, S) ==
    [l \in Layers |-> IF l \in S THEN Append(live[l], d) ELSE live[l]]

ApplySwap(r, d) == live' = AddDelta(d, RouteLayers[r])

\* A delta is missing or does not fit: the layers before it keep theirs.
ApplySwapRaises(r, d) ==
    \E S \in SUBSET RouteLayers[r] :
        S # RouteLayers[r] /\ live' = AddDelta(d, S)

-----------------------------------------------------------------------------
(* rollback and verify_rollback.                                           *)

Restored(S) == [l \in Layers |-> IF l \in S THEN snapshots[l] ELSE live[l]]

\* Every layer that has a snapshot is restored and its checksum matches.
RollbackSucceeds == live' = Restored(DOMAIN snapshots)

\* rollback() raises with only some layers restored, or restores them all
\* and verify_rollback() finds some different from their snapshots.
RollbackDamage(fc) ==
    {IF fc = "rollback_checksum_mismatch"
       THEN [l \in Layers |-> IF l \in S THEN <<Garbage>> ELSE Restored(DOMAIN snapshots)[l]]
       ELSE Restored(DOMAIN snapshots \ S) :
     S \in SUBSET DOMAIN snapshots \ {{}}}

-----------------------------------------------------------------------------
\* Golden snapshots: what capture_snapshot keeps is always the original value
\* of a layer, and it covers every layer that differs from the original, so
\* a later rollback can still repair a worker that a rollback left damaged.
GoldenSnapshots ==
    /\ \A l \in DOMAIN snapshots : snapshots[l] = <<>>
    /\ \A l \in Layers : live[l] # <<>> => l \in DOMAIN snapshots

=============================================================================
