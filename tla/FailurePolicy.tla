---------------------------- MODULE FailurePolicy ----------------------------
(***************************************************************************)
(* The fail-close policy table (neural_scalpel/experimental/               *)
(* failure_policy.py): every failure class has a verdict, of which the     *)
(* quarantine scope and the target phase drive the runtime.                *)
(***************************************************************************)
EXTENDS RuntimeState

PayloadFailure ==
    {"payload_file_not_found", "payload_sha256_mismatch",
     "payload_header_corrupted", "payload_tensor_key_missing",
     "payload_shape_mismatch", "payload_dtype_mismatch",
     "payload_nan_inf_detected", "payload_too_large", "payload_io_error"}

RollbackFailure ==
    {"rollback_checksum_mismatch", "rollback_exception",
     "rollback_partial_restore"}

SwapFailure ==
    {"swap_target_layer_not_found", "swap_lock_acquisition_failed",
     "swap_vram_insufficient", "swap_delta_application_error",
     "swap_state_stuck"}

FailureClass ==
    PayloadFailure \cup SwapFailure \cup RollbackFailure
        \cup {"inference_exception", "state_transition_invalid"}

Verdict(scope, phase) == [scope |-> scope, target_phase |-> phase]

\* Mutant: the scope of a worker verdict is entered as its target phase.
EvaluateFailure_ScopeAsPhase(fc) ==
    CASE fc \in {"payload_too_large", "swap_lock_acquisition_failed"} ->
            Verdict("NONE", "READY")
      [] fc \in PayloadFailure \ {"payload_too_large"} ->
            Verdict("ROUTE", "ROUTE_QUARANTINED")
      [] OTHER ->
            Verdict("WORKER", "WORKER")

\* _POLICY_TABLE, with _UNKNOWN_VERDICT for anything that is not in it.
EvaluateFailure(fc) ==
    CASE fc \in {"payload_too_large", "swap_lock_acquisition_failed"} ->
            Verdict("NONE", "READY")
      [] fc = "inference_exception" ->
            Verdict("NONE", "ROLLING_BACK")
      [] fc = "swap_delta_application_error" ->
            Verdict("ROUTE", "ROLLING_BACK")
      [] fc \in (PayloadFailure \ {"payload_too_large"})
               \cup {"swap_target_layer_not_found", "swap_vram_insufficient"} ->
            Verdict("ROUTE", "ROUTE_QUARANTINED")
      [] OTHER ->
            Verdict("WORKER", "WORKER_QUARANTINED")

=============================================================================
