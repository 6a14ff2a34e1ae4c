-------------------------- MODULE EngineSelection --------------------------
(***************************************************************************)
(* How a serving engine is chosen at start-up (neural_scalpel/serving/     *)
(* startup_selftest.py, mode_selector.py and engine_factory.py).  The      *)
(* environment is a record of what the checks look at; nothing here has    *)
(* state of its own.                                                       *)
(***************************************************************************)

ServingMode == {"internal", "external_proxy", "native_lora", "auto",
                "fail_closed"}

\* The value of SCALPEL_SERVING_MODE may also be missing or misspelt.
ModeSetting == ServingMode \cup {"unset", "invalid"}

DirState == {"missing", "plain_file", "unreadable", "readable"}

Environment ==
    [mode : ModeSetting, gpu : BOOLEAN, tensors : BOOLEAN,
     registry_dir : DirState, payload_dir : DirState, factory : BOOLEAN]

SelfTest == {"gpu_available", "vllm_version", "route_registry",
             "payload_storage", "dry_run_swap"}

\* The check functions; true when the function returns, false when it raises.
\* check_vllm_version never raises, check_payload_storage accepts a plain file.
CheckReturns(test, env) ==
    CASE test = "gpu_available"   -> env.gpu
      [] test = "vllm_version"    -> TRUE
      [] test = "route_registry"  -> env.registry_dir = "readable"
      [] test = "payload_storage" -> env.payload_dir \in {"readable", "plain_file"}
      [] test = "dry_run_swap"    -> env.tensors

\* run_self_tests(...).failed_tests: a missing GPU is overlooked unless
\* require_gpu is set.
FailedTests(env, requireGpu) ==
    {test \in SelfTest : ~CheckReturns(test, env)}
        \ (IF requireGpu THEN {} ELSE {"gpu_available"})

ParseServingMode(setting) ==
    IF setting = "unset" THEN "fail_closed" ELSE setting

\* selected_mode; "none" when should_start is false.
SelectServingMode(requested, internalCompatible, proxyConfigured) ==
    CASE requested \in {"internal", "auto"} /\ internalCompatible -> "internal"
      [] requested \in {"external_proxy", "auto"} /\ proxyConfigured
            /\ ~(requested = "auto" /\ internalCompatible) -> "external_proxy"
      [] OTHER -> "none"

\* EngineFactory.create_engine: the kind of engine, or "none" when it raises.
\* create_engine never asks for a GPU, and does not turn to the proxy when
\* internal mode was selected and there is no factory for its runtime.
CreateEngine(env, proxyConfigured) ==
    LET selected == SelectServingMode(ParseServingMode(env.mode),
                                      FailedTests(env, FALSE) = {}, proxyConfigured)
    IN  IF selected = "internal" /\ ~env.factory THEN "none" ELSE selected

=============================================================================
