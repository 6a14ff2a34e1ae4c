# Formal models of Neural-Scalpel

Neural-Scalpel transfers the behaviour of one model to another as a *route*: a
signed manifest plus a payload of weight deltas.  At serving time a route is
added to the weights of a shared base model just before a forward pass and
removed right after it.  Offline, commands project an adapter to another model,
judge it, and package it; a library carries behaviour over by activations.

This directory models both sides in TLA+.  Serving: the runtime that swaps deltas
in and out, its state machine and failure policy, the registry and the validation
of payloads, the two schedulers that keep requests of different routes apart, the
prefix cache, the HTTP gateway and the pilot server.  Offline: the projection
command, the diagnostics, gates and packaging around it, the steps of a behaviour
transfer and the discrete part of the numeric functions.  TLC checks the models on
small instances; TLAPS proves the safety of both entry points of the runtime, the
registry, the pilot server, the gateway, the route-aware scheduler, the hot-swap API
and the commands for every value of the constants.

## 1. Inventory

Paths are relative to `src/`; `experimental/`, `route/`, `serving/`, `core/` are
under `neural_scalpel/`, the plugin is `integrations/vllm_route_plugin/`.

| component | state it keeps | operations | interacts with |
|---|---|---|---|
| runtime state machine, `experimental/runtime_state.py` | phase, quarantine scope, history | `transition`, `is_terminal` | written by the runtime, with and without the runtime's lock |
| failure policy, `experimental/failure_policy.py` | none | `evaluate_failure` | consulted by the runtime |
| hot-swap runtime, `experimental/runtime.py` | model weights, `_snapshots`, `_checksums`, `_lock`, `active_route_id`, `_validated_delta_cache` | `infer` (one call, one swap), `ensure_route` / `clear_active_route` (a route stays swapped in), legacy `__enter__`/`__exit__`-style methods | registry, payload validator, state machine, policy, audit log |
| route registry, `route/registry.py` with `verifier`, `policy`, `tenant` | registered routes and their status | `register_route`, `get_verified_route`, `revoke_route`, `quarantine_route` | runtime, server |
| payload validation, `route/payload_validator.py`, `payload.py` | none | `validate_payload` | runtime |
| manifest signing, `route/crypto.py`, `router/manager.py` | key files, a route directory | sign, verify, load | registry |
| route-aware scheduler, `serving/scheduler.py` | one queue per route, the drain task, futures | `submit_request`, `fetch_next_safe_batch`, `validate_batch_homogeneity`, `_drain_loop`, `start_/stop_drain_loop` | clients (asyncio), the executor |
| vLLM scheduler patch, `scheduler_patch.py`, `route_metadata.py`, `runtime_metrics.py` | vLLM's `waiting`, `skipped_waiting`, `running`; the active route | `patched_schedule`, `_shelve_queue`, `_restore_queue` | vLLM's scheduler, the model-runner hook |
| model-runner hook, `model_runner_hook.py` | none of its own | `patched_model_forward` | calls `ensure_route` for the active route |
| KV cache policy, `kv_cache_policy.py` | thread-local route of a hashed block | patched block hash, patched update of block hashes | vLLM's prefix cache |
| plugin loading, `runtime_context.py`, `patch.py`, `route_registry_adapter.py` | process-wide singletons | install, get | vLLM |
| HTTP gateway, `serving/vllm_proxy.py` | per-route queues and tasks, token buckets | `infer_endpoint`, `_process_route_batch`, `_forward_to_backend` | vLLM backends over HTTP |
| backend proxy, `serving/backend_registry.py`, `proxy_engine.py` | health of backends | `resolve`, `update_health`, `generate` | backends over HTTP |
| engine selection, `engine_factory.py`, `mode_selector.py`, `startup_selftest.py` | chosen mode | `select`, `create`, self-test | server start-up |
| pilot server, `serving/server.py`, `metrics.py`, `prometheus_metrics.py` | counters, runtime instance | register, revoke, infer, healthz, metrics | registry and runtime |
| vLLM bridge and internal mock, `vllm_bridge.py`, `vllm_internal_mock.py` | block allocator, queues | mock of vLLM's internals | tests and demos |
| VRAM hot-swap API, `experimental/hot_swap.py` | weights, shadow buffers | inject, remove, shadow, rollback, drift monitor | kernels |
| audit log, `experimental/audit.py` | a file | append | runtime |
| quality gate and diagnostics, `core/quality_gate.py`, `diagnostic*.py`, `evaluator.py`, `commands/safe_project.py`, `scripts/source_adapter_quality_gate.py` | reports in a run directory | diagnose, judge, recommend alphas | command line, packaging |
| release packaging, `commands/package_*.py`, `evaluate_projected.py`, `generate_*.py` | documents, the package | evaluate, write documents, package, validate | reports and adapter files |
| projection, `cli/main.py` (`port_lora`), `core/adapters.py`, `io/` | pair buffers of the adapter, an incremental writer, the output directory | read, project, write, configure | command line, packaging |
| behaviour transfer, `core/ops.py`, `alignment.py`, `collector.py`, `solutions.py` | maps, recorded activations, solutions, a LoRA directory; the wrapped base model | align, extract, transport, solve, export, save, validate | the user's session |
| numeric core, `core/math.py`, `validation.py` | none | thresholds, routing, alignment, quantisation | everything offline |

What makes each modelled component correct:

* runtime, `infer`: a forward pass sees the base weights plus exactly its own
  route; afterwards the weights are the original ones or the worker is
  quarantined; the lock is always released; a snapshot is always of original
  weights, also when it was taken for an earlier route.
* runtime, `ensure_route`: the same isolation while routes stay swapped in over
  many forward passes; `active_route_id`, phase and weights agree; a quarantine
  ends by a restart, or because all the weights have been repaired.
* registry and payloads: what is registered was signed and passed the policy,
  what is swapped in has the shapes of its manifest, a quarantine has a cause.
* both schedulers: a batch is of one route, no request is lost, duplicated or
  overtaken within its route, and requests are eventually served.
* prefix cache: no route reads blocks that another route's weights computed.
* gateway and pilot server: every request gets its own answer and is counted
  once; a backend is blamed only for its own failures.  (What the documents promise of
  `/healthz` is not so, section 3.)
* VRAM hot-swap API: in-place updates add up; a call that nobody overlaps does what
  its name says, and the copy it keeps is not torn.
* projection: results fit the target model, no half pair is dropped in silence,
  the output directory is replaced in a known order.
* diagnostics and packaging: a candidate is an improvement, the written comparison
  bears out the verdict and what both programs count, the metadata of a package
  describe the report in it.
* behaviour transfer and numeric functions: the files of a saved adapter are of one
  export and can be loaded; thresholds, routing, quantisation, alphas and the cut of a
  text meet their reference definitions, ties, zeros and limits included.

Where it is hard: the state machine is shared by threads that do not hold the
lock; exceptions can interrupt capture, swap and rollback half way; snapshots,
validated deltas, guards, verified routes, hashed files and read reports are used
later than they were checked; tasks can be cancelled or killed between taking a
batch and answering it; the vLLM queues are edited around a call that may itself
preempt, block or raise; commands share nothing but files and may die between two
of them.  `hazards` in `PROJECT.json` lists each of these at its line.

## 2. Modules and the code they model

| module | models | state and actions |
|---|---|---|
| `RuntimeState` | `runtime_state.py` | the phases, the transition table, the scope a transition records, `is_terminal`; data only, the modules that own a `phase` variable use it |
| `FailurePolicy` | `failure_policy.py` | the failure classes and `EvaluateFailure`, the policy table |
| `RouteRegistry` | `registry.py`, `tenant.py` and the checks of `verifier.py` it calls | `statuses`; `RegisterRoute`, `RevokeRoute`, `QuarantineRoute`, `GetVerifiedRoute` |
| `WeightSwap` | `capture_snapshot`, `apply_swap`, `rollback`, `verify_rollback` | `live` weights and `snapshots`; each operation with the states its exceptions leave |
| `HotSwapRuntime` | `infer`, `_apply_verdict`, `_perform_rollback`, called by several threads | `phase`, `scope`, `lock`, and per thread `step`, `goal`, `route`; extends `WeightSwap` |
| `RouteWindow` | `ensure_route`, `clear_active_route`, `patched_model_forward` and `runtime_context.py` | `phase`, `active`, `cache`, `version`, `pc`, and `loaded`, `stored`, `restarts` for the worker process and its storage directory; extends `WeightSwap` |
| `RouteScheduler` | `serving/scheduler.py` | per-route queues in order of creation, the drain task, clients' futures |
| `Queues` | how both vLLM schedulers filter and cut their queues | pure operators: the elements in a set, in order (`Keep`), and the first of them (`UpTo`) |
| `VllmScheduler` | `scheduler_patch.py`; vLLM's own scheduler is external | the three vLLM queues, the active route, blocked requests |
| `VllmGateway` | `serving/vllm_proxy.py` | the token bucket, the parallel lists of requests and futures per route, the tasks and the lock, clients' answers; `admitted`, `trough`, `peak` are history |
| `RouteStore` | `registry.py`, `verifier.py`, `crypto.py`, `policy.py`, `payload_validator.py`, `payload.py` | the manifests and statuses of the registry, the payload file, one validation per caller: `RegisterRoute`, `Revoke`, the steps of `validate_payload`, the verdict, and a publisher who replaces the file at any time |
| `VllmKvCache` | `kv_cache_policy.py`; vLLM's prefix cache is external | extends `VllmScheduler` with the hashes of the requests and the cached blocks |
| `BackendRegistry` | `backend_registry.py` | routes mapped to backends and the health of these |
| `EngineSelection` | `startup_selftest.py`, `mode_selector.py`, `engine_factory.py` | pure operators over a record of the environment |
| `PilotServer` | `server.py`, `metrics.py`, `proxy_engine.py` | the started engine, the counters, requests that await their backends; extends `RouteRegistry`, `EngineSelection`, and uses `BackendRegistry` |
| `VramHotSwap` | `experimental/hot_swap.py` | a tensor of several elements, its shadow buffer, which may share the tensor's storage, the lock, and per thread the step of its call |
| `VllmPrototype` | `vllm_internal_mock.py`, `vllm_bridge.py` | queues and blocks of the mock; block tags and passes of the bridge |
| `ProjectionShapes` | `core/adapters.py`, helpers of `cli/main.py` | pure operators: choice of adapter, shapes, scales |
| `AdapterProjection` | `port_lora`, the adapters' buffers, the writers of `io/` | the stage of the command, the pair buffer, what is written, the files; one action per tensor, failure, fallback and file |
| `AdapterFiles` | what a projection promises about its directory | which run wrote weights, configuration and metadata |
| `TransferGates` | `evaluator.py`, `quality_gate.py`, `diagnostic_runner.py`, the gate script | pure operators: judgement of answers, verdicts, delta health, release decision |
| `TransferPipeline` | the commands | the run directory, the adapter directory, the package; a packaging is one step per file |
| `NumericCore` | `core/math.py`, `validation.py`, the recommender, `extract_sql`, quantisers | pure operators |
| `BehaviorTransfer` | `core/ops.py`, `alignment.py`, `collector.py`, `solutions.py` | maps, records, transported deltas, solutions, the export and its files |
| `CoreSession` | a session with one of `NumericCore`, `VllmPrototype`, `VramHotSwap`, `BehaviorTransfer`, which share no state | which of them, the call that was made and its result, and the variables of the others |
| `*_proofs` | | the inductive invariant and the theorems of a module (section 5) |
| `MC_*` | | constants for TLC; `MC_Transfer` also has a variable `tool`, which says whether a behaviour is one of `TransferPipeline` or of `AdapterProjection` |

Composition: `HotSwapRuntime` and `RouteWindow` are the two entry points of the
same runtime class.  Both extend `WeightSwap`, which extends the registry, the
policy and the state machine, so the swap operations, the table and the policy
are defined once.  The two entry points are separate specifications because a
deployment uses one: the pilot server calls `infer` from its request threads, the
vLLM worker calls `ensure_route` from its one model-runner thread.

Abstract specifications: `RouteRegistry` is the registry that the runtimes and the
pilot server are built on, with one fact per route for the outcome of its
verification.  `RouteStore` has the real checks and is shown to implement it
(`ImplementsRegistry`, an `INSTANCE` with the set of ids for which some manifest
verifies as `Registrable`).  `AdapterFiles` is what `TransferPipeline` assumes of a
projection; `AdapterProjection` is shown to implement it (`ImplementsAdapterFiles`).
`VllmKvCache` extends the patched scheduler, because which weights compute a block
depends on the route the scheduler has made active.

### How the state is abstracted

* A weight tensor is the sequence of what was added to its original value, so the
  original is `<<>>`; a value a faulty rollback leaves is `Garbage`.  This tells
  apart everything the properties need: a delta applied twice, a delta of
  another route, a missing restore.
* A manifest's layer name is identified with the tensor `_resolve_layer_name`
  finds for it, and a checksum with the value it is taken of.
* A loop over layers that an exception interrupts has handled an arbitrary
  proper subset of them: the order of a manifest's layers is not fixed.
* A manifest is the set of facts that the checks look at (`Registrable`,
  `Compatible`, `RouteTenant`); in `RouteWindow` each registration of a route is
  a new version of its payload.
* The transition history, timings, request ids and audit events are left out:
  nothing reads them back.
* HMAC and SHA-256 are injective: a signature is the secret with the content, a
  hash is the content.
* Offline, a tensor is what the properties ask of it: its shape in the projection,
  a few numbers in the VRAM API, the layers, prompts, rows and maps its values come
  from in a behaviour transfer.  Numeric functions take integer vectors and fractions,
  so that thresholds are exact.  Scales and zero points are rounded to float16 as the
  code stores them (`Half`, in units of 2^-24, subnormal numbers included); a block of
  weights has a grain, the value of its unit, so that scales come from the whole range.
* Module names that are compared as strings (`source_base_model in base_model`) are
  sequences of parts, and the test is on subsequences (`MetadataGate`).  A generated text is a sequence of kinds of pieces.
* A model's answer to a case is what the evaluator finds out about it: whether it
  parses, runs, repeats itself, and its rows.

### Steps

In `HotSwapRuntime` a step is what one thread does between two looks at state
that other threads share.  `transition()` is two steps, because it reads the
phase, writes the scope, and then writes the phase with no lock of its own:
`TransitionAccepted`/`TransitionRefused` and `WritePhase`.  The bodies of
the locked section are one step each, since only the holder of the lock touches
the weights and the snapshots (a rollback may also raise in `verify_rollback`, which
no handler catches: `VerifyRollbackRaises` leaves ROLLING_BACK and the lock is
released).  Before the lock a call passes the guard (`Call`),
the registry (`Verify`) and the payload validator (`ValidatePasses`,
`ValidateFails`), and each of these may be arbitrarily old when the lock is
obtained.  `infer`'s re-check after the locked section only selects what the
caller is told and changes no state.

In `RouteWindow` one thread runs the forward passes, so `_perform_rollback` and
the locked cycle of `ensure_route` are single steps with their possible results.
In `RouteScheduler` each method body runs under an asyncio lock without another
await, so it is one step, and the awaits (sleep, executor, future) are the places
where others run.  In `VllmScheduler` `patched_schedule` is one step: vLLM's
engine loop is a single thread.  In `RouteScheduler` there may be
several drain tasks, because `start_drain_loop` leaves the last one running beside the
new one, where `stop_drain_loop` does not reach it.  In `VllmGateway` the code between two awaits is
one step, and tasks get the lock in the order of their creation; in `PilotServer`
likewise, where only a request to a backend awaits anything.

In `RouteStore` registration is one step (it reads the manifest once), and
`validate_payload` is one step for each time it touches the file.  In `VramHotSwap`
a step is what a thread does between two accesses to shared attributes, and an
in-place addition is a step for each element, so that a copy taken without the lock
may be torn.  In `AdapterProjection` a step handles one tensor or writes one file, and
the command may fail or die between any two; a pair may also fail after it has left the
buffer or after the first of its two results is written (`PairFails`).  In `TransferPipeline` a command is one step, except
packaging, whose copies, second read and metadata are separate ones with other
commands in between.  In `BehaviorTransfer` a step is one call of the library.

## 3. Runs

| run | states | shows |
|---|---|---|
| `HotSwapRuntime` | 799,460 | `TypeOK`, `ForwardIsolation`, `LeaveNoTrace`, `GoldenSnapshots`, `LockHolderFinishes` with two threads, two overlapping routes, payload and rollback faults and concurrent registration and revocation |
| `RouteWindow` | 58,560 | `WindowIsolation`, `WindowConsistent`, `QuarantineEndsRepaired` over arbitrary sequences of passes, failures, cleanups and a restart of the worker at any point |
| `RouteQuarantine` | violated | `WorkerQuarantineIsTerminal`: the call whose rollback failed puts the worker back into service |
| `RouteScheduler` | 115,602 | `QueueKeysExact`, `RequestInOnePlace`, `FifoWithinRoute`, `OldestRouteServed`, with an executor that raises and two drain tasks that are started and stopped |
| `VllmGateway` | 114,100 | `OwnAnswer`, `WithinRate`, `EveryRequestAnswered` with failing batches, clients that leave and a clock that is set back |
| `VllmScheduler` | 4,972 | `BatchOfOneRoute`, `EveryRequestOnce`, `OrderWithinRoute`, `ServedOrSkipped` with preemption, blocked requests, aborts, an empty route id and a `schedule()` that raises |
| `VllmKvCache` | violated | `NoBlockAcrossRoutes`: two routes with the same prompt share blocks |
| `PilotServer` | 99,480 | `CountersBalance`, `HealthFollowsPosts` in several start-up environments, with late answers, moved routes, health reports and restarts |
| `PilotHealthz` | violated | `HealthzWaitsForSelfTests`: `/healthz` answers 200 although a self-test failed |
| `RouteStore` | 68,254 | `RegistryHoldsSigned`, `DeltasWellFormed`, `UndisturbedPayloadExact`, `QuarantineHasCause`, `ImplementsRegistry` with good, forged and refused manifests and files that change under the validation |
| `Transfer` | 429,430 | `MetadataDescribesReport`, `CandidatesImprove`, `ComparisonSupportsVerdict` with interleaved, killed and damaged packagings; `ResultsFitTarget`, `SkippedPairsAreReported`, `ImplementsAdapterFiles` over two commands with failures, fallback and early ends |
| `CoreSession` | 419,359 | `SavedFilesAgree`, `PrototypesIsolateRoutes`, `InPlaceUpdatesAddUp`, `SoloCallsExact`, `NumericsMeetReference` over sessions of each kind |

`Transfer` and `CoreSession` each check several components that share no state: a
behaviour belongs to one of them (`tool`, `part`), so their states add up and do not
multiply.

Three runs are marked *violated*.  Each checks what a document says against what the
code does; `findings` in `PROJECT.json` quotes both.

* `NoBlockAcrossRoutes`.  `patched_update_block_hashes` sets the route on a thread-local
  object that it has just made, and `patched_hash_block_tokens` reads another one, so
  every block is hashed as if it belonged to the base model.  The docstring promises
  that blocks cannot be reused across routes; the counterexample is a request that reads
  a block which was computed with another route's weights.
* `WorkerQuarantineIsTerminal`.  `runtime.py` and the documents call WORKER_QUARANTINED
  terminal until a restart.  `ensure_route` ignores that the rollback of the old route
  has quarantined the worker; its swap is then refused, and the forced rollback of the
  except branch ends in READY.  `QuarantineEndsRepaired` is what remains true: this
  happens within the same call only, and only when all the weights are original again;
  a quarantine that outlives its request is lifted by a restart alone.
* `HealthzWaitsForSelfTests`.  `/healthz` asks the engine and the runtime.  The result of
  the self-tests only selects the mode, so a server that fell back to the proxy because
  they failed, or that has no engine, answers 200.

What the code does at the edges, which the models contain and the properties
allow for:

* `transition()` has no lock, and `infer` uses it before it takes the runtime's
  lock; the safety properties survive this (they are proved, section 5).
* `infer` tests the quarantine and verifies the route before it waits for the lock
  and not afterwards.  A waiting call is refused `VERIFYING`, and its own
  `_perform_rollback` then overwrites the quarantine.  The weights are original
  whenever the phase becomes READY, because golden snapshots still cover every
  damaged layer: isolation is kept, the permanence of the quarantine is not.
* `ensure_route` ignores the outcome of the rollback of the route it leaves, does
  not consult the registry for a route that is already active, keeps validated
  deltas by route id only, and does not turn a payload error into a verdict.
* a restarted worker takes every readable manifest in its storage directory for
  production, unverified, also that of a route which was revoked or quarantined.
* an exception of `verify_rollback` itself leaves ROLLING_BACK behind with the lock
  released; nothing but a restart leads out of it, and the weights are original.
* the asyncio scheduler ages queues, not requests, so that a busy route keeps its place
  at the front; it drops a batch whose executor raises or is cancelled.
* the vLLM patch chooses its target route from `running` and `waiting` alone, so a
  request that vLLM has set aside in `skipped_waiting` can be shelved at every call
  when nothing else waits or runs.  An empty route id, which the metadata check accepts,
  is replaced by `__base__` where the target is chosen and not where requests are
  compared with it: such a request is never scheduled, and routes behind it are kept
  back.  `ServedOrSkipped` says that these are the only ways to be stranded.
* in the bridge, the caller passes the route it works for; the contamination check
  compares it with the tag of the block, and only an eviction lifts a tag.
* a backend that was once marked unhealthy stays so until somebody outside reports it
  healthy (`ReportHealth`) or the process restarts.
* a payload file that is replaced between its hash and its load is used without
  having been compared: `UndisturbedPayloadExact` is about the other calls, and
  `DeltasWellFormed` says what is kept even then.
* overlapping shadow injections lose updates and may copy a tensor in the middle of an
  in-place update; after a rollback the tensor and the buffer may share their storage.
* a piecewise projection to a module that grows in one dimension and shrinks in the
  other does not fit; maps learnt with `auto_correspondence` are keyed by target layer
  and looked up by source layer, so that layers are mixed or left out.
* the metadata gate asks whether the base model's name contains the one in the
  configuration, and goes on with a warning when there is no configuration; a gate that
  fails leaves the report of an earlier diagnosis in place.  Under PEFT, whose parameter
  names contain the adapter's, the delta health gate never finds a pair (diagnostic.py:185)
  and never objects.
* the gate script takes its thresholds and its primary metric from the command line
  and judges unstable outputs, the runner does neither: their verdicts may differ.  What
  both count, and the comparison that the script writes, agree all the same.
* `export_lora` writes the rank it was asked for into the configuration and cuts the
  matrices at the width of the model; PEFT then does not load the pair.  A save that dies
  between its two files leaves files of two exports.
* a scale below the smallest float16 is stored as 0, and the zero point of a narrow row
  of int4 weights is rounded to a multiple of the spacing there; `Q8Error` and `Int4Error`
  bound the error by half a step of the *stored* scale and what these roundings add.
* `safe-project` does not hand on the target it reads, so that it ends with an
  exception after a good diagnosis; it is modelled as a diagnosis only.
* after a validation the base model stays wrapped by PEFT; `BehaviorTransfer` records
  it.

### Bounds

Two threads are enough for every pair of a lock holder and a thread outside the
lock; the proof covers more.  Two routes that share one layer of three cover
snapshots that cover the next route, overlap with it or miss it.  `MaxVersion = 2` is
the bound on registrations of a route in `RouteWindow` (the first payload and a
corrected one), and `MaxRestarts = 1` that on restarts of the worker: a process
remembers nothing of the one before its predecessor.  Only one of the two routes passes
the checks of a registration, the other comes from the storage directory.  Three clients, three routes, two drain tasks and batches of two reach an empty, a
partly drained and an exactly full queue, two batches at a time, and a task out of
reach of `stop_drain_loop`.  Two requests of one route, one of the base model and one
with an empty id, with `MaxRunning = 2`, reach a full batch, a shelved request in both
queues and each way to be stranded.  The
gateway's three clients with a capacity of two, one refill (`MaxTime = 1`) and
batches of two reach a queue of more than a batch and an exhausted bucket; times
are whole refill units.  `PayloadFaults` takes one representative of each verdict.

`PilotServer` counts up to `MaxRequests = 3` with two clients: one request in
flight, one that moves its route meanwhile and one more; its four environments pass
or fail the start-up in each way.  `RouteStore` has one caller and one file: the
publisher is the other actor, and there is one manifest or payload per reason to
refuse it.  `Transfer` runs two projection commands (`MaxPorts`) on the same directory, with up to
three pairs in two file orders, `MaxShard = 4` tensors per shard of the writer, so that
one shard is full, and eleven command lines that reach each branch of the adapter.  Its
pipeline has five jobs on both sides of the thresholds, with a configuration that
matches, one that contradicts the base model and none, and with thresholds of the
script's own; `MaxRuns = 1` projection and `MaxCommands = 4` commands beside the steps
of the packagings.  `CoreSession` allows
`MaxCalls = 9` transfer calls, two complete transfers up to the solution or one with
its export, validation and a restart; one model has a module with 2D input, prompts
differ in their numbers of tokens, and the ranks are below and above the width.
`NumBlocks = 3` and `MaxPasses = 2` exhaust the prototypes; two threads make
`MaxSwapCalls = 3` hot-swap calls on a tensor of two elements, enough for a copy that is
torn and for two overlapping injections and a rollback.  Vectors of four entries from
`{-3, 0, 1, 2}`, with grains from the smallest float16 to its normal range for the
quantisers, texts of up to four pieces and the other argument sets are enumerated
completely.

Deadlock is checked except where the modelled process may stop: a command that has
ended (`Transfer`), a session whose calls are used up (`CoreSession`), and all requests
answered (`VllmKvCache`).

## 4. Fairness

* `HotSwapRuntime`: weak fairness of each thread's steps once it has called
  `infer`; nobody is obliged to call, register or revoke.  `threading.Lock` may
  be unfair, so nothing is claimed of a thread that waits; the claim is that
  the holder gets out.  The forward pass is assumed to return or raise.
* `RouteScheduler`: weak fairness of each drain task (the event loop runs a ready
  task), of an executor that returns, and of the first start by the owner of the
  scheduler.  A dead or stopped task need not be started again: no code does it.
* `VllmScheduler`: the engine keeps calling `schedule()` and that does not only
  preempt (weak fairness of `ScheduleAdmits`), what blocks a request is resolved,
  and a request that is run again and again finishes (strong fairness: a preempted
  request is resumed and recomputed).  These are vLLM's own promises; arrivals,
  aborts, preemptions and exceptions are not fair.
* `VllmGateway`: the event loop runs its tasks in order, and a call of the backend
  ends because the client has a timeout of 30 s.
* The other modules state safety only: their actors are users, commands and threads
  of a library, which nothing obliges to go on.

## 5. Proofs

Eight modules have proofs.  Each states an inductive invariant, as a conjunction of
named parts, proves that Init establishes it and every action keeps it, and derives
the properties.  The constants are arbitrary up to the named assumptions, which TLC
evaluates on the runs.  No finiteness is assumed.

| module | invariant | theorems |
|---|---|---|
| `HotSwapRuntime_proofs` | `IInv` | `TypeCorrect`, `ForwardsAreIsolated`, `LeavesNoTrace`, `SnapshotsStayGolden` |
| `RouteWindow_proofs` | `WindowInv` | `WindowIsIsolated`, `WindowIsConsistent`, `QuarantineIsKeptOrRepaired` |
| `RouteStore_proofs` | `StoreInv` | `RegistryIsSigned`, `DeltasAreWellFormed`, `UndisturbedIsExact`, `QuarantineIsCaused`, `RegistryRefinement` |
| `VramHotSwap_proofs` | `SwapInv` | `InPlaceUpdatesAreKept`, `SoloCallsAreExact` |
| `Schedulers_proofs` | `SchedulerInv` (`RouteScheduler`) | `QueueKeysAreExact`, `RequestsAreInOnePlace`, `RoutesAreFifo` |
| | `VllmInv` (`VllmScheduler`) | `BatchesAreOfOneRoute`, `RequestsAreHeldOnce`, `RoutesKeepTheirOrder` |
| | `ProtoInv` (`VllmPrototype`) | `PrototypesAreIsolated` |
| `PilotServer_proofs` | `PilotInv` | `CountersAreBalanced`, `HealthIsFromPosts` |
| `VllmGateway_proofs` | `GatewayInv` | `AnswersAreOwn`, `RatesAreKept` |
| `Transfer_proofs` | `PipelineInv` (`TransferPipeline`) | `MetadataIsOfReport`, `CandidatesAreBetter`, `ComparisonAlwaysSupports` |
| | `PortInv`, `LoopInv` (`AdapterProjection`) | `ResultsAlwaysFit`, `PairsAreNotSeparated`, `ProjectionRefinement` |
| | `SaveInv` (`BehaviorTransfer`) | `SavedFilesAlwaysAgree` |

Every theorem but the invariance theorems (`Invariance`, `WindowInvariance`, ...)
states a property of section 3 as `Spec => []P`, or `Spec => P` for the action
properties and the refinements.  `Schedulers_proofs` and `Transfer_proofs` are about
several components, whose specifications have names of their own (`VllmSpec`,
`ProtoSpec`, `PortSpec`, `TransferSpec`, `HotSpec`).  A behaviour of `CoreSession` is
one of `TransferSpec`, of `ProtoSpec` and of `HotSpec`, as each of its steps is a step of
one of the three or leaves its variables alone, and likewise one of `MC_Transfer` is one
of `Spec` of `TransferPipeline` and of `PortSpec`.

### infer (HotSwapRuntime)

Assumptions: `NoThread` is no thread (`ThreadAssumption`), a manifest's layers
are layers, and the faults that occur are of the classes the policy knows as
payload and rollback failures (`WeightAssumption`).

None of the three safety properties is inductive.  A rollback restores the
original weights only if the snapshots are original (`GoldenSnapshots`), which a
capture guarantees only if the weights were original when it ran, which holds
only if the machine left READY (`LeaveNoTrace`) and nobody else wrote it since.
The invariant `IInv` therefore adds, in named parts,

* `LockOwner`: exactly the thread between acquisition and release owns the lock.
  A thread outside the lock can only be moving the machine to ROUTE_QUARANTINED;
* `StepShape`: which phases are ever forced, and which have a body;
* `SectionFacts`: what the holder knows of weights and snapshots at each point;
* `BusyPhase`: once the holder has left READY the machine is not READY until the
  holder itself writes it.  This is what makes the race of `transition()`
  harmless: an outside thread can overwrite the phase, but only with a phase from
  which `VERIFYING` is refused, so no second swap starts.

The proof has one lemma per group of actions (`CaptureStep`, `ApplyStep`,
`RollbackStep`, `AcquireStep`, `CheckStep`, `WriteStep`, `BeforeLockStep`,
`RegistryStep`); `UnlockedStep` and `LockedStep` are the two frames they share:
a step outside the lock changes nothing the holder relies on, and a step of the
holder needs only its own new facts.

### The route window (RouteWindow)

Assumptions: `WeightAssumption`, and `WindowAssumption` (`Base` is no route, the
tenant of the worker is a tenant).  A forward pass is isolated only if what it found
out at its first step still holds at its last: `PhaseFacts` ties the phase to the
weights and to `active_route_id`, `PassFacts` says what each step of
`patched_model_forward` has established, `Versioned` that a registered route has a
payload to load.  `QuarantineIsKeptOrRepaired` has two halves.  That no later request
lifts a quarantine rests on `Doomed(n)`: once a pass is over on a quarantined worker,
it serves nothing until its number of restarts has grown.  That the call itself lifts
it only by a complete repair follows the steps of `patched_model_forward`.

### Registration and validation (RouteStore)

`StoreAssumption` states the shape that the JSON schema and the loader give to
manifests and files.  `RegistryFacts` (both dictionaries have the same keys, what they
hold was verified) gives `RegistryHoldsSigned` and, step by step, the refinement of
`RouteRegistry`.  `CallFacts` says what a validation knows of the file after each
check *if the contents it has seen are still one*: `seen` is what keeps the facts true
when the file is replaced between two checks.  What `TensorFailure` reports is the
first failing layer and what `Deltas` holds is the last layer of a name; the lemmas
`SmallestIndex` and `LargestIndex` supply those by the existence of minimal elements
in a well-founded order, because no induction over sequences is available.

The proof changed the model: a layer whose shape or dtype is empty is not compared,
as in the code; the last layer of a repeated name wins; and `DeltasWellFormed`, which
was false of a manifest that names a layer twice, now speaks of the layer whose delta
is used.  The run's manifests have both cases.

### The patched vLLM scheduler (VllmScheduler)

`VllmAssumption`: `__base__` is a route, requests have routes, `max_num_seqs` is
positive.  `VllmInv` says that the accepted requests are those in the three queues,
each once in one of them, and that what runs is of one route.  The work is in
`patched_schedule`, which takes the queues apart, lets vLLM change what it is left with
and puts them together again.  `Sound` is the contract of vLLM's `schedule()` that makes
it right: afterwards every request it was given or was running is in one queue, once,
and no more run than `max_num_seqs` allows.  `AdmittedIsSound` and `PreemptedIsSound` show that both outcomes of
the modelled `schedule()` keep it, `RestoredQueues` that shelving and restoring then
lose nothing; a `schedule()` that raises is a case of its own.  `RoutesKeepTheirOrder`
follows two requests of one route (`Before`) through the same steps: both are shelved
or neither is.

Filters are by the rank of the kept positions (`Queues`), as `SelectSeq` is recursive;
`PositionsInOrder` shows, with the cardinalities of finite sets and no induction, that
the ranks enumerate the positions in ascending order, and `KeepShape` what follows for
elements, repetitions and order.

### The projection (AdapterProjection)

`PortAssumption`: a file names each tensor once and holds both sides of its pairs,
models have sizes, with at least one head.  It excludes no order of the tensors and no
pair of architectures.  Three results:

* `ProjectionRefinement`, step by step: each action maps to a step of `AdapterFiles` or
  leaves run, stage and files as they are (`DirectoryStep`).
* `ResultsAlwaysFit`.  `PortInv` says where a command is and that each result fits; the
  lemmas `LinearFits` and `PairFits` are about the shapes alone, for all sizes.  The
  conditions of `ResultsFitTarget` (real source sizes, no mixed resizing) are needed.
* `PairsAreNotSeparated`.  Here the order matters: sides come far apart, the limit on
  piecewise layers may be reached between them, and a second loop starts with the
  buffer and the counter of the first.  `LoopInv` has three parts.  `BufferFacts`: a
  buffered side comes before its mate in the file, so the mate is still to come whenever
  a loop starts at the beginning.  `PairFacts`: a pair that was read is whole or has a
  buffered side, and a side whose mate is to come is buffered or was written alone, and
  then its mate will be projected in the same way.  This last holds because the counter
  never decreases (`StillAlone`): a side that came too late for the limit has no mate
  that comes in time.  `ReadFacts` ties the pending tensors to their positions.

### Behaviour transfer and the prototypes

`SaveInv` relates the export that is being saved and the two files on disk; the proof
needs of the decomposition only that it yields the smaller of rank and width
(`ExportAssumption`: a rank is positive, None is no record).

`ProtoInv` (`PrototypeAssumption`: batch size and number of blocks are naturals) has the
queues of the mock without repetitions and its batches of one route, so that
`verify_access` never refuses; a batch is then cut off exactly where the blocks end
(`ServedFacts`), and block numbers of different requests are different because they are
handed out in turn.  For the bridge, the tag of a block is the route that wrote it last
until the block is evicted, which the contamination check is needed for.

### The other proofs

* `VramHotSwap` (`HotSwapAssumption`: vectors are integers, a missing buffer is
  none).  `LockFacts` makes the read and the write of an in-place update one, as long
  as no shadow call has happened (`InPlaceFacts`, element by element); `AliasFacts` says
  when tensor and buffer share their storage; `SoloFacts` follows a call that nobody
  overlaps through its steps.
* `RouteScheduler` (`SchedulerAssumption`).  Keys and queues agree (`KeyFacts`), each
  request waited for is once in its queue or in the batch of one task (`PlaceFacts`), and
  only an executing drain task has a batch (`DrainFacts`), for any number of tasks.  Sequences are handled through a
  few lemmas on what appending, cutting and taking the tail do to elements and to
  injectivity.
* `PilotServer` (`PilotAssumption`).  `Balance` counts the posts in flight as a finite
  set and bounds the rollback failures by the failures; the flag of the metrics and
  the phase are related by `FlagFacts`.
* `VllmGateway` (`GatewayAssumption`).  `Aligned` says that the lists of requests and
  of futures are equal, in each queue and in the batch, which is why pairing them by
  position is right.  The rate bound is not inductive: a refusal can leave a bucket
  negative after the clock was set back.  `Charged` is the potential behind it: once
  a tenant got something through, that and what is left in its bucket are at most the
  capacity plus the refill up to the bucket's last refill.
* `TransferPipeline` (`PipelineAssumption`: a suite has cases, each with its own id, as
  the registered one; an empty suite raises before anything is written).  The pure
  part proves, for all answers, that the gain in accuracy is the number of fixed
  minus the number of broken cases, so that a positive teacher fixes more than it
  breaks; without distinct ids this, and that the comparison (by id) has as many fixed cases as
  are counted, are false.
  The files need `PackingFacts` and `MetaFacts`: from the copy of the report to the
  hash of it, the package holds what the metadata will describe.

### Only model-checked

* Liveness (`LockHolderFinishes`, `OldestRouteServed`, `EveryRequestAnswered`,
  `ServedOrSkipped`): outside what the prover does.
* `NoBlockAcrossRoutes`, `WorkerQuarantineIsTerminal` and `HealthzWaitsForSelfTests` are
  violated (section 3).
* `NumericsMeetReference`: `NumericCore` computes with folds over sequences; what those
  return for every input needs induction.  It has references for the two thresholds, the
  routing, the two quantisers, the alphas and `extract_sql`; bands, head pooling, the
  adaptive SVD, experts and subspace injection have definitions that the session
  executes (what raises, which shapes result), and no property.

## 6. Not modelled

* The legacy methods of the runtime (`transition`, `capture_and_verify`, `swap`,
  runtime.py:617-673) are used by old tests only.
* Plugin loading (`patch.py`, `route_registry_adapter.py`): monkey patching at
  start-up, and a stub.  `apply_all_patches` goes on when one of the four patches
  fails; the models are of a worker with all of them.
* The audit log: append-only output that nothing reads back.
* `router/manager.py`: an older loader of routes that no other module uses.
* Floating-point analysis: Sinkhorn iterations, kernel, Jacobian and Hessian
  alignments, calibration, the statistics of `DiagnosticEngine`.
* `model_layer_discovery.py`: regular expressions over names, used by its tests only.
* Argument parsing, the subcommands of `cli/main.py` other than the projection and
  those named above, the readers of quantised files, text formats of metrics and
  documents.
* Benchmarks, examples and most of `scripts/`: programs that measure the system.

## 7. Plan

Done: all components of section 1 but those of section 6, and the theorems of
section 5.

Every safety property that a run passes is proved but for `NumericsMeetReference`.

Models worth adding: `HotSwapSpec`, an abstract specification of the runtime (each
call atomically sees base plus its route, the worker is healthy or quarantined),
refined by `HotSwapRuntime`; and the composition of `VllmScheduler` with `RouteWindow`
through the active route.
