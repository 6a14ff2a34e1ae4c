---------------------------- MODULE PilotServer ----------------------------
(***************************************************************************)
(* The pilot HTTP API (neural_scalpel/serving/server.py) with its counters *)
(* (metrics.py) and its engine: the local runtime, called directly or      *)
(* through InternalPluginEngine (engine_factory.py), or the external       *)
(* backends of ProxyServingEngine (proxy_engine.py).                       *)
(*                                                                         *)
(* The handlers are coroutines of one event loop, so the code between two  *)
(* awaits is one step.  runtime.infer awaits nothing, so a call of it is   *)
(* one step here; the outcomes are those of HotSwapRuntime with one        *)
(* thread.  A proxied request awaits its backend between PostStart and     *)
(* one of the Post actions below.  Nothing survives a restart.             *)
(***************************************************************************)
EXTENDS RouteRegistry, EngineSelection, Integers, FiniteSets

CONSTANTS Clients, Urls, NoUrl,
          Environments,    \* the start-up environments considered
          MaxRequests      \* bound on requests per life of the process

ASSUME PilotAssumption ==
    /\ NoUrl \notin Urls
    /\ Environments \subseteq Environment
    /\ MaxRequests \in Nat

VARIABLES
    server,          \* "down", or how inference is done
    env,             \* history: the environment the process started in
    phase,           \* of the runtime's state machine between two calls
    mapping, backends, healthy,
    metrics,         \* the counters of MetricsCollector
    failed,          \* history: requests answered with 500
    post             \* the URL and route a client's request is posted to

INSTANCE BackendRegistry

vars == <<server, env, phase, statuses, mapping, backends, healthy, metrics, failed, post>>

NoPost == [url |-> NoUrl]
Posting(c) == post[c] # NoPost
InFlight == {c \in Clients : Posting(c)}

NoMetrics == [total |-> 0, success |-> 0, rejected |-> 0, quarantined |-> FALSE,
              rollback_failures |-> 0]

Init ==
    /\ server = "down"
    /\ env \in Environments
    /\ mapping = [r \in Routes |-> NoUrl]
    /\ phase = "READY"
    /\ statuses = [r \in Routes |-> "ABSENT"]
    /\ backends = {}
    /\ healthy = [u \in Urls |-> TRUE]
    /\ metrics = NoMetrics
    /\ failed = 0
    /\ post = [c \in Clients |-> NoPost]

-----------------------------------------------------------------------------
(* Start-up and the administration of routes and backends.                 *)

\* create_app with the engine of create_engine, whose backends are set up
\* first, or without an engine.  create_engine that raises ends the process.
Start(e, m) ==
    /\ server = "down"
    /\ server' \in {"legacy", CreateEngine(e, \E r \in Routes : m[r] # NoUrl)} \ {"none"}
    /\ env' = e
    /\ mapping' = m
    /\ backends' = {m[r] : r \in Routes} \ {NoUrl}
    /\ UNCHANGED <<phase, statuses, healthy, metrics, failed, post>>

\* The operator restarts the process, the only way out of quarantine.
Restart ==
    /\ server # "down"
    /\ server' = "down"
    /\ mapping' = [r \in Routes |-> NoUrl]
    /\ phase' = "READY"
    /\ statuses' = [r \in Routes |-> "ABSENT"]
    /\ backends' = {}
    /\ healthy' = [u \in Urls |-> TRUE]
    /\ metrics' = NoMetrics
    /\ failed' = 0
    /\ post' = [c \in Clients |-> NoPost]
    /\ UNCHANGED env

\* handle_register_route and handle_revoke_route; a refused call changes
\* nothing and answers 400 or 404.
HandleRegisterRoute(r) ==
    /\ server # "down"
    /\ RegisterRoute(r)
    /\ UNCHANGED <<server, env, phase, mapping, backends, healthy, metrics, failed, post>>

HandleRevokeRoute(r) ==
    /\ server # "down"
    /\ RevokeRoute(r)
    /\ UNCHANGED <<server, env, phase, mapping, backends, healthy, metrics, failed, post>>

AdministerBackend(r) ==
    /\ server = "external_proxy"
    /\ RemoveRoute(r) \/ \E u \in Urls : RegisterBackend(r, u)
    /\ UNCHANGED <<server, env, phase, statuses, metrics, failed, post>>

\* update_health called from outside, by an operator or a health checker; the
\* package itself never calls it with True.
ReportHealth(u, isHealthy) ==
    /\ server = "external_proxy"
    /\ UpdateHealth(u, isHealthy)
    /\ UNCHANGED <<server, env, phase, statuses, metrics, failed, post>>

-----------------------------------------------------------------------------
(* handle_infer.                                                           *)

RecordRequest(m) == [m EXCEPT !.total = @ + 1]
RecordRejection(m) == [m EXCEPT !.rejected = @ + 1]
RecordSuccess(m) == [m EXCEPT !.success = @ + 1]

\* The RuntimeError whose message names the quarantine.
RecordQuarantine(m) ==
    [m EXCEPT !.quarantined = TRUE, !.rollback_failures = @ + 1]

Accepting(c) == server # "down" /\ ~Posting(c) /\ metrics.total < MaxRequests

\* The checks of the handler, before any engine is called.
Admitted(r, tenant) ==
    /\ statuses[r] \notin {"ABSENT", "REVOKED", "QUARANTINED"}
    /\ VerifyTenantAccess(r, tenant)

InferRejected(c, r, tenant) ==
    /\ Accepting(c)
    /\ ~Admitted(r, tenant)
    /\ metrics' = RecordRejection(RecordRequest(metrics))
    /\ UNCHANGED <<server, env, phase, statuses, mapping, backends, healthy, failed, post>>

\* An answer of status 500, with the counters in `counted`.
AnswerFailure(counted) ==
    /\ metrics' = counted
    /\ failed' = failed + 1

\* A request that reaches runtime.infer.
AtRuntime(c, r, tenant) ==
    /\ server \in {"legacy", "internal"}
    /\ Accepting(c)
    /\ Admitted(r, tenant)

\* The guard at the head of infer, or the model hash of the route.
RuntimeRefuses(c, r, tenant) ==
    /\ AtRuntime(c, r, tenant)
    /\ \/ IsTerminal(phase) /\ AnswerFailure(RecordQuarantine(RecordRequest(metrics)))
       \/ ~IsTerminal(phase) /\ ~GetVerifiedRoute(r, tenant)
             /\ AnswerFailure(RecordRequest(metrics))
    /\ UNCHANGED <<server, env, phase, statuses, mapping, backends, healthy, post>>

\* The payload is refused.  The state machine is READY, from where it does
\* not move to ROUTE_QUARANTINED; the message does not name the quarantine.
RuntimeRejectsPayload(c, r, tenant, fc) ==
    /\ AtRuntime(c, r, tenant)
    /\ ~IsTerminal(phase)
    /\ GetVerifiedRoute(r, tenant)
    /\ IF EvaluateFailure(fc).scope = "ROUTE" THEN QuarantineRoute(r) ELSE UNCHANGED statuses
    /\ AnswerFailure(RecordRequest(metrics))
    /\ UNCHANGED <<server, env, phase, mapping, backends, healthy, post>>

\* The locked section: the forward pass is reached or an exception is raised
\* before it ends, and the rollback succeeds or condemns the worker.  Only an
\* exception-free section ends with the error that names the quarantine.
RuntimeRuns(c, r, tenant, raised, rolledBack) ==
    /\ AtRuntime(c, r, tenant)
    /\ ~IsTerminal(phase)
    /\ GetVerifiedRoute(r, tenant)
    /\ phase' = IF rolledBack THEN "READY" ELSE "WORKER_QUARANTINED"
    /\ CASE raised                -> AnswerFailure(RecordRequest(metrics))
         [] ~raised /\ ~rolledBack -> AnswerFailure(RecordQuarantine(RecordRequest(metrics)))
         [] OTHER -> metrics' = RecordSuccess(RecordRequest(metrics)) /\ UNCHANGED failed
    /\ UNCHANGED <<server, env, statuses, mapping, backends, healthy, post>>

-----------------------------------------------------------------------------
(* ProxyServingEngine.infer.                                               *)

PostStart(c, r, tenant) ==
    /\ server = "external_proxy"
    /\ Accepting(c)
    /\ Admitted(r, tenant)
    /\ IF ResolveBackend(r) = NoUrl
         THEN AnswerFailure(RecordRequest(metrics)) /\ UNCHANGED post
         ELSE /\ post' = [post EXCEPT ![c] = [url |-> ResolveBackend(r), route |-> r]]
              /\ metrics' = RecordRequest(metrics)
              /\ UNCHANGED failed
    /\ UNCHANGED <<server, env, phase, statuses, mapping, backends, healthy>>

\* The end of the await; the route is not looked up again.
EndPost(c) ==
    /\ Posting(c)
    /\ post' = [post EXCEPT ![c] = NoPost]
    /\ UNCHANGED <<server, env, phase, statuses>>

PostReturns(c) ==
    /\ EndPost(c)
    /\ metrics' = RecordSuccess(metrics)
    /\ UNCHANGED <<mapping, backends, healthy, failed>>

\* Mutant: the backend the route has now is blamed.
PostTimesOut_BlamesMapping(c) ==
    /\ EndPost(c)
    /\ IF mapping[post[c].route] = NoUrl THEN UNCHANGED <<mapping, backends, healthy>>
          ELSE UpdateHealth(mapping[post[c].route], FALSE)
    /\ AnswerFailure(metrics)

\* A timeout, or a status of 500 and more, blames the backend.
PostTimesOut(c) ==
    /\ EndPost(c)
    /\ UpdateHealth(post[c].url, FALSE)
    /\ AnswerFailure(metrics)

\* Mutant: an answer of status 4xx is counted as a rejection, too.
PostRefused_Rejection(c) ==
    /\ EndPost(c)
    /\ AnswerFailure(RecordRejection(metrics))
    /\ UNCHANGED <<mapping, backends, healthy>>

\* Any other status, or any other exception.
PostRefused(c) ==
    /\ EndPost(c)
    /\ AnswerFailure(metrics)
    /\ UNCHANGED <<mapping, backends, healthy>>

-----------------------------------------------------------------------------
(* /healthz.                                                               *)

\* get_health of the engine, or is_healthy of the runtime.
EngineHealthy ==
    IF server = "external_proxy"
      THEN MappedRoutes = {} \/ \E r \in Routes : GetRouteStatus(r) = "READY"
      ELSE ~IsTerminal(phase)

\* Status 200; runtime.can_accept_requests is looked at in every mode.
Healthz ==
    /\ server # "down"
    /\ ~metrics.quarantined
    /\ EngineHealthy
    /\ phase = "READY"

-----------------------------------------------------------------------------
Infer(c, r, tenant) ==
    \/ InferRejected(c, r, tenant)
    \/ RuntimeRefuses(c, r, tenant)
    \/ \E fc \in PayloadFailure : RuntimeRejectsPayload(c, r, tenant, fc)
    \/ \E raised, rolledBack \in BOOLEAN : RuntimeRuns(c, r, tenant, raised, rolledBack)
    \/ PostStart(c, r, tenant)

PostEnds(c) == PostReturns(c) \/ PostTimesOut(c) \/ PostRefused(c)

Next ==
    \/ \E e \in Environments, m \in [Routes -> Urls \cup {NoUrl}] : Start(e, m)
    \/ Restart
    \/ \E r \in Routes :
          HandleRegisterRoute(r) \/ HandleRevokeRoute(r) \/ AdministerBackend(r)
    \/ \E c \in Clients, r \in Routes, tenant \in Tenants : Infer(c, r, tenant)
    \/ \E u \in Urls, isHealthy \in BOOLEAN : ReportHealth(u, isHealthy)
    \/ \E c \in Clients : PostEnds(c)

Spec == Init /\ [][Next]_vars

-----------------------------------------------------------------------------
(* Properties.                                                             *)

TypeOK ==
    /\ server \in {"down", "legacy", "internal", "external_proxy"}
    /\ env \in Environments
    /\ phase \in {"READY", "WORKER_QUARANTINED"}
    /\ statuses \in [Routes -> RouteStatus]
    /\ mapping \in [Routes -> Urls \cup {NoUrl}]
    /\ backends \subseteq Urls
    /\ healthy \in [Urls -> BOOLEAN]
    /\ metrics \in [total : 0 .. MaxRequests, success : 0 .. MaxRequests,
                    rejected : 0 .. MaxRequests, quarantined : BOOLEAN,
                    rollback_failures : 0 .. MaxRequests]
    /\ failed \in 0 .. MaxRequests
    /\ post \in [Clients -> [url : Urls, route : Routes] \cup {NoPost}]

\* The state is well-formed, and every request the server has counted is
\* exactly one of: answered, refused, failed, or still awaiting its backend,
\* however the answers interleave; and the quarantine flag, which is raised by
\* the wording of an error, never outlives the quarantine or speaks of a worker
\* that still serves (handle_infer, MetricsCollector).
CountersBalance ==
    /\ TypeOK
    /\ metrics.total = metrics.success + metrics.rejected + failed + Cardinality(InFlight)
    /\ metrics.quarantined => IsTerminal(phase)

\* The health of a backend changes only in two ways: a request that was posted
\* to it ends and blames it, whatever its route is mapped to by then, or it is
\* reported from outside.  No answer, however late, and no registration or
\* removal makes a backend healthy or touches another one (update_health,
\* register_backend, ProxyServingEngine.infer).
HealthFollowsPosts ==
    [][server' # "down" => \A u \in Urls : healthy'[u] # healthy[u] =>
          \/ /\ ~healthy'[u]
             /\ \E c \in Clients : post[c] # NoPost /\ post[c].url = u /\ post'[c] = NoPost
          \/ ReportHealth(u, healthy'[u])]_vars

\* "The healthz endpoint returns unhealthy until all self-tests pass"
\* (startup_selftest.py).  The handler asks the engine and the runtime; the
\* result of the self-tests reaches neither the proxy nor a server without an
\* engine.
HealthzWaitsForSelfTests == Healthz => FailedTests(env, FALSE) = {}

=============================================================================
