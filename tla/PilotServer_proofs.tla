------------------------- MODULE PilotServer_proofs -------------------------
(***************************************************************************)
(* Proofs about the pilot HTTP API (PilotServer), for every number of      *)
(* clients, routes, tenants and backends: the counters of MetricsCollector *)
(* account for every request, /healthz tells the truth about the worker,   *)
(* and a backend's health follows the requests that were posted to it.     *)
(***************************************************************************)
EXTENDS PilotServer, FiniteSetTheorems, TLAPS

Counters == [total : Nat, success : Nat, rejected : Nat, quarantined : BOOLEAN,
             rollback_failures : Nat]

\* The parts of TypeOK that are not counters.
ServerType ==
    /\ server \in {"down", "legacy", "internal", "external_proxy"}
    /\ env \in Environments
    /\ phase \in {"READY", "WORKER_QUARANTINED"}
    /\ statuses \in [Routes -> RouteStatus]
    /\ mapping \in [Routes -> Urls \cup {NoUrl}]
    /\ backends \subseteq Urls
    /\ healthy \in [Urls -> BOOLEAN]
    /\ post \in [Clients -> [url : Urls, route : Routes] \cup {NoPost}]

\* Every request is accounted for; the error that names the quarantine is one
\* of the answers of status 500.
Balance ==
    /\ metrics \in Counters
    /\ failed \in Nat
    /\ IsFiniteSet(InFlight)
    /\ metrics.total = metrics.success + metrics.rejected + failed + Cardinality(InFlight)
    /\ metrics.total <= MaxRequests
    /\ metrics.rollback_failures <= failed

FlagFacts == metrics.quarantined => IsTerminal(phase)

\* The inductive invariant.
PilotInv == ServerType /\ Balance /\ FlagFacts

-----------------------------------------------------------------------------
\* m is a record of counters with these values.
Reads(m, total, success, rejected, quarantined, rollbacks) ==
    /\ m \in Counters
    /\ m.total = total /\ m.success = success /\ m.rejected = rejected
    /\ m.quarantined = quarantined
    /\ m.rollback_failures = rollbacks

LEMMA RecordFacts ==
    ASSUME NEW m \in Counters
    PROVE  /\ Reads(RecordRequest(m), m.total + 1, m.success, m.rejected, m.quarantined,
                    m.rollback_failures)
           /\ Reads(RecordRejection(m), m.total, m.success, m.rejected + 1, m.quarantined,
                    m.rollback_failures)
           /\ Reads(RecordSuccess(m), m.total, m.success + 1, m.rejected, m.quarantined,
                    m.rollback_failures)
           /\ Reads(RecordQuarantine(m), m.total, m.success, m.rejected, TRUE,
                    m.rollback_failures + 1)
<1>1. Reads(RecordRequest(m), m.total + 1, m.success, m.rejected, m.quarantined,
            m.rollback_failures)
  BY DEF Counters, RecordRequest, Reads
<1>2. Reads(RecordRejection(m), m.total, m.success, m.rejected + 1, m.quarantined,
            m.rollback_failures)
  BY DEF Counters, RecordRejection, Reads
<1>3. Reads(RecordSuccess(m), m.total, m.success + 1, m.rejected, m.quarantined,
            m.rollback_failures)
  BY DEF Counters, RecordSuccess, Reads
<1>4. Reads(RecordQuarantine(m), m.total, m.success, m.rejected, TRUE,
            m.rollback_failures + 1)
  <2> DEFINE n == m.rollback_failures + 1
             q == [m EXCEPT !.quarantined = TRUE, !.rollback_failures = n]
  <2>1. n \in Nat
    BY DEF Counters
  <2>2. RecordQuarantine(m) = q
    BY DEF RecordQuarantine
  <2> HIDE DEF n
  <2>3. q \in Counters
    BY <2>1, Zenon DEF Counters
  <2>4. /\ q.total = m.total /\ q.success = m.success /\ q.rejected = m.rejected
        /\ q.rollback_failures = n
    BY DEF Counters
  <2>5. q.quarantined = TRUE
    BY Zenon DEF Counters
  <2> HIDE DEF q
  <2> QED
    BY <2>2, <2>3, <2>4, <2>5, Zenon DEF Reads, n
<1> QED
  BY <1>1, <1>2, <1>3, <1>4

\* Where no post begins or ends, nothing more is in flight.
LEMMA InFlightSame ==
    ASSUME PilotInv, post' = post
    PROVE  InFlight' = InFlight /\ IsFiniteSet(InFlight) /\ Cardinality(InFlight) \in Nat
<1>1. InFlight' = InFlight
  BY DEF InFlight, Posting
<1> QED
  BY <1>1, FS_CardinalityType DEF PilotInv, Balance

LEMMA InFlightGrows ==
    ASSUME PilotInv, NEW c \in Clients, ~Posting(c), NEW u \in Urls, NEW r \in Routes,
           post' = [post EXCEPT ![c] = [url |-> u, route |-> r]]
    PROVE  /\ post' \in [Clients -> [url : Urls, route : Routes] \cup {NoPost}]
           /\ IsFiniteSet(InFlight') /\ Cardinality(InFlight') = Cardinality(InFlight) + 1
           /\ Cardinality(InFlight) \in Nat
<1> DEFINE p == [url |-> u, route |-> r]
<1>1. p \in [url : Urls, route : Routes] /\ p # NoPost
  BY PilotAssumption DEF NoPost
<1> HIDE DEF p
<1>2. post' = [post EXCEPT ![c] = p]
  BY DEF p
<1>3. post' \in [Clients -> [url : Urls, route : Routes] \cup {NoPost}]
  BY <1>1, <1>2 DEF PilotInv, ServerType
<1>4. InFlight' = InFlight \cup {c} /\ c \notin InFlight
  BY <1>1, <1>2 DEF PilotInv, ServerType, InFlight, Posting
<1> QED
  BY <1>3, <1>4, FS_AddElement, FS_CardinalityType DEF PilotInv, Balance

LEMMA InFlightShrinks ==
    ASSUME PilotInv, NEW c \in Clients, EndPost(c)
    PROVE  /\ post' \in [Clients -> [url : Urls, route : Routes] \cup {NoPost}]
           /\ IsFiniteSet(InFlight') /\ Cardinality(InFlight') = Cardinality(InFlight) - 1
           /\ Cardinality(InFlight) \in Nat
           /\ post[c].url \in Urls
<1>1. post' = [post EXCEPT ![c] = NoPost] /\ Posting(c)
  BY DEF EndPost
<1>2. post' \in [Clients -> [url : Urls, route : Routes] \cup {NoPost}]
  BY <1>1 DEF PilotInv, ServerType
<1>3. InFlight' = InFlight \ {c} /\ c \in InFlight
  BY <1>1 DEF PilotInv, ServerType, InFlight, Posting
<1>4. post[c].url \in Urls
  BY <1>1 DEF PilotInv, ServerType, Posting
<1> QED
  BY <1>2, <1>3, <1>4, FS_RemoveElement, FS_CardinalityType DEF PilotInv, Balance

LEMMA PilotInit == Init => PilotInv
<1> SUFFICES ASSUME Init PROVE PilotInv
  OBVIOUS
<1>1. ServerType
  <2>1. healthy \in [Urls -> BOOLEAN]
    BY DEF Init
  <2> QED
    BY <2>1 DEF Init, ServerType, RouteStatus
<1>2. InFlight = {}
  BY DEF Init, InFlight, Posting
<1>3. metrics \in Counters /\ metrics.total = 0 /\ metrics.success = 0
      /\ metrics.rejected = 0 /\ metrics.rollback_failures = 0 /\ ~metrics.quarantined
  BY DEF Init, NoMetrics, Counters
<1>4. Balance
  BY <1>2, <1>3, FS_EmptySet, PilotAssumption DEF Init, Balance
<1> QED
  BY <1>1, <1>3, <1>4 DEF PilotInv, FlagFacts

\* A request that is answered in the step it arrives in, one way or another.
LEMMA AnswerBalances ==
    ASSUME PilotInv, metrics.total < MaxRequests, post' = post,
           \/ metrics' = RecordRejection(RecordRequest(metrics)) /\ failed' = failed
           \/ metrics' = RecordSuccess(RecordRequest(metrics)) /\ failed' = failed
           \/ AnswerFailure(RecordRequest(metrics))
           \/ AnswerFailure(RecordQuarantine(RecordRequest(metrics)))
    PROVE  /\ Balance'
           /\ \/ metrics'.quarantined = metrics.quarantined
              \/ AnswerFailure(RecordQuarantine(RecordRequest(metrics)))
<1> DEFINE one == RecordRequest(metrics)
<1>0. /\ metrics \in Counters /\ failed \in Nat /\ MaxRequests \in Nat
      /\ metrics.total = metrics.success + metrics.rejected + failed + Cardinality(InFlight)
      /\ metrics.rollback_failures <= failed
  BY PilotAssumption DEF PilotInv, Balance
<1>1. /\ metrics.total \in Nat /\ metrics.success \in Nat /\ metrics.rejected \in Nat
      /\ metrics.rollback_failures \in Nat
  BY <1>0 DEF Counters
<1>2. InFlight' = InFlight /\ IsFiniteSet(InFlight) /\ Cardinality(InFlight) \in Nat
  BY InFlightSame
<1>3. Reads(one, metrics.total + 1, metrics.success, metrics.rejected, metrics.quarantined,
            metrics.rollback_failures)
  BY <1>0, RecordFacts
<1> HIDE DEF one
<1>4. one \in Counters
  BY <1>3 DEF Reads
<1>5. CASE metrics' = RecordRejection(one) /\ failed' = failed
  <2>1. Reads(metrics', one.total, one.success, one.rejected + 1, one.quarantined,
              one.rollback_failures)
    BY <1>4, <1>5, RecordFacts
  <2> QED
    BY <1>0, <1>1, <1>2, <1>3, <1>5, <2>1 DEF Reads, Balance
<1>6. CASE metrics' = RecordSuccess(one) /\ failed' = failed
  <2>1. Reads(metrics', one.total, one.success + 1, one.rejected, one.quarantined,
              one.rollback_failures)
    BY <1>4, <1>6, RecordFacts
  <2> QED
    BY <1>0, <1>1, <1>2, <1>3, <1>6, <2>1 DEF Reads, Balance
<1>7. CASE AnswerFailure(one)
  <2>1. metrics' = one /\ failed' = failed + 1
    BY <1>7 DEF AnswerFailure
  <2> QED
    BY <1>0, <1>1, <1>2, <1>3, <2>1 DEF Reads, Balance
<1>8. CASE AnswerFailure(RecordQuarantine(one))
  <2>1. Reads(metrics', one.total, one.success, one.rejected, TRUE, one.rollback_failures + 1)
        /\ failed' = failed + 1
    BY <1>4, <1>8, RecordFacts DEF AnswerFailure
  <2> QED
    BY <1>0, <1>1, <1>2, <1>3, <1>8, <2>1 DEF Reads, Balance, one
<1> QED
  BY <1>5, <1>6, <1>7, <1>8 DEF one

\* A post ends and its request is counted.
LEMMA EndBalances ==
    ASSUME PilotInv, NEW c \in Clients, EndPost(c),
           (metrics' = RecordSuccess(metrics) /\ failed' = failed) \/ AnswerFailure(metrics)
    PROVE  Balance' /\ metrics'.quarantined = metrics.quarantined
<1>0. /\ metrics \in Counters /\ failed \in Nat /\ MaxRequests \in Nat
      /\ metrics.total = metrics.success + metrics.rejected + failed + Cardinality(InFlight)
      /\ metrics.total <= MaxRequests
      /\ metrics.rollback_failures <= failed
  BY PilotAssumption DEF PilotInv, Balance
<1>1. /\ metrics.total \in Nat /\ metrics.success \in Nat /\ metrics.rejected \in Nat
      /\ metrics.rollback_failures \in Nat
  BY <1>0 DEF Counters
<1>2. /\ IsFiniteSet(InFlight') /\ Cardinality(InFlight') = Cardinality(InFlight) - 1
      /\ Cardinality(InFlight) \in Nat
  BY InFlightShrinks
<1>3. CASE metrics' = RecordSuccess(metrics) /\ failed' = failed
  <2>1. Reads(metrics', metrics.total, metrics.success + 1, metrics.rejected,
              metrics.quarantined, metrics.rollback_failures)
    BY <1>0, <1>3, RecordFacts
  <2> QED
    BY <1>0, <1>1, <1>2, <1>3, <2>1 DEF Reads, Balance
<1>4. CASE AnswerFailure(metrics)
  <2>1. metrics' = metrics /\ failed' = failed + 1
    BY <1>4 DEF AnswerFailure
  <2>2. /\ failed + 1 \in Nat /\ metrics.rollback_failures <= failed + 1
        /\ metrics.total = metrics.success + metrics.rejected + (failed + 1)
                               + (Cardinality(InFlight) - 1)
    BY <1>0, <1>1, <1>2
  <2>3. Balance'
    BY <1>0, <1>2, <2>1, <2>2 DEF Balance
  <2> QED
    BY <2>1, <2>3
<1> QED
  BY <1>3, <1>4

\* Steps that neither count nor post anything.
LEMMA QuietBalances ==
    ASSUME PilotInv, UNCHANGED <<metrics, failed, post>>
    PROVE  Balance'
  BY InFlightSame DEF PilotInv, Balance

LEMMA StartStep ==
    ASSUME PilotInv, NEW e \in Environments, NEW m \in [Routes -> Urls \cup {NoUrl}],
           Start(e, m)
    PROVE  PilotInv'
<1>1. CreateEngine(e, \E r \in Routes : m[r] # NoUrl) \in {"internal", "external_proxy", "none"}
  BY DEF CreateEngine, SelectServingMode
<1>2. ServerType'
  BY <1>1 DEF Start, PilotInv, ServerType
<1>3. Balance'
  BY QuietBalances DEF Start
<1>4. FlagFacts'
  BY DEF Start, PilotInv, FlagFacts
<1> QED
  BY <1>2, <1>3, <1>4 DEF PilotInv

LEMMA RestartStep ==
    ASSUME PilotInv, Restart
    PROVE  PilotInv'
<1>1. ServerType'
  <2>1. (healthy \in [Urls -> BOOLEAN])'
    BY DEF Restart
  <2> QED
    BY <2>1 DEF Restart, PilotInv, ServerType, RouteStatus
<1>2. InFlight' = {}
  BY DEF Restart, InFlight, Posting
<1>3. metrics' \in Counters /\ metrics'.total = 0 /\ metrics'.success = 0
      /\ metrics'.rejected = 0 /\ metrics'.rollback_failures = 0 /\ ~metrics'.quarantined
  BY DEF Restart, NoMetrics, Counters
<1>4. Balance'
  BY <1>2, <1>3, FS_EmptySet, PilotAssumption DEF Restart, Balance
<1> QED
  BY <1>1, <1>3, <1>4 DEF PilotInv, FlagFacts

\* The registry of routes and the registry of backends.
LEMMA AdministrationStep ==
    ASSUME PilotInv, NEW r \in Routes,
           HandleRegisterRoute(r) \/ HandleRevokeRoute(r) \/ AdministerBackend(r)
    PROVE  PilotInv'
<1>1. UNCHANGED <<server, env, phase, metrics, failed, post>>
  BY DEF HandleRegisterRoute, HandleRevokeRoute, AdministerBackend
<1>2. ServerType'
  <2>1. CASE HandleRegisterRoute(r) \/ HandleRevokeRoute(r)
    BY <1>1, <2>1 DEF HandleRegisterRoute, HandleRevokeRoute, RegisterRoute, RevokeRoute,
                      RouteStatus, PilotInv, ServerType
  <2>2. CASE AdministerBackend(r)
    BY <1>1, <2>2 DEF AdministerBackend, RemoveRoute, RegisterBackend, PilotInv, ServerType
  <2> QED
    BY <2>1, <2>2
<1>3. Balance'
  BY <1>1, QuietBalances
<1>4. FlagFacts'
  BY <1>1 DEF PilotInv, FlagFacts
<1> QED
  BY <1>2, <1>3, <1>4 DEF PilotInv

\* update_health called from outside.
LEMMA ReportHealthStep ==
    ASSUME PilotInv, NEW u \in Urls, NEW isHealthy \in BOOLEAN, ReportHealth(u, isHealthy)
    PROVE  PilotInv'
<1>1. UNCHANGED <<server, env, phase, statuses, mapping, backends, metrics, failed, post>>
  BY DEF ReportHealth, UpdateHealth
<1>2. healthy' = healthy \/ healthy' = [healthy EXCEPT ![u] = isHealthy]
  BY DEF ReportHealth, UpdateHealth
<1>3. healthy' \in [Urls -> BOOLEAN]
  BY <1>2, Zenon DEF PilotInv, ServerType
<1>4. Balance'
  BY <1>1, QuietBalances
<1> QED
  BY <1>1, <1>3, <1>4 DEF PilotInv, ServerType, FlagFacts

LEMMA InferRejectedStep ==
    ASSUME PilotInv, NEW c \in Clients, NEW r \in Routes, NEW tenant \in Tenants,
           InferRejected(c, r, tenant)
    PROVE  PilotInv'
<1>1. /\ metrics.total < MaxRequests /\ UNCHANGED <<server, env, phase, statuses, mapping, backends, healthy, post>>
      /\ metrics' = RecordRejection(RecordRequest(metrics)) /\ failed' = failed
  BY DEF InferRejected, Accepting
<1>2. Balance' /\ (metrics'.quarantined = metrics.quarantined
                    \/ AnswerFailure(RecordQuarantine(RecordRequest(metrics))))
  BY <1>1, AnswerBalances
<1>3. ~AnswerFailure(RecordQuarantine(RecordRequest(metrics)))
  BY <1>1 DEF AnswerFailure, PilotInv, Balance
<1> QED
  BY <1>1, <1>2, <1>3 DEF PilotInv, ServerType, FlagFacts

LEMMA RuntimeRefusesStep ==
    ASSUME PilotInv, NEW c \in Clients, NEW r \in Routes, NEW tenant \in Tenants,
           RuntimeRefuses(c, r, tenant)
    PROVE  PilotInv'
<1>1. metrics.total < MaxRequests /\ UNCHANGED <<server, env, phase, statuses, mapping, backends, healthy, post>>
  BY DEF RuntimeRefuses, AtRuntime, Accepting
<1>2. CASE IsTerminal(phase)
  BY <1>1, <1>2, AnswerBalances DEF RuntimeRefuses, PilotInv, ServerType, FlagFacts
<1>3. CASE ~IsTerminal(phase)
  <2>1. AnswerFailure(RecordRequest(metrics))
    BY <1>3 DEF RuntimeRefuses
  <2>2. Balance'
    BY <1>1, <2>1, AnswerBalances
  <2>3. metrics'.quarantined = metrics.quarantined
    BY <2>1, RecordFacts DEF AnswerFailure, Reads, PilotInv, Balance
  <2> QED
    BY <1>1, <2>2, <2>3 DEF PilotInv, ServerType, FlagFacts
<1> QED
  BY <1>2, <1>3

LEMMA RuntimeRejectsPayloadStep ==
    ASSUME PilotInv, NEW c \in Clients, NEW r \in Routes, NEW tenant \in Tenants,
           NEW fc \in PayloadFailure, RuntimeRejectsPayload(c, r, tenant, fc)
    PROVE  PilotInv'
<1>1. /\ metrics.total < MaxRequests /\ UNCHANGED <<server, env, phase, mapping, backends, healthy, post>>
      /\ AnswerFailure(RecordRequest(metrics))
  BY DEF RuntimeRejectsPayload, AtRuntime, Accepting
<1>2. Balance'
  BY <1>1, AnswerBalances
<1>3. metrics'.quarantined = metrics.quarantined
  BY <1>1, RecordFacts DEF AnswerFailure, Reads, PilotInv, Balance
<1>4. statuses' \in [Routes -> RouteStatus]
  BY DEF RuntimeRejectsPayload, QuarantineRoute, RouteStatus, PilotInv, ServerType
<1> QED
  BY <1>1, <1>2, <1>3, <1>4 DEF PilotInv, ServerType, FlagFacts

LEMMA RuntimeRunsStep ==
    ASSUME PilotInv, NEW c \in Clients, NEW r \in Routes, NEW tenant \in Tenants,
           NEW raised \in BOOLEAN, NEW rolledBack \in BOOLEAN,
           RuntimeRuns(c, r, tenant, raised, rolledBack)
    PROVE  PilotInv'
<1>1. /\ metrics.total < MaxRequests /\ UNCHANGED <<server, env, statuses, mapping, backends, healthy, post>>
      /\ phase' = IF rolledBack THEN "READY" ELSE "WORKER_QUARANTINED"
      /\ ~IsTerminal(phase)
  BY DEF RuntimeRuns, AtRuntime, Accepting
<1>2. ~metrics.quarantined /\ metrics \in Counters
  BY <1>1 DEF PilotInv, FlagFacts, Balance
<1>3. CASE raised
  <2>1. AnswerFailure(RecordRequest(metrics))
    BY <1>3 DEF RuntimeRuns
  <2>2. Balance' /\ metrics'.quarantined = metrics.quarantined
    BY <1>1, <1>2, <2>1, AnswerBalances, RecordFacts DEF AnswerFailure, Reads
  <2> QED
    BY <1>1, <1>2, <2>2 DEF PilotInv, ServerType, FlagFacts
<1>4. CASE ~raised /\ ~rolledBack
  <2>1. AnswerFailure(RecordQuarantine(RecordRequest(metrics)))
    BY <1>4 DEF RuntimeRuns
  <2>2. Balance'
    BY <1>1, <2>1, AnswerBalances
  <2> QED
    BY <1>1, <1>4, <2>2 DEF PilotInv, ServerType, FlagFacts, IsTerminal
<1>5. CASE ~raised /\ rolledBack
  <2>1. metrics' = RecordSuccess(RecordRequest(metrics)) /\ failed' = failed
    BY <1>5 DEF RuntimeRuns
  <2>2. Balance'
    BY <1>1, <2>1, AnswerBalances
  <2>3. metrics'.quarantined = metrics.quarantined
    <3> DEFINE one == RecordRequest(metrics)
    <3>1. one \in Counters /\ one.quarantined = metrics.quarantined
      BY <1>2, RecordFacts DEF Reads
    <3> HIDE DEF one
    <3>2. RecordSuccess(one).quarantined = one.quarantined
      BY <3>1, RecordFacts DEF Reads
    <3> QED
      BY <2>1, <3>1, <3>2 DEF one
  <2> QED
    BY <1>1, <1>2, <2>2, <2>3 DEF PilotInv, ServerType, FlagFacts
<1> QED
  BY <1>3, <1>4, <1>5

LEMMA PostStartStep ==
    ASSUME PilotInv, NEW c \in Clients, NEW r \in Routes, NEW tenant \in Tenants,
           PostStart(c, r, tenant)
    PROVE  PilotInv'
<1>0. /\ metrics.total < MaxRequests /\ UNCHANGED <<server, env, phase, statuses, mapping, backends, healthy>>
      /\ metrics \in Counters /\ ~Posting(c)
  BY DEF PostStart, Accepting, PilotInv, Balance
<1>1. CASE ResolveBackend(r) = NoUrl
  <2>1. AnswerFailure(RecordRequest(metrics)) /\ post' = post
    BY <1>1 DEF PostStart
  <2>2. Balance'
    BY <1>0, <2>1, AnswerBalances
  <2>3. metrics'.quarantined = metrics.quarantined
    BY <1>0, <2>1, RecordFacts DEF AnswerFailure, Reads
  <2> QED
    BY <1>0, <2>1, <2>2, <2>3 DEF PilotInv, ServerType, FlagFacts
<1>2. CASE ResolveBackend(r) # NoUrl
  <2> DEFINE u == ResolveBackend(r)
  <2>1. u \in Urls
    BY <1>2 DEF ResolveBackend, PilotInv, ServerType
  <2>2. /\ post' = [post EXCEPT ![c] = [url |-> u, route |-> r]]
        /\ metrics' = RecordRequest(metrics) /\ failed' = failed
    BY <1>2 DEF PostStart
  <2> HIDE DEF u
  <2>3. /\ post' \in [Clients -> [url : Urls, route : Routes] \cup {NoPost}]
        /\ IsFiniteSet(InFlight') /\ Cardinality(InFlight') = Cardinality(InFlight) + 1
        /\ Cardinality(InFlight) \in Nat
    BY <1>0, <2>1, <2>2, InFlightGrows
  <2>4. Reads(metrics', metrics.total + 1, metrics.success, metrics.rejected,
              metrics.quarantined, metrics.rollback_failures)
    BY <1>0, <2>2, RecordFacts
  <2>5. /\ metrics.total \in Nat /\ metrics.success \in Nat /\ metrics.rejected \in Nat
        /\ failed \in Nat /\ MaxRequests \in Nat
    BY <1>0, PilotAssumption DEF PilotInv, Balance, Counters
  <2>6. Balance'
    BY <1>0, <2>2, <2>3, <2>4, <2>5 DEF PilotInv, Balance, Reads
  <2> QED
    BY <1>0, <2>3, <2>4, <2>6 DEF PilotInv, ServerType, FlagFacts, Reads
<1> QED
  BY <1>1, <1>2

LEMMA PostEndsStep ==
    ASSUME PilotInv, NEW c \in Clients, PostEnds(c)
    PROVE  PilotInv'
<1>1. EndPost(c) /\ UNCHANGED <<server, env, phase, statuses, mapping, backends>>
  BY DEF PostEnds, PostReturns, PostTimesOut, PostRefused, EndPost, UpdateHealth
<1>2. Balance' /\ metrics'.quarantined = metrics.quarantined
  BY <1>1, EndBalances DEF PostEnds, PostReturns, PostTimesOut, PostRefused
<1>3. post' \in [Clients -> [url : Urls, route : Routes] \cup {NoPost}]
  BY <1>1, InFlightShrinks
<1>4. healthy' = healthy \/ healthy' = [healthy EXCEPT ![post[c].url] = FALSE]
  BY DEF PostEnds, PostReturns, PostTimesOut, PostRefused, UpdateHealth
<1>5. healthy' \in [Urls -> BOOLEAN]
  BY <1>4, Zenon DEF PilotInv, ServerType
<1> QED
  BY <1>1, <1>2, <1>3, <1>5 DEF PilotInv, ServerType, FlagFacts

LEMMA PilotStep == PilotInv /\ [Next]_vars => PilotInv'
<1> SUFFICES ASSUME PilotInv, [Next]_vars PROVE PilotInv'
  OBVIOUS
<1>1. ASSUME NEW e \in Environments, NEW m \in [Routes -> Urls \cup {NoUrl}], Start(e, m)
      PROVE  PilotInv'
  BY <1>1, StartStep
<1>2. CASE Restart
  BY <1>2, RestartStep
<1>3. ASSUME NEW r \in Routes,
             HandleRegisterRoute(r) \/ HandleRevokeRoute(r) \/ AdministerBackend(r)
      PROVE  PilotInv'
  BY <1>3, AdministrationStep
<1>4. ASSUME NEW c \in Clients, NEW r \in Routes, NEW tenant \in Tenants, Infer(c, r, tenant)
      PROVE  PilotInv'
  BY <1>4, InferRejectedStep, RuntimeRefusesStep, RuntimeRejectsPayloadStep, RuntimeRunsStep,
     PostStartStep DEF Infer
<1>5. ASSUME NEW c \in Clients, PostEnds(c)  PROVE PilotInv'
  BY <1>5, PostEndsStep
<1>6. ASSUME NEW u \in Urls, NEW isHealthy \in BOOLEAN, ReportHealth(u, isHealthy)
      PROVE  PilotInv'
  BY <1>6, ReportHealthStep
<1>7. CASE UNCHANGED vars
  <2>1. Balance'
    BY <1>7, QuietBalances DEF vars
  <2> QED
    BY <1>7, <2>1 DEF vars, PilotInv, ServerType, FlagFacts
<1> QED
  BY <1>1, <1>2, <1>3, <1>4, <1>5, <1>6, <1>7 DEF Next

\* The invariant holds always, across every restart of the process: counters,
\* posts in flight and the quarantine flag agree after every step of a handler.
THEOREM PilotInvariance == Spec => []PilotInv
  BY PilotInit, PilotStep, PTL DEF Spec

\* MetricsCollector loses and invents no request: what handle_infer counted is
\* answered, refused, failed or awaits its backend, each exactly once.
THEOREM CountersAreBalanced == Spec => []CountersBalance
<1>1. PilotInv => CountersBalance
  <2> SUFFICES ASSUME PilotInv PROVE CountersBalance
    OBVIOUS
  <2>1. /\ metrics \in Counters /\ failed \in Nat /\ Cardinality(InFlight) \in Nat
        /\ metrics.total = metrics.success + metrics.rejected + failed + Cardinality(InFlight)
        /\ metrics.total <= MaxRequests /\ metrics.rollback_failures <= failed
        /\ MaxRequests \in Nat
    BY FS_CardinalityType, PilotAssumption DEF PilotInv, Balance
  <2>2. /\ metrics.total \in Nat /\ metrics.success \in Nat /\ metrics.rejected \in Nat
        /\ metrics.rollback_failures \in Nat /\ metrics.quarantined \in BOOLEAN
        /\ metrics = [total |-> metrics.total, success |-> metrics.success,
                      rejected |-> metrics.rejected, quarantined |-> metrics.quarantined,
                      rollback_failures |-> metrics.rollback_failures]
    BY <2>1 DEF Counters
  <2>3. /\ metrics.total \in 0 .. MaxRequests /\ metrics.success \in 0 .. MaxRequests
        /\ metrics.rejected \in 0 .. MaxRequests
        /\ metrics.rollback_failures \in 0 .. MaxRequests /\ failed \in 0 .. MaxRequests
    BY <2>1, <2>2
  <2>4. metrics \in [total : 0 .. MaxRequests, success : 0 .. MaxRequests,
                     rejected : 0 .. MaxRequests, quarantined : BOOLEAN,
                     rollback_failures : 0 .. MaxRequests]
    BY <2>2, <2>3
  <2> QED
    BY <2>1, <2>3, <2>4 DEF PilotInv, ServerType, FlagFacts, TypeOK, CountersBalance
<1> QED
  BY <1>1, PilotInvariance, PTL

\* The health of a backend follows the requests that were posted to it and what
\* is reported from outside: update_health is reached with no other URL.
THEOREM HealthIsFromPosts == Spec => HealthFollowsPosts
<1> DEFINE Follows ==
        server' # "down" => \A u \in Urls : healthy'[u] # healthy[u] =>
            \/ /\ ~healthy'[u]
               /\ \E c \in Clients : post[c] # NoPost /\ post[c].url = u /\ post'[c] = NoPost
            \/ ReportHealth(u, healthy'[u])
<1>1. ASSUME PilotInv, [Next]_vars  PROVE Follows
  <2>1. CASE healthy' = healthy
    BY <2>1
  <2>2. CASE Restart
    BY <2>2 DEF Restart
  <2>3. ASSUME NEW c \in Clients, PostTimesOut(c)  PROVE Follows
    <3>1. /\ post[c] # NoPost /\ post'[c] = NoPost
          /\ post[c].url \in Urls
          /\ healthy' = healthy \/ healthy' = [healthy EXCEPT ![post[c].url] = FALSE]
      BY <1>1, <2>3, InFlightShrinks
         DEF PostTimesOut, EndPost, Posting, UpdateHealth, PilotInv, ServerType
    <3>2. \A u \in Urls : healthy'[u] = healthy[u] \/ (u = post[c].url /\ healthy'[u] = FALSE)
      BY <1>1, <3>1, Zenon DEF PilotInv, ServerType
    <3> QED
      BY <3>1, <3>2
  <2>4. ASSUME NEW u \in Urls, NEW isHealthy \in BOOLEAN, ReportHealth(u, isHealthy)
        PROVE  Follows
    <3>1. healthy' = healthy \/ healthy' = [healthy EXCEPT ![u] = isHealthy]
      BY <2>4 DEF ReportHealth, UpdateHealth
    <3>2. \A b \in Urls : healthy'[b] # healthy[b] => b = u /\ healthy'[b] = isHealthy
      BY <1>1, <3>1, Zenon DEF PilotInv, ServerType
    <3>3. \A b \in Urls : healthy'[b] # healthy[b] => ReportHealth(b, healthy'[b])
      BY <2>4, <3>2
    <3> QED
      BY <3>3
  <2>5. \/ healthy' = healthy \/ Restart \/ \E c \in Clients : PostTimesOut(c)
        \/ \E u \in Urls, isHealthy \in BOOLEAN : ReportHealth(u, isHealthy)
    BY <1>1
       DEF Next, Start, HandleRegisterRoute, HandleRevokeRoute, AdministerBackend, RemoveRoute,
           RegisterBackend, Infer, InferRejected, RuntimeRefuses, RuntimeRejectsPayload,
           RuntimeRuns, PostStart, PostEnds, PostReturns, PostRefused, vars
  <2> HIDE DEF Follows
  <2> QED
    BY <2>1, <2>2, <2>3, <2>4, <2>5
<1>2. PilotInv /\ [Next]_vars => [Follows]_vars
  BY <1>1
<1> QED
  BY <1>2, PilotInvariance, PTL DEF Spec, HealthFollowsPosts

=============================================================================
