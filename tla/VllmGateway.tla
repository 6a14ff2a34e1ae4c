----------------------------- MODULE VllmGateway -----------------------------
(***************************************************************************)
(* The HTTP gateway in front of vLLM (neural_scalpel/serving/              *)
(* vllm_proxy.py).  infer_endpoint charges the tenant's token bucket, puts *)
(* the request and its future into the queue of its route and creates a    *)
(* task; the tasks take batches one after the other under one asyncio      *)
(* lock, change the active route, forward the batch and resolve its        *)
(* futures.                                                                *)
(*                                                                         *)
(* Everything runs on one event loop, so the code between two awaits is    *)
(* one step.  Tasks run, and asyncio's lock is granted, in the order in    *)
(* which they were created.  A client has one request at a time and is the *)
(* name of the request and of its future.  Time is counted in the units in *)
(* which Rate whole tokens are refilled; time.time() can be set back.      *)
(***************************************************************************)
EXTENDS Integers, Sequences, Functions

CONSTANTS Clients, Tenants, Routes,
          TenantOf,       \* the tenant in a client's token
          NoRoute,        \* current_active_route before the first batch
          MaxBatchSize,
          Capacity, Rate, \* of tenant_rate_limiter
          MaxTime         \* bound on the clock

ASSUME GatewayAssumption ==
    /\ TenantOf \in [Clients -> Tenants]
    /\ NoRoute \notin Routes
    /\ MaxBatchSize \in Nat \ {0}
    /\ Capacity \in Nat /\ Rate \in Nat /\ MaxTime \in Nat

VARIABLES
    now,            \* time.time()
    tokens, last,   \* RateLimiter.tokens and .last_refill
    requests,       \* requests of each route's RouteQueue
    futures,        \* futures of each route's RouteQueue
    tasks,          \* the routes of the tasks that wait for the lock
    step,           \* what the task with the lock awaits, "free" without one
    batch,          \* reqs_to_process, futs_to_resolve and their route
    active,         \* current_active_route
    status,         \* a client: "idle", "waiting" for its future, or "gone"
    answer,         \* what a client's latest future was resolved with
    admitted,       \* history: requests admitted per tenant in the interval observed
    trough, peak    \* history: earliest and latest time of that interval

limiter == <<now, tokens, last, admitted, trough, peak>>
queues == <<requests, futures, tasks>>
vars == <<now, tokens, last, requests, futures, tasks, step, batch, active,
          status, answer, admitted, trough, peak>>

NoBatch == [route |-> NoRoute, requests |-> <<>>, futures |-> <<>>]

Init ==
    /\ now = 0 /\ trough = 0 /\ peak = 0
    /\ tokens = [t \in Tenants |-> Capacity]
    /\ last = [t \in Tenants |-> 0]
    /\ admitted = [t \in Tenants |-> 0]
    /\ requests = [r \in Routes |-> <<>>]
    /\ futures = [r \in Routes |-> <<>>]
    /\ tasks = <<>>
    /\ step = "free"
    /\ batch = NoBatch
    /\ active = NoRoute
    /\ status = [c \in Clients |-> "idle"]
    /\ answer = [c \in Clients |-> "none"]

-----------------------------------------------------------------------------
(* The token bucket.                                                       *)

\* Mutant: the bucket is not cut at its capacity.
Refilled_Uncapped(t) == tokens[t] + (now - last[t]) * Rate

\* The bucket of tenant t after the refill of consume().  The bucket of a
\* tenant that was never seen is full, whenever its first request comes.
Refilled(t) ==
    LET full == tokens[t] + (now - last[t]) * Rate
    IN  IF full < Capacity THEN full ELSE Capacity

\* consume(): the refill is written whether or not a token is left.
Consume(t, n) ==
    /\ tokens' = [tokens EXCEPT ![t] = Refilled(t) - n]
    /\ last' = [last EXCEPT ![t] = now]
    /\ admitted' = [admitted EXCEPT ![t] = @ + n]
    /\ UNCHANGED <<now, trough, peak>>

RateLimited(c) ==
    /\ status[c] = "idle"
    /\ Refilled(TenantOf[c]) < 1
    /\ Consume(TenantOf[c], 0)
    /\ UNCHANGED <<queues, step, batch, active, status, answer>>

-----------------------------------------------------------------------------
\* Mutant: a task is only created for the first request of a queue.
Infer_TaskPerQueue(c, r) ==
    /\ status[c] = "idle"
    /\ Refilled(TenantOf[c]) >= 1
    /\ Consume(TenantOf[c], 1)
    /\ requests' = [requests EXCEPT ![r] = Append(@, c)]
    /\ futures' = [futures EXCEPT ![r] = Append(@, c)]
    /\ tasks' = IF requests[r] = <<>> THEN Append(tasks, r) ELSE tasks
    /\ status' = [status EXCEPT ![c] = "waiting"]
    /\ answer' = [answer EXCEPT ![c] = "none"]
    /\ UNCHANGED <<step, batch, active>>

\* infer_endpoint up to the await of the future.
Infer(c, r) ==
    /\ status[c] = "idle"
    /\ Refilled(TenantOf[c]) >= 1
    /\ Consume(TenantOf[c], 1)
    /\ requests' = [requests EXCEPT ![r] = Append(@, c)]
    /\ futures' = [futures EXCEPT ![r] = Append(@, c)]
    /\ tasks' = Append(tasks, r)
    /\ status' = [status EXCEPT ![c] = "waiting"]
    /\ answer' = [answer EXCEPT ![c] = "none"]
    /\ UNCHANGED <<step, batch, active>>

\* The handler is cancelled while it awaits the future, which cancels the
\* future; the request stays where it is.
Disconnect(c) ==
    /\ status[c] = "waiting"
    /\ status' = [status EXCEPT ![c] = "gone"]
    /\ UNCHANGED <<limiter, queues, step, batch, active, answer>>

-----------------------------------------------------------------------------
(* _process_route_batch.                                                   *)

FirstOf(s) == SubSeq(s, 1, IF Len(s) < MaxBatchSize THEN Len(s) ELSE MaxBatchSize)
RestOf(s)  == SubSeq(s, MaxBatchSize + 1, Len(s))

\* The task finds the queue of its route empty.
TaskFindsNothing ==
    /\ step = "free" /\ tasks # <<>>
    /\ requests[Head(tasks)] = <<>>
    /\ tasks' = Tail(tasks)
    /\ UNCHANGED <<limiter, requests, futures, step, batch, active, status, answer>>

\* Mutant: futures that are done are left out of the batch.
TaskTakesBatch_DropsDone ==
    /\ step = "free" /\ tasks # <<>>
    /\ LET r == Head(tasks)
       IN  /\ requests[r] # <<>>
           /\ batch' = [route |-> r, requests |-> FirstOf(requests[r]),
                        futures |-> SelectSeq(FirstOf(futures[r]),
                                              LAMBDA c : status[c] = "waiting")]
           /\ requests' = [requests EXCEPT ![r] = RestOf(@)]
           /\ futures' = [futures EXCEPT ![r] = RestOf(@)]
           /\ step' = IF active = r THEN "backend" ELSE "swap"
           /\ active' = r
    /\ tasks' = Tail(tasks)
    /\ UNCHANGED <<limiter, status, answer>>

\* The task has the lock and takes a batch, up to its first await.
TaskTakesBatch ==
    /\ step = "free" /\ tasks # <<>>
    /\ LET r == Head(tasks)
       IN  /\ requests[r] # <<>>
           /\ batch' = [route |-> r, requests |-> FirstOf(requests[r]),
                        futures |-> FirstOf(futures[r])]
           /\ requests' = [requests EXCEPT ![r] = RestOf(@)]
           /\ futures' = [futures EXCEPT ![r] = RestOf(@)]
           /\ step' = IF active = r THEN "backend" ELSE "swap"
           /\ active' = r
    /\ tasks' = Tail(tasks)
    /\ UNCHANGED <<limiter, status, answer>>

SwapEnds ==
    /\ step = "swap"
    /\ step' = "backend"
    /\ UNCHANGED <<limiter, queues, batch, active, status, answer>>

\* Every future of the batch that is not done gets its value of values, and the task
\* releases the lock.
Resolve(values) ==
    LET open == {i \in DOMAIN batch.futures : status[batch.futures[i]] = "waiting"}
        Place(c) == CHOOSE i \in open : batch.futures[i] = c
        Served(c) == \E i \in open : batch.futures[i] = c
    IN  /\ status' = [c \in Clients |-> IF Served(c) THEN "idle" ELSE status[c]]
        /\ answer' = [c \in Clients |-> IF Served(c) THEN values[Place(c)] ELSE answer[c]]
        /\ step' = "free"
        /\ batch' = NoBatch
        /\ UNCHANGED <<limiter, queues, active>>

\* gather() returns one result per request, an error of the backend or its
\* timeout included, and the results are paired with the futures.
BackendAnswers ==
    /\ step = "backend"
    /\ Resolve(batch.requests)

\* Something in the task raises: the except branch fails the futures.
BatchFails ==
    /\ step \in {"swap", "backend"}
    /\ Resolve([i \in DOMAIN batch.futures |-> "error"])

-----------------------------------------------------------------------------
\* The clock moves, or is set back.
Tick ==
    /\ now' \in {now - 1, now + 1} \cap (0..MaxTime)
    /\ peak' = IF now' > peak THEN now' ELSE peak
    /\ trough' = IF now' < trough THEN now' ELSE trough
    /\ UNCHANGED <<tokens, last, admitted, queues, step, batch, active,
                   status, answer>>

\* The history variables start again: admitted counts from any moment on.
ObserveFromNow ==
    /\ admitted' = [t \in Tenants |-> 0]
    /\ trough' = now /\ peak' = now
    /\ UNCHANGED <<now, tokens, last, queues, step, batch, active, status, answer>>

Next ==
    \/ \E c \in Clients, r \in Routes : Infer(c, r)
    \/ \E c \in Clients : RateLimited(c) \/ Disconnect(c)
    \/ TaskFindsNothing
    \/ TaskTakesBatch
    \/ SwapEnds
    \/ BackendAnswers
    \/ BatchFails
    \/ Tick
    \/ ObserveFromNow

\* The event loop runs its tasks, and a call of the backend ends, at the
\* latest with its timeout.
Fairness ==
    /\ WF_vars(TaskFindsNothing \/ TaskTakesBatch)
    /\ WF_vars(SwapEnds)
    /\ WF_vars(BackendAnswers)

Spec == Init /\ [][Next]_vars /\ Fairness

-----------------------------------------------------------------------------
(* Properties.                                                             *)

TypeOK ==
    /\ {now, trough, peak} \subseteq 0..MaxTime
    /\ tokens \in [Tenants -> Int]
    /\ \A t \in Tenants : tokens[t] <= Capacity
    /\ last \in [Tenants -> 0..MaxTime]
    /\ admitted \in [Tenants -> Nat]
    /\ requests \in [Routes -> Seq(Clients)]
    /\ futures \in [Routes -> Seq(Clients)]
    /\ tasks \in Seq(Routes)
    /\ step \in {"free", "swap", "backend"}
    /\ batch \in [route : Routes \cup {NoRoute}, requests : Seq(Clients), futures : Seq(Clients)]
    /\ Len(batch.requests) <= MaxBatchSize
    /\ active \in Routes \cup {NoRoute}
    /\ status \in [Clients -> {"idle", "waiting", "gone"}]
    /\ answer \in [Clients -> Clients \cup {"none", "error"}]

\* The state is well-formed, batches within MAX_BATCH_SIZE included, and a
\* client is answered with the result of its own request: the two lists of
\* a RouteQueue are cut alike and stay aligned through full batches, failures
\* and clients that leave, and a batch is forwarded while its own route is the
\* active one (_process_route_batch, current_active_route).
OwnAnswer ==
    /\ TypeOK
    /\ \A c \in Clients : answer[c] \in {c, "none", "error"}
    /\ step = "backend" => active = batch.route

\* The bucket bounds what a tenant gets through in any interval: never more
\* than its capacity plus the refill for the span of times the clock shows in
\* it, also when the clock is set back in between (consume).
WithinRate ==
    \A t \in Tenants : admitted[t] <= Capacity + Rate * (peak - trough)

\* Every request that passes the rate limit is answered or its client leaves;
\* a queue that holds more than one batch is not forgotten (infer_endpoint,
\* _process_route_batch).
EveryRequestAnswered ==
    \A c \in Clients : status[c] = "waiting" ~> status[c] # "waiting"

=============================================================================
