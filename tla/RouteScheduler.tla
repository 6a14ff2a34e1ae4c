--------------------------- MODULE RouteScheduler ---------------------------
(***************************************************************************)
(* RouteAwareScheduler (neural_scalpel/serving/scheduler.py): clients      *)
(* submit requests into one queue per route and wait for a future; a       *)
(* background task drains the queue that was created first, batch by       *)
(* batch, into an executor that resolves the futures.  start_drain_loop    *)
(* does not look at the task it replaces, which goes on beside the new one *)
(* and is out of reach of stop_drain_loop.                                 *)
(*                                                                         *)
(* Each method body runs under the scheduler's asyncio lock without        *)
(* awaiting anything else, so it is one step.  A client has one request at *)
(* a time and is the name of that request.  created_at only serves to find *)
(* the oldest queue: the queues are kept in the order of their creation.   *)
(***************************************************************************)
EXTENDS Naturals, Sequences, Functions

CONSTANTS Clients,
          Routes,
          MaxBatchSize,
          DrainTasks,       \* the drain tasks there may be at a time
          NoTask,
          ExecutorRaises,   \* whether the executor may raise
          DrainStops        \* whether stop_drain_loop may be called

ASSUME SchedulerAssumption ==
    /\ MaxBatchSize \in Nat \ {0}
    /\ NoTask \notin DrainTasks
    /\ ExecutorRaises \in BOOLEAN
    /\ DrainStops \in BOOLEAN

VARIABLES
    order,     \* the keys of _queues, oldest first
    queue,     \* the requests of each route's queue, <<>> when it is not a key
    drain,     \* each drain task: "sleeping", "executing", or without a task
               \* to run: "stopped" (none yet, or cancelled), "dead" (it raised)
    drainTask, \* _drain_task, the task that was started last
    batch,     \* the batch that a task executes: its route_id and requests
    wants,     \* the route_id of a client's request
    status     \* a client's future: "idle" (none), "waiting" or "abandoned"
               \* (nothing is left that would resolve it)

vars == <<order, queue, drain, drainTask, batch, wants, status>>

NoBatch(r) == [route_id |-> r, requests |-> <<>>]

Init ==
    /\ order = <<>>
    /\ queue = [r \in Routes |-> <<>>]
    /\ drain = [t \in DrainTasks |-> "stopped"]
    /\ drainTask = NoTask
    /\ \E r \in Routes : batch = [t \in DrainTasks |-> NoBatch(r)]
    /\ wants \in [Clients -> Routes]
    /\ status = [c \in Clients |-> "idle"]

\* Mutant: the queue of a route is appended to the order on every request.
Submit_DuplicateKey(c, r) ==
    /\ status[c] = "idle"
    /\ status' = [status EXCEPT ![c] = "waiting"]
    /\ wants' = [wants EXCEPT ![c] = r]
    /\ queue' = [queue EXCEPT ![r] = Append(@, c)]
    /\ order' = Append(order, r)
    /\ UNCHANGED <<drain, drainTask, batch>>

\* submit_request, up to the await of the future.
Submit(c, r) ==
    /\ status[c] = "idle"
    /\ status' = [status EXCEPT ![c] = "waiting"]
    /\ wants' = [wants EXCEPT ![c] = r]
    /\ queue' = [queue EXCEPT ![r] = Append(@, c)]
    /\ order' = IF r \in Range(order) THEN order ELSE Append(order, r)
    /\ UNCHANGED <<drain, drainTask, batch>>

-----------------------------------------------------------------------------
(* The drain task.                                                         *)

\* Mutant: one request more than the batch holds leaves the queue.
FetchNextSafeBatch_DropsOne(t) ==
    LET r == Head(order)
        n == IF Len(queue[r]) < MaxBatchSize THEN Len(queue[r]) ELSE MaxBatchSize
        rest == SubSeq(queue[r], n + 2, Len(queue[r]))
    IN  /\ batch' = [batch EXCEPT ![t] =
                        [route_id |-> r, requests |-> SubSeq(queue[r], 1, n)]]
        /\ queue' = [queue EXCEPT ![r] = rest]
        /\ order' = IF rest = <<>> THEN Tail(order) ELSE order

\* Mutant: the newest requests of the queue leave it first.
FetchNextSafeBatch_Newest(t) ==
    LET r == Head(order)
        n == IF Len(queue[r]) < MaxBatchSize THEN Len(queue[r]) ELSE MaxBatchSize
        rest == SubSeq(queue[r], 1, Len(queue[r]) - n)
    IN  /\ batch' = [batch EXCEPT ![t] =
                        [route_id |-> r,
                         requests |-> SubSeq(queue[r], Len(queue[r]) - n + 1, Len(queue[r]))]]
        /\ queue' = [queue EXCEPT ![r] = rest]
        /\ order' = IF rest = <<>> THEN Tail(order) ELSE order

\* Mutant: the newest queue is taken for the oldest.
FetchNextSafeBatch_NewestQueue(t) ==
    LET r == order[Len(order)]
        n == IF Len(queue[r]) < MaxBatchSize THEN Len(queue[r]) ELSE MaxBatchSize
        rest == SubSeq(queue[r], n + 1, Len(queue[r]))
    IN  /\ batch' = [batch EXCEPT ![t] =
                        [route_id |-> r, requests |-> SubSeq(queue[r], 1, n)]]
        /\ queue' = [queue EXCEPT ![r] = rest]
        /\ order' = IF rest = <<>> THEN SubSeq(order, 1, Len(order) - 1) ELSE order

\* fetch_next_safe_batch when there is a queue: up to MaxBatchSize requests
\* of the oldest queue, which keeps its place while it is not empty.
FetchNextSafeBatch(t) ==
    LET r == Head(order)
        n == IF Len(queue[r]) < MaxBatchSize THEN Len(queue[r]) ELSE MaxBatchSize
        rest == SubSeq(queue[r], n + 1, Len(queue[r]))
    IN  /\ batch' = [batch EXCEPT ![t] =
                        [route_id |-> r, requests |-> SubSeq(queue[r], 1, n)]]
        /\ queue' = [queue EXCEPT ![r] = rest]
        /\ order' = IF rest = <<>> THEN Tail(order) ELSE order

\* validate_batch_homogeneity returns; otherwise it raises.
ValidBatch(b) == \A c \in Range(b.requests) : wants[c] = b.route_id

\* The task wakes up, takes a batch and hands it to the executor; a batch
\* that is not homogeneous would end the task.
DrainLoopFetches(t) ==
    /\ drain[t] = "sleeping"
    /\ order # <<>>
    /\ FetchNextSafeBatch(t)
    /\ drain' = [drain EXCEPT ![t] = IF ValidBatch(batch'[t]) THEN "executing" ELSE "dead"]
    /\ UNCHANGED <<drainTask, wants, status>>

\* The task has no batch any more, and its futures are as s says.
BatchEnds(t, s) ==
    /\ status' = [c \in Clients |-> IF c \in Range(batch[t].requests) THEN s ELSE status[c]]
    /\ batch' = [batch EXCEPT ![t] = NoBatch(@.route_id)]
    /\ UNCHANGED <<order, queue, drainTask, wants>>

\* The executor resolves the futures of its batch and returns.
ExecutorReturns(t) ==
    /\ drain[t] = "executing"
    /\ BatchEnds(t, "idle")
    /\ drain' = [drain EXCEPT ![t] = "sleeping"]

\* The executor raises: the exception ends the task, and with it the last
\* reference to the futures of the batch.
ExecutorFails(t) ==
    /\ ExecutorRaises
    /\ drain[t] = "executing"
    /\ BatchEnds(t, "abandoned")
    /\ drain' = [drain EXCEPT ![t] = "dead"]

Alive(t) == drain[t] \in {"sleeping", "executing"}

\* A new task, whatever became of the last one.
StartDrainLoop(t) ==
    /\ ~Alive(t)
    /\ drain' = [drain EXCEPT ![t] = "sleeping"]
    /\ drainTask' = t
    /\ UNCHANGED <<order, queue, batch, wants, status>>

\* stop_drain_loop cancels the last task where it waits, which can be in the
\* executor.
StopDrainLoop ==
    /\ DrainStops
    /\ drainTask # NoTask /\ Alive(drainTask)
    /\ BatchEnds(drainTask, "abandoned")
    /\ drain' = [drain EXCEPT ![drainTask] = "stopped"]

-----------------------------------------------------------------------------
Next ==
    \/ \E c \in Clients, r \in Routes : Submit(c, r)
    \/ \E t \in DrainTasks :
          DrainLoopFetches(t) \/ ExecutorReturns(t) \/ ExecutorFails(t) \/ StartDrainLoop(t)
    \/ StopDrainLoop

\* The event loop runs its tasks, and an executor that does not raise returns.
\* The owner of the scheduler starts it once; nobody watches the task.
Fairness ==
    /\ \A t \in DrainTasks : WF_vars(DrainLoopFetches(t)) /\ WF_vars(ExecutorReturns(t))
    /\ WF_vars(drainTask = NoTask /\ \E t \in DrainTasks : StartDrainLoop(t))

Spec == Init /\ [][Next]_vars /\ Fairness

-----------------------------------------------------------------------------
(* Properties.                                                             *)

TypeOK ==
    /\ order \in Seq(Routes)
    /\ queue \in [Routes -> Seq(Clients)]
    /\ drain \in [DrainTasks -> {"stopped", "sleeping", "executing", "dead"}]
    /\ drainTask \in DrainTasks \cup {NoTask}
    /\ batch \in [DrainTasks -> [route_id : Routes, requests : Seq(Clients)]]
    /\ \A t \in DrainTasks : Len(batch[t].requests) <= MaxBatchSize
    /\ wants \in [Clients -> Routes]
    /\ status \in [Clients -> {"idle", "waiting", "abandoned"}]

\* The state is well-formed, batches within max_batch_size included, and
\* the keys of _queues are exactly the routes with requests in them, each
\* once: an empty queue would hand out empty batches for ever, a lost key
\* would strand its requests (submit_request, fetch_next_safe_batch).
QueueKeysExact ==
    /\ TypeOK
    /\ IsInjective(order)
    /\ \A r \in Routes : r \in Range(order) <=> queue[r] # <<>>

\* Every request whose future can still be resolved is in exactly one place,
\* once: in the queue of its own route or in the batch that one task executes,
\* and a batch is of one route, however many tasks drain the queues
\* (submit_request, fetch_next_safe_batch, _drain_loop).
RequestInOnePlace ==
    /\ \A t \in DrainTasks : IsInjective(batch[t].requests)
    /\ \A r \in Routes : IsInjective(queue[r])
    /\ \A c \in Clients :
          LET queued == {r \in Routes : c \in Range(queue[r])}
              taken == {t \in DrainTasks : c \in Range(batch[t].requests)}
          IN  IF status[c] = "waiting"
                THEN \/ queued = {wants[c]} /\ taken = {}
                     \/ /\ queued = {}
                        /\ \E t \in taken : taken = {t} /\ batch[t].route_id = wants[c]
                ELSE queued = {} /\ taken = {}

\* Requests of one route leave its queue in the order in which they were
\* submitted (fetch_next_safe_batch).
FifoWithinRoute ==
    [][\A r \in Routes : \A i, j \in DOMAIN queue[r] :
          i < j /\ queue[r][j] \notin Range(queue'[r])
              => queue[r][i] \notin Range(queue'[r])]_vars

\* As long as a drain task lives, every request for the route whose queue is
\* the oldest leaves it and gets its answer, unless its own batch is abandoned,
\* whatever arrives for other routes and whichever task is started or stopped
\* meanwhile (_drain_loop, fetch_next_safe_batch, start_drain_loop).
OldestRouteServed ==
    \A c \in Clients :
        status[c] = "waiting" /\ order # <<>> /\ wants[c] = Head(order)
            ~> status[c] # "waiting" \/ \A t \in DrainTasks : ~Alive(t)

=============================================================================
