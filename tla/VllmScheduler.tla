---------------------------- MODULE VllmScheduler ----------------------------
(***************************************************************************)
(* The route-aware patch of vLLM's scheduler                               *)
(* (integrations/vllm_route_plugin/scheduler_patch.py).  patched_schedule  *)
(* takes every request of another route out of the two waiting queues,     *)
(* calls vLLM's own schedule() and puts them back in front, so that only   *)
(* requests of one route run together.                                     *)
(*                                                                         *)
(* vLLM is external: its queues are FCFS, its schedule() either preempts   *)
(* the last running requests, or admits waiting requests while there is    *)
(* room and sets aside those that are blocked (in skipped_waiting), or     *)
(* raises.  A request's route id is fixed when it is created               *)
(* (route_metadata.py), where only a missing id becomes "__base__".  An    *)
(* empty one is kept, and _get_request_route_id, which does not take it    *)
(* for a route id, finds the same empty id in request_routes.              *)
(***************************************************************************)
EXTENDS Queues

CONSTANTS Requests,
          RouteIds,       \* route ids, "__base__" included
          Base,           \* "__base__"
          EmptyId,        \* the route id ""
          RouteOf,        \* [Requests -> RouteIds]
          MaxRunning      \* max_num_seqs

ASSUME VllmAssumption ==
    /\ Base \in RouteIds /\ EmptyId \in RouteIds /\ EmptyId # Base
    /\ RouteOf \in [Requests -> RouteIds]
    /\ MaxRunning \in Nat \ {0}

VARIABLES
    waiting,    \* Scheduler.waiting
    skipped,    \* Scheduler.skipped_waiting
    running,    \* Scheduler.running
    active,     \* RoutePluginMetrics.active_route_id
    scheduled,  \* the requests of the last SchedulerOutput
    requests,   \* Scheduler.requests: accepted and not finished
    blocked,    \* requests that cannot be admitted yet
    arrived     \* requests that were ever submitted

vllmVars == <<waiting, skipped, running, active, scheduled, requests, blocked, arrived>>

VllmInit ==
    /\ waiting = <<>> /\ skipped = <<>> /\ running = <<>>
    /\ active = Base
    /\ scheduled = {} /\ requests = {} /\ blocked = {} /\ arrived = {}

-----------------------------------------------------------------------------
(* vLLM.                                                                   *)

AddRequest(q) ==
    /\ q \notin arrived
    /\ arrived' = arrived \cup {q}
    /\ requests' = requests \cup {q}
    /\ waiting' = Append(waiting, q)
    /\ blocked' \in {blocked, blocked \cup {q}}
    /\ UNCHANGED <<skipped, running, active, scheduled>>

Unblock(q) ==
    /\ q \in blocked
    /\ blocked' = blocked \ {q}
    /\ UNCHANGED <<waiting, skipped, running, active, scheduled, requests, arrived>>

Without(s, q) == Keep(s, Requests \ {q})

\* A scheduled request is complete, or a client gives up on any request.
FinishRequest(q) ==
    /\ q \in requests
    /\ requests' = requests \ {q}
    /\ waiting' = Without(waiting, q)
    /\ skipped' = Without(skipped, q)
    /\ running' = Without(running, q)
    /\ scheduled' = scheduled \ {q}
    /\ blocked' = blocked \ {q}
    /\ UNCHANGED <<active, arrived>>

\* What schedule() makes of the queues w and s it is given.
Preempted(w, s) ==
    {[waiting |-> SubSeq(running, n + 1, Len(running)) \o w,
      skipped |-> s,
      running |-> SubSeq(running, 1, n)] : n \in 0..Len(running) - 1}

\* The requests taken are those that are not blocked, skipped_waiting first,
\* until max_num_seqs run; blocked ones go to the front of skipped_waiting.
Admitted(w, s) ==
    {[waiting |-> Keep(w, Requests \ (blocked \cup Range(taken))),
      skipped |-> Keep(w, blocked) \o Keep(s, Requests \ Range(taken)),
      running |-> running \o taken] :
        taken \in {UpTo(MaxRunning - Len(running),
                        Keep(s, Requests \ blocked) \o Keep(w, Requests \ blocked))}}

-----------------------------------------------------------------------------
(* patched_schedule.                                                       *)

\* Mutant: the route of the first waiting request is taken although others
\* are still running.
TargetRoute_HeadOfQueue ==
    IF waiting # <<>> THEN RouteOf[Head(waiting)]
    ELSE IF running # <<>> THEN RouteOf[Head(running)]
    ELSE Base

\* Mutant: an idle scheduler stays with the route that was active.
TargetRoute_StaysActive ==
    IF running # <<>> THEN RouteOf[Head(running)] ELSE active

\* `route or "__base__"`.
OrBase(r) == IF r = EmptyId THEN Base ELSE r

\* The running batch goes on with its route; a new batch takes the route of
\* the first waiting request.
TargetRoute ==
    IF running # <<>> THEN OrBase(RouteOf[Head(running)])
    ELSE IF waiting # <<>> THEN OrBase(RouteOf[Head(waiting)])
    ELSE Base

\* _shelve_queue: what stays in the queue and what is shelved.
OfRoute(r) == {q \in Requests : RouteOf[q] = r}
Matching(s, r) == Keep(s, OfRoute(r))
Shelved(s, r)  == Keep(s, Requests \ OfRoute(r))

\* Mutant: requests of the restored queue come in the order of shelving,
\* each put in front of the one before.
RestoreQueue_Reversed(s, shelved) ==
    [i \in 1..Len(shelved) |-> shelved[Len(shelved) + 1 - i]] \o s

\* Mutant: when the queue is empty the shelved requests are not put back.
RestoreQueue_Dropped(s, shelved) == IF s = <<>> THEN s ELSE shelved \o s

\* _restore_queue: the shelved requests come back in front.
RestoreQueue(s, shelved) == shelved \o s

\* schedule() returns the queues res: the requests of its output are
\* post-validated to be of one route, which becomes the active one.
ScheduleReturns(r, res) ==
    LET out == Range(res.running)
        routes == {RouteOf[q] : q \in out}
    IN  /\ waiting' = RestoreQueue(res.waiting, Shelved(waiting, r))
        /\ skipped' = RestoreQueue(res.skipped, Shelved(skipped, r))
        /\ running' = res.running
        /\ IF \E x, y \in routes : x # y
             THEN UNCHANGED <<scheduled, active>>
             ELSE /\ scheduled' = out
                  /\ active' = OrBase(IF out = {} THEN r ELSE CHOOSE x \in routes : TRUE)
        /\ UNCHANGED <<requests, blocked, arrived>>

ScheduleAdmits ==
    \E r \in {TargetRoute} :
        \E res \in Admitted(Matching(waiting, r), Matching(skipped, r)) : ScheduleReturns(r, res)

SchedulePreempts ==
    \E r \in {TargetRoute} :
        \E res \in Preempted(Matching(waiting, r), Matching(skipped, r)) : ScheduleReturns(r, res)

\* schedule() raises: the finally clause restores the queues.
ScheduleRaises ==
    /\ LET r == TargetRoute
       IN  /\ waiting' = RestoreQueue(Matching(waiting, r), Shelved(waiting, r))
           /\ skipped' = RestoreQueue(Matching(skipped, r), Shelved(skipped, r))
    /\ UNCHANGED <<running, active, scheduled, requests, blocked, arrived>>

-----------------------------------------------------------------------------
VllmNext ==
    \/ \E q \in Requests : AddRequest(q) \/ Unblock(q) \/ FinishRequest(q)
    \/ ScheduleAdmits
    \/ SchedulePreempts
    \/ ScheduleRaises

\* The engine keeps scheduling and does not only preempt; what blocks a
\* request is resolved; a request that runs again and again finishes.
VllmFairness ==
    /\ WF_vllmVars(ScheduleAdmits)
    /\ \A q \in Requests : WF_vllmVars(Unblock(q))
    /\ \A q \in Requests : SF_vllmVars(q \in Range(running) /\ FinishRequest(q))

VllmSpec == VllmInit /\ [][VllmNext]_vllmVars /\ VllmFairness

-----------------------------------------------------------------------------
(* Properties.                                                             *)

VllmTypeOK ==
    /\ waiting \in Seq(Requests)
    /\ skipped \in Seq(Requests)
    /\ running \in Seq(Requests)
    /\ Len(running) <= MaxRunning
    /\ active \in RouteIds
    /\ scheduled \subseteq requests
    /\ blocked \subseteq requests
    /\ requests \subseteq arrived
    /\ arrived \subseteq Requests

\* All requests that run together are of one route, and the route the worker
\* will swap in is the route of every request of the batch, whatever was
\* preempted, blocked, aborted or finished before (patched_schedule).
BatchOfOneRoute ==
    /\ \A p, q \in Range(running) : RouteOf[p] = RouteOf[q]
    /\ \A q \in scheduled : RouteOf[q] = active

\* The state is well-formed and shelving neither loses nor duplicates a
\* request: every accepted request is in exactly one of vLLM's queues, once,
\* also when schedule() preempts or raises (_shelve_queue, _restore_queue, the
\* finally clause).
EveryRequestOnce ==
    /\ VllmTypeOK
    /\ LET all == waiting \o skipped \o running
       IN  IsInjective(all) /\ Range(all) = requests

\* Two waiting requests of one route are never overtaken by each other
\* (_shelve_queue, _restore_queue).
OrderWithinRoute ==
    [][\A i, j \in DOMAIN waiting :
          i < j /\ RouteOf[waiting[i]] = RouteOf[waiting[j]]
            => ~ \E k, m \in DOMAIN waiting' :
                    k < m /\ waiting'[k] = waiting[j] /\ waiting'[m] = waiting[i]]_vllmVars

\* A request that the patch never lets through: its own id is empty, so that
\* it matches no target, or it asks for a route and stands in the queue behind
\* such a request, which makes every new batch one of the base model.
Unreachable(q) ==
    \/ RouteOf[q] = EmptyId
    \/ /\ RouteOf[q] # Base
       /\ \E i, j \in DOMAIN waiting :
             i < j /\ waiting[j] = q /\ RouteOf[waiting[i]] = EmptyId

\* No other route is shelved for ever: every accepted request runs to its end
\* or is set aside by vLLM in skipped_waiting, where it can be stranded because
\* the target route is not chosen from there, unless an empty route id keeps
\* it back (patched_schedule).
ServedOrSkipped ==
    \A q \in Requests :
        q \in requests ~> q \notin requests \/ q \in Range(skipped) \/ Unreachable(q)

=============================================================================
