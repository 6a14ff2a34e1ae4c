----------------------------- MODULE VllmKvCache -----------------------------
(***************************************************************************)
(* vLLM's prefix cache under the patched scheduler, and the patch of its   *)
(* block hashes (integrations/vllm_route_plugin/kv_cache_policy.py).  The  *)
(* blocks of a prompt are hashed when the request is made; when it is      *)
(* scheduled, a block whose hash is cached is read, another is computed    *)
(* with the weights of the active route and cached.  The cache itself is   *)
(* vLLM's and external.                                                    *)
(***************************************************************************)
EXTENDS VllmScheduler

CONSTANT PromptOf       \* [Requests -> sequences of blocks of tokens]

VARIABLES
    context,    \* route_context.active_route_id of the engine's thread
    hashes,     \* the block hashes of each request that arrived
    cache,      \* hash of a cached block -> the route of the weights it was computed with
    read        \* request -> the routes of the cached blocks it was given

kvVars == <<vllmVars, context, hashes, cache, read>>

KvInit ==
    /\ VllmInit
    /\ context = Base
    /\ hashes = [q \in Requests |-> {}]
    /\ cache = <<>>
    /\ read = [q \in Requests |-> {}]

\* hash_block_tokens chains the hash of the parent block; the patch adds the
\* route of the context to the keys.
PatchedHashBlockTokens(blocks) == <<blocks, context>>

\* update_block_hashes sets the route of the request on a thread-local object
\* of its own, which nobody reads, and leaves route_context as it was.
PatchedUpdateBlockHashes(q) ==
    /\ hashes' = [hashes EXCEPT ![q] =
           {PatchedHashBlockTokens(SubSeq(PromptOf[q], 1, n)) : n \in 1..Len(PromptOf[q])}]
    /\ UNCHANGED context

KvAddRequest(q) ==
    /\ AddRequest(q)
    /\ PatchedUpdateBlockHashes(q)
    /\ UNCHANGED <<cache, read>>

\* The forward pass of the batch that was just scheduled, with the weights of
\* the active route (patched_model_forward).
Computes(batch, route) ==
    LET needed == UNION {hashes[q] : q \in batch} IN
    /\ read' = [q \in Requests |->
                   read[q] \cup (IF q \in batch THEN {cache[h] : h \in hashes[q] \cap DOMAIN cache}
                                 ELSE {})]
    /\ cache' = [h \in DOMAIN cache \cup needed |-> IF h \in DOMAIN cache THEN cache[h] ELSE route]
    /\ UNCHANGED <<context, hashes>>

KvSchedule ==
    /\ ScheduleAdmits
    /\ Computes(Range(running') \ Range(running), active')

\* The least recently used blocks are evicted.
Evict(h) ==
    /\ h \in DOMAIN cache
    /\ cache' = [g \in DOMAIN cache \ {h} |-> cache[g]]
    /\ UNCHANGED <<vllmVars, context, hashes, read>>

\* Blocks outlive the request; a preempted one is scheduled again later.
KvOther ==
    /\ \/ \E q \in Requests : Unblock(q) \/ FinishRequest(q)
       \/ SchedulePreempts
       \/ ScheduleRaises
    /\ UNCHANGED <<context, hashes, cache, read>>

KvNext ==
    \/ \E q \in Requests : KvAddRequest(q)
    \/ KvSchedule
    \/ KvOther
    \/ \E h \in DOMAIN cache : Evict(h)

KvSpec == KvInit /\ [][KvNext]_kvVars

-----------------------------------------------------------------------------
\* "KV cache blocks cannot be reused across different routes, even if the
\* prompt tokens are identical" (inject_route_aware_kv_cache): a request reads
\* only blocks that were computed with the weights of its own route.
NoBlockAcrossRoutes == \A q \in Requests : read[q] \subseteq {RouteOf[q]}

=============================================================================
