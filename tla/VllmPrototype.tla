---------------------------- MODULE VllmPrototype ----------------------------
(***************************************************************************)
(* The two prototypes of a vLLM integration: the mock of vLLM's scheduler, *)
(* block allocator and model runner (serving/vllm_internal_mock.py), and   *)
(* the rules a bridge would enforce (serving/vllm_bridge.py).  They share  *)
(* no state.                                                               *)
(***************************************************************************)
EXTENDS Queues, Integers, SequencesExt

CONSTANTS
    MockRequests,
    MockRoute,          \* [MockRequests -> routes or NoRoute]
    NoRoute,            \* None, the base model
    MockBatchSize,
    NumBlocks,
    BridgeRoutes,
    MaxPasses           \* bound on the submissions of one request

ASSUME PrototypeAssumption == MockBatchSize \in Nat /\ NumBlocks \in Nat

VARIABLES
    pending,    \* RouteAwareScheduler.pending_requests
    mockBatch,  \* what schedule_next_batch returned and is not executed yet
    kv,         \* MockRequest.kv_blocks
    tag,        \* RouteTaggedKVBlock.route_id of the blocks allocated so far
    passes,     \* submissions of each request
    dropped,    \* requests of a batch that failed before it came to them
    cacheTag,   \* VLLMBridgePrototype._cache_tags: block -> route
    content,    \* history: the routes that a block was given to since it last lost its tag
    vram        \* VLLMBridgePrototype._current_vram_route

mockVars == <<pending, mockBatch, kv, tag, passes, dropped>>
bridgeVars == <<cacheTag, content, vram>>
protoVars == <<mockVars, bridgeVars>>

MockInit ==
    /\ pending = <<>> /\ mockBatch = <<>>
    /\ kv = [q \in MockRequests |-> <<>>]
    /\ tag = <<>>
    /\ passes = [q \in MockRequests |-> 0]
    /\ dropped = {}

BridgeInit ==
    /\ cacheTag = <<>>
    /\ content = [b \in 1..NumBlocks |-> {}]
    /\ vram = NoRoute

ProtoInit == MockInit /\ BridgeInit

---------------------------------------------------------------------------
(* The mock.  A request is submitted again for its next token.  Blocks are *)
(* handed out in ascending order and never freed.                          *)

AddMockRequest(q) ==
    /\ q \notin ToSet(pending) \union ToSet(mockBatch) /\ passes[q] < MaxPasses
    /\ pending' = Append(pending, q)
    /\ passes' = [passes EXCEPT ![q] = @ + 1]
    /\ dropped' = dropped \ {q}
    /\ UNCHANGED <<mockBatch, kv, tag, bridgeVars>>

OfMockRoute(route) == {q \in MockRequests : MockRoute[q] = route}

\* The requests of the oldest one's route, as many as fit.
ScheduleNextBatch ==
    LET chosen == UpTo(MockBatchSize, Keep(pending, OfMockRoute(MockRoute[Head(pending)])))
    IN
    /\ pending # <<>> /\ mockBatch = <<>>
    /\ mockBatch' = chosen
    /\ pending' = Keep(pending, MockRequests \ Range(chosen))
    /\ UNCHANGED <<kv, tag, passes, dropped, bridgeVars>>

\* verify_access: all blocks of the request carry its route.
VerifyAccess(q) == \A i \in DOMAIN kv[q] : tag[kv[q][i]] = MockRoute[q]

\* A batch of several routes is refused as a whole; else its requests are served
\* in turn until one of them is refused a block, its own or a new one.
Served ==
    LET mixed == \E i \in DOMAIN mockBatch : MockRoute[mockBatch[i]] # MockRoute[mockBatch[1]]
        refused == {i \in DOMAIN mockBatch : ~VerifyAccess(mockBatch[i]) \/ Len(tag) + i > NumBlocks}
    IN IF mixed THEN 0
       ELSE IF refused = {} THEN Len(mockBatch) ELSE Min(refused) - 1

\* execute_forward_pass swaps the weights, serves, and rolls back whether or not
\* it raises, so that the weights are the base model's in every state.  What it
\* allocated before an exception stays allocated.
ExecuteForwardPass ==
    /\ mockBatch # <<>>
    /\ LET n == Served IN
        /\ kv' = [q \in MockRequests |->
                     IF \E i \in 1..n : mockBatch[i] = q
                     THEN Append(kv[q], Len(tag) + (CHOOSE i \in 1..n : mockBatch[i] = q)) ELSE kv[q]]
        /\ tag' = tag \o [i \in 1..n |-> MockRoute[mockBatch[1]]]
        /\ dropped' = dropped \union {mockBatch[i] : i \in n + 1..Len(mockBatch)}
    /\ mockBatch' = <<>>
    /\ UNCHANGED <<pending, passes, bridgeVars>>

---------------------------------------------------------------------------
(* The bridge.  A refusal raises and changes nothing.                      *)

Contaminated(b, route) == b \in DOMAIN cacheTag /\ cacheTag[b] # route

\* The blocks get the tag of the route.
Tagged(route, blocks) ==
    /\ cacheTag' = [b \in DOMAIN cacheTag \union blocks |->
                        IF b \in blocks THEN route ELSE cacheTag[b]]
    /\ content' = [b \in 1..NumBlocks |->
                       IF b \in blocks THEN content[b] \union {route} ELSE content[b]]

\* Mutant: the tags of the blocks are not looked at.
ValidateKvCacheAllocation_Unchecked(route, blocks) ==
    /\ \/ route = NoRoute /\ UNCHANGED <<cacheTag, content>>
       \/ route # NoRoute /\ Tagged(route, blocks)
    /\ UNCHANGED <<mockVars, vram>>

\* Requests of the base model are accepted without a look at the tags, and
\* leave them as they are.
ValidateKvCacheAllocation(route, blocks) ==
    /\ \/ route = NoRoute /\ UNCHANGED <<cacheTag, content>>
       \/ /\ route # NoRoute
          /\ \A b \in blocks : ~Contaminated(b, route)
          /\ Tagged(route, blocks)
    /\ UNCHANGED <<mockVars, vram>>

\* A swap evicts the blocks of the route that the caller says is loaded, which
\* is not compared with the bridge's own record.
InterceptModelRunner(current, target) ==
    /\ current # target
    /\ LET evicted == {b \in DOMAIN cacheTag : cacheTag[b] = current} IN
        /\ cacheTag' = [b \in DOMAIN cacheTag \ evicted |-> cacheTag[b]]
        /\ content' = [b \in 1..NumBlocks |-> IF b \in evicted THEN {} ELSE content[b]]
    /\ vram' = target
    /\ UNCHANGED mockVars

\* validate_batch_safety, on the routes of a proposed batch.
ValidateBatchSafety(routes) == Cardinality(routes \ {NoRoute}) <= 1

\* A batch of the bridge: checked, its blocks allocated; the swap is a step of
\* its own.
BridgeBatch(routes, blocks) ==
    /\ ValidateBatchSafety(routes)
    /\ \E route \in routes : ValidateKvCacheAllocation(route, blocks)

MockNext ==
    \/ \E q \in MockRequests : AddMockRequest(q)
    \/ ScheduleNextBatch
    \/ ExecuteForwardPass

BridgeNext ==
    \/ \E routes \in SUBSET (BridgeRoutes \union {NoRoute}), blocks \in SUBSET (1..NumBlocks) :
           BridgeBatch(routes, blocks)
    \/ \E current, target \in BridgeRoutes \union {NoRoute} : InterceptModelRunner(current, target)

\* Nobody uses both in one process.
ProtoNext == (MockNext /\ BridgeInit) \/ (BridgeNext /\ MockInit)

ProtoSpec == ProtoInit /\ [][ProtoNext]_protoVars

---------------------------------------------------------------------------
\* In the mock every block a request holds carries its route and belongs to it
\* alone, however often it is submitted and wherever a batch broke off, and a
\* request is dropped only when the blocks are used up.  In the bridge no block
\* passes from one route to another without having been evicted in between,
\* whatever the callers say is loaded; the base model, which may be given any
\* block, is not recorded (verify_access, execute_forward_pass,
\* validate_kv_cache_allocation, intercept_model_runner).
PrototypesIsolateRoutes ==
    /\ \A q \in MockRequests : VerifyAccess(q)
    /\ \A p, q \in MockRequests : p # q => ToSet(kv[p]) \intersect ToSet(kv[q]) = {}
    /\ dropped # {} => Len(tag) = NumBlocks
    /\ \A b \in 1..NumBlocks :
          content[b] = IF b \in DOMAIN cacheTag THEN {cacheTag[b]} ELSE {}

=============================================================================
