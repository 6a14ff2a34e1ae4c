------------------------- MODULE VllmGateway_proofs -------------------------
(***************************************************************************)
(* Proofs about the HTTP gateway (VllmGateway), for every number of        *)
(* clients, tenants and routes, every batch size, and every capacity and   *)
(* rate of the token bucket: a client gets the answer to its own request,  *)
(* and a tenant never gets more through than its bucket allows.            *)
(***************************************************************************)
EXTENDS VllmGateway, TLAPS

\* The two lists of every queue, and of the batch, name the same requests.
Aligned ==
    /\ \A r \in Routes : requests[r] = futures[r]
    /\ batch.requests = batch.futures

\* A task that has the lock has made the route of its batch the active one.
ActiveFacts == step # "free" => active = batch.route

OwnFacts == \A c \in Clients : answer[c] \in {c, "none", "error"}

\* The clock stays within the interval observed.
ClockFacts == trough <= now /\ now <= peak

\* What tenant t got through and what is left in its bucket came out of a
\* full bucket and the refill up to the bucket's last one.
Charged(t) ==
    admitted[t] # 0 =>
        admitted[t] + tokens[t] <= Capacity + Rate * (last[t] - trough)

ChargeFacts == \A t \in Tenants : Charged(t)

\* The inductive invariant.
GatewayInv ==
    /\ TypeOK
    /\ Aligned /\ ActiveFacts /\ OwnFacts
    /\ ClockFacts /\ ChargeFacts /\ WithinRate

-----------------------------------------------------------------------------
(* Products, the batch and the bucket.                                     *)

\* What the proofs use of multiplication: a longer time refills no less, and
\* refills of two spans add up.
LEMMA Refills ==
    ASSUME NEW r \in Nat, NEW x \in Int, NEW y \in Int, NEW z \in Int
    PROVE  /\ r * (x - y) \in Int
           /\ r * (x - y) = (x - y) * r
           /\ x <= y => r * (x - z) <= r * (y - z)
           /\ x <= y => r * (z - y) <= r * (z - x)
           /\ y <= x => 0 <= r * (x - y)
           /\ r * (x - y) + r * (y - z) = r * (x - z)
<1>1. r * (x - y) \in Int /\ r * (x - y) = (x - y) * r
  OBVIOUS
<1>2. r * (x - y) = r * x - r * y /\ r * (y - z) = r * y - r * z
      /\ r * (x - z) = r * x - r * z /\ r * (z - y) = r * z - r * y
      /\ r * (z - x) = r * z - r * x
  OBVIOUS
<1>3. r * x \in Int /\ r * y \in Int /\ r * z \in Int
  OBVIOUS
<1>4. ASSUME NEW d \in Nat
      PROVE  r * d >= 0
  OBVIOUS
<1>5. y <= x => 0 <= r * (x - y)
  BY <1>4
<1>6. x <= y => 0 <= r * (y - x) /\ r * (y - x) = r * y - r * x
  BY <1>4
<1> QED
  BY <1>1, <1>2, <1>3, <1>5, <1>6

\* A batch is a sequence of at most MaxBatchSize requests, what stays is one.
LEMMA CutType ==
    ASSUME NEW s \in Seq(Clients)
    PROVE  /\ FirstOf(s) \in Seq(Clients) /\ Len(FirstOf(s)) <= MaxBatchSize
           /\ RestOf(s) \in Seq(Clients)
  BY GatewayAssumption DEF FirstOf, RestOf

\* The refill never fills a bucket beyond its capacity and never puts in more
\* than the time since the last refill is worth.
LEMMA RefilledFacts ==
    ASSUME TypeOK, NEW t \in Tenants
    PROVE  /\ Refilled(t) \in Int
           /\ Refilled(t) <= Capacity
           /\ Refilled(t) <= tokens[t] + Rate * (now - last[t])
<1>1. tokens[t] \in Int /\ now \in Int /\ last[t] \in Int /\ Rate \in Nat /\ Capacity \in Nat
  BY GatewayAssumption DEF TypeOK
<1>2. Rate * (now - last[t]) \in Int /\ Rate * (now - last[t]) = (now - last[t]) * Rate
  BY <1>1, Refills
<1> QED
  BY <1>1, <1>2 DEF Refilled

-----------------------------------------------------------------------------
(* consume().                                                              *)

LimiterType ==
    /\ {now, trough, peak} \subseteq 0..MaxTime
    /\ tokens \in [Tenants -> Int]
    /\ \A t \in Tenants : tokens[t] <= Capacity
    /\ last \in [Tenants -> 0..MaxTime]
    /\ admitted \in [Tenants -> Nat]

LimiterFacts == LimiterType /\ ClockFacts /\ ChargeFacts /\ WithinRate

\* A call of consume() that takes n tokens which the bucket holds, or none,
\* keeps what is known of the bucket.
LEMMA ConsumeKeeps ==
    ASSUME TypeOK, LimiterFacts,
           NEW t \in Tenants, NEW n \in {0, 1},
           n = 1 => Refilled(t) >= 1,
           Consume(t, n)
    PROVE  LimiterFacts'
<1>1. now \in Nat /\ trough \in Nat /\ peak \in Nat /\ trough <= now /\ now <= peak
      /\ Capacity \in Nat /\ Rate \in Nat
  BY GatewayAssumption DEF LimiterFacts, LimiterType, ClockFacts
<1>2. now' = now /\ trough' = trough /\ peak' = peak
  BY DEF Consume
<1>3. Refilled(t) \in Int /\ Refilled(t) <= Capacity
      /\ Refilled(t) <= tokens[t] + Rate * (now - last[t])
  BY RefilledFacts
<1>4. LimiterType'
  BY <1>2, <1>3, GatewayAssumption DEF LimiterFacts, LimiterType, Consume
<1>5. ASSUME NEW u \in Tenants
      PROVE  Charged(u)' /\ admitted'[u] <= Capacity + Rate * (peak - trough)
  <2>1. CASE u # t
    <3>1. tokens'[u] = tokens[u] /\ last'[u] = last[u] /\ admitted'[u] = admitted[u]
      BY <2>1 DEF Consume, LimiterFacts, LimiterType
    <3> QED
      BY <3>1, <1>2 DEF LimiterFacts, ChargeFacts, Charged, WithinRate
  <2>2. CASE u = t
    <3>1. tokens'[t] = Refilled(t) - n /\ last'[t] = now /\ admitted'[t] = admitted[t] + n
      BY DEF Consume, LimiterFacts, LimiterType
    <3>2. admitted[t] \in Nat /\ tokens[t] \in Int /\ last[t] \in Nat
      BY GatewayAssumption DEF LimiterFacts, LimiterType
    <3>3. /\ Rate * (now - trough) \in Int /\ 0 <= Rate * (now - trough)
          /\ Rate * (now - last[t]) \in Int /\ Rate * (last[t] - trough) \in Int
          /\ Rate * (now - last[t]) + Rate * (last[t] - trough) = Rate * (now - trough)
          /\ Rate * (peak - trough) \in Int
          /\ Rate * (now - trough) <= Rate * (peak - trough)
      BY <1>1, <3>2, Refills
    <3>4. admitted'[t] + tokens'[t] = admitted[t] + Refilled(t)
      BY <3>1, <3>2, <1>3
    <3>5. admitted[t] + Refilled(t) <= Capacity + Rate * (now - trough)
      <4>1. CASE admitted[t] = 0
        BY <4>1, <1>1, <1>3, <3>3
      <4>2. CASE admitted[t] # 0
        <5>1. admitted[t] + tokens[t] <= Capacity + Rate * (last[t] - trough)
          BY <4>2 DEF LimiterFacts, ChargeFacts, Charged
        <5> QED
          BY <5>1, <1>1, <1>3, <3>2, <3>3
      <4> QED
        BY <4>1, <4>2
    <3>6. Charged(t)'
      BY <3>1, <3>4, <3>5, <1>2 DEF Charged
    <3>7. CASE n = 0
      <4>1. admitted'[t] = admitted[t]
        BY <3>1, <3>2, <3>7
      <4> QED
        BY <4>1, <3>6, <2>2 DEF LimiterFacts, WithinRate
    <3>8. CASE n = 1
      <4>1. admitted'[t] <= admitted[t] + Refilled(t)
        BY <3>1, <3>2, <3>8, <1>3
      <4> QED
        BY <4>1, <3>1, <3>2, <3>3, <3>5, <3>6, <1>1, <1>3, <2>2
    <3> QED
      BY <3>7, <3>8
  <2> QED
    BY <2>1, <2>2
<1> QED
  BY <1>1, <1>2, <1>4, <1>5
  DEF LimiterFacts, ClockFacts, ChargeFacts, WithinRate

\* A change of the clock keeps what is known of the bucket: the interval
\* observed only grows.
LEMMA TickKeeps ==
    ASSUME LimiterFacts, Tick
    PROVE  LimiterFacts'
<1>1. now \in Nat /\ trough \in Nat /\ peak \in Nat /\ trough <= now /\ now <= peak
      /\ Capacity \in Nat /\ Rate \in Nat /\ MaxTime \in Nat
      /\ trough <= MaxTime /\ peak <= MaxTime
  BY GatewayAssumption DEF LimiterFacts, LimiterType, ClockFacts
<1>2. now' \in 0..MaxTime /\ trough' \in 0..MaxTime /\ peak' \in 0..MaxTime
      /\ trough' <= now' /\ now' <= peak' /\ trough' <= trough /\ peak <= peak'
  BY <1>1 DEF Tick
<1>3. tokens' = tokens /\ last' = last /\ admitted' = admitted
  BY DEF Tick
<1>4. LimiterType' /\ ClockFacts'
  BY <1>2, <1>3 DEF LimiterFacts, LimiterType, ClockFacts
<1>5. ASSUME NEW t \in Tenants
      PROVE  Charged(t)' /\ admitted'[t] <= Capacity + Rate * (peak' - trough')
  <2>1. admitted[t] \in Nat /\ tokens[t] \in Int /\ last[t] \in Nat
    BY GatewayAssumption DEF LimiterFacts, LimiterType
  <2>2. trough' \in Int /\ peak' \in Int
    BY <1>1, <1>2
  <2>3. /\ Rate * (last[t] - trough) \in Int /\ Rate * (last[t] - trough') \in Int
        /\ Rate * (last[t] - trough) <= Rate * (last[t] - trough')
    BY <1>1, <1>2, <2>1, <2>2, Refills
  <2>4. /\ Rate * (peak - trough) \in Int /\ Rate * (peak - trough') \in Int
        /\ Rate * (peak' - trough') \in Int
        /\ Rate * (peak - trough) <= Rate * (peak - trough')
        /\ Rate * (peak - trough') <= Rate * (peak' - trough')
    <3> DEFINE Span(x, y) == Rate * (x - y)
    <3>1. \A x, y, z \in Int :
              /\ Span(x, y) \in Int
              /\ x <= y => Span(x, z) <= Span(y, z)
              /\ x <= y => Span(z, y) <= Span(z, x)
      BY <1>1, Refills
    <3> HIDE DEF Span
    <3>2. trough \in Int /\ peak \in Int /\ trough' <= trough /\ peak <= peak'
      BY <1>1, <1>2
    <3>3. Span(peak, trough) \in Int /\ Span(peak, trough') \in Int
          /\ Span(peak', trough') \in Int
      BY <2>2, <3>1, <3>2
    <3>4. Span(peak, trough) <= Span(peak, trough')
      BY <2>2, <3>1, <3>2
    <3>5. Span(peak, trough') <= Span(peak', trough')
      BY <2>2, <3>1, <3>2
    <3> QED
      BY <3>3, <3>4, <3>5 DEF Span
  <2>5. Charged(t)'
    BY <2>1, <2>3, <1>1, <1>3 DEF LimiterFacts, ChargeFacts, Charged
  <2>6. admitted[t] <= Capacity + Rate * (peak - trough)
    BY DEF LimiterFacts, WithinRate
  <2> QED
    BY <2>1, <2>4, <2>5, <2>6, <1>1, <1>3
<1> QED
  BY <1>4, <1>5 DEF LimiterFacts, ChargeFacts, WithinRate

-----------------------------------------------------------------------------
(* _process_route_batch.                                                   *)

QueueType ==
    /\ requests \in [Routes -> Seq(Clients)]
    /\ futures \in [Routes -> Seq(Clients)]
    /\ tasks \in Seq(Routes)
    /\ step \in {"free", "swap", "backend"}
    /\ batch \in [route : Routes \cup {NoRoute}, requests : Seq(Clients), futures : Seq(Clients)]
    /\ Len(batch.requests) <= MaxBatchSize
    /\ active \in Routes \cup {NoRoute}
    /\ status \in [Clients -> {"idle", "waiting", "gone"}]
    /\ answer \in [Clients -> Clients \cup {"none", "error"}]

QueueFacts == QueueType /\ Aligned /\ ActiveFacts /\ OwnFacts

LEMMA InvParts ==
    /\ GatewayInv <=> LimiterFacts /\ QueueFacts
    /\ GatewayInv' <=> LimiterFacts' /\ QueueFacts'
  BY DEF GatewayInv, TypeOK, LimiterFacts, LimiterType, QueueFacts, QueueType

\* A request that was let through is added to both lists of its queue.
LEMMA InferKeeps ==
    ASSUME QueueFacts, NEW c \in Clients, NEW r \in Routes, Infer(c, r)
    PROVE  QueueFacts'
<1>1. QueueType'
  BY DEF QueueFacts, QueueType, Infer
<1>2. Aligned'
  BY DEF QueueFacts, QueueType, Aligned, Infer
<1>3. ActiveFacts' /\ OwnFacts'
  BY DEF QueueFacts, QueueType, ActiveFacts, OwnFacts, Infer
<1> QED
  BY <1>1, <1>2, <1>3 DEF QueueFacts

\* A batch is cut off both lists of its queue at the same place.
LEMMA TakeKeeps ==
    ASSUME QueueFacts, TaskTakesBatch
    PROVE  QueueFacts'
<1> DEFINE r == Head(tasks)
<1>1. r \in Routes /\ Tail(tasks) \in Seq(Routes)
  BY DEF QueueFacts, QueueType, TaskTakesBatch
<1>2. requests[r] \in Seq(Clients) /\ futures[r] = requests[r]
  BY <1>1 DEF QueueFacts, QueueType, Aligned
<1>3. /\ FirstOf(requests[r]) \in Seq(Clients) /\ RestOf(requests[r]) \in Seq(Clients)
      /\ Len(FirstOf(requests[r])) <= MaxBatchSize
  BY <1>2, CutType
<1>4. /\ batch' = [route |-> r, requests |-> FirstOf(requests[r]),
                   futures |-> FirstOf(requests[r])]
      /\ requests' = [requests EXCEPT ![r] = RestOf(requests[r])]
      /\ futures' = [futures EXCEPT ![r] = RestOf(requests[r])]
      /\ step' \in {"swap", "backend"}
      /\ active' = r /\ tasks' = Tail(tasks)
      /\ status' = status /\ answer' = answer
  BY <1>2 DEF TaskTakesBatch
<1> HIDE DEF r
<1>5. QueueType'
  BY <1>1, <1>3, <1>4 DEF QueueFacts, QueueType
<1>6. Aligned'
  BY <1>1, <1>4 DEF QueueFacts, QueueType, Aligned
<1>7. ActiveFacts' /\ OwnFacts'
  BY <1>4 DEF QueueFacts, ActiveFacts, OwnFacts
<1> QED
  BY <1>5, <1>6, <1>7 DEF QueueFacts

\* The values that a batch is resolved with reach the clients they are for.
LEMMA ResolveKeeps ==
    ASSUME QueueFacts, NEW values,
           \A i \in DOMAIN batch.futures : values[i] \in {batch.futures[i], "error"},
           Resolve(values)
    PROVE  QueueFacts'
<1> DEFINE open == {i \in DOMAIN batch.futures : status[batch.futures[i]] = "waiting"}
           Place(c) == CHOOSE i \in open : batch.futures[i] = c
           Served(c) == \E i \in open : batch.futures[i] = c
<1>1. /\ status' = [c \in Clients |-> IF Served(c) THEN "idle" ELSE status[c]]
      /\ answer' = [c \in Clients |-> IF Served(c) THEN values[Place(c)] ELSE answer[c]]
      /\ step' = "free" /\ batch' = NoBatch
      /\ requests' = requests /\ futures' = futures /\ tasks' = tasks /\ active' = active
  BY DEF Resolve, queues
<1>2. ASSUME NEW c \in Clients, Served(c)
      PROVE  values[Place(c)] \in {c, "error"}
  <2>1. Place(c) \in open /\ batch.futures[Place(c)] = c
    BY <1>2
  <2> QED
    BY <2>1
<1> HIDE DEF open, Place, Served
<1>3. NoBatch \in [route : Routes \cup {NoRoute}, requests : Seq(Clients), futures : Seq(Clients)]
      /\ Len(NoBatch.requests) <= MaxBatchSize /\ NoBatch.requests = NoBatch.futures
  BY GatewayAssumption DEF NoBatch
<1>4. OwnFacts' /\ answer' \in [Clients -> Clients \cup {"none", "error"}]
  BY <1>1, <1>2 DEF QueueFacts, QueueType, OwnFacts
<1>5. QueueType'
  BY <1>1, <1>3, <1>4 DEF QueueFacts, QueueType
<1>6. Aligned' /\ ActiveFacts'
  BY <1>1, <1>3 DEF QueueFacts, Aligned, ActiveFacts
<1> QED
  BY <1>4, <1>5, <1>6 DEF QueueFacts

-----------------------------------------------------------------------------
(* The invariant.                                                          *)

LEMMA InitGateway == Init => GatewayInv
<1> SUFFICES ASSUME Init PROVE LimiterFacts /\ QueueFacts
  BY InvParts
<1>1. LimiterType /\ ClockFacts /\ ChargeFacts
  BY GatewayAssumption DEF Init, LimiterType, ClockFacts, ChargeFacts, Charged
<1>2. WithinRate
  BY GatewayAssumption, Refills DEF Init, WithinRate
<1>3. QueueType /\ Aligned
  BY GatewayAssumption DEF Init, QueueType, Aligned, NoBatch
<1>4. ActiveFacts /\ OwnFacts
  BY DEF Init, ActiveFacts, OwnFacts
<1> QED
  BY <1>1, <1>2, <1>3, <1>4 DEF LimiterFacts, QueueFacts

LEMMA StepGateway == GatewayInv /\ [Next]_vars => GatewayInv'
<1> SUFFICES ASSUME GatewayInv, [Next]_vars PROVE LimiterFacts' /\ QueueFacts'
  BY InvParts
<1>1. TypeOK /\ LimiterFacts /\ QueueFacts
  BY InvParts DEF GatewayInv
<1>2. TenantOf \in [Clients -> Tenants]
  BY GatewayAssumption
<1>3. UNCHANGED limiter => LimiterFacts'
  BY <1>1 DEF limiter, LimiterFacts, LimiterType, ClockFacts, ChargeFacts, Charged, WithinRate
<1>4. UNCHANGED <<queues, step, batch, active, status, answer>> => QueueFacts'
  BY <1>1 DEF queues, QueueFacts, QueueType, Aligned, ActiveFacts, OwnFacts
<1>5. ASSUME NEW c \in Clients, NEW r \in Routes, Infer(c, r)
      PROVE  LimiterFacts' /\ QueueFacts'
  <2>1. TenantOf[c] \in Tenants /\ Refilled(TenantOf[c]) >= 1 /\ Consume(TenantOf[c], 1)
    BY <1>2, <1>5 DEF Infer
  <2>2. LimiterFacts'
    BY <1>1, <2>1, ConsumeKeeps
  <2> QED
    BY <1>1, <1>5, <2>2, InferKeeps
<1>6. ASSUME NEW c \in Clients, RateLimited(c)
      PROVE  LimiterFacts' /\ QueueFacts'
  <2>1. TenantOf[c] \in Tenants /\ Consume(TenantOf[c], 0)
    BY <1>2, <1>6 DEF RateLimited
  <2>2. LimiterFacts'
    BY <1>1, <2>1, ConsumeKeeps
  <2> QED
    BY <1>4, <1>6, <2>2 DEF RateLimited
<1>7. ASSUME NEW c \in Clients, Disconnect(c)
      PROVE  LimiterFacts' /\ QueueFacts'
  BY <1>1, <1>3, <1>7
  DEF Disconnect, queues, QueueFacts, QueueType, Aligned, ActiveFacts, OwnFacts
<1>8. CASE TaskFindsNothing
  <2>1. Tail(tasks) \in Seq(Routes)
    BY <1>1, <1>8 DEF TaskFindsNothing, QueueFacts, QueueType
  <2> QED
    BY <1>1, <1>3, <1>8, <2>1
    DEF TaskFindsNothing, QueueFacts, QueueType, Aligned, ActiveFacts, OwnFacts
<1>9. CASE TaskTakesBatch
  BY <1>1, <1>3, <1>9, TakeKeeps DEF TaskTakesBatch
<1>10. CASE SwapEnds
  BY <1>1, <1>3, <1>10
  DEF SwapEnds, queues, QueueFacts, QueueType, Aligned, ActiveFacts, OwnFacts
<1>11. CASE BackendAnswers
  <2>1. Resolve(batch.requests) /\ batch.requests = batch.futures
    BY <1>1, <1>11 DEF BackendAnswers, QueueFacts, Aligned
  <2>2. \A i \in DOMAIN batch.futures : batch.requests[i] \in {batch.futures[i], "error"}
    BY <2>1
  <2>3. QueueFacts'
    BY <1>1, <2>1, <2>2, ResolveKeeps
  <2> QED
    BY <1>3, <2>1, <2>3 DEF Resolve
<1>12. CASE BatchFails
  <2> DEFINE errors == [i \in DOMAIN batch.futures |-> "error"]
  <2>1. Resolve(errors)
    BY <1>12 DEF BatchFails
  <2>2. \A i \in DOMAIN batch.futures : errors[i] \in {batch.futures[i], "error"}
    OBVIOUS
  <2> HIDE DEF errors
  <2>3. QueueFacts'
    BY <1>1, <2>1, <2>2, ResolveKeeps
  <2> QED
    BY <1>3, <2>1, <2>3 DEF Resolve
<1>13. CASE Tick
  BY <1>1, <1>4, <1>13, TickKeeps DEF Tick
<1>14. CASE ObserveFromNow
  <2>1. LimiterType' /\ ClockFacts' /\ ChargeFacts'
    BY <1>1, <1>14
    DEF ObserveFromNow, LimiterFacts, LimiterType, ClockFacts, ChargeFacts, Charged
  <2>2. WithinRate'
    <3>1. admitted' = [t \in Tenants |-> 0] /\ peak' = now /\ trough' = now /\ now \in Int
      BY <1>1, <1>14, GatewayAssumption DEF ObserveFromNow, LimiterFacts, LimiterType
    <3>2. Rate * (now - now) = 0 /\ Capacity \in Nat
      BY <3>1, GatewayAssumption
    <3> QED
      BY <3>1, <3>2 DEF WithinRate
  <2> QED
    BY <1>4, <1>14, <2>1, <2>2 DEF ObserveFromNow, LimiterFacts
<1>15. CASE UNCHANGED vars
  BY <1>3, <1>4, <1>15 DEF vars, limiter, queues
<1> QED
  BY <1>5, <1>6, <1>7, <1>8, <1>9, <1>10, <1>11, <1>12, <1>13, <1>14, <1>15 DEF Next

\* The inductive invariant of the gateway: the lists of a queue, the batch,
\* the active route, the clock and the buckets agree in every state that
\* infer_endpoint and _process_route_batch can reach.
THEOREM GatewayInvariance == Spec => []GatewayInv
<1>1. Spec => Init /\ [][Next]_vars
  BY DEF Spec
<1> QED
  BY <1>1, InitGateway, StepGateway, PTL

\* A client is answered with the result of its own request, or with an error,
\* and a batch is forwarded while its own route is the active one, whatever
\* the batch size, the failures and the clients that leave
\* (_process_route_batch).
THEOREM AnswersAreOwn == Spec => []OwnAnswer
<1>1. GatewayInv => OwnAnswer
  BY DEF GatewayInv, ActiveFacts, OwnFacts, OwnAnswer
<1> QED
  BY <1>1, GatewayInvariance, PTL

\* Whatever the capacity and the rate, a tenant never gets more through in an
\* interval than a full bucket and the refill for it, also when the clock is
\* set back (consume).
THEOREM RatesAreKept == Spec => []WithinRate
<1>1. GatewayInv => WithinRate
  BY DEF GatewayInv
<1> QED
  BY <1>1, GatewayInvariance, PTL

=============================================================================
