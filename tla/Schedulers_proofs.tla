-------------------------- MODULE Schedulers_proofs --------------------------
(***************************************************************************)
(* Proofs about the schedulers, which share the facts about queues.        *)
(*                                                                         *)
(* RouteAwareScheduler (RouteScheduler), for every number of clients,      *)
(* routes and drain tasks and every max_batch_size: the keys of _queues    *)
(* are the routes with requests, a request is in one place, a batch is of  *)
(* one route, and a route's requests leave in the order of their arrival.  *)
(*                                                                         *)
(* The patch of vLLM's scheduler (VllmScheduler), for every set of         *)
(* requests and routes and every max_num_seqs: what runs together is of    *)
(* one route, shelving neither loses nor duplicates a request, and two     *)
(* requests of one route never overtake each other.                        *)
(*                                                                         *)
(* The prototypes of a vLLM integration (VllmPrototype), for every number  *)
(* of requests and blocks: no route reads the cache of another.            *)
(***************************************************************************)
EXTENDS RouteScheduler, VllmScheduler, VllmPrototype, SequenceTheorems, FiniteSetTheorems, TLAPS

\* The requests of a task's batch.
Taken(t) == Range(batch[t].requests)

\* Every request in a queue or in a batch is one that a client waits for and
\* belongs there, no two tasks have taken the same, and every request that is
\* waited for is somewhere.
PlaceFacts ==
    /\ \A t \in DrainTasks : IsInjective(batch[t].requests)
    /\ \A r \in Routes : IsInjective(queue[r])
    /\ \A r \in Routes : \A c \in Range(queue[r]) :
          status[c] = "waiting" /\ wants[c] = r /\ \A t \in DrainTasks : c \notin Taken(t)
    /\ \A t \in DrainTasks : \A c \in Taken(t) :
          status[c] = "waiting" /\ wants[c] = batch[t].route_id
    /\ \A t, u \in DrainTasks : t # u => Taken(t) \cap Taken(u) = {}
    /\ \A c \in Clients : status[c] = "waiting" =>
          c \in Range(queue[wants[c]]) \/ \E t \in DrainTasks : c \in Taken(t)

KeyFacts ==
    /\ IsInjective(order)
    /\ \A r \in Routes : r \in Range(order) <=> queue[r] # <<>>

\* Only a batch that is being executed has requests.
DrainFacts == \A t \in DrainTasks : drain[t] # "executing" => batch[t].requests = <<>>

\* The inductive invariant.
SchedulerInv == TypeOK /\ KeyFacts /\ PlaceFacts /\ DrainFacts

-----------------------------------------------------------------------------
(* Sequences without repetitions.                                          *)

LEMMA SeqShape ==
    ASSUME NEW S, NEW s \in Seq(S)
    PROVE  /\ Len(s) \in Nat
           /\ DOMAIN s = 1..Len(s)
           /\ Range(s) \subseteq S
           /\ \A i \in 1..Len(s) : s[i] \in S /\ s[i] \in Range(s)
           /\ s = <<>> <=> Len(s) = 0
           /\ s = <<>> <=> Range(s) = {}
<1>1. /\ Len(s) \in Nat
      /\ DOMAIN s = 1..Len(s)
      /\ \A i \in 1..Len(s) : s[i] \in S
      /\ s = <<>> <=> Len(s) = 0
  OBVIOUS
<1>2. Range(s) \subseteq S /\ \A i \in 1..Len(s) : s[i] \in Range(s)
  BY <1>1 DEF Range
<1>3. Len(s) = 0 => Range(s) = {}
  BY <1>1 DEF Range
<1>4. Len(s) # 0 => s[1] \in Range(s)
  BY <1>1 DEF Range
<1> QED
  BY <1>1, <1>2, <1>3, <1>4

LEMMA EmptyShape ==
    ASSUME NEW S
    PROVE  <<>> \in Seq(S) /\ Range(<<>>) = {} /\ IsInjective(<<>>) /\ Len(<<>>) = 0
  BY DEF Range, IsInjective

LEMMA AppendShape ==
    ASSUME NEW S, NEW s \in Seq(S), NEW x \in S
    PROVE  /\ Append(s, x) \in Seq(S)
           /\ Append(s, x) # <<>>
           /\ Range(Append(s, x)) = Range(s) \cup {x}
           /\ IsInjective(s) /\ x \notin Range(s) => IsInjective(Append(s, x))
<1>1. /\ Append(s, x) \in Seq(S) /\ Len(Append(s, x)) = Len(s) + 1 /\ Len(s) \in Nat
      /\ \A i \in 1..Len(s) : Append(s, x)[i] = s[i]
      /\ Append(s, x)[Len(s) + 1] = x
      /\ DOMAIN Append(s, x) = 1..(Len(s) + 1) /\ DOMAIN s = 1..Len(s)
  OBVIOUS
<1> DEFINE a == Append(s, x)
<1> HIDE DEF a
<1>2. Range(a) = Range(s) \cup {x}
  <2>1. ASSUME NEW i \in 1..Len(s) + 1  PROVE a[i] \in Range(s) \cup {x}
    BY <1>1 DEF Range, a
  <2>2. ASSUME NEW i \in 1..Len(s)  PROVE s[i] \in Range(a)
    BY <1>1 DEF Range, a
  <2>3. x \in Range(a)
    BY <1>1 DEF Range, a
  <2> QED
    BY <1>1, <2>1, <2>2, <2>3 DEF Range, a
<1>3. IsInjective(s) /\ x \notin Range(s) => IsInjective(a)
  BY <1>1 DEF Range, IsInjective, a
<1> QED
  BY <1>1, <1>2, <1>3 DEF a

\* What is cut off a queue and what is left of it.
LEMMA CutShape ==
    ASSUME NEW S, NEW s \in Seq(S), NEW n \in 0..Len(s), IsInjective(s)
    PROVE  LET taken == SubSeq(s, 1, n)
               rest == SubSeq(s, n + 1, Len(s))
           IN  /\ taken \in Seq(S) /\ rest \in Seq(S)
               /\ Len(taken) = n
               /\ IsInjective(taken) /\ IsInjective(rest)
               /\ Range(taken) \cup Range(rest) = Range(s)
               /\ Range(taken) \cap Range(rest) = {}
               /\ \A i \in 1..Len(s) : s[i] \in Range(taken) <=> i <= n
<1> DEFINE taken == SubSeq(s, 1, n)
           rest == SubSeq(s, n + 1, Len(s))
<1>0. Len(s) \in Nat /\ n \in Nat /\ n <= Len(s) /\ DOMAIN s = 1..Len(s)
      /\ \A i \in 1..Len(s) : s[i] \in S
  BY SeqShape
<1>1. /\ taken \in Seq(S) /\ Len(taken) = n
      /\ \A i \in 1..n : taken[i] = s[i]
  <2>1. \A i \in 1..n : s[i] \in S
    BY <1>0
  <2> QED
    BY <1>0, <2>1, SubSeqProperties
<1>2. /\ rest \in Seq(S) /\ Len(rest) = Len(s) - n
      /\ \A i \in 1..Len(s) - n : rest[i] = s[n + i]
  <2>1. \A i \in n + 1..Len(s) : s[i] \in S
    BY <1>0
  <2>2. n + 1 \in Int /\ Len(s) \in Int
    BY <1>0
  <2>3. /\ rest \in Seq(S) /\ Len(rest) = (IF n + 1 <= Len(s) THEN Len(s) - (n + 1) + 1 ELSE 0)
        /\ \A i \in 1..Len(s) - (n + 1) + 1 : rest[i] = s[n + 1 + i - 1]
    BY <2>1, <2>2, SubSeqProperties
  <2> HIDE DEF rest
  <2>4. Len(s) - (n + 1) + 1 = Len(s) - n
    BY <1>0
  <2>5. Len(rest) = Len(s) - n
    <3>1. CASE n + 1 <= Len(s)
      BY <2>3, <2>4, <3>1
    <3>2. CASE ~(n + 1 <= Len(s))
      <4>0. \A l, k \in Nat : k <= l /\ ~(k + 1 <= l) => k = l /\ l - k = 0
        OBVIOUS
      <4>1. n = Len(s) /\ Len(s) - n = 0
        BY <1>0, <3>2, <4>0
      <4> QED
        BY <2>3, <3>2, <4>1
    <3> QED
      BY <3>1, <3>2
  <2>6. ASSUME NEW i \in 1..Len(s) - n  PROVE rest[i] = s[n + i]
    <3>1. n + 1 + i - 1 = n + i
      BY <1>0
    <3> QED
      BY <2>3, <2>4, <3>1
  <2> QED
    BY <2>3, <2>5, <2>6
<1> HIDE DEF taken, rest
<1>3. DOMAIN taken = 1..n /\ DOMAIN rest = 1..Len(s) - n
  BY <1>0, <1>1, <1>2
<1>4. IsInjective(taken)
  BY <1>0, <1>1, <1>3 DEF IsInjective
<1>5. ASSUME NEW i \in 1..Len(s) - n  PROVE rest[i] = s[n + i] /\ n + i \in 1..Len(s)
  BY <1>0, <1>2
<1>6. IsInjective(rest)
  <2>1. ASSUME NEW i \in 1..Len(s) - n, NEW j \in 1..Len(s) - n, rest[i] = rest[j]
        PROVE  i = j
    <3>1. n + i = n + j
      BY <1>0, <1>5, <2>1 DEF IsInjective
    <3> QED
      BY <1>0, <3>1
  <2> QED
    BY <1>3, <2>1 DEF IsInjective
<1>7. \A i \in 1..Len(s) : s[i] \in Range(taken) <=> i <= n
  BY <1>0, <1>1, <1>3 DEF Range, IsInjective
<1>8. \A i \in 1..Len(s) : s[i] \in Range(rest) <=> i > n
  <2>1. ASSUME NEW i \in 1..Len(s), i > n  PROVE s[i] \in Range(rest)
    <3>1. i - n \in 1..Len(s) - n /\ n + (i - n) = i
      BY <1>0, <2>1
    <3> QED
      BY <1>2, <1>3, <3>1 DEF Range
  <2>2. ASSUME NEW i \in 1..Len(s), s[i] \in Range(rest)  PROVE i > n
    <3>1. PICK j \in 1..Len(s) - n : s[i] = rest[j]
      BY <1>3, <2>2 DEF Range
    <3>2. s[i] = s[n + j] /\ n + j \in 1..Len(s)
      BY <1>5, <3>1
    <3>3. i = n + j
      BY <1>0, <3>2 DEF IsInjective
    <3> QED
      BY <1>0, <3>3
  <2> QED
    BY <2>1, <2>2
<1>9. Range(taken) \subseteq Range(s) /\ Range(rest) \subseteq Range(s)
  <2>1. \A i \in 1..n : taken[i] = s[i] /\ i \in 1..Len(s)
    BY <1>0, <1>1
  <2> QED
    BY <1>0, <1>3, <1>5, <2>1 DEF Range
<1>10. \A x \in Range(s) : \E i \in 1..Len(s) : x = s[i]
  BY <1>0 DEF Range
<1>11. Range(taken) \cup Range(rest) = Range(s) /\ Range(taken) \cap Range(rest) = {}
  BY <1>0, <1>7, <1>8, <1>9, <1>10
<1> QED
  BY <1>1, <1>2, <1>4, <1>6, <1>7, <1>11 DEF taken, rest

LEMMA TailShape ==
    ASSUME NEW S, NEW s \in Seq(S), s # <<>>, IsInjective(s)
    PROVE  /\ Head(s) \in S /\ Head(s) \in Range(s)
           /\ Tail(s) \in Seq(S)
           /\ IsInjective(Tail(s))
           /\ Range(Tail(s)) = Range(s) \ {Head(s)}
<1>1. /\ Tail(s) \in Seq(S) /\ Len(Tail(s)) = Len(s) - 1
      /\ \A i \in 1..Len(s) - 1 : Tail(s)[i] = s[i + 1]
      /\ Head(s) = s[1] /\ Len(s) \in Nat \ {0} /\ DOMAIN s = 1..Len(s)
      /\ DOMAIN Tail(s) = 1..Len(s) - 1
  OBVIOUS
<1> DEFINE u == Tail(s)
           h == Head(s)
<1>2. Head(s) \in S /\ Head(s) \in Range(s)
  BY <1>1 DEF Range
<1> HIDE DEF u, h
<1>3. IsInjective(u)
  BY <1>1 DEF IsInjective, u
<1>4. ASSUME NEW i \in 1..Len(s), i # 1  PROVE s[i] \in Range(u)
  <2>1. i - 1 \in 1..Len(s) - 1 /\ i - 1 + 1 = i
    BY <1>1, <1>4
  <2> QED
    BY <1>1, <2>1 DEF Range, u
<1>5. ASSUME NEW i \in 1..Len(s) - 1  PROVE u[i] \in Range(s) /\ u[i] # h
  <2>1. i + 1 \in 1..Len(s) /\ i + 1 # 1 /\ 1 \in 1..Len(s)
    BY <1>1
  <2> QED
    BY <1>1, <2>1 DEF Range, u, h, IsInjective
<1>6. Range(u) = Range(s) \ {h}
  BY <1>1, <1>4, <1>5 DEF Range, u, h
<1> QED
  BY <1>1, <1>2, <1>3, <1>6 DEF u, h

-----------------------------------------------------------------------------
(* The invariant.                                                          *)

LEMMA SchedulerInit == Init => SchedulerInv
<1> SUFFICES ASSUME Init PROVE SchedulerInv
  OBVIOUS
<1>1. PICK r \in Routes : batch = [t \in DrainTasks |-> NoBatch(r)]
  BY DEF Init
<1>2. /\ <<>> \in Seq(Routes) /\ <<>> \in Seq(Clients) /\ Range(<<>>) = {}
      /\ IsInjective(<<>>) /\ Len(<<>>) = 0
  BY EmptyShape
<1>3. /\ batch \in [DrainTasks -> [route_id : Routes, requests : Seq(Clients)]]
      /\ \A t \in DrainTasks : batch[t].requests = <<>> /\ Taken(t) = {}
  BY <1>1, <1>2 DEF NoBatch, Taken
<1>4. TypeOK
  BY <1>2, <1>3, SchedulerAssumption DEF Init, TypeOK
<1>5. KeyFacts
  BY <1>2 DEF Init, KeyFacts
<1>6. PlaceFacts
  BY <1>2, <1>3 DEF Init, PlaceFacts
<1>7. DrainFacts
  BY <1>3 DEF DrainFacts
<1> QED
  BY <1>4, <1>5, <1>6, <1>7 DEF SchedulerInv

LEMMA SubmitStep ==
    ASSUME SchedulerInv, NEW c \in Clients, NEW r \in Routes, Submit(c, r)
    PROVE  SchedulerInv'
<1>0. /\ TypeOK /\ KeyFacts /\ PlaceFacts /\ DrainFacts
      /\ order \in Seq(Routes) /\ queue[r] \in Seq(Clients)
  BY DEF SchedulerInv, TypeOK
<1>1. /\ \A t \in DrainTasks : c \notin Taken(t)
      /\ \A s \in Routes : c \notin Range(queue[s])
  BY <1>0 DEF PlaceFacts, Submit
<1>2. /\ Append(queue[r], c) \in Seq(Clients) /\ Append(queue[r], c) # <<>>
      /\ Range(Append(queue[r], c)) = Range(queue[r]) \cup {c}
      /\ IsInjective(Append(queue[r], c))
  BY <1>0, <1>1, AppendShape DEF PlaceFacts
<1>3. /\ queue' = [queue EXCEPT ![r] = Append(queue[r], c)]
      /\ status' = [status EXCEPT ![c] = "waiting"]
      /\ wants' = [wants EXCEPT ![c] = r]
      /\ batch' = batch /\ drain' = drain /\ drainTask' = drainTask
      /\ \A t \in DrainTasks : Taken(t)' = Taken(t)
  BY DEF Submit, Taken
<1>4. /\ order' \in Seq(Routes) /\ IsInjective(order')
      /\ Range(order') = Range(order) \cup {r}
  BY <1>0, AppendShape DEF Submit, KeyFacts
<1>5. TypeOK'
  BY <1>0, <1>2, <1>3, <1>4 DEF TypeOK
<1>6. \A s \in Routes : queue'[s] = IF s = r THEN Append(queue[r], c) ELSE queue[s]
  BY <1>0, <1>3 DEF TypeOK
<1>7. KeyFacts'
  BY <1>0, <1>2, <1>4, <1>6 DEF KeyFacts
<1>8. \A d \in Clients : /\ status'[d] = IF d = c THEN "waiting" ELSE status[d]
                         /\ wants'[d] = IF d = c THEN r ELSE wants[d]
  BY <1>0, <1>3 DEF TypeOK
<1>9. PlaceFacts'
  <2>1. /\ \A t \in DrainTasks : IsInjective(batch'[t].requests)
        /\ \A s \in Routes : IsInjective(queue'[s])
        /\ \A t, u \in DrainTasks : t # u => Taken(t)' \cap Taken(u)' = {}
    BY <1>0, <1>2, <1>3, <1>6 DEF PlaceFacts
  <2>2. ASSUME NEW s \in Routes, NEW d \in Range(queue'[s])
        PROVE  /\ status'[d] = "waiting" /\ wants'[d] = s
               /\ \A t \in DrainTasks : d \notin Taken(t)'
    <3>1. d \in Clients
      <4>1. queue'[s] \in Seq(Clients)
        BY <1>5 DEF TypeOK
      <4> QED
        BY <4>1, <2>2, SeqShape
    <3>2. CASE d = c
      BY <1>1, <1>3, <1>6, <1>8, <2>2, <3>1, <3>2
    <3>3. CASE d # c
      BY <1>0, <1>2, <1>3, <1>6, <1>8, <2>2, <3>1, <3>3 DEF PlaceFacts
    <3> QED
      BY <3>2, <3>3
  <2>3. ASSUME NEW t \in DrainTasks, NEW d \in Taken(t)'
        PROVE  status'[d] = "waiting" /\ wants'[d] = batch'[t].route_id
    <3>1. d \in Clients /\ d # c
      <4>1. batch[t].requests \in Seq(Clients)
        BY <1>0 DEF TypeOK
      <4> QED
        BY <1>1, <1>3, <2>3, <4>1, SeqShape DEF Taken
    <3> QED
      BY <1>0, <1>3, <1>8, <2>3, <3>1 DEF PlaceFacts
  <2>4. ASSUME NEW d \in Clients, status'[d] = "waiting"
        PROVE  d \in Range(queue'[wants'[d]]) \/ \E t \in DrainTasks : d \in Taken(t)'
    <3>1. CASE d = c
      BY <1>2, <1>6, <1>8, <3>1
    <3>2. CASE d # c
      <4>1. wants[d] \in Routes /\ wants'[d] = wants[d] /\ status[d] = "waiting"
        BY <1>0, <1>8, <2>4, <3>2 DEF TypeOK
      <4> QED
        BY <1>0, <1>2, <1>3, <1>6, <4>1 DEF PlaceFacts
    <3> QED
      BY <3>1, <3>2
  <2> QED
    BY <2>1, <2>2, <2>3, <2>4 DEF PlaceFacts
<1>10. DrainFacts'
  BY <1>0, <1>3 DEF DrainFacts
<1> QED
  BY <1>5, <1>7, <1>9, <1>10 DEF SchedulerInv

\* The futures of a task's batch are resolved, or lost with it.
LEMMA ClearBatch ==
    ASSUME SchedulerInv, NEW t \in DrainTasks, NEW s \in {"idle", "abandoned"}, BatchEnds(t, s),
           NEW d \in {"stopped", "sleeping", "dead"}, drain' = [drain EXCEPT ![t] = d]
    PROVE  SchedulerInv'
<1>0. TypeOK /\ KeyFacts /\ PlaceFacts /\ DrainFacts
  BY DEF SchedulerInv
<1>1. /\ batch' \in [DrainTasks -> [route_id : Routes, requests : Seq(Clients)]]
      /\ batch'[t].requests = <<>> /\ Taken(t)' = {}
      /\ IsInjective(batch'[t].requests) /\ Len(batch'[t].requests) = 0
      /\ \A u \in DrainTasks \ {t} : batch'[u] = batch[u] /\ Taken(u)' = Taken(u)
  BY <1>0, EmptyShape DEF TypeOK, NoBatch, BatchEnds, Taken
<1>2. /\ \A c \in Clients : status'[c] = IF c \in Taken(t) THEN s ELSE status[c]
      /\ order' = order /\ queue' = queue /\ wants' = wants /\ drainTask' = drainTask
  BY DEF BatchEnds, Taken
<1>3. TypeOK'
  <2>1. status' \in [Clients -> {"idle", "waiting", "abandoned"}]
    BY <1>0 DEF TypeOK, BatchEnds
  <2>2. ASSUME NEW u \in DrainTasks  PROVE Len(batch'[u].requests) <= MaxBatchSize
    <3>1. 0 <= MaxBatchSize /\ Len(batch[u].requests) <= MaxBatchSize
      BY <1>0, SchedulerAssumption DEF TypeOK
    <3>2. batch'[u] = batch[u] \/ Len(batch'[u].requests) = 0
      BY <1>1
    <3> QED
      BY <3>1, <3>2
  <2> QED
    BY <1>0, <1>1, <1>2, <2>1, <2>2 DEF TypeOK
<1>4. KeyFacts'
  BY <1>0, <1>2 DEF KeyFacts
<1>5. PlaceFacts'
  <2>1. ASSUME NEW r \in Routes, NEW c \in Range(queue[r])
        PROVE  /\ status'[c] = "waiting" /\ wants[c] = r
               /\ \A u \in DrainTasks : c \notin Taken(u)'
    <3>1. c \in Clients
      BY <1>0, SeqShape DEF TypeOK
    <3>2. status[c] = "waiting" /\ wants[c] = r /\ \A u \in DrainTasks : c \notin Taken(u)
      BY <1>0 DEF PlaceFacts
    <3> QED
      BY <1>1, <1>2, <3>1, <3>2
  <2>2. ASSUME NEW u \in DrainTasks, NEW c \in Taken(u)'
        PROVE  status'[c] = "waiting" /\ wants[c] = batch'[u].route_id
    <3>1. u # t /\ c \in Taken(u) /\ c \notin Taken(t)
      BY <1>0, <1>1 DEF PlaceFacts
    <3>2. c \in Clients
      <4>1. batch[u].requests \in Seq(Clients)
        BY <1>0 DEF TypeOK
      <4> QED
        BY <3>1, <4>1, SeqShape DEF Taken
    <3> QED
      BY <1>0, <1>1, <1>2, <3>1, <3>2 DEF PlaceFacts
  <2>3. ASSUME NEW c \in Clients, status'[c] = "waiting"
        PROVE  c \in Range(queue[wants[c]]) \/ \E u \in DrainTasks : c \in Taken(u)'
    <3>1. c \notin Taken(t) /\ status[c] = "waiting"
      BY <1>2, <2>3
    <3> QED
      BY <1>0, <1>1, <3>1 DEF PlaceFacts
  <2>4. \A u \in DrainTasks : IsInjective(batch'[u].requests)
    BY <1>0, <1>1 DEF PlaceFacts
  <2>5. \A u, v \in DrainTasks : u # v => Taken(u)' \cap Taken(v)' = {}
    BY <1>0, <1>1 DEF PlaceFacts
  <2> QED
    BY <1>0, <1>2, <2>1, <2>2, <2>3, <2>4, <2>5 DEF PlaceFacts
<1>6. DrainFacts'
  BY <1>0, <1>1 DEF DrainFacts, TypeOK
<1> QED
  BY <1>3, <1>4, <1>5, <1>6 DEF SchedulerInv

\* What a fetch takes and what it leaves.
LEMMA FetchFacts ==
    ASSUME SchedulerInv, NEW t \in DrainTasks, order # <<>>, FetchNextSafeBatch(t)
    PROVE  LET r == Head(order)
               taken == batch'[t].requests
           IN  /\ r \in Routes
               /\ batch'[t].route_id = r
               /\ batch' \in [DrainTasks -> [route_id : Routes, requests : Seq(Clients)]]
               /\ \A u \in DrainTasks \ {t} : batch'[u] = batch[u]
               /\ Len(taken) <= MaxBatchSize
               /\ queue' \in [Routes -> Seq(Clients)]
               /\ \A s \in Routes \ {r} : queue'[s] = queue[s]
               /\ IsInjective(taken) /\ IsInjective(queue'[r])
               /\ Range(taken) \cup Range(queue'[r]) = Range(queue[r])
               /\ Range(taken) \cap Range(queue'[r]) = {}
               /\ order' = IF queue'[r] = <<>> THEN Tail(order) ELSE order
               /\ \E n \in Nat : \A i \in 1..Len(queue[r]) :
                     queue[r][i] \in Range(taken) <=> i <= n
<1> DEFINE r == Head(order)
           n == IF Len(queue[r]) < MaxBatchSize THEN Len(queue[r]) ELSE MaxBatchSize
           taken == SubSeq(queue[r], 1, n)
           rest == SubSeq(queue[r], n + 1, Len(queue[r]))
<1>0. TypeOK /\ KeyFacts /\ PlaceFacts
  BY DEF SchedulerInv
<1>1. r \in Routes /\ queue[r] \in Seq(Clients) /\ IsInjective(queue[r])
  BY <1>0, TailShape DEF TypeOK, KeyFacts, PlaceFacts
<1>2. /\ batch' = [batch EXCEPT ![t] = [route_id |-> r, requests |-> taken]]
      /\ queue' = [queue EXCEPT ![r] = rest]
      /\ order' = IF rest = <<>> THEN Tail(order) ELSE order
  BY DEF FetchNextSafeBatch
<1> HIDE DEF r
<1>3. n \in 0..Len(queue[r]) /\ n <= MaxBatchSize /\ n \in Nat
  <2>1. Len(queue[r]) \in Nat /\ MaxBatchSize \in Nat
    BY <1>1, SeqShape, SchedulerAssumption
  <2> QED
    BY <2>1
<1> HIDE DEF n
<1>4. /\ taken \in Seq(Clients) /\ rest \in Seq(Clients)
      /\ Len(taken) = n
      /\ IsInjective(taken) /\ IsInjective(rest)
      /\ Range(taken) \cup Range(rest) = Range(queue[r])
      /\ Range(taken) \cap Range(rest) = {}
      /\ \A i \in 1..Len(queue[r]) : queue[r][i] \in Range(taken) <=> i <= n
  BY <1>1, <1>3, CutShape
<1> HIDE DEF taken, rest
<1>5. queue'[r] = rest /\ \A s \in Routes \ {r} : queue'[s] = queue[s]
  BY <1>0, <1>1, <1>2 DEF TypeOK
<1>6. queue' \in [Routes -> Seq(Clients)]
  BY <1>0, <1>1, <1>2, <1>4 DEF TypeOK
<1>7. /\ batch' \in [DrainTasks -> [route_id : Routes, requests : Seq(Clients)]]
      /\ batch'[t] = [route_id |-> r, requests |-> taken]
      /\ \A u \in DrainTasks \ {t} : batch'[u] = batch[u]
  BY <1>0, <1>1, <1>2, <1>4 DEF TypeOK
<1> QED
  BY <1>1, <1>2, <1>3, <1>4, <1>5, <1>6, <1>7 DEF r

LEMMA DrainLoopFetchesStep ==
    ASSUME SchedulerInv, NEW t \in DrainTasks, DrainLoopFetches(t)
    PROVE  SchedulerInv'
<1> DEFINE r == Head(order)
           taken == batch'[t].requests
<1>0. /\ TypeOK /\ KeyFacts /\ PlaceFacts /\ DrainFacts /\ batch[t].requests = <<>>
      /\ Taken(t) = {} /\ order \in Seq(Routes) /\ IsInjective(order) /\ order # <<>>
  BY EmptyShape DEF SchedulerInv, TypeOK, KeyFacts, DrainFacts, DrainLoopFetches, Taken
<1>1. /\ r \in Routes
      /\ batch'[t].route_id = r
      /\ batch' \in [DrainTasks -> [route_id : Routes, requests : Seq(Clients)]]
      /\ \A u \in DrainTasks \ {t} : batch'[u] = batch[u]
      /\ Len(taken) <= MaxBatchSize
      /\ queue' \in [Routes -> Seq(Clients)]
      /\ \A s \in Routes \ {r} : queue'[s] = queue[s]
      /\ IsInjective(taken) /\ IsInjective(queue'[r])
      /\ Range(taken) \cup Range(queue'[r]) = Range(queue[r])
      /\ Range(taken) \cap Range(queue'[r]) = {}
      /\ order' = IF queue'[r] = <<>> THEN Tail(order) ELSE order
  BY FetchFacts DEF DrainLoopFetches
<1>2. /\ wants' = wants /\ status' = status /\ drainTask' = drainTask
      /\ drain' = [drain EXCEPT ![t] = IF ValidBatch(batch'[t]) THEN "executing" ELSE "dead"]
      /\ Taken(t)' = Range(taken) /\ \A u \in DrainTasks \ {t} : Taken(u)' = Taken(u)
  BY <1>1 DEF DrainLoopFetches, Taken
<1>3. r \in Range(order) /\ Tail(order) \in Seq(Routes) /\ IsInjective(Tail(order))
      /\ Range(Tail(order)) = Range(order) \ {r}
  BY <1>0, TailShape
<1> HIDE DEF r, taken
<1>4. TypeOK'
  <2>1. order' \in Seq(Routes)
    BY <1>0, <1>1, <1>3
  <2>2. \A u \in DrainTasks : Len(batch'[u].requests) <= MaxBatchSize
    BY <1>0, <1>1 DEF TypeOK, taken
  <2>3. drain' \in [DrainTasks -> {"stopped", "sleeping", "executing", "dead"}]
    BY <1>0, <1>2 DEF TypeOK
  <2> QED
    BY <1>0, <1>1, <1>2, <2>1, <2>2, <2>3 DEF TypeOK
<1>5. KeyFacts'
  BY <1>0, <1>1, <1>3 DEF KeyFacts
<1>6. ASSUME NEW c \in Range(taken)
      PROVE  /\ c \in Range(queue[r]) /\ status[c] = "waiting" /\ wants[c] = r
             /\ \A u \in DrainTasks : c \notin Taken(u)
  BY <1>0, <1>1 DEF PlaceFacts
<1>7. PlaceFacts'
  <2>1. /\ \A u \in DrainTasks : IsInjective(batch'[u].requests)
        /\ \A s \in Routes : IsInjective(queue'[s])
    BY <1>0, <1>1 DEF PlaceFacts, taken
  <2>2. ASSUME NEW s \in Routes, NEW c \in Range(queue'[s])
        PROVE  /\ status[c] = "waiting" /\ wants[c] = s
               /\ \A u \in DrainTasks : c \notin Taken(u)'
    <3>1. c \in Range(queue[s])
      BY <1>1
    <3>2. status[c] = "waiting" /\ wants[c] = s /\ \A u \in DrainTasks : c \notin Taken(u)
      BY <1>0, <3>1 DEF PlaceFacts
    <3>3. c \notin Range(taken)
      BY <1>1, <1>6, <3>2
    <3> QED
      BY <1>2, <3>2, <3>3
  <2>3. ASSUME NEW c \in Clients, status[c] = "waiting"
        PROVE  c \in Range(queue'[wants[c]]) \/ \E u \in DrainTasks : c \in Taken(u)'
    <3>1. wants[c] \in Routes /\ (c \in Range(queue[wants[c]]) \/ \E u \in DrainTasks : c \in Taken(u))
      BY <1>0, <2>3 DEF TypeOK, PlaceFacts
    <3>2. CASE c \in Range(queue[wants[c]])
      BY <1>1, <1>2, <3>1, <3>2
    <3>3. CASE \E u \in DrainTasks : c \in Taken(u)
      BY <1>0, <1>2, <3>3
    <3> QED
      BY <3>1, <3>2, <3>3
  <2>4. ASSUME NEW u \in DrainTasks, NEW c \in Taken(u)'
        PROVE  status[c] = "waiting" /\ wants[c] = batch'[u].route_id
    <3>1. CASE u = t
      BY <1>1, <1>2, <1>6, <2>4, <3>1
    <3>2. CASE u # t
      <4>1. c \in Taken(u) /\ batch'[u] = batch[u]
        BY <1>1, <1>2, <2>4, <3>2
      <4> QED
        BY <1>0, <4>1 DEF PlaceFacts
    <3> QED
      BY <3>1, <3>2
  <2>5. \A u, v \in DrainTasks : u # v => Taken(u)' \cap Taken(v)' = {}
    BY <1>0, <1>2, <1>6 DEF PlaceFacts
  <2> QED
    BY <1>2, <2>1, <2>2, <2>3, <2>4, <2>5 DEF PlaceFacts
<1>8. DrainFacts'
  <2>1. ValidBatch(batch'[t])
    BY <1>1, <1>6 DEF ValidBatch, taken
  <2>2. drain'[t] = "executing" /\ \A u \in DrainTasks \ {t} : drain'[u] = drain[u]
    BY <1>0, <1>2, <2>1 DEF TypeOK
  <2> QED
    BY <1>0, <1>1, <2>2 DEF DrainFacts
<1> QED
  BY <1>4, <1>5, <1>7, <1>8 DEF SchedulerInv

LEMMA SchedulerStep == SchedulerInv /\ [Next]_vars => SchedulerInv'
<1> SUFFICES ASSUME SchedulerInv, [Next]_vars PROVE SchedulerInv'
  OBVIOUS
<1>1. ASSUME NEW c \in Clients, NEW r \in Routes, Submit(c, r)  PROVE SchedulerInv'
  BY <1>1, SubmitStep
<1>2. ASSUME NEW t \in DrainTasks, DrainLoopFetches(t)  PROVE SchedulerInv'
  BY <1>2, DrainLoopFetchesStep
<1>3. ASSUME NEW t \in DrainTasks, ExecutorReturns(t)  PROVE SchedulerInv'
  BY <1>3, ClearBatch DEF ExecutorReturns
<1>4. ASSUME NEW t \in DrainTasks, ExecutorFails(t)  PROVE SchedulerInv'
  BY <1>4, ClearBatch DEF ExecutorFails
<1>5. ASSUME NEW t \in DrainTasks, StartDrainLoop(t)  PROVE SchedulerInv'
  <2>0. TypeOK /\ KeyFacts /\ PlaceFacts /\ DrainFacts
    BY DEF SchedulerInv
  <2>1. /\ order' = order /\ queue' = queue /\ batch' = batch /\ wants' = wants /\ status' = status
        /\ drain' = [drain EXCEPT ![t] = "sleeping"] /\ drainTask' = t
        /\ drain[t] # "executing"
    BY <1>5 DEF StartDrainLoop, Alive
  <2>2. TypeOK' /\ KeyFacts'
    BY <2>0, <2>1 DEF TypeOK, KeyFacts
  <2>3. PlaceFacts'
    BY <2>0, <2>1 DEF PlaceFacts, Taken
  <2>4. DrainFacts'
    BY <2>0, <2>1 DEF DrainFacts, TypeOK
  <2> QED
    BY <2>2, <2>3, <2>4 DEF SchedulerInv
<1>6. CASE StopDrainLoop
  <2>1. drainTask \in DrainTasks
    BY <1>6 DEF SchedulerInv, TypeOK, StopDrainLoop
  <2> QED
    BY <1>6, <2>1, ClearBatch DEF StopDrainLoop
<1>7. CASE UNCHANGED vars
  BY <1>7 DEF vars, SchedulerInv, TypeOK, KeyFacts, PlaceFacts, DrainFacts, Taken
<1> QED
  BY <1>1, <1>2, <1>3, <1>4, <1>5, <1>6, <1>7 DEF Next

\* The invariant holds always: keys, queues, the batch and the futures that
\* submit_request, fetch_next_safe_batch and the drain task keep agree.
THEOREM SchedulerInvariance == Spec => []SchedulerInv
  BY SchedulerInit, SchedulerStep, PTL DEF Spec

\* submit_request and fetch_next_safe_batch keep a key of _queues for exactly
\* the routes that have requests, whatever the executor does.
THEOREM QueueKeysAreExact == Spec => []QueueKeysExact
<1>1. SchedulerInv => QueueKeysExact
  BY DEF SchedulerInv, KeyFacts, QueueKeysExact
<1> QED
  BY <1>1, SchedulerInvariance, PTL

\* A request that can still be answered is once in the queue of its own route
\* or once in a batch of its route, and a request that cannot is nowhere.
THEOREM RequestsAreInOnePlace == Spec => []RequestInOnePlace
<1>1. SchedulerInv => RequestInOnePlace
  <2> SUFFICES ASSUME SchedulerInv PROVE RequestInOnePlace
    OBVIOUS
  <2>0. TypeOK /\ PlaceFacts
    BY DEF SchedulerInv
  <2>1. ASSUME NEW c \in Clients
        PROVE  LET queued == {r \in Routes : c \in Range(queue[r])}
                   taken == {t \in DrainTasks : c \in Range(batch[t].requests)}
               IN  IF status[c] = "waiting"
                     THEN \/ queued = {wants[c]} /\ taken = {}
                          \/ /\ queued = {}
                             /\ \E t \in taken : taken = {t} /\ batch[t].route_id = wants[c]
                     ELSE queued = {} /\ taken = {}
    <3> DEFINE queued == {r \in Routes : c \in Range(queue[r])}
               taken == {t \in DrainTasks : c \in Range(batch[t].requests)}
    <3>1. \A r \in queued : status[c] = "waiting" /\ wants[c] = r /\ taken = {}
      BY <2>0 DEF PlaceFacts, Taken
    <3>2. \A t \in taken : /\ status[c] = "waiting" /\ wants[c] = batch[t].route_id
                          /\ \A u \in taken : u = t
      BY <2>0 DEF PlaceFacts, Taken
    <3>3. status[c] = "waiting" => wants[c] \in queued \/ taken # {}
      BY <2>0 DEF PlaceFacts, TypeOK, Taken
    <3> HIDE DEF queued, taken
    <3>4. CASE status[c] # "waiting"
      BY <3>1, <3>2, <3>4 DEF queued, taken
    <3>5. CASE status[c] = "waiting" /\ taken # {}
      <4>1. queued = {}
        BY <3>1, <3>5
      <4>2. PICK t \in taken : TRUE
        BY <3>5
      <4>3. taken = {t} /\ batch[t].route_id = wants[c]
        BY <3>2, <4>2
      <4> QED
        BY <3>5, <4>1, <4>2, <4>3 DEF queued, taken
    <3>6. CASE status[c] = "waiting" /\ taken = {}
      <4>1. queued = {wants[c]}
        BY <3>1, <3>3, <3>6
      <4> QED
        BY <3>6, <4>1 DEF queued, taken
    <3> QED
      BY <3>4, <3>5, <3>6
  <2> QED
    BY <2>0, <2>1 DEF PlaceFacts, RequestInOnePlace
<1> QED
  BY <1>1, SchedulerInvariance, PTL

\* fetch_next_safe_batch takes a route's requests from the front: none leaves
\* the queue before one that was submitted earlier.
THEOREM RoutesAreFifo == Spec => FifoWithinRoute
<1> DEFINE Fifo(r) ==
        \A i, j \in DOMAIN queue[r] :
            i < j /\ queue[r][j] \notin Range(queue'[r]) => queue[r][i] \notin Range(queue'[r])
<1>1. ASSUME SchedulerInv, [Next]_vars, NEW r \in Routes  PROVE Fifo(r)
  <2>0. queue \in [Routes -> Seq(Clients)]
    BY <1>1 DEF SchedulerInv, TypeOK
  <2>1. DOMAIN queue[r] = 1..Len(queue[r]) /\ Len(queue[r]) \in Nat
        /\ \A i \in DOMAIN queue[r] : queue[r][i] \in Range(queue[r])
    BY <2>0, SeqShape
  <2>2. CASE queue'[r] = queue[r]
    BY <2>1, <2>2
  <2>3. ASSUME NEW c \in Clients, NEW s \in Routes, Submit(c, s)  PROVE Fifo(r)
    <3>1. Range(queue[r]) \subseteq Range(queue'[r])
      <4>1. CASE s = r
        <5>1. queue'[r] = Append(queue[r], c)
          BY <2>0, <2>3, <4>1 DEF Submit
        <5>2. queue[r] \in Seq(Clients)
          BY <2>0
        <5> QED
          BY <5>1, <5>2, AppendShape
      <4>2. CASE s # r
        BY <2>0, <2>3, <4>2 DEF Submit
      <4> QED
        BY <4>1, <4>2
    <3> QED
      BY <2>1, <3>1
  <2>4. ASSUME NEW t \in DrainTasks, DrainLoopFetches(t)  PROVE Fifo(r)
    <3>1. order # <<>> /\ FetchNextSafeBatch(t)
      BY <2>4 DEF DrainLoopFetches
    <3>2. CASE r = Head(order)
      <4>1. /\ Range(batch'[t].requests) \cup Range(queue'[r]) = Range(queue[r])
            /\ Range(batch'[t].requests) \cap Range(queue'[r]) = {}
            /\ \E n \in Nat : \A i \in 1..Len(queue[r]) :
                  queue[r][i] \in Range(batch'[t].requests) <=> i <= n
        BY <1>1, <3>1, <3>2, FetchFacts
      <4>2. PICK n \in Nat : \A i \in 1..Len(queue[r]) :
                  queue[r][i] \in Range(batch'[t].requests) <=> i <= n
        BY <4>1
      <4>3. \A i \in 1..Len(queue[r]) : queue[r][i] \in Range(queue'[r]) <=> ~(i <= n)
        BY <2>1, <4>1, <4>2
      <4> QED
        BY <2>1, <4>3
    <3>3. CASE r # Head(order)
      <4>1. queue'[r] = queue[r]
        BY <1>1, <3>1, <3>3, FetchFacts
      <4> QED
        BY <2>2, <4>1
    <3> QED
      BY <3>2, <3>3
  <2>5. ASSUME NEW t \in DrainTasks, ExecutorReturns(t) \/ ExecutorFails(t) \/ StartDrainLoop(t)
        PROVE  Fifo(r)
    BY <2>2, <2>5 DEF ExecutorReturns, ExecutorFails, StartDrainLoop, BatchEnds
  <2>6. CASE StopDrainLoop \/ UNCHANGED vars
    BY <2>2, <2>6 DEF StopDrainLoop, BatchEnds, vars
  <2> QED
    BY <1>1, <2>3, <2>4, <2>5, <2>6 DEF Next
<1>2. SchedulerInv /\ [Next]_vars => [\A r \in Routes : Fifo(r)]_vars
  BY <1>1
<1> QED
  BY <1>2, SchedulerInvariance, PTL DEF Spec, FifoWithinRoute

-----------------------------------------------------------------------------
(* Queues that are put together and filtered.                              *)

\* x comes before y in s.
Before(s, x, y) == \E i, j \in DOMAIN s : i < j /\ s[i] = x /\ s[j] = y

LEMMA ConcatShape ==
    ASSUME NEW S, NEW s \in Seq(S), NEW t \in Seq(S)
    PROVE  /\ s \o t \in Seq(S)
           /\ Len(s \o t) = Len(s) + Len(t)
           /\ Range(s \o t) = Range(s) \cup Range(t)
           /\ IsInjective(s) /\ IsInjective(t) /\ Range(s) \cap Range(t) = {}
                => IsInjective(s \o t)
           /\ \A x, y : Before(s \o t, x, y) =>
                 Before(s, x, y) \/ Before(t, x, y) \/ (x \in Range(s) /\ y \in Range(t))
<1> DEFINE c == s \o t
           m == Len(s)
           n == Len(t)
<1>1. /\ c \in Seq(S) /\ Len(c) = m + n /\ m \in Nat /\ n \in Nat
      /\ \A i \in 1..m + n : c[i] = IF i <= m THEN s[i] ELSE t[i - m]
  BY ConcatProperties
<1>2. DOMAIN c = 1..m + n /\ DOMAIN s = 1..m /\ DOMAIN t = 1..n
  BY <1>1, SeqShape
<1>3. Len(s \o t) = Len(s) + Len(t)
  BY <1>1
<1> HIDE DEF c, m, n
<1>4. \A i \in 1..m : i \in 1..m + n /\ c[i] = s[i]
  BY <1>1
<1>5. ASSUME NEW i \in 1..n  PROVE m + i \in 1..m + n /\ c[m + i] = t[i]
  <2>1. m + i \in 1..m + n /\ ~(m + i <= m) /\ m + i - m = i
    BY <1>1
  <2> QED
    BY <1>1, <2>1
<1>6. ASSUME NEW i \in 1..m + n
      PROVE  \/ i \in 1..m /\ c[i] = s[i]
             \/ i - m \in 1..n /\ c[i] = t[i - m] /\ i > m
  BY <1>1
<1>7. Range(c) = Range(s) \cup Range(t)
  BY <1>2, <1>4, <1>5, <1>6 DEF Range
<1>8. ASSUME IsInjective(s), IsInjective(t), Range(s) \cap Range(t) = {}
      PROVE  IsInjective(c)
  <2>1. ASSUME NEW i \in 1..m + n, NEW j \in 1..m + n, c[i] = c[j]  PROVE i = j
    <3>1. CASE i \in 1..m /\ j \in 1..m
      BY <1>2, <1>4, <1>8, <2>1, <3>1 DEF IsInjective
    <3>2. CASE i - m \in 1..n /\ c[i] = t[i - m] /\ j - m \in 1..n /\ c[j] = t[j - m]
      <4>1. i - m = j - m
        BY <1>2, <1>8, <2>1, <3>2 DEF IsInjective
      <4> QED
        BY <1>1, <4>1
    <3>3. CASE i \in 1..m /\ c[i] = s[i] /\ j - m \in 1..n /\ c[j] = t[j - m]
      BY <1>2, <1>8, <2>1, <3>3 DEF Range
    <3>4. CASE j \in 1..m /\ c[j] = s[j] /\ i - m \in 1..n /\ c[i] = t[i - m]
      BY <1>2, <1>8, <2>1, <3>4 DEF Range
    <3> QED
      BY <1>6, <3>1, <3>2, <3>3, <3>4
  <2> QED
    BY <1>2, <2>1 DEF IsInjective
<1>9. ASSUME NEW x, NEW y, Before(c, x, y)
      PROVE  Before(s, x, y) \/ Before(t, x, y) \/ (x \in Range(s) /\ y \in Range(t))
  <2>1. PICK i \in 1..m + n, j \in 1..m + n : i < j /\ c[i] = x /\ c[j] = y
    BY <1>2, <1>9 DEF Before
  <2>2. CASE i \in 1..m /\ j \in 1..m
    BY <1>2, <1>4, <2>1, <2>2 DEF Before
  <2>3. CASE i - m \in 1..n /\ c[i] = t[i - m] /\ j - m \in 1..n /\ c[j] = t[j - m]
    <3>1. i - m < j - m
      BY <1>1, <2>1
    <3> QED
      BY <1>2, <2>1, <2>3, <3>1 DEF Before
  <2>4. CASE i \in 1..m /\ c[i] = s[i] /\ j - m \in 1..n /\ c[j] = t[j - m]
    BY <1>2, <2>1, <2>4 DEF Range
  <2>5. ~(i > m /\ j \in 1..m)
    BY <1>1, <2>1
  <2> QED
    BY <1>6, <2>2, <2>3, <2>4, <2>5
<1> QED
  BY <1>1, <1>3, <1>7, <1>8, <1>9 DEF c

\* The members of a set of positions, counted from the smallest.
LEMMA PositionsInOrder ==
    ASSUME NEW m \in Nat, NEW P \in SUBSET (1..m)
    PROVE  LET At(n) == CHOOSE i \in P : Cardinality({j \in P : j <= i}) = n
               c == Cardinality(P)
           IN  /\ c \in Nat
               /\ \A n \in 1..c : At(n) \in P
               /\ \A i \in P : \E n \in 1..c : At(n) = i
               /\ \A n, k \in 1..c : n < k => At(n) < At(k)
<1> DEFINE Low(i) == {j \in P : j <= i}
           At(n) == CHOOSE i \in P : Cardinality(Low(i)) = n
           c == Cardinality(P)
           rank == [i \in P |-> Cardinality(Low(i))]
<1>0. \A i \in P : i \in Nat
  OBVIOUS
<1>1. IsFiniteSet(1..m)
  BY FS_Interval
<1>2. IsFiniteSet(P)
  BY <1>1, FS_Subset
<1>3. c \in Nat
  BY <1>2, FS_CardinalityType
<1>4. ASSUME NEW i \in P  PROVE Cardinality(Low(i)) \in 1..c /\ IsFiniteSet(Low(i))
  <2>1. IsFiniteSet(Low(i)) /\ Cardinality(Low(i)) <= c
    BY <1>2, FS_Subset
  <2>2. Cardinality(Low(i)) \in Nat
    BY <2>1, FS_CardinalityType
  <2>3. i \in Low(i)
    OBVIOUS
  <2>4. Cardinality(Low(i)) # 0
    BY <2>1, <2>3, FS_EmptySet
  <2> QED
    BY <1>3, <2>1, <2>2, <2>4
<1>5. ASSUME NEW i \in P, NEW k \in P, i < k
      PROVE  Cardinality(Low(i)) < Cardinality(Low(k))
  <2>1. Low(i) \in SUBSET Low(k)
    <3>1. \A a, b, d \in Nat : a <= b /\ b < d => a <= d
      OBVIOUS
    <3> QED
      BY <1>0, <1>5, <3>1
  <2>2. k \in Low(k) /\ k \notin Low(i)
    BY <1>5
  <2>3. Cardinality(Low(i)) <= Cardinality(Low(k)) /\ Cardinality(Low(i)) # Cardinality(Low(k))
    BY <1>4, <2>1, <2>2, FS_Subset
  <2>4. Cardinality(Low(i)) \in Nat /\ Cardinality(Low(k)) \in Nat
    BY <1>3, <1>4
  <2> QED
    BY <2>3, <2>4
<1> HIDE DEF Low
<1>6. ASSUME NEW i \in P, NEW k \in P, Cardinality(Low(i)) = Cardinality(Low(k))
      PROVE  i = k
  <2>1. i \in Nat /\ k \in Nat /\ ~(i < k) /\ ~(k < i)
    BY <1>3, <1>4, <1>5, <1>6
  <2> QED
    BY <2>1
<1>7. rank \in Injection(P, 1..c)
  <2>1. rank \in [P -> 1..c]
    BY <1>4
  <2>2. IsInjective(rank)
    BY <1>6 DEF IsInjective
  <2> QED
    BY <2>1, <2>2 DEF Injection
<1>8. IsFiniteSet(1..c) /\ Cardinality(1..c) = c
  <2>1. IsFiniteSet(1..c) /\ Cardinality(1..c) = IF 1 > c THEN 0 ELSE c - 1 + 1
    BY <1>3, FS_Interval
  <2> HIDE DEF c
  <2> QED
    BY <1>3, <2>1
<1>9. rank \in Surjection(P, 1..c)
  BY <1>7, <1>8, FS_Injection
<1>10. \A n \in 1..c : \E i \in P : Cardinality(Low(i)) = n
  BY <1>9 DEF Surjection
<1>11. ASSUME NEW n \in 1..c  PROVE At(n) \in P /\ Cardinality(Low(At(n))) = n
  BY <1>10
<1> HIDE DEF At
<1>12. ASSUME NEW i \in P  PROVE \E n \in 1..c : At(n) = i
  BY <1>4, <1>6, <1>11
<1>13. ASSUME NEW n \in 1..c, NEW k \in 1..c, n < k  PROVE At(n) < At(k)
  <2>1. At(n) \in P /\ At(k) \in P /\ ~(Cardinality(Low(At(k))) < Cardinality(Low(At(n))))
        /\ Cardinality(Low(At(k))) # Cardinality(Low(At(n)))
    BY <1>3, <1>11, <1>13
  <2>2. At(n) \in Nat /\ At(k) \in Nat /\ At(n) # At(k) /\ ~(At(k) < At(n))
    BY <1>0, <1>5, <2>1
  <2> QED
    BY <2>2
<1> QED
  BY <1>3, <1>11, <1>12, <1>13 DEF At, Low

LEMMA KeepShape ==
    ASSUME NEW T, NEW s \in Seq(T), NEW S
    PROVE  /\ Keep(s, S) \in Seq(T)
           /\ Len(Keep(s, S)) <= Len(s)
           /\ Range(Keep(s, S)) = Range(s) \cap S
           /\ IsInjective(s) => IsInjective(Keep(s, S))
           /\ \A x, y : Before(Keep(s, S), x, y) => Before(s, x, y)
<1> DEFINE P == {i \in DOMAIN s : s[i] \in S}
           At(n) == CHOOSE i \in P : Cardinality({j \in P : j <= i}) = n
           c == Cardinality(P)
           k == Keep(s, S)
<1>1. DOMAIN s = 1..Len(s) /\ Len(s) \in Nat /\ \A i \in DOMAIN s : s[i] \in T
  BY SeqShape
<1>2. P \in SUBSET (1..Len(s)) /\ P \in SUBSET Nat
  BY <1>1
<1>3. k = [n \in 1..c |-> s[At(n)]]
  <2>1. InOrder[P] = [n \in 1..c |-> At(n)]
    BY <1>2 DEF InOrder
  <2> QED
    BY <2>1 DEF Keep, ElementsAt
<1>4. c <= Len(s)
  <2>1. IsFiniteSet(1..Len(s)) /\ Cardinality(1..Len(s)) = IF 1 > Len(s) THEN 0 ELSE Len(s) - 1 + 1
    BY <1>1, FS_Interval
  <2>2. c <= Cardinality(1..Len(s))
    BY <1>2, <2>1, FS_Subset
  <2> HIDE DEF c
  <2>3. Cardinality(1..Len(s)) = Len(s)
    BY <1>1, <2>1
  <2> QED
    BY <2>2, <2>3
<1>5. /\ c \in Nat
      /\ \A n \in 1..c : At(n) \in P
      /\ \A i \in P : \E n \in 1..c : At(n) = i
      /\ \A n, l \in 1..c : n < l => At(n) < At(l)
  BY <1>1, <1>2, PositionsInOrder
<1> HIDE DEF At, c, k
<1>6. \A n \in 1..c : At(n) \in DOMAIN s /\ s[At(n)] \in S /\ s[At(n)] \in T
  BY <1>1, <1>5
<1>7. \A i \in DOMAIN s : s[i] \in S => \E n \in 1..c : At(n) = i
  BY <1>5
<1> HIDE DEF P
<1>8. DOMAIN k = 1..c /\ \A n \in 1..c : k[n] = s[At(n)]
  BY <1>3
<1>9. k \in Seq(T)
  BY <1>3, <1>5, <1>6, IsASeq
<1>10. Range(k) = Range(s) \cap S
  BY <1>6, <1>7, <1>8 DEF Range
<1>11. ASSUME IsInjective(s)  PROVE IsInjective(k)
  <2>1. ASSUME NEW n \in 1..c, NEW l \in 1..c, k[n] = k[l]  PROVE n = l
    <3>1. At(n) = At(l) /\ At(n) \in Nat
      BY <1>1, <1>6, <1>8, <1>11, <2>1 DEF IsInjective
    <3>2. ~(n < l) /\ ~(l < n)
      BY <1>5, <3>1
    <3> QED
      BY <1>5, <3>2
  <2> QED
    BY <1>8, <2>1 DEF IsInjective
<1>12. ASSUME NEW x, NEW y, Before(k, x, y)  PROVE Before(s, x, y)
  <2>1. PICK n \in 1..c, l \in 1..c : n < l /\ k[n] = x /\ k[l] = y
    BY <1>8, <1>12 DEF Before
  <2>2. At(n) < At(l) /\ At(n) \in DOMAIN s /\ At(l) \in DOMAIN s /\ s[At(n)] = x /\ s[At(l)] = y
    BY <1>5, <1>6, <1>8, <2>1
  <2> QED
    BY <2>2 DEF Before
<1>13. Len(k) = c
  BY <1>5, <1>8, <1>9
<1> QED
  BY <1>9, <1>10, <1>11, <1>12, <1>4, <1>13 DEF k

-----------------------------------------------------------------------------
(* The invariant of the patched scheduler.                                 *)

\* Three queues without repetitions and without a request in two of them.
Apart(w, s, r) ==
    /\ w \in Seq(Requests) /\ s \in Seq(Requests) /\ r \in Seq(Requests)
    /\ IsInjective(w) /\ IsInjective(s) /\ IsInjective(r)
    /\ Range(w) \cap Range(s) = {}
    /\ Range(w) \cap Range(r) = {}
    /\ Range(s) \cap Range(r) = {}

Held(w, s, r) == Range(w) \cup Range(s) \cup Range(r)

\* The inductive invariant: the three queues hold the accepted requests, each
\* once, what runs and what was scheduled is of one route, and no request with
\* an empty route id ever runs.
NamedRunning == \A q \in Range(running) : RouteOf[q] # EmptyId

VllmInv ==
    /\ VllmTypeOK
    /\ Apart(waiting, skipped, running)
    /\ Held(waiting, skipped, running) = requests
    /\ BatchOfOneRoute
    /\ NamedRunning

LEMMA VllmInitial == VllmInit => VllmInv
<1> SUFFICES ASSUME VllmInit PROVE VllmInv
  OBVIOUS
<1>1. <<>> \in Seq(Requests) /\ Range(<<>>) = {} /\ IsInjective(<<>>) /\ Len(<<>>) = 0
  BY EmptyShape
<1>2. /\ waiting = <<>> /\ skipped = <<>> /\ running = <<>> /\ active = Base
      /\ scheduled = {} /\ requests = {} /\ blocked = {} /\ arrived = {}
  BY DEF VllmInit
<1>3. VllmTypeOK
  BY <1>1, <1>2, VllmAssumption DEF VllmTypeOK
<1>4. Apart(waiting, skipped, running)
  BY <1>1, <1>2 DEF Apart
<1>5. Held(waiting, skipped, running) = requests /\ BatchOfOneRoute /\ NamedRunning
  BY <1>1, <1>2 DEF Held, BatchOfOneRoute, NamedRunning
<1> QED
  BY <1>3, <1>4, <1>5 DEF VllmInv

LEMMA AddRequestStep ==
    ASSUME VllmInv, NEW q \in Requests, AddRequest(q)
    PROVE  VllmInv'
<1>0. /\ VllmTypeOK /\ Apart(waiting, skipped, running) /\ BatchOfOneRoute /\ NamedRunning
      /\ Held(waiting, skipped, running) = requests
  BY DEF VllmInv
<1>1. /\ q \notin arrived /\ arrived' = arrived \cup {q} /\ requests' = requests \cup {q}
      /\ waiting' = Append(waiting, q) /\ blocked' \subseteq blocked \cup {q}
      /\ skipped' = skipped /\ running' = running /\ active' = active /\ scheduled' = scheduled
  BY DEF AddRequest
<1>2. q \notin Range(waiting) /\ q \notin Range(skipped) /\ q \notin Range(running)
  BY <1>0, <1>1 DEF VllmTypeOK, Held
<1>3. /\ waiting' \in Seq(Requests) /\ IsInjective(waiting')
      /\ Range(waiting') = Range(waiting) \cup {q}
  BY <1>0, <1>1, <1>2, AppendShape DEF Apart
<1>4. VllmTypeOK'
  BY <1>0, <1>1, <1>3 DEF VllmTypeOK
<1>5. Apart(waiting', skipped', running')
  BY <1>0, <1>1, <1>2, <1>3 DEF Apart
<1>6. Held(waiting', skipped', running') = requests'
  BY <1>0, <1>1, <1>3 DEF Held
<1>7. BatchOfOneRoute' /\ NamedRunning'
  BY <1>0, <1>1 DEF BatchOfOneRoute, NamedRunning
<1> QED
  BY <1>4, <1>5, <1>6, <1>7 DEF VllmInv

LEMMA FinishRequestStep ==
    ASSUME VllmInv, NEW q \in Requests, FinishRequest(q)
    PROVE  VllmInv'
<1>0. /\ VllmTypeOK /\ Apart(waiting, skipped, running) /\ BatchOfOneRoute /\ NamedRunning
      /\ Held(waiting, skipped, running) = requests
      /\ waiting \in Seq(Requests) /\ skipped \in Seq(Requests) /\ running \in Seq(Requests)
  BY DEF VllmInv, Apart
<1>1. /\ requests' = requests \ {q} /\ scheduled' = scheduled \ {q} /\ blocked' = blocked \ {q}
      /\ active' = active /\ arrived' = arrived
      /\ waiting' = Keep(waiting, Requests \ {q})
      /\ skipped' = Keep(skipped, Requests \ {q})
      /\ running' = Keep(running, Requests \ {q})
  BY DEF FinishRequest, Without
<1>2. /\ Range(waiting) \subseteq Requests /\ Range(skipped) \subseteq Requests
      /\ Range(running) \subseteq Requests
  BY <1>0, SeqShape
<1>3. waiting' \in Seq(Requests) /\ IsInjective(waiting') /\ Range(waiting') = Range(waiting) \ {q}
  BY <1>0, <1>1, <1>2, KeepShape DEF Apart
<1>4. skipped' \in Seq(Requests) /\ IsInjective(skipped') /\ Range(skipped') = Range(skipped) \ {q}
  BY <1>0, <1>1, <1>2, KeepShape DEF Apart
<1>5. running' \in Seq(Requests) /\ IsInjective(running') /\ Range(running') = Range(running) \ {q}
  BY <1>0, <1>1, <1>2, KeepShape DEF Apart
<1>6. Len(running') <= Len(running)
  BY <1>0, <1>1, KeepShape
<1>7. VllmTypeOK'
  <2>1. Len(running') <= MaxRunning
    <3>1. Len(running') \in Nat /\ Len(running) \in Nat /\ MaxRunning \in Nat
      BY <1>0, <1>5, SeqShape, VllmAssumption
    <3> QED
      BY <1>0, <1>6, <3>1 DEF VllmTypeOK
  <2> QED
    BY <1>0, <1>1, <1>3, <1>4, <1>5, <2>1 DEF VllmTypeOK
<1>8. Apart(waiting', skipped', running')
  BY <1>0, <1>3, <1>4, <1>5 DEF Apart
<1>9. Held(waiting', skipped', running') = requests'
  BY <1>0, <1>1, <1>3, <1>4, <1>5 DEF Held
<1>10. BatchOfOneRoute' /\ NamedRunning'
  BY <1>0, <1>1, <1>5 DEF BatchOfOneRoute, NamedRunning
<1> QED
  BY <1>7, <1>8, <1>9, <1>10 DEF VllmInv

\* All that runs is of the target route.
LEMMA RunningIsTarget ==
    ASSUME VllmInv
    PROVE  /\ TargetRoute \in RouteIds \ {EmptyId}
           /\ \A q \in Range(running) : RouteOf[q] = TargetRoute
<1>1. /\ waiting \in Seq(Requests) /\ running \in Seq(Requests)
      /\ BatchOfOneRoute /\ NamedRunning
  BY DEF VllmInv, Apart
<1>2. running # <<>> => Head(running) \in Requests /\ Head(running) \in Range(running)
  <2>1. running # <<>> => Len(running) \in Nat \ {0} /\ Head(running) = running[1]
    BY <1>1
  <2> QED
    BY <1>1, <2>1, SeqShape
<1>3. waiting # <<>> => Head(waiting) \in Requests
  BY <1>1
<1>4. running = <<>> => Range(running) = {}
  BY <1>1, SeqShape
<1> QED
  BY <1>1, <1>2, <1>3, <1>4, VllmAssumption DEF TargetRoute, OrBase, BatchOfOneRoute, NamedRunning

\* What schedule() may do to the queues it is given: every request of them and
\* of the running batch is afterwards in one queue, the batch is not too large.
Sound(res, w, s) ==
    /\ Apart(res.waiting, res.skipped, res.running)
    /\ Held(res.waiting, res.skipped, res.running) = Held(w, s, running)
    /\ Len(res.running) <= MaxRunning

LEMMA ShelveFacts ==
    ASSUME VllmInv, NEW r
    PROVE  LET w == Matching(waiting, r)
               s == Matching(skipped, r)
           IN  /\ Apart(w, s, running)
               /\ Range(w) = {q \in Range(waiting) : RouteOf[q] = r}
               /\ Range(s) = {q \in Range(skipped) : RouteOf[q] = r}
<1>1. waiting \in Seq(Requests) /\ skipped \in Seq(Requests) /\ Apart(waiting, skipped, running)
  BY DEF VllmInv, Apart
<1>2. Range(waiting) \subseteq Requests /\ Range(skipped) \subseteq Requests
  BY <1>1, SeqShape
<1> DEFINE w == Matching(waiting, r)
           s == Matching(skipped, r)
<1>3. w \in Seq(Requests) /\ IsInjective(w) /\ Range(w) = {q \in Range(waiting) : RouteOf[q] = r}
  BY <1>1, <1>2, KeepShape DEF Matching, OfRoute, Apart
<1>4. s \in Seq(Requests) /\ IsInjective(s) /\ Range(s) = {q \in Range(skipped) : RouteOf[q] = r}
  BY <1>1, <1>2, KeepShape DEF Matching, OfRoute, Apart
<1> HIDE DEF w, s
<1>5. Apart(w, s, running)
  BY <1>1, <1>3, <1>4 DEF Apart
<1> QED
  BY <1>3, <1>4, <1>5 DEF w, s

LEMMA AdmittedIsSound ==
    ASSUME VllmInv, NEW w, NEW s, Apart(w, s, running), NEW res \in Admitted(w, s)
    PROVE  Sound(res, w, s)
<1> DEFINE free == Requests \ blocked
           first == Keep(s, free)
           second == Keep(w, free)
           ready == first \o second
           room == MaxRunning - Len(running)
           taken == UpTo(room, ready)
           T == Range(taken)
<1>0. /\ w \in Seq(Requests) /\ s \in Seq(Requests) /\ running \in Seq(Requests)
      /\ Range(w) \subseteq Requests /\ Range(s) \subseteq Requests
      /\ Len(running) \in Nat /\ Len(running) <= MaxRunning /\ MaxRunning \in Nat
  BY SeqShape, VllmAssumption DEF Apart, VllmInv, VllmTypeOK
<1>1. /\ res.waiting = Keep(w, Requests \ (blocked \cup T))
      /\ res.skipped = Keep(w, blocked) \o Keep(s, Requests \ T)
      /\ res.running = running \o taken
  <2>1. PICK t \in {taken} :
           res = [waiting |-> Keep(w, Requests \ (blocked \cup Range(t))),
                  skipped |-> Keep(w, blocked) \o Keep(s, Requests \ Range(t)),
                  running |-> running \o t]
    BY DEF Admitted
  <2>2. t = taken
    OBVIOUS
  <2> HIDE DEF taken
  <2> QED
    BY <2>1, <2>2
<1>2. first \in Seq(Requests) /\ IsInjective(first) /\ Range(first) = Range(s) \ blocked
  BY <1>0, KeepShape DEF Apart
<1>3. second \in Seq(Requests) /\ IsInjective(second) /\ Range(second) = Range(w) \ blocked
  BY <1>0, KeepShape DEF Apart
<1> HIDE DEF first, second
<1>4. /\ ready \in Seq(Requests) /\ IsInjective(ready)
      /\ Range(ready) = (Range(s) \cup Range(w)) \ blocked
  <2>1. Range(first) \cap Range(second) = {}
    BY <1>2, <1>3 DEF Apart
  <2>2. /\ ready \in Seq(Requests) /\ IsInjective(ready)
        /\ Range(ready) = Range(first) \cup Range(second)
    BY <1>2, <1>3, <2>1, ConcatShape
  <2> QED
    BY <1>2, <1>3, <2>2
<1> HIDE DEF ready
<1>5. /\ taken \in Seq(Requests) /\ IsInjective(taken) /\ T \subseteq Range(ready)
      /\ Len(taken) <= room
  <2> DEFINE n == IF Len(ready) < room THEN Len(ready) ELSE room
  <2>1. Len(ready) \in Nat /\ room \in Nat
    BY <1>0, <1>4, SeqShape
  <2> HIDE DEF room
  <2>2. n \in 0..Len(ready) /\ n <= room
    BY <2>1
  <2>3. taken = SubSeq(ready, 1, n)
    BY DEF UpTo
  <2> HIDE DEF n, taken
  <2>4. taken \in Seq(Requests) /\ Len(taken) = n /\ IsInjective(taken) /\ Range(taken) \subseteq Range(ready)
    BY <1>4, <2>2, <2>3, CutShape
  <2> QED
    BY <2>2, <2>4
<1> HIDE DEF taken, T
<1>6. /\ res.waiting \in Seq(Requests) /\ IsInjective(res.waiting)
      /\ Range(res.waiting) = Range(w) \ (blocked \cup T)
  BY <1>0, <1>1, KeepShape DEF Apart
<1>7. /\ res.skipped \in Seq(Requests) /\ IsInjective(res.skipped)
      /\ Range(res.skipped) = (Range(w) \cap blocked) \cup (Range(s) \ T)
  <2> DEFINE u == Keep(w, blocked)
             v == Keep(s, Requests \ T)
  <2>1. u \in Seq(Requests) /\ IsInjective(u) /\ Range(u) = Range(w) \cap blocked
    BY <1>0, KeepShape DEF Apart
  <2>2. v \in Seq(Requests) /\ IsInjective(v) /\ Range(v) = Range(s) \ T
    BY <1>0, KeepShape DEF Apart
  <2>3. res.skipped = u \o v
    BY <1>1
  <2> HIDE DEF u, v
  <2>4. Range(u) \cap Range(v) = {}
    BY <2>1, <2>2 DEF Apart
  <2>5. u \o v \in Seq(Requests) /\ IsInjective(u \o v) /\ Range(u \o v) = Range(u) \cup Range(v)
    BY <2>1, <2>2, <2>4, ConcatShape
  <2> QED
    BY <2>1, <2>2, <2>3, <2>5
<1>8. /\ res.running \in Seq(Requests) /\ IsInjective(res.running)
      /\ Range(res.running) = Range(running) \cup T
      /\ Len(res.running) = Len(running) + Len(taken)
  <2>1. Range(running) \cap T = {}
    BY <1>4, <1>5 DEF Apart
  <2> QED
    BY <1>0, <1>1, <1>5, <2>1, ConcatShape DEF T, Apart
<1>9. Len(res.running) <= MaxRunning
  <2>1. Len(taken) \in Nat
    BY <1>5, SeqShape
  <2> QED
    BY <1>0, <1>5, <1>8, <2>1
<1>10. Apart(res.waiting, res.skipped, res.running)
  BY <1>4, <1>5, <1>6, <1>7, <1>8 DEF Apart
<1>11. Held(res.waiting, res.skipped, res.running) = Held(w, s, running)
  BY <1>4, <1>5, <1>6, <1>7, <1>8 DEF Held
<1> QED
  BY <1>9, <1>10, <1>11 DEF Sound

LEMMA PreemptedIsSound ==
    ASSUME VllmInv, NEW w, NEW s, Apart(w, s, running), NEW res \in Preempted(w, s)
    PROVE  Sound(res, w, s)
<1>0. /\ running \in Seq(Requests) /\ Len(running) \in Nat /\ MaxRunning \in Nat
      /\ Len(running) <= MaxRunning
  BY SeqShape, VllmAssumption DEF VllmInv, VllmTypeOK
<1>1. PICK n \in 0..Len(running) - 1 :
         res = [waiting |-> SubSeq(running, n + 1, Len(running)) \o w,
                skipped |-> s,
                running |-> SubSeq(running, 1, n)]
  BY DEF Preempted
<1> DEFINE stay == SubSeq(running, 1, n)
           leave == SubSeq(running, n + 1, Len(running))
<1>2. n \in 0..Len(running) /\ n <= MaxRunning
  BY <1>0
<1>3. /\ stay \in Seq(Requests) /\ leave \in Seq(Requests) /\ Len(stay) = n
      /\ IsInjective(stay) /\ IsInjective(leave)
      /\ Range(stay) \cup Range(leave) = Range(running)
      /\ Range(stay) \cap Range(leave) = {}
  BY <1>0, <1>2, CutShape DEF Apart
<1>4. res.waiting = leave \o w /\ res.skipped = s /\ res.running = stay
  BY <1>1
<1> HIDE DEF stay, leave
<1>5. /\ res.waiting \in Seq(Requests) /\ IsInjective(res.waiting)
      /\ Range(res.waiting) = Range(leave) \cup Range(w)
  BY <1>3, <1>4, ConcatShape DEF Apart
<1>6. Apart(res.waiting, res.skipped, res.running)
  BY <1>3, <1>4, <1>5 DEF Apart
<1>7. Held(res.waiting, res.skipped, res.running) = Held(w, s, running)
  BY <1>3, <1>4, <1>5 DEF Held
<1> QED
  BY <1>2, <1>3, <1>4, <1>6, <1>7 DEF Sound

\* All requests of the running batch and of the queues that schedule() is given
\* are of the target route, so the shelved ones are apart from what it returns.
LEMMA RestoredQueues ==
    ASSUME VllmInv, NEW r, r = TargetRoute, NEW res,
           Sound(res, Matching(waiting, r), Matching(skipped, r)),
           NEW w, w = RestoreQueue(res.waiting, Shelved(waiting, r)),
           NEW s, s = RestoreQueue(res.skipped, Shelved(skipped, r))
    PROVE  /\ Apart(w, s, res.running)
           /\ Held(w, s, res.running) = requests
           /\ \A q \in Held(res.waiting, res.skipped, res.running) : RouteOf[q] = r
<1> DEFINE mw == Matching(waiting, r)
           ms == Matching(skipped, r)
           sw == Shelved(waiting, r)
           ss == Shelved(skipped, r)
<1>0. /\ waiting \in Seq(Requests) /\ skipped \in Seq(Requests)
      /\ Apart(waiting, skipped, running) /\ Held(waiting, skipped, running) = requests
      /\ Range(waiting) \subseteq Requests /\ Range(skipped) \subseteq Requests
  BY SeqShape DEF VllmInv, Apart
<1>1. /\ Range(mw) = {q \in Range(waiting) : RouteOf[q] = r}
      /\ Range(ms) = {q \in Range(skipped) : RouteOf[q] = r}
  BY ShelveFacts
<1>2. sw \in Seq(Requests) /\ IsInjective(sw) /\ Range(sw) = {q \in Range(waiting) : RouteOf[q] # r}
  BY <1>0, KeepShape DEF Shelved, OfRoute, Apart
<1>3. ss \in Seq(Requests) /\ IsInjective(ss) /\ Range(ss) = {q \in Range(skipped) : RouteOf[q] # r}
  BY <1>0, KeepShape DEF Shelved, OfRoute, Apart
<1>4. /\ Apart(res.waiting, res.skipped, res.running)
      /\ Held(res.waiting, res.skipped, res.running) = Held(mw, ms, running)
  BY DEF Sound
<1>5. w = sw \o res.waiting /\ s = ss \o res.skipped
  BY DEF RestoreQueue
<1>6. \A q \in Range(running) : RouteOf[q] = r
  BY RunningIsTarget
<1> HIDE DEF mw, ms, sw, ss
<1>7. \A q \in Held(res.waiting, res.skipped, res.running) : RouteOf[q] = r
  BY <1>1, <1>4, <1>6 DEF Held
<1>8. /\ Range(sw) \cap Range(res.waiting) = {} /\ Range(ss) \cap Range(res.skipped) = {}
      /\ Range(sw) \cap Range(res.skipped) = {} /\ Range(ss) \cap Range(res.waiting) = {}
      /\ Range(sw) \cap Range(res.running) = {} /\ Range(ss) \cap Range(res.running) = {}
      /\ Range(sw) \cap Range(ss) = {}
  BY <1>0, <1>2, <1>3, <1>7 DEF Held, Apart
<1>9. w \in Seq(Requests) /\ IsInjective(w) /\ Range(w) = Range(sw) \cup Range(res.waiting)
  BY <1>2, <1>4, <1>5, <1>8, ConcatShape DEF Apart
<1>10. s \in Seq(Requests) /\ IsInjective(s) /\ Range(s) = Range(ss) \cup Range(res.skipped)
  BY <1>3, <1>4, <1>5, <1>8, ConcatShape DEF Apart
<1>11. Apart(w, s, res.running)
  BY <1>4, <1>8, <1>9, <1>10 DEF Apart
<1>12. Held(w, s, res.running) = requests
  <2>1. Held(w, s, res.running) = Range(sw) \cup Range(ss) \cup Held(mw, ms, running)
    BY <1>4, <1>9, <1>10 DEF Held
  <2> QED
    BY <1>0, <1>1, <1>2, <1>3, <2>1 DEF Held
<1> QED
  BY <1>7, <1>11, <1>12

LEMMA ScheduleReturnsStep ==
    ASSUME VllmInv, NEW r, r = TargetRoute, NEW res, ScheduleReturns(r, res),
           Sound(res, Matching(waiting, r), Matching(skipped, r))
    PROVE  VllmInv'
<1>0. VllmTypeOK
  BY DEF VllmInv
<1> DEFINE out == Range(res.running)
           routes == {RouteOf[q] : q \in out}
<1>1. /\ waiting' = RestoreQueue(res.waiting, Shelved(waiting, r))
      /\ skipped' = RestoreQueue(res.skipped, Shelved(skipped, r))
      /\ running' = res.running
      /\ requests' = requests /\ blocked' = blocked /\ arrived' = arrived
  BY DEF ScheduleReturns
<1>2. /\ Apart(waiting', skipped', running')
      /\ Held(waiting', skipped', running') = requests'
      /\ \A q \in Held(res.waiting, res.skipped, res.running) : RouteOf[q] = r
  BY <1>1, RestoredQueues
<1>3. /\ \A q \in out : RouteOf[q] = r
      /\ out \subseteq requests
  BY <1>1, <1>2 DEF Held
<1>4. scheduled' = out /\ active' = r
  <2>1. ~ \E x, y \in routes : x # y
    BY <1>3
  <2>2. scheduled' = out /\ active' = OrBase(IF out = {} THEN r ELSE CHOOSE x \in routes : TRUE)
    BY <2>1 DEF ScheduleReturns
  <2>3. out # {} => routes = {r}
    BY <1>3
  <2>4. OrBase(r) = r
    BY RunningIsTarget DEF OrBase
  <2> HIDE DEF out, routes
  <2> QED
    BY <2>2, <2>3, <2>4
<1>5. BatchOfOneRoute' /\ NamedRunning'
  BY <1>1, <1>3, <1>4, RunningIsTarget DEF BatchOfOneRoute, NamedRunning
<1>6. VllmTypeOK'
  <2>1. r \in RouteIds
    BY RunningIsTarget
  <2>2. Len(running') <= MaxRunning
    BY <1>1 DEF Sound
  <2>3. waiting' \in Seq(Requests) /\ skipped' \in Seq(Requests) /\ running' \in Seq(Requests)
    BY <1>2 DEF Apart
  <2> QED
    BY <1>0, <1>1, <1>3, <1>4, <2>1, <2>2, <2>3 DEF VllmTypeOK
<1> QED
  BY <1>2, <1>5, <1>6 DEF VllmInv

\* The finally clause puts back what schedule() left when it raised.
LEMMA ScheduleRaisesStep ==
    ASSUME VllmInv, ScheduleRaises
    PROVE  VllmInv'
<1> DEFINE r == TargetRoute
           w == Matching(waiting, r)
           s == Matching(skipped, r)
           res == [waiting |-> w, skipped |-> s, running |-> running]
<1>0. VllmTypeOK /\ BatchOfOneRoute /\ NamedRunning
  BY DEF VllmInv
<1>1. /\ waiting' = RestoreQueue(w, Shelved(waiting, r))
      /\ skipped' = RestoreQueue(s, Shelved(skipped, r))
      /\ running' = running /\ active' = active /\ scheduled' = scheduled
      /\ requests' = requests /\ blocked' = blocked /\ arrived' = arrived
  BY DEF ScheduleRaises
<1>2. Apart(w, s, running)
  BY ShelveFacts
<1>3. Len(running) <= MaxRunning
  BY <1>0 DEF VllmTypeOK
<1>4. res.waiting = w /\ res.skipped = s /\ res.running = running
  OBVIOUS
<1> HIDE DEF w, s, res, r
<1>5. Sound(res, w, s)
  BY <1>2, <1>3, <1>4 DEF Sound
<1>6. Apart(waiting', skipped', running') /\ Held(waiting', skipped', running') = requests'
  BY <1>1, <1>4, <1>5, RestoredQueues DEF w, s, r
<1>7. VllmTypeOK'
  BY <1>0, <1>1, <1>6 DEF VllmTypeOK, Apart
<1>8. BatchOfOneRoute' /\ NamedRunning'
  BY <1>0, <1>1 DEF BatchOfOneRoute, NamedRunning
<1> QED
  BY <1>6, <1>7, <1>8 DEF VllmInv

LEMMA VllmStep == VllmInv /\ [VllmNext]_vllmVars => VllmInv'
<1> SUFFICES ASSUME VllmInv, [VllmNext]_vllmVars PROVE VllmInv'
  OBVIOUS
<1>1. ASSUME NEW q \in Requests, AddRequest(q)  PROVE VllmInv'
  BY <1>1, AddRequestStep
<1>2. ASSUME NEW q \in Requests, Unblock(q)  PROVE VllmInv'
  BY <1>2 DEF Unblock, VllmInv, VllmTypeOK, Apart, Held, BatchOfOneRoute, NamedRunning
<1>3. ASSUME NEW q \in Requests, FinishRequest(q)  PROVE VllmInv'
  BY <1>3, FinishRequestStep
<1> DEFINE r == TargetRoute
           w == Matching(waiting, r)
           s == Matching(skipped, r)
<1>4. Apart(w, s, running)
  BY ShelveFacts
<1>5. CASE ScheduleAdmits
  <2>1. PICK res \in Admitted(w, s) : ScheduleReturns(r, res)
    BY <1>5 DEF ScheduleAdmits
  <2>2. Sound(res, w, s)
    BY <1>4, AdmittedIsSound
  <2> QED
    BY <2>1, <2>2, ScheduleReturnsStep
<1>6. CASE SchedulePreempts
  <2>1. PICK res \in Preempted(w, s) : ScheduleReturns(r, res)
    BY <1>6 DEF SchedulePreempts
  <2>2. Sound(res, w, s)
    BY <1>4, PreemptedIsSound
  <2> QED
    BY <2>1, <2>2, ScheduleReturnsStep
<1>7. CASE ScheduleRaises
  BY <1>7, ScheduleRaisesStep
<1>8. CASE UNCHANGED vllmVars
  BY <1>8 DEF vllmVars, VllmInv, VllmTypeOK, Apart, Held, BatchOfOneRoute, NamedRunning
<1> QED
  BY <1>1, <1>2, <1>3, <1>5, <1>6, <1>7, <1>8 DEF VllmNext

\* The invariant holds always: shelving, vLLM's schedule() and restoring keep
\* the three queues apart, complete and of one running route.
THEOREM VllmInvariance == VllmSpec => []VllmInv
  BY VllmInitial, VllmStep, PTL DEF VllmSpec

\* patched_schedule runs requests of one route together, and the active route,
\* which the worker swaps in, is the route of every scheduled request.
THEOREM BatchesAreOfOneRoute == VllmSpec => []BatchOfOneRoute
<1>1. VllmInv => BatchOfOneRoute
  BY DEF VllmInv
<1> QED
  BY <1>1, VllmInvariance, PTL

\* _shelve_queue and _restore_queue lose and duplicate nothing: every accepted
\* request is once in waiting, skipped_waiting and running together, also when
\* schedule() preempts or raises.
THEOREM RequestsAreHeldOnce == VllmSpec => []EveryRequestOnce
<1>1. ASSUME VllmInv  PROVE EveryRequestOnce
  <2>1. /\ VllmTypeOK /\ Apart(waiting, skipped, running)
        /\ Held(waiting, skipped, running) = requests
    BY <1>1 DEF VllmInv
  <2> DEFINE queued == waiting \o skipped
             all == queued \o running
  <2>2. /\ queued \in Seq(Requests) /\ IsInjective(queued)
        /\ Range(queued) = Range(waiting) \cup Range(skipped)
    BY <2>1, ConcatShape DEF Apart
  <2> HIDE DEF queued
  <2>3. Range(queued) \cap Range(running) = {}
    BY <2>1, <2>2 DEF Apart
  <2>4. IsInjective(all) /\ Range(all) = Range(queued) \cup Range(running)
    BY <2>1, <2>2, <2>3, ConcatShape DEF Apart
  <2>5. Range(all) = requests
    BY <2>1, <2>2, <2>4 DEF Held
  <2> HIDE DEF all
  <2> QED
    BY <2>1, <2>4, <2>5 DEF EveryRequestOnce, all, queued
<1> QED
  BY <1>1, VllmInvariance, PTL

-----------------------------------------------------------------------------
(* The order within a route.                                               *)

\* Two requests that wait and are of one route are not turned round from the
\* queue w to the queue v.
KeepsOrder(w, v) ==
    \A x, y \in Range(w) : RouteOf[x] = RouteOf[y] /\ Before(v, x, y) => Before(w, x, y)

LEMMA BeforeHolds ==
    ASSUME NEW s, NEW x, NEW y, Before(s, x, y)
    PROVE  x \in Range(s) /\ y \in Range(s)
  BY DEF Before, Range

\* What schedule() leaves in waiting, with the shelved requests in front.
LEMMA RestoreKeepsOrder ==
    ASSUME VllmInv, NEW r, NEW v \in Seq(Requests),
           \A q \in Range(v) : RouteOf[q] = r,
           \A x, y \in Range(waiting) : Before(v, x, y) => Before(waiting, x, y)
    PROVE  KeepsOrder(waiting, RestoreQueue(v, Shelved(waiting, r)))
<1> DEFINE shelved == Shelved(waiting, r)
<1>1. waiting \in Seq(Requests)
  BY DEF VllmInv, Apart
<1>2. /\ shelved \in Seq(Requests)
      /\ \A x, y : Before(shelved, x, y) => Before(waiting, x, y)
      /\ Range(shelved) = Range(waiting) \cap (Requests \ OfRoute(r))
  BY <1>1, KeepShape DEF Shelved
<1>3. \A q \in Range(shelved) : RouteOf[q] # r
  BY <1>2 DEF OfRoute
<1>4. RestoreQueue(v, shelved) = shelved \o v
  BY DEF RestoreQueue
<1> HIDE DEF shelved
<1>5. ASSUME NEW x \in Range(waiting), NEW y \in Range(waiting), RouteOf[x] = RouteOf[y],
             Before(shelved \o v, x, y)
      PROVE  Before(waiting, x, y)
  <2>1. Before(shelved, x, y) \/ Before(v, x, y) \/ (x \in Range(shelved) /\ y \in Range(v))
    BY <1>2, <1>5, ConcatShape
  <2> QED
    BY <1>2, <1>3, <1>5, <2>1
<1> QED
  BY <1>4, <1>5 DEF KeepsOrder, shelved

LEMMA OrderStep ==
    ASSUME VllmInv, [VllmNext]_vllmVars
    PROVE  KeepsOrder(waiting, waiting')
<1>0. /\ waiting \in Seq(Requests) /\ running \in Seq(Requests) /\ Apart(waiting, skipped, running)
      /\ Held(waiting, skipped, running) = requests /\ VllmTypeOK
  BY DEF VllmInv, Apart
<1> DEFINE r == TargetRoute
           w == Matching(waiting, r)
           s == Matching(skipped, r)
<1>1. /\ Apart(w, s, running) /\ w \in Seq(Requests)
      /\ Range(w) = {q \in Range(waiting) : RouteOf[q] = r}
  BY ShelveFacts DEF Apart
<1>2. \A x, y : Before(w, x, y) => Before(waiting, x, y)
  BY <1>0, KeepShape DEF Matching
<1>3. ASSUME NEW q \in Requests, AddRequest(q)  PROVE KeepsOrder(waiting, waiting')
  <2>1. waiting' = waiting \o <<q>> /\ q \notin Range(waiting)
    BY <1>0, <1>3 DEF AddRequest, Held, VllmTypeOK
  <2>2. <<q>> \in Seq(Requests) /\ Range(<<q>>) = {q}
    BY DEF Range
  <2>3. ASSUME NEW x, NEW y, Before(waiting', x, y), y \in Range(waiting)
        PROVE  Before(waiting, x, y)
    <3>1. Before(waiting, x, y) \/ y \in Range(<<q>>)
      BY <1>0, <2>1, <2>2, <2>3, ConcatShape, BeforeHolds
    <3> QED
      BY <2>1, <2>2, <2>3, <3>1
  <2> QED
    BY <2>3 DEF KeepsOrder
<1>4. ASSUME NEW q \in Requests, FinishRequest(q)  PROVE KeepsOrder(waiting, waiting')
  BY <1>0, <1>4, KeepShape DEF FinishRequest, Without, KeepsOrder
<1>5. CASE ScheduleAdmits
  <2>1. PICK res \in Admitted(w, s) : ScheduleReturns(r, res)
    BY <1>5 DEF ScheduleAdmits
  <2> DEFINE ready == Keep(s, Requests \ blocked) \o Keep(w, Requests \ blocked)
  <2>2. PICK taken \in {UpTo(MaxRunning - Len(running), ready)} :
           res = [waiting |-> Keep(w, Requests \ (blocked \cup Range(taken))),
                  skipped |-> Keep(w, blocked) \o Keep(s, Requests \ Range(taken)),
                  running |-> running \o taken]
    BY DEF Admitted
  <2> DEFINE left == Requests \ (blocked \cup Range(taken))
  <2>3. res.waiting = Keep(w, left)
    BY <2>2
  <2> HIDE DEF left, ready
  <2>4. /\ res.waiting \in Seq(Requests) /\ Range(res.waiting) \subseteq Range(w)
        /\ \A x, y : Before(res.waiting, x, y) => Before(w, x, y)
    BY <1>1, <2>3, KeepShape
  <2>5. waiting' = RestoreQueue(res.waiting, Shelved(waiting, r))
    BY <2>1 DEF ScheduleReturns
  <2> HIDE DEF r, w, s
  <2> QED
    BY <1>1, <1>2, <2>4, <2>5, RestoreKeepsOrder
<1>6. CASE SchedulePreempts
  <2>1. PICK res \in Preempted(w, s) : ScheduleReturns(r, res)
    BY <1>6 DEF SchedulePreempts
  <2>2. PICK n \in 0..Len(running) - 1 :
           res = [waiting |-> SubSeq(running, n + 1, Len(running)) \o w,
                  skipped |-> s,
                  running |-> SubSeq(running, 1, n)]
    BY DEF Preempted
  <2> DEFINE leave == SubSeq(running, n + 1, Len(running))
  <2>3. leave \in Seq(Requests) /\ Range(leave) \subseteq Range(running)
    <3>1. n \in 0..Len(running)
      BY <1>0, SeqShape
    <3> QED
      BY <1>0, <3>1, CutShape DEF Apart
  <2>4. waiting' = RestoreQueue(res.waiting, Shelved(waiting, r))
    BY <2>1 DEF ScheduleReturns
  <2>5. \A q \in Range(running) : RouteOf[q] = r
    BY RunningIsTarget
  <2>6. res.waiting = leave \o w
    BY <2>2
  <2> HIDE DEF r, w, s, leave
  <2>7. res.waiting \in Seq(Requests) /\ Range(res.waiting) = Range(leave) \cup Range(w)
    BY <1>1, <2>3, <2>6, ConcatShape
  <2>8. ASSUME NEW x \in Range(waiting), NEW y \in Range(waiting), Before(res.waiting, x, y)
        PROVE  Before(waiting, x, y)
    <3>1. Before(leave, x, y) \/ Before(w, x, y) \/ (x \in Range(leave) /\ y \in Range(w))
      BY <1>1, <2>3, <2>6, <2>8, ConcatShape
    <3>2. x \notin Range(leave)
      BY <1>0, <2>3 DEF Apart
    <3> QED
      BY <1>2, <3>1, <3>2, BeforeHolds
  <2>9. \A q \in Range(res.waiting) : RouteOf[q] = r
    BY <1>1, <2>3, <2>5, <2>7
  <2> QED
    BY <2>4, <2>7, <2>8, <2>9, RestoreKeepsOrder
<1>7. CASE ScheduleRaises
  <2>1. waiting' = RestoreQueue(w, Shelved(waiting, r))
    BY <1>7 DEF ScheduleRaises
  <2> HIDE DEF r, w, s
  <2> QED
    BY <1>1, <1>2, <2>1, RestoreKeepsOrder
<1>8. CASE (\E q \in Requests : Unblock(q)) \/ UNCHANGED vllmVars
  BY <1>8 DEF Unblock, vllmVars, KeepsOrder
<1> QED
  BY <1>3, <1>4, <1>5, <1>6, <1>7, <1>8 DEF VllmNext

\* Shelving and restoring keep the order of a route: no step turns two waiting
\* requests of one route round.
THEOREM RoutesKeepTheirOrder == VllmSpec => OrderWithinRoute
<1> DEFINE Ordered ==
        \A i, j \in DOMAIN waiting :
            i < j /\ RouteOf[waiting[i]] = RouteOf[waiting[j]]
              => ~ \E k, m \in DOMAIN waiting' :
                      k < m /\ waiting'[k] = waiting[j] /\ waiting'[m] = waiting[i]
<1>1. ASSUME VllmInv, [VllmNext]_vllmVars  PROVE Ordered
  <2>1. waiting \in Seq(Requests) /\ IsInjective(waiting)
    BY <1>1 DEF VllmInv, Apart
  <2>2. DOMAIN waiting \subseteq Nat /\ \A i \in DOMAIN waiting : waiting[i] \in Range(waiting)
    BY <2>1, SeqShape
  <2>3. KeepsOrder(waiting, waiting')
    BY <1>1, OrderStep
  <2>4. ASSUME NEW i \in DOMAIN waiting, NEW j \in DOMAIN waiting, i < j,
               RouteOf[waiting[i]] = RouteOf[waiting[j]],
               Before(waiting', waiting[j], waiting[i])
        PROVE  FALSE
    <3>1. Before(waiting, waiting[j], waiting[i])
      BY <2>2, <2>3, <2>4 DEF KeepsOrder
    <3>2. PICK k, m \in DOMAIN waiting : k < m /\ waiting[k] = waiting[j] /\ waiting[m] = waiting[i]
      BY <3>1 DEF Before
    <3>3. k = j /\ m = i
      BY <2>1, <3>2 DEF IsInjective
    <3> QED
      BY <2>2, <2>4, <3>2, <3>3
  <2> QED
    BY <2>4 DEF Before
<1>2. VllmInv /\ [VllmNext]_vllmVars => [Ordered]_vllmVars
  BY <1>1
<1> QED
  BY <1>2, VllmInvariance, PTL DEF VllmSpec, OrderWithinRoute

-----------------------------------------------------------------------------
(* The prototypes of a vLLM integration.                                   *)

\* The mock's queues hold a request once, and a batch is of one route.
MockQueues ==
    /\ pending \in Seq(MockRequests) /\ IsInjective(pending)
    /\ mockBatch \in Seq(MockRequests) /\ IsInjective(mockBatch)
    /\ \A i \in DOMAIN mockBatch : MockRoute[mockBatch[i]] = MockRoute[mockBatch[1]]

\* Block numbers are handed out in turn, each to one request, with its route.
MockBlocks ==
    /\ tag \in Seq(Range(tag)) /\ Len(tag) <= NumBlocks
    /\ kv \in [MockRequests -> Seq(1..Len(tag))]
    /\ \A q \in MockRequests : VerifyAccess(q)
    /\ \A p, q \in MockRequests : p # q => ToSet(kv[p]) \cap ToSet(kv[q]) = {}
    /\ dropped # {} => Len(tag) = NumBlocks

\* A tagged block was given to its own route only, since it was last evicted.
BridgeTags ==
    \A b \in 1..NumBlocks : content[b] = IF b \in DOMAIN cacheTag THEN {cacheTag[b]} ELSE {}

ProtoInv == MockQueues /\ MockBlocks /\ BridgeTags

LEMMA ProtoInitial == ProtoInit => ProtoInv
<1> SUFFICES ASSUME ProtoInit PROVE ProtoInv
  OBVIOUS
<1>1. /\ pending = <<>> /\ mockBatch = <<>> /\ tag = <<>> /\ dropped = {} /\ cacheTag = <<>>
      /\ kv = [q \in MockRequests |-> <<>>] /\ content = [b \in 1..NumBlocks |-> {}]
  BY DEF ProtoInit, MockInit, BridgeInit
<1>2. MockQueues
  BY <1>1, EmptyShape DEF MockQueues
<1>3. /\ tag \in Seq(Range(tag)) /\ Len(tag) = 0 /\ 0 <= NumBlocks
      /\ kv \in [MockRequests -> Seq(1..Len(tag))]
  BY <1>1, PrototypeAssumption
<1>4. \A q \in MockRequests : DOMAIN kv[q] = {} /\ ToSet(kv[q]) = {}
  BY <1>1 DEF ToSet
<1>5. MockBlocks
  BY <1>1, <1>3, <1>4 DEF MockBlocks, VerifyAccess
<1> QED
  BY <1>1, <1>2, <1>5 DEF ProtoInv, BridgeTags

LEMMA ScheduleNextBatchStep ==
    ASSUME MockQueues, ScheduleNextBatch
    PROVE  MockQueues'
<1> DEFINE mine == OfMockRoute(MockRoute[Head(pending)])
           group == Keep(pending, mine)
           n == IF Len(group) < MockBatchSize THEN Len(group) ELSE MockBatchSize
           chosen == SubSeq(group, 1, n)
           rest == Keep(pending, MockRequests \ Range(chosen))
<1>1. mockBatch' = chosen /\ pending' = rest /\ pending \in Seq(MockRequests) /\ IsInjective(pending)
  BY DEF ScheduleNextBatch, MockQueues, UpTo
<1>2. group \in Seq(MockRequests) /\ IsInjective(group) /\ Range(group) = Range(pending) \cap mine
  BY <1>1, KeepShape
<1>3. rest \in Seq(MockRequests) /\ IsInjective(rest)
  BY <1>1, KeepShape
<1>4. \A q \in mine : MockRoute[q] = MockRoute[Head(pending)]
  BY DEF OfMockRoute
<1> HIDE DEF group, mine, rest
<1>5. n \in 0..Len(group)
  BY <1>2, PrototypeAssumption
<1> HIDE DEF n
<1>6. /\ chosen \in Seq(MockRequests) /\ IsInjective(chosen)
      /\ Range(chosen) \subseteq Range(group)
  BY <1>2, <1>5, CutShape
<1> HIDE DEF chosen
<1>7. \A i \in DOMAIN chosen : MockRoute[chosen[i]] = MockRoute[Head(pending)]
  BY <1>2, <1>4, <1>6 DEF Range
<1>8. DOMAIN chosen = 1..Len(chosen) /\ Len(chosen) \in Nat
  BY <1>6
<1>9. \A i \in DOMAIN chosen : 1 \in DOMAIN chosen
  BY <1>8
<1> QED
  BY <1>1, <1>3, <1>6, <1>7, <1>9 DEF MockQueues

\* A batch is served as far as there are blocks: nothing else refuses it.
LEMMA ServedFacts ==
    ASSUME MockQueues, MockBlocks
    PROVE  /\ Served \in 0..Len(mockBatch)
           /\ Len(tag) + Served <= NumBlocks
           /\ Served < Len(mockBatch) => Len(tag) + Served = NumBlocks
<1> DEFINE refused == {i \in DOMAIN mockBatch : ~VerifyAccess(mockBatch[i]) \/ Len(tag) + i > NumBlocks}
           over == NumBlocks - Len(tag) + 1
<1>1. /\ Len(mockBatch) \in Nat /\ DOMAIN mockBatch = 1..Len(mockBatch)
      /\ \A i \in DOMAIN mockBatch : mockBatch[i] \in MockRequests
  BY DEF MockQueues
<1>2. Len(tag) \in Nat /\ Len(tag) <= NumBlocks /\ NumBlocks \in Nat
  BY PrototypeAssumption DEF MockBlocks
<1>3. refused = {i \in 1..Len(mockBatch) : Len(tag) + i > NumBlocks}
  BY <1>1 DEF MockBlocks
<1>4. Served = IF refused = {} THEN Len(mockBatch) ELSE Min(refused) - 1
  BY DEF Served, MockQueues
<1> HIDE DEF refused
<1>5. CASE refused = {}
  <2>1. ~(Len(tag) + Len(mockBatch) > NumBlocks)
    BY <1>1, <1>2, <1>3, <1>5
  <2> QED
    BY <1>1, <1>2, <1>4, <1>5, <2>1
<1>6. CASE refused # {}
  <2>1. over \in refused /\ \A i \in refused : over <= i
    BY <1>1, <1>2, <1>3, <1>6
  <2>2. \A i \in refused : i \in Int
    BY <1>3
  <2>3. Min(refused) = over
    BY <2>1, <2>2 DEF Min
  <2> QED
    BY <1>1, <1>2, <1>3, <1>4, <1>6, <2>1, <2>3
<1> QED
  BY <1>5, <1>6

\* A sequence is one over its own elements, and over any larger set.
LEMMA OwnElements ==
    ASSUME NEW S, NEW s \in Seq(S)
    PROVE  s \in Seq(Range(s))
<1>1. /\ Len(s) \in Nat /\ DOMAIN s = 1..Len(s)
      /\ s = [i \in 1..Len(s) |-> s[i]]
      /\ \A i \in 1..Len(s) : s[i] \in Range(s)
  BY SeqShape
<1> QED
  BY <1>1, IsASeq

LEMMA SeqWidens ==
    ASSUME NEW S, NEW T, S \subseteq T, NEW s \in Seq(S)
    PROVE  s \in Seq(T)
  OBVIOUS

LEMMA ExecuteForwardPassStep ==
    ASSUME MockQueues, MockBlocks, ExecuteForwardPass
    PROVE  MockQueues' /\ MockBlocks'
<1> DEFINE n == Served
           t == Len(tag)
           new == [i \in 1..n |-> MockRoute[mockBatch[1]]]
<1>1. /\ mockBatch' = <<>> /\ pending' = pending
      /\ tag' = tag \o new
      /\ kv' = [q \in MockRequests |->
                   IF \E i \in 1..n : mockBatch[i] = q
                   THEN Append(kv[q], t + (CHOOSE i \in 1..n : mockBatch[i] = q)) ELSE kv[q]]
      /\ dropped' = dropped \cup {mockBatch[i] : i \in n + 1..Len(mockBatch)}
  BY DEF ExecuteForwardPass
<1>2. /\ n \in 0..Len(mockBatch) /\ t + n <= NumBlocks
      /\ n < Len(mockBatch) => t + n = NumBlocks
  BY ServedFacts
<1>3. /\ Len(mockBatch) \in Nat /\ DOMAIN mockBatch = 1..Len(mockBatch) /\ t \in Nat
      /\ NumBlocks \in Nat /\ tag \in Seq(Range(tag)) /\ DOMAIN tag = 1..t
  BY PrototypeAssumption DEF MockQueues, MockBlocks
<1>4. MockQueues'
  BY <1>1, EmptyShape DEF MockQueues
<1> HIDE DEF n
<1>5. n \in Nat /\ n <= Len(mockBatch) /\ 1..n \subseteq DOMAIN mockBatch
  BY <1>2, <1>3
<1>6. \A i \in 1..n : MockRoute[mockBatch[i]] = MockRoute[mockBatch[1]]
  BY <1>5 DEF MockQueues
<1>7. \A i, j \in 1..n : mockBatch[i] = mockBatch[j] => i = j
  BY <1>5 DEF MockQueues, IsInjective
<1> DEFINE route == MockRoute[mockBatch[1]]
<1> HIDE DEF route
<1>8. new \in Seq({route}) /\ Len(new) = n
  <2>1. new \in [1..n -> {route}]
    BY DEF route
  <2> HIDE DEF new
  <2> QED
    BY <1>5, <2>1
<1>9. /\ tag' \in Seq(Range(tag')) /\ Len(tag') = t + n
      /\ \A i \in 1..t : tag'[i] = tag[i]
      /\ \A i \in 1..n : tag'[t + i] = route
  <2>1. tag \in Seq(Range(tag) \cup {route}) /\ new \in Seq(Range(tag) \cup {route})
    BY <1>3, <1>8
  <2>2. \A i \in 1..n : new[i] = route
    BY DEF route
  <2> HIDE DEF new
  <2>3. /\ tag' \in Seq(Range(tag) \cup {route}) /\ Len(tag') = t + n
        /\ DOMAIN tag' = 1..t + n
        /\ \A i \in 1..t : tag'[i] = tag[i]
        /\ \A i \in 1..n : tag'[t + i] = new[i]
    <3>1. /\ tag \o new \in Seq(Range(tag) \cup {route})
          /\ Len(tag \o new) = t + n
          /\ \A i \in 1..t + n : (tag \o new)[i] = IF i <= t THEN tag[i] ELSE new[i - t]
      BY <1>8, <2>1, ConcatProperties
    <3> HIDE DEF t
    <3>2. ASSUME NEW i \in 1..n  PROVE t + i \in 1..t + n /\ ~(t + i <= t) /\ (t + i) - t = i
      BY <1>3, <1>5
    <3>3. ASSUME NEW i \in 1..t  PROVE i \in 1..t + n /\ i <= t
      BY <1>3, <1>5
    <3>4. /\ \A i \in 1..t : tag'[i] = tag[i]
          /\ \A i \in 1..n : tag'[t + i] = new[i]
      BY <1>1, <3>1, <3>2, <3>3
    <3>5. DOMAIN tag' = 1..Len(tag')
      BY <1>1, <3>1, SeqShape
    <3> QED
      BY <1>1, <3>1, <3>4, <3>5
  <2>4. tag' \in Seq(Range(tag'))
    BY <2>3, OwnElements
  <2> QED
    BY <2>2, <2>3, <2>4
<1>10. ASSUME NEW q \in MockRequests
       PROVE  \/ kv'[q] = kv[q]
              \/ \E i \in 1..n : mockBatch[i] = q /\ kv'[q] = Append(kv[q], t + i)
  <2>1. CASE \E i \in 1..n : mockBatch[i] = q
    <3> DEFINE i == CHOOSE i \in 1..n : mockBatch[i] = q
    <3>1. i \in 1..n /\ mockBatch[i] = q
      BY <2>1
    <3>2. kv'[q] = Append(kv[q], t + i)
      BY <1>1, <2>1
    <3> QED
      BY <3>1, <3>2
  <2>2. CASE ~\E i \in 1..n : mockBatch[i] = q
    BY <1>1, <2>2
  <2> QED
    BY <2>1, <2>2
<1>11. DOMAIN kv' = MockRequests
  BY <1>1
<1> HIDE DEF t, new
<1>12. ASSUME NEW q \in MockRequests
       PROVE  /\ kv'[q] \in Seq(1..t + n)
              /\ VerifyAccess(q)'
              /\ \A b \in ToSet(kv'[q]) :
                    b \in ToSet(kv[q]) \/ \E i \in 1..n : b = t + i /\ mockBatch[i] = q
  <2>0. /\ kv[q] \in Seq(1..t) /\ kv[q] \in Seq(1..t + n)
        /\ \A i \in DOMAIN kv[q] : kv[q][i] \in 1..t /\ tag[kv[q][i]] = MockRoute[q]
    <3>1. kv[q] \in Seq(1..t) /\ VerifyAccess(q)
      BY DEF MockBlocks, t
    <3>2. 1..t \subseteq 1..t + n
      BY <1>3, <1>5
    <3>3. \A i \in DOMAIN kv[q] : kv[q][i] \in 1..t /\ tag[kv[q][i]] = MockRoute[q]
      <4>1. DOMAIN kv[q] = 1..Len(kv[q]) /\ \A i \in 1..Len(kv[q]) : kv[q][i] \in 1..t
        BY <3>1, SeqShape
      <4>2. \A i \in DOMAIN kv[q] : tag[kv[q][i]] = MockRoute[q]
        BY <3>1 DEF VerifyAccess
      <4> QED
        BY <4>1, <4>2
    <3>4. kv[q] \in Seq(1..t + n)
      BY <3>1, <3>2, SeqWidens
    <3> QED
      BY <3>1, <3>3, <3>4
  <2>1. CASE kv'[q] = kv[q]
    BY <1>9, <2>0, <2>1 DEF VerifyAccess
  <2>2. CASE \E i \in 1..n : mockBatch[i] = q /\ kv'[q] = Append(kv[q], t + i)
    <3>1. PICK i \in 1..n : mockBatch[i] = q /\ kv'[q] = Append(kv[q], t + i)
      BY <2>2
    <3>2. t + i \in 1..t + n /\ tag'[t + i] = MockRoute[q]
      <4>1. t + i \in 1..t + n
        BY <1>3, <1>5
      <4>2. tag'[t + i] = route /\ MockRoute[mockBatch[i]] = route
        BY <1>6, <1>9 DEF route
      <4> QED
        BY <3>1, <4>1, <4>2
    <3> DEFINE s == kv[q]
               m == Len(s)
               a == Append(s, t + i)
    <3>3. /\ m \in Nat /\ DOMAIN s = 1..m
          /\ a \in Seq(1..t + n) /\ DOMAIN a = 1..m + 1
          /\ \A k \in 1..m : a[k] = s[k]
          /\ a[m + 1] = t + i
      BY <2>0, <3>2
    <3> HIDE DEF s, a, m
    <3>4. \A k \in DOMAIN a : k \in DOMAIN s \/ k = m + 1
      BY <3>3
    <3>5. kv'[q] = a /\ kv[q] = s
      BY <3>1 DEF a, s
    <3>6. \A k \in DOMAIN a : tag'[a[k]] = MockRoute[q]
      BY <1>9, <2>0, <3>2, <3>3, <3>4, <3>5
    <3>7. VerifyAccess(q)'
      BY <3>5, <3>6 DEF VerifyAccess
    <3>8. ASSUME NEW b \in ToSet(a)  PROVE b \in ToSet(s) \/ b = t + i
      BY <3>3, <3>4, <3>8 DEF ToSet
    <3> QED
      BY <3>1, <3>3, <3>5, <3>7, <3>8
  <2> QED
    BY <1>10, <2>1, <2>2
<1>13. kv' \in [MockRequests -> Seq(1..t + n)]
  <2>1. kv' = [q \in MockRequests |-> kv'[q]]
    BY <1>1
  <2> QED
    BY <1>12, <2>1
<1>14. ASSUME NEW p \in MockRequests, NEW q \in MockRequests, p # q
       PROVE  ToSet(kv'[p]) \cap ToSet(kv'[q]) = {}
  <2>1. ToSet(kv[p]) \cap ToSet(kv[q]) = {}
    BY <1>14 DEF MockBlocks
  <2>2. \A r \in MockRequests : \A b \in ToSet(kv[r]) : b \in Nat /\ b <= t
    <3>1. \A r \in MockRequests : kv[r] \in Seq(1..t)
      BY DEF MockBlocks, t
    <3>2. ASSUME NEW r \in MockRequests  PROVE \A i \in DOMAIN kv[r] : kv[r][i] \in 1..t
      <4>1. kv[r] \in Seq(1..t)
        BY <3>1
      <4>2. DOMAIN kv[r] = 1..Len(kv[r]) /\ \A i \in 1..Len(kv[r]) : kv[r][i] \in 1..t
        BY <4>1, SeqShape
      <4> QED
        BY <4>2
    <3>3. \A b \in 1..t : b \in Nat /\ b <= t
      BY <1>3
    <3> QED
      BY <3>2, <3>3 DEF ToSet
  <2> SUFFICES ASSUME NEW b \in ToSet(kv'[p]), b \in ToSet(kv'[q])  PROVE FALSE
    OBVIOUS
  <2>3. b \in ToSet(kv[p]) \/ \E i \in 1..n : b = t + i /\ mockBatch[i] = p
    BY <1>12
  <2>4. b \in ToSet(kv[q]) \/ \E i \in 1..n : b = t + i /\ mockBatch[i] = q
    BY <1>12
  <2>5. ASSUME NEW r \in MockRequests, b \in ToSet(kv[r]), NEW i \in 1..n, b = t + i  PROVE FALSE
    <3>1. b \in Nat /\ b <= t
      BY <2>2, <2>5
    <3> QED
      BY <1>3, <1>5, <2>5, <3>1
  <2>6. \A i, j \in 1..n : t + i = t + j => i = j
    BY <1>3, <1>5
  <2> QED
    BY <1>14, <2>6, <2>1, <2>3, <2>4, <2>5
<1>15. dropped' # {} => t + n = NumBlocks
  <2>1. CASE dropped # {}
    <3>1. t = NumBlocks
      BY <2>1 DEF MockBlocks, t
    <3> QED
      BY <1>2, <1>3, <1>5, <3>1
  <2>2. CASE dropped = {}
    BY <1>1, <1>2, <1>3, <1>5, <2>2
  <2> QED
    BY <2>1, <2>2
<1> QED
  BY <1>2, <1>4, <1>9, <1>12, <1>13, <1>14, <1>15 DEF MockBlocks

LEMMA BridgeStep ==
    ASSUME BridgeTags, BridgeNext
    PROVE  BridgeTags'
<1>1. ASSUME NEW route, NEW blocks, ValidateKvCacheAllocation(route, blocks)  PROVE BridgeTags'
  <2>1. CASE route = NoRoute
    BY <1>1, <2>1 DEF ValidateKvCacheAllocation, BridgeTags
  <2>2. CASE route # NoRoute
    <3>1. /\ \A b \in blocks : b \in DOMAIN cacheTag => cacheTag[b] = route
          /\ cacheTag' = [b \in DOMAIN cacheTag \cup blocks |->
                             IF b \in blocks THEN route ELSE cacheTag[b]]
          /\ content' = [b \in 1..NumBlocks |->
                            IF b \in blocks THEN content[b] \cup {route} ELSE content[b]]
      BY <1>1, <2>2 DEF ValidateKvCacheAllocation, Tagged, Contaminated
    <3> QED
      BY <3>1 DEF BridgeTags
  <2> QED
    BY <2>1, <2>2
<1>2. ASSUME NEW current, NEW target, InterceptModelRunner(current, target)  PROVE BridgeTags'
  <2> DEFINE evicted == {b \in DOMAIN cacheTag : cacheTag[b] = current}
  <2>1. /\ cacheTag' = [b \in DOMAIN cacheTag \ evicted |-> cacheTag[b]]
        /\ content' = [b \in 1..NumBlocks |-> IF b \in evicted THEN {} ELSE content[b]]
    BY <1>2 DEF InterceptModelRunner
  <2>2. evicted \subseteq DOMAIN cacheTag
    OBVIOUS
  <2> HIDE DEF evicted
  <2> QED
    BY <2>1, <2>2 DEF BridgeTags
<1> QED
  BY <1>1, <1>2 DEF BridgeNext, BridgeBatch

LEMMA ProtoStep == ProtoInv /\ [ProtoNext]_protoVars => ProtoInv'
<1> SUFFICES ASSUME ProtoInv, [ProtoNext]_protoVars PROVE ProtoInv'
  OBVIOUS
<1>0. MockQueues /\ MockBlocks /\ BridgeTags
  BY DEF ProtoInv
<1>1. ASSUME UNCHANGED bridgeVars  PROVE BridgeTags'
  BY <1>0, <1>1 DEF bridgeVars, BridgeTags
<1>2. ASSUME UNCHANGED mockVars  PROVE MockQueues' /\ MockBlocks'
  BY <1>0, <1>2 DEF mockVars, MockQueues, MockBlocks, VerifyAccess
<1>3. ASSUME UNCHANGED <<kv, tag>>, dropped' \subseteq dropped  PROVE MockBlocks'
  BY <1>0, <1>3 DEF MockBlocks, VerifyAccess
<1>4. ASSUME NEW q \in MockRequests, AddMockRequest(q)  PROVE ProtoInv'
  <2>1. /\ q \notin ToSet(pending) /\ pending' = Append(pending, q)
        /\ dropped' = dropped \ {q} /\ UNCHANGED <<mockBatch, kv, tag, bridgeVars>>
    BY <1>4 DEF AddMockRequest
  <2>2. pending' \in Seq(MockRequests) /\ IsInjective(pending')
    BY <1>0, <2>1, AppendShape DEF MockQueues, ToSet, Range
  <2>3. MockQueues'
    BY <1>0, <2>1, <2>2 DEF MockQueues
  <2> QED
    BY <1>1, <1>3, <2>1, <2>3 DEF ProtoInv
<1>5. CASE ScheduleNextBatch
  <2>1. UNCHANGED <<kv, tag, dropped, bridgeVars>>
    BY <1>5 DEF ScheduleNextBatch
  <2> QED
    BY <1>0, <1>1, <1>3, <1>5, <2>1, ScheduleNextBatchStep DEF ProtoInv
<1>6. CASE ExecuteForwardPass
  <2>1. UNCHANGED bridgeVars
    BY <1>6 DEF ExecuteForwardPass
  <2> QED
    BY <1>0, <1>1, <1>6, <2>1, ExecuteForwardPassStep DEF ProtoInv
<1>7. CASE BridgeNext
  <2>1. UNCHANGED mockVars
    BY <1>7 DEF BridgeNext, BridgeBatch, ValidateKvCacheAllocation, Tagged, InterceptModelRunner
  <2> QED
    BY <1>0, <1>2, <1>7, <2>1, BridgeStep DEF ProtoInv
<1>8. CASE UNCHANGED protoVars
  BY <1>1, <1>2, <1>8 DEF protoVars, ProtoInv
<1> QED
  BY <1>4, <1>5, <1>6, <1>7, <1>8 DEF ProtoNext, MockNext

\* Queues, blocks and tags of the mock and of the bridge agree in every state.
THEOREM ProtoInvariance == ProtoSpec => []ProtoInv
  BY ProtoInitial, ProtoStep, PTL DEF ProtoSpec

\* In the mock no request holds a block of another route or of another request,
\* and the bridge's check keeps a block from passing between two routes without
\* an eviction, for every number of requests, blocks and submissions and every
\* size of a batch (verify_access, validate_kv_cache_allocation).
THEOREM PrototypesAreIsolated == ProtoSpec => []PrototypesIsolateRoutes
<1>1. ProtoInv => PrototypesIsolateRoutes
  BY DEF ProtoInv, MockBlocks, BridgeTags, PrototypesIsolateRoutes
<1> QED
  BY <1>1, ProtoInvariance, PTL

=============================================================================
