------------------------- MODULE VramHotSwap_proofs -------------------------
(***************************************************************************)
(* Proofs about the experimental hot-swap API (VramHotSwap), for every     *)
(* number of threads, calls and task vectors: in-place updates are never   *)
(* lost, and a call that overlaps with no other one has the effect its     *)
(* name promises, on every element of the tensor.                          *)
(***************************************************************************)
EXTENDS VramHotSwap, TLAPS

Label == {"idle", "lock", "add", "save", "compute", "swap", "find", "restore", "delete"}

SwapType ==
    /\ live \in Tensor
    /\ buffer \in Tensor \cup {NoBuffer}
    /\ aliased \in BOOLEAN
    /\ lock \in Threads \cup {NoThread}
    /\ at \in [Threads -> Label]
    /\ vector \in [Threads -> Int]
    /\ seen \in [Threads -> Tensor]
    /\ left \in [Threads -> SUBSET Elements]
    /\ sum \in Int
    /\ shadowed \in BOOLEAN
    /\ solo \in [Threads -> BOOLEAN]
    /\ before \in [Threads -> [live : Tensor, buffer : Tensor \cup {NoBuffer}]]

\* self.lock is held exactly while the elements are added to.
LockFacts == \A t \in Threads : at[t] = "add" <=> lock = t

\* The tensor shares its storage with the buffer only between the assignment and
\* the deletion of a rollback.
AliasFacts ==
    aliased => buffer = live /\ \E t \in Threads : at[t] = "delete"

\* Thread t is between two elements of the addition to the tensor `base`.
Adding(t, base) ==
    /\ seen[t] = base
    /\ \A e \in Elements : live[e] = IF e \in left[t] THEN base[e] ELSE base[e] + vector[t]

\* Without shadow injections and rollbacks nobody writes but the holder of
\* the lock.
InPlaceFacts ==
    ~shadowed =>
        /\ \A t \in Threads : at[t] \in {"idle", "lock", "add"}
        /\ lock = NoThread => live = Plus(Zero, sum)
        /\ \A t \in Threads : at[t] = "add" => Adding(t, Plus(Zero, sum))

\* What the call of thread t knows when no other call has overlapped with it.
SoloFacts(t) ==
    at[t] # "idle" /\ solo[t] =>
        /\ \A u \in Threads \ {t} : at[u] = "idle"
        /\ at[t] \notin {"add", "delete"} => live = before[t].live
        /\ at[t] \in {"lock", "save", "find", "restore"} => buffer = before[t].buffer
        /\ at[t] = "add" => Adding(t, before[t].live)
        /\ at[t] \in {"compute", "swap"} => buffer = before[t].live
        /\ at[t] = "swap" => seen[t] = Plus(before[t].live, vector[t])
        /\ at[t] = "restore" => buffer # NoBuffer
        /\ at[t] = "delete" => live = before[t].buffer

\* The inductive invariant.
SwapInv ==
    /\ SwapType
    /\ LockFacts
    /\ AliasFacts
    /\ InPlaceFacts
    /\ \A t \in Threads : SoloFacts(t)

-----------------------------------------------------------------------------
LEMMA PlusType == \A tensor \in Tensor, v \in Int : Plus(tensor, v) \in Tensor
  BY DEF Plus, Tensor

LEMMA ZeroType == Zero \in Tensor /\ Plus(Zero, 0) = Zero
  BY DEF Zero, Plus, Tensor

LEMMA SwapInit == HotInit => SwapInv
<1> SUFFICES ASSUME HotInit PROVE SwapInv
  OBVIOUS
<1>1. SwapType
  <2>1. /\ live \in Tensor /\ buffer \in Tensor \cup {NoBuffer}
        /\ lock \in Threads \cup {NoThread} /\ sum \in Int
    BY ZeroType DEF HotInit
  <2>2. /\ at \in [Threads -> Label] /\ vector \in [Threads -> Int]
        /\ seen \in [Threads -> Tensor] /\ left \in [Threads -> SUBSET Elements]
    BY ZeroType DEF HotInit, Label
  <2>3. solo \in [Threads -> BOOLEAN] /\ aliased \in BOOLEAN /\ shadowed \in BOOLEAN
    BY DEF HotInit
  <2>4. before \in [Threads -> [live : Tensor, buffer : Tensor \cup {NoBuffer}]]
    BY ZeroType DEF HotInit
  <2> QED
    BY <2>1, <2>2, <2>3, <2>4 DEF SwapType
<1>2. LockFacts
  BY HotSwapAssumption DEF HotInit, LockFacts
<1>3. AliasFacts
  BY DEF HotInit, AliasFacts
<1>4. InPlaceFacts
  BY ZeroType DEF HotInit, InPlaceFacts
<1>5. \A t \in Threads : SoloFacts(t)
  BY DEF HotInit, SoloFacts
<1> QED
  BY <1>1, <1>2, <1>3, <1>4, <1>5 DEF SwapInv

\* A call begins: the calls it overlaps with are no longer alone.
LEMMA CallStep ==
    ASSUME SwapInv, NEW t \in Threads, NEW v \in Int,
           NEW label \in {"lock", "save", "find"}, Call(t, v, label)
    PROVE  SwapInv'
<1>1. SwapType'
  BY DEF SwapInv, SwapType, Call, Goto, Label
<1>2. LockFacts'
  BY DEF SwapInv, SwapType, LockFacts, Call, Goto
<1>3. AliasFacts'
  BY DEF SwapInv, SwapType, AliasFacts, Call, Goto
<1>4. InPlaceFacts'
  BY DEF SwapInv, SwapType, InPlaceFacts, Adding, Call, Goto
<1>5. ASSUME NEW u \in Threads  PROVE SoloFacts(u)'
  <2>1. CASE u = t
    <3>1. /\ at'[t] = label /\ live' = live /\ buffer' = buffer
          /\ before'[t] = [live |-> live, buffer |-> buffer]
      BY DEF SwapInv, SwapType, Call, Goto
    <3>2. solo'[t] => \A w \in Threads \ {t} : at'[w] = "idle"
      BY DEF SwapInv, SwapType, Call, Goto, Others
    <3> QED
      BY <2>1, <3>1, <3>2 DEF SoloFacts
  <2>2. CASE u # t
    <3>1. at'[u] # "idle" => ~solo'[u]
      BY <2>2 DEF SwapInv, SwapType, Call, Goto
    <3> QED
      BY <3>1 DEF SoloFacts
  <2> QED
    BY <2>1, <2>2
<1> QED
  BY <1>1, <1>2, <1>3, <1>4, <1>5 DEF SwapInv

LEMMA AddBeginStep ==
    ASSUME SwapInv, NEW t \in Threads, AddBegin(t)
    PROVE  SwapInv'
<1>1. SwapType'
  BY DEF SwapInv, SwapType, AddBegin, AddRead, Goto, Label, history
<1>2. LockFacts'
  BY HotSwapAssumption DEF SwapInv, SwapType, LockFacts, AddBegin, AddRead, Goto, history
<1>3. AliasFacts'
  BY DEF SwapInv, SwapType, AliasFacts, AddBegin, AddRead, Goto, history
<1>4. InPlaceFacts'
  <2>1. \A u \in Threads : at'[u] = "add" => u = t
    BY HotSwapAssumption DEF SwapInv, SwapType, LockFacts, AddBegin, AddRead, Goto
  <2>2. ~shadowed => Adding(t, Plus(Zero, sum))'
    BY DEF SwapInv, SwapType, InPlaceFacts, Adding, AddBegin, AddRead, history, Tensor
  <2> QED
    BY <2>1, <2>2, HotSwapAssumption
       DEF SwapInv, SwapType, InPlaceFacts, AddBegin, AddRead, Goto, history
<1>5. ASSUME NEW u \in Threads  PROVE SoloFacts(u)'
  <2>1. CASE u = t
    <3>1. at[t] = "lock" /\ at'[t] = "add" /\ \A w \in Threads \ {t} : at'[w] = at[w]
      BY DEF SwapInv, SwapType, AddBegin, AddRead, Goto
    <3>2. solo[t] => live = before[t].live /\ \A w \in Threads \ {t} : at[w] = "idle"
      BY <3>1 DEF SwapInv, SoloFacts
    <3>3. solo[t] => Adding(t, before[t].live)'
      BY <3>2 DEF SwapInv, SwapType, Adding, AddBegin, AddRead, history, Tensor
    <3> QED
      BY <2>1, <3>1, <3>2, <3>3 DEF SoloFacts, AddBegin, AddRead, history
  <2>2. CASE u # t
    BY <2>2 DEF SwapInv, SwapType, SoloFacts, Adding, AddBegin, AddRead, Goto, history
  <2> QED
    BY <2>1, <2>2
<1> QED
  BY <1>1, <1>2, <1>3, <1>4, <1>5 DEF SwapInv

\* One more element of an in-place addition.
LEMMA AddWriteStep ==
    ASSUME SwapInv, NEW t \in Threads, NEW e \in Elements, AddWrite(t, e)
    PROVE  SwapInv'
<1>0. /\ at[t] = "add" /\ lock = t /\ e \in left[t]
      /\ left'[t] = left[t] \ {e}
      /\ \A u \in Threads \ {t} : left'[u] = left[u] /\ at'[u] = at[u] /\ at[u] # "add"
      /\ UNCHANGED <<aliased, vector, seen, calls, shadowed, solo, before>>
  BY HotSwapAssumption DEF SwapInv, SwapType, LockFacts, AddWrite, Goto
<1>1. /\ live' \in Tensor /\ buffer' \in Tensor \cup {NoBuffer} /\ sum' \in Int
      /\ \A f \in Elements :
            live'[f] = IF f = e THEN seen[t][e] + vector[t] ELSE live[f]
  BY DEF SwapInv, SwapType, AddWrite, Tensor
<1>2. SwapType'
  BY <1>0, <1>1 DEF SwapInv, SwapType, AddWrite, Goto, Label
<1>3. LockFacts'
  BY <1>0, HotSwapAssumption DEF SwapInv, SwapType, LockFacts, AddWrite, Goto
<1>4. AliasFacts'
  BY <1>0 DEF SwapInv, SwapType, AliasFacts, AddWrite, Goto
<1>5. ASSUME NEW base \in Tensor, Adding(t, base)
      PROVE  /\ left[t] # {e} => Adding(t, base)'
             /\ left[t] = {e} => live' = Plus(base, vector[t])
  <2>1. /\ seen[t] = base
        /\ \A f \in Elements : live'[f] = IF f \in left'[t] THEN base[f] ELSE base[f] + vector[t]
    BY <1>0, <1>1, <1>5 DEF Adding
  <2>2. left[t] # {e} => Adding(t, base)'
    BY <1>0, <2>1 DEF Adding
  <2>3. left[t] = {e} => live' = Plus(base, vector[t])
    BY <1>0, <1>1, <2>1 DEF Plus, Tensor
  <2> QED
    BY <2>2, <2>3
<1>6. InPlaceFacts'
  <2> SUFFICES ASSUME ~shadowed' PROVE InPlaceFacts'
    BY DEF InPlaceFacts
  <2>1. /\ ~shadowed /\ \A u \in Threads : at[u] \in {"idle", "lock", "add"}
        /\ Adding(t, Plus(Zero, sum))
    BY <1>0 DEF SwapInv, InPlaceFacts
  <2>2. Plus(Zero, sum) \in Tensor
    BY PlusType, ZeroType DEF SwapInv, SwapType
  <2>3. CASE left[t] = {e}
    <3>1. /\ lock' = NoThread /\ at'[t] = "idle" /\ sum' = sum + vector[t]
      BY <2>3 DEF SwapInv, SwapType, AddWrite, Goto
    <3>2. live' = Plus(Plus(Zero, sum), vector[t])
      BY <1>5, <2>1, <2>2, <2>3
    <3>3. Plus(Plus(Zero, sum), vector[t]) = Plus(Zero, sum + vector[t])
      BY DEF Plus, Zero, SwapInv, SwapType
    <3> QED
      BY <1>0, <2>1, <3>1, <3>2, <3>3 DEF InPlaceFacts
  <2>4. CASE left[t] # {e}
    <3>1. UNCHANGED <<lock, at, sum>>
      BY <2>4 DEF AddWrite
    <3>2. Adding(t, Plus(Zero, sum))'
      BY <1>0, <1>5, <2>1, <2>2, <2>4, <3>1 DEF Adding
    <3>3. lock' # NoThread
      BY <1>0, <3>1, HotSwapAssumption
    <3> QED
      BY <1>0, <2>1, <3>1, <3>2, <3>3 DEF InPlaceFacts
  <2> QED
    BY <2>3, <2>4
<1>7. ASSUME NEW u \in Threads  PROVE SoloFacts(u)'
  <2>1. CASE u # t
    <3>1. SoloFacts(u) /\ at'[u] = at[u] /\ solo'[u] = solo[u] /\ at[t] = "add"
      BY <1>0, <2>1 DEF SwapInv
    <3> QED
      BY <2>1, <3>1 DEF SoloFacts
  <2>2. CASE u = t /\ left[t] = {e}
    <3>1. at'[t] = "idle"
      BY <2>2 DEF SwapInv, SwapType, AddWrite, Goto
    <3> QED
      BY <2>2, <3>1 DEF SoloFacts
  <2>3. CASE u = t /\ left[t] # {e}
    <3>1. UNCHANGED at
      BY <2>3 DEF AddWrite
    <3>2. before[t].live \in Tensor
      BY DEF SwapInv, SwapType
    <3>3. solo[t] => Adding(t, before[t].live) /\ \A w \in Threads \ {t} : at[w] = "idle"
      BY <1>0 DEF SwapInv, SoloFacts
    <3>4. solo[t] => Adding(t, before[t].live)'
      BY <1>0, <1>5, <2>3, <3>2, <3>3 DEF Adding
    <3> QED
      BY <1>0, <2>3, <3>1, <3>3, <3>4 DEF SoloFacts
  <2> QED
    BY <2>1, <2>2, <2>3
<1> QED
  BY <1>2, <1>3, <1>4, <1>6, <1>7 DEF SwapInv

LEMMA SaveBufferStep ==
    ASSUME SwapInv, NEW t \in Threads, SaveBuffer(t)
    PROVE  SwapInv'
<1>1. SwapType'
  BY DEF SwapInv, SwapType, SaveBuffer, Goto, Label, history
<1>2. LockFacts'
  BY HotSwapAssumption DEF SwapInv, SwapType, LockFacts, SaveBuffer, Goto, history
<1>3. AliasFacts'
  BY HotSwapAssumption DEF SwapInv, SwapType, AliasFacts, SaveBuffer, Goto, history
<1>4. InPlaceFacts'
  BY DEF SwapInv, SwapType, LockFacts, InPlaceFacts, Adding, SaveBuffer, Goto, history
<1>5. \A u \in Threads : SoloFacts(u)'
  BY DEF SwapInv, SwapType, LockFacts, SoloFacts, Adding, SaveBuffer, Goto, history
<1> QED
  BY <1>1, <1>2, <1>3, <1>4, <1>5 DEF SwapInv

LEMMA ComputeShadowStep ==
    ASSUME SwapInv, NEW t \in Threads, ComputeShadow(t)
    PROVE  SwapInv'
<1>1. SwapType'
  <2>1. Plus(live, vector[t]) \in Tensor
    BY PlusType DEF SwapInv, SwapType
  <2> QED
    BY <2>1 DEF SwapInv, SwapType, ComputeShadow, Goto, Label, history
<1>2. LockFacts'
  BY HotSwapAssumption DEF SwapInv, SwapType, LockFacts, ComputeShadow, Goto, history
<1>3. AliasFacts'
  BY HotSwapAssumption DEF SwapInv, SwapType, AliasFacts, ComputeShadow, Goto, history
<1>4. InPlaceFacts'
  BY DEF SwapInv, SwapType, LockFacts, InPlaceFacts, Adding, ComputeShadow, Goto, history
<1>5. \A u \in Threads : SoloFacts(u)'
  BY DEF SwapInv, SwapType, LockFacts, SoloFacts, Adding, ComputeShadow, Goto, history
<1> QED
  BY <1>1, <1>2, <1>3, <1>4, <1>5 DEF SwapInv

LEMMA SwapPointerStep ==
    ASSUME SwapInv, NEW t \in Threads, SwapPointer(t)
    PROVE  SwapInv'
<1>1. SwapType'
  BY DEF SwapInv, SwapType, SwapPointer, Goto, Label, history
<1>2. LockFacts'
  BY HotSwapAssumption DEF SwapInv, SwapType, LockFacts, SwapPointer, Goto, history
<1>3. AliasFacts'
  BY HotSwapAssumption DEF SwapInv, SwapType, AliasFacts, SwapPointer, Goto, history
<1>4. InPlaceFacts'
  BY DEF SwapInv, SwapType, LockFacts, InPlaceFacts, Adding, SwapPointer, Goto, history
<1>5. \A u \in Threads : SoloFacts(u)'
  BY DEF SwapInv, SwapType, LockFacts, SoloFacts, Adding, SwapPointer, Goto, history
<1> QED
  BY <1>1, <1>2, <1>3, <1>4, <1>5 DEF SwapInv

LEMMA FindBufferStep ==
    ASSUME SwapInv, NEW t \in Threads, FindBuffer(t)
    PROVE  SwapInv'
<1>1. SwapType'
  BY DEF SwapInv, SwapType, FindBuffer, Goto, Label, history
<1>2. LockFacts'
  BY HotSwapAssumption DEF SwapInv, SwapType, LockFacts, FindBuffer, Goto, history
<1>3. AliasFacts'
  BY HotSwapAssumption DEF SwapInv, SwapType, AliasFacts, FindBuffer, Goto, history
<1>4. InPlaceFacts'
  BY DEF SwapInv, SwapType, LockFacts, InPlaceFacts, Adding, FindBuffer, Goto, history
<1>5. \A u \in Threads : SoloFacts(u)'
  BY DEF SwapInv, SwapType, LockFacts, SoloFacts, Adding, FindBuffer, Goto, history
<1> QED
  BY <1>1, <1>2, <1>3, <1>4, <1>5 DEF SwapInv

LEMMA RestoreBufferStep ==
    ASSUME SwapInv, NEW t \in Threads, RestoreBuffer(t)
    PROVE  SwapInv'
<1>1. SwapType'
  BY DEF SwapInv, SwapType, RestoreBuffer, Goto, Label, history
<1>2. LockFacts'
  BY HotSwapAssumption DEF SwapInv, SwapType, LockFacts, RestoreBuffer, Goto, history
<1>3. AliasFacts'
  BY HotSwapAssumption DEF SwapInv, SwapType, AliasFacts, RestoreBuffer, Goto, history
<1>4. InPlaceFacts'
  BY DEF SwapInv, SwapType, LockFacts, InPlaceFacts, Adding, RestoreBuffer, Goto, history
<1>5. \A u \in Threads : SoloFacts(u)'
  BY DEF SwapInv, SwapType, LockFacts, SoloFacts, Adding, RestoreBuffer, Goto, history
<1> QED
  BY <1>1, <1>2, <1>3, <1>4, <1>5 DEF SwapInv

LEMMA DeleteBufferStep ==
    ASSUME SwapInv, NEW t \in Threads, DeleteBuffer(t)
    PROVE  SwapInv'
<1>1. SwapType'
  BY DEF SwapInv, SwapType, DeleteBuffer, Goto, Label, history
<1>2. LockFacts'
  BY HotSwapAssumption DEF SwapInv, SwapType, LockFacts, DeleteBuffer, Goto, history
<1>3. AliasFacts'
  BY HotSwapAssumption DEF SwapInv, SwapType, AliasFacts, DeleteBuffer, Goto, history
<1>4. InPlaceFacts'
  BY DEF SwapInv, SwapType, LockFacts, InPlaceFacts, Adding, DeleteBuffer, Goto, history
<1>5. \A u \in Threads : SoloFacts(u)'
  BY DEF SwapInv, SwapType, LockFacts, SoloFacts, Adding, DeleteBuffer, Goto, history
<1> QED
  BY <1>1, <1>2, <1>3, <1>4, <1>5 DEF SwapInv

LEMMA SwapStep == SwapInv /\ [HotNext]_hotVars => SwapInv'
<1> SUFFICES ASSUME SwapInv, [HotNext]_hotVars PROVE SwapInv'
  OBVIOUS
<1>1. ASSUME NEW t \in Threads, NEW v \in TaskVectors,
             InjectConcept(t, v) \/ RemoveConcept(t, v) \/ InjectConceptShadow(t, v)
      PROVE  SwapInv'
  <2>1. v \in Int /\ -v \in Int
    BY HotSwapAssumption
  <2> QED
    BY <1>1, <2>1, CallStep DEF InjectConcept, RemoveConcept, InjectConceptShadow
<1>2. ASSUME NEW t \in Threads, TransactionalRollback(t)  PROVE SwapInv'
  BY <1>2, CallStep DEF TransactionalRollback
<1>3. ASSUME NEW t \in Threads, ThreadStep(t)  PROVE SwapInv'
  BY <1>3, AddBeginStep, AddWriteStep, SaveBufferStep, ComputeShadowStep, SwapPointerStep,
     FindBufferStep, RestoreBufferStep, DeleteBufferStep DEF ThreadStep
<1>4. CASE UNCHANGED hotVars
  BY <1>4 DEF hotVars, SwapInv, SwapType, LockFacts, AliasFacts, InPlaceFacts, SoloFacts, Adding
<1> QED
  BY <1>1, <1>2, <1>3, <1>4 DEF HotNext

\* The invariant holds always: the lock is held exactly inside add_ and sub_,
\* a half-done addition has changed exactly the elements it has passed, and the
\* tensor shares its storage with the buffer only inside a rollback.
THEOREM SwapInvariance == HotSpec => []SwapInv
  BY SwapInit, SwapStep, PTL DEF HotSpec

\* As long as only inject_concept and remove_concept are called, no update of
\* the tensor is lost, whatever the number of threads.
THEOREM InPlaceUpdatesAreKept == HotSpec => []InPlaceUpdatesAddUp
<1>1. SwapInv => InPlaceUpdatesAddUp
  BY DEF SwapInv, SwapType, Label, InPlaceFacts, HotTypeOK, InPlaceUpdatesAddUp
<1> QED
  BY <1>1, SwapInvariance, PTL

\* A call that no other call overlaps with does what its name says; the
\* read before the lock of inject_concept_shadow and the delete after the lock
\* of transactional_rollback matter only to calls that overlap.
THEOREM SoloCallsAreExact == HotSpec => SoloCallsExact
<1> DEFINE Exact(t) ==
        CASE at[t] = "add" -> live' = Plus(before[t].live, vector[t])
          [] at[t] = "swap" -> /\ live' = Plus(before[t].live, vector[t])
                               /\ buffer' = before[t].live
          [] at[t] = "delete" -> live' = before[t].buffer /\ buffer' = NoBuffer
          [] OTHER -> live' = before[t].live
<1>1. ASSUME SwapInv, [HotNext]_hotVars, NEW t \in Threads, Ends(t), solo[t]
      PROVE  Exact(t)
  <2>1. SoloFacts(t) /\ at \in [Threads -> Label]
    BY <1>1 DEF SwapInv, SwapType
  <2>2. ThreadStep(t)
    <3>1. at'[t] = "idle" /\ at[t] # "idle"
      BY <1>1 DEF Ends
    <3>2. ASSUME NEW u \in Threads, NEW v, NEW label \in {"lock", "save", "find"},
                 Call(u, v, label)
          PROVE  FALSE
      BY <2>1, <3>1, <3>2 DEF Call, Goto
    <3>3. ASSUME NEW u \in Threads, ThreadStep(u)  PROVE u = t
      BY <2>1, <3>1, <3>3 DEF ThreadStep, AddBegin, AddRead, AddWrite, SaveBuffer, ComputeShadow,
             SwapPointer, FindBuffer, RestoreBuffer, DeleteBuffer, Goto
    <3> QED
      BY <1>1, <3>1, <3>2, <3>3
         DEF HotNext, InjectConcept, RemoveConcept, InjectConceptShadow, TransactionalRollback, hotVars
  <2>3. ASSUME NEW e \in Elements, AddWrite(t, e)  PROVE Exact(t)
    <3>1. /\ at[t] = "add" /\ left[t] = {e} /\ Adding(t, before[t].live)
          /\ live' = [live EXCEPT ![e] = seen[t][e] + vector[t]]
      BY <1>1, <2>1, <2>3 DEF AddWrite, SoloFacts, Ends
    <3>2. live' = Plus(before[t].live, vector[t])
      BY <1>1, <3>1 DEF Adding, Plus, SwapInv, SwapType, Tensor
    <3> QED
      BY <3>1, <3>2
  <2>4. CASE SwapPointer(t)
    BY <1>1, <2>1, <2>4 DEF SwapPointer, SoloFacts
  <2>5. CASE FindBuffer(t)
    BY <1>1, <2>1, <2>5 DEF FindBuffer, SoloFacts
  <2>6. CASE RestoreBuffer(t)
    <3>1. at[t] = "restore" /\ buffer # NoBuffer
      BY <1>1, <2>1, <2>6 DEF RestoreBuffer, SoloFacts
    <3>2. at'[t] = "delete"
      BY <2>1, <2>6, <3>1 DEF RestoreBuffer, Goto
    <3> QED
      BY <1>1, <3>2 DEF Ends
  <2>7. CASE DeleteBuffer(t)
    BY <1>1, <2>1, <2>7 DEF DeleteBuffer, SoloFacts
  <2>8. CASE AddBegin(t) \/ SaveBuffer(t) \/ ComputeShadow(t)
    BY <1>1, <2>1, <2>8 DEF AddBegin, AddRead, SaveBuffer, ComputeShadow, Goto, Ends
  <2> QED
    BY <2>2, <2>3, <2>4, <2>5, <2>6, <2>7, <2>8 DEF ThreadStep
<1>2. SwapInv /\ [HotNext]_hotVars =>
         [\A t \in Threads : Ends(t) /\ solo[t] => Exact(t)]_hotVars
  BY <1>1
<1> QED
  BY <1>2, SwapInvariance, PTL DEF HotSpec, SoloCallsExact

=============================================================================
