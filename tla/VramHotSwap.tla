---------------------------- MODULE VramHotSwap ----------------------------
(***************************************************************************)
(* The experimental hot-swap API (neural_scalpel/experimental/             *)
(* hot_swap.py) called by several threads on one layer.  inject_concept    *)
(* and remove_concept change the tensor in place under the lock;           *)
(* inject_concept_shadow reads it before it takes the lock and             *)
(* transactional_rollback looks for its buffer before it takes the lock    *)
(* and deletes it after.                                                   *)
(*                                                                         *)
(* The model is a dictionary and there is no CUDA kernel, so that the       *)
(* pointer swap assigns `.data`: the tensor then shares its storage with   *)
(* the one that was assigned.  With an nn.Module, state_dict() hands out   *)
(* other tensors and the assignment does not reach the model.              *)
(*                                                                         *)
(* A tensor has several elements and an in-place addition changes them one *)
(* by one; a clone, which takes no lock, may fall in between.  A task      *)
(* vector adds one number to each element.                                 *)
(***************************************************************************)
EXTENDS Integers, FiniteSets

CONSTANTS Threads, NoThread,
          Elements,      \* of the tensor
          TaskVectors,
          NoBuffer,      \* layer_name not in shadow_buffers
          MaxSwapCalls   \* bound on the calls that are made

ASSUME HotSwapAssumption ==
    /\ NoThread \notin Threads
    /\ Elements # {}
    /\ TaskVectors \subseteq Int
    /\ NoBuffer \notin [Elements -> Int]
    /\ MaxSwapCalls \in Nat

VARIABLES
    live,       \* the tensor of the layer
    buffer,     \* shadow_buffers[layer_name]
    aliased,    \* the two share their storage
    lock,       \* owner of self.lock
    at,         \* what each thread does next
    vector,     \* the task vector of a thread's call, negated to remove it
    seen,       \* the thread's copy of the tensor
    left,       \* the elements a thread still has to add to
    calls,      \* calls made so far
    sum,        \* history: what completed injections and removals added up to
    shadowed,   \* history: a shadow injection or a rollback was called
    solo,       \* history: the thread's call has overlapped with no other one
    before      \* history: the tensor, and the buffer, when the call began

hotVars == <<live, buffer, aliased, lock, at, vector, seen, left, calls, sum, shadowed, solo,
             before>>
history == <<calls, sum, shadowed, solo, before>>

Tensor == [Elements -> Int]
Zero == [e \in Elements |-> 0]
Plus(tensor, v) == [e \in Elements |-> tensor[e] + v]

HotInit ==
    /\ live = Zero
    /\ buffer = NoBuffer
    /\ aliased = FALSE
    /\ lock = NoThread
    /\ at = [t \in Threads |-> "idle"]
    /\ vector = [t \in Threads |-> 0]
    /\ seen = [t \in Threads |-> Zero]
    /\ left = [t \in Threads |-> {}]
    /\ calls = 0
    /\ sum = 0
    /\ shadowed = FALSE
    /\ solo = [t \in Threads |-> TRUE]
    /\ before = [t \in Threads |-> [live |-> Zero, buffer |-> NoBuffer]]

Goto(t, label) == at' = [at EXCEPT ![t] = label]
Others(t) == {u \in Threads \ {t} : at[u] # "idle"}

\* A call on a layer that the model does not have returns at once.
Call(t, v, label) ==
    /\ at[t] = "idle"
    /\ calls < MaxSwapCalls
    /\ calls' = calls + 1
    /\ Goto(t, label)
    /\ vector' = [vector EXCEPT ![t] = v]
    /\ solo' = [u \in Threads |-> IF u = t THEN Others(t) = {} ELSE solo[u] /\ at[u] = "idle"]
    /\ before' = [before EXCEPT ![t] = [live |-> live, buffer |-> buffer]]
    /\ shadowed' = (shadowed \/ label # "lock")
    /\ UNCHANGED <<live, buffer, aliased, lock, seen, left, sum>>

InjectConcept(t, v) == Call(t, v, "lock")
RemoveConcept(t, v) == Call(t, -v, "lock")
InjectConceptShadow(t, v) == Call(t, v, "save")
TransactionalRollback(t) == Call(t, 0, "find")

-----------------------------------------------------------------------------
(* add_ and sub_ under the lock.                                           *)

AddRead(t) ==
    /\ at[t] = "lock"
    /\ lock' = t
    /\ seen' = [seen EXCEPT ![t] = live]
    /\ left' = [left EXCEPT ![t] = Elements]
    /\ Goto(t, "add")
    /\ UNCHANGED <<live, buffer, aliased, vector, history>>

\* Mutant: the tensor is changed without the lock.
AddBegin_NoLock(t) == AddRead(t)

AddBegin(t) == lock = NoThread /\ AddRead(t)

\* One element; after the last one the lock is released.
AddWrite(t, e) ==
    /\ at[t] = "add"
    /\ e \in left[t]
    /\ live' = [live EXCEPT ![e] = seen[t][e] + vector[t]]
    /\ buffer' = IF aliased THEN live' ELSE buffer
    /\ left' = [left EXCEPT ![t] = @ \ {e}]
    /\ IF left[t] = {e}
         THEN lock' = NoThread /\ Goto(t, "idle") /\ sum' = sum + vector[t]
         ELSE UNCHANGED <<lock, at, sum>>
    /\ UNCHANGED <<aliased, vector, seen, calls, shadowed, solo, before>>

-----------------------------------------------------------------------------
(* inject_concept_shadow.                                                  *)

\* The first clone; whatever buffer there was is replaced.
SaveBuffer(t) ==
    /\ at[t] = "save"
    /\ buffer' = live
    /\ aliased' = FALSE
    /\ Goto(t, "compute")
    /\ UNCHANGED <<live, lock, vector, seen, left, history>>

\* The tensor is cloned a second time.
ComputeShadow(t) ==
    /\ at[t] = "compute"
    /\ seen' = [seen EXCEPT ![t] = Plus(live, vector[t])]
    /\ Goto(t, "swap")
    /\ UNCHANGED <<live, buffer, aliased, lock, vector, left, history>>

SwapPointer(t) ==
    /\ at[t] = "swap"
    /\ lock = NoThread
    /\ live' = seen[t]
    /\ aliased' = FALSE
    /\ Goto(t, "idle")
    /\ UNCHANGED <<buffer, lock, vector, seen, left, history>>

-----------------------------------------------------------------------------
(* transactional_rollback.                                                 *)

\* Without a buffer the call returns False.
FindBuffer(t) ==
    /\ at[t] = "find"
    /\ Goto(t, IF buffer = NoBuffer THEN "idle" ELSE "restore")
    /\ UNCHANGED <<live, buffer, aliased, lock, vector, seen, left, history>>

\* Another rollback may have deleted the buffer: KeyError, the lock is
\* released.
RestoreBuffer(t) ==
    /\ at[t] = "restore"
    /\ lock = NoThread
    /\ IF buffer = NoBuffer
         THEN Goto(t, "idle") /\ UNCHANGED <<live, aliased>>
         ELSE Goto(t, "delete") /\ live' = buffer /\ aliased' = TRUE
    /\ UNCHANGED <<buffer, lock, vector, seen, left, history>>

\* Mutant: the buffer is kept for a second rollback.
DeleteBuffer_Kept(t) ==
    /\ at[t] = "delete"
    /\ Goto(t, "idle")
    /\ UNCHANGED <<live, buffer, aliased, lock, vector, seen, left, history>>

\* Whatever buffer is there now is deleted; none is a KeyError.
DeleteBuffer(t) ==
    /\ at[t] = "delete"
    /\ buffer' = NoBuffer
    /\ aliased' = FALSE
    /\ Goto(t, "idle")
    /\ UNCHANGED <<live, lock, vector, seen, left, history>>

-----------------------------------------------------------------------------
ThreadStep(t) ==
    \/ AddBegin(t) \/ \E e \in Elements : AddWrite(t, e)
    \/ SaveBuffer(t) \/ ComputeShadow(t) \/ SwapPointer(t)
    \/ FindBuffer(t) \/ RestoreBuffer(t) \/ DeleteBuffer(t)

HotNext ==
    \E t \in Threads :
        \/ \E v \in TaskVectors :
              InjectConcept(t, v) \/ RemoveConcept(t, v) \/ InjectConceptShadow(t, v)
        \/ TransactionalRollback(t)
        \/ ThreadStep(t)

HotSpec == HotInit /\ [][HotNext]_hotVars

-----------------------------------------------------------------------------
(* Properties.                                                             *)

HotTypeOK ==
    /\ live \in Tensor /\ buffer \in Tensor \cup {NoBuffer}
    /\ lock \in Threads \cup {NoThread}
    /\ at \in [Threads -> {"idle", "lock", "add", "save", "compute", "swap",
                           "find", "restore", "delete"}]

\* The state is well-formed, and as long as only inject_concept and
\* remove_concept are used, no update of any element is lost, in whatever order
\* the threads come: whenever the lock is free, every element is the original
\* plus everything injected minus everything removed (the "Micro-Pause" lock).
InPlaceUpdatesAddUp ==
    /\ HotTypeOK
    /\ ~shadowed /\ lock = NoThread => live = Plus(Zero, sum)

Ends(t) == at[t] # "idle" /\ at'[t] = "idle"

\* A call that overlapped with no other one does what its name says: the
\* vector is added to every element of the tensor it found, of which a shadow
\* injection keeps an untorn copy; a rollback restores the buffer it found,
\* whole, and consumes it, and a second rollback in a row does nothing.
\* (Calls that overlap lose updates and tear copies; the API does not exclude
\* them.)
SoloCallsExact ==
    [][\A t \in Threads : Ends(t) /\ solo[t] =>
          CASE at[t] = "add" -> live' = Plus(before[t].live, vector[t])
            [] at[t] = "swap" -> /\ live' = Plus(before[t].live, vector[t])
                                 /\ buffer' = before[t].live
            [] at[t] = "delete" -> live' = before[t].buffer /\ buffer' = NoBuffer
            [] OTHER -> live' = before[t].live]_hotVars

=============================================================================
