------------------------------- MODULE Queues -------------------------------
(***************************************************************************)
(* What the schedulers do to their queues, in a form that can be reasoned  *)
(* about: SelectSeq is recursive.                                          *)
(***************************************************************************)
EXTENDS Naturals, Sequences, FiniteSets, Functions

\* A set of positions in ascending order: the n-th has n of them up to it.
InOrder == [P \in SUBSET Nat |->
    [n \in 1..Cardinality(P) |-> CHOOSE i \in P : Cardinality({j \in P : j <= i}) = n]]

\* The elements of a queue at a sequence of positions.
ElementsAt(s, positions) == [n \in DOMAIN positions |-> s[positions[n]]]

\* The elements of a queue that are in S, in the order of the queue.
Keep(s, S) == ElementsAt(s, InOrder[{i \in DOMAIN s : s[i] \in S}])

\* The first n elements of s, or all of them.
UpTo(n, s) == SubSeq(s, 1, IF Len(s) < n THEN Len(s) ELSE n)

=============================================================================
