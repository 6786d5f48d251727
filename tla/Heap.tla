-------------------------------- MODULE Heap --------------------------------
(***************************************************************************)
(* utils/priority_queue: the binary min-heap behind every job queue of the *)
(* simulators.  An entry's position field is left out: only                *)
(* heap_update_key, which nothing calls, reads it.  The array is modelled  *)
(* over its used part; size is what has been allocated.                    *)
(***************************************************************************)
EXTENDS Naturals

CONSTANTS
  Keys,          \* timestamps and deadlines that jobs are queued with
  CAPACITY,      \* entries allocated by create_queue
  NoJob,         \* the job of type INVALID_JOB that an empty queue answers with
  MaxAdds        \* bound: jobs ever added

ASSUME HeapAssumption ==
  /\ Keys \subseteq Nat
  /\ CAPACITY \in Nat \ {0}
  /\ NoJob \notin Nat
  /\ MaxAdds \in Nat

VARIABLES
  array,    \* entries 0 .. used - 1
  size,     \* entries the allocation has room for
  used,
  polled,   \* payload of the last dequeue
  adds      \* jobs added so far; a job's payload

heap_vars == <<array, size, used, polled, adds>>

HeapEntry == [key : Keys, payload : Nat]

\* heap_add writes array[used] before it counts the entry: used never exceeds what
\* is allocated, also when the heap has just grown.
HeapTypeOK ==
  /\ used \in 0 .. size
  /\ array \in [0 .. used - 1 -> HeapEntry]
  /\ size \in Nat
  /\ polled \in Nat \cup {NoJob}
  /\ adds \in 0 .. MaxAdds

Parent(i)  == (i - 1) \div 2
Left(i)    == 2 * i + 1
Right(i)   == Left(i) + 1
IsLeaf(a, i) == Left(i) \notin DOMAIN a

\* compare of a MIN_HEAP.
Less(a, i, j) == a[i].key < a[j].key

Exchange(a, i, j) == [a EXCEPT ![i] = a[j], ![j] = a[i]]

\* create_queue: a MIN_HEAP of CAPACITY entries.
HeapInit ==
  /\ array = [i \in {} |-> 0]
  /\ size = CAPACITY
  /\ used = 0
  /\ polled = NoJob
  /\ adds = 0

\* Mutant: if in place of while.
MutSiftUpOnce(b, k) == IF k > 0 /\ Less(b, k, Parent(k)) THEN Exchange(b, k, Parent(k)) ELSE b

\* The loop of heap_add: the entry at i climbs while it is smaller than its
\* parent.
SiftUp(b, k) ==
  LET climb[t \in [a : [DOMAIN b -> HeapEntry], i : DOMAIN b]] ==
        IF t.i > 0 /\ Less(t.a, t.i, Parent(t.i))
        THEN climb[[a |-> Exchange(t.a, t.i, Parent(t.i)), i |-> Parent(t.i)]]
        ELSE t.a
  IN  climb[[a |-> b, i |-> k]]

\* Mutant: always the left child.
MutChild(a, i) == Left(i)

\* get_max_child_index: the smaller child of a min-heap, the left one of two
\* equal ones.
Child(a, i) ==
  IF Right(i) \in DOMAIN a /\ Less(a, Right(i), Left(i)) THEN Right(i) ELSE Left(i)

\* heapify: the entry at i sinks, past children with its own key too.
Heapify(b, k) ==
  LET sink[t \in [a : [DOMAIN b -> HeapEntry], i : Nat]] ==
        IF IsLeaf(t.a, t.i) \/ Less(t.a, t.i, Child(t.a, t.i))
        THEN t.a
        ELSE sink[[a |-> Exchange(t.a, t.i, Child(t.a, t.i)), i |-> Child(t.a, t.i)]]
  IN  sink[[a |-> b, i |-> k]]

\* Mutant: the array is doubled one entry too late.
MutGrown == IF used > size THEN 2 * size ELSE size

\* heap_grow, when there is no room for one more entry.
Grown == IF used >= size THEN 2 * size ELSE size

WithLast(e) == [i \in 0 .. used |-> IF i = used THEN e ELSE array[i]]

Enqueue(key) ==
  /\ adds < MaxAdds
  /\ size' = Grown
  /\ array' = SiftUp(WithLast([key |-> key, payload |-> adds + 1]), used)
  /\ used' = used + 1
  /\ adds' = adds + 1
  /\ UNCHANGED polled

\* The last entry replaces the root and the array is one entry shorter.
LastToRoot == [i \in 0 .. used - 2 |-> IF i = 0 THEN array[used - 1] ELSE array[i]]

Dequeue ==
  /\ used > 0
  /\ array' = Heapify(LastToRoot, 0)
  /\ used' = used - 1
  /\ polled' = array[0].payload
  /\ UNCHANGED <<size, adds>>

DequeueEmpty ==
  /\ used = 0
  /\ polled' = NoJob
  /\ UNCHANGED <<array, size, used, adds>>

EnqueueStep == \E key \in Keys : Enqueue(key)

HeapNext == EnqueueStep \/ Dequeue \/ DequeueEmpty

HeapSpec == HeapInit /\ [][HeapNext]_heap_vars

-----------------------------------------------------------------------------

\* A heap is a bag of jobs that gives out one with the smallest key: growing,
\* climbing and sinking lose, duplicate or overtake nothing, and array[0], which
\* queue_peek reads, stays the smallest whatever the mixture of enqueue and dequeue.
Outside == INSTANCE PriorityBag WITH
             bag <- {array[i] : i \in 0 .. used - 1},
             dequeued <- polled,
             INVALID_JOB <- NoJob
ImplementsPriorityBag == Outside!Spec

=============================================================================
