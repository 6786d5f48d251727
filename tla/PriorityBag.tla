---------------------------- MODULE PriorityBag ----------------------------
(***************************************************************************)
(* What the users of priority_queue.h rely on: a bag of jobs with a key    *)
(* from which dequeue takes one with the smallest key, and which answers   *)
(* INVALID_JOB when it is empty.  The queues inside QueueStation and       *)
(* Scheduler are bags of this kind; module Heap implements it.             *)
(***************************************************************************)
EXTENDS Naturals

CONSTANTS Keys, INVALID_JOB

VARIABLES bag,       \* the jobs inside: [key, payload]
          dequeued   \* what the last dequeue returned

vars == <<bag, dequeued>>

Init == bag = {} /\ dequeued = INVALID_JOB

Enqueue ==
  /\ \E e \in bag' \ bag : e.key \in Keys /\ bag' = bag \cup {e}
  /\ UNCHANGED dequeued

Dequeue ==
  \E e \in bag :
    /\ \A f \in bag : e.key <= f.key
    /\ bag' = bag \ {e}
    /\ dequeued' = e.payload

DequeueEmpty ==
  /\ bag = {}
  /\ dequeued' = INVALID_JOB
  /\ UNCHANGED bag

Next == Enqueue \/ Dequeue \/ DequeueEmpty

Spec == Init /\ [][Next]_vars

=============================================================================
