------------------------------- MODULE MCHeap -------------------------------
(* Instances of Heap for TLC. *)
EXTENDS Heap

\* Seven jobs fill three levels of the heap, and two keys more than needed for
\* a tie let entries climb and sink along either child.
MCKeys == 1 .. 3

=============================================================================
