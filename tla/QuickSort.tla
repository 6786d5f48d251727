----------------------------- MODULE QuickSort -----------------------------
(***************************************************************************)
(* The in-place quicksort that utils/ holds twice: queue_quick_sort.c      *)
(* orders the queues of a scheduler, idmap_quick_sort.c the entries of an  *)
(* idmap.  The two differ in the key they compare and in which elements    *)
(* they do not bother to exchange.                                         *)
(***************************************************************************)
EXTENDS Integers, FiniteSets

CONSTANTS
  Element,      \* what the arrays hold
  Key(_),       \* the field compared with the pivot's
  Alike(_, _)   \* two elements the code never exchanges

\* Mutant: the temporary of swap is missing.
MutSwap(a, i, j) == IF Alike(a[i], a[j]) THEN a ELSE [a EXCEPT ![i] = a[j]]

\* swap, and the test in front of each call of it.
Swap(a, i, j) == IF Alike(a[i], a[j]) THEN a ELSE [a EXCEPT ![i] = a[j], ![j] = a[i]]

\* Mutant: elements with the pivot's key go to its left as well.
MutPartitionEqualLeft(a, low, high) ==
  LET scan[j \in low - 1 .. high - 1] ==
        IF j < low THEN [arr |-> a, i |-> low - 1]
        ELSE LET s == scan[j - 1]
             IN  IF Key(s.arr[j]) <= Key(a[high])
                 THEN [arr |-> Swap(s.arr, s.i + 1, j), i |-> s.i + 1]
                 ELSE s
      end == scan[high - 1]
  IN  [arr |-> Swap(end.arr, end.i + 1, high), pivot |-> end.i + 1]

\* partition: i counts the elements found smaller than the pivot a[high], and
\* each of them is exchanged to the left of the others.
Partition(a, low, high) ==
  LET scan[j \in low - 1 .. high - 1] ==
        IF j < low THEN [arr |-> a, i |-> low - 1]
        ELSE LET s == scan[j - 1]
             IN  IF Key(s.arr[j]) < Key(a[high])
                 THEN [arr |-> Swap(s.arr, s.i + 1, j), i |-> s.i + 1]
                 ELSE s
      end == scan[high - 1]
  IN  [arr |-> Swap(end.arr, end.i + 1, high), pivot |-> end.i + 1]

\* quickSort, of an array indexed from 0.
Sort(arr) ==
  LET n    == Cardinality(DOMAIN arr)
      Call == [a : [DOMAIN arr -> Element], low : 0 .. n, high : -1 .. n - 1]
      sort[c \in Call] ==
        IF c.low >= c.high THEN c.a
        ELSE LET p    == Partition(c.a, c.low, c.high)
                 left == sort[[a |-> p.arr, low |-> c.low, high |-> p.pivot - 1]]
             IN  sort[[a |-> left, low |-> p.pivot + 1, high |-> c.high]]
  IN  sort[[a |-> arr, low |-> 0, high |-> n - 1]]

\* What a sort is expected to return.
IsSorted(a) == \A i, j \in DOMAIN a : i < j => Key(a[i]) <= Key(a[j])

Occurrences(a, x) == Cardinality({i \in DOMAIN a : a[i] = x})

IsPermutation(a, b) ==
  /\ DOMAIN a = DOMAIN b
  /\ \A i \in DOMAIN a : Occurrences(a, a[i]) = Occurrences(b, a[i])

=============================================================================
