---------------------------- MODULE QueueProofs ----------------------------
(***************************************************************************)
(* The queues of the simulators, each with an inductive invariant of its   *)
(* own.                                                                    *)
(*                                                                         *)
(* The priority scheduler (Scheduler), for any queues, any number of jobs  *)
(* per call and any jobs: the types, the order of the output queues, that  *)
(* no job is lost or doubled, that the most urgent jobs are taken first,   *)
(* and what the schedulers of the stations give out.                       *)
(*                                                                         *)
(* The heap behind a priority queue (Heap), for every capacity, number of  *)
(* jobs and keys: it stays within what is allocated and implements         *)
(* PriorityBag.                                                            *)
(*                                                                         *)
(* The ring buffers of the three stations in tandem (ThreeQueues), for     *)
(* every length and number of clients: clients are served in turn.         *)
(***************************************************************************)
EXTENDS SchedulerOfStation, Heap, ThreeQueues, ProofBasics

QSP == INSTANCE QuickSortProofs WITH Element <- QueueConf, Key <- Prio, Alike <- SameType

-----------------------------------------------------------------------------
(* The queues of a scheduler.                                              *)

\* The arrays of conf have been sorted and stay as they are.
QueuesSet == conf \in Configurations /\ NewPrioScheduler(conf)

\* Two queues of one type have one priority.
OnePrioPerType(a) == \A i, k \in DOMAIN a : a[i].type = a[k].type => a[i].prio = a[k].prio

LEMMA SortsAgree == \A a : QS!Sort(a) = QSP!Sort(a)
<1>1. \A S : QS!Cardinality(S) = QSP!Cardinality(S)
  BY DEF QS!Cardinality, QSP!Cardinality
<1> QED
  BY <1>1 DEF QS!Sort, QSP!Sort, QS!Partition, QSP!Partition, QS!Swap, QSP!Swap

LEMMA PriosOrdered == QSP!KeysOrdered(QueueConf)
BY DEF QSP!KeysOrdered, QueueConf, Prio, Prios, NUM_OF_PRIO_TYPES

LEMMA ArraySorted ==
  ASSUME NEW n \in Nat, NEW a \in [0 .. n - 1 -> QueueConf]
  PROVE  /\ QS!Sort(a) \in [0 .. n - 1 -> QueueConf]
         /\ QS!IsPermutation(a, QS!Sort(a))
         /\ OnePrioPerType(a) => QS!IsSorted(QS!Sort(a))
<1> DEFINE E == {a[i] : i \in 0 .. n - 1}
<1>1. E \subseteq QueueConf /\ a \in QSP!Arrays(n, E)
  BY DEF QSP!Arrays
<1>2. QSP!KeysOrdered(QueueConf)
  BY PriosOrdered
<1>3. OnePrioPerType(a) => QSP!AlikeKeys(E)
  BY DEF OnePrioPerType, QSP!AlikeKeys, Prio, SameType
<1>0. \A S : QS!Cardinality(S) = QSP!Cardinality(S)
  BY DEF QS!Cardinality, QSP!Cardinality
<1>4. QS!Sort(a) = QSP!Sort(a)
  BY SortsAgree
<1>5. /\ QSP!Sort(a) \in QSP!Arrays(n, E)
      /\ QSP!IsPermutation(a, QSP!Sort(a))
      /\ QSP!AlikeKeys(E) => QSP!IsSorted(QSP!Sort(a))
  <2> HIDE DEF E
  <2> QED BY <1>1, <1>2, QSP!SortCorrect
<1>6. QS!IsPermutation(a, QS!Sort(a)) <=> QSP!IsPermutation(a, QSP!Sort(a))
  BY <1>0, <1>4 DEF QS!IsPermutation, QSP!IsPermutation, QS!Occurrences, QSP!Occurrences
<1>7. QS!IsSorted(QS!Sort(a)) <=> QSP!IsSorted(QSP!Sort(a))
  BY <1>4 DEF QS!IsSorted, QSP!IsSorted
<1>8. QS!Sort(a) \in [0 .. n - 1 -> QueueConf]
  BY <1>1, <1>4, <1>5 DEF QSP!Arrays
<1> QED BY <1>3, <1>5, <1>6, <1>7, <1>8

LEMMA ArraysKnown ==
  ASSUME NEW c \in Configurations, NEW a \in {c.input, c.output}
  PROVE  \E n \in Nat : a \in [0 .. n - 1 -> QueueConf]
BY SchedulerAssumption

\* What the rest needs of the queues.
LEMMA QueuesKnown ==
  ASSUME QueuesSet
  PROVE  /\ \E n \in Nat : Inputs = 0 .. n - 1
         /\ input_queues \in [Inputs -> QueueConf]
         /\ output_queues \in [Outputs -> QueueConf]
         /\ Outputs \subseteq Nat
         /\ ~conf.upgrade_prio /\ Outputs # {} => Inputs \subseteq Outputs
         /\ Rounds \in Nat \ {0}
<1>1. PICK n \in Nat : conf.input \in [0 .. n - 1 -> QueueConf]
  BY ArraysKnown DEF QueuesSet
<1>2. PICK m \in Nat : conf.output \in [0 .. m - 1 -> QueueConf]
  BY ArraysKnown DEF QueuesSet
<1>3. input_queues \in [0 .. n - 1 -> QueueConf]
  BY <1>1, ArraySorted DEF QueuesSet, NewPrioScheduler
<1>4. output_queues \in [0 .. m - 1 -> QueueConf]
  BY <1>2, ArraySorted DEF QueuesSet, NewPrioScheduler
<1>5. Inputs = 0 .. n - 1 /\ Outputs = 0 .. m - 1
  BY <1>3, <1>4 DEF Inputs, Outputs
<1>6. ~conf.upgrade_prio /\ DOMAIN conf.output # {} => DOMAIN conf.input \subseteq DOMAIN conf.output
  BY SchedulerAssumption DEF QueuesSet
<1>7. Rounds \in Nat \ {0}
  BY SchedulerAssumption DEF QueuesSet, Rounds
<1>8. DOMAIN conf.input = Inputs /\ DOMAIN conf.output = Outputs
  BY <1>1, <1>2, <1>5
<1>9. (\E k \in Nat : Inputs = 0 .. k - 1) /\ Outputs \subseteq Nat
  BY <1>5
<1> QED BY <1>3, <1>4, <1>5, <1>6, <1>7, <1>8, <1>9

-----------------------------------------------------------------------------
(* The choices: of a job in a queue, and of a queue.                       *)

\* R orders the elements of Q.
Orders(R, Q) ==
  /\ \A i, k \in Q : i # k => <<i, k>> \in R \/ <<k, i>> \in R
  /\ \A i, k, l \in Q : <<i, k>> \in R /\ <<k, l>> \in R => <<i, l>> \in R

\* In a finite set of queues, one comes first in any order.
LEMMA FirstExists ==
  ASSUME NEW n \in Nat, NEW Q \in SUBSET (0 .. n - 1), Q # {}, NEW R, Orders(R, Q)
  PROVE  \E i \in Q : \A k \in Q \ {i} : <<i, k>> \in R
<1> DEFINE First(m) == \E i \in Q : i < m /\ \A k \in Q \ {i} : k < m => <<i, k>> \in R
           S == {m \in Nat : (\E i \in Q : i < m) => First(m)}
<1>1. 0 \in S
  OBVIOUS
<1>2. ASSUME NEW m \in Nat, m \in S PROVE m + 1 \in S
  <2>1. \A i \in Q : i < m + 1 <=> i < m \/ i = m
    OBVIOUS
  <2>2. CASE m \notin Q
    BY <1>2, <2>1, <2>2
  <2>3. CASE m \in Q /\ ~ \E i \in Q : i < m
    BY <2>1, <2>3
  <2>4. CASE m \in Q /\ \E i \in Q : i < m
    <3>1. PICK i \in Q : i < m /\ \A k \in Q \ {i} : k < m => <<i, k>> \in R
      BY <1>2, <2>4
    <3>2. CASE <<i, m>> \in R
      <4>1. \A k \in Q \ {i} : k < m + 1 => <<i, k>> \in R
        BY <2>1, <3>1, <3>2 DEF Orders
      <4>2. i < m + 1
        BY <2>1, <3>1
      <4> QED BY <4>1, <4>2
    <3>3. CASE <<m, i>> \in R
      <4>1. \A k \in Q \ {m} : k < m + 1 => <<m, k>> \in R
        BY <2>1, <2>4, <3>1, <3>3 DEF Orders
      <4> QED BY <2>1, <2>4, <4>1
    <3>4. i # m
      BY <3>1
    <3> QED BY <2>4, <3>2, <3>3, <3>4 DEF Orders
  <2> QED BY <2>2, <2>3, <2>4
<1>3. \A m \in Nat : m \in S
  <2> HIDE DEF S
  <2> QED BY <1>1, <1>2, SetInduction
<1>4. First(n)
  <2>1. PICK i \in Q : TRUE
    OBVIOUS
  <2>2. i < n
    BY <2>1
  <2>3. n \in S
    BY <1>3
  <2> QED BY <2>2, <2>3
<1> QED BY <1>4

LEMMA EarliestJob ==
  ASSUME NEW q \in SUBSET Job, q # {}
  PROVE  /\ Earliest(q) # {} /\ Peek(q) \in Nat
         /\ \A j \in Earliest(q) : j \in q /\ j.deadline = Peek(q)
         /\ \A k \in q : Peek(q) <= k.deadline
<1> DEFINE T == {j.deadline : j \in q}
<1>1. \A j \in q : j.deadline \in Nat
  BY DEF Job
<1>2. T \subseteq Nat /\ T # {}
  BY <1>1
<1>3. PICK m \in T : \A k \in T : m <= k
  <2> HIDE DEF T
  <2> QED BY <1>2, SmallestExists
<1>4. PICK j \in q : j.deadline = m
  BY <1>3
<1>5. j \in Earliest(q)
  BY <1>3, <1>4 DEF Earliest
<1>6. \A i, k \in Earliest(q) : i.deadline = k.deadline
  BY <1>1 DEF Earliest
<1> DEFINE e == CHOOSE i \in Earliest(q) : TRUE
<1>7. e \in Earliest(q) /\ Peek(q) = e.deadline
  BY <1>5 DEF Peek
<1> HIDE DEF e, T
<1>8. e \in q /\ \A k \in q : e.deadline <= k.deadline
  BY <1>7 DEF Earliest
<1>9. \A i \in Earliest(q) : i \in q
  BY DEF Earliest
<1> QED BY <1>1, <1>5, <1>6, <1>7, <1>8, <1>9

\* The order of queues i and k under each algorithm.
FifoBefore(in, i, k) ==
  LET p == input_queues[i].prio
      r == input_queues[k].prio
  IN  \/ p < r
      \/ p = r /\ Peek(in[i]) < Peek(in[k])
      \/ p = r /\ Peek(in[i]) = Peek(in[k]) /\ i < k

TurnBefore(last, i, k) ==
  LET t == Turn(last, input_queues[i].type)
      u == Turn(last, input_queues[k].type)
  IN  t < u \/ (t = u /\ i < k)

\* What prio_fifo_alogrithm finds.
LEMMA FifoChoice ==
  ASSUME QueuesSet, NEW in \in [Inputs -> SUBSET Job]
  PROVE  LET q == FifoQueue(in)
         IN  \/ q = SCHEDULE_FAIL /\ NonEmpty(in) = {}
             \/ /\ q \in NonEmpty(in)
                /\ \A k \in NonEmpty(in) \ {q} : FifoBefore(in, q, k)
                /\ \A k \in NonEmpty(in) :
                     \/ input_queues[q].prio < input_queues[k].prio
                     \/ /\ input_queues[q].prio = input_queues[k].prio
                        /\ Peek(in[q]) <= Peek(in[k])
<1> DEFINE Q == NonEmpty(in)
           Before(i, k) == FifoBefore(in, i, k)
           R == {x \in Q \X Q : Before(x[1], x[2])}
<1>1. FifoQueue(in) = IF Q = {} THEN SCHEDULE_FAIL
                      ELSE CHOOSE i \in Q : \A k \in Q \ {i} : Before(i, k)
  BY DEF FifoQueue, FirstOf, FifoBefore
<1>2. PICK n \in Nat : Inputs = 0 .. n - 1
  BY QueuesKnown
<1>3. Q \in SUBSET (0 .. n - 1)
  BY <1>2 DEF NonEmpty
<1>4. \A i \in Q : input_queues[i].prio \in Int /\ Peek(in[i]) \in Int /\ i \in Int
  <2> TAKE i \in Q
  <2>1. i \in Inputs /\ in[i] # {} /\ in[i] \in SUBSET Job
    BY DEF NonEmpty
  <2>2. Peek(in[i]) \in Nat
    BY <2>1, EarliestJob
  <2>3. input_queues[i].prio \in Prios
    BY <2>1, QueuesKnown DEF QueueConf
  <2> QED BY <1>3, <2>2, <2>3 DEF Prios, NUM_OF_PRIO_TYPES
<1>5. \A i, k \in Q : <<i, k>> \in R <=> Before(i, k)
  OBVIOUS
<1> HIDE DEF Q, R
<1>6. Orders(R, Q)
  <2>1. \A i, k \in Q : i # k => <<i, k>> \in R \/ <<k, i>> \in R
    BY <1>4, <1>5 DEF FifoBefore
  <2>2. \A i, k, l \in Q : <<i, k>> \in R /\ <<k, l>> \in R => <<i, l>> \in R
    BY <1>4, <1>5 DEF FifoBefore
  <2> QED BY <2>1, <2>2 DEF Orders
<1> HIDE DEF Before
<1>7. Q # {} => \E i \in Q : \A k \in Q \ {i} : <<i, k>> \in R
  BY <1>3, <1>6, FirstExists
<1>8. CASE Q # {}
  <2>1. \E i \in Q : \A k \in Q \ {i} : Before(i, k)
    BY <1>5, <1>7, <1>8
  <2>2. FifoQueue(in) \in Q /\ \A k \in Q \ {FifoQueue(in)} : Before(FifoQueue(in), k)
    BY <1>1, <1>8, <2>1
  <2>3. ASSUME NEW i \in Q, NEW k \in Q, i = k \/ Before(i, k)
        PROVE  \/ input_queues[i].prio < input_queues[k].prio
               \/ input_queues[i].prio = input_queues[k].prio /\ Peek(in[i]) <= Peek(in[k])
    BY <1>4, <2>3 DEF Before, FifoBefore
  <2> QED BY <2>2, <2>3 DEF Q, Before
<1> QED BY <1>1, <1>8 DEF Q

\* What round_robin_algorithm finds.
LEMMA RoundRobinChoice ==
  ASSUME QueuesSet, NEW in \in [Inputs -> SUBSET Job], NEW last \in JobTypes \cup {INVALID_JOB}
  PROVE  LET q     == RoundRobinQueue(in, last)
             Typed == {i \in NonEmpty(in) : input_queues[i].type # INVALID_JOB}
         IN  \/ q = SCHEDULE_FAIL /\ Typed = {}
             \/ q \in Typed /\ \A k \in Typed \ {q} : TurnBefore(last, q, k)
<1> DEFINE Q == {i \in NonEmpty(in) : input_queues[i].type # INVALID_JOB}
           Before(i, k) == TurnBefore(last, i, k)
           R == {x \in Q \X Q : Before(x[1], x[2])}
<1>1. RoundRobinQueue(in, last) = IF Q = {} THEN SCHEDULE_FAIL
                                  ELSE CHOOSE i \in Q : \A k \in Q \ {i} : Before(i, k)
  BY DEF RoundRobinQueue, FirstOf, TurnBefore
<1>2. PICK n \in Nat : Inputs = 0 .. n - 1
  BY QueuesKnown
<1>3. Q \in SUBSET (0 .. n - 1)
  BY <1>2 DEF NonEmpty
<1>4. \A i \in Q : Turn(last, input_queues[i].type) \in Int /\ i \in Int
  <2> TAKE i \in Q
  <2>1. input_queues[i].type \in JobTypes \cup {INVALID_JOB}
    BY QueuesKnown DEF QueueConf, NonEmpty
  <2> QED BY <1>3, <2>1 DEF Turn, JobTypes, INVALID_JOB, NUM_OF_JOB_TYPE
<1>5. \A i, k \in Q : <<i, k>> \in R <=> Before(i, k)
  OBVIOUS
<1> HIDE DEF Q, R
<1>7. Orders(R, Q)
  <2>1. \A i, k \in Q : i # k => <<i, k>> \in R \/ <<k, i>> \in R
    BY <1>4, <1>5 DEF TurnBefore
  <2>2. \A i, k, l \in Q : <<i, k>> \in R /\ <<k, l>> \in R => <<i, l>> \in R
    BY <1>4, <1>5 DEF TurnBefore
  <2> QED BY <2>1, <2>2 DEF Orders
<1> HIDE DEF Before
<1>8. Q # {} => \E i \in Q : \A k \in Q \ {i} : <<i, k>> \in R
  BY <1>3, <1>7, FirstExists
<1>9. CASE Q # {}
  <2>1. \E i \in Q : \A k \in Q \ {i} : Before(i, k)
    BY <1>5, <1>8, <1>9
  <2> QED BY <1>1, <1>9, <2>1 DEF Q, Before
<1> QED BY <1>1, <1>9 DEF Q

-----------------------------------------------------------------------------
(* The queues by themselves, between two steps or in the middle of a call. *)

Entry == [key : Nat, nth : Nat, job : Job]

\* Jobs are where their priority belongs, and fit.
Stored(in, out) ==
  /\ in \in [Inputs -> SUBSET Job]
  /\ out \in [Outputs -> SUBSET Entry]
  /\ \A i \in Inputs : /\ IsFiniteSet(in[i]) /\ Fits(input_queues[i], in[i])
                       /\ \A j \in in[i] : j.prio = input_queues[i].prio
  /\ \A o \in Outputs : IsFiniteSet(out[o]) /\ Fits(output_queues[o], out[o])

\* Every job was accepted.
Known(in, out, gone, acc) ==
  /\ \A i \in Inputs : in[i] \subseteq acc
  /\ \A o \in Outputs : \A e \in out[o] : e.job \in acc
  /\ gone \subseteq acc

\* Keys and numbers of an output queue rise together.
Numbered(out, ts, n) ==
  \A o \in Outputs : \A e \in out[o] :
    /\ e.key < ts /\ e.nth <= n
    /\ \A f \in out[o] : e.nth < f.nth => e.key < f.key

\* Every accepted job is in one place.
Accounts(in, out, gone, acc) ==
  /\ \A j \in acc : \/ j \in gone
                    \/ \E i \in Inputs : j \in in[i]
                    \/ \E o \in Outputs : \E e \in out[o] : e.job = j
  /\ \A i \in Inputs : \A j \in in[i] :
       /\ j \notin gone
       /\ \A k \in Inputs \ {i} : j \notin in[k]
       /\ \A o \in Outputs : \A e \in out[o] : e.job # j
  /\ \A o \in Outputs : \A e \in out[o] :
       /\ e.job \notin gone
       /\ \A p \in Outputs : \A f \in out[p] : f.job = e.job => p = o /\ f = e

LEMMA OneMore ==
  ASSUME NEW queue \in QueueConf, NEW q, IsFiniteSet(q), HasRoom(queue, q), NEW x
  PROVE  IsFiniteSet(q \cup {x}) /\ Fits(queue, q \cup {x})
<1>1. Cardinality(q) \in Nat
  BY FS_CardinalityType
<1>2. IsFiniteSet(q \cup {x})
  BY FS_AddElement
<1>3. Cardinality(q \cup {x}) = Cardinality(q) \/ Cardinality(q \cup {x}) = Cardinality(q) + 1
  BY FS_AddElement
<1>4. queue.room \in Nat \cup {Infinite}
  BY DEF QueueConf
<1> QED BY <1>1, <1>2, <1>3, <1>4 DEF HasRoom, Fits, Infinite

LEMMA OneLess ==
  ASSUME NEW queue \in QueueConf, NEW q, IsFiniteSet(q), Fits(queue, q), NEW x
  PROVE  IsFiniteSet(q \ {x}) /\ Fits(queue, q \ {x})
<1>1. Cardinality(q) \in Nat
  BY FS_CardinalityType
<1>2. IsFiniteSet(q \ {x})
  BY FS_RemoveElement
<1>3. Cardinality(q \ {x}) = Cardinality(q) \/ Cardinality(q \ {x}) = Cardinality(q) - 1
  BY FS_RemoveElement
<1>4. queue.room \in Nat \cup {Infinite}
  BY DEF QueueConf
<1> QED BY <1>1, <1>2, <1>3, <1>4 DEF Fits, Infinite

\* A job leaves input queue q.
LEMMA StoredTake ==
  ASSUME QueuesSet, NEW in, NEW out, Stored(in, out), NEW q \in Inputs, NEW j
  PROVE  Stored([in EXCEPT ![q] = @ \ {j}], out)
<1> DEFINE new == [in EXCEPT ![q] = @ \ {j}]
<1>1. new \in [Inputs -> SUBSET Job] /\ \A i \in Inputs : new[i] = IF i = q THEN in[i] \ {j} ELSE in[i]
  BY DEF Stored
<1>2. input_queues[q] \in QueueConf
  BY QueuesKnown
<1>3. IsFiniteSet(new[q]) /\ Fits(input_queues[q], new[q])
  BY <1>1, <1>2, OneLess DEF Stored
<1> HIDE DEF new
<1> QED BY <1>1, <1>3 DEF Stored

\* An entry leaves output queue o.
LEMMA StoredServe ==
  ASSUME QueuesSet, NEW in, NEW out, Stored(in, out), NEW o \in Outputs, NEW e
  PROVE  Stored(in, [out EXCEPT ![o] = @ \ {e}])
<1> DEFINE new == [out EXCEPT ![o] = @ \ {e}]
<1>1. new \in [Outputs -> SUBSET Entry] /\ \A p \in Outputs : new[p] = IF p = o THEN out[p] \ {e} ELSE out[p]
  BY DEF Stored
<1>2. output_queues[o] \in QueueConf
  BY QueuesKnown
<1>3. IsFiniteSet(new[o]) /\ Fits(output_queues[o], new[o])
  BY <1>1, <1>2, OneLess DEF Stored
<1> HIDE DEF new
<1> QED BY <1>1, <1>3 DEF Stored

\* An entry enters output queue o.
LEMMA StoredPut ==
  ASSUME QueuesSet, NEW in, NEW out, Stored(in, out), NEW o \in Outputs, NEW e \in Entry,
         HasRoom(output_queues[o], out[o])
  PROVE  Stored(in, [out EXCEPT ![o] = @ \cup {e}])
<1> DEFINE new == [out EXCEPT ![o] = @ \cup {e}]
<1>1. new \in [Outputs -> SUBSET Entry] /\ \A p \in Outputs : new[p] = IF p = o THEN out[p] \cup {e} ELSE out[p]
  BY DEF Stored
<1>2. output_queues[o] \in QueueConf
  BY QueuesKnown
<1>3. IsFiniteSet(new[o]) /\ Fits(output_queues[o], new[o])
  BY <1>1, <1>2, OneMore DEF Stored
<1> HIDE DEF new
<1> QED BY <1>1, <1>3 DEF Stored

\* A job moves from input queue q to the next place of output queue o.
LEMMA MovedToOutput ==
  ASSUME NEW in, NEW out, Stored(in, out), NEW ts \in Nat, NEW n \in Nat,
         NEW gone, NEW acc, Known(in, out, gone, acc), Numbered(out, ts, n),
         NEW q \in Inputs, NEW j \in in[q], NEW o \in Outputs
  PROVE  LET e    == [key |-> ts, nth |-> n + 1, job |-> j]
             new  == [in EXCEPT ![q] = @ \ {j}]
             newo == [out EXCEPT ![o] = @ \cup {e}]
         IN  /\ Known(new, newo, gone, acc)
             /\ Numbered(newo, ts + 1, n + 1)
             /\ Accounts(in, out, gone, acc) => Accounts(new, newo, gone, acc)
<1> DEFINE e    == [key |-> ts, nth |-> n + 1, job |-> j]
           new  == [in EXCEPT ![q] = @ \ {j}]
           newo == [out EXCEPT ![o] = @ \cup {e}]
<1>1. \A i \in Inputs : \A x : x \in new[i] <=> x \in in[i] /\ ~(i = q /\ x = j)
  BY DEF Stored
<1>2. \A p \in Outputs : \A f : f \in newo[p] <=> f \in out[p] \/ (p = o /\ f = e)
  BY DEF Stored
<1>3. e.key = ts /\ e.nth = n + 1 /\ e.job = j
  OBVIOUS
<1>4. \A p \in Outputs : \A f \in out[p] : f.key \in Nat /\ f.nth \in Nat
  BY DEF Stored, Entry
<1> HIDE DEF e, new, newo
<1>5. Known(new, newo, gone, acc)
  BY <1>1, <1>2, <1>3 DEF Known
<1>6. Numbered(newo, ts + 1, n + 1)
  <2> SUFFICES ASSUME NEW p \in Outputs, NEW f \in newo[p]
               PROVE  /\ f.key < ts + 1 /\ f.nth <= n + 1
                      /\ \A g \in newo[p] : f.nth < g.nth => f.key < g.key
    BY DEF Numbered
  <2>1. CASE f \in out[p]
    <3>1. /\ f.key < ts /\ f.nth <= n /\ f.key \in Nat /\ f.nth \in Nat
          /\ \A g \in out[p] : f.nth < g.nth => f.key < g.key
      BY <1>4, <2>1 DEF Numbered
    <3>2. \A g \in newo[p] : g \in out[p] \/ g = e
      BY <1>2
    <3> QED BY <1>3, <3>1, <3>2
  <2>2. CASE f = e
    <3>1. \A g \in newo[p] : g.nth \in Nat /\ g.nth <= n + 1
      <4>1. \A g \in out[p] : g.nth \in Nat /\ g.nth <= n
        BY <1>4 DEF Numbered
      <4> QED BY <1>2, <1>3, <4>1
    <3> QED BY <1>3, <2>2, <3>1
  <2> QED BY <1>2, <2>1, <2>2
<1>7. ASSUME Accounts(in, out, gone, acc) PROVE Accounts(new, newo, gone, acc)
  <2>1. \A x \in acc : \/ x \in gone
                       \/ \E i \in Inputs : x \in new[i]
                       \/ \E p \in Outputs : \E f \in newo[p] : f.job = x
    <3> TAKE x \in acc
    <3>1. CASE x = j
      BY <1>2, <1>3, <3>1
    <3>2. CASE x # j
      BY <1>1, <1>2, <1>7, <3>2 DEF Accounts
    <3> QED BY <3>1, <3>2
  <2>2. \A i \in Inputs : \A x \in new[i] :
          /\ x \notin gone
          /\ \A k \in Inputs \ {i} : x \notin new[k]
          /\ \A p \in Outputs : \A f \in newo[p] : f.job # x
    <3> TAKE i \in Inputs
    <3> TAKE x \in new[i]
    <3>1. x \in in[i] /\ x # j
      BY <1>1, <1>7 DEF Accounts
    <3> QED BY <1>1, <1>2, <1>3, <1>7, <3>1 DEF Accounts
  <2>3. \A p \in Outputs : \A f \in newo[p] :
          /\ f.job \notin gone
          /\ \A r \in Outputs : \A g \in newo[r] : g.job = f.job => r = p /\ g = f
    <3>1. \A p \in Outputs : \A f \in out[p] : f.job # j
      BY <1>7 DEF Accounts
    <3>2. j \notin gone
      BY <1>7 DEF Accounts
    <3>3. \A p \in Outputs : \A f \in newo[p] : f \in out[p] \/ (p = o /\ f = e)
      BY <1>2
    <3> QED BY <1>3, <1>7, <3>1, <3>2, <3>3 DEF Accounts
  <2> QED BY <2>1, <2>2, <2>3 DEF Accounts
<1> QED BY <1>5, <1>6, <1>7 DEF e, new, newo

\* A job of input queue q goes to the caller.
LEMMA MovedToCaller ==
  ASSUME NEW in, NEW out, Stored(in, out), NEW gone, NEW acc, Known(in, out, gone, acc),
         NEW q \in Inputs, NEW j \in in[q]
  PROVE  LET new == [in EXCEPT ![q] = @ \ {j}]
         IN  /\ Known(new, out, gone \cup {j}, acc)
             /\ Accounts(in, out, gone, acc) => Accounts(new, out, gone \cup {j}, acc)
<1> DEFINE new == [in EXCEPT ![q] = @ \ {j}]
<1>1. \A i \in Inputs : \A x : x \in new[i] <=> x \in in[i] /\ ~(i = q /\ x = j)
  BY DEF Stored
<1> HIDE DEF new
<1>2. Known(new, out, gone \cup {j}, acc)
  BY <1>1 DEF Known
<1>3. ASSUME Accounts(in, out, gone, acc) PROVE Accounts(new, out, gone \cup {j}, acc)
  <2>1. \A x \in acc : \/ x \in gone \cup {j}
                       \/ \E i \in Inputs : x \in new[i]
                       \/ \E p \in Outputs : \E f \in out[p] : f.job = x
    BY <1>1, <1>3 DEF Accounts
  <2>2. \A i \in Inputs : \A x \in new[i] : x \in in[i] /\ x # j
    BY <1>1, <1>3 DEF Accounts
  <2>3. \A p \in Outputs : \A f \in out[p] : f.job # j
    BY <1>3 DEF Accounts
  <2> QED BY <1>3, <2>1, <2>2, <2>3 DEF Accounts
<1> QED BY <1>2, <1>3 DEF new

\* A consumer takes an entry of output queue o.
LEMMA MovedToConsumer ==
  ASSUME NEW in, NEW out, Stored(in, out), NEW ts, NEW n, NEW gone, NEW acc,
         Known(in, out, gone, acc), Numbered(out, ts, n), NEW o \in Outputs, NEW e \in out[o]
  PROVE  LET new == [out EXCEPT ![o] = @ \ {e}]
         IN  /\ Known(in, new, gone \cup {e.job}, acc)
             /\ Numbered(new, ts, n)
             /\ Accounts(in, out, gone, acc) => Accounts(in, new, gone \cup {e.job}, acc)
<1> DEFINE new == [out EXCEPT ![o] = @ \ {e}]
<1>1. \A p \in Outputs : \A f : f \in new[p] <=> f \in out[p] /\ ~(p = o /\ f = e)
  BY DEF Stored
<1> HIDE DEF new
<1>2. Known(in, new, gone \cup {e.job}, acc)
  BY <1>1 DEF Known
<1>3. Numbered(new, ts, n)
  BY <1>1 DEF Numbered
<1>4. ASSUME Accounts(in, out, gone, acc) PROVE Accounts(in, new, gone \cup {e.job}, acc)
  <2>1. \A x \in acc : \/ x \in gone \cup {e.job}
                       \/ \E i \in Inputs : x \in in[i]
                       \/ \E p \in Outputs : \E f \in new[p] : f.job = x
    BY <1>1, <1>4 DEF Accounts
  <2>2. \A p \in Outputs : \A f \in new[p] : f \in out[p] /\ f.job # e.job
    BY <1>1, <1>4 DEF Accounts
  <2>3. \A i \in Inputs : \A x \in in[i] : x # e.job
    BY <1>4 DEF Accounts
  <2> QED BY <1>4, <2>1, <2>2, <2>3 DEF Accounts
<1> QED BY <1>2, <1>3, <1>4 DEF new

-----------------------------------------------------------------------------
(* schedule_out: what holds of a call, round after round.                  *)

CallState ==
  [input : [Inputs -> SUBSET Job], output : [Outputs -> SUBSET Entry], ts : Nat,
   last : JobTypes \cup {INVALID_JOB}, jobs : SUBSET Job, moved : Nat,
   index : Outputs \cup {0}, res : {SCHEDULE_FAIL, SCHEDULE_DONE}, over : BOOLEAN]

\* No job that has been taken is less urgent than one that is left.
Urgent(in) ==
  ~conf.round_robin =>
    \A i, l \in Inputs : \A j \in input[i], k \in in[l] :
      (\A m \in Inputs : j \notin in[m]) =>
        j.prio < k.prio \/ (j.prio = k.prio /\ j.deadline <= k.deadline)

CallSound(s) ==
  /\ s \in CallState
  /\ Stored(s.input, s.output)
  /\ Known(s.input, s.output, delivered \cup s.jobs, accepted)
  /\ Numbered(s.output, s.ts, s.moved)
  /\ Urgent(s.input)
  /\ \A i \in Inputs : s.input[i] \subseteq input[i]
  /\ Outputs # {} => s.jobs = {}

CallAccounts(s) == Accounts(s.input, s.output, delivered \cup s.jobs, accepted)

\* The queue and the output queues found in a round.
LEMMA QueueSelected ==
  ASSUME QueuesSet, NEW in \in [Inputs -> SUBSET Job], NEW last \in JobTypes \cup {INVALID_JOB},
         NEW q, q = SelectQueue(in, last), q # SCHEDULE_FAIL
  PROVE  /\ q \in Inputs /\ in[q] # {}
         /\ ~conf.round_robin =>
              \A k \in Inputs : in[k] # {} =>
                \/ input_queues[q].prio < input_queues[k].prio
                \/ input_queues[q].prio = input_queues[k].prio /\ Peek(in[q]) <= Peek(in[k])
<1>1. CASE conf.round_robin
  BY <1>1, RoundRobinChoice DEF SelectQueue, NonEmpty
<1>2. CASE ~conf.round_robin
  BY <1>2, FifoChoice DEF SelectQueue, NonEmpty
<1> QED BY <1>1, <1>2

LEMMA OutputSelected ==
  ASSUME QueuesSet, NEW s, NEW q \in Inputs, Outputs # {}, NEW o \in SuitableOutputs(s, q)
  PROVE  o \in Outputs /\ HasRoom(output_queues[o], s.output[o])
BY QueuesKnown DEF SuitableOutputs, OutputRoom

\* The jobs left are no more urgent than the one taken.
LEMMA StillUrgent ==
  ASSUME QueuesSet, NEW in, NEW out, Stored(in, out), Urgent(in),
         NEW last \in JobTypes \cup {INVALID_JOB}, NEW q \in Inputs, q = SelectQueue(in, last),
         NEW j \in Earliest(in[q])
  PROVE  Urgent([in EXCEPT ![q] = @ \ {j}])
<1> DEFINE new == [in EXCEPT ![q] = @ \ {j}]
<1>1. \A i \in Inputs : \A x : x \in new[i] <=> x \in in[i] /\ ~(i = q /\ x = j)
  BY DEF Stored
<1> HIDE DEF new
<1> SUFFICES ASSUME ~conf.round_robin, NEW i \in Inputs, NEW l \in Inputs,
                    NEW x \in input[i], NEW k \in new[l], \A m \in Inputs : x \notin new[m]
             PROVE  x.prio < k.prio \/ (x.prio = k.prio /\ x.deadline <= k.deadline)
  BY DEF Urgent, new
<1>2. k \in in[l]
  BY <1>1
<1>3. CASE \A m \in Inputs : x \notin in[m]
  BY <1>2, <1>3 DEF Urgent
<1>4. CASE x = j
  <2>1. in \in [Inputs -> SUBSET Job] /\ in[l] \in SUBSET Job /\ in[q] \in SUBSET Job
    BY DEF Stored
  <2>2. q # SCHEDULE_FAIL
    BY QueuesKnown DEF SCHEDULE_FAIL
  <2>3. \/ input_queues[q].prio < input_queues[l].prio
        \/ input_queues[q].prio = input_queues[l].prio /\ Peek(in[q]) <= Peek(in[l])
    BY <1>2, <2>1, <2>2, QueueSelected
  <2>4. j \in in[q] /\ j.deadline = Peek(in[q]) /\ Peek(in[q]) \in Nat
    BY <2>1, EarliestJob DEF Earliest
  <2>5. Peek(in[l]) <= k.deadline /\ Peek(in[l]) \in Nat /\ k.deadline \in Nat
    BY <1>2, <2>1, EarliestJob DEF Job
  <2>6. j.prio = input_queues[q].prio /\ k.prio = input_queues[l].prio
    BY <1>2, <2>4 DEF Stored
  <2> QED BY <1>4, <2>3, <2>4, <2>5, <2>6
<1> QED BY <1>1, <1>3, <1>4

\* The records that a round makes.
LEMMA CallStateType ==
  ASSUME NEW s \in CallState
  PROVE  /\ s = [input |-> s.input, output |-> s.output, ts |-> s.ts, last |-> s.last,
                 jobs |-> s.jobs, moved |-> s.moved, index |-> s.index, res |-> s.res,
                 over |-> s.over]
         /\ s.input \in [Inputs -> SUBSET Job] /\ s.output \in [Outputs -> SUBSET Entry]
         /\ s.ts \in Nat /\ s.last \in JobTypes \cup {INVALID_JOB} /\ s.jobs \in SUBSET Job
         /\ s.moved \in Nat /\ s.index \in Outputs \cup {0}
         /\ s.res \in {SCHEDULE_FAIL, SCHEDULE_DONE} /\ s.over \in BOOLEAN
BY DEF CallState

LEMMA ToOutputFields ==
  ASSUME NEW s \in CallState, NEW q \in Inputs, NEW j \in Job, NEW o \in Outputs
  PROVE  LET t == Take(ToOutput(s, o, j), q, j)
         IN  /\ t \in CallState
             /\ t.input = [s.input EXCEPT ![q] = @ \ {j}]
             /\ t.output = [s.output EXCEPT ![o] = @ \cup {[key |-> s.ts, nth |-> s.moved + 1, job |-> j]}]
             /\ t.ts = s.ts + 1 /\ t.moved = s.moved + 1 /\ t.jobs = s.jobs
             /\ t.res = SCHEDULE_DONE
<1> DEFINE e   == [key |-> s.ts, nth |-> s.moved + 1, job |-> j]
           in  == [s.input EXCEPT ![q] = @ \ {j}]
           out == [s.output EXCEPT ![o] = @ \cup {e}]
           t   == Take(ToOutput(s, o, j), q, j)
<1>1. e \in Entry /\ j.type \in JobTypes
  BY CallStateType DEF Entry, Job
<1>2. out \in [Outputs -> SUBSET Entry]
  <2> HIDE DEF e
  <2> QED BY <1>1, CallStateType
<1>3. in \in [Inputs -> SUBSET Job]
  BY CallStateType
<1>4. t = [input |-> in, output |-> out, ts |-> s.ts + 1, last |-> j.type, jobs |-> s.jobs,
           moved |-> s.moved + 1, index |-> o, res |-> SCHEDULE_DONE, over |-> s.over]
  <2> DEFINE u == ToOutput(s, o, j)
  <2>1. u = [input |-> s.input, output |-> out, ts |-> s.ts, last |-> s.last, jobs |-> s.jobs,
             moved |-> s.moved + 1, index |-> o, res |-> s.res, over |-> s.over]
    <3>1. u = [s EXCEPT !.output = out, !.moved = s.moved + 1, !.index = o]
      BY DEF ToOutput
    <3> DEFINE n == s.moved + 1
    <3>2. u = [s EXCEPT !.output = out, !.moved = n, !.index = o]
      BY <3>1
    <3>3. s = [input |-> s.input, output |-> s.output, ts |-> s.ts, last |-> s.last,
               jobs |-> s.jobs, moved |-> s.moved, index |-> s.index, res |-> s.res,
               over |-> s.over]
      BY CallStateType
    <3> HIDE DEF out, u, n
    <3>4. u = [input |-> s.input, output |-> out, ts |-> s.ts, last |-> s.last,
               jobs |-> s.jobs, moved |-> n, index |-> o, res |-> s.res, over |-> s.over]
      BY <3>2, <3>3
    <3> QED BY <3>4 DEF n
  <2>2. t = [u EXCEPT !.input[q] = @ \ {j}, !.last = j.type, !.ts = @ + 1, !.res = SCHEDULE_DONE]
    BY DEF Take
  <2>3. t = [u EXCEPT !.input = [u.input EXCEPT ![q] = @ \ {j}], !.last = j.type,
                      !.ts = u.ts + 1, !.res = SCHEDULE_DONE]
    BY <2>2
  <2> HIDE DEF out, u, t
  <2>4. [u.input EXCEPT ![q] = @ \ {j}] = in
    BY <2>1
  <2> HIDE DEF in
  <2> QED BY <2>1, <2>3, <2>4
<1> HIDE DEF e, in, out, t
<1>5. s.ts + 1 \in Nat /\ s.moved + 1 \in Nat /\ s.jobs \in SUBSET Job /\ s.over \in BOOLEAN
  BY CallStateType
<1>6. t \in CallState
  BY <1>1, <1>2, <1>3, <1>4, <1>5 DEF CallState
<1> QED BY <1>4, <1>6 DEF e, in, out, t

LEMMA ToCallerFields ==
  ASSUME NEW s \in CallState, NEW q \in Inputs, NEW j \in Job
  PROVE  LET t == Take(ToCaller(s, j), q, j)
         IN  /\ t \in CallState
             /\ t.input = [s.input EXCEPT ![q] = @ \ {j}]
             /\ t.output = s.output /\ t.jobs = s.jobs \cup {j} /\ t.moved = s.moved
             /\ t.ts = s.ts + 1 /\ t.res = SCHEDULE_DONE
<1> DEFINE in   == [s.input EXCEPT ![q] = @ \ {j}]
           jobs == s.jobs \cup {j}
           t    == Take(ToCaller(s, j), q, j)
<1>1. in \in [Inputs -> SUBSET Job] /\ j.type \in JobTypes /\ jobs \in SUBSET Job
  BY CallStateType DEF Job
<1>2. t = [input |-> in, output |-> s.output, ts |-> s.ts + 1, last |-> j.type, jobs |-> jobs,
           moved |-> s.moved, index |-> s.index, res |-> SCHEDULE_DONE, over |-> s.over]
  <2> DEFINE u == ToCaller(s, j)
  <2>1. u = [input |-> s.input, output |-> s.output, ts |-> s.ts, last |-> s.last, jobs |-> jobs,
             moved |-> s.moved, index |-> s.index, res |-> s.res, over |-> s.over]
    <3>1. u = [s EXCEPT !.jobs = jobs]
      BY DEF ToCaller
    <3> HIDE DEF jobs, u
    <3> QED BY <3>1, CallStateType
  <2>2. t = [u EXCEPT !.input = [u.input EXCEPT ![q] = @ \ {j}], !.last = j.type,
                      !.ts = u.ts + 1, !.res = SCHEDULE_DONE]
    BY DEF Take
  <2> HIDE DEF jobs, u, t
  <2>3. [u.input EXCEPT ![q] = @ \ {j}] = in
    BY <2>1
  <2> HIDE DEF in
  <2> QED BY <2>1, <2>2, <2>3
<1> HIDE DEF in, jobs, t
<1>3. s.ts + 1 \in Nat
  BY CallStateType
<1>4. t \in CallState
  BY <1>1, <1>2, <1>3, CallStateType DEF CallState
<1> QED BY <1>2, <1>4 DEF in, jobs, t

\* One round keeps what holds of a call.
LEMMA RoundKeeps ==
  ASSUME QueuesSet, NEW s, CallSound(s), NEW t \in Round(s)
  PROVE  /\ CallSound(t)
         /\ CallAccounts(s) => CallAccounts(t)
         /\ t.jobs = s.jobs \/ t.res = SCHEDULE_DONE
<1> DEFINE q == SelectQueue(s.input, s.last)
<1>0. /\ s \in CallState /\ Stored(s.input, s.output) /\ Urgent(s.input)
      /\ Known(s.input, s.output, delivered \cup s.jobs, accepted)
      /\ Numbered(s.output, s.ts, s.moved)
      /\ \A i \in Inputs : s.input[i] \subseteq input[i]
      /\ Outputs # {} => s.jobs = {}
  BY DEF CallSound
<1>1. ASSUME t \in CallState, t.input = s.input, t.output = s.output, t.ts = s.ts,
             t.jobs = s.jobs, t.moved = s.moved
      PROVE  CallSound(t) /\ (CallAccounts(s) => CallAccounts(t))
  BY <1>0, <1>1 DEF CallSound, CallAccounts
<1>2. CASE s.over
  BY <1>2 DEF Round
<1>3. CASE ~s.over /\ q = SCHEDULE_FAIL
  <2>1. t = [s EXCEPT !.res = SCHEDULE_FAIL, !.over = TRUE]
    BY <1>3 DEF Round
  <2>2. /\ t \in CallState /\ t.input = s.input /\ t.output = s.output /\ t.ts = s.ts
        /\ t.jobs = s.jobs /\ t.moved = s.moved
    BY <1>0, <2>1 DEF CallState
  <2> QED BY <1>1, <2>2
<1>4. CASE ~s.over /\ q # SCHEDULE_FAIL
  <2> SUFFICES ASSUME q # SCHEDULE_FAIL PROVE
        /\ CallSound(t)
        /\ CallAccounts(s) => CallAccounts(t)
        /\ t.jobs = s.jobs \/ t.res = SCHEDULE_DONE
    BY <1>4
  <2>1. s.input \in [Inputs -> SUBSET Job] /\ s.last \in JobTypes \cup {INVALID_JOB}
    BY <1>0, CallStateType
  <2>2. q \in Inputs
    BY <2>1, QueueSelected
  <2>3. s.input[q] \in SUBSET Job /\ \A j \in Earliest(s.input[q]) : j \in s.input[q] /\ j \in Job
    BY <2>1, <2>2 DEF Earliest
  <2>4. ASSUME NEW j \in Earliest(s.input[q])
        PROVE  LET in == [s.input EXCEPT ![q] = @ \ {j}]
               IN  Urgent(in) /\ Stored(in, s.output) /\ \A i \in Inputs : in[i] \subseteq input[i]
    <3>1. Urgent([s.input EXCEPT ![q] = @ \ {j}])
      BY <1>0, <2>1, <2>2, StillUrgent
    <3>2. Stored([s.input EXCEPT ![q] = @ \ {j}], s.output)
      BY <1>0, <2>2, StoredTake
    <3>3. \A i \in Inputs : [s.input EXCEPT ![q] = @ \ {j}][i] \subseteq input[i]
      BY <1>0, <2>1
    <3> QED BY <3>1, <3>2, <3>3
  <2>5. CASE Outputs = {}
    <3>1. PICK j \in Earliest(s.input[q]) : t = Take(ToCaller(s, j), q, j)
      BY <1>4, <2>5 DEF Round
    <3> DEFINE in == [s.input EXCEPT ![q] = @ \ {j}]
    <3>2. /\ t \in CallState /\ t.input = in /\ t.output = s.output /\ t.moved = s.moved
          /\ t.jobs = s.jobs \cup {j} /\ t.res = SCHEDULE_DONE
      BY <1>0, <2>2, <2>3, <3>1, ToCallerFields
    <3>3. /\ Known(in, s.output, (delivered \cup s.jobs) \cup {j}, accepted)
          /\ CallAccounts(s) => Accounts(in, s.output, (delivered \cup s.jobs) \cup {j}, accepted)
      BY <1>0, <2>2, <2>3, MovedToCaller DEF CallAccounts
    <3>4. delivered \cup t.jobs = (delivered \cup s.jobs) \cup {j}
      BY <3>2
    <3>5. Urgent(in) /\ Stored(in, s.output) /\ \A i \in Inputs : in[i] \subseteq input[i]
      BY <2>4
    <3>6. Numbered(t.output, t.ts, t.moved)
      BY <2>5 DEF Numbered
    <3> HIDE DEF in
    <3> QED BY <2>5, <3>2, <3>3, <3>4, <3>5, <3>6 DEF CallSound, CallAccounts
  <2>6. CASE Outputs # {} /\ SuitableOutputs(s, q) = {}
    <3>1. t = [s EXCEPT !.over = TRUE]
      BY <1>4, <2>6 DEF Round
    <3>2. /\ t \in CallState /\ t.input = s.input /\ t.output = s.output /\ t.ts = s.ts
          /\ t.jobs = s.jobs /\ t.moved = s.moved
      BY <1>0, <3>1 DEF CallState
    <3> QED BY <1>1, <3>2
  <2>7. CASE Outputs # {} /\ SuitableOutputs(s, q) # {}
    <3>1. PICK o \in SuitableOutputs(s, q), j \in Earliest(s.input[q]) :
            t = Take(ToOutput(s, o, j), q, j)
      BY <1>4, <2>7 DEF Round
    <3> DEFINE in  == [s.input EXCEPT ![q] = @ \ {j}]
               e   == [key |-> s.ts, nth |-> s.moved + 1, job |-> j]
               out == [s.output EXCEPT ![o] = @ \cup {e}]
    <3>2. o \in Outputs /\ HasRoom(output_queues[o], s.output[o])
      BY <2>2, <2>7, OutputSelected
    <3>3. /\ t \in CallState /\ t.input = in /\ t.output = out /\ t.ts = s.ts + 1
          /\ t.moved = s.moved + 1 /\ t.jobs = s.jobs /\ t.res = SCHEDULE_DONE
      BY <1>0, <2>2, <2>3, <3>1, <3>2, ToOutputFields
    <3>4. e \in Entry /\ s.ts \in Nat /\ s.moved \in Nat
      BY <1>0, <2>3, CallStateType DEF Entry
    <3>5. /\ Known(in, out, delivered \cup s.jobs, accepted)
          /\ Numbered(out, s.ts + 1, s.moved + 1)
          /\ CallAccounts(s) => Accounts(in, out, delivered \cup s.jobs, accepted)
      BY <1>0, <2>2, <2>3, <3>2, <3>4, MovedToOutput DEF CallAccounts
    <3>6. Urgent(in) /\ Stored(in, s.output) /\ \A i \in Inputs : in[i] \subseteq input[i]
      BY <2>4
    <3>7. Stored(in, out)
      <4> HIDE DEF in, e
      <4> QED BY <3>2, <3>4, <3>6, StoredPut
    <3> HIDE DEF in, e, out
    <3> QED BY <1>0, <3>3, <3>5, <3>6, <3>7 DEF CallSound, CallAccounts
  <2> QED BY <2>5, <2>6, <2>7
<1> QED BY <1>2, <1>3, <1>4, <1>0, <1>1

\* The calls after n rounds.
AfterStep(f, n) == IF n = 0 THEN {Start} ELSE UNION {Round(s) : s \in f[n - 1]}

After == CHOOSE f : f = [n \in 0 .. Rounds |-> AfterStep(f, n)]

LEMMA AfterReturns ==
  ASSUME QueuesSet
  PROVE  /\ Outcomes = After[Rounds] /\ After[0] = {Start}
         /\ \A n \in 1 .. Rounds : After[n] = UNION {Round(s) : s \in After[n - 1]}
<1> DEFINE Dom == 0 .. Rounds
           Upto(f, k) == \A n \in Dom : n < k => f[n] = AfterStep(f, n)
           S == {k \in Nat : \E f : Upto(f, k)}
<1>0. Rounds \in Nat
  BY QueuesKnown
<1>1. 0 \in S
  BY <1>0
<1>2. ASSUME NEW k \in Nat, k \in S PROVE k + 1 \in S
  <2>1. PICK f : Upto(f, k)
    BY <1>2
  <2> DEFINE g == [n \in Dom |-> AfterStep(f, n)]
  <2>2. \A n \in Dom : g[n] = AfterStep(f, n)
    OBVIOUS
  <2>3. \A n \in Dom : n < k => g[n] = f[n]
    BY <2>1, <2>2
  <2> HIDE DEF g
  <2>4. ASSUME NEW n \in Dom, n < k + 1 PROVE g[n] = AfterStep(g, n)
    <3>1. CASE n = 0
      BY <2>2, <3>1 DEF AfterStep
    <3>2. CASE n # 0
      <4>1. g[n - 1] = f[n - 1]
        BY <1>0, <2>3, <2>4, <3>2
      <4> QED BY <2>2, <3>2, <4>1 DEF AfterStep
    <3> QED BY <3>1, <3>2
  <2> QED BY <2>4
<1>3. \A k \in Nat : k \in S
  <2> HIDE DEF S
  <2> QED BY <1>1, <1>2, SetInduction
<1>4. PICK f : Upto(f, Rounds + 1)
  BY <1>0, <1>3
<1> DEFINE h == [n \in Dom |-> f[n]]
<1>5. \A n \in Dom : h[n] = AfterStep(h, n)
  <2>1. \A n \in Dom : h[n] = f[n] /\ f[n] = AfterStep(f, n)
    BY <1>0, <1>4
  <2> HIDE DEF h
  <2> TAKE n \in Dom
  <2>2. CASE n = 0
    BY <2>1, <2>2 DEF AfterStep
  <2>3. CASE n # 0
    <3>1. h[n - 1] = f[n - 1]
      BY <1>0, <2>1, <2>3
    <3> QED BY <2>1, <2>3, <3>1 DEF AfterStep
  <2> QED BY <2>2, <2>3
<1>6. h = [n \in Dom |-> AfterStep(h, n)]
  <2>1. h = [n \in Dom |-> h[n]]
    OBVIOUS
  <2> HIDE DEF h
  <2> QED BY <1>5, <2>1
<1>7. After = [n \in Dom |-> AfterStep(After, n)]
  <2> HIDE DEF h
  <2> QED BY <1>6 DEF After
<1>8. Outcomes = After[Rounds]
  BY DEF Outcomes, After, AfterStep
<1>9. After[0] = {Start}
  <2>1. After[0] = AfterStep(After, 0)
    BY <1>0, <1>7
  <2> QED BY <2>1 DEF AfterStep
<1>10. ASSUME NEW n \in 1 .. Rounds PROVE After[n] = UNION {Round(s) : s \in After[n - 1]}
  <2>1. After[n] = AfterStep(After, n) /\ n # 0
    BY <1>0, <1>7
  <2> QED BY <2>1 DEF AfterStep
<1> QED BY <1>8, <1>9, <1>10

\* A call begins with the queues as they are.
LEMMA StartSound ==
  ASSUME QueuesSet, Stored(input, output), Known(input, output, delivered, accepted),
         Numbered(output, scheduler_timestamp, moved),
         scheduler_timestamp \in Nat, moved \in Nat, last_schedule_out \in JobTypes \cup {INVALID_JOB}
  PROVE  /\ CallSound(Start) /\ Start.jobs = {}
         /\ Accounts(input, output, delivered, accepted) => CallAccounts(Start)
<1>1. StartTimestamp \in Nat
  BY DEF StartTimestamp
<1>2. Start \in CallState
  BY <1>1 DEF Start, CallState, Stored
<1>3. /\ Start.input = input /\ Start.output = output /\ Start.ts = StartTimestamp
      /\ Start.jobs = {} /\ Start.moved = moved
  BY DEF Start
<1>4. Numbered(output, StartTimestamp, moved)
  BY DEF Numbered, StartTimestamp, Empty
<1>5. Urgent(input)
  BY DEF Urgent
<1>6. delivered \cup {} = delivered
  OBVIOUS
<1> QED BY <1>2, <1>3, <1>4, <1>5, <1>6 DEF CallSound, CallAccounts

\* A caller that asks for one job, or has output queues, never loses a result.
OneJobPerCall(c) == c.events_to_schedule \in {0, 1}
ResultsUsed(c)   == OneJobPerCall(c) \/ DOMAIN c.output # {}

\* Whatever a call may end in.
LEMMA OutcomesSound ==
  ASSUME QueuesSet, CallSound(Start), Start.jobs = {}, NEW s \in Outcomes
  PROVE  /\ CallSound(s)
         /\ CallAccounts(Start) => CallAccounts(s)
         /\ ResultsUsed(conf) => s.jobs = {} \/ s.res = SCHEDULE_DONE
<1> DEFINE Good(t) == CallSound(t) /\ (CallAccounts(Start) => CallAccounts(t))
           S == {n \in Nat : n \in 0 .. Rounds => \A t \in After[n] : Good(t)}
<1>0. Rounds \in Nat \ {0}
  BY QueuesKnown
<1>1. /\ After[0] = {Start}
      /\ \A n \in 1 .. Rounds : After[n] = UNION {Round(r) : r \in After[n - 1]}
  BY AfterReturns
<1>2. 0 \in S
  BY <1>1
<1>3. ASSUME NEW n \in Nat, n \in S PROVE n + 1 \in S
  <2> SUFFICES ASSUME n + 1 \in 0 .. Rounds, NEW t \in After[n + 1] PROVE Good(t)
    OBVIOUS
  <2>1. n \in 0 .. Rounds /\ n + 1 \in 1 .. Rounds /\ (n + 1) - 1 = n
    BY <1>0
  <2>2. PICK r \in After[n] : t \in Round(r)
    <3>1. After[n + 1] = UNION {Round(r) : r \in After[n]}
      BY <1>1, <2>1
    <3> QED BY <3>1
  <2>3. Good(r)
    BY <1>3, <2>1
  <2> QED BY <2>2, <2>3, RoundKeeps
<1>4. \A n \in Nat : n \in S
  <2> HIDE DEF S
  <2> QED BY <1>2, <1>3, SetInduction
<1>5. s \in After[Rounds]
  BY AfterReturns
<1>6. Good(s)
  BY <1>0, <1>4, <1>5
<1>7. ASSUME ResultsUsed(conf) PROVE s.jobs = {} \/ s.res = SCHEDULE_DONE
  <2>1. CASE Outputs # {}
    BY <1>6, <2>1 DEF CallSound
  <2>2. CASE OneJobPerCall(conf)
    <3>1. Rounds = 1
      BY <2>2 DEF Rounds, OneJobPerCall
    <3>2. s \in Round(Start)
      <4>1. 1 \in 1 .. Rounds /\ 1 - 1 = 0
        BY <3>1
      <4>2. After[1] = UNION {Round(t) : t \in After[0]}
        BY <1>1, <4>1
      <4> QED BY <1>1, <1>5, <3>1, <4>2
    <3> QED BY <3>2, RoundKeeps
  <2>3. DOMAIN conf.output = Outputs
    <3>1. PICK m \in Nat : conf.output \in [0 .. m - 1 -> QueueConf]
      BY ArraysKnown DEF QueuesSet
    <3>2. output_queues \in [0 .. m - 1 -> QueueConf]
      BY <3>1, ArraySorted DEF QueuesSet, NewPrioScheduler
    <3> QED BY <3>1, <3>2 DEF Outputs
  <2> QED BY <1>7, <2>1, <2>2, <2>3 DEF ResultsUsed
<1> QED BY <1>6, <1>7

-----------------------------------------------------------------------------
(* The invariant.                                                          *)

SchedulerInv ==
  /\ QueuesSet
  /\ scheduler_timestamp \in Nat /\ moved \in Nat /\ offered \in Nat
  /\ last_schedule_out \in JobTypes \cup {INVALID_JOB}
  /\ \A j \in accepted : j \in Job /\ j.id <= offered
  /\ Stored(input, output)
  /\ Known(input, output, delivered, accepted)
  /\ Numbered(output, scheduler_timestamp, moved)

Accounted == Accounts(input, output, delivered, accepted)

LEMMA InitSound == Init => SchedulerInv /\ Accounted
<1> SUFFICES ASSUME Init PROVE SchedulerInv /\ Accounted
  OBVIOUS
<1>1. QueuesSet
  BY DEF Init, QueuesSet, NewPrioScheduler
<1>2. \A i \in Inputs : input[i] = {} /\ input_queues[i] \in QueueConf
  BY <1>1, QueuesKnown DEF Init
<1>3. \A o \in Outputs : output[o] = {} /\ output_queues[o] \in QueueConf
  BY <1>1, QueuesKnown DEF Init
<1>4. \A queue \in QueueConf : IsFiniteSet({}) /\ Fits(queue, {})
  BY FS_EmptySet DEF Fits, QueueConf, Infinite
<1>5. input \in [Inputs -> SUBSET Job] /\ output \in [Outputs -> SUBSET Entry]
  BY DEF Init
<1>6. Stored(input, output)
  BY <1>2, <1>3, <1>4, <1>5 DEF Stored
<1>7. Known(input, output, delivered, accepted) /\ Numbered(output, scheduler_timestamp, moved)
  BY <1>2, <1>3 DEF Init, Known, Numbered
<1>8. Accounted
  BY <1>2, <1>3 DEF Init, Accounted, Accounts
<1> QED BY <1>1, <1>6, <1>7, <1>8 DEF Init, SchedulerInv

\* What depends on the arrays of queues does not change with them.
LEMMA QueuesFixed ==
  ASSUME UNCHANGED fixed
  PROVE  /\ Inputs' = Inputs /\ Outputs' = Outputs
         /\ QueuesSet => QueuesSet'
         /\ Stored(input', output') => Stored(input, output)'
         /\ Known(input', output', delivered', accepted') => Known(input, output, delivered, accepted)'
         /\ Numbered(output', scheduler_timestamp', moved') => Numbered(output, scheduler_timestamp, moved)'
         /\ Accounts(input', output', delivered', accepted') => Accounted'
<1>1. conf' = conf /\ input_queues' = input_queues /\ output_queues' = output_queues
  BY DEF fixed
<1>2. Inputs' = Inputs /\ Outputs' = Outputs
  BY <1>1 DEF Inputs, Outputs
<1>3. QueuesSet => QueuesSet'
  BY <1>1 DEF QueuesSet, NewPrioScheduler
<1>4. Stored(input', output') => Stored(input, output)'
  BY <1>1, <1>2 DEF Stored
<1>5. Known(input', output', delivered', accepted') => Known(input, output, delivered, accepted)'
  BY <1>2 DEF Known
<1>6. Numbered(output', scheduler_timestamp', moved') => Numbered(output, scheduler_timestamp, moved)'
  BY <1>2 DEF Numbered
<1>7. Accounts(input', output', delivered', accepted') => Accounted'
  BY <1>2 DEF Accounts, Accounted
<1> QED BY <1>2, <1>3, <1>4, <1>5, <1>6, <1>7

LEMMA ScheduleInKeeps ==
  ASSUME SchedulerInv, ScheduleInStep
  PROVE  /\ SchedulerInv' /\ (Accounted => Accounted')
         /\ \A i \in Inputs : input[i] \subseteq input'[i]
<1>0. /\ QueuesSet /\ offered \in Nat /\ Stored(input, output)
      /\ Known(input, output, delivered, accepted)
      /\ Numbered(output, scheduler_timestamp, moved)
      /\ \A j \in accepted : j \in Job /\ j.id <= offered
  BY DEF SchedulerInv
<1>1. PICK of \in conf.offers : ScheduleIn([id |-> offered + 1, prio |-> of.prio, type |-> of.type,
                                            deadline |-> of.deadline])
  BY DEF ScheduleInStep
<1> DEFINE job == [id |-> offered + 1, prio |-> of.prio, type |-> of.type, deadline |-> of.deadline]
<1>2. job \in Job /\ job \notin accepted /\ job.id = offered + 1
  <2>1. of \in Offer
    BY <1>0, SchedulerAssumption DEF QueuesSet
  <2> QED BY <1>0, <2>1 DEF Offer, Job
<1> HIDE DEF job
<1>3. /\ offered' = offered + 1
      /\ input' = [i \in Inputs |-> IF FirstTaking(i, job) THEN input[i] \cup {job} ELSE input[i]]
      /\ accepted' = accepted \cup {j \in {job} : \E i \in Inputs : FirstTaking(i, j)}
      /\ UNCHANGED <<fixed, output, scheduler_timestamp, last_schedule_out, moved, delivered>>
  BY <1>1 DEF ScheduleIn, job
<1>4. \A i, k \in Inputs : FirstTaking(i, job) /\ FirstTaking(k, job) => i = k
  <2>1. \A i \in Inputs : i \in Int
    BY <1>0, QueuesKnown
  <2> QED BY <2>1 DEF FirstTaking
<1>5. \A i \in Inputs : \A x : x \in input'[i] <=> x \in input[i] \/ (FirstTaking(i, job) /\ x = job)
  BY <1>3
<1>6. \A x : x \in accepted' <=> x \in accepted \/ (x = job /\ \E i \in Inputs : FirstTaking(i, job))
  BY <1>3
<1>7. Stored(input', output')
  <2>1. input' \in [Inputs -> SUBSET Job]
    BY <1>0, <1>2, <1>3 DEF Stored
  <2>2. ASSUME NEW i \in Inputs
        PROVE  /\ IsFiniteSet(input'[i]) /\ Fits(input_queues[i], input'[i])
               /\ \A j \in input'[i] : j.prio = input_queues[i].prio
    <3>1. CASE FirstTaking(i, job)
      <4>1. input'[i] = input[i] \cup {job}
        BY <1>3, <3>1
      <4>2. input_queues[i] \in QueueConf /\ IsFiniteSet(input[i])
        BY <1>0, QueuesKnown DEF Stored
      <4>3. HasRoom(input_queues[i], input[i]) /\ input_queues[i].prio = job.prio
        BY <3>1 DEF FirstTaking, Takes
      <4>4. IsFiniteSet(input'[i]) /\ Fits(input_queues[i], input'[i])
        BY <4>1, <4>2, <4>3, OneMore
      <4> QED BY <1>0, <4>1, <4>3, <4>4 DEF Stored
    <3>2. CASE ~FirstTaking(i, job)
      <4>1. input'[i] = input[i]
        BY <1>3, <3>2
      <4> QED BY <1>0, <4>1 DEF Stored
    <3> QED BY <3>1, <3>2
  <2> QED BY <1>0, <1>3, <2>1, <2>2 DEF Stored
<1>8. Known(input', output', delivered', accepted')
  BY <1>0, <1>3, <1>5, <1>6 DEF Known
<1>9. Numbered(output', scheduler_timestamp', moved')
  BY <1>0, <1>3
<1>10. \A j \in accepted' : j \in Job /\ j.id <= offered'
  <2>1. \A j \in accepted : j.id \in Nat
    BY <1>0 DEF Job
  <2> QED BY <1>0, <1>2, <1>3, <1>6, <2>1
<1>11. ASSUME Accounted PROVE Accounts(input', output', delivered', accepted')
  <2> USE DEF Accounted
  <2>1. /\ job \notin delivered
        /\ \A i \in Inputs : job \notin input[i]
        /\ \A o \in Outputs : \A e \in output[o] : e.job # job
    BY <1>0, <1>2 DEF Known
  <2>2. \A j \in accepted' : \/ j \in delivered
                             \/ \E i \in Inputs : j \in input'[i]
                             \/ \E o \in Outputs : \E e \in output[o] : e.job = j
    BY <1>5, <1>6, <1>11 DEF Accounts
  <2>3. \A i \in Inputs : \A j \in input'[i] :
          /\ j \notin delivered
          /\ \A k \in Inputs \ {i} : j \notin input'[k]
          /\ \A o \in Outputs : \A e \in output[o] : e.job # j
    BY <1>4, <1>5, <1>11, <2>1 DEF Accounts
  <2> QED BY <1>3, <1>11, <2>2, <2>3 DEF Accounts
<1>12. UNCHANGED fixed
  BY <1>3
<1>13. SchedulerInv'
  <2>1. /\ QueuesSet' /\ Stored(input, output)' /\ Known(input, output, delivered, accepted)'
        /\ Numbered(output, scheduler_timestamp, moved)'
    BY <1>0, <1>7, <1>8, <1>9, <1>12, QueuesFixed
  <2> QED BY <1>3, <1>10, <2>1 DEF SchedulerInv
<1> QED BY <1>5, <1>11, <1>12, <1>13, QueuesFixed

LEMMA ScheduleOutKeeps ==
  ASSUME SchedulerInv, ScheduleOut
  PROVE  /\ SchedulerInv' /\ (ResultsUsed(conf) /\ Accounted => Accounted')
         /\ Urgent(input')
<1>0. /\ QueuesSet /\ Stored(input, output)
      /\ Known(input, output, delivered, accepted)
      /\ Numbered(output, scheduler_timestamp, moved)
      /\ scheduler_timestamp \in Nat /\ moved \in Nat
      /\ last_schedule_out \in JobTypes \cup {INVALID_JOB}
  BY DEF SchedulerInv
<1>1. PICK s \in Outcomes :
        /\ input' = s.input /\ output' = s.output /\ scheduler_timestamp' = s.ts
        /\ last_schedule_out' = s.last /\ moved' = s.moved
        /\ delivered' = IF s.res = SCHEDULE_DONE THEN delivered \cup s.jobs ELSE delivered
  BY DEF ScheduleOut
<1>2. UNCHANGED fixed /\ offered' = offered /\ accepted' = accepted
  BY DEF ScheduleOut
<1>3. CallSound(Start) /\ Start.jobs = {} /\ (Accounted => CallAccounts(Start))
  BY <1>0, StartSound DEF Accounted
<1>4. /\ CallSound(s) /\ (CallAccounts(Start) => CallAccounts(s))
      /\ ResultsUsed(conf) => s.jobs = {} \/ s.res = SCHEDULE_DONE
  BY <1>0, <1>3, OutcomesSound
<1>5. /\ s \in CallState /\ Stored(s.input, s.output) /\ Urgent(s.input)
      /\ Known(s.input, s.output, delivered \cup s.jobs, accepted)
      /\ Numbered(s.output, s.ts, s.moved)
  BY <1>4 DEF CallSound
<1>6. s.ts \in Nat /\ s.moved \in Nat /\ s.last \in JobTypes \cup {INVALID_JOB}
  BY <1>5, CallStateType
<1>7. Known(s.input, s.output, delivered', accepted)
  BY <1>1, <1>5 DEF Known
<1>8. SchedulerInv'
  <2>1. /\ QueuesSet' /\ Stored(input, output)' /\ Known(input, output, delivered, accepted)'
        /\ Numbered(output, scheduler_timestamp, moved)'
    BY <1>0, <1>1, <1>2, <1>5, <1>7, QueuesFixed
  <2> QED BY <1>1, <1>2, <1>6, <2>1 DEF SchedulerInv
<1>9. ASSUME ResultsUsed(conf), Accounted PROVE Accounted'
  <2>1. delivered' = delivered \cup s.jobs
    BY <1>1, <1>4, <1>9
  <2>2. Accounts(s.input, s.output, delivered \cup s.jobs, accepted)
    BY <1>3, <1>4, <1>9 DEF CallAccounts
  <2> QED BY <1>1, <1>2, <2>1, <2>2, QueuesFixed
<1> QED BY <1>1, <1>5, <1>8, <1>9

LEMMA ServeKeeps ==
  ASSUME SchedulerInv, ServeStep
  PROVE  SchedulerInv' /\ (Accounted => Accounted') /\ input' = input
<1>0. /\ QueuesSet /\ Stored(input, output)
      /\ Known(input, output, delivered, accepted)
      /\ Numbered(output, scheduler_timestamp, moved)
  BY DEF SchedulerInv
<1>queue. PICK o \in Outputs : Serve(o)
  BY DEF ServeStep
<1>1. PICK e \in output[o] :
        /\ output' = [output EXCEPT ![o] = @ \ {e}]
        /\ delivered' = delivered \cup {e.job}
  BY <1>queue DEF Serve
<1>2. /\ UNCHANGED <<fixed, input, scheduler_timestamp, last_schedule_out, offered, accepted, moved>>
  BY <1>queue DEF Serve
<1>3. Stored(input, [output EXCEPT ![o] = @ \ {e}])
  BY <1>0, StoredServe
<1> DEFINE new == [output EXCEPT ![o] = @ \ {e}]
<1>4. /\ Known(input, new, delivered \cup {e.job}, accepted)
      /\ Numbered(new, scheduler_timestamp, moved)
      /\ Accounted => Accounts(input, new, delivered \cup {e.job}, accepted)
  BY <1>0, MovedToConsumer DEF Accounted
<1> HIDE DEF new
<1>5. output' = new /\ Stored(input, new)
  BY <1>1, <1>3 DEF new
<1>6. UNCHANGED fixed
  BY <1>2
<1>7. /\ QueuesSet' /\ Stored(input, output)' /\ Known(input, output, delivered, accepted)'
      /\ Numbered(output, scheduler_timestamp, moved)' /\ (Accounted => Accounted')
  BY <1>0, <1>1, <1>2, <1>4, <1>5, <1>6, QueuesFixed
<1> QED BY <1>2, <1>7 DEF SchedulerInv

LEMMA StutterKeeps ==
  ASSUME SchedulerInv, UNCHANGED vars
  PROVE  SchedulerInv' /\ (Accounted => Accounted') /\ input' = input
<1>1. UNCHANGED fixed
  BY DEF vars
<1>2. /\ input' = input /\ output' = output /\ scheduler_timestamp' = scheduler_timestamp
      /\ last_schedule_out' = last_schedule_out /\ offered' = offered /\ accepted' = accepted
      /\ moved' = moved /\ delivered' = delivered
  BY DEF vars
<1>3. /\ QueuesSet' /\ Stored(input, output)' /\ Known(input, output, delivered, accepted)'
      /\ Numbered(output, scheduler_timestamp, moved)' /\ (Accounted => Accounted')
  BY <1>1, <1>2, QueuesFixed DEF SchedulerInv, Accounted
<1> QED BY <1>2, <1>3 DEF SchedulerInv

LEMMA StepKeeps == SchedulerInv /\ [Next]_vars => SchedulerInv'
BY ScheduleInKeeps, ScheduleOutKeeps, ServeKeeps, StutterKeeps DEF Next

\* The invariant holds of every scheduler.
THEOREM SchedulerInvariant == Spec => []SchedulerInv
<1>1. Init => SchedulerInv
  BY InitSound
<1> QED BY <1>1, StepKeeps, PTL DEF Spec

-----------------------------------------------------------------------------
(* The theorems.                                                           *)

\* The types, the room of every queue, and the order of the queues themselves:
\* for queues that queue_quick_sort.c can sort, those of one type and one priority.
THEOREM TypeCorrect ==
  ASSUME \A c \in Configurations : OnePrioPerType(c.input) /\ OnePrioPerType(c.output)
  PROVE  Spec => []TypeOK
<1>1. SchedulerInv => TypeOK
  <2> SUFFICES ASSUME SchedulerInv PROVE TypeOK
    OBVIOUS
  <2>0. QueuesSet /\ Stored(input, output) /\ delivered \subseteq accepted
    BY DEF SchedulerInv, Known
  <2>1. PICK n \in Nat : conf.input \in [0 .. n - 1 -> QueueConf]
    BY <2>0, ArraysKnown DEF QueuesSet
  <2>2. PICK m \in Nat : conf.output \in [0 .. m - 1 -> QueueConf]
    BY <2>0, ArraysKnown DEF QueuesSet
  <2>3. OnePrioPerType(conf.input) /\ OnePrioPerType(conf.output)
    BY <2>0 DEF QueuesSet
  <2>4. SortedFrom(conf.input, input_queues)
    BY <2>0, <2>1, <2>3, ArraySorted DEF SortedFrom, QueuesSet, NewPrioScheduler
  <2>5. SortedFrom(conf.output, output_queues)
    BY <2>0, <2>2, <2>3, ArraySorted DEF SortedFrom, QueuesSet, NewPrioScheduler
  <2>6. \A o \in Outputs : \A e \in output[o] : e.job \in Job /\ e.key \in Nat
    BY <2>0 DEF Stored, Entry
  <2> QED BY <2>0, <2>4, <2>5, <2>6 DEF TypeOK, SchedulerInv, Stored
<1> QED BY <1>1, SchedulerInvariant, PTL

\* An output queue gives out its jobs in the order in which they were moved there:
\* for any queues, any rooms and any number of jobs per call.
THEOREM AlwaysOutputInOrder == Spec => []OutputInOrder
<1>1. SchedulerInv => OutputInOrder
  BY DEF SchedulerInv, Numbered, OutputInOrder
<1> QED BY <1>1, SchedulerInvariant, PTL

\* No job is lost and none is doubled, provided a call is asked for one job or there
\* are output queues.  With several jobs per call and no output queue it is false:
\* priority_scheduler.c:101 (run SchedulerTwoPerCall).
THEOREM AlwaysAccounted ==
  ASSUME \A c \in Configurations : ResultsUsed(c)
  PROVE  Spec => []JobsAccounted
<1> DEFINE Inv == SchedulerInv /\ Accounted
<1>1. Init => Inv
  BY InitSound
<1>2. Inv /\ [Next]_vars => Inv'
  <2>1. SchedulerInv => ResultsUsed(conf)
    BY DEF SchedulerInv, QueuesSet
  <2> QED BY <2>1, ScheduleInKeeps, ScheduleOutKeeps, ServeKeeps, StutterKeeps DEF Next
<1>3. Inv => JobsAccounted
  <2> SUFFICES ASSUME Inv PROVE JobsAccounted
    OBVIOUS
  <2>1. Known(input, output, delivered, accepted) /\ Accounts(input, output, delivered, accepted)
    BY DEF SchedulerInv, Accounted
  <2>2. \A x : x \in Waiting <=> \E i \in Inputs : x \in input[i]
    BY DEF Waiting
  <2>3. \A x : x \in InOutput <=> \E o \in Outputs : \E e \in output[o] : e.job = x
    BY DEF InOutput
  <2>4. accepted = Waiting \cup InOutput \cup delivered
    BY <2>1, <2>2, <2>3 DEF Known, Accounts
  <2>5. Waiting \cap InOutput = {}
    BY <2>1, <2>2, <2>3 DEF Accounts
  <2>6. delivered \cap (Waiting \cup InOutput) = {}
    BY <2>1, <2>2, <2>3 DEF Accounts
  <2>7. \A i, k \in Inputs : i # k => input[i] \cap input[k] = {}
    BY <2>1 DEF Accounts
  <2> QED BY <2>4, <2>5, <2>6, <2>7 DEF JobsAccounted
<1> HIDE DEF Inv
<1> QED BY <1>1, <1>2, <1>3, PTL DEF Spec

\* Under FIFO a call takes a job only when no more urgent one that was free to go
\* stays behind, however many jobs it takes.
THEOREM AlwaysMostUrgentFirst == Spec => MostUrgentFirst
<1> DEFINE Step == \A j \in Taken, k \in FreeToGo' :
                     offered' = offered /\ ~conf.round_robin =>
                       j.prio < k.prio \/ (j.prio = k.prio /\ j.deadline <= k.deadline)
<1>1. SchedulerInv /\ [Next]_vars => [Step]_vars
  <2> SUFFICES ASSUME SchedulerInv, Next PROVE Step
    OBVIOUS
  <2>0. Inputs' = Inputs
    BY DEF Next, ScheduleInStep, ScheduleIn, ScheduleOut, ServeStep, Serve, fixed, Inputs
  <2>1. \A x : x \in Waiting <=> \E i \in Inputs : x \in input[i]
    BY DEF Waiting
  <2>2. \A x : x \in Waiting' <=> \E i \in Inputs : x \in input'[i]
    BY <2>0 DEF Waiting
  <2>3. \A x \in FreeToGo' : x \in Waiting'
    BY DEF FreeToGo, Waiting
  <2>4. CASE ScheduleInStep
    <3>1. \A x \in Waiting : x \in Waiting'
      BY <2>1, <2>2, <2>4, ScheduleInKeeps
    <3> QED BY <3>1 DEF Taken
  <2>5. CASE ScheduleOut
    <3>1. Urgent(input')
      BY <2>5, ScheduleOutKeeps
    <3> QED BY <2>1, <2>2, <2>3, <3>1 DEF Taken, Urgent
  <2>6. CASE ServeStep
    <3>1. input' = input
      BY <2>6, ServeKeeps
    <3>2. \A x \in Waiting : x \in Waiting'
      BY <2>1, <2>2, <3>1
    <3> QED BY <3>2 DEF Taken
  <2> QED BY <2>4, <2>5, <2>6 DEF Next
<1> HIDE DEF Step
<1>2. SchedulerInv /\ [Next]_vars => [Step]_vars
  BY <1>1
<1>3. Spec => [][Step]_vars
  BY <1>2, SchedulerInvariant, PTL DEF Spec
<1> QED BY <1>3 DEF MostUrgentFirst, Step

-----------------------------------------------------------------------------
(* The schedulers of the stations: five queues of one priority, one for    *)
(* each type, that the sort has rotated by one.                            *)

\* A job waits in a queue for its type.
TypesMatch == \A i \in Inputs : \A j \in input[i] : input_queues[i].type \in {INVALID_JOB, j.type}

LEMMA TypesAlwaysMatch == Spec => [](SchedulerInv /\ TypesMatch)
<1>1. Init => TypesMatch
  BY DEF Init, TypesMatch
<1>2. SchedulerInv /\ TypesMatch /\ [Next]_vars => TypesMatch'
  <2> SUFFICES ASSUME SchedulerInv, TypesMatch, [Next]_vars PROVE TypesMatch'
    OBVIOUS
  <2>0. input_queues' = input_queues /\ Inputs' = Inputs
    BY DEF Next, ScheduleInStep, ScheduleIn, ScheduleOut, ServeStep, Serve, fixed, vars, Inputs
  <2>1. CASE ScheduleInStep
    <3>1. PICK o \in conf.offers :
            ScheduleIn([id |-> offered + 1, prio |-> o.prio, type |-> o.type, deadline |-> o.deadline])
      BY <2>1 DEF ScheduleInStep
    <3> DEFINE job == [id |-> offered + 1, prio |-> o.prio, type |-> o.type, deadline |-> o.deadline]
    <3>2. \A i \in Inputs : \A j \in input'[i] : j \in input[i] \/ (j = job /\ Takes(i, job))
      BY <3>1 DEF ScheduleIn, FirstTaking
    <3> HIDE DEF job
    <3> QED BY <2>0, <3>2 DEF TypesMatch, Takes
  <2>2. CASE ScheduleOut
    <3>1. PICK s \in Outcomes : input' = s.input
      BY <2>2 DEF ScheduleOut
    <3>2. CallSound(Start) /\ Start.jobs = {}
      BY StartSound DEF SchedulerInv
    <3>3. \A i \in Inputs : s.input[i] \subseteq input[i]
      BY <3>2, OutcomesSound DEF SchedulerInv, CallSound
    <3> QED BY <2>0, <3>1, <3>3 DEF TypesMatch
  <2>3. CASE ServeStep \/ UNCHANGED vars
    <3>1. input' = input
      BY <2>3, ServeKeeps, StutterKeeps
    <3> QED BY <2>0, <3>1 DEF TypesMatch
  <2> QED BY <2>1, <2>2, <2>3 DEF Next
<1> QED BY <1>1, <1>2, SchedulerInvariant, PTL DEF Spec

LEMMA StationQueuesSorted ==
  ASSUME QueuesSet, IsStation(conf)
  PROVE  /\ Inputs = 0 .. 4 /\ Outputs = {}
         /\ \A i \in 0 .. 4 : /\ input_queues[i].prio = 0
                              /\ input_queues[i].type = IF i = 0 THEN 4 ELSE i - 1
<1> DEFINE a == conf.input
<1>1. a = [i \in 0 .. 4 |-> [prio |-> 0, type |-> i, room |-> Infinite]]
  BY DEF IsStation, StationQueues, JobTypes, NUM_OF_JOB_TYPE
<1>2. a \in QSP!Arrays(5, QueueConf)
  <2>1. \A i \in 0 .. 4 : [prio |-> 0, type |-> i, room |-> Infinite] \in QueueConf
    BY DEF QueueConf, Prios, NUM_OF_PRIO_TYPES, JobTypes, NUM_OF_JOB_TYPE
  <2> QED BY <1>1, <2>1 DEF QSP!Arrays
<1>3. \A i \in 0 .. 4 : a[i].prio = 0 /\ a[i].type = i
  BY <1>1
<1> HIDE DEF a
<1>4. QSP!EqualKeys(a, 5)
  BY <1>3 DEF QSP!EqualKeys, Prio
<1>5. \A i, k \in 0 .. 5 - 1 : i # k => ~ SameType(a[i], a[k])
  BY <1>3 DEF SameType
<1>6. QSP!Sort(a) = [i \in 0 .. 5 - 1 |-> IF i = 0 THEN a[5 - 1] ELSE a[i - 1]]
  <2>1. 5 \in Nat /\ 5 > 0
    OBVIOUS
  <2> QED BY <1>2, <1>4, <1>5, <2>1, PriosOrdered, QSP!EqualsRotated, Zenon
<1>7. input_queues = [i \in 0 .. 4 |-> IF i = 0 THEN a[4] ELSE a[i - 1]]
  BY <1>6, SortsAgree DEF QueuesSet, NewPrioScheduler, a
<1>8. Outputs = {}
  <2>1. PICK m \in Nat : conf.output \in [0 .. m - 1 -> QueueConf]
    BY ArraysKnown DEF QueuesSet
  <2>2. output_queues \in [0 .. m - 1 -> QueueConf]
    BY <2>1, ArraySorted DEF QueuesSet, NewPrioScheduler
  <2> QED BY <2>1, <2>2 DEF Outputs, IsStation
<1> QED BY <1>3, <1>7, <1>8 DEF Inputs

\* What one call may end in.
LEMMA StationOutcomes ==
  ASSUME QueuesSet, IsStation(conf)
  PROVE  LET q == SelectQueue(input, last_schedule_out)
         IN  Outcomes = IF q = SCHEDULE_FAIL
                        THEN {[Start EXCEPT !.res = SCHEDULE_FAIL, !.over = TRUE]}
                        ELSE {Take(ToCaller(Start, j), q, j) : j \in Earliest(input[q])}
<1>1. Rounds = 1
  BY DEF Rounds, IsStation
<1>2. Outcomes = UNION {Round(s) : s \in {Start}}
  <2>1. 1 \in 1 .. Rounds /\ 1 - 1 = 0
    BY <1>1
  <2> QED BY <1>1, <2>1, AfterReturns
<1>3. Outcomes = Round(Start)
  BY <1>2
<1>4. Start.input = input /\ Start.last = last_schedule_out /\ Start.over = FALSE
  BY DEF Start
<1>5. Outputs = {}
  BY StationQueuesSorted
<1> QED BY <1>3, <1>4, <1>5 DEF Round

\* The station's choice among the waiting jobs is that of the selected queue among
\* its own, as the rotated queues are in the order of QueueIndex.
LEMMA ChoiceOfSelected ==
  ASSUME SchedulerInv, TypesMatch, IsStation(conf)
  PROVE  LET q == SelectQueue(input, last_schedule_out)
         IN  /\ q = SCHEDULE_FAIL <=> Waiting = {}
             /\ StationChoice(Waiting) = IF q = SCHEDULE_FAIL THEN {} ELSE Earliest(input[q])
             /\ q # SCHEDULE_FAIL => q \in Inputs /\ input[q] \in SUBSET Job /\ input[q] # {}
<1> DEFINE q == SelectQueue(input, last_schedule_out)
           place(t) == IF t = 4 THEN 0 ELSE t + 1
<1>1. QueuesSet /\ input \in [Inputs -> SUBSET Job] /\ last_schedule_out \in -1 .. 4
  BY DEF SchedulerInv, Stored, JobTypes, NUM_OF_JOB_TYPE, INVALID_JOB
<1>2. /\ Inputs = 0 .. 4
      /\ \A i \in 0 .. 4 : /\ input_queues[i].prio = 0
                           /\ input_queues[i].type = IF i = 0 THEN 4 ELSE i - 1
  BY <1>1, StationQueuesSorted
<1>3. \A i \in Inputs : \A j \in input[i] :
        j \in Job /\ j.type = input_queues[i].type /\ j.type \in 0 .. 4 /\ j.deadline \in Nat
        /\ i = place(j.type)
  BY <1>1, <1>2 DEF TypesMatch, Job, JobTypes, NUM_OF_JOB_TYPE, INVALID_JOB
<1>4. \A j : j \in Waiting <=> \E i \in Inputs : j \in input[i]
  BY DEF Waiting
<1>5. \A i \in NonEmpty(input) :
        /\ i \in Inputs /\ Peek(input[i]) \in Nat /\ Earliest(input[i]) # {}
        /\ \A j \in Earliest(input[i]) : j \in input[i] /\ j.deadline = Peek(input[i])
        /\ \A k \in input[i] : Peek(input[i]) <= k.deadline
        /\ \A j \in input[i] : (\A k \in input[i] : j.deadline <= k.deadline) => j \in Earliest(input[i])
  <2> TAKE i \in NonEmpty(input)
  <2>1. i \in Inputs /\ input[i] \in SUBSET Job /\ input[i] # {}
    BY <1>1 DEF NonEmpty
  <2>2. \A j \in input[i] : (\A k \in input[i] : j.deadline <= k.deadline) => j \in Earliest(input[i])
    BY DEF Earliest
  <2> QED BY <2>1, <2>2, EarliestJob
<1>6. NonEmpty(input) = {} <=> Waiting = {}
  BY <1>4 DEF NonEmpty
<1>7. \A i \in Inputs : \A j \in input[i] : i \in NonEmpty(input)
  BY DEF NonEmpty
<1>8. \A j \in Waiting : place(j.type) \in NonEmpty(input) /\ j \in input[place(j.type)]
  BY <1>3, <1>4, <1>7
<1> HIDE DEF place
<1>9. CASE ~ conf.round_robin
  <2>1. q = FifoQueue(input) /\ StationChoice(Waiting) = Station!FifoChoice(Waiting)
    BY <1>9 DEF SelectQueue, StationChoice
  <2>2. \/ q = SCHEDULE_FAIL /\ NonEmpty(input) = {}
        \/ q \in NonEmpty(input) /\ \A k \in NonEmpty(input) \ {q} : FifoBefore(input, q, k)
    BY <1>1, <2>1, FifoChoice
  <2>3. \A j : j \in StationChoice(Waiting) <=>
          /\ j \in Waiting
          /\ \A k \in Waiting :
               \/ j.deadline < k.deadline
               \/ j.deadline = k.deadline /\ place(j.type) <= place(k.type)
    <3>1. \A j \in Waiting : Station!QueueIndex(j.type) = place(j.type)
      BY <1>3, <1>4 DEF Station!QueueIndex, Station!NumJobTypes, place
    <3> QED BY <2>1, <3>1 DEF Station!FifoChoice
  <2>4. CASE q \in NonEmpty(input)
    <3>1. \A k \in NonEmpty(input) \ {q} :
            \/ Peek(input[q]) < Peek(input[k])
            \/ Peek(input[q]) = Peek(input[k]) /\ q < k
      BY <1>2, <1>5, <2>2, <2>4 DEF FifoBefore, SCHEDULE_FAIL
    <3>2. ASSUME NEW j \in Earliest(input[q]) PROVE j \in StationChoice(Waiting)
      <4>1. j \in Waiting /\ place(j.type) = q /\ j.deadline = Peek(input[q])
        BY <1>3, <1>4, <1>5, <2>4, <3>2
      <4>2. ASSUME NEW k \in Waiting
            PROVE  \/ j.deadline < k.deadline
                   \/ j.deadline = k.deadline /\ place(j.type) <= place(k.type)
        <5> DEFINE l == place(k.type)
        <5>1. l \in NonEmpty(input) /\ k \in input[l] /\ l \in 0 .. 4 /\ q \in 0 .. 4
          BY <1>2, <1>5, <1>8, <2>4
        <5>2. Peek(input[l]) <= k.deadline /\ k.deadline \in Nat /\ Peek(input[l]) \in Nat
              /\ Peek(input[q]) \in Nat
          BY <1>3, <1>5, <2>4, <5>1
        <5> HIDE DEF l
        <5>3. l = q \/ l \in NonEmpty(input) \ {q}
          BY <5>1
        <5> QED BY <3>1, <4>1, <5>1, <5>2, <5>3 DEF l
      <4> QED BY <2>3, <4>1, <4>2
    <3>3. ASSUME NEW j \in StationChoice(Waiting) PROVE j \in Earliest(input[q])
      <4> DEFINE i == place(j.type)
      <4>1. j \in Waiting /\ i \in NonEmpty(input) /\ j \in input[i] /\ i \in 0 .. 4 /\ q \in 0 .. 4
        BY <1>2, <1>5, <1>8, <2>3, <2>4, <3>3
      <4>2. PICK e \in Earliest(input[q]) : e \in input[q] /\ e.deadline = Peek(input[q])
        BY <1>5, <2>4
      <4>3. e \in Waiting /\ place(e.type) = q
        BY <1>3, <1>4, <1>5, <2>4, <4>2
      <4>4. j.deadline < e.deadline \/ (j.deadline = e.deadline /\ i <= q)
        BY <2>3, <3>3, <4>3
      <4>5. Peek(input[i]) <= j.deadline /\ Peek(input[i]) \in Nat /\ j.deadline \in Nat
            /\ e.deadline \in Nat
        BY <1>3, <1>5, <4>1, <4>2, <2>4
      <4> HIDE DEF i
      <4>6. i = q
        BY <3>1, <4>1, <4>2, <4>4, <4>5
      <4>7. \A k \in input[q] : j.deadline <= k.deadline
        <5> TAKE k \in input[q]
        <5>1. k \in Waiting /\ k.deadline \in Nat
          BY <1>3, <1>4, <1>5, <2>4
        <5> QED BY <2>3, <3>3, <4>5, <5>1
      <4> QED BY <1>5, <2>4, <4>1, <4>6, <4>7
    <3>4. q # SCHEDULE_FAIL
      BY <1>2, <1>5, <2>4 DEF SCHEDULE_FAIL
    <3>5. StationChoice(Waiting) = Earliest(input[q])
      BY <3>2, <3>3
    <3> HIDE DEF q
    <3> QED BY <1>1, <1>5, <1>6, <2>4, <3>4, <3>5 DEF q, NonEmpty
  <2>5. CASE q = SCHEDULE_FAIL /\ NonEmpty(input) = {}
    <3>1. StationChoice(Waiting) = {}
      BY <1>6, <2>3, <2>5
    <3> QED BY <1>6, <2>5, <3>1
  <2> QED BY <2>2, <2>4, <2>5
<1>10. CASE conf.round_robin
  <2> DEFINE turn(t) == (t - (last_schedule_out + 1)) % 5
             Typed == {i \in NonEmpty(input) : input_queues[i].type # INVALID_JOB}
  <2>1. q = RoundRobinQueue(input, last_schedule_out)
        /\ StationChoice(Waiting) = Station!RoundRobinChoice(Waiting)
    BY <1>10 DEF SelectQueue, StationChoice
  <2>2. Typed = NonEmpty(input)
    BY <1>2, <1>5 DEF INVALID_JOB
  <2>3. \/ q = SCHEDULE_FAIL /\ Typed = {}
        \/ q \in Typed /\ \A k \in Typed \ {q} : TurnBefore(last_schedule_out, q, k)
    <3>1. last_schedule_out \in JobTypes \cup {INVALID_JOB}
      BY DEF SchedulerInv
    <3> QED BY <1>1, <2>1, <3>1, RoundRobinChoice
  <2>4. \A j : j \in StationChoice(Waiting) <=>
          /\ j \in Waiting
          /\ \A k \in Waiting :
               \/ turn(j.type) < turn(k.type)
               \/ j.type = k.type /\ j.deadline <= k.deadline
    BY <2>1 DEF Station!RoundRobinChoice, Station!Turn, Station!NumJobTypes
  <2>5. \A t, u \in 0 .. 4 : turn(t) \in 0 .. 4 /\ (turn(t) = turn(u) => t = u)
    BY <1>1
  <2>6. \A i \in NonEmpty(input) :
          /\ input_queues[i].type \in 0 .. 4
          /\ \A k \in NonEmpty(input) : input_queues[k].type = input_queues[i].type => k = i
    BY <1>2, <1>5
  <2> HIDE DEF turn, Typed
  <2>7. CASE q \in NonEmpty(input)
    <3>1. \A k \in NonEmpty(input) \ {q} : turn(input_queues[q].type) < turn(input_queues[k].type)
      <4>1. q # SCHEDULE_FAIL
        BY <1>2, <1>5, <2>7 DEF SCHEDULE_FAIL
      <4>2. \A k \in NonEmpty(input) \ {q} : TurnBefore(last_schedule_out, q, k)
        BY <2>2, <2>3, <4>1
      <4>3. \A t : Turn(last_schedule_out, t) = turn(t)
        BY DEF Turn, turn, NUM_OF_JOB_TYPE
      <4> QED BY <2>5, <2>6, <2>7, <4>2, <4>3 DEF TurnBefore
    <3>2. ASSUME NEW j \in Earliest(input[q]) PROVE j \in StationChoice(Waiting)
      <4>1. j \in Waiting /\ j \in input[q] /\ j.deadline = Peek(input[q]) /\ j.type = input_queues[q].type
        BY <1>3, <1>4, <1>5, <2>7, <3>2
      <4>2. ASSUME NEW k \in Waiting
            PROVE  \/ turn(j.type) < turn(k.type)
                   \/ j.type = k.type /\ j.deadline <= k.deadline
        <5>1. PICK l \in NonEmpty(input) : k \in input[l]
          BY <1>4, <1>7
        <5>2. k.type = input_queues[l].type
          BY <1>3, <1>5, <5>1
        <5>3. l = q \/ l \in NonEmpty(input) \ {q}
          BY <5>1
        <5> QED BY <1>5, <2>7, <3>1, <4>1, <5>1, <5>2, <5>3
      <4> QED BY <2>4, <4>1, <4>2
    <3>3. ASSUME NEW j \in StationChoice(Waiting) PROVE j \in Earliest(input[q])
      <4>1. j \in Waiting
        BY <2>4, <3>3
      <4>2. PICK i \in NonEmpty(input) : j \in input[i] /\ j.type = input_queues[i].type
        BY <1>3, <1>4, <1>7, <4>1
      <4>3. PICK e \in Earliest(input[q]) : e \in input[q]
        BY <1>5, <2>7
      <4>4. e \in Waiting /\ e.type = input_queues[q].type
        BY <1>3, <1>4, <1>5, <2>7, <4>3
      <4>5. turn(j.type) < turn(e.type) \/ j.type = e.type
        BY <2>4, <3>3, <4>4
      <4>6. turn(j.type) \in Int /\ turn(e.type) \in Int
        BY <2>5, <2>6, <2>7, <4>2, <4>4
      <4>7. i = q
        BY <2>6, <2>7, <3>1, <4>2, <4>4, <4>5, <4>6
      <4>8. \A k \in input[q] : j.deadline <= k.deadline
        <5> TAKE k \in input[q]
        <5>1. k \in Waiting /\ k.type = j.type
          BY <1>3, <1>4, <1>5, <2>7, <4>2, <4>7
        <5>2. turn(j.type) \in Int /\ ~ (turn(j.type) < turn(k.type))
          BY <4>6, <5>1
        <5> QED BY <2>4, <3>3, <5>1, <5>2
      <4> QED BY <1>5, <2>7, <4>2, <4>7, <4>8
    <3>4. q # SCHEDULE_FAIL
      BY <1>2, <1>5, <2>7 DEF SCHEDULE_FAIL
    <3>5. StationChoice(Waiting) = Earliest(input[q])
      BY <3>2, <3>3
    <3> HIDE DEF q
    <3> QED BY <1>1, <1>5, <1>6, <2>7, <3>4, <3>5 DEF q, NonEmpty
  <2>8. CASE q = SCHEDULE_FAIL /\ NonEmpty(input) = {}
    <3>1. StationChoice(Waiting) = {}
      BY <1>6, <2>4, <2>8
    <3> QED BY <1>6, <2>8, <3>1
  <2> QED BY <2>2, <2>3, <2>7, <2>8
<1> QED BY <1>9, <1>10

\* The schedulers of the stations give out exactly the jobs that QueueStation says,
\* under both algorithms, and fail exactly when none waits.
THEOREM StationChoiceGivenOut == Spec => []GivesOutStationChoice
<1>1. SchedulerInv /\ TypesMatch => GivesOutStationChoice
  <2> SUFFICES ASSUME SchedulerInv, TypesMatch, IsStation(conf)
               PROVE  /\ UNION {s.jobs : s \in Outcomes} = StationChoice(Waiting)
                      /\ \A s \in Outcomes : s.res = SCHEDULE_FAIL <=> Waiting = {}
    BY DEF GivesOutStationChoice
  <2> DEFINE q == SelectQueue(input, last_schedule_out)
  <2>1. QueuesSet /\ CallSound(Start) /\ Start.jobs = {} /\ Start \in CallState
    BY StartSound DEF SchedulerInv, CallSound
  <2>2. Outcomes = IF q = SCHEDULE_FAIL
                   THEN {[Start EXCEPT !.res = SCHEDULE_FAIL, !.over = TRUE]}
                   ELSE {Take(ToCaller(Start, j), q, j) : j \in Earliest(input[q])}
    BY <2>1, StationOutcomes
  <2>3. /\ q = SCHEDULE_FAIL <=> Waiting = {}
        /\ StationChoice(Waiting) = IF q = SCHEDULE_FAIL THEN {} ELSE Earliest(input[q])
        /\ q # SCHEDULE_FAIL => q \in Inputs /\ input[q] \in SUBSET Job /\ input[q] # {}
    BY ChoiceOfSelected
  <2> HIDE DEF q
  <2>4. CASE q = SCHEDULE_FAIL
    <3> DEFINE t == [Start EXCEPT !.res = SCHEDULE_FAIL, !.over = TRUE]
    <3>1. t.jobs = {} /\ t.res = SCHEDULE_FAIL
      BY <2>1 DEF CallState
    <3> HIDE DEF t
    <3>2. Outcomes = {t}
      BY <2>2, <2>4 DEF t
    <3> QED BY <2>3, <2>4, <3>1, <3>2
  <2>5. CASE q # SCHEDULE_FAIL
    <3> DEFINE End(j) == Take(ToCaller(Start, j), q, j)
    <3>1. \A j \in Earliest(input[q]) : End(j).jobs = {j} /\ End(j).res = SCHEDULE_DONE
      <4> TAKE j \in Earliest(input[q])
      <4>1. j \in Job /\ q \in Inputs
        BY <2>3, <2>5, EarliestJob
      <4>2. End(j).jobs = Start.jobs \cup {j} /\ End(j).res = SCHEDULE_DONE
        BY <2>1, <4>1, ToCallerFields
      <4> QED BY <2>1, <4>2
    <3>2. Outcomes = {End(j) : j \in Earliest(input[q])}
      BY <2>2, <2>5
    <3> HIDE DEF End
    <3>3. UNION {s.jobs : s \in Outcomes} = Earliest(input[q])
      BY <3>1, <3>2
    <3> QED BY <2>3, <2>5, <3>1, <3>2, <3>3 DEF SCHEDULE_DONE, SCHEDULE_FAIL
  <2> QED BY <2>4, <2>5
<1> QED BY <1>1, TypesAlwaysMatch, PTL

-----------------------------------------------------------------------------
-----------------------------------------------------------------------------
(* The heap.  HeapInv is the inductive invariant.  Climbing and sinking are*)
(* recursive functions: a lemma shows that each is defined wherever it is  *)
(* called, and another that it returns a heap of the same entries.         *)

Arrays(n) == [0 .. n - 1 -> HeapEntry]

LEMMA EntryKeys == \A e \in HeapEntry : e.key \in Nat /\ e.payload \in Nat
BY HeapAssumption DEF HeapEntry

LEMMA Parents ==
  ASSUME NEW j \in Nat, j > 0
  PROVE  /\ Parent(j) \in Nat /\ Parent(j) < j
         /\ \A i \in Nat : Parent(j) = i <=> j = Left(i) \/ j = Right(i)
BY DEF Parent, Left, Right

\* Every parent's key is at most those of its children.
Above(a, j) == a[Parent(j)].key <= a[j].key
Ordered(n, a) == \A j \in 0 .. n - 1 : j > 0 => Above(a, j)

\* No two entries are the same job.
Distinct(n, a) == \A i, j \in 0 .. n - 1 : i # j => a[i].payload # a[j].payload

\* b is a in another order.
Held(n, a) == {a[j] : j \in 0 .. n - 1}
Reordered(n, a, b) ==
  /\ a \in Arrays(n) /\ b \in Arrays(n)
  /\ Held(n, b) = Held(n, a)
  /\ Distinct(n, a) => Distinct(n, b)

LEMMA ReorderedSelf ==
  ASSUME NEW n \in Nat, NEW a \in Arrays(n)
  PROVE  Reordered(n, a, a)
BY DEF Reordered

LEMMA ReorderedTwice ==
  ASSUME NEW n \in Nat, NEW a, NEW b, NEW c, Reordered(n, a, b), Reordered(n, b, c)
  PROVE  Reordered(n, a, c)
BY DEF Reordered

LEMMA Exchanged ==
  ASSUME NEW n \in Nat, NEW a \in Arrays(n), NEW i \in 0 .. n - 1, NEW j \in 0 .. n - 1
  PROVE  LET b == Exchange(a, i, j)
         IN  /\ Reordered(n, a, b)
             /\ \A k \in 0 .. n - 1 : b[k] = IF k = j THEN a[i] ELSE IF k = i THEN a[j] ELSE a[k]
<1> DEFINE b == Exchange(a, i, j)
           other == [k \in 0 .. n - 1 |-> IF k = j THEN i ELSE IF k = i THEN j ELSE k]
<1>1. \A k \in 0 .. n - 1 : other[k] \in 0 .. n - 1 /\ other[other[k]] = k
  OBVIOUS
<1>2. b \in Arrays(n) /\ \A k \in 0 .. n - 1 : b[k] = a[other[k]]
  BY DEF Exchange, Arrays
<1>3. \A k \in 0 .. n - 1 : b[k] = IF k = j THEN a[i] ELSE IF k = i THEN a[j] ELSE a[k]
  BY <1>2
<1> HIDE DEF b, other
<1>4. Held(n, b) = Held(n, a)
  <2>1. \A k \in 0 .. n - 1 : b[k] \in Held(n, a)
    BY <1>1, <1>2 DEF Held
  <2>2. \A k \in 0 .. n - 1 : a[k] \in Held(n, b)
    <3> TAKE k \in 0 .. n - 1
    <3>1. other[k] \in 0 .. n - 1 /\ b[other[k]] = a[k]
      BY <1>1, <1>2
    <3> QED BY <3>1 DEF Held
  <2> QED BY <2>1, <2>2 DEF Held
<1>5. Distinct(n, a) => Distinct(n, b)
  BY <1>1, <1>2 DEF Distinct
<1> QED BY <1>2, <1>3, <1>4, <1>5 DEF Reordered, b

-----------------------------------------------------------------------------
(* Climbing.                                                               *)

\* An entry at i of array a that climbs or sinks.
At(a, i) == [a |-> a, i |-> i]
Turns(n, I) == [a : Arrays(n), i : I]

LEMMA TurnsAre ==
  ASSUME NEW n, NEW I
  PROVE  /\ \A a \in Arrays(n), i \in I : At(a, i) \in Turns(n, I)
         /\ \A t \in Turns(n, I) : t.a \in Arrays(n) /\ t.i \in I /\ t = At(t.a, t.i)
         /\ \A a, i : At(a, i).a = a /\ At(a, i).i = i
BY DEF At, Turns

ClimbStep(f, t) ==
  IF t.i > 0 /\ Less(t.a, t.i, Parent(t.i))
  THEN f[At(Exchange(t.a, t.i, Parent(t.i)), Parent(t.i))] ELSE t.a

Climb(n) == CHOOSE f : f = [t \in Turns(n, 0 .. n - 1) |-> ClimbStep(f, t)]

LEMMA SiftUpClimbs ==
  ASSUME NEW n \in Nat, NEW b \in Arrays(n), NEW k
  PROVE  SiftUp(b, k) = Climb(n)[At(b, k)]
<1>1. DOMAIN b = 0 .. n - 1
  BY DEF Arrays
<1> QED BY <1>1 DEF SiftUp, Climb, ClimbStep, Turns, At, Arrays

\* An entry that climbs gets to its parent's place, until the root.
LEMMA ClimbReturns ==
  ASSUME NEW n \in Nat
  PROVE  \A t \in Turns(n, 0 .. n - 1) : Climb(n)[t] = ClimbStep(Climb(n), t)
<1> DEFINE Dom == Turns(n, 0 .. n - 1)
           Next1(t) == At(Exchange(t.a, t.i, Parent(t.i)), Parent(t.i))
           Upto(f, k) == \A t \in Dom : t.i < k => f[t] = ClimbStep(f, t)
           S == {k \in Nat : \E f : Upto(f, k)}
<1>1. \A t \in Dom : t.i \in Nat /\ t.i < n /\ (t.i > 0 => Next1(t) \in Dom /\ Next1(t).i < t.i)
  <2> TAKE t \in Dom
  <2>1. t.a \in Arrays(n) /\ t.i \in 0 .. n - 1
    BY TurnsAre
  <2>2. SUFFICES ASSUME t.i > 0 PROVE Next1(t) \in Dom /\ Next1(t).i < t.i
    BY <2>1
  <2>3. Parent(t.i) \in 0 .. n - 1 /\ Parent(t.i) < t.i
    BY <2>1, <2>2, Parents
  <2>4. Exchange(t.a, t.i, Parent(t.i)) \in Arrays(n)
    BY <2>1, <2>3, Exchanged DEF Reordered
  <2> QED BY <2>3, <2>4, TurnsAre
<1>2. ASSUME NEW f, NEW g, NEW k \in Nat, \A t \in Dom : t.i < k => g[t] = f[t],
             NEW t \in Dom, t.i <= k
      PROVE  ClimbStep(g, t) = ClimbStep(f, t)
  <2>1. CASE t.i > 0 /\ Less(t.a, t.i, Parent(t.i))
    <3>1. Next1(t) \in Dom /\ Next1(t).i < k /\ Next1(t).i \in Nat
      BY <1>1, <1>2, <2>1
    <3>2. g[Next1(t)] = f[Next1(t)]
      BY <1>2, <3>1
    <3> QED BY <2>1, <3>2 DEF ClimbStep
  <2>2. CASE ~(t.i > 0 /\ Less(t.a, t.i, Parent(t.i)))
    BY <2>2 DEF ClimbStep
  <2> QED BY <2>1, <2>2
<1> HIDE DEF Dom
<1>3. 0 \in S
  <2>1. Upto([x \in {} |-> x], 0)
    BY <1>1
  <2> QED BY <2>1
<1>4. ASSUME NEW k \in Nat, k \in S PROVE k + 1 \in S
  <2>1. PICK f : Upto(f, k)
    BY <1>4
  <2> DEFINE g == [t \in Dom |-> ClimbStep(f, t)]
  <2>2. \A t \in Dom : g[t] = ClimbStep(f, t)
    OBVIOUS
  <2> HIDE DEF g
  <2>3. \A t \in Dom : t.i < k => g[t] = f[t]
    BY <2>1, <2>2
  <2>4. ASSUME NEW t \in Dom, t.i < k + 1 PROVE g[t] = ClimbStep(g, t)
    <3>1. t.i <= k
      BY <1>1, <2>4
    <3>2. ClimbStep(g, t) = ClimbStep(f, t)
      BY <1>2, <2>3, <3>1
    <3> QED BY <2>2, <3>2
  <2>5. Upto(g, k + 1)
    BY <2>4
  <2> QED BY <2>5
<1>5. \A k \in Nat : k \in S
  <2> HIDE DEF S
  <2> QED BY <1>3, <1>4, SetInduction
<1>6. PICK f : Upto(f, n)
  BY <1>5
<1> DEFINE h == [t \in Dom |-> f[t]]
<1>7. \A t \in Dom : h[t] = f[t]
  OBVIOUS
<1>8. ASSUME NEW t \in Dom PROVE f[t] = ClimbStep(h, t)
  <2>1. f[t] = ClimbStep(f, t) /\ t.i <= n
    BY <1>1, <1>6
  <2>2. ClimbStep(h, t) = ClimbStep(f, t)
    <3> HIDE DEF h
    <3> QED BY <1>2, <1>7, <2>1
  <2> QED BY <2>1, <2>2
<1>9. h = [t \in Dom |-> ClimbStep(h, t)]
  BY <1>8
<1>10. Climb(n) = [t \in Dom |-> ClimbStep(Climb(n), t)]
  <2> HIDE DEF h
  <2> QED BY <1>9 DEF Climb, Dom
<1> QED BY <1>10 DEF Dom

\* The heap is in order but for the entry at i, which may be smaller than those
\* above it.
OrderedButUp(n, a, i) ==
  /\ \A j \in 0 .. n - 1 : j > 0 /\ j # i => Above(a, j)
  /\ \A j \in 0 .. n - 1 : i > 0 /\ j > 0 /\ Parent(j) = i => a[Parent(i)].key <= a[j].key

LEMMA ClimbOrders ==
  ASSUME NEW n \in Nat
  PROVE  \A t \in Turns(n, 0 .. n - 1) : OrderedButUp(n, t.a, t.i) =>
           Reordered(n, t.a, Climb(n)[t]) /\ Ordered(n, Climb(n)[t])
<1> DEFINE Dom == Turns(n, 0 .. n - 1)
           Fine(t) == OrderedButUp(n, t.a, t.i) =>
                        Reordered(n, t.a, Climb(n)[t]) /\ Ordered(n, Climb(n)[t])
           S == {k \in Nat : \A t \in Dom : t.i < k => Fine(t)}
<1>1. \A t \in Dom : t.a \in Arrays(n) /\ t.i \in 0 .. n - 1 /\ Climb(n)[t] = ClimbStep(Climb(n), t)
  BY TurnsAre, ClimbReturns
<1>2. 0 \in S
  BY <1>1
<1>3. ASSUME NEW k \in Nat, k \in S PROVE k + 1 \in S
  <2>1. ASSUME NEW t \in Dom, t.i < k + 1, OrderedButUp(n, t.a, t.i)
        PROVE  Reordered(n, t.a, Climb(n)[t]) /\ Ordered(n, Climb(n)[t])
    <3> DEFINE a == t.a
               i == t.i
               p == Parent(i)
               b == Exchange(a, i, p)
               u == At(b, p)
    <3>1. a \in Arrays(n) /\ i \in 0 .. n - 1 /\ \A j \in 0 .. n - 1 : a[j].key \in Nat
      BY <1>1, EntryKeys DEF Arrays
    <3>2. CASE i > 0 /\ Less(a, i, p)
      <4>1. p \in 0 .. n - 1 /\ p < i
        BY <3>1, <3>2, Parents
      <4>2. Reordered(n, a, b) /\ \A j \in 0 .. n - 1 : b[j] = IF j = p THEN a[i] ELSE IF j = i THEN a[p] ELSE a[j]
        BY <3>1, <4>1, Exchanged
      <4>3. u \in Dom /\ u.i = p /\ u.a = b
        BY <4>1, <4>2, TurnsAre DEF Reordered
      <4>4. Climb(n)[t] = Climb(n)[u]
        BY <1>1, <3>2 DEF ClimbStep
      <4>5. OrderedButUp(n, b, p)
        <5>1. a[i].key < a[p].key
          BY <3>2 DEF Less
        <5>2. \A j \in 0 .. n - 1 : j > 0 => Parent(j) \in 0 .. n - 1 /\ Parent(j) < j
          BY Parents
        <5>3. /\ \A j \in 0 .. n - 1 : j > 0 /\ j # i => a[Parent(j)].key <= a[j].key
              /\ \A j \in 0 .. n - 1 : j > 0 /\ Parent(j) = i => a[p].key <= a[j].key
          BY <2>1, <3>2 DEF OrderedButUp, Above
        <5>4. Parent(i) = p
          OBVIOUS
        <5> HIDE DEF a, i, p, b, u
        <5>5. ASSUME NEW j \in 0 .. n - 1, j > 0, j # p PROVE b[Parent(j)].key <= b[j].key
          <6>1. Parent(j) \in 0 .. n - 1 /\ a[Parent(j)].key \in Nat /\ a[j].key \in Nat /\ a[p].key \in Nat /\ a[i].key \in Nat
            BY <3>1, <4>1, <5>2, <5>5
          <6>2. CASE j = i
            BY <4>1, <4>2, <5>1, <5>4, <6>1, <6>2
          <6>3. CASE j # i /\ Parent(j) = i
            BY <4>1, <4>2, <5>3, <5>5, <6>1, <6>3
          <6>4. CASE j # i /\ Parent(j) = p
            BY <4>1, <4>2, <5>1, <5>3, <5>5, <6>1, <6>4
          <6>5. CASE j # i /\ Parent(j) # i /\ Parent(j) # p
            BY <4>1, <4>2, <5>3, <5>5, <6>1, <6>5
          <6> QED BY <6>2, <6>3, <6>4, <6>5
        <5>6. ASSUME NEW j \in 0 .. n - 1, p > 0, j > 0, Parent(j) = p PROVE b[Parent(p)].key <= b[j].key
          <6> DEFINE q == Parent(p)
          <6>1. q \in 0 .. n - 1 /\ q < p /\ j # p
            BY <4>1, <5>2, <5>6
          <6>2. a[q].key <= a[p].key
            BY <4>1, <5>3, <5>6
          <6>3. j # i => a[p].key <= a[j].key
            BY <5>3, <5>6
          <6>4. b[q] = a[q]
            BY <4>1, <4>2, <6>1
          <6>5. b[j] = IF j = i THEN a[p] ELSE a[j]
            BY <4>2, <6>1
          <6>6. a[q].key \in Nat /\ a[j].key \in Nat /\ a[p].key \in Nat
            BY <3>1, <4>1, <6>1
          <6> QED BY <6>2, <6>3, <6>4, <6>5, <6>6
        <5> QED BY <5>5, <5>6 DEF OrderedButUp, Above
      <4>6. Reordered(n, b, Climb(n)[u]) /\ Ordered(n, Climb(n)[u])
        <5>1. u.i < k
          BY <2>1, <3>1, <4>1, <4>3
        <5>2. Fine(u)
          BY <1>3, <4>3, <5>1
        <5> QED BY <4>3, <4>5, <5>2
      <4> QED BY <4>2, <4>4, <4>6, ReorderedTwice
    <3>3. CASE ~(i > 0 /\ Less(a, i, p))
      <4>1. Climb(n)[t] = a
        BY <1>1, <3>3 DEF ClimbStep
      <4>2. \A j \in 0 .. n - 1 : j > 0 => Parent(j) \in 0 .. n - 1
        BY Parents
      <4>3. i > 0 => a[p].key <= a[i].key
        BY <3>1, <3>3, <4>2 DEF Less
      <4>4. Ordered(n, a)
        BY <2>1, <4>3 DEF OrderedButUp, Ordered, Above
      <4> QED BY <3>1, <4>1, <4>4, ReorderedSelf
    <3> QED BY <3>2, <3>3
  <2> QED BY <2>1
<1>4. \A k \in Nat : k \in S
  <2> HIDE DEF S
  <2> QED BY <1>2, <1>3, SetInduction
<1>5. n \in S
  BY <1>4
<1> QED BY <1>1, <1>5

-----------------------------------------------------------------------------
(* Sinking.                                                                *)

SinkStep(f, t) ==
  IF IsLeaf(t.a, t.i) \/ Less(t.a, t.i, Child(t.a, t.i))
  THEN t.a ELSE f[At(Exchange(t.a, t.i, Child(t.a, t.i)), Child(t.a, t.i))]

Sink(n) == CHOOSE f : f = [t \in Turns(n, Nat) |-> SinkStep(f, t)]

LEMMA HeapifySinks ==
  ASSUME NEW n \in Nat, NEW b \in Arrays(n), NEW k
  PROVE  Heapify(b, k) = Sink(n)[At(b, k)]
<1>1. DOMAIN b = 0 .. n - 1
  BY DEF Arrays
<1> QED BY <1>1 DEF Heapify, Sink, SinkStep, Turns, At, Arrays

\* The child an entry is compared with: a smallest one.
LEMMA ChildIs ==
  ASSUME NEW n \in Nat, NEW a \in Arrays(n), NEW i \in Nat, ~IsLeaf(a, i)
  PROVE  /\ i \in 0 .. n - 1 /\ Child(a, i) \in 0 .. n - 1 /\ i < Child(a, i)
         /\ Child(a, i) > 0 /\ Parent(Child(a, i)) = i
         /\ \A j \in 0 .. n - 1 : j > 0 /\ Parent(j) = i => a[Child(a, i)].key <= a[j].key
<1>1. /\ Left(i) \in Nat /\ Right(i) \in Nat /\ i < Left(i) /\ i < Right(i)
      /\ Left(i) > 0 /\ Right(i) > 0 /\ Parent(Left(i)) = i /\ Parent(Right(i)) = i
  BY DEF Left, Right, Parent
<1>2. Left(i) \in 0 .. n - 1 /\ DOMAIN a = 0 .. n - 1
  BY DEF IsLeaf, Arrays
<1>3. i \in 0 .. n - 1
  BY <1>1, <1>2
<1>4. \A j \in 0 .. n - 1 : a[j].key \in Nat
  BY EntryKeys DEF Arrays
<1>5. \A j \in 0 .. n - 1 : j > 0 /\ Parent(j) = i => j = Left(i) \/ j = Right(i)
  BY Parents
<1>6. CASE Right(i) \in DOMAIN a /\ Less(a, Right(i), Left(i))
  <2>1. Child(a, i) = Right(i) /\ a[Right(i)].key < a[Left(i)].key
    BY <1>6 DEF Child, Less
  <2> QED BY <1>1, <1>2, <1>3, <1>4, <1>5, <1>6, <2>1
<1>7. CASE ~(Right(i) \in DOMAIN a /\ Less(a, Right(i), Left(i)))
  <2>1. Child(a, i) = Left(i)
    BY <1>7 DEF Child
  <2>2. Right(i) \in 0 .. n - 1 => a[Left(i)].key <= a[Right(i)].key
    BY <1>2, <1>4, <1>7 DEF Less
  <2> QED BY <1>1, <1>2, <1>3, <1>4, <1>5, <2>1, <2>2
<1> QED BY <1>6, <1>7

\* An entry that sinks gets to its child's place, until there is none.
LEMMA SinkReturns ==
  ASSUME NEW n \in Nat
  PROVE  \A t \in Turns(n, Nat) : Sink(n)[t] = SinkStep(Sink(n), t)
<1> DEFINE Dom == Turns(n, Nat)
           Stops(t) == IsLeaf(t.a, t.i) \/ Less(t.a, t.i, Child(t.a, t.i))
           Next1(t) == At(Exchange(t.a, t.i, Child(t.a, t.i)), Child(t.a, t.i))
           Upto(f, k) == \A t \in Dom : n < t.i + k => f[t] = SinkStep(f, t)
           S == {k \in Nat : \E f : Upto(f, k)}
<1>1. \A t \in Dom : t.i \in Nat /\ (~Stops(t) => Next1(t) \in Dom /\ t.i < Next1(t).i /\ t.i < n)
  <2> TAKE t \in Dom
  <2>1. t.a \in Arrays(n) /\ t.i \in Nat
    BY TurnsAre
  <2>2. SUFFICES ASSUME ~Stops(t) PROVE Next1(t) \in Dom /\ t.i < Next1(t).i /\ t.i < n
    BY <2>1
  <2>3. t.i \in 0 .. n - 1 /\ Child(t.a, t.i) \in 0 .. n - 1 /\ t.i < Child(t.a, t.i)
    BY <2>1, <2>2, ChildIs
  <2>4. Exchange(t.a, t.i, Child(t.a, t.i)) \in Arrays(n)
    BY <2>1, <2>3, Exchanged DEF Reordered
  <2> QED BY <2>3, <2>4, TurnsAre
<1>2. ASSUME NEW f, NEW g, NEW k \in Nat, \A t \in Dom : n < t.i + k => g[t] = f[t],
             NEW t \in Dom, n < t.i + (k + 1)
      PROVE  SinkStep(g, t) = SinkStep(f, t)
  <2>1. CASE ~Stops(t)
    <3>1. Next1(t) \in Dom /\ n < Next1(t).i + k
      BY <1>1, <1>2, <2>1
    <3>2. g[Next1(t)] = f[Next1(t)]
      BY <1>2, <3>1
    <3> QED BY <2>1, <3>2 DEF SinkStep
  <2>2. CASE Stops(t)
    BY <2>2 DEF SinkStep
  <2> QED BY <2>1, <2>2
<1>3. 0 \in S
  <2> DEFINE f == [t \in Dom |-> t.a]
  <2>1. ASSUME NEW t \in Dom, n < t.i + 0 PROVE f[t] = SinkStep(f, t)
    <3>1. Stops(t)
      BY <1>1, <2>1
    <3> QED BY <3>1 DEF SinkStep
  <2> QED BY <2>1
<1> HIDE DEF Dom, Stops
<1>4. ASSUME NEW k \in Nat, k \in S PROVE k + 1 \in S
  <2>1. PICK f : Upto(f, k)
    BY <1>4
  <2> DEFINE g == [t \in Dom |-> SinkStep(f, t)]
  <2>2. \A t \in Dom : g[t] = SinkStep(f, t)
    OBVIOUS
  <2> HIDE DEF g
  <2>3. \A t \in Dom : n < t.i + k => g[t] = f[t]
    BY <2>1, <2>2
  <2>4. ASSUME NEW t \in Dom, n < t.i + (k + 1) PROVE g[t] = SinkStep(g, t)
    <3>1. SinkStep(g, t) = SinkStep(f, t)
      BY <1>2, <2>3, <2>4
    <3> QED BY <2>2, <3>1
  <2>5. Upto(g, k + 1)
    BY <2>4
  <2> QED BY <2>5
<1>5. \A k \in Nat : k \in S
  <2> HIDE DEF S
  <2> QED BY <1>3, <1>4, SetInduction
<1>6. PICK f : Upto(f, n + 1)
  <2>1. n + 1 \in S
    BY <1>5
  <2> QED BY <2>1
<1> DEFINE h == [t \in Dom |-> f[t]]
<1>7. \A t \in Dom : h[t] = f[t]
  OBVIOUS
<1>8. ASSUME NEW t \in Dom PROVE f[t] = SinkStep(h, t)
  <2>1. f[t] = SinkStep(f, t) /\ n < t.i + (n + 1)
    BY <1>1, <1>6
  <2>2. SinkStep(h, t) = SinkStep(f, t)
    <3> HIDE DEF h
    <3> QED BY <1>2, <1>7, <2>1
  <2> QED BY <2>1, <2>2
<1>9. h = [t \in Dom |-> SinkStep(h, t)]
  BY <1>8
<1>10. Sink(n) = [t \in Dom |-> SinkStep(Sink(n), t)]
  <2> HIDE DEF h
  <2> QED BY <1>9 DEF Sink, Dom
<1> QED BY <1>10 DEF Dom

\* The heap is in order but for the entry at i, which may be larger than those
\* below it.
OrderedButDown(n, a, i) ==
  /\ \A j \in 0 .. n - 1 : j > 0 /\ Parent(j) # i => Above(a, j)
  /\ \A j \in 0 .. n - 1 : i > 0 /\ i < n /\ j > 0 /\ Parent(j) = i => a[Parent(i)].key <= a[j].key

LEMMA SinkOrders ==
  ASSUME NEW n \in Nat
  PROVE  \A t \in Turns(n, Nat) : OrderedButDown(n, t.a, t.i) =>
           Reordered(n, t.a, Sink(n)[t]) /\ Ordered(n, Sink(n)[t])
<1> DEFINE Dom == Turns(n, Nat)
           Fine(t) == OrderedButDown(n, t.a, t.i) =>
                        Reordered(n, t.a, Sink(n)[t]) /\ Ordered(n, Sink(n)[t])
           S == {k \in Nat : \A t \in Dom : n <= t.i + k => Fine(t)}
<1>1. \A t \in Dom : t.a \in Arrays(n) /\ t.i \in Nat /\ Sink(n)[t] = SinkStep(Sink(n), t)
  BY TurnsAre, SinkReturns
<1>2. \A j \in 0 .. n - 1 : j > 0 => Parent(j) \in 0 .. n - 1 /\ Parent(j) < j
  BY Parents
\* What does not sink.
<1>3. ASSUME NEW t \in Dom, OrderedButDown(n, t.a, t.i),
             IsLeaf(t.a, t.i) \/ Less(t.a, t.i, Child(t.a, t.i))
      PROVE  Reordered(n, t.a, Sink(n)[t]) /\ Ordered(n, Sink(n)[t])
  <2> DEFINE a == t.a
             i == t.i
  <2>1. a \in Arrays(n) /\ i \in Nat /\ Sink(n)[t] = a /\ \A j \in 0 .. n - 1 : a[j].key \in Nat
    BY <1>1, <1>3, EntryKeys DEF SinkStep, Arrays
  <2>2. ASSUME NEW j \in 0 .. n - 1, j > 0, Parent(j) = i PROVE a[i].key <= a[j].key
    <3>1. ~IsLeaf(a, i)
      <4>1. j = Left(i) \/ j = Right(i)
        BY <2>1, <2>2, Parents
      <4>2. Left(i) \in 0 .. n - 1
        BY <2>1, <4>1 DEF Left, Right
      <4> QED BY <2>1, <4>2 DEF IsLeaf, Arrays
    <3> DEFINE c == Child(a, i)
    <3>2. c \in 0 .. n - 1 /\ i \in 0 .. n - 1 /\ a[c].key <= a[j].key
      BY <2>1, <2>2, <3>1, ChildIs
    <3>3. a[i].key < a[c].key
      BY <1>3, <3>1 DEF Less
    <3> HIDE DEF a, i, c
    <3> QED BY <2>1, <3>2, <3>3
  <2>3. Ordered(n, a)
    BY <1>3, <2>2 DEF OrderedButDown, Ordered, Above
  <2> QED BY <2>1, <2>3, ReorderedSelf
<1>4. 0 \in S
  <2>1. ASSUME NEW t \in Dom, n <= t.i + 0 PROVE IsLeaf(t.a, t.i)
    BY <1>1, <2>1 DEF IsLeaf, Left, Arrays
  <2> HIDE DEF Dom
  <2> QED BY <1>3, <2>1
<1>5. ASSUME NEW k \in Nat, k \in S PROVE k + 1 \in S
  <2>1. ASSUME NEW t \in Dom, n <= t.i + (k + 1), OrderedButDown(n, t.a, t.i)
        PROVE  Reordered(n, t.a, Sink(n)[t]) /\ Ordered(n, Sink(n)[t])
    <3> DEFINE a == t.a
               i == t.i
               c == Child(a, i)
               b == Exchange(a, i, c)
               u == At(b, c)
    <3>1. a \in Arrays(n) /\ i \in Nat /\ \A j \in 0 .. n - 1 : a[j].key \in Nat
      BY <1>1, EntryKeys DEF Arrays
    <3>2. CASE IsLeaf(a, i) \/ Less(a, i, c)
      BY <1>3, <2>1, <3>2
    <3>3. CASE ~IsLeaf(a, i) /\ ~Less(a, i, c)
      <4>1. /\ i \in 0 .. n - 1 /\ c \in 0 .. n - 1 /\ i < c /\ c > 0 /\ Parent(c) = i
            /\ \A j \in 0 .. n - 1 : j > 0 /\ Parent(j) = i => a[c].key <= a[j].key
        BY <3>1, <3>3, ChildIs
      <4>2. Reordered(n, a, b) /\ \A j \in 0 .. n - 1 : b[j] = IF j = c THEN a[i] ELSE IF j = i THEN a[c] ELSE a[j]
        BY <3>1, <4>1, Exchanged
      <4>3. u \in Dom /\ u.i = c /\ u.a = b
        BY <4>1, <4>2, TurnsAre DEF Reordered
      <4>4. Sink(n)[t] = Sink(n)[u]
        BY <1>1, <3>3 DEF SinkStep
      <4>5. OrderedButDown(n, b, c)
        <5>1. a[c].key <= a[i].key
          BY <3>1, <3>3, <4>1 DEF Less
        <5>2. /\ \A j \in 0 .. n - 1 : j > 0 /\ Parent(j) # i => a[Parent(j)].key <= a[j].key
              /\ \A j \in 0 .. n - 1 : i > 0 /\ j > 0 /\ Parent(j) = i => a[Parent(i)].key <= a[j].key
          BY <2>1, <4>1 DEF OrderedButDown, Above
        <5> HIDE DEF a, i, c, b, u
        <5>3. ASSUME NEW j \in 0 .. n - 1, j > 0, Parent(j) # c PROVE b[Parent(j)].key <= b[j].key
          <6> DEFINE q == Parent(j)
          <6>1. /\ q \in 0 .. n - 1 /\ q < j /\ q # c
                /\ a[q].key \in Nat /\ a[j].key \in Nat /\ a[c].key \in Nat /\ a[i].key \in Nat
            BY <1>2, <3>1, <4>1, <5>3
          <6>2. CASE j = i
            <7>1. a[q].key <= a[c].key
              BY <4>1, <5>2, <5>3, <6>2
            <7>2. b[q] = a[q] /\ b[j] = a[c]
              BY <4>1, <4>2, <6>1, <6>2
            <7> QED BY <7>1, <7>2
          <6>3. CASE j = c
            <7>1. b[q] = a[c] /\ b[j] = a[i]
              BY <4>1, <4>2, <6>1, <6>3
            <7> QED BY <5>1, <7>1
          <6>4. CASE j # i /\ j # c /\ q = i
            <7>1. b[q] = a[c] /\ b[j] = a[j]
              BY <4>1, <4>2, <6>1, <6>4
            <7> QED BY <4>1, <5>3, <6>4, <7>1
          <6>5. CASE j # i /\ j # c /\ q # i
            <7>1. b[q] = a[q] /\ b[j] = a[j]
              BY <4>1, <4>2, <6>1, <6>5
            <7> QED BY <5>2, <5>3, <6>5, <7>1
          <6> QED BY <6>2, <6>3, <6>4, <6>5
        <5>4. ASSUME NEW j \in 0 .. n - 1, j > 0, Parent(j) = c PROVE b[Parent(c)].key <= b[j].key
          <6>1. c < j
            BY <1>2, <5>4
          <6>2. a[c].key <= a[j].key
            BY <4>1, <5>2, <5>4
          <6>3. b[Parent(c)] = a[c] /\ b[j] = a[j]
            BY <4>1, <4>2, <6>1
          <6> QED BY <6>2, <6>3
        <5> QED BY <5>3, <5>4 DEF OrderedButDown, Above
      <4>6. Reordered(n, b, Sink(n)[u]) /\ Ordered(n, Sink(n)[u])
        <5>1. n <= u.i + k
          BY <2>1, <3>1, <4>1, <4>3
        <5>2. Fine(u)
          BY <1>5, <4>3, <5>1
        <5> QED BY <4>3, <4>5, <5>2
      <4> QED BY <4>2, <4>4, <4>6, ReorderedTwice
    <3> QED BY <3>2, <3>3
  <2> QED BY <2>1
<1>6. \A k \in Nat : k \in S
  <2> HIDE DEF S
  <2> QED BY <1>4, <1>5, SetInduction
<1>7. n \in S
  BY <1>6
<1> QED BY <1>1, <1>7

\* The smallest entry is the root.
LEMMA RootSmallest ==
  ASSUME NEW n \in Nat, NEW a \in Arrays(n), Ordered(n, a)
  PROVE  \A j \in 0 .. n - 1 : a[0].key <= a[j].key
<1> DEFINE S == {k \in Nat : \A j \in 0 .. n - 1 : j < k => a[0].key <= a[j].key}
<1>1. \A j \in 0 .. n - 1 : a[j].key \in Nat
  BY EntryKeys DEF Arrays
<1>2. 0 \in S
  OBVIOUS
<1>3. ASSUME NEW k \in Nat, k \in S PROVE k + 1 \in S
  <2>1. ASSUME NEW j \in 0 .. n - 1, j < k + 1 PROVE a[0].key <= a[j].key
    <3>1. CASE j = 0
      BY <1>1, <3>1
    <3>2. CASE j > 0
      <4> DEFINE p == Parent(j)
      <4>1. p \in 0 .. n - 1 /\ p < k
        BY <2>1, <3>2, Parents
      <4>2. a[0].key <= a[p].key
        BY <1>3, <4>1
      <4>3. a[p].key <= a[j].key
        BY <3>2 DEF Ordered, Above
      <4>4. a[0].key \in Nat /\ a[p].key \in Nat /\ a[j].key \in Nat
        BY <1>1, <4>1
      <4> HIDE DEF p
      <4> QED BY <4>2, <4>3, <4>4
    <3> QED BY <3>1, <3>2
  <2> QED BY <2>1
<1>4. \A k \in Nat : k \in S
  <2> HIDE DEF S
  <2> QED BY <1>2, <1>3, SetInduction
<1>5. n \in S
  BY <1>4
<1> QED BY <1>5

-----------------------------------------------------------------------------
(* The queue.                                                              *)

HeapInv ==
  /\ HeapTypeOK /\ size > 0
  /\ Ordered(used, array) /\ Distinct(used, array)
  /\ \A j \in 0 .. used - 1 : array[j].payload <= adds

LEMMA HeapInitially ==
  ASSUME HeapInit
  PROVE  HeapInv
BY HeapAssumption DEF HeapInit, HeapInv, HeapTypeOK, Ordered, Distinct

\* What a job finds when it is queued.
LEMMA Queued ==
  ASSUME HeapInv, NEW key \in Keys, Enqueue(key)
  PROVE  /\ HeapInv'
         /\ Held(used', array') = Held(used, array) \cup {[key |-> key, payload |-> adds + 1]}
         /\ [key |-> key, payload |-> adds + 1] \notin Held(used, array)
<1> DEFINE e == [key |-> key, payload |-> adds + 1]
           n == used + 1
           b == WithLast(e)
           c == array'
<1>1. /\ used \in Nat /\ adds \in Nat /\ array \in Arrays(used) /\ e \in HeapEntry
      /\ size \in Nat /\ size > 0 /\ used <= size /\ adds < MaxAdds /\ MaxAdds \in Nat
      /\ e.payload = adds + 1
  BY HeapAssumption DEF HeapInv, HeapTypeOK, Arrays, HeapEntry, Enqueue
<1>2. used' = n /\ adds' = adds + 1 /\ polled' = polled /\ n \in Nat /\ used \in 0 .. n - 1
  BY <1>1 DEF Enqueue
<1>3. size' \in Nat /\ size' > 0 /\ n <= size'
  <2>1. size' = Grown
    BY DEF Enqueue
  <2> QED BY <1>1, <2>1 DEF Grown
<1>4. b \in Arrays(n) /\ \A j \in 0 .. n - 1 : b[j] = IF j = used THEN e ELSE array[j]
  BY <1>1 DEF WithLast, Arrays
<1>5. c = SiftUp(b, used)
  BY DEF Enqueue
<1>6. \A j \in 0 .. used - 1 : array[j] \in HeapEntry /\ array[j].payload \in Nat /\ array[j].payload <= adds
  BY <1>1, EntryKeys DEF HeapInv, Arrays
<1> HIDE DEF e, n, b, c
<1>7. OrderedButUp(n, b, used)
  <2>1. \A j \in 0 .. n - 1 : j > 0 => Parent(j) \in 0 .. n - 1 /\ Parent(j) < j
    BY <1>2, Parents
  <2>2. ASSUME NEW j \in 0 .. n - 1, j > 0, j # used PROVE Above(b, j)
    <3>1. j \in 0 .. used - 1 /\ Parent(j) \in 0 .. used - 1
      BY <1>1, <2>1, <2>2 DEF n
    <3>2. b[j] = array[j] /\ b[Parent(j)] = array[Parent(j)]
      BY <1>1, <1>4, <2>1, <2>2, <3>1
    <3> QED BY <2>2, <3>1, <3>2 DEF HeapInv, Ordered, Above
  <2>3. \A j \in 0 .. n - 1 : j > 0 => Parent(j) # used
    BY <1>1, <2>1 DEF n
  <2> QED BY <2>2, <2>3 DEF OrderedButUp
<1>8. Reordered(n, b, c) /\ Ordered(n, c)
  <2>1. At(b, used) \in Turns(n, 0 .. n - 1) /\ At(b, used).a = b /\ At(b, used).i = used
    BY <1>2, <1>4, TurnsAre
  <2>2. c = Climb(n)[At(b, used)]
    BY <1>2, <1>4, <1>5, SiftUpClimbs
  <2> QED BY <1>2, <1>7, <2>1, <2>2, ClimbOrders
<1>9. Distinct(n, b)
  <2>1. \A j \in 0 .. n - 1 : j # used => j \in 0 .. used - 1 /\ b[j].payload = array[j].payload
    BY <1>1, <1>4 DEF n
  <2>2. b[used].payload = adds + 1
    BY <1>1, <1>2, <1>4
  <2>3. \A j \in 0 .. n - 1 : j # used => b[j].payload # b[used].payload
    BY <1>1, <1>6, <2>1, <2>2
  <2> QED BY <2>1, <2>3 DEF HeapInv, Distinct
<1>10. Held(n, b) = Held(used, array) \cup {e}
  <2>1. \A j \in 0 .. n - 1 : j # used => j \in 0 .. used - 1 /\ b[j] = array[j]
    BY <1>1, <1>4 DEF n
  <2>2. \A j \in 0 .. used - 1 : j \in 0 .. n - 1 /\ b[j] = array[j]
    BY <1>1, <1>4 DEF n
  <2>3. b[used] = e /\ used \in 0 .. n - 1
    BY <1>1, <1>2, <1>4
  <2> QED BY <2>1, <2>2, <2>3 DEF Held
<1>11. Held(n, c) = Held(used, array) \cup {e}
  BY <1>8, <1>10 DEF Reordered
<1>12. e \notin Held(used, array)
  BY <1>1, <1>6 DEF Held
<1>13. \A j \in 0 .. n - 1 : c[j].payload <= adds + 1
  <2> TAKE j \in 0 .. n - 1
  <2>1. c[j] \in Held(used, array) \cup {e}
    BY <1>11 DEF Held
  <2> QED BY <1>1, <1>6, <2>1 DEF Held
<1>14. HeapTypeOK'
  <2>1. c \in [0 .. n - 1 -> HeapEntry] /\ n \in 0 .. size' /\ adds + 1 \in 0 .. MaxAdds
    BY <1>1, <1>2, <1>3, <1>8 DEF Reordered, Arrays
  <2>2. polled \in Nat \cup {NoJob}
    BY DEF HeapInv, HeapTypeOK
  <2> QED BY <1>2, <1>3, <2>1, <2>2 DEF HeapTypeOK, c
<1>15. HeapInv'
  <2>1. Distinct(n, c)
    BY <1>8, <1>9 DEF Reordered
  <2> QED BY <1>2, <1>3, <1>8, <1>13, <1>14, <2>1 DEF HeapInv, c
<1> QED BY <1>2, <1>11, <1>12, <1>15 DEF e, c

\* What the queue gives out.
LEMMA Dequeued ==
  ASSUME HeapInv, Dequeue
  PROVE  /\ HeapInv' /\ array[0] \in Held(used, array)
         /\ \A f \in Held(used, array) : array[0].key <= f.key
         /\ Held(used', array') = Held(used, array) \ {array[0]}
         /\ polled' = array[0].payload
<1> DEFINE n == used - 1
           b == LastToRoot
           c == array'
<1>1. /\ used \in Nat /\ used > 0 /\ n \in Nat /\ adds \in Nat /\ array \in Arrays(used)
      /\ size \in Nat /\ size > 0 /\ used <= size
      /\ Ordered(used, array) /\ Distinct(used, array)
  BY DEF HeapInv, HeapTypeOK, Arrays, Dequeue
<1>2. /\ used' = n /\ adds' = adds /\ size' = size /\ polled' = array[0].payload
      /\ c = Heapify(b, 0)
  BY DEF Dequeue
<1>3. \A j \in 0 .. used - 1 : /\ array[j] \in HeapEntry /\ array[j].payload \in Nat
                               /\ array[j].payload <= adds
  BY <1>1, EntryKeys DEF HeapInv, Arrays
<1>4. b \in Arrays(n) /\ \A j \in 0 .. n - 1 : b[j] = IF j = 0 THEN array[used - 1] ELSE array[j]
  <2>1. \A j \in 0 .. used - 2 : j \in 0 .. used - 1
    BY <1>1
  <2>2. used - 1 \in 0 .. used - 1 /\ 0 .. used - 2 = 0 .. n - 1
    BY <1>1
  <2> QED BY <1>3, <2>1, <2>2 DEF LastToRoot, Arrays
<1> HIDE DEF b, c
<1>5. OrderedButDown(n, b, 0)
  <2>1. ASSUME NEW j \in 0 .. n - 1, j > 0, Parent(j) # 0 PROVE Above(b, j)
    <3>1. Parent(j) \in 0 .. n - 1 /\ Parent(j) > 0 /\ j \in 0 .. used - 1
      BY <1>1, <2>1, Parents
    <3>2. b[j] = array[j] /\ b[Parent(j)] = array[Parent(j)]
      BY <1>4, <2>1, <3>1
    <3> QED BY <1>1, <2>1, <3>1, <3>2 DEF Ordered, Above
  <2> QED BY <2>1 DEF OrderedButDown
<1>6. Reordered(n, b, c) /\ Ordered(n, c)
  <2>1. At(b, 0) \in Turns(n, Nat) /\ At(b, 0).a = b /\ At(b, 0).i = 0
    BY <1>4, TurnsAre
  <2>2. c = Sink(n)[At(b, 0)]
    BY <1>1, <1>2, <1>4, HeapifySinks
  <2> QED BY <1>1, <1>5, <2>1, <2>2, SinkOrders
<1>7. \A j \in 0 .. n - 1 : \E i \in 0 .. used - 1 : i # 0 /\ b[j] = array[i]
  <2> TAKE j \in 0 .. n - 1
  <2>1. CASE j = 0
    <3>1. used - 1 \in 0 .. used - 1 /\ used - 1 # 0
      BY <1>1, <2>1
    <3> QED BY <1>4, <2>1, <3>1
  <2>2. CASE j # 0
    BY <1>1, <1>4, <2>2
  <2> QED BY <2>1, <2>2
<1>8. \A i \in 0 .. used - 1 : i # 0 => \E j \in 0 .. n - 1 : b[j] = array[i]
  <2> TAKE i \in 0 .. used - 1
  <2> HAVE i # 0
  <2>1. CASE i = used - 1
    <3>1. 0 \in 0 .. n - 1
      BY <1>1, <2>1
    <3> QED BY <1>4, <2>1, <3>1
  <2>2. CASE i # used - 1
    BY <1>1, <1>4, <2>2
  <2> QED BY <2>1, <2>2
<1>9. Distinct(n, b)
  <2>1. \A j \in 0 .. n - 1 : j # 0 => j # used - 1 /\ j \in 0 .. used - 1
    BY <1>1
  <2>2. used - 1 \in 0 .. used - 1
    BY <1>1
  <2>3. ASSUME NEW i \in 0 .. n - 1, NEW j \in 0 .. n - 1, i # j PROVE b[i].payload # b[j].payload
    BY <1>1, <1>4, <2>1, <2>2, <2>3 DEF Distinct
  <2> QED BY <2>3 DEF Distinct
<1>10. 0 \in 0 .. used - 1 /\ array[0] \in Held(used, array)
  BY <1>1 DEF Held
<1>11. Held(n, b) = Held(used, array) \ {array[0]}
  <2>1. \A i \in 0 .. used - 1 : i # 0 => array[i] # array[0]
    BY <1>1, <1>10 DEF Distinct
  <2> QED BY <1>7, <1>8, <1>10, <2>1 DEF Held
<1>12. Held(n, c) = Held(used, array) \ {array[0]}
  BY <1>6, <1>11 DEF Reordered
<1>13. \A f \in Held(used, array) : array[0].key <= f.key
  BY <1>1, RootSmallest DEF Held
<1>14. \A j \in 0 .. n - 1 : c[j].payload <= adds
  <2> TAKE j \in 0 .. n - 1
  <2>1. c[j] \in Held(used, array)
    BY <1>12 DEF Held
  <2> QED BY <1>3, <2>1 DEF Held
<1>15. HeapTypeOK'
  <2>1. c \in [0 .. n - 1 -> HeapEntry] /\ n \in 0 .. size
    BY <1>1, <1>6 DEF Reordered, Arrays
  <2>2. polled' \in Nat /\ adds \in 0 .. MaxAdds
    BY <1>2, <1>3, <1>10 DEF HeapInv, HeapTypeOK
  <2> QED BY <1>1, <1>2, <2>1, <2>2 DEF HeapTypeOK, c
<1>16. HeapInv'
  <2>1. Distinct(n, c)
    BY <1>6, <1>9 DEF Reordered
  <2> QED BY <1>1, <1>2, <1>6, <1>14, <1>15, <2>1 DEF HeapInv, c
<1> QED BY <1>2, <1>10, <1>12, <1>13, <1>16 DEF c

LEMMA HeapKept ==
  ASSUME HeapInv, [HeapNext]_heap_vars
  PROVE  HeapInv'
<1>1. CASE DequeueEmpty
  BY <1>1 DEF DequeueEmpty, HeapInv, HeapTypeOK
<1>2. CASE UNCHANGED heap_vars
  BY <1>2 DEF heap_vars, HeapInv, HeapTypeOK
<1>3. CASE EnqueueStep
  BY <1>3, Queued DEF EnqueueStep
<1> QED BY <1>1, <1>2, <1>3, Dequeued DEF HeapNext

\* No entry is ever written past what is allocated, and what is queued and given
\* out is what its type says (heap_add, heap_grow, heap_poll).
THEOREM HeapTypeAlwaysOK == HeapSpec => []HeapTypeOK
<1>1. HeapInv => HeapTypeOK
  BY DEF HeapInv
<1> QED BY <1>1, HeapInitially, HeapKept, PTL DEF HeapSpec

\* The heap is a priority queue: whatever the mixture of enqueue and dequeue, it
\* holds the jobs queued and not yet given out, each once, and gives out one with
\* the smallest key (enqueue, dequeue and queue_peek's array[0]).
THEOREM HeapIsPriorityBag == HeapSpec => ImplementsPriorityBag
<1>1. HeapInit => Outside!Init
  BY DEF HeapInit, Outside!Init
<1>2. ASSUME HeapInv, [HeapNext]_heap_vars PROVE [Outside!Next]_(Outside!vars)
  <2>1. CASE EnqueueStep
    <3>1. PICK key \in Keys : Enqueue(key)
      BY <2>1 DEF EnqueueStep
    <3> DEFINE e == [key |-> key, payload |-> adds + 1]
    <3>2. Held(used', array') = Held(used, array) \cup {e} /\ e \notin Held(used, array)
      BY <1>2, <3>1, Queued
    <3>3. e.key \in Keys /\ polled' = polled
      BY <3>1 DEF Enqueue
    <3>4. Outside!Enqueue
      BY <3>2, <3>3 DEF Outside!Enqueue, Held
    <3> QED BY <3>4 DEF Outside!Next
  <2>2. CASE Dequeue
    <3>1. Outside!Dequeue
      BY <1>2, <2>2, Dequeued DEF Outside!Dequeue, Held
    <3> QED BY <3>1 DEF Outside!Next
  <2>3. CASE DequeueEmpty
    <3>1. Outside!DequeueEmpty
      BY <2>3 DEF Outside!DequeueEmpty, DequeueEmpty
    <3> QED BY <3>1 DEF Outside!Next
  <2>4. CASE UNCHANGED heap_vars
    BY <2>4 DEF heap_vars, Outside!vars
  <2> QED BY <1>2, <2>1, <2>2, <2>3, <2>4 DEF HeapNext
<1> QED BY <1>1, <1>2, HeapInitially, HeapKept, PTL DEF HeapSpec, ImplementsPriorityBag, Outside!Spec

-----------------------------------------------------------------------------
-----------------------------------------------------------------------------
(* The ring buffers.  TandemInv is the inductive invariant: the index to   *)
(* insert at and the index to remove from are the numbers of clients that  *)
(* came and left, modulo the length, and each slot holds the latest client *)
(* written to it.                                                          *)

Ids == 0 .. MaxClients
Slots == 0 .. LEN_QUEUE - 1
TandemEvent ==
  {Arrive(me, id) : me \in Stations, id \in Ids} \cup {Finish(me) : me \in Stations}

\* After n clients an index stands at slot i.
StandsAt(i, n) == i \in Slots /\ \E q \in Nat : n = q * LEN_QUEUE + i

\* Each slot holds the latest client written to it.
Holds(queue, came) ==
  \A k \in 1 .. Len(came), i \in Slots :
    StandsAt(i, k - 1) /\ k + LEN_QUEUE > Len(came) => queue[i] = came[k]

RingOK(s, came, left) ==
  /\ came \in Seq(Ids) /\ left \in Seq(Ids)
  /\ Len(left) <= Len(came)
  /\ s.num_clients = Len(came) - Len(left)
  /\ s.queue \in [Slots -> Int]
  /\ StandsAt(s.index_insert, Len(came))
  /\ StandsAt(s.index_remove, Len(left))
  /\ Holds(s.queue, came)

State == [queue : [Slots -> Int], index_insert : Int, index_remove : Int, num_clients : Int,
          tot_num_clients : Int, sum_all_queue_number : Int, num_of_sums : Int, max_queue_len : Int]

EventsOK ==
  /\ BagToSet(events) \subseteq TandemEvent
  /\ \A e \in BagToSet(events) : events[e] \in Nat \ {0}

\* How many came to a station and left it.
Came(me) == Len(arrived[me])
Gone(me) == Len(served[me])

ServersOK ==
  \A me \in Stations : Pending(Finish(me)) = (IF InStation(me) > 0 THEN 1 ELSE 0)

ClientsOK ==
  \A me \in Stations : me > 0 => Len(served[me - 1]) = Len(arrived[me]) + OnTheWay(me)

TandemInv ==
  /\ state \in [Stations -> State]
  /\ arrived \in [Stations -> Seq(Ids)]
  /\ served \in [Stations -> Seq(Ids)]
  /\ \A me \in Stations : RingOK(state[me], arrived[me], served[me])
  /\ EventsOK
  /\ ServersOK
  /\ ClientsOK

-----------------------------------------------------------------------------
(* Indices of the ring buffer.                                             *)

LEMMA NextIndex ==
  ASSUME NEW n \in Nat, NEW i, StandsAt(i, n)
  PROVE  StandsAt((i + 1) % LEN_QUEUE, n + 1)
<1>1. LEN_QUEUE \in Nat /\ LEN_QUEUE > 0 /\ i \in Nat /\ i < LEN_QUEUE
  BY ThreeQueuesAssumption DEF StandsAt, Slots
<1>2. PICK q \in Nat : n = q * LEN_QUEUE + i
  BY DEF StandsAt
<1>3. CASE i + 1 = LEN_QUEUE
  <2>1. (i + 1) % LEN_QUEUE = 0
    BY <1>1, <1>3
  <2>2. n + 1 = (q + 1) * LEN_QUEUE + 0
    BY <1>1, <1>2, <1>3
  <2>3. q + 1 \in Nat /\ 0 \in Slots
    BY <1>1 DEF Slots
  <2>4. StandsAt(0, n + 1)
    BY <2>2, <2>3 DEF StandsAt
  <2> QED BY <2>1, <2>4
<1>4. CASE i + 1 < LEN_QUEUE
  <2>1. (i + 1) % LEN_QUEUE = i + 1
    BY <1>1, <1>4
  <2>2. n + 1 = q * LEN_QUEUE + (i + 1)
    BY <1>1, <1>2
  <2> QED BY <1>1, <1>4, <2>1, <2>2 DEF StandsAt, Slots
<1> QED BY <1>1, <1>3, <1>4

\* Between two visits of a slot an index goes round once.
LEMMA OnceRound ==
  ASSUME NEW m \in Nat, NEW n \in Nat, NEW i, StandsAt(i, m), StandsAt(i, n), m < n
  PROVE  n >= m + LEN_QUEUE
<1>1. LEN_QUEUE \in Nat /\ LEN_QUEUE > 0 /\ i \in Nat
  BY ThreeQueuesAssumption DEF StandsAt, Slots
<1>2. PICK p \in Nat : m = p * LEN_QUEUE + i
  BY DEF StandsAt
<1>3. PICK q \in Nat : n = q * LEN_QUEUE + i
  BY DEF StandsAt
<1>4. q > p
  <2>1. SUFFICES ASSUME q <= p PROVE q * LEN_QUEUE <= p * LEN_QUEUE
    BY <1>1, <1>2, <1>3
  <2>2. p = q + (p - q) /\ p - q \in Nat
    BY <2>1
  <2>3. p * LEN_QUEUE = q * LEN_QUEUE + (p - q) * LEN_QUEUE
    BY <1>1, <2>2
  <2>4. (p - q) * LEN_QUEUE >= 0
    BY <1>1, <2>2
  <2> QED BY <1>1, <2>3, <2>4
<1>5. q - p - 1 \in Nat /\ q = p + 1 + (q - p - 1)
  BY <1>4
<1>6. q * LEN_QUEUE = p * LEN_QUEUE + LEN_QUEUE + (q - p - 1) * LEN_QUEUE
  BY <1>1, <1>5
<1>7. (q - p - 1) * LEN_QUEUE >= 0
  BY <1>1, <1>5
<1> QED BY <1>1, <1>2, <1>3, <1>6, <1>7

LEMMA SlotOfCount ==
  ASSUME NEW p \in Nat, NEW q \in Nat, NEW i \in Nat, NEW j \in Nat,
         i < LEN_QUEUE, j < LEN_QUEUE, p * LEN_QUEUE + i = q * LEN_QUEUE + j
  PROVE  i = j
<1>1. LEN_QUEUE \in Nat
  BY ThreeQueuesAssumption
<1>2. ASSUME NEW a \in Nat, NEW b \in Nat, a > b PROVE a * LEN_QUEUE >= b * LEN_QUEUE + LEN_QUEUE
  <2>1. a - b - 1 \in Nat /\ a = b + 1 + (a - b - 1)
    BY <1>2
  <2>2. a * LEN_QUEUE = b * LEN_QUEUE + LEN_QUEUE + (a - b - 1) * LEN_QUEUE
    BY <1>1, <2>1
  <2>3. (a - b - 1) * LEN_QUEUE >= 0
    BY <1>1, <2>1
  <2> QED BY <1>1, <2>2, <2>3
<1>3. p = q
  BY <1>1, <1>2
<1> QED BY <1>1, <1>3

\* The client that is served next is the one in the slot to remove from.
LEMMA NextInSlot ==
  ASSUME NEW s, NEW came, NEW left, RingOK(s, came, left), Len(left) < Len(came)
  PROVE  LET k == Len(left) + 1 + LEN_QUEUE * ((Len(came) - Len(left) - 1) \div LEN_QUEUE)
         IN  k \in 1 .. Len(came) /\ s.queue[s.index_remove] = came[k]
<1> DEFINE w == Len(came) - Len(left) - 1
           d == w \div LEN_QUEUE
           k == Len(left) + 1 + LEN_QUEUE * d
<1>1. LEN_QUEUE \in Nat /\ LEN_QUEUE > 0 /\ Len(left) \in Nat /\ Len(came) \in Nat /\ w \in Nat
  BY ThreeQueuesAssumption DEF RingOK
<1>2. d \in Nat /\ LEN_QUEUE * d <= w /\ w < LEN_QUEUE * d + LEN_QUEUE
  <2> HIDE DEF w
  <2>1. d \in Int /\ w = LEN_QUEUE * d + (w % LEN_QUEUE) /\ w % LEN_QUEUE \in Int
    BY <1>1
  <2>2. 0 <= w % LEN_QUEUE /\ w % LEN_QUEUE < LEN_QUEUE
    BY <1>1
  <2>3. d \in Nat
    BY <1>1
  <2> QED BY <1>1, <2>1, <2>2, <2>3
<1>3. k \in 1 .. Len(came) /\ k + LEN_QUEUE > Len(came)
  BY <1>1, <1>2
<1>4. StandsAt(s.index_remove, k - 1)
  <2>1. PICK q \in Nat : Len(left) = q * LEN_QUEUE + s.index_remove
    BY DEF RingOK, StandsAt
  <2>2. s.index_remove \in Slots /\ s.index_remove \in Int
    BY DEF RingOK, StandsAt, Slots
  <2>3. k - 1 = (q + d) * LEN_QUEUE + s.index_remove /\ q + d \in Nat
    <3> HIDE DEF d
    <3> QED BY <1>1, <1>2, <2>1, <2>2
  <2> QED BY <2>2, <2>3 DEF StandsAt
<1>5. s.index_remove \in Slots
  BY DEF RingOK, StandsAt
<1> HIDE DEF k
<1>6. s.queue[s.index_remove] = came[k]
  BY <1>3, <1>4, <1>5 DEF RingOK, Holds
<1> QED BY <1>3, <1>6 DEF k

\* A client that arrives is written to its slot; what the slot held before is lost
\* only when the buffer is full.
LEMMA RingInserted ==
  ASSUME NEW s \in State, NEW came, NEW left, NEW id \in Ids, RingOK(s, came, left)
  PROVE  RingOK(Inserted(s, id), Append(came, id), left) /\ Inserted(s, id) \in State
<1> DEFINE new == Append(came, id)
<1>1. /\ came \in Seq(Ids) /\ left \in Seq(Ids) /\ Len(came) \in Nat /\ Len(left) \in Nat
      /\ Len(left) <= Len(came) /\ LEN_QUEUE \in Nat /\ LEN_QUEUE > 0
      /\ Ids \subseteq Int
  BY ThreeQueuesAssumption DEF RingOK, Ids
<1>2. /\ new \in Seq(Ids) /\ Len(new) = Len(came) + 1 /\ new[Len(came) + 1] = id
      /\ \A k \in 1 .. Len(came) : new[k] = came[k]
  BY <1>1
<1>3. StandsAt(s.index_insert, Len(came)) /\ s.index_insert \in Slots /\ s.index_insert \in Int
  BY DEF RingOK, StandsAt, Slots
<1>4. /\ Inserted(s, id).num_clients = s.num_clients + 1
      /\ Inserted(s, id).queue = [s.queue EXCEPT ![s.index_insert] = id]
      /\ Inserted(s, id).index_insert = (s.index_insert + 1) % LEN_QUEUE
      /\ Inserted(s, id).index_remove = s.index_remove
  BY DEF Inserted, State
<1>5. StandsAt(Inserted(s, id).index_insert, Len(new))
  BY <1>1, <1>2, <1>3, <1>4, NextIndex
<1>6. /\ s.queue \in [Slots -> Int]
      /\ Inserted(s, id).queue \in [Slots -> Int]
      /\ Inserted(s, id).queue[s.index_insert] = id
      /\ \A i \in Slots : i # s.index_insert => Inserted(s, id).queue[i] = s.queue[i]
  BY <1>1, <1>3, <1>4 DEF RingOK
<1> HIDE DEF new
<1>7. Holds(Inserted(s, id).queue, new)
  <2> SUFFICES ASSUME NEW k \in 1 .. Len(new), NEW i \in Slots,
                      StandsAt(i, k - 1), k + LEN_QUEUE > Len(new)
               PROVE  Inserted(s, id).queue[i] = new[k]
    BY DEF Holds
  <2>1. CASE k = Len(came) + 1
    <3>1. i = s.index_insert
      <4>1. PICK p \in Nat : Len(came) = p * LEN_QUEUE + i
        <5>1. k - 1 = Len(came)
          BY <1>1, <2>1
        <5> QED BY <5>1 DEF StandsAt
      <4>2. PICK q \in Nat : Len(came) = q * LEN_QUEUE + s.index_insert
        BY <1>3 DEF StandsAt
      <4>3. i \in Nat /\ i < LEN_QUEUE /\ s.index_insert \in Nat /\ s.index_insert < LEN_QUEUE
        BY <1>1, <1>3 DEF Slots
      <4> QED BY <1>1, <4>1, <4>2, <4>3, SlotOfCount
    <3> QED BY <1>2, <1>6, <2>1, <3>1
  <2>2. CASE k \in 1 .. Len(came)
    <3>1. i # s.index_insert
      BY <1>1, <1>2, <1>3, <2>2, OnceRound
    <3>2. s.queue[i] = came[k]
      BY <1>1, <1>2, <2>2 DEF RingOK, Holds
    <3> QED BY <1>2, <1>6, <2>2, <3>1, <3>2
  <2> QED BY <1>1, <1>2, <2>1, <2>2
<1>8. Inserted(s, id) \in State
  <2>1. s.index_insert + 1 \in Int /\ (s.index_insert + 1) % LEN_QUEUE \in Int
    BY <1>1, <1>3
  <2>2. s.num_clients + 1 \in Int
    BY DEF State
  <2>3. Inserted(s, id) = [s EXCEPT !.queue = Inserted(s, id).queue,
                                    !.index_insert = (s.index_insert + 1) % LEN_QUEUE,
                                    !.num_clients = s.num_clients + 1]
    BY <1>4 DEF Inserted, State
  <2> HIDE DEF Inserted
  <2> QED BY <1>6, <2>1, <2>2, <2>3 DEF State
<1>9. RingOK(Inserted(s, id), new, left)
  BY <1>1, <1>2, <1>4, <1>5, <1>6, <1>7 DEF RingOK
<1> QED BY <1>8, <1>9 DEF new

LEMMA RingRemoved ==
  ASSUME NEW s \in State, NEW came, NEW left, NEW id \in Ids, RingOK(s, came, left),
         Len(left) < Len(came)
  PROVE  RingOK(Removed(s), came, Append(left, id)) /\ Removed(s) \in State
<1> DEFINE new == Append(left, id)
<1>1. /\ came \in Seq(Ids) /\ left \in Seq(Ids) /\ Len(came) \in Nat /\ Len(left) \in Nat
      /\ LEN_QUEUE \in Nat /\ LEN_QUEUE > 0
  BY ThreeQueuesAssumption DEF RingOK
<1>2. new \in Seq(Ids) /\ Len(new) = Len(left) + 1
  BY <1>1
<1>3. StandsAt(s.index_remove, Len(left)) /\ s.index_remove \in Int
  BY DEF RingOK, StandsAt, Slots
<1>4. /\ Removed(s).num_clients = s.num_clients - 1
      /\ Removed(s).queue = s.queue
      /\ Removed(s).index_insert = s.index_insert
      /\ Removed(s).index_remove = (s.index_remove + 1) % LEN_QUEUE
  BY DEF Removed, State
<1>5. StandsAt(Removed(s).index_remove, Len(new))
  BY <1>1, <1>2, <1>3, <1>4, NextIndex
<1>6. Removed(s) \in State
  <2>1. s.index_remove + 1 \in Int /\ (s.index_remove + 1) % LEN_QUEUE \in Int
    BY <1>1, <1>3
  <2>2. s.num_clients - 1 \in Int /\ s.tot_num_clients + 1 \in Int
    BY DEF State
  <2> QED BY <2>1, <2>2 DEF Removed, State
<1> HIDE DEF new
<1>7. RingOK(Removed(s), came, new)
  BY <1>1, <1>2, <1>4, <1>5 DEF RingOK
<1> QED BY <1>6, <1>7 DEF new

-----------------------------------------------------------------------------
(* The scheduled events.                                                   *)

LEMMA EventsDiffer ==
  /\ \A me, m, id : Arrive(me, id) # Finish(m)
  /\ \A me, m : Finish(me) = Finish(m) => me = m
  /\ \A me, m, id, jd : Arrive(me, id) = Arrive(m, jd) => me = m /\ id = jd
<1>1. \A me, m, id : Arrive(me, id).type = "ARRIVE" /\ Finish(m).type = "FINISH"
  BY DEF Arrive, Finish
<1>2. /\ \A me : Finish(me).to = me
      /\ \A me, id : Arrive(me, id).to = me /\ Arrive(me, id).id = id
  BY DEF Arrive, Finish
<1> QED BY <1>1, <1>2

Rescheduled(d, C) == (events (-) Scheduled({d})) (+) Scheduled(C)

\* One event is processed and a set of others is scheduled.
LEMMA EventProcessed ==
  ASSUME EventsOK, NEW d, BagIn(d, events), NEW C \in SUBSET TandemEvent,
         events' = Rescheduled(d, C)
  PROVE  /\ EventsOK'
         /\ \A e : /\ Pending(e) \in Nat
                   /\ Pending(e)' = Pending(e) - (IF e = d THEN 1 ELSE 0) + (IF e \in C THEN 1 ELSE 0)
         /\ Pending(d) >= 1
<1> DEFINE B == events (-) Scheduled({d})
<1>1. /\ d \in DOMAIN events /\ DOMAIN events \subseteq TandemEvent
      /\ \A e \in DOMAIN events : events[e] \in Nat /\ events[e] > 0
  BY DEF EventsOK, BagIn, BagToSet
<1>2. /\ DOMAIN B = {e \in DOMAIN events : events[e] - (IF e = d THEN 1 ELSE 0) > 0}
      /\ \A e \in DOMAIN B : B[e] = events[e] - (IF e = d THEN 1 ELSE 0)
  <2> DEFINE less == [e \in DOMAIN events |-> IF e \in DOMAIN Scheduled({d}) THEN events[e] - Scheduled({d})[e]
                                                                           ELSE events[e]]
  <2>1. B = [e \in {x \in DOMAIN less : less[x] > 0} |-> less[e]]
    BY DEF (-)
  <2>2. DOMAIN less = DOMAIN events /\ \A e \in DOMAIN events : less[e] = events[e] - (IF e = d THEN 1 ELSE 0)
    BY <1>1 DEF Scheduled, SetToBag
  <2> HIDE DEF less, B
  <2>3. DOMAIN B = {x \in DOMAIN less : less[x] > 0} /\ \A e \in DOMAIN B : B[e] = less[e]
    BY <2>1
  <2> QED BY <2>2, <2>3
<1>3. /\ DOMAIN events' = DOMAIN B \cup C
      /\ \A e \in DOMAIN events' :
           events'[e] = (IF e \in DOMAIN B THEN B[e] ELSE 0) + (IF e \in C THEN 1 ELSE 0)
  <2>1. DOMAIN Scheduled(C) = C /\ \A e \in C : Scheduled(C)[e] = 1
    BY DEF Scheduled, SetToBag
  <2>2. events' = [e \in DOMAIN B \cup DOMAIN Scheduled(C) |->
                     (IF e \in DOMAIN B THEN B[e] ELSE 0)
                      + (IF e \in DOMAIN Scheduled(C) THEN Scheduled(C)[e] ELSE 0)]
    BY DEF Rescheduled, (+)
  <2> HIDE DEF B
  <2> QED BY <2>1, <2>2
<1> HIDE DEF B
<1>4. \A e : Pending(e) = (IF e \in DOMAIN events THEN events[e] ELSE 0) /\ Pending(e) \in Nat
  BY <1>1 DEF Pending, BagIn, BagToSet
<1>5. \A e : Pending(e)' = (IF e \in DOMAIN events' THEN events'[e] ELSE 0)
  BY DEF Pending, BagIn, BagToSet
<1>6. EventsOK'
  <2>1. DOMAIN events' \subseteq TandemEvent
    BY <1>1, <1>2, <1>3
  <2>2. \A e \in DOMAIN events' : events'[e] \in Nat \ {0}
    BY <1>1, <1>2, <1>3
  <2> QED BY <2>1, <2>2 DEF EventsOK, BagToSet, TandemEvent
<1>7. Pending(d) >= 1
  BY <1>1, <1>4
<1>8. ASSUME NEW e
      PROVE  Pending(e)' = Pending(e) - (IF e = d THEN 1 ELSE 0) + (IF e \in C THEN 1 ELSE 0)
  BY <1>1, <1>2, <1>3, <1>4, <1>5
<1> QED BY <1>4, <1>6, <1>7, <1>8

\* The clients on their way to a station, when one client's events change by delta.
LEMMA OnTheWayChanged ==
  ASSUME NEW me \in Stations, NEW id \in Ids, NEW delta \in Int,
         \A i \in Ids : /\ Pending(Arrive(me, i)) \in Nat
                        /\ Pending(Arrive(me, i))' = Pending(Arrive(me, i)) + (IF i = id THEN delta ELSE 0)
  PROVE  OnTheWay(me)' = OnTheWay(me) + delta /\ OnTheWay(me) \in Nat
<1> DEFINE f == [i \in Ids |-> Pending(Arrive(me, i))]
           g == [i \in Ids |-> Pending(Arrive(me, i))']
<1>1. IsFiniteSet(Ids)
  BY ThreeQueuesAssumption, FS_Interval DEF Ids
<1>2. /\ \A i \in Ids : f[i] \in Nat
      /\ \A i \in Ids : f[i] \in Int
      /\ \A i \in Ids : i # id => g[i] = f[i]
      /\ g[id] = f[id] + delta
      /\ g[id] \in Int
  OBVIOUS
<1>3. OnTheWay(me) = SumFunctionOnSet(f, Ids) /\ OnTheWay(me)' = SumFunctionOnSet(g, Ids)
  BY DEF OnTheWay, SumFunction, Ids
<1> HIDE DEF f, g
<1>4. SumFunctionOnSet(g, Ids) = SumFunctionOnSet(f, Ids) - f[id] + g[id]
  <2>1. /\ \A i \in Ids : f[i] \in Int
        /\ \A i \in Ids : i # id => g[i] = f[i]
        /\ g[id] \in Int
    BY <1>2
  <2> QED BY ONLY <1>1, <2>1, id \in Ids, SumChanged
<1>5. SumFunctionOnSet(f, Ids) \in Nat
  BY <1>1, <1>2, SumNat
<1> QED BY <1>2, <1>3, <1>4, <1>5

LEMMA Counts ==
  ASSUME TandemInv, NEW me \in Stations
  PROVE  /\ Came(me) \in Nat /\ Gone(me) \in Nat
         /\ InStation(me) = Came(me) - Gone(me)
         /\ InStation(me) \in Nat
         /\ state[me].num_clients = InStation(me)
<1>1. RingOK(state[me], arrived[me], served[me])
  BY DEF TandemInv
<1>2. Len(arrived[me]) \in Nat /\ Len(served[me]) \in Nat /\ Len(served[me]) <= Len(arrived[me])
  BY <1>1 DEF RingOK
<1>3. state[me].num_clients = Len(arrived[me]) - Len(served[me])
  BY <1>1 DEF RingOK
<1> QED BY <1>2, <1>3 DEF Came, Gone, InStation

LEMMA InStationCounts ==
  \A me \in Stations : InStation(me) = Came(me) - Gone(me) /\ InStation(me)' = Came(me)' - Gone(me)'
BY DEF InStation, Came, Gone

-----------------------------------------------------------------------------
(* The steps.                                                              *)

LEMMA TandemInitInv == ASSUME TandemInit PROVE TandemInv
<1>1. /\ LEN_QUEUE \in Nat /\ LEN_QUEUE > 0 /\ MaxClients \in Nat /\ 0 \in Ids /\ 0 \in Slots
      /\ Ids \subseteq Int /\ Slots \subseteq Int
  BY ThreeQueuesAssumption DEF Ids, Slots
<1>2. NewState \in State
  <2>1. [slot \in 0 .. LEN_QUEUE - 1 |-> -1] \in [Slots -> Int]
    BY DEF Slots
  <2> QED BY <2>1 DEF NewState, State
<1>3. state \in [Stations -> State] /\ arrived \in [Stations -> Seq(Ids)] /\ served \in [Stations -> Seq(Ids)]
  BY <1>2 DEF TandemInit
<1>4. ASSUME NEW me \in Stations PROVE RingOK(state[me], arrived[me], served[me])
  <2>1. state[me] = NewState /\ arrived[me] = <<>> /\ served[me] = <<>>
    BY DEF TandemInit
  <2>2. StandsAt(0, 0)
    BY <1>1 DEF StandsAt
  <2>3. /\ NewState.queue \in [Slots -> Int] /\ NewState.index_insert = 0
        /\ NewState.index_remove = 0 /\ NewState.num_clients = 0
    BY DEF NewState, Slots
  <2>4. <<>> \in Seq(Ids) /\ Len(<<>>) = 0
    OBVIOUS
  <2>5. Holds(NewState.queue, <<>>)
    BY <2>4 DEF Holds
  <2> QED BY <2>1, <2>2, <2>3, <2>4, <2>5 DEF RingOK
<1>5. DOMAIN events = {Arrive(0, 0)} /\ events[Arrive(0, 0)] = 1
  BY DEF TandemInit, Scheduled, SetToBag
<1>6. EventsOK
  <2>1. Arrive(0, 0) \in TandemEvent
    BY <1>1 DEF TandemEvent, Stations
  <2> QED BY <1>5, <2>1 DEF EventsOK, BagToSet
<1>7. \A me \in Stations : Len(arrived[me]) = 0 /\ Len(served[me]) = 0
  BY DEF TandemInit
<1>8. ServersOK
  <2>1. \A me \in Stations : InStation(me) = 0
    BY <1>7 DEF InStation
  <2>2. \A me \in Stations : Pending(Finish(me)) = 0
    BY <1>5, EventsDiffer DEF Pending, BagIn, BagToSet
  <2> QED BY <2>1, <2>2 DEF ServersOK
<1>9. ClientsOK
  <2> SUFFICES ASSUME NEW me \in Stations, me > 0 PROVE OnTheWay(me) = 0
    BY <1>7 DEF ClientsOK, Stations
  <2> DEFINE f == [i \in Ids |-> Pending(Arrive(me, i))]
  <2>1. \A i \in Ids : f[i] = 0
    BY <1>5, EventsDiffer DEF Pending, BagIn, BagToSet
  <2>2. OnTheWay(me) = SumFunctionOnSet(f, Ids)
    BY DEF OnTheWay, SumFunction, Ids
  <2>3. IsFiniteSet(Ids)
    BY <1>1, FS_Interval DEF Ids
  <2> HIDE DEF f
  <2>4. SumFunctionOnSet(f, Ids) = SumFunctionOnSet(f, {})
    BY <2>1, <2>3, FS_EmptySet, SumPadded
  <2> QED BY <2>2, <2>4, SumEmpty
<1> QED BY <1>3, <1>4, <1>6, <1>8, <1>9 DEF TandemInv

LEMMA ArriveKeepsInv ==
  ASSUME TandemInv, NEW me \in Stations, NEW id \in Ids, ProcessArrive(me, id)
  PROVE  TandemInv'
<1> DEFINE C == CausedByArrival(me, id)
<1>1. /\ state \in [Stations -> State] /\ arrived \in [Stations -> Seq(Ids)] /\ served \in [Stations -> Seq(Ids)]
      /\ RingOK(state[me], arrived[me], served[me]) /\ EventsOK
  BY DEF TandemInv
<1>2. /\ me = 0 => id < MaxClients
      /\ BagIn(Arrive(me, id), events)
      /\ state' = [state EXCEPT ![me] = Inserted(@, id)]
      /\ events' = Rescheduled(Arrive(me, id), C)
      /\ arrived' = [arrived EXCEPT ![me] = Append(@, id)]
      /\ served' = served
  BY DEF ProcessArrive, Rescheduled
<1>3. \A e : e \in C <=> \/ e = Finish(me) /\ state[me].num_clients < 1
                         \/ e = Arrive(0, id + 1) /\ me = 0
  BY DEF CausedByArrival
<1>4. C \in SUBSET TandemEvent
  <2>1. Finish(me) \in TandemEvent
    BY DEF TandemEvent
  <2>2. me = 0 => id + 1 \in Ids /\ 0 \in Stations
    BY <1>2, ThreeQueuesAssumption DEF Ids, Stations
  <2>3. me = 0 => Arrive(0, id + 1) \in TandemEvent
    BY <2>2 DEF TandemEvent
  <2> QED BY <1>3, <2>1, <2>3
<1> HIDE DEF C
<1>5. /\ EventsOK'
      /\ \A e : /\ Pending(e) \in Nat
                /\ Pending(e)' = Pending(e) - (IF e = Arrive(me, id) THEN 1 ELSE 0) + (IF e \in C THEN 1 ELSE 0)
  BY <1>1, <1>2, <1>4, EventProcessed
<1>6. /\ RingOK(Inserted(state[me], id), Append(arrived[me], id), served[me])
      /\ Inserted(state[me], id) \in State
  BY <1>1, RingInserted
<1>7. /\ state' \in [Stations -> State] /\ arrived' \in [Stations -> Seq(Ids)] /\ served' \in [Stations -> Seq(Ids)]
      /\ state'[me] = Inserted(state[me], id) /\ arrived'[me] = Append(arrived[me], id)
      /\ \A m \in Stations : m # me => state'[m] = state[m] /\ arrived'[m] = arrived[m]
  BY <1>1, <1>2, <1>6
<1>8. \A m \in Stations : RingOK(state'[m], arrived'[m], served'[m])
  BY <1>2, <1>6, <1>7 DEF TandemInv
<1>9. \A m \in Stations : Came(m)' = Came(m) + (IF m = me THEN 1 ELSE 0) /\ Gone(m)' = Gone(m)
  <2>1. Len(Append(arrived[me], id)) = Len(arrived[me]) + 1
    BY <1>1
  <2>2. \A m \in Stations : m # me => arrived'[m] = arrived[m]
    BY <1>7
  <2>3. \A m \in Stations : m # me => Came(m)' = Came(m)
    BY <2>2 DEF Came
  <2>4. Came(me)' = Came(me) + 1
    BY <1>7, <2>1 DEF Came
  <2> QED BY <1>2, <2>3, <2>4, Counts DEF Gone
<1>10. ServersOK'
  <2> SUFFICES ASSUME NEW m \in Stations
               PROVE  Pending(Finish(m))' = (IF InStation(m)' > 0 THEN 1 ELSE 0)
    BY DEF ServersOK
  <2>1. /\ InStation(m) \in Int
        /\ InStation(m)' = InStation(m) + (IF m = me THEN 1 ELSE 0)
    BY <1>9, Counts, InStationCounts
  <2>2. Pending(Finish(m)) = (IF InStation(m) > 0 THEN 1 ELSE 0)
    BY DEF TandemInv, ServersOK
  <2>3. state[me].num_clients = InStation(me) /\ InStation(me) \in Nat
    BY Counts
  <2>4. Pending(Finish(m))' = Pending(Finish(m)) + (IF Finish(m) \in C THEN 1 ELSE 0)
    BY <1>5, EventsDiffer
  <2>5. Finish(m) \in C <=> m = me /\ InStation(me) < 1
    BY <1>3, <2>3, EventsDiffer
  <2> QED BY <2>1, <2>2, <2>3, <2>4, <2>5
<1>11. ClientsOK'
  <2> SUFFICES ASSUME NEW m \in Stations, m > 0
               PROVE  Gone(m - 1)' = Came(m)' + OnTheWay(m)'
    BY DEF ClientsOK, Came, Gone
  <2> DEFINE delta == IF m = me THEN -1 ELSE 0
  <2>1. \A i \in Ids : /\ Pending(Arrive(m, i)) \in Nat
                       /\ Pending(Arrive(m, i))' = Pending(Arrive(m, i)) + (IF i = id THEN delta ELSE 0)
    <3> SUFFICES ASSUME NEW i \in Ids
                 PROVE  Pending(Arrive(m, i))' = Pending(Arrive(m, i)) + (IF i = id THEN delta ELSE 0)
      BY <1>5
    <3>1. Arrive(m, i) \notin C
      BY <1>3, EventsDiffer DEF Stations
    <3>2. Arrive(m, i) = Arrive(me, id) <=> m = me /\ i = id
      BY EventsDiffer
    <3> QED BY <1>5, <3>1, <3>2
  <2>2. delta \in Int
    OBVIOUS
  <2> HIDE DEF delta
  <2>3. OnTheWay(m)' = OnTheWay(m) + delta /\ OnTheWay(m) \in Nat
    BY <2>1, <2>2, OnTheWayChanged
  <2>4. Gone(m - 1) = Came(m) + OnTheWay(m)
    BY DEF TandemInv, ClientsOK, Came, Gone
  <2>5. m - 1 \in Stations
    BY DEF Stations
  <2> QED BY <1>9, <2>3, <2>4, <2>5, Counts DEF delta
<1> QED BY <1>5, <1>7, <1>8, <1>10, <1>11 DEF TandemInv

LEMMA FinishKeepsInv ==
  ASSUME TandemInv, NEW me \in Stations, ProcessFinish(me)
  PROVE  TandemInv'
<1> DEFINE id == state[me].queue[state[me].index_remove]
           C == CausedByFinish(me, id)
<1>1. /\ state \in [Stations -> State] /\ arrived \in [Stations -> Seq(Ids)] /\ served \in [Stations -> Seq(Ids)]
      /\ RingOK(state[me], arrived[me], served[me]) /\ EventsOK
  BY DEF TandemInv
<1>2. /\ BagIn(Finish(me), events)
      /\ state' = [state EXCEPT ![me] = Removed(@)]
      /\ events' = Rescheduled(Finish(me), C)
      /\ served' = [served EXCEPT ![me] = Append(@, id)]
      /\ arrived' = arrived
  BY DEF ProcessFinish, Rescheduled
<1>3. state[me].num_clients = InStation(me) /\ InStation(me) \in Nat
  BY Counts
<1>4. InStation(me) > 0 /\ Len(served[me]) < Len(arrived[me])
  <2>1. Pending(Finish(me)) # 0
    BY <1>1, <1>2 DEF Pending, EventsOK, BagIn
  <2>2. Pending(Finish(me)) = (IF InStation(me) > 0 THEN 1 ELSE 0)
    BY DEF TandemInv, ServersOK
  <2>3. InStation(me) > 0
    BY <1>3, <2>1, <2>2
  <2>4. Gone(me) < Came(me)
    BY <2>3, Counts
  <2> QED BY <2>3, <2>4 DEF Gone, Came
<1>5. id \in Ids
  <2> DEFINE k == Len(served[me]) + 1 + LEN_QUEUE * ((Len(arrived[me]) - Len(served[me]) - 1) \div LEN_QUEUE)
  <2>1. k \in 1 .. Len(arrived[me]) /\ id = arrived[me][k]
    BY <1>1, <1>4, NextInSlot
  <2> HIDE DEF k, id
  <2> QED BY <1>1, <2>1
<1>6. Removed(state[me]).num_clients = InStation(me) - 1
  BY <1>1, <1>3 DEF Removed, State
<1> HIDE DEF id
<1>7. \A e : e \in C <=> \/ me < 2 /\ e = Arrive(me + 1, id)
                         \/ e = Finish(me) /\ InStation(me) > 1
  <2>1. MyUpNode[me] = IF me = 2 THEN -1 ELSE me + 1
    BY DEF MyUpNode
  <2>2. (me = 2 <=> ~ me < 2) /\ me + 1 # -1 /\ me \in Int /\ me <= 2
    BY DEF Stations
  <2>3. Removed(state[me]).num_clients > 0 <=> InStation(me) > 1
    BY <1>3, <1>6
  <2> QED BY <2>1, <2>2, <2>3 DEF CausedByFinish
<1>8. C \in SUBSET TandemEvent
  <2>1. me < 2 => me + 1 \in Stations
    BY DEF Stations
  <2>2. (me < 2 => Arrive(me + 1, id) \in TandemEvent) /\ Finish(me) \in TandemEvent
    BY <1>5, <2>1 DEF TandemEvent
  <2> QED BY <1>7, <2>2
<1> HIDE DEF C
<1>9. /\ EventsOK'
      /\ \A e : /\ Pending(e) \in Nat
                /\ Pending(e)' = Pending(e) - (IF e = Finish(me) THEN 1 ELSE 0) + (IF e \in C THEN 1 ELSE 0)
  BY <1>1, <1>2, <1>8, EventProcessed
<1>10. /\ RingOK(Removed(state[me]), arrived[me], Append(served[me], id))
       /\ Removed(state[me]) \in State
  BY <1>1, <1>4, <1>5, RingRemoved
<1>11. /\ state' \in [Stations -> State] /\ arrived' \in [Stations -> Seq(Ids)] /\ served' \in [Stations -> Seq(Ids)]
       /\ state'[me] = Removed(state[me]) /\ served'[me] = Append(served[me], id)
       /\ \A m \in Stations : m # me => state'[m] = state[m] /\ served'[m] = served[m]
  BY <1>1, <1>2, <1>5, <1>10
<1>12. \A m \in Stations : RingOK(state'[m], arrived'[m], served'[m])
  BY <1>2, <1>10, <1>11 DEF TandemInv
<1>13. \A m \in Stations : Gone(m)' = Gone(m) + (IF m = me THEN 1 ELSE 0) /\ Came(m)' = Came(m)
  <2>1. Len(Append(served[me], id)) = Len(served[me]) + 1
    BY <1>1, <1>5
  <2>2. \A m \in Stations : m # me => served'[m] = served[m]
    BY <1>11
  <2>3. \A m \in Stations : m # me => Gone(m)' = Gone(m)
    BY <2>2 DEF Gone
  <2>4. Gone(me)' = Gone(me) + 1
    BY <1>11, <2>1 DEF Gone
  <2> QED BY <1>2, <2>3, <2>4, Counts DEF Came
<1>14. ServersOK'
  <2> SUFFICES ASSUME NEW m \in Stations
               PROVE  Pending(Finish(m))' = (IF InStation(m)' > 0 THEN 1 ELSE 0)
    BY DEF ServersOK
  <2>1. /\ InStation(m) \in Int
        /\ InStation(m)' = InStation(m) - (IF m = me THEN 1 ELSE 0)
    BY <1>13, Counts, InStationCounts
  <2>2. Pending(Finish(m)) = (IF InStation(m) > 0 THEN 1 ELSE 0)
    BY DEF TandemInv, ServersOK
  <2>3. Finish(m) = Finish(me) <=> m = me
    BY EventsDiffer
  <2>4. Finish(m) \in C <=> m = me /\ InStation(me) > 1
    BY <1>7, EventsDiffer
  <2> QED BY <1>4, <1>9, <2>1, <2>2, <2>3, <2>4
<1>15. ClientsOK'
  <2> SUFFICES ASSUME NEW m \in Stations, m > 0
               PROVE  Gone(m - 1)' = Came(m)' + OnTheWay(m)'
    BY DEF ClientsOK, Came, Gone
  <2> DEFINE delta == IF m = me + 1 THEN 1 ELSE 0
  <2>0. m - 1 \in Stations /\ (m = me + 1 <=> m - 1 = me) /\ (m = me + 1 => me < 2)
    BY DEF Stations
  <2>1. \A i \in Ids : /\ Pending(Arrive(m, i)) \in Nat
                       /\ Pending(Arrive(m, i))' = Pending(Arrive(m, i)) + (IF i = id THEN delta ELSE 0)
    <3> SUFFICES ASSUME NEW i \in Ids
                 PROVE  Pending(Arrive(m, i))' = Pending(Arrive(m, i)) + (IF i = id THEN delta ELSE 0)
      BY <1>9
    <3>1. Arrive(m, i) \in C <=> m = me + 1 /\ i = id
      BY <1>7, <2>0, EventsDiffer
    <3>2. Arrive(m, i) # Finish(me)
      BY EventsDiffer
    <3> QED BY <1>9, <3>1, <3>2
  <2>2. delta \in Int
    OBVIOUS
  <2> HIDE DEF delta
  <2>3. OnTheWay(m)' = OnTheWay(m) + delta /\ OnTheWay(m) \in Nat
    BY <1>5, <2>1, <2>2, OnTheWayChanged
  <2>4. Gone(m - 1) = Came(m) + OnTheWay(m)
    BY DEF TandemInv, ClientsOK, Came, Gone
  <2> QED BY <1>13, <2>0, <2>3, <2>4, Counts DEF delta
<1> QED BY <1>9, <1>11, <1>12, <1>14, <1>15 DEF TandemInv

LEMMA GvtKeepsInv == ASSUME TandemInv, OnGVT PROVE TandemInv'
<1>1. /\ state \in [Stations -> State]
      /\ state' = [me \in Stations |-> Sampled(state[me])]
      /\ events' = events /\ arrived' = arrived /\ served' = served
  BY DEF TandemInv, OnGVT
<1>2. ASSUME NEW s \in State
      PROVE  /\ Sampled(s) \in State /\ Sampled(s).queue = s.queue
             /\ Sampled(s).index_insert = s.index_insert /\ Sampled(s).index_remove = s.index_remove
             /\ Sampled(s).num_clients = s.num_clients
  <2> DEFINE most == IF s.num_clients > s.max_queue_len THEN s.num_clients ELSE s.max_queue_len
             sum == s.sum_all_queue_number + s.num_clients
             sums == s.num_of_sums + 1
  <2>1. most \in Int /\ sum \in Int /\ sums \in Int
    BY DEF State
  <2>2. Sampled(s) = [s EXCEPT !.sum_all_queue_number = sum, !.num_of_sums = sums, !.max_queue_len = most]
    BY DEF Sampled, State
  <2> HIDE DEF most, sum, sums
  <2> QED BY <2>1, <2>2 DEF State
<1>3. state' \in [Stations -> State] /\ \A me \in Stations : state'[me] = Sampled(state[me])
  BY <1>1, <1>2
<1>4. \A me \in Stations : RingOK(state'[me], arrived'[me], served'[me])
  <2> SUFFICES ASSUME NEW me \in Stations PROVE RingOK(Sampled(state[me]), arrived[me], served[me])
    BY <1>1, <1>3
  <2>1. RingOK(state[me], arrived[me], served[me]) /\ state[me] \in State
    BY <1>1 DEF TandemInv
  <2> DEFINE s == state[me]
             r == Sampled(s)
  <2>2. /\ r.queue = s.queue /\ r.index_insert = s.index_insert /\ r.index_remove = s.index_remove
        /\ r.num_clients = s.num_clients
    BY <1>2, <2>1
  <2> HIDE DEF r
  <2>3. RingOK(r, arrived[me], served[me])
    BY <2>1, <2>2 DEF RingOK
  <2> QED BY <2>3 DEF r
<1>5. EventsOK' /\ \A e : Pending(e)' = Pending(e)
  BY <1>1 DEF TandemInv, EventsOK, BagToSet, Pending, TandemEvent
<1>6. ServersOK' /\ ClientsOK'
  BY <1>1, <1>5 DEF TandemInv, ServersOK, ClientsOK, OnTheWay, InStation, Pending
<1> QED BY <1>1, <1>3, <1>4, <1>5, <1>6 DEF TandemInv

LEMMA TandemStep == ASSUME TandemInv, [TandemNext]_tandem_vars PROVE TandemInv'
<1>1. ASSUME NEW me \in Stations, NEW id \in 0 .. MaxClients, ProcessArrive(me, id) PROVE TandemInv'
  BY <1>1, ArriveKeepsInv DEF Ids
<1>2. ASSUME NEW me \in Stations, ProcessFinish(me) PROVE TandemInv'
  BY <1>2, FinishKeepsInv
<1>3. CASE UNCHANGED tandem_vars
  <2>1. state' = state /\ events' = events /\ arrived' = arrived /\ served' = served
    BY <1>3 DEF tandem_vars
  <2> QED BY <2>1 DEF TandemInv, EventsOK, ServersOK, ClientsOK, BagToSet, TandemEvent, OnTheWay, InStation, Pending
<1> QED BY <1>1, <1>2, <1>3, GvtKeepsInv DEF TandemNext

LEMMA TandemServesInTurn == ASSUME TandemInv PROVE ServedInTurn
<1> SUFFICES ASSUME NEW me \in Stations
             PROVE  /\ state[me].num_clients = InStation(me)
                    /\ Pending(Finish(me)) = (IF InStation(me) > 0 THEN 1 ELSE 0)
                    /\ InStation(me) > 0 => state[me].queue[state[me].index_remove] = ServedNext(me)
                    /\ me > 0 => Len(served[me - 1]) = Len(arrived[me]) + OnTheWay(me)
  BY DEF ServedInTurn
<1>1. RingOK(state[me], arrived[me], served[me])
  BY DEF TandemInv
<1>2. state[me].num_clients = InStation(me)
  BY <1>1 DEF RingOK, InStation
<1>3. InStation(me) > 0 => state[me].queue[state[me].index_remove] = ServedNext(me)
  <2> SUFFICES ASSUME InStation(me) > 0 PROVE state[me].queue[state[me].index_remove] = ServedNext(me)
    OBVIOUS
  <2>1. Len(served[me]) < Len(arrived[me])
    <3>1. Gone(me) < Came(me)
      BY Counts
    <3> QED BY <3>1 DEF Came, Gone
  <2> QED BY <1>1, <2>1, NextInSlot DEF ServedNext, InStation
<1> QED BY <1>2, <1>3 DEF TandemInv, ServersOK, ClientsOK

\* For every length of the buffers and number of clients, every station serves in
\* turn and keeps working: a client is served in the order of arrival unless it was
\* overwritten, a FINISH is under way exactly while a client waits, and no client is
\* lost or doubled between two stations.
THEOREM StationsServeInTurn == TandemSpec => []ServedInTurn
<1>1. TandemInit => TandemInv
  BY TandemInitInv
<1>2. TandemInv /\ [TandemNext]_tandem_vars => TandemInv'
  BY TandemStep
<1>3. TandemInv => ServedInTurn
  BY TandemServesInTurn
<1> QED BY <1>1, <1>2, <1>3, PTL DEF TandemSpec

=============================================================================
