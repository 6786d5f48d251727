----------------------------- MODULE Scheduler -----------------------------
(***************************************************************************)
(* utils/priority_scheduler: takes jobs into the input queue of their      *)
(* priority and type, and moves them to output queues or hands them to its *)
(* caller, by priority and key or by round robin over the types.  Queues   *)
(* are bags with a key (module PriorityBag).  The caller passes an array   *)
(* with room for the jobs of one call, so the exit at lines 85-88 is out   *)
(* of reach.                                                               *)
(***************************************************************************)
EXTENDS Integers, FiniteSets

CONSTANT
  Configurations  \* the arguments new_prio_scheduler is called with, and the
                  \* jobs offered to that scheduler

NUM_OF_PRIO_TYPES == 3
NUM_OF_JOB_TYPE   == 5
INVALID_JOB       == -1    \* type of a queue for jobs of any type
Infinite          == -1    \* room of a queue without check_full
SCHEDULE_FAIL     == -1
SCHEDULE_DONE     == 0

Prios     == 0 .. NUM_OF_PRIO_TYPES - 1
JobTypes  == 0 .. NUM_OF_JOB_TYPE - 1
QueueConf == [prio : Prios, type : JobTypes \cup {INVALID_JOB}, room : Nat \cup {Infinite}]

Offer == [prio : Prios, type : JobTypes, deadline : Nat]

ASSUME SchedulerAssumption ==
  \A c \in Configurations :
    /\ \A a \in {c.input, c.output} :
         /\ Cardinality(DOMAIN a) \in Nat
         /\ a \in [0 .. Cardinality(DOMAIN a) - 1 -> QueueConf]
    /\ c.events_to_schedule \in Nat
    /\ c.upgrade_prio \in BOOLEAN    \* mix_prio = UPGRADE_PRIO
    /\ c.round_robin \in BOOLEAN     \* sched_algo = SCHED_RR
    /\ c.offers \subseteq Offer
    /\ c.max_jobs \in Nat            \* bound: jobs offered
    /\ \* without UPGRADE_PRIO input queue i is served by output queue i
       ~c.upgrade_prio /\ DOMAIN c.output # {} => DOMAIN c.input \subseteq DOMAIN c.output

VARIABLES
  conf,                 \* the configuration of this scheduler
  input_queues,         \* the arrays new_prio_scheduler sorted
  output_queues,
  input,                \* the jobs in each input queue
  output,               \* and in each output queue: [key, nth, job]
  scheduler_timestamp,  \* key of the next job moved to an output queue
  last_schedule_out,    \* type of the job moved last
  offered,              \* jobs offered to schedule_in so far; a job's id
  accepted,             \* those it took
  moved,                \* jobs moved to an output queue so far
  delivered             \* jobs that reached a consumer

fixed == <<conf, input_queues, output_queues>>
vars == <<fixed, input, output, scheduler_timestamp, last_schedule_out, offered,
          accepted, moved, delivered>>

Job == [id : Nat, prio : Prios, type : JobTypes, deadline : Nat]

-----------------------------------------------------------------------------
(* new_prio_scheduler sorts both arrays.                                   *)

Prio(q) == q.prio
SameType(p, q) == p.type = q.type
QS == INSTANCE QuickSort WITH Element <- QueueConf, Key <- Prio, Alike <- SameType

Inputs  == DOMAIN input_queues
Outputs == DOMAIN output_queues

\* "places all smaller (smaller than pivot) to left of pivot and all greater
\* elements to right of pivot" (queue_quick_sort.c:11-14): the queues the
\* algorithms scan are the ones handed over, the most urgent first.
SortedFrom(handed_over, queues) == QS!IsPermutation(handed_over, queues) /\ QS!IsSorted(queues)

\* No bounded queue is handed a job it has no room for, although output_index only
\* moves forwards within a call.
Fits(queue, q) == queue.room = Infinite \/ Cardinality(q) <= queue.room

TypeOK ==
  /\ input \in [Inputs -> SUBSET Job]
  /\ \A o \in Outputs : \A e \in output[o] : e.job \in Job /\ e.key \in Nat
  /\ \A i \in Inputs : Fits(input_queues[i], input[i])
  /\ \A o \in Outputs : Fits(output_queues[o], output[o])
  /\ scheduler_timestamp \in Nat
  /\ last_schedule_out \in JobTypes \cup {INVALID_JOB}
  /\ delivered \subseteq accepted
  /\ SortedFrom(conf.input, input_queues) /\ SortedFrom(conf.output, output_queues)

NewPrioScheduler(c) ==
  /\ conf = c
  /\ input_queues = QS!Sort(c.input)
  /\ output_queues = QS!Sort(c.output)

Init ==
  /\ \E c \in Configurations : NewPrioScheduler(c)
  /\ input = [i \in Inputs |-> {}]
  /\ output = [o \in Outputs |-> {}]
  /\ scheduler_timestamp = 0
  /\ last_schedule_out = INVALID_JOB
  /\ offered = 0
  /\ accepted = {}
  /\ moved = 0
  /\ delivered = {}

-----------------------------------------------------------------------------
(* schedule_in: the first queue that takes the job's type, has its         *)
(* priority and is not full.                                               *)

\* check_queues.
HasRoom(queue, q) == queue.room = Infinite \/ Cardinality(q) < queue.room

Takes(i, job) ==
  /\ input_queues[i].type \in {INVALID_JOB, job.type}
  /\ input_queues[i].prio = job.prio
  /\ HasRoom(input_queues[i], input[i])

\* Mutant: every queue that takes the job gets it.
MutFirstTaking(i, job) == Takes(i, job)

FirstTaking(i, job) == Takes(i, job) /\ \A k \in Inputs : k < i => ~Takes(k, job)

ScheduleIn(job) ==
  /\ offered < conf.max_jobs
  /\ offered' = offered + 1
  /\ input' = [i \in Inputs |-> IF FirstTaking(i, job) THEN input[i] \cup {job} ELSE input[i]]
  /\ accepted' = accepted \cup {j \in {job} : \E i \in Inputs : FirstTaking(i, j)}
  /\ UNCHANGED <<fixed, output, scheduler_timestamp, last_schedule_out, moved, delivered>>

-----------------------------------------------------------------------------
(* select_queue.                                                           *)

NonEmpty(in) == {i \in Inputs : in[i] # {}}

Earliest(q) == {j \in q : \A k \in q : j.deadline <= k.deadline}
Peek(q) == (CHOOSE j \in Earliest(q) : TRUE).deadline

\* The element of S that comes first, or SCHEDULE_FAIL.
FirstOf(S, Before(_, _)) ==
  IF S = {} THEN SCHEDULE_FAIL
  ELSE CHOOSE i \in S : \A k \in S \ {i} : Before(i, k)

\* Mutant: prio < NUM_OF_PRIO_TYPES - 1.
MutFifoQueue(in) ==
  FirstOf({i \in NonEmpty(in) : input_queues[i].prio < NUM_OF_PRIO_TYPES - 1},
          LAMBDA i, k : LET p == input_queues[i].prio
                            r == input_queues[k].prio
                        IN  \/ p < r
                            \/ p = r /\ Peek(in[i]) < Peek(in[k])
                            \/ p = r /\ Peek(in[i]) = Peek(in[k]) /\ i < k)

\* Mutant: the smallest key over all priorities.
MutFifoByKey(in) ==
  FirstOf(NonEmpty(in),
          LAMBDA i, k : \/ Peek(in[i]) < Peek(in[k])
                        \/ Peek(in[i]) = Peek(in[k]) /\ i < k)

\* prio_fifo_alogrithm: the most urgent priority with a job, then the smallest
\* key, then the first queue.
FifoQueue(in) ==
  FirstOf(NonEmpty(in),
          LAMBDA i, k : LET p == input_queues[i].prio
                            r == input_queues[k].prio
                        IN  \/ p < r
                            \/ p = r /\ Peek(in[i]) < Peek(in[k])
                            \/ p = r /\ Peek(in[i]) = Peek(in[k]) /\ i < k)

Turn(last, type) == (type - (last + 1)) % NUM_OF_JOB_TYPE

\* round_robin_algorithm: types in a circle from the one after the last, and
\* the first queue of the type.  The loop over priorities changes nothing:
\* line 63 does not look at the queue's priority, and queues for any type never
\* match.
RoundRobinQueue(in, last) ==
  FirstOf({i \in NonEmpty(in) : input_queues[i].type # INVALID_JOB},
          LAMBDA i, k : LET t == Turn(last, input_queues[i].type)
                            u == Turn(last, input_queues[k].type)
                        IN  t < u \/ (t = u /\ i < k))

SelectQueue(in, last) == IF conf.round_robin THEN RoundRobinQueue(in, last) ELSE FifoQueue(in)

-----------------------------------------------------------------------------
(* schedule_out.  A call in progress is a record: the queues, timestamp and *)
(* last type as they are by now, the jobs put into the caller's array, the  *)
(* number moved, output_index, the result, and whether the call is over.    *)

Empty(out) == \A o \in Outputs : out[o] = {}

\* Mutant: the timestamp is reset at every call.
MutStartTimestamp == 0

StartTimestamp == IF Empty(output) THEN 0 ELSE scheduler_timestamp

Start == [input |-> input, output |-> output, ts |-> StartTimestamp,
          last |-> last_schedule_out, jobs |-> {}, moved |-> moved,
          index |-> 0, res |-> SCHEDULE_FAIL, over |-> FALSE]

OutputRoom(s, o) == HasRoom(output_queues[o], s.output[o])

\* Mutant: a queue that has just become full takes one more job.
MutSuitableOutputs(s, q) ==
  IF conf.upgrade_prio
  THEN {o \in Outputs : o >= s.index /\ Cardinality(s.output[o]) <= output_queues[o].room
                        /\ \A p \in Outputs : s.index <= p /\ p < o => ~OutputRoom(s, p)}
  ELSE {o \in {q} : OutputRoom(s, o)}

\* The output queue for a job of input queue q: with UPGRADE_PRIO the first
\* with room from output_index on, otherwise queue q itself if it has room.
SuitableOutputs(s, q) ==
  IF conf.upgrade_prio
  THEN {o \in Outputs : /\ o >= s.index /\ OutputRoom(s, o)
                        /\ \A p \in Outputs : s.index <= p /\ p < o => ~OutputRoom(s, p)}
  ELSE {o \in {q} : OutputRoom(s, o)}

Take(s, q, j) ==
  [s EXCEPT !.input[q] = @ \ {j}, !.last = j.type, !.ts = @ + 1, !.res = SCHEDULE_DONE]

ToOutput(s, o, j) ==
  [s EXCEPT !.output[o] = @ \cup {[key |-> s.ts, nth |-> s.moved + 1, job |-> j]},
            !.moved = @ + 1, !.index = o]

ToCaller(s, j) == [s EXCEPT !.jobs = @ \cup {j}]

\* Mutant: the job is dequeued before an output queue is looked for.
MutDequeueFirst(s) ==
  LET q == SelectQueue(s.input, s.last)
  IN  IF s.over THEN {s}
      ELSE IF q = SCHEDULE_FAIL
           THEN {[s EXCEPT !.res = SCHEDULE_FAIL, !.over = TRUE]}
      ELSE IF Outputs = {}
           THEN {Take(ToCaller(s, j), q, j) : j \in Earliest(s.input[q])}
      ELSE IF SuitableOutputs(s, q) = {}
           THEN {[s EXCEPT !.input[q] = @ \ {j}, !.over = TRUE] : j \in Earliest(s.input[q])}
      ELSE {Take(ToOutput(s, o, j), q, j) :
              o \in SuitableOutputs(s, q), j \in Earliest(s.input[q])}

\* One round of the loop: the calls it may become.
Round(s) ==
  LET q == SelectQueue(s.input, s.last)
  IN  IF s.over THEN {s}
      ELSE IF q = SCHEDULE_FAIL
           THEN {[s EXCEPT !.res = SCHEDULE_FAIL, !.over = TRUE]}
      ELSE IF Outputs = {}
           THEN {Take(ToCaller(s, j), q, j) : j \in Earliest(s.input[q])}
      ELSE IF SuitableOutputs(s, q) = {}
           THEN {[s EXCEPT !.over = TRUE]}
      ELSE {Take(ToOutput(s, o, j), q, j) :
              o \in SuitableOutputs(s, q), j \in Earliest(s.input[q])}

\* new_prio_scheduler and schedule_out both take 0 for 1.
Rounds == IF conf.events_to_schedule = 0 THEN 1 ELSE conf.events_to_schedule

Outcomes ==
  LET after[n \in 0 .. Rounds] ==
        IF n = 0 THEN {Start} ELSE UNION {Round(s) : s \in after[n - 1]}
  IN  after[Rounds]

\* The caller uses the jobs in its array when the call returns SCHEDULE_DONE.
ScheduleOut ==
  /\ \E s \in Outcomes :
       /\ input' = s.input
       /\ output' = s.output
       /\ scheduler_timestamp' = s.ts
       /\ last_schedule_out' = s.last
       /\ moved' = s.moved
       /\ delivered' = IF s.res = SCHEDULE_DONE THEN delivered \cup s.jobs ELSE delivered
  /\ UNCHANGED <<fixed, offered, accepted>>

\* A consumer dequeues from output queue o.
Serve(o) ==
  /\ \E e \in output[o] :
       /\ \A f \in output[o] : e.key <= f.key
       /\ output' = [output EXCEPT ![o] = @ \ {e}]
       /\ delivered' = delivered \cup {e.job}
  /\ UNCHANGED <<fixed, input, scheduler_timestamp, last_schedule_out, offered,
                 accepted, moved>>

ScheduleInStep ==
  \E o \in conf.offers :
    ScheduleIn([id |-> offered + 1, prio |-> o.prio, type |-> o.type, deadline |-> o.deadline])

\* The longest output array.
MaxOutputs ==
  CHOOSE n \in {Cardinality(DOMAIN c.output) : c \in Configurations} :
    \A c \in Configurations : Cardinality(DOMAIN c.output) <= n

ServeStep == \E o \in Outputs : Serve(o)

Next == ScheduleInStep \/ ScheduleOut \/ ServeStep

Spec == Init /\ [][Next]_vars

\* The caller keeps asking for jobs and the consumers keep taking them.
FairSpec ==
  /\ Spec
  /\ WF_vars(ScheduleOut)
  /\ \A o \in 0 .. MaxOutputs - 1 : WF_vars(o \in Outputs /\ Serve(o))

-----------------------------------------------------------------------------

Waiting == UNION {input[i] : i \in Inputs}
InOutput == {e.job : e \in UNION {output[o] : o \in Outputs}}

\* An accepted job is in one input queue, in one output queue or delivered, and
\* never in two of these places, whatever a call returns.  A call that fails in a
\* later round has moved the jobs of its earlier rounds to an output queue; with
\* no output queue they are in the array of a caller who is told "We failed to
\* schedule a job" (priority_scheduler.h:3).
JobsAccounted ==
  /\ accepted = Waiting \cup InOutput \cup delivered
  /\ Waiting \cap InOutput = {}
  /\ delivered \cap (Waiting \cup InOutput) = {}
  /\ \A i, k \in Inputs : i # k => input[i] \cap input[k] = {}

\* "used to schedule events in the output queues instead of the real timestamp
\* so the order of events in and between input queues is respected"
\* (priority_scheduler.h:44-46): whatever resets scheduler_timestamp, an output
\* queue gives out its jobs in the order they were moved there.
OutputInOrder ==
  \A o \in Outputs : \A e, f \in output[o] : e.nth < f.nth => e.key < f.key

\* Without UPGRADE_PRIO the jobs of an input queue wait for their own output queue
\* while it is full.  The code then ends the call (priority_scheduler.c:120); had it
\* jumped to the next input queue, as the comment above that line says, the jobs
\* it takes there would overtake none but these.
HeldUp(i) == ~conf.upgrade_prio /\ Outputs # {} /\ ~HasRoom(output_queues[i], output[i])
FreeToGo  == UNION {input[i] : i \in {k \in Inputs : ~HeldUp(k)}}

\* Under FIFO a call takes a job only when no more urgent one that was free to go
\* stays behind: none of a priority before it and, within the priority, none with
\* a smaller key.
Taken == Waiting \ Waiting'
MostUrgentFirst ==
  [][\A j \in Taken, k \in FreeToGo' :
       offered' = offered /\ ~conf.round_robin =>
         j.prio < k.prio \/ (j.prio = k.prio /\ j.deadline <= k.deadline)]_vars

\* Every job that schedule_in takes is delivered in the end.
MaxOffered ==
  CHOOSE n \in {c.max_jobs : c \in Configurations} : \A c \in Configurations : c.max_jobs <= n
EveryJobDelivered ==
  \A i \in 1 .. MaxOffered :
    (\E j \in accepted : j.id = i) ~> (\E j \in delivered : j.id = i)

=============================================================================
