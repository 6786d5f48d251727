---------------------------- MODULE QueueStation ----------------------------
(***************************************************************************)
(* One service centre of the tree simulator: a queue_state, the scheduler  *)
(* that holds its waiting jobs, and the FINISH (FINISH_DISK) events it has *)
(* scheduled.  Nodes, actuators, the two directions of a LAN and the disk  *)
(* of the central node all run this code; only the number of cores and the *)
(* service times differ.                                                   *)
(*                                                                         *)
(* Time is discrete.  The engine delivers events in timestamp order and    *)
(* undoes what it delivered too early, so a handler always sees a state in *)
(* which every event with a smaller timestamp has been processed; events   *)
(* of one timestamp may come in any order.                                 *)
(***************************************************************************)
EXTENDS Integers, FiniteSets

CONSTANTS
  NumCores,             \* cores of the station (1 except for nodes)
  Preemption,           \* the PREEMPTION build flag
  RoundRobin,           \* the SCHEDULING_ROUND_ROBIN build flag
  TimeSlice,            \* time_slice of the queue, the smallest service time
  ServiceTimes,         \* the values Expent may draw
  ArrivingTypes,        \* the job types the rest of the network sends here
  TransitionTimeLimit,  \* TRANSITION_TIME_LIMIT: no metrics before it
  StartTime,            \* timestamp of START_SIMULATION
  StaleTimestamps,      \* what malloc may leave in last_update_ts
  MaxArrivals,          \* bound: jobs that reach the station
  MaxGap                \* bound: time from one event to the next arrival

NumJobTypes == 5
JobType     == 0 .. NumJobTypes - 1
TELEMETRY   == 0
TRANSITION  == 1
COMMAND     == 2
BATCH_DATA  == 3
REPLY       == 4
INVALID_JOB == -1

ASSUME StationAssumption ==
  /\ NumCores \in Nat \ {0}
  /\ Preemption \in BOOLEAN
  /\ RoundRobin \in BOOLEAN
  /\ TimeSlice \in Nat \ {0}
  /\ ServiceTimes \subseteq Nat
  /\ ArrivingTypes \subseteq JobType
  /\ TransitionTimeLimit \in Nat
  /\ StartTime \in Nat
  /\ StaleTimestamps \subseteq Nat
  /\ MaxArrivals \in Nat
  /\ MaxGap \in Nat

VARIABLES
  current_jobs,                \* the job on each core, or NoJob
  start_processing_timestamp,  \* when each core took its job
  num_running_jobs,
  num_jobs_in_queue,           \* running and waiting together
  queues,                      \* the jobs waiting in the scheduler
  last_schedule_out,           \* type of the last job the scheduler gave out
  metrics,                     \* the counters the results are printed from
  finish_events,               \* FINISH events scheduled and not delivered
  now,                         \* timestamp of the event last processed
  arrivals,                    \* jobs that arrived so far; a job's id
  exited                       \* exit(EXIT_FAILURE) was called

schedVars == <<current_jobs, start_processing_timestamp, num_running_jobs,
               queues, last_schedule_out, finish_events, exited>>
vars == <<current_jobs, start_processing_timestamp, num_running_jobs,
          num_jobs_in_queue, queues, last_schedule_out, metrics,
          finish_events, now, arrivals, exited>>

Cores == 0 .. NumCores - 1

Job == [id : Nat \ {0}, type : JobType, arrived : Nat, deadline : Nat,
        total : Nat, remain : Nat, time_slice : Nat]

NoJob == [type |-> INVALID_JOB]

FinishEvent == [core : Cores, ts : Nat]

Metrics == [start_timestamp  : [JobType -> Nat],
            actual_timestamp : [JobType -> Nat],
            A_post           : [JobType -> Nat],
            A                : [JobType -> Nat],
            C                : [JobType -> Nat],
            B                : [JobType -> Nat],
            W                : [JobType -> Nat],
            W2               : Nat,
            last_update_ts   : Nat]

\* The cores whose current_jobs entry is not INVALID_JOB.
Busy == {c \in Cores : current_jobs[c].type # INVALID_JOB}

\* Every job inside the station, waiting or being served.
InStation == queues \cup {current_jobs[c] : c \in Busy}

\* The type of everything but the metrics.
SchedulerTypeOK ==
  /\ current_jobs \in [Cores -> Job \cup {NoJob}]
  /\ start_processing_timestamp \in [Cores -> Nat]
  /\ num_running_jobs \in 0 .. NumCores
  /\ num_jobs_in_queue \in Nat
  /\ queues \subseteq Job
  /\ last_schedule_out \in JobType \cup {INVALID_JOB}
  /\ finish_events \subseteq FinishEvent
  /\ now \in Nat
  /\ arrivals \in Nat
  /\ exited \in BOOLEAN

TypeOK == SchedulerTypeOK /\ metrics \in Metrics

-----------------------------------------------------------------------------
(* init_metrics and the queue part of init_node, init_actuator, init_lan.  *)

ZeroPerType == [t \in JobType |-> 0]

InitMetrics ==
  \E stale \in StaleTimestamps :
    metrics = [start_timestamp |-> ZeroPerType, actual_timestamp |-> ZeroPerType,
               A_post |-> ZeroPerType, A |-> ZeroPerType, C |-> ZeroPerType,
               B |-> ZeroPerType, W |-> ZeroPerType, W2 |-> 0,
               last_update_ts |-> stale]

Init ==
  /\ current_jobs = [c \in Cores |-> NoJob]
  /\ start_processing_timestamp = [c \in Cores |-> 0]
  /\ num_running_jobs = 0
  /\ num_jobs_in_queue = 0
  /\ queues = {}
  /\ last_schedule_out = INVALID_JOB
  /\ InitMetrics
  /\ finish_events = {}
  /\ now = StartTime
  /\ arrivals = 0
  /\ exited = FALSE

-----------------------------------------------------------------------------
(* The scheduler: one input queue per type, all of REAL_TIME priority, no  *)
(* output queue, one job per call.                                         *)

\* The order in which queue_quicksort leaves the five queues of
\* create_new_queues: all have the pivot's priority, so the last one, REPLY,
\* is moved to the front.
QueueIndex(t) == (t + 1) % NumJobTypes

\* Mutant: the queues are compared by type only, not by the key of their head.
MutChoiceIgnoresDeadline(q) ==
  {j \in q : \A k \in q : QueueIndex(j.type) <= QueueIndex(k.type)}

\* prio_fifo_alogrithm: the first queue whose head has the smallest key; a
\* queue gives out any job with its smallest key (the heap is not stable).
FifoChoice(q) ==
  {j \in q : \A k \in q :
     \/ j.deadline < k.deadline
     \/ j.deadline = k.deadline /\ QueueIndex(j.type) <= QueueIndex(k.type)}

\* round_robin_algorithm: types are tried in a circle from the one after the
\* last type given out.
Turn(t) == (t - (last_schedule_out + 1)) % NumJobTypes

\* Mutant: the search starts at the last type given out.
MutChoiceSameTypeFirst(q) ==
  {j \in q : \A k \in q :
     \/ (j.type - last_schedule_out) % NumJobTypes < (k.type - last_schedule_out) % NumJobTypes
     \/ j.type = k.type /\ j.deadline <= k.deadline}

\* Mutant: the queues are max-heaps.
MutChoiceNewestFirst(q) ==
  {j \in q : \A k \in q :
     \/ Turn(j.type) < Turn(k.type)
     \/ j.type = k.type /\ j.deadline >= k.deadline}

RoundRobinChoice(q) ==
  {j \in q : \A k \in q :
     \/ Turn(j.type) < Turn(k.type)
     \/ j.type = k.type /\ j.deadline <= k.deadline}

Choice(q) == IF RoundRobin THEN RoundRobinChoice(q) ELSE FifoChoice(q)

MinOf(a, b) == IF a >= b THEN b ELSE a

-----------------------------------------------------------------------------
(* ARRIVE: update_metrics and start_device of arrive_functions.c.          *)

Started(m, t) == m.start_timestamp[t] > TransitionTimeLimit

StartMeasuring(m, t, at) ==
  IF ~Started(m, t) /\ at > TransitionTimeLimit
  THEN [m EXCEPT !.start_timestamp[t] = at]
  ELSE m

\* Mutant: only the jobs being served count as present.
MutAreaOfRunning(m, at) == (at - m.last_update_ts) * num_running_jobs

\* W2 grows by the time since the last event times the jobs inside.
Area(m, at) == (at - m.last_update_ts) * num_jobs_in_queue

UpdateMetricsOnArrival(t, at) ==
  LET m == StartMeasuring(metrics, t, at)
  IN  /\ metrics' = IF Started(m, t)
                    THEN [m EXCEPT !.A_post[t] = @ + 1,
                                   !.W2 = @ + Area(m, at),
                                   !.last_update_ts = at]
                    ELSE [m EXCEPT !.last_update_ts = at]
      /\ num_jobs_in_queue' = num_jobs_in_queue + 1

\* get_free_core takes the first core without a job.
FreeCore(c) == c \notin Busy /\ \A d \in Cores : d < c => d \in Busy

Slice(total) == IF Preemption THEN MinOf(total, TimeSlice) ELSE total

PutOnCore(c, j, at) ==
  /\ current_jobs' = [current_jobs EXCEPT ![c] = j]
  /\ start_processing_timestamp' = [start_processing_timestamp EXCEPT ![c] = at]
  /\ finish_events' = finish_events \cup {[core |-> c, ts |-> at + j.time_slice]}
  /\ num_running_jobs' = num_running_jobs + 1
  /\ UNCHANGED exited

\* The job bypasses the scheduler; the program exits when num_running_jobs
\* promises a free core and there is none.
OnFreeCore(j, at) ==
  /\ num_running_jobs < NumCores
  /\ UNCHANGED <<queues, last_schedule_out>>
  /\ IF \E c \in Cores : FreeCore(c)
     THEN \E c \in Cores : FreeCore(c) /\ PutOnCore(c, j, at)
     ELSE /\ exited' = TRUE
          /\ UNCHANGED <<current_jobs, start_processing_timestamp,
                         num_running_jobs, finish_events>>

\* Mutant: a job may be queued while a core is free.
MutWaitAlways(j) ==
  /\ queues' = queues \cup {j}
  /\ UNCHANGED <<current_jobs, start_processing_timestamp, num_running_jobs,
                 last_schedule_out, finish_events, exited>>

Wait(j) ==
  /\ num_running_jobs >= NumCores
  /\ queues' = queues \cup {j}
  /\ UNCHANGED <<current_jobs, start_processing_timestamp, num_running_jobs,
                 last_schedule_out, finish_events, exited>>

NewJob(t, at, total) ==
  [id |-> arrivals + 1, type |-> t, arrived |-> at, deadline |-> at,
   total |-> total, remain |-> total, time_slice |-> Slice(total)]

Arrive(t, at, total) ==
  LET j == NewJob(t, at, total)
  IN  /\ ~exited
      /\ arrivals < MaxArrivals
      /\ \A e \in finish_events : at <= e.ts
      /\ UpdateMetricsOnArrival(t, at)
      /\ OnFreeCore(j, at) \/ Wait(j)
      /\ arrivals' = arrivals + 1
      /\ now' = at

-----------------------------------------------------------------------------
(* FINISH: finish_node, finish_actuator, finish_lan and finish_disk all    *)
(* begin and end this way; what a completed job sends to other devices is  *)
(* in module TreeNetwork.                                                  *)

\* A completed REPLY also counts as busy and response time of TRANSITION.
Charged(t) == IF t = REPLY THEN {REPLY, TRANSITION} ELSE {t}

\* Mutant: busy time is taken from arrival to completion.
MutBusySinceArrival(m, j, at) ==
  [m EXCEPT
    !.W2 = @ + Area(m, at),
    !.C[j.type] = @ + 1,
    !.A[j.type] = m.A_post[j.type],
    !.B = [t \in JobType |-> @[t] + IF t \in Charged(j.type) THEN at - j.arrived ELSE 0],
    !.W = [t \in JobType |-> @[t] + IF t \in Charged(j.type) THEN at - j.arrived ELSE 0],
    !.last_update_ts = at]

CompletionMetrics(m, j, at) ==
  [m EXCEPT
    !.W2 = @ + Area(m, at),
    !.C[j.type] = @ + 1,
    !.A[j.type] = m.A_post[j.type],
    !.B = [t \in JobType |-> @[t] + IF t \in Charged(j.type) THEN j.total ELSE 0],
    !.W = [t \in JobType |-> @[t] + IF t \in Charged(j.type) THEN at - j.arrived ELSE 0],
    !.actual_timestamp = [t \in JobType |-> IF t \in Charged(j.type) THEN at ELSE @[t]],
    !.last_update_ts = at]

\* Mutant: the counter of present jobs is only decremented while measuring.
MutDecrementWhenMeasured(j, at) ==
  IF Started(metrics, j.type)
  THEN /\ metrics' = CompletionMetrics(metrics, j, at)
       /\ num_jobs_in_queue' = num_jobs_in_queue - 1
  ELSE /\ metrics' = [metrics EXCEPT !.last_update_ts = at]
       /\ UNCHANGED num_jobs_in_queue

\* Mutant: the arrival that starts the measurement is not counted on leaving.
MutFirstNotCounted(j, at) ==
  /\ metrics' = IF Started(metrics, j.type) /\ j.arrived # metrics.start_timestamp[j.type]
                THEN CompletionMetrics(metrics, j, at)
                ELSE [metrics EXCEPT !.last_update_ts = at]
  /\ num_jobs_in_queue' = num_jobs_in_queue - 1

UpdateMetricsOnFinish(j, at) ==
  /\ metrics' = IF Started(metrics, j.type)
                THEN CompletionMetrics(metrics, j, at)
                ELSE [metrics EXCEPT !.last_update_ts = at]
  /\ num_jobs_in_queue' = num_jobs_in_queue - 1

\* Mutant: num_running_jobs is decremented and not incremented again.
MutDispatchNotCounted(e, q) ==
  \E j \in Choice(q) :
    LET k == [j EXCEPT !.time_slice = MinOf(j.remain, j.time_slice)]
    IN  /\ current_jobs' = [current_jobs EXCEPT ![e.core] = k]
        /\ start_processing_timestamp' =
             [start_processing_timestamp EXCEPT ![e.core] = e.ts]
        /\ finish_events' = (finish_events \ {e})
                              \cup {[core |-> e.core, ts |-> e.ts + k.time_slice]}
        /\ queues' = q \ {j}
        /\ last_schedule_out' = j.type
        /\ num_running_jobs' = num_running_jobs - 1

\* Mutant: the job on the core keeps its full slice (line 207 missing).
MutSliceNotCut(e, q) ==
  \E j \in Choice(q) :
    /\ current_jobs' = [current_jobs EXCEPT ![e.core] = j]
    /\ start_processing_timestamp' = [start_processing_timestamp EXCEPT ![e.core] = e.ts]
    /\ finish_events' = (finish_events \ {e})
         \cup {[core |-> e.core, ts |-> e.ts + MinOf(j.remain, j.time_slice)]}
    /\ queues' = q \ {j}
    /\ last_schedule_out' = j.type
    /\ UNCHANGED num_running_jobs

\* schedule_next_job, the scheduler has a job: it replaces the one on the core.
Dispatch(e, q) ==
  \E j \in Choice(q) :
    LET k == [j EXCEPT !.time_slice = MinOf(j.remain, j.time_slice)]
    IN  /\ current_jobs' = [current_jobs EXCEPT ![e.core] = k]
        /\ start_processing_timestamp' =
             [start_processing_timestamp EXCEPT ![e.core] = e.ts]
        /\ finish_events' = (finish_events \ {e})
                              \cup {[core |-> e.core, ts |-> e.ts + k.time_slice]}
        /\ queues' = q \ {j}
        /\ last_schedule_out' = j.type
        /\ UNCHANGED num_running_jobs

\* schedule_next_job, SCHEDULE_FAIL: the core becomes free.
GoIdle(e) ==
  /\ current_jobs' = [current_jobs EXCEPT ![e.core] = NoJob]
  /\ num_running_jobs' = num_running_jobs - 1
  /\ finish_events' = finish_events \ {e}
  /\ queues' = {}
  /\ UNCHANGED <<start_processing_timestamp, last_schedule_out>>

\* Mutant: the handler returns before schedule_next_job, as finish_lan does for
\* a COMMAND without destination.
MutReturnEarly(e, q) ==
  /\ finish_events' = finish_events \ {e}
  /\ queues' = q
  /\ UNCHANGED <<current_jobs, start_processing_timestamp, num_running_jobs,
                 last_schedule_out>>

ScheduleNextJob(e, q) == \/ q # {} /\ Dispatch(e, q)
                         \/ q = {} /\ GoIdle(e)

\* The job on the event's core, as the handler copies and updates it.
Served(e) ==
  LET j == current_jobs[e.core]
  IN  [j EXCEPT !.remain = j.remain - j.time_slice]

\* The slice is over and the job is not: it queues up again, as of now.
Preempt(e) ==
  LET j == Served(e)
  IN  /\ j.remain > 0
      /\ ScheduleNextJob(e, queues \cup {[j EXCEPT !.deadline = e.ts]})
      /\ UNCHANGED <<metrics, num_jobs_in_queue>>

Complete(e) ==
  LET j == Served(e)
  IN  /\ j.remain <= 0
      /\ UpdateMetricsOnFinish(j, e.ts)
      /\ ScheduleNextJob(e, queues)

Finish(e) ==
  /\ ~exited
  /\ \A f \in finish_events : e.ts <= f.ts
  /\ Preempt(e) \/ Complete(e)
  /\ now' = e.ts
  /\ UNCHANGED <<arrivals, exited>>

-----------------------------------------------------------------------------

ArriveStep ==
  \E t \in ArrivingTypes, at \in now .. now + MaxGap, total \in ServiceTimes :
    Arrive(t, at, total)

FinishStep == \E e \in finish_events : Finish(e)

\* All jobs have come and gone: only the engine's other devices go on.
Quiet ==
  /\ exited \/ (arrivals = MaxArrivals /\ finish_events = {})
  /\ UNCHANGED vars

Next == ArriveStep \/ FinishStep \/ Quiet

Spec == Init /\ [][Next]_vars

\* The engine keeps delivering the events it holds.  Arrivals need not come.
Fairness == WF_vars(FinishStep)

FairSpec == Spec /\ Fairness

-----------------------------------------------------------------------------
(* Safety.                                                                 *)

\* The counters the handlers branch on agree with the structures they stand
\* for: num_running_jobs with the occupied entries of current_jobs, and
\* num_jobs_in_queue with the jobs waiting and running.  No job is in two
\* places.
CountersAgree ==
  /\ num_running_jobs = Cardinality(Busy)
  /\ num_jobs_in_queue = Cardinality(queues) + Cardinality(Busy)
  /\ \A j, k \in InStation : j.id = k.id => j = k
  /\ \A c, d \in Busy : current_jobs[c] = current_jobs[d] => c = d
  /\ \A c \in Busy : current_jobs[c] \notin queues

\* A job waits only while every core is busy: start_device may bypass the
\* scheduler exactly because of this.
WorkConserving == queues # {} => num_running_jobs = NumCores

\* Every busy core has exactly one FINISH event to come, due when the slice of
\* the job on it ends; no FINISH event will find its core free (its handler
\* would index the metrics with INVALID_JOB).
OneFinishPerBusyCore ==
  /\ \A c \in Busy : \E e \in finish_events : e.core = c
  /\ \A e \in finish_events :
       /\ e.core \in Busy
       /\ e.ts = start_processing_timestamp[e.core] + current_jobs[e.core].time_slice
  /\ \A e, f \in finish_events : e.core = f.core => e = f

\* "free job found but the num_running_jobs is lower" and the exit after it
\* (arrive_functions.c:32-35) are never reached.
NeverExits == ~exited

\* With preemption a job that waits has had at least half the service of every
\* younger job of its type that waits, and on a single core at least as much: a
\* job is put back behind all that wait, but jobs put back at one timestamp have
\* one deadline and come out of the heap in any order, so that on several cores a
\* younger job may run twice for every slice of an older one.
Received(j) == j.total - j.remain
FairShare ==
  \A j, k \in queues :
    j.type = k.type /\ j.arrived < k.arrived =>
      /\ Received(k) <= 2 * Received(j)
      /\ NumCores = 1 => Received(k) <= Received(j)

\* Under round robin, each time a core is given away every type with a waiting
\* job is either served or comes strictly nearer to its turn, so no type waits
\* for more than NumJobTypes - 1 jobs of other types.
Ahead(t) == (t - last_schedule_out + NumJobTypes - 1) % NumJobTypes
CoreGivenAway == queues # {} /\ arrivals' = arrivals
RoundRobinProgress ==
  [][RoundRobin /\ CoreGivenAway =>
       \A k \in queues : last_schedule_out' # k.type => Ahead(k.type)' < Ahead(k.type)]_vars

\* The strengthening of the invariants above that every step preserves: the
\* identities of jobs and the finiteness of the queues are what the counting
\* arguments need.
UniqueIds ==
  /\ \A j, k \in queues : j.id = k.id => j = k
  /\ \A c, d \in Busy : current_jobs[c].id = current_jobs[d].id => c = d
  /\ \A c \in Busy, j \in queues : current_jobs[c].id # j.id
  /\ \A j \in queues : j.id <= arrivals
  /\ \A c \in Busy : current_jobs[c].id <= arrivals

StationInv ==
  /\ SchedulerTypeOK
  /\ IsFiniteSet(queues)
  /\ num_running_jobs = Cardinality(Busy)
  /\ num_jobs_in_queue = Cardinality(queues) + num_running_jobs
  /\ UniqueIds
  /\ WorkConserving
  /\ OneFinishPerBusyCore
  /\ NeverExits

(* Liveness.                                                               *)

\* Every job that enters leaves, and as arrivals are bounded the station is empty
\* again and again: no job starves in the scheduler or is lost with its core.
EveryJobLeaves == InStation # {} ~> InStation = {}

(* Refinement: the station is a Station, in order of arrival when a single *)
(* core serves jobs to completion under FIFO.                              *)

ServesInOrder == NumCores = 1 /\ ~Preemption /\ ~RoundRobin

Outside == INSTANCE Station WITH
             InOrder <- ServesInOrder,
             entered <- arrivals,
             present <- {[id |-> j.id, arrived |-> j.arrived] : j \in InStation}

\* Seen from outside, jobs enter one at a time, leave once, and a single-core
\* FIFO station without preemption lets nobody overtake.
ImplementsStation == Outside!Spec

=============================================================================
