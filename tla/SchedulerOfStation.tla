------------------------- MODULE SchedulerOfStation -------------------------
(***************************************************************************)
(* The scheduler as the service centres of the tree simulator configure it *)
(* (create_new_queues of init_functions.c: one REAL_TIME queue per type,   *)
(* no output queue, one job per call) gives out the jobs that QueueStation *)
(* says it does.                                                           *)
(***************************************************************************)
EXTENDS Scheduler

\* create_new_queues.
StationQueues == [i \in JobTypes |-> [prio |-> 0, type |-> i, room |-> Infinite]]
IsStation(c) == c.input = StationQueues /\ DOMAIN c.output = {} /\ c.events_to_schedule = 1

\* Only the choice of QueueStation is used here: its other state is dummies.
Station == INSTANCE QueueStation WITH
  NumCores <- 1, Preemption <- FALSE, RoundRobin <- FALSE, TimeSlice <- 1, ServiceTimes <- {},
  ArrivingTypes <- {}, TransitionTimeLimit <- 0, StartTime <- 0,
  StaleTimestamps <- {}, MaxArrivals <- 0, MaxGap <- 0,
  current_jobs <- <<>>, start_processing_timestamp <- <<>>,
  num_running_jobs <- 1, num_jobs_in_queue <- 0, queues <- Waiting,
  metrics <- <<>>, finish_events <- {}, now <- 0, arrivals <- 0, exited <- FALSE

StationChoice(q) ==
  IF conf.round_robin THEN Station!RoundRobinChoice(q) ELSE Station!FifoChoice(q)

\* A call fails exactly when no job waits, and otherwise may give out exactly
\* the jobs of StationChoice, under both algorithms.
GivesOutStationChoice ==
  IsStation(conf) =>
    /\ UNION {s.jobs : s \in Outcomes} = StationChoice(Waiting)
    /\ \A s \in Outcomes : s.res = SCHEDULE_FAIL <=> Waiting = {}

=============================================================================
