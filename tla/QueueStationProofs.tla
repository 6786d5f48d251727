------------------------- MODULE QueueStationProofs -------------------------
(***************************************************************************)
(* The safety of a station for every number of cores, build flag, set of   *)
(* service times and number of arrivals.  StationInv is the inductive      *)
(* invariant of the counters, cores, queues and events; SeenInv adds the   *)
(* order of time, from which a station implements Station; ShareInv adds   *)
(* the order in which jobs take turns, from which each type and each job   *)
(* gets its share of the cores; MetricsInv and LawsInv are about the       *)
(* metrics, which stay natural numbers and obey the operational laws,      *)
(* whatever malloc left in last_update_ts.                                 *)
(***************************************************************************)
EXTENDS QueueStationLaws, ProofBasics

(***************************************************************************)
(* Lemmas about data.                                                      *)
(***************************************************************************)

\* The cores are finitely many, and a station has at most NumCores busy ones.
LEMMA CoresFinite ==
  /\ IsFiniteSet(Cores)
  /\ Cardinality(Cores) = NumCores
BY StationAssumption, FS_Interval DEF Cores

LEMMA BusyFinite ==
  /\ IsFiniteSet(Busy)
  /\ Cardinality(Busy) <= NumCores
  /\ Cardinality(Busy) = NumCores => Busy = Cores
<1>1. Busy \in SUBSET Cores
  BY DEF Busy
<1> QED BY <1>1, CoresFinite, FS_Subset, Zenon

\* get_free_core finds a core whenever one is not busy.
LEMMA FreeCoreExists ==
  ASSUME Busy # Cores
  PROVE  \E c \in Cores : FreeCore(c)
<1>1. Cores \ Busy \in SUBSET Nat /\ Cores \ Busy # {}
  BY StationAssumption DEF Cores, Busy
<1>2. PICK c \in Cores \ Busy : \A k \in Cores \ Busy : c <= k
  BY <1>1, SmallestExists, Zenon
<1>3. \A d \in Cores : d < c => d \in Busy
  BY <1>1, <1>2 DEF Cores
<1> QED BY <1>2, <1>3 DEF FreeCore

LEMMA JobTypes ==
  /\ INVALID_JOB \notin JobType
  /\ NoJob.type = INVALID_JOB
  /\ \A j \in Job : j.type # INVALID_JOB /\ j.type \in JobType
BY DEF INVALID_JOB, JobType, NumJobTypes, NoJob, Job

\* The scheduler only gives out jobs it holds.
LEMMA ChoiceSubset == ASSUME NEW q PROVE Choice(q) \subseteq q
BY DEF Choice, RoundRobinChoice, FifoChoice

LEMMA BusyHoldsJob ==
  ASSUME SchedulerTypeOK, NEW c \in Busy
  PROVE  c \in Cores /\ current_jobs[c] \in Job
BY JobTypes DEF Busy, SchedulerTypeOK

\* Putting a job on a core, or taking it off, changes Busy as expected.
LEMMA BusyAfterPut ==
  ASSUME SchedulerTypeOK, NEW c \in Cores, NEW j \in Job,
         current_jobs' = [current_jobs EXCEPT ![c] = j]
  PROVE  Busy' = Busy \cup {c}
BY JobTypes DEF Busy, SchedulerTypeOK

LEMMA BusyAfterFree ==
  ASSUME SchedulerTypeOK, NEW c \in Cores,
         current_jobs' = [current_jobs EXCEPT ![c] = NoJob]
  PROVE  Busy' = Busy \ {c}
BY JobTypes DEF Busy, SchedulerTypeOK

LEMMA SliceType ==
  /\ \A total \in Nat : Slice(total) \in Nat
  /\ \A a, b \in Nat : MinOf(a, b) \in Nat
BY StationAssumption DEF Slice, MinOf

-----------------------------------------------------------------------------
(***************************************************************************)
(* ARRIVE preserves the invariant.                                         *)
(***************************************************************************)

LEMMA NewJobType ==
  ASSUME SchedulerTypeOK,
         NEW t \in ArrivingTypes, NEW at \in Nat, NEW total \in ServiceTimes
  PROVE  /\ NewJob(t, at, total) \in Job
         /\ NewJob(t, at, total).id = arrivals + 1
BY StationAssumption, SliceType DEF SchedulerTypeOK, NewJob, Job

LEMMA ArrivePreserves ==
  ASSUME StationInv,
         NEW t \in ArrivingTypes, NEW at \in now .. now + MaxGap,
         NEW total \in ServiceTimes, Arrive(t, at, total)
  PROVE  StationInv'
<1> DEFINE j == NewJob(t, at, total)
<1>0. at \in Nat /\ now' = at /\ arrivals' = arrivals + 1 /\ arrivals \in Nat
  BY StationAssumption DEF StationInv, SchedulerTypeOK, Arrive
<1>1. j \in Job /\ j.id = arrivals + 1 /\ j.time_slice \in Nat
  BY <1>0, NewJobType DEF StationInv, Job
<1>2. /\ num_jobs_in_queue' = num_jobs_in_queue + 1
      /\ OnFreeCore(j, at) \/ Wait(j)
  BY DEF Arrive, UpdateMetricsOnArrival
<1> HIDE DEF j
<1>3. CASE OnFreeCore(j, at)
  <2>0. /\ num_running_jobs < NumCores
        /\ UNCHANGED <<queues, last_schedule_out>>
    BY <1>3 DEF OnFreeCore
  <2>1. PICK c \in Cores : FreeCore(c) /\ PutOnCore(c, j, at)
    <3>1. Busy # Cores
      BY <2>0, CoresFinite, StationAssumption DEF StationInv, SchedulerTypeOK
    <3> QED BY <1>3, <3>1, FreeCoreExists DEF OnFreeCore
  <2>2. /\ num_running_jobs' = num_running_jobs + 1
        /\ current_jobs' = [current_jobs EXCEPT ![c] = j]
        /\ start_processing_timestamp' = [start_processing_timestamp EXCEPT ![c] = at]
        /\ finish_events' = finish_events \cup {[core |-> c, ts |-> at + j.time_slice]}
        /\ UNCHANGED exited
    BY <2>1 DEF PutOnCore
  <2>3. Busy' = Busy \cup {c} /\ c \notin Busy
    BY <1>1, <2>1, <2>2, BusyAfterPut DEF StationInv, FreeCore
  <2>4. queues = {}
    BY <2>0, StationAssumption DEF StationInv, WorkConserving, SchedulerTypeOK
  <2>5. SchedulerTypeOK'
    <3>1. [core |-> c, ts |-> at + j.time_slice] \in FinishEvent
      BY <1>0, <1>1 DEF FinishEvent
    <3>2. num_running_jobs' \in 0 .. NumCores
      BY <2>0, <2>2, StationAssumption DEF StationInv, SchedulerTypeOK
    <3> QED
      BY <1>0, <1>1, <1>2, <2>0, <2>2, <3>1, <3>2
         DEF StationInv, SchedulerTypeOK
  <2>6. Cardinality(Busy') = Cardinality(Busy) + 1
    BY <2>3, BusyFinite, FS_AddElement, Zenon
  <2>7. UniqueIds'
    BY <1>0, <1>1, <2>0, <2>2, <2>3, <2>4, BusyHoldsJob
       DEF StationInv, SchedulerTypeOK, UniqueIds, Job
  <2>8. OneFinishPerBusyCore'
    <3> DEFINE new == [core |-> c, ts |-> at + j.time_slice]
    <3>1. \A e \in finish_events : e.core \in Busy /\ e.core # c /\ e.core \in Cores
      BY <2>3 DEF StationInv, OneFinishPerBusyCore, Busy
    <3>2. \A e \in finish_events :
            e.ts = start_processing_timestamp'[e.core] + current_jobs'[e.core].time_slice
      BY <2>2, <3>1 DEF StationInv, OneFinishPerBusyCore, SchedulerTypeOK
    <3>3. new.ts = start_processing_timestamp'[c] + current_jobs'[c].time_slice
      BY <2>2 DEF StationInv, SchedulerTypeOK
    <3>4. new.core = c /\ finish_events' = finish_events \cup {new}
      BY <2>2
    <3> HIDE DEF new
    <3> QED
      BY <2>3, <3>1, <3>2, <3>3, <3>4 DEF StationInv, OneFinishPerBusyCore
  <2>9. Cardinality(queues) \in Nat
    BY FS_CardinalityType DEF StationInv
  <2> QED
    BY <1>2, <2>0, <2>2, <2>4, <2>5, <2>6, <2>7, <2>8, <2>9
       DEF StationInv, WorkConserving, NeverExits, SchedulerTypeOK
<1>4. CASE Wait(j)
  <2>1. /\ num_running_jobs >= NumCores
        /\ queues' = queues \cup {j}
        /\ UNCHANGED <<current_jobs, start_processing_timestamp, num_running_jobs,
                       last_schedule_out, finish_events, exited>>
    BY <1>4 DEF Wait
  <2>2. Busy' = Busy /\ num_running_jobs = NumCores
    BY <2>1, BusyFinite, StationAssumption DEF StationInv, SchedulerTypeOK, Busy
  <2>3. j \notin queues
    BY <1>0, <1>1 DEF StationInv, UniqueIds
  <2>4. IsFiniteSet(queues') /\ Cardinality(queues') = Cardinality(queues) + 1
    BY <2>1, <2>3, FS_AddElement DEF StationInv
  <2>5. SchedulerTypeOK'
    BY <1>0, <1>1, <1>2, <2>1 DEF StationInv, SchedulerTypeOK
  <2>6. UniqueIds'
    BY <1>0, <1>1, <2>1, <2>2, BusyHoldsJob
       DEF StationInv, SchedulerTypeOK, UniqueIds, Job
  <2>7. OneFinishPerBusyCore'
    BY <2>1, <2>2 DEF StationInv, OneFinishPerBusyCore
  <2>8. Cardinality(queues) \in Nat
    BY FS_CardinalityType DEF StationInv
  <2> QED
    BY <1>2, <2>1, <2>2, <2>4, <2>5, <2>6, <2>7, <2>8
       DEF StationInv, WorkConserving, NeverExits, SchedulerTypeOK
<1> QED BY <1>2, <1>3, <1>4

-----------------------------------------------------------------------------
(***************************************************************************)
(* FINISH preserves the invariant.  schedule_next_job is considered for    *)
(* any waiting set q that the handler may pass it: the one it found, or    *)
(* that set with the preempted job put back.                               *)
(***************************************************************************)

\* The waiting set of schedule_next_job: finite, of jobs that are on no other
\* core, and larger than the queues by at most one.
Waiting(e, q) ==
  /\ q \subseteq Job
  /\ IsFiniteSet(q)
  /\ \A j, k \in q : j.id = k.id => j = k
  /\ \A c \in Busy \ {e.core}, j \in q : current_jobs[c].id # j.id
  /\ \A j \in q : j.id <= arrivals
  /\ queues = {} => \A j, k \in q : j = k
  /\ queues \subseteq q

LEMMA FinishFindsJob ==
  ASSUME StationInv, NEW e \in finish_events
  PROVE  /\ e.core \in Busy /\ e.core \in Cores /\ e.ts \in Nat
         /\ current_jobs[e.core] \in Job
         /\ \A f \in finish_events : f.core = e.core => f = e
BY BusyHoldsJob DEF StationInv, OneFinishPerBusyCore, SchedulerTypeOK, FinishEvent

LEMMA DispatchPreserves ==
  ASSUME StationInv, NEW e \in finish_events, NEW q, Waiting(e, q),
         Dispatch(e, q), UNCHANGED <<arrivals, exited>>,
         now' = e.ts, num_jobs_in_queue' \in Nat,
         num_jobs_in_queue' = Cardinality(q) - 1 + num_running_jobs
  PROVE  StationInv'
<1> DEFINE c == e.core
<1>0. c \in Busy /\ c \in Cores /\ e.ts \in Nat
  BY FinishFindsJob
<1>1. PICK j \in q :
        LET k == [j EXCEPT !.time_slice = MinOf(j.remain, j.time_slice)]
        IN  /\ current_jobs' = [current_jobs EXCEPT ![c] = k]
            /\ start_processing_timestamp' = [start_processing_timestamp EXCEPT ![c] = e.ts]
            /\ finish_events' = (finish_events \ {e})
                                  \cup {[core |-> c, ts |-> e.ts + k.time_slice]}
            /\ queues' = q \ {j}
            /\ last_schedule_out' = j.type
            /\ UNCHANGED num_running_jobs
  BY ChoiceSubset DEF Dispatch
<1> DEFINE k   == [j EXCEPT !.time_slice = MinOf(j.remain, j.time_slice)]
           new == [core |-> c, ts |-> e.ts + k.time_slice]
<1>2. k \in Job /\ k.id = j.id /\ k.time_slice \in Nat /\ j \in Job
  BY SliceType DEF Waiting, Job
<1>3. /\ current_jobs' = [current_jobs EXCEPT ![c] = k]
      /\ start_processing_timestamp' = [start_processing_timestamp EXCEPT ![c] = e.ts]
      /\ finish_events' = (finish_events \ {e}) \cup {new}
      /\ queues' = q \ {j}
      /\ last_schedule_out' = j.type
      /\ UNCHANGED num_running_jobs
  BY <1>1
<1>4. /\ new \in FinishEvent /\ new.core = c
      /\ new.ts = e.ts + k.time_slice
  BY <1>0, <1>2 DEF FinishEvent
<1> HIDE DEF k, new
<1>5. Busy' = Busy
  BY <1>0, <1>2, <1>3, BusyAfterPut DEF StationInv
<1>6. /\ IsFiniteSet(queues')
      /\ Cardinality(queues') = Cardinality(q) - 1
      /\ Cardinality(q) \in Nat
  BY <1>3, FS_RemoveElement, FS_CardinalityType DEF Waiting
<1>7. SchedulerTypeOK'
  BY <1>0, <1>2, <1>3, <1>4, JobTypes DEF StationInv, SchedulerTypeOK, Waiting
<1>8. UniqueIds'
  <2>1. \A d \in Busy \ {c} : current_jobs'[d] = current_jobs[d] /\ d \in Cores
    BY <1>3 DEF StationInv, SchedulerTypeOK, Busy
  <2>2. current_jobs'[c] = k
    BY <1>0, <1>3 DEF StationInv, SchedulerTypeOK
  <2>3. \A i \in queues' : i \in q /\ i # j
    BY <1>3
  <2>4. \A d \in Busy \ {c} : current_jobs'[d].id # k.id
    BY <1>2, <2>1 DEF Waiting
  <2>5. \A i \in queues' : i.id # k.id
    BY <1>2, <2>3 DEF Waiting
  <2> QED
    BY <1>2, <1>5, <2>1, <2>2, <2>3, <2>4, <2>5 DEF StationInv, UniqueIds, Waiting
<1>9. WorkConserving'
  BY <1>3 DEF StationInv, WorkConserving, Waiting
<1>10. OneFinishPerBusyCore'
  <2>1. \A f \in finish_events \ {e} : f.core \in Busy /\ f.core # c /\ f.core \in Cores
    BY FinishFindsJob DEF StationInv, OneFinishPerBusyCore
  <2>2. \A f \in finish_events \ {e} :
          f.ts = start_processing_timestamp'[f.core] + current_jobs'[f.core].time_slice
    BY <1>3, <2>1 DEF StationInv, OneFinishPerBusyCore, SchedulerTypeOK
  <2>3. new.ts = start_processing_timestamp'[c] + current_jobs'[c].time_slice
    BY <1>0, <1>3, <1>4 DEF StationInv, SchedulerTypeOK
  <2>4. \A d \in Busy \ {c} : \E f \in finish_events \ {e} : f.core = d
    BY DEF StationInv, OneFinishPerBusyCore
  <2> QED
    BY <1>0, <1>3, <1>4, <1>5, <2>1, <2>2, <2>3, <2>4
       DEF StationInv, OneFinishPerBusyCore
<1> QED
  BY <1>3, <1>5, <1>6, <1>7, <1>8, <1>9, <1>10
     DEF StationInv, NeverExits, SchedulerTypeOK

LEMMA GoIdlePreserves ==
  ASSUME StationInv, NEW e \in finish_events, queues = {},
         GoIdle(e), UNCHANGED <<arrivals, exited>>,
         now' = e.ts, num_jobs_in_queue' = num_jobs_in_queue - 1
  PROVE  StationInv'
<1> DEFINE c == e.core
<1>0. c \in Busy /\ c \in Cores /\ e.ts \in Nat
  BY FinishFindsJob
<1>1. /\ current_jobs' = [current_jobs EXCEPT ![c] = NoJob]
      /\ num_running_jobs' = num_running_jobs - 1
      /\ finish_events' = finish_events \ {e}
      /\ queues' = {}
      /\ UNCHANGED <<start_processing_timestamp, last_schedule_out>>
  BY DEF GoIdle
<1>2. Busy' = Busy \ {c}
  BY <1>0, <1>1, BusyAfterFree DEF StationInv
<1>3. Cardinality(Busy') = Cardinality(Busy) - 1 /\ Cardinality(Busy') \in Nat
  BY <1>0, <1>2, BusyFinite, FS_RemoveElement, FS_CardinalityType
<1>4. Cardinality(queues) = 0 /\ Cardinality(queues') = 0 /\ IsFiniteSet(queues')
  BY <1>1, FS_EmptySet
<1>5. SchedulerTypeOK'
  <2>1. num_running_jobs' \in 0 .. NumCores /\ num_jobs_in_queue' \in Nat
    <3>1. /\ num_running_jobs = Cardinality(Busy)
          /\ num_jobs_in_queue = Cardinality(queues) + num_running_jobs
          /\ num_running_jobs \in 0 .. NumCores
      BY DEF StationInv, SchedulerTypeOK
    <3>2. num_running_jobs - 1 \in Nat
      BY <1>3, <3>1
    <3>3. num_jobs_in_queue' = num_running_jobs - 1
      BY <1>4, <3>1
    <3> QED BY <1>1, <3>1, <3>2, <3>3, StationAssumption
  <2> QED
    BY <1>0, <1>1, <2>1 DEF StationInv, SchedulerTypeOK
<1>6. UniqueIds'
  BY <1>1, <1>2 DEF StationInv, UniqueIds, SchedulerTypeOK, Busy
<1>7. OneFinishPerBusyCore'
  <2>1. \A f \in finish_events \ {e} : f.core \in Busy \ {c} /\ f.core \in Cores
    BY FinishFindsJob DEF StationInv, OneFinishPerBusyCore
  <2>2. \A f \in finish_events \ {e} :
          f.ts = start_processing_timestamp'[f.core] + current_jobs'[f.core].time_slice
    BY <1>1, <2>1 DEF StationInv, OneFinishPerBusyCore, SchedulerTypeOK
  <2>3. \A d \in Busy \ {c} : \E f \in finish_events \ {e} : f.core = d
    BY DEF StationInv, OneFinishPerBusyCore
  <2> QED
    BY <1>1, <1>2, <2>1, <2>2, <2>3 DEF StationInv, OneFinishPerBusyCore
<1>8. /\ num_running_jobs' = Cardinality(Busy')
      /\ num_jobs_in_queue' = Cardinality(queues') + num_running_jobs'
  <2>1. /\ num_running_jobs = Cardinality(Busy)
        /\ num_jobs_in_queue = Cardinality(queues) + num_running_jobs
        /\ num_running_jobs \in 0 .. NumCores
    BY DEF StationInv, SchedulerTypeOK
  <2> QED BY <1>1, <1>3, <1>4, <2>1
<1>9. WorkConserving' /\ NeverExits'
  BY <1>1 DEF StationInv, WorkConserving, NeverExits
<1> QED
  BY <1>4, <1>5, <1>6, <1>7, <1>8, <1>9 DEF StationInv

LEMMA FinishPreserves ==
  ASSUME StationInv, NEW e \in finish_events, Finish(e)
  PROVE  StationInv'
<1> DEFINE c == e.core
           r == [Served(e) EXCEPT !.deadline = e.ts]
<1>0. c \in Busy /\ c \in Cores /\ e.ts \in Nat /\ current_jobs[c] \in Job
  BY FinishFindsJob
<1>1. now' = e.ts /\ UNCHANGED <<arrivals, exited>>
  BY DEF Finish
<1>2. CASE Preempt(e)
  <2>1. /\ Served(e).remain > 0
        /\ ScheduleNextJob(e, queues \cup {r})
        /\ UNCHANGED <<metrics, num_jobs_in_queue>>
    BY <1>2 DEF Preempt
  <2>2. r \in Job /\ r.id = current_jobs[c].id
    <3>1. current_jobs[c].remain - current_jobs[c].time_slice \in Nat
      BY <1>0, <2>1 DEF Served, Job
    <3>2. r = [current_jobs[c] EXCEPT
                 !.remain = current_jobs[c].remain - current_jobs[c].time_slice,
                 !.deadline = e.ts]
      BY DEF Served
    <3> QED BY <1>0, <3>1, <3>2 DEF Job
  <2> HIDE DEF r
  <2>3. r \notin queues /\ \A j \in queues : j.id # r.id
    BY <1>0, <2>2 DEF StationInv, UniqueIds
  <2>4. /\ IsFiniteSet(queues \cup {r})
        /\ Cardinality(queues \cup {r}) = Cardinality(queues) + 1
        /\ Cardinality(queues) \in Nat
    BY <2>3, FS_AddElement, FS_CardinalityType DEF StationInv
  <2>5. Waiting(e, queues \cup {r})
    BY <1>0, <2>2, <2>3, <2>4 DEF Waiting, StationInv, SchedulerTypeOK, UniqueIds
  <2>6. Dispatch(e, queues \cup {r})
    BY <2>1 DEF ScheduleNextJob
  <2>7. num_jobs_in_queue' = Cardinality(queues \cup {r}) - 1 + num_running_jobs
    BY <2>1, <2>4 DEF StationInv, SchedulerTypeOK
  <2>8. num_jobs_in_queue' \in Nat
    BY <2>1 DEF StationInv, SchedulerTypeOK
  <2> QED
    BY <1>1, <2>5, <2>6, <2>7, <2>8, DispatchPreserves
<1>3. CASE Complete(e)
  <2>1. num_jobs_in_queue' = num_jobs_in_queue - 1 /\ ScheduleNextJob(e, queues)
    BY <1>3 DEF Complete, UpdateMetricsOnFinish
  <2>2. CASE queues = {}
    <3>1. GoIdle(e)
      BY <2>1, <2>2 DEF ScheduleNextJob
    <3> QED
      BY <1>1, <2>1, <2>2, <3>1, GoIdlePreserves
  <2>3. CASE queues # {}
    <3>1. Dispatch(e, queues)
      BY <2>1, <2>3 DEF ScheduleNextJob
    <3>2. Waiting(e, queues)
      BY DEF Waiting, StationInv, SchedulerTypeOK, UniqueIds
    <3>3. Cardinality(queues) \in Nat /\ Cardinality(queues) # 0
      BY <2>3, FS_CardinalityType, FS_EmptySet DEF StationInv
    <3>4. /\ num_jobs_in_queue' = Cardinality(queues) - 1 + num_running_jobs
          /\ num_jobs_in_queue' \in Nat
      BY <2>1, <3>3 DEF StationInv, SchedulerTypeOK
    <3> QED
      BY <1>1, <3>1, <3>2, <3>4, DispatchPreserves
  <2> QED BY <2>2, <2>3
<1> QED BY <1>2, <1>3 DEF Finish

-----------------------------------------------------------------------------
(***************************************************************************)
(* The theorems.                                                           *)
(***************************************************************************)

LEMMA InitEstablishes == Init => StationInv
<1> SUFFICES ASSUME Init PROVE StationInv
  OBVIOUS
<1>1. Busy = {} /\ queues = {} /\ Cardinality(queues) = 0
      /\ Cardinality(Busy) = 0 /\ IsFiniteSet(queues)
  BY FS_EmptySet DEF Init, Busy, NoJob
<1>2. SchedulerTypeOK
  <2>1. /\ current_jobs \in [Cores -> Job \cup {NoJob}]
        /\ start_processing_timestamp \in [Cores -> Nat]
    BY DEF Init
  <2>2. num_running_jobs \in 0 .. NumCores /\ now \in Nat
    BY StationAssumption DEF Init
  <2> QED BY <2>1, <2>2 DEF Init, SchedulerTypeOK
<1>3. UniqueIds /\ OneFinishPerBusyCore
  BY <1>1 DEF Init, UniqueIds, OneFinishPerBusyCore
<1>4. WorkConserving /\ NeverExits
  BY <1>1 DEF Init, WorkConserving, NeverExits
<1>5. num_running_jobs = 0 /\ num_jobs_in_queue = 0
  BY DEF Init
<1>6. num_jobs_in_queue = Cardinality(queues) + num_running_jobs
  BY <1>1, <1>5
<1> QED
  BY <1>1, <1>2, <1>3, <1>4, <1>5, <1>6, Zenon DEF StationInv

\* The inductive invariant: whatever arrives, with or without preemption and
\* under either scheduler, the counters, cores, queues and scheduled events of
\* a station stay consistent.
THEOREM StationInvariant == Spec => []StationInv
<1>1. StationInv /\ [Next]_vars => StationInv'
  <2> SUFFICES ASSUME StationInv, [Next]_vars PROVE StationInv'
    OBVIOUS
  <2>1. CASE ArriveStep
    BY <2>1, ArrivePreserves DEF ArriveStep
  <2>2. CASE FinishStep
    BY <2>2, FinishPreserves DEF FinishStep
  <2>3. CASE UNCHANGED vars
    BY <2>3 DEF vars, StationInv, SchedulerTypeOK, UniqueIds, WorkConserving,
                OneFinishPerBusyCore, NeverExits, Busy
  <2> QED
    BY <2>1, <2>2, <2>3 DEF Next, Quiet
<1> QED BY <1>1, InitEstablishes, PTL DEF Spec

\* No job is lost, duplicated or miscounted: the counters the handlers branch
\* on always equal what they count.
THEOREM CountersAlwaysAgree == Spec => []CountersAgree
<1>1. StationInv => CountersAgree
  <2> SUFFICES ASSUME StationInv PROVE CountersAgree
    OBVIOUS
  <2>1. \A j, k \in InStation : j.id = k.id => j = k
    BY DEF StationInv, UniqueIds, InStation
  <2>2. \A c, d \in Busy : current_jobs[c] = current_jobs[d] => c = d
    BY DEF StationInv, UniqueIds
  <2>3. \A c \in Busy : current_jobs[c] \notin queues
    BY DEF StationInv, UniqueIds
  <2> QED BY <2>1, <2>2, <2>3 DEF StationInv, CountersAgree
<1> QED BY <1>1, StationInvariant, PTL

\* No core is idle while a job waits, on any number of cores.
THEOREM AlwaysWorkConserving == Spec => []WorkConserving
<1>1. StationInv => WorkConserving
  BY DEF StationInv
<1> QED BY <1>1, StationInvariant, PTL

\* Every busy core is released by exactly one FINISH event, and no FINISH event
\* finds its core free.
THEOREM AlwaysOneFinishPerBusyCore == Spec => []OneFinishPerBusyCore
<1>1. StationInv => OneFinishPerBusyCore
  BY DEF StationInv
<1> QED BY <1>1, StationInvariant, PTL

\* The exit of start_device is dead code.
THEOREM StationNeverExits == Spec => []NeverExits
<1>1. StationInv => NeverExits
  BY DEF StationInv
<1> QED BY <1>1, StationInvariant, PTL

-----------------------------------------------------------------------------
(***************************************************************************)
(* A station implements Station: seen from outside jobs enter one at a     *)
(* time and leave once, and where a single core serves FIFO to completion  *)
(* they leave in order of arrival.  SeenInv adds to StationInv what order  *)
(* of arrival rests on.                                                    *)
(***************************************************************************)

\* Time does not go back, and no job arrived in the future.
Chronological ==
  /\ \A e \in finish_events : now <= e.ts
  /\ \A j \in InStation : j.arrived <= now

\* Without preemption a job runs to its end in one slice.
ServedAtOnce == \A j \in InStation : j.remain = j.time_slice

\* The job on the core arrived before all that wait, and these are queued by
\* arrival.
ArrivalOrder ==
  /\ ServedAtOnce
  /\ \A j \in queues : j.deadline = j.arrived
  /\ \A c \in Busy, j \in queues : current_jobs[c].arrived <= j.arrived

SeenInv == StationInv /\ Chronological /\ (ServesInOrder => ArrivalOrder)

\* A job as the outside knows it.
VisitOf(j) == [id |-> j.id, arrived |-> j.arrived]
Present == {VisitOf(j) : j \in InStation}

\* What stays the same of a job as long as it is inside.
TicketOf(j) == [id |-> j.id, type |-> j.type, arrived |-> j.arrived]
Tickets == {TicketOf(j) : j \in InStation}

LEMMA InStationJobs ==
  ASSUME SchedulerTypeOK
  PROVE  InStation \subseteq Job
BY BusyHoldsJob DEF InStation, SchedulerTypeOK

\* What the scheduler gives out was among what it held; and under FIFO has the
\* smallest deadline.
LEMMA FifoGivesOldest ==
  ASSUME NEW q \in SUBSET Job, NEW j \in Choice(q), ~RoundRobin
  PROVE  \A k \in q : j.deadline <= k.deadline
<1>1. j \in q /\ \A k \in q : j.deadline < k.deadline \/ j.deadline = k.deadline
  BY DEF Choice, FifoChoice
<1>2. \A k \in q : k.deadline \in Nat
  BY DEF Job
<1> QED BY <1>1, <1>2

-----------------------------------------------------------------------------
(* ARRIVE: a job enters.                                                   *)

LEMMA ArriveEnters ==
  ASSUME SeenInv,
         NEW t \in ArrivingTypes, NEW at \in now .. now + MaxGap,
         NEW total \in ServiceTimes, Arrive(t, at, total)
  PROVE  /\ Chronological' /\ (ServesInOrder => ArrivalOrder)'
         /\ Outside!Enter
         /\ InStation' = InStation \cup {NewJob(t, at, total)}
<1> DEFINE j == NewJob(t, at, total)
<1>0. /\ at \in Nat /\ now \in Nat /\ now <= at /\ now' = at
      /\ arrivals' = arrivals + 1 /\ arrivals \in Nat
  BY StationAssumption DEF SeenInv, StationInv, SchedulerTypeOK, Arrive
<1>1. /\ j \in Job /\ j.id = arrivals + 1 /\ j.arrived = at /\ j.deadline = at
      /\ j.time_slice \in Nat
      /\ ~Preemption => j.remain = j.time_slice
  <2>1. j \in Job /\ j.id = arrivals + 1
    BY <1>0, NewJobType DEF SeenInv, StationInv
  <2>2. j.arrived = at /\ j.deadline = at /\ j.remain = total /\ j.time_slice = Slice(total)
    BY DEF NewJob
  <2>3. j.time_slice \in Nat
    BY <2>1 DEF Job
  <2> QED BY <2>1, <2>2, <2>3 DEF Slice
<1>2. /\ OnFreeCore(j, at) \/ Wait(j)
      /\ \A e \in finish_events : at <= e.ts
  BY DEF Arrive
<1> HIDE DEF j
<1>3. /\ InStation' = InStation \cup {j}
      /\ \A e \in finish_events' : at <= e.ts
      /\ ServesInOrder => \A c \in Busy', k \in queues' :
           k = j \/ (c \in Busy /\ k \in queues /\ current_jobs'[c] = current_jobs[c])
      /\ ServesInOrder => \A c \in Busy', k \in queues' : current_jobs'[c] \in InStation
      /\ queues' \subseteq queues \cup {j}
  <2>1. CASE OnFreeCore(j, at)
    <3>0. /\ num_running_jobs < NumCores
          /\ UNCHANGED <<queues, last_schedule_out>>
      BY <2>1 DEF OnFreeCore
    <3>1. PICK c \in Cores : FreeCore(c) /\ PutOnCore(c, j, at)
      <4>1. Busy # Cores
        BY <3>0, CoresFinite, StationAssumption DEF SeenInv, StationInv, SchedulerTypeOK
      <4> QED BY <2>1, <4>1, FreeCoreExists DEF OnFreeCore
    <3>2. /\ current_jobs' = [current_jobs EXCEPT ![c] = j]
          /\ finish_events' = finish_events \cup {[core |-> c, ts |-> at + j.time_slice]}
      BY <3>1 DEF PutOnCore
    <3>3. Busy' = Busy \cup {c} /\ c \notin Busy
      BY <1>1, <3>1, <3>2, BusyAfterPut DEF SeenInv, StationInv, FreeCore
    <3>4. queues = {} /\ queues' = {}
      BY <3>0, StationAssumption DEF SeenInv, StationInv, WorkConserving, SchedulerTypeOK
    <3>5. /\ current_jobs'[c] = j
          /\ \A d \in Busy : current_jobs'[d] = current_jobs[d]
      BY <3>1, <3>2, <3>3 DEF SeenInv, StationInv, SchedulerTypeOK
    <3>6. InStation' = InStation \cup {j}
      BY <3>3, <3>4, <3>5 DEF InStation
    <3>7. \A e \in finish_events' : at <= e.ts
      BY <1>0, <1>1, <1>2, <3>2
    <3> QED BY <3>4, <3>6, <3>7
  <2>2. CASE Wait(j)
    <3>1. queues' = queues \cup {j} /\ UNCHANGED <<current_jobs, finish_events>>
      BY <2>2 DEF Wait
    <3>2. Busy' = Busy
      BY <3>1 DEF Busy
    <3>3. InStation' = InStation \cup {j}
      BY <3>1, <3>2 DEF InStation
    <3>4. \A c \in Busy : current_jobs[c] \in InStation
      BY DEF InStation
    <3> QED BY <1>2, <3>1, <3>2, <3>3, <3>4
  <2> QED BY <1>2, <2>1, <2>2
<1>4. \A k \in InStation : k.arrived <= at /\ k.arrived \in Nat
  BY <1>0, InStationJobs DEF SeenInv, Chronological, StationInv, Job
<1>5. Chronological'
  BY <1>0, <1>1, <1>3, <1>4 DEF Chronological
<1>6. (ServesInOrder => ArrivalOrder)'
  <2> SUFFICES ASSUME ServesInOrder PROVE ArrivalOrder'
    BY DEF ServesInOrder
  <2>1. ArrivalOrder /\ ~Preemption
    BY DEF SeenInv, ServesInOrder
  <2>2. ServedAtOnce'
    BY <1>1, <1>3, <2>1 DEF ArrivalOrder, ServedAtOnce
  <2>3. \A k \in queues' : k.deadline = k.arrived
    BY <1>1, <1>3, <2>1 DEF ArrivalOrder
  <2>4. \A c \in Busy', k \in queues' : current_jobs'[c].arrived <= k.arrived
    BY <1>1, <1>3, <1>4, <2>1 DEF ArrivalOrder
  <2> QED BY <2>2, <2>3, <2>4 DEF ArrivalOrder
<1>7. Outside!Enter
  <2>1. Present' = Present \cup {VisitOf(j)}
    BY <1>3 DEF Present
  <2>2. VisitOf(j) \in Outside!Visit /\ VisitOf(j).id = arrivals + 1
    BY <1>0, <1>1 DEF VisitOf, Outside!Visit
  <2> QED BY <1>0, <2>1, <2>2 DEF Outside!Enter, Present, VisitOf
<1> QED BY <1>3, <1>5, <1>6, <1>7 DEF j

-----------------------------------------------------------------------------
(* FINISH: the job on the core is put back or leaves.  As above,           *)
(* schedule_next_job is considered for any set of jobs that the handler    *)
(* may pass it.                                                            *)

Others(e) == {current_jobs[c] : c \in Busy \ {e.core}}

LEMMA InStationByCore ==
  ASSUME StationInv, NEW e \in finish_events
  PROVE  InStation = queues \cup {current_jobs[e.core]} \cup Others(e)
BY FinishFindsJob DEF InStation, Others

\* Which jobs are inside afterwards, and what is said of them.
LEMMA ScheduleKeepsVisits ==
  ASSUME StationInv, NEW e \in finish_events, \A f \in finish_events : e.ts <= f.ts,
         NEW q \in SUBSET Job, ScheduleNextJob(e, q)
  PROVE  /\ Present' = {VisitOf(i) : i \in q \cup Others(e)}
         /\ Tickets' = {TicketOf(i) : i \in q \cup Others(e)}
         /\ \A i \in InStation' : \E h \in q \cup Others(e) : i.arrived = h.arrived
         /\ (\A h \in q \cup Others(e) : h.remain = h.time_slice) => ServedAtOnce'
         /\ \A f \in finish_events' : e.ts <= f.ts
         /\ queues' \subseteq q
         /\ ~RoundRobin /\ Busy = {e.core} =>
              \A c \in Busy', i \in queues' :
                \E h \in q : current_jobs'[c].arrived = h.arrived /\ h.deadline <= i.deadline
<1> DEFINE c == e.core
<1>0. /\ c \in Busy /\ c \in Cores /\ e.ts \in Nat /\ SchedulerTypeOK
      /\ Others(e) \subseteq Job
  BY FinishFindsJob, BusyHoldsJob DEF StationInv, Others
<1>1. CASE q # {} /\ Dispatch(e, q)
  <2>1. PICK j \in Choice(q) :
          LET k == [j EXCEPT !.time_slice = MinOf(j.remain, j.time_slice)]
          IN  /\ current_jobs' = [current_jobs EXCEPT ![c] = k]
              /\ finish_events' = (finish_events \ {e})
                                    \cup {[core |-> c, ts |-> e.ts + k.time_slice]}
              /\ queues' = q \ {j}
    BY <1>1 DEF Dispatch
  <2> DEFINE k == [j EXCEPT !.time_slice = MinOf(j.remain, j.time_slice)]
  <2>2. j \in q /\ j \in Job
    BY ChoiceSubset
  <2>3. /\ k \in Job /\ VisitOf(k) = VisitOf(j) /\ TicketOf(k) = TicketOf(j) /\ k.arrived = j.arrived /\ k.time_slice \in Nat
        /\ j.remain = j.time_slice => k.remain = k.time_slice
    BY <2>2, SliceType DEF Job, VisitOf, TicketOf, MinOf
  <2>4. /\ current_jobs' = [current_jobs EXCEPT ![c] = k]
        /\ finish_events' = (finish_events \ {e}) \cup {[core |-> c, ts |-> e.ts + k.time_slice]}
        /\ queues' = q \ {j}
    BY <2>1
  <2> HIDE DEF k
  <2>5. /\ Busy' = Busy
        /\ current_jobs'[c] = k
        /\ \A d \in Busy \ {c} : current_jobs'[d] = current_jobs[d]
    BY <1>0, <2>3, <2>4, BusyAfterPut DEF Busy, SchedulerTypeOK
  <2>6. InStation' = (q \ {j}) \cup {k} \cup Others(e)
    <3>1. {current_jobs'[d] : d \in Busy'} = {k} \cup {current_jobs'[d] : d \in Busy \ {c}}
      BY <1>0, <2>5
    <3>2. {current_jobs'[d] : d \in Busy \ {c}} = Others(e)
      BY <2>5 DEF Others
    <3> QED BY <2>4, <3>1, <3>2 DEF InStation
  <2>7. /\ Present' = {VisitOf(i) : i \in q \cup Others(e)}
        /\ Tickets' = {TicketOf(i) : i \in q \cup Others(e)}
    BY <2>2, <2>3, <2>6 DEF Present, Tickets
  <2>8. \A i \in InStation' : \E h \in q \cup Others(e) : i.arrived = h.arrived
    BY <2>2, <2>3, <2>6
  <2>9. ASSUME \A h \in q \cup Others(e) : h.remain = h.time_slice PROVE ServedAtOnce'
    BY <2>2, <2>3, <2>6, <2>9 DEF ServedAtOnce
  <2>10. \A f \in finish_events' : e.ts <= f.ts
    BY <1>0, <2>3, <2>4
  <2>11. ASSUME ~RoundRobin, Busy = {c}
         PROVE  \A d \in Busy', i \in queues' :
                  \E h \in q : current_jobs'[d].arrived = h.arrived /\ h.deadline <= i.deadline
    <3>1. \A i \in q : j.deadline <= i.deadline
      BY <2>11, FifoGivesOldest
    <3> QED BY <2>2, <2>3, <2>4, <2>5, <2>11, <3>1
  <2> QED BY <2>4, <2>7, <2>8, <2>9, <2>10, <2>11
<1>2. CASE q = {} /\ GoIdle(e)
  <2>1. /\ current_jobs' = [current_jobs EXCEPT ![c] = NoJob]
        /\ finish_events' = finish_events \ {e}
        /\ queues' = {}
    BY <1>2 DEF GoIdle
  <2>2. /\ Busy' = Busy \ {c}
        /\ \A d \in Busy \ {c} : current_jobs'[d] = current_jobs[d]
    BY <1>0, <2>1, BusyAfterFree DEF Busy, SchedulerTypeOK
  <2>3. InStation' = Others(e)
    BY <2>1, <2>2 DEF InStation, Others
  <2> QED BY <1>2, <2>1, <2>3 DEF Present, Tickets, ServedAtOnce
<1> QED BY <1>1, <1>2 DEF ScheduleNextJob

\* The job whose slice ends, put back with what is left of it, is the same visit.
LEMMA PutBackJob ==
  ASSUME StationInv, NEW e \in finish_events, Served(e).remain > 0
  PROVE  LET r == [Served(e) EXCEPT !.deadline = e.ts]
         IN  /\ r \in Job /\ VisitOf(r) = VisitOf(current_jobs[e.core])
             /\ TicketOf(r) = TicketOf(current_jobs[e.core])
<1>1. current_jobs[e.core] \in Job /\ e.ts \in Nat
  BY FinishFindsJob
<1>2. current_jobs[e.core].remain - current_jobs[e.core].time_slice \in Nat
  BY <1>1 DEF Served, Job
<1> QED BY <1>1, <1>2 DEF Served, VisitOf, TicketOf, Job

LEMMA FinishLeavesOrStays ==
  ASSUME SeenInv, NEW e \in finish_events, Finish(e)
  PROVE  /\ Chronological' /\ (ServesInOrder => ArrivalOrder)'
         /\ Outside!Leave \/ UNCHANGED Outside!vars
<1> DEFINE j == current_jobs[e.core]
<1>0. /\ StationInv /\ e.ts \in Nat /\ now \in Nat /\ now <= e.ts
      /\ j \in Job /\ e.core \in Busy /\ e.core \in Cores
      /\ InStation = queues \cup {j} \cup Others(e)
      /\ InStation \subseteq Job /\ queues \subseteq Job
  BY FinishFindsJob, InStationByCore, InStationJobs
     DEF SeenInv, Chronological, StationInv, SchedulerTypeOK
<1>1. /\ now' = e.ts /\ arrivals' = arrivals
      /\ \A f \in finish_events : e.ts <= f.ts
  BY DEF Finish
<1>2. \A i \in InStation : i.arrived <= e.ts
  <2>1. \A i \in InStation : i.arrived \in Nat /\ i.arrived <= now
    BY <1>0 DEF SeenInv, Chronological, Job
  <2> QED BY <1>0, <2>1
\* A single core: nobody else is being served.
<1>3. ServesInOrder => Busy = {e.core}
  <2>1. ASSUME ServesInOrder PROVE Cores = {0}
    BY <2>1 DEF ServesInOrder, Cores
  <2> QED BY <1>0, <2>1 DEF Busy
<1>4. CASE Preempt(e)
  <2> DEFINE r == [Served(e) EXCEPT !.deadline = e.ts]
  <2>1. Served(e).remain > 0 /\ ScheduleNextJob(e, queues \cup {r})
    BY <1>4 DEF Preempt
  <2>2. r \in Job /\ VisitOf(r) = VisitOf(j) /\ r.arrived = j.arrived
    BY <1>0, <2>1, PutBackJob DEF VisitOf
  <2>3. ~ServesInOrder
    <3>1. ASSUME ServesInOrder PROVE j.remain = j.time_slice
      BY <1>0, <3>1 DEF SeenInv, ArrivalOrder, ServedAtOnce
    <3>2. Served(e).remain = j.remain - j.time_slice
      BY <1>0 DEF Served, Job
    <3>3. j.remain \in Nat /\ j.time_slice \in Nat
      BY <1>0 DEF Job
    <3> QED BY <2>1, <3>1, <3>2, <3>3
  <2> HIDE DEF r
  <2>4. /\ Present' = {VisitOf(i) : i \in (queues \cup {r}) \cup Others(e)}
        /\ \A i \in InStation' : \E h \in (queues \cup {r}) \cup Others(e) : i.arrived = h.arrived
        /\ \A f \in finish_events' : e.ts <= f.ts
    BY <1>0, <1>1, <2>1, <2>2, ScheduleKeepsVisits
  <2>5. Present' = Present
    BY <1>0, <2>2, <2>4 DEF Present
  <2>6. Chronological'
    BY <1>0, <1>1, <1>2, <2>2, <2>4 DEF Chronological
  <2> QED BY <1>1, <2>3, <2>5, <2>6 DEF Outside!vars, Present, VisitOf, ServesInOrder
<1>5. CASE Complete(e)
  <2>1. ScheduleNextJob(e, queues)
    BY <1>5 DEF Complete
  <2>2. /\ Present' = {VisitOf(i) : i \in queues \cup Others(e)}
        /\ \A i \in InStation' : \E h \in queues \cup Others(e) : i.arrived = h.arrived
        /\ (\A h \in queues \cup Others(e) : h.remain = h.time_slice) => ServedAtOnce'
        /\ \A f \in finish_events' : e.ts <= f.ts
        /\ queues' \subseteq queues
        /\ ~RoundRobin /\ Busy = {e.core} =>
             \A c \in Busy', i \in queues' :
               \E h \in queues : current_jobs'[c].arrived = h.arrived /\ h.deadline <= i.deadline
    BY <1>0, <1>1, <2>1, ScheduleKeepsVisits
  <2>3. Chronological'
    BY <1>0, <1>1, <1>2, <2>2 DEF Chronological
  <2>4. (ServesInOrder => ArrivalOrder)'
    <3> SUFFICES ASSUME ServesInOrder PROVE ArrivalOrder'
      BY DEF ServesInOrder
    <3>1. ArrivalOrder /\ ~RoundRobin /\ Busy = {e.core}
      BY <1>3 DEF SeenInv, ServesInOrder
    <3>2. ServedAtOnce' /\ \A i \in queues' : i.deadline = i.arrived
      BY <1>0, <2>2, <3>1 DEF ArrivalOrder, ServedAtOnce
    <3>3. \A c \in Busy', i \in queues' : current_jobs'[c].arrived <= i.arrived
      BY <2>2, <3>1, <3>2 DEF ArrivalOrder
    <3> QED BY <3>2, <3>3 DEF ArrivalOrder
  <2>5. \A i \in queues \cup Others(e) : VisitOf(i) # VisitOf(j)
    BY <1>0 DEF StationInv, UniqueIds, Others, VisitOf
  <2>6. VisitOf(j) \in Present /\ Present' = Present \ {VisitOf(j)}
    BY <1>0, <2>2, <2>5 DEF Present
  <2>7. ASSUME ServesInOrder PROVE \A w \in Present : j.arrived <= w.arrived
    <3>1. Others(e) = {}
      BY <1>3, <2>7 DEF Others
    <3>2. \A i \in queues : j.arrived <= i.arrived
      BY <1>0, <2>7 DEF SeenInv, ArrivalOrder
    <3>3. j.arrived <= j.arrived
      BY <1>0 DEF Job
    <3> QED BY <1>0, <3>1, <3>2, <3>3 DEF Present, VisitOf
  <2>8. Outside!Leave
    <3>1. VisitOf(j).arrived = j.arrived
      BY DEF VisitOf
    <3> HIDE DEF j
    <3>2. ServesInOrder => \A w \in Present : VisitOf(j).arrived <= w.arrived
      BY <2>7, <3>1
    <3> QED BY <1>1, <2>6, <3>2 DEF Outside!Leave, Present, VisitOf
  <2> QED BY <2>3, <2>4, <2>8
<1> QED BY <1>4, <1>5 DEF Finish

-----------------------------------------------------------------------------
(* The theorem.                                                            *)

LEMMA InitIsOutside == Init => SeenInv /\ Outside!Init
<1> SUFFICES ASSUME Init PROVE SeenInv /\ Outside!Init
  OBVIOUS
<1>1. StationInv
  BY InitEstablishes
<1>2. Busy = {} /\ queues = {} /\ InStation = {} /\ finish_events = {} /\ arrivals = 0
  BY DEF Init, Busy, NoJob, InStation
<1>3. Chronological /\ ArrivalOrder
  BY <1>2 DEF Chronological, ArrivalOrder, ServedAtOnce
<1> QED BY <1>1, <1>2, <1>3 DEF SeenInv, Outside!Init

\* Every station of the network keeps what Station promises, for any number of
\* cores, either scheduler and any service times: jobs enter one at a time and
\* leave once, and a single core under FIFO without preemption lets nobody overtake.
THEOREM StationImplemented == Spec => ImplementsStation
<1>1. Init => SeenInv /\ Outside!Init
  BY InitIsOutside
<1>2. SeenInv /\ [Next]_vars => SeenInv' /\ [Outside!Next]_(Outside!vars)
  <2> SUFFICES ASSUME SeenInv, [Next]_vars
               PROVE  SeenInv' /\ [Outside!Next]_(Outside!vars)
    OBVIOUS
  <2>1. CASE ArriveStep
    <3>1. StationInv' /\ Chronological' /\ (ServesInOrder => ArrivalOrder)' /\ Outside!Enter
      BY <2>1, ArrivePreserves, ArriveEnters DEF ArriveStep, SeenInv
    <3> QED BY <3>1 DEF SeenInv, Outside!Next
  <2>2. CASE FinishStep
    <3>1. /\ StationInv' /\ Chronological' /\ (ServesInOrder => ArrivalOrder)'
          /\ Outside!Leave \/ UNCHANGED Outside!vars
      BY <2>2, FinishPreserves, FinishLeavesOrStays DEF FinishStep, SeenInv
    <3> QED BY <3>1 DEF SeenInv, Outside!Next
  <2>3. CASE UNCHANGED vars
    BY <2>3 DEF vars, SeenInv, StationInv, SchedulerTypeOK, UniqueIds, WorkConserving,
                OneFinishPerBusyCore, NeverExits, Busy, Chronological, ArrivalOrder,
                ServedAtOnce, InStation, ServesInOrder, Outside!vars
  <2> QED BY <2>1, <2>2, <2>3 DEF Next, Quiet
<1> QED BY <1>1, <1>2, PTL DEF Spec, ImplementsStation, Outside!Spec

-----------------------------------------------------------------------------
(***************************************************************************)
(* Taking turns: the jobs of one type that are not on their last slice     *)
(* form a ring.  One that waits is due at its deadline; one that is being  *)
(* served is due when its slice ends and counts as put back already.  Each *)
(* dispatch moves a job that is due first to the end of the ring.          *)
(***************************************************************************)

PutBack(c) ==
  [current_jobs[c] EXCEPT
     !.remain = @ - current_jobs[c].time_slice,
     !.deadline = start_processing_timestamp[c] + current_jobs[c].time_slice]

Returning == {c \in Busy : current_jobs[c].time_slice < current_jobs[c].remain}

Ring == queues \cup {PutBack(c) : c \in Returning}

\* What an older job j has had, compared with a younger one k.
Shared(j, k) ==
  IF NumCores = 1
  THEN Received(k) + (IF k.deadline <= j.deadline THEN TimeSlice ELSE 0) <= Received(j)
  ELSE Received(k) + (IF k.deadline < j.deadline THEN 2 * TimeSlice
                      ELSE IF k.deadline = j.deadline THEN TimeSlice ELSE 0) <= 2 * Received(j)

\* A slice that is not the last is a whole one.
WholeSlices == \A j \in InStation : /\ j.remain <= j.total
                                    /\ j.time_slice < j.remain => j.time_slice = TimeSlice

\* Who waits is due, and who is served is not overdue.
DueInTime ==
  /\ \A j \in queues : j.deadline <= now
  /\ \A c \in Busy : start_processing_timestamp[c] <= now

TakingTurns ==
  /\ \A j \in Ring : j.deadline = j.arrived \/ TimeSlice <= Received(j)
  /\ \A j, k \in Ring : j.type = k.type /\ j.arrived < k.arrived => Shared(j, k)

ShareInv == SeenInv /\ WholeSlices /\ DueInTime /\ TakingTurns

\* A job that is put back is as much of a job as before.
LEMMA PutBackIsJob ==
  ASSUME ShareInv, NEW c \in Returning
  PROVE  LET j == current_jobs[c]
             r == PutBack(c)
         IN  /\ c \in Busy /\ c \in Cores /\ j \in Job /\ j \in InStation
             /\ j.time_slice = TimeSlice
             /\ r \in Job /\ r.type = j.type /\ r.arrived = j.arrived /\ r.total = j.total
             /\ r.remain = j.remain - TimeSlice /\ r.remain <= r.total
             /\ r.deadline = start_processing_timestamp[c] + TimeSlice
             /\ TimeSlice <= Received(r)
<1> DEFINE j == current_jobs[c]
           r == PutBack(c)
<1>1. c \in Busy /\ c \in Cores /\ j \in Job /\ j.time_slice < j.remain
  BY BusyHoldsJob DEF Returning, ShareInv, SeenInv, StationInv
<1>2. j \in InStation
  BY <1>1 DEF InStation
<1>3. j.remain <= j.total /\ j.time_slice = TimeSlice
  BY <1>1, <1>2 DEF ShareInv, WholeSlices
<1>4. start_processing_timestamp[c] \in Nat /\ TimeSlice \in Nat
  BY <1>1, StationAssumption DEF ShareInv, SeenInv, StationInv, SchedulerTypeOK
<1> DEFINE left == j.remain - TimeSlice
           due == start_processing_timestamp[c] + TimeSlice
<1>5. r = [j EXCEPT !.remain = left, !.deadline = due]
  BY <1>3 DEF PutBack
<1>6. left \in Nat /\ due \in Nat /\ j.remain \in Nat /\ j.total \in Nat
  BY <1>1, <1>3, <1>4 DEF Job
<1>7. /\ r \in Job /\ r.type = j.type /\ r.arrived = j.arrived /\ r.total = j.total
      /\ r.remain = j.remain - TimeSlice
      /\ r.deadline = start_processing_timestamp[c] + TimeSlice
  <2>1. j \in Job
    BY <1>1
  <2> HIDE DEF j, r, left, due
  <2>2. /\ r \in Job /\ r.type = j.type /\ r.arrived = j.arrived /\ r.total = j.total
        /\ r.remain = left /\ r.deadline = due
    BY <2>1, <1>5, <1>6 DEF Job
  <2> QED BY <2>2 DEF left, due
<1> HIDE DEF j, r, left, due
<1>8. r.remain <= r.total /\ TimeSlice <= Received(r)
  BY <1>3, <1>4, <1>6, <1>7 DEF Received, left
<1> QED BY <1>1, <1>2, <1>3, <1>7, <1>8 DEF j, r

\* Between two events of the engine who waits is due and who is served is not.
LEMMA RingTimes ==
  ASSUME ShareInv, NEW t \in Nat, now <= t, \A e \in finish_events : t <= e.ts
  PROVE  /\ Ring \subseteq Job
         /\ \A z \in Ring : z.remain <= z.total
         /\ \A z \in queues : z.deadline <= t
         /\ \A c \in Returning : t <= PutBack(c).deadline /\ PutBack(c).deadline <= t + TimeSlice
<1>0. /\ queues \subseteq Job /\ now \in Nat /\ TimeSlice \in Nat
      /\ start_processing_timestamp \in [Cores -> Nat]
  BY StationAssumption DEF ShareInv, SeenInv, StationInv, SchedulerTypeOK
<1>1. Ring \subseteq Job
  BY <1>0, PutBackIsJob DEF Ring
<1>2. \A z \in queues : z.remain <= z.total /\ z.deadline <= t
  <2>1. \A z \in queues : z.remain <= z.total
    BY DEF ShareInv, WholeSlices, InStation
  <2>2. \A z \in queues : z.deadline \in Nat /\ z.deadline <= now
    BY <1>0 DEF ShareInv, DueInTime, Job
  <2> QED BY <1>0, <2>1, <2>2
<1>3. \A z \in Ring : z.remain <= z.total
  BY <1>2, PutBackIsJob DEF Ring
<1>4. ASSUME NEW c \in Returning
      PROVE  t <= PutBack(c).deadline /\ PutBack(c).deadline <= t + TimeSlice
  <2>1. /\ c \in Busy /\ c \in Cores /\ current_jobs[c].time_slice = TimeSlice
        /\ PutBack(c).deadline = start_processing_timestamp[c] + TimeSlice
    BY PutBackIsJob
  <2>2. PICK e \in finish_events : e.core = c
    BY <2>1 DEF ShareInv, SeenInv, StationInv, OneFinishPerBusyCore
  <2>3. e.ts = start_processing_timestamp[c] + TimeSlice
    BY <2>1, <2>2 DEF ShareInv, SeenInv, StationInv, OneFinishPerBusyCore
  <2>4. start_processing_timestamp[c] <= now
    BY <2>1 DEF ShareInv, DueInTime
  <2> QED BY <1>0, <2>1, <2>3, <2>4
<1> QED BY <1>1, <1>2, <1>3, <1>4

\* A job that is due first goes to the end of the ring with one slice more: no
\* share becomes too small.
LEMMA TurnKeepsShares ==
  ASSUME NEW R \in SUBSET Job, \A z \in R : z.remain <= z.total,
         \A j, k \in R : j.type = k.type /\ j.arrived < k.arrived => Shared(j, k),
         NEW x \in R, NEW t \in Nat, x.deadline <= t,
         \A z \in R : z.type = x.type => x.deadline <= z.deadline,
         \A z \in R : z.deadline <= t + TimeSlice,
         NumCores = 1 => \A z \in R : z.deadline <= t,
         NEW y \in Job, y.type = x.type, y.arrived = x.arrived, y.total = x.total,
         y.remain = x.remain - TimeSlice, y.deadline = t + TimeSlice
  PROVE  \A j, k \in R \cup {y} : j.type = k.type /\ j.arrived < k.arrived => Shared(j, k)
<1>0. TimeSlice \in Nat /\ TimeSlice > 0 /\ y.deadline > t
  BY StationAssumption
<1>1. \A z \in R \cup {y} : /\ z.deadline \in Nat /\ z.arrived \in Nat
                            /\ z.remain \in Nat /\ z.total \in Nat
  BY DEF Job
<1>2. \A z \in R : Received(z) \in Nat
  BY <1>1 DEF Received
<1>3. Received(y) = Received(x) + TimeSlice
  BY <1>0, <1>1 DEF Received
<1>4. ASSUME NEW z \in R, z.type = x.type, x.arrived < z.arrived PROVE Shared(y, z)
  <2>1. Shared(x, z) /\ x.deadline <= z.deadline /\ z.deadline <= y.deadline
    BY <1>4
  <2>2. Received(x) \in Nat /\ Received(z) \in Nat /\ z.deadline \in Nat /\ x.deadline \in Nat
    BY <1>1, <1>2
  <2> QED BY <1>0, <1>1, <1>3, <2>1, <2>2 DEF Shared
<1>5. ASSUME NEW z \in R, z.type = x.type, z.arrived < x.arrived PROVE Shared(z, y)
  <2>1. Shared(z, x) /\ x.deadline <= z.deadline /\ z.deadline <= y.deadline
    BY <1>5
  <2>2. Received(x) \in Nat /\ Received(z) \in Nat /\ z.deadline \in Nat /\ x.deadline \in Nat
    BY <1>1, <1>2
  <2>3. CASE NumCores = 1
    <3>1. z.deadline <= t
      BY <2>3
    <3> QED BY <1>0, <1>1, <1>3, <2>1, <2>2, <2>3, <3>1 DEF Shared
  <2>4. CASE NumCores # 1
    <3>1. CASE x.deadline = z.deadline
      <4>1. Received(x) + TimeSlice <= 2 * Received(z)
        BY <2>1, <2>2, <2>4, <3>1 DEF Shared
      <4>2. z.deadline < y.deadline
        BY <1>0, <2>2, <3>1
      <4> QED BY <1>0, <1>1, <1>3, <2>2, <2>4, <4>1, <4>2 DEF Shared
    <3>2. CASE x.deadline < z.deadline
      <4>1. Received(x) + 2 * TimeSlice <= 2 * Received(z)
        BY <2>1, <2>2, <2>4, <3>2 DEF Shared
      <4> QED BY <1>0, <1>1, <1>3, <2>1, <2>2, <2>4, <4>1 DEF Shared
    <3> QED BY <2>1, <2>2, <3>1, <3>2
  <2> QED BY <2>3, <2>4
<1>6. ~ (y.arrived < y.arrived)
  BY <1>1
<1> QED BY <1>4, <1>5, <1>6

\* A job that arrives is younger than the others and has had nothing, or the
\* slice it is about to have on a core that was free.
LEMMA NewcomerKeepsShares ==
  ASSUME NEW R \in SUBSET Job, NEW at \in Nat, NEW y \in Job, y.arrived = at,
         \A z \in R : z.remain <= z.total /\ z.arrived <= at,
         \A j, k \in R : j.type = k.type /\ j.arrived < k.arrived => Shared(j, k),
         \/ /\ Received(y) = 0 /\ y.deadline = at
            /\ \A z \in R : z.deadline = z.arrived \/ TimeSlice <= Received(z)
         \/ /\ Received(y) = TimeSlice /\ y.deadline = at + TimeSlice
            /\ NumCores = 1 => R = {}
            /\ \A z \in R : TimeSlice <= Received(z) /\ z.deadline <= at + TimeSlice
  PROVE  \A j, k \in R \cup {y} : j.type = k.type /\ j.arrived < k.arrived => Shared(j, k)
<1>0. TimeSlice \in Nat /\ TimeSlice > 0
  BY StationAssumption
<1>1. \A z \in R \cup {y} : /\ z.deadline \in Nat /\ z.arrived \in Nat
                            /\ z.remain \in Nat /\ z.total \in Nat
  BY DEF Job
<1>2. \A z \in R : Received(z) \in Nat
  BY <1>1 DEF Received
<1>3. \A z \in R \cup {y} : ~ (y.arrived < z.arrived)
  BY <1>1
<1>4. ASSUME NEW z \in R, z.arrived < y.arrived PROVE Shared(z, y)
  <2>1. /\ Received(z) \in Nat /\ z.deadline \in Nat /\ z.arrived \in Nat
        /\ y.deadline \in Nat
    BY <1>1, <1>2
  <2>2. CASE Received(y) = 0 /\ y.deadline = at
    <3>1. z.deadline < y.deadline \/ TimeSlice <= Received(z)
      BY <1>0, <1>4, <2>1, <2>2
    <3> QED BY <1>0, <2>1, <2>2, <3>1 DEF Shared
  <2>3. CASE Received(y) = TimeSlice /\ y.deadline = at + TimeSlice
    <3>1. NumCores # 1 /\ TimeSlice <= Received(z) /\ z.deadline <= y.deadline
      BY <1>0, <2>3
    <3> QED BY <1>0, <2>1, <2>3, <3>1 DEF Shared
  <2> QED BY <2>2, <2>3
<1> QED BY <1>3, <1>4

LEMMA ArriveKeepsShares ==
  ASSUME ShareInv,
         NEW t \in ArrivingTypes, NEW at \in now .. now + MaxGap,
         NEW total \in ServiceTimes, Arrive(t, at, total)
  PROVE  WholeSlices' /\ DueInTime' /\ TakingTurns'
<1> DEFINE j == NewJob(t, at, total)
<1>0. /\ at \in Nat /\ now \in Nat /\ now <= at /\ now' = at /\ total \in Nat
      /\ TimeSlice \in Nat /\ TimeSlice > 0 /\ SeenInv /\ StationInv /\ SchedulerTypeOK
      /\ InStation' = InStation \cup {j}
      /\ \A e \in finish_events : at <= e.ts
  BY StationAssumption, ArriveEnters DEF ShareInv, SeenInv, StationInv, SchedulerTypeOK, Arrive
<1>1. /\ j \in Job /\ j.arrived = at /\ j.deadline = at /\ j.total = total /\ j.remain = total
      /\ j.time_slice \in Nat
      /\ j.time_slice < j.remain => j.time_slice = TimeSlice
  <2>1. j \in Job
    BY <1>0, NewJobType
  <2>2. /\ j.arrived = at /\ j.deadline = at /\ j.total = total /\ j.remain = total
        /\ j.time_slice = Slice(total)
    BY DEF NewJob
  <2>3. Slice(total) \in Nat /\ (Slice(total) < total => Slice(total) = TimeSlice)
    BY <1>0, SliceType DEF Slice, MinOf
  <2> HIDE DEF j
  <2> QED BY <2>1, <2>2, <2>3
<1>2. OnFreeCore(j, at) \/ Wait(j)
  BY DEF Arrive
<1> HIDE DEF j
<1>3. WholeSlices'
  <2>1. \A k \in InStation : /\ k.remain <= k.total
                             /\ k.time_slice < k.remain => k.time_slice = TimeSlice
    BY DEF ShareInv, WholeSlices
  <2> QED BY <1>0, <1>1, <2>1 DEF WholeSlices
<1>4. /\ Ring \in SUBSET Job
      /\ \A z \in Ring : z.remain <= z.total /\ z.arrived <= at
      /\ \A z \in queues : z.deadline <= at
      /\ \A c \in Returning : PutBack(c).deadline <= at + TimeSlice
  <2>1. \A z \in queues : z.arrived \in Nat /\ z.arrived <= now
    BY <1>0 DEF SeenInv, Chronological, InStation, SchedulerTypeOK, Job
  <2>2. \A c \in Returning : PutBack(c).arrived \in Nat /\ PutBack(c).arrived <= now
    BY PutBackIsJob DEF ShareInv, SeenInv, Chronological, Job
  <2>3. \A z \in Ring : z.arrived <= at
    BY <1>0, <2>1, <2>2 DEF Ring
  <2> QED BY <1>0, <2>3, RingTimes
<1>5. /\ \A z \in Ring : z.deadline = z.arrived \/ TimeSlice <= Received(z)
      /\ \A i, k \in Ring : i.type = k.type /\ i.arrived < k.arrived => Shared(i, k)
  BY DEF ShareInv, TakingTurns
<1>6. CASE OnFreeCore(j, at)
  <2>0. num_running_jobs < NumCores /\ queues' = queues
    BY <1>6 DEF OnFreeCore
  <2>1. PICK c \in Cores : FreeCore(c) /\ PutOnCore(c, j, at)
    <3>1. Busy # Cores
      BY <1>0, <2>0, CoresFinite, StationAssumption DEF StationInv, SchedulerTypeOK
    <3> QED BY <1>6, <3>1, FreeCoreExists DEF OnFreeCore
  <2>2. /\ current_jobs' = [current_jobs EXCEPT ![c] = j]
        /\ start_processing_timestamp' = [start_processing_timestamp EXCEPT ![c] = at]
    BY <2>1 DEF PutOnCore
  <2>3. Busy' = Busy \cup {c} /\ c \notin Busy
    BY <1>0, <1>1, <2>1, <2>2, BusyAfterPut DEF FreeCore
  <2>4. queues = {} /\ queues' = {}
    BY <1>0, <2>0, StationAssumption DEF StationInv, WorkConserving, SchedulerTypeOK
  <2>5. /\ current_jobs'[c] = j /\ start_processing_timestamp'[c] = at
        /\ \A d \in Busy : /\ current_jobs'[d] = current_jobs[d]
                           /\ start_processing_timestamp'[d] = start_processing_timestamp[d]
    BY <1>0, <2>2, <2>3 DEF SchedulerTypeOK, Busy
  <2>6. DueInTime'
    <3>1. \A d \in Busy : start_processing_timestamp'[d] <= at
      BY <1>0, <2>5 DEF ShareInv, DueInTime, SchedulerTypeOK, Busy
    <3> QED BY <1>0, <2>3, <2>4, <2>5, <3>1 DEF DueInTime
  <2>7. \A d \in Returning' \ {c} : d \in Returning /\ PutBack(d)' = PutBack(d)
    BY <2>3, <2>5 DEF Returning, PutBack
  <2>8. CASE c \notin Returning'
    <3>1. Ring' \subseteq Ring
      BY <2>4, <2>7, <2>8 DEF Ring
    <3> QED BY <1>3, <1>5, <2>6, <3>1 DEF TakingTurns, Shared, Received
  <2>9. CASE c \in Returning'
    <3> DEFINE y == PutBack(c)'
    <3>1. j.time_slice < j.remain /\ j.time_slice = TimeSlice
      BY <1>1, <2>5, <2>9 DEF Returning
    <3>2. y = [j EXCEPT !.remain = j.remain - TimeSlice, !.deadline = at + TimeSlice]
      BY <2>5, <3>1 DEF PutBack
    <3>3. j.remain - TimeSlice \in Nat
      BY <1>0, <1>1, <3>1
    <3> DEFINE left == j.remain - TimeSlice
               due == at + TimeSlice
    <3>4. /\ y \in Job /\ y.arrived = at /\ y.deadline = at + TimeSlice
          /\ y.total = total /\ y.remain = total - TimeSlice
      <4>1. j \in Job /\ left \in Nat /\ due \in Nat /\ y = [j EXCEPT !.remain = left, !.deadline = due]
        BY <1>0, <1>1, <3>2, <3>3
      <4> HIDE DEF y, left, due, j
      <4>2. /\ y \in Job /\ y.arrived = j.arrived /\ y.deadline = due
            /\ y.total = j.total /\ y.remain = left
        BY <4>1 DEF Job
      <4> QED BY <1>1, <4>2 DEF left, due
    <3> HIDE DEF y, left, due
    <3>5. Received(y) = TimeSlice
      BY <1>0, <3>4 DEF Received
    <3>6. Ring' \subseteq Ring \cup {y}
      BY <2>4, <2>7 DEF Ring, y
    <3>7. \A z \in Ring : TimeSlice <= Received(z) /\ z.deadline <= at + TimeSlice
      BY <1>4, <2>4, PutBackIsJob DEF Ring
    <3>8. NumCores = 1 => Ring = {}
      <4>1. ASSUME NumCores = 1 PROVE Busy = {}
        <5>1. Cores = {0}
          BY <4>1 DEF Cores
        <5> QED BY <2>1, <2>3, <5>1 DEF Busy
      <4> QED BY <2>4, <4>1 DEF Ring, Returning
    <3>9. \A i, k \in Ring \cup {y} : i.type = k.type /\ i.arrived < k.arrived => Shared(i, k)
      BY <1>0, <1>4, <1>5, <3>4, <3>5, <3>7, <3>8, NewcomerKeepsShares
    <3>10. \A i \in Ring \cup {y} : i.deadline = i.arrived \/ TimeSlice <= Received(i)
      BY <1>0, <1>5, <3>5
    <3>11. TakingTurns'
      BY <3>6, <3>9, <3>10 DEF TakingTurns, Shared, Received
    <3> QED BY <1>3, <2>6, <3>11
  <2> QED BY <2>8, <2>9
<1>7. CASE Wait(j)
  <2>1. queues' = queues \cup {j} /\ UNCHANGED <<current_jobs, start_processing_timestamp>>
    BY <1>7 DEF Wait
  <2>2. Busy' = Busy
    BY <2>1 DEF Busy
  <2>3. Ring' = Ring \cup {j}
    BY <2>1, <2>2 DEF Ring, Returning, PutBack
  <2>4. DueInTime'
    <3>1. \A c \in Busy : /\ start_processing_timestamp[c] \in Nat
                          /\ start_processing_timestamp[c] <= now
      BY <1>0 DEF ShareInv, DueInTime, SchedulerTypeOK, Busy
    <3> QED BY <1>0, <1>1, <1>4, <2>1, <2>2, <3>1 DEF DueInTime
  <2>5. Received(j) = 0
    BY <1>0, <1>1 DEF Received
  <2>6. \A i, k \in Ring \cup {j} : i.type = k.type /\ i.arrived < k.arrived => Shared(i, k)
    BY <1>0, <1>1, <1>4, <1>5, <2>5, NewcomerKeepsShares
  <2>7. TakingTurns'
    BY <1>1, <1>5, <2>3, <2>6 DEF TakingTurns, Shared, Received
  <2> QED BY <1>3, <2>4, <2>7
<1> QED BY <1>2, <1>6, <1>7

\* Both algorithms give out a job that is due first among those of its type.
LEMMA ChoiceIsDueFirst ==
  ASSUME SchedulerTypeOK, NEW q \in SUBSET Job, NEW x \in Choice(q)
  PROVE  x \in q /\ \A z \in q : z.type = x.type => x.deadline <= z.deadline
<1>1. x \in q
  BY ChoiceSubset
<1>2. \A z \in q : z.deadline \in Nat /\ z.type \in Int
  BY DEF Job, JobType, NumJobTypes
<1>3. CASE RoundRobin
  <2>1. \A z \in q : Turn(x.type) < Turn(z.type) \/ (x.type = z.type /\ x.deadline <= z.deadline)
    BY <1>3 DEF Choice, RoundRobinChoice
  <2>2. Turn(x.type) \in Int
    BY <1>1, <1>2 DEF Turn, SchedulerTypeOK, JobType, NumJobTypes, INVALID_JOB
  <2> QED BY <1>1, <2>1, <2>2
<1>4. CASE ~RoundRobin
  <2>1. \A z \in q : x.deadline < z.deadline \/ x.deadline = z.deadline
    BY <1>4 DEF Choice, FifoChoice
  <2> QED BY <1>1, <1>2, <2>1
<1> QED BY <1>3, <1>4

\* schedule_next_job on the event's core, for any set q that the handler may pass.
LEMMA ScheduleKeepsShares ==
  ASSUME ShareInv, NEW e \in finish_events, \A f \in finish_events : e.ts <= f.ts,
         now' = e.ts, NEW q \in SUBSET Job,
         \A z \in q : /\ z.deadline <= e.ts /\ z.remain <= z.total
                      /\ z.time_slice < z.remain => z.time_slice = TimeSlice,
         Ring = q \cup {PutBack(d) : d \in Returning \ {e.core}},
         ScheduleNextJob(e, q)
  PROVE  WholeSlices' /\ DueInTime' /\ TakingTurns'
<1> DEFINE c == e.core
<1>0. /\ c \in Busy /\ c \in Cores /\ e.ts \in Nat /\ now \in Nat /\ now <= e.ts
      /\ TimeSlice \in Nat /\ TimeSlice > 0 /\ SchedulerTypeOK /\ StationInv
  BY FinishFindsJob, StationAssumption
     DEF ShareInv, SeenInv, Chronological, StationInv, SchedulerTypeOK
<1>1. /\ Ring \in SUBSET Job
      /\ \A z \in Ring : z.remain <= z.total
      /\ \A d \in Returning : e.ts <= PutBack(d).deadline /\ PutBack(d).deadline <= e.ts + TimeSlice
  BY <1>0, RingTimes
<1>2. /\ \A z \in Ring : z.deadline = z.arrived \/ TimeSlice <= Received(z)
      /\ \A i, k \in Ring : i.type = k.type /\ i.arrived < k.arrived => Shared(i, k)
  BY DEF ShareInv, TakingTurns
<1>3. \A d \in Busy \ {c} : /\ d \in Cores /\ current_jobs[d] \in InStation
                            /\ start_processing_timestamp[d] <= e.ts
  <2>1. \A d \in Busy : /\ start_processing_timestamp[d] \in Nat
                        /\ start_processing_timestamp[d] <= now /\ d \in Cores
    BY <1>0 DEF ShareInv, DueInTime, SchedulerTypeOK, Busy
  <2> QED BY <1>0, <2>1 DEF InStation
<1>4. \A i \in InStation : /\ i.remain <= i.total
                           /\ i.time_slice < i.remain => i.time_slice = TimeSlice
  BY DEF ShareInv, WholeSlices
<1>5. CASE q # {} /\ Dispatch(e, q)
  <2>1. PICK x \in Choice(q) :
          LET k == [x EXCEPT !.time_slice = MinOf(x.remain, x.time_slice)]
          IN  /\ current_jobs' = [current_jobs EXCEPT ![c] = k]
              /\ start_processing_timestamp' = [start_processing_timestamp EXCEPT ![c] = e.ts]
              /\ queues' = q \ {x}
    BY <1>5 DEF Dispatch
  <2> DEFINE k == [x EXCEPT !.time_slice = MinOf(x.remain, x.time_slice)]
             y == PutBack(c)'
  <2>2. /\ x \in q /\ x \in Job /\ x \in Ring
        /\ \A z \in q : z.type = x.type => x.deadline <= z.deadline
    BY <1>0, ChoiceIsDueFirst
  <2>3. /\ k \in Job /\ k.type = x.type /\ k.arrived = x.arrived /\ k.total = x.total
        /\ k.remain = x.remain /\ k.remain <= k.total
        /\ k.time_slice < k.remain => k.time_slice = TimeSlice
    BY <2>2 DEF Job, MinOf
  <2>4. /\ current_jobs' = [current_jobs EXCEPT ![c] = k]
        /\ start_processing_timestamp' = [start_processing_timestamp EXCEPT ![c] = e.ts]
        /\ queues' = q \ {x}
    BY <2>1
  <2> HIDE DEF k
  <2>5. /\ Busy' = Busy
        /\ current_jobs'[c] = k /\ start_processing_timestamp'[c] = e.ts
        /\ \A d \in Busy \ {c} : /\ current_jobs'[d] = current_jobs[d]
                                 /\ start_processing_timestamp'[d] = start_processing_timestamp[d]
    BY <1>0, <1>3, <2>3, <2>4, BusyAfterPut DEF SchedulerTypeOK
  <2>6. DueInTime'
    BY <1>0, <1>3, <2>4, <2>5 DEF DueInTime
  <2>7. WholeSlices'
    <3>1. \A i \in InStation' : i \in q \/ i = k \/ i \in InStation
      BY <1>3, <2>4, <2>5 DEF InStation
    <3> QED BY <1>4, <2>3, <3>1 DEF WholeSlices
  <2>8. \A d \in Returning' \ {c} : d \in Returning /\ PutBack(d)' = PutBack(d)
    BY <2>5 DEF Returning, PutBack
  <2>9. CASE c \notin Returning'
    <3>1. Ring' \subseteq Ring
      BY <2>4, <2>8, <2>9 DEF Ring
    <3> QED BY <1>2, <2>6, <2>7, <3>1 DEF TakingTurns, Shared, Received
  <2>10. CASE c \in Returning'
    <3>1. k.time_slice < k.remain /\ k.time_slice = TimeSlice
      BY <2>3, <2>5, <2>10 DEF Returning
    <3>2. y = [k EXCEPT !.remain = k.remain - TimeSlice, !.deadline = e.ts + TimeSlice]
      BY <2>5, <3>1 DEF PutBack
    <3>3. k.remain - TimeSlice \in Nat
      BY <1>0, <2>3, <3>1 DEF Job
    <3> DEFINE left == k.remain - TimeSlice
               due == e.ts + TimeSlice
    <3>4. /\ y \in Job /\ y.type = x.type /\ y.arrived = x.arrived /\ y.total = x.total
          /\ y.remain = x.remain - TimeSlice /\ y.deadline = e.ts + TimeSlice
      <4>1. k \in Job /\ left \in Nat /\ due \in Nat /\ y = [k EXCEPT !.remain = left, !.deadline = due]
        BY <1>0, <2>3, <3>2, <3>3
      <4> HIDE DEF y, left, due, k
      <4>2. /\ y \in Job /\ y.type = k.type /\ y.arrived = k.arrived
            /\ y.total = k.total /\ y.remain = left /\ y.deadline = due
        BY <4>1 DEF Job
      <4> QED BY <2>3, <4>2 DEF left, due
    <3> HIDE DEF y, left, due
    <3>5. Ring' \subseteq Ring \cup {y}
      BY <2>4, <2>8 DEF Ring, y
    <3>6. x.deadline <= e.ts /\ x.deadline \in Nat
      BY <2>2 DEF Job
    <3>7. \A z \in Ring : z.type = x.type => x.deadline <= z.deadline
      <4>1. \A d \in Returning \ {c} : x.deadline <= PutBack(d).deadline
        BY <1>0, <1>1, <3>6, PutBackIsJob DEF Job
      <4> QED BY <2>2, <4>1
    <3>8. \A z \in Ring : z.deadline <= e.ts + TimeSlice
      <4>1. \A z \in q : z.deadline \in Nat /\ z.deadline <= e.ts
        BY DEF Job
      <4>2. \A z \in q : z.deadline <= e.ts + TimeSlice
        BY <1>0, <4>1
      <4> QED BY <1>1, <4>2
    <3>9. NumCores = 1 => \A z \in Ring : z.deadline <= e.ts
      <4>1. ASSUME NumCores = 1 PROVE Busy = {c}
        <5>1. Cores = {0}
          BY <4>1 DEF Cores
        <5> QED BY <1>0, <5>1 DEF Busy
      <4>2. ASSUME NumCores = 1 PROVE Returning \ {c} = {}
        BY <4>1, <4>2 DEF Returning
      <4> QED BY <4>2
    <3>10. \A i, z \in Ring \cup {y} : i.type = z.type /\ i.arrived < z.arrived => Shared(i, z)
      BY <1>0, <1>1, <1>2, <2>2, <3>4, <3>6, <3>7, <3>8, <3>9, TurnKeepsShares
    <3>11. TimeSlice <= Received(y)
      BY <1>0, <1>1, <2>2, <3>4 DEF Received, Job
    <3>12. TakingTurns'
      BY <1>2, <3>5, <3>10, <3>11 DEF TakingTurns, Shared, Received
    <3> QED BY <2>6, <2>7, <3>12
  <2> QED BY <2>9, <2>10
<1>6. CASE q = {} /\ GoIdle(e)
  <2>1. /\ current_jobs' = [current_jobs EXCEPT ![c] = NoJob]
        /\ queues' = {} /\ start_processing_timestamp' = start_processing_timestamp
    BY <1>6 DEF GoIdle
  <2>2. /\ Busy' = Busy \ {c}
        /\ \A d \in Busy \ {c} : current_jobs'[d] = current_jobs[d]
    BY <1>0, <2>1, BusyAfterFree DEF Busy, SchedulerTypeOK
  <2>3. DueInTime'
    BY <1>3, <2>1, <2>2 DEF DueInTime
  <2>4. WholeSlices'
    <3>1. InStation' \subseteq InStation
      BY <1>3, <2>1, <2>2 DEF InStation
    <3> QED BY <1>4, <3>1 DEF WholeSlices
  <2>5. Ring' \subseteq Ring
    <3>1. \A d \in Returning' : d \in Returning \ {c} /\ PutBack(d)' = PutBack(d)
      BY <2>1, <2>2 DEF Returning, PutBack
    <3> QED BY <2>1, <3>1 DEF Ring
  <2> QED BY <1>2, <2>3, <2>4, <2>5 DEF TakingTurns, Shared, Received
<1> QED BY <1>5, <1>6 DEF ScheduleNextJob

LEMMA FinishKeepsShares ==
  ASSUME ShareInv, NEW e \in finish_events, Finish(e)
  PROVE  WholeSlices' /\ DueInTime' /\ TakingTurns'
<1> DEFINE j == current_jobs[e.core]
<1>0. /\ StationInv /\ now' = e.ts /\ e.ts \in Nat /\ now \in Nat /\ now <= e.ts
      /\ \A f \in finish_events : e.ts <= f.ts
      /\ j \in Job /\ e.core \in Busy /\ j \in InStation /\ queues \in SUBSET Job
      /\ e.ts = start_processing_timestamp[e.core] + j.time_slice
  BY FinishFindsJob
     DEF ShareInv, SeenInv, Chronological, StationInv, OneFinishPerBusyCore, SchedulerTypeOK,
         InStation, Finish
<1>1. /\ \A z \in queues : z.deadline <= e.ts
      /\ \A z \in InStation : /\ z.remain <= z.total
                              /\ z.time_slice < z.remain => z.time_slice = TimeSlice
  BY <1>0, RingTimes DEF ShareInv, WholeSlices
<1>2. Served(e).remain = j.remain - j.time_slice /\ j.remain \in Nat /\ j.time_slice \in Nat
  BY <1>0 DEF Served, Job
<1>3. CASE Preempt(e)
  <2> DEFINE r == [Served(e) EXCEPT !.deadline = e.ts]
  <2>1. Served(e).remain > 0 /\ ScheduleNextJob(e, queues \cup {r})
    BY <1>3 DEF Preempt
  <2>2. e.core \in Returning
    BY <1>0, <1>2, <2>1 DEF Returning
  <2>3. r = PutBack(e.core)
    BY <1>0 DEF Served, PutBack, Job
  <2>4. r.time_slice = j.time_slice
    BY <1>0 DEF Served, Job
  <2> HIDE DEF r
  <2>5. /\ r \in Job /\ r.remain <= r.total /\ r.deadline = e.ts
        /\ r.time_slice < r.remain => r.time_slice = TimeSlice
    BY <1>0, <2>2, <2>3, <2>4, PutBackIsJob
  <2>6. Ring = (queues \cup {r}) \cup {PutBack(d) : d \in Returning \ {e.core}}
    BY <2>2, <2>3 DEF Ring
  <2>7. \A z \in queues \cup {r} : /\ z.deadline <= e.ts /\ z.remain <= z.total
                                   /\ z.time_slice < z.remain => z.time_slice = TimeSlice
    BY <1>0, <1>1, <2>5 DEF InStation
  <2>8. queues \cup {r} \in SUBSET Job
    BY <1>0, <2>5
  <2> QED BY <1>0, <2>1, <2>6, <2>7, <2>8, ScheduleKeepsShares
<1>4. CASE Complete(e)
  <2>1. Served(e).remain <= 0 /\ ScheduleNextJob(e, queues)
    BY <1>4 DEF Complete
  <2>2. e.core \notin Returning
    BY <1>0, <1>2, <2>1 DEF Returning
  <2>3. Ring = queues \cup {PutBack(d) : d \in Returning \ {e.core}}
    BY <2>2 DEF Ring
  <2>4. \A z \in queues : /\ z.deadline <= e.ts /\ z.remain <= z.total
                          /\ z.time_slice < z.remain => z.time_slice = TimeSlice
    BY <1>1 DEF InStation
  <2> QED BY <1>0, <2>1, <2>3, <2>4, ScheduleKeepsShares
<1> QED BY <1>3, <1>4 DEF Finish

LEMMA SharesAlways == Spec => []ShareInv
<1>1. Init => ShareInv
  <2> SUFFICES ASSUME Init PROVE ShareInv
    OBVIOUS
  <2>1. SeenInv /\ queues = {} /\ Busy = {}
    BY InitIsOutside DEF Init, Busy, NoJob
  <2> QED BY <2>1 DEF ShareInv, WholeSlices, DueInTime, TakingTurns, Ring, Returning, InStation
<1>2. ShareInv /\ [Next]_vars => ShareInv'
  <2> SUFFICES ASSUME ShareInv, [Next]_vars PROVE ShareInv'
    OBVIOUS
  <2>1. CASE ArriveStep
    <3> PICK t \in ArrivingTypes, at \in now..now + MaxGap, total \in ServiceTimes : Arrive(t, at, total)
      BY <2>1 DEF ArriveStep
    <3>1. SeenInv'
      BY ArrivePreserves, ArriveEnters DEF ShareInv, SeenInv
    <3>2. WholeSlices' /\ DueInTime' /\ TakingTurns'
      BY ArriveKeepsShares
    <3> QED BY <3>1, <3>2 DEF ShareInv
  <2>2. CASE FinishStep
    BY <2>2, FinishPreserves, FinishLeavesOrStays, FinishKeepsShares
       DEF FinishStep, ShareInv, SeenInv
  <2>3. CASE UNCHANGED vars
    <3>1. SeenInv'
      BY <2>3 DEF vars, ShareInv, SeenInv, StationInv, SchedulerTypeOK, UniqueIds, WorkConserving,
                  OneFinishPerBusyCore, NeverExits, Busy, Chronological, ArrivalOrder,
                  ServedAtOnce, InStation, ServesInOrder
    <3>2. InStation' = InStation /\ Busy' = Busy /\ Ring' = Ring
      BY <2>3 DEF vars, InStation, Busy, Ring, Returning, PutBack
    <3>3. WholeSlices' /\ DueInTime'
      BY <2>3, <3>2 DEF vars, ShareInv, WholeSlices, DueInTime
    <3>4. TakingTurns'
      BY <3>2 DEF ShareInv, TakingTurns, Shared, Received
    <3> QED BY <3>1, <3>3, <3>4 DEF ShareInv
  <2> QED BY <2>1, <2>2, <2>3 DEF Next, Quiet
<1> QED BY <1>1, <1>2, PTL DEF Spec

\* Under preemption no job that waits has had less than half the service of a
\* younger one of its type that waits, for any number of cores, service times and
\* either scheduler; a single core serves the older one first at every turn.
THEOREM AlwaysFairShare == Spec => []FairShare
<1>1. ShareInv => FairShare
  <2> SUFFICES ASSUME ShareInv, NEW j \in queues, NEW k \in queues,
                      j.type = k.type, j.arrived < k.arrived
               PROVE  /\ Received(k) <= 2 * Received(j)
                      /\ NumCores = 1 => Received(k) <= Received(j)
    BY DEF FairShare
  <2>1. Shared(j, k)
    BY DEF ShareInv, TakingTurns, Ring
  <2>2. j \in Job /\ k \in Job /\ j.remain <= j.total /\ k.remain <= k.total
    BY DEF ShareInv, WholeSlices, InStation, SeenInv, StationInv, SchedulerTypeOK
  <2>3. Received(j) \in Nat /\ Received(k) \in Nat /\ TimeSlice \in Nat
    BY <2>2, StationAssumption DEF Received, Job
  <2>4. j.deadline \in Nat /\ k.deadline \in Nat
    BY <2>2 DEF Job
  <2> QED BY <2>1, <2>3, <2>4 DEF Shared
<1> QED BY <1>1, SharesAlways, PTL

-----------------------------------------------------------------------------
(***************************************************************************)
(* Round robin: a core given away to a type that is not that of a waiting  *)
(* job brings that job's type nearer to its turn.                          *)
(***************************************************************************)

\* Giving the turn out to type x, which is tried before type t, moves t nearer:
\* the circle has five places.
LEMMA TurnComesNearer ==
  ASSUME NEW last \in -1 .. 4, NEW t \in 0 .. 4, NEW x \in 0 .. 4,
         (x - (last + 1)) % 5 < (t - (last + 1)) % 5
  PROVE  (t - x + 4) % 5 < (t - last + 4) % 5
<1>1. /\ (x - (last + 1)) % 5 = IF x > last THEN x - last - 1 ELSE x - last + 4
      /\ (t - (last + 1)) % 5 = IF t > last THEN t - last - 1 ELSE t - last + 4
      /\ (t - last + 4) % 5 = IF t > last THEN t - last - 1 ELSE t - last + 4
      /\ (t - x + 4) % 5 = IF t > x THEN t - x - 1 ELSE t - x + 4
  OBVIOUS
<1> QED BY <1>1

\* schedule_next_job, whatever set of waiting jobs the handler passes.
LEMMA ScheduleMovesTurn ==
  ASSUME SchedulerTypeOK, RoundRobin, NEW e, NEW q \in SUBSET Job, queues \subseteq q,
         ScheduleNextJob(e, q), NEW k \in queues, last_schedule_out' # k.type
  PROVE  Ahead(k.type)' < Ahead(k.type)
<1>1. q # {} /\ k \in q /\ k.type \in 0 .. 4
  BY DEF Job, JobType, NumJobTypes
<1>2. PICK x \in Choice(q) : last_schedule_out' = x.type
  BY <1>1 DEF ScheduleNextJob, Dispatch
<1>3. x \in q /\ x.type \in 0 .. 4
  BY ChoiceSubset DEF Job, JobType, NumJobTypes
<1>4. Turn(x.type) < Turn(k.type)
  BY <1>1, <1>2 DEF Choice, RoundRobinChoice
<1>5. last_schedule_out \in -1 .. 4
  BY DEF SchedulerTypeOK, JobType, NumJobTypes, INVALID_JOB
<1> QED
  BY <1>1, <1>2, <1>3, <1>4, <1>5, TurnComesNearer DEF Turn, Ahead, NumJobTypes

\* Under round robin every type with a waiting job is served or comes strictly
\* nearer to its turn each time a core is given away: with five types, none waits
\* for more than four jobs of other types.
THEOREM RoundRobinAlwaysProgresses == Spec => RoundRobinProgress
<1> DEFINE Nearer == RoundRobin /\ CoreGivenAway =>
              \A k \in queues : last_schedule_out' # k.type => Ahead(k.type)' < Ahead(k.type)
<1>1. StationInv /\ [Next]_vars => [Nearer]_vars
  <2> SUFFICES ASSUME StationInv, Next, RoundRobin, CoreGivenAway, ~ UNCHANGED vars,
                      NEW k \in queues, last_schedule_out' # k.type
               PROVE  Ahead(k.type)' < Ahead(k.type)
    OBVIOUS
  <2>1. ~ ArriveStep
    BY DEF ArriveStep, Arrive, CoreGivenAway, StationInv, SchedulerTypeOK
  <2>2. PICK e \in finish_events : Finish(e)
    BY <2>1 DEF Next, Quiet, FinishStep
  <2>3. e.core \in Cores /\ current_jobs[e.core] \in Job /\ e.ts \in Nat
    BY <2>2, FinishFindsJob
  <2>4. CASE Preempt(e)
    <3> DEFINE r == [Served(e) EXCEPT !.deadline = e.ts]
    <3>1. ScheduleNextJob(e, queues \cup {r}) /\ r \in Job
      <4>1. Served(e).remain > 0 /\ ScheduleNextJob(e, queues \cup {r})
        BY <2>4 DEF Preempt
      <4>2. current_jobs[e.core].remain - current_jobs[e.core].time_slice \in Nat
        BY <2>3, <4>1 DEF Served, Job
      <4>3. r = [current_jobs[e.core] EXCEPT
                   !.remain = current_jobs[e.core].remain - current_jobs[e.core].time_slice,
                   !.deadline = e.ts]
        BY DEF Served
      <4> QED BY <2>3, <4>1, <4>2, <4>3 DEF Job
    <3> HIDE DEF r
    <3> QED BY <3>1, ScheduleMovesTurn DEF StationInv, SchedulerTypeOK
  <2>5. CASE Complete(e)
    BY <2>5, ScheduleMovesTurn DEF Complete, StationInv, SchedulerTypeOK
  <2> QED BY <2>2, <2>4, <2>5 DEF Finish
<1> QED BY <1>1, StationInvariant, PTL DEF Spec, RoundRobinProgress

-----------------------------------------------------------------------------
(* The metrics.                                                            *)

\* The counted arrivals of type t whose jobs are still inside.
Counted(t) == {x \in Tickets : x.type = t /\ TransitionTimeLimit < x.arrived}

\* A counted arrival is one after the transient, when its type is measured.
Covered ==
  /\ \A x \in Tickets : TransitionTimeLimit < x.arrived => Started(metrics, x.type)
  /\ \A t \in JobType : metrics.A_post[t] <= metrics.C[t] + Cardinality(Counted(t))
  /\ \A t \in JobType : metrics.A[t] <= metrics.A_post[t]

\* last_update_ts is garbage only as long as no job is inside.
Timed ==
  /\ num_jobs_in_queue = 0 \/ metrics.last_update_ts <= now
  /\ \A t \in JobType : metrics.start_timestamp[t] <= now
  /\ \A t \in JobType : metrics.C[t] > 0 =>
       Started(metrics, t) /\ metrics.start_timestamp[t] <= metrics.actual_timestamp[t]

MetricsInv == SeenInv /\ metrics \in Metrics /\ Timed /\ Covered

\* The area since the last event is never negative.
LEMMA AreaType ==
  ASSUME NEW last \in Nat, NEW at \in Nat, NEW n \in Nat, n = 0 \/ last <= at
  PROVE  (at - last) * n \in Nat
<1>1. CASE n = 0
  BY <1>1
<1>2. CASE last <= at
  <2>1. at - last \in Nat
    BY <1>2
  <2> QED BY <2>1
<1> QED BY <1>1, <1>2

LEMMA TicketType ==
  ASSUME SchedulerTypeOK, NEW x \in Tickets
  PROVE  x.id \in Nat /\ x.type \in JobType /\ x.arrived \in Nat
BY InStationJobs DEF Tickets, TicketOf, Job

LEMMA TicketsFinite ==
  ASSUME StationInv
  PROVE  /\ IsFiniteSet(InStation) /\ IsFiniteSet(Tickets)
         /\ \A t : IsFiniteSet(Counted(t)) /\ Cardinality(Counted(t)) \in Nat
<1>1. IsFiniteSet({current_jobs[c] : c \in Busy})
  <2> DEFINE T == {current_jobs[c] : c \in Busy}
             f == [c \in Busy |-> current_jobs[c]]
  <2>1. f \in Surjection(Busy, T)
    BY DEF Surjection
  <2> QED BY <2>1, BusyFinite, FS_Surjection
<1>2. IsFiniteSet(InStation)
  BY <1>1, FS_Union DEF InStation, StationInv
<1>3. IsFiniteSet(Tickets)
  <2> DEFINE f == [j \in InStation |-> TicketOf(j)]
  <2>1. f \in Surjection(InStation, Tickets)
    BY DEF Surjection, Tickets
  <2> QED BY <1>2, <2>1, FS_Surjection
<1>4. \A t : Counted(t) \in SUBSET Tickets
  BY DEF Counted
<1> QED BY <1>2, <1>3, <1>4, FS_Subset, FS_CardinalityType

-----------------------------------------------------------------------------
(* ARRIVE: update_metrics.                                                 *)

LEMMA ArriveAddsTicket ==
  ASSUME SeenInv,
         NEW t \in ArrivingTypes, NEW at \in now .. now + MaxGap,
         NEW total \in ServiceTimes, Arrive(t, at, total)
  PROVE  LET x == TicketOf(NewJob(t, at, total))
         IN  /\ Tickets' = Tickets \cup {x} /\ x \notin Tickets
             /\ x.type = t /\ x.arrived = at
<1> DEFINE j == NewJob(t, at, total)
<1>1. InStation' = InStation \cup {j}
  BY ArriveEnters
<1>2. j.id = arrivals + 1 /\ j.type = t /\ j.arrived = at
  BY DEF NewJob
<1>3. arrivals \in Nat /\ \A i \in InStation : i.id <= arrivals
  BY DEF SeenInv, StationInv, SchedulerTypeOK, UniqueIds, InStation
<1>4. \A i \in InStation : i.id # arrivals + 1
  BY <1>3
<1> HIDE DEF j
<1>5. /\ Tickets' = Tickets \cup {TicketOf(j)} /\ TicketOf(j) \notin Tickets
      /\ TicketOf(j).type = t /\ TicketOf(j).arrived = at
  BY <1>1, <1>2, <1>4 DEF Tickets, TicketOf
<1> QED BY <1>5 DEF j

LEMMA ArriveKeepsMetrics ==
  ASSUME MetricsInv,
         NEW t \in ArrivingTypes, NEW at \in now .. now + MaxGap,
         NEW total \in ServiceTimes, Arrive(t, at, total), StationInv'
  PROVE  metrics' \in Metrics /\ Timed' /\ Covered'
<1> DEFINE j == NewJob(t, at, total)
           m == StartMeasuring(metrics, t, at)
<1>0. /\ StationInv /\ metrics \in Metrics /\ t \in JobType
      /\ at \in Nat /\ now \in Nat /\ now <= at /\ now' = at
      /\ num_jobs_in_queue \in Nat /\ arrivals \in Nat /\ TransitionTimeLimit \in Nat
  BY StationAssumption DEF MetricsInv, SeenInv, StationInv, SchedulerTypeOK, Arrive
<1>1. /\ metrics' = IF Started(m, t)
                    THEN [m EXCEPT !.A_post[t] = @ + 1,
                                   !.W2 = @ + Area(m, at),
                                   !.last_update_ts = at]
                    ELSE [m EXCEPT !.last_update_ts = at]
  BY DEF Arrive, UpdateMetricsOnArrival
\* Measuring starts with the first arrival of the type after the transient.
<1>2. /\ m \in Metrics
      /\ m.A_post = metrics.A_post /\ m.A = metrics.A /\ m.C = metrics.C
      /\ m.actual_timestamp = metrics.actual_timestamp
      /\ m.last_update_ts = metrics.last_update_ts
      /\ \A u \in JobType : m.start_timestamp[u] <= at
      /\ \A u \in JobType : Started(metrics, u) =>
           Started(m, u) /\ m.start_timestamp[u] = metrics.start_timestamp[u]
      /\ Started(m, t) <=> TransitionTimeLimit < at
  <2>1. \A u \in JobType : metrics.start_timestamp[u] \in Nat /\ metrics.start_timestamp[u] <= now
    BY <1>0 DEF MetricsInv, Timed, Metrics
  <2>2. CASE ~Started(metrics, t) /\ at > TransitionTimeLimit
    <3>1. m = [metrics EXCEPT !.start_timestamp[t] = at]
      BY <2>2 DEF StartMeasuring
    <3> HIDE DEF m
    <3>2. m \in Metrics
      BY <1>0, <3>1 DEF Metrics
    <3>3. \A u \in JobType : m.start_timestamp[u] = IF u = t THEN at ELSE metrics.start_timestamp[u]
      BY <1>0, <3>1 DEF Metrics
    <3>4. /\ m.A_post = metrics.A_post /\ m.A = metrics.A /\ m.C = metrics.C
          /\ m.actual_timestamp = metrics.actual_timestamp
          /\ m.last_update_ts = metrics.last_update_ts
      BY <1>0, <3>1 DEF Metrics
    <3> QED BY <1>0, <2>1, <2>2, <3>2, <3>3, <3>4 DEF Started
  <2>3. CASE ~(~Started(metrics, t) /\ at > TransitionTimeLimit)
    <3>1. m = metrics
      BY <2>3 DEF StartMeasuring
    <3> HIDE DEF m
    <3> QED BY <1>0, <2>1, <2>3, <3>1 DEF Started
  <2> QED BY <2>2, <2>3
<1> HIDE DEF m
<1>3. Area(m, at) \in Nat
  <2>1. metrics.last_update_ts \in Nat
    BY <1>0 DEF Metrics
  <2>2. num_jobs_in_queue = 0 \/ metrics.last_update_ts <= at
    BY <1>0, <2>1 DEF MetricsInv, Timed
  <2> QED BY <1>0, <1>2, <2>1, <2>2, AreaType DEF Area
<1>4. /\ metrics' \in Metrics
      /\ metrics'.start_timestamp = m.start_timestamp
      /\ metrics'.actual_timestamp = metrics.actual_timestamp
      /\ metrics'.A = metrics.A /\ metrics'.C = metrics.C
      /\ metrics'.last_update_ts = at
      /\ \A u \in JobType : metrics'.A_post[u] =
           IF u = t /\ TransitionTimeLimit < at THEN metrics.A_post[u] + 1 ELSE metrics.A_post[u]
  <2>1. CASE Started(m, t)
    <3> DEFINE area == Area(m, at)
    <3>1. metrics' = [m EXCEPT !.A_post = [m.A_post EXCEPT ![t] = @ + 1],
                               !.W2 = @ + area, !.last_update_ts = at]
      BY <1>0, <1>1, <1>2, <2>1 DEF Metrics
    <3>2. m.A_post \in [JobType -> Nat] /\ m.W2 \in Nat /\ area \in Nat
      BY <1>2, <1>3 DEF Metrics
    <3> HIDE DEF area
    <3>3. [m.A_post EXCEPT ![t] = @ + 1] \in [JobType -> Nat] /\ m.W2 + area \in Nat
      BY <1>0, <3>2
    <3>4. metrics' \in Metrics
      BY <1>0, <1>2, <3>1, <3>3 DEF Metrics
    <3>5. /\ metrics'.start_timestamp = m.start_timestamp
          /\ metrics'.actual_timestamp = m.actual_timestamp
          /\ metrics'.A = m.A /\ metrics'.C = m.C
          /\ metrics'.last_update_ts = at
          /\ metrics'.A_post = [m.A_post EXCEPT ![t] = @ + 1]
      BY <1>2, <3>1 DEF Metrics
    <3> QED BY <1>0, <1>2, <2>1, <3>2, <3>4, <3>5
  <2>2. CASE ~Started(m, t)
    BY <1>0, <1>1, <1>2, <2>2 DEF Metrics
  <2> QED BY <2>1, <2>2
<1>5. \A u \in JobType : Started(metrics', u) <=> Started(m, u)
  BY <1>4 DEF Started
<1>6. Timed'
  BY <1>0, <1>2, <1>4, <1>5 DEF MetricsInv, Timed
<1>7. /\ Tickets' = Tickets \cup {TicketOf(j)}
      /\ TicketOf(j).type = t /\ TicketOf(j).arrived = at
      /\ TicketOf(j) \notin Tickets
  BY ArriveAddsTicket DEF MetricsInv
<1> HIDE DEF j
<1>8. Covered'
  <2>1. \A x \in Tickets' : TransitionTimeLimit < x.arrived => Started(metrics', x.type)
    BY <1>0, <1>2, <1>5, <1>7, TicketType DEF MetricsInv, Covered, StationInv
  <2>2. ASSUME NEW u \in JobType
        PROVE  metrics'.A_post[u] <= metrics'.C[u] + Cardinality(Counted(u)')
    <3>1. /\ metrics.A_post[u] \in Nat /\ metrics.C[u] \in Nat /\ Cardinality(Counted(u)) \in Nat
          /\ IsFiniteSet(Counted(u))
          /\ metrics.A_post[u] <= metrics.C[u] + Cardinality(Counted(u))
      BY <1>0, TicketsFinite DEF MetricsInv, Covered, Metrics
    <3>2. CASE u = t /\ TransitionTimeLimit < at
      <4>1. Counted(u)' = Counted(u) \cup {TicketOf(j)} /\ TicketOf(j) \notin Counted(u)
        BY <1>7, <3>2 DEF Counted
      <4>2. Cardinality(Counted(u)') = Cardinality(Counted(u)) + 1
        BY <3>1, <4>1, FS_AddElement
      <4> QED BY <1>4, <3>1, <3>2, <4>2
    <3>3. CASE ~(u = t /\ TransitionTimeLimit < at)
      <4>1. Counted(u)' = Counted(u)
        BY <1>7, <3>3 DEF Counted
      <4> QED BY <1>4, <3>1, <3>3, <4>1
    <3> QED BY <3>2, <3>3
  <2>3. ASSUME NEW u \in JobType PROVE metrics'.A[u] <= metrics'.A_post[u]
    <3>1. metrics.A[u] \in Nat /\ metrics.A_post[u] \in Nat /\ metrics.A[u] <= metrics.A_post[u]
      BY <1>0 DEF MetricsInv, Covered, Metrics
    <3> QED BY <1>4, <3>1
  <2> QED BY <2>1, <2>2, <2>3 DEF Covered
<1> QED BY <1>4, <1>6, <1>8

-----------------------------------------------------------------------------
(* FINISH: a slice that ends changes no metrics; a completion is measured  *)
(* when its type is.                                                       *)

\* A job that is put back keeps its ticket; one that leaves takes it along.
LEMMA FinishTakesTicket ==
  ASSUME SeenInv, NEW e \in finish_events, Finish(e)
  PROVE  /\ TicketOf(current_jobs[e.core]) \in Tickets
         /\ Preempt(e) => Tickets' = Tickets
         /\ Complete(e) => Tickets' = Tickets \ {TicketOf(current_jobs[e.core])}
<1> DEFINE j == current_jobs[e.core]
<1>0. /\ StationInv /\ j \in Job /\ j \in InStation /\ e.core \in Busy
      /\ InStation = queues \cup {j} \cup Others(e) /\ queues \subseteq Job
      /\ \A f \in finish_events : e.ts <= f.ts
  BY FinishFindsJob, InStationByCore DEF SeenInv, StationInv, SchedulerTypeOK, Finish
<1>1. Tickets = {TicketOf(i) : i \in queues \cup {j} \cup Others(e)}
  BY <1>0 DEF Tickets
<1>2. ASSUME Preempt(e) PROVE Tickets' = Tickets
  <2> DEFINE r == [Served(e) EXCEPT !.deadline = e.ts]
  <2>1. Served(e).remain > 0 /\ ScheduleNextJob(e, queues \cup {r})
    BY <1>2 DEF Preempt
  <2>2. r \in Job /\ TicketOf(r) = TicketOf(j)
    BY <1>0, <2>1, PutBackJob
  <2> HIDE DEF r
  <2>3. Tickets' = {TicketOf(i) : i \in (queues \cup {r}) \cup Others(e)}
    BY <1>0, <2>1, <2>2, ScheduleKeepsVisits
  <2> QED BY <1>1, <2>2, <2>3
<1>3. ASSUME Complete(e) PROVE Tickets' = Tickets \ {TicketOf(j)}
  <2>1. Tickets' = {TicketOf(i) : i \in queues \cup Others(e)}
    BY <1>0, <1>3, ScheduleKeepsVisits DEF Complete
  <2>2. \A i \in queues \cup Others(e) : TicketOf(i) # TicketOf(j)
    BY <1>0 DEF StationInv, UniqueIds, Others, TicketOf
  <2> QED BY <1>1, <2>1, <2>2
<1>4. TicketOf(j) \in Tickets
  BY <1>0 DEF Tickets
<1> QED BY <1>2, <1>3, <1>4

\* The charges of a completion are natural numbers.
LEMMA CompletionType ==
  ASSUME metrics \in Metrics, NEW j \in Job, NEW at \in Nat, j.arrived <= at,
         Area(metrics, at) \in Nat
  PROVE  LET m == CompletionMetrics(metrics, j, at)
         IN  /\ m \in Metrics
             /\ m.start_timestamp = metrics.start_timestamp
             /\ m.last_update_ts = at
             /\ m.A_post = metrics.A_post
             /\ \A t \in JobType : m.C[t] = IF t = j.type THEN metrics.C[t] + 1 ELSE metrics.C[t]
             /\ \A t \in JobType : m.A[t] = IF t = j.type THEN metrics.A_post[t] ELSE metrics.A[t]
             /\ \A t \in JobType : m.actual_timestamp[t] = IF t \in Charged(j.type) THEN at ELSE metrics.actual_timestamp[t]
             /\ m.W2 = metrics.W2 + Area(metrics, at)
             /\ \A t \in JobType : m.B[t] = metrics.B[t] + IF t \in Charged(j.type) THEN j.total ELSE 0
             /\ \A t \in JobType : m.W[t] = metrics.W[t] + IF t \in Charged(j.type) THEN at - j.arrived ELSE 0
<1> DEFINE m    == CompletionMetrics(metrics, j, at)
           area == Area(metrics, at)
           B    == [t \in JobType |-> metrics.B[t] + IF t \in Charged(j.type) THEN j.total ELSE 0]
           W    == [t \in JobType |-> metrics.W[t] + IF t \in Charged(j.type) THEN at - j.arrived ELSE 0]
           C    == [metrics.C EXCEPT ![j.type] = @ + 1]
           A    == [metrics.A EXCEPT ![j.type] = metrics.A_post[j.type]]
           last == [t \in JobType |-> IF t \in Charged(j.type) THEN at ELSE metrics.actual_timestamp[t]]
<1>1. /\ j.type \in JobType /\ j.total \in Nat /\ at - j.arrived \in Nat
  BY DEF Job
<1>2. /\ metrics.A_post \in [JobType -> Nat] /\ metrics.A \in [JobType -> Nat]
      /\ metrics.B \in [JobType -> Nat] /\ metrics.C \in [JobType -> Nat]
      /\ metrics.W \in [JobType -> Nat] /\ metrics.actual_timestamp \in [JobType -> Nat]
      /\ metrics.W2 \in Nat
  BY DEF Metrics
<1>3. B \in [JobType -> Nat]
  BY <1>1, <1>2
<1>4. W \in [JobType -> Nat]
  BY <1>1, <1>2
<1>5. C \in [JobType -> Nat] /\ A \in [JobType -> Nat] /\ last \in [JobType -> Nat]
  BY <1>1, <1>2
<1>6. metrics.W2 + area \in Nat
  BY <1>2
<1>7. m = [metrics EXCEPT !.W2 = @ + area, !.C = C, !.A = A, !.B = B, !.W = W,
                          !.actual_timestamp = last, !.last_update_ts = at]
  BY <1>1, <1>2 DEF CompletionMetrics, Metrics
<1> HIDE DEF m, area, B, W
<1>8. /\ m \in Metrics
      /\ m.start_timestamp = metrics.start_timestamp
      /\ m.last_update_ts = at /\ m.A_post = metrics.A_post
      /\ m.C = C /\ m.A = A /\ m.actual_timestamp = last
      /\ m.B = B /\ m.W = W /\ m.W2 = metrics.W2 + area
  <2> HIDE DEF C, A, last
  <2> QED BY <1>3, <1>4, <1>5, <1>6, <1>7 DEF Metrics
<1> QED BY <1>1, <1>2, <1>8 DEF m, area, B, W

LEMMA FinishKeepsMetrics ==
  ASSUME MetricsInv, NEW e \in finish_events, Finish(e)
  PROVE  metrics' \in Metrics /\ Timed' /\ Covered'
<1> DEFINE j == current_jobs[e.core]
<1>0. /\ SeenInv /\ StationInv /\ metrics \in Metrics
      /\ e.ts \in Nat /\ now \in Nat /\ now <= e.ts /\ now' = e.ts
      /\ j \in Job /\ e.core \in Busy /\ j \in InStation
      /\ num_jobs_in_queue \in Nat /\ TransitionTimeLimit \in Nat
      /\ InStation = queues \cup {j} \cup Others(e) /\ queues \subseteq Job
      /\ \A f \in finish_events : e.ts <= f.ts
  BY FinishFindsJob, InStationByCore, StationAssumption
     DEF MetricsInv, SeenInv, Chronological, StationInv, SchedulerTypeOK, Finish
<1>1. \A t \in JobType :
        /\ metrics.A_post[t] \in Nat /\ metrics.C[t] \in Nat /\ metrics.A[t] \in Nat
        /\ metrics.start_timestamp[t] \in Nat /\ metrics.actual_timestamp[t] \in Nat
        /\ metrics.last_update_ts \in Nat
  BY <1>0 DEF Metrics
<1>3. CASE Preempt(e)
  <2>1. UNCHANGED <<metrics, num_jobs_in_queue>>
    BY <1>3 DEF Preempt
  <2>4. Tickets' = Tickets
    BY <1>0, <1>3, FinishTakesTicket
  <2>5. Covered'
    BY <2>1, <2>4 DEF MetricsInv, Covered, Counted, Started
  <2>6. Timed'
    <3>1. metrics.last_update_ts \in Nat
      BY <1>0 DEF Metrics
    <3>2. num_jobs_in_queue' = 0 \/ metrics'.last_update_ts <= now'
      BY <1>0, <2>1, <3>1 DEF MetricsInv, Timed
    <3>3. \A t \in JobType : metrics'.start_timestamp[t] <= now'
      BY <1>0, <1>1, <2>1 DEF MetricsInv, Timed
    <3> QED BY <2>1, <3>2, <3>3 DEF MetricsInv, Timed, Started
  <2> QED BY <1>0, <2>1, <2>5, <2>6
<1>4. CASE Complete(e)
  <2> DEFINE s == Served(e)
  <2>1. ScheduleNextJob(e, queues) /\ UpdateMetricsOnFinish(s, e.ts)
    BY <1>4 DEF Complete
  <2>2. s.type = j.type /\ s.arrived = j.arrived /\ s.total = j.total
    BY <1>0 DEF Served, Job
  <2>3. /\ j.type \in JobType /\ j.arrived \in Nat /\ j.arrived <= e.ts
        /\ TicketOf(j).type = j.type /\ TicketOf(j).arrived = j.arrived
        /\ TicketOf(j) \in Tickets
    BY <1>0 DEF Job, SeenInv, Chronological, TicketOf, Tickets
  \* The job that leaves takes its ticket with it.
  <2>4. Tickets' = Tickets \ {TicketOf(j)}
    BY <1>0, <1>4, FinishTakesTicket
  \* What the handler's update makes of the metrics.
  <2>5. /\ metrics' \in Metrics
        /\ metrics'.start_timestamp = metrics.start_timestamp
        /\ metrics'.last_update_ts = e.ts
        /\ metrics'.A_post = metrics.A_post
        /\ \A t \in JobType :
             \/ /\ t = j.type /\ Started(metrics, t)
                /\ metrics'.C[t] = metrics.C[t] + 1
                /\ metrics'.A[t] = metrics.A_post[t]
                /\ metrics'.actual_timestamp[t] = e.ts
             \/ /\ ~(t = j.type /\ Started(metrics, t))
                /\ metrics'.C[t] = metrics.C[t]
                /\ metrics'.A[t] = metrics.A[t]
                /\ metrics'.actual_timestamp[t] \in {metrics.actual_timestamp[t], e.ts}
    <3>1. CASE Started(metrics, j.type)
      <4>1. metrics' = CompletionMetrics(metrics, s, e.ts)
        BY <2>1, <2>2, <3>1 DEF UpdateMetricsOnFinish
      <4>2. CompletionMetrics(metrics, s, e.ts) = CompletionMetrics(metrics, j, e.ts)
        BY <2>2 DEF CompletionMetrics
      <4>3. Area(metrics, e.ts) \in Nat
        <5>1. num_jobs_in_queue = 0 \/ metrics.last_update_ts <= e.ts
          BY <1>0, <1>1, <2>3 DEF MetricsInv, Timed
        <5> QED BY <1>0, <1>1, <2>3, <5>1, AreaType DEF Area
      <4> DEFINE m == CompletionMetrics(metrics, j, e.ts)
      <4>4. /\ m \in Metrics
            /\ m.start_timestamp = metrics.start_timestamp
            /\ m.last_update_ts = e.ts
            /\ m.A_post = metrics.A_post
            /\ \A t \in JobType : m.C[t] = IF t = j.type THEN metrics.C[t] + 1 ELSE metrics.C[t]
            /\ \A t \in JobType : m.A[t] = IF t = j.type THEN metrics.A_post[t] ELSE metrics.A[t]
            /\ \A t \in JobType : m.actual_timestamp[t] =
                 IF t \in Charged(j.type) THEN e.ts ELSE metrics.actual_timestamp[t]
        BY <1>0, <2>3, <4>3, CompletionType
      <4>5. metrics' = m
        BY <4>1, <4>2
      <4>6. j.type \in Charged(j.type)
        BY DEF Charged
      <4> HIDE DEF m
      <4> QED BY <3>1, <4>4, <4>5, <4>6
    <3>2. CASE ~Started(metrics, j.type)
      <4>1. metrics' = [metrics EXCEPT !.last_update_ts = e.ts]
        BY <2>1, <2>2, <3>2 DEF UpdateMetricsOnFinish
      <4> QED BY <1>0, <3>2, <4>1 DEF Metrics
    <3> QED BY <3>1, <3>2
  <2> HIDE DEF j, s
  <2>6. \A t : Started(metrics', t) <=> Started(metrics, t)
    BY <2>5 DEF Started
  <2>7. Timed'
    <3>1. metrics'.last_update_ts <= now'
      BY <1>0, <2>5
    <3>2. \A t \in JobType : metrics'.start_timestamp[t] <= now'
      BY <1>0, <1>1, <2>5 DEF MetricsInv, Timed
    <3>3. ASSUME NEW t \in JobType, metrics'.C[t] > 0
          PROVE  Started(metrics', t) /\ metrics'.start_timestamp[t] <= metrics'.actual_timestamp[t]
      <4>1. metrics.start_timestamp[t] <= e.ts
        BY <1>0, <1>1 DEF MetricsInv, Timed
      <4>2. metrics.C[t] > 0 \/ (Started(metrics, t) /\ metrics'.actual_timestamp[t] = e.ts)
        BY <1>1, <2>5, <3>3
      <4>3. metrics.C[t] > 0 => Started(metrics, t) /\ metrics.start_timestamp[t] <= metrics.actual_timestamp[t]
        BY DEF MetricsInv, Timed
      <4>4. metrics'.actual_timestamp[t] \in {metrics.actual_timestamp[t], e.ts}
        BY <2>5
      <4> QED BY <2>5, <2>6, <4>1, <4>2, <4>3, <4>4
    <3> QED BY <3>1, <3>2, <3>3 DEF Timed
  <2>8. Covered'
    <3>1. \A x \in Tickets' : TransitionTimeLimit < x.arrived => Started(metrics', x.type)
      BY <2>4, <2>6 DEF MetricsInv, Covered
    <3>2. ASSUME NEW t \in JobType
          PROVE  metrics'.A_post[t] <= metrics'.C[t] + Cardinality(Counted(t)')
      <4>1. /\ Cardinality(Counted(t)) \in Nat /\ IsFiniteSet(Counted(t))
            /\ metrics.A_post[t] <= metrics.C[t] + Cardinality(Counted(t))
        BY <1>0, TicketsFinite DEF MetricsInv, Covered
      <4>2. CASE TicketOf(j) \in Counted(t)
        <5>1. t = j.type /\ Started(metrics, t)
          BY <2>3, <4>2 DEF MetricsInv, Covered, Counted
        <5>2. Counted(t)' = Counted(t) \ {TicketOf(j)}
          BY <2>4 DEF Counted
        <5>3. Cardinality(Counted(t)') = Cardinality(Counted(t)) - 1
          BY <4>1, <4>2, <5>2, FS_RemoveElement
        <5>4. metrics'.C[t] = metrics.C[t] + 1 /\ metrics'.A_post[t] = metrics.A_post[t]
          BY <2>5, <5>1
        <5> QED BY <1>1, <4>1, <5>3, <5>4
      <4>3. CASE TicketOf(j) \notin Counted(t)
        <5>1. Counted(t)' = Counted(t)
          BY <2>4, <4>3 DEF Counted
        <5>2. /\ metrics'.C[t] \in {metrics.C[t], metrics.C[t] + 1}
              /\ metrics'.A_post[t] = metrics.A_post[t]
          BY <2>5
        <5> QED BY <1>1, <4>1, <5>1, <5>2
      <4> QED BY <4>2, <4>3
    <3>3. ASSUME NEW t \in JobType PROVE metrics'.A[t] <= metrics'.A_post[t]
      <4>1. metrics.A[t] <= metrics.A_post[t]
        BY DEF MetricsInv, Covered
      <4>2. metrics'.A[t] \in {metrics.A[t], metrics.A_post[t]} /\ metrics'.A_post[t] = metrics.A_post[t]
        BY <2>5
      <4> QED BY <1>1, <4>1, <4>2
    <3> QED BY <3>1, <3>2, <3>3 DEF Covered
  <2> QED BY <2>5, <2>7, <2>8
<1> QED BY <1>3, <1>4 DEF Finish

-----------------------------------------------------------------------------
(* The theorems.                                                           *)

LEMMA InitMeasures == Init => MetricsInv
<1> SUFFICES ASSUME Init PROVE MetricsInv
  OBVIOUS
<1>1. PICK stale \in StaleTimestamps :
        metrics = [start_timestamp |-> ZeroPerType, actual_timestamp |-> ZeroPerType,
                   A_post |-> ZeroPerType, A |-> ZeroPerType, C |-> ZeroPerType,
                   B |-> ZeroPerType, W |-> ZeroPerType, W2 |-> 0,
                   last_update_ts |-> stale]
  BY DEF Init, InitMetrics
<1>2. SeenInv
  BY InitIsOutside
<1>3. metrics \in Metrics
  BY <1>1, StationAssumption DEF Metrics, ZeroPerType
<1>4. Tickets = {} /\ num_jobs_in_queue = 0 /\ now \in Nat
  BY StationAssumption DEF Init, Tickets, InStation, Busy, NoJob
<1>5. Timed
  BY <1>1, <1>4 DEF Timed, ZeroPerType
<1>6. Covered
  <2>1. \A t : Counted(t) = {} /\ Cardinality(Counted(t)) = 0
    BY <1>4, FS_EmptySet DEF Counted
  <2> QED BY <1>1, <1>4, <2>1 DEF Covered, ZeroPerType
<1> QED BY <1>2, <1>3, <1>5, <1>6 DEF MetricsInv

LEMMA NextMeasures == MetricsInv /\ [Next]_vars => MetricsInv'
<1> SUFFICES ASSUME MetricsInv, [Next]_vars PROVE MetricsInv'
  OBVIOUS
<1>1. CASE ArriveStep
  BY <1>1, ArrivePreserves, ArriveEnters, ArriveKeepsMetrics
     DEF ArriveStep, MetricsInv, SeenInv
<1>2. CASE FinishStep
  BY <1>2, FinishPreserves, FinishLeavesOrStays, FinishKeepsMetrics
     DEF FinishStep, MetricsInv, SeenInv
<1>3. CASE UNCHANGED vars
  BY <1>3 DEF vars, MetricsInv, SeenInv, StationInv, SchedulerTypeOK, UniqueIds, WorkConserving,
              OneFinishPerBusyCore, NeverExits, Busy, Chronological, ArrivalOrder,
              ServedAtOnce, InStation, ServesInOrder, Timed, Covered, Counted, Tickets, Started
<1> QED BY <1>1, <1>2, <1>3 DEF Next, Quiet

\* The metrics and the jobs inside always agree as MetricsInv says.
THEOREM MetricsInvariant == Spec => []MetricsInv
BY InitMeasures, NextMeasures, PTL DEF Spec

\* Nothing a station holds ever leaves its type: no counter becomes negative, and
\* the value that malloc leaves in last_update_ts is multiplied by zero jobs.
THEOREM TypeAlwaysOK == Spec => []TypeOK
<1>1. MetricsInv => TypeOK
  BY DEF MetricsInv, SeenInv, StationInv, TypeOK
<1> QED BY <1>1, MetricsInvariant, PTL

\* An arrival that was counted is counted again as a completion when its job
\* leaves, wherever in the transient the measurement of its type began.
THEOREM ArrivalsAlwaysCovered == Spec => []CompletionsCoverArrivals
<1>1. MetricsInv => CompletionsCoverArrivals
  <2> SUFFICES ASSUME MetricsInv, NEW t \in JobType
      PROVE  LET counted == {j \in InStation : j.type = t /\ j.arrived > TransitionTimeLimit}
             IN  /\ metrics.A_post[t] - Cardinality(counted) <= metrics.C[t]
                 /\ metrics.A[t] <= metrics.A_post[t]
                 /\ metrics.C[t] > 0 => metrics.start_timestamp[t] <= metrics.actual_timestamp[t]
    BY DEF CompletionsCoverArrivals
  <2> DEFINE counted == {j \in InStation : j.type = t /\ j.arrived > TransitionTimeLimit}
             f == [j \in counted |-> TicketOf(j)]
  <2>0. StationInv /\ InStation \subseteq Job /\ TransitionTimeLimit \in Nat
    BY InStationJobs, StationAssumption DEF MetricsInv, SeenInv, StationInv
  <2>1. IsFiniteSet(counted) /\ Cardinality(counted) \in Nat
    BY <2>0, TicketsFinite, FS_Subset, FS_CardinalityType
  \* A job has one ticket and a ticket one job.
  <2>2. f \in Surjection(counted, Counted(t))
    <3>1. \A j \in InStation : j.arrived > TransitionTimeLimit <=> TransitionTimeLimit < j.arrived
      BY <2>0 DEF Job
    <3> QED BY <3>1 DEF Surjection, Counted, Tickets, TicketOf
  <2>3. f \in Injection(counted, Counted(t))
    <3>1. \A j, k \in InStation : j.id = k.id => j = k
      BY <2>0 DEF StationInv, UniqueIds, InStation
    <3>2. \A j, k \in counted : f[j] = f[k] => j = k
      BY <3>1 DEF TicketOf
    <3> QED BY <2>2, <3>2 DEF Surjection, Injection, IsInjective
  <2>4. Cardinality(Counted(t)) = Cardinality(counted)
    BY <2>1, <2>2, <2>3, FS_Surjection
  <2>5. metrics.A_post[t] \in Nat /\ metrics.C[t] \in Nat
    BY DEF MetricsInv, Metrics
  <2> HIDE DEF counted
  <2>6. metrics.A_post[t] - Cardinality(counted) <= metrics.C[t]
    BY <2>1, <2>4, <2>5 DEF MetricsInv, Covered
  <2> QED BY <2>6 DEF MetricsInv, Covered, Timed, counted
<1> QED BY <1>1, MetricsInvariant, PTL

-----------------------------------------------------------------------------
(* Operational laws: what a step adds to the counters is what it adds to   *)
(* the time and service of the jobs inside.                                *)

TimeInside(T, ts) == SumFunctionOnSet([x \in T |-> ts - x.arrived], T)

\* The service that the jobs of q have had, and that those on the cores of C have
\* had if the time is ts.
Given(q)    == SumFunctionOnSet([j \in q |-> Received(j)], q)
Used(C, ts) == SumFunctionOnSet(
                 [c \in C |-> Received(current_jobs[c]) + ts - start_processing_timestamp[c]], C)

Entered ==
  /\ Cardinality(Tickets) = num_jobs_in_queue
  /\ \A x \in Tickets : StartTime <= x.arrived
  /\ StartTime <= now

\* What the area has in excess of the times spent inside, over tickets.
Balance == metrics.W2 - TotalOnce(metrics.W) - TimeInside(Tickets, metrics.last_update_ts)

\* Every core has given no more service than it has existed.
UtilisationLaw ==
  TotalOnce(metrics.B) + (Given(queues) + Used(Busy, now)) <= NumCores * (now - StartTime)

LawsInv == Entered /\ UtilisationLaw

\* Inside, time passes for all alike.
LEMMA TimePasses ==
  ASSUME StationInv, NEW last \in Nat, NEW at \in Nat
  PROVE  /\ TimeInside(Tickets, at) = TimeInside(Tickets, last) + (at - last) * Cardinality(Tickets)
         /\ TimeInside(Tickets, at) \in Int /\ TimeInside(Tickets, last) \in Int
         /\ Cardinality(Tickets) \in Nat
<1> DEFINE f(ts) == [x \in Tickets |-> ts - x.arrived]
<1>1. IsFiniteSet(Tickets) /\ at - last \in Int /\ Cardinality(Tickets) \in Nat
  BY TicketsFinite, FS_CardinalityType
<1>2. \A x \in Tickets : x.arrived \in Nat
  BY TicketType DEF StationInv
<1>3. \A x \in Tickets : f(last)[x] \in Int /\ f(at)[x] \in Int /\ f(at)[x] = f(last)[x] + (at - last)
  BY <1>2
<1> HIDE DEF f
<1>4. SumFunctionOnSet(f(at), Tickets) = SumFunctionOnSet(f(last), Tickets) + (at - last) * Cardinality(Tickets)
  BY <1>1, <1>3, SumRaised
<1>5. SumFunctionOnSet(f(at), Tickets) \in Int /\ SumFunctionOnSet(f(last), Tickets) \in Int
  BY <1>1, <1>3, SumType
<1> QED BY <1>1, <1>4, <1>5 DEF TimeInside, f

\* A ticket that is added or taken away now adds or takes away its own time.
LEMMA TimeOfOne ==
  ASSUME NEW T, IsFiniteSet(T), NEW x, x \notin T, NEW at \in Nat,
         \A y \in T \cup {x} : y.arrived \in Nat
  PROVE  /\ TimeInside(T \cup {x}, at) = TimeInside(T, at) + (at - x.arrived)
         /\ TimeInside(T, at) \in Int
<1> DEFINE g == [y \in T \cup {x} |-> at - y.arrived]
           f == [y \in T |-> at - y.arrived]
<1>1. /\ \A y \in T : f[y] \in Int /\ g[y] = f[y]
      /\ g[x] = at - x.arrived /\ g[x] \in Int
  OBVIOUS
<1>2. TimeInside(T \cup {x}, at) = SumFunctionOnSet(g, T \cup {x}) /\ TimeInside(T, at) = SumFunctionOnSet(f, T)
  BY DEF TimeInside
<1> HIDE DEF f, g
<1>3. SumFunctionOnSet(g, T \cup {x}) = g[x] + SumFunctionOnSet(f, T) /\ SumFunctionOnSet(f, T) \in Int
  BY <1>1, SumExtended, SumType
<1> QED BY <1>1, <1>2, <1>3

LEMMA ArriveCounts ==
  ASSUME MetricsInv,
         NEW t \in ArrivingTypes, NEW at \in now .. now + MaxGap,
         NEW total \in ServiceTimes, Arrive(t, at, total)
  PROVE  /\ metrics'.B = metrics.B /\ metrics'.W = metrics.W
         /\ metrics'.last_update_ts = at
         /\ TransitionTimeLimit < at =>
              metrics'.W2 = metrics.W2 + (at - metrics.last_update_ts) * num_jobs_in_queue
<1> DEFINE m == StartMeasuring(metrics, t, at)
<1>0. metrics \in Metrics /\ t \in JobType /\ at \in Nat /\ TransitionTimeLimit \in Nat
  BY StationAssumption DEF MetricsInv, SeenInv, StationInv, SchedulerTypeOK
<1>1. metrics' = IF Started(m, t)
                 THEN [m EXCEPT !.A_post[t] = @ + 1, !.W2 = @ + Area(m, at), !.last_update_ts = at]
                 ELSE [m EXCEPT !.last_update_ts = at]
  BY DEF Arrive, UpdateMetricsOnArrival
<1>2. /\ m \in Metrics /\ m.B = metrics.B /\ m.W = metrics.W /\ m.W2 = metrics.W2
      /\ m.last_update_ts = metrics.last_update_ts
      /\ TransitionTimeLimit < at => Started(m, t)
  <2>1. metrics.start_timestamp[t] \in Nat
    BY <1>0 DEF Metrics
  <2>2. CASE ~Started(metrics, t) /\ at > TransitionTimeLimit
    <3>1. m = [metrics EXCEPT !.start_timestamp[t] = at]
      BY <2>2 DEF StartMeasuring
    <3> HIDE DEF m
    <3>2. m.start_timestamp[t] = at
      BY <1>0, <3>1 DEF Metrics
    <3> QED BY <1>0, <2>2, <3>1, <3>2 DEF Metrics, Started
  <2>3. CASE ~(~Started(metrics, t) /\ at > TransitionTimeLimit)
    <3>1. m = metrics
      BY <2>3 DEF StartMeasuring
    <3> HIDE DEF m
    <3> QED BY <1>0, <2>1, <2>3, <3>1 DEF Started
  <2> QED BY <2>2, <2>3
<1> DEFINE area == Area(m, at)
<1>3. area = (at - metrics.last_update_ts) * num_jobs_in_queue
  BY <1>2 DEF Area
<1>4. metrics' = IF Started(m, t)
                 THEN [m EXCEPT !.A_post = [m.A_post EXCEPT ![t] = @ + 1],
                                !.W2 = @ + area, !.last_update_ts = at]
                 ELSE [m EXCEPT !.last_update_ts = at]
  BY <1>0, <1>1, <1>2 DEF Metrics
<1> HIDE DEF m, area
<1>5. /\ metrics'.B = m.B /\ metrics'.W = m.W /\ metrics'.last_update_ts = at
      /\ Started(m, t) => metrics'.W2 = m.W2 + area
  BY <1>2, <1>4 DEF Metrics
<1> QED BY <1>2, <1>3, <1>5

LEMMA ArriveObeysLaws ==
  ASSUME MetricsInv, ShareInv, LawsInv, StationInv',
         NEW t \in ArrivingTypes, NEW at \in now .. now + MaxGap,
         NEW total \in ServiceTimes, Arrive(t, at, total)
  PROVE  Entered' /\ (TransitionTimeLimit < now' => Balance' = Balance)
<1> DEFINE x == TicketOf(NewJob(t, at, total))
           n == num_jobs_in_queue
           last == metrics.last_update_ts
<1>0. /\ SeenInv /\ StationInv /\ metrics \in Metrics /\ last \in Nat /\ n \in Nat
      /\ at \in Nat /\ now \in Nat /\ now <= at /\ now' = at /\ n' = n + 1
      /\ StartTime \in Nat /\ TransitionTimeLimit \in Nat /\ StartTime <= now
      /\ Cardinality(Tickets) = n /\ IsFiniteSet(Tickets)
  BY StationAssumption, TicketsFinite
     DEF MetricsInv, SeenInv, StationInv, SchedulerTypeOK, Arrive, UpdateMetricsOnArrival,
         LawsInv, Entered, Metrics
<1>1. /\ Tickets' = Tickets \cup {x} /\ x \notin Tickets /\ x.arrived = at
      /\ \A y \in Tickets \cup {x} : y.arrived \in Nat
  BY <1>0, ArriveAddsTicket, TicketType DEF StationInv
<1> HIDE DEF x
<1>2. Entered'
  <2>1. Cardinality(Tickets') = n'
    BY <1>0, <1>1, FS_AddElement
  <2>2. \A y \in Tickets' : StartTime <= y.arrived
    BY <1>0, <1>1 DEF LawsInv, Entered
  <2> QED BY <1>0, <2>1, <2>2 DEF Entered
<1>3. ASSUME TransitionTimeLimit < now'
      PROVE  Balance' = Balance
  <2> DEFINE area == (at - last) * n
  <2>1. /\ metrics'.W = metrics.W /\ metrics'.last_update_ts = at
        /\ metrics'.W2 = metrics.W2 + area
    BY <1>0, <1>3, ArriveCounts
  <2>2. Balance' = metrics'.W2 - TotalOnce(metrics'.W) - TimeInside(Tickets', metrics'.last_update_ts)
    BY DEF Balance, TotalOnce, TimeInside
  <2>3. /\ TimeInside(Tickets, at) = TimeInside(Tickets, last) + area
        /\ TimeInside(Tickets, at) \in Int /\ TimeInside(Tickets, last) \in Int
    BY <1>0, TimePasses
  <2>4. TimeInside(Tickets', at) = TimeInside(Tickets, at) + (at - at)
    BY <1>0, <1>1, TimeOfOne
  <2>5. TotalOnce(metrics.W) \in Int /\ area \in Int /\ metrics.W2 \in Int
    BY <1>0 DEF Metrics, TotalOnce, JobType, NumJobTypes, TELEMETRY, TRANSITION, COMMAND, BATCH_DATA
  <2> HIDE DEF area
  <2> QED BY <1>0, <2>1, <2>2, <2>3, <2>4, <2>5 DEF Balance
<1> QED BY <1>2, <1>3

\* The same for service.
LEMMA GivenOfOne ==
  ASSUME NEW q, IsFiniteSet(q), NEW j, j \notin q, q \cup {j} \in SUBSET Job
  PROVE  /\ Given(q \cup {j}) = Given(q) + Received(j)
         /\ Given(q) \in Int /\ Received(j) \in Int
<1> DEFINE g == [i \in q \cup {j} |-> Received(i)]
           f == [i \in q |-> Received(i)]
<1>0. \A i \in q \cup {j} : Received(i) \in Int
  BY DEF Received, Job
<1>1. /\ \A i \in q : f[i] \in Int /\ g[i] = f[i]
      /\ g[j] = Received(j) /\ g[j] \in Int
  BY <1>0
<1>2. Given(q \cup {j}) = SumFunctionOnSet(g, q \cup {j}) /\ Given(q) = SumFunctionOnSet(f, q)
  BY DEF Given
<1> HIDE DEF f, g
<1>3. SumFunctionOnSet(g, q \cup {j}) = g[j] + SumFunctionOnSet(f, q) /\ SumFunctionOnSet(f, q) \in Int
  BY <1>1, SumExtended, SumType
<1> QED BY <1>1, <1>2, <1>3

\* A core on which the service of its job is counted up to ts.
Use(c, ts) == Received(current_jobs[c]) + ts - start_processing_timestamp[c]

LEMMA UseType ==
  ASSUME StationInv, NEW ts \in Nat
  PROVE  \A c \in Busy : Use(c, ts) \in Int
<1>1. \A c \in Busy : /\ current_jobs[c].total \in Nat /\ current_jobs[c].remain \in Nat
                      /\ start_processing_timestamp[c] \in Nat
  BY BusyHoldsJob DEF StationInv, SchedulerTypeOK, Job
<1> QED BY <1>1 DEF Use, Received

LEMMA UsedType ==
  ASSUME StationInv, NEW ts \in Nat
  PROVE  Used(Busy, ts) \in Int
<1> DEFINE f == [c \in Busy |-> Received(current_jobs[c]) + ts - start_processing_timestamp[c]]
<1>1. \A c \in Busy : f[c] \in Int
  BY UseType DEF Use
<1> HIDE DEF f
<1>2. SumFunctionOnSet(f, Busy) \in Int
  BY <1>1, BusyFinite, SumType
<1> QED BY <1>2 DEF Used, f

LEMMA UsedWithout ==
  ASSUME StationInv, NEW c \in Busy, NEW ts \in Nat
  PROVE  /\ Used(Busy, ts) = Use(c, ts) + Used(Busy \ {c}, ts)
         /\ Used(Busy \ {c}, ts) \in Int /\ Use(c, ts) \in Int
<1> DEFINE g == [d \in Busy |-> Received(current_jobs[d]) + ts - start_processing_timestamp[d]]
           f == [d \in Busy \ {c} |-> Received(current_jobs[d]) + ts - start_processing_timestamp[d]]
           S == Busy \ {c}
<1>1. /\ \A d \in S : f[d] \in Int /\ g[d] = f[d]
      /\ g[c] = Use(c, ts) /\ g[c] \in Int
  BY UseType DEF Use
<1>2. Used(Busy, ts) = SumFunctionOnSet(g, Busy) /\ Used(S, ts) = SumFunctionOnSet(f, S)
  BY DEF Used
<1>3. IsFiniteSet(S) /\ c \notin S /\ Busy = S \cup {c}
  BY BusyFinite, FS_RemoveElement
<1> HIDE DEF f, g, S
<1>4. SumFunctionOnSet(g, S \cup {c}) = g[c] + SumFunctionOnSet(f, S) /\ SumFunctionOnSet(f, S) \in Int
  BY <1>1, <1>3, SumExtended, SumType
<1>5. Used(Busy, ts) = Use(c, ts) + Used(S, ts) /\ Used(S, ts) \in Int /\ Use(c, ts) \in Int
  BY <1>1, <1>2, <1>3, <1>4
<1> QED BY <1>5 DEF S

\* While time passes every busy core gives service, and there are at most NumCores.
LEMMA CoresGive ==
  ASSUME StationInv, NEW at \in Nat, now <= at, StartTime <= now,
         NEW total \in Int, total + Used(Busy, now) <= NumCores * (now - StartTime)
  PROVE  /\ total + Used(Busy, at) <= NumCores * (at - StartTime)
         /\ Used(Busy, at) \in Int
<1> DEFINE f == [c \in Busy |-> Received(current_jobs[c]) + now - start_processing_timestamp[c]]
           g == [c \in Busy |-> Received(current_jobs[c]) + at - start_processing_timestamp[c]]
           d == at - now
           n == Cardinality(Busy)
<1>0. /\ now \in Nat /\ StartTime \in Nat /\ NumCores \in Nat /\ d \in Nat
      /\ IsFiniteSet(Busy) /\ n \in Nat /\ n <= NumCores
  BY StationAssumption, BusyFinite, FS_CardinalityType DEF StationInv, SchedulerTypeOK
<1>1. \A c \in Busy : f[c] \in Int /\ g[c] = f[c] + d
  <2>1. \A c \in Busy : Received(current_jobs[c]) \in Int /\ start_processing_timestamp[c] \in Nat
    BY BusyHoldsJob DEF StationInv, SchedulerTypeOK, Received, Job
  <2> QED BY <1>0, <2>1
<1>2. Used(Busy, now) = SumFunctionOnSet(f, Busy) /\ Used(Busy, at) = SumFunctionOnSet(g, Busy)
  BY DEF Used
<1>3. NumCores * (at - StartTime) = NumCores * (now - StartTime) + NumCores * d
  BY <1>0
<1>4. d * n <= NumCores * d /\ d * n \in Int /\ NumCores * d \in Int /\ NumCores * (now - StartTime) \in Int
  <2>1. \A a, b, k \in Nat : a <= b => k * a <= b * k
    OBVIOUS
  <2> HIDE DEF d, n
  <2> QED BY <1>0, <2>1
<1>5. d \in Int
  BY <1>0
<1> HIDE DEF f, g, d
<1>6. SumFunctionOnSet(g, Busy) = SumFunctionOnSet(f, Busy) + d * n /\ SumFunctionOnSet(f, Busy) \in Int
  BY <1>0, <1>1, <1>5, SumRaised, SumType
<1> QED BY <1>2, <1>3, <1>4, <1>6

LEMMA ArriveObeysUtilisation ==
  ASSUME MetricsInv, ShareInv, LawsInv, StationInv',
         NEW t \in ArrivingTypes, NEW at \in now .. now + MaxGap,
         NEW total \in ServiceTimes, Arrive(t, at, total)
  PROVE  UtilisationLaw'
<1> DEFINE j == NewJob(t, at, total)
           charged == TotalOnce(metrics.B) + Given(queues)
<1>0. /\ SeenInv /\ StationInv /\ SchedulerTypeOK /\ metrics \in Metrics
      /\ at \in Nat /\ now \in Nat /\ now <= at /\ now' = at /\ StartTime <= now
      /\ IsFiniteSet(queues) /\ queues \in SUBSET Job
      /\ OnFreeCore(j, at) \/ Wait(j)
  BY StationAssumption
     DEF MetricsInv, SeenInv, StationInv, SchedulerTypeOK, Arrive, LawsInv, Entered
<1>1. j \in Job /\ j.id = arrivals + 1 /\ Received(j) = 0
  <2>1. j \in Job /\ j.id = arrivals + 1
    BY <1>0, NewJobType
  <2>2. j.total = total /\ j.remain = total
    BY DEF NewJob
  <2> HIDE DEF j
  <2> QED BY <2>1, <2>2 DEF Received, Job
<1>2. j \notin queues
  <2>1. arrivals \in Nat /\ \A i \in queues : i.id <= arrivals
    BY <1>0 DEF StationInv, UniqueIds, SchedulerTypeOK
  <2> HIDE DEF j
  <2> QED BY <1>1, <2>1
<1> HIDE DEF j
<1>3. TotalOnce(metrics.B) \in Int /\ metrics'.B = metrics.B
  BY <1>0, ArriveCounts
     DEF Metrics, TotalOnce, JobType, NumJobTypes, TELEMETRY, TRANSITION, COMMAND, BATCH_DATA
<1>4. Given(queues) \in Int /\ Given(queues \cup {j}) = Given(queues)
  BY <1>0, <1>1, <1>2, GivenOfOne
<1>5. charged + Used(Busy, at) <= NumCores * (at - StartTime) /\ Used(Busy, at) \in Int
  <2>1. charged \in Int /\ charged + Used(Busy, now) <= NumCores * (now - StartTime)
    BY <1>0, <1>3, <1>4, UsedType DEF LawsInv, UtilisationLaw
  <2> HIDE DEF charged
  <2> QED BY <1>0, <2>1, CoresGive
<1>6. CASE OnFreeCore(j, at)
  <2>0. num_running_jobs < NumCores /\ queues' = queues
    BY <1>6 DEF OnFreeCore
  <2>1. PICK c \in Cores : FreeCore(c) /\ PutOnCore(c, j, at)
    <3>1. Busy # Cores
      BY <1>0, <2>0, CoresFinite, StationAssumption DEF StationInv, SchedulerTypeOK
    <3> QED BY <1>6, <3>1, FreeCoreExists DEF OnFreeCore
  <2>2. /\ current_jobs' = [current_jobs EXCEPT ![c] = j]
        /\ start_processing_timestamp' = [start_processing_timestamp EXCEPT ![c] = at]
    BY <2>1 DEF PutOnCore
  <2>3. Busy' = Busy \cup {c} /\ c \notin Busy /\ Busy \subseteq Cores
    BY <1>0, <1>1, <2>1, <2>2, BusyAfterPut DEF FreeCore, Busy
  <2> DEFINE f == [d \in Busy |-> Received(current_jobs[d]) + at - start_processing_timestamp[d]]
             g == [d \in Busy \cup {c} |-> Received(current_jobs'[d]) + at - start_processing_timestamp'[d]]
  <2>4. \A d \in Busy : f[d] \in Int
    BY <1>0, UseType DEF Use
  <2>5. /\ current_jobs'[c] = j /\ start_processing_timestamp'[c] = at
        /\ \A d \in Busy : /\ current_jobs'[d] = current_jobs[d]
                           /\ start_processing_timestamp'[d] = start_processing_timestamp[d]
    BY <1>0, <2>2, <2>3 DEF SchedulerTypeOK
  <2>6. \A d \in Busy : g[d] = f[d]
    BY <2>5
  <2>7. g[c] = 0
    BY <1>0, <1>1, <2>5
  <2>8. Used(Busy, at) = SumFunctionOnSet(f, Busy) /\ Used(Busy, now)' = SumFunctionOnSet(g, Busy \cup {c})
    BY <1>0, <2>3 DEF Used, Received
  <2> HIDE DEF f, g
  <2>9. SumFunctionOnSet(g, Busy \cup {c}) = g[c] + SumFunctionOnSet(f, Busy)
    <3>1. g[c] \in Int /\ IsFiniteSet(Busy) /\ c \notin Busy
      BY <2>3, <2>7, BusyFinite
    <3> QED BY ONLY <2>4, <2>6, <3>1, SumExtended
  <2>10. Used(Busy, now)' = Used(Busy, at)
    BY <1>5, <2>7, <2>8, <2>9
  <2>11. Given(queues)' = Given(queues)
    BY <2>0 DEF Given, Received
  <2>12. TotalOnce(metrics'.B) + (Given(queues)' + Used(Busy, now)') <= NumCores * (at - StartTime)
    BY <1>3, <1>4, <1>5, <2>10, <2>11
  <2> QED BY <1>0, <2>12 DEF UtilisationLaw, TotalOnce
<1>7. CASE Wait(j)
  <2>1. queues' = queues \cup {j} /\ UNCHANGED <<current_jobs, start_processing_timestamp>>
    BY <1>7 DEF Wait
  <2>2. Busy' = Busy
    BY <2>1 DEF Busy
  <2>3. Used(Busy, now)' = Used(Busy, at)
    BY <1>0, <2>1, <2>2 DEF Used, Received
  <2>4. Given(queues)' = Given(queues)
    <3>1. Given(queues)' = Given(queues \cup {j})
      BY <2>1 DEF Given, Received
    <3> QED BY <1>4, <3>1
  <2>5. TotalOnce(metrics'.B) + (Given(queues)' + Used(Busy, now)') <= NumCores * (at - StartTime)
    BY <1>3, <1>4, <1>5, <2>3, <2>4
  <2> QED BY <1>0, <2>5 DEF UtilisationLaw, TotalOnce
<1> QED BY <1>0, <1>6, <1>7

\* What a completion adds, counting REPLY's share of TRANSITION once.
LEMMA CompleteCounts ==
  ASSUME MetricsInv, NEW e \in finish_events, Finish(e), Complete(e)
  PROVE  LET j == current_jobs[e.core]
         IN  /\ metrics'.last_update_ts = e.ts
             /\ Started(metrics, j.type) =>
                  /\ metrics'.W2 = metrics.W2 + (e.ts - metrics.last_update_ts) * num_jobs_in_queue
                  /\ TotalOnce(metrics'.W) = TotalOnce(metrics.W) + (e.ts - j.arrived)
                  /\ TotalOnce(metrics'.B) = TotalOnce(metrics.B) + j.total
             /\ ~Started(metrics, j.type) =>
                  metrics'.W2 = metrics.W2 /\ metrics'.W = metrics.W /\ metrics'.B = metrics.B
<1> DEFINE j == current_jobs[e.core]
<1>0. /\ metrics \in Metrics /\ j \in Job /\ j \in InStation /\ e.ts \in Nat /\ now \in Nat
      /\ num_jobs_in_queue \in Nat /\ now <= e.ts
  BY FinishFindsJob, InStationByCore
     DEF MetricsInv, SeenInv, Chronological, StationInv, SchedulerTypeOK
<1>1. /\ j.type \in JobType /\ j.arrived \in Nat /\ j.arrived <= e.ts /\ j.total \in Nat
      /\ Served(e).type = j.type /\ Served(e).arrived = j.arrived /\ Served(e).total = j.total
  BY <1>0 DEF Job, MetricsInv, SeenInv, Chronological, Served
<1>2. UpdateMetricsOnFinish(Served(e), e.ts)
  BY DEF Complete
<1>3. CASE Started(metrics, j.type)
  <2> DEFINE m == CompletionMetrics(metrics, j, e.ts)
  <2>1. metrics' = CompletionMetrics(metrics, Served(e), e.ts)
    BY <1>1, <1>2, <1>3 DEF UpdateMetricsOnFinish
  <2>2. metrics' = m
    BY <1>1, <2>1 DEF CompletionMetrics
  <2>3. Area(metrics, e.ts) \in Nat
    <3>1. metrics.last_update_ts \in Nat
      BY <1>0 DEF Metrics
    <3>2. num_jobs_in_queue = 0 \/ metrics.last_update_ts <= e.ts
      BY <1>0, <3>1 DEF MetricsInv, Timed
    <3> QED BY <1>0, <3>1, <3>2, AreaType DEF Area
  <2>4. /\ m \in Metrics /\ m.last_update_ts = e.ts
        /\ m.W2 = metrics.W2 + Area(metrics, e.ts)
        /\ \A t \in JobType : m.B[t] = metrics.B[t] + IF t \in Charged(j.type) THEN j.total ELSE 0
        /\ \A t \in JobType : m.W[t] = metrics.W[t] + IF t \in Charged(j.type) THEN e.ts - j.arrived ELSE 0
    BY <1>0, <1>1, <2>3, CompletionType
  <2> HIDE DEF m, j
  <2>5. ASSUME NEW f, NEW g \in [JobType -> Nat], NEW d \in Nat,
               \A t \in JobType : f[t] = g[t] + IF t \in Charged(j.type) THEN d ELSE 0
        PROVE  TotalOnce(f) = TotalOnce(g) + d
    <3>1. j.type \in 0..4
      BY <1>1 DEF JobType, NumJobTypes
    <3>2. \A t \in 0..4 : g[t] \in Nat /\ f[t] = g[t] + IF t \in Charged(j.type) THEN d ELSE 0
      BY <2>5 DEF JobType, NumJobTypes
    <3> QED BY <3>1, <3>2 DEF TotalOnce, Charged, TELEMETRY, TRANSITION, COMMAND, BATCH_DATA, REPLY
  <2>6. metrics.B \in [JobType -> Nat] /\ metrics.W \in [JobType -> Nat] /\ e.ts - j.arrived \in Nat
    BY <1>0, <1>1 DEF Metrics
  <2>7. TotalOnce(m.W) = TotalOnce(metrics.W) + (e.ts - j.arrived)
    BY <2>4, <2>5, <2>6
  <2>8. TotalOnce(m.B) = TotalOnce(metrics.B) + j.total
    BY <1>1, <2>4, <2>5, <2>6
  <2>9. m.W2 = metrics.W2 + (e.ts - metrics.last_update_ts) * num_jobs_in_queue
    BY <2>4 DEF Area
  <2> QED BY <1>3, <2>2, <2>4, <2>7, <2>8, <2>9 DEF j
<1>4. CASE ~Started(metrics, j.type)
  <2>1. metrics' = [metrics EXCEPT !.last_update_ts = e.ts]
    BY <1>1, <1>2, <1>4 DEF UpdateMetricsOnFinish
  <2> HIDE DEF j
  <2>2. /\ metrics'.last_update_ts = e.ts /\ metrics'.W2 = metrics.W2
        /\ metrics'.W = metrics.W /\ metrics'.B = metrics.B
    BY <1>0, <2>1 DEF Metrics
  <2> QED BY <1>4, <2>2 DEF j
<1> QED BY <1>3, <1>4

\* A job whose ticket is taken away is not inside any more.
LEMMA LeaverGone ==
  ASSUME StationInv, NEW j \in InStation, Tickets' = Tickets \ {TicketOf(j)}
  PROVE  \A k \in InStation' : k.id # j.id
<1>1. SUFFICES ASSUME NEW k \in InStation', k.id = j.id PROVE FALSE
  OBVIOUS
<1>2. TicketOf(k) \in Tickets /\ TicketOf(k) # TicketOf(j)
  BY <1>1 DEF Tickets, TicketOf
<1>3. PICK i \in InStation : TicketOf(i) = TicketOf(k)
  BY <1>2 DEF Tickets
<1>4. i.id = j.id
  BY <1>1, <1>3 DEF TicketOf
<1>5. i = j
  BY <1>4 DEF StationInv, UniqueIds, InStation
<1> QED BY <1>2, <1>3, <1>5

LEMMA FinishObeysLaws ==
  ASSUME MetricsInv, ShareInv, LawsInv, NEW e \in finish_events, Finish(e)
  PROVE  Entered' /\ (LeaversMeasured => Balance' = Balance)
<1> DEFINE j == current_jobs[e.core]
           x == TicketOf(j)
           n == num_jobs_in_queue
           last == metrics.last_update_ts
           at == e.ts
<1>0. /\ SeenInv /\ StationInv /\ metrics \in Metrics /\ last \in Nat /\ n \in Nat
      /\ at \in Nat /\ now \in Nat /\ now <= at /\ now' = at
      /\ StartTime \in Nat /\ TransitionTimeLimit \in Nat /\ StartTime <= now
      /\ Cardinality(Tickets) = n /\ IsFiniteSet(Tickets)
      /\ j \in Job /\ j \in InStation /\ x \in Tickets
  BY StationAssumption, TicketsFinite, FinishFindsJob, FinishTakesTicket, InStationByCore
     DEF MetricsInv, SeenInv, Chronological, StationInv, SchedulerTypeOK, Finish,
         LawsInv, Entered, Metrics
<1>1. /\ x.arrived = j.arrived /\ x.type = j.type /\ j.arrived \in Nat
      /\ StartTime <= j.arrived
      /\ \A y \in Tickets : y.arrived \in Nat /\ StartTime <= y.arrived
  BY <1>0, TicketType DEF TicketOf, StationInv, LawsInv, Entered
<1> HIDE DEF x
<1>2. CASE Preempt(e)
  <2>1. Tickets' = Tickets /\ UNCHANGED <<metrics, num_jobs_in_queue>>
    BY <1>0, <1>2, FinishTakesTicket DEF Preempt
  <2>2. Entered'
    BY <1>0, <2>1 DEF LawsInv, Entered
  <2>3. Balance' = Balance
    BY <2>1 DEF Balance, TotalOnce, TimeInside
  <2> QED BY <2>2, <2>3
<1>3. CASE Complete(e)
  <2>0. Tickets' = Tickets \ {x} /\ n' = n - 1
    BY <1>0, <1>3, FinishTakesTicket DEF Complete, UpdateMetricsOnFinish, x
  <2>1. Entered'
    <3>1. Cardinality(Tickets') = n'
      BY <1>0, <2>0, FS_RemoveElement
    <3> QED BY <1>0, <1>1, <2>0, <3>1 DEF Entered
  <2>2. ASSUME LeaversMeasured
        PROVE  Balance' = Balance
    <3> DEFINE area == (at - last) * n
    <3>1. Started(metrics, j.type)
      <4>1. \A k \in InStation' : k.id # j.id
        BY <1>0, <2>0, LeaverGone DEF x
      <4> QED BY <1>0, <2>2, <4>1 DEF LeaversMeasured
    <3>2. /\ metrics'.last_update_ts = at
          /\ metrics'.W2 = metrics.W2 + area
          /\ TotalOnce(metrics'.W) = TotalOnce(metrics.W) + (at - j.arrived)
      BY <1>3, <3>1, CompleteCounts
    <3>3. Balance' = metrics'.W2 - TotalOnce(metrics'.W) - TimeInside(Tickets', metrics'.last_update_ts)
      BY DEF Balance, TotalOnce, TimeInside
    <3>4. /\ TimeInside(Tickets, at) = TimeInside(Tickets, last) + area
          /\ TimeInside(Tickets, at) \in Int /\ TimeInside(Tickets, last) \in Int
      BY <1>0, TimePasses
    <3>5. /\ TimeInside(Tickets, at) = TimeInside(Tickets \ {x}, at) + (at - j.arrived)
          /\ TimeInside(Tickets \ {x}, at) \in Int
      <4> DEFINE T == Tickets \ {x}
      <4>1. IsFiniteSet(T) /\ x \notin T /\ T \cup {x} = Tickets
        BY <1>0, FS_RemoveElement
      <4>2. \A y \in T \cup {x} : y.arrived \in Nat
        BY <1>1, <4>1
      <4> HIDE DEF T
      <4>3. TimeInside(T \cup {x}, at) = TimeInside(T, at) + (at - x.arrived) /\ TimeInside(T, at) \in Int
        BY <1>0, <4>1, <4>2, TimeOfOne
      <4> QED BY <1>1, <4>1, <4>3 DEF T
    <3>6. TotalOnce(metrics.W) \in Int /\ area \in Int /\ metrics.W2 \in Int
      BY <1>0 DEF Metrics, TotalOnce, JobType, NumJobTypes, TELEMETRY, TRANSITION, COMMAND, BATCH_DATA
    <3>7. Balance = metrics.W2 - TotalOnce(metrics.W) - TimeInside(Tickets, last)
      BY DEF Balance
    <3>8. at \in Int /\ j.arrived \in Int
      BY <1>0, <1>1
    <3>9. Balance' = (metrics.W2 + area) - (TotalOnce(metrics.W) + (at - j.arrived))
                       - TimeInside(Tickets \ {x}, at)
      BY <2>0, <3>2, <3>3
    <3> DEFINE inside == TimeInside(Tickets \ {x}, at)
               before == TimeInside(Tickets, last)
               after  == TimeInside(Tickets, at)
               spent  == TotalOnce(metrics.W)
               seen   == metrics.W2
    <3> HIDE DEF area, j, inside, before, after, spent, seen
    <3> QED BY <3>4, <3>5, <3>6, <3>7, <3>8, <3>9 DEF inside, before, after, spent, seen
  <2> QED BY <2>1, <2>2
<1> QED BY <1>2, <1>3 DEF Finish

\* schedule_next_job hands a job with all the service it has had to the core.
LEMMA ScheduleKeepsService ==
  ASSUME StationInv, NEW e \in finish_events, now' = e.ts,
         NEW q \in SUBSET Job, IsFiniteSet(q), ScheduleNextJob(e, q)
  PROVE  Given(queues)' + Used(Busy, now)' = Given(q) + Used(Busy \ {e.core}, e.ts)
<1> DEFINE c == e.core
           at == e.ts
           C == Busy \ {c}
           f == [d \in C |-> Received(current_jobs[d]) + at - start_processing_timestamp[d]]
<1>0. /\ c \in Busy /\ c \in Cores /\ at \in Nat /\ SchedulerTypeOK /\ IsFiniteSet(C)
      /\ Busy = C \cup {c} /\ c \notin C
  BY FinishFindsJob, BusyFinite, FS_RemoveElement DEF StationInv
<1>1. \A d \in C : f[d] \in Int
  BY <1>0, UseType DEF Use
<1>2. Used(C, at) = SumFunctionOnSet(f, C)
  BY DEF Used
<1>3. Given(q) \in Int /\ SumFunctionOnSet(f, C) \in Int
  <2>1. \A j \in q : Received(j) \in Int
    BY DEF Received, Job
  <2> DEFINE r == [j \in q |-> Received(j)]
  <2>2. \A j \in q : r[j] \in Int
    BY <2>1
  <2> HIDE DEF r, f
  <2>3. SumFunctionOnSet(r, q) \in Int
    BY <2>2, SumType
  <2>4. SumFunctionOnSet(f, C) \in Int
    BY <1>0, <1>1, SumType
  <2> QED BY <2>3, <2>4 DEF Given, r
<1>4. CASE q # {} /\ Dispatch(e, q)
  <2>1. PICK j \in Choice(q) :
          LET k == [j EXCEPT !.time_slice = MinOf(j.remain, j.time_slice)]
          IN  /\ current_jobs' = [current_jobs EXCEPT ![c] = k]
              /\ start_processing_timestamp' = [start_processing_timestamp EXCEPT ![c] = at]
              /\ queues' = q \ {j}
    BY <1>4 DEF Dispatch
  <2> DEFINE k == [j EXCEPT !.time_slice = MinOf(j.remain, j.time_slice)]
             g == [d \in C \cup {c} |-> Received(current_jobs'[d]) + at - start_processing_timestamp'[d]]
             p == q \ {j}
  <2>2. j \in q /\ j \in Job
    BY ChoiceSubset
  <2>3. k \in Job /\ Received(k) = Received(j) /\ Received(k) \in Int
    BY <2>2, SliceType DEF Job, Received
  <2>4. /\ current_jobs' = [current_jobs EXCEPT ![c] = k]
        /\ start_processing_timestamp' = [start_processing_timestamp EXCEPT ![c] = at]
        /\ queues' = p
    BY <2>1
  <2> HIDE DEF k
  <2>5. Busy' = C \cup {c}
    BY <1>0, <2>3, <2>4, BusyAfterPut DEF Busy, SchedulerTypeOK
  <2>6. /\ current_jobs'[c] = k /\ start_processing_timestamp'[c] = at
        /\ \A d \in C : /\ current_jobs'[d] = current_jobs[d]
                        /\ start_processing_timestamp'[d] = start_processing_timestamp[d]
    BY <1>0, <2>4 DEF SchedulerTypeOK, Busy
  <2>7. g[c] = Received(j) /\ g[c] \in Int
    BY <1>0, <2>3, <2>6
  <2>8. \A d \in C : g[d] = f[d]
    BY <2>6
  <2>9. Used(Busy, now)' = SumFunctionOnSet(g, C \cup {c})
    BY <2>5 DEF Used, Received
  <2> HIDE DEF f, g, C
  <2>10. SumFunctionOnSet(g, C \cup {c}) = g[c] + SumFunctionOnSet(f, C)
    BY ONLY <1>0, <1>1, <2>7, <2>8, SumExtended
  <2>11. Given(q) = Given(p) + Received(j) /\ Given(p) \in Int
    <3>1. IsFiniteSet(p) /\ j \notin p /\ p \cup {j} = q
      BY <2>2, FS_RemoveElement
    <3> HIDE DEF p
    <3> QED BY <3>1, GivenOfOne
  <2>12. Given(queues)' = Given(p)
    BY <2>4 DEF Given, Received
  <2> HIDE DEF p
  <2>13. Given(queues)' + Used(Busy, now)' = Given(q) + Used(C, at)
    BY <1>2, <1>3, <2>3, <2>7, <2>9, <2>10, <2>11, <2>12
  <2> QED BY <2>13 DEF C
<1>5. CASE q = {} /\ GoIdle(e)
  <2>1. /\ current_jobs' = [current_jobs EXCEPT ![c] = NoJob]
        /\ queues' = {} /\ UNCHANGED start_processing_timestamp
    BY <1>5 DEF GoIdle
  <2>2. Busy' = C /\ \A d \in C : current_jobs'[d] = current_jobs[d]
    BY <1>0, <2>1, BusyAfterFree DEF Busy, SchedulerTypeOK
  <2>3. Used(Busy, now)' = SumFunctionOnSet(f, C)
    BY <2>1, <2>2 DEF Used, Received
  <2>4. Given(queues)' = Given(q)
    BY <1>5, <2>1 DEF Given, Received
  <2> QED BY <1>2, <2>3, <2>4
<1> QED BY <1>4, <1>5 DEF ScheduleNextJob

LEMMA FinishObeysUtilisation ==
  ASSUME MetricsInv, ShareInv, LawsInv, NEW e \in finish_events, Finish(e)
  PROVE  UtilisationLaw'
<1> DEFINE j == current_jobs[e.core]
           c == e.core
           at == e.ts
           C == Busy \ {c}
           charged == TotalOnce(metrics.B) + Given(queues)
<1>0. /\ SeenInv /\ StationInv /\ SchedulerTypeOK /\ metrics \in Metrics
      /\ at \in Nat /\ now \in Nat /\ now <= at /\ now' = at /\ StartTime <= now
      /\ IsFiniteSet(queues) /\ queues \in SUBSET Job /\ j \in Job /\ c \in Busy
      /\ at = start_processing_timestamp[c] + j.time_slice
      /\ start_processing_timestamp[c] \in Nat
  BY StationAssumption, FinishFindsJob
     DEF MetricsInv, SeenInv, Chronological, StationInv, SchedulerTypeOK, OneFinishPerBusyCore,
         Finish, LawsInv, Entered
<1>1. /\ j.total \in Nat /\ j.remain \in Nat /\ j.time_slice \in Nat
      /\ Use(c, at) = j.total - j.remain + j.time_slice
  BY <1>0 DEF Job, Use, Received
<1>2. TotalOnce(metrics.B) \in Int /\ Given(queues) \in Int
  <2>1. TotalOnce(metrics.B) \in Int
    BY <1>0
       DEF Metrics, TotalOnce, JobType, NumJobTypes, TELEMETRY, TRANSITION, COMMAND, BATCH_DATA
  <2> DEFINE r == [i \in queues |-> Received(i)]
  <2>2. \A i \in queues : r[i] \in Int
    BY <1>0 DEF Received, Job
  <2> HIDE DEF r
  <2>3. SumFunctionOnSet(r, queues) \in Int
    BY <1>0, <2>2, SumType
  <2> QED BY <2>1, <2>3 DEF Given, r
<1>3. /\ charged + Use(c, at) + Used(C, at) <= NumCores * (at - StartTime)
      /\ Used(C, at) \in Int /\ NumCores * (at - StartTime) \in Int
  <2>1. charged \in Int /\ charged + Used(Busy, now) <= NumCores * (now - StartTime)
    BY <1>0, <1>2, UsedType DEF LawsInv, UtilisationLaw
  <2> HIDE DEF charged
  <2>2. charged + Used(Busy, at) <= NumCores * (at - StartTime)
    BY <1>0, <2>1, CoresGive
  <2>3. Used(Busy, at) = Use(c, at) + Used(C, at) /\ Used(C, at) \in Int /\ Use(c, at) \in Int
    BY <1>0, UsedWithout
  <2>4. NumCores * (at - StartTime) \in Int
    BY <1>0, StationAssumption
  <2> QED BY <2>1, <2>2, <2>3, <2>4
<1> HIDE DEF C
\* The service of the slice goes with the job, or into the busy time.
<1>4. CASE Preempt(e)
  <2> DEFINE r == [Served(e) EXCEPT !.deadline = e.ts]
  <2>1. Served(e).remain > 0 /\ ScheduleNextJob(e, queues \cup {r}) /\ metrics' = metrics
    BY <1>4 DEF Preempt
  <2>2. r \in Job /\ TicketOf(r) = TicketOf(j)
    BY <1>0, <2>1, PutBackJob
  <2>3. r.total = j.total /\ r.remain = j.remain - j.time_slice
    BY <1>0 DEF Served, Job
  <2> HIDE DEF r
  <2>4. r \notin queues
    <3>1. r.id = j.id
      BY <2>2 DEF TicketOf
    <3>2. \A i \in queues : i.id # j.id
      BY <1>0 DEF StationInv, UniqueIds
    <3> QED BY <3>1, <3>2
  <2>5. IsFiniteSet(queues \cup {r}) /\ queues \cup {r} \in SUBSET Job
    BY <1>0, <2>2, FS_AddElement
  <2>6. Given(queues \cup {r}) = Given(queues) + Received(r)
    BY <1>0, <2>4, <2>5, GivenOfOne
  <2>7. Received(r) = Use(c, at)
    BY <1>1, <2>3 DEF Received
  <2>8. Given(queues)' + Used(Busy, now)' = Given(queues \cup {r}) + Used(C, at)
    BY <1>0, <2>1, <2>5, ScheduleKeepsService DEF C
  <2>9. TotalOnce(metrics'.B) + (Given(queues)' + Used(Busy, now)') <= NumCores * (at - StartTime)
    BY <1>1, <1>2, <1>3, <2>1, <2>6, <2>7, <2>8
  <2> QED BY <1>0, <2>9 DEF UtilisationLaw, TotalOnce
<1>5. CASE Complete(e)
  <2>1. Served(e).remain <= 0 /\ ScheduleNextJob(e, queues)
    BY <1>5 DEF Complete
  <2>2. j.remain <= j.time_slice
    BY <1>0, <1>1, <2>1 DEF Served, Job
  <2>3. \/ TotalOnce(metrics'.B) = TotalOnce(metrics.B) + j.total
        \/ TotalOnce(metrics'.B) = TotalOnce(metrics.B)
    BY <1>5, CompleteCounts
  <2>4. Given(queues)' + Used(Busy, now)' = Given(queues) + Used(C, at)
    BY <1>0, <2>1, ScheduleKeepsService DEF C
  <2>5. TotalOnce(metrics'.B) + (Given(queues)' + Used(Busy, now)') <= NumCores * (at - StartTime)
    BY <1>1, <1>2, <1>3, <2>2, <2>3, <2>4
  <2> QED BY <1>0, <2>5 DEF UtilisationLaw, TotalOnce
<1> QED BY <1>4, <1>5 DEF Finish

LEMMA LawsHoldAtFirst == Init => LawsInv
<1> SUFFICES ASSUME Init PROVE LawsInv
  OBVIOUS
<1>1. PICK stale \in StaleTimestamps :
        metrics = [start_timestamp |-> ZeroPerType, actual_timestamp |-> ZeroPerType,
                   A_post |-> ZeroPerType, A |-> ZeroPerType, C |-> ZeroPerType,
                   B |-> ZeroPerType, W |-> ZeroPerType, W2 |-> 0,
                   last_update_ts |-> stale]
  BY DEF Init, InitMetrics
<1>2. /\ Tickets = {} /\ Busy = {} /\ queues = {} /\ num_jobs_in_queue = 0
      /\ now = StartTime /\ StartTime \in Nat /\ NumCores \in Nat
  BY StationAssumption DEF Init, Tickets, InStation, Busy, NoJob
<1>3. Entered
  BY <1>2, FS_EmptySet DEF Entered
<1>4. metrics.W2 = 0 /\ TotalOnce(metrics.W) = 0 /\ TotalOnce(metrics.B) = 0
  BY <1>1 DEF TotalOnce, ZeroPerType, JobType, NumJobTypes, TELEMETRY, TRANSITION, COMMAND, BATCH_DATA
<1>5. UtilisationLaw
  <2>1. Given(queues) = 0 /\ Used(Busy, now) = 0
    BY <1>2, SumEmpty DEF Given, Used
  <2>2. NumCores * (now - StartTime) = 0
    BY <1>2
  <2> QED BY <1>4, <2>1, <2>2 DEF UtilisationLaw
<1> QED BY <1>3, <1>5 DEF LawsInv

LEMMA NextObeysLaws ==
  MetricsInv /\ MetricsInv' /\ ShareInv /\ LawsInv /\ [Next]_vars => LawsInv'
<1> SUFFICES ASSUME MetricsInv, MetricsInv', ShareInv, LawsInv, [Next]_vars PROVE LawsInv'
  OBVIOUS
<1>0. StationInv'
  BY DEF MetricsInv, SeenInv
<1>1. CASE ArriveStep
  BY <1>0, <1>1, ArriveObeysLaws, ArriveObeysUtilisation DEF ArriveStep, LawsInv
<1>2. CASE FinishStep
  BY <1>2, FinishObeysLaws, FinishObeysUtilisation DEF FinishStep, LawsInv
<1>3. CASE UNCHANGED vars
  BY <1>3 DEF vars, LawsInv, Entered, UtilisationLaw, TotalOnce, Given, Used,
              Tickets, TicketOf, InStation, Busy, Received
<1> QED BY <1>1, <1>2, <1>3 DEF Next, Quiet

\* The balance over the jobs inside is the one over their tickets.
LEMMA BalanceByTickets ==
  StationInv /\ metrics \in Metrics => AreaBalance = Balance
<1> SUFFICES ASSUME StationInv, metrics \in Metrics PROVE AreaBalance = Balance
  OBVIOUS
<1> DEFINE f == [j \in InStation |-> metrics.last_update_ts - j.arrived]
           g == [x \in Tickets |-> metrics.last_update_ts - x.arrived]
           h == [j \in InStation |-> TicketOf(j)]
<1>0. /\ metrics.last_update_ts \in Nat
      /\ IsFiniteSet(InStation) /\ InStation \subseteq Job
  BY TicketsFinite, InStationJobs DEF Metrics, StationInv, SchedulerTypeOK
<1>1. \A j \in InStation : j.arrived \in Nat /\ TicketOf(j).arrived = j.arrived /\ TicketOf(j) \in Tickets
  BY <1>0 DEF Job, TicketOf, Tickets
<1>2. \A j \in InStation : f[j] \in Int /\ g[h[j]] = f[j]
  BY <1>0, <1>1
<1>3. \A j, k \in InStation : h[j] = h[k] => j = k
  <2>1. \A j, k \in InStation : j.id = k.id => j = k
    BY DEF StationInv, UniqueIds, InStation
  <2> QED BY <2>1 DEF TicketOf
<1>4. {h[j] : j \in InStation} = Tickets
  BY DEF Tickets
<1>5. DOMAIN f = InStation
  OBVIOUS
<1>6. TimeInside(Tickets, metrics.last_update_ts) = SumFunctionOnSet(g, Tickets)
  BY DEF TimeInside
<1>7. AreaBalance = metrics.W2 - TotalOnce(metrics.W) - SumFunction(f)
  BY DEF AreaBalance
<1> HIDE DEF f, g, h
<1>8. SumFunctionOnSet(f, InStation) = SumFunctionOnSet(g, {h[j] : j \in InStation})
  BY <1>0, <1>2, <1>3, SumRenamed
<1>9. SumFunction(f) = TimeInside(Tickets, metrics.last_update_ts)
  BY <1>4, <1>5, <1>6, <1>8 DEF SumFunction
<1> QED BY <1>7, <1>9 DEF Balance

\* After the transient a step whose leavers are measured keeps the balance.
LEMMA StepsKeepBalance ==
  MetricsInv /\ MetricsInv' /\ ShareInv /\ LawsInv /\ [Next]_vars =>
    (now' > TransitionTimeLimit /\ LeaversMeasured => AreaBalance' = AreaBalance)
<1> SUFFICES ASSUME MetricsInv, MetricsInv', ShareInv, LawsInv, [Next]_vars,
                    now' > TransitionTimeLimit, LeaversMeasured
             PROVE  AreaBalance' = AreaBalance
  OBVIOUS
<1>0. /\ StationInv /\ metrics \in Metrics /\ StationInv' /\ metrics' \in Metrics
      /\ now' \in Nat /\ TransitionTimeLimit \in Nat
  BY StationAssumption DEF MetricsInv, SeenInv, StationInv, SchedulerTypeOK
<1>1. AreaBalance = Balance
  BY <1>0, BalanceByTickets
<1>2. AreaBalance' = Balance'
  <2>1. (StationInv /\ metrics \in Metrics => AreaBalance = Balance)'
    BY BalanceByTickets, PTL
  <2> QED BY <1>0, <2>1
<1>3. CASE ArriveStep
  <2>1. TransitionTimeLimit < now'
    BY <1>0
  <2> QED BY <1>0, <1>1, <1>2, <1>3, <2>1, ArriveObeysLaws DEF ArriveStep
<1>4. CASE FinishStep
  BY <1>1, <1>2, <1>4, FinishObeysLaws DEF FinishStep
<1>5. CASE UNCHANGED vars
  BY <1>5 DEF vars, AreaBalance, TotalOnce, InStation, Busy
<1> QED BY <1>3, <1>4, <1>5 DEF Next, Quiet

\* After the transient the area under the number of jobs inside grows by what the
\* times that jobs spend inside grow by, as long as the jobs that leave are of
\* measured types, and no core is ever accounted busy for longer than it has
\* existed: for any number of cores, either scheduler, with and without
\* preemption, wherever the transient ends.
THEOREM LawsAlwaysHold == Spec => OperationalLaws
<1>1. MetricsInv /\ ShareInv /\ LawsInv => TotalOnce(metrics.B) <= NumCores * (now - StartTime)
  <2> SUFFICES ASSUME MetricsInv, ShareInv, LawsInv
               PROVE  TotalOnce(metrics.B) <= NumCores * (now - StartTime)
    OBVIOUS
  <2> DEFINE r == [j \in queues |-> Received(j)]
             f == [c \in Busy |-> Received(current_jobs[c]) + now - start_processing_timestamp[c]]
  <2>0. /\ StationInv /\ metrics \in Metrics
        /\ now \in Nat /\ IsFiniteSet(queues)
        /\ InStation \subseteq Job /\ queues \subseteq InStation
        /\ \A c \in Busy : current_jobs[c] \in InStation
    BY InStationJobs DEF MetricsInv, SeenInv, StationInv, SchedulerTypeOK, InStation
  <2>1. \A j \in InStation : Received(j) \in Nat
    BY <2>0 DEF ShareInv, WholeSlices, Received, Job
  <2>2. \A j \in queues : r[j] \in Nat
    BY <2>0, <2>1
  <2>3. \A c \in Busy : f[c] \in Nat
    <3>1. \A c \in Busy : start_processing_timestamp[c] \in Nat /\ start_processing_timestamp[c] <= now
      BY <2>0 DEF ShareInv, DueInTime, StationInv, SchedulerTypeOK, Busy
    <3> QED BY <2>0, <2>1, <3>1
  <2> HIDE DEF r, f
  <2>4. SumFunctionOnSet(r, queues) \in Nat /\ SumFunctionOnSet(f, Busy) \in Nat
    BY <2>0, <2>2, <2>3, BusyFinite, SumNat
  <2>5. Given(queues) \in Nat /\ Used(Busy, now) \in Nat
    BY <2>4 DEF Given, Used, r, f
  <2>6. TotalOnce(metrics.B) \in Int /\ NumCores * (now - StartTime) \in Int
    BY <2>0, StationAssumption
       DEF Metrics, TotalOnce, JobType, NumJobTypes, TELEMETRY, TRANSITION, COMMAND, BATCH_DATA
  <2> QED BY <2>5, <2>6 DEF LawsInv, UtilisationLaw
<1>2. MetricsInv /\ MetricsInv' /\ ShareInv /\ LawsInv /\ [Next]_vars =>
        [now' > TransitionTimeLimit /\ LeaversMeasured => AreaBalance' = AreaBalance]_vars
  BY StepsKeepBalance
<1>3. Spec => []LawsInv
  BY LawsHoldAtFirst, NextObeysLaws, MetricsInvariant, SharesAlways, PTL DEF Spec
<1> QED BY <1>1, <1>2, <1>3, MetricsInvariant, SharesAlways, PTL DEF Spec, OperationalLaws, LittlesLaw

=============================================================================
