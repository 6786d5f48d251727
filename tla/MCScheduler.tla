---------------------------- MODULE MCScheduler ----------------------------
(* Instances of Scheduler for TLC. *)
EXTENDS SchedulerOfStation

REAL_TIME == 0
BATCH     == 2

Queue(prio, type, room) == [prio |-> prio, type |-> type, room |-> room]
NoQueues == [i \in 0 .. -1 |-> Queue(REAL_TIME, INVALID_JOB, Infinite)]

Conf(in, out, events, rr, offers, max) ==
  [input |-> in, output |-> out, events_to_schedule |-> events, upgrade_prio |-> TRUE,
   round_robin |-> rr, offers |-> offers, max_jobs |-> max]

Offers(prios, types, deadlines) == [prio : prios, type : types, deadline : deadlines]

\* driver.c:64-71 with two types: one queue per priority and type, the three
\* priorities of a type side by side.
DriverInput == [i \in 0 .. 5 |-> Queue(i % 3, i \div 3, Infinite)]
Driver == Conf(DriverInput, NoQueues, 1, TRUE, Offers(Prios, 0 .. 1, {1}), 4)

\* The service centres of the tree simulator, under both algorithms.
Stations == {Conf(StationQueues, NoQueues, 1, rr, Offers({REAL_TIME}, JobTypes, 1 .. 2), 3) :
               rr \in BOOLEAN}

\* A bounded queue for one type beside queues for every type, two output queues
\* that fill up, and two jobs per call.
MixedInput  == [i \in 0 .. 2 |-> CASE i = 0 -> Queue(REAL_TIME, 0, 1)
                                   [] i = 1 -> Queue(REAL_TIME, INVALID_JOB, Infinite)
                                   [] i = 2 -> Queue(BATCH, INVALID_JOB, 2)]
MixedOutput == [i \in 0 .. 1 |-> Queue(IF i = 0 THEN REAL_TIME ELSE BATCH, INVALID_JOB, i + 1)]
Mixed == Conf(MixedInput, MixedOutput, 2, FALSE, Offers({REAL_TIME, BATCH}, {0}, 1 .. 2), 4)

\* Each priority keeps to its own output queue, with room for one job.
OwnQueue(i) == Queue(2 * i, INVALID_JOB, Infinite)
Apart == [Conf([i \in 0 .. 1 |-> OwnQueue(i)], [i \in 0 .. 1 |-> [OwnQueue(i) EXCEPT !.room = 1]],
               2, FALSE, Offers({REAL_TIME, BATCH}, {0}, 1 .. 2), 4) EXCEPT !.upgrade_prio = FALSE]

\* Every array of up to four queues of distinct types, none of them offered a
\* job: what the sort makes of them.
Permuted(n) == {a \in [0 .. n - 1 -> [prio : Prios, type : 0 .. 3, room : {Infinite}]] :
                  \A i, j \in 0 .. n - 1 : a[i].type = a[j].type => i = j}
Sorted == {Conf(a, NoQueues, 1, FALSE, {}, 0) : a \in UNION {Permuted(n) : n \in 1 .. 4}}

MCConfigurations == {Driver, Mixed, Apart} \cup Stations \cup Sorted

\* Two queues, no output queue and two jobs per call.
PairInput == [i \in 0 .. 1 |-> Queue(2 * i, INVALID_JOB, Infinite)]
TwoPerCall == {Conf(PairInput, NoQueues, 2, FALSE, Offers({REAL_TIME, BATCH}, {0}, {1}), 3)}

=============================================================================
