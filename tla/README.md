# Verification of the IoT tree simulator

The repository simulates networks of IoT devices as trees of queueing stations.
Its core is `tree_simulator`, a parallel discrete-event simulation for the ROOT-Sim
engine, with the libraries in `utils/`: a priority scheduler over binary heaps, an
id map, a topology parser and a message format.  This directory holds TLA+ modules
that model the parts of it, the configurations with which TLC checks them on small
instances, and proofs that TLAPS checks for every value of the constants.

File names below are relative to `src/`; `arrive_functions.c`, `finish_functions.c`
and `init_functions.c` are in `tree_simulator/simulation_functions/*_event/`,
`setup_*.c` in `tree_simulator/simulation_functions/setup_protocol/`.

## 1. Inventory

    SENSOR, ACTUATOR - LAN - LOCAL node - WAN - REGIONAL node - WAN - CENTRAL node + disk

Each element of the tree is a device of some logical process (LP).  LPs share no
memory; they send each other events with a timestamp, which the engine delivers in
timestamp order (it executes optimistically and rolls back, which a committed history
does not show).  Within a tree, jobs go up (TELEMETRY, TRANSITION, BATCH_DATA) and
down (REPLY, COMMAND) in ARRIVE events; a station schedules FINISH for itself.

| Component | State | Operations | Correct when |
| --- | --- | --- | --- |
| **Station** (`arrive_functions.c`, `finish_functions.c`): node, actuator, LAN direction, disk | jobs on the cores, scheduler with the waiting jobs, `num_running_jobs`, `num_jobs_in_queue`, metrics, pending FINISH events | `arrive_*`/`start_device`, `finish_*`, `schedule_next_job`, `schedule_remaining_job`, two `update_metrics` | counters, cores and events agree; no core idles while a job waits; nobody starves; the metrics obey the laws that their names promise |
| **Routing** (same files, `common_functions.c`) | aggregation counters per node, jobs between devices | `generate_next_job`, `send_to_up_node`, `send_aggregated_data`, `send_reply`, `send_command`, `save_data_on_disk` | nothing is lost or doubled; each asker gets its reply; each command reaches its actuator; no device gets a job on which it exits |
| **Termination** (`simulation.c`) | per LP: enabled?, `num_stable_elements`; per element: stable?, completed? | START_SIMULATION, UPDATE_TIMESTAMP, STABILITY_ACQUIRED/LOST, `OnGVT` | all LPs end, together, with results of one common steady state |
| **Setup** (`setup_protocol.c`, `setup_send_functions.c`, `setup_recv_functions.c`, `message.c`) | per LP: topology structs being filled | `setup_master` with messages, `setup_independent` from files | every LP starts complete, with its own data in every field; spare LPs stay out |
| **Priority scheduler** (`utils/priority_scheduler`) | input and output queues, `scheduler_timestamp`, last type | `new_prio_scheduler`, `schedule_in`, `schedule_out` | no job lost or overtaken; urgency, order and room respected |
| **Priority queue** (`utils/priority_queue`) | array, `used`, `size` | `enqueue`, `dequeue`, `queue_peek` | a bag that gives out a smallest key; writes stay in the allocation |
| **idmap** (`utils/idmap`) | sorted array of pairs, read-only | `create_idmap`, `idmap_search` | finds what was put in, and nothing else |
| **Topology parser** (`utils/partop`) | the tree and what is derived from it | `getTopology`, LP formation | lists, next hops and LP maps agree with the tree |
| **LP files** (`binaryGenerate.c`, `binaryParse.c`) | one file for the general topology, one for the LPs, one per LP | `driverBinaries` writes; `setup_independent` seeks and reads | what is read into a field is what was written from it |
| **Analytic model** (`model_computation/formulas.c`) | `node_data` of each element: rates, queues | three visits of the tree: rates, commands, printing | the rates are those of flows followed through the tree; each queue is solved once, at the rates printed beside it |
| **Three queues** (`three_queues/application.c`) | per station a ring buffer, its indices and counters | INIT, ARRIVE, FINISH, `OnGVT` | every station serves in turn and never stops while a client waits |
| Results (`simulation.c`) | - | `check_metrics`, JSON printing | |
| Early example `classes_queues`, generator, JSON tools, scripts | - | batch programs | |

How they interact.  `setup` fills an LP's devices from the parser's output, by
messages or from files.  START_SIMULATION initialises each device, which creates one
scheduler per station (five heaps, one per job type, no output queue, one job per
call).  ARRIVE and FINISH run the station code, then the routing code, which addresses
the next device by the maps the parser made.  UPDATE_TIMESTAMP reads the metrics of a
station and drives termination.

What is hard here: orders of events at equal timestamps and of messages between LPs;
counters that several handlers keep by hand; a protocol in which each LP decides on a
count that lags behind; messages that are matched to a field only by their order;
files without names or lengths, in which a field is found by what precedes it;
preempted jobs that re-enter their queue; heaps that grow; a ring buffer that nobody
guards; maps whose -1 becomes an array index; rates with 0/0 where a node reaches no
actuator.  `PROJECT.json` lists each such hazard at its line, with the property
that would catch it or the reason why none does.

## 2. Modules

| Module | Models | Notes |
| --- | --- | --- |
| `QueueStation` | one station | an action per handler: `Arrive`, `Finish` |
| `QueueStationLaws` | operational laws of its metrics | extends it (sums over jobs) |
| `Station` | what a station promises to the network | abstract |
| `QueueStationProofs` | proofs about `QueueStation` | invariants, `Station`, fair shares, metrics and laws |
| `TreeNetwork` | the routing of jobs between devices | stations as `Station` promises |
| `NetworkProofs` | proofs about `TreeNetwork` | routing and conservation |
| `Termination` | life of the LPs, stability, the end | |
| `Convergence` | what the stability protocol promises | abstract |
| `TerminationProofs` | proofs about `Termination` | invariants, `Convergence` |
| `LpFiles` | the LP files, written and read back | operators |
| `SetupProtocol` | setup by messages or from the LP files | |
| `SetupProofs` | proofs about `SetupProtocol`, `LpFiles` | setup by messages and from the LP files |
| `Scheduler`, `SchedulerOfStation` | the priority scheduler; as stations use it | |
| `QuickSort` | the quicksort both libraries hold | recursive function |
| `QuickSortProofs` | proofs about `QuickSort` | for arrays of any length |
| `Heap` | the binary heap | |
| `PriorityBag` | what users of a priority queue rely on | abstract |
| `QueueProofs` | proofs about `Scheduler`, `SchedulerOfStation`, `Heap`, `ThreeQueues` | the queues of all kinds |
| `ProofBasics` | induction over numbers and finite sets, recursion, sums; proofs about `IdMap` | lemmas of the other proofs; the id maps |
| `IdMap` | the id map | operators |
| `Topology` | what the parser derives from a tree | one action per pass |
| `TopologyProofs` | proofs about `Topology`, `AnalyticModel` | the passes; the visits of the analytical model |
| `Rationals` | exact rationals with 0/0 | stands for `double` |
| `AnalyticModel` | the queueing model of a topology | extends `Topology` |
| `ThreeQueues` | the three stations in tandem | |
| `MC*` | small instances | |

The modules fit together along the promises.  `Heap` implements `PriorityBag`, and
`Scheduler` holds its jobs in bags of that kind.  `SchedulerOfStation` shows that the
scheduler, configured as `create_new_queues` does, gives out the jobs that
`QueueStation` says it gives out, so `QueueStation` can keep its waiting jobs as a set
with a choice operator.  `QueueStation` implements `Station`, and `TreeNetwork` uses
stations that promise no more than that.  `Termination` implements `Convergence`.
`Topology` uses `IdMap`, which uses `QuickSort`; `TreeNetwork` takes for granted the
paths and neighbours that `Topology` establishes.  `AnalyticModel` goes on where
`Topology` returns.  `SetupProtocol` takes the files of `LpFiles` when LPs set
themselves up.

### QueueStation

`current_jobs`, `start_processing_timestamp`, `num_running_jobs`, `num_jobs_in_queue`
and `last_schedule_out` are the fields of `queue_state` and of its scheduler; `queues`
is the set of waiting jobs; `metrics` holds the counters from which results are
printed; `finish_events` is the engine's set of undelivered FINISH events; `now` is
the timestamp processed last.  `Arrive` is `arrive_*`: `update_metrics`, the draw of a
service time, then start or `schedule_in`.  `Finish` is `finish_*`: at the end of a
slice the job either goes back to its queue with a new deadline, or it is measured and
gone; either way `schedule_next_job` follows.  PREEMPTION and SCHEDULING_ROUND_ROBIN,
build flags in the code, are constants.  Time is discrete; service times come from a
small set in place of `Expent`.  Events of one timestamp are taken in any order.
`StaleTimestamps` are the values that `malloc` may leave in `last_update_ts`, which no
code initialises.  What a finished job causes elsewhere is `TreeNetwork`'s part.

### TreeNetwork

`messages` is the bag of ARRIVE events under way, `station` the jobs inside each
device (both directions of a LAN, the disk), the aggregation counters are those of
`node_state`.  Messages take any time and stations serve in any order, which covers
every delay, every SHIFT_EVENT constant and every scheduling policy.  A random choice
becomes every choice of positive probability (a command or not; any actuator below).
Where a node has no actuator below, `Selected` follows `get_random_actuator`: a network
without types of actuators has no command; one with types divides by a sum of zero and
indexes past its arrays, which yields any id or the end of the program
(`SelectOutOfBounds`), and an id that is not below the node is dropped by `send_command`,
whose map of next hops has no entry for it.
`forwarded`, `answered`, `commands` and `generated` only count, for the properties.
These say that what was sent is what has arrived and what is still under way:
`UnderWay(w)` adds up, over all bags, the weight that `w` gives to a job at its place
(`Commands`, `Awaited(n)`: 1 for a job that counts; `Measurements`: how many measurements
an aggregated job stands for).

### Termination

`lifecycle`, `updates` and `messages` are the engine's undelivered events (INIT,
DISABLE_UNUSED_LP, START_SIMULATION; UPDATE_TIMESTAMP; STABILITY_*); an event is
delivered when none with a smaller timestamp is left, ties in any order.  The verdict of
`check_metrics` may be either, at every update: the protocol must work whatever the
metrics do.  `OnGVT(lp)` writes the LP's results once (the file that is not rewritten,
`simulation.c:656`) and votes; the engine stops when every LP votes to.  Ticks are
SHIFT_EVENT (0.1) long; the constants of `simulation.h` become small numbers in the
same order.

### SetupProtocol and LpFiles

Each element has the fields its structs point to; `Fields` gives, for each message,
the container and the type by which the receiver recognises it, and the field it was
sent for.  `Receive` puts the data into the first NULL field of that type, as
`recv_data_in_*` do, or exits.  A payload is the pair of element and field it came from.
With `independent` (SETUP_INDEPENDENT) each LP reads its files instead.  A file is a
sequence of words, each the value of a field: one word for an int or a float, two for a
double or an idmap.  `LpFiles` names the fields in the order in which `binaryGenerate.c`
writes them (`Write*`), says how long each is (`Length`) and what is in it where the reader
needs it (`Content`), and has one `Read*` per group of `fread` and `fseek` of
`binaryParse.c`: it skips what comes before an LP's part with the counts
read so far, and its loop bounds are fields that it has just read.  A read past the end
or a wrong offset gives words of other fields, which `EveryFieldItsOwn` sees.

### Scheduler, QuickSort, Heap, PriorityBag, IdMap

`Scheduler` starts from any of a set of configurations (`conf`); `Outcomes` is
`schedule_out` as a whole, round after round, including the choice among equal keys.
`QuickSort` is the in-place sort as a recursive function on arrays; swapping is
skipped for elements that the code declares alike.  `Heap` keeps the array over its
used part; `heap_grow`, climbing and sinking are operators.  `IdMap` has no state.

### Topology and AnalyticModel

`Topology` starts from every tree of a set and every criterion to form LPs; each pass of
`getTopology` is an action: counting devices upwards, filling the lists, the paths
towards the actuators, the lists of lower elements, the LP file, the map from elements
to LPs and each element's map of its neighbours, and the flattening of the lists of
devices by type that `binaryGenerate.c` and the setup read.  Reading the text is left out.

`AnalyticModel` then performs `main`'s three `graph_visit`s, one action for each call or
return of the recursion: `compute_data` on the way up (rates), `compute_data` on the way
down (commands, with the demands, utilizations and response times of every queue), then
`print_json` with `free_node_data`.  `json` is the sequence of what was printed.  Doubles
are exact rationals; NaN is a value that spreads and is never positive.  The model is
computed for the LP files formed by LAN: `formulas.c` does not read them.

### ThreeQueues

`state` is `state_type` of each LP, `events` the bag of the engine's events.  Delays are
exponential, so any pending event may be the next; a client may overtake another between
two stations.  `arrived` and `served` only record, for the property.

## 3. Runs

Bounds are named in the modules and set in the `.cfg` files.

| Run | Instance | Shows |
| --- | --- | --- |
| `StationFifo` | 1 core, FIFO, no preemption (a LAN direction, an actuator, the disk), 4 arrivals of two types, measuring from timestamp 3 | `CountersAgree`; `CompletionsCoverArrivals`: an arrival measured is measured again on leaving; `ImplementsStation` in order; `EveryJobLeaves` |
| `StationNode` | 2 cores, preemption, round robin, 4 arrivals, service shorter and much longer than the slice; start at 1, transient until 2, so that jobs enter during it and after it | `WorkConserving`, `OneFinishPerBusyCore`, `FairShare` (of two waiting jobs of a type the older has had at least half the service of the younger), `OperationalLaws` (Little's law for each event after the transient whose leavers are of measured types; the bound on utilization throughout), `RoundRobinProgress` |
| `Termination` | `setup_master`; 3 LPs, one of them spare; a node, a LAN, an actuator, a sensor | `CountsAgree`, `NobodyForgotten`, `UnusedLpStaysDisabled`, `Terminates`, `ImplementsConvergence` |
| `TerminationUnusedLp` | independent setup and a spare LP | *violation*, see section 5 |
| `NetworkTransitions` | two local nodes below one WAN, an actuator below each, 2 transitions | `SoundRouting`, `OneReplyPerTransition`, `CommandsConserved` |
| `NetworkTelemetry` | the same tree, but for a local node with a sensor and no actuator; three levels that aggregate, 4 measurements and a transition | `TelemetryConserved`, `Settles` (unless the choice among no actuators ends the program) |
| `Setup` | 4 LPs (three needed, one of them without devices), one element of each type; by messages and from files | `EveryFieldItsOwn`, `CompleteAtStart`, `EveryLpSettled` |
| `Scheduler` | the test driver's queues under round robin; bounded queues on both sides with two jobs per call; without UPGRADE_PRIO; the stations' configuration; every array of up to four queues of distinct types | `JobsAccounted`, `OutputInOrder`, `MostUrgentFirst`, `GivesOutStationChoice`, `EveryJobDelivered`, and that the queues are sorted (`TypeOK`). `MostUrgentFirst` leaves out the jobs that their own full output queue holds up |
| `SchedulerTwoPerCall` | two jobs per call, no output queue | *violation*, see section 5 |
| `Heap` | 7 adds, 3 keys, capacity 2 | `ImplementsPriorityBag`, and that `used` stays within the allocation (`HeapTypeOK`) |
| `AnalyticModel` | trees with 1-2 regions, 2 local nodes, 2 LANs, 1-2 devices of three sorts; 4 criteria to form LPs | of the parser `ListsMatchSubtree`, `PathsLeadDown`, `LpsPartition`, `NeighboursKnown`; of the model `UpwardRates`, `CommandsReachActuators`, `ResultsConsistent` (what is printed is complete, and each queue solved once at its own rates) |
| `ThreeQueues` | buffers of 2, 4 clients | `ServedInTurn`: in order of arrival; past a full buffer, the client that overwrote the one whose turn it was, and no station stops |

Why the bounds are enough. Four arrivals at a station with two cores fill both, leave
two waiting, and let a preempted job meet both an older and a younger one; a service
time of 5 with a slice of 2 is preempted twice and ends in a cut slice. Two counted
elements on one LP with ids a period apart and one on another give every overlap of
updates and messages, both at one timestamp and one tick apart; the time limit lies
several periods after the transient, so that an element can gain, lose and regain
stability before it. Two transitions from two local nodes mix on the WAN they share; in
`NetworkTelemetry` a local node that reaches no actuator must choose one. A network
without any type of actuator is covered by the proofs alone. Four measurements fill an
aggregate of two at two levels. Seven jobs fill three levels of a heap that doubles
twice. Two devices of three sorts below two LANs give lists of length 0, 1 and 2 at
every level, nodes that reach no actuator, and transitions answered at each of three
levels. Four clients overrun a buffer of two at every station. Every property has a
mutant in `PROJECT.json`: a plausible bug in a modelled definition which the run
detects.

Every run but one checks for deadlock: where the system really is at rest (`Quiet`,
`Done`, `Over`, `Returned`) a module has an explicit step that changes nothing, and
stopping anywhere else is an error.  In `ThreeQueues` station 0 generates clients for
ever and only the bound on them stops it, so that run says CHECK_DEADLOCK FALSE.

## 4. Fairness

- `QueueStation`: weak fairness of `FinishStep`.  The engine delivers what it holds.
  Arrivals are not fair.
- `TreeNetwork`: weak fairness of delivering a message or finishing a job, together.
  Generation stops by its bound and is not fair.
- `Termination`: weak fairness of delivering the lifecycle, update and stability
  events, and of each LP's `OnGVT`, which the engine calls at every GVT computation.
- `SetupProtocol`: weak fairness of delivery.
- `Scheduler`: the caller calls `schedule_out` again and again (each FINISH does), and
  each output queue has a consumer that takes jobs.

No run assumes strong fairness, nor anything of an arrival.

## 5. What the runs found

Two disagreements between the code and what it says of itself (`findings`):

- **A spare LP is enabled again** (`setup_protocol.c:90`).  With independent setup, the
  default build, an LP that the topology does not need disables itself, and then
  schedules START_SIMULATION for itself like all others; the handler sets LP_ENABLED
  (`simulation.c:187`).  `OnGVT` then looks up its first device in an
  `element_to_index` that this LP never filled.
  `TerminationUnusedLp` shows it, `Termination` that setup by messages is free of it.
- **A job is taken and the call fails** (`priority_scheduler.c:101`).  With more than one
  job per call and no output queue, a round without a job returns SCHEDULE_FAIL although
  an earlier round dequeued one.  Stations ask for one job per call and do not meet it.

Observed while modelling, without a run of their own:

- `queue_quick_sort.c:24` exchanges two queues only if their types differ, so an array
  with queues of one type in descending priority stays unsorted; the comment at
  `priority_scheduler.c:13` asks callers to hand it over sorted.
- Round robin (`scheduling_algorithms.c:54-73`) loops over the priorities without using
  them: a batch job of the type in turn precedes a real-time job of another.
- Round robin looks for queues of each type in turn and never for one that takes any
  type (`scheduling_algorithms.c:63`): what is put into such a queue is never served.
- Without UPGRADE_PRIO a full output queue ends the call (`priority_scheduler.c:120`), and
  later calls select the same queue again until its consumer makes room; the comment above
  that line says that the call jumps to the next input queue.  `MostUrgentFirst` holds
  either way: it leaves out the jobs that their own full output queue holds up.  Stations
  have no output queues.
- The number of types of actuators is that of the whole network.  At a node that reaches
  none, which `generator.py` and the parser allow, the choice of an actuator divides by
  zero and reads past its arrays (`finish_functions.c:23`).  What comes out is no actuator
  below, so the command is dropped with a warning, or the program ends; `Model.tex:208`
  says that a command must be delivered.  In such a tree `CommandsConserved` is false;
  `NetworkTelemetry` shows that the replies and measurements do not suffer.
- `events_to_schedule` 0 moves one job, where `priority_scheduler.h` says all.
- `create_idmap` with an invalid id for a valid content leaves an entry (0, 0) in the map.
- `finish_lan` returns without `schedule_next_job` if a COMMAND has no destination
  (line 502).  `SoundRouting` shows that no such command is sent.
- `get_min_service_time` skips the first and the last type (`init_functions.c:7`) and
  clears five bytes, not five doubles, of its caller's array.
- The verdict on the CPU of the central node is overwritten by that on its disk
  (`simulation.c:480`), that on a LAN's inward direction by the outward one (495).
- `main` of `formulas.c` (line 1066) asks for `argc == 3` and then reads `argv[3]`, which
  is NULL; its usage line names three arguments.
- Below a node that reaches no actuator of positive probability `formulas.c` prints
  0/0 (line 584) as command rate.  `CommandsReachActuators` shows that it does so only there.
- The number of clients that `formulas.c` prints for a node of m cores is that of one
  queue of its total utilization: R of a class is m times what Little's law gives.
- The ring buffers of `three_queues` (line 84) are overwritten when more than LEN_QUEUE
  clients wait.  `ServedInTurn` says whom that hits.

## 6. Proofs

TLAPS checks the following for every value of the constants that satisfies the named
assumptions of the module:

- `StationAssumption`, `TerminationAssumption`, `HeapAssumption`: natural numbers, at
  least one core and one entry, finite sets of elements, timestamps of setup before
  the start;
- `TopologyAssumption`, `OneCentralAssumption` of `TreeNetwork`: a finite tree of the
  levels of section 1 with one central node and at most one WAN below a node, as
  `generator.py` writes it and `parser.c:912` requires; `AggregationAssumption`: positive
  numbers; `ActuatorTypesAssumption`: a number of types of actuators, positive if there is
  an actuator;
- `TopologyAssumption` of `Topology` says the same of the trees that a file may describe
  (`IsTopology`): ids from 0, which is the central node; one WAN below it and below each
  regional node, of which there is at least one;
- `ModelAssumption` of `AnalyticModel`: the parameters are numbers (rationals, or NaN),
  one for each type in the tree, and a node has at least one core;
- `ThreeQueuesAssumption`: a buffer of at least one slot;
- `SchedulerAssumption`: arrays of queues indexed from 0, of known priorities and types;
- `SetupAssumption`, `FilesAssumption`: every element lies on exactly one LP, in one place of
  its list (`LpsPartition` of `Topology`), there are as many LPs as the topology needs, ids
  are natural numbers, and there is one count per type of device below; how many elements
  there are of each kind and how long their arrays are is left open.

### QueueStationProofs

`StationInvariant`, `CountersAlwaysAgree`, `AlwaysWorkConserving`,
`AlwaysOneFinishPerBusyCore`, `StationNeverExits`, for any number of cores, either
algorithm, with and without preemption.  None of these is inductive alone.  That a
core is free when `num_running_jobs < num_cores` (so that `start_device` does not exit)
needs the counter to agree with the cores; that `schedule_next_job` may replace the
running job needs exactly one FINISH per busy core; that a job is not in two places
needs unique ids and the finiteness of the sets counted.  `StationInv` is the
conjunction.  The proof has one step per handler; since `finish_*` first puts the job
back or removes it and then takes the next, the intermediate state is described by
lemmas about `Dispatch`, `GoIdle` and the choice of the scheduler.

`StationImplemented`: `TreeNetwork` may use stations as `Station` describes them.  Each
handler maps to a job that enters, a job that leaves or a stutter (a slice that ends
before its job).  That nobody overtakes with one core, FIFO and no preemption is not a
fact about the queue alone: `ArrivalOrder` also says that the job on the core is not
younger than any that waits, that a deadline is the timestamp of the arrival, and that
the slice is the whole service, for a job that went back to its queue would get a new
deadline.

`AlwaysFairShare`: a waiting job has had at least half the service of each younger job
of its type that waits and, on one core, no less.  The jobs of one type that need more
than their slice form a ring (`Ring`): one that is being served counts as put back
already, due when its slice ends, and each dispatch moves a job that is due first to the
end.  `Shared` says, from the deadlines of two jobs, how far the younger may be ahead;
around it, `ShareInv` says that a slice that is not the last is a whole one
(`WholeSlices`) and that nobody waits for a future deadline (`DueInTime`).  The factor of
two is real: jobs put back at one timestamp have equal deadlines, the heap gives them
out in any order, and with several cores a younger job may run twice for each slice of
an older one.  The run `StationNode` has two cores and service times too short to show
the difference; no run has one core and preemption, where only the proof speaks.

`RoundRobinAlwaysProgresses`: whenever a core is given away, the type of every waiting
job is served or comes nearer to its turn.

`MetricsInvariant`, `TypeAlwaysOK`, `ArrivalsAlwaysCovered`: no counter becomes negative
although `malloc` leaves any value in `last_update_ts` (`Timed`: it is garbage only while
it is multiplied by zero jobs), and an arrival that was counted is counted as a
completion when its job leaves.  `Covered` is the induction: the counted arrivals of a
type are at most its completions and the counted jobs inside, and a job that arrived
after the transient finds the measurement of its type begun.  Jobs change on their way
through a station (`remain`, `deadline`), so the proof follows their tickets: id, type
and arrival.

`LawsAlwaysHold`: `OperationalLaws`, wherever the transient ends.  Little's law is an
action property: what the area W2 has in excess of the times spent inside (`AreaBalance`)
does not change in a step after the transient whose leavers are of measured types.  The
condition is needed: a job that entered during the transient may leave before any of its
type is measured, and the code then adds an interval to nothing
(`arrive_functions.c:73-76`).  `Balance` is `AreaBalance` over the tickets, whose sum a
put-back does not change; `Entered` keeps their number and times.  `LawsInv` strengthens
the bound on utilization by the service that the jobs inside have already had: the busy time that was accounted and the service
given to those who wait or run never exceed what the cores could give.  Without that
term the bound is not inductive, since a job's service is accounted when it leaves.

### NetworkProofs

`AlwaysSoundRouting`, for any number of devices below each element, any aggregation, and
any number of jobs, in the trees in which every node reaches an actuator, or none exists
(`NodesReachActuators`): elsewhere the program may end, as section 5 says (`finish_functions.c:23`).  The invariant
itself (`RoutingInv`) holds in every tree; only that the program goes on (`StaysUp`) is
under that condition in it.  `NextHop` walks upwards by recursion; a tree has seven levels
(`Levels`), so that seven steps of the recursion define it everywhere (`ClimbEnds`), and
statements about it are proved down the tree (`DownTheTree`): the next hop is directly
below, and leads on to the actuator.  The invariant extends `SoundRouting` from the
messages to the jobs inside the devices (`SoundInside`), and says that a transition which
a node passed on does not come from the central node, whose reply nobody could send.  A
reply goes to the node that asked because there is one WAN below a node.

`AlwaysOneReply`, `TelemetryAlwaysConserved`, in every tree, and `CommandsAlwaysConserved`,
under `NodesReachActuators`: whatever is sent arrives once or is under way.  For any weight that depends on the job
and its place alone, lemmas say what each handler does to `UnderWay`: a job that is
posted, enters a station, leaves it or goes to the disk changes one bag by one job, and
the sum by its weight (`SumChanged` of `ProofBasics`, over finite bags).  The three
properties are then three weights.  `NetworkInv` supplies what the bookkeeping needs: the
bags are finite (`UnderWayInv`), routing is sound, so that what a node sends has a
destination, and the counters are natural numbers below their aggregation
(`CountsInv`); together with the books it is the inductive `AccountsInv`.

### TerminationProofs

`TerminationInvariant`, `TypeCorrect`, `CountsAlwaysAgree`, `SpareLpsStayDisabled`, for any
topology, distribution over LPs, ids and period.  The count of an LP plus the ACQUIRED
minus the LOST messages under way to it equals the number of elements that count as
stable.  This is kept only because an element has one update to come
(`OneChainPerElement`), because its own messages are all delivered before that update
(`MessagesBeforeNextUpdate`, which needs SHIFT_EVENT < NEXT_UPDATE_TIMESTAMP), and because
no LP counts before it is enabled (`SetupFirst`).

`ConvergenceInvariant`, `NobodyIsForgotten`, `RefinesConvergence`.  When an element's chain
of checks ends, every element counts as stable for good; and `Termination` implements
`Convergence`.  Two assumptions are added, each part of a theorem's statement.
`WholeSeconds`: the ids and NEXT_UPDATE_TIMESTAMP are multiples of a second, and
SHIFT_EVENT is less than one (`simulation.h:16` and 33: integers, and 0.1).  `EnoughLps`:
the setup did not exit because there are fewer LPs than the topology needs.  The
argument is about timestamps.  All checks happen at grid points, whole seconds after the
start, and all messages of one grid point arrive before the next; so all LPs hold the
same count whenever any of them checks, namely the number of elements that were stable
before that grid point (`Agreement`).  An LP that sees the full count therefore sees it
together with all others: no element checks again and could lose its stability, which
is why a chain ends for good (`EndedForGood`).  Elements of one grid point that have not
checked yet see the same count, because a message takes SHIFT_EVENT.  The refinement
needs two facts more: no LP finishes before all devices are started (`Launch`) and an LP
that has finished has nothing under way (`EndedTogether`).  `RefinesConvergence` excludes a
spare LP under independent setup (`NoSpareStarts`): it is the first finding of section 5,
and with it the theorem is false.

### SetupProofs

`EveryFieldAlwaysItsOwn`, `AlwaysCompleteAtStart`: for any topology, distribution over LPs
and number of LPs, and in both builds, each field gets its own data, the setup never ends
the program, and no LP is enabled before it and its devices have everything they read.

By messages (`MessagesFindTheirFields`, `StartsComplete`).  No message names its field:
the receiver tries the fields of the message's type in a fixed order and takes the first
that is NULL.  That this is the right one has two parts.
`FieldsInOrder`: of two fields with messages of one type, the one that the receiver tries
first was sent with the smaller timestamp; this compares the tables of the sender
(`setup_send_functions.c`) with those of the receiver for every kind of element.
`StructsFirst`: the struct that holds a field came before.  `SetupInv` is then about time
only: either LP 0 has not read the topology, or the messages to an LP that are still to
come are not older than those that came, and exactly the fields whose message came are
set, with their own data (`Progress`).  `FindsItsField` combines them.

From the LP files (`DevicesReadAre`).  A file is the concatenation of its fields, so the
proof is about where the reader stands.  `Laid` says that parts stand in a file one after
the other from a position on, `Matches` that a list of reads fits them: the same field, or
skipped, and as many words as the part has, once or as often as a number says that has
been read before.  Then the reader gets the fields it keeps and stands at the end
(`Reads`, by induction over the list).  The field lists of the writer and the read lists of
the reader are compared group by group (`HeadFits`, ..., `BelowFits`; `Fit` says in terms of
`Length` and `Content` what `Matches` says of words), and the reader takes the same branch
as the writer because it branches on the type and the node type it has just read
(`SpecificRead`, `NodeRead`).  An element is hence read to its end (`ElementRead`), so the
next one begins where the reader stands (`ElementsParsed`, by induction over the elements of
the LP).  In the file about the LPs an LP skips the elements of the LPs before it, with
the amounts it has read (`DevicesParsed`), and the id map finds the place of each id
(`IdmapFindsWhatWasPutIn`).  The invariant over the program's steps is simple after that
(`FilesInv`: an LP waits for INIT with nothing, or has everything).

### QuickSortProofs

`SortCorrect`.  A call of `partition` scans from left to right, and the invariant of its
loop is `Scanned`: the elements between `low` and `i` are smaller than the pivot, those
between `i + 1` and `j` are not, and the array is a rearrangement of the one it was
called with.  `quickSort` is then shown to be defined for every call (`SortReturns`),
because both recursive calls are about fewer elements (`CallsShrink`), and to sort by
induction on that number (`EveryCallSorts`).  The order of the result has a condition
(`AlikeKeys`): elements that the code does not exchange have the same key.  An idmap
fulfils it, since `idmap_quick_sort.c` leaves only equal ids in place.  An array of queues
does if the queues of a type have one priority, since `queue_quick_sort.c` leaves queues
of one type in place; see section 5.

### QueueProofs

`HeapTypeAlwaysOK`, `HeapIsPriorityBag`, for any keys, capacity and number of jobs: `Heap`
implements `PriorityBag`, and nothing is written past the allocation.  `HeapInv` adds the
order of the heap (`Ordered`: no entry is smaller than its parent), from which the root
is smallest by induction (`RootSmallest`).  Climbing and sinking are recursive functions,
so they are first shown to be defined (`ClimbReturns`: the position falls; `SinkReturns`:
it rises and is bounded), then to return a rearrangement of the array in order, if the
array given to them is in order except at the position where they start (`ClimbOrders`,
`SinkOrders`).  The hypothesis of the second is that both children of that position are
also below its parent, which is what one exchange leaves.

`SchedulerInvariant`, `TypeCorrect`, `AlwaysOutputInOrder`, `AlwaysAccounted`,
`AlwaysMostUrgentFirst`, for any queues with any room, either algorithm, with and without
UPGRADE_PRIO, and any number of jobs per call.  Most of the argument is about the middle
of a call: `CallSound` says of a call in progress what `SchedulerInv` says between calls,
and `RoundKeeps` that a round of the loop keeps it; `OutcomesSound` is the induction over
the rounds.  It needs that a round finds a queue (`FirstExists`: a finite set has a first
element in any order), that each job lies in a queue of its priority, and that keys and
numbers of an output queue rise together although the timestamp starts again at 0
(`Numbered`).  `AlwaysMostUrgentFirst` speaks of
the jobs that their own full output queue does not hold up.  Two theorems have a
condition: `TypeCorrect` that queues of one type have
one priority, or they would not be sorted; `AlwaysAccounted` that a call asks for one job
or there are output queues (`ResultsUsed`), without which the second finding of section 5
makes it false.

`StationChoiceGivenOut`: the scheduler as a station configures it gives out exactly the
jobs that `QueueStation` says, and fails exactly when none waits.  The sort has to be
followed for the five queues of a station: their order after it is the one before,
rotated by one (`EqualsRotated`).

`StationsServeInTurn` (`ThreeQueues`): for ring buffers of any length and any number of
clients, `ServedInTurn`.  Nobody guards the buffer, so the invariant (`TandemInv`) does
not say that it holds the clients who wait.  It says where its indices stand: at the
number of clients that have come, and of those that have left, modulo LEN_QUEUE; and that
a slot holds the latest client that was written to it (`RingOK`).  What is served is then
arithmetic: between two visits of a slot an index goes round once (`OnceRound`).  That no
station stops needs exactly one FINISH wherever a client waits (`ServersOK`), and that
each client comes once needs the clients on the way to be those who have left a station
and not come to the next (`ClientsOK`).

### ProofBasics

`IdmapFindsWhatWasPutIn`, about `IdMap`, by which elements find their neighbours and an LP
its devices: whatever arrays a map is created from, a search returns the content of each
id and -1 for every other.  The pairs kept are counted off in their order (`Ranks`: every
rank belongs to one index); `SortCorrect` makes of them an array in strict order of ids;
and the binary search ends, since the range is shorter after each step (`SearchReturns`),
and never leaves the id it looks for outside its range (`SearchFinds`).  The condition
(`AsIntended`) is that each valid content has a valid id and no two of these are equal, as
with the arrays that the callers in `partop` and in the setup pass; for the setup it is
proved (`PlacesFound`), for `partop` too (`TopologyProofs`).

### TopologyProofs

`TopologyInvariant`: what each pass of `getTopology` leaves behind, in every tree and for
each of the four criteria.  The passes are recursive: going up to the root, down along
the lower elements, or through an array.  Each recursion is first shown to be defined
(`MeasuredRecursion` of `ProofBasics`: some number falls from call to call); for those
along the tree the number is the depth, 0 to 6, which `IsTopology` determines from the
kind of an element (`Depth`).  What they compute is then said with listings, arrays that
hold each element of a set once (`IsListing`), which concatenation and the flattening of
arrays preserve (`ListingConcat`, `JoinedListing`).  `TopoInv` has one part per pass, each
conditional on its pass being over, and one lemma per pass, which uses the parts before
it; `InOrder` says that the passes before a finished one are over.

- `ListsAlwaysMatchSubtree`: a device takes the first empty place of a list; the list is
  as long as the number of devices that count themselves (`TypesOk`), so none is refused
  and no place stays empty (`Holds`).  Going up from the devices and going down from the
  elements find the same (`SubtreeListing`): `Above` and `Subtree` are converse.
- `PathsAlwaysLeadDown`: the climb from an actuator ends at the element below the
  destination if the destination is above, and finds nothing otherwise (`NextHopIs`);
  the map of the hops is one as `IdmapFindsWhatWasPutIn` wants it.
- `LpsAlwaysPartition`: a criterion gives each element an owner, the one in whose line it
  is listed (`Owning`): itself, or an ancestor at a certain depth, with the exceptions
  that a WAN is owned by the node above and the first region by the central node.  The
  lines of the owners are listings of disjoint sets (`OneLineEach`), and the header counts
  the owners.
- `NeighboursAlwaysKnown`: each element is in one line, so that reading the file back
  gives one LP, and the map of an element answers for each of its neighbours with the LP
  that the map of the whole topology has for it.

These theorems are about `Spec` of `Topology`.  The run checks the same properties under
`ModelSpec` of `AnalyticModel`, whose steps either are steps of `Spec` or leave the
variables of `Topology` alone.

- `ResultsAlwaysConsistent` is about `ModelSpec`.  `Walk` says where a visit is: the calls
  lead down from the central node, one for each depth, and the elements that were left are
  whole subtrees, of each element under way the first of its lower elements
  (`WalkDescends`, `WalkReturns`).  `DataOk` says what is allocated then, visit by visit:
  in the first the lower elements of what was entered; in the second everything; in the
  last everything but what is below an element that was left.  So the structure a call
  works on exists, with the father and the children of the tree (`DataEntered`,
  `DataLeft`): nothing is used before it is allocated or after it is freed.  `JsonOk` says
  what has been printed: the elements left, each once, those below first; a visit is over
  when it has left all of them (`Complete`).

  The other half is about figures, and holds for all rates, service times, probabilities
  and numbers of cores, with 0/0 among them.  `FiguresOk` says that until the second visit
  has entered an element its queues are as they were allocated, with total utilization
  zero, and from then on each is the solution of the allocated queue at the rates offered
  to it (`SolvedOnce`, `FreshSolved`), which no later step changes: solving it again would
  add its utilization to the total a second time.  `JsonSolved` says the same of what is
  printed.

### Induction, and what is only model-checked

Induction is `SetInduction` throughout: a smallest counterexample exists since < is well
founded on the natural numbers.  `ProofBasics` derives from it induction over finite sets,
the existence of recursive functions and the lemmas about sums.

TLC checked each theorem's property on the instances of section 3 before it was proved.
Only model-checked:

- all liveness (`EveryJobLeaves`, `Terminates`, `Settles`, `EveryLpSettled`,
  `EveryJobDelivered`), which is beyond the prover, as is ENABLED;
- the flows through the tree in `AnalyticModel` (`UpwardRates`, `CommandsReachActuators`):
  they relate what the recursion passes from element to element to sums over all devices
  below of products over all nodes between, an induction along the tree within which both
  are rearranged.

## 7. Not modelled

- Floating point: the arithmetic of `check_metrics`, rounding in the printed metrics and in
  `formulas.c`.  Termination allows either verdict, stations use integers, the analytic
  model rationals.
- Text: the tokenising parser and catalog, the layout of the JSON of `OnGVT` and of
  `print_json`; opening and closing of files.
- `heap_update_key` has no caller; `array2heap`, `heap_sort` and the LaTeX output of
  `formulas.c` are commented out.
- The engine's optimistic execution and rollback.
- `classes_queues`, which no longer compiles against `utils/`.
- `generator.py` beyond the numbering of the elements, the JSON and LaTeX tools, the
  shell scripts, drawings and data.

## 8. Plan

Built, in this order: `QueueStation` with `Station`; `Termination` with `Convergence`;
`Heap` with `PriorityBag`; `Scheduler` with `QuickSort`; `TreeNetwork`; `SetupProtocol`;
`IdMap` and `Topology`; the proofs of the first two; `LpFiles`; `AnalyticModel`;
`ThreeQueues`; the proofs that `Termination` implements `Convergence` and `QueueStation`
implements `Station`, of the station's metrics, and of `SoundRouting`; the proofs of the
sort and of the scheduler; those of fair shares, turns and operational laws, of
conservation in the network, of the heap, of the setup by messages and of the id map;
those of the passes of `Topology`, of the turns of `ThreeQueues` for every buffer, of the
setup from the LP files, and of the results of `AnalyticModel`.

Next, to model: `check_metrics` with its overwritten verdicts, as a refinement of the
open verdict in `Termination`.

Next, to prove: that the rates at a node are the flows from the devices below it
(`UpwardRates`), and the conservation of the commands.
