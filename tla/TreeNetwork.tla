---------------------------- MODULE TreeNetwork ----------------------------
(***************************************************************************)
(* What the devices of the simulated network send each other: sensors and  *)
(* actuators generate telemetry and transitions, LANs and WANs carry them  *)
(* up, nodes aggregate telemetry, answer transitions with replies and turn *)
(* some of them into commands for an actuator below, and the central node  *)
(* writes to its disk.                                                     *)
(*                                                                         *)
(* This is the part of the ARRIVE and FINISH handlers that QueueStation    *)
(* leaves out.  Here a station is what module Station promises of it: jobs *)
(* enter, stay a while, and each leaves once, in any order.  Messages take *)
(* any time, which covers every delay and every SHIFT_EVENT constant.      *)
(***************************************************************************)
EXTENDS Integers, FiniteSets, Bags, Functions

CONSTANTS
  Upper,                  \* the element above each element, NONE for the root
  Kind,                   \* NODE, LAN, WAN, SENSOR or ACTUATOR
  NodeType,               \* CENTRAL, REGIONAL or LOCAL_NODE, of each node
  TelemetryAggregation,   \* per node type
  BatchAggregation,
  NumActTypes,            \* types of actuators in the whole network
  MaxTransitions,         \* bounds: what sensors and actuators generate
  MaxTelemetry

NODE     == "NODE"
SENSOR   == "SENSOR"
ACTUATOR == "ACTUATOR"
WAN      == "WAN"
LAN      == "LAN"

CENTRAL    == "CENTRAL"
REGIONAL   == "REGIONAL"
LOCAL_NODE == "LOCAL"

TELEMETRY  == "TELEMETRY"
TRANSITION == "TRANSITION"
COMMAND    == "COMMAND"
BATCH_DATA == "BATCH_DATA"
REPLY      == "REPLY"

NONE == -1

Element   == DOMAIN Kind
Of(k)     == {e \in Element : Kind[e] = k}
Nodes     == Of(NODE)
Lower(e)  == {x \in Element : Upper[x] = e}
Type(n)   == NodeType[n]
Central   == CHOOSE n \in Nodes : Type(n) = CENTRAL
Ends      == Element \cup {NONE}

\* The levels of a topology as generator.py writes it: central, WAN, regional,
\* WAN, local, LAN, sensors and actuators; below a node there is at most one WAN
\* (parser.c:912).
ASSUME TopologyAssumption ==
  /\ Element \subseteq Nat
  /\ \A e \in Element :
       \/ Kind[e] = NODE /\ Type(e) = CENTRAL /\ Upper[e] = NONE
       \/ Kind[e] = NODE /\ Type(e) \in {REGIONAL, LOCAL_NODE} /\ Upper[e] \in Of(WAN)
       \/ Kind[e] = WAN /\ Upper[e] \in Nodes /\ Type(Upper[e]) # LOCAL_NODE
       \/ Kind[e] = LAN /\ Upper[e] \in Nodes /\ Type(Upper[e]) = LOCAL_NODE
       \/ Kind[e] \in {SENSOR, ACTUATOR} /\ Upper[e] \in Of(LAN)
  /\ \A w, v \in Of(WAN) : Upper[w] = Upper[v] => w = v
  /\ \A n \in Nodes : Type(n) \in {REGIONAL, LOCAL_NODE} =>
       Type(Upper[Upper[n]]) = IF Type(n) = LOCAL_NODE THEN REGIONAL ELSE CENTRAL

\* The generator writes one central node (generator.py:392).
ASSUME OneCentralAssumption ==
  /\ IsFiniteSet(Element)
  /\ \E c \in Nodes : \A n \in Nodes : Type(n) = CENTRAL <=> n = c

ASSUME AggregationAssumption ==
  /\ TelemetryAggregation \in [{CENTRAL, REGIONAL, LOCAL_NODE} -> Nat \ {0}]
  /\ BatchAggregation \in [{CENTRAL, REGIONAL, LOCAL_NODE} -> Nat \ {0}]

ASSUME ActuatorTypesAssumption == NumActTypes \in Nat /\ (Of(ACTUATOR) # {} => NumActTypes > 0)

VARIABLES
  messages,                  \* bag of ARRIVE events: [to, job]
  disk_messages,             \* bag of ARRIVE_DISK events: jobs
  station,                   \* bag of the jobs inside each station
  num_telemetry_aggregated,  \* of each node
  num_batch_aggregated,
  generated,                 \* jobs generated so far, by type
  forwarded,                 \* transitions each node has passed on
  answered,                  \* replies each node has consumed
  commands,                  \* how many were issued, and done by an actuator
  stored,                    \* jobs the disk has written, by type
  exited

vars == <<messages, disk_messages, station, num_telemetry_aggregated,
          num_batch_aggregated, generated, forwarded, answered, commands,
          stored, exited>>

JobTypes == {TELEMETRY, TRANSITION, COMMAND, BATCH_DATA, REPLY}

\* fill_job_info: what the routing reads of a job_info.
Job(type, device_sender, device_destination) ==
  [type |-> type, device_sender |-> device_sender, device_destination |-> device_destination]

\* A LAN has a queue for either direction, the central node one for its disk.
Queue(e)  == <<e, "queue">>
LanIn(e)  == <<e, "in">>
LanOut(e) == <<e, "out">>
Disk      == <<Central, "disk">>
Stations  == {Queue(e) : e \in Nodes \cup Of(ACTUATOR)}
               \cup (UNION {{LanIn(l), LanOut(l)} : l \in Of(LAN)}) \cup {Disk}

Init ==
  /\ messages = EmptyBag
  /\ disk_messages = EmptyBag
  /\ station = [s \in Stations |-> EmptyBag]
  /\ num_telemetry_aggregated = [n \in Nodes |-> 0]
  /\ num_batch_aggregated = [n \in Nodes |-> 0]
  /\ generated = [t \in JobTypes |-> 0]
  /\ forwarded = [n \in Nodes |-> 0]
  /\ answered = [n \in Nodes |-> 0]
  /\ commands = [issued |-> 0, done |-> 0]
  /\ stored = [t \in JobTypes |-> 0]
  /\ exited = FALSE

-----------------------------------------------------------------------------
(* Routing.                                                                *)

One(x) == SetToBag({x})
To(e, job) == One([to |-> e, job |-> job])

\* send_to_up_node: nothing is sent above the root.
ToUpNode(e, job) == IF Upper[e] = NONE THEN EmptyBag ELSE To(Upper[e], job)

\* upwardSearchActuatorPaths: the element below n on the way to actuator a.
NextHop(n, a) ==
  LET climb[x \in Element] ==
        IF Upper[x] = n THEN x
        ELSE IF Upper[x] = NONE THEN NONE ELSE climb[Upper[x]]
  IN  climb[a]

Below(n) == {a \in Of(ACTUATOR) : NextHop(n, a) # NONE}

\* send_command: from a node to the next hop, if there is one: the paths of a
\* node lead to the actuators below it and give -1 for any other id.
SendCommand(n, a) ==
  IF a \in Below(n) THEN To(NextHop(n, a), Job(COMMAND, NONE, a)) ELSE EmptyBag

\* get_id_random_actuator: -1 in a network without actuators, otherwise one below
\* the node (the types have positive probabilities).  If there is none below, the
\* probabilities are 0/0, no type is chosen, and the lists are read behind their
\* end: any id, where the program lives on (SelectOutOfBounds).
Selected(n) ==
  IF NumActTypes = 0 THEN {NONE} ELSE IF Below(n) = {} THEN Ends ELSE Below(n)

\* getWanDown.
WanDown(n) == CHOOSE w \in Of(WAN) : Upper[w] = n

\* Mutant: the reply names the node that answers.
MutSendReply(n, sender) == To(WanDown(n), Job(REPLY, n, NONE))

\* send_reply: to the WAN below, which finds the sender.
SendReply(n, sender) == To(WanDown(n), Job(REPLY, sender, NONE))

-----------------------------------------------------------------------------
(* GENERATE_TRANSITION and GENERATE_TELEMETRY.                             *)

Generate(d, type) ==
  /\ messages' = messages (+) To(Upper[d], Job(type, NONE, NONE))
  /\ generated' = [generated EXCEPT ![type] = @ + 1]
  /\ UNCHANGED <<disk_messages, station, num_telemetry_aggregated, num_batch_aggregated,
                 forwarded, answered, commands, stored, exited>>

GenerateTransition(d) == generated[TRANSITION] < MaxTransitions /\ Generate(d, TRANSITION)
GenerateTelemetry(d)  == generated[TELEMETRY] < MaxTelemetry /\ Generate(d, TELEMETRY)

-----------------------------------------------------------------------------
(* ARRIVE and ARRIVE_DISK.                                                 *)

Received(m) == messages (-) One(m)

UnchangedByArrival ==
  UNCHANGED <<num_telemetry_aggregated, num_batch_aggregated, generated, forwarded,
              answered, commands, stored>>

Enter(s, m) ==
  /\ station' = [station EXCEPT ![s] = @ (+) One(m.job)]
  /\ messages' = Received(m)
  /\ UNCHANGED <<disk_messages, exited>>

\* "Error: device type not found", "lan received a data not permitted".
Exit(m) ==
  /\ exited' = TRUE
  /\ messages' = Received(m)
  /\ UNCHANGED <<disk_messages, station>>

\* arrive_node and arrive_actuator; a sensor takes nothing.
ArriveDevice(m) ==
  /\ Kind[m.to] \in {NODE, ACTUATOR, SENSOR}
  /\ IF Kind[m.to] = SENSOR THEN Exit(m) ELSE Enter(Queue(m.to), m)

ArriveLan(m) ==
  /\ Kind[m.to] = LAN
  /\ IF m.job.type \in {TELEMETRY, TRANSITION} THEN Enter(LanOut(m.to), m)
     ELSE IF m.job.type = COMMAND THEN Enter(LanIn(m.to), m)
     ELSE Exit(m)

\* arrive_wan: where a WAN passes a job on to.
WanNext(w, job) ==
  CASE job.type = COMMAND -> NextHop(w, job.device_destination)
    [] job.type = REPLY   -> job.device_sender
    [] OTHER              -> Upper[w]

ArriveWan(m) ==
  /\ Kind[m.to] = WAN
  /\ messages' = Received(m) (+) To(WanNext(m.to, m.job), m.job)
  /\ UNCHANGED <<disk_messages, station, exited>>

Arrive(m) ==
  /\ ArriveDevice(m) \/ ArriveLan(m) \/ ArriveWan(m)
  /\ UnchangedByArrival

ArriveDisk(job) ==
  /\ station' = [station EXCEPT ![Disk] = @ (+) One(job)]
  /\ disk_messages' = disk_messages (-) One(job)
  /\ UNCHANGED <<messages, exited>>
  /\ UnchangedByArrival

-----------------------------------------------------------------------------
(* FINISH and FINISH_DISK, for a job that is completed.                    *)

Leave(s, job) == station' = [station EXCEPT ![s] = @ (-) One(job)]

\* save_data_on_disk.
SaveOnDisk(n, type) ==
  disk_messages' = IF Type(n) = CENTRAL
                   THEN disk_messages (+) One(Job(type, NONE, NONE))
                   ELSE disk_messages

\* Mutant: the count is taken before it is increased.
MutFull(count, max) == count >= max

\* send_aggregated_data: what goes up with the count-th job since the last
\* message went up, and the count it leaves.
Full(count, max) == count + 1 >= max

Aggregated(n, type, count, max) ==
  IF Full(count, max) THEN ToUpNode(n, Job(type, NONE, NONE)) ELSE EmptyBag

Count(count, max) == IF Full(count, max) THEN 0 ELSE count + 1

FinishTelemetry(n, job) ==
  LET count == num_telemetry_aggregated[n]
      max   == TelemetryAggregation[Type(n)]
  IN  /\ job.type = TELEMETRY
      /\ messages' = messages (+) Aggregated(n, TELEMETRY, count, max)
      /\ IF Full(count, max) THEN SaveOnDisk(n, TELEMETRY) ELSE UNCHANGED disk_messages
      /\ num_telemetry_aggregated' = [num_telemetry_aggregated EXCEPT ![n] = Count(count, max)]
      /\ UNCHANGED <<num_batch_aggregated, forwarded, answered, commands>>

\* The reply a node other than a local one sends for a transition.
Reply(n, job) ==
  IF Type(n) # LOCAL_NODE THEN SendReply(n, job.device_sender) ELSE EmptyBag

\* Random() <= prob_cmd: a command for the actuator selected, if any, and one
\* more for the batch.
CommandFromTransition(n, job) ==
  LET count == num_batch_aggregated[n]
      max   == BatchAggregation[Type(n)]
  IN  /\ job.type = TRANSITION
      /\ \E a \in Selected(n) :
           /\ messages' = messages (+) Reply(n, job) (+) SendCommand(n, a)
                            (+) Aggregated(n, BATCH_DATA, count, max)
           /\ commands' = [commands EXCEPT !.issued = @ + IF a = NONE THEN 0 ELSE 1]
      /\ IF Full(count, max) THEN SaveOnDisk(n, BATCH_DATA) ELSE UNCHANGED disk_messages
      /\ num_batch_aggregated' = [num_batch_aggregated EXCEPT ![n] = Count(count, max)]
      /\ UNCHANGED <<num_telemetry_aggregated, forwarded, answered>>

\* The other outcome of reading behind the end of the lists: the program dies.
SelectOutOfBounds(n, job) ==
  /\ job.type = TRANSITION
  /\ NumActTypes > 0 /\ Below(n) = {}
  /\ exited' = TRUE
  /\ UNCHANGED <<messages, disk_messages, station, num_telemetry_aggregated,
                 num_batch_aggregated, generated, forwarded, answered, commands, stored>>

\* Mutant: the transition is passed on as it came, as "the old implementation" did.
MutForwardCopy(n, job) ==
  /\ job.type = TRANSITION
  /\ messages' = messages (+) Reply(n, job)
       (+) ToUpNode(n, IF job.device_sender = NONE THEN Job(TRANSITION, n, NONE) ELSE job)
  /\ SaveOnDisk(n, TRANSITION)
  /\ forwarded' = [forwarded EXCEPT ![n] = @ + 1]
  /\ UNCHANGED <<num_telemetry_aggregated, num_batch_aggregated, answered, commands>>

\* Otherwise the transition goes on up, in the name of this node.
ForwardTransition(n, job) ==
  /\ job.type = TRANSITION
  /\ messages' = messages (+) Reply(n, job) (+) ToUpNode(n, Job(TRANSITION, n, NONE))
  /\ SaveOnDisk(n, TRANSITION)
  /\ forwarded' = [forwarded EXCEPT ![n] = @ + 1]
  /\ UNCHANGED <<num_telemetry_aggregated, num_batch_aggregated, answered, commands>>

\* Mutant: a local node keeps the command.
MutFinishCommand(n, job) ==
  /\ job.type = COMMAND
  /\ messages' = messages (+) (IF Type(n) = LOCAL_NODE THEN EmptyBag
                               ELSE SendCommand(n, job.device_destination))
  /\ UNCHANGED <<disk_messages, num_telemetry_aggregated, num_batch_aggregated,
                 forwarded, answered, commands>>

FinishCommand(n, job) ==
  /\ job.type = COMMAND
  /\ messages' = messages (+) SendCommand(n, job.device_destination)
  /\ UNCHANGED <<disk_messages, num_telemetry_aggregated, num_batch_aggregated,
                 forwarded, answered, commands>>

FinishBatchData(n, job) ==
  LET count == num_batch_aggregated[n]
      max   == BatchAggregation[Type(n)]
  IN  /\ job.type = BATCH_DATA
      /\ messages' = messages (+) Aggregated(n, BATCH_DATA, count, max)
      /\ IF Full(count, max) THEN SaveOnDisk(n, BATCH_DATA) ELSE UNCHANGED disk_messages
      /\ num_batch_aggregated' = [num_batch_aggregated EXCEPT ![n] = Count(count, max)]
      /\ UNCHANGED <<num_telemetry_aggregated, forwarded, answered, commands>>

FinishReply(n, job) ==
  /\ job.type = REPLY
  /\ answered' = [answered EXCEPT ![n] = @ + 1]
  /\ UNCHANGED <<messages, disk_messages, num_telemetry_aggregated, num_batch_aggregated,
                 forwarded, commands>>

FinishNode(n, job) ==
  /\ Leave(Queue(n), job)
  /\ \/ FinishTelemetry(n, job)
     \/ CommandFromTransition(n, job)
     \/ ForwardTransition(n, job)
     \/ FinishCommand(n, job)
     \/ FinishBatchData(n, job)
     \/ FinishReply(n, job)
  /\ UNCHANGED <<generated, stored, exited>>

UnchangedByFinish ==
  UNCHANGED <<num_telemetry_aggregated, num_batch_aggregated, generated, forwarded,
              answered, exited>>

\* Data other than commands only give a warning.
FinishActuator(a, job) ==
  /\ Leave(Queue(a), job)
  /\ commands' = [commands EXCEPT !.done = @ + IF job.type = COMMAND THEN 1 ELSE 0]
  /\ UNCHANGED <<messages, disk_messages, stored>>
  /\ UnchangedByFinish

FinishLanOut(l, job) ==
  /\ Leave(LanOut(l), job)
  /\ messages' = messages (+) ToUpNode(l, job)
  /\ UNCHANGED <<disk_messages, commands, stored>>
  /\ UnchangedByFinish

\* Mutant: the command follows the path above the LAN.
MutFinishLanIn(l, job) ==
  /\ Leave(LanIn(l), job)
  /\ messages' = messages (+) To(NextHop(Upper[l], job.device_destination), job)
  /\ UNCHANGED <<disk_messages, commands, stored>>
  /\ UnchangedByFinish

FinishLanIn(l, job) ==
  /\ Leave(LanIn(l), job)
  /\ messages' = messages (+) To(job.device_destination, job)
  /\ UNCHANGED <<disk_messages, commands, stored>>
  /\ UnchangedByFinish

FinishDisk(job) ==
  /\ Leave(Disk, job)
  /\ stored' = [stored EXCEPT ![job.type] = @ + 1]
  /\ UNCHANGED <<messages, disk_messages, commands>>
  /\ UnchangedByFinish

-----------------------------------------------------------------------------

Inside(s) == BagToSet(station[s])

GenerateStep ==
  \/ \E d \in Of(SENSOR) \cup Of(ACTUATOR) : GenerateTransition(d)
  \/ \E d \in Of(SENSOR) : GenerateTelemetry(d)

ArriveStep ==
  \/ \E m \in BagToSet(messages) : Arrive(m)
  \/ \E job \in BagToSet(disk_messages) : ArriveDisk(job)

FinishStep ==
  \/ \E n \in Nodes : \E job \in Inside(Queue(n)) : FinishNode(n, job)
  \/ \E n \in Nodes : \E job \in Inside(Queue(n)) : SelectOutOfBounds(n, job)
  \/ \E a \in Of(ACTUATOR) : \E job \in Inside(Queue(a)) : FinishActuator(a, job)
  \/ \E l \in Of(LAN) : \E job \in Inside(LanOut(l)) : FinishLanOut(l, job)
  \/ \E l \in Of(LAN) : \E job \in Inside(LanIn(l)) : FinishLanIn(l, job)
  \/ \E job \in Inside(Disk) : FinishDisk(job)

\* Nothing is under way any more.
Drained ==
  /\ messages = EmptyBag /\ disk_messages = EmptyBag
  /\ \A s \in Stations : station[s] = EmptyBag

Quiet == (exited \/ Drained) /\ UNCHANGED vars

Next == GenerateStep \/ (~exited /\ (ArriveStep \/ FinishStep)) \/ Quiet

Spec == Init /\ [][Next]_vars

\* The engine delivers every event it holds; a FINISH event stands behind every
\* job in a station (QueueStation!OneFinishPerBusyCore, EveryJobLeaves).
FairSpec == Spec /\ WF_vars(~exited /\ (ArriveStep \/ FinishStep))

-----------------------------------------------------------------------------
(* Counting jobs.                                                          *)

JobInfo == [type : JobTypes, device_sender : Ends, device_destination : Ends]

\* Where a job is, or is on its way to.
Place == [to : Element, job : JobInfo]

\* What a bag holds, when each of its members counts with its weight.
Weight(bag, w) == SumFunction([x \in BagToSet(bag) |-> w[x] * bag[x]])

\* The weights of the jobs at element e.
At(e, w) == [j \in JobInfo |-> w[[to |-> e, job |-> j]]]

\* Jobs under way between or inside the devices.
UnderWay(w) ==
  Weight(messages, w)
    + SumFunction([s \in Stations \ {Disk} |-> Weight(station[s], At(s[1], w))])

OfType(type) == [j \in JobInfo |-> IF j.type = type THEN 1 ELSE 0]

\* Jobs on their way to the disk, in its queue, or written.
AtDisk(type) ==
  Weight(disk_messages, OfType(type)) + Weight(station[Disk], OfType(type)) + stored[type]

(* Safety.                                                                 *)

\* What a network must offer for the next two, and get_random_actuator for its
\* divisions: an actuator below every node, or no type of actuators at all.
NodesReachActuators == NumActTypes = 0 \/ \A n \in Nodes : Below(n) # {}

\* A job is only ever on its way to a device that can handle it: commands move
\* down a path to their actuator and to no other, a reply is for a node directly
\* below the WAN that carries it, a transition that reaches a node above the
\* local one names a node below it that waits for the reply, and a LAN, which
\* would exit, sees no reply and no batch data.  So the program never exits, if
\* every node reaches an actuator.
OnPath(m) == m.to = m.job.device_destination \/ NextHop(m.to, m.job.device_destination) # NONE
AnswersBelow(m) == m.job.device_sender \in Nodes /\ m.to \in {m.job.device_sender, Upper[m.job.device_sender]}
AsksAbove(m) == /\ m.job.device_sender \in Nodes
                /\ m.to \in {Upper[m.job.device_sender], Upper[Upper[m.job.device_sender]]}
SoundRouting ==
  ~exited /\ \A m \in BagToSet(messages) :
    CASE m.job.type = COMMAND    -> m.job.device_destination \in Of(ACTUATOR) /\ OnPath(m)
      [] m.job.type = REPLY      -> AnswersBelow(m)
      [] m.job.type = BATCH_DATA -> Kind[m.to] \in {NODE, WAN}
      [] m.job.type = TELEMETRY  -> Kind[m.to] \in {NODE, WAN, LAN}
      [] m.job.type = TRANSITION -> \/ Kind[m.to] = LAN \/ (m.to \in Nodes /\ Type(m.to) = LOCAL_NODE)
                                    \/ AsksAbove(m)

\* Every transition a node has passed up is still on its way up, or its reply
\* is on its way down, or the node has had the reply: exactly one reply for each
\* transition, and to the node that asked, however the answers of several nodes
\* below one WAN mix.  What the central node passes on is on the disk, once.
Awaited(n) ==
  [m \in Place |-> IF m.job.type \in {TRANSITION, REPLY} /\ m.job.device_sender = n THEN 1 ELSE 0]
OneReplyPerTransition ==
  /\ \A n \in Nodes \ {Central} : forwarded[n] = answered[n] + UnderWay(Awaited(n))
  /\ forwarded[Central] = AtDisk(TRANSITION)

\* Every command issued is under way, or was done by the actuator it was for, if
\* every node reaches an actuator.
Commands == [m \in Place |-> IF m.job.type = COMMAND THEN 1 ELSE 0]
CommandsConserved == commands.issued = commands.done + UnderWay(Commands)

\* How many measurements of a sensor a telemetry job stands for when it reaches
\* element e: the aggregation of the levels below.
Stands(e) ==
  LET level == IF Kind[e] = WAN THEN Type(Upper[e]) ELSE IF Kind[e] = NODE THEN Type(e) ELSE LOCAL_NODE
  IN  CASE level = LOCAL_NODE -> 1
        [] level = REGIONAL   -> TelemetryAggregation[LOCAL_NODE]
        [] level = CENTRAL    -> TelemetryAggregation[LOCAL_NODE] * TelemetryAggregation[REGIONAL]

Measurements == [m \in Place |-> IF m.job.type = TELEMETRY THEN Stands(m.to) ELSE 0]

\* No measurement is lost or counted twice: each is under way, in the aggregate
\* a node has begun, or on the disk of the central node.
TelemetryConserved ==
  generated[TELEMETRY] =
    UnderWay(Measurements)
      + SumFunction([n \in Nodes |-> Stands(n) * num_telemetry_aggregated[n]])
      + Stands(Central) * TelemetryAggregation[CENTRAL] * AtDisk(TELEMETRY)

(* Liveness.                                                               *)

\* In the end every transition passed up has been answered and nothing is left on
\* its way, neither a reply nor a command, unless a node that reaches no actuator
\* has ended the program.
Settles ==
  <>[](\/ exited /\ ~NodesReachActuators
       \/ Drained /\ \A n \in Nodes \ {Central} : answered[n] = forwarded[n])

=============================================================================
