--------------------------- MODULE AnalyticModel ---------------------------
(***************************************************************************)
(* model_computation/formulas.c: the queueing model of a topology.  After  *)
(* getTopology three visits of the tree, from the central node down:       *)
(* rates, from the leaves up; commands, from the root down, with the       *)
(* parameters of every queue; and the printing of the results, from the    *)
(* leaves up, which frees what the other two computed.                     *)
(***************************************************************************)
EXTENDS Topology, Rationals

CONSTANTS
  ModelCriteria,       \* the LP files the model is computed with (it does not use them)
  ProbOfActuators,     \* probability of each type of actuator
  SensorRates,         \* TELEMETRY and TRANSITION rates of a sensor
  RateTransition,      \* of an actuator
  ProbCommandResponse, \* by type of node
  AggregationRate,     \* by type of node and class
  NumberOfCores,       \* by type of node
  ServiceTimesNodes,   \* by type of node and class
  ServiceTimeCommand,  \* of an actuator
  LansIn, LansOut, DiskServices  \* by class

VARIABLES
  visit,   \* the visit under way
  stack,   \* the calls of graph_visit: element, and number of children visited
  data,    \* node_data of every element that is allocated
  json     \* what print_json has written

modelVars == <<visit, stack, data, json>>

Classes == {"TELEMETRY", "TRANSITION", "COMMAND", "BATCH", "REPLY"}
Upward  == {"TELEMETRY", "TRANSITION", "BATCH"}

\* The parameters the model is computed from are numbers, for every type in the tree.
ASSUME ModelAssumption ==
  /\ \A t \in Trees : \A e \in DOMAIN t.kind :
       t.kind[e] = ACTUATOR => ProbOfActuators[t.device_type[e]] \in Number
  /\ RateTransition \in Number /\ ServiceTimeCommand \in Number
  /\ \A c \in Classes : SensorRates[c] \in Number /\ LansIn[c] \in Number
                         /\ LansOut[c] \in Number /\ DiskServices[c] \in Number
  /\ \A n \in {CENTRAL, REGIONAL, LOCAL_NODE} :
       /\ ProbCommandResponse[n] \in Number /\ NumberOfCores[n] \in Nat \ {0}
       /\ \A c \in Classes : AggregationRate[n][c] \in Number /\ ServiceTimesNodes[n][c] \in Number

Zeros == [c \in Classes |-> Zero]
Among(S, f) == [c \in Classes |-> IF c \in S THEN f[c] ELSE Zero]

Is(e, t) == e \in Nodes(t)

-----------------------------------------------------------------------------
(* init_node_data.                                                         *)

\* One queue: visits by class; service times, demands, utilizations, response times
\* A and B and mean number of events by class; total utilization.
Queue(visits) ==
  [visits |-> visits, service |-> Zeros, demand |-> Zeros, utilization |-> Zeros,
   total |-> Zero, response_A |-> Zeros, events |-> Zeros, response_B |-> Zeros]

VisitedBy(S) == [c \in Classes |-> IF c \in S THEN 1 ELSE 0]

Queues(e) ==
  CASE tree.kind[e] = LAN ->
         [in  |-> Queue(VisitedBy({"COMMAND"})),
          out |-> Queue(VisitedBy({"TRANSITION", "TELEMETRY"}))]
    [] tree.kind[e] = ACTUATOR -> [node |-> Queue(VisitedBy({"COMMAND"}))]
    [] tree.kind[e] \in {SENSOR, WAN} -> [node |-> Queue(VisitedBy({}))]
    [] Is(e, CENTRAL) ->
         [node    |-> Queue(VisitedBy(Upward)),
          storage |-> Queue(VisitedBy(Upward))]
    [] OTHER -> [node |-> Queue(VisitedBy(Upward \cup {"COMMAND"}))]

InitNodeData(e, father) ==
  [father |-> father, children |-> <<>>, input_rates |-> Zeros, output_rates |-> Zeros,
   queues |-> Queues(e)]

Cores(e) == IF e \in Kind(NODE) THEN NumberOfCores[tree.node_type[e]] ELSE 1

\* find_nodes_to_visit: the lower elements, and the LANs that are not among them.
Lans(e) == Range(lowers[e]) \cap Kind(LAN)
NodesToVisit(e) ==
  LET others == Lans(e) \ Range(lowers[e])
  IN  lowers[e] \o Places(others, Cardinality(others))

-----------------------------------------------------------------------------
(* compute_data: the rates.                                                *)

P(e) == ProbCommandResponse[tree.node_type[e]]
Generated(d, e) == P(e) ** d[e].input_rates["TRANSITION"]
Aggregated(e, c, rate) == rate // AggregationRate[tree.node_type[e]][c]

\* What a node sends upwards of its input, by class.
\* Mutant: the transitions answered with a command are passed on as well.
MutSentUp(e, in) ==
  Among(Upward, [TELEMETRY  |-> Aggregated(e, "TELEMETRY", in["TELEMETRY"]),
                 TRANSITION |-> in["TRANSITION"],
                 BATCH      |-> Aggregated(e, "BATCH", in["BATCH"] ++ (P(e) ** in["TRANSITION"]))])

SentUp(e, in) ==
  Among(Upward, [TELEMETRY  |-> Aggregated(e, "TELEMETRY", in["TELEMETRY"]),
                 TRANSITION |-> in["TRANSITION"] ** (One -- P(e)),
                 BATCH      |-> Aggregated(e, "BATCH", in["BATCH"] ++ (P(e) ** in["TRANSITION"]))])

Children(d, e) == Range(d[e].children)
FromChildren(d, e) ==
  [c \in Classes |-> Sum([l \in Children(d, e) |-> d[l].output_rates[c]])]

OwnRates(e) ==
  IF e \in Kind(SENSOR) THEN Among({"TELEMETRY", "TRANSITION"}, SensorRates)
  ELSE [Zeros EXCEPT !["TRANSITION"] = RateTransition]

NodeRates(d, e) ==
  LET in == Among(Upward, FromChildren(d, e))
  IN  [d[e] EXCEPT !.input_rates = in, !.output_rates = SentUp(e, in)]

\* The LAN sums the rates of its devices itself.
OfDevices(d, e) ==
  [c \in Classes |-> Sum([l \in Children(d, e) |-> OwnRates(l)[c]])]

\* A WAN sums what its children send, at every visit, and no father was looked up
\* for it.
Rates(d, e) ==
  CASE tree.kind[e] \in {SENSOR, ACTUATOR} -> [d[e] EXCEPT !.output_rates = OwnRates(e)]
    [] tree.kind[e] = LAN  -> [d[e] EXCEPT !.output_rates = OfDevices(d, e)]
    [] tree.kind[e] = WAN  -> [d[e] EXCEPT !.output_rates = FromChildren(d, e)]
    [] tree.kind[e] = NODE -> NodeRates(d, e)

\* The actuators below, weighted with their probabilities.
Weight(e) == Sum([t \in Types(ACTUATOR) |-> Q(types_below[ACTUATOR][e][t], 1) ** ProbOfActuators[t]])

FatherType(e) ==
  IF Is(e, LOCAL_NODE) THEN REGIONAL ELSE IF e \in Kind(NODE) THEN CENTRAL ELSE LOCAL_NODE

\* Mutant: the father is the element directly above.
MutFather(d, e) == d[e].father

\* The node of that type on the way up; the code relies on there being one, here the
\* central node ends the search.
Father(d, e) ==
  LET climb[f \in Elements] ==
        IF Is(f, FatherType(e)) \/ d[f].father = None THEN f ELSE climb[d[f].father]
  IN  climb[d[e].father]

\* The share of its father's commands that comes to e.
Share(d, e) ==
  (d[Father(d, e)].output_rates["COMMAND"]
    ** (IF e \in Kind(ACTUATOR) THEN ProbOfActuators[tree.device_type[e]] ELSE Weight(e)))
    // Weight(Father(d, e))

CommandRates(d, e) ==
  CASE Is(e, CENTRAL) -> [d[e] EXCEPT !.output_rates["COMMAND"] = Generated(d, e)]
    [] e \in Kind(NODE) \ Nodes(CENTRAL) ->
         [d[e] EXCEPT !.input_rates["COMMAND"] = Share(d, e),
                      !.output_rates["COMMAND"] = Share(d, e) ++ Generated(d, e)]
    [] tree.kind[e] \in {LAN, ACTUATOR} -> [d[e] EXCEPT !.input_rates["COMMAND"] = Share(d, e)]
    [] tree.kind[e] = WAN -> [d[e] EXCEPT !.output_rates = FromChildren(d, e)]
    [] OTHER -> d[e]

-----------------------------------------------------------------------------
(* compute_data: the queues.                                               *)

\* The rates a queue is offered.
Offered(x, q) ==
  CASE q = "out"     -> x.output_rates
    [] q = "storage" -> Among(Upward, x.output_rates)
    [] OTHER         -> x.input_rates

\* A transition at a regional or local node may also cost a reply.
ServiceTimes(e, q) ==
  CASE q = "in"      -> Among({"COMMAND"}, LansIn)
    [] q = "out"     -> Among({"TELEMETRY", "TRANSITION"}, LansOut)
    [] q = "storage" -> Among(Upward, DiskServices)
    [] e \in Kind(ACTUATOR) -> [Zeros EXCEPT !["COMMAND"] = ServiceTimeCommand]
    [] e \in Kind(NODE)     -> Among(IF Is(e, CENTRAL) THEN Classes \ {"REPLY"} ELSE Classes,
                                     ServiceTimesNodes[tree.node_type[e]])
    [] OTHER -> Zeros

Demand(e, q, visits, service, c) ==
  Q(visits[c], 1) ** (IF q = "node" /\ c = "TRANSITION" /\ e \in Kind(NODE) \ Nodes(CENTRAL)
                      THEN service[c] ++ ((One -- P(e)) ** service["REPLY"])
                      ELSE service[c])

\* Utilizations add up in the total; classes without traffic are left alone.  A
\* storage system has one server whatever the node's cores.
Solve(e, q, queue, rates) ==
  LET active == {c \in Classes : Positive(rates[c])}
      cores  == IF q = "storage" THEN 1 ELSE Cores(e)
      service == ServiceTimes(e, q)
      demand == Among(active, [c \in Classes |-> Demand(e, q, queue.visits, service, c)])
      utilization == [c \in Classes |-> (rates[c] ** demand[c]) // Q(cores, 1)]
      total  == queue.total ++ Sum([c \in active |-> utilization[c]])
      events == [c \in Classes |-> utilization[c] // (One -- total)]
      weighted == Sum([c \in active |-> events[c] ** demand[c]])
  IN  [visits |-> queue.visits, service |-> service, demand |-> demand,
       utilization |-> Among(active, utilization), total |-> total,
       response_A  |-> Among(active, [c \in Classes |-> demand[c] // (One -- total)]),
       events      |-> Among(active, events),
       response_B  |-> Among(active, [c \in Classes |-> weighted ++ demand[c]])]

Solved(e, x) ==
  [x EXCEPT !.queues = [q \in DOMAIN x.queues |-> Solve(e, q, x.queues[q], Offered(x, q))]]

\* Mutant: the queues are solved at both visits.
MutComputeData(d, e, v) ==
  [d EXCEPT ![e] = Solved(e, IF v = "GRAPH_COMPUTE_RATES" THEN Rates(d, e) ELSE CommandRates(d, e))]

ComputeData(d, e, v) ==
  [d EXCEPT ![e] = IF v = "GRAPH_COMPUTE_RATES" THEN Rates(d, e)
                   ELSE Solved(e, CommandRates(d, e))]

-----------------------------------------------------------------------------
(* print_json and free_node_data.                                          *)

\* WANs and sensors are left out; the element of the start comes last and needs no
\* comma after it.
IsPrinted(e) == tree.kind[e] \notin {WAN, SENSOR}
FindCentral  == CHOOSE e \in Nodes(CENTRAL) : \A f \in Nodes(CENTRAL) : e <= f

\* Mutant: a comma after every element.
MutEntry(x, e) ==
  [id |-> e, comma |-> TRUE,
   parameters |-> [q \in DOMAIN x.queues |-> [lambda_in |-> Offered(x, q), queue |-> x.queues[q]]]]

Entry(x, e) ==
  [id |-> e, comma |-> e # FindCentral,
   parameters |-> [q \in DOMAIN x.queues |-> [lambda_in |-> Offered(x, q), queue |-> x.queues[q]]]]

\* The children's structures go back to the allocator; the element's own is zeroed
\* and goes when its father is printed.
Freed == [father |-> None, children |-> <<>>, queues |-> <<>>]
FreeNodeData(d, e) ==
  [x \in DOMAIN d \ Children(d, e) |-> IF x = e THEN Freed ELSE d[x]]

-----------------------------------------------------------------------------
(* graph_visit, one action for each call and each return.                  *)

Call(e) == [element |-> e, visited |-> 0]
Top     == stack[Len(stack)]

\* Before the children: they are allocated in the first visit, commands are computed
\* in the second.
Entered(d, e, v) ==
  CASE v = "GRAPH_COMPUTE_RATES" ->
         [x \in DOMAIN d \cup Range(NodesToVisit(e)) |->
            IF x \in Range(NodesToVisit(e)) THEN InitNodeData(x, e)
            ELSE IF x = e THEN [d[x] EXCEPT !.children = NodesToVisit(e)] ELSE d[x]]
    [] v = "GRAPH_COMPUTE_COMMANDS" -> ComputeData(d, e, v)
    [] OTHER -> d

\* After the children.
Left(d, e, v) ==
  CASE v = "GRAPH_COMPUTE_RATES" -> ComputeData(d, e, v)
    [] v = "GRAPH_PRINT_DATA" -> FreeNodeData(d, e)
    [] OTHER -> d

ModelInit ==
  /\ Init
  /\ visit = "NONE" /\ stack = <<>> /\ data = <<>> /\ json = <<>>

\* main: the first visit starts from the central node, which has no father.
StartModel ==
  /\ visit = "NONE" /\ "neighbours" \in done /\ criteria \in ModelCriteria
  /\ visit' = "GRAPH_COMPUTE_RATES"
  /\ stack' = <<Call(FindCentral)>>
  /\ data' = Entered([e \in {FindCentral} |-> InitNodeData(e, None)], FindCentral, visit')
  /\ UNCHANGED json

NextVisit ==
  /\ stack = <<>> /\ visit \in {"GRAPH_COMPUTE_RATES", "GRAPH_COMPUTE_COMMANDS"}
  /\ visit' = IF visit = "GRAPH_COMPUTE_RATES" THEN "GRAPH_COMPUTE_COMMANDS" ELSE "GRAPH_PRINT_DATA"
  /\ stack' = <<Call(FindCentral)>>
  /\ data' = Entered(data, FindCentral, visit')
  /\ UNCHANGED json

Descend ==
  /\ stack # <<>> /\ Top.visited < Len(data[Top.element].children)
  /\ LET child == data[Top.element].children[Top.visited + 1]
     IN  /\ stack' = Append([stack EXCEPT ![Len(stack)].visited = @ + 1], Call(child))
         /\ data' = Entered(data, child, visit)
  /\ UNCHANGED <<visit, json>>

Return ==
  /\ stack # <<>> /\ Top.visited = Len(data[Top.element].children)
  /\ stack' = SubSeq(stack, 1, Len(stack) - 1)
  /\ data' = Left(data, Top.element, visit)
  /\ json' = IF visit = "GRAPH_PRINT_DATA" /\ IsPrinted(Top.element)
             THEN Append(json, Entry(data[Top.element], Top.element)) ELSE json
  /\ UNCHANGED visit

Finish ==
  /\ stack = <<>> /\ visit = "GRAPH_PRINT_DATA"
  /\ visit' = "NUM_GRAPH_VISITS"
  /\ data' = <<>>
  /\ UNCHANGED <<stack, json>>

ModelNext ==
  \/ visit = "NONE" /\ Next /\ UNCHANGED modelVars
  \/ (StartModel \/ NextVisit \/ Descend \/ Return \/ Finish) /\ UNCHANGED vars
  \/ visit = "NUM_GRAPH_VISITS" /\ UNCHANGED <<vars, modelVars>>

ModelSpec == ModelInit /\ [][ModelNext]_<<vars, modelVars>>

-----------------------------------------------------------------------------
(* The recursion passes rates from an element to the next; the properties  *)
(* follow every flow from its source to its end, in what was printed.      *)

Over == visit = "NUM_GRAPH_VISITS"
Figures(e, q) == json[CHOOSE i \in DOMAIN json : json[i].id = e].parameters[q]

NodesBetween(e, n) == {m \in Above(e) \cap Kind(NODE) : n \in Above(m)}
Under(n, S) == {e \in S : n \in Above(e)}

\* What of a device's transitions reaches node n unanswered.
TransitionFlow(n) ==
  Sum([d \in Under(n, Devices) |->
    OwnRates(d)["TRANSITION"] ** Product([m \in NodesBetween(d, n) |-> One -- P(m)])])

TelemetryFlow(n) ==
  Sum([d \in Under(n, Devices) |->
    OwnRates(d)["TELEMETRY"]
      // Product([m \in NodesBetween(d, n) |-> AggregationRate[tree.node_type[m]]["TELEMETRY"]])])

\* What node m logs of its own: the transitions it answers.
Commands(m) == P(m) ** TransitionFlow(m)

BatchFlow(n) ==
  Sum([m \in Under(n, Kind(NODE)) |->
    Commands(m) // Product([k \in {m} \cup NodesBetween(m, n) |-> AggregationRate[tree.node_type[k]]["BATCH"]])])

\* Every node is offered the devices' measurements and transitions as the nodes on
\* the way have aggregated and answered them, and the batches that those answers
\* make; the disk of the central node what leaves it.
UpwardRates ==
  Over => \A n \in Kind(NODE) :
    LET rate == Figures(n, "node").lambda_in
    IN  /\ rate["TELEMETRY"] = TelemetryFlow(n)
        /\ rate["TRANSITION"] = TransitionFlow(n)
        /\ rate["BATCH"] = BatchFlow(n)
        /\ Is(n, CENTRAL) =>
             /\ Figures(n, "storage").lambda_in["TRANSITION"] ++ Commands(n) = TransitionFlow(n)
             /\ Figures(n, "storage").lambda_in["TELEMETRY"] = Aggregated(n, "TELEMETRY", TelemetryFlow(n))
             /\ Figures(n, "storage").lambda_in["BATCH"] = Aggregated(n, "BATCH", BatchFlow(n) ++ Commands(n))

CommandsInto(e) == Figures(e, IF tree.kind[e] = LAN THEN "in" ELSE "node").lambda_in["COMMAND"]

\* Every command reaches an actuator: below each node and LAN the actuators get
\* what comes in and what the nodes there generate, each in proportion to its
\* probability.  Where the node above reaches no actuator (of positive probability)
\* the rate is 0/0, and only there.
CommandsReachActuators ==
  Over => \A e \in Kind(NODE) \cup Kind(LAN) \cup Kind(ACTUATOR) :
    LET reachable == Under(e, Kind(ACTUATOR))
        sources   == {m \in ({e} \cup Under(e, Kind(NODE))) \cap Kind(NODE) : Positive(Weight(m))}
        starved   == \E n \in Above(e) \cap Kind(NODE) : ~Positive(Weight(n))
    IN  /\ CommandsInto(e) = NaN <=> starved
        /\ e \notin Kind(ACTUATOR) /\ Positive(Weight(e)) =>
             Sum([a \in {x \in reachable : CommandsInto(x) # NaN} |-> CommandsInto(a)])
               = CommandsInto(e) ++ Sum([m \in sources |-> Commands(m)])
        /\ e \in Kind(ACTUATOR) /\ ~starved =>
             CommandsInto(e) = Sum([n \in Above(e) \cap Kind(NODE) |->
               (Commands(n) ** ProbOfActuators[tree.device_type[e]]) // Weight(n)])

\* The file has every queueing element once, after all those below it, and commas
\* between the elements only.
ResultsComplete ==
  Over =>
    /\ \A e \in Elements : Cardinality({i \in DOMAIN json : json[i].id = e}) = IF IsPrinted(e) THEN 1 ELSE 0
    /\ \A i, j \in DOMAIN json : json[i].id \in Above(json[j].id) => j < i
    /\ \A i \in DOMAIN json : json[i].comma <=> i < Len(json)

\* Every queue is printed as init_node_data allocated it and as one solution makes it,
\* at the rates that are printed beside it: none was solved at two of the visits (the
\* total adds up over calls) and none at rates that changed after it.
QueuesSolvedOnce ==
  Over => \A i \in DOMAIN json :
    LET e       == json[i].id
        figures == json[i].parameters
    IN  /\ DOMAIN figures = DOMAIN Queues(e)
        /\ \A q \in DOMAIN figures :
             figures[q].queue = Solve(e, q, Queues(e)[q], figures[q].lambda_in)

\* What is printed is complete, and each queue is the solution of its own rates.
ResultsConsistent == ResultsComplete /\ QueuesSolvedOnce

=============================================================================
