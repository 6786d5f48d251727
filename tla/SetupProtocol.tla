--------------------------- MODULE SetupProtocol ---------------------------
(***************************************************************************)
(* The setup by messages (setup_master): LP 0 reads the whole topology and *)
(* sends every LP its part, one message for each struct and one for each   *)
(* array a struct points to, all scheduled at once.  A message says which  *)
(* struct its data belongs to and what type it has, but not which field:   *)
(* the receiver puts it in the first field of that type that is still NULL *)
(* and exits when there is none.  Only the timestamps keep the fields      *)
(* apart.                                                                  *)
(*                                                                         *)
(* In the SETUP_INDEPENDENT build every LP reads its own part from the LP  *)
(* files instead (setup_independent).                                      *)
(*                                                                         *)
(* The engine hands an LP its events by timestamp, ties in any order; LPs  *)
(* advance independently.  Timestamps are in hundredths.                   *)
(***************************************************************************)
EXTENDS LpFiles, IdMap

CONSTANT
  NPrcTot    \* n_prc_tot: the LPs the engine was started with

LP == 0 .. NPrcTot - 1
Used == DOMAIN LpElements
Devices(lp) == IF lp \in Used THEN Range(LpElements[lp]) ELSE {}

\* With fewer LPs than the topology needs, the setup exits at once.
ASSUME SetupAssumption ==
  /\ NPrcTot \in Nat /\ Used = 0 .. NumLps - 1 /\ NumLps \in 1 .. NPrcTot
  /\ IsFiniteSet(Elements) /\ Elements \subseteq Nat /\ Elements = UNION {Devices(lp) : lp \in Used}
  /\ TypeOf \in [Elements -> {NODE, SENSOR, ACTUATOR, LAN, WAN}]
  /\ Central \subseteq {e \in Elements : TypeOf[e] = NODE}

\* ts_data.
TS_DISABLE_UNUSED_LP       == 100
TS_RECV_LP_STATE_INFO      == 200
TS_RECV_GENERAL_TOPOLOGY   == 300
TS_RECV_ELEMENT_INDEX_MAP  == 400
TS_RECV_DEVICES            == 500
TS_RECV_ELEMENT_TOPOLOGY   == 600
TS_RECV_SPECIFIC_TOPOLOGY  == 700
TS_RECV_BELOW_DEVICES_INFO == 800
\* Mutant: the start does not wait for the last messages.
MutTsStartSimulation == 800

TS_START_SIMULATION == 900

VARIABLES
  independent, \* SETUP_INDEPENDENT is defined
  lp_enabled,  \* LP_DISABLED, LP_SETUP or LP_ENABLED, per LP
  lp_state,    \* per LP: the fields received so far and what they hold
  device,      \* per element: the same for its device_state
  events,      \* per LP: the events that wait
  exited

vars == <<independent, lp_enabled, lp_state, device, events, exited>>

\* A field is NULL as long as it is not in the domain of its struct.
Empty == [f \in {} |-> f]
IsSet(s, f) == f \in DOMAIN s
Put(s, f, data) == [x \in DOMAIN s \cup {f} |-> IF x = f THEN data ELSE s[x]]

\* What a message carries: the data of one field of one LP or element.
Data(of, field) == [of |-> of, field |-> field]

\* create_setup_message.
Message(ts, container, data_type, of, field) ==
  [ts |-> ts, event |-> "RECEIVE_SETUP_MESSAGE", container |-> container,
   data_type |-> data_type, data |-> Data(of, field)]

Event(ts, event) == [ts |-> ts, event |-> event]

Init ==
  /\ lp_enabled = [lp \in LP |-> "LP_SETUP"]
  /\ lp_state = [lp \in LP |-> Empty]
  /\ device = [e \in Elements |-> Empty]
  /\ independent \in BOOLEAN
  /\ events = [lp \in LP |-> IF lp = 0 \/ independent THEN {Event(0, "INIT")} ELSE {}]
  /\ exited = FALSE

-----------------------------------------------------------------------------
(* Sending.                                                                *)

\* The messages for the fields of e in "list", each <<container, type, field>>,
\* a skew of one hundredth between them.
InOrder(ts, e, list) ==
  {Message(ts + i - 1, list[i][1], list[i][2], e, list[i][3]) : i \in DOMAIN list}

\* send_element_topology.
ElementMessages(e) ==
  InOrder(TS_RECV_ELEMENT_TOPOLOGY, e,
    <<<<"DEVICE_STATE", "ELEMENT_TOPOLOGY", "topology">>>>
    \o (IF HasPaths(e) THEN <<<<"ELEMENT_TOPOLOGY", "PIDMAP", "actuatorPaths">>>> ELSE <<>>)
    \o <<<<"ELEMENT_TOPOLOGY", "PIDMAP", "ElementToLPMapping">>>>)

\* Mutant: the service times are sent first.
MutNodeMessages(e) ==
  <<<<"ELEMENT_TOPOLOGY", NODE, "spec_top">>, <<NODE, "PDOUBLE", "service_time">>,
    <<NODE, "PINT", "aggregation_rate">>>>
  \o (IF e \in Central THEN <<<<NODE, "PDOUBLE", "diskServices">>>> ELSE <<>>)

\* send_node_topology.
NodeMessages(e) ==
  <<<<"ELEMENT_TOPOLOGY", NODE, "spec_top">>>>
  \o (IF e \in Central THEN <<<<NODE, "PDOUBLE", "diskServices">>>> ELSE <<>>)
  \o <<<<NODE, "PINT", "aggregation_rate">>, <<NODE, "PDOUBLE", "service_time">>>>

\* send_node_topology, send_lan_topology, send_wan_topology, send_sensor_topology,
\* send_actuator_topology.
SpecificMessages(e) ==
  InOrder(TS_RECV_SPECIFIC_TOPOLOGY, e,
    CASE TypeOf[e] = NODE   -> NodeMessages(e)
      [] TypeOf[e] = LAN    -> <<<<"ELEMENT_TOPOLOGY", LAN, "spec_top">>,
                                 <<LAN, "PDOUBLE", "LANsINserviceTimes">>,
                                 <<LAN, "PDOUBLE", "LANsOUTserviceTimes">>>>
      [] TypeOf[e] = SENSOR -> <<<<"ELEMENT_TOPOLOGY", SENSOR, "spec_top">>,
                                 <<SENSOR, "PDOUBLE", "sensorRates">>>>
      [] OTHER              -> <<<<"ELEMENT_TOPOLOGY", TypeOf[e], "spec_top">>>>)

\* send_below_devices_info.
BelowMessages(e) ==
  IF ~HasPaths(e) THEN {}
  ELSE InOrder(TS_RECV_BELOW_DEVICES_INFO, e,
         <<<<TypeOf[e], "PINT", "actuatorsTypesBelow">>, <<TypeOf[e], "PINT", "ListActuatorsByType">>>>)

\* send_general_topology.
GeneralMessages(lp) ==
  {Message(TS_RECV_GENERAL_TOPOLOGY, "LP_STATE", "GENERAL_TOPOLOGY", lp, "general_topology"),
   Message(TS_RECV_GENERAL_TOPOLOGY + 1, "GENERAL_TOPOLOGY", "PDOUBLE", lp, "probOfActuators")}

\* send_lp_info, send_idmap: no idmap for an LP without devices.
LpMessages(lp) ==
  {Message(TS_RECV_LP_STATE_INFO, "LP_STATE", "PINT", lp, "number_lps_enabled"),
   Message(TS_RECV_DEVICES, "LP_STATE", "DEVICES_ARRAY", lp, "devices_array")}
  \cup (IF Devices(lp) = {} THEN {}
        ELSE {Message(TS_RECV_ELEMENT_INDEX_MAP, "LP_STATE", "PIDMAP", lp, "element_to_index")})

AllMessages(lp) ==
  GeneralMessages(lp) \cup LpMessages(lp)
  \cup UNION {ElementMessages(e) \cup SpecificMessages(e) \cup BelowMessages(e) : e \in Devices(lp)}

\* Mutant: an LP that is not needed is started as well, as in the independent setup.
MutSetupMaster(lp) ==
  (IF lp \in Used THEN AllMessages(lp) ELSE {Event(TS_DISABLE_UNUSED_LP, "DISABLE_UNUSED_LP")})
  \cup {Event(TS_START_SIMULATION, "START_SIMULATION")}

\* setup_master: the events it schedules for an LP.
SetupMaster(lp) ==
  IF lp \in Used THEN AllMessages(lp) \cup {Event(TS_START_SIMULATION, "START_SIMULATION")}
  ELSE {Event(TS_DISABLE_UNUSED_LP, "DISABLE_UNUSED_LP")}

-----------------------------------------------------------------------------
(* Receiving.                                                              *)

\* The fields of each struct, in the order in which its receiver tries them.
Fields(container, e) ==
  CASE container = "DEVICE_STATE"     -> <<<<"topology", "ELEMENT_TOPOLOGY">>>>
    [] container = "ELEMENT_TOPOLOGY" ->
         (IF HasPaths(e) THEN <<<<"actuatorPaths", "PIDMAP">>>> ELSE <<>>)
         \o <<<<"ElementToLPMapping", "PIDMAP">>, <<"spec_top", TypeOf[e]>>>>
    [] container = NODE ->
         (IF e \in Central THEN <<<<"diskServices", "PDOUBLE">>>> ELSE <<>>)
         \o <<<<"aggregation_rate", "PINT">>, <<"service_time", "PDOUBLE">>,
              <<"actuatorsTypesBelow", "PINT">>, <<"ListActuatorsByType", "PINT">>>>
    [] container = LAN ->
         <<<<"LANsINserviceTimes", "PDOUBLE">>, <<"LANsOUTserviceTimes", "PDOUBLE">>,
           <<"actuatorsTypesBelow", "PINT">>, <<"ListActuatorsByType", "PINT">>>>
    [] container = WAN -> <<<<"actuatorsTypesBelow", "PINT">>, <<"ListActuatorsByType", "PINT">>>>
    [] container = SENSOR -> <<<<"sensorRates", "PDOUBLE">>>>

\* The structs that must have been received before.
Needs(container) ==
  CASE container = "DEVICE_STATE"     -> {}
    [] container = "ELEMENT_TOPOLOGY" -> {"topology"}
    [] OTHER                          -> {"topology", "spec_top"}

\* idmap_search in recv_setup_message.
Located(lp, e) ==
  /\ IsSet(lp_state[lp], "devices_array") /\ IsSet(lp_state[lp], "element_to_index")
  /\ e \in Devices(lp_state[lp]["element_to_index"].of)

\* recv_data_in_element_topology and its siblings: the places among the fields of
\* its struct that the data fits, and the field it is put in.
Fits(m, e) ==
  {i \in DOMAIN Fields(m.container, e) :
     /\ Fields(m.container, e)[i][2] = m.data_type
     /\ ~IsSet(device[e], Fields(m.container, e)[i][1])}

FirstFit(m, e) ==
  Fields(m.container, e)[CHOOSE i \in Fits(m, e) : \A j \in Fits(m, e) : i <= j][1]

RecvInDevice(lp, m) ==
  LET e == m.data.of
  IN  /\ m.container \notin {"LP_STATE", "GENERAL_TOPOLOGY"}
      /\ IF Located(lp, e) /\ Needs(m.container) \subseteq DOMAIN device[e] /\ Fits(m, e) # {}
         THEN /\ device' = [device EXCEPT ![e] = Put(@, FirstFit(m, e), m.data)]
              /\ UNCHANGED exited
         ELSE exited' = TRUE /\ UNCHANGED device
      /\ UNCHANGED lp_state

\* recv_data_in_general_topology.
RecvInGeneralTopology(lp, m) ==
  /\ m.container = "GENERAL_TOPOLOGY"
  /\ IF IsSet(lp_state[lp], "general_topology") /\ ~IsSet(lp_state[lp], "probOfActuators")
        /\ m.data_type = "PDOUBLE"
     THEN lp_state' = [lp_state EXCEPT ![lp] = Put(@, "probOfActuators", m.data)] /\ UNCHANGED exited
     ELSE exited' = TRUE /\ UNCHANGED lp_state
  /\ UNCHANGED device

\* recv_data_in_lp_state: one field for each type; what is there already stays.
LpField == [DEVICES_ARRAY |-> "devices_array", PIDMAP |-> "element_to_index",
            GENERAL_TOPOLOGY |-> "general_topology", PINT |-> "number_lps_enabled"]

RecvInLpState(lp, m) ==
  /\ m.container = "LP_STATE"
  /\ IF m.data_type \in DOMAIN LpField
     THEN /\ lp_state' = IF IsSet(lp_state[lp], LpField[m.data_type]) THEN lp_state
                         ELSE [lp_state EXCEPT ![lp] = Put(@, LpField[m.data_type], m.data)]
          /\ UNCHANGED exited
     ELSE exited' = TRUE /\ UNCHANGED lp_state
  /\ UNCHANGED device

-----------------------------------------------------------------------------
(* Reading the files.                                                      *)

\* The field of a device a field of the file becomes part of; the other fields of
\* an element are members of element_topology, or of its spec_top.
Pointers == {"actuatorPaths", "ElementToLPMapping", "diskServices", "aggregation_rate", "service_time",
             "actuatorsTypesBelow", "ListActuatorsByType", "sensorRates",
             "LANsINserviceTimes", "LANsOUTserviceTimes"}
Members  == {"id", "lp_type", "upperNode", "numberOfLowerElements", "numberOfLANS",
             "numValidActuatorPaths", "numValidElToLP", "cost"}
Locals   == {"at", "st"}
Into(f) == CASE f \in Pointers -> f [] f \in Members -> "topology" [] OTHER -> "spec_top"

\* What was read, as the fields of a device: the data of the element it says it is
\* wherever the words read are those that were written for it.
DeviceRead(got) ==
  LET e == got["id"][1].value
  IN  [f \in {Into(g) : g \in DOMAIN got \ Locals} |->
         IF e \in Elements /\ \A g \in DOMAIN got : Into(g) = f => AsWritten(got, ElementWords(e), g)
         THEN Data(e, f) ELSE Data(None, f)]

\* The part of lptopology.bin each LP reads.
LpTopologyRead == [lp \in LP |-> ParseLpTopology(LpTopologyFile, lp)]

\* What an LP the topology needs knows of the topology and of the LPs.
LpStateRead ==
  LET general == ParseGeneralTopology(GeneralTopologyFile)
      Right(f, lp) ==
        CASE f \in {"general_topology", "probOfActuators"} ->
               \A g \in DOMAIN general : AsWritten(general, GeneralWords, g)
          [] f = "number_lps_enabled" -> LpTopologyRead[lp].numLP = NumLps
          [] f = "devices_array"      -> Range(LpTopologyRead[lp].devices) = Devices(lp)
          [] OTHER                    -> TRUE
  IN  [lp \in Used |->
         [f \in {"general_topology", "probOfActuators", "number_lps_enabled", "devices_array",
                 "element_to_index"} |-> Data(IF Right(f, lp) THEN lp ELSE None, f)]]

\* Its devices: the elements of its file in their order, found by the sorted map of
\* the ids in the LP file.
DevicesRead ==
  [lp \in Used |->
     LET devices == LpTopologyRead[lp].devices
         ids     == [i \in 0 .. Len(devices) - 1 |-> devices[i + 1]]
         element_to_index == CreateIdmap(ids, [i \in DOMAIN ids |-> i])
         array   == ParseElements(ElementFile(lp), Len(devices))
     IN  [e \in Range(devices) |-> DeviceRead(array[IdmapSearch(element_to_index, e) + 1])]]

\* setup_independent.
SetupIndependent(lp) ==
  /\ lp_state' = [lp_state EXCEPT ![lp] = LpStateRead[lp]]
  /\ device' = [e \in Elements |-> IF e \in DOMAIN DevicesRead[lp] THEN DevicesRead[lp][e] ELSE device[e]]

-----------------------------------------------------------------------------
(* The events.                                                             *)

NextEvent(lp, m) == m \in events[lp] /\ \A x \in events[lp] : m.ts <= x.ts

Handled(lp, m) == events' = [events EXCEPT ![lp] = @ \ {m}]

\* INIT of LP 0; in the other LPs INIT only allocates the lp_state.
InitEvent(m) ==
  /\ ~independent /\ m.event = "INIT" /\ NextEvent(0, m)
  /\ events' = [lp \in LP |-> SetupMaster(lp)]
  /\ UNCHANGED <<independent, lp_enabled, lp_state, device, exited>>

\* INIT in the SETUP_INDEPENDENT build; an LP that is not needed disables itself,
\* and schedules START_SIMULATION for itself like all others.
InitIndependent(lp, m) ==
  /\ independent /\ m.event = "INIT" /\ NextEvent(lp, m)
  /\ IF lp >= LpTopologyRead[lp].numLP
     THEN /\ lp_enabled' = [lp_enabled EXCEPT ![lp] = "LP_DISABLED"]
          /\ UNCHANGED <<lp_state, device>>
     ELSE SetupIndependent(lp) /\ UNCHANGED lp_enabled
  /\ events' = [events EXCEPT ![lp] = {Event(TS_START_SIMULATION, "START_SIMULATION")}]
  /\ UNCHANGED <<independent, exited>>

DisableUnusedLp(lp, m) ==
  /\ m.event = "DISABLE_UNUSED_LP" /\ NextEvent(lp, m)
  /\ lp_enabled' = [lp_enabled EXCEPT ![lp] = "LP_DISABLED"]
  /\ Handled(lp, m)
  /\ UNCHANGED <<independent, lp_state, device, exited>>

ReceiveSetupMessage(lp, m) ==
  /\ m.event = "RECEIVE_SETUP_MESSAGE" /\ NextEvent(lp, m)
  /\ RecvInDevice(lp, m) \/ RecvInGeneralTopology(lp, m) \/ RecvInLpState(lp, m)
  /\ Handled(lp, m)
  /\ UNCHANGED <<independent, lp_enabled>>

StartSimulation(lp, m) ==
  /\ m.event = "START_SIMULATION" /\ NextEvent(lp, m)
  /\ lp_enabled' = [lp_enabled EXCEPT ![lp] = "LP_ENABLED"]
  /\ Handled(lp, m)
  /\ UNCHANGED <<independent, lp_state, device, exited>>

Step ==
  /\ ~exited
  /\ \/ \E m \in events[0] : InitEvent(m)
     \/ \E lp \in LP : \E m \in events[lp] :
          InitIndependent(lp, m) \/ DisableUnusedLp(lp, m) \/ ReceiveSetupMessage(lp, m) \/ StartSimulation(lp, m)

Over == (exited \/ \A lp \in LP : events[lp] = {}) /\ UNCHANGED vars

Next == Step \/ Over

Spec == Init /\ [][Next]_vars

\* The engine delivers every event it holds.
FairSpec == Spec /\ WF_vars(Step)

-----------------------------------------------------------------------------

\* Every field a device of e's type reads from START_SIMULATION on: init_node and
\* its siblings, the routing and the choice of an actuator.
AllFields(e) ==
  LET names(container) == {f[1] : f \in Range(Fields(container, e))}
  IN  names("DEVICE_STATE") \cup names("ELEMENT_TOPOLOGY")
        \cup (IF TypeOf[e] = ACTUATOR THEN {} ELSE names(TypeOf[e]))

(* Safety.                                                                 *)

\* "the order of the events received follows the order in which the struct
\* contents are declared" (setup_recv_functions.c:13): although a message does not
\* name its field, every field holds the data that was sent for it, of its own
\* element, and never that of another field of the same type.  No message finds
\* its struct missing or its fields taken, which would end the program.  Read from
\* the files, every field is what was written for it: the reader skips as much as
\* was written, in the writer's order, and finds each device by its id.
EveryFieldItsOwn ==
  /\ ~exited
  /\ \A e \in Elements : \A f \in DOMAIN device[e] : device[e][f] = Data(e, f)
  /\ \A lp \in LP : \A f \in DOMAIN lp_state[lp] : lp_state[lp][f] = Data(lp, f)

\* START_SIMULATION comes after everything: when an LP starts, it knows its
\* devices and how many LPs there are, no field its devices read is NULL, and no
\* setup message is left that would overtake the simulation.
CompleteAtStart ==
  \A lp \in Used : lp_enabled[lp] = "LP_ENABLED" =>
    /\ {"number_lps_enabled", "general_topology", "probOfActuators", "devices_array"}
         \subseteq DOMAIN lp_state[lp]
    /\ \A e \in Devices(lp) : AllFields(e) \subseteq DOMAIN device[e]
    /\ events[lp] = {}

(* Liveness.                                                               *)

\* In the end every LP the topology needs is enabled and, in the setup by messages,
\* every other one is not.  (In the other build it is: UnusedLpStaysDisabled of
\* Termination.)
EveryLpSettled ==
  <>[](\A lp \in LP : lp \in Used \/ ~independent =>
         lp_enabled[lp] = IF lp \in Used THEN "LP_ENABLED" ELSE "LP_DISABLED")

=============================================================================
