---------------------------- MODULE SetupProofs ----------------------------
(***************************************************************************)
(* The setup of the LPs, for any topology, any distribution of its         *)
(* elements over the LPs and any number of LPs: each field gets its own    *)
(* data, and an LP starts with all of them.                                *)
(*                                                                         *)
(* By messages (the first part): although a message does not name its      *)
(* field, it finds it, by what is still empty when it arrives.             *)
(*                                                                         *)
(* From the LP files (the rest): although a file has neither names nor     *)
(* lengths, the reader is always at the field it wants.  The argument goes *)
(* up the files: a list of fields read one by one, the groups of fields of *)
(* an element, an element, the elements of an LP's file, the files about   *)
(* the whole topology, what an LP has read, and the steps of the program.  *)
(***************************************************************************)
EXTENDS SetupProtocol, ProofBasics, SequenceTheorems

-----------------------------------------------------------------------------
(* The messages for one device.                                            *)

DeviceMessages(e) == ElementMessages(e) \cup SpecificMessages(e) \cup BelowMessages(e)

\* The message that carries field f of e.
Sent(e, f) ==
  LET M(ts, container, data_type) == Message(ts, container, data_type, e, f)
      disk == IF e \in Central THEN 1 ELSE 0
  IN  CASE f = "topology"           -> M(600, "DEVICE_STATE", "ELEMENT_TOPOLOGY")
        [] f = "actuatorPaths"      -> M(601, "ELEMENT_TOPOLOGY", "PIDMAP")
        [] f = "ElementToLPMapping" ->
             M(IF HasPaths(e) THEN 602 ELSE 601, "ELEMENT_TOPOLOGY", "PIDMAP")
        [] f = "spec_top"           -> M(700, "ELEMENT_TOPOLOGY", TypeOf[e])
        [] f = "diskServices"       -> M(701, NODE, "PDOUBLE")
        [] f = "aggregation_rate"   -> M(701 + disk, NODE, "PINT")
        [] f = "service_time"       -> M(702 + disk, NODE, "PDOUBLE")
        [] f = "LANsINserviceTimes" -> M(701, LAN, "PDOUBLE")
        [] f = "LANsOUTserviceTimes" -> M(702, LAN, "PDOUBLE")
        [] f = "sensorRates"        -> M(701, SENSOR, "PDOUBLE")
        [] f = "actuatorsTypesBelow" -> M(800, TypeOf[e], "PINT")
        [] f = "ListActuatorsByType" -> M(801, TypeOf[e], "PINT")

LEMMA InOrderOne ==
  ASSUME NEW e, NEW ts \in Nat, NEW list, DOMAIN list = {1}
  PROVE  InOrder(ts, e, list) = {Message(ts, list[1][1], list[1][2], e, list[1][3])}
BY DEF InOrder

LEMMA InOrderTwo ==
  ASSUME NEW e, NEW ts \in Nat, NEW list, DOMAIN list = {1, 2}
  PROVE  InOrder(ts, e, list) = {Message(ts, list[1][1], list[1][2], e, list[1][3]),
                                 Message(ts + 1, list[2][1], list[2][2], e, list[2][3])}
BY DEF InOrder

LEMMA InOrderThree ==
  ASSUME NEW e, NEW ts \in Nat, NEW list, DOMAIN list = {1, 2, 3}
  PROVE  InOrder(ts, e, list) = {Message(ts, list[1][1], list[1][2], e, list[1][3]),
                                 Message(ts + 1, list[2][1], list[2][2], e, list[2][3]),
                                 Message(ts + 2, list[3][1], list[3][2], e, list[3][3])}
BY DEF InOrder

LEMMA InOrderFour ==
  ASSUME NEW e, NEW ts \in Nat, NEW list, DOMAIN list = {1, 2, 3, 4}
  PROVE  InOrder(ts, e, list) = {Message(ts, list[1][1], list[1][2], e, list[1][3]),
                                 Message(ts + 1, list[2][1], list[2][2], e, list[2][3]),
                                 Message(ts + 2, list[3][1], list[3][2], e, list[3][3]),
                                 Message(ts + 3, list[4][1], list[4][2], e, list[4][3])}
BY DEF InOrder

\* The messages about the maps of an element and its neighbours.
LEMMA ElementMessagesAre ==
  ASSUME NEW e
  PROVE  ElementMessages(e) =
           {Sent(e, "topology"), Sent(e, "ElementToLPMapping")}
             \cup (IF HasPaths(e) THEN {Sent(e, "actuatorPaths")} ELSE {})
<1> DEFINE list == <<<<"DEVICE_STATE", "ELEMENT_TOPOLOGY", "topology">>>>
                     \o (IF HasPaths(e) THEN <<<<"ELEMENT_TOPOLOGY", "PIDMAP", "actuatorPaths">>>>
                         ELSE <<>>)
                     \o <<<<"ELEMENT_TOPOLOGY", "PIDMAP", "ElementToLPMapping">>>>
<1>1. ElementMessages(e) = InOrder(600, e, list)
  BY DEF ElementMessages, TS_RECV_ELEMENT_TOPOLOGY
<1>2. CASE HasPaths(e)
  <2> DEFINE three == <<<<"DEVICE_STATE", "ELEMENT_TOPOLOGY", "topology">>>>
                        \o <<<<"ELEMENT_TOPOLOGY", "PIDMAP", "actuatorPaths">>>>
                        \o <<<<"ELEMENT_TOPOLOGY", "PIDMAP", "ElementToLPMapping">>>>
  <2>1. list = three
    BY <1>2
  <2>2. /\ DOMAIN three = {1, 2, 3}
        /\ three[1] = <<"DEVICE_STATE", "ELEMENT_TOPOLOGY", "topology">>
        /\ three[2] = <<"ELEMENT_TOPOLOGY", "PIDMAP", "actuatorPaths">>
        /\ three[3] = <<"ELEMENT_TOPOLOGY", "PIDMAP", "ElementToLPMapping">>
    OBVIOUS
  <2> HIDE DEF list, three
  <2> QED BY <1>1, <1>2, <2>1, <2>2, InOrderThree DEF Sent
<1>3. CASE ~HasPaths(e)
  <2> DEFINE two == <<<<"DEVICE_STATE", "ELEMENT_TOPOLOGY", "topology">>>> \o <<>>
                      \o <<<<"ELEMENT_TOPOLOGY", "PIDMAP", "ElementToLPMapping">>>>
  <2>1. list = two
    BY <1>3
  <2>2. /\ DOMAIN two = {1, 2}
        /\ two[1] = <<"DEVICE_STATE", "ELEMENT_TOPOLOGY", "topology">>
        /\ two[2] = <<"ELEMENT_TOPOLOGY", "PIDMAP", "ElementToLPMapping">>
    OBVIOUS
  <2> HIDE DEF list, two
  <2> QED BY <1>1, <1>3, <2>1, <2>2, InOrderTwo DEF Sent
<1> QED BY <1>2, <1>3

\* The messages about the devices below.
LEMMA BelowMessagesAre ==
  ASSUME NEW e
  PROVE  BelowMessages(e) =
           IF HasPaths(e) THEN {Sent(e, "actuatorsTypesBelow"), Sent(e, "ListActuatorsByType")} ELSE {}
<1> DEFINE list == <<<<TypeOf[e], "PINT", "actuatorsTypesBelow">>,
                     <<TypeOf[e], "PINT", "ListActuatorsByType">>>>
<1>1. DOMAIN list = {1, 2}
  OBVIOUS
<1>2. InOrder(800, e, list) = {Sent(e, "actuatorsTypesBelow"), Sent(e, "ListActuatorsByType")}
  <2>1. /\ list[1] = <<TypeOf[e], "PINT", "actuatorsTypesBelow">>
        /\ list[2] = <<TypeOf[e], "PINT", "ListActuatorsByType">>
    OBVIOUS
  <2> HIDE DEF list
  <2> QED BY <1>1, <2>1, InOrderTwo DEF Sent
<1> QED BY <1>2 DEF BelowMessages, TS_RECV_BELOW_DEVICES_INFO

\* The messages about what only its type has.
LEMMA SpecificMessagesAre ==
  ASSUME NEW e \in Elements
  PROVE  SpecificMessages(e) =
           {Sent(e, "spec_top")} \cup
           CASE TypeOf[e] = NODE   -> {Sent(e, "aggregation_rate"), Sent(e, "service_time")}
                                        \cup (IF e \in Central THEN {Sent(e, "diskServices")} ELSE {})
             [] TypeOf[e] = LAN    -> {Sent(e, "LANsINserviceTimes"), Sent(e, "LANsOUTserviceTimes")}
             [] TypeOf[e] = SENSOR -> {Sent(e, "sensorRates")}
             [] OTHER              -> {}
<1>1. CASE TypeOf[e] = NODE /\ e \in Central
  <2> DEFINE list == <<<<"ELEMENT_TOPOLOGY", NODE, "spec_top">>>>
                       \o <<<<NODE, "PDOUBLE", "diskServices">>>>
                       \o <<<<NODE, "PINT", "aggregation_rate">>, <<NODE, "PDOUBLE", "service_time">>>>
  <2>1. SpecificMessages(e) = InOrder(700, e, list)
    BY <1>1 DEF SpecificMessages, NodeMessages, TS_RECV_SPECIFIC_TOPOLOGY, NODE, LAN, SENSOR
  <2>2. /\ DOMAIN list = {1, 2, 3, 4} /\ list[1] = <<"ELEMENT_TOPOLOGY", NODE, "spec_top">>
        /\ list[2] = <<NODE, "PDOUBLE", "diskServices">>
        /\ list[3] = <<NODE, "PINT", "aggregation_rate">>
        /\ list[4] = <<NODE, "PDOUBLE", "service_time">>
    OBVIOUS
  <2> HIDE DEF list
  <2>3. InOrder(700, e, list) = {Sent(e, "spec_top"), Sent(e, "diskServices"),
                                 Sent(e, "aggregation_rate"), Sent(e, "service_time")}
    BY <1>1, <2>2, InOrderFour DEF Sent
  <2> QED BY <1>1, <2>1, <2>3 DEF NODE, LAN, SENSOR
<1>2. CASE TypeOf[e] = NODE /\ e \notin Central
  <2> DEFINE list == <<<<"ELEMENT_TOPOLOGY", NODE, "spec_top">>>> \o <<>>
                       \o <<<<NODE, "PINT", "aggregation_rate">>, <<NODE, "PDOUBLE", "service_time">>>>
  <2>1. SpecificMessages(e) = InOrder(700, e, list)
    BY <1>2 DEF SpecificMessages, NodeMessages, TS_RECV_SPECIFIC_TOPOLOGY, NODE, LAN, SENSOR
  <2>2. /\ DOMAIN list = {1, 2, 3} /\ list[1] = <<"ELEMENT_TOPOLOGY", NODE, "spec_top">>
        /\ list[2] = <<NODE, "PINT", "aggregation_rate">>
        /\ list[3] = <<NODE, "PDOUBLE", "service_time">>
    OBVIOUS
  <2> HIDE DEF list
  <2>3. InOrder(700, e, list) = {Sent(e, "spec_top"), Sent(e, "aggregation_rate"), Sent(e, "service_time")}
    BY <1>2, <2>2, InOrderThree DEF Sent
  <2> QED BY <1>2, <2>1, <2>3 DEF NODE, LAN, SENSOR
<1>3. CASE TypeOf[e] = LAN
  <2> DEFINE list == <<<<"ELEMENT_TOPOLOGY", LAN, "spec_top">>, <<LAN, "PDOUBLE", "LANsINserviceTimes">>,
                       <<LAN, "PDOUBLE", "LANsOUTserviceTimes">>>>
  <2>1. /\ DOMAIN list = {1, 2, 3} /\ list[1] = <<"ELEMENT_TOPOLOGY", LAN, "spec_top">>
        /\ list[2] = <<LAN, "PDOUBLE", "LANsINserviceTimes">>
        /\ list[3] = <<LAN, "PDOUBLE", "LANsOUTserviceTimes">>
    OBVIOUS
  <2>2. SpecificMessages(e) = InOrder(700, e, list)
    BY <1>3 DEF SpecificMessages, TS_RECV_SPECIFIC_TOPOLOGY, NODE, LAN, SENSOR
  <2> HIDE DEF list
  <2>3. InOrder(700, e, list) = {Sent(e, "spec_top"), Sent(e, "LANsINserviceTimes"),
                                 Sent(e, "LANsOUTserviceTimes")}
    BY <1>3, <2>1, InOrderThree DEF Sent
  <2> QED BY <1>3, <2>2, <2>3 DEF NODE, LAN, SENSOR
<1>4. CASE TypeOf[e] = SENSOR
  <2> DEFINE list == <<<<"ELEMENT_TOPOLOGY", SENSOR, "spec_top">>, <<SENSOR, "PDOUBLE", "sensorRates">>>>
  <2>1. /\ DOMAIN list = {1, 2} /\ list[1] = <<"ELEMENT_TOPOLOGY", SENSOR, "spec_top">>
        /\ list[2] = <<SENSOR, "PDOUBLE", "sensorRates">>
    OBVIOUS
  <2>2. SpecificMessages(e) = InOrder(700, e, list)
    BY <1>4 DEF SpecificMessages, TS_RECV_SPECIFIC_TOPOLOGY, NODE, LAN, SENSOR
  <2> HIDE DEF list
  <2>3. InOrder(700, e, list) = {Sent(e, "spec_top"), Sent(e, "sensorRates")}
    BY <1>4, <2>1, InOrderTwo DEF Sent
  <2> QED BY <1>4, <2>2, <2>3 DEF NODE, LAN, SENSOR
<1>5. CASE TypeOf[e] \notin {NODE, LAN, SENSOR}
  <2> DEFINE list == <<<<"ELEMENT_TOPOLOGY", TypeOf[e], "spec_top">>>>
  <2>1. DOMAIN list = {1} /\ list[1] = <<"ELEMENT_TOPOLOGY", TypeOf[e], "spec_top">>
    OBVIOUS
  <2>2. SpecificMessages(e) = InOrder(700, e, list)
    BY <1>5 DEF SpecificMessages, TS_RECV_SPECIFIC_TOPOLOGY
  <2> HIDE DEF list
  <2>3. InOrder(700, e, list) = {Sent(e, "spec_top")}
    BY <1>5, <2>1, InOrderOne DEF Sent
  <2> QED BY <1>5, <2>2, <2>3
<1> QED BY <1>1, <1>2, <1>3, <1>4, <1>5
-----------------------------------------------------------------------------
(* The fields they are for.                                                *)

LEMMA FieldsAre ==
  ASSUME NEW e \in Elements
  PROVE  /\ LET s == Fields("DEVICE_STATE", e)
            IN  DOMAIN s = {1} /\ s[1] = <<"topology", "ELEMENT_TOPOLOGY">>
         /\ LET s == Fields("ELEMENT_TOPOLOGY", e)
            IN  IF HasPaths(e)
                THEN /\ DOMAIN s = {1, 2, 3} /\ s[1] = <<"actuatorPaths", "PIDMAP">>
                     /\ s[2] = <<"ElementToLPMapping", "PIDMAP">> /\ s[3] = <<"spec_top", TypeOf[e]>>
                ELSE /\ DOMAIN s = {1, 2}
                     /\ s[1] = <<"ElementToLPMapping", "PIDMAP">> /\ s[2] = <<"spec_top", TypeOf[e]>>
         /\ LET s == Fields(NODE, e)
            IN  IF e \in Central
                THEN /\ DOMAIN s = {1, 2, 3, 4, 5} /\ s[1] = <<"diskServices", "PDOUBLE">>
                     /\ s[2] = <<"aggregation_rate", "PINT">> /\ s[3] = <<"service_time", "PDOUBLE">>
                     /\ s[4] = <<"actuatorsTypesBelow", "PINT">>
                     /\ s[5] = <<"ListActuatorsByType", "PINT">>
                ELSE /\ DOMAIN s = {1, 2, 3, 4}
                     /\ s[1] = <<"aggregation_rate", "PINT">> /\ s[2] = <<"service_time", "PDOUBLE">>
                     /\ s[3] = <<"actuatorsTypesBelow", "PINT">>
                     /\ s[4] = <<"ListActuatorsByType", "PINT">>
         /\ LET s == Fields(LAN, e)
            IN  /\ DOMAIN s = {1, 2, 3, 4} /\ s[1] = <<"LANsINserviceTimes", "PDOUBLE">>
                /\ s[2] = <<"LANsOUTserviceTimes", "PDOUBLE">>
                /\ s[3] = <<"actuatorsTypesBelow", "PINT">> /\ s[4] = <<"ListActuatorsByType", "PINT">>
         /\ LET s == Fields(WAN, e)
            IN  /\ DOMAIN s = {1, 2} /\ s[1] = <<"actuatorsTypesBelow", "PINT">>
                /\ s[2] = <<"ListActuatorsByType", "PINT">>
         /\ LET s == Fields(SENSOR, e)
            IN  DOMAIN s = {1} /\ s[1] = <<"sensorRates", "PDOUBLE">>
<1> DEFINE T == <<<<"ElementToLPMapping", "PIDMAP">>, <<"spec_top", TypeOf[e]>>>>
           N == <<<<"aggregation_rate", "PINT">>, <<"service_time", "PDOUBLE">>,
                  <<"actuatorsTypesBelow", "PINT">>, <<"ListActuatorsByType", "PINT">>>>
<1>1. Fields("DEVICE_STATE", e) = <<<<"topology", "ELEMENT_TOPOLOGY">>>>
  BY DEF Fields, NODE, LAN, WAN, SENSOR
<1>2. HasPaths(e) => Fields("ELEMENT_TOPOLOGY", e) = <<<<"actuatorPaths", "PIDMAP">>>> \o T
  BY DEF Fields, NODE, LAN, WAN, SENSOR
<1>3. ~HasPaths(e) => Fields("ELEMENT_TOPOLOGY", e) = <<>> \o T
  BY DEF Fields, NODE, LAN, WAN, SENSOR
<1>4. e \in Central => Fields(NODE, e) = <<<<"diskServices", "PDOUBLE">>>> \o N
  BY DEF Fields, NODE, LAN, WAN, SENSOR
<1>5. e \notin Central => Fields(NODE, e) = <<>> \o N
  BY DEF Fields, NODE, LAN, WAN, SENSOR
<1>6. Fields(LAN, e) = <<<<"LANsINserviceTimes", "PDOUBLE">>, <<"LANsOUTserviceTimes", "PDOUBLE">>,
           <<"actuatorsTypesBelow", "PINT">>, <<"ListActuatorsByType", "PINT">>>>
  BY DEF Fields, NODE, LAN, WAN, SENSOR
<1>7. Fields(WAN, e) = <<<<"actuatorsTypesBelow", "PINT">>, <<"ListActuatorsByType", "PINT">>>>
  BY DEF Fields, NODE, LAN, WAN, SENSOR
<1>8. Fields(SENSOR, e) = <<<<"sensorRates", "PDOUBLE">>>>
  BY DEF Fields, NODE, LAN, WAN, SENSOR
<1>9. LET s == Fields("DEVICE_STATE", e)
      IN  DOMAIN s = {1} /\ s[1] = <<"topology", "ELEMENT_TOPOLOGY">>
  BY <1>1
<1>10. LET s == Fields("ELEMENT_TOPOLOGY", e)
       IN  IF HasPaths(e)
           THEN /\ DOMAIN s = {1, 2, 3} /\ s[1] = <<"actuatorPaths", "PIDMAP">>
                /\ s[2] = <<"ElementToLPMapping", "PIDMAP">> /\ s[3] = <<"spec_top", TypeOf[e]>>
           ELSE /\ DOMAIN s = {1, 2}
                /\ s[1] = <<"ElementToLPMapping", "PIDMAP">> /\ s[2] = <<"spec_top", TypeOf[e]>>
  BY <1>2, <1>3
<1>11. LET s == Fields(NODE, e)
       IN  IF e \in Central
           THEN /\ DOMAIN s = {1, 2, 3, 4, 5} /\ s[1] = <<"diskServices", "PDOUBLE">>
                /\ s[2] = <<"aggregation_rate", "PINT">> /\ s[3] = <<"service_time", "PDOUBLE">>
                /\ s[4] = <<"actuatorsTypesBelow", "PINT">>
                /\ s[5] = <<"ListActuatorsByType", "PINT">>
           ELSE /\ DOMAIN s = {1, 2, 3, 4}
                /\ s[1] = <<"aggregation_rate", "PINT">> /\ s[2] = <<"service_time", "PDOUBLE">>
                /\ s[3] = <<"actuatorsTypesBelow", "PINT">>
                /\ s[4] = <<"ListActuatorsByType", "PINT">>
  BY <1>4, <1>5
<1>12. LET s == Fields(LAN, e)
       IN  /\ DOMAIN s = {1, 2, 3, 4} /\ s[1] = <<"LANsINserviceTimes", "PDOUBLE">>
           /\ s[2] = <<"LANsOUTserviceTimes", "PDOUBLE">>
           /\ s[3] = <<"actuatorsTypesBelow", "PINT">> /\ s[4] = <<"ListActuatorsByType", "PINT">>
  BY <1>6
<1>13. LET s == Fields(WAN, e)
       IN  /\ DOMAIN s = {1, 2} /\ s[1] = <<"actuatorsTypesBelow", "PINT">>
           /\ s[2] = <<"ListActuatorsByType", "PINT">>
  BY <1>7
<1>14. LET s == Fields(SENSOR, e)
       IN  DOMAIN s = {1} /\ s[1] = <<"sensorRates", "PDOUBLE">>
  BY <1>8
<1> QED BY <1>9, <1>10, <1>11, <1>12, <1>13, <1>14

\* The fields a device needs, by its type.
LEMMA AllFieldsAre ==
  ASSUME NEW e \in Elements
  PROVE  AllFields(e) =
           {"topology", "ElementToLPMapping", "spec_top"}
           \cup (IF HasPaths(e) THEN {"actuatorPaths", "actuatorsTypesBelow", "ListActuatorsByType"} ELSE {})
           \cup CASE TypeOf[e] = NODE   -> {"aggregation_rate", "service_time"}
                                             \cup (IF e \in Central THEN {"diskServices"} ELSE {})
                  [] TypeOf[e] = LAN    -> {"LANsINserviceTimes", "LANsOUTserviceTimes"}
                  [] TypeOf[e] = SENSOR -> {"sensorRates"}
                  [] OTHER              -> {}
<1> DEFINE names(s) == {f[1] : f \in Range(s)}
<1>1. AllFields(e) = names(Fields("DEVICE_STATE", e)) \cup names(Fields("ELEMENT_TOPOLOGY", e))
                       \cup (IF TypeOf[e] = ACTUATOR THEN {} ELSE names(Fields(TypeOf[e], e)))
  BY DEF AllFields
<1>2. \A s : names(s) = {s[i][1] : i \in DOMAIN s}
  BY DEF Range
<1> HIDE DEF names
<1>3. names(Fields("DEVICE_STATE", e)) = {"topology"}
  BY <1>2, FieldsAre
<1>4. names(Fields("ELEMENT_TOPOLOGY", e)) = {"ElementToLPMapping", "spec_top"}
                                               \cup (IF HasPaths(e) THEN {"actuatorPaths"} ELSE {})
  BY <1>2, FieldsAre
<1>5. names(Fields(NODE, e)) = {"aggregation_rate", "service_time", "actuatorsTypesBelow", "ListActuatorsByType"}
                                 \cup (IF e \in Central THEN {"diskServices"} ELSE {})
  BY <1>2, FieldsAre
<1>6. /\ names(Fields(LAN, e)) = {"LANsINserviceTimes", "LANsOUTserviceTimes", "actuatorsTypesBelow",
                                  "ListActuatorsByType"}
      /\ names(Fields(WAN, e)) = {"actuatorsTypesBelow", "ListActuatorsByType"}
      /\ names(Fields(SENSOR, e)) = {"sensorRates"}
  BY <1>2, FieldsAre
<1>7. TypeOf[e] \in {NODE, SENSOR, ACTUATOR, LAN, WAN}
  BY SetupAssumption
<1>8. CASE TypeOf[e] = NODE
  BY <1>1, <1>3, <1>4, <1>5, <1>8 DEF NODE, SENSOR, ACTUATOR, LAN, WAN, HasPaths
<1>9. CASE TypeOf[e] = LAN
  BY <1>1, <1>3, <1>4, <1>6, <1>9 DEF NODE, SENSOR, ACTUATOR, LAN, WAN, HasPaths
<1>10. CASE TypeOf[e] = WAN
  BY <1>1, <1>3, <1>4, <1>6, <1>10 DEF NODE, SENSOR, ACTUATOR, LAN, WAN, HasPaths
<1>11. CASE TypeOf[e] = SENSOR
  BY <1>1, <1>3, <1>4, <1>6, <1>11 DEF NODE, SENSOR, ACTUATOR, LAN, WAN, HasPaths
<1>12. CASE TypeOf[e] = ACTUATOR
  BY <1>1, <1>3, <1>4, <1>12 DEF NODE, SENSOR, ACTUATOR, LAN, WAN, HasPaths
<1> QED BY <1>7, <1>8, <1>9, <1>10, <1>11, <1>12

\* One message for each field, and no other.
LEMMA DeviceMessagesAre ==
  ASSUME NEW e \in Elements
  PROVE  DeviceMessages(e) = {Sent(e, f) : f \in AllFields(e)}
<1> DEFINE S(f) == Sent(e, f)
<1>1. DeviceMessages(e) = ElementMessages(e) \cup SpecificMessages(e) \cup BelowMessages(e)
  BY DEF DeviceMessages
<1>2. ElementMessages(e) = {S("topology"), S("ElementToLPMapping")}
                             \cup (IF HasPaths(e) THEN {S("actuatorPaths")} ELSE {})
  BY ElementMessagesAre
<1>3. BelowMessages(e) = IF HasPaths(e) THEN {S("actuatorsTypesBelow"), S("ListActuatorsByType")} ELSE {}
  BY BelowMessagesAre
<1>4. SpecificMessages(e) =
           {S("spec_top")} \cup
           CASE TypeOf[e] = NODE   -> {S("aggregation_rate"), S("service_time")}
                                        \cup (IF e \in Central THEN {S("diskServices")} ELSE {})
             [] TypeOf[e] = LAN    -> {S("LANsINserviceTimes"), S("LANsOUTserviceTimes")}
             [] TypeOf[e] = SENSOR -> {S("sensorRates")}
             [] OTHER              -> {}
  BY SpecificMessagesAre
<1> HIDE DEF S
<1>5. DeviceMessages(e) = {S(f) : f \in AllFields(e)}
  <2>1. CASE TypeOf[e] = NODE
    BY <1>1, <1>2, <1>3, <1>4, <2>1, AllFieldsAre DEF NODE, LAN, SENSOR
  <2>2. CASE TypeOf[e] = LAN
    BY <1>1, <1>2, <1>3, <1>4, <2>2, AllFieldsAre DEF NODE, LAN, SENSOR
  <2>3. CASE TypeOf[e] = SENSOR
    BY <1>1, <1>2, <1>3, <1>4, <2>3, AllFieldsAre DEF NODE, LAN, SENSOR
  <2>4. CASE TypeOf[e] \notin {NODE, LAN, SENSOR}
    BY <1>1, <1>2, <1>3, <1>4, <2>4, AllFieldsAre DEF NODE, LAN, SENSOR
  <2> QED BY <2>1, <2>2, <2>3, <2>4
<1> QED BY <1>5 DEF S

\* Which element has which field.
LEMMA FieldCases ==
  ASSUME NEW e \in Elements, NEW f \in AllFields(e)
  PROVE  \/ f \in {"topology", "ElementToLPMapping", "spec_top"}
         \/ HasPaths(e) /\ f = "actuatorPaths"
         \/ TypeOf[e] \in {NODE, LAN, WAN} /\ f \in {"actuatorsTypesBelow", "ListActuatorsByType"}
         \/ TypeOf[e] = NODE /\ f \in {"aggregation_rate", "service_time"}
         \/ TypeOf[e] = NODE /\ e \in Central /\ f = "diskServices"
         \/ TypeOf[e] = LAN /\ f \in {"LANsINserviceTimes", "LANsOUTserviceTimes"}
         \/ TypeOf[e] = SENSOR /\ f = "sensorRates"
<1>1. TypeOf[e] \in {NODE, SENSOR, ACTUATOR, LAN, WAN}
  BY SetupAssumption
<1> QED BY <1>1, AllFieldsAre DEF HasPaths, NODE, LAN, WAN, SENSOR, ACTUATOR

\* When a field is sent, to which struct, and as what.
LEMMA SentAre ==
  ASSUME NEW e
  PROVE  LET S(f, ts, container, data_type) ==
               /\ Sent(e, f).ts = ts /\ Sent(e, f).container = container
               /\ Sent(e, f).data_type = data_type
             disk == IF e \in Central THEN 1 ELSE 0
         IN  /\ S("topology", 600, "DEVICE_STATE", "ELEMENT_TOPOLOGY")
             /\ S("actuatorPaths", 601, "ELEMENT_TOPOLOGY", "PIDMAP")
             /\ S("ElementToLPMapping", IF HasPaths(e) THEN 602 ELSE 601, "ELEMENT_TOPOLOGY", "PIDMAP")
             /\ S("spec_top", 700, "ELEMENT_TOPOLOGY", TypeOf[e])
             /\ S("diskServices", 701, "NODE", "PDOUBLE")
             /\ S("aggregation_rate", 701 + disk, "NODE", "PINT")
             /\ S("service_time", 702 + disk, "NODE", "PDOUBLE")
             /\ S("LANsINserviceTimes", 701, "LAN", "PDOUBLE")
             /\ S("LANsOUTserviceTimes", 702, "LAN", "PDOUBLE")
             /\ S("sensorRates", 701, "SENSOR", "PDOUBLE")
             /\ S("actuatorsTypesBelow", 800, TypeOf[e], "PINT")
             /\ S("ListActuatorsByType", 801, TypeOf[e], "PINT")
BY DEF Sent, Message, NODE, LAN, SENSOR

LEMMA SentIs ==
  ASSUME NEW e \in Elements, NEW f \in AllFields(e)
  PROVE  /\ Sent(e, f).event = "RECEIVE_SETUP_MESSAGE" /\ Sent(e, f).data = Data(e, f)
         /\ Sent(e, f).ts \in Nat /\ Sent(e, f).ts >= 600 /\ Sent(e, f).ts <= 801
         /\ Sent(e, f).container \notin {"LP_STATE", "GENERAL_TOPOLOGY"}
<1>1. TypeOf[e] \in {"NODE", "SENSOR", "ACTUATOR", "LAN", "WAN"}
  BY SetupAssumption DEF NODE, SENSOR, ACTUATOR, LAN, WAN
<1>2. Sent(e, f).event = "RECEIVE_SETUP_MESSAGE" /\ Sent(e, f).data = Data(e, f)
  <2>1. \E ts, container, data_type : Sent(e, f) = Message(ts, container, data_type, e, f)
    BY FieldCases DEF Sent
  <2> QED BY <2>1 DEF Message
<1>3. /\ Sent(e, f).ts \in Nat /\ Sent(e, f).ts >= 600 /\ Sent(e, f).ts <= 801
      /\ Sent(e, f).container \notin {"LP_STATE", "GENERAL_TOPOLOGY"}
  BY <1>1, FieldCases, SentAre
<1> QED BY <1>2, <1>3

\* The struct that a message belongs to is there when it comes.
LEMMA StructsFirst ==
  ASSUME NEW e \in Elements, NEW f \in AllFields(e)
  PROVE  /\ Needs(Sent(e, f).container) \subseteq AllFields(e)
         /\ \A g \in Needs(Sent(e, f).container) : Sent(e, g).ts < Sent(e, f).ts
<1>1. TypeOf[e] \in {NODE, SENSOR, ACTUATOR, LAN, WAN}
  BY SetupAssumption
<1>2. {"topology", "spec_top"} \subseteq AllFields(e)
  BY AllFieldsAre
<1>3. Sent(e, "topology").ts = 600 /\ Sent(e, "spec_top").ts = 700
  BY SentAre
<1>4. CASE f = "topology"
  <2>1. Sent(e, f).container = "DEVICE_STATE"
    BY <1>4, SentAre
  <2> QED BY <1>2, <2>1 DEF Needs
<1>5. CASE f \in {"actuatorPaths", "ElementToLPMapping", "spec_top"}
  <2>1. Sent(e, f).container = "ELEMENT_TOPOLOGY" /\ Sent(e, f).ts > 600
    BY <1>5, SentAre
  <2>2. Needs(Sent(e, f).container) = {"topology"}
    BY <2>1 DEF Needs
  <2> QED BY <1>2, <1>3, <2>1, <2>2
<1>6. CASE f \notin {"topology", "actuatorPaths", "ElementToLPMapping", "spec_top"}
  <2>1. Sent(e, f).container \notin {"DEVICE_STATE", "ELEMENT_TOPOLOGY"} /\ Sent(e, f).ts > 700
    BY <1>1, <1>6, FieldCases, SentAre DEF NODE, SENSOR, ACTUATOR, LAN, WAN
  <2>2. Needs(Sent(e, f).container) = {"topology", "spec_top"}
    BY <2>1 DEF Needs
  <2>3. Sent(e, f).ts \in Nat
    BY SentIs
  <2> QED BY <1>2, <1>3, <2>1, <2>2, <2>3
<1> QED BY <1>4, <1>5, <1>6

\* The order in which the fields are sent follows the order in which the receiver
\* tries them: the fields of one type that it tries before have been received.
LEMMA FieldsInOrder ==
  ASSUME NEW e \in Elements, NEW f \in AllFields(e)
  PROVE  LET m == Sent(e, f)
             s == Fields(m.container, e)
         IN  \E k \in DOMAIN s :
               /\ s[k] = <<f, m.data_type>> /\ k \in Nat /\ DOMAIN s \subseteq Nat
               /\ \A j \in DOMAIN s : j < k /\ s[j][2] = m.data_type =>
                    s[j][1] \in AllFields(e) /\ Sent(e, s[j][1]).ts < m.ts
<1> DEFINE m == Sent(e, f)
           s == Fields(m.container, e)
<1>1. TypeOf[e] \in {NODE, SENSOR, ACTUATOR, LAN, WAN}
  BY SetupAssumption
<1> SUFFICES \E k \in DOMAIN s :
               /\ s[k] = <<f, m.data_type>> /\ k \in Nat /\ DOMAIN s \subseteq Nat
               /\ \A j \in DOMAIN s : j < k /\ s[j][2] = m.data_type =>
                    s[j][1] \in AllFields(e) /\ Sent(e, s[j][1]).ts < m.ts
  OBVIOUS
<1>2. CASE f = "topology"
  <2>1. m.container = "DEVICE_STATE" /\ m.data_type = "ELEMENT_TOPOLOGY"
    BY <1>2, SentAre
  <2>2. DOMAIN s = {1} /\ s[1] = <<"topology", "ELEMENT_TOPOLOGY">>
    BY <2>1, FieldsAre
  <2> HIDE DEF m, s
  <2> QED BY <1>2, <2>1, <2>2
<1>3. CASE f \in {"actuatorPaths", "ElementToLPMapping", "spec_top"}
  <2>1. /\ m.container = "ELEMENT_TOPOLOGY"
        /\ m.data_type = IF f = "spec_top" THEN TypeOf[e] ELSE "PIDMAP"
        /\ f = "ElementToLPMapping" /\ HasPaths(e) => m.ts = 602
    BY <1>3, SentAre
  <2>2. TypeOf[e] # "PIDMAP"
    BY <1>1 DEF NODE, SENSOR, ACTUATOR, LAN, WAN
  <2>3. Sent(e, "actuatorPaths").ts = 601 /\ (HasPaths(e) => "actuatorPaths" \in AllFields(e))
    BY AllFieldsAre, SentAre
  <2>4. f = "actuatorPaths" => HasPaths(e)
    BY FieldCases
  <2> DEFINE F == Fields("ELEMENT_TOPOLOGY", e)
  <2>5. IF HasPaths(e)
        THEN /\ DOMAIN F = {1, 2, 3} /\ F[1] = <<"actuatorPaths", "PIDMAP">>
             /\ F[2] = <<"ElementToLPMapping", "PIDMAP">> /\ F[3] = <<"spec_top", TypeOf[e]>>
        ELSE /\ DOMAIN F = {1, 2}
             /\ F[1] = <<"ElementToLPMapping", "PIDMAP">> /\ F[2] = <<"spec_top", TypeOf[e]>>
    BY FieldsAre
  <2>6. s = F
    BY <2>1
  <2> HIDE DEF m, s, F
  <2>7. CASE f = "actuatorPaths"
    <3>1. s[1] = <<f, m.data_type>> /\ 1 \in DOMAIN s /\ DOMAIN s \subseteq Nat
      BY <2>1, <2>4, <2>5, <2>6, <2>7
    <3>2. \A j \in DOMAIN s : ~ (j < 1)
      BY <2>4, <2>5, <2>6, <2>7
    <3> QED BY <3>1, <3>2
  <2>8. CASE f = "ElementToLPMapping"
    <3>1. CASE HasPaths(e)
      <4>1. s[2] = <<f, m.data_type>> /\ 2 \in DOMAIN s /\ DOMAIN s \subseteq Nat
        BY <2>1, <2>5, <2>6, <2>8, <3>1
      <4>2. \A j \in DOMAIN s : j < 2 => s[j][1] = "actuatorPaths"
        BY <2>5, <2>6, <3>1
      <4> QED BY <2>1, <2>3, <2>8, <3>1, <4>1, <4>2
    <3>2. CASE ~HasPaths(e)
      <4>1. s[1] = <<f, m.data_type>> /\ 1 \in DOMAIN s /\ DOMAIN s \subseteq Nat
        BY <2>1, <2>5, <2>6, <2>8, <3>2
      <4>2. \A j \in DOMAIN s : ~ (j < 1)
        BY <2>5, <2>6, <3>2
      <4> QED BY <4>1, <4>2
    <3> QED BY <3>1, <3>2
  <2>9. CASE f = "spec_top"
    <3>1. PICK k \in {2, 3} : s[k] = <<f, m.data_type>> /\ k \in DOMAIN s /\ DOMAIN s \subseteq Nat
                              /\ \A j \in DOMAIN s : j < k => s[j][2] = "PIDMAP"
      BY <2>1, <2>5, <2>6, <2>9
    <3> QED BY <2>1, <2>2, <2>9, <3>1
  <2> QED BY <1>3, <2>7, <2>8, <2>9
<1>4. CASE f \in {"actuatorsTypesBelow", "ListActuatorsByType"}
  <2>1. /\ m.container = TypeOf[e] /\ m.data_type = "PINT"
        /\ m.ts = IF f = "actuatorsTypesBelow" THEN 800 ELSE 801
    BY <1>4, SentAre
  <2>2. TypeOf[e] \in {NODE, LAN, WAN}
    BY <1>4, FieldCases
  <2>3. /\ Sent(e, "actuatorsTypesBelow").ts = 800
        /\ TypeOf[e] = NODE => Sent(e, "aggregation_rate").ts < 800
    BY SentAre
  <2>4. /\ "actuatorsTypesBelow" \in AllFields(e)
        /\ TypeOf[e] = NODE => "aggregation_rate" \in AllFields(e)
    BY <2>2, AllFieldsAre DEF NODE, SENSOR, ACTUATOR, LAN, WAN, HasPaths
  <2>5. \E k \in DOMAIN s : s[k] = <<f, "PINT">> /\ k \in Nat /\ DOMAIN s \subseteq Nat
          /\ \A j \in DOMAIN s : j < k /\ s[j][2] = "PINT" =>
               \/ TypeOf[e] = NODE /\ s[j][1] = "aggregation_rate"
               \/ f = "ListActuatorsByType" /\ s[j][1] = "actuatorsTypesBelow"
    <3>1. s = Fields(TypeOf[e], e)
      BY <2>1
    <3> HIDE DEF m, s
    <3>2. CASE TypeOf[e] = NODE /\ e \in Central
      <4>1. /\ DOMAIN s = {1, 2, 3, 4, 5} /\ s[1] = <<"diskServices", "PDOUBLE">>
            /\ s[2] = <<"aggregation_rate", "PINT">> /\ s[3] = <<"service_time", "PDOUBLE">>
            /\ s[4] = <<"actuatorsTypesBelow", "PINT">>
            /\ s[5] = <<"ListActuatorsByType", "PINT">>
        BY <3>1, <3>2, FieldsAre
      <4> QED BY <1>4, <3>2, <4>1
    <3>3. CASE TypeOf[e] = NODE /\ e \notin Central
      <4>1. /\ DOMAIN s = {1, 2, 3, 4}
            /\ s[1] = <<"aggregation_rate", "PINT">> /\ s[2] = <<"service_time", "PDOUBLE">>
            /\ s[3] = <<"actuatorsTypesBelow", "PINT">>
            /\ s[4] = <<"ListActuatorsByType", "PINT">>
        BY <3>1, <3>3, FieldsAre
      <4> QED BY <1>4, <3>3, <4>1
    <3>4. CASE TypeOf[e] = LAN
      <4>1. /\ DOMAIN s = {1, 2, 3, 4} /\ s[1] = <<"LANsINserviceTimes", "PDOUBLE">>
            /\ s[2] = <<"LANsOUTserviceTimes", "PDOUBLE">>
            /\ s[3] = <<"actuatorsTypesBelow", "PINT">> /\ s[4] = <<"ListActuatorsByType", "PINT">>
        BY <3>1, <3>4, FieldsAre
      <4> QED BY <1>4, <3>4, <4>1
    <3>5. CASE TypeOf[e] = WAN
      <4>1. /\ DOMAIN s = {1, 2} /\ s[1] = <<"actuatorsTypesBelow", "PINT">>
            /\ s[2] = <<"ListActuatorsByType", "PINT">>
        BY <3>1, <3>5, FieldsAre
      <4> QED BY <1>4, <3>5, <4>1
    <3> QED BY <2>2, <3>2, <3>3, <3>4, <3>5
  <2>6. Sent(e, "aggregation_rate").ts \in Nat
    BY SentAre
  <2> HIDE DEF m, s
  <2> QED BY <1>4, <2>1, <2>3, <2>4, <2>5, <2>6
<1>5. CASE f \in {"aggregation_rate", "service_time", "diskServices"}
  <2>1. /\ m.container = "NODE"
        /\ m.data_type = IF f = "aggregation_rate" THEN "PINT" ELSE "PDOUBLE"
        /\ f = "service_time" => m.ts >= 702 /\ (e \in Central => m.ts = 703)
    BY <1>5, SentAre
  <2>2. Sent(e, "diskServices").ts = 701 /\ (f = "diskServices" => e \in Central)
    BY <1>5, FieldCases, SentAre
  <2>3. e \in Central => "diskServices" \in AllFields(e)
    BY SetupAssumption, AllFieldsAre DEF NODE, SENSOR, LAN
  <2>4. s = Fields(NODE, e)
    BY <2>1 DEF NODE
  <2>5. IF e \in Central
        THEN /\ DOMAIN s = {1, 2, 3, 4, 5} /\ s[1] = <<"diskServices", "PDOUBLE">>
             /\ s[2] = <<"aggregation_rate", "PINT">> /\ s[3] = <<"service_time", "PDOUBLE">>
             /\ s[4] = <<"actuatorsTypesBelow", "PINT">>
             /\ s[5] = <<"ListActuatorsByType", "PINT">>
        ELSE /\ DOMAIN s = {1, 2, 3, 4}
             /\ s[1] = <<"aggregation_rate", "PINT">> /\ s[2] = <<"service_time", "PDOUBLE">>
             /\ s[3] = <<"actuatorsTypesBelow", "PINT">>
             /\ s[4] = <<"ListActuatorsByType", "PINT">>
    BY <2>4, FieldsAre
  <2> HIDE DEF m, s
  <2>6. \E k \in DOMAIN s : s[k] = <<f, m.data_type>> /\ k \in Nat /\ DOMAIN s \subseteq Nat
          /\ \A j \in DOMAIN s : j < k /\ s[j][2] = m.data_type =>
               f = "service_time" /\ e \in Central /\ s[j][1] = "diskServices"
    BY <1>5, <2>1, <2>2, <2>5
  <2> QED BY <2>1, <2>2, <2>3, <2>6
<1>6. CASE f \in {"LANsINserviceTimes", "LANsOUTserviceTimes"}
  <2>1. /\ m.container = "LAN" /\ m.data_type = "PDOUBLE"
        /\ f = "LANsOUTserviceTimes" => m.ts = 702
    BY <1>6, SentAre
  <2>2. Sent(e, "LANsINserviceTimes").ts = 701
    BY SentAre
  <2>3. "LANsINserviceTimes" \in AllFields(e)
    BY <1>6, FieldCases, AllFieldsAre DEF NODE, SENSOR, LAN
  <2>4. s = Fields(LAN, e)
    BY <2>1 DEF LAN
  <2>5. /\ DOMAIN s = {1, 2, 3, 4} /\ s[1] = <<"LANsINserviceTimes", "PDOUBLE">>
        /\ s[2] = <<"LANsOUTserviceTimes", "PDOUBLE">>
        /\ s[3] = <<"actuatorsTypesBelow", "PINT">> /\ s[4] = <<"ListActuatorsByType", "PINT">>
    BY <2>4, FieldsAre
  <2> HIDE DEF m, s
  <2>6. \E k \in DOMAIN s : s[k] = <<f, m.data_type>> /\ k \in Nat /\ DOMAIN s \subseteq Nat
          /\ \A j \in DOMAIN s : j < k => f = "LANsOUTserviceTimes" /\ s[j][1] = "LANsINserviceTimes"
    BY <1>6, <2>1, <2>5
  <2> QED BY <2>1, <2>2, <2>3, <2>6
<1>7. CASE f = "sensorRates"
  <2>1. m.container = "SENSOR" /\ m.data_type = "PDOUBLE"
    BY <1>7, SentAre
  <2>2. DOMAIN s = {1} /\ s[1] = <<"sensorRates", "PDOUBLE">>
    BY <2>1, FieldsAre DEF SENSOR
  <2> HIDE DEF m, s
  <2> QED BY <1>7, <2>1, <2>2
<1> QED BY <1>2, <1>3, <1>4, <1>5, <1>6, <1>7, FieldCases

-----------------------------------------------------------------------------
(* The messages for one LP.                                                *)

LpFields(lp) == {"number_lps_enabled", "general_topology", "probOfActuators", "devices_array"}
                  \cup (IF Devices(lp) = {} THEN {} ELSE {"element_to_index"})

\* The message that carries field f of the lp_state.
LpSent(lp, f) ==
  CASE f = "number_lps_enabled" -> Message(200, "LP_STATE", "PINT", lp, f)
    [] f = "general_topology"   -> Message(300, "LP_STATE", "GENERAL_TOPOLOGY", lp, f)
    [] f = "probOfActuators"    -> Message(301, "GENERAL_TOPOLOGY", "PDOUBLE", lp, f)
    [] f = "element_to_index"   -> Message(400, "LP_STATE", "PIDMAP", lp, f)
    [] f = "devices_array"      -> Message(500, "LP_STATE", "DEVICES_ARRAY", lp, f)

Start == Event(900, "START_SIMULATION")

LEMMA LpMessagesAre ==
  ASSUME NEW lp
  PROVE  GeneralMessages(lp) \cup LpMessages(lp) = {LpSent(lp, f) : f \in LpFields(lp)}
<1> DEFINE S(f) == LpSent(lp, f)
<1>1. GeneralMessages(lp) = {S("general_topology"), S("probOfActuators")}
  BY DEF GeneralMessages, LpSent, TS_RECV_GENERAL_TOPOLOGY
<1>2. LpMessages(lp) = {S("number_lps_enabled"), S("devices_array")}
                         \cup (IF Devices(lp) = {} THEN {} ELSE {S("element_to_index")})
  BY DEF LpMessages, LpSent, TS_RECV_LP_STATE_INFO, TS_RECV_DEVICES, TS_RECV_ELEMENT_INDEX_MAP
<1> HIDE DEF S
<1>3. GeneralMessages(lp) \cup LpMessages(lp) = {S(f) : f \in LpFields(lp)}
  BY <1>1, <1>2 DEF LpFields
<1> QED BY <1>3 DEF S

LEMMA LpSentAre ==
  ASSUME NEW lp
  PROVE  LET S(f, ts, container, data_type) ==
               /\ LpSent(lp, f).ts = ts /\ LpSent(lp, f).container = container
               /\ LpSent(lp, f).data_type = data_type
         IN  /\ S("number_lps_enabled", 200, "LP_STATE", "PINT")
             /\ S("general_topology", 300, "LP_STATE", "GENERAL_TOPOLOGY")
             /\ S("probOfActuators", 301, "GENERAL_TOPOLOGY", "PDOUBLE")
             /\ S("element_to_index", 400, "LP_STATE", "PIDMAP")
             /\ S("devices_array", 500, "LP_STATE", "DEVICES_ARRAY")
BY DEF LpSent, Message

LEMMA LpSentIs ==
  ASSUME NEW lp, NEW f \in LpFields(lp)
  PROVE  /\ LpSent(lp, f).event = "RECEIVE_SETUP_MESSAGE" /\ LpSent(lp, f).data = Data(lp, f)
         /\ LpSent(lp, f).ts \in Nat /\ LpSent(lp, f).ts >= 200 /\ LpSent(lp, f).ts <= 500
         /\ LpSent(lp, f).container \in {"LP_STATE", "GENERAL_TOPOLOGY"}
<1>1. f \in {"number_lps_enabled", "general_topology", "probOfActuators", "devices_array", "element_to_index"}
  BY DEF LpFields
<1>2. LpSent(lp, f).event = "RECEIVE_SETUP_MESSAGE" /\ LpSent(lp, f).data = Data(lp, f)
  <2>1. \E ts, container, data_type : LpSent(lp, f) = Message(ts, container, data_type, lp, f)
    BY <1>1 DEF LpSent
  <2> QED BY <2>1 DEF Message
<1>3. /\ LpSent(lp, f).ts \in Nat /\ LpSent(lp, f).ts >= 200 /\ LpSent(lp, f).ts <= 500
      /\ LpSent(lp, f).container \in {"LP_STATE", "GENERAL_TOPOLOGY"}
  BY <1>1, LpSentAre
<1> QED BY <1>2, <1>3

\* The elements of an LP are its own.
LEMMA DevicesApart ==
  /\ \A lp \in Used : Devices(lp) \subseteq Elements
  /\ \A lp, x : lp # x => Devices(lp) \cap Devices(x) = {}
  /\ \A e \in Elements : \E lp \in Used : e \in Devices(lp)
  /\ \A lp : lp \notin Used => Devices(lp) = {}
<1>1. \A lp \in Used : Devices(lp) \subseteq Elements
  BY SetupAssumption
<1>2. \A e \in Elements : \E lp \in Used : e \in Devices(lp)
  BY SetupAssumption
<1>3. \A lp : lp \notin Used => Devices(lp) = {}
  BY DEF Devices
<1>4. ASSUME NEW lp \in Used, NEW x \in Used, lp # x PROVE Devices(lp) \cap Devices(x) = {}
  <2>1. Devices(lp) = Range(LpElements[lp]) /\ Devices(x) = Range(LpElements[x])
    BY DEF Devices
  <2>2. \A i \in DOMAIN LpElements[lp], j \in DOMAIN LpElements[x] : LpElements[lp][i] # LpElements[x][j]
    BY <1>4, FilesAssumption DEF Used
  <2>3. ASSUME NEW e \in Devices(lp), e \in Devices(x) PROVE FALSE
    <3>1. PICK i \in DOMAIN LpElements[lp] : e = LpElements[lp][i]
      BY <2>1 DEF Range
    <3>2. PICK j \in DOMAIN LpElements[x] : e = LpElements[x][j]
      BY <2>1, <2>3 DEF Range
    <3> QED BY <2>2, <3>1, <3>2
  <2> QED BY <2>3
<1> QED BY <1>1, <1>2, <1>3, <1>4

LEMMA UsedLPs == Used \subseteq LP /\ 0 \in Used /\ 0 \in LP /\ LP \subseteq Nat
BY SetupAssumption DEF LP

\* What setup_master schedules for an LP.
LEMMA SetupMasterIs ==
  ASSUME NEW lp \in LP
  PROVE  /\ lp \in Used => SetupMaster(lp) = {LpSent(lp, f) : f \in LpFields(lp)}
                             \cup (UNION {{Sent(e, f) : f \in AllFields(e)} : e \in Devices(lp)})
                             \cup {Start}
         /\ lp \notin Used => SetupMaster(lp) = {Event(100, "DISABLE_UNUSED_LP")}
<1>1. lp \notin Used => SetupMaster(lp) = {Event(100, "DISABLE_UNUSED_LP")}
  BY DEF SetupMaster, TS_DISABLE_UNUSED_LP
<1>2. ASSUME lp \in Used
      PROVE  SetupMaster(lp) = {LpSent(lp, f) : f \in LpFields(lp)}
                             \cup (UNION {{Sent(e, f) : f \in AllFields(e)} : e \in Devices(lp)})
                             \cup {Start}
  <2>1. \A e \in Devices(lp) : DeviceMessages(e) = {Sent(e, f) : f \in AllFields(e)}
    BY <1>2, DevicesApart, DeviceMessagesAre
  <2>2. UNION {DeviceMessages(e) : e \in Devices(lp)}
          = UNION {{Sent(e, f) : f \in AllFields(e)} : e \in Devices(lp)}
    BY <2>1
  <2>3. SetupMaster(lp) = GeneralMessages(lp) \cup LpMessages(lp)
                            \cup (UNION {DeviceMessages(e) : e \in Devices(lp)}) \cup {Start}
    BY <1>2 DEF SetupMaster, AllMessages, DeviceMessages, Start, TS_START_SIMULATION
  <2> QED BY <2>2, <2>3, LpMessagesAre
<1> QED BY <1>1, <1>2

\* What there is among the events of an LP that is needed.
LEMMA Scheduled ==
  ASSUME NEW lp \in Used
  PROVE  /\ \A f \in LpFields(lp) : LpSent(lp, f) \in SetupMaster(lp)
         /\ \A e \in Devices(lp) : \A f \in AllFields(e) : Sent(e, f) \in SetupMaster(lp)
         /\ Start \in SetupMaster(lp)
         /\ \A m \in SetupMaster(lp) :
              /\ m.ts \in Nat /\ m.ts <= 900
              /\ m.event \in {"RECEIVE_SETUP_MESSAGE", "START_SIMULATION"}
              /\ m.event = "START_SIMULATION" => m = Start
              /\ m.event = "RECEIVE_SETUP_MESSAGE" => m.ts < 900
         /\ \A m \in SetupMaster(lp) : m.event = "RECEIVE_SETUP_MESSAGE" =>
              \/ \E f \in LpFields(lp) : m = LpSent(lp, f)
              \/ \E e \in Devices(lp) : \E f \in AllFields(e) : m = Sent(e, f)
<1>1. lp \in LP
  BY UsedLPs
<1>2. SetupMaster(lp) = {LpSent(lp, f) : f \in LpFields(lp)}
                             \cup (UNION {{Sent(e, f) : f \in AllFields(e)} : e \in Devices(lp)})
                             \cup {Start}
  BY <1>1, SetupMasterIs
<1>3. Start.ts = 900 /\ Start.event = "START_SIMULATION"
  BY DEF Start, Event
<1>4. \A f \in LpFields(lp) : /\ LpSent(lp, f).event = "RECEIVE_SETUP_MESSAGE"
                              /\ LpSent(lp, f).ts \in Nat /\ LpSent(lp, f).ts < 900
  BY LpSentIs
<1>5. \A e \in Devices(lp) : \A f \in AllFields(e) :
        /\ Sent(e, f).event = "RECEIVE_SETUP_MESSAGE" /\ Sent(e, f).ts \in Nat /\ Sent(e, f).ts < 900
  BY SentIs, DevicesApart
<1> DEFINE S(e) == {Sent(e, f) : f \in AllFields(e)}
           U == UNION {S(e) : e \in Devices(lp)}
<1>6. \A m : m \in U <=> \E e \in Devices(lp) : m \in S(e)
  OBVIOUS
<1>7. SetupMaster(lp) = {LpSent(lp, f) : f \in LpFields(lp)} \cup U \cup {Start}
  BY <1>2
<1>8. \A m, e : m \in S(e) <=> \E f \in AllFields(e) : m = Sent(e, f)
  OBVIOUS
<1> HIDE DEF U, S
<1>9. ASSUME NEW m \in SetupMaster(lp)
      PROVE  \/ m = Start
             \/ \E f \in LpFields(lp) : m = LpSent(lp, f)
             \/ \E e \in Devices(lp) : \E f \in AllFields(e) : m = Sent(e, f)
  BY <1>6, <1>7, <1>8
<1>10. /\ \A f \in LpFields(lp) : LpSent(lp, f) \in SetupMaster(lp)
       /\ \A e \in Devices(lp) : \A f \in AllFields(e) : Sent(e, f) \in SetupMaster(lp)
       /\ Start \in SetupMaster(lp)
  BY <1>6, <1>7, <1>8
<1> DEFINE Known(m) == /\ m.ts \in Nat /\ m.ts <= 900
                       /\ m.event \in {"RECEIVE_SETUP_MESSAGE", "START_SIMULATION"}
                       /\ m.event = "START_SIMULATION" => m = Start
                       /\ m.event = "RECEIVE_SETUP_MESSAGE" => m.ts < 900
<1>11. Known(Start)
  BY <1>3
<1>12. \A f \in LpFields(lp) : Known(LpSent(lp, f))
  BY <1>4
<1>13. \A e \in Devices(lp) : \A f \in AllFields(e) : Known(Sent(e, f))
  BY <1>5
<1>14. ASSUME NEW m \in SetupMaster(lp) PROVE Known(m)
  <2> HIDE DEF Known
  <2> QED BY <1>9, <1>11, <1>12, <1>13
<1>15. Start.event # "RECEIVE_SETUP_MESSAGE"
  BY <1>3
<1>16. ASSUME NEW m \in SetupMaster(lp), m.event = "RECEIVE_SETUP_MESSAGE"
       PROVE  \/ \E f \in LpFields(lp) : m = LpSent(lp, f)
              \/ \E e \in Devices(lp) : \E f \in AllFields(e) : m = Sent(e, f)
  BY <1>9, <1>15, <1>16
<1> QED BY <1>10, <1>14, <1>16
-----------------------------------------------------------------------------
(* The invariant of the setup by messages.                                 *)

SetupTypes ==
  /\ lp_state = [lp \in LP |-> lp_state[lp]] /\ lp_enabled = [lp \in LP |-> lp_enabled[lp]]
  /\ device = [e \in Elements |-> device[e]] /\ events = [lp \in LP |-> events[lp]]

\* Before LP 0 has read the topology.
Untouched ==
  /\ events = [lp \in LP |-> IF lp = 0 THEN {Event(0, "INIT")} ELSE {}]
  /\ \A lp \in LP : DOMAIN lp_state[lp] = {} /\ lp_enabled[lp] # "LP_ENABLED"
  /\ \A e \in Elements : DOMAIN device[e] = {}

\* An LP that was sent its part: what is left is not older than what has come, and
\* exactly the fields whose message has come are set, with their own data.
Progress(lp) ==
  /\ events[lp] \subseteq SetupMaster(lp)
  /\ \A m \in SetupMaster(lp), x \in events[lp] : m \notin events[lp] => m.ts <= x.ts
  /\ lp \notin Used => DOMAIN lp_state[lp] = {}
  /\ lp \in Used =>
       /\ DOMAIN lp_state[lp] = {f \in LpFields(lp) : LpSent(lp, f) \notin events[lp]}
       /\ \A f \in DOMAIN lp_state[lp] : lp_state[lp][f] = Data(lp, f)
       /\ lp_enabled[lp] = "LP_ENABLED" => Start \notin events[lp]
       /\ \A e \in Devices(lp) :
            /\ DOMAIN device[e] = {f \in AllFields(e) : Sent(e, f) \notin events[lp]}
            /\ \A f \in DOMAIN device[e] : device[e][f] = Data(e, f)

SetupInv ==
  ~independent => SetupTypes /\ ~exited /\ (Untouched \/ \A lp \in LP : Progress(lp))

LEMMA SetupInitially ==
  ASSUME Init
  PROVE  SetupInv
<1>1. DOMAIN Empty = {}
  BY DEF Empty
<1> QED BY <1>1 DEF Init, SetupInv, SetupTypes, Untouched

\* The next event of an LP: what is older has come.
LEMMA OlderHasCome ==
  ASSUME NEW lp \in Used, Progress(lp), NEW m \in SetupMaster(lp), NextEvent(lp, m),
         NEW x \in SetupMaster(lp), x.ts < m.ts
  PROVE  x \notin events[lp]
<1>1. x.ts \in Nat /\ m.ts \in Nat
  BY Scheduled
<1> QED BY <1>1 DEF NextEvent

\* A message for a device finds the device, the struct and its own field.
LEMMA FindsItsField ==
  ASSUME NEW lp \in Used, Progress(lp), NEW e \in Devices(lp), NEW f \in AllFields(e),
         NextEvent(lp, Sent(e, f))
  PROVE  LET m == Sent(e, f)
         IN  /\ Located(lp, e) /\ Needs(m.container) \subseteq DOMAIN device[e]
             /\ Fits(m, e) # {} /\ FirstFit(m, e) = f
<1> DEFINE m == Sent(e, f)
<1>1. e \in Elements /\ m \in SetupMaster(lp) /\ m \in events[lp]
  BY DevicesApart, Scheduled DEF NextEvent
<1>2. m.ts \in Nat /\ m.ts >= 600
  BY <1>1, SentIs
<1>3. DOMAIN device[e] = {g \in AllFields(e) : Sent(e, g) \notin events[lp]}
  BY DEF Progress
<1>4. ASSUME NEW g \in AllFields(e), Sent(e, g).ts < m.ts PROVE g \in DOMAIN device[e]
  BY <1>1, <1>3, <1>4, OlderHasCome, Scheduled
<1>5. Located(lp, e)
  <2>1. {"devices_array", "element_to_index"} \subseteq LpFields(lp)
    BY DEF LpFields
  <2>2. LpSent(lp, "devices_array").ts < m.ts /\ LpSent(lp, "element_to_index").ts < m.ts
    BY <1>2, LpSentAre
  <2>3. {"devices_array", "element_to_index"} \subseteq DOMAIN lp_state[lp]
    BY <1>1, <2>1, <2>2, OlderHasCome, Scheduled DEF Progress
  <2>4. lp_state[lp]["element_to_index"] = Data(lp, "element_to_index")
    BY <2>3 DEF Progress
  <2> QED BY <2>3, <2>4 DEF Located, IsSet, Data
<1>6. Needs(m.container) \subseteq DOMAIN device[e]
  BY <1>1, <1>4, StructsFirst
<1> DEFINE s == Fields(m.container, e)
<1>7. PICK k \in DOMAIN s :
        /\ s[k] = <<f, m.data_type>> /\ k \in Nat /\ DOMAIN s \subseteq Nat
        /\ \A j \in DOMAIN s : j < k /\ s[j][2] = m.data_type =>
             s[j][1] \in AllFields(e) /\ Sent(e, s[j][1]).ts < m.ts
  BY <1>1, FieldsInOrder
<1>8. Fits(m, e) = {i \in DOMAIN s : s[i][2] = m.data_type /\ s[i][1] \notin DOMAIN device[e]}
  BY DEF Fits, IsSet
<1>9. FirstFit(m, e) = s[CHOOSE i \in Fits(m, e) : \A j \in Fits(m, e) : i <= j][1]
  BY DEF FirstFit
<1>10. f \notin DOMAIN device[e]
  BY <1>1, <1>3
<1> HIDE DEF m, s
<1>11. k \in Fits(m, e) /\ \A j \in Fits(m, e) : j \in Nat /\ k <= j
  BY <1>4, <1>7, <1>8, <1>10
<1>12. (CHOOSE i \in Fits(m, e) : \A j \in Fits(m, e) : i <= j) = k
  BY <1>7, <1>11
<1> QED BY <1>5, <1>6, <1>7, <1>9, <1>11, <1>12 DEF m

\* What a message changes, from the point of view of the invariant.
LEMMA DeviceMessageKept ==
  ASSUME SetupTypes, ~exited, NEW lp \in Used, Progress(lp),
         NEW e \in Devices(lp), NEW f \in AllFields(e),
         NextEvent(lp, Sent(e, f)), RecvInDevice(lp, Sent(e, f)), Handled(lp, Sent(e, f)),
         UNCHANGED lp_enabled
  PROVE  /\ Progress(lp)' /\ SetupTypes' /\ ~exited'
         /\ \A x \in LP : x # lp => events'[x] = events[x] /\ lp_state'[x] = lp_state[x]
         /\ \A d \in Elements : d \notin Devices(lp) => device'[d] = device[d]
<1> DEFINE m == Sent(e, f)
<1>1. lp \in LP /\ e \in Elements /\ m \in SetupMaster(lp) /\ m \in events[lp]
  BY UsedLPs, DevicesApart, Scheduled DEF NextEvent
<1>2. m.data = Data(e, f) /\ m.data.of = e
  BY <1>1, SentIs DEF Data
<1>3. /\ device' = [device EXCEPT ![e] = Put(@, f, m.data)]
      /\ UNCHANGED exited /\ UNCHANGED lp_state
  BY <1>2, FindsItsField DEF RecvInDevice
<1>4. events' = [events EXCEPT ![lp] = @ \ {m}]
  BY DEF Handled
<1> HIDE DEF m
<1>5. /\ SetupTypes' /\ ~exited'
      /\ \A x \in LP : x # lp => events'[x] = events[x] /\ lp_state'[x] = lp_state[x]
      /\ \A d \in Elements : d # e => device'[d] = device[d]
      /\ events'[lp] = events[lp] \ {m} /\ device'[e] = Put(device[e], f, Data(e, f))
  <2>1. /\ events' = [x \in LP |-> events'[x]] /\ events'[lp] = events[lp] \ {m}
        /\ \A x \in LP : x # lp => events'[x] = events[x]
    BY <1>1, <1>4 DEF SetupTypes
  <2>2. /\ device' = [d \in Elements |-> device'[d]] /\ device'[e] = Put(device[e], f, Data(e, f))
        /\ \A d \in Elements : d # e => device'[d] = device[d]
    BY <1>1, <1>2, <1>3 DEF SetupTypes
  <2> QED BY <1>3, <2>1, <2>2 DEF SetupTypes
<1>6. \A y \in SetupMaster(lp), x \in events'[lp] : y \notin events'[lp] => y.ts <= x.ts
  <2>1. \A y \in SetupMaster(lp), x \in events[lp] : y \notin events[lp] => y.ts <= x.ts
    BY DEF Progress
  <2>2. \A x \in events[lp] : m.ts <= x.ts
    BY DEF NextEvent, m
  <2> QED BY <1>5, <2>1, <2>2
<1>7. /\ \A g \in LpFields(lp) : LpSent(lp, g) # m
      /\ m # Start
      /\ \A d \in Elements : \A g \in AllFields(d) : (d # e \/ g # f) => Sent(d, g) # m
  <2>1. m.ts \in Nat /\ m.ts >= 600 /\ m.ts <= 801 /\ m.data.field = f
    BY <1>1, <1>2, SentIs DEF m, Data
  <2>2. \A g \in LpFields(lp) : LpSent(lp, g).ts \in Nat /\ LpSent(lp, g).ts >= 200 /\ LpSent(lp, g).ts <= 500
    BY LpSentIs
  <2>3. \A d \in Elements : \A g \in AllFields(d) : Sent(d, g).data = Data(d, g)
    BY SentIs
  <2>4. Start.ts = 900
    BY DEF Start, Event
  <2>5. \A d, g, d2, g2 : Data(d, g) = Data(d2, g2) => d = d2 /\ g = g2
    BY DEF Data
  <2>6. \A g \in LpFields(lp) : LpSent(lp, g) # m
    <3> SUFFICES ASSUME NEW g \in LpFields(lp), LpSent(lp, g) = m PROVE FALSE
      OBVIOUS
    <3>1. m.ts \in Nat /\ m.ts >= 200 /\ m.ts <= 500
      BY <2>2
    <3> QED BY <2>1, <3>1
  <2>7. m # Start
    BY <2>1, <2>4
  <2>8. \A d \in Elements : \A g \in AllFields(d) : (d # e \/ g # f) => Sent(d, g) # m
    BY <1>2, <2>3, <2>5
  <2> QED BY <2>6, <2>7, <2>8
<1>8. /\ DOMAIN device'[e] = DOMAIN device[e] \cup {f} /\ device'[e][f] = Data(e, f)
      /\ \A g \in DOMAIN device[e] : g # f => device'[e][g] = device[e][g]
  <2>1. device'[e] = Put(device[e], f, Data(e, f))
    BY <1>5
  <2> QED BY <2>1 DEF Put
<1>9. ASSUME NEW d \in Devices(lp)
      PROVE  /\ DOMAIN device'[d] = {g \in AllFields(d) : Sent(d, g) \notin events'[lp]}
             /\ \A g \in DOMAIN device'[d] : device'[d][g] = Data(d, g)
  <2>1. /\ DOMAIN device[d] = {g \in AllFields(d) : Sent(d, g) \notin events[lp]}
        /\ \A g \in DOMAIN device[d] : device[d][g] = Data(d, g)
    BY DEF Progress
  <2>2. d \in Elements
    BY DevicesApart
  <2>3. CASE d = e
    <3>1. \A g \in AllFields(d) : Sent(d, g) \notin events'[lp] <=> (Sent(d, g) \notin events[lp] \/ g = f)
      BY <1>5, <1>7, <2>2, <2>3 DEF m
    <3> QED BY <1>8, <2>1, <2>3, <3>1
  <2>4. CASE d # e
    <3>1. \A g \in AllFields(d) : Sent(d, g) \notin events'[lp] <=> Sent(d, g) \notin events[lp]
      BY <1>5, <1>7, <2>2, <2>4
    <3>2. device'[d] = device[d]
      BY <1>5, <2>2, <2>4
    <3> QED BY <2>1, <3>1, <3>2
  <2> QED BY <2>3, <2>4
<1>10. DOMAIN lp_state'[lp] = {g \in LpFields(lp) : LpSent(lp, g) \notin events'[lp]}
  <2>1. \A g \in LpFields(lp) : LpSent(lp, g) \notin events'[lp] <=> LpSent(lp, g) \notin events[lp]
    BY <1>5, <1>7
  <2> QED BY <1>3, <2>1 DEF Progress
<1>11. \A g \in DOMAIN lp_state'[lp] : lp_state'[lp][g] = Data(lp, g)
  BY <1>3 DEF Progress
<1>12. lp_enabled'[lp] = "LP_ENABLED" => Start \notin events'[lp]
  BY <1>5 DEF Progress
<1>13. events'[lp] \subseteq SetupMaster(lp)
  BY <1>5 DEF Progress
<1>14. Progress(lp)'
  BY <1>6, <1>9, <1>10, <1>11, <1>12, <1>13 DEF Progress
<1> QED BY <1>5, <1>14

LEMMA LpMessageKept ==
  ASSUME SetupTypes, ~exited, NEW lp \in Used, Progress(lp), NEW f \in LpFields(lp),
         NextEvent(lp, LpSent(lp, f)), Handled(lp, LpSent(lp, f)),
         RecvInGeneralTopology(lp, LpSent(lp, f)) \/ RecvInLpState(lp, LpSent(lp, f)),
         UNCHANGED lp_enabled
  PROVE  /\ Progress(lp)' /\ SetupTypes' /\ ~exited' /\ UNCHANGED device
         /\ \A x \in LP : x # lp => events'[x] = events[x] /\ lp_state'[x] = lp_state[x]
<1> DEFINE m == LpSent(lp, f)
<1>1. lp \in LP /\ m \in SetupMaster(lp) /\ m \in events[lp]
  BY UsedLPs, Scheduled DEF NextEvent
<1>2. m.data = Data(lp, f) /\ m.data.field = f
  BY LpSentIs DEF Data
<1>3. f \notin DOMAIN lp_state[lp]
  BY <1>1 DEF Progress
<1>4. /\ lp_state' = [lp_state EXCEPT ![lp] = Put(@, f, Data(lp, f))]
      /\ UNCHANGED exited /\ UNCHANGED device
  <2>1. CASE f = "probOfActuators"
    <3>1. m.container = "GENERAL_TOPOLOGY" /\ m.data_type = "PDOUBLE" /\ m.ts = 301
      BY <2>1, LpSentAre
    <3>2. LpSent(lp, "general_topology").ts = 300 /\ "general_topology" \in LpFields(lp)
      BY LpSentAre DEF LpFields
    <3>3. "general_topology" \in DOMAIN lp_state[lp]
      BY <1>1, <3>1, <3>2, OlderHasCome, Scheduled DEF Progress
    <3>4. ~ RecvInLpState(lp, m)
      BY <3>1 DEF RecvInLpState
    <3> QED BY <1>2, <1>3, <2>1, <3>1, <3>3, <3>4 DEF RecvInGeneralTopology, IsSet
  <2>2. CASE f # "probOfActuators"
    <3>1. f \in {"number_lps_enabled", "general_topology", "devices_array", "element_to_index"}
      BY <2>2 DEF LpFields
    <3>2. m.container = "LP_STATE" /\ m.data_type \in DOMAIN LpField /\ LpField[m.data_type] = f
      BY <3>1, LpSentAre DEF LpField
    <3>3. ~ RecvInGeneralTopology(lp, m)
      BY <3>2 DEF RecvInGeneralTopology
    <3> QED BY <1>2, <1>3, <3>2, <3>3 DEF RecvInLpState, IsSet
  <2> QED BY <2>1, <2>2
<1>5. events' = [events EXCEPT ![lp] = @ \ {m}]
  BY DEF Handled
<1> HIDE DEF m
<1>6. /\ SetupTypes' /\ ~exited'
      /\ \A x \in LP : x # lp => events'[x] = events[x] /\ lp_state'[x] = lp_state[x]
      /\ events'[lp] = events[lp] \ {m} /\ lp_state'[lp] = Put(lp_state[lp], f, Data(lp, f))
  <2>1. /\ events' = [x \in LP |-> events'[x]] /\ events'[lp] = events[lp] \ {m}
        /\ \A x \in LP : x # lp => events'[x] = events[x]
    BY <1>1, <1>5 DEF SetupTypes
  <2>2. /\ lp_state' = [x \in LP |-> lp_state'[x]] /\ lp_state'[lp] = Put(lp_state[lp], f, Data(lp, f))
        /\ \A x \in LP : x # lp => lp_state'[x] = lp_state[x]
    BY <1>1, <1>4 DEF SetupTypes
  <2> QED BY <1>4, <2>1, <2>2 DEF SetupTypes
<1>7. \A y \in SetupMaster(lp), x \in events'[lp] : y \notin events'[lp] => y.ts <= x.ts
  <2>1. \A y \in SetupMaster(lp), x \in events[lp] : y \notin events[lp] => y.ts <= x.ts
    BY DEF Progress
  <2>2. \A x \in events[lp] : m.ts <= x.ts
    BY DEF NextEvent, m
  <2> QED BY <1>6, <2>1, <2>2
<1>8. /\ \A g \in LpFields(lp) : g # f => LpSent(lp, g) # m
      /\ m # Start
      /\ \A d \in Elements : \A g \in AllFields(d) : Sent(d, g) # m
  <2>1. m.ts \in Nat /\ m.ts >= 200 /\ m.ts <= 500
    BY LpSentIs DEF m
  <2>2. \A g \in LpFields(lp) : LpSent(lp, g).data = Data(lp, g)
    BY LpSentIs
  <2>3. \A d \in Elements : \A g \in AllFields(d) : Sent(d, g).ts \in Nat /\ Sent(d, g).ts >= 600 /\ Sent(d, g).ts <= 801
    BY SentIs
  <2>4. Start.ts = 900
    BY DEF Start, Event
  <2>5. \A d, g, d2, g2 : Data(d, g) = Data(d2, g2) => d = d2 /\ g = g2
    BY DEF Data
  <2>6. \A g \in LpFields(lp) : g # f => LpSent(lp, g) # m
    BY <1>2, <2>2, <2>5
  <2>7. m # Start
    BY <2>1, <2>4
  <2>8. \A d \in Elements : \A g \in AllFields(d) : Sent(d, g) # m
    <3> SUFFICES ASSUME NEW d \in Elements, NEW g \in AllFields(d), Sent(d, g) = m PROVE FALSE
      OBVIOUS
    <3>1. m.ts \in Nat /\ m.ts >= 600 /\ m.ts <= 801
      BY <2>3
    <3> HIDE DEF m
    <3> QED BY <2>1, <3>1
  <2> QED BY <2>6, <2>7, <2>8
<1>9. /\ DOMAIN lp_state'[lp] = DOMAIN lp_state[lp] \cup {f} /\ lp_state'[lp][f] = Data(lp, f)
      /\ \A g \in DOMAIN lp_state[lp] : g # f => lp_state'[lp][g] = lp_state[lp][g]
  <2>1. lp_state'[lp] = Put(lp_state[lp], f, Data(lp, f))
    BY <1>6
  <2> QED BY <2>1 DEF Put
<1>10. DOMAIN lp_state'[lp] = {g \in LpFields(lp) : LpSent(lp, g) \notin events'[lp]}
  <2>1. \A g \in LpFields(lp) :
          LpSent(lp, g) \notin events'[lp] <=> (LpSent(lp, g) \notin events[lp] \/ g = f)
    BY <1>6, <1>8 DEF m
  <2> QED BY <1>9, <2>1 DEF Progress
<1>11. \A g \in DOMAIN lp_state'[lp] : lp_state'[lp][g] = Data(lp, g)
  BY <1>9 DEF Progress
<1>12. ASSUME NEW d \in Devices(lp)
      PROVE  /\ DOMAIN device'[d] = {g \in AllFields(d) : Sent(d, g) \notin events'[lp]}
             /\ \A g \in DOMAIN device'[d] : device'[d][g] = Data(d, g)
  <2>1. \A g \in AllFields(d) : Sent(d, g) \notin events'[lp] <=> Sent(d, g) \notin events[lp]
    BY <1>6, <1>8, DevicesApart
  <2> QED BY <1>4, <2>1 DEF Progress
<1>13. lp_enabled'[lp] = "LP_ENABLED" => Start \notin events'[lp]
  BY <1>6 DEF Progress
<1>14. events'[lp] \subseteq SetupMaster(lp)
  BY <1>6 DEF Progress
<1>15. Progress(lp)'
  BY <1>7, <1>10, <1>11, <1>12, <1>13, <1>14 DEF Progress
<1> QED BY <1>4, <1>6, <1>15

\* The LPs that no event is delivered to keep what they have.
LEMMA OthersKept ==
  ASSUME NEW lp \in LP, NEW x \in LP, x # lp, Progress(x),
         events'[x] = events[x], lp_state'[x] = lp_state[x],
         lp_enabled'[x] = lp_enabled[x],
         \A d \in Elements : d \notin Devices(lp) => device'[d] = device[d]
  PROVE  Progress(x)'
<1>1. x \in Used => \A d \in Devices(x) : device'[d] = device[d]
  BY DevicesApart
<1> QED BY <1>1 DEF Progress

LEMMA SetupKept ==
  ASSUME SetupInv, [Next]_vars
  PROVE  SetupInv'
<1>1. CASE UNCHANGED vars
  BY <1>1 DEF vars, SetupInv, SetupTypes, Untouched, Progress
<1>2. CASE Over
  BY <1>2 DEF Over, vars, SetupInv, SetupTypes, Untouched, Progress
<1>3. ASSUME Step PROVE independent' = independent
  BY <1>3 DEF Step, InitEvent, InitIndependent, DisableUnusedLp, ReceiveSetupMessage, StartSimulation
<1>4. ASSUME Step, ~independent PROVE SetupInv'
  <2>1. SetupTypes /\ ~exited /\ (Untouched \/ \A lp \in LP : Progress(lp)) /\ ~independent'
    BY <1>3, <1>4 DEF SetupInv
  <2>2. ASSUME NEW m \in events[0], InitEvent(m) PROVE SetupInv'
    <3>1. 0 \in LP /\ 0 \in Used
      BY UsedLPs
    <3>2. Untouched
      <4>1. m \in events[0] /\ m.event = "INIT"
        BY <2>2 DEF InitEvent
      <4>2. ~ Progress(0)
        BY <3>1, <4>1, Scheduled DEF Progress
      <4> QED BY <2>1, <3>1, <4>2
    <3>3. /\ events' = [lp \in LP |-> SetupMaster(lp)]
          /\ UNCHANGED <<lp_enabled, lp_state, device, exited>>
      BY <2>2 DEF InitEvent
    <3>4. ASSUME NEW lp \in LP PROVE Progress(lp)'
      <4>1. events'[lp] = SetupMaster(lp)
        BY <3>3
      <4>2. ~ lp_enabled'[lp] = "LP_ENABLED" /\ DOMAIN lp_state'[lp] = {}
        BY <3>2, <3>3 DEF Untouched
      <4>3. ASSUME lp \in Used
            PROVE  /\ DOMAIN lp_state'[lp] = {f \in LpFields(lp) : LpSent(lp, f) \notin events'[lp]}
                   /\ \A e \in Devices(lp) :
                        /\ DOMAIN device'[e] = {} 
                        /\ DOMAIN device'[e] = {f \in AllFields(e) : Sent(e, f) \notin events'[lp]}
        <5>1. \A f \in LpFields(lp) : LpSent(lp, f) \in events'[lp]
          BY <4>1, <4>3, Scheduled
        <5>2. \A e \in Devices(lp) : \A f \in AllFields(e) : Sent(e, f) \in events'[lp]
          BY <4>1, <4>3, Scheduled
        <5>3. \A e \in Devices(lp) : DOMAIN device'[e] = {}
          BY <3>2, <3>3, <4>3, DevicesApart DEF Untouched
        <5> QED BY <4>2, <5>1, <5>2, <5>3
      <4> QED BY <4>1, <4>2, <4>3 DEF Progress
    <3>5. SetupTypes'
      BY <2>1, <3>3 DEF SetupTypes
    <3> QED BY <2>1, <3>3, <3>4, <3>5 DEF SetupInv
  <2>3. ASSUME NEW lp \in LP, NEW m \in events[lp],
               DisableUnusedLp(lp, m) \/ ReceiveSetupMessage(lp, m) \/ StartSimulation(lp, m)
        PROVE  SetupInv'
    <3>1. /\ m.event \in {"DISABLE_UNUSED_LP", "RECEIVE_SETUP_MESSAGE", "START_SIMULATION"}
          /\ NextEvent(lp, m) /\ Handled(lp, m)
      BY <2>3 DEF DisableUnusedLp, ReceiveSetupMessage, StartSimulation
    <3>2. \A x \in LP : Progress(x)
      <4>1. ~ Untouched
        <5>1. Event(0, "INIT").event = "INIT"
          BY DEF Event
        <5> QED BY <2>3, <3>1, <5>1 DEF Untouched
      <4> QED BY <2>1, <4>1
    <3>3. m \in SetupMaster(lp)
      BY <3>2 DEF Progress
    <3>4. SUFFICES /\ Progress(lp)' /\ SetupTypes' /\ ~exited'
                   /\ \A x \in LP : x # lp => events'[x] = events[x] /\ lp_state'[x] = lp_state[x]
                                               /\ lp_enabled'[x] = lp_enabled[x]
                   /\ \A d \in Elements : d \notin Devices(lp) => device'[d] = device[d]
      <4> SUFFICES ASSUME NEW x \in LP, x # lp PROVE Progress(x)'
        BY <2>1, <3>4 DEF SetupInv
      <4> QED BY <3>2, <3>4, OthersKept
    <3>5. events' = [events EXCEPT ![lp] = @ \ {m}]
      BY <3>1 DEF Handled
    <3>6. /\ events'[lp] = events[lp] \ {m}
          /\ \A x \in LP : x # lp => events'[x] = events[x]
          /\ events' = [x \in LP |-> events'[x]]
      BY <2>1, <3>5 DEF SetupTypes
    <3>7. CASE DisableUnusedLp(lp, m)
      <4>1. UNCHANGED <<lp_state, device, exited>> /\ m.event = "DISABLE_UNUSED_LP"
            /\ lp_enabled' = [lp_enabled EXCEPT ![lp] = "LP_DISABLED"]
        BY <3>7 DEF DisableUnusedLp
      <4>2. lp \notin Used
        BY <3>3, <4>1, Scheduled
      <4>3. SetupMaster(lp) = {m}
        BY <3>3, <4>2, SetupMasterIs
      <4>4. events'[lp] = {}
        BY <3>2, <3>6, <4>3 DEF Progress
      <4>5. Progress(lp)'
        BY <3>2, <4>1, <4>2, <4>4 DEF Progress
      <4>6. /\ lp_enabled' = [x \in LP |-> lp_enabled'[x]]
            /\ \A x \in LP : x # lp => lp_enabled'[x] = lp_enabled[x]
        BY <2>1, <4>1 DEF SetupTypes
      <4> QED BY <2>1, <3>6, <4>1, <4>5, <4>6 DEF SetupTypes
    <3>8. CASE StartSimulation(lp, m)
      <4>1. UNCHANGED <<lp_state, device, exited>> /\ m.event = "START_SIMULATION"
            /\ lp_enabled' = [lp_enabled EXCEPT ![lp] = "LP_ENABLED"]
        BY <3>8 DEF StartSimulation
      <4>2. lp \in Used
        <5>1. Event(100, "DISABLE_UNUSED_LP").event = "DISABLE_UNUSED_LP"
          BY DEF Event
        <5> QED BY <3>3, <4>1, <5>1, SetupMasterIs
      <4>3. m = Start
        BY <3>3, <4>1, <4>2, Scheduled
      <4>4. /\ \A f \in LpFields(lp) : LpSent(lp, f) # m
            /\ \A e \in Devices(lp) : \A f \in AllFields(e) : Sent(e, f) # m
        <5>1. \A f \in LpFields(lp) : LpSent(lp, f).event # "START_SIMULATION"
          BY LpSentIs
        <5>2. \A e \in Devices(lp) : \A f \in AllFields(e) : Sent(e, f).event # "START_SIMULATION"
          BY <4>2, SentIs, DevicesApart
        <5> QED BY <4>1, <5>1, <5>2
      <4>5. \A y \in SetupMaster(lp), x \in events'[lp] : y \notin events'[lp] => y.ts <= x.ts
        <5>1. \A y \in SetupMaster(lp), x \in events[lp] : y \notin events[lp] => y.ts <= x.ts
          BY <3>2 DEF Progress
        <5>2. \A x \in events[lp] : m.ts <= x.ts
          BY <3>1 DEF NextEvent
        <5> QED BY <3>6, <5>1, <5>2
      <4>6. DOMAIN lp_state'[lp] = {f \in LpFields(lp) : LpSent(lp, f) \notin events'[lp]}
        <5>1. \A f \in LpFields(lp) : LpSent(lp, f) \notin events'[lp] <=> LpSent(lp, f) \notin events[lp]
          BY <3>6, <4>4
        <5>2. DOMAIN lp_state[lp] = {f \in LpFields(lp) : LpSent(lp, f) \notin events[lp]}
          BY <3>2, <4>2 DEF Progress
        <5> QED BY <4>1, <5>1, <5>2
      <4>7. ASSUME NEW e \in Devices(lp)
            PROVE  DOMAIN device'[e] = {f \in AllFields(e) : Sent(e, f) \notin events'[lp]}
        <5>1. \A f \in AllFields(e) : Sent(e, f) \notin events'[lp] <=> Sent(e, f) \notin events[lp]
          BY <3>6, <4>4
        <5>2. DOMAIN device[e] = {f \in AllFields(e) : Sent(e, f) \notin events[lp]}
          BY <3>2, <4>2 DEF Progress
        <5> QED BY <4>1, <5>1, <5>2
      <4>8. /\ events'[lp] \subseteq SetupMaster(lp) /\ Start \notin events'[lp]
            /\ \A f \in DOMAIN lp_state'[lp] : lp_state'[lp][f] = Data(lp, f)
            /\ \A e \in Devices(lp) : \A f \in DOMAIN device'[e] : device'[e][f] = Data(e, f)
        BY <3>2, <3>6, <4>1, <4>2, <4>3 DEF Progress
      <4>9. Progress(lp)'
        BY <4>2, <4>5, <4>6, <4>7, <4>8 DEF Progress
      <4>10. /\ lp_enabled' = [x \in LP |-> lp_enabled'[x]]
             /\ \A x \in LP : x # lp => lp_enabled'[x] = lp_enabled[x]
        BY <2>1, <4>1 DEF SetupTypes
      <4> QED BY <2>1, <3>6, <4>1, <4>9, <4>10 DEF SetupTypes
    <3>9. CASE ReceiveSetupMessage(lp, m)
      <4>1. /\ m.event = "RECEIVE_SETUP_MESSAGE" /\ UNCHANGED lp_enabled
            /\ RecvInDevice(lp, m) \/ RecvInGeneralTopology(lp, m) \/ RecvInLpState(lp, m)
        BY <3>9 DEF ReceiveSetupMessage
      <4>2. lp \in Used
        <5>1. Event(100, "DISABLE_UNUSED_LP").event = "DISABLE_UNUSED_LP"
          BY DEF Event
        <5> QED BY <3>3, <4>1, <5>1, SetupMasterIs
      <4>3. CASE \E f \in LpFields(lp) : m = LpSent(lp, f)
        <5>1. PICK f \in LpFields(lp) : m = LpSent(lp, f)
          BY <4>3
        <5>2. ~ RecvInDevice(lp, m)
          BY <5>1, LpSentIs DEF RecvInDevice
        <5> QED BY <2>1, <3>1, <3>2, <4>1, <4>2, <5>1, <5>2, LpMessageKept
      <4>4. CASE \E e \in Devices(lp) : \E f \in AllFields(e) : m = Sent(e, f)
        <5>1. PICK e \in Devices(lp) : \E f \in AllFields(e) : m = Sent(e, f)
          BY <4>4
        <5>2. PICK f \in AllFields(e) : m = Sent(e, f)
          BY <5>1
        <5>3. e \in Elements
          BY <4>2, DevicesApart
        <5>4. RecvInDevice(lp, m)
          BY <4>1, <5>2, <5>3, SentIs DEF RecvInGeneralTopology, RecvInLpState
        <5> QED BY <2>1, <3>1, <3>2, <4>1, <4>2, <5>2, <5>4, DeviceMessageKept
      <4> QED BY <3>3, <4>1, <4>2, <4>3, <4>4, Scheduled
    <3> QED BY <2>3, <3>7, <3>8, <3>9
  <2>4. ASSUME NEW lp \in LP, NEW m \in events[lp], InitIndependent(lp, m) PROVE FALSE
    BY <1>4, <2>4 DEF InitIndependent
  <2> QED BY <1>4, <2>2, <2>3, <2>4 DEF Step
<1>5. ASSUME Step, independent PROVE SetupInv'
  BY <1>3, <1>5 DEF SetupInv
<1> QED BY <1>1, <1>2, <1>4, <1>5 DEF Next

\* Each field gets its own data although no message names its field, and no message
\* ends the program (setup_send_functions.c and setup_recv_functions.c, in a build
\* that sets the LPs up by messages).
LEMMA MessagesFindTheirFields == Spec => [](~independent => EveryFieldItsOwn)
<1>1. ASSUME SetupInv, ~independent PROVE EveryFieldItsOwn
  <2>1. SetupTypes /\ ~exited /\ (Untouched \/ \A lp \in LP : Progress(lp))
    BY <1>1 DEF SetupInv
  <2>2. ASSUME NEW e \in Elements, NEW f \in DOMAIN device[e] PROVE device[e][f] = Data(e, f)
    <3>1. PICK lp \in Used : e \in Devices(lp)
      BY DevicesApart
    <3>2. Progress(lp)
      BY <2>1, <2>2, <3>1, UsedLPs DEF Untouched
    <3> QED BY <3>1, <3>2 DEF Progress
  <2>3. ASSUME NEW lp \in LP, NEW f \in DOMAIN lp_state[lp] PROVE lp_state[lp][f] = Data(lp, f)
    BY <2>1, <2>3 DEF Untouched, Progress
  <2> QED BY <2>1, <2>2, <2>3 DEF EveryFieldItsOwn
<1> QED BY <1>1, SetupInitially, SetupKept, PTL DEF Spec

\* When START_SIMULATION is handled, nothing that the LP or its devices need is
\* missing, and no setup message is left (TS_START_SIMULATION after all others).
LEMMA StartsComplete == Spec => [](~independent => CompleteAtStart)
<1>1. ASSUME SetupInv, ~independent PROVE CompleteAtStart
  <2> SUFFICES ASSUME NEW lp \in Used, lp_enabled[lp] = "LP_ENABLED"
               PROVE  /\ {"number_lps_enabled", "general_topology", "probOfActuators", "devices_array"}
                           \subseteq DOMAIN lp_state[lp]
                      /\ \A e \in Devices(lp) : AllFields(e) \subseteq DOMAIN device[e]
                      /\ events[lp] = {}
    BY DEF CompleteAtStart
  <2>1. Progress(lp)
    BY <1>1, UsedLPs DEF SetupInv, Untouched
  <2>2. Start \notin events[lp] /\ Start \in SetupMaster(lp) /\ Start.ts = 900
    BY <2>1, Scheduled DEF Progress, Start, Event
  <2>3. events[lp] = {}
    <3> SUFFICES ASSUME NEW x \in events[lp] PROVE FALSE
      OBVIOUS
    <3>1. x \in SetupMaster(lp) /\ Start.ts <= x.ts
      BY <2>1, <2>2 DEF Progress
    <3>2. x.ts \in Nat /\ x.ts <= 900 /\ x.event \in {"RECEIVE_SETUP_MESSAGE", "START_SIMULATION"}
      BY <3>1, Scheduled
    <3>3. x.event = "START_SIMULATION" => x = Start
      BY <3>1, Scheduled
    <3>4. x.event = "RECEIVE_SETUP_MESSAGE" => x.ts < 900
      BY <3>1, Scheduled
    <3> QED BY <2>2, <3>1, <3>2, <3>3, <3>4
  <2>4. DOMAIN lp_state[lp] = LpFields(lp) /\ \A e \in Devices(lp) : DOMAIN device[e] = AllFields(e)
    BY <2>1, <2>3 DEF Progress
  <2> QED BY <2>3, <2>4 DEF LpFields
<1> QED BY <1>1, SetupInitially, SetupKept, PTL DEF Spec

-----------------------------------------------------------------------------
(* Sequences written one after the other.                                  *)

\* Where each of them ends in the file.
Placed(file, ends, parts) ==
  /\ ends \in [0 .. Len(parts) -> Nat] /\ ends[0] = 0 /\ ends[Len(parts)] = Len(file)
  /\ \A i \in 1 .. Len(parts) :
       /\ ends[i] = ends[i - 1] + Len(parts[i])
       /\ \A k \in 1 .. Len(parts[i]) :
            ends[i - 1] + k \in 1 .. Len(file) /\ file[ends[i - 1] + k] = parts[i][k]

\* One part more ends where it ends.
LEMMA PlacedOneMore ==
  ASSUME NEW W, NEW parts \in Seq(Seq(W)), NEW part \in Seq(W),
         NEW file \in Seq(W), NEW ends, Placed(file, ends, parts)
  PROVE  \E more : Placed(file \o part, more, Append(parts, part))
<1> DEFINE n == Len(parts)
           longer == Append(parts, part)
           f == file \o part
           more == [i \in 0 .. n + 1 |-> IF i = n + 1 THEN Len(f) ELSE ends[i]]
<1>1. /\ n \in Nat /\ Len(file) \in Nat /\ Len(part) \in Nat
      /\ \A i \in 1 .. n : parts[i] \in Seq(W) /\ Len(parts[i]) \in Nat
  BY LenProperties, ElementOfSeq
<1>2. /\ Len(longer) = n + 1 /\ longer[n + 1] = part
      /\ \A i \in 1 .. n : longer[i] = parts[i]
  OBVIOUS
<1>3. /\ Len(f) = Len(file) + Len(part)
      /\ \A p \in 1 .. Len(file) : f[p] = file[p]
      /\ \A k \in 1 .. Len(part) : f[Len(file) + k] = part[k]
  <2>1. /\ Len(f) = Len(file) + Len(part)
        /\ \A p \in 1 .. Len(file) + Len(part) : f[p] = IF p <= Len(file) THEN file[p] ELSE part[p - Len(file)]
    BY ConcatProperties
  <2>2. \A k \in 1 .. Len(part) : /\ Len(file) + k \in 1 .. Len(file) + Len(part) /\ ~ (Len(file) + k <= Len(file))
                                  /\ (Len(file) + k) - Len(file) = k
    BY <1>1
  <2>3. \A p \in 1 .. Len(file) : p \in 1 .. Len(file) + Len(part) /\ p <= Len(file)
    BY <1>1
  <2> HIDE DEF f
  <2> QED BY <2>1, <2>2, <2>3
<1> HIDE DEF longer, f
<1>4. /\ ends \in [0 .. n -> Nat] /\ ends[0] = 0 /\ ends[n] = Len(file)
      /\ \A i \in 1 .. n :
           /\ ends[i] = ends[i - 1] + Len(parts[i])
           /\ \A k \in 1 .. Len(parts[i]) :
                ends[i - 1] + k \in 1 .. Len(file) /\ file[ends[i - 1] + k] = parts[i][k]
  BY DEF Placed
<1>5. /\ more \in [0 .. n + 1 -> Nat] /\ more[0] = 0 /\ more[n + 1] = Len(f)
      /\ \A i \in 0 .. n : more[i] = ends[i]
  BY <1>1, <1>3, <1>4
<1> HIDE DEF more, n
<1>6. ASSUME NEW i \in 1 .. n + 1
      PROVE  /\ more[i] = more[i - 1] + Len(longer[i])
             /\ \A k \in 1 .. Len(longer[i]) :
                  more[i - 1] + k \in 1 .. Len(f) /\ f[more[i - 1] + k] = longer[i][k]
  <2>1. CASE i = n + 1
    <3>1. more[i - 1] = Len(file) /\ longer[i] = part
      BY <1>1, <1>2, <1>4, <1>5, <2>1
    <3> QED BY <1>1, <1>3, <1>5, <2>1, <3>1
  <2>2. CASE i # n + 1
    <3>1. /\ i \in 1 .. n /\ more[i] = ends[i] /\ more[i - 1] = ends[i - 1] /\ longer[i] = parts[i]
      BY <1>1, <1>2, <1>5, <2>2
    <3>2. \A p \in 1 .. Len(file) : p \in 1 .. Len(f)
      BY <1>1, <1>3
    <3>3. ASSUME NEW k \in 1 .. Len(parts[i])
          PROVE  ends[i - 1] + k \in 1 .. Len(f) /\ f[ends[i - 1] + k] = parts[i][k]
      <4>1. ends[i - 1] + k \in 1 .. Len(file) /\ file[ends[i - 1] + k] = parts[i][k]
        BY <1>4, <3>1
      <4> QED BY <1>3, <3>2, <4>1
    <3>4. ends[i] = ends[i - 1] + Len(parts[i])
      BY <1>4, <3>1
    <3> QED BY <3>1, <3>3, <3>4
  <2> QED BY <2>1, <2>2
<1>7. Placed(f, more, longer)
  BY <1>2, <1>5, <1>6 DEF Placed
<1> QED BY <1>7 DEF f, longer

\* The first i parts, one after the other, as FlattenSeq computes them.
Flats(parts) == CHOOSE f : f = [i \in 1 .. Len(parts) |-> IF i = 1 THEN parts[i] ELSE f[i - 1] \o parts[i]]

\* FlattenSeq writes them all, one after the other.
LEMMA Flattens ==
  ASSUME NEW W, NEW parts \in Seq(Seq(W))
  PROVE  /\ FlattenSeq(parts) \in Seq(W)
         /\ \E ends : Placed(FlattenSeq(parts), ends, parts)
<1> DEFINE n == Len(parts)
           E == 1 .. n
           F == [E -> Seq(W)]
           Joins(f, i) == IF i = 1 THEN parts[i] ELSE f[i - 1] \o parts[i]
           joins == [p \in F \X E |-> Joins(p[1], p[2])]
           size == [i \in E |-> i]
<1>1. n \in Nat /\ \A i \in E : parts[i] \in Seq(W)
  BY LenProperties, ElementOfSeq
<1>2. ASSUME NEW f \in F, NEW i \in E
      PROVE  joins[<<f, i>>] = Joins(f, i) /\ joins[<<f, i>>] \in Seq(W)
  <2>1. i # 1 => i - 1 \in E
    BY <1>1
  <2>2. <<f, i>> \in F \X E /\ <<f, i>>[1] = f /\ <<f, i>>[2] = i
    OBVIOUS
  <2>3. joins[<<f, i>>] = Joins(f, i)
    BY <2>2
  <2>4. i # 1 => f[i - 1] \in Seq(W)
    BY <2>1
  <2>5. Joins(f, i) \in Seq(W)
    BY <1>1, <2>4, ConcatProperties
  <2> QED BY <2>3, <2>5
<1>3. ASSUME NEW g \in F, NEW h \in F, NEW x \in E, \A y \in E : size[y] < size[x] => g[y] = h[y]
      PROVE  joins[<<g, x>>] = joins[<<h, x>>]
  <2>1. x # 1 => x - 1 \in E /\ size[x - 1] < size[x]
    BY <1>1
  <2>2. x # 1 => g[x - 1] = h[x - 1]
    BY <1>3, <2>1
  <2> QED BY <1>2, <2>2
<1>4. PICK f \in F : \A i \in E : f[i] = Joins(f, i)
  <2>1. size \in [E -> Nat] /\ (\A x \in E : size[x] < n + 1) /\ n + 1 \in Nat
    BY <1>1
  <2>2. [i \in E |-> <<>>] \in F
    BY EmptySeq
  <2> HIDE DEF joins, size
  <2>3. LooksDown(E, Seq(W), size, n + 1, joins)
    BY <1>2, <1>3, <2>1, <2>2 DEF LooksDown
  <2>4. \E f \in F : \A i \in E : f[i] = joins[<<f, i>>]
    <3> HIDE DEF E
    <3> QED BY <2>3, MeasuredRecursion
  <2>5. \A f \in F, i \in E : joins[<<f, i>>] = Joins(f, i)
    BY <1>2
  <2> HIDE DEF F, Joins
  <2> QED BY <2>4, <2>5
<1> DEFINE h == Flats(parts)
<1>5. h = [i \in E |-> Joins(h, i)]
  <2>1. f = [i \in E |-> Joins(f, i)]
    BY <1>4
  <2> QED BY <2>1 DEF Flats
<1> HIDE DEF h
<1>6. \A i \in E : h[i] = IF i = 1 THEN parts[i] ELSE h[i - 1] \o parts[i]
  BY <1>5
<1> DEFINE P(i, s) == s \in Seq(W) /\ \E ends : Placed(s, ends, SubSeq(parts, 1, i))
           N == {i \in Nat : i + 1 \in E => P(i + 1, h[i + 1])}
<1>7. \A m \in E : SubSeq(parts, 1, m) = Append(SubSeq(parts, 1, m - 1), parts[m])
                     /\ SubSeq(parts, 1, m - 1) \in Seq(Seq(W))
  BY <1>1
<1>8. P(0, <<>>)
  <2> DEFINE none == [i \in 0 .. 0 |-> 0]
  <2>1. SubSeq(parts, 1, 0) = <<>> /\ Len(<<>>) = 0 /\ <<>> \in Seq(W)
    BY SubSeqEmpty, EmptySeq
  <2>2. none \in [0 .. 0 -> Nat] /\ none[0] = 0
    OBVIOUS
  <2> HIDE DEF none
  <2>3. Placed(<<>>, none, <<>>)
    BY <2>1, <2>2 DEF Placed
  <2> QED BY <2>1, <2>3
<1>9. ASSUME NEW m \in E, NEW s, P(m - 1, s) PROVE P(m, s \o parts[m])
  <2>1. PICK ends : Placed(s, ends, SubSeq(parts, 1, m - 1))
    BY <1>9
  <2>2. \E more : Placed(s \o parts[m], more, SubSeq(parts, 1, m))
    BY <1>1, <1>7, <1>9, <2>1, PlacedOneMore
  <2>3. s \o parts[m] \in Seq(W)
    BY <1>1, <1>9, ConcatProperties
  <2> QED BY <2>2, <2>3
<1> HIDE DEF P
<1>10. 0 \in N
  <2> SUFFICES ASSUME 1 \in E PROVE P(1, h[1])
    OBVIOUS
  <2>1. h[1] = parts[1] /\ <<>> \o parts[1] = parts[1]
    BY <1>1, <1>6, ConcatEmptySeq
  <2>2. P(1 - 1, <<>>)
    BY <1>8
  <2>3. P(1, <<>> \o parts[1])
    BY <1>9, <2>2
  <2> QED BY <2>1, <2>3
<1>11. ASSUME NEW i \in Nat, i \in N PROVE i + 1 \in N
  <2> SUFFICES ASSUME (i + 1) + 1 \in E PROVE P((i + 1) + 1, h[(i + 1) + 1])
    OBVIOUS
  <2>1. i + 1 \in E /\ ((i + 1) + 1) - 1 = i + 1 /\ (i + 1) + 1 # 1
    BY <1>1
  <2>2. h[(i + 1) + 1] = h[i + 1] \o parts[(i + 1) + 1]
    BY <1>6, <2>1
  <2>3. P(((i + 1) + 1) - 1, h[i + 1])
    BY <1>11, <2>1
  <2> QED BY <1>9, <2>2, <2>3
<1>12. \A i \in Nat : i \in N
  <2> HIDE DEF N
  <2> QED BY <1>10, <1>11, SetInduction
<1>13. P(n, FlattenSeq(parts))
  <2>1. CASE n = 0
    <3>1. FlattenSeq(parts) = <<>>
      BY <2>1, EmptySeq DEF FlattenSeq
    <3> QED BY <1>8, <2>1, <3>1
  <2>2. CASE n # 0
    <3>1. n - 1 \in Nat /\ (n - 1) + 1 = n /\ n \in E
      BY <1>1, <2>2
    <3>2. P(n, h[n])
      BY <1>12, <3>1
    <3>3. FlattenSeq(parts) = h[n]
      BY <2>2 DEF FlattenSeq, Flats, h
    <3> QED BY <3>2, <3>3
  <2> QED BY <2>1, <2>2
<1> QED BY <1>13, SubSeqFull DEF P

-----------------------------------------------------------------------------
(* Reading what was written.                                               *)

\* s stands in the file from position pos on.
Stands(file, pos, s) ==
  \A k \in 1 .. Len(s) : pos + k - 1 \in DOMAIN file /\ file[pos + k - 1] = s[k]

\* The parts stand there one after the other, up to the position before "end".
Laid(file, pos, parts, end) ==
  \E at \in [0 .. Len(parts) -> Int] :
    /\ at[0] = pos /\ at[Len(parts)] = end
    /\ \A i \in 1 .. Len(parts) : at[i] = at[i - 1] + Len(parts[i]) /\ Stands(file, at[i - 1], parts[i])

\* What stands there as one sequence stands there part by part.
LEMMA FlattenedLaid ==
  ASSUME NEW W, NEW parts \in Seq(Seq(W)), NEW file, NEW pos \in Int,
         Stands(file, pos, FlattenSeq(parts))
  PROVE  Laid(file, pos, parts, pos + Len(FlattenSeq(parts)))
<1> DEFINE whole == FlattenSeq(parts)
           n == Len(parts)
<1>1. n \in Nat /\ whole \in Seq(W) /\ Len(whole) \in Nat
  BY LenProperties, Flattens
<1>2. PICK ends : Placed(whole, ends, parts)
  BY Flattens
<1> HIDE DEF whole
<1> DEFINE at == [i \in 0 .. n |-> pos + ends[i]]
<1>3. /\ ends \in [0 .. n -> Nat] /\ ends[0] = 0 /\ ends[n] = Len(whole)
      /\ \A i \in 1 .. n :
           /\ ends[i] = ends[i - 1] + Len(parts[i])
           /\ \A k \in 1 .. Len(parts[i]) :
                ends[i - 1] + k \in 1 .. Len(whole) /\ whole[ends[i - 1] + k] = parts[i][k]
  BY <1>2 DEF Placed
<1>4. at \in [0 .. n -> Int] /\ at[0] = pos /\ at[n] = pos + Len(whole)
  <2>1. 0 \in 0 .. n /\ n \in 0 .. n /\ n \in Nat
    BY <1>1
  <2>2. ends \in [0 .. n -> Nat] /\ ends[0] = 0 /\ ends[n] = Len(whole)
    BY <1>3
  <2> HIDE DEF n
  <2>3. \A i \in 0 .. n : ends[i] \in Nat
    BY <2>2
  <2>4. \A i \in 0 .. n : pos + ends[i] \in Int
    BY <2>3
  <2>5. at \in [0 .. n -> Int]
    BY <2>4
  <2>6. at[0] = pos + ends[0] /\ at[n] = pos + ends[n]
    BY <2>1
  <2>7. pos + 0 = pos
    OBVIOUS
  <2> HIDE DEF at
  <2> QED BY <2>2, <2>5, <2>6, <2>7
<1>5. ASSUME NEW i \in 1 .. n
      PROVE  at[i] = at[i - 1] + Len(parts[i]) /\ Stands(file, at[i - 1], parts[i])
  <2>1. i \in 0 .. n /\ i - 1 \in 0 .. n /\ Len(parts[i]) \in Nat
    BY <1>1, ElementOfSeq, LenProperties
  <2>2. ends[i] = ends[i - 1] + Len(parts[i]) /\ ends[i] \in Nat /\ ends[i - 1] \in Nat
    BY <1>3, <2>1
  <2>3. at[i] = at[i - 1] + Len(parts[i]) /\ at[i - 1] = pos + ends[i - 1]
    BY <2>1, <2>2
  <2>4. ASSUME NEW k \in 1 .. Len(parts[i])
        PROVE  at[i - 1] + k - 1 \in DOMAIN file /\ file[at[i - 1] + k - 1] = parts[i][k]
    <3>1. at[i - 1] + k - 1 = pos + (ends[i - 1] + k) - 1
      BY <2>1, <2>2, <2>3
    <3>2. ends[i - 1] + k \in 1 .. Len(whole) /\ whole[ends[i - 1] + k] = parts[i][k]
      BY <1>3
    <3>3. pos + (ends[i - 1] + k) - 1 \in DOMAIN file
          /\ file[pos + (ends[i - 1] + k) - 1] = whole[ends[i - 1] + k]
      BY <3>2 DEF Stands, whole
    <3> QED BY <3>1, <3>2, <3>3
  <2> QED BY <2>3, <2>4 DEF Stands
<1> HIDE DEF at
<1>6. Laid(file, pos, parts, pos + Len(whole))
  BY <1>4, <1>5 DEF Laid
<1> QED BY <1>6 DEF whole

\* Parts can be read in two goes: the second begins where the first ends.
LEMMA LaidInTwo ==
  ASSUME NEW W, NEW a \in Seq(Seq(W)), NEW b \in Seq(Seq(W)),
         NEW file, NEW pos \in Int, NEW end, Laid(file, pos, a \o b, end)
  PROVE  \E mid \in Int : Laid(file, pos, a, mid) /\ Laid(file, mid, b, end)
<1> DEFINE ab == a \o b
<1>1. /\ Len(a) \in Nat /\ Len(b) \in Nat /\ Len(ab) = Len(a) + Len(b)
      /\ \A i \in 1 .. Len(a) : ab[i] = a[i]
      /\ \A i \in 1 .. Len(b) : ab[Len(a) + i] = b[i]
  <2>1. /\ Len(a) \in Nat /\ Len(b) \in Nat /\ Len(ab) = Len(a) + Len(b)
        /\ \A i \in 1 .. Len(a) + Len(b) : ab[i] = IF i <= Len(a) THEN a[i] ELSE b[i - Len(a)]
    BY LenProperties, ConcatProperties
  <2>2. \A i \in 1 .. Len(b) : /\ Len(a) + i \in 1 .. Len(a) + Len(b) /\ ~ (Len(a) + i <= Len(a))
                               /\ (Len(a) + i) - Len(a) = i
    BY <2>1
  <2>3. \A i \in 1 .. Len(a) : i \in 1 .. Len(a) + Len(b) /\ i <= Len(a)
    BY <2>1
  <2> HIDE DEF ab
  <2> QED BY <2>1, <2>2, <2>3
<1> HIDE DEF ab
<1>2. PICK at \in [0 .. Len(ab) -> Int] :
        /\ at[0] = pos /\ at[Len(ab)] = end
        /\ \A i \in 1 .. Len(ab) : at[i] = at[i - 1] + Len(ab[i]) /\ Stands(file, at[i - 1], ab[i])
  BY DEF Laid, ab
<1> DEFINE first == [i \in 0 .. Len(a) |-> at[i]]
           second == [i \in 0 .. Len(b) |-> at[Len(a) + i]]
           mid == at[Len(a)]
<1>3. Len(a) \in 0 .. Len(ab) /\ mid \in Int
  BY <1>1, <1>2
<1>4. Laid(file, pos, a, mid)
  <2>1. first \in [0 .. Len(a) -> Int] /\ first[0] = pos /\ first[Len(a)] = mid
    BY <1>1, <1>2
  <2>2. ASSUME NEW i \in 1 .. Len(a)
        PROVE  first[i] = first[i - 1] + Len(a[i]) /\ Stands(file, first[i - 1], a[i])
    <3>1. i \in 1 .. Len(ab) /\ first[i] = at[i] /\ first[i - 1] = at[i - 1] /\ a[i] = ab[i]
      BY <1>1
    <3> QED BY <1>2, <3>1
  <2> HIDE DEF first, mid
  <2> QED BY <2>1, <2>2 DEF Laid
<1>5. Laid(file, mid, b, end)
  <2>1. second \in [0 .. Len(b) -> Int] /\ second[0] = mid /\ second[Len(b)] = end
    <3>1. \A i \in 0 .. Len(b) : Len(a) + i \in 0 .. Len(ab)
      BY <1>1
    <3> QED BY <1>1, <1>2, <3>1
  <2>2. ASSUME NEW i \in 1 .. Len(b)
        PROVE  second[i] = second[i - 1] + Len(b[i]) /\ Stands(file, second[i - 1], b[i])
    <3>1. /\ Len(a) + i \in 1 .. Len(ab) /\ b[i] = ab[Len(a) + i]
          /\ i \in 0 .. Len(b) /\ i - 1 \in 0 .. Len(b) /\ Len(a) + (i - 1) = (Len(a) + i) - 1
      BY <1>1
    <3>2. second[i] = at[Len(a) + i] /\ second[i - 1] = at[(Len(a) + i) - 1]
      BY <3>1
    <3> HIDE DEF second
    <3> QED BY <1>2, <3>1, <3>2
  <2> HIDE DEF second, mid
  <2> QED BY <2>1, <2>2 DEF Laid
<1> QED BY <1>3, <1>4, <1>5

\* The reader at position pos, when it has read the fields D of what it wants.
Has(want, pos, D) == [pos |-> pos, got |-> [f \in D |-> want[f]]]

\* How often a step reads its words: once, or as often as a field it has read says.
Count(want, per) == IF per = Once THEN 1 ELSE want[per][1].value

\* The step reads or skips the part, and has then read the fields E.
ReadsPart(want, D, step, part, E) ==
  /\ step.kept => part = want[step.field]
  /\ step.per = Once \/ step.per \in D
  /\ Len(part) = step.words * Count(want, step.per)
  /\ E = IF step.kept THEN D \cup {step.field} ELSE D

\* A step that fits the part before it reads or skips just that part.
LEMMA ReadOne ==
  ASSUME NEW want, NEW D, NEW file, NEW pos \in Int, NEW step, NEW W, NEW part \in Seq(W), NEW E,
         Stands(file, pos, part), ReadsPart(want, D, step, part, E)
  PROVE  ReadStep(file, Has(want, pos, D), step) = Has(want, pos + Len(part), E)
<1>1. /\ step.kept => part = want[step.field]
      /\ step.per = Once \/ step.per \in D
      /\ Len(part) = step.words * Count(want, step.per)
      /\ E = IF step.kept THEN D \cup {step.field} ELSE D
  BY DEF ReadsPart
<1> DEFINE s == Has(want, pos, D)
           n == step.words * (IF step.per = Once THEN 1 ELSE Value(s, step.per))
           words == [i \in 1 .. n |-> WordAt(file, s.pos + i - 1)]
<1>2. s.pos = pos /\ s.got = [f \in D |-> want[f]]
  BY DEF Has
<1>3. n = Len(part)
  BY <1>1, <1>2 DEF Value, Count
<1>4. words = part
  <2>1. \A i \in 1 .. Len(part) : WordAt(file, s.pos + i - 1) = part[i]
    BY <1>2 DEF Stands, WordAt
  <2>2. part = [i \in 1 .. Len(part) |-> part[i]]
    BY LenProperties
  <2> HIDE DEF s, n
  <2> QED BY <1>3, <2>1, <2>2
<1>5. ReadStep(file, s, step) =
        [pos |-> s.pos + n,
         got |-> IF step.kept THEN [f \in DOMAIN s.got \cup {step.field} |->
                                      IF f = step.field THEN words ELSE s.got[f]]
                 ELSE s.got]
  BY DEF ReadStep
<1> HIDE DEF n, words, s
<1>6. CASE step.kept
  <2>1. DOMAIN s.got = D /\ \A f \in D : s.got[f] = want[f]
    BY <1>2
  <2>2. [f \in DOMAIN s.got \cup {step.field} |-> IF f = step.field THEN words ELSE s.got[f]]
          = [f \in D \cup {step.field} |-> want[f]]
    BY <1>1, <1>4, <1>6, <2>1
  <2> QED BY <1>1, <1>2, <1>3, <1>5, <1>6, <2>2 DEF Has, s
<1>7. CASE ~step.kept
  BY <1>1, <1>2, <1>3, <1>5, <1>7 DEF Has, s
<1> QED BY <1>6, <1>7

\* The fields the first i steps read.
ReadFields(steps, i) == {steps[j].field : j \in {k \in 1 .. i : steps[k].kept}}

\* The steps read or skip what the parts are, one by one, when the fields D have
\* been read; a number comes before what it is the number of.
Matches(want, D, steps, parts) ==
  /\ Len(steps) \in Nat /\ Len(parts) = Len(steps)
  /\ \A i \in 1 .. Len(steps) :
       /\ steps[i].kept => parts[i] = want[steps[i].field]
       /\ steps[i].per = Once \/ steps[i].per \in D \cup ReadFields(steps, i - 1)
       /\ Len(parts[i]) = steps[i].words * Count(want, steps[i].per)

\* A step more reads its own field, if it keeps it.
LEMMA OneFieldMore ==
  ASSUME NEW steps, NEW i \in Nat \ {0}
  PROVE  ReadFields(steps, i)
           = IF steps[i].kept THEN ReadFields(steps, i - 1) \cup {steps[i].field} ELSE ReadFields(steps, i - 1)
<1>1. {k \in 1 .. i : steps[k].kept}
        = IF steps[i].kept THEN {k \in 1 .. i - 1 : steps[k].kept} \cup {i} ELSE {k \in 1 .. i - 1 : steps[k].kept}
  OBVIOUS
<1> QED BY <1>1 DEF ReadFields

\* The reader after each step, as ReadSteps computes it.
Afters(file, s, steps) ==
  CHOOSE f : f = [i \in 0 .. Len(steps) |-> IF i = 0 THEN s ELSE ReadStep(file, f[i - 1], steps[i])]

\* Steps that match the parts read all of them, and end where these end.
LEMMA Reads ==
  ASSUME NEW want, NEW D, NEW file, NEW pos \in Int, NEW end, NEW steps, NEW W, NEW parts \in Seq(Seq(W)),
         Laid(file, pos, parts, end), Matches(want, D, steps, parts)
  PROVE  ReadSteps(file, Has(want, pos, D), steps) = Has(want, end, D \cup ReadFields(steps, Len(steps)))
<1> DEFINE n == Len(steps)
           s == Has(want, pos, D)
<1>1. n \in Nat /\ Len(parts) = n /\ \A i \in 1 .. n : parts[i] \in Seq(W)
  BY ElementOfSeq DEF Matches
<1>2. PICK at \in [0 .. n -> Int] :
        /\ at[0] = pos /\ at[n] = end
        /\ \A i \in 1 .. n : at[i] = at[i - 1] + Len(parts[i]) /\ Stands(file, at[i - 1], parts[i])
  BY <1>1 DEF Laid
<1> DEFINE Known(i) == D \cup ReadFields(steps, i)
           h == [i \in 0 .. n |-> Has(want, at[i], Known(i))]
<1>3. 0 \in 0 .. n /\ n \in 0 .. n /\ \A i \in 1 .. n : i \in 0 .. n /\ i - 1 \in 0 .. n /\ i # 0 /\ i \in Nat \ {0}
  BY <1>1
<1>4. Known(0) = D
  <2>1. {k \in 1 .. 0 : steps[k].kept} = {}
    OBVIOUS
  <2> QED BY <2>1 DEF ReadFields
<1>5. h[0] = s /\ h[n] = Has(want, end, Known(n))
  BY <1>2, <1>3, <1>4
<1>6. ASSUME NEW i \in 1 .. n PROVE h[i] = ReadStep(file, h[i - 1], steps[i])
  <2>1. h[i] = Has(want, at[i], Known(i)) /\ h[i - 1] = Has(want, at[i - 1], Known(i - 1))
    BY <1>3
  <2>2. Known(i) = IF steps[i].kept THEN Known(i - 1) \cup {steps[i].field} ELSE Known(i - 1)
    BY <1>3, OneFieldMore
  <2>3. /\ steps[i].kept => parts[i] = want[steps[i].field]
        /\ steps[i].per = Once \/ steps[i].per \in Known(i - 1)
        /\ Len(parts[i]) = steps[i].words * Count(want, steps[i].per)
    BY DEF Matches
  <2>4. /\ at[i - 1] \in Int /\ at[i] = at[i - 1] + Len(parts[i]) /\ Stands(file, at[i - 1], parts[i])
        /\ parts[i] \in Seq(W)
    BY <1>1, <1>2, <1>3
  <2> HIDE DEF h, Known
  <2>5. ReadsPart(want, Known(i - 1), steps[i], parts[i], Known(i))
    BY <2>2, <2>3 DEF ReadsPart
  <2>6. ReadStep(file, Has(want, at[i - 1], Known(i - 1)), steps[i])
          = Has(want, at[i - 1] + Len(parts[i]), Known(i))
    <3> DEFINE p == at[i - 1]
               part == parts[i]
               K == Known(i - 1)
               E == Known(i)
    <3>1. p \in Int /\ part \in Seq(W) /\ Stands(file, p, part) /\ ReadsPart(want, K, steps[i], part, E)
      BY <2>4, <2>5
    <3> HIDE DEF p, part, K, E
    <3>2. ReadStep(file, Has(want, p, K), steps[i]) = Has(want, p + Len(part), E)
      BY <3>1, ReadOne
    <3> QED BY <3>2 DEF p, part, K, E
  <2> QED BY <2>1, <2>4, <2>6
<1> DEFINE g == Afters(file, s, steps)
<1>7. g = [i \in 0 .. n |-> IF i = 0 THEN s ELSE ReadStep(file, g[i - 1], steps[i])]
  <2>1. h = [i \in 0 .. n |-> h[i]]
    OBVIOUS
  <2>2. \A i \in 0 .. n : h[i] = IF i = 0 THEN s ELSE ReadStep(file, h[i - 1], steps[i])
    <3>1. \A i \in 0 .. n : i # 0 => i \in 1 .. n
      BY <1>1
    <3> HIDE DEF h, s
    <3> QED BY <1>5, <1>6, <3>1
  <2> HIDE DEF h
  <2>3. h = [i \in 0 .. n |-> IF i = 0 THEN s ELSE ReadStep(file, h[i - 1], steps[i])]
    BY <2>1, <2>2
  <2> QED BY <2>3 DEF Afters
<1> HIDE DEF g, h, s
<1>8. g[0] = s /\ \A i \in 1 .. n : g[i] = ReadStep(file, g[i - 1], steps[i])
  BY <1>3, <1>7
<1>9. \A i \in Nat : i \in 0 .. n => g[i] = h[i]
  <2> DEFINE N == {i \in Nat : i \in 0 .. n => g[i] = h[i]}
  <2>1. 0 \in N
    BY <1>5, <1>8
  <2>2. ASSUME NEW i \in Nat, i \in N PROVE i + 1 \in N
    <3> SUFFICES ASSUME i + 1 \in 0 .. n PROVE g[i + 1] = h[i + 1]
      OBVIOUS
    <3>1. i + 1 \in 1 .. n /\ (i + 1) - 1 = i /\ i \in 0 .. n
      BY <1>1
    <3> QED BY <1>6, <1>8, <2>2, <3>1
  <2> HIDE DEF N
  <2>3. \A i \in Nat : i \in N
    BY <2>1, <2>2, SetInduction
  <2> QED BY <2>3 DEF N
<1>10. ReadSteps(file, s, steps) = g[n]
  BY DEF ReadSteps, Afters, g
<1> QED BY <1>3, <1>5, <1>9, <1>10 DEF s

-----------------------------------------------------------------------------
(* Fields written one after the other.                                     *)

\* The words of the fields, field by field, as Written puts them together.
Chosen(words, fields) == [i \in DOMAIN fields |-> words[fields[i]]]

\* Each field has its words.
HaveWords(W, words, fields) == \A i \in DOMAIN fields : words[fields[i]] \in Seq(W)

\* They are sequences of words, one per field.
LEMMA ChosenIs ==
  ASSUME NEW W, NEW words, NEW N, NEW fields \in Seq(N), HaveWords(W, words, fields)
  PROVE  /\ Chosen(words, fields) \in Seq(Seq(W)) /\ Len(Chosen(words, fields)) = Len(fields)
         /\ Len(fields) \in Nat /\ DOMAIN fields = 1 .. Len(fields)
         /\ \A i \in 1 .. Len(fields) : Chosen(words, fields)[i] = words[fields[i]]
<1>1. Len(fields) \in Nat /\ DOMAIN fields = 1 .. Len(fields)
  BY LenProperties
<1> DEFINE n == Len(fields)
           c == [i \in 1 .. n |-> words[fields[i]]]
<1>2. Chosen(words, fields) = c
  BY <1>1 DEF Chosen
<1>3. \A i \in 1 .. n : words[fields[i]] \in Seq(W)
  BY <1>1 DEF HaveWords
<1> HIDE DEF n
<1>4. n \in Nat
  BY <1>1 DEF n
<1>5. c \in Seq(Seq(W)) /\ Len(c) = n
  BY <1>3, <1>4
<1> QED BY <1>1, <1>2, <1>5 DEF n

\* The fields of two lists are those of the first, then those of the second.
LEMMA ChosenBoth ==
  ASSUME NEW W, NEW words, NEW N, NEW a \in Seq(N), NEW b \in Seq(N),
         HaveWords(W, words, a), HaveWords(W, words, b)
  PROVE  /\ Chosen(words, a \o b) = Chosen(words, a) \o Chosen(words, b)
         /\ HaveWords(W, words, a \o b)
<1> DEFINE ab == a \o b
           n == Len(a)
           m == Len(b)
           x == Chosen(words, a)
           y == Chosen(words, b)
<1>1. /\ n \in Nat /\ m \in Nat /\ x \in Seq(Seq(W)) /\ y \in Seq(Seq(W)) /\ Len(x) = n /\ Len(y) = m
      /\ \A i \in 1 .. n : x[i] = words[a[i]] /\ words[a[i]] \in Seq(W)
      /\ \A i \in 1 .. m : y[i] = words[b[i]] /\ words[b[i]] \in Seq(W)
  <2>1. /\ n \in Nat /\ x \in Seq(Seq(W)) /\ Len(x) = n /\ DOMAIN a = 1 .. n
        /\ \A i \in 1 .. n : x[i] = words[a[i]]
    BY ChosenIs
  <2>2. /\ m \in Nat /\ y \in Seq(Seq(W)) /\ Len(y) = m /\ DOMAIN b = 1 .. m
        /\ \A i \in 1 .. m : y[i] = words[b[i]]
    BY ChosenIs
  <2> QED BY <2>1, <2>2 DEF HaveWords
<1>2. /\ ab \in Seq(N) /\ Len(ab) = n + m
      /\ \A i \in 1 .. n + m : ab[i] = IF i <= n THEN a[i] ELSE b[i - n]
  BY ConcatProperties
<1> HIDE DEF ab, n, m, x, y
<1>3. /\ x \o y \in Seq(Seq(W)) /\ Len(x \o y) = n + m
      /\ \A i \in 1 .. n + m : (x \o y)[i] = IF i <= n THEN x[i] ELSE y[i - n]
  <2> DEFINE S == Seq(W)
  <2>1. x \in Seq(S) /\ y \in Seq(S)
    BY <1>1
  <2> HIDE DEF S
  <2>2. /\ x \o y \in Seq(S) /\ Len(x \o y) = Len(x) + Len(y)
        /\ \A i \in 1 .. Len(x) + Len(y) : (x \o y)[i] = IF i <= Len(x) THEN x[i] ELSE y[i - Len(x)]
    BY <2>1, ConcatProperties
  <2> QED BY <1>1, <2>2 DEF S
<1>4. ASSUME NEW i \in 1 .. n + m
      PROVE  (x \o y)[i] = words[ab[i]] /\ words[ab[i]] \in Seq(W)
  <2>1. CASE i <= n
    <3>1. i \in 1 .. n /\ ab[i] = a[i] /\ (x \o y)[i] = x[i]
      BY <1>1, <1>2, <1>3, <2>1
    <3> QED BY <1>1, <3>1
  <2>2. CASE ~ (i <= n)
    <3>1. i - n \in 1 .. m /\ ab[i] = b[i - n] /\ (x \o y)[i] = y[i - n]
      BY <1>1, <1>2, <1>3, <2>2
    <3> QED BY <1>1, <3>1
  <2> QED BY <2>1, <2>2
<1>5. DOMAIN ab = 1 .. n + m
  BY <1>2, LenProperties
<1>6. Chosen(words, ab) = [i \in 1 .. n + m |-> words[ab[i]]]
  BY <1>5 DEF Chosen
<1>7. DOMAIN (x \o y) = 1 .. n + m /\ x \o y = [i \in DOMAIN (x \o y) |-> (x \o y)[i]]
  BY <1>3, LenProperties
<1>8. x \o y = [i \in 1 .. n + m |-> words[ab[i]]]
  BY <1>4, <1>7
<1> QED BY <1>4, <1>5, <1>6, <1>8 DEF ab, x, y, HaveWords

\* All names of fields, and all words.
\* The fields of an element.
Names ==
  {"id", "at", "st", "lp_type", "upperNode", "numberOfLowerElements", "lowerElements",
   "numberOfLANS", "connectedLans", "numValidActuatorPaths", "actuatorPaths",
   "numValidElToLP", "ElementToLPMapping", "cost", "node_type", "scheduler",
   "disk_cost", "disk_type", "diskServices",
   "cores", "aggregation_rate", "delay_upper_router", "delay_lower_router", "service_time",
   "probCommandResponse", "id_WAN_up", "id_WAN_down",
   "type_job", "device_type", "measure_type", "id_LAN_up", "sensorRates",
   "rateTransition", "serviceTimeCommand", "wan_type", "lan_type", "delay",
   "LANsINserviceTimes", "LANsOUTserviceTimes",
   "numberOfBelowActuators", "actuatorsTypesBelow", "numberOfBelowSensors", "sensorsTypesBelow",
   "ListSensorsByType", "ListActuatorsByType"}

\* Every word a file can have under these names.
AllWords(names) == {Word(of, f, nr, v) : of \in Elements \cup {None}, f \in names, nr \in Nat, v \in Int}

\* What is written of an element are fields.
LEMMA FieldNames ==
  ASSUME NEW e \in Elements
  PROVE  /\ WriteHead \in Seq(Names) /\ WriteType \in Seq(Names) /\ WriteDisk \in Seq(Names)
         /\ WriteRest \in Seq(Names) /\ WriteDevice \in Seq(Names) /\ WriteSensor \in Seq(Names)
         /\ WriteActuator \in Seq(Names) /\ WriteWan \in Seq(Names) /\ WriteLan \in Seq(Names)
         /\ WriteBelow \in Seq(Names) /\ <<>> \in Seq(Names)
         /\ WriteNode(e) \in Seq(Names) /\ WriteSpecific(e) \in Seq(Names)
         /\ WriteHead \o WriteSpecific(e) \in Seq(Names) /\ WriteElement(e) \in Seq(Names)
<1>1. WriteHead \in Seq(Names)
  BY DEF WriteHead, Names
<1>2. WriteType \in Seq(Names) /\ WriteDisk \in Seq(Names) /\ WriteSensor \in Seq(Names)
  BY DEF WriteType, WriteDisk, WriteSensor, Names
<1>3. WriteRest \in Seq(Names)
  BY DEF WriteRest, Names
<1>4. WriteDevice \in Seq(Names) /\ WriteActuator \in Seq(Names) /\ WriteWan \in Seq(Names)
  BY DEF WriteDevice, WriteActuator, WriteWan, Names
<1>5. WriteLan \in Seq(Names)
  BY DEF WriteLan, Names
<1>6. WriteBelow \in Seq(Names)
  BY DEF WriteBelow, Names
<1>7. <<>> \in Seq(Names)
  BY EmptySeq
<1> HIDE DEF Names
<1>8. \A a, b \in Seq(Names) : a \o b \in Seq(Names)
  BY ConcatProperties
<1>9. WriteNode(e) \in Seq(Names)
  BY <1>2, <1>3, <1>7, <1>8 DEF WriteNode
<1>10. WriteSpecific(e) \in Seq(Names)
  <2>1. TypeOf[e] \in {NODE, SENSOR, ACTUATOR, LAN, WAN}
    BY SetupAssumption
  <2> QED BY <1>2, <1>4, <1>5, <1>8, <1>9, <2>1 DEF WriteSpecific
<1>11. WriteElement(e) \in Seq(Names)
  BY <1>1, <1>6, <1>7, <1>8, <1>10 DEF WriteElement
<1> QED BY <1>1, <1>2, <1>3, <1>4, <1>5, <1>6, <1>7, <1>8, <1>9, <1>10, <1>11

\* The sum of some counts is a number.
LEMMA Totals ==
  ASSUME NEW s \in Seq(Nat)
  PROVE  Total(s) \in Nat
<1>1. Len(s) \in Nat /\ DOMAIN s = 1 .. Len(s) /\ \A i \in 1 .. Len(s) : s[i] \in Nat
  BY LenProperties, ElementOfSeq
<1>2. IsFiniteSet(1 .. Len(s))
  BY <1>1, FS_Interval
<1> QED BY <1>1, <1>2, SumNat DEF Total, SumFunction

\* Every field has a length and a content, the ones with nothing of interest too.
LEMMA LengthsAndContents ==
  ASSUME NEW e \in Elements, NEW f
  PROVE  Length(e, f) \in Nat /\ Content(e, f) \in Int
<1>1. /\ Sizes[e].lowers \in Nat /\ Sizes[e].lans \in Nat /\ Sizes[e].paths \in Nat /\ Sizes[e].neighbours \in Nat
      /\ Sizes[e].actuators \in Seq(Nat) /\ Sizes[e].sensors \in Seq(Nat) /\ ActTypes \in Nat /\ SensTypes \in Nat
  BY FilesAssumption
<1>2. Total(Sizes[e].actuators) \in Nat /\ Total(Sizes[e].sensors) \in Nat
  BY <1>1, Totals
<1>3. Length(e, f) \in Nat
  BY <1>1, <1>2 DEF Length
<1>4. TypeCode[TypeOf[e]] \in Int
  <2>1. TypeOf[e] \in {"NODE", "SENSOR", "ACTUATOR", "LAN", "WAN"}
    BY SetupAssumption DEF NODE, SENSOR, ACTUATOR, LAN, WAN
  <2> QED BY <2>1 DEF TypeCode
<1>5. e \in Int
  BY SetupAssumption
<1>6. Content(e, f) \in Int
  BY <1>1, <1>2, <1>4, <1>5 DEF Content, CENTRAL, REGIONAL
<1> QED BY <1>3, <1>6

\* A field is written with its length, a field of one word with its content.
LEMMA ElementWordsAre ==
  ASSUME NEW e \in Elements
  PROVE  /\ DOMAIN ElementWords(e) = Range(WriteElement(e)) /\ Range(WriteElement(e)) \subseteq Names
         /\ \A f \in Range(WriteElement(e)) :
              /\ ElementWords(e)[f] \in Seq(AllWords(Names)) /\ Len(ElementWords(e)[f]) = Length(e, f)
              /\ Length(e, f) = 1 => ElementWords(e)[f][1].value = Content(e, f)
<1>1. Range(WriteElement(e)) \subseteq Names
  <2>1. \A i \in DOMAIN WriteElement(e) : WriteElement(e)[i] \in Names
    BY FieldNames, LenProperties, ElementOfSeq
  <2> QED BY <2>1 DEF Range
<1>2. DOMAIN ElementWords(e) = Range(WriteElement(e))
  BY DEF ElementWords
<1>3. ASSUME NEW f \in Range(WriteElement(e))
      PROVE  /\ ElementWords(e)[f] \in Seq(AllWords(Names)) /\ Len(ElementWords(e)[f]) = Length(e, f)
             /\ Length(e, f) = 1 => ElementWords(e)[f][1].value = Content(e, f)
  <2> DEFINE n == Length(e, f)
             c == Content(e, f)
             w == [i \in 1 .. n |-> Word(e, f, i, c)]
  <2>1. ElementWords(e)[f] = w
    BY DEF ElementWords
  <2>2. n \in Nat /\ c \in Int /\ f \in Names
    BY <1>1, LengthsAndContents
  <2> HIDE DEF n, c
  <2>3. \A i \in 1 .. n : Word(e, f, i, c) \in AllWords(Names)
    BY <2>2 DEF AllWords
  <2>4. w \in Seq(AllWords(Names)) /\ Len(w) = n
    BY <2>2, <2>3
  <2>5. n = 1 => w[1].value = c
    BY DEF Word
  <2> QED BY <2>1, <2>4, <2>5 DEF n, c
<1> QED BY <1>1, <1>2, <1>3

\* What is in a list made of two.
LEMMA RangeBoth ==
  ASSUME NEW N, NEW a \in Seq(N), NEW b \in Seq(N)
  PROVE  Range(a \o b) = Range(a) \cup Range(b)
<1> DEFINE n == Len(a)
           m == Len(b)
           ab == a \o b
<1>1. n \in Nat /\ m \in Nat /\ DOMAIN a = 1 .. n /\ DOMAIN b = 1 .. m
  BY LenProperties
<1>2. ab \in Seq(N) /\ Len(ab) = n + m /\ \A i \in 1 .. n + m : ab[i] = IF i <= n THEN a[i] ELSE b[i - n]
  BY ConcatProperties
<1>3. DOMAIN ab = 1 .. n + m
  BY <1>2, LenProperties
<1> HIDE DEF ab, n, m
<1>4. \A i \in 1 .. n : i \in 1 .. n + m /\ ab[i] = a[i]
  BY <1>1, <1>2
<1>5. \A i \in 1 .. m : n + i \in 1 .. n + m /\ ab[n + i] = b[i]
  <2> TAKE i \in 1 .. m
  <2>1. n + i \in 1 .. n + m /\ ~ (n + i <= n) /\ (n + i) - n = i
    BY <1>1
  <2> QED BY <1>2, <2>1
<1>6. \A i \in 1 .. n + m : (i \in 1 .. n /\ ab[i] = a[i]) \/ (i - n \in 1 .. m /\ ab[i] = b[i - n])
  <2> TAKE i \in 1 .. n + m
  <2>1. (i \in 1 .. n /\ i <= n) \/ (~ (i <= n) /\ i - n \in 1 .. m)
    BY <1>1
  <2> QED BY <1>2, <2>1
<1>7. Range(ab) \subseteq Range(a) \cup Range(b)
  BY <1>1, <1>3, <1>6 DEF Range
<1>8. Range(a) \subseteq Range(ab)
  BY <1>1, <1>3, <1>4 DEF Range
<1>9. Range(b) \subseteq Range(ab)
  BY <1>1, <1>3, <1>5 DEF Range
<1> QED BY <1>7, <1>8, <1>9 DEF ab

-----------------------------------------------------------------------------
(* The reads of an element fit its fields.                                 *)

\* Read for read and field for field, when the fields D are known.
Fit(e, D, steps, fields) ==
  /\ Len(steps) = Len(fields)
  /\ \A i \in 1 .. Len(fields) :
       /\ steps[i].kept => steps[i].field = fields[i]
       /\ IF steps[i].per = Once THEN Length(e, fields[i]) = steps[i].words * 1
          ELSE /\ Length(e, steps[i].per) = 1
               /\ Length(e, fields[i]) = steps[i].words * Content(e, steps[i].per)
               /\ steps[i].per \in D \/ \E j \in 1 .. i - 1 : steps[j].kept /\ steps[j].field = steps[i].per

\* Reads that fit some fields of an element read them all, as they were written.
LEMMA ReadChunk ==
  ASSUME NEW e \in Elements, NEW D \in SUBSET Range(WriteElement(e)), NEW steps,
         NEW fields \in Seq(Names), Range(fields) \subseteq Range(WriteElement(e)),
         Fit(e, D, steps, fields), NEW file, NEW pos \in Int, NEW end,
         Laid(file, pos, Chosen(ElementWords(e), fields), end)
  PROVE  \E E \in SUBSET Range(WriteElement(e)) :
           /\ ReadSteps(file, Has(ElementWords(e), pos, D), steps) = Has(ElementWords(e), end, E)
           /\ D \subseteq E
           /\ \A i \in 1 .. Len(fields) : steps[i].kept => fields[i] \in E
<1> DEFINE R == Range(WriteElement(e))
           V == ElementWords(e)
           n == Len(fields)
           parts == Chosen(V, fields)
           E == D \cup ReadFields(steps, n)
<1>1. n \in Nat /\ DOMAIN fields = 1 .. n
  BY LenProperties
<1>2. \A i \in 1 .. n : fields[i] \in R
  BY <1>1 DEF Range
<1>3. \A f \in R : /\ V[f] \in Seq(AllWords(Names)) /\ Len(V[f]) = Length(e, f)
                   /\ Length(e, f) = 1 => V[f][1].value = Content(e, f)
  BY ElementWordsAre
<1>4. parts \in Seq(Seq(AllWords(Names))) /\ Len(parts) = n /\ \A i \in 1 .. n : parts[i] = V[fields[i]]
  <2>1. HaveWords(AllWords(Names), V, fields)
    BY <1>1, <1>2, <1>3 DEF HaveWords
  <2> HIDE DEF V, R
  <2> QED BY <2>1, ChosenIs
<1>5. Len(steps) = n /\ \A i \in 1 .. n :
       /\ steps[i].kept => steps[i].field = fields[i]
       /\ IF steps[i].per = Once THEN Length(e, fields[i]) = steps[i].words * 1
          ELSE /\ Length(e, steps[i].per) = 1
               /\ Length(e, fields[i]) = steps[i].words * Content(e, steps[i].per)
               /\ steps[i].per \in D \/ \E j \in 1 .. i - 1 : steps[j].kept /\ steps[j].field = steps[i].per
  BY DEF Fit
<1>6. \A i \in 0 .. n : ReadFields(steps, i) \subseteq R
  <2> SUFFICES ASSUME NEW i \in 0 .. n, NEW k \in 1 .. i, steps[k].kept PROVE steps[k].field \in R
    BY DEF ReadFields
  <2>1. k \in 1 .. n
    BY <1>1
  <2> QED BY <1>2, <1>5, <2>1
<1> HIDE DEF n, V, R
<1>7. ASSUME NEW i \in 1 .. n
      PROVE  /\ steps[i].kept => parts[i] = V[steps[i].field]
             /\ steps[i].per = Once \/ steps[i].per \in D \cup ReadFields(steps, i - 1)
             /\ Len(parts[i]) = steps[i].words * Count(V, steps[i].per)
  <2>1. /\ steps[i].kept => parts[i] = V[steps[i].field]
        /\ Len(parts[i]) = Length(e, fields[i])
    BY <1>2, <1>3, <1>4, <1>5
  <2>2. CASE steps[i].per = Once
    BY <1>5, <2>1, <2>2 DEF Count
  <2>3. CASE steps[i].per # Once
    <3>1. steps[i].per \in D \cup ReadFields(steps, i - 1)
      BY <1>5, <2>3 DEF ReadFields
    <3>2. steps[i].per \in R
      <4>1. i - 1 \in 0 .. n
        BY <1>1
      <4>2. ReadFields(steps, i - 1) \subseteq R
        BY <1>6, <4>1
      <4> QED BY <3>1, <4>2 DEF R
    <3>3. Count(V, steps[i].per) = Content(e, steps[i].per)
      BY <1>3, <1>5, <2>3, <3>2 DEF Count
    <3> QED BY <1>5, <2>1, <2>3, <3>1, <3>3
  <2> QED BY <2>2, <2>3
<1>8. Matches(V, D, steps, parts)
  BY <1>1, <1>4, <1>5, <1>7 DEF Matches
<1>9. ReadSteps(file, Has(V, pos, D), steps) = Has(V, end, E)
  <2>1. Laid(file, pos, parts, end)
    BY DEF V
  <2> HIDE DEF parts
  <2> QED BY <1>4, <1>5, <1>8, <2>1, Reads
<1>10. E \subseteq R
  <2>1. n \in 0 .. n
    BY <1>1
  <2> QED BY <1>6, <2>1 DEF R
<1>11. \A i \in 1 .. n : steps[i].kept => fields[i] \in E
  BY <1>5 DEF ReadFields
<1> QED BY <1>9, <1>10, <1>11 DEF n, V, R

\* parseBinaryElementTopology 17-70 reads what generateBinaries_elementTopology 21-76
\* writes; the other groups likewise.
LEMMA HeadFits ==
  ASSUME NEW e \in Elements
  PROVE  Fit(e, {}, ReadHead, WriteHead)
<1> DEFINE s == ReadHead
           w == WriteHead
<1>1. Len(s) = 14 /\ Len(w) = 14
  BY DEF ReadHead, WriteHead
<1>2. /\ w[1] = "id" /\ w[2] = "at" /\ w[3] = "st" /\ w[4] = "lp_type" /\ w[5] = "upperNode"
      /\ w[6] = "numberOfLowerElements" /\ w[7] = "lowerElements"
      /\ w[8] = "numberOfLANS" /\ w[9] = "connectedLans"
      /\ w[10] = "numValidActuatorPaths" /\ w[11] = "actuatorPaths"
      /\ w[12] = "numValidElToLP" /\ w[13] = "ElementToLPMapping" /\ w[14] = "cost"
  BY DEF WriteHead
<1>3. /\ s[1] = Fread("id", 1, Once) /\ s[2] = Fread("at", 1, Once) /\ s[3] = Fread("st", 1, Once)
      /\ s[4] = Fread("lp_type", 1, Once) /\ s[5] = Fread("upperNode", 1, Once)
      /\ s[6] = Fread("numberOfLowerElements", 1, Once) /\ s[7] = Fseek(1, "numberOfLowerElements")
      /\ s[8] = Fread("numberOfLANS", 1, Once) /\ s[9] = Fseek(1, "numberOfLANS")
      /\ s[10] = Fread("numValidActuatorPaths", 1, Once)
      /\ s[11] = Fread("actuatorPaths", 2, "numValidActuatorPaths")
      /\ s[12] = Fread("numValidElToLP", 1, Once) /\ s[13] = Fread("ElementToLPMapping", 2, "numValidElToLP")
      /\ s[14] = Fread("cost", 2, Once)
  BY DEF ReadHead
<1> HIDE DEF s, w
<1>4. \A f, k, per : /\ Fread(f, k, per).field = f /\ Fread(f, k, per).words = k
                     /\ Fread(f, k, per).per = per /\ Fread(f, k, per).kept
                     /\ Fseek(k, per).words = k /\ Fseek(k, per).per = per /\ ~Fseek(k, per).kept
  BY DEF Fread, Fseek
<1>5. ASSUME NEW i \in {1, 2, 3, 4, 5, 6, 8, 10, 12, 14}
      PROVE  /\ s[i].kept /\ s[i].field = w[i] /\ s[i].per = Once
             /\ Length(e, w[i]) = s[i].words * 1
  BY <1>2, <1>3, <1>4 DEF Length
<1>6. /\ Length(e, "numberOfLowerElements") = 1 /\ Length(e, "numberOfLANS") = 1
      /\ Length(e, "numValidActuatorPaths") = 1 /\ Length(e, "numValidElToLP") = 1
  BY DEF Length
<1>7. /\ Content(e, "numberOfLowerElements") = Sizes[e].lowers /\ Content(e, "numberOfLANS") = Sizes[e].lans
      /\ Content(e, "numValidActuatorPaths") = Sizes[e].paths /\ Content(e, "numValidElToLP") = Sizes[e].neighbours
  BY DEF Content
<1>8. /\ Length(e, "lowerElements") = Sizes[e].lowers /\ Length(e, "connectedLans") = Sizes[e].lans
      /\ Length(e, "actuatorPaths") = 2 * Sizes[e].paths
      /\ Length(e, "ElementToLPMapping") = 2 * Sizes[e].neighbours
  BY DEF Length
<1>9. /\ Sizes[e].lowers \in Nat /\ Sizes[e].lans \in Nat
  BY FilesAssumption
<1>10. ASSUME NEW i \in {7, 9, 11, 13}
       PROVE  /\ s[i].kept => s[i].field = w[i]
              /\ s[i].per # Once /\ Length(e, s[i].per) = 1
              /\ Length(e, w[i]) = s[i].words * Content(e, s[i].per)
              /\ i - 1 \in 1 .. i - 1 /\ s[i - 1].kept /\ s[i - 1].field = s[i].per
  BY <1>2, <1>3, <1>4, <1>6, <1>7, <1>8, <1>9 DEF Once
<1>11. \A i \in 1 .. 14 : i \in {1, 2, 3, 4, 5, 6, 8, 10, 12, 14} \/ i \in {7, 9, 11, 13}
  OBVIOUS
<1>12. Fit(e, {}, s, w)
  BY <1>1, <1>5, <1>10, <1>11 DEF Fit
<1> QED BY <1>12 DEF s, w

\* A fread keeps its field, a fseek keeps none.
LEMMA StepsAre ==
  \A f, k, per : /\ Fread(f, k, per).field = f /\ Fread(f, k, per).words = k
                 /\ Fread(f, k, per).per = per /\ Fread(f, k, per).kept
                 /\ Fseek(k, per).words = k /\ Fseek(k, per).per = per /\ ~Fseek(k, per).kept
BY DEF Fread, Fseek

\* Fields that are read one by one, each as long as it is.
LEMMA OneByOne ==
  ASSUME NEW e, NEW D, NEW steps, NEW fields, NEW n \in Nat, Len(steps) = n, Len(fields) = n,
         \A i \in 1 .. n : steps[i] = Fread(fields[i], Length(e, fields[i]), Once) /\ Length(e, fields[i]) \in Nat
  PROVE  Fit(e, D, steps, fields)
<1>1. \A i \in 1 .. n : /\ steps[i].field = fields[i] /\ steps[i].words = Length(e, fields[i])
                        /\ steps[i].per = Once /\ steps[i].kept
  BY StepsAre
<1>2. \A i \in 1 .. n : Length(e, fields[i]) = steps[i].words * 1
  BY <1>1
<1> QED BY <1>1, <1>2 DEF Fit

LEMMA TypeFits ==
  ASSUME NEW e, NEW D PROVE Fit(e, D, ReadType, WriteType)
<1>1. Length(e, "node_type") = 1 /\ Length(e, "scheduler") = 1
  BY DEF Length
<1>2. Len(ReadType) = 2 /\ Len(WriteType) = 2
  BY DEF ReadType, WriteType
<1>3. \A i \in 1 .. 2 : ReadType[i] = Fread(WriteType[i], Length(e, WriteType[i]), Once)
                        /\ Length(e, WriteType[i]) \in Nat
  BY <1>1 DEF ReadType, WriteType
<1> QED BY <1>2, <1>3, OneByOne

LEMMA DiskFits ==
  ASSUME NEW e, NEW D PROVE Fit(e, D, ReadDisk, WriteDisk)
<1>1. Length(e, "disk_cost") = 2 /\ Length(e, "disk_type") = 1 /\ Length(e, "diskServices") = 8
  BY DEF Length
<1>2. Len(ReadDisk) = 3 /\ Len(WriteDisk) = 3
  BY DEF ReadDisk, WriteDisk
<1>3. \A i \in 1 .. 3 : ReadDisk[i] = Fread(WriteDisk[i], Length(e, WriteDisk[i]), Once)
                        /\ Length(e, WriteDisk[i]) \in Nat
  BY <1>1 DEF ReadDisk, WriteDisk
<1> QED BY <1>2, <1>3, OneByOne

LEMMA RestFits ==
  ASSUME NEW e, NEW D PROVE Fit(e, D, ReadRest, WriteRest)
<1>1. /\ Length(e, "cores") = 1 /\ Length(e, "aggregation_rate") = 4 /\ Length(e, "delay_upper_router") = 1
      /\ Length(e, "delay_lower_router") = 1 /\ Length(e, "service_time") = 10
      /\ Length(e, "probCommandResponse") = 1 /\ Length(e, "id_WAN_up") = 1 /\ Length(e, "id_WAN_down") = 1
  BY DEF Length
<1>2. Len(ReadRest) = 8 /\ Len(WriteRest) = 8
  BY DEF ReadRest, WriteRest
<1>3. \A i \in 1 .. 8 : ReadRest[i] = Fread(WriteRest[i], Length(e, WriteRest[i]), Once)
                        /\ Length(e, WriteRest[i]) \in Nat
  BY <1>1 DEF ReadRest, WriteRest
<1> QED BY <1>2, <1>3, OneByOne

LEMMA DeviceFits ==
  ASSUME NEW e, NEW D PROVE Fit(e, D, ReadDevice, WriteDevice)
<1>1. /\ Length(e, "type_job") = 1 /\ Length(e, "device_type") = 1
      /\ Length(e, "measure_type") = 1 /\ Length(e, "id_LAN_up") = 1
  BY DEF Length
<1>2. Len(ReadDevice) = 4 /\ Len(WriteDevice) = 4
  BY DEF ReadDevice, WriteDevice
<1>3. \A i \in 1 .. 4 : ReadDevice[i] = Fread(WriteDevice[i], Length(e, WriteDevice[i]), Once)
                        /\ Length(e, WriteDevice[i]) \in Nat
  BY <1>1 DEF ReadDevice, WriteDevice
<1> QED BY <1>2, <1>3, OneByOne

LEMMA SensorFits ==
  ASSUME NEW e, NEW D PROVE Fit(e, D, ReadSensor, WriteSensor)
<1>1. Length(e, "sensorRates") = 4
  BY DEF Length
<1>2. Len(ReadSensor) = 1 /\ Len(WriteSensor) = 1
  BY DEF ReadSensor, WriteSensor
<1>3. \A i \in 1 .. 1 : ReadSensor[i] = Fread(WriteSensor[i], Length(e, WriteSensor[i]), Once)
                        /\ Length(e, WriteSensor[i]) \in Nat
  BY <1>1 DEF ReadSensor, WriteSensor
<1> QED BY <1>2, <1>3, OneByOne

LEMMA ActuatorFits ==
  ASSUME NEW e, NEW D PROVE Fit(e, D, ReadActuator, WriteActuator)
<1>1. Length(e, "rateTransition") = 2 /\ Length(e, "serviceTimeCommand") = 2
  BY DEF Length
<1>2. Len(ReadActuator) = 2 /\ Len(WriteActuator) = 2
  BY DEF ReadActuator, WriteActuator
<1>3. \A i \in 1 .. 2 : ReadActuator[i] = Fread(WriteActuator[i], Length(e, WriteActuator[i]), Once)
                        /\ Length(e, WriteActuator[i]) \in Nat
  BY <1>1 DEF ReadActuator, WriteActuator
<1> QED BY <1>2, <1>3, OneByOne

LEMMA WanFits ==
  ASSUME NEW e, NEW D PROVE Fit(e, D, ReadWan, WriteWan)
<1>1. Length(e, "wan_type") = 1 /\ Length(e, "delay") = 1
  BY DEF Length
<1>2. Len(ReadWan) = 2 /\ Len(WriteWan) = 2
  BY DEF ReadWan, WriteWan
<1>3. \A i \in 1 .. 2 : ReadWan[i] = Fread(WriteWan[i], Length(e, WriteWan[i]), Once)
                        /\ Length(e, WriteWan[i]) \in Nat
  BY <1>1 DEF ReadWan, WriteWan
<1> QED BY <1>2, <1>3, OneByOne

LEMMA LanFits ==
  ASSUME NEW e, NEW D PROVE Fit(e, D, ReadLan, WriteLan)
<1>1. /\ Length(e, "lan_type") = 1 /\ Length(e, "delay") = 1
      /\ Length(e, "LANsINserviceTimes") = 10 /\ Length(e, "LANsOUTserviceTimes") = 10
  BY DEF Length
<1>2. Len(ReadLan) = 4 /\ Len(WriteLan) = 4
  BY DEF ReadLan, WriteLan
<1>3. \A i \in 1 .. 4 : ReadLan[i] = Fread(WriteLan[i], Length(e, WriteLan[i]), Once)
                        /\ Length(e, WriteLan[i]) \in Nat
  BY <1>1 DEF ReadLan, WriteLan
<1> QED BY <1>2, <1>3, OneByOne

\* The devices below: the sensors' counts and lists are skipped, by the numbers of
\* types that came first.
\* The types of the devices below are as many as "at" and "st", read in the head, say;
\* the lists are as long as the numbers before them.
LEMMA BelowFits ==
  ASSUME NEW e \in Elements, NEW D, {"at", "st"} \subseteq D
  PROVE  Fit(e, D, ReadBelow, WriteBelow)
<1> DEFINE s == ReadBelow
           w == WriteBelow
<1>1. Len(s) = 6 /\ Len(w) = 6
  BY DEF ReadBelow, WriteBelow
<1>2. /\ w[1] = "numberOfBelowActuators" /\ w[2] = "actuatorsTypesBelow"
      /\ w[3] = "numberOfBelowSensors" /\ w[4] = "sensorsTypesBelow"
      /\ w[5] = "ListSensorsByType" /\ w[6] = "ListActuatorsByType"
  BY DEF WriteBelow
<1>3. /\ s[1] = Fread("numberOfBelowActuators", 1, Once) /\ s[2] = Fread("actuatorsTypesBelow", 1, "at")
      /\ s[3] = Fread("numberOfBelowSensors", 1, Once) /\ s[4] = Fseek(1, "st")
      /\ s[5] = Fseek(1, "numberOfBelowSensors")
      /\ s[6] = Fread("ListActuatorsByType", 1, "numberOfBelowActuators")
  BY DEF ReadBelow
<1> HIDE DEF s, w
<1>4. /\ Length(e, "numberOfBelowActuators") = 1 /\ Length(e, "numberOfBelowSensors") = 1
      /\ Length(e, "at") = 1 /\ Length(e, "st") = 1
      /\ Length(e, "actuatorsTypesBelow") = ActTypes /\ Length(e, "sensorsTypesBelow") = SensTypes
      /\ Length(e, "ListSensorsByType") = Total(Sizes[e].sensors)
      /\ Length(e, "ListActuatorsByType") = Total(Sizes[e].actuators)
  BY DEF Length
<1>5. /\ Content(e, "at") = ActTypes /\ Content(e, "st") = SensTypes
      /\ Content(e, "numberOfBelowActuators") = Total(Sizes[e].actuators)
      /\ Content(e, "numberOfBelowSensors") = Total(Sizes[e].sensors)
  BY DEF Content
<1>6. /\ ActTypes \in Nat /\ SensTypes \in Nat
      /\ Total(Sizes[e].sensors) \in Nat /\ Total(Sizes[e].actuators) \in Nat
  BY FilesAssumption, Totals
<1>7. ASSUME NEW i \in {1, 3}
      PROVE  /\ s[i].kept /\ s[i].field = w[i] /\ s[i].per = Once
             /\ Length(e, w[i]) = s[i].words * 1
  BY <1>2, <1>3, <1>4, StepsAre
<1>8. ASSUME NEW i \in {2, 4}
      PROVE  /\ s[i].kept => s[i].field = w[i]
             /\ s[i].per # Once /\ Length(e, s[i].per) = 1
             /\ Length(e, w[i]) = s[i].words * Content(e, s[i].per)
             /\ s[i].per \in D
  BY <1>2, <1>3, <1>4, <1>5, <1>6, StepsAre DEF Once
<1>9. ASSUME NEW i \in {5, 6}
      PROVE  /\ s[i].kept => s[i].field = w[i]
             /\ s[i].per # Once /\ Length(e, s[i].per) = 1
             /\ Length(e, w[i]) = s[i].words * Content(e, s[i].per)
             /\ \E j \in 1 .. i - 1 : s[j].kept /\ s[j].field = s[i].per
  <2>1. 3 \in 1 .. 5 - 1 /\ s[3].kept /\ s[3].field = s[5].per
    BY <1>3, StepsAre
  <2>2. 1 \in 1 .. 6 - 1 /\ s[1].kept /\ s[1].field = s[6].per
    BY <1>3, StepsAre
  <2>3. \E j \in 1 .. i - 1 : s[j].kept /\ s[j].field = s[i].per
    BY <2>1, <2>2
  <2> QED BY <1>2, <1>3, <1>4, <1>5, <1>6, <2>3, StepsAre DEF Once
<1>10. \A i \in 1 .. 6 : i \in {1, 3} \/ i \in {2, 4} \/ i \in {5, 6}
  OBVIOUS
<1>11. Fit(e, D, s, w)
  BY <1>1, <1>7, <1>8, <1>9, <1>10 DEF Fit
<1> QED BY <1>11 DEF s, w

\* All of them fit whatever has been read, but the devices below need the numbers
\* of types.
\* Every group that is read fits the group that was written.
LEMMA AllFit ==
  ASSUME NEW e \in Elements, NEW D
  PROVE  /\ Fit(e, {}, ReadHead, WriteHead) /\ Fit(e, D, ReadType, WriteType)
         /\ Fit(e, D, ReadDisk, WriteDisk) /\ Fit(e, D, ReadRest, WriteRest)
         /\ Fit(e, D, ReadDevice, WriteDevice) /\ Fit(e, D, ReadSensor, WriteSensor)
         /\ Fit(e, D, ReadActuator, WriteActuator) /\ Fit(e, D, ReadWan, WriteWan)
         /\ Fit(e, D, ReadLan, WriteLan)
         /\ {"at", "st"} \subseteq D => Fit(e, D, ReadBelow, WriteBelow)
BY HeadFits, TypeFits, DiskFits, RestFits, DeviceFits, SensorFits, ActuatorFits, WanFits, LanFits, BelowFits

\* Some of an element's fields stand in the file, one after the other.
There(e, file, pos, fields, end) ==
  /\ fields \in Seq(Names) /\ Range(fields) \subseteq Range(WriteElement(e))
  /\ pos \in Int /\ end \in Int
  /\ Laid(file, pos, Chosen(ElementWords(e), fields), end)

\* An element has words for each of its fields.
LEMMA OfItsOwn ==
  ASSUME NEW e \in Elements, NEW fields \in Seq(Names), Range(fields) \subseteq Range(WriteElement(e))
  PROVE  HaveWords(AllWords(Names), ElementWords(e), fields)
<1>1. \A i \in DOMAIN fields : fields[i] \in Range(WriteElement(e))
  BY DEF Range
<1> QED BY <1>1, ElementWordsAre DEF HaveWords

\* Two groups, the second after the first.
LEMMA ThereInTwo ==
  ASSUME NEW e \in Elements, NEW a \in Seq(Names), NEW b \in Seq(Names),
         NEW file, NEW pos, NEW end, There(e, file, pos, a \o b, end)
  PROVE  \E mid \in Int : There(e, file, pos, a, mid) /\ There(e, file, mid, b, end)
<1> DEFINE R == Range(WriteElement(e))
           W == AllWords(Names)
           V == ElementWords(e)
           x == Chosen(V, a)
           y == Chosen(V, b)
<1>1. Range(a) \subseteq R /\ Range(b) \subseteq R /\ pos \in Int /\ end \in Int
  BY RangeBoth DEF There
<1>2. HaveWords(W, V, a) /\ HaveWords(W, V, b)
  BY <1>1, OfItsOwn
<1>3. x \in Seq(Seq(W)) /\ y \in Seq(Seq(W)) /\ Chosen(V, a \o b) = x \o y
  <2> HIDE DEF V, W
  <2> QED BY <1>2, ChosenIs, ChosenBoth
<1>4. Laid(file, pos, x \o y, end)
  BY <1>3 DEF There
<1> HIDE DEF x, y, W
<1>5. \E mid \in Int : Laid(file, pos, x, mid) /\ Laid(file, mid, y, end)
  BY <1>1, <1>3, <1>4, LaidInTwo
<1> QED BY <1>1, <1>5 DEF There, x, y

\* No field, no word.
LEMMA ThereNone ==
  ASSUME NEW e \in Elements, NEW file, NEW pos, NEW end, There(e, file, pos, <<>>, end)
  PROVE  pos = end
<1>1. Chosen(ElementWords(e), <<>>) = <<>>
  BY DEF Chosen
<1>2. Laid(file, pos, <<>>, end)
  BY <1>1 DEF There
<1>3. Len(<<>>) = 0
  BY EmptySeq
<1> QED BY <1>2, <1>3 DEF Laid

\* The reader has read the fields E of e, its next word is at pos.
Reader(e, pos, E) == Has(ElementWords(e), pos, E)

\* A group of reads takes the reader over the group of fields it fits.
LEMMA ReadThere ==
  ASSUME NEW e \in Elements, NEW D \in SUBSET Range(WriteElement(e)), NEW steps, NEW fields,
         Fit(e, D, steps, fields), NEW file, NEW pos, NEW end, There(e, file, pos, fields, end)
  PROVE  \E E \in SUBSET Range(WriteElement(e)) :
           /\ ReadSteps(file, Reader(e, pos, D), steps) = Reader(e, end, E)
           /\ D \subseteq E
           /\ \A i \in 1 .. Len(fields) : steps[i].kept => fields[i] \in E
<1>1. /\ fields \in Seq(Names) /\ Range(fields) \subseteq Range(WriteElement(e))
      /\ pos \in Int /\ Laid(file, pos, Chosen(ElementWords(e), fields), end)
  BY DEF There
<1> QED BY <1>1, ReadChunk DEF Reader

\* A number that was read is the one that was written.
LEMMA ValueRead ==
  ASSUME NEW e \in Elements, NEW pos, NEW E \in SUBSET Range(WriteElement(e)), NEW f \in E, Length(e, f) = 1
  PROVE  Value(Reader(e, pos, E), f) = Content(e, f)
<1>1. Reader(e, pos, E).got[f] = ElementWords(e)[f]
  BY DEF Reader, Has
<1> QED BY <1>1, ElementWordsAre DEF Value

\* What every element begins with.
LEMMA HeadRead ==
  ASSUME NEW e \in Elements, NEW file, NEW pos, NEW end, There(e, file, pos, WriteHead, end)
  PROVE  \E E \in SUBSET Range(WriteElement(e)) :
           /\ ReadSteps(file, From(pos), ReadHead) = Reader(e, end, E)
           /\ {"id", "at", "st", "lp_type", "actuatorPaths", "ElementToLPMapping"} \subseteq E
<1>1. From(pos) = Reader(e, pos, {})
  BY DEF From, Reader, Has
<1>2. PICK E \in SUBSET Range(WriteElement(e)) :
        /\ ReadSteps(file, Reader(e, pos, {}), ReadHead) = Reader(e, end, E)
        /\ \A i \in 1 .. Len(WriteHead) : ReadHead[i].kept => WriteHead[i] \in E
  BY AllFit, ReadThere
<1>3. /\ WriteHead[1] = "id" /\ WriteHead[2] = "at" /\ WriteHead[3] = "st" /\ WriteHead[4] = "lp_type"
      /\ WriteHead[11] = "actuatorPaths" /\ WriteHead[13] = "ElementToLPMapping" /\ Len(WriteHead) = 14
  BY DEF WriteHead
<1>4. \A i \in {1, 2, 3, 4, 11, 13} : ReadHead[i].kept
  BY DEF ReadHead, Fread
<1> QED BY <1>1, <1>2, <1>3, <1>4

\* What the elements with paths end with.
LEMMA BelowRead ==
  ASSUME NEW e \in Elements, NEW D \in SUBSET Range(WriteElement(e)), {"at", "st"} \subseteq D,
         NEW file, NEW pos, NEW end, There(e, file, pos, WriteBelow, end)
  PROVE  \E E \in SUBSET Range(WriteElement(e)) :
           /\ ReadSteps(file, Reader(e, pos, D), ReadBelow) = Reader(e, end, E)
           /\ D \cup {"actuatorsTypesBelow", "ListActuatorsByType"} \subseteq E
<1>1. Fit(e, D, ReadBelow, WriteBelow)
  BY AllFit
<1>2. PICK E \in SUBSET Range(WriteElement(e)) :
        /\ ReadSteps(file, Reader(e, pos, D), ReadBelow) = Reader(e, end, E)
        /\ D \subseteq E
        /\ \A i \in 1 .. Len(WriteBelow) : ReadBelow[i].kept => WriteBelow[i] \in E
  BY <1>1, ReadThere
<1>3. WriteBelow[2] = "actuatorsTypesBelow" /\ WriteBelow[6] = "ListActuatorsByType" /\ Len(WriteBelow) = 6
  BY DEF WriteBelow
<1>4. \A i \in {2, 6} : ReadBelow[i].kept
  BY DEF ReadBelow, Fread
<1> QED BY <1>2, <1>3, <1>4

\* All fields of a group are kept.
Keeping(steps, fields) == \A i \in 1 .. Len(fields) : steps[i].kept

\* A group that is kept has been read.
LEMMA GroupRead ==
  ASSUME NEW e \in Elements, NEW D \in SUBSET Range(WriteElement(e)), NEW steps, NEW fields \in Seq(Names),
         Fit(e, D, steps, fields), Keeping(steps, fields),
         NEW file, NEW pos, NEW end, There(e, file, pos, fields, end)
  PROVE  \E E \in SUBSET Range(WriteElement(e)) :
           /\ ReadSteps(file, Reader(e, pos, D), steps) = Reader(e, end, E)
           /\ D \cup Range(fields) \subseteq E
<1>1. PICK E \in SUBSET Range(WriteElement(e)) :
        /\ ReadSteps(file, Reader(e, pos, D), steps) = Reader(e, end, E)
        /\ D \subseteq E
        /\ \A i \in 1 .. Len(fields) : steps[i].kept => fields[i] \in E
  BY ReadThere
<1>2. Range(fields) \subseteq E
  BY <1>1, LenProperties DEF Range, Keeping
<1> QED BY <1>1, <1>2

\* All groups but the head and the devices below are kept as they are.
LEMMA GroupsKept ==
  /\ Keeping(ReadType, WriteType)
  /\ Keeping(ReadDisk, WriteDisk)
  /\ Keeping(ReadRest, WriteRest)
  /\ Keeping(ReadDevice, WriteDevice)
  /\ Keeping(ReadSensor, WriteSensor)
  /\ Keeping(ReadActuator, WriteActuator)
  /\ Keeping(ReadWan, WriteWan)
  /\ Keeping(ReadLan, WriteLan)
<1>1. Keeping(ReadType, WriteType)
  BY DEF WriteType, ReadType, Fread, Keeping
<1>2. Keeping(ReadDisk, WriteDisk)
  BY DEF WriteDisk, ReadDisk, Fread, Keeping
<1>3. Keeping(ReadRest, WriteRest)
  BY DEF WriteRest, ReadRest, Fread, Keeping
<1>4. Keeping(ReadDevice, WriteDevice)
  BY DEF WriteDevice, ReadDevice, Fread, Keeping
<1>5. Keeping(ReadSensor, WriteSensor)
  BY DEF WriteSensor, ReadSensor, Fread, Keeping
<1>6. Keeping(ReadActuator, WriteActuator)
  BY DEF WriteActuator, ReadActuator, Fread, Keeping
<1>7. Keeping(ReadWan, WriteWan)
  BY DEF WriteWan, ReadWan, Fread, Keeping
<1>8. Keeping(ReadLan, WriteLan)
  BY DEF WriteLan, ReadLan, Fread, Keeping
<1> QED BY <1>1, <1>2, <1>3, <1>4, <1>5, <1>6, <1>7, <1>8

\* The fields a device needs are in its groups.
LEMMA GroupRanges ==
  /\ "node_type" \in Range(WriteType) /\ "diskServices" \in Range(WriteDisk)
  /\ {"aggregation_rate", "service_time"} \subseteq Range(WriteRest)
  /\ "type_job" \in Range(WriteDevice) /\ "sensorRates" \in Range(WriteSensor)
  /\ "wan_type" \in Range(WriteWan)
  /\ {"lan_type", "LANsINserviceTimes", "LANsOUTserviceTimes"} \subseteq Range(WriteLan)
<1>1. "node_type" \in Range(WriteType)
  <2>1. 1 \in DOMAIN WriteType /\ WriteType[1] = "node_type"
    BY DEF WriteType
  <2> QED BY <2>1 DEF Range
<1>2. "diskServices" \in Range(WriteDisk)
  <2>1. 3 \in DOMAIN WriteDisk /\ WriteDisk[3] = "diskServices"
    BY DEF WriteDisk
  <2> QED BY <2>1 DEF Range
<1>3. {"aggregation_rate", "service_time"} \subseteq Range(WriteRest)
  <2>1. /\ 2 \in DOMAIN WriteRest /\ WriteRest[2] = "aggregation_rate"
        /\ 5 \in DOMAIN WriteRest /\ WriteRest[5] = "service_time"
    BY DEF WriteRest
  <2> QED BY <2>1 DEF Range
<1>4. "type_job" \in Range(WriteDevice)
  <2>1. 1 \in DOMAIN WriteDevice /\ WriteDevice[1] = "type_job"
    BY DEF WriteDevice
  <2> QED BY <2>1 DEF Range
<1>5. "sensorRates" \in Range(WriteSensor)
  <2>1. 1 \in DOMAIN WriteSensor /\ WriteSensor[1] = "sensorRates"
    BY DEF WriteSensor
  <2> QED BY <2>1 DEF Range
<1>6. "wan_type" \in Range(WriteWan)
  <2>1. 1 \in DOMAIN WriteWan /\ WriteWan[1] = "wan_type"
    BY DEF WriteWan
  <2> QED BY <2>1 DEF Range
<1>7. {"lan_type", "LANsINserviceTimes", "LANsOUTserviceTimes"} \subseteq Range(WriteLan)
  <2>1. /\ 1 \in DOMAIN WriteLan /\ WriteLan[1] = "lan_type"
        /\ 3 \in DOMAIN WriteLan /\ WriteLan[3] = "LANsINserviceTimes"
        /\ 4 \in DOMAIN WriteLan /\ WriteLan[4] = "LANsOUTserviceTimes"
    BY DEF WriteLan
  <2> QED BY <2>1 DEF Range
<1> QED BY <1>1, <1>2, <1>3, <1>4, <1>5, <1>6, <1>7

\* What must be read of an element besides its head and the devices below it.
\* What is read of an element by its type.
Specific(e) ==
  CASE TypeOf[e] = NODE     -> {"node_type", "aggregation_rate", "service_time"}
                               \cup (IF e \in Central THEN {"diskServices"} ELSE {})
    [] TypeOf[e] = SENSOR   -> {"type_job", "sensorRates"}
    [] TypeOf[e] = ACTUATOR -> {"type_job"}
    [] TypeOf[e] = WAN      -> {"wan_type"}
    [] TypeOf[e] = LAN      -> {"lan_type", "LANsINserviceTimes", "LANsOUTserviceTimes"}

\* A node: its disk if it is central, as the node type that was just read says.
LEMMA NodeRead ==
  ASSUME NEW e \in Elements, NEW D \in SUBSET Range(WriteElement(e)),
         NEW file, NEW pos, NEW end, There(e, file, pos, WriteNode(e), end)
  PROVE  \E E \in SUBSET Range(WriteElement(e)) :
           /\ ReadNode(file, Reader(e, pos, D)) = Reader(e, end, E)
           /\ D \cup {"node_type", "aggregation_rate", "service_time"}
                \cup (IF e \in Central THEN {"diskServices"} ELSE {}) \subseteq E
<1> DEFINE R == SUBSET Range(WriteElement(e))
           disk == IF e \in Central THEN WriteDisk ELSE <<>>
<1>1. /\ WriteType \in Seq(Names) /\ WriteDisk \in Seq(Names) /\ WriteRest \in Seq(Names) /\ disk \in Seq(Names)
      /\ WriteType \o disk \in Seq(Names) /\ disk \o WriteRest \in Seq(Names)
  <2>1. /\ WriteType \in Seq(Names) /\ WriteDisk \in Seq(Names) /\ WriteRest \in Seq(Names) /\ disk \in Seq(Names)
    BY FieldNames
  <2> HIDE DEF disk
  <2> QED BY <2>1, ConcatProperties
<1>2. WriteNode(e) = WriteType \o (disk \o WriteRest) \/ WriteNode(e) = (WriteType \o disk) \o WriteRest
  BY DEF WriteNode
<1> HIDE DEF disk
<1>3. PICK m1 \in Int, m2 \in Int : /\ There(e, file, pos, WriteType, m1) /\ There(e, file, m1, disk, m2)
                                    /\ There(e, file, m2, WriteRest, end)
  <2>1. CASE WriteNode(e) = WriteType \o (disk \o WriteRest)
    <3>1. PICK m1 \in Int : There(e, file, pos, WriteType, m1) /\ There(e, file, m1, disk \o WriteRest, end)
      BY <1>1, <2>1, ThereInTwo
    <3> QED BY <1>1, <3>1, ThereInTwo
  <2>2. CASE WriteNode(e) = (WriteType \o disk) \o WriteRest
    <3>1. PICK m2 \in Int : There(e, file, pos, WriteType \o disk, m2) /\ There(e, file, m2, WriteRest, end)
      BY <1>1, <2>2, ThereInTwo
    <3> QED BY <1>1, <3>1, ThereInTwo
  <2> QED BY <1>2, <2>1, <2>2
<1>4. PICK E1 \in R : /\ ReadSteps(file, Reader(e, pos, D), ReadType) = Reader(e, m1, E1)
                      /\ D \cup Range(WriteType) \subseteq E1
  <2>1. Fit(e, D, ReadType, WriteType) /\ Keeping(ReadType, WriteType)
    BY AllFit, GroupsKept
  <2> QED BY <1>1, <1>3, <2>1, GroupRead
<1>5. Value(Reader(e, m1, E1), "node_type") = IF e \in Central THEN CENTRAL ELSE REGIONAL
  <2>1. Length(e, "node_type") = 1
    BY DEF Length
  <2>2. Content(e, "node_type") = IF e \in Central THEN CENTRAL ELSE REGIONAL
    BY DEF Content
  <2> QED BY <1>4, <2>1, <2>2, GroupRanges, ValueRead
<1> DEFINE s2 == IF Value(Reader(e, m1, E1), "node_type") = CENTRAL
                 THEN ReadSteps(file, Reader(e, m1, E1), ReadDisk) ELSE Reader(e, m1, E1)
<1>6. PICK E2 \in R : /\ s2 = Reader(e, m2, E2)
                      /\ E1 \cup (IF e \in Central THEN {"diskServices"} ELSE {}) \subseteq E2
  <2>1. CASE e \in Central
    <3>1. disk = WriteDisk
      BY <2>1 DEF disk
    <3>2. PICK E2 \in R : /\ ReadSteps(file, Reader(e, m1, E1), ReadDisk) = Reader(e, m2, E2)
                          /\ E1 \cup Range(WriteDisk) \subseteq E2
      <4>1. Fit(e, E1, ReadDisk, WriteDisk) /\ Keeping(ReadDisk, WriteDisk)
        BY AllFit, GroupsKept
      <4> QED BY <1>1, <1>3, <3>1, <4>1, GroupRead
    <3>3. s2 = ReadSteps(file, Reader(e, m1, E1), ReadDisk)
      BY <1>5, <2>1
    <3> QED BY <2>1, <3>2, <3>3, GroupRanges
  <2>2. CASE e \notin Central
    <3>1. m1 = m2
      BY <1>3, <2>2, ThereNone DEF disk
    <3>2. s2 = Reader(e, m1, E1)
      BY <1>5, <2>2 DEF CENTRAL, REGIONAL
    <3> QED BY <2>2, <3>1, <3>2
  <2> QED BY <2>1, <2>2
<1>7. PICK E3 \in R : /\ ReadSteps(file, Reader(e, m2, E2), ReadRest) = Reader(e, end, E3)
                      /\ E2 \cup Range(WriteRest) \subseteq E3
  <2>1. Fit(e, E2, ReadRest, WriteRest) /\ Keeping(ReadRest, WriteRest)
    BY AllFit, GroupsKept
  <2> QED BY <1>1, <1>3, <2>1, GroupRead
<1>8. ReadNode(file, Reader(e, pos, D)) = ReadSteps(file, s2, ReadRest)
  BY <1>4 DEF ReadNode
<1>9. ReadNode(file, Reader(e, pos, D)) = Reader(e, end, E3)
  BY <1>6, <1>7, <1>8
<1>10. "node_type" \in E1 /\ {"aggregation_rate", "service_time"} \subseteq E3
  BY <1>4, <1>7, GroupRanges
<1> HIDE DEF s2
<1> QED BY <1>4, <1>6, <1>7, <1>9, <1>10

\* No two types have one code.
LEMMA Codes ==
  /\ TypeCode[NODE] = 0 /\ TypeCode[SENSOR] = 1 /\ TypeCode[ACTUATOR] = 2 /\ TypeCode[WAN] = 3 /\ TypeCode[LAN] = 4
BY DEF TypeCode, NODE, SENSOR, ACTUATOR, WAN, LAN

\* What is read of the devices below.
Below(e) == IF HasPaths(e) THEN {"actuatorsTypesBelow", "ListActuatorsByType"} ELSE {}

\* The reader branches on the type it has read, as the writer did on the element's.
LEMMA SpecificRead ==
  ASSUME NEW e \in Elements, NEW D \in SUBSET Range(WriteElement(e)), {"at", "st", "lp_type"} \subseteq D,
         NEW file, NEW pos, NEW mid, NEW end, There(e, file, pos, WriteSpecific(e), mid),
         There(e, file, mid, IF HasPaths(e) THEN WriteBelow ELSE <<>>, end)
  PROVE  \E E \in SUBSET Range(WriteElement(e)) :
           /\ ReadSpecific(file, Reader(e, pos, D)) = Reader(e, end, E)
           /\ D \cup Specific(e) \cup Below(e) \subseteq E
<1> DEFINE R == SUBSET Range(WriteElement(e))
           s == Reader(e, pos, D)
<1>1. Value(s, "lp_type") = TypeCode[TypeOf[e]]
  <2>1. Length(e, "lp_type") = 1 /\ Content(e, "lp_type") = TypeCode[TypeOf[e]]
    BY DEF Length, Content
  <2> QED BY <2>1, ValueRead
<1>2. TypeOf[e] \in {NODE, SENSOR, ACTUATOR, LAN, WAN}
  BY SetupAssumption
<1>3. /\ WriteDevice \in Seq(Names) /\ WriteSensor \in Seq(Names) /\ WriteActuator \in Seq(Names)
      /\ WriteWan \in Seq(Names) /\ WriteLan \in Seq(Names)
  BY FieldNames
<1>4. /\ NODE # SENSOR /\ NODE # ACTUATOR /\ NODE # LAN /\ NODE # WAN /\ SENSOR # ACTUATOR /\ SENSOR # LAN
      /\ SENSOR # WAN /\ ACTUATOR # LAN /\ ACTUATOR # WAN /\ LAN # WAN
  BY DEF NODE, SENSOR, ACTUATOR, WAN, LAN
<1>5. ASSUME NEW F \in R, D \cup Specific(e) \subseteq F, HasPaths(e)
      PROVE  \E E \in R : /\ ReadSteps(file, Reader(e, mid, F), ReadBelow) = Reader(e, end, E)
                          /\ D \cup Specific(e) \cup Below(e) \subseteq E
  <2>1. There(e, file, mid, WriteBelow, end) /\ {"at", "st"} \subseteq F
    BY <1>5
  <2>2. PICK E \in R : /\ ReadSteps(file, Reader(e, mid, F), ReadBelow) = Reader(e, end, E)
                       /\ F \cup {"actuatorsTypesBelow", "ListActuatorsByType"} \subseteq E
    BY <2>1, BelowRead
  <2> QED BY <1>5, <2>2 DEF Below
<1>6. ~HasPaths(e) => mid = end /\ Below(e) = {}
  BY ThereNone DEF Below
<1>7. CASE TypeOf[e] = NODE
  <2>1. /\ WriteSpecific(e) = WriteNode(e) /\ HasPaths(e)
        /\ Specific(e) = {"node_type", "aggregation_rate", "service_time"}
                           \cup (IF e \in Central THEN {"diskServices"} ELSE {})
    BY <1>4, <1>7 DEF WriteSpecific, HasPaths, Specific
  <2>2. PICK F \in R : /\ ReadNode(file, s) = Reader(e, mid, F)
                       /\ D \cup {"node_type", "aggregation_rate", "service_time"}
                            \cup (IF e \in Central THEN {"diskServices"} ELSE {}) \subseteq F
    <3>1. There(e, file, pos, WriteNode(e), mid)
      BY <2>1
    <3> QED BY <3>1, NodeRead
  <2>3. ReadSpecific(file, s) = ReadSteps(file, ReadNode(file, s), ReadBelow)
    BY <1>1, <1>7, Codes DEF ReadSpecific
  <2>4. D \cup Specific(e) \subseteq F
    BY <2>1, <2>2
  <2> HIDE DEF s
  <2>5. ReadSpecific(file, s) = ReadSteps(file, Reader(e, mid, F), ReadBelow)
    BY <2>2, <2>3
  <2> QED BY <1>5, <2>1, <2>4, <2>5 DEF s
<1>8. CASE TypeOf[e] = WAN
  <2>1. WriteSpecific(e) = WriteWan /\ HasPaths(e) /\ Specific(e) = {"wan_type"}
    BY <1>4, <1>8 DEF WriteSpecific, HasPaths, Specific
  <2>2. Fit(e, D, ReadWan, WriteWan) /\ Keeping(ReadWan, WriteWan) /\ There(e, file, pos, WriteWan, mid)
    BY <2>1, AllFit, GroupsKept
  <2>3. PICK F \in R : /\ ReadSteps(file, s, ReadWan) = Reader(e, mid, F)
                       /\ D \cup Range(WriteWan) \subseteq F
    BY <1>3, <2>2, GroupRead
  <2>4. ReadSpecific(file, s) = ReadSteps(file, ReadSteps(file, s, ReadWan), ReadBelow)
    BY <1>1, <1>8, Codes DEF ReadSpecific
  <2>5. D \cup Specific(e) \subseteq F
    BY <2>1, <2>3, GroupRanges
  <2> HIDE DEF s
  <2>6. ReadSpecific(file, s) = ReadSteps(file, Reader(e, mid, F), ReadBelow)
    BY <2>3, <2>4
  <2> QED BY <1>5, <2>1, <2>5, <2>6 DEF s
<1>9. CASE TypeOf[e] = LAN
  <2>1. /\ WriteSpecific(e) = WriteLan /\ HasPaths(e)
        /\ Specific(e) = {"lan_type", "LANsINserviceTimes", "LANsOUTserviceTimes"}
    BY <1>4, <1>9 DEF WriteSpecific, HasPaths, Specific
  <2>2. Fit(e, D, ReadLan, WriteLan) /\ Keeping(ReadLan, WriteLan) /\ There(e, file, pos, WriteLan, mid)
    BY <2>1, AllFit, GroupsKept
  <2>3. PICK F \in R : /\ ReadSteps(file, s, ReadLan) = Reader(e, mid, F)
                       /\ D \cup Range(WriteLan) \subseteq F
    BY <1>3, <2>2, GroupRead
  <2>4. ReadSpecific(file, s) = ReadSteps(file, ReadSteps(file, s, ReadLan), ReadBelow)
    BY <1>1, <1>9, Codes DEF ReadSpecific
  <2>5. D \cup Specific(e) \subseteq F
    BY <2>1, <2>3, GroupRanges
  <2> HIDE DEF s
  <2>6. ReadSpecific(file, s) = ReadSteps(file, Reader(e, mid, F), ReadBelow)
    BY <2>3, <2>4
  <2> QED BY <1>5, <2>1, <2>5, <2>6 DEF s
<1>10. CASE TypeOf[e] = SENSOR
  <2>1. WriteSpecific(e) = WriteDevice \o WriteSensor /\ ~HasPaths(e) /\ Specific(e) = {"type_job", "sensorRates"}
    BY <1>4, <1>10 DEF WriteSpecific, HasPaths, Specific
  <2>2. PICK m \in Int : There(e, file, pos, WriteDevice, m) /\ There(e, file, m, WriteSensor, mid)
    BY <1>3, <2>1, ThereInTwo
  <2>3. Fit(e, D, ReadDevice, WriteDevice) /\ Keeping(ReadDevice, WriteDevice)
    BY AllFit, GroupsKept
  <2>4. PICK F \in R : /\ ReadSteps(file, s, ReadDevice) = Reader(e, m, F)
                       /\ D \cup Range(WriteDevice) \subseteq F
    BY <1>3, <2>2, <2>3, GroupRead
  <2>5. Fit(e, F, ReadSensor, WriteSensor) /\ Keeping(ReadSensor, WriteSensor)
    BY AllFit, GroupsKept
  <2>6. PICK E \in R : /\ ReadSteps(file, Reader(e, m, F), ReadSensor) = Reader(e, mid, E)
                       /\ F \cup Range(WriteSensor) \subseteq E
    BY <1>3, <2>2, <2>5, GroupRead
  <2>7. ReadSpecific(file, s) = ReadSteps(file, ReadSteps(file, s, ReadDevice), ReadSensor)
    BY <1>1, <1>10, Codes DEF ReadSpecific
  <2>8. D \cup Specific(e) \cup Below(e) \subseteq E
    BY <1>6, <2>1, <2>4, <2>6, GroupRanges
  <2> HIDE DEF s
  <2>9. ReadSpecific(file, s) = Reader(e, end, E)
    BY <1>6, <2>1, <2>4, <2>6, <2>7
  <2> QED BY <2>8, <2>9 DEF s
<1>11. CASE TypeOf[e] = ACTUATOR
  <2>1. WriteSpecific(e) = WriteDevice \o WriteActuator /\ ~HasPaths(e) /\ Specific(e) = {"type_job"}
    BY <1>4, <1>11 DEF WriteSpecific, HasPaths, Specific
  <2>2. PICK m \in Int : There(e, file, pos, WriteDevice, m) /\ There(e, file, m, WriteActuator, mid)
    BY <1>3, <2>1, ThereInTwo
  <2>3. Fit(e, D, ReadDevice, WriteDevice) /\ Keeping(ReadDevice, WriteDevice)
    BY AllFit, GroupsKept
  <2>4. PICK F \in R : /\ ReadSteps(file, s, ReadDevice) = Reader(e, m, F)
                       /\ D \cup Range(WriteDevice) \subseteq F
    BY <1>3, <2>2, <2>3, GroupRead
  <2>5. Fit(e, F, ReadActuator, WriteActuator) /\ Keeping(ReadActuator, WriteActuator)
    BY AllFit, GroupsKept
  <2>6. PICK E \in R : /\ ReadSteps(file, Reader(e, m, F), ReadActuator) = Reader(e, mid, E)
                       /\ F \cup Range(WriteActuator) \subseteq E
    BY <1>3, <2>2, <2>5, GroupRead
  <2>7. ReadSpecific(file, s) = ReadSteps(file, ReadSteps(file, s, ReadDevice), ReadActuator)
    BY <1>1, <1>11, Codes DEF ReadSpecific
  <2>8. D \cup Specific(e) \cup Below(e) \subseteq E
    BY <1>6, <2>1, <2>4, <2>6, GroupRanges
  <2> HIDE DEF s
  <2>9. ReadSpecific(file, s) = Reader(e, end, E)
    BY <1>6, <2>1, <2>4, <2>6, <2>7
  <2> QED BY <2>8, <2>9 DEF s
<1> QED BY <1>2, <1>7, <1>8, <1>9, <1>10, <1>11

\* What must be read of an element.
\* What a device needs of an element.
Required(e) == {"id", "actuatorPaths", "ElementToLPMapping"} \cup Specific(e) \cup Below(e)

\* An element is read to its end, and with it all that its device needs.
LEMMA ElementRead ==
  ASSUME NEW e \in Elements, NEW file, NEW pos, NEW end, There(e, file, pos, WriteElement(e), end)
  PROVE  \E E \in SUBSET Range(WriteElement(e)) :
           ReadElement(file, pos) = Reader(e, end, E) /\ Required(e) \subseteq E
<1> DEFINE below == IF HasPaths(e) THEN WriteBelow ELSE <<>>
           R == SUBSET Range(WriteElement(e))
<1>1. /\ WriteHead \in Seq(Names) /\ WriteSpecific(e) \in Seq(Names)
      /\ WriteHead \o WriteSpecific(e) \in Seq(Names) /\ below \in Seq(Names)
  BY FieldNames
<1>2. \/ WriteElement(e) = (WriteHead \o WriteSpecific(e)) \o below
      \/ WriteElement(e) = WriteHead \o (WriteSpecific(e) \o below)
  BY DEF WriteElement
<1> HIDE DEF below
<1>3. WriteSpecific(e) \o below \in Seq(Names)
  BY <1>1, ConcatProperties
<1>4. PICK m1 \in Int, m2 \in Int :
        /\ There(e, file, pos, WriteHead, m1) /\ There(e, file, m1, WriteSpecific(e), m2)
        /\ There(e, file, m2, below, end)
  <2>1. CASE WriteElement(e) = (WriteHead \o WriteSpecific(e)) \o below
    <3>1. PICK m2 \in Int : There(e, file, pos, WriteHead \o WriteSpecific(e), m2) /\ There(e, file, m2, below, end)
      BY <1>1, <2>1, ThereInTwo
    <3> QED BY <1>1, <3>1, ThereInTwo
  <2>2. CASE WriteElement(e) = WriteHead \o (WriteSpecific(e) \o below)
    <3>1. PICK m1 \in Int : There(e, file, pos, WriteHead, m1) /\ There(e, file, m1, WriteSpecific(e) \o below, end)
      BY <1>1, <1>3, <2>2, ThereInTwo
    <3> QED BY <1>1, <3>1, ThereInTwo
  <2> QED BY <1>2, <2>1, <2>2
<1>5. PICK D \in R : /\ ReadSteps(file, From(pos), ReadHead) = Reader(e, m1, D)
                     /\ {"id", "at", "st", "lp_type", "actuatorPaths", "ElementToLPMapping"} \subseteq D
  BY <1>4, HeadRead
<1>6. There(e, file, m2, IF HasPaths(e) THEN WriteBelow ELSE <<>>, end) /\ {"at", "st", "lp_type"} \subseteq D
  BY <1>4, <1>5 DEF below
<1>7. PICK E \in R : /\ ReadSpecific(file, Reader(e, m1, D)) = Reader(e, end, E)
                     /\ D \cup Specific(e) \cup Below(e) \subseteq E
  BY <1>4, <1>6, SpecificRead
<1>8. ReadElement(file, pos) = Reader(e, end, E)
  BY <1>5, <1>7 DEF ReadElement
<1> QED BY <1>5, <1>7, <1>8 DEF Required

\* What a reader that has read the fields E of e got.
Got(e, E) == [f \in E |-> ElementWords(e)[f]]

\* An element was read: its own fields, and all that are required.
WasRead(e, got) == \E E \in SUBSET Range(WriteElement(e)) : got = Got(e, E) /\ Required(e) \subseteq E

\* An element's part of the file, as words and field by field.
LEMMA PartIs ==
  ASSUME NEW e \in Elements
  PROVE  /\ Written(ElementWords(e), WriteElement(e)) = FlattenSeq(Chosen(ElementWords(e), WriteElement(e)))
         /\ Chosen(ElementWords(e), WriteElement(e)) \in Seq(Seq(AllWords(Names)))
         /\ Written(ElementWords(e), WriteElement(e)) \in Seq(AllWords(Names))
<1> DEFINE W == AllWords(Names)
           V == ElementWords(e)
           L == WriteElement(e)
<1>1. Written(V, L) = FlattenSeq(Chosen(V, L))
  BY DEF Written, Chosen
<1>2. L \in Seq(Names) /\ HaveWords(W, V, L)
  BY FieldNames, OfItsOwn
<1> HIDE DEF W, V, L
<1>3. Chosen(V, L) \in Seq(Seq(W))
  BY <1>2, ChosenIs
<1>4. FlattenSeq(Chosen(V, L)) \in Seq(W)
  BY <1>3, Flattens
<1> QED BY <1>1, <1>3, <1>4 DEF W, V, L

\* A file stands in itself.
LEMMA WholeStands ==
  ASSUME NEW W, NEW file \in Seq(W)
  PROVE  Stands(file, 1, file)
<1>1. DOMAIN file = 1 .. Len(file) /\ Len(file) \in Nat
  BY LenProperties
<1> QED BY <1>1 DEF Stands

\* The reader of an element ends where the element ends.
LEMMA PartRead ==
  ASSUME NEW e \in Elements, NEW file, NEW pos \in Int,
         Stands(file, pos, Written(ElementWords(e), WriteElement(e)))
  PROVE  /\ ReadElement(file, pos).pos = pos + Len(Written(ElementWords(e), WriteElement(e)))
         /\ WasRead(e, ReadElement(file, pos).got)
<1> DEFINE part == Written(ElementWords(e), WriteElement(e))
           chosen == Chosen(ElementWords(e), WriteElement(e))
           end == pos + Len(part)
<1>1. part = FlattenSeq(chosen) /\ chosen \in Seq(Seq(AllWords(Names))) /\ Len(part) \in Nat
  BY PartIs, LenProperties
<1> HIDE DEF part
<1>2. Laid(file, pos, chosen, end)
  <2>1. Stands(file, pos, FlattenSeq(chosen))
    BY <1>1 DEF part
  <2> HIDE DEF chosen
  <2> QED BY <1>1, <2>1, FlattenedLaid
<1>3. There(e, file, pos, WriteElement(e), end)
  BY <1>1, <1>2, FieldNames DEF There
<1>4. PICK E \in SUBSET Range(WriteElement(e)) :
        ReadElement(file, pos) = Reader(e, end, E) /\ Required(e) \subseteq E
  BY <1>3, ElementRead
<1>5. Reader(e, end, E).pos = end /\ Reader(e, end, E).got = Got(e, E)
  BY DEF Reader, Has, Got
<1> QED BY <1>4, <1>5 DEF WasRead, part

\* The reader after each element, as ParseElements computes it.
ElementsAfter(file, amount) ==
  CHOOSE f : f = [i \in 0 .. amount |-> IF i = 0 THEN From(1) ELSE ReadElement(file, f[i - 1].pos)]

\* What the reader of an LP's file gets: its elements, in their order.
LEMMA ElementsParsed ==
  ASSUME NEW lp \in Used
  PROVE  \A i \in 1 .. Len(LpElements[lp]) :
           WasRead(LpElements[lp][i], ParseElements(ElementFile(lp), Len(LpElements[lp]))[i])
<1> DEFINE d == LpElements[lp]
           n == Len(d)
           W == AllWords(Names)
           Part(i) == Written(ElementWords(d[i]), WriteElement(d[i]))
           parts == [i \in 1 .. n |-> Part(i)]
           file == ElementFile(lp)
<1>1. n \in Nat /\ DOMAIN d = 1 .. n /\ \A i \in 1 .. n : d[i] \in Elements
  <2>1. d \in Seq(Elements)
    BY FilesAssumption DEF Used
  <2> QED BY <2>1, LenProperties, ElementOfSeq
<1>2. file = FlattenSeq(parts)
  BY <1>1 DEF ElementFile
<1>3. \A i \in 1 .. n : Part(i) \in Seq(W)
  BY <1>1, PartIs
<1> HIDE DEF Part, n, W, file, d
<1>4. parts \in Seq(Seq(W)) /\ Len(parts) = n
  BY <1>1, <1>3
<1>5. \A i \in 1 .. n : parts[i] = Part(i)
  OBVIOUS
<1> HIDE DEF parts
<1>6. PICK at \in [0 .. n -> Int] :
        /\ at[0] = 1
        /\ \A i \in 1 .. n : at[i] = at[i - 1] + Len(parts[i]) /\ Stands(file, at[i - 1], parts[i])
  <2>1. file \in Seq(W)
    BY <1>2, <1>4, Flattens
  <2>2. Stands(file, 1, FlattenSeq(parts))
    BY <1>2, <2>1, WholeStands
  <2> DEFINE first == 1
  <2>3. first \in Int /\ Stands(file, first, FlattenSeq(parts))
    BY <2>2
  <2> HIDE DEF first
  <2>4. Laid(file, first, parts, first + Len(FlattenSeq(parts)))
    BY <1>4, <2>3, FlattenedLaid
  <2> QED BY <1>4, <2>4 DEF Laid, first
<1>7. ASSUME NEW i \in 1 .. n
      PROVE  /\ ReadElement(file, at[i - 1]).pos = at[i]
             /\ WasRead(d[i], ReadElement(file, at[i - 1]).got)
  <2>1. i - 1 \in 0 .. n
    BY <1>1
  <2>2. at[i - 1] \in Int
    BY <1>6, <2>1
  <2>3. at[i] = at[i - 1] + Len(Part(i)) /\ Stands(file, at[i - 1], Part(i))
    BY <1>5, <1>6
  <2> DEFINE p == at[i - 1]
             e == d[i]
  <2>4. p \in Int /\ e \in Elements /\ Stands(file, p, Written(ElementWords(e), WriteElement(e)))
    BY <1>1, <2>2, <2>3 DEF Part
  <2> HIDE DEF p, e
  <2>5. /\ ReadElement(file, p).pos = p + Len(Written(ElementWords(e), WriteElement(e)))
        /\ WasRead(e, ReadElement(file, p).got)
    BY <2>4, PartRead
  <2> QED BY <2>3, <2>5 DEF p, e, Part
<1> DEFINE h == [i \in 0 .. n |-> IF i = 0 THEN From(1) ELSE ReadElement(file, at[i - 1])]
           g == ElementsAfter(file, n)
<1>8. 0 \in 0 .. n /\ \A i \in 1 .. n : i \in 0 .. n /\ i - 1 \in 0 .. n /\ i # 0
  BY <1>1
<1>9. \A i \in 0 .. n : h[i].pos = at[i]
  <2>1. From(1).pos = 1
    BY DEF From
  <2>2. \A i \in 0 .. n : i # 0 => i \in 1 .. n
    BY <1>1
  <2> QED BY <1>6, <1>7, <2>1, <2>2
<1>10. g = [i \in 0 .. n |-> IF i = 0 THEN From(1) ELSE ReadElement(file, g[i - 1].pos)]
  <2>1. \A i \in 0 .. n : h[i] = IF i = 0 THEN From(1) ELSE ReadElement(file, h[i - 1].pos)
    <3>1. \A i \in 0 .. n : i # 0 => i - 1 \in 0 .. n
      BY <1>1
    <3> QED BY <1>9, <3>1
  <2>2. h = [i \in 0 .. n |-> h[i]]
    OBVIOUS
  <2> HIDE DEF h
  <2>3. h = [i \in 0 .. n |-> IF i = 0 THEN From(1) ELSE ReadElement(file, h[i - 1].pos)]
    BY <2>1, <2>2
  <2> QED BY <2>3 DEF ElementsAfter
<1> HIDE DEF g
<1>11. g[0] = From(1) /\ \A i \in 1 .. n : g[i] = ReadElement(file, g[i - 1].pos)
  BY <1>8, <1>10
<1>12. \A i \in Nat : i \in 0 .. n => g[i].pos = at[i]
  <2> DEFINE N == {i \in Nat : i \in 0 .. n => g[i].pos = at[i]}
  <2>1. 0 \in N
    BY <1>6, <1>11 DEF From
  <2>2. ASSUME NEW i \in Nat, i \in N PROVE i + 1 \in N
    <3> SUFFICES ASSUME i + 1 \in 0 .. n PROVE g[i + 1].pos = at[i + 1]
      OBVIOUS
    <3>1. i + 1 \in 1 .. n /\ (i + 1) - 1 = i /\ i \in 0 .. n
      BY <1>1
    <3>2. g[i].pos = at[i] /\ g[i + 1] = ReadElement(file, g[i].pos)
      BY <1>11, <2>2, <3>1
    <3> QED BY <1>7, <3>1, <3>2
  <2> HIDE DEF N
  <2>3. \A i \in Nat : i \in N
    BY <2>1, <2>2, SetInduction
  <2> QED BY <2>3 DEF N
<1>13. ASSUME NEW i \in 1 .. n PROVE WasRead(d[i], g[i].got)
  <2>1. i - 1 \in Nat /\ i - 1 \in 0 .. n
    BY <1>1
  <2>2. g[i] = ReadElement(file, at[i - 1])
    BY <1>11, <1>12, <2>1
  <2> QED BY <1>7, <2>2
<1>14. ParseElements(file, n) = [i \in 1 .. n |-> g[i].got]
  BY DEF ParseElements, ElementsAfter, g
<1>15. \A i \in 1 .. n : WasRead(d[i], ParseElements(file, n)[i])
  BY <1>13, <1>14
<1> QED BY <1>15 DEF n, d, file

\* A device made of what was read of e: its own fields, all it needs.
\* The device made of an element that was read is that element's.
LEMMA DeviceReadIs ==
  ASSUME NEW e \in Elements, NEW got, WasRead(e, got)
  PROVE  /\ AllFields(e) \subseteq DOMAIN DeviceRead(got)
         /\ \A f \in DOMAIN DeviceRead(got) : DeviceRead(got)[f] = Data(e, f)
<1>1. PICK E \in SUBSET Range(WriteElement(e)) : got = Got(e, E) /\ Required(e) \subseteq E
  BY DEF WasRead
<1>2. DOMAIN got = E /\ (\A g \in E : AsWritten(got, ElementWords(e), g)) /\ "id" \in E
  BY <1>1, ElementWordsAre DEF Got, AsWritten, Required
<1>3. got["id"][1].value = e
  <2>1. Length(e, "id") = 1 /\ Content(e, "id") = e
    BY DEF Length, Content
  <2>2. got["id"] = ElementWords(e)["id"]
    BY <1>1, <1>2 DEF Got
  <2> QED BY <1>2, <2>1, <2>2, ElementWordsAre
<1>4. DeviceRead(got) = [f \in {Into(g) : g \in E \ Locals} |-> Data(e, f)]
  BY <1>2, <1>3 DEF DeviceRead
<1>5. AllFields(e) \subseteq {Into(g) : g \in E \ Locals}
  <2>1. TypeOf[e] \in {NODE, SENSOR, ACTUATOR, LAN, WAN}
    BY SetupAssumption
  <2>2. /\ Into("id") = "topology" /\ Into("actuatorPaths") = "actuatorPaths"
        /\ Into("ElementToLPMapping") = "ElementToLPMapping"
        /\ Into("node_type") = "spec_top" /\ Into("type_job") = "spec_top" /\ Into("wan_type") = "spec_top"
        /\ Into("lan_type") = "spec_top"
        /\ Into("diskServices") = "diskServices" /\ Into("aggregation_rate") = "aggregation_rate"
        /\ Into("service_time") = "service_time" /\ Into("sensorRates") = "sensorRates"
        /\ Into("LANsINserviceTimes") = "LANsINserviceTimes" /\ Into("LANsOUTserviceTimes") = "LANsOUTserviceTimes"
        /\ Into("actuatorsTypesBelow") = "actuatorsTypesBelow" /\ Into("ListActuatorsByType") = "ListActuatorsByType"
    BY DEF Into, Pointers, Members
  <2>3. \A g \in Required(e) : g \notin Locals
    BY <2>1 DEF Required, Specific, Below, Locals, NODE, SENSOR, ACTUATOR, LAN, WAN
  <2>4. {Into(g) : g \in Required(e)} \subseteq {Into(g) : g \in E \ Locals}
    BY <1>1, <2>3
  <2>5. AllFields(e) \subseteq {Into(g) : g \in Required(e)}
    <3>1. {"topology", "ElementToLPMapping", "actuatorPaths"} \subseteq {Into(g) : g \in Required(e)}
      BY <2>2 DEF Required
    <3>2. HasPaths(e) => {"actuatorsTypesBelow", "ListActuatorsByType"} \subseteq {Into(g) : g \in Required(e)}
      BY <2>2 DEF Required, Below
    <3>3. /\ TypeOf[e] = NODE => Specific(e) = {"node_type", "aggregation_rate", "service_time"}
                                               \cup (IF e \in Central THEN {"diskServices"} ELSE {})
          /\ TypeOf[e] = SENSOR => Specific(e) = {"type_job", "sensorRates"}
          /\ TypeOf[e] = ACTUATOR => Specific(e) = {"type_job"}
          /\ TypeOf[e] = WAN => Specific(e) = {"wan_type"}
          /\ TypeOf[e] = LAN => Specific(e) = {"lan_type", "LANsINserviceTimes", "LANsOUTserviceTimes"}
      BY DEF Specific, NODE, SENSOR, ACTUATOR, LAN, WAN
    <3>4. "spec_top" \in {Into(g) : g \in Specific(e)}
      <4>1. "node_type" \in Specific(e) \/ "type_job" \in Specific(e) \/ "wan_type" \in Specific(e)
            \/ "lan_type" \in Specific(e)
        BY <2>1, <3>3
      <4> QED BY <2>2, <4>1
    <3>5. TypeOf[e] = NODE => {"aggregation_rate", "service_time"}
                                \cup (IF e \in Central THEN {"diskServices"} ELSE {})
                                  \subseteq {Into(g) : g \in Specific(e)}
      <4> SUFFICES ASSUME TypeOf[e] = NODE
                   PROVE  /\ {"aggregation_rate", "service_time"} \subseteq {Into(g) : g \in Specific(e)}
                          /\ e \in Central => "diskServices" \in {Into(g) : g \in Specific(e)}
        OBVIOUS
      <4>1. "aggregation_rate" \in Specific(e) /\ "service_time" \in Specific(e)
            /\ (e \in Central => "diskServices" \in Specific(e))
        BY <3>3
      <4> QED BY <2>2, <4>1
    <3>6. TypeOf[e] = LAN => {"LANsINserviceTimes", "LANsOUTserviceTimes"} \subseteq {Into(g) : g \in Specific(e)}
      BY <2>2, <3>3
    <3>7. TypeOf[e] = SENSOR => {"sensorRates"} \subseteq {Into(g) : g \in Specific(e)}
      BY <2>2, <3>3
    <3>8. {Into(g) : g \in Specific(e)} \subseteq {Into(g) : g \in Required(e)}
      BY DEF Required
    <3> QED BY <3>1, <3>2, <3>4, <3>5, <3>6, <3>7, <3>8, AllFieldsAre
  <2> QED BY <2>4, <2>5
<1> QED BY <1>4, <1>5

-----------------------------------------------------------------------------
(* The files about the whole topology.                                     *)

\* The fields of the general topology.
GeneralNames == {"total_nodes", "sensor_nodes", "actuator_nodes", "numberOfTotalLANs", "numberOfTotalWANs",
                 "numberOfActTypes", "numberOfSensTypes", "numberOfLANsTypes", "probOfActuators"}

\* Words of no single element.
LEMMA WordsAre ==
  ASSUME NEW names, NEW f \in names, NEW n \in Nat
  PROVE  Words(None, f, n) \in Seq(AllWords(names)) /\ Len(Words(None, f, n)) = n
<1>1. \A i \in 1 .. n : Word(None, f, i, 0) \in AllWords(names)
  BY DEF AllWords
<1> QED BY <1>1 DEF Words

\* A word of no single element.
LEMMA WordOfNone ==
  ASSUME NEW names, NEW f \in names, NEW a \in Nat, NEW b \in Int
  PROVE  Word(None, f, a, b) \in AllWords(names)
BY DEF AllWords

\* Numbers are read as they were written.
LEMMA NumbersAre ==
  ASSUME NEW names, NEW f \in names, NEW s \in Seq(Int)
  PROVE  /\ Numbers(None, f, s) \in Seq(AllWords(names)) /\ Len(Numbers(None, f, s)) = Len(s)
         /\ \A i \in 1 .. Len(s) : Numbers(None, f, s)[i].value = s[i]
<1> DEFINE n == Len(s)
           w == [i \in 1 .. n |-> Word(None, f, i, s[i])]
<1>1. n \in Nat /\ DOMAIN s = 1 .. n /\ \A i \in 1 .. n : s[i] \in Int
  BY LenProperties, ElementOfSeq
<1>2. Numbers(None, f, s) = w
  BY <1>1 DEF Numbers
<1> HIDE DEF n
<1>3. ASSUME NEW i \in 1 .. n PROVE Word(None, f, i, s[i]) \in AllWords(names)
  <2> DEFINE x == s[i]
  <2>1. i \in Nat /\ x \in Int
    BY <1>1
  <2> HIDE DEF x
  <2>2. Word(None, f, i, x) \in AllWords(names)
    BY <2>1, WordOfNone
  <2> QED BY <2>2 DEF x
<1>4. w \in Seq(AllWords(names)) /\ Len(w) = n
  BY <1>1, <1>3
<1>5. \A i \in 1 .. n : w[i].value = s[i]
  BY DEF Word
<1> QED BY <1>2, <1>4, <1>5 DEF n

\* The general topology is read as it was written.
\* The general topology is read as it was written.
LEMMA GeneralRead ==
  \A g \in DOMAIN ParseGeneralTopology(GeneralTopologyFile) :
    AsWritten(ParseGeneralTopology(GeneralTopologyFile), GeneralWords, g)
<1> DEFINE W == AllWords(GeneralNames)
           L == WriteGeneral
           V == GeneralWords
           file == GeneralTopologyFile
           s == ReadGeneral
           parts == Chosen(V, L)
<1>1. /\ L \in Seq(GeneralNames) /\ Len(L) = 9 /\ Len(s) = 9
      /\ L[1] = "total_nodes" /\ L[2] = "sensor_nodes" /\ L[3] = "actuator_nodes" /\ L[4] = "numberOfTotalLANs"
      /\ L[5] = "numberOfTotalWANs" /\ L[6] = "numberOfActTypes" /\ L[7] = "numberOfSensTypes"
      /\ L[8] = "numberOfLANsTypes" /\ L[9] = "probOfActuators"
  BY DEF WriteGeneral, GeneralNames, ReadGeneral
<1>2. Range(L) = GeneralNames
  <2>1. DOMAIN L = 1 .. 9 /\ \A i \in 1 .. 9 : L[i] \in GeneralNames
    BY <1>1, LenProperties, ElementOfSeq
  <2>2. \A f \in GeneralNames : \E i \in 1 .. 9 : L[i] = f
    BY <1>1 DEF GeneralNames
  <2> HIDE DEF L
  <2> QED BY <2>1, <2>2 DEF Range
<1>3. /\ DOMAIN V = GeneralNames
      /\ V["numberOfActTypes"] = Numbers(None, "numberOfActTypes", <<ActTypes>>)
      /\ \A f \in GeneralNames : f # "numberOfActTypes" =>
           V[f] = Words(None, f, IF f = "probOfActuators" THEN 2 * ActTypes ELSE 1)
  <2> HIDE DEF L
  <2>1. V = [f \in GeneralNames |->
               IF f = "numberOfActTypes" THEN Numbers(None, f, <<ActTypes>>)
               ELSE Words(None, f, IF f = "probOfActuators" THEN 2 * ActTypes ELSE 1)]
    BY <1>2 DEF GeneralWords, L
  <2>2. "numberOfActTypes" \in GeneralNames
    BY DEF GeneralNames
  <2> HIDE DEF V
  <2> QED BY <2>1, <2>2
<1>4. ActTypes \in Nat
  BY FilesAssumption
<1>5. /\ V["numberOfActTypes"] \in Seq(W) /\ Len(V["numberOfActTypes"]) = 1
      /\ V["numberOfActTypes"][1].value = ActTypes
  <2> DEFINE t == <<ActTypes>>
  <2>1. t \in Seq(Int) /\ Len(t) = 1 /\ t[1] = ActTypes /\ 1 \in 1 .. 1
    BY <1>4
  <2>2. "numberOfActTypes" \in GeneralNames
    BY DEF GeneralNames
  <2>3. V["numberOfActTypes"] = Numbers(None, "numberOfActTypes", t)
    BY <1>3
  <2> HIDE DEF t, V
  <2> QED BY <2>1, <2>2, <2>3, NumbersAre
<1>6. \A f \in GeneralNames : f # "numberOfActTypes" =>
        V[f] \in Seq(W) /\ Len(V[f]) = IF f = "probOfActuators" THEN 2 * ActTypes ELSE 1
  <2> TAKE f \in GeneralNames
  <2>1. (IF f = "probOfActuators" THEN 2 * ActTypes ELSE 1) \in Nat
    BY <1>4
  <2> QED BY <1>3, <2>1, WordsAre
<1> HIDE DEF W, V, L
<1>7. HaveWords(W, V, L)
  <2>1. \A i \in DOMAIN L : L[i] \in GeneralNames
    BY <1>1, LenProperties, ElementOfSeq
  <2> QED BY <1>5, <1>6, <2>1 DEF HaveWords
<1>8. parts \in Seq(Seq(W)) /\ Len(parts) = 9 /\ \A i \in 1 .. 9 : parts[i] = V[L[i]]
  <2>1. L \in Seq(GeneralNames)
    BY <1>1
  <2>2. /\ Chosen(V, L) \in Seq(Seq(W)) /\ Len(Chosen(V, L)) = Len(L)
        /\ \A i \in 1 .. Len(L) : Chosen(V, L)[i] = V[L[i]]
    BY <1>7, <2>1, ChosenIs
  <2> QED BY <1>1, <2>2
<1>9. file = FlattenSeq(parts)
  BY DEF GeneralTopologyFile, Written, Chosen, V, L
<1> HIDE DEF parts, file
<1> DEFINE first == 1
<1>10. PICK end : Laid(file, first, parts, end)
  <2>1. file \in Seq(W)
    BY <1>8, <1>9, Flattens
  <2>2. first \in Int /\ Stands(file, first, FlattenSeq(parts))
    BY <1>9, <2>1, WholeStands
  <2> HIDE DEF first
  <2> QED BY <1>8, <2>2, FlattenedLaid
<1>11. /\ s[1] = Fread("total_nodes", 1, Once) /\ s[2] = Fread("sensor_nodes", 1, Once)
       /\ s[3] = Fread("actuator_nodes", 1, Once) /\ s[4] = Fread("numberOfTotalLANs", 1, Once)
       /\ s[5] = Fread("numberOfTotalWANs", 1, Once) /\ s[6] = Fread("numberOfActTypes", 1, Once)
       /\ s[7] = Fread("numberOfSensTypes", 1, Once) /\ s[8] = Fread("numberOfLANsTypes", 1, Once)
       /\ s[9] = Fread("probOfActuators", 2, "numberOfActTypes")
  BY DEF ReadGeneral
<1> HIDE DEF s
<1>12. ASSUME NEW i \in 1 .. 9
       PROVE  /\ s[i].kept => parts[i] = V[s[i].field]
              /\ s[i].per = Once \/ s[i].per \in {} \cup ReadFields(s, i - 1)
              /\ Len(parts[i]) = s[i].words * Count(V, s[i].per)
  <2>1. s[i].kept /\ s[i].field = L[i] /\ parts[i] = V[L[i]]
    BY <1>1, <1>8, <1>11, StepsAre
  <2>2. CASE i \in 1 .. 8
    <3>1. s[i].per = Once /\ s[i].words = 1 /\ Len(V[L[i]]) = 1
      BY <1>1, <1>5, <1>6, <1>11, <2>2, StepsAre DEF GeneralNames
    <3> QED BY <2>1, <3>1 DEF Count
  <2>3. CASE i = 9
    <3>1. s[9].per = "numberOfActTypes" /\ s[9].words = 2 /\ Len(V[L[9]]) = 2 * ActTypes
      BY <1>1, <1>6, <1>11, StepsAre DEF GeneralNames
    <3>2. 6 \in {k \in 1 .. 9 - 1 : s[k].kept} /\ s[6].field = "numberOfActTypes"
      BY <1>11, StepsAre
    <3>3. "numberOfActTypes" \in ReadFields(s, 9 - 1)
      BY <3>2 DEF ReadFields
    <3>4. Count(V, "numberOfActTypes") = ActTypes
      BY <1>5 DEF Count, Once
    <3> QED BY <2>1, <2>3, <3>1, <3>3, <3>4
  <2> QED BY <2>2, <2>3
<1>13. Matches(V, {}, s, parts)
  BY <1>1, <1>8, <1>12 DEF Matches, s
<1>14. ReadSteps(file, Has(V, first, {}), s) = Has(V, end, {} \cup ReadFields(s, Len(s)))
  <2>1. first \in Int
    OBVIOUS
  <2> HIDE DEF first
  <2> QED BY <1>8, <1>10, <1>13, <2>1, Reads
<1>15. From(1) = Has(V, first, {})
  BY DEF From, Has
<1>16. ParseGeneralTopology(file) = [f \in {} \cup ReadFields(s, 9) |-> V[f]]
  BY <1>1, <1>14, <1>15 DEF ParseGeneralTopology, Has, s
<1>17. \A i \in 1 .. 9 : s[i].field \in GeneralNames
  BY <1>11, StepsAre DEF GeneralNames
<1>18. ReadFields(s, 9) \subseteq GeneralNames
  BY <1>17 DEF ReadFields
<1>19. \A g \in DOMAIN ParseGeneralTopology(file) : AsWritten(ParseGeneralTopology(file), V, g)
  BY <1>3, <1>16, <1>18 DEF AsWritten
<1> QED BY <1>19 DEF file, V

\* The fields of the file about the LPs; the lengths and the contents of its lists.
LpNames == {"totalElements", "numLP", "numValid", "amountsOfElementsInLP", "ElementToLPMapping",
            "LPtoElementMapping"}
Amounts == InLpOrder([lp \in DOMAIN LpElements |-> Len(LpElements[lp])])
ElementsOfLps == InLpOrder([lp \in DOMAIN LpElements |-> Numbers(None, "LPtoElementMapping", LpElements[lp])])

\* The LPs of the topology are numbered from 0.
LEMMA LpsAre ==
  /\ NumLps \in Nat /\ Used = 0 .. NumLps - 1 /\ Cardinality(Elements) \in Nat
  /\ \A lp \in Used : LpElements[lp] \in Seq(Int) /\ LpElements[lp] \in Seq(Elements)
                      /\ Len(LpElements[lp]) \in Nat
<1>1. NumLps \in Nat /\ Used = 0 .. NumLps - 1 /\ Elements \subseteq Int /\ IsFiniteSet(Elements)
  BY SetupAssumption
<1>2. Cardinality(Elements) \in Nat
  BY <1>1, FS_CardinalityType
<1>3. ASSUME NEW lp \in Used
      PROVE  LpElements[lp] \in Seq(Int) /\ LpElements[lp] \in Seq(Elements) /\ Len(LpElements[lp]) \in Nat
  <2>1. LpElements[lp] \in Seq(Elements)
    BY FilesAssumption DEF Used
  <2>2. /\ LpElements[lp] \in [1 .. Len(LpElements[lp]) -> Elements] /\ Len(LpElements[lp]) \in Nat
    BY <2>1, LenProperties
  <2>3. LpElements[lp] \in [1 .. Len(LpElements[lp]) -> Int]
    BY <1>1, <2>2
  <2> QED BY <2>1, <2>2, <2>3
<1> QED BY <1>1, <1>2, <1>3

\* A list in the order of the LPs has what belongs to an LP at its place, plus one.
LEMMA InOrderOfLps ==
  ASSUME NEW s, NEW S, \A lp \in Used : s[lp] \in S
  PROVE  /\ InLpOrder(s) \in Seq(S) /\ Len(InLpOrder(s)) = NumLps
         /\ \A lp \in Used : lp + 1 \in 1 .. NumLps /\ InLpOrder(s)[lp + 1] = s[lp]
<1> DEFINE n == NumLps
<1>1. n \in Nat /\ \A i \in 1 .. n : i - 1 \in Used
  BY LpsAre
<1>2. \A i \in 1 .. n : s[i - 1] \in S
  BY <1>1
<1>3. InLpOrder(s) = [i \in 1 .. n |-> s[i - 1]]
  BY DEF InLpOrder
<1>4. \A lp \in Used : lp + 1 \in 1 .. n /\ (lp + 1) - 1 = lp
  BY LpsAre
<1> HIDE DEF n
<1>5. InLpOrder(s) \in Seq(S) /\ Len(InLpOrder(s)) = n
  BY <1>1, <1>2, <1>3
<1>6. \A lp \in Used : InLpOrder(s)[lp + 1] = s[lp]
  BY <1>3, <1>4
<1> QED BY <1>4, <1>5, <1>6 DEF n

\* How many elements each LP has.
LEMMA AmountsAre ==
  /\ Amounts \in Seq(Int) /\ Len(Amounts) = NumLps
  /\ \A lp \in Used : lp + 1 \in 1 .. NumLps /\ Amounts[lp + 1] = Len(LpElements[lp])
<1> DEFINE s == [lp \in DOMAIN LpElements |-> Len(LpElements[lp])]
<1>1. \A lp \in Used : s[lp] = Len(LpElements[lp]) /\ s[lp] \in Int
  BY LpsAre DEF Used
<1> HIDE DEF s
<1>2. /\ InLpOrder(s) \in Seq(Int) /\ Len(InLpOrder(s)) = NumLps
      /\ \A lp \in Used : lp + 1 \in 1 .. NumLps /\ InLpOrder(s)[lp + 1] = s[lp]
  BY <1>1, InOrderOfLps
<1> QED BY <1>1, <1>2 DEF Amounts, s

\* Which elements each LP has.
LEMMA ElementsOfLpsAre ==
  /\ ElementsOfLps \in Seq(Seq(AllWords(LpNames))) /\ Len(ElementsOfLps) = NumLps
  /\ \A lp \in Used : /\ lp + 1 \in 1 .. NumLps /\ ElementsOfLps[lp + 1] = Numbers(None, "LPtoElementMapping", LpElements[lp])
                      /\ Len(ElementsOfLps[lp + 1]) = Len(LpElements[lp])
                      /\ \A i \in 1 .. Len(LpElements[lp]) : ElementsOfLps[lp + 1][i].value = LpElements[lp][i]
<1> DEFINE s == [lp \in DOMAIN LpElements |-> Numbers(None, "LPtoElementMapping", LpElements[lp])]
           S == Seq(AllWords(LpNames))
<1>1. "LPtoElementMapping" \in LpNames
  BY DEF LpNames
<1>2. \A lp \in Used : s[lp] = Numbers(None, "LPtoElementMapping", LpElements[lp])
  BY DEF Used
<1>3. \A lp \in Used : /\ Numbers(None, "LPtoElementMapping", LpElements[lp]) \in S
                       /\ Len(Numbers(None, "LPtoElementMapping", LpElements[lp])) = Len(LpElements[lp])
                       /\ \A i \in 1 .. Len(LpElements[lp]) :
                            Numbers(None, "LPtoElementMapping", LpElements[lp])[i].value = LpElements[lp][i]
  BY <1>1, LpsAre, NumbersAre
<1> HIDE DEF s, S
<1>4. \A lp \in Used : s[lp] \in S
  BY <1>2, <1>3
<1>5. /\ InLpOrder(s) \in Seq(S) /\ Len(InLpOrder(s)) = NumLps
      /\ \A lp \in Used : lp + 1 \in 1 .. NumLps /\ InLpOrder(s)[lp + 1] = s[lp]
  BY <1>4, InOrderOfLps
<1>6. ElementsOfLps = InLpOrder(s)
  BY DEF ElementsOfLps, s
<1> QED BY <1>2, <1>3, <1>5, <1>6 DEF S

\* What the file about the LPs is made of.
LEMMA LpWordsAre ==
  LET V == LpTopologyWords
      W == AllWords(LpNames)
  IN  /\ DOMAIN V = LpNames
      /\ V["totalElements"] \in Seq(W) /\ Len(V["totalElements"]) = 1
      /\ V["totalElements"][1].value = Cardinality(Elements)
      /\ V["numLP"] \in Seq(W) /\ Len(V["numLP"]) = 1 /\ V["numLP"][1].value = NumLps
      /\ V["numValid"] \in Seq(W) /\ Len(V["numValid"]) = 1
      /\ V["amountsOfElementsInLP"] \in Seq(W) /\ Len(V["amountsOfElementsInLP"]) = NumLps
      /\ \A i \in 1 .. NumLps : V["amountsOfElementsInLP"][i].value = Amounts[i]
      /\ V["ElementToLPMapping"] \in Seq(W) /\ Len(V["ElementToLPMapping"]) = 2 * Cardinality(Elements)
      /\ V["LPtoElementMapping"] = FlattenSeq(ElementsOfLps) /\ V["LPtoElementMapping"] \in Seq(W)
<1> DEFINE V == LpTopologyWords
           W == AllWords(LpNames)
<1>1. Range(WriteLpTopology) = LpNames
  <2> DEFINE L == WriteLpTopology
  <2>1. /\ L \in Seq(LpNames) /\ Len(L) = 6
        /\ L[1] = "totalElements" /\ L[2] = "numLP" /\ L[3] = "numValid" /\ L[4] = "amountsOfElementsInLP"
        /\ L[5] = "ElementToLPMapping" /\ L[6] = "LPtoElementMapping"
    BY DEF WriteLpTopology, LpNames
  <2> HIDE DEF L
  <2>2. DOMAIN L = 1 .. 6 /\ \A i \in 1 .. 6 : L[i] \in LpNames
    BY <2>1, LenProperties, ElementOfSeq
  <2>3. \A f \in LpNames : \E i \in 1 .. 6 : L[i] = f
    BY <2>1 DEF LpNames
  <2> QED BY <2>2, <2>3 DEF Range, L
<1>2. /\ DOMAIN V = LpNames
      /\ V["totalElements"] = Numbers(None, "totalElements", <<Cardinality(Elements)>>)
      /\ V["numLP"] = Numbers(None, "numLP", <<NumLps>>)
      /\ V["numValid"] = Words(None, "numValid", 1)
      /\ V["amountsOfElementsInLP"] = Numbers(None, "amountsOfElementsInLP", Amounts)
      /\ V["ElementToLPMapping"] = Words(None, "ElementToLPMapping", 2 * Cardinality(Elements))
      /\ V["LPtoElementMapping"] = FlattenSeq(ElementsOfLps)
  <2>1. /\ "totalElements" \in LpNames /\ "numLP" \in LpNames /\ "numValid" \in LpNames
        /\ "amountsOfElementsInLP" \in LpNames /\ "ElementToLPMapping" \in LpNames
        /\ "LPtoElementMapping" \in LpNames
    BY DEF LpNames
  <2> QED BY <1>1, <2>1 DEF LpTopologyWords, Amounts, ElementsOfLps
<1> HIDE DEF V, W
<1>3. ASSUME NEW f \in LpNames, NEW x \in Int
      PROVE  /\ Numbers(None, f, <<x>>) \in Seq(W) /\ Len(Numbers(None, f, <<x>>)) = 1
             /\ Numbers(None, f, <<x>>)[1].value = x
  <2> DEFINE t == <<x>>
  <2>1. t \in Seq(Int) /\ Len(t) = 1 /\ t[1] = x /\ 1 \in 1 .. 1
    OBVIOUS
  <2> HIDE DEF t
  <2>2. Numbers(None, f, t) \in Seq(W) /\ Len(Numbers(None, f, t)) = 1 /\ Numbers(None, f, t)[1].value = x
    BY <2>1, NumbersAre DEF W
  <2> QED BY <2>2 DEF t
<1>4. /\ V["totalElements"] \in Seq(W) /\ Len(V["totalElements"]) = 1
      /\ V["totalElements"][1].value = Cardinality(Elements)
  BY <1>2, <1>3, LpsAre DEF LpNames
<1>5. V["numLP"] \in Seq(W) /\ Len(V["numLP"]) = 1 /\ V["numLP"][1].value = NumLps
  BY <1>2, <1>3, LpsAre DEF LpNames
<1>6. V["numValid"] \in Seq(W) /\ Len(V["numValid"]) = 1
  <2> DEFINE one == 1
  <2>1. "numValid" \in LpNames /\ one \in Nat /\ V["numValid"] = Words(None, "numValid", one)
    BY <1>2 DEF LpNames
  <2> HIDE DEF one
  <2>2. V["numValid"] \in Seq(W) /\ Len(V["numValid"]) = one
    BY <2>1, WordsAre DEF W
  <2> QED BY <2>2 DEF one
<1>7. /\ V["amountsOfElementsInLP"] \in Seq(W) /\ Len(V["amountsOfElementsInLP"]) = NumLps
      /\ \A i \in 1 .. NumLps : V["amountsOfElementsInLP"][i].value = Amounts[i]
  <2>1. "amountsOfElementsInLP" \in LpNames
    BY DEF LpNames
  <2>2. Amounts \in Seq(Int) /\ Len(Amounts) = NumLps
    BY AmountsAre
  <2>3. LET a == Numbers(None, "amountsOfElementsInLP", Amounts)
        IN  /\ a \in Seq(W) /\ Len(a) = Len(Amounts) /\ \A i \in 1 .. Len(Amounts) : a[i].value = Amounts[i]
    BY <2>1, <2>2, NumbersAre DEF W
  <2> QED BY <1>2, <2>2, <2>3
<1>8. V["ElementToLPMapping"] \in Seq(W) /\ Len(V["ElementToLPMapping"]) = 2 * Cardinality(Elements)
  <2>1. "ElementToLPMapping" \in LpNames /\ 2 * Cardinality(Elements) \in Nat
    BY LpsAre DEF LpNames
  <2> QED BY <1>2, <2>1, WordsAre DEF W
<1>9. FlattenSeq(ElementsOfLps) \in Seq(W)
  BY ElementsOfLpsAre, Flattens DEF W
<1> QED BY <1>2, <1>4, <1>5, <1>6, <1>7, <1>8, <1>9 DEF V, W

\* The part an LP reads, and the part it looks its own elements up in.
LpHead == <<"totalElements", "numLP", "numValid", "amountsOfElementsInLP", "ElementToLPMapping">>
LpTail == <<"LPtoElementMapping">>

\* The file about the LPs is these two parts.
LEMMA LpTopologyInTwo ==
  /\ LpHead \in Seq(LpNames) /\ LpTail \in Seq(LpNames) /\ Len(LpHead) = 5 /\ Len(LpTail) = 1
  /\ WriteLpTopology = LpHead \o LpTail
<1> DEFINE a == LpHead
           b == LpTail
           L == WriteLpTopology
<1>1. /\ a \in Seq(LpNames) /\ Len(a) = 5
      /\ a[1] = "totalElements" /\ a[2] = "numLP" /\ a[3] = "numValid" /\ a[4] = "amountsOfElementsInLP"
      /\ a[5] = "ElementToLPMapping"
  BY DEF LpHead, LpNames
<1>2. b \in Seq(LpNames) /\ Len(b) = 1 /\ b[1] = "LPtoElementMapping"
  BY DEF LpTail, LpNames
<1>3. /\ L \in Seq(LpNames) /\ Len(L) = 6
      /\ L[1] = "totalElements" /\ L[2] = "numLP" /\ L[3] = "numValid" /\ L[4] = "amountsOfElementsInLP"
      /\ L[5] = "ElementToLPMapping" /\ L[6] = "LPtoElementMapping"
  BY DEF WriteLpTopology, LpNames
<1> HIDE DEF a, b, L
<1>4. /\ a \o b \in Seq(LpNames) /\ Len(a \o b) = Len(a) + Len(b)
      /\ \A i \in 1 .. Len(a) + Len(b) : (a \o b)[i] = IF i <= Len(a) THEN a[i] ELSE b[i - Len(a)]
  BY <1>1, <1>2, ConcatProperties
<1> DEFINE ab == a \o b
<1>5. ab \in Seq(LpNames) /\ Len(ab) = 6 /\ \A i \in 1 .. 6 : ab[i] = IF i <= 5 THEN a[i] ELSE b[i - 5]
  BY <1>1, <1>2, <1>4
<1> HIDE DEF ab
<1>6. ab[6] = b[1] /\ \A i \in {1, 2, 3, 4, 5} : ab[i] = a[i]
  BY <1>5
<1>7. \A i \in {1, 2, 3, 4, 5, 6} : ab[i] = L[i]
  BY <1>1, <1>2, <1>3, <1>6
<1>8. \A i \in 1 .. 6 : i \in {1, 2, 3, 4, 5, 6}
  OBVIOUS
<1>9. ab \in [1 .. 6 -> LpNames]
  BY <1>5, LenProperties
<1>10. L \in [1 .. 6 -> LpNames]
  BY <1>3, LenProperties
<1>11. a \o b = L
  <2>1. ab = L
    BY <1>7, <1>8, <1>9, <1>10
  <2> QED BY <2>1 DEF ab
<1> QED BY <1>1, <1>2, <1>11 DEF a, b, L

\* Where the elements of the LPs stand after what every LP reads of the file.
\* After the first part the reader is at the lists of elements.
LEMMA LpHeadRead ==
  LET file == LpTopologyFile
  IN  \E mid \in Int, E \in SUBSET LpNames :
        /\ ReadSteps(file, From(1), ReadLpTopology) = Has(LpTopologyWords, mid, E)
        /\ {"numLP", "amountsOfElementsInLP"} \subseteq E
        /\ Stands(file, mid, FlattenSeq(ElementsOfLps))
<1> DEFINE W == AllWords(LpNames)
           V == LpTopologyWords
           file == LpTopologyFile
           s == ReadLpTopology
           x == Chosen(V, LpHead)
           y == Chosen(V, LpTail)
           first == 1
<1>1. /\ V["totalElements"] \in Seq(W) /\ Len(V["totalElements"]) = 1
      /\ V["totalElements"][1].value = Cardinality(Elements)
      /\ V["numLP"] \in Seq(W) /\ Len(V["numLP"]) = 1 /\ V["numLP"][1].value = NumLps
      /\ V["numValid"] \in Seq(W) /\ Len(V["numValid"]) = 1
      /\ V["amountsOfElementsInLP"] \in Seq(W) /\ Len(V["amountsOfElementsInLP"]) = NumLps
      /\ V["ElementToLPMapping"] \in Seq(W) /\ Len(V["ElementToLPMapping"]) = 2 * Cardinality(Elements)
      /\ V["LPtoElementMapping"] = FlattenSeq(ElementsOfLps) /\ V["LPtoElementMapping"] \in Seq(W)
  BY LpWordsAre
<1>2. /\ LpHead[1] = "totalElements" /\ LpHead[2] = "numLP" /\ LpHead[3] = "numValid"
      /\ LpHead[4] = "amountsOfElementsInLP" /\ LpHead[5] = "ElementToLPMapping"
      /\ LpTail[1] = "LPtoElementMapping"
  BY DEF LpHead, LpTail
<1> HIDE DEF W, V
<1>3. HaveWords(W, V, LpHead) /\ HaveWords(W, V, LpTail)
  <2>1. \A f \in LpNames : V[f] \in Seq(W)
    BY <1>1 DEF LpNames
  <2>2. (\A i \in DOMAIN LpHead : LpHead[i] \in LpNames) /\ (\A i \in DOMAIN LpTail : LpTail[i] \in LpNames)
    BY LpTopologyInTwo, LenProperties, ElementOfSeq
  <2> QED BY <2>1, <2>2 DEF HaveWords
<1>4. LpHead \in Seq(LpNames) /\ LpTail \in Seq(LpNames) /\ Len(LpHead) = 5 /\ Len(LpTail) = 1
  BY LpTopologyInTwo
<1>5. /\ x \in Seq(Seq(W)) /\ Len(x) = Len(LpHead) /\ \A i \in 1 .. Len(LpHead) : x[i] = V[LpHead[i]]
  <2>1. HaveWords(W, V, LpHead) /\ LpHead \in Seq(LpNames)
    BY <1>3, <1>4
  <2> QED BY <2>1, ChosenIs
<1>6. /\ y \in Seq(Seq(W)) /\ Len(y) = Len(LpTail) /\ \A i \in 1 .. Len(LpTail) : y[i] = V[LpTail[i]]
  <2>1. HaveWords(W, V, LpTail) /\ LpTail \in Seq(LpNames)
    BY <1>3, <1>4
  <2> QED BY <2>1, ChosenIs
<1>7. Chosen(V, LpHead \o LpTail) = x \o y
  BY <1>3, <1>4, ChosenBoth
<1>8. file = FlattenSeq(x \o y)
  <2>1. file = FlattenSeq(Chosen(V, WriteLpTopology))
    BY DEF LpTopologyFile, Written, Chosen, V
  <2> HIDE DEF file, x, y
  <2> QED BY <1>7, <2>1, LpTopologyInTwo
<1> HIDE DEF x, y, file, first
<1>9. x \o y \in Seq(Seq(W))
  <2> DEFINE S == Seq(W)
  <2>1. x \in Seq(S) /\ y \in Seq(S)
    BY <1>5, <1>6
  <2> HIDE DEF S
  <2>2. x \o y \in Seq(S)
    BY <2>1, ConcatProperties
  <2> QED BY <2>2 DEF S
<1>10. PICK end : Laid(file, first, x \o y, end)
  <2>1. file \in Seq(W)
    BY <1>8, <1>9, Flattens
  <2>2. first \in Int /\ Stands(file, first, FlattenSeq(x \o y))
    BY <1>8, <2>1, WholeStands DEF first
  <2> QED BY <1>9, <2>2, FlattenedLaid
<1>11. first \in Int
  BY DEF first
<1>12. PICK mid \in Int : Laid(file, first, x, mid) /\ Laid(file, mid, y, end)
  BY <1>5, <1>6, <1>10, <1>11, LaidInTwo
<1>13. Stands(file, mid, FlattenSeq(ElementsOfLps))
  <2>1. Len(y) = 1 /\ y[1] = FlattenSeq(ElementsOfLps)
    BY <1>1, <1>2, <1>4, <1>6
  <2> QED BY <1>12, <2>1 DEF Laid
<1>14. /\ Len(s) = 5
       /\ s[1] = Fread("totalElements", 1, Once) /\ s[2] = Fread("numLP", 1, Once)
       /\ s[3] = Fread("numValid", 1, Once) /\ s[4] = Fread("amountsOfElementsInLP", 1, "numLP")
       /\ s[5] = Fseek(2, "totalElements")
  BY DEF ReadLpTopology
<1> HIDE DEF s
<1>15. NumLps \in Nat /\ Cardinality(Elements) \in Nat
  BY LpsAre
<1>16. Len(x) = 5 /\ \A i \in 1 .. 5 : x[i] = V[LpHead[i]]
  BY <1>4, <1>5
<1>17. ASSUME NEW i \in 1 .. 5
       PROVE  /\ s[i].kept => x[i] = V[s[i].field]
              /\ s[i].per = Once \/ s[i].per \in {} \cup ReadFields(s, i - 1)
              /\ Len(x[i]) = s[i].words * Count(V, s[i].per)
  <2>1. CASE i \in 1 .. 3
    <3>1. s[i].per = Once /\ s[i].words = 1 /\ s[i].field = LpHead[i] /\ Len(V[LpHead[i]]) = 1
      BY <1>1, <1>2, <1>14, <2>1, StepsAre
    <3> QED BY <1>16, <3>1 DEF Count
  <2>2. CASE i = 4
    <3>1. /\ s[4].per = "numLP" /\ s[4].words = 1 /\ s[4].field = LpHead[4] /\ Len(V[LpHead[4]]) = NumLps
          /\ 2 \in {k \in 1 .. 4 - 1 : s[k].kept} /\ s[2].field = "numLP"
      BY <1>1, <1>2, <1>14, StepsAre
    <3>2. "numLP" \in ReadFields(s, 4 - 1)
      BY <3>1 DEF ReadFields
    <3>3. Count(V, "numLP") = NumLps
      BY <1>1 DEF Count, Once
    <3> QED BY <1>15, <1>16, <2>2, <3>1, <3>2, <3>3
  <2>3. CASE i = 5
    <3>1. Len(V[LpHead[5]]) = 2 * Cardinality(Elements)
      BY <1>1, <1>2
    <3>2. s[5].per = "totalElements" /\ s[5].words = 2 /\ ~s[5].kept
      BY <1>14, StepsAre
    <3>3. s[1].kept /\ s[1].field = "totalElements"
      BY <1>14, StepsAre
    <3>4. /\ s[5].per = "totalElements" /\ s[5].words = 2 /\ ~s[5].kept
          /\ Len(V[LpHead[5]]) = 2 * Cardinality(Elements)
          /\ 1 \in {k \in 1 .. 5 - 1 : s[k].kept} /\ s[1].field = "totalElements"
      BY <3>1, <3>2, <3>3
    <3>5. "totalElements" \in ReadFields(s, 5 - 1)
      BY <3>4 DEF ReadFields
    <3>6. Count(V, "totalElements") = Cardinality(Elements)
      BY <1>1 DEF Count, Once
    <3> QED BY <1>16, <2>3, <3>4, <3>5, <3>6
  <2> QED BY <2>1, <2>2, <2>3
<1>18. Matches(V, {}, s, x)
  BY <1>14, <1>16, <1>17 DEF Matches
<1>19. ReadSteps(file, Has(V, first, {}), s) = Has(V, mid, {} \cup ReadFields(s, Len(s)))
  BY <1>5, <1>11, <1>12, <1>18, Reads
<1>20. From(1) = Has(V, first, {})
  BY DEF From, Has, first
<1>21. {} \cup ReadFields(s, 5) \in SUBSET LpNames
       /\ {"numLP", "amountsOfElementsInLP"} \subseteq {} \cup ReadFields(s, 5)
  <2>1. \A k \in 1 .. 5 : s[k].kept => s[k].field \in LpNames
    BY <1>14, StepsAre DEF LpNames
  <2>2. /\ 2 \in {k \in 1 .. 5 : s[k].kept} /\ s[2].field = "numLP"
        /\ 4 \in {k \in 1 .. 5 : s[k].kept} /\ s[4].field = "amountsOfElementsInLP"
    BY <1>14, StepsAre
  <2> QED BY <2>1, <2>2 DEF ReadFields
<1>22. ReadSteps(file, From(1), s) = Has(V, mid, {} \cup ReadFields(s, 5))
  BY <1>14, <1>19, <1>20
<1> QED BY <1>13, <1>21, <1>22 DEF V, file, s

\* The elements of the LPs before x.
\* The elements of the LPs before lp, as ParseLpTopology sums them up.
SkippedBefore(amounts, lp) ==
  CHOOSE f : f = [x \in 0 .. lp |-> IF x = 0 THEN 0
                                    ELSE f[x - 1] + (IF (x - 1) + 1 \in DOMAIN amounts
                                                     THEN amounts[(x - 1) + 1].value ELSE 0)]

\* Any LP, even one the topology does not need, reads the number of LPs.
LEMMA NumLpRead ==
  ASSUME NEW lp
  PROVE  ParseLpTopology(LpTopologyFile, lp).numLP = NumLps
<1> DEFINE head == ReadSteps(LpTopologyFile, From(1), ReadLpTopology)
<1>1. PICK mid \in Int, E \in SUBSET LpNames :
        head = Has(LpTopologyWords, mid, E) /\ {"numLP", "amountsOfElementsInLP"} \subseteq E
  BY LpHeadRead
<1>2. ParseLpTopology(LpTopologyFile, lp).numLP = Value(head, "numLP")
  BY DEF ParseLpTopology
<1> HIDE DEF head
<1>3. head.got["numLP"] = LpTopologyWords["numLP"]
  BY <1>1 DEF Has
<1>4. LpTopologyWords["numLP"][1].value = NumLps
  BY LpWordsAre
<1> QED BY <1>2, <1>3, <1>4 DEF Value

\* An LP finds its elements, and their order.
LEMMA DevicesParsed ==
  ASSUME NEW lp \in Used
  PROVE  ParseLpTopology(LpTopologyFile, lp).devices = LpElements[lp]
<1> DEFINE file == LpTopologyFile
           head == ReadSteps(file, From(1), ReadLpTopology)
           amounts == head.got["amountsOfElementsInLP"]
           amount(x) == IF x + 1 \in DOMAIN amounts THEN amounts[x + 1].value ELSE 0
           g == SkippedBefore(amounts, lp)
           all == ElementsOfLps
           n == NumLps
           d == LpElements[lp]
<1>1. /\ n \in Nat /\ Used = 0 .. n - 1 /\ lp \in Nat /\ lp < n /\ \A x \in Used : Len(LpElements[x]) \in Nat
      /\ d \in Seq(Elements)
  BY LpsAre
<1>2. PICK mid \in Int, E \in SUBSET LpNames :
        /\ head = Has(LpTopologyWords, mid, E) /\ {"numLP", "amountsOfElementsInLP"} \subseteq E
        /\ Stands(file, mid, FlattenSeq(all))
  BY LpHeadRead
<1>3. ParseLpTopology(file, lp).devices =
        [i \in 1 .. amount(lp) |-> WordAt(file, head.pos + g[lp] + i - 1).value]
  BY DEF ParseLpTopology, SkippedBefore
<1> HIDE DEF head, file
<1>4. head.pos = mid /\ amounts = LpTopologyWords["amountsOfElementsInLP"]
  BY <1>2 DEF Has
<1> HIDE DEF amounts
<1>5. DOMAIN amounts = 1 .. n /\ \A i \in 1 .. n : amounts[i].value = Amounts[i]
  BY <1>4, LpWordsAre, LenProperties
<1> HIDE DEF n
<1>6. \A x \in Used : amount(x) = Len(LpElements[x])
  BY <1>5, AmountsAre DEF n
<1> HIDE DEF all, amount
<1>7. /\ all \in Seq(Seq(AllWords(LpNames))) /\ Len(all) = n
      /\ \A x \in Used : /\ x + 1 \in 1 .. n /\ Len(all[x + 1]) = Len(LpElements[x])
                         /\ \A i \in 1 .. Len(LpElements[x]) : all[x + 1][i].value = LpElements[x][i]
  BY ElementsOfLpsAre DEF all, n
<1>8. PICK at \in [0 .. n -> Int] :
        /\ at[0] = mid
        /\ \A i \in 1 .. n : at[i] = at[i - 1] + Len(all[i]) /\ Stands(file, at[i - 1], all[i])
  <2>1. Laid(file, mid, all, mid + Len(FlattenSeq(all)))
    BY <1>2, <1>7, FlattenedLaid
  <2> QED BY <1>7, <2>1 DEF Laid
<1>9. \A x \in 1 .. lp : x - 1 \in Used /\ x \in 1 .. n /\ x \in 0 .. n /\ x - 1 \in 0 .. n
                          /\ x - 1 \in 0 .. lp /\ x # 0 /\ (x - 1) + 1 = x
  BY <1>1
<1>10. \A x \in 1 .. lp : at[x] - mid = (at[x - 1] - mid) + amount(x - 1)
  <2> TAKE x \in 1 .. lp
  <2>1. at[x] = at[x - 1] + Len(LpElements[x - 1])
    BY <1>7, <1>8, <1>9
  <2>2. amount(x - 1) = Len(LpElements[x - 1]) /\ Len(LpElements[x - 1]) \in Nat
    BY <1>1, <1>6, <1>9
  <2>3. at[x - 1] \in Int
    BY <1>8, <1>9
  <2> QED BY <2>1, <2>2, <2>3
<1> DEFINE h == [x \in 0 .. lp |-> at[x] - mid]
<1>11. g = [x \in 0 .. lp |-> IF x = 0 THEN 0 ELSE g[x - 1] + amount(x - 1)]
  <2>1. h = [x \in 0 .. lp |-> h[x]]
    OBVIOUS
  <2>2. \A x \in 0 .. lp : h[x] = IF x = 0 THEN 0 ELSE h[x - 1] + amount(x - 1)
    <3>1. \A x \in 0 .. lp : x # 0 => x \in 1 .. lp
      BY <1>1
    <3> QED BY <1>8, <1>9, <1>10, <3>1
  <2> HIDE DEF h
  <2>3. h = [x \in 0 .. lp |-> IF x = 0 THEN 0 ELSE h[x - 1] + amount(x - 1)]
    BY <2>1, <2>2
  <2> QED BY <2>3 DEF SkippedBefore, amount
<1> HIDE DEF g, h
<1>12. g[0] = 0 /\ \A x \in 1 .. lp : g[x] = g[x - 1] + amount(x - 1)
  <2>1. 0 \in 0 .. lp /\ \A x \in 1 .. lp : x \in 0 .. lp /\ x # 0
    BY <1>1
  <2> QED BY <1>11, <2>1
<1>13. \A x \in Nat : x \in 0 .. lp => g[x] = at[x] - mid
  <2> DEFINE N == {x \in Nat : x \in 0 .. lp => g[x] = at[x] - mid}
  <2>1. 0 \in N
    BY <1>8, <1>12
  <2>2. ASSUME NEW x \in Nat, x \in N PROVE x + 1 \in N
    <3> SUFFICES ASSUME x + 1 \in 0 .. lp PROVE g[x + 1] = at[x + 1] - mid
      OBVIOUS
    <3>1. x + 1 \in 1 .. lp /\ (x + 1) - 1 = x /\ x \in 0 .. lp
      BY <1>1
    <3>2. g[x] = at[x] - mid /\ g[x + 1] = g[x] + amount(x) /\ at[x + 1] - mid = (at[x] - mid) + amount(x)
      BY <1>10, <1>12, <2>2, <3>1
    <3> QED BY <3>2
  <2> HIDE DEF N
  <2>3. \A x \in Nat : x \in N
    BY <2>1, <2>2, SetInduction
  <2> QED BY <2>3 DEF N
<1>14. head.pos + g[lp] = at[lp]
  <2>1. lp \in 0 .. lp /\ lp \in 0 .. n
    BY <1>1
  <2>2. g[lp] = at[lp] - mid /\ at[lp] \in Int
    BY <1>1, <1>8, <1>13, <2>1
  <2> QED BY <1>4, <2>2
<1>15. Stands(file, at[lp], all[lp + 1]) /\ amount(lp) = Len(d) /\ Len(all[lp + 1]) = Len(d)
  <2>1. lp + 1 \in 1 .. n /\ (lp + 1) - 1 = lp
    BY <1>1
  <2> QED BY <1>6, <1>7, <1>8, <2>1
<1>16. \A i \in 1 .. Len(d) : WordAt(file, head.pos + g[lp] + i - 1).value = d[i]
  <2> TAKE i \in 1 .. Len(d)
  <2>1. at[lp] + i - 1 \in DOMAIN file /\ file[at[lp] + i - 1] = all[lp + 1][i]
    BY <1>15 DEF Stands
  <2>2. all[lp + 1][i].value = d[i]
    BY <1>7
  <2> QED BY <1>14, <2>1, <2>2 DEF WordAt
<1>17. d = [i \in 1 .. Len(d) |-> d[i]]
  BY <1>1, LenProperties
<1> HIDE DEF d
<1>18. ParseLpTopology(file, lp).devices = d
  BY <1>3, <1>15, <1>16, <1>17
<1> QED BY <1>18 DEF file, d

-----------------------------------------------------------------------------
(* What an LP has read.                                                    *)

\* The fields are the LP's own.
LEMMA LpStateReadIs ==
  ASSUME NEW lp \in Used
  PROVE  /\ DOMAIN LpStateRead[lp] = {"general_topology", "probOfActuators", "number_lps_enabled",
                                      "devices_array", "element_to_index"}
         /\ \A f \in DOMAIN LpStateRead[lp] : LpStateRead[lp][f] = Data(lp, f)
<1>1. lp \in LP
  BY UsedLPs
<1>2. LpTopologyRead[lp].numLP = NumLps
  BY <1>1, NumLpRead DEF LpTopologyRead
<1>3. Range(LpTopologyRead[lp].devices) = Devices(lp)
  BY <1>1, DevicesParsed DEF LpTopologyRead, Devices
<1> QED BY <1>2, <1>3, GeneralRead DEF LpStateRead

\* The map of the ids to the places in the LP file.
LEMMA PlacesFound ==
  ASSUME NEW d \in Seq(Nat), \A i, j \in 1 .. Len(d) : d[i] = d[j] => i = j
  PROVE  LET ids == [i \in 0 .. Len(d) - 1 |-> d[i + 1]]
         IN  \A j \in 1 .. Len(d) :
               IdmapSearch(CreateIdmap(ids, [i \in DOMAIN ids |-> i]), d[j]) + 1 = j
<1> DEFINE n == Len(d)
           D == 0 .. n - 1
           ids == [i \in D |-> d[i + 1]]
           contents == [i \in DOMAIN ids |-> i]
           map == CreateIdmap(ids, contents)
<1>1. n \in Nat /\ DOMAIN d = 1 .. n /\ \A i \in 1 .. n : d[i] \in Nat
  BY LenProperties, ElementOfSeq
<1> HIDE DEF n
<1>2. \A i \in D : i + 1 \in 1 .. n /\ i \in Nat
  BY <1>1
<1>3. \A i \in D : ids[i] = d[i + 1] /\ ids[i] \in Nat /\ contents[i] = i
  BY <1>1, <1>2
<1>4. D \in SUBSET Int /\ IsFiniteSet(D)
  BY <1>1, FS_Interval
<1>5. ids \in [D -> Int] /\ contents \in [D -> Int]
  BY <1>1, <1>2, <1>4
<1> HIDE DEF ids, contents
<1>6. Valid(ids) = D /\ Valid(contents) = D
  BY <1>2, <1>3, <1>5 DEF Valid
<1>7. AsIntended(ids, contents) /\ Kept(ids, contents) = D
  <2>1. Kept(ids, contents) = D
    BY <1>6 DEF Kept
  <2>2. ASSUME NEW i \in D, NEW j \in D, ids[i] = ids[j] PROVE i = j
    <3>1. i + 1 \in 1 .. n /\ j + 1 \in 1 .. n /\ d[i + 1] = d[j + 1]
      BY <1>2, <1>3, <2>2
    <3>2. i + 1 = j + 1
      BY <3>1 DEF n
    <3> QED BY <1>2, <3>2
  <2> QED BY <1>6, <2>1, <2>2 DEF AsIntended
<1> HIDE DEF D
<1>8. \A i \in Kept(ids, contents) : IdmapSearch(map, ids[i]) = contents[i]
  BY <1>4, <1>5, <1>7, IdmapFindsWhatWasPutIn
<1>9. ASSUME NEW j \in 1 .. n PROVE IdmapSearch(map, d[j]) + 1 = j
  <2>1. j - 1 \in D /\ (j - 1) + 1 = j
    BY <1>1 DEF D
  <2>2. ids[j - 1] = d[j] /\ contents[j - 1] = j - 1
    BY <1>3, <2>1 DEF D
  <2>3. IdmapSearch(map, d[j]) = j - 1
    BY <1>7, <1>8, <2>1, <2>2
  <2> QED BY <2>1, <2>3
<1> QED BY <1>9 DEF n, D, ids, contents

\* Every device of an LP is made of what was written for it, and has every field that
\* its init function reads (setup_independent, setup_protocol.c 66-87): the elements
\* are read in the order of the file and found again by their ids.
THEOREM DevicesReadAre ==
  ASSUME NEW lp \in Used
  PROVE  /\ DOMAIN DevicesRead[lp] = Devices(lp)
         /\ \A e \in Devices(lp) : /\ AllFields(e) \subseteq DOMAIN DevicesRead[lp][e]
                                   /\ \A f \in DOMAIN DevicesRead[lp][e] : DevicesRead[lp][e][f] = Data(e, f)
<1> DEFINE d == LpElements[lp]
           n == Len(d)
           ids == [i \in 0 .. n - 1 |-> d[i + 1]]
           map == CreateIdmap(ids, [i \in DOMAIN ids |-> i])
           array == ParseElements(ElementFile(lp), n)
<1>1. LpTopologyRead[lp].devices = d
  BY DevicesParsed, UsedLPs DEF LpTopologyRead
<1>2. DevicesRead[lp] = [e \in Range(d) |-> DeviceRead(array[IdmapSearch(map, e) + 1])]
  BY <1>1 DEF DevicesRead
<1>3. d \in Seq(Elements) /\ d \in Seq(Nat) /\ n \in Nat
  <2>1. d \in Seq(Elements) /\ Elements \subseteq Nat
    BY LpsAre, SetupAssumption
  <2>2. d \in [1 .. n -> Elements] /\ n \in Nat
    BY <2>1, LenProperties
  <2>3. d \in [1 .. n -> Nat]
    BY <2>1, <2>2
  <2> QED BY <2>1, <2>2, <2>3
<1>4. \A i, j \in 1 .. n : d[i] = d[j] => i = j
  <2>1. DOMAIN d = 1 .. n /\ lp \in DOMAIN LpElements
    BY <1>3, LenProperties DEF Used
  <2> QED BY <2>1, FilesAssumption
<1>5. \A j \in 1 .. n : IdmapSearch(map, d[j]) + 1 = j
  <2> HIDE DEF d
  <2> QED BY <1>3, <1>4, PlacesFound
<1>6. \A i \in 1 .. n : d[i] \in Elements /\ WasRead(d[i], array[i])
  BY <1>3, ElementOfSeq, ElementsParsed
<1>7. Devices(lp) = Range(d) /\ DOMAIN d = 1 .. n
  BY <1>3, LenProperties DEF Devices
<1> HIDE DEF d, n, map, array
<1>8. ASSUME NEW e \in Range(d)
      PROVE  /\ AllFields(e) \subseteq DOMAIN DeviceRead(array[IdmapSearch(map, e) + 1])
             /\ \A f \in DOMAIN DeviceRead(array[IdmapSearch(map, e) + 1]) :
                  DeviceRead(array[IdmapSearch(map, e) + 1])[f] = Data(e, f)
  <2>1. PICK j \in 1 .. n : e = d[j]
    BY <1>7 DEF Range
  <2>2. IdmapSearch(map, e) + 1 = j /\ e \in Elements /\ WasRead(e, array[j])
    BY <1>5, <1>6, <2>1
  <2> QED BY <2>2, DeviceReadIs
<1> QED BY <1>2, <1>7, <1>8

-----------------------------------------------------------------------------
(* The invariant of the setup from the files.                              *)

\* An LP that has not been initialised has nothing.
Waiting(lp) ==
  /\ events[lp] = {Event(0, "INIT")} /\ lp_enabled[lp] # "LP_ENABLED" /\ DOMAIN lp_state[lp] = {}
  /\ lp \in Used => \A e \in Devices(lp) : DOMAIN device[e] = {}

\* One that has been initialised has all it needs, and START_SIMULATION before it.
Prepared(lp) ==
  /\ events[lp] \subseteq {Start} /\ (lp_enabled[lp] = "LP_ENABLED" => events[lp] = {})
  /\ lp \notin Used => DOMAIN lp_state[lp] = {}
  /\ lp \in Used =>
       /\ {"number_lps_enabled", "general_topology", "probOfActuators", "devices_array"} \subseteq DOMAIN lp_state[lp]
       /\ \A f \in DOMAIN lp_state[lp] : lp_state[lp][f] = Data(lp, f)
       /\ \A e \in Devices(lp) : /\ AllFields(e) \subseteq DOMAIN device[e]
                                 /\ \A f \in DOMAIN device[e] : device[e][f] = Data(e, f)

\* The setup from the files: every LP waits or is prepared, and the program runs.
FilesInv ==
  independent => SetupTypes /\ ~exited /\ \A lp \in LP : Waiting(lp) \/ Prepared(lp)

\* Before INIT all LPs wait.
LEMMA FilesInitially ==
  ASSUME Init
  PROVE  FilesInv
<1>1. DOMAIN Empty = {}
  BY DEF Empty
<1>2. \A lp \in Used : Devices(lp) \subseteq Elements
  BY SetupAssumption
<1> QED BY <1>1, <1>2 DEF Init, FilesInv, SetupTypes, Waiting

\* INIT prepares one LP and touches no other; START_SIMULATION is its only other event.
LEMMA FilesKept ==
  ASSUME FilesInv, [Next]_vars
  PROVE  FilesInv'
<1>1. CASE UNCHANGED vars
  BY <1>1 DEF vars, FilesInv, SetupTypes, Waiting, Prepared
<1>2. CASE Over
  BY <1>2 DEF Over, vars, FilesInv, SetupTypes, Waiting, Prepared
<1>3. ASSUME Step PROVE independent' = independent
  BY <1>3 DEF Step, InitEvent, InitIndependent, DisableUnusedLp, ReceiveSetupMessage, StartSimulation
<1>4. ASSUME Step, independent PROVE FilesInv'
  <2>1. SetupTypes /\ ~exited /\ (\A lp \in LP : Waiting(lp) \/ Prepared(lp)) /\ independent'
    BY <1>3, <1>4 DEF FilesInv
  <2>2. ASSUME NEW m \in events[0], InitEvent(m) PROVE FALSE
    BY <1>4, <2>2 DEF InitEvent
  <2>3. \A lp \in LP : \A m \in events[lp] : m.event \in {"INIT", "START_SIMULATION"}
    <3>1. Event(0, "INIT").event = "INIT" /\ Start.event = "START_SIMULATION"
      BY DEF Event, Start
    <3> QED BY <2>1, <3>1 DEF Waiting, Prepared
  <2>4. ASSUME NEW lp \in LP, NEW m \in events[lp], DisableUnusedLp(lp, m) \/ ReceiveSetupMessage(lp, m)
        PROVE  FALSE
    BY <2>3, <2>4 DEF DisableUnusedLp, ReceiveSetupMessage
  <2>5. ASSUME NEW lp \in LP, NEW m \in events[lp], StartSimulation(lp, m) PROVE FilesInv'
    <3>1. /\ m.event = "START_SIMULATION" /\ UNCHANGED <<lp_state, device, exited>>
          /\ lp_enabled' = [lp_enabled EXCEPT ![lp] = "LP_ENABLED"]
          /\ events' = [events EXCEPT ![lp] = @ \ {m}]
      BY <2>5 DEF StartSimulation, Handled
    <3>2. Prepared(lp)
      <4>1. Event(0, "INIT").event = "INIT"
        BY DEF Event
      <4> QED BY <2>1, <2>5, <3>1, <4>1 DEF Waiting
    <3>3. m = Start
      BY <2>5, <3>2 DEF Prepared
    <3>4. SetupTypes' /\ lp_enabled'[lp] = "LP_ENABLED" /\ events'[lp] = events[lp] \ {m}
          /\ \A x \in LP : x # lp => lp_enabled'[x] = lp_enabled[x] /\ events'[x] = events[x]
      BY <2>1, <3>1 DEF SetupTypes
    <3>5. Prepared(lp)'
      BY <3>1, <3>2, <3>3, <3>4 DEF Prepared
    <3>6. ASSUME NEW x \in LP, x # lp PROVE (Waiting(x) \/ Prepared(x))'
      BY <2>1, <3>1, <3>4, <3>6 DEF Waiting, Prepared
    <3> QED BY <2>1, <3>1, <3>4, <3>5, <3>6 DEF FilesInv
  <2>6. ASSUME NEW lp \in LP, NEW m \in events[lp], InitIndependent(lp, m) PROVE FilesInv'
    <3>1. /\ m.event = "INIT" /\ UNCHANGED exited
          /\ events' = [events EXCEPT ![lp] = {Event(TS_START_SIMULATION, "START_SIMULATION")}]
      BY <2>6 DEF InitIndependent
    <3>2. Waiting(lp)
      <4>1. Start.event = "START_SIMULATION"
        BY DEF Event, Start
      <4> QED BY <2>1, <2>6, <3>1, <4>1 DEF Prepared
    <3>3. lp >= LpTopologyRead[lp].numLP <=> lp \notin Used
      <4>1. LpTopologyRead[lp].numLP = NumLps
        BY NumLpRead DEF LpTopologyRead
      <4>2. lp \in Nat
        BY UsedLPs
      <4> QED BY <4>1, <4>2, LpsAre
    <3>4. /\ events'[lp] = {Start} /\ events' = [x \in LP |-> events'[x]]
          /\ \A x \in LP : x # lp => events'[x] = events[x]
      BY <2>1, <3>1 DEF SetupTypes, Start, TS_START_SIMULATION
    <3>5. CASE lp \notin Used
      <4>1. lp_enabled' = [lp_enabled EXCEPT ![lp] = "LP_DISABLED"] /\ UNCHANGED <<lp_state, device>>
        BY <2>6, <3>3, <3>5 DEF InitIndependent
      <4>2. /\ SetupTypes' /\ lp_enabled'[lp] # "LP_ENABLED"
            /\ \A x \in LP : x # lp => lp_enabled'[x] = lp_enabled[x]
        BY <2>1, <3>4, <4>1 DEF SetupTypes
      <4>3. Prepared(lp)'
        BY <3>2, <3>4, <3>5, <4>1, <4>2 DEF Prepared, Waiting
      <4>4. ASSUME NEW x \in LP, x # lp PROVE (Waiting(x) \/ Prepared(x))'
        BY <2>1, <3>4, <4>1, <4>2, <4>4 DEF Waiting, Prepared
      <4> QED BY <2>1, <3>1, <4>2, <4>3, <4>4 DEF FilesInv
    <3>6. CASE lp \in Used
      <4>1. /\ UNCHANGED lp_enabled /\ lp_state' = [lp_state EXCEPT ![lp] = LpStateRead[lp]]
            /\ device' = [e \in Elements |-> IF e \in DOMAIN DevicesRead[lp] THEN DevicesRead[lp][e] ELSE device[e]]
        BY <2>6, <3>3, <3>6 DEF InitIndependent, SetupIndependent
      <4>2. /\ SetupTypes' /\ lp_state'[lp] = LpStateRead[lp]
            /\ \A x \in LP : x # lp => lp_state'[x] = lp_state[x]
        BY <2>1, <3>4, <4>1 DEF SetupTypes
      <4>3. /\ \A e \in Devices(lp) : e \in Elements /\ device'[e] = DevicesRead[lp][e]
            /\ \A e \in Elements : e \notin Devices(lp) => device'[e] = device[e]
        BY <3>6, <4>1, DevicesReadAre, SetupAssumption
      <4>4. Prepared(lp)'
        <5>1. lp_enabled'[lp] # "LP_ENABLED" /\ events'[lp] \subseteq {Start}
          BY <3>2, <3>4, <4>1 DEF Waiting
        <5>2. /\ {"number_lps_enabled", "general_topology", "probOfActuators", "devices_array"}
                   \subseteq DOMAIN lp_state'[lp]
              /\ \A f \in DOMAIN lp_state'[lp] : lp_state'[lp][f] = Data(lp, f)
          BY <3>6, <4>2, LpStateReadIs
        <5>3. \A e \in Devices(lp) : /\ AllFields(e) \subseteq DOMAIN device'[e]
                                     /\ \A f \in DOMAIN device'[e] : device'[e][f] = Data(e, f)
          BY <3>6, <4>3, DevicesReadAre
        <5> QED BY <3>6, <5>1, <5>2, <5>3 DEF Prepared
      <4>5. ASSUME NEW x \in LP, x # lp PROVE (Waiting(x) \/ Prepared(x))'
        <5>1. x \in Used => \A e \in Devices(x) : device'[e] = device[e]
          BY <3>6, <4>3, <4>5, DevicesApart
        <5>2. events'[x] = events[x] /\ lp_state'[x] = lp_state[x] /\ lp_enabled'[x] = lp_enabled[x]
          BY <3>4, <4>1, <4>2, <4>5
        <5>3. CASE Waiting(x)
          BY <5>1, <5>2, <5>3 DEF Waiting
        <5>4. CASE Prepared(x)
          BY <5>1, <5>2, <5>4 DEF Prepared
        <5> QED BY <2>1, <5>3, <5>4
      <4> QED BY <2>1, <3>1, <4>2, <4>4, <4>5 DEF FilesInv
    <3> QED BY <3>5, <3>6
  <2> QED BY <1>4, <2>2, <2>4, <2>5, <2>6 DEF Step
<1>5. ASSUME Step, ~independent PROVE FilesInv'
  BY <1>3, <1>5 DEF FilesInv
<1> QED BY <1>1, <1>2, <1>4, <1>5 DEF Next

\* Each field of an LP and of its devices has its own data, whether the LPs are set up
\* by messages that do not name their field (setup_send_functions.c,
\* setup_recv_functions.c) or from files read back word by word (binaryGenerate.c,
\* binaryParse.c, setup_independent), and the setup never ends the program.
THEOREM EveryFieldAlwaysItsOwn == Spec => []EveryFieldItsOwn
<1>1. ASSUME FilesInv, independent PROVE EveryFieldItsOwn
  <2>1. SetupTypes /\ ~exited /\ \A lp \in LP : Waiting(lp) \/ Prepared(lp)
    BY <1>1 DEF FilesInv
  <2>2. ASSUME NEW e \in Elements, NEW f \in DOMAIN device[e] PROVE device[e][f] = Data(e, f)
    <3>1. PICK lp \in Used : e \in Devices(lp)
      BY DevicesApart
    <3> QED BY <2>1, <2>2, <3>1, UsedLPs DEF Waiting, Prepared
  <2>3. ASSUME NEW lp \in LP, NEW f \in DOMAIN lp_state[lp] PROVE lp_state[lp][f] = Data(lp, f)
    BY <2>1, <2>3 DEF Waiting, Prepared
  <2> QED BY <2>1, <2>2, <2>3 DEF EveryFieldItsOwn
<1>2. (independent => EveryFieldItsOwn) /\ (~independent => EveryFieldItsOwn) => EveryFieldItsOwn
  OBVIOUS
<1> QED BY <1>1, <1>2, FilesInitially, FilesKept, MessagesFindTheirFields, PTL DEF Spec

\* An LP whose START_SIMULATION has been handled has all that it and its devices
\* read, in either setup, and no setup message is left for it: TS_START_SIMULATION comes
\* after every message, and setup_independent schedules it once all has been read.
THEOREM AlwaysCompleteAtStart == Spec => []CompleteAtStart
<1>1. ASSUME FilesInv, independent PROVE CompleteAtStart
  <2>1. \A lp \in LP : Waiting(lp) \/ Prepared(lp)
    BY <1>1 DEF FilesInv
  <2> QED BY <2>1, UsedLPs DEF Waiting, Prepared, CompleteAtStart
<1>2. (independent => CompleteAtStart) /\ (~independent => CompleteAtStart) => CompleteAtStart
  OBVIOUS
<1> QED BY <1>1, <1>2, FilesInitially, FilesKept, StartsComplete, PTL DEF Spec

=============================================================================
