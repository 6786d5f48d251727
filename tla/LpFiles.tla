------------------------------ MODULE LpFiles ------------------------------
(***************************************************************************)
(* The LP files: driverBinaries writes what getTopology computed, one file *)
(* for the general topology, one for the LPs and one for the elements of   *)
(* each LP (binaryGenerate.c); an LP of the SETUP_INDEPENDENT build reads  *)
(* its part back (binaryParse.c).  A file has neither names nor lengths:   *)
(* the reader finds a field by reading or skipping what comes before it,   *)
(* with the numbers it has read on the way.                                *)
(*                                                                         *)
(* A file is a sequence of words: one for an int or a float, two for a     *)
(* double or an idmap.                                                     *)
(***************************************************************************)
EXTENDS Integers, Sequences, FiniteSets, SequencesExt

CONSTANTS
  Elements, TypeOf, Central,
  LpElements, \* the elements of each LP, in the order of the LP file
  Sizes,      \* per element: the lengths of its arrays, the devices below by type
  ActTypes,   \* numberOfActTypes
  SensTypes   \* numberOfSensTypes

NODE     == "NODE"
SENSOR   == "SENSOR"
ACTUATOR == "ACTUATOR"
LAN      == "LAN"
WAN      == "WAN"

None == -1

HasPaths(e) == TypeOf[e] \notin {SENSOR, ACTUATOR}

ASSUME FilesAssumption ==
  /\ \A lp \in DOMAIN LpElements : LpElements[lp] \in Seq(Elements)
  /\ \A lp, x \in DOMAIN LpElements : \A i \in DOMAIN LpElements[lp], j \in DOMAIN LpElements[x] :
       LpElements[lp][i] = LpElements[x][j] => lp = x /\ i = j
  /\ ActTypes \in Nat /\ SensTypes \in Nat
  /\ \A e \in Elements :
       /\ Sizes[e] \in [lowers : Nat, lans : Nat, paths : Nat, neighbours : Nat,
                        actuators : Seq(Nat), sensors : Seq(Nat)]
       /\ Len(Sizes[e].actuators) = ActTypes /\ Len(Sizes[e].sensors) = SensTypes

Total(counts) == SumFunction(counts)

\* state_type and node_type, as written.
TypeCode == [NODE |-> 0, SENSOR |-> 1, ACTUATOR |-> 2, WAN |-> 3, LAN |-> 4]
CENTRAL  == 0
REGIONAL == 1

\* A word knows which field of which element (None in the files that are about no
\* single element) it belongs to; it has a value where the reader needs one.
Word(of, field, nr, value) == [of |-> of, field |-> field, nr |-> nr, value |-> value]
Words(of, field, n)  == [i \in 1 .. n |-> Word(of, field, i, 0)]
Numbers(of, field, s) == [i \in DOMAIN s |-> Word(of, field, i, s[i])]

\* The fields one after the other.
Written(words, fields) == FlattenSeq([i \in DOMAIN fields |-> words[fields[i]]])

-----------------------------------------------------------------------------
(* Writing: the fields of an element in the order of the fwrites.          *)

WriteHead ==
  <<"id", "at", "st", "lp_type", "upperNode", "numberOfLowerElements", "lowerElements",
    "numberOfLANS", "connectedLans", "numValidActuatorPaths", "actuatorPaths",
    "numValidElToLP", "ElementToLPMapping", "cost">>

WriteType == <<"node_type", "scheduler">>
WriteDisk == <<"disk_cost", "disk_type", "diskServices">>
WriteRest == <<"cores", "aggregation_rate", "delay_upper_router", "delay_lower_router", "service_time",
               "probCommandResponse", "id_WAN_up", "id_WAN_down">>
WriteNode(e) == WriteType \o (IF e \in Central THEN WriteDisk ELSE <<>>) \o WriteRest

WriteDevice   == <<"type_job", "device_type", "measure_type", "id_LAN_up">>
WriteSensor   == <<"sensorRates">>
WriteActuator == <<"rateTransition", "serviceTimeCommand">>
WriteWan      == <<"wan_type", "delay">>
WriteLan      == <<"lan_type", "delay", "LANsINserviceTimes", "LANsOUTserviceTimes">>

WriteSpecific(e) ==
  CASE TypeOf[e] = NODE     -> WriteNode(e)
    [] TypeOf[e] = SENSOR   -> WriteDevice \o WriteSensor
    [] TypeOf[e] = ACTUATOR -> WriteDevice \o WriteActuator
    [] TypeOf[e] = WAN      -> WriteWan
    [] TypeOf[e] = LAN      -> WriteLan

\* Mutant: the actuators are written before the sensors.
MutWriteBelow ==
  <<"numberOfBelowActuators", "actuatorsTypesBelow", "numberOfBelowSensors", "sensorsTypesBelow",
    "ListActuatorsByType", "ListSensorsByType">>

WriteBelow ==
  <<"numberOfBelowActuators", "actuatorsTypesBelow", "numberOfBelowSensors", "sensorsTypesBelow",
    "ListSensorsByType", "ListActuatorsByType">>

WriteElement(e) == WriteHead \o WriteSpecific(e) \o (IF HasPaths(e) THEN WriteBelow ELSE <<>>)

\* How long a field is.  The LANs are written if the first one is not -1, the mark of
\* an empty array; the devices below type by type, as many as each type's count says.
Length(e, field) ==
  CASE field = "lowerElements"       -> Sizes[e].lowers
    [] field = "connectedLans"       -> Sizes[e].lans
    [] field = "actuatorPaths"       -> 2 * Sizes[e].paths
    [] field = "ElementToLPMapping"  -> 2 * Sizes[e].neighbours
    [] field = "actuatorsTypesBelow" -> ActTypes
    [] field = "sensorsTypesBelow"   -> SensTypes
    [] field = "ListSensorsByType"   -> Total(Sizes[e].sensors)
    [] field = "ListActuatorsByType" -> Total(Sizes[e].actuators)
    [] field \in {"cost", "disk_cost", "rateTransition", "serviceTimeCommand"} -> 2
    [] field \in {"aggregation_rate", "sensorRates"} -> 4
    [] field = "diskServices"        -> 8
    [] field \in {"service_time", "LANsINserviceTimes", "LANsOUTserviceTimes"} -> 10
    [] OTHER                         -> 1

\* What is in it, where the reader needs to know.  setSensorTypes and setActuatorTypes
\* made the number of devices below the sum of the counts.
Content(e, field) ==
  CASE field = "id"                     -> e
    [] field = "at"                     -> ActTypes
    [] field = "st"                     -> SensTypes
    [] field = "lp_type"                -> TypeCode[TypeOf[e]]
    [] field = "numberOfLowerElements"  -> Sizes[e].lowers
    [] field = "numberOfLANS"           -> Sizes[e].lans
    [] field = "numValidActuatorPaths"  -> Sizes[e].paths
    [] field = "numValidElToLP"         -> Sizes[e].neighbours
    [] field = "node_type"              -> IF e \in Central THEN CENTRAL ELSE REGIONAL
    [] field = "numberOfBelowActuators" -> Total(Sizes[e].actuators)
    [] field = "numberOfBelowSensors"   -> Total(Sizes[e].sensors)
    [] OTHER                            -> 0

ElementWords(e) ==
  [field \in Range(WriteElement(e)) |->
     [i \in 1 .. Length(e, field) |-> Word(e, field, i, Content(e, field))]]

\* generateBinaries_elementTopology: bin/lp<lp>.bin.
ElementFile(lp) ==
  FlattenSeq([i \in DOMAIN LpElements[lp] |->
                Written(ElementWords(LpElements[lp][i]), WriteElement(LpElements[lp][i]))])

NumLps == Cardinality(DOMAIN LpElements)
InLpOrder(s) == [i \in 1 .. NumLps |-> s[i - 1]]

\* generateBinaries_lpTopology.
WriteLpTopology == <<"totalElements", "numLP", "numValid", "amountsOfElementsInLP", "ElementToLPMapping",
                     "LPtoElementMapping">>

LpTopologyWords ==
  LET Is(field) ==
        CASE field = "totalElements"         -> Numbers(None, field, <<Cardinality(Elements)>>)
          [] field = "numLP"                 -> Numbers(None, field, <<NumLps>>)
          [] field = "numValid"              -> Words(None, field, 1)
          [] field = "amountsOfElementsInLP" ->
               Numbers(None, field, InLpOrder([lp \in DOMAIN LpElements |-> Len(LpElements[lp])]))
          [] field = "ElementToLPMapping"    -> Words(None, field, 2 * Cardinality(Elements))
          [] OTHER                           ->
               FlattenSeq(InLpOrder([lp \in DOMAIN LpElements |-> Numbers(None, field, LpElements[lp])]))
  IN  [field \in Range(WriteLpTopology) |-> Is(field)]

LpTopologyFile == Written(LpTopologyWords, WriteLpTopology)

\* generateBinaries_generalTopology.
WriteGeneral == <<"total_nodes", "sensor_nodes", "actuator_nodes", "numberOfTotalLANs", "numberOfTotalWANs",
                  "numberOfActTypes", "numberOfSensTypes", "numberOfLANsTypes", "probOfActuators">>

GeneralWords ==
  [field \in Range(WriteGeneral) |->
     IF field = "numberOfActTypes" THEN Numbers(None, field, <<ActTypes>>)
     ELSE Words(None, field, IF field = "probOfActuators" THEN 2 * ActTypes ELSE 1)]

GeneralTopologyFile == Written(GeneralWords, WriteGeneral)

-----------------------------------------------------------------------------
(* Reading.                                                                *)

\* One fread or fseek: words for each of the "per" the reader has read already,
\* or once.
Fread(field, words, per) == [field |-> field, words |-> words, per |-> per, kept |-> TRUE]
Fseek(words, per) == [field |-> "", words |-> words, per |-> per, kept |-> FALSE]
Once == "once"

\* Past its end a file has nothing.
WordAt(file, pos) == IF pos \in DOMAIN file THEN file[pos] ELSE Word(None, "nothing", 0, 0)

Value(s, field) == s.got[field][1].value

\* What has been read, and how far, after a step.
ReadStep(file, s, step) ==
  LET n == step.words * (IF step.per = Once THEN 1 ELSE Value(s, step.per))
      words == [i \in 1 .. n |-> WordAt(file, s.pos + i - 1)]
  IN  [pos |-> s.pos + n,
       got |-> IF step.kept THEN [f \in DOMAIN s.got \cup {step.field} |->
                                    IF f = step.field THEN words ELSE s.got[f]]
               ELSE s.got]

ReadSteps(file, s, steps) ==
  LET after[i \in 0 .. Len(steps)] ==
        IF i = 0 THEN s ELSE ReadStep(file, after[i - 1], steps[i])
  IN  after[Len(steps)]

From(pos) == [pos |-> pos, got |-> [f \in {} |-> <<>>]]

ReadHead ==
  <<Fread("id", 1, Once), Fread("at", 1, Once), Fread("st", 1, Once), Fread("lp_type", 1, Once),
    Fread("upperNode", 1, Once),
    Fread("numberOfLowerElements", 1, Once), Fseek(1, "numberOfLowerElements"),
    Fread("numberOfLANS", 1, Once), Fseek(1, "numberOfLANS"),
    Fread("numValidActuatorPaths", 1, Once), Fread("actuatorPaths", 2, "numValidActuatorPaths"),
    Fread("numValidElToLP", 1, Once), Fread("ElementToLPMapping", 2, "numValidElToLP"),
    Fread("cost", 2, Once)>>

ReadBelow ==
  <<Fread("numberOfBelowActuators", 1, Once), Fread("actuatorsTypesBelow", 1, "at"),
    Fread("numberOfBelowSensors", 1, Once), Fseek(1, "st"), Fseek(1, "numberOfBelowSensors"),
    Fread("ListActuatorsByType", 1, "numberOfBelowActuators")>>

\* Mutant: the disk type is forgotten.
MutReadDisk == <<Fread("disk_cost", 2, Once), Fread("diskServices", 8, Once)>>

ReadDisk == <<Fread("disk_cost", 2, Once), Fread("disk_type", 1, Once), Fread("diskServices", 8, Once)>>

ReadType == <<Fread("node_type", 1, Once), Fread("scheduler", 1, Once)>>
ReadRest ==
  <<Fread("cores", 1, Once), Fread("aggregation_rate", 4, Once), Fread("delay_upper_router", 1, Once),
    Fread("delay_lower_router", 1, Once), Fread("service_time", 10, Once),
    Fread("probCommandResponse", 1, Once), Fread("id_WAN_up", 1, Once), Fread("id_WAN_down", 1, Once)>>

ReadNode(file, s) ==
  LET typed == ReadSteps(file, s, ReadType)
  IN  ReadSteps(file, IF Value(typed, "node_type") = CENTRAL THEN ReadSteps(file, typed, ReadDisk) ELSE typed,
                ReadRest)

ReadDevice == <<Fread("type_job", 1, Once), Fread("device_type", 1, Once),
                Fread("measure_type", 1, Once), Fread("id_LAN_up", 1, Once)>>
ReadSensor   == <<Fread("sensorRates", 4, Once)>>
ReadActuator == <<Fread("rateTransition", 2, Once), Fread("serviceTimeCommand", 2, Once)>>
ReadWan      == <<Fread("wan_type", 1, Once), Fread("delay", 1, Once)>>
ReadLan      == <<Fread("lan_type", 1, Once), Fread("delay", 1, Once),
                  Fread("LANsINserviceTimes", 10, Once), Fread("LANsOUTserviceTimes", 10, Once)>>

\* The rest of an element, by the type that was read.
ReadSpecific(file, s) ==
  LET type == Value(s, "lp_type")
  IN  CASE type = TypeCode[NODE]     -> ReadSteps(file, ReadNode(file, s), ReadBelow)
        [] type = TypeCode[SENSOR]   -> ReadSteps(file, ReadSteps(file, s, ReadDevice), ReadSensor)
        [] type = TypeCode[ACTUATOR] -> ReadSteps(file, ReadSteps(file, s, ReadDevice), ReadActuator)
        [] type = TypeCode[WAN]      -> ReadSteps(file, ReadSteps(file, s, ReadWan), ReadBelow)
        [] type = TypeCode[LAN]      -> ReadSteps(file, ReadSteps(file, s, ReadLan), ReadBelow)
        [] OTHER                     -> s

ReadElement(file, pos) == ReadSpecific(file, ReadSteps(file, From(pos), ReadHead))

\* parseBinaryElementTopology: what is read for each of the elements.
ParseElements(file, amount) ==
  LET element[i \in 0 .. amount] ==
        IF i = 0 THEN From(1)
        ELSE ReadElement(file, element[i - 1].pos)
  IN  [i \in 1 .. amount |-> element[i].got]

ReadLpTopology ==
  <<Fread("totalElements", 1, Once), Fread("numLP", 1, Once), Fread("numValid", 1, Once),
    Fread("amountsOfElementsInLP", 1, "numLP"), Fseek(2, "totalElements")>>

\* parseBinaryLpTopologyOneLPStripped: the number of LPs and the elements of lp.  An
\* LP the topology does not need reads past the amounts, and uses nothing of it.
ParseLpTopology(file, lp) ==
  LET head == ReadSteps(file, From(1), ReadLpTopology)
      amounts == head.got["amountsOfElementsInLP"]
      amount(x) == IF x + 1 \in DOMAIN amounts THEN amounts[x + 1].value ELSE 0
      skipped[x \in 0 .. lp] == IF x = 0 THEN 0 ELSE skipped[x - 1] + amount(x - 1)
  IN  [numLP |-> Value(head, "numLP"),
       devices |-> [i \in 1 .. amount(lp) |-> WordAt(file, head.pos + skipped[lp] + i - 1).value]]

ReadGeneral ==
  <<Fread("total_nodes", 1, Once), Fread("sensor_nodes", 1, Once), Fread("actuator_nodes", 1, Once),
    Fread("numberOfTotalLANs", 1, Once), Fread("numberOfTotalWANs", 1, Once),
    Fread("numberOfActTypes", 1, Once), Fread("numberOfSensTypes", 1, Once),
    Fread("numberOfLANsTypes", 1, Once), Fread("probOfActuators", 2, "numberOfActTypes")>>

\* parseBinaryGeneralTopology.
ParseGeneralTopology(file) == ReadSteps(file, From(1), ReadGeneral).got

\* What was read of a field is what was written of it.
AsWritten(got, words, field) == field \in DOMAIN words /\ got[field] = words[field]

=============================================================================
