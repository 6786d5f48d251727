------------------------------ MODULE Topology ------------------------------
(***************************************************************************)
(* getTopology of utils/partop/parser.c: from the tree in topology.txt it  *)
(* derives everything the simulator later routes by, one pass after the    *)
(* other: the devices below each element, the next hop towards each        *)
(* actuator, the elements below each element, the logical process (LP) of  *)
(* each element, and each element's map of its neighbours' LPs.            *)
(***************************************************************************)
EXTENDS IdMap, Sequences, Functions

CONSTANTS
  Trees,      \* the trees a file may describe
  Criteria    \* LP_AGGR_CRITERIA to try

NODE     == "NODE"
SENSOR   == "SENSOR"
ACTUATOR == "ACTUATOR"
WAN      == "WAN"
LAN      == "LAN"

CENTRAL    == "CENTRAL"
REGIONAL   == "REGIONAL"
LOCAL_NODE == "LOCAL"

None == -1

\* The aggregation criteria, by the element an LP is built around.
BY_CENTRAL == CENTRAL
BY_REGION  == REGIONAL
BY_LOCAL   == LOCAL_NODE
BY_LAN     == LAN

\* A tree as generator.py writes it: element 0 is the central node; below it a WAN,
\* regional nodes, a WAN for each, local nodes, LANs, sensors and actuators.
IsTopology(t) ==
  LET ids     == DOMAIN t.upper
      of(k)   == {e \in ids : t.kind[e] = k}
      type(n) == {e \in of(NODE) : t.node_type[e] = n}
      devices == of(SENSOR) \cup of(ACTUATOR)
  IN  /\ IsFiniteSet(ids) /\ ids = 0 .. Cardinality(ids) - 1
      /\ DOMAIN t.kind = ids /\ DOMAIN t.node_type = of(NODE)
      /\ DOMAIN t.device_type = devices /\ \A d \in devices : t.device_type[d] \in Nat
      /\ type(CENTRAL) = {0} /\ t.upper[0] = None
      /\ type(REGIONAL) # {}
      /\ \A e \in ids \ {0} :
           \/ e \in type(REGIONAL) /\ t.upper[e] \in of(WAN) /\ t.upper[t.upper[e]] = 0
           \/ e \in type(LOCAL_NODE) /\ t.upper[e] \in of(WAN) /\ t.upper[t.upper[e]] \in type(REGIONAL)
           \/ e \in of(WAN) /\ t.upper[e] \in {0} \cup type(REGIONAL)
           \/ e \in of(LAN) /\ t.upper[e] \in type(LOCAL_NODE)
           \/ e \in devices /\ t.upper[e] \in of(LAN)
      /\ \A n \in {0} \cup type(REGIONAL) :
           \E w \in of(WAN) : \A v \in of(WAN) : t.upper[v] = n <=> v = w

ASSUME TopologyAssumption ==
  /\ Criteria \subseteq {BY_CENTRAL, BY_REGION, BY_LOCAL, BY_LAN}
  /\ \A t \in Trees : IsTopology(t)

VARIABLES
  tree,          \* what the file says: upper, kind, node_type, device_type
  criteria,
  done,          \* the passes that are over
  types_below,   \* devices of each kind and type below each element
  lists,         \* the devices themselves, type after type in one array
                 \* (ListSensorsByType, ListActuatorsByType)
  actuatorPaths, \* for each element the next hop to each actuator, as an idmap
  lowers,        \* lowerElements
  wan_down,      \* id_WAN_down
  lp_lines,      \* the lines of the LP file
  numLP,         \* the number of LPs in its header
  element_to_lp, \* ElementToLPMapping of lp_topology
  neighbour_lp   \* ElementToLPMapping of each element

vars == <<tree, criteria, done, types_below, lists, actuatorPaths, lowers,
          wan_down, lp_lines, numLP, element_to_lp, neighbour_lp>>

Elements == DOMAIN tree.upper
Kind(k)  == {e \in Elements : tree.kind[e] = k}
Nodes(t) == {e \in Kind(NODE) : tree.node_type[e] = t}
Devices  == Kind(SENSOR) \cup Kind(ACTUATOR)
Types(k) == {tree.device_type[d] : d \in Kind(k)}

Init ==
  /\ tree \in Trees
  /\ criteria \in Criteria
  /\ done = {}
  /\ types_below = <<>> /\ lists = <<>> /\ actuatorPaths = <<>>
  /\ lowers = <<>> /\ wan_down = <<>>
  /\ lp_lines = <<>> /\ numLP = 0
  /\ element_to_lp = <<>> /\ neighbour_lp = <<>>

\* The passes run in this order.
Pass(name, after) == after \subseteq done /\ name \notin done /\ done' = done \cup {name}

-----------------------------------------------------------------------------
(* upwardSearchActSensType: every device counts itself at each element on  *)
(* its way up.                                                             *)

AboveIn(t, e) ==
  LET up[x \in DOMAIN t.upper] ==
        IF t.upper[x] = None THEN {} ELSE {t.upper[x]} \cup up[t.upper[x]]
  IN  up[e]

Above(e) == AboveIn(tree, e)

\* Mutant: a device counts itself at the element directly above only.
MutCountsAt(d, n) == n = tree.upper[d]

CountsAt(d, n) == n \in Above(d)

CountTypes ==
  /\ Pass("types", {})
  /\ types_below' =
       [k \in {SENSOR, ACTUATOR} |-> [n \in Elements |-> [t \in Types(k) |->
          Cardinality({d \in Kind(k) : tree.device_type[d] = t /\ CountsAt(d, n)})]]]
  /\ UNCHANGED <<tree, criteria, lists, actuatorPaths, lowers, wan_down,
                 lp_lines, numLP, element_to_lp, neighbour_lp>>

-----------------------------------------------------------------------------
(* upwardSearchSubtreeFilling: every device puts itself into the first     *)
(* empty place of the list for its type at each element above it.          *)

EmptyPlaces(n) == [i \in 1 .. n |-> None]

\* The array after d took the first place that is empty (or its own).
PutFirst(d, array) ==
  LET fits == {i \in DOMAIN array : array[i] \in {None, d}}
  IN  IF fits = {} THEN array
      ELSE [array EXCEPT ![CHOOSE i \in fits : \A j \in fits : i <= j] = d]

\* The elements of S, in ascending order, put into an array of n places.
Places(S, n) ==
  LET fill[m \in 0 .. Cardinality(Elements)] ==
        IF m = 0 THEN EmptyPlaces(n)
        ELSE IF m - 1 \in S THEN PutFirst(m - 1, fill[m - 1]) ELSE fill[m - 1]
  IN  fill[Cardinality(Elements)]

\* The sequences that w assigns to the members of s, one after the other.
Joined(w, s) ==
  LET upto[i \in 0 .. Len(s)] == IF i = 0 THEN <<>> ELSE upto[i - 1] \o w[s[i]]
  IN  upto[Len(s)]

\* 0, 1, ... n - 1.
Numbers(n) == [i \in 1 .. n |-> i - 1]

LastType(k) == CHOOSE t \in Types(k) \cup {-1} : \A u \in Types(k) : u <= t

\* setListSensorsByType, setListActuatorsByType: the arrays of the types 0, 1, ...
\* one after the other.
Flattened(k, arrays) ==
  Joined([t \in 0 .. LastType(k) |-> IF t \in Types(k) THEN arrays[t] ELSE <<>>],
         Numbers(LastType(k) + 1))

FillLists ==
  /\ Pass("lists", {"types"})
  /\ lists' =
       [k \in {SENSOR, ACTUATOR} |-> [n \in Elements \ Devices |-> Flattened(k, [t \in Types(k) |->
          Places({d \in Kind(k) : tree.device_type[d] = t /\ n \in Above(d)},
                 types_below[k][n][t])])]]
  /\ UNCHANGED <<tree, criteria, types_below, actuatorPaths, lowers, wan_down,
                 lp_lines, numLP, element_to_lp, neighbour_lp>>

\* getListSensorsByType, getListActuatorsByType: the array from where type t begins;
\* the caller reads as many entries as there are devices of the type.
ListByType(k, n, t) ==
  LET start == SumFunctionOnSet(types_below[k][n], {u \in Types(k) : u < t})
  IN  SubSeq(lists[k][n], start + 1, start + types_below[k][n][t])

-----------------------------------------------------------------------------
(* upwardSearchActuatorPaths, and the idmap of each destination's row.     *)

\* Mutant: the destination itself is recorded.
MutNextHop(destination, a) ==
  LET climb[last \in Elements] ==
        IF tree.upper[last] \in {None, destination} THEN tree.upper[last]
        ELSE climb[tree.upper[last]]
  IN  climb[a]

\* The last element passed on the way up from actuator a to the destination.
NextHop(destination, a) ==
  LET climb[last \in Elements] ==
        IF tree.upper[last] = None THEN None
        ELSE IF tree.upper[last] = destination THEN last
        ELSE climb[tree.upper[last]]
  IN  climb[a]

Identity == [e \in Elements |-> e]

SearchActuatorPaths ==
  /\ Pass("paths", {"lists"})
  /\ actuatorPaths' =
       [n \in Elements |->
          CreateIdmap(Identity, [e \in Elements |-> IF e \in Kind(ACTUATOR)
                                                    THEN NextHop(n, e) ELSE None])]
  /\ UNCHANGED <<tree, criteria, types_below, lists, lowers, wan_down,
                 lp_lines, numLP, element_to_lp, neighbour_lp>>

-----------------------------------------------------------------------------
(* The elements directly below each element, in ascending order.           *)

Below(e) == {l \in Elements : tree.upper[l] = e}

\* WANsDownArray: the last WAN found.
WanDown(array) ==
  LET wans == {i \in DOMAIN array : tree.kind[array[i]] = WAN}
  IN  IF wans = {} THEN None ELSE array[CHOOSE i \in wans : \A j \in wans : i >= j]

CollectLowers ==
  /\ Pass("lowers", {"paths"})
  /\ lowers' = [e \in Elements |-> Places(Below(e), Cardinality(Below(e)))]
  /\ wan_down' = [n \in Kind(NODE) |-> WanDown(Places(Below(n), Cardinality(Below(n))))]
  /\ UNCHANGED <<tree, criteria, types_below, lists, actuatorPaths,
                 lp_lines, numLP, element_to_lp, neighbour_lp>>

-----------------------------------------------------------------------------
(* createLPtxt_by...: which elements share an LP.  A line says how many    *)
(* elements the LP has and lists them.                                     *)

\* auxWrite: an element and, one after the other, what is below it.
Subtree(e) ==
  LET write[x \in Elements] == <<x>> \o Joined(write, lowers[x])
  IN  write[e]

\* auxCreateLP.
SubtreeSize(e) ==
  LET size[x \in Elements] ==
        1 + SumFunction([i \in DOMAIN lowers[x] |-> size[lowers[x][i]]])
  IN  size[e]

Line(amount, elements) == [amount |-> amount, elements |-> elements]
SubtreeLine(e) == <<Line(SubtreeSize(e), Subtree(e))>>

\* A node and the WAN below it, taken to be the first of its lower elements.
NodeAndWan(n) == <<Line(2, <<n, lowers[n][1]>>)>>

\* The region that shares the central node's LP.
FirstRegion(c) == lowers[lowers[c][1]][1]

CentralLines(e) ==
  IF e \in Nodes(CENTRAL) THEN <<Line(Cardinality(Elements), Subtree(e))>> ELSE <<>>

\* Mutant: the region that was put into the central node's LP is not skipped.
MutRegionLines(e) ==
  IF e \in Nodes(CENTRAL)
  THEN <<Line(2 + SubtreeSize(FirstRegion(e)),
              <<e, lowers[e][1]>> \o Subtree(FirstRegion(e)))>>
  ELSE IF e \in Nodes(REGIONAL) THEN SubtreeLine(e) ELSE <<>>

RegionLines(e) ==
  IF e \in Nodes(CENTRAL)
  THEN <<Line(2 + SubtreeSize(FirstRegion(e)),
              <<e, lowers[e][1]>> \o Subtree(FirstRegion(e)))>>
  ELSE IF e \in Nodes(REGIONAL) /\ \A c \in Nodes(CENTRAL) : c < e => e # FirstRegion(c)
       THEN SubtreeLine(e)
       ELSE <<>>

LocalLines(e) ==
  IF e \in Nodes(LOCAL_NODE) THEN SubtreeLine(e)
  ELSE IF e \in Kind(NODE) THEN NodeAndWan(e)
  ELSE <<>>

LanLines(e) ==
  IF e \in Kind(LAN) THEN SubtreeLine(e)
  ELSE IF e \in Nodes(LOCAL_NODE) THEN <<Line(1, <<e>>)>>
  ELSE IF e \in Kind(NODE) THEN NodeAndWan(e)
  ELSE <<>>

LinesOf(e) ==
  CASE criteria = BY_CENTRAL -> CentralLines(e)
    [] criteria = BY_REGION  -> RegionLines(e)
    [] criteria = BY_LOCAL   -> LocalLines(e)
    [] criteria = BY_LAN     -> LanLines(e)

LpLines == Joined([e \in Elements |-> LinesOf(e)], Numbers(Cardinality(Elements)))

\* The number of LPs in the header, computed from the numbers of elements.
HeaderLps ==
  LET regionals == Cardinality(Nodes(REGIONAL))
      locals    == Cardinality(Nodes(LOCAL_NODE))
  IN  CASE criteria = BY_CENTRAL -> 1
        [] criteria = BY_REGION  -> regionals
        [] criteria = BY_LOCAL   -> regionals + 1 + locals
        [] criteria = BY_LAN     -> regionals + 1 + locals + Cardinality(Kind(LAN))

CreateLpFile ==
  /\ Pass("lp file", {"lowers"})
  /\ lp_lines' = LpLines
  /\ numLP' = HeaderLps
  /\ UNCHANGED <<tree, criteria, types_below, lists, actuatorPaths, lowers,
                 wan_down, element_to_lp, neighbour_lp>>

-----------------------------------------------------------------------------
(* getLPtopoogy reads the file back; getTopology then gives each element   *)
(* the LPs of its neighbours.                                              *)

\* The last line that lists the element; LPs are numbered from 0.
LpRead(e) ==
  LET listing == {l \in DOMAIN lp_lines : \E i \in DOMAIN lp_lines[l].elements : lp_lines[l].elements[i] = e}
  IN  (CHOOSE l \in listing : \A k \in listing : k <= l) - 1

ReadLpFile ==
  /\ Pass("lps", {"lp file"})
  /\ element_to_lp' = CreateIdmap(Identity, [e \in Elements |-> LpRead(e)])
  /\ UNCHANGED <<tree, criteria, types_below, lists, actuatorPaths, lowers,
                 wan_down, lp_lines, numLP, neighbour_lp>>

\* reachableSetElement: the upper element, if there is one, and the lowers.
Reachable(e) == IF tree.upper[e] = None THEN lowers[e] ELSE <<tree.upper[e]>> \o lowers[e]

FromZero(s) == [i \in 0 .. Len(s) - 1 |-> s[i + 1]]

NeighbourMap(e) ==
  LET ids == FromZero(Reachable(e))
  IN  CreateIdmap(ids, [i \in DOMAIN ids |-> IdmapSearch(element_to_lp, ids[i])])

MapNeighbours ==
  /\ Pass("neighbours", {"lps"})
  /\ neighbour_lp' = [e \in Elements |-> NeighbourMap(e)]
  /\ UNCHANGED <<tree, criteria, types_below, lists, actuatorPaths, lowers,
                 wan_down, lp_lines, numLP, element_to_lp>>

Returned == "neighbours" \in done /\ UNCHANGED vars

Next ==
  \/ CountTypes \/ FillLists \/ SearchActuatorPaths \/ CollectLowers
  \/ CreateLpFile \/ ReadLpFile \/ MapNeighbours \/ Returned

Spec == Init /\ [][Next]_vars

-----------------------------------------------------------------------------
(* The searches run upwards from the devices; the properties ask for what  *)
(* is seen downwards, along the lower elements.                            *)

\* The elements on and below e, found by going down.
Down(e) == {Subtree(e)[i] : i \in DOMAIN Subtree(e)}

\* The list of a type at an element names exactly the devices of the type in its
\* subtree, each once and without a gap: get_random_actuator indexes the list
\* with a number drawn below its recorded length (finish_functions.c:18-28).
ListsMatchSubtree ==
  {"lists", "lowers"} \subseteq done =>
    \A k \in {SENSOR, ACTUATOR}, n \in Elements \ Devices : \A t \in Types(k) :
      LET list == ListByType(k, n, t)
      IN  /\ {list[i] : i \in DOMAIN list} = {d \in Down(n) \cap Kind(k) : tree.device_type[d] = t}
          /\ \A i, j \in DOMAIN list : list[i] = list[j] => i = j

\* From every element, the next hop towards an actuator in its subtree is a lower
\* element on the way to it, and an actuator elsewhere has no next hop.  So a
\* COMMAND comes down along the tree and arrives.  Above the local nodes the hop
\* is the WAN with which the node shares an LP and which it knows as id_WAN_down.
PathsLeadDown ==
  {"paths", "lowers"} \subseteq done =>
    \A n \in Elements, a \in Kind(ACTUATOR) :
      LET hop == IdmapSearch(actuatorPaths[n], a)
      IN  IF a \in Down(n) \ {n}
          THEN /\ hop \in Below(n) /\ a \in Down(hop)
               /\ n \in Nodes(CENTRAL) \cup Nodes(REGIONAL) => hop = wan_down[n]
          ELSE hop = IDMAP_CONTENT_NOT_FOUND

\* Where the LP file lists an element.
Listings(e) ==
  UNION {{<<l, i>> : i \in {p \in DOMAIN lp_lines[l].elements : lp_lines[l].elements[p] = e}} :
         l \in DOMAIN lp_lines}

\* Every element is listed in one LP, once; the header and the lines count
\* right, so that nothing is read past the end of an array filled from them.
LpsPartition ==
  "lp file" \in done =>
    /\ Len(lp_lines) = numLP
    /\ \A l \in DOMAIN lp_lines : lp_lines[l].amount = Len(lp_lines[l].elements)
    /\ \A e \in Elements : Cardinality(Listings(e)) = 1

\* An element finds the LP of the element above and of each element below in its
\* own map: these are all the receivers that send_to_up_node, send_command and
\* the LAN and WAN handlers address (GET_LP_OF).
NeighboursKnown ==
  "neighbours" \in done =>
    \A e \in Elements : \A f \in Below(e) \cup ({tree.upper[e]} \ {None}) :
      LET lp == IdmapSearch(neighbour_lp[e], f)
      IN  /\ lp \in 0 .. numLP - 1
          /\ \E i \in DOMAIN lp_lines[lp + 1].elements : lp_lines[lp + 1].elements[i] = f

=============================================================================
