----------------------------- MODULE MCTopology -----------------------------
(* Trees as utils/generator/generator.py numbers them: the central node,   *)
(* the regional and the local nodes, the devices, the WANs, the LANs.      *)
EXTENDS Topology

NumRegions == 1 .. 2

\* Regions r, locals l, LANs a, devices d, and the parent of each local, LAN and
\* device; what the devices are, and two types of actuator.
Build(r, l, a, d, ofLocal, ofLan, ofDevice, device) ==
  LET local(i)  == r + i
      dev(i)    == r + l + i
      wan(i)    == r + l + d + 1 + i     \* 0: below the central node
      lan(i)    == r + l + d + r + 1 + i
      ids       == 0 .. lan(a)
      Is(f(_), n, e) == \E i \in 1 .. n : e = f(i)
      Of(f(_), n, e) == CHOOSE i \in 1 .. n : e = f(i)
  IN  [upper |-> [e \in ids |->
         CASE e = 0 -> None
           [] e \in 1 .. r -> wan(0)
           [] Is(local, l, e) -> wan(ofLocal[Of(local, l, e)])
           [] Is(dev, d, e) -> lan(ofDevice[Of(dev, d, e)])
           [] e \in wan(0) .. wan(r) -> e - wan(0)
           [] Is(lan, a, e) -> local(ofLan[Of(lan, a, e)])],
       kind |-> [e \in ids |->
         CASE e <= r + l -> NODE
           [] Is(dev, d, e) -> device[Of(dev, d, e)][1]
           [] e \in wan(0) .. wan(r) -> WAN
           [] Is(lan, a, e) -> LAN],
       node_type |-> [e \in 0 .. r + l |->
         CASE e = 0 -> CENTRAL [] e \in 1 .. r -> REGIONAL [] OTHER -> LOCAL_NODE],
       device_type |-> [e \in {dev(i) : i \in 1 .. d} |-> device[Of(dev, d, e)][2]]]

DeviceKinds == {<<SENSOR, 0>>, <<ACTUATOR, 0>>, <<ACTUATOR, 1>>}

MCTrees ==
  UNION {{Build(r, 2, 2, d, l, a, v, k) :
            l \in [1 .. 2 -> 1 .. r], a \in [1 .. 2 -> 1 .. 2],
            v \in [1 .. d -> 1 .. 2], k \in [1 .. d -> DeviceKinds]} :
         r \in NumRegions, d \in 1 .. 2}

MCCriteria == {BY_CENTRAL, BY_REGION, BY_LOCAL, BY_LAN}

=============================================================================
