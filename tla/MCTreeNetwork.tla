--------------------------- MODULE MCTreeNetwork ---------------------------
(* Instances of TreeNetwork for TLC. *)
EXTENDS TreeNetwork

\* Two local nodes below one WAN, each with a LAN and an actuator.
ForkUpper == [e \in 0 .. 9 |-> CASE e < 5 -> e - 1 [] e = 5 -> 3 [] e = 6 -> 4
                                 [] e = 7 -> 5 [] e = 8 -> 6 [] e = 9 -> 7]
ForkKind  == [e \in 0 .. 9 |-> CASE e \in {0, 2, 4, 5} -> NODE [] e \in {1, 3} -> WAN
                                 [] e \in {6, 7} -> LAN [] e \in {8, 9} -> ACTUATOR]
\* The same with a sensor in place of the second actuator: a node with none below.
BareKind  == [ForkKind EXCEPT ![9] = SENSOR]
ForkType  == [n \in {0, 2, 4, 5} |-> CASE n = 0 -> CENTRAL [] n = 2 -> REGIONAL [] OTHER -> LOCAL_NODE]

OneEach  == [t \in {CENTRAL, REGIONAL, LOCAL_NODE} |-> 1]
TwoLocal == [t \in {CENTRAL, REGIONAL, LOCAL_NODE} |-> IF t = REGIONAL THEN 1 ELSE 2]

=============================================================================
