-------------------------- MODULE MCAnalyticModel --------------------------
(* The trees of MCTopology with round figures.                             *)
EXTENDS AnalyticModel, MCTopology, TLC

MCModelCriteria == {BY_LAN}

HALF == Q(1, 2)
Of(telemetry, transition, command, batch, reply) ==
  [TELEMETRY |-> telemetry, TRANSITION |-> transition, COMMAND |-> command,
   BATCH |-> batch, REPLY |-> reply]

MCProbOfActuators == (0 :> Q(1, 4)) @@ (1 :> Q(3, 4))
MCSensorRates == Of(Q(2, 1), Q(1, 1), Zero, Zero, Zero)
MCRateTransition == Q(3, 1)
MCProbCommandResponse == (CENTRAL :> HALF) @@ (REGIONAL :> Q(1, 4)) @@ (LOCAL_NODE :> HALF)
MCAggregationRate ==
  (CENTRAL    :> Of(Q(2, 1), One, One, Q(2, 1), One)) @@
  (REGIONAL   :> Of(Q(3, 1), One, One, One, One)) @@
  (LOCAL_NODE :> Of(Q(2, 1), One, One, Q(2, 1), One))
MCNumberOfCores == (CENTRAL :> 2) @@ (REGIONAL :> 1) @@ (LOCAL_NODE :> 2)
TENTH == Q(1, 10)
MCServiceTimesNodes ==
  [t \in {CENTRAL, REGIONAL, LOCAL_NODE} |-> Of(TENTH, TENTH, Q(1, 20), TENTH, Q(1, 20))]
MCServiceTimeCommand == TENTH
MCLansIn  == Of(Zero, Zero, TENTH, Zero, Zero)
MCLansOut == Of(Q(1, 20), Q(1, 20), Zero, Zero, Zero)
MCDiskServices == Of(TENTH, TENTH, Zero, TENTH, Zero)

=============================================================================
