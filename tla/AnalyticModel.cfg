\* The trees of up to two regions; the model is computed for those whose LPs were
\* formed by LAN.
SPECIFICATION ModelSpec
CONSTANTS
  Trees <- MCTrees
  Criteria <- MCCriteria
  ModelCriteria <- MCModelCriteria
  ProbOfActuators <- MCProbOfActuators
  SensorRates <- MCSensorRates
  RateTransition <- MCRateTransition
  ProbCommandResponse <- MCProbCommandResponse
  AggregationRate <- MCAggregationRate
  NumberOfCores <- MCNumberOfCores
  ServiceTimesNodes <- MCServiceTimesNodes
  ServiceTimeCommand <- MCServiceTimeCommand
  LansIn <- MCLansIn
  LansOut <- MCLansOut
  DiskServices <- MCDiskServices
INVARIANTS
  ListsMatchSubtree
  PathsLeadDown
  LpsPartition
  NeighboursKnown
  UpwardRates
  CommandsReachActuators
  ResultsConsistent
