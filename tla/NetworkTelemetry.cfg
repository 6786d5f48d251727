SPECIFICATION FairSpec
CONSTANTS
  Upper <- ForkUpper
  Kind <- BareKind
  NodeType <- ForkType
  TelemetryAggregation <- TwoLocal
  BatchAggregation <- OneEach
  NumActTypes = 1
  MaxTransitions = 1
  MaxTelemetry = 4
INVARIANTS
  TelemetryConserved
PROPERTIES
  Settles
