SPECIFICATION Spec
CONSTANTS
  Upper <- ForkUpper
  Kind <- ForkKind
  NodeType <- ForkType
  TelemetryAggregation <- OneEach
  BatchAggregation <- TwoLocal
  NumActTypes = 1
  MaxTransitions = 2
  MaxTelemetry = 0
INVARIANTS
  SoundRouting
  OneReplyPerTransition
  CommandsConserved
