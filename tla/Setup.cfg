SPECIFICATION FairSpec
CONSTANTS
  NPrcTot = 4
  Elements <- MCElements
  LpElements <- MCLpElements
  TypeOf <- MCTypeOf
  Central <- MCCentral
  Sizes <- MCSizes
  ActTypes = 2
  SensTypes = 1
INVARIANTS
  EveryFieldItsOwn
  CompleteAtStart
PROPERTIES
  EveryLpSettled
