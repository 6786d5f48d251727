\* Two jobs per call and no output queue.
SPECIFICATION Spec
CONSTANTS
  Configurations <- TwoPerCall
INVARIANTS
  JobsAccounted
