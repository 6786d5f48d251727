\* setup_independent with one LP more than the topology needs.
SPECIFICATION FairSpec
CONSTANTS
  central = central
  lan = lan
  actuator = actuator
  sensor = sensor
  NPrcTot = 3
  NumLP = 2
  Elements <- MCElements
  LpOf <- MCLpOf
  TypeOf <- MCTypeOf
  IdShift <- MCIdShift
  SetupIndependent = TRUE
  NextUpdateTimestamp = 6
  ShiftEvent = 1
  TransitionTimeLimit = 8
  MaxSimulationTime = 14
  TsDisableUnusedLp = 1
  TsStartSimulation = 2
INVARIANTS
  UnusedLpStaysDisabled
