\* One core, FIFO, no preemption: a LAN direction, an actuator or the disk.
\* Measurement starts while jobs are inside.
SPECIFICATION FairSpec
CONSTANTS
  NumCores = 1
  Preemption = FALSE
  RoundRobin = FALSE
  TimeSlice = 2
  ServiceTimes <- MCServiceTimes
  ArrivingTypes <- MCReplyTypes
  TransitionTimeLimit = 3
  StartTime = 1
  StaleTimestamps <- MCNoStale
  MaxArrivals = 4
  MaxGap = 1
INVARIANTS
  CountersAgree
  CompletionsCoverArrivals
PROPERTIES
  ImplementsStation
  EveryJobLeaves
