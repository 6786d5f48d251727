\* A two-core node under round robin with preemption.  As in the program it starts
\* before the transient ends: jobs enter during it and after it.
SPECIFICATION FairSpec
CONSTANTS
  NumCores = 2
  Preemption = TRUE
  RoundRobin = TRUE
  TimeSlice = 2
  ServiceTimes <- MCServiceTimes
  ArrivingTypes <- MCReplyTypes
  TransitionTimeLimit = 2
  StartTime = 1
  StaleTimestamps <- MCStale
  MaxArrivals = 4
  MaxGap = 1
INVARIANTS
  TypeOK
  WorkConserving
  OneFinishPerBusyCore
  FairShare
PROPERTIES
  OperationalLaws
  RoundRobinProgress
