\* The test driver's queues, a scheduler with bounded queues on both sides, the
\* schedulers of the stations, and every order of up to four queues.
SPECIFICATION FairSpec
CONSTANTS
  Configurations <- MCConfigurations
INVARIANTS
  TypeOK
  JobsAccounted
  OutputInOrder
  GivesOutStationChoice
PROPERTIES
  MostUrgentFirst
  EveryJobDelivered
