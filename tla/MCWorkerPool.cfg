SPECIFICATION Spec
CONSTANTS
  Threads <- MCThreads
  ConfiguredLimit = 3
  MaxJobs = 4
  Parallelism = 4
  MaxWorkers = 2
INVARIANTS
  TypeOK
  Conservation
  NoLostWakeup
PROPERTIES
  SleepersWoken
  WaitersServed
