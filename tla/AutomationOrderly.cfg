SPECIFICATION OrderlySpec
CONSTANTS
  daily = daily
  t30 = t30
  w1 = w1
  w2 = w2
  p1 = p1
  None = None
  Tasks <- JustDaily
  Analysis <- JustDaily
  Dynamic <- NoTasks
  Workers <- TwoWorkers
  Producers <- OneProducer
  NumSteps = 2
  MaxTaskAttempts = 2
  MaxStepAttempts = 2
  Lease = 1
  RetryDelay = 1
  ScanLimit = 2
  Schedules <- Times
  MaxTime = 3
  MaxCrashes = 2
  MaxRequests = 2
SYMMETRY WorkerSymmetry
INVARIANTS
  ExecutorHoldsLease
  CompletedTaskHasNoBrokenStep
  AttemptsBounded
PROPERTIES
  CompletedStepIsFinal
  CompletedTaskIsFinal
  ImplementsExclusiveTasks
