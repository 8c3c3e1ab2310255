SPECIFICATION Spec
CONSTANTS
  daily = daily
  t30 = t30
  w1 = w1
  w2 = w2
  p1 = p1
  None = None
  Tasks <- TwoTasks
  Analysis <- TwoTasks
  Dynamic <- JustT30
  Workers <- TwoWorkers
  Producers <- OneProducer
  NumSteps = 1
  MaxTaskAttempts = 2
  MaxStepAttempts = 2
  Lease = 1
  RetryDelay = 1
  ScanLimit = 2
  Schedules <- Times
  MaxTime = 2
  MaxCrashes = 1
  MaxRequests = 2
SYMMETRY WorkerSymmetry
INVARIANTS
  TypeOK
  RunningIffLeased
  SingleRunningAnalysis
PROPERTY LiveLeaseNotStolen
