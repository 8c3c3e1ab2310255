SPECIFICATION FairSpec
CONSTANTS
  daily = daily
  t30 = t30
  w1 = w1
  w2 = w2
  p1 = p1
  None = None
  Tasks <- JustDaily
  Analysis <- JustDaily
  Dynamic <- NoTasks
  Workers <- TwoWorkers
  Producers <- OneProducer
  NumSteps = 1
  MaxTaskAttempts = 2
  MaxStepAttempts = 2
  Lease = 0
  RetryDelay = 1
  ScanLimit = 2
  Schedules <- Times
  MaxTime = 12
  MaxCrashes = 1
  MaxRequests = 1
PROPERTY EveryTaskSettles
