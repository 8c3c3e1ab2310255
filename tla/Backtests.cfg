SPECIFICATION Spec
SYMMETRY Interchangeable
CONSTANTS
  j1 = j1
  j2 = j2
  r1 = r1
  r2 = r2
  p1 = p1
  p2 = p2
  c1 = c1
  c2 = c2
  x1 = x1
  NoRun = NoRun
  NoProcess = NoProcess
  Jobs <- TwoJobs
  Runs <- TwoRuns
  Processes <- TwoProcesses
  Callers <- OneCaller
  Resumers <- OneResumer
  Dates = 1
  MaxConcurrent = 1
  MaxFaults = 1
INVARIANTS
  TypeOK
  SlotsBounded
  RowFollowsHolder
  NoDaySkipped
  CancellationHonoured
PROPERTIES
  EndedStays
CHECK_DEADLOCK FALSE
