SPECIFICATION Spec
SYMMETRY Interchangeable
CONSTANTS
  v1 = v1
  v2 = v2
  v3 = v3
  v4 = v4
  p1 = p1
  p2 = p2
  a1 = a1
  a2 = a2
  l1 = l1
  None = None
  Versions <- FourVersions
  First = v1
  Drafts <- TwoDrafts
  Patterns <- OnePattern
  Admins <- TwoAdmins
  Learners <- OneLearner
  MaxTime = 1
  MaxFaults = 2
INVARIANTS
  TypeOK
  OnePublished
PROPERTIES
  PublishedIsWhole
  RestoredAsFound
  HistoryKept
CHECK_DEADLOCK FALSE
