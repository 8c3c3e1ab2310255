SPECIFICATION Spec
SYMMETRY Interchangeable
CONSTANTS
  u1 = u1
  u2 = u2
  l1 = l1
  l2 = l2
  q1 = q1
  q2 = q2
  s1 = s1
  Nobody = Nobody
  Users <- TwoUsers
  Logins <- TwoLogins
  Requests <- TwoRequests
  Sources <- OneSource
  MaxActive = 1
  MaxPerSource = 1
  MaxAttempts = 1
  MaxFaults = 1
INVARIANTS
  TypeOK
  SuperAdminRemains
  EditAppliedOnce
  AdmissionBounded
  FailuresCounted
PROPERTIES
  NoLostEdit
CHECK_DEADLOCK FALSE
