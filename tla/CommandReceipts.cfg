SPECIFICATION FairSpec
CONSTANTS
  k1 = k1
  k2 = k2
  pay1 = pay1
  pay2 = pay2
  r1 = r1
  r2 = r2
  c1 = c1
  NoPayload = NoPayload
  Keys <- TwoKeys
  Payloads <- TwoPayloads
  Requests <- TwoRequests
  Reconcilers <- OneReconciler
  ScanLimit = 2
  MaxFaults = 2
INVARIANTS
  TypeOK
  EffectAtMostOnce
  AuditTrail
  FailedHasNoEffect
  ConfirmedWasDone
PROPERTIES
  ReceiptMovesForward
  RecordedEffectCompletes
CHECK_DEADLOCK FALSE
