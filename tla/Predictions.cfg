SPECIFICATION Spec
SYMMETRY Interchangeable
CONSTANTS
  a1 = a1
  a2 = a2
  v1 = v1
  c1 = c1
  None = None
  Markets <- BothMarkets
  Lines <- TwoLines
  Scores <- TwoScores
  Predicted <- TwoOpinions
  Analyses <- TwoAnalyses
  Verifications <- OneVerification
  Corrections <- OneCorrection
  MaxResults = 2
INVARIANTS
  TypeOK
  RowExplainsItself
  SettlementByDistance
PROPERTY ManualKept
CHECK_DEADLOCK FALSE
