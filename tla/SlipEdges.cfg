CONSTANTS
  Depth = 2
  MaxSlips = 3
  MaxRuns = 3
SPECIFICATION Spec
INVARIANTS
  TypeOK
  ReportedInOrder
  MissedForCause
PROPERTY HeldSlipIsReported
CHECK_DEADLOCK FALSE
