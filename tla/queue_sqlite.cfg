SPECIFICATION FairSpec
CONSTANTS
  w1 = w1
  w2 = w2
  op = op
  Jobs <- OneJob
  Workers = {w1, w2}
  Operators = {}
  OperatorTargets <- EveryTarget
  Mortal = {w1}
  MaxAttempts = 2
  RecoveryLimit = 1
  RowLocks = FALSE
  MaxGrants = 7
INVARIANTS
  PromptsWithinGrants
PROPERTIES
  DeadReservationEnds
CHECK_DEADLOCK FALSE
