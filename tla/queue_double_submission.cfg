SPECIFICATION Spec
CONSTANTS
  w1 = w1
  w2 = w2
  op = op
  Jobs <- OneJob
  Workers = {w1, w2}
  Operators = {}
  OperatorTargets <- UserAndMonitor
  Mortal = {}
  MaxAttempts = 2
  RecoveryLimit = 1
  RowLocks = TRUE
  MaxGrants = 3
INVARIANT
  NoDoubleSubmission
CHECK_DEADLOCK FALSE
