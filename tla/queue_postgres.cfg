SPECIFICATION Spec
CONSTANTS
  w1 = w1
  w2 = w2
  op = op
  Jobs <- OneJob
  Workers = {w1, w2}
  Operators = {op}
  OperatorTargets <- UserAndMonitor
  Mortal = {w1, w2}
  MaxAttempts = 2
  RecoveryLimit = 1
  RowLocks = TRUE
  MaxGrants = 3
SYMMETRY Symmetry
INVARIANTS
  TypeOK
  AttemptsCountGrants
  SubmittedWasPosted
PROPERTIES
  NotRequeuedAfterSubmit
  ImplementsReservation
CHECK_DEADLOCK FALSE
