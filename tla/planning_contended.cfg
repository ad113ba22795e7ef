SPECIFICATION FairSpec
CONSTANTS
  p1 = p1
  p2 = p2
  user = user
  Processes = {p1, p2}
  Users = {}
  Mortal = {}
  NumSteps = 1
  RepairBudget = 2
  Ladder = 1
  LeasesOutliveWork = FALSE
  MaxClaims = 2
INVARIANTS
  AttemptsBounded
PROPERTIES
  ScheduledRunEnds
CHECK_DEADLOCK FALSE
