SPECIFICATION Spec
CONSTANTS
  p1 = p1
  p2 = p2
  user = user
  Processes = {p1, p2}
  Users = {user}
  Mortal = {p1, p2}
  NumSteps = 2
  RepairBudget = 1
  Ladder = 1
  LeasesOutliveWork = TRUE
  MaxClaims = 3
SYMMETRY Symmetry
INVARIANTS
  RunIsConsistent
PROPERTIES
  HolderPublishes
  EndedStaysEnded
CHECK_DEADLOCK FALSE
