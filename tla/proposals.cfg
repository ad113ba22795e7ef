SPECIFICATION PlanSpec
CONSTANTS
  Aspects = {"trees", "lengths", "names", "casts", "children", "orders", "contents"}
  Stories <- SomeStories
  PlanRequests <- SomeRequests
INVARIANTS
  AssembledIsSound
  ShotsFitPolicy
  RecordedCanBeWritten
  AppliedKeepsOrder
  AppliedIsReady
CHECK_DEADLOCK FALSE
