SPECIFICATION Spec
CONSTANTS
  s1 = s1
  s2 = s2
  p1 = p1
  plain = plain
  linked = linked
  relinked = relinked
  NoPlan = NoPlan
  Sessions = {s1, s2}
  Proposals = {p1}
  Plans = {plain, linked, relinked}
  Linked = {linked, relinked}
  MaxAttempts = 2
  MaxVersions = 2
SYMMETRY Symmetry
INVARIANTS
  TypeOK
  OneInForce
  ApprovedPointsAtApproved
  ApprovedIsWhatItSays
PROPERTIES
  AppliedOnItsBase
  ImplementsHistory
