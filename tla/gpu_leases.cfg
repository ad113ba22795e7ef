SPECIFICATION FairSpec
CONSTANTS
  w1 = w1
  w2 = w2
  gpu0 = gpu0
  gpu1 = gpu1
  shared = shared
  other = other
  Workers = {w1, w2}
  Mortal = {w1}
  Resources = {gpu0, gpu1}
  Groups = {shared, other}
  MaxLeases = 2
INVARIANTS
  LeasesExclude
PROPERTIES
  ImplementsLease
  AbandonedLeaseEnds
CHECK_DEADLOCK FALSE
