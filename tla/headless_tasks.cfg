\* Two tasks with a worktree each under a limit of one; one of them is faulty.
CONSTANTS
  t1 = t1
  t2 = t2
  d1 = d1
  d2 = d2
  x = x
  y = y
  z = z
  Tasks = {t1, t2}
  Faulty = {t2}
  Worktrees = {d1, d2}
  Paths = {x, y, z}
  Tree <- Dedicated
  Limit <- Single
  Owned <- OwnsXY
SPECIFICATION FairSpec
INVARIANTS LedgerBoundsWorkers
PROPERTIES SlotIsReturned PassedIsVerified PatchesAllOrNothing
\* Every controller ends.
CHECK_DEADLOCK FALSE
