SPECIFICATION Spec
CONSTANTS
  Proc = {p, q, r}
  Inodes = {i, j, k}
  None = none
  Forcing = {r}
  Crashing = {p}
  Reuse = FALSE
  StaleByTime = FALSE
CHECK_DEADLOCK FALSE
INVARIANTS MutualExclusion HolderOwnsFile
PROPERTIES StaleLockIsBroken
