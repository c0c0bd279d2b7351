SPECIFICATION Spec
CONSTANTS
  NULL = NULL
  Addr = {n1, n2, n3}
  n1 = n1
  n2 = n2
  n3 = n3
  Periods = {1, 2, 3}
  Delays = {1}
  TimeoutIds = {}
  TailRemovals = TRUE
  OwnRemovals = FALSE
INVARIANT NothingLost
