SPECIFICATION Spec
CONSTANTS
  NULL = NULL
  Addr = {n1, n2, n3}
  n1 = n1
  n2 = n2
  n3 = n3
  Periods = {1, 2, 3}
  Delays = {0, 1, 2}
  TimeoutIds = {1, 2}
  TailRemovals = FALSE
  OwnRemovals = FALSE
SYMMETRY AddrSymmetry
INVARIANTS
  TypeOK
  ListsAreChains
  NothingLost
  DueAreServed
  CalledInTime
