SPECIFICATION FairSpec
\* Every request may have been answered.
CHECK_DEADLOCK FALSE
CONSTANTS
  Requests = {r1, r2}
  r1 = r1
  r2 = r2
  Lengths = {1, 3}
  BUFFER_SIZE_MAX = 2
  MaxCon = 2
  MallocMayFail = TRUE
  FinMayFail = TRUE
  RouteMayFail = TRUE
INVARIANTS
  TypeOK
  FreedOnce
  NoHoles
  WholeUnlessCut
PROPERTIES
  EveryRequestAnswered
