SPECIFICATION Spec
CONSTANTS
  ShortMax = 1
  LongMin = 2
  None = None
  Flags <- MCFlags
  Messages <- MCMessages
INVARIANTS
  TypeOK
  SettledIsSaved
PROPERTIES
  NothingInvented
  WarmBootKeepsStatus
  PressesAreReal
