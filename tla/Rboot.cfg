SPECIFICATION Spec
\* The boot loader stops when no rom is good.
CHECK_DEADLOCK FALSE
CONSTANTS
  Builds = {TRUE, FALSE}
  Modes = {"MODE_STANDARD", "MODE_GPIO_ROM"}
  ErasedByte = 4
  MaxCuts = 3
  NoRom = NoRom
INVARIANTS
  TypeOK
  NeverBricked
  RunningIsIntact
  CurrentIsRunning
PROPERTIES
  UserDataKept
  FindImageEnds
