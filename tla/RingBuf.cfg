SPECIFICATION Spec
CONSTANTS
  Size = 4
  Byte = {0, 1, 2}
INVARIANTS
  TypeOK
  PointersAgree
PROPERTIES
  ImplementsFifo
