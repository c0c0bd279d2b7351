SPECIFICATION Spec
CONSTANTS
  SECTOR_SIZE = 16
  Word = 4
  Begin = 32
  FlashSize = 144
  MaxLen = 16
  ImageLen = 80
  SlotSize = 80
INVARIANT ImageInFlash
