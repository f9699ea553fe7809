CONSTANTS
  FLASH_BEGIN = 2
  FLASH_END = 8
  SECTOR = 2
  EEPROM_SIZE = 2
  Bytes = {b, ff}
  Blank = ff
  Erased = erased
SPECIFICATION Spec
INVARIANTS TypeOK AppendsOnErased
PROPERTY CrashSafeUntilFull
