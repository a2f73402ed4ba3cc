CONSTANTS
  BigUnits = 4
  MaxAddr = 10
  MaxRegions = 2
  MaxNext = 6
SPECIFICATION Spec4KiB
CHECK_DEADLOCK FALSE
PROPERTY AllocatorRefinesSource
