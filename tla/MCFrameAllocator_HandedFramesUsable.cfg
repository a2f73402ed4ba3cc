CONSTANTS
  BigUnits = 4
  MaxAddr = 10
  MaxRegions = 2
  MaxNext = 6
SPECIFICATION Spec
CHECK_DEADLOCK FALSE
INVARIANTS HandedFramesUsable
