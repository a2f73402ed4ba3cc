CONSTANTS
  Firmwares <- MCFirmwares
  EbdaLen = 64
  BiosStart = 224
  BiosEnd = 287
  RsdpSize = 20
  MaxCalls = 2
SPECIFICATION Spec
INVARIANTS SratFromSingleTable
PROPERTIES InitializedOnce
CHECK_DEADLOCK FALSE
