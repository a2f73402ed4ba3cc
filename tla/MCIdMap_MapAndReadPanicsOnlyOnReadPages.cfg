CONSTANTS
  K = 2
  B = 2
  TableAddr = 8
  InitTrees <- MCInitTrees
  InitFree = 2
  AddFlagSets <- MCAddFlagSets
  ReadRequests <- MCReadRequests
  MaxCalls = 3
SPECIFICATION Spec
CHECK_DEADLOCK FALSE
PROPERTIES MapAndReadPanicsOnlyOnReadPages
