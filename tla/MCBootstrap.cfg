CONSTANTS
  K = 8
  NG = 2
  NTables = 2
  MemoryMaps <- MCMemoryMaps
  StackGuard = 4
  TrampStart = 1
  TrampEnd = 2
  OneMeg = 5
  Vga = 3
  TableAddr = 200
  JunkAddr = 300
SPECIFICATION Spec
INVARIANT BootstrapIdentity
CHECK_DEADLOCK FALSE
