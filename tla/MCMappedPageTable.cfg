CONSTANTS
  a2 = a2
  b2 = b2
  a1 = a1
  b1 = b1
  NoIdx = NoIdx
  P2Idx <- MCP2Idx
  P1Idx <- MCP1Idx
  HugeUnits = 4
  Frames4K = {13}
  Frames4M = {8}
  UsableFrames <- MCUsableFrames
  FlagSets <- MCFlagSets
  ParentFlagSets <- MCParentFlagSets
  JunkAddr = 20
  MaxNext = 3
SYMMETRY MCSymmetry
SPECIFICATION Spec
INVARIANTS TypeOK TableFramesExclusive NoStaleEntries
PROPERTIES ResultsAgreeWithTranslate
