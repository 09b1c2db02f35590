\* sfs_deinit and sfs_init again while handles are open.
CONSTANTS
  SlotCount = 1
  FsEnd = 7
  DevBlocks = 7
  PageBlocks = 2
  Handles = {h1, h2}
  SlotIdx = {0}
  WriteSizes = {1, 2}
  ReadSizes = {}
  AllocSizes = {}
  MaxCreates = 2
  MaxRev = 3
  MaxCrashes = 0
  MaxFaults = 0
  TornGarbage = FALSE
  ReadHandleWrites = FALSE
  DeinitOpen = TRUE
  Blank = Blank
  Corrupt = Corrupt
  h1 = h1
SPECIFICATION Spec
INVARIANT SingleWriter
SYMMETRY HandleSym
