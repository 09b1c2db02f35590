\* Power loss that leaves the block being written unreadable; sfs_file_allocate; sfs_file_write on Read handles, which the code does not reject.
CONSTANTS
  SlotCount = 1
  FsEnd = 7
  DevBlocks = 7
  PageBlocks = 2
  Handles = {h1, h2}
  SlotIdx = {0}
  WriteSizes = {2}
  ReadSizes = {}
  AllocSizes = {3}
  MaxCreates = 1
  MaxRev = 2
  MaxCrashes = 1
  MaxFaults = 0
  TornGarbage = TRUE
  ReadHandleWrites = TRUE
  DeinitOpen = FALSE
  Blank = Blank
  Corrupt = Corrupt
  h1 = h1
  h2 = h2
SPECIFICATION Spec
INVARIANT AckedDurable
SYMMETRY HandleSym
