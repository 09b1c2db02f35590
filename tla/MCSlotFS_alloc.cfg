\* sfs_file_allocate after data was written but not yet flushed.
CONSTANTS
  SlotCount = 1
  FsEnd = 7
  DevBlocks = 7
  PageBlocks = 2
  Handles = {h1}
  SlotIdx = {0}
  WriteSizes = {1}
  ReadSizes = {}
  AllocSizes = {2}
  MaxCreates = 2
  MaxRev = 3
  MaxCrashes = 0
  MaxFaults = 0
  TornGarbage = FALSE
  ReadHandleWrites = FALSE
  DeinitOpen = FALSE
  Blank = Blank
  Corrupt = Corrupt
  h1 = h1
SPECIFICATION Spec
INVARIANT DurableContent
