\* A write after sfs_file_write returned Error_Write.
CONSTANTS
  SlotCount = 1
  FsEnd = 7
  DevBlocks = 7
  PageBlocks = 2
  Handles = {h1}
  SlotIdx = {0}
  WriteSizes = {1, 2}
  ReadSizes = {}
  AllocSizes = {}
  MaxCreates = 2
  MaxRev = 3
  MaxCrashes = 0
  MaxFaults = 1
  TornGarbage = FALSE
  ReadHandleWrites = FALSE
  DeinitOpen = FALSE
  Blank = Blank
  Corrupt = Corrupt
  h1 = h1
SPECIFICATION Spec
INVARIANT DurableContent
