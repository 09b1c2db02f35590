\* sfs_file_open with slot == slot_count, which it accepts.
CONSTANTS
  SlotCount = 1
  FsEnd = 7
  DevBlocks = 9
  PageBlocks = 2
  Handles = {h1}
  SlotIdx = {0, 1}
  WriteSizes = {1, 2}
  ReadSizes = {}
  AllocSizes = {}
  MaxCreates = 2
  MaxRev = 3
  MaxCrashes = 0
  MaxFaults = 0
  TornGarbage = FALSE
  ReadHandleWrites = FALSE
  DeinitOpen = FALSE
  Blank = Blank
  Corrupt = Corrupt
  h1 = h1
SPECIFICATION Spec
INVARIANT DurableContent
