\* Device writes that report an error, slot numbers up to slot_count (the
\* range sfs_file_open accepts), one power loss that leaves the block being
\* written unreadable, sfs_file_allocate, and sfs_file_write on Read handles
\* (which it does not refuse); every call must return.
CONSTANTS
  SlotCount = 1
  FsEnd = 7
  DevBlocks = 7
  PageBlocks = 2
  Handles = {h1, h2}
  SlotIdx = {0, 1}
  WriteSizes = {2}
  ReadSizes = {}
  AllocSizes = {3}
  MaxCreates = 1
  MaxRev = 2
  MaxCrashes = 1
  MaxFaults = 1
  TornGarbage = TRUE
  ReadHandleWrites = TRUE
  DeinitOpen = FALSE
  Blank = Blank
  Corrupt = Corrupt
  h1 = h1
  h2 = h2
SPECIFICATION Spec
PROPERTY CallsReturn
