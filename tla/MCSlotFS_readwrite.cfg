\* sfs_file_write called on a Read handle.
CONSTANTS
  SlotCount = 1
  FsEnd = 7
  DevBlocks = 7
  PageBlocks = 2
  Handles = {h1, h2}
  SlotIdx = {0}
  WriteSizes = {2}
  ReadSizes = {2}
  AllocSizes = {}
  MaxCreates = 1
  MaxRev = 3
  MaxCrashes = 0
  MaxFaults = 0
  TornGarbage = FALSE
  ReadHandleWrites = TRUE
  DeinitOpen = FALSE
  Blank = Blank
  Corrupt = Corrupt
  h1 = h1
  h2 = h2
SPECIFICATION Spec
PROPERTY ReadHandleNeverWrites
SYMMETRY HandleSym
