\* A slot size (3 blocks) that is not a multiple of the page (2 blocks).
CONSTANTS
  SlotCount = 2
  FsEnd = 11
  DevBlocks = 11
  PageBlocks = 2
  Handles = {h1}
  SlotIdx = {0, 1}
  WriteSizes = {1}
  ReadSizes = {}
  AllocSizes = {}
  MaxCreates = 2
  MaxRev = 3
  MaxCrashes = 0
  MaxFaults = 0
  TornGarbage = FALSE
  ReadHandleWrites = FALSE
  DeinitOpen = FALSE
  Blank = Blank
  Corrupt = Corrupt
  h1 = h1
SPECIFICATION Spec
INVARIANT DurableContent
