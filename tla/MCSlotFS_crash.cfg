\* Power loss with block-atomic writes, no device errors.
CONSTANTS
  SlotCount = 1
  FsEnd = 7
  DevBlocks = 7
  PageBlocks = 2
  Handles = {h1, h2}
  SlotIdx = {0}
  WriteSizes = {1, 2}
  ReadSizes = {1, 2}
  AllocSizes = {}
  MaxCreates = 2
  MaxRev = 3
  MaxCrashes = 1
  MaxFaults = 0
  TornGarbage = FALSE
  ReadHandleWrites = FALSE
  DeinitOpen = FALSE
  Blank = Blank
  Corrupt = Corrupt
  h1 = h1
  h2 = h2
SPECIFICATION Spec
INVARIANT TypeOK DurableContent ReadReturnsWrittenData AckedDurable SingleWriter
SYMMETRY HandleSym
