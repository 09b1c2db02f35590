\* One writer sending an 8-byte file in chunks of 0 to 3 bytes through a 3-byte buffer; one reader, with and without timeouts.
CONSTANTS
  N = 3
  Sizes = {0, 1, 2, 3}
  Marks = {1, 2}
  FileSize = 8
  Timeouts = {FALSE, TRUE}
SPECIFICATION Spec
INVARIANT TypeOK WriteCheckStillValid HandedOutValid
PROPERTY ImplementsByteStream ResponseCompletes
