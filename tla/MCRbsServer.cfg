\* Four pulses over two table ids, valid or not, a queue of 2, one reader
\* thread, suspend, start and stop.
CONSTANTS
  Tables = {1, 2}
  QueueCap = 2
  MaxPkts = 4
  Readers = {r1}
SPECIFICATION Spec
INVARIANT TypeOK ActiveTableComplete AdoptsLatestTable
PROPERTY PacketsReleased
