\* Reproduction: a calculate_synced_time caller that loaded the active
\* pointer before two table changes reads m and t of different tables.
CONSTANTS
  Tables = {1, 2}
  QueueCap = 2
  MaxPkts = 3
  Readers = {r1}
SPECIFICATION Spec
INVARIANT ReaderConsistent
