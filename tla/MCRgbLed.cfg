\* Two callers, three calls: set, set_from_hex, initialize and
\* set_update_interval interleaved with the worker thread's timed event.
CONSTANTS
  c1 = c1
  c2 = c2
  Patterns <- MCPatterns
  Colours <- MCColours
  Hexes <- MCHexes
  Callers <- MCCallers
  MaxCalls = 3
SPECIFICATION Spec
INVARIANT TypeOK
PROPERTY LedFollows
\* Without a registered timed event and with the calls made, nothing runs.
CHECK_DEADLOCK FALSE
