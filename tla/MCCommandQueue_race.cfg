\* Two producers calling execute_async at once: both can take the same free context.
CONSTANTS
  Producers = {p1, p2}
  Size = 1
  Delays = {1}
  Intervals = {1}
  Ids = {7}
  ClockMod = 2
  ClockStart = {0}
  ClockWraps = FALSE
  MaxCalls = 3
  StatusTypes = {"EventFlagStatus"}
  p1 = p1
  p2 = p2
SPECIFICATION Spec
INVARIANT OneShotRunsAtMostOnce
