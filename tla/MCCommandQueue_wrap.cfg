\* The clock starts one step before its wrap: nowMs() + delay wraps past zero.
CONSTANTS
  Producers = {p1}
  Size = 2
  Delays = {2}
  Intervals = {1}
  Ids = {7}
  ClockMod = 3
  ClockStart = {1}
  ClockWraps = FALSE
  MaxCalls = 3
  StatusTypes = {"IntStatus"}
  p1 = p1
SPECIFICATION Spec
INVARIANT NotEarly
