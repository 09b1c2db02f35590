\* One producer, EventFlagStatus: execute_async(f, true) returns on the 2000 ms timeout.
CONSTANTS
  Producers = {p1}
  Size = 2
  Delays = {2}
  Intervals = {1}
  Ids = {7}
  ClockMod = 3
  ClockStart = {0}
  ClockWraps = FALSE
  MaxCalls = 3
  StatusTypes = {"EventFlagStatus"}
  p1 = p1
SPECIFICATION Spec
PROPERTY WaitedCommandHasRunAny
