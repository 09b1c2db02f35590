\* One producer thread and the worker, with either STATUS: IntStatus, as
\* in the unit tests, or EventFlagStatus, as in the HTTP server's queue
\* (http_server.h:119).  The clock stops at 2.
CONSTANTS
  Producers = {p1}
  Size = 2
  Delays = {2}
  Intervals = {1}
  Ids = {7}
  ClockMod = 3
  ClockStart = {0}
  ClockWraps = FALSE
  MaxCalls = 3
  StatusTypes = {"IntStatus", "EventFlagStatus"}
  p1 = p1
SPECIFICATION Spec
INVARIANT TypeOK RefCountMatches OneShotRunsAtMostOnce CancelHonoured
PROPERTY WaitedCommandHasRun AcceptedRuns WaiterReturns
