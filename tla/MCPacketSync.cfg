\* Stream 1 and two other streams (PacketT4 and PacketT5 behave as PacketT2),
\* timestamps 0..3 and six calls: enough for a stream with packets on both
\* sides of stream 1's, one only before or after, ties, and a clear.
CONSTANTS
  Streams = {1, 2, 3}
  Times = {0, 1, 2, 3}
  MaxCalls = 6
SPECIFICATION Spec
INVARIANT PopPicksClosest
\* A library object: once the caller stops calling, nothing runs; an
\* aborted process runs nothing either.
CHECK_DEADLOCK FALSE
