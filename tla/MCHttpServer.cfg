\* Two sockets, two connections (so a socket can be reused), a command queue
\* of two contexts (so closures are dropped), two-packet and bad requests,
\* empty and two-unit payloads, a one-unit header, two-unit packets, and
\* one failed allocation or blocked send.
CONSTANTS
  Sockets = {s1, s2}
  Cap = 2
  Shapes <- MCShapesTwo
  PayloadSizes = {0, 2}
  HdrLen = 1
  Room = 2
  MaxConns = 2
  MaxStalls = 1
SPECIFICATION Spec
INVARIANT TypeOK EntriesMatchSockets DeliveredMatchesCommitted
PROPERTY ClientServed
CHECK_DEADLOCK FALSE
