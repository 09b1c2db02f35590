\* A header with an empty value followed by another header: the second
\* name is appended to the first (HeadersAsSent is violated).
CONSTANTS
  Methods = {1, 3}
  Paths <- MCPaths
  QueryLists <- MCQueryLists
  QueryBytes <- MCQueryBytes
  HeaderLists <- MCHeaderListsEmpty
  Bodies <- MCBodies
  Routes <- MCRoutes
  Handlers <- MCHandlers
  StatusCodes <- MCStatusCodes
  Rooms = {2, 3}
  TestChunk = 2
  SendResults = {"ok", "block", "fail", "nopacket"}
SPECIFICATION Spec
INVARIANT HeadersAsSent
