\* An exact route that sorts after a wildcard route covering it: the
\* wildcard handles its requests (ExactRouteWins is violated).
CONSTANTS
  Methods = {1, 3}
  Paths <- MCPaths
  QueryLists <- MCQueryLists
  QueryBytes <- MCQueryBytes
  HeaderLists <- MCHeaderLists
  Bodies <- MCBodies
  Routes <- MCRoutesShadow
  Handlers <- MCHandlers
  StatusCodes <- MCStatusCodes
  Rooms = {2, 3}
  TestChunk = 2
  SendResults = {"ok", "block", "fail", "nopacket"}
SPECIFICATION Spec
INVARIANT ExactRouteWins
