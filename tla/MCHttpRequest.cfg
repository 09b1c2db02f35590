\* Every request of MCHttpRequest.tla with every query encoding and every
\* cut of the header names, routed through the three routes.
CONSTANTS
  Methods = {1, 3}
  Paths <- MCPaths
  QueryLists <- MCQueryLists
  QueryBytes <- MCQueryBytes
  HeaderLists <- MCHeaderLists
  Bodies <- MCBodies
  Routes <- MCRoutes
  Handlers <- MCHandlers
  StatusCodes <- MCStatusCodes
  Rooms = {2, 3}
  TestChunk = 2
  SendResults = {"ok", "block", "fail", "nopacket"}
SPECIFICATION Spec
INVARIANT TypeOK HeadersAsSent QueryAsSent RoutedToMatch ResponseAsBuilt
