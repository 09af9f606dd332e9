SPECIFICATION PipelinesSpec
CONSTANTS
  a = a
  b = b
  c = c
  d = d
  x = x
  y = y
  z = z
  w = w
  NoOne = NoOne
  Filters = {a, b, c, d, x, y, z, w}
  Main <- Path
  Branches <- Tree
  TypeName <- OwnTypes
  Conditioned = {c, y}
  ResponseConditioned = {a, y}
  FailOpen = {x}
  Publishers = {a, b, x}
  Selectors = {b, z}
  Addresses = {k1}
  BodyFilters = {a, d}
  BodyModes = {TRUE, FALSE}
  MaxDepth = 3
  MaxChunks = 1
  MaxInterim = 1
  Sessions = {s1, s2, s3}
  Upstreams = {u1}
  Routes = {x1}
  Chain <- RouteThenBalance
  FailsOpen = {3}
  Static = {}
  GlobalMax = 2
  ListenerMax = 2
  Swaps = 1
INVARIANT ResponsesMatch
INVARIANT BodyAfterRequest
PROPERTY TerminalFailsClosed
PROPERTY FiresOnOwnResult
PROPERTY RequestPhaseEnds
INVARIANT ConnectionsAccounted
PROPERTY ShutdownDrains
