SPECIFICATION Spec
CONSTANTS
  Requests = {r1}
  Endpoints = {e1, e2, e3}
  Groups = {{e1, e2}, {e1, e2, e3}}
  MaxRetries = 2
  MaxAttempts = 4
  Retriable <- PolicyOutcomes
  BodyLimit = 1
  ReplayBuffer = 1
  MaxBody = 2
  AllowNonIdempotent = FALSE
  BodyFilters = TRUE
  Interims = TRUE
  ResponseRejects = TRUE
  Terminals = TRUE
SYMMETRY Symmetry
CHECK_DEADLOCK FALSE
INVARIANT ObservedWasDialed
PROPERTY ReplaySafe
PROPERTY AlternateFirst
