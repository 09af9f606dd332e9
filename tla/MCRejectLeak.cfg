SPECIFICATION Spec
CONSTANTS
  Requests = {r1, r2}
  Endpoints = {e1, e2}
  Groups = {{e1, e2}}
  MaxRetries = 1
  MaxAttempts = 3
  Retriable <- PolicyOutcomes
  BodyLimit = 0
  ReplayBuffer = 0
  MaxBody = 1
  AllowNonIdempotent = FALSE
  BodyFilters = FALSE
  Interims = FALSE
  ResponseRejects = TRUE
  Terminals = FALSE
SYMMETRY Symmetry
CHECK_DEADLOCK FALSE
INVARIANT LoadDrains
