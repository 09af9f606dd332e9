SPECIFICATION Spec
CONSTANTS
  Races = {r1, r2}
  Endpoints = {e1, e2}
  Primaries = {e1}
  InitialRequests = 2
  MaxAttempts = 3
  Bps = 5000
  UnpolledAborts = TRUE
  NoOne = NoOne
INVARIANT SlotsExact
