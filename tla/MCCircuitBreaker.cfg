SPECIFICATION CircuitsSpec
CONSTANTS
  Peers = {p1}
  Clients = {c1, c2, c3}
  Threshold = 2
  RecoveryWindow = 2
  HalfOpenTimeout = 1
  IdleThreshold = 1
  MaxClock = 4
  Callers = {r1, r2}
  Builds = 2
  Failures = 1
  Recovery = 1
  HalfOpen = 1
  MaxMoment = 1
  MaxLost = 1
  Jobs = {r1, r2}
  Modes = {"buffered", "neutral", "streaming", "url"}
  Dials = 2
  MaxConnections = 1
SYMMETRY ClientSymmetry
INVARIANTS
  TypeOK
  SlotsMatchTokens
  SingleProbe
  FilterSound
  HoldingsReturned
  VerdictFits
  NoResend
PROPERTIES
  WindowHonoured
  OutdatedOutcomesIgnored
