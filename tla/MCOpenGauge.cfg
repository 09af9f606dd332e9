SPECIFICATION FilterSpec
CONSTANTS
  Callers = {t1, t2}
  Builds = 2
  Failures = 1
  Recovery = 1
  HalfOpen = 1
  MaxMoment = 1
  MaxLost = 1
CHECK_DEADLOCK FALSE
INVARIANT NoStaleSeries
