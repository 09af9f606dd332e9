SPECIFICATION StoresSpec
CONSTANTS
  Threads = {t1, t2, t3}
  Retriers = {t1, t2}
  Rate = 2
  Percent = 100
  Second = 3
  MaxClock = 4
  Keys = {k1, k2, k3}
  StoreThreads = {t1, t2}
  MaxEntries = 1
  Lru = TRUE
  Chances = 1
  MaxGeneration = 5
  Clients = {c1, c2, c3}
  Observed = c1
  LimitThreads = {t1, t2}
  Burst = 1
  SoftCap = 0
  HardCap = 1
  EvictionInterval = 2
  MaxInstant = 3
  FdRequests = {k1, k2, k3}
  Samplers = {t1, t2}
  Cost = 2
  Base = 1
  Threshold = 5
SYMMETRY Symmetry
INVARIANT StoresTypeOK
INVARIANT BudgetExact
INVARIANT EveryEntryEvictable
INVARIANT StoreBounded
INVARIANT LimiterSound
INVARIANT NeverOvercommitted
PROPERTY RefreshedSurvives
