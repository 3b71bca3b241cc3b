\* Three identical analyses and a delivery, one slot and one place in the queue.
SPECIFICATION FairSpec
CONSTANTS
  c1 = c1
  c2 = c2
  c3 = c3
  d = d
  t1 = t1
  k1 = k1
  Calls = {c1, c2, c3, d}
  Deliveries = {d}
  Signals = {c1}
  Tenants = {t1}
  tenant <- OneTenant
  MaxConcurrent = 1
  MaxQueued = 1
  PerTenant = 3
  Hour = 1
  MaxTime = 1
  CacheKeys = {k1}
  cacheKey <- OneKey
  NoCall = NoCall
  AnalysesPerHour = 2
INVARIANTS TypeOK SlotsHeld NobodyWaitsInVain BilledWithinAllowance AllowanceNotLost InFlightIsPending UploadsDeleted
PROPERTY EveryCallSettles
\* Every call may be over.
CHECK_DEADLOCK FALSE
