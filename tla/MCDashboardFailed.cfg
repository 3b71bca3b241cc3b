\* As MCDashboard, one request: what the audit trail says of a lost answer.
SPECIFICATION Spec
CONSTANTS
  t1 = t1
  t2 = t2
  t3 = t3
  u1 = u1
  u2 = u2
  k1 = k1
  k2 = k2
  q1 = q1
  q2 = q2
  Turns = {t1, t2}
  Creates = {t2}
  Owners = {u1, u2}
  Nobody = Nobody
  owner <- AllU1
  Keys = {k1, k2}
  tenantKeys <- TenantKeys
  NoLoad = NoLoad
  Requests = {q1}
  MaxAttempts = 2
  Ttl = 1
  MaxPending = 1
  CacheTtl = 1
  MaxEntries = 1
  MaxEdits = 1
  MaxRestarts = 0
  MaxTime = 1
INVARIANT FailedMeansUnchanged
CHECK_DEADLOCK FALSE
