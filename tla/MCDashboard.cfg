\* Turns of one user, updates and a creation, on two keys of a cache that holds
\* one; requests of the owner or of another user; an update is sent twice at
\* most. A proposal made at time 0 has lapsed at time 1, and a read cached at 0
\* has expired. With two turns there are two requests, one edit by others and one
\* restart; with three, one turn's write lands while another turn's read is in
\* flight and a third begins after it.
SPECIFICATION ScopedSpec
CONSTANTS
  t1 = t1
  t2 = t2
  t3 = t3
  u1 = u1
  u2 = u2
  k1 = k1
  k2 = k2
  q1 = q1
  q2 = q2
  Turns = {t1, t2, t3}
  Creates = {t2}
  Owners = {u1, u2}
  Nobody = Nobody
  owner <- AllU1
  Keys = {k1, k2}
  tenantKeys <- TenantKeys
  NoLoad = NoLoad
  Requests = {q1, q2}
  MaxAttempts = 2
  Ttl = 1
  MaxPending = 1
  CacheTtl = 1
  MaxEntries = 1
  MaxEdits = 1
  MaxRestarts = 1
  MaxTime = 1
SYMMETRY Symmetry
INVARIANTS TypeOK NothingOverwrittenUnseen ReadYourWrites FailuresNotCached
PROPERTY KeepsPromise
\* Every turn and request may be over and the clock stops at its bound.
CHECK_DEADLOCK FALSE
