\* Two writers and one tier: all writes together against the refill.
SPECIFICATION PacerSpec
CONSTANTS
  w1 = w1
  w2 = w2
  Writers = {w1, w2}
  Tiers = {"development_access"}
  Rate <- DevRate
  TopRate = 1
  Capacity <- DevCapacity
  Cost = 3
  LastTick = 8
  MaxGrants = 6
INVARIANT BurstWithinQuota
CHECK_DEADLOCK FALSE
