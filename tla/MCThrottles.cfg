\* The breaker: one key; a hint of 0 and one shorter than every cool-down; three
\* throttles open, and five can be recorded, so that a count is forgotten and
\* restarted. The constants keep the order of the code's minutes
\* (hint 2 < window 5 < cool-down 15 < block 30 < abuse 60).
\* The pacer: two writers, both tiers. A write costs 3 units, so a bucket holds a
\* fraction of a token and a wait is rounded up at the faster rate.
SPECIFICATION ThrottlesSpec
CONSTANTS
  k1 = k1
  Keys = {k1}
  Hints = {0, 1}
  Window = 2
  Threshold = 3
  Cooldown = 3
  BlockCooldown = 4
  AbuseCooldown = 5
  MaxTime = 8
  MaxThrottles = 5
  w1 = w1
  w2 = w2
  Writers = {w1, w2}
  Tiers = {"development_access", "standard_access"}
  Rate <- MCRate
  TopRate = 2
  Capacity <- MCCapacity
  Cost = 3
  LastTick = 8
  MaxGrants = 6
SYMMETRY Symmetry
INVARIANTS TypeOK OwedStopHonoured RepeatedThrottlesStop OpenHasCause WriterWithinQuota
\* The clocks stop at their bounds.
CHECK_DEADLOCK FALSE
