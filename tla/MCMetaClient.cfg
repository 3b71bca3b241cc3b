\* Three calls of one (account, type), one of each kind, and every kind of
\* answer, one of them an abuse signal under a transient code. One retry; the
\* constants keep the order hint < block < abuse of the code.
SPECIFICATION Spec
CONSTANTS
  c1 = c1
  c2 = c2
  c3 = c3
  a1 = a1
  a2 = a2
  biz = biz
  insights = insights
  management = management
  Calls = {c1, c2, c3}
  account <- OneAccount
  type <- OneType
  Read = {c1}
  Update = {c2}
  Create = {c3}
  CreatingPath = {c3}
  Accounts = {a1}
  NoAccount = NoAccount
  Types = {insights}
  Businesses = {biz}
  MsPerTick = 60000
  MaxRetries = 1
  Bodies = {"ok", "http_4xx"}
  GraphErrors <- SafetyErrors
  Headers <- Quiet
  GlobalInsightsHint = 1
  BlockHint = 2
  AbuseHint = 3
  Window = 1
  Threshold = 2
  Cooldown = 2
  BlockCooldown = 2
  AbuseCooldown = 3
  LastCall = 1
  MaxTime = 3
INVARIANTS TypeOK SentAtMostOnce StopBindsNewCalls ThrottleNeverRetried
\* Every call may have ended and the clock stops at its bound.
CHECK_DEADLOCK FALSE
