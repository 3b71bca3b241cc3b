\* Two calls of one key in flight, a third of another type made later.
SPECIFICATION Spec
CONSTANTS
  c1 = c1
  c2 = c2
  c3 = c3
  a1 = a1
  a2 = a2
  biz = biz
  insights = insights
  management = management
  Calls = {c1, c2, c3}
  account <- OneAccount
  type <- TwoOneTypes
  Read = {c1}
  Update = {c2}
  Create = {c3}
  CreatingPath = {c3}
  Accounts = {a1}
  NoAccount = NoAccount
  Types = {insights, management}
  Businesses = {biz}
  MsPerTick = 60000
  MaxRetries = 1
  Bodies = {"ok", "http_4xx"}
  GraphErrors <- SafetyErrors
  Headers <- Quiet
  GlobalInsightsHint = 1
  BlockHint = 2
  AbuseHint = 3
  Window = 1
  Threshold = 2
  Cooldown = 2
  BlockCooldown = 2
  AbuseCooldown = 3
  LastCall = 1
  MaxTime = 3
PROPERTY AbuseStopsAccount
CHECK_DEADLOCK FALSE
