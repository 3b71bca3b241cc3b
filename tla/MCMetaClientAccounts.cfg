\* Two calls on two accounts, hints and usage headers: one account does not
\* delay the other, and every call comes to an end. The clock runs long enough
\* for the longest delay.
SPECIFICATION FairSpec
CONSTANTS
  c1 = c1
  c2 = c2
  c3 = c3
  a1 = a1
  a2 = a2
  biz = biz
  insights = insights
  management = management
  Calls = {c1, c2}
  account <- TwoAccounts
  type <- OneType2
  Read = {c1}
  Update = {c2}
  Create = {}
  CreatingPath = {}
  Accounts = {a1, a2}
  NoAccount = NoAccount
  Types = {insights, management}
  Businesses = {biz}
  MsPerTick = 60000
  MaxRetries = 1
  Bodies = {"ok"}
  GraphErrors <- HintErrors
  Headers <- BusinessUsage
  GlobalInsightsHint = 1
  BlockHint = 2
  AbuseHint = 3
  Window = 1
  Threshold = 2
  Cooldown = 2
  BlockCooldown = 2
  AbuseCooldown = 3
  LastCall = 1
  MaxTime = 3
PROPERTIES EveryCallSettles HintsStayInAccount
CHECK_DEADLOCK FALSE
