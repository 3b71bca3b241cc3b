\* A creation on a path the client does not know to create, such as
\* /{comment}/comments: it belongs to no account.
SPECIFICATION Spec
CONSTANTS
  c1 = c1
  c2 = c2
  c3 = c3
  a1 = a1
  a2 = a2
  biz = biz
  insights = insights
  management = management
  Calls = {c1}
  account <- NoAccount1
  type <- OneType1
  Read = {}
  Update = {}
  Create = {c1}
  CreatingPath = {}
  Accounts = {a1}
  NoAccount = NoAccount
  Types = {management}
  Businesses = {biz}
  MsPerTick = 60000
  MaxRetries = 1
  Bodies = {"ok", "http_4xx"}
  GraphErrors <- SafetyErrors
  Headers <- Quiet
  GlobalInsightsHint = 1
  BlockHint = 2
  AbuseHint = 3
  Window = 1
  Threshold = 2
  Cooldown = 2
  BlockCooldown = 2
  AbuseCooldown = 3
  LastCall = 1
  MaxTime = 3
INVARIANT CreationsNotResent
CHECK_DEADLOCK FALSE
