\* The components that share no state, side by side.
CONSTANTS
  r1 = r1 r2 = r2 r3 = r3 n1 = n1 n2 = n2 l1 = l1 l2 = l2 l3 = l3
  d1 = d1 d2 = d2 idA = idA idB = idB
  \* CloneBundle: two calls alike and one that differs, a source of two ads.
  Runs = {r1, r2, r3}
  NoRun = NoRun
  payload <- ClonePayload
  Ads = 2
  Overridden = {1}
  Stale = 1
  MaxCloneTime = 2
  \* OAuth: one grant, four requests.
  Codes = {c1}
  Calls = {q1, q2, q3, q4}
  NoRight = NoRight
  CodeTtl = 1
  RefreshTtl = 2
  MaxOAuthTime = 3
  \* MetaTokens: three operations on two tokens.
  Ops = {o1, o2, o3}
  Names = {n1, n2}
  personal <- PersonalToken
  NoName = NoName
  \* DatasetLookup: two lookups on one dataset and one on another, room for one.
  Lookups = {l1, l2, l3}
  NoLookup = NoLookup
  Datasets = {d1, d2}
  dataset <- LookupDataset
  Ids = {idA, idB}
  target <- LookupTarget
  NoId = NoId
  Contents <- DatasetContents
  PageSize = 1
  MaxItems = 2
  MaxDatasets = 1
  MaxTotalIds = 2
  MaxRestarts = 0
  MaxChanges = 1
  \* AgentTurn
  Reads = {k1, k2}
  MaxUses = 3
  MaxSteps = 3
  MaxToolCalls = 3
  MaxResultBytes = 1
  MaxTotalBytes = 2
  \* BulkAds
  Verdicts = {t1, t2}
  Videos = 3
  \* UrlTags: two calls; of three creatives one carries the tags.
  TaggedAds = {a1, a2, a3}
  Sources = {s1, s2, s3}
  equal = {s3}
  unfit = {s2}
  NoCreative = NoCreative
  Rounds = 2
  \* McpTools
  MaxTries = 2
  MaxSends = 2
  \* DecisionEngine
  Objects = {1, 2, 3}
  Metrics <- RowMetrics
  Earlier <- EarlierMetrics
  Levels = {"campaign", "adset"}
  budgetOf <- RowBudget
  \* PerformanceReview and Diagnosis
  ReviewStatuses = {"ACTIVE", "PAUSED", "ARCHIVED"}
  PeriodBudget = 20
  HeadlineReports <- Headlines
SPECIFICATION BackendSpec
INVARIANTS
  BackendTypeOK
  DuplicatesOnlyByTakeover
  LedgerKept
  OneRightPerGrant
  RevocationEndsGrant
  ToldIsHonoured
  OneDefaultAtRest
  NoResurrection
  RetiredStaysOut
  StableIsFound
  TurnBounded
  BatchReportsAll
  TagsReportHolds
  AnalysesAgree
  ToolsKeepTheirWord
PROPERTY AloneRepairs
\* Every component's behaviours end where its bounds are spent.
CHECK_DEADLOCK FALSE
