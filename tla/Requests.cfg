SPECIFICATION RequestsSpec
CONSTANTS
  pass = pass
  drop = drop
  push1 = push1
  push2 = push2
  Stop = Stop
  Resync = Resync
  Rules = {pass, drop}
  PassRules = {pass}
  ScopeOf <- TwoScopes
  Expires <- TwoExpiry
  Margin = 1
  Capacity = 2
  DryRun = FALSE
  Persist = TRUE
  Pushers = {push1, push2}
  Streams = {}
  MaxTime = 3
  MaxCrashes = 1
  Window = 1

  r1 = r1
  r2 = r2
  RLRequests = {r1, r2}
  RLKeys <- KeysOf
  RLUnknown = "none"
  RLBurst = 1
  RLRates = {0, 1}
  RLRate0 = 0
  RLSettable = {"ip"}
  RLMaxEntries = 1
  RLSample = 1
  RLMaxAge = 0
  RLMaxTime = 1
  RLMaxCalls = 2
  RLMaxBuckets = 3

  HpKeys = {"k1", "k2", "k3"}
  HpSource <- SourceOf
  HpAllowed = {}
  HpTimeout = 1
  HpSources = 1
  HpChunk = 2
  HpRoom = 2
  HpMaxTime = 2
  HpMaxTries = 3

  RpSources = {"a"}
  RpScanners = {"b"}
  RpAllowed = {}
  RpFlood = 2
  RpBatch = 1
  RpWindow = 0
  RpMaxAge = 1
  RpRefresh = 1
  RpStale = 1
  RpHardCap = 1
  RpMaxTime = 3
  RpMaxCount = 2

  EgClients = {"a", "b"}
  EgAllowed = {}
  EgSizes = {1, 2}
  EgFloor = 1
  EgBatch = 1
  EgHardCap = 1
  EgTTL = 0
  EgMaxTime = 1
  EgMaxBytes = 3

  HtClients = {"a", "b"}
  HtPaths <- PathsOf
  HtStatuses = {200, 403, 404}
  HtPrints = {"f"}
  HtWindow = 1
  HtErrWindow = 1
  HtMaxEvents = 3
  HtTable = 1
  HtQuiet = 2
  HtIdle = 2
  HtMaxTime = 4

  HrCrawlers = {"g"}
  HrImpostors = {"f"}
  HrPersons = {"p"}
  HrAgents = {"none", "browser", "crios", "script"}

  BvIPs = {"a", "b"}
  BvWorkers = {"w"}
  BvCallers = {"c"}
  BvQueueCap = 1
  BvMaxCache = 1
  BvMaxPending = 1
  BvTTL = 1
  BvShortTTL = 1
  BvWindow = 0
  BvCooldown = 1
  BvForgive = 1
  BvMaxTime = 2

  CvCallers = {1, 2}
  CvIPs = {1, 2, 3}
  CvAgents <- CrawlerAgents
  CvPTR <- PTROf
  CvForward = {1}
  CvTTL = 2
  CvNegativeTTL = 1
  CvMax = 2
  CvHeadroom = 10
  CvMaxTime = 2

  TiCallers = {1, 2}
  TiWorkers = {1}
  TiIPs = {"a", "b"}
  TiReports <- ReportsOf
  TiQueueCap = 1
  TiCacheMax = 1
  TiTTL = 1
  TiShodanTTL = 1
  TiKeep = 1
  TiShodanKeep = 1
  TiMaxTime = 2
CHECK_DEADLOCK FALSE
INVARIANTS
  SavedPushSurvives
  HandshakesToldOnce
  
  EgNeverOver
  CrawlersJudgedRight
  
  IntelSound
PROPERTIES
  LimitsHold
  TrackingExact
  BotsJudgedRight
