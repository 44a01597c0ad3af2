SPECIFICATION ProgressSpec
CONSTANTS
  p1 = p1
  p2 = p2
  w1 = w1
  w2 = w2
  Publishers = {p1, p2}
  Subscribers = {w1, w2}
  MaxSubscribers = 1
  BufferSize = 2
  MaxPublished = 4

  w = w
  RepWorkers = {w}
  RepIPs = {"i1", "i2"}
  RepASNs = {"a"}
  RepJA4s = {"j"}
  RepShardCount = 2
  RepShardOf <- ShardOf
  RepBudget = 1
  RepBatch = 2
  RepMaxHosts = 1
  RepSoft = 2
  RepMaxAge = 1
  RepWeight = 4
  RepNoCap = 9
  RepCaps = {1}
  RepSettable = {"asn"}
  RepMaxTime = 2

  SelLen = 4
  SelAges = {1, 2, 3}
  SelBudgets = {1, 12}

  FbIPs = {"a", "b"}
  FbTTL = 0
  FbPeriod = 0
  FbMaxOutcomes = 1
  FbEnough = 1
  FbInterval = 1
  FbMin = 0
  FbMax = 2
  FbInitial = 1
  FbStep = 2
  FbHigh = 60
  FbLow = 40
  FbSavers = 1
  FbReports = 2
  FbMaxTime = 2

  EngKeys = {"a"}
  EngShards = {0, 1}
  EngQueueCap = 1
  EngThreshold = 2
  EngTTL = 0
  EngMaxIPs = 1
  EngMaxSignals = 2
  EngMaxTime = 1

  CtConns = {"k", "m"}
  CtIssuer <- IssuerOf
  CtBundles = {{}, {"A"}, {"A", "B"}}
  CtFirst = {"A", "B"}
  CtMaxWrites = 3
CHECK_DEADLOCK FALSE
PROPERTIES
  FeedCorrect 
  ReputationFair
  SelectCorrect
  
  EngineLosesNothing
  
