SPECIFICATION DetectionSpec
CONSTANTS
  SusClients = {"c1", "c2"}
  SusResources = {"r1", "r2", "r3"}
  SusSectionOf <- SectionOf
  SusWindow = 1
  SusPublish = 1
  SusHold = 2
  SusMaxHold = 2
  SusMinRequests = 2
  SusMinBytes = 1
  SusMinResources = 1
  SusMinSections = 2
  SusMaxPercent = 100
  SusRelease = 100
  SusFactor = 2
  SusMaxClients = 1
  SusMaxResources = 2
  SusMaxOps = 3

  BaseASNs = {"a1", "a2"}
  BaseShardOf <- OneShard
  BaseMetrics = {"ttl"}
  BaseValues = {1, 2, 20}
  BaseMinObs = 2
  BasePerShard = 1
  BaseMinSamples = 2
  BaseMinDuration = 2
  BaseRetention = 3
  BaseMaxObs = 7

  PatIPs = {"i1", "i2"}
  PatMetas <- Metas
  PatMax = 1
  PatHeadroom = 10
  PatExpiry = 1
  PatPortWindow = 0
  PatPortLimit = 1
  PatSamples = 3
  PatMinSamples = 2
  PatMinAttempts = 2
  PatMinReuse = 1
  PatGeoWindow = 1
  PatGeoChanges = 1
  PatMaxOps = 4

  ProfIPs = {"i1", "i2"}
  ProfOffsets <- Offsets
  ProfWrap = 4
  ProfMax = 1
  ProfHeadroom = 10
  ProfExpiry = 5
  ProfResetGap = 2
  ProfMinTime = 1
  ProfChangeObs = 2
  ProfChangeTime = 1
  ProfAnomObs = 2
  ProfAnomTime = 2
  ProfScores = {20, 99}
  ProfEntropyObs = 1
  ProfMixedObs = 1
  ProfMaxTime = 7
  ProfMaxOps = 4

  RingValues = {1, 2}
  RingZero = 0
  RingLimit = 5
  RingGrowth = 2
  RingDrops = {0, 1, 2, 9}

  HistWorkers = {"w1", "w2"}
  HistIPs = {"a", "b"}
  HistMax = 1
  HistEvents = 2
  HistMaxAge = 1
  HistTrim = 1
  HistInterval = 1
  HistEntries = 2
  HistMaxAdds = 2
  HistMaxTime = 3

  DSWorkers = {"w1", "w2"}
  DSKeySets = {{"ip1", "asn1"}, {"ip2", "asn1"}}
  DSMaxEvents = 1
  DSTTL = 0
  DSSkew = 1
  DSHistory = 1
  DSEntities = 2
  DSMade = 2
  DSMaxTime = 1

  LPIPs = {"a"}
  LPTraits = {"ua", "asn", "ja4h"}
  LPMax = 2
  LPWindow = 0
  LPCalls = 2
  LPMaxTime = 1

  RecWorkers = {"w1", "w2"}
  RecIPs = {"a"}
  RecBuffer = 2
  RecMaxIPs = 1
  RecPost = 2
  RecLength = 2
  RecKeep = 1
  RecIdle = 0
  RecMaxSignals = 3
  RecMaxTime = 3

  VdCounts = {1, 4}
  VdWidth = 2
  VdWeight = 2
  VdStatic = 3
  VdSuspicious = 3
  VdMinFlood = 3
  VdIPFlood = 8
  VdASNFlood = 1
  VdIncomplete = 4
  VdPattern = 4
  VdTotal = 5
  VdThreshold = 500
  VdBlockScore = 15

  CmpSignals <- CampaignSignals
  CmpLags = {0, 1}
  CmpWindow = 1
  CmpRetention = 1
  CmpMinSignals = 1
  CmpMinIPs = 2
  CmpMinSubnets = 2
  CmpMinPorts = 1
  CmpMinSources = 2
  CmpWeakSource = 2
  CmpWeakSignal = 1
  CmpMaxCampaigns = 4
  CmpMaxEvents = 3
  CmpMaxKeys = 2
  CmpTau = 0
  CmpMaxRecords = 3
  CmpMaxTime = 2
CHECK_DEADLOCK FALSE
INVARIANTS
  DownloadsExact
  PatternsTrue
  RingWellFormed
  HistoryKept
  VerdictsSound
  CampaignsSound
PROPERTIES
  BaselineTracks
  ProfilesFair
  RingIsQueue
  DetectionsFiled
  UserHasTheWord
  RecordingsWhole
