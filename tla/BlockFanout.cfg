SPECIFICATION BlockDedupSpec
CONSTANTS
  s1 = s1
  s2 = s2
  s3 = s3
  b1 = b1
  b2 = b2
  src1 = src1
  Streams = {s1, s2}
  Broadcasters = {}
  Sources = {src1}
  CertTrusted = {s1, s2}
  DryRun = FALSE
  GateScrub = TRUE
  TTL = 1
  EvidenceTTL = 1
  SweepInterval = 1
  MaxSent = 1
  QueueSize = 1
  MaxCollectors = 2
  MaxTime = 2
  MaxDecisions = 2
SYMMETRY StreamSymmetry
CHECK_DEADLOCK FALSE
INVARIANTS FanoutLosesNothing
