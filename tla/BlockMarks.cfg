SPECIFICATION BlockDedupSpec
CONSTANTS
  s1 = s1
  s2 = s2
  s3 = s3
  b1 = b1
  b2 = b2
  src1 = src1
  Streams = {s1, s2}
  Broadcasters = {b1, b2}
  Sources = {src1}
  CertTrusted = {}
  DryRun = FALSE
  GateScrub = FALSE
  TTL = 2
  EvidenceTTL = 2
  SweepInterval = 1
  MaxSent = 1
  QueueSize = 1
  MaxCollectors = 2
  MaxTime = 3
  MaxDecisions = 3
SYMMETRY StreamSymmetry
CHECK_DEADLOCK FALSE
INVARIANTS DedupExact
