SPECIFICATION BlocksEndSpec
CONSTANTS
  s1 = s1
  s2 = s2
  b1 = b1
  src1 = src1
  Streams = {s1, s2}
  Broadcasters = {b1}
  Sources = {src1}
  CertTrusted = {s1, s2}
  DryRun = FALSE
  GateScrub = TRUE
  TTL = 1
  EvidenceTTL = 2
  SweepInterval = 1
  MaxSent = 0
  QueueSize = 1
  MaxCollectors = 2
  MaxTime = 1
  MaxDecisions = 1

  a1 = a1
  a2 = a2
  lo = lo
  wide = wide
  host1 = host1
  host2 = host2
  host3 = host3
  Addrs = {a1, a2, lo}
  Private = {lo}
  Nets = {wide, host1, host2, host3}
  Base <- BaseOf
  HostNet <- HostNetOf
  Members <- MembersOf
  Configured <- JustWide
  BlockDuration = 1
  TableSize = 1
  TableMaxTime = 3
  MaxCommands = 1
CHECK_DEADLOCK FALSE
PROPERTIES SecondLayer
