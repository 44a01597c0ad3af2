SPECIFICATION FairSyncSpec
CONSTANTS
  pass = pass
  drop = drop
  push1 = push1
  push2 = push2
  c1 = c1
  c2 = c2
  Stop = Stop
  Resync = Resync
  Rules = {drop}
  PassRules = {}
  ScopeOf <- OneScope
  Expires <- OneExpiry
  Margin = 1
  Capacity = 2
  DryRun = FALSE
  Persist = FALSE
  Pushers = {push1}
  Streams = {c1}
  MaxTime = 1
  MaxCrashes = 0
  Window = 1
CHECK_DEADLOCK FALSE
PROPERTIES KillSwitchWithdraws
