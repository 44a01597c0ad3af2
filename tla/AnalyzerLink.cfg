\* Dialling, receiving, sending, readiness and shutdown of the analyzer link:
\* two producers compete for a queue of one signal; the backoff doubles once;
\* a grace period of two ticks.
SPECIFICATION FairSpec
CONSTANTS
  Producers = {p1, p2}
  QueueSize = 1
  Initial = 1
  MaxBackoff = 2
  Stable = 1
  Grace = 2
  Prompt = TRUE
  MaxStreams = 2
PROPERTIES
  LinkKeepsSignals
  LinkMakesProgress
