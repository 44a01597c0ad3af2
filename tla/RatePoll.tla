------------------------------- MODULE RatePoll -------------------------------
(***************************************************************************)
(* The collector's poll of the kernel's rate and bad-flags maps            *)
(* (pollMaps, sendICMPRates, sendUDPRates, sendBadFlagsAlerts,             *)
(* pruneStaleState of pkg/collector/service.go, check_rate_limit and the   *)
(* flag check of protector.bpf.c).  The kernel counts a source's packets   *)
(* in windows; a poll turns a window, or the one before it, into a flood   *)
(* report, and a scan the kernel noted into an alert.  Two shadow maps     *)
(* remember what the last polls saw and are pruned by the kernel's clock.  *)
(* One rate map stands for the four (ICMP and UDP, IPv4 and IPv6), which   *)
(* have the same code and budgets of their own.                            *)
(***************************************************************************)
EXTENDS Integers, FiniteSets, FiniteSetsExt

CONSTANTS
  RpSources,    \* sources of packets
  RpScanners,   \* sources of scans
  RpAllowed,    \* allowlisted sources
  RpFlood,      \* rateMinFloodPPS
  RpBatch,      \* rateMaxBatchSize, and the alerts' maxBatchSize
  RpWindow,     \* the kernel's window
  RpMaxAge,     \* bpfRateWindow plus the poll interval
  RpRefresh,    \* BAD_FLAGS_REFRESH_NS
  RpStale,      \* prevStateStaleWindowNs
  RpHardCap,    \* prevStateHardCap
  RpMaxTime, RpMaxCount \* bounds of the model: the clock, packets of a window

ASSUME RpAssumption ==
  /\ RpBatch \in Nat \ {0}
  /\ RpFlood \in Nat \ {0}
  /\ RpMaxAge \in Nat
  /\ RpStale \in Nat
  /\ RpHardCap \in Nat

VARIABLES
  rpRate,   \* icmp_rates: source -> [last, count], last the start of the window
  rpBad,    \* bad_flags: source -> last_seen
  rpPrev,   \* prevICMPRates: source -> [last, count]
  rpFull,   \* the same map with every sample kept (not in the code)
  rpSeen,   \* prevBadFlagsSeen: source -> last_seen
  rpClock,  \* rateClock
  rpPoll,   \* the poller
  rpReached, \* source -> the time a poll last looked at it, 0 if that poll had no clock
  rpReport, \* the last flood report of this poll: [src, pps, start, basis]
  rpAlert,  \* source -> [seen, again]: the last alert since prevBadFlagsSeen was emptied
            \* at its cap, whether it repeated a fresh one
  rpNow

rpVars == <<rpRate, rpBad, rpPrev, rpFull, rpSeen, rpClock, rpPoll, rpReached, rpReport, rpAlert, rpNow>>

rpIdle == [pc |-> "idle"]
rpNone == [s \in {} |-> 0]
rpPut(f, s, v) == [x \in DOMAIN f \cup {s} |-> IF x = s THEN v ELSE f[x]]
rpDrop(f, s) == [x \in DOMAIN f \ {s} |-> f[x]]

RatePollInit ==
  /\ rpRate = rpNone /\ rpBad = rpNone
  /\ rpPrev = rpNone /\ rpFull = rpNone /\ rpSeen = rpNone /\ rpClock = 0
  /\ rpPoll = rpIdle /\ rpReached = [s \in RpSources |-> 0]
  /\ rpReport = [pps |-> 0] /\ rpAlert = rpNone /\ rpNow = 1

-----------------------------------------------------------------------------
(* The kernel. *)

\* check_rate_limit: the floodPacket opens a window or adds to the one running.
floodPacket(s) ==
  /\ IF s \in DOMAIN rpRate /\ rpNow - rpRate[s].last <= RpWindow
     THEN rpRate[s].count < RpMaxCount /\ rpRate' = [rpRate EXCEPT ![s].count = @ + 1]
     ELSE rpRate' = rpPut(rpRate, s, [last |-> rpNow, count |-> 1])
  /\ UNCHANGED <<rpBad, rpPrev, rpFull, rpSeen, rpClock, rpPoll, rpReached, rpReport, rpAlert, rpNow>>

\* A repeated scan moves last_seen at most once per refresh interval; a scan of
\* another type replaces the entry at once.
scan(s) ==
  /\ \E wait \in {0, RpRefresh} : s \in DOMAIN rpBad => rpNow > rpBad[s] + wait
  /\ rpBad' = rpPut(rpBad, s, rpNow)
  /\ UNCHANGED <<rpRate, rpPrev, rpFull, rpSeen, rpClock, rpPoll, rpReached, rpReport, rpAlert, rpNow>>

\* The maps are LRU: an entry may go when others come.
evict(s) ==
  /\ \/ s \in DOMAIN rpRate /\ rpRate' = rpDrop(rpRate, s) /\ UNCHANGED rpBad
     \/ s \in DOMAIN rpBad /\ rpBad' = rpDrop(rpBad, s) /\ UNCHANGED rpRate
  /\ UNCHANGED <<rpPrev, rpFull, rpSeen, rpClock, rpPoll, rpReached, rpReport, rpAlert, rpNow>>

rpTick ==
  /\ rpNow < RpMaxTime /\ rpNow' = rpNow + 1
  /\ UNCHANGED <<rpRate, rpBad, rpPrev, rpFull, rpSeen, rpClock, rpPoll, rpReached, rpReport, rpAlert>>

-----------------------------------------------------------------------------
(* floodPPS and what it rests on; prev is the map of previous samples. *)

\* now is 0 when the clock could not be read: nothing is stale then.
stale(last, now) == now # 0 /\ last < now /\ now - last > RpMaxAge

\* The window windowRolled: its count is behind the previous one's.
windowRolled(prev, s, r) == s \in DOMAIN prev /\ r.last > prev[s].last /\ r.count < prev[s].count

ppsFromWindow(prev, s, r) == IF windowRolled(prev, s, r) THEN prev[s].count ELSE r.count

\* storePrevRate keeps a sample that could matter next time.
keepsSample(r) == r.count >= RpFlood

storePrevRate(prev, s, r) == IF keepsSample(r) THEN rpPut(prev, s, r) ELSE rpDrop(prev, s)

\* Mutant: a stale window leaves the earlier sample.
afterStaleKept(prev, s) == prev

afterStale(prev, s) == rpDrop(prev, s)

floods(prev, s, r) == ppsFromWindow(prev, s, r) >= RpFlood

-----------------------------------------------------------------------------
(* pollMaps. *)

pollRates ==
  /\ rpPoll.pc = "idle"
  /\ \E now \in {0, rpNow} : rpPoll' = [pc |-> "rates", now |-> now, left |-> DOMAIN rpRate, sent |-> 0]
  /\ rpReport' = [pps |-> 0]
  /\ UNCHANGED <<rpRate, rpBad, rpPrev, rpFull, rpSeen, rpClock, rpReached, rpAlert, rpNow>>

\* A fresh sample: the shadow map takes it, and a flood is reported unless the
\* source is allowlisted.
sampled(s, r) ==
  LET sends == floods(rpPrev, s, r) /\ s \notin RpAllowed
      old == windowRolled(rpPrev, s, r) IN
  /\ rpPrev' = storePrevRate(rpPrev, s, r)
  /\ rpFull' = rpPut(rpFull, s, r)
  /\ rpReport' = IF ~sends THEN rpReport ELSE
       [src |-> s, pps |-> ppsFromWindow(rpPrev, s, r),
        start |-> IF old THEN rpPrev[s].last ELSE r.last,
        basis |-> IF old THEN rpReached[s] ELSE rpPoll.now]
  /\ rpPoll' = [rpPoll EXCEPT !.left = @ \ {s}, !.sent = IF sends THEN @ + 1 ELSE @]

\* One entry, in the order of the hash table.
rateEntry(s) ==
  /\ rpPoll.pc = "rates" /\ s \in rpPoll.left /\ rpPoll.sent < RpBatch
  /\ IF s \notin DOMAIN rpRate
     THEN /\ rpPoll' = [rpPoll EXCEPT !.left = @ \ {s}]
          /\ UNCHANGED <<rpPrev, rpFull, rpClock, rpReached, rpReport>>
     ELSE /\ rpClock' = Max({rpClock, rpRate[s].last})
          /\ rpReached' = [rpReached EXCEPT ![s] = rpPoll.now]
          /\ IF stale(rpRate[s].last, rpPoll.now)
             THEN /\ rpPrev' = afterStale(rpPrev, s) /\ rpFull' = afterStale(rpFull, s)
                  /\ rpPoll' = [rpPoll EXCEPT !.left = @ \ {s}]
                  /\ UNCHANGED rpReport
             ELSE sampled(s, rpRate[s])
  /\ UNCHANGED <<rpRate, rpBad, rpSeen, rpAlert, rpNow>>

\* The walk ends, at the latest when the budget is spent.
pollFlags ==
  /\ rpPoll.pc = "rates" /\ (rpPoll.left = {} \/ rpPoll.sent >= RpBatch)
  /\ rpPoll' = [pc |-> "flags", left |-> DOMAIN rpBad, sent |-> 0]
  /\ UNCHANGED <<rpRate, rpBad, rpPrev, rpFull, rpSeen, rpClock, rpReached, rpReport, rpAlert, rpNow>>

\* The largest kernel time any of the maps holds.
maxClock == Max({rpClock} \cup {rpPrev[s].last : s \in DOMAIN rpPrev} \cup {rpSeen[s] : s \in DOMAIN rpSeen})

\* Entries behind the clock go.
freshIn(last) == maxClock <= RpStale \/ last >= maxClock - RpStale

\* A sighting newer than the recorded one, or of a source without a record.
newScan(s) == s \in DOMAIN rpBad /\ (s \in DOMAIN rpSeen => rpBad[s] > rpSeen[s])

flagEntry(s) ==
  /\ rpPoll.pc = "flags" /\ s \in rpPoll.left /\ rpPoll.sent < RpBatch
  /\ LET sends == newScan(s) /\ s \notin RpAllowed IN
     /\ rpSeen' = IF newScan(s) THEN rpPut(rpSeen, s, rpBad[s]) ELSE rpSeen
     /\ rpAlert' = IF ~sends THEN rpAlert ELSE
          rpPut(rpAlert, s, [seen |-> rpBad[s],
                             again |-> /\ s \in DOMAIN rpAlert /\ rpAlert[s].seen = rpBad[s]
                                       /\ freshIn(rpBad[s])])
     /\ rpPoll' = [rpPoll EXCEPT !.left = @ \ {s}, !.sent = IF sends THEN @ + 1 ELSE @]
  /\ UNCHANGED <<rpRate, rpBad, rpPrev, rpFull, rpClock, rpReached, rpReport, rpNow>>

\* prunePrevRateMap and prunePrevSeenMap: a map still over its cap is emptied.
capped(f) == IF Cardinality(DOMAIN f) > RpHardCap THEN rpNone ELSE f

prunedRates(f) == [s \in {x \in DOMAIN f : freshIn(f[x].last)} |-> f[s]]
prunedSeen(f) == [s \in {x \in DOMAIN f : freshIn(f[x])} |-> f[s]]

pruneStaleState ==
  /\ rpPoll.pc = "flags" /\ (rpPoll.left = {} \/ rpPoll.sent >= RpBatch)
  /\ rpPrev' = capped(prunedRates(rpPrev))
  /\ rpFull' = IF Cardinality(DOMAIN prunedRates(rpPrev)) > RpHardCap THEN rpNone ELSE prunedRates(rpFull)
  /\ rpSeen' = capped(prunedSeen(rpSeen))
  /\ rpAlert' = IF Cardinality(DOMAIN prunedSeen(rpSeen)) > RpHardCap THEN rpNone ELSE rpAlert
  /\ rpPoll' = rpIdle
  /\ UNCHANGED <<rpRate, rpBad, rpClock, rpReached, rpReport, rpNow>>

RatePollNext ==
  \/ \E s \in RpSources : floodPacket(s) \/ rateEntry(s)
  \/ \E s \in RpScanners : scan(s) \/ flagEntry(s)
  \/ \E s \in RpSources \cup RpScanners : evict(s)
  \/ rpTick \/ pollRates \/ pollFlags \/ pruneStaleState

RatePollSpec == RatePollInit /\ [][RatePollNext]_rpVars

-----------------------------------------------------------------------------
(* Properties. *)

\* What storePrevRate's comment argues: dropping the samples below the
\* threshold is invisible to signalling.  Whatever the kernel's sample of a
\* source is, the poll reports the same flood as with every sample kept.
RpDropInvisible ==
  \A s \in DOMAIN rpRate :
    LET told(prev) == IF floods(prev, s, rpRate[s]) THEN ppsFromWindow(prev, s, rpRate[s]) ELSE 0
    IN told(rpPrev) = told(rpFull)

\* A flood that is over is not reported again: the window a report is about was
\* still fresh when the source was looked at (for the window before the current
\* one, when a poll last looked at the source).
RpPeakRecent == (rpReport.pps > 0 /\ rpReport.basis > 0) => rpReport.start >= rpReport.basis - RpMaxAge

\* sendBadFlagsAlerts alerts a newly observed scan: no sighting is alerted twice
\* as long as pruneStaleState may not drop its record, for its age or because the
\* map is over its cap.  (Once it may, the kernel's entry outlives the record and
\* the same sighting is alerted again.)
RpAlertsNew == \A s \in DOMAIN rpAlert : ~rpAlert[s].again

\* The rate poll reports the floods the samples show, while they last, and a
\* scan when it is new, although it drops and prunes samples (storePrevRate,
\* pruneStaleState, sendBadFlagsAlerts).
RatesToldOnce == RpDropInvisible /\ RpPeakRecent /\ RpAlertsNew
=============================================================================
