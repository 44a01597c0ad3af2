------------------------------ MODULE ThreatIntel ------------------------------
(***************************************************************************)
(* Threat intelligence (pkg/analyzer/threatintel/aggregator.go and         *)
(* shodan.go).  Every signal asks for its address to be enriched: a cached *)
(* and fresh result ends the request, a marker keeps a second lookup of    *)
(* the same address out, a full queue drops it.  Workers look addresses up *)
(* with a rate-limited client that keeps its own, longer-lived cache and   *)
(* falls back on its expired entries.                                      *)
(***************************************************************************)
EXTENDS Integers, Sequences, FiniteSets, FiniteSetsExt

CONSTANTS
  TiCallers, TiWorkers, TiIPs,
  TiReports,     \* the service's report of an address: scanner, ports, vulns, tor, vpn, cloud
  TiQueueCap,    \* enrichQueueSize
  TiCacheMax,    \* maxEnrichmentCacheEntries and maxShodanCacheEntries
  TiTTL, TiKeep, \* enrichmentTTL, and how long an entry is kept (4 x TTL)
  TiShodanTTL, TiShodanKeep, \* cacheTTL of the client, and how long it keeps (2 x TTL)
  TiMaxTime      \* bound of the model: the clock

VARIABLES
  tiCache,    \* enrichmentCache: address -> [score, at]
  tiFlight,   \* inFlight
  tiQueue,    \* enrichQueue
  tiCaller,   \* callers of EnrichIP
  tiWorker,   \* enrichWorkers
  tiShodan,   \* the client's cache: address -> [info, at]
  tiLast,     \* whether the client has made a request less than minInterval ago
  tiNow

tiVars == <<tiCache, tiFlight, tiQueue, tiCaller, tiWorker, tiShodan, tiLast, tiNow>>

tiIdle == [pc |-> "idle"]
tiNone == [i \in {} |-> 0]

ThreatIntelInit ==
  /\ tiCache = tiNone /\ tiShodan = tiNone
  /\ tiFlight = {} /\ tiQueue = <<>>
  /\ tiCaller = [c \in TiCallers |-> tiIdle]
  /\ tiWorker = [w \in TiWorkers |-> tiIdle]
  /\ tiLast = FALSE /\ tiNow = 0

\* The clean report of an address the service has not seen (404).
Unseen == [scanner |-> FALSE, ports |-> 0, vulns |-> 0, tor |-> FALSE, vpn |-> FALSE, cloud |-> FALSE]

\* A map's entry is replaced; a new one needs room.
tiStore(f, ip, v) ==
  IF ip \in DOMAIN f \/ Cardinality(DOMAIN f) < TiCacheMax
  THEN [x \in DOMAIN f \cup {ip} |-> IF x = ip THEN v ELSE f[x]] ELSE f

-----------------------------------------------------------------------------
(* EnrichIP, in the sections of its locks. *)

tiFresh(ip) == ip \in DOMAIN tiCache /\ tiNow - tiCache[ip].at < TiTTL

readCache(c, ip) ==
  /\ tiCaller[c].pc = "idle" /\ ~tiFresh(ip)
  /\ tiCaller' = [tiCaller EXCEPT ![c] = [pc |-> "mark", ip |-> ip]]
  /\ UNCHANGED <<tiCache, tiFlight, tiQueue, tiWorker, tiShodan, tiLast, tiNow>>

markInFlight(c) ==
  /\ tiCaller[c].pc = "mark"
  /\ tiCaller' = [tiCaller EXCEPT ![c] =
       IF @.ip \in tiFlight THEN tiIdle ELSE [pc |-> "send", ip |-> @.ip]]
  /\ tiFlight' = tiFlight \cup {tiCaller[c].ip}
  /\ UNCHANGED <<tiCache, tiQueue, tiWorker, tiShodan, tiLast, tiNow>>

\* Mutant: a dropped request leaves its marker.
afterDropMarked(c) == tiIdle

\* A dropped request clears its marker next.
afterDrop(c) == [pc |-> "unmark", ip |-> tiCaller[c].ip]

tiSend(c) ==
  /\ tiCaller[c].pc = "send"
  /\ \/ /\ Len(tiQueue) < TiQueueCap
        /\ tiQueue' = Append(tiQueue, tiCaller[c].ip)
        /\ tiCaller' = [tiCaller EXCEPT ![c] = tiIdle]
     \/ /\ Len(tiQueue) = TiQueueCap
        /\ tiCaller' = [tiCaller EXCEPT ![c] = afterDrop(c)]
        /\ UNCHANGED tiQueue
  /\ UNCHANGED <<tiCache, tiFlight, tiWorker, tiShodan, tiLast, tiNow>>

tiUnmark(c) ==
  /\ tiCaller[c].pc = "unmark"
  /\ tiFlight' = tiFlight \ {tiCaller[c].ip}
  /\ tiCaller' = [tiCaller EXCEPT ![c] = tiIdle]
  /\ UNCHANGED <<tiCache, tiQueue, tiWorker, tiShodan, tiLast, tiNow>>

-----------------------------------------------------------------------------
(* enrichWorker and ShodanInternetDB.Lookup. *)

tiReceive(w) ==
  /\ tiWorker[w].pc = "idle" /\ tiQueue # <<>>
  /\ tiQueue' = Tail(tiQueue)
  /\ tiWorker' = [tiWorker EXCEPT ![w] = [pc |-> "lookup", ip |-> Head(tiQueue)]]
  /\ UNCHANGED <<tiCache, tiFlight, tiCaller, tiShodan, tiLast, tiNow>>

\* A lookup that ends with a report, or with an error.
tiFound(ip, info) == [pc |-> "enrich", ip |-> ip, info |-> info]
tiMissed(ip) == [pc |-> "done", ip |-> ip]

\* Without an answer the client returns the entry it read first, if there was one.
tiFallback(ip, old) == IF old = {} THEN tiMissed(ip) ELSE tiFound(ip, CHOOSE i \in old : TRUE)

\* A fresh entry answers; else the rate limit admits the request or does not.
lookupCached(w) ==
  LET ip == tiWorker[w].ip
      old == IF ip \in DOMAIN tiShodan THEN {tiShodan[ip].info} ELSE {}
      hit == old # {} /\ tiNow - tiShodan[ip].at < TiShodanTTL
  IN /\ tiWorker[w].pc = "lookup"
     /\ tiWorker' = [tiWorker EXCEPT ![w] =
          IF hit THEN tiFound(ip, tiShodan[ip].info)
          ELSE IF tiLast THEN tiFallback(ip, old) ELSE [pc |-> "fetch", ip |-> ip, old |-> old]]
     /\ tiLast' = (tiLast \/ ~hit)
     /\ UNCHANGED <<tiCache, tiFlight, tiQueue, tiCaller, tiShodan, tiNow>>

\* The service's answer: a report, 404 for an unseen address, which is kept.
tiFetched(w) ==
  LET ip == tiWorker[w].ip
      info == TiReports[ip]
  IN /\ tiWorker[w].pc = "fetch"
     /\ tiShodan' = tiStore(tiShodan, ip, [info |-> info, at |-> tiNow])
     /\ tiWorker' = [tiWorker EXCEPT ![w] = tiFound(ip, info)]
     /\ UNCHANGED <<tiCache, tiFlight, tiQueue, tiCaller, tiLast, tiNow>>

\* No connection, another status, an unreadable body.
fetchFailed(w) ==
  /\ tiWorker[w].pc = "fetch"
  /\ tiWorker' = [tiWorker EXCEPT ![w] = tiFallback(@.ip, @.old)]
  /\ UNCHANGED <<tiCache, tiFlight, tiQueue, tiCaller, tiShodan, tiLast, tiNow>>

\* calculateThreatScore.
calculateThreatScore(i) ==
  LET exposed == (IF i.scanner THEN 40 ELSE 0)
                   + (IF i.ports > 10 THEN 20 ELSE IF i.ports > 5 THEN 10 ELSE 0)
      vulnerable == IF i.vulns > 0 THEN Min({30, exposed + 5 * i.vulns}) ELSE exposed
  IN Min({100, Max({0, vulnerable + (IF i.tor THEN 15 ELSE 0) + (IF i.vpn THEN 5 ELSE 0)
                         - (IF i.cloud /\ ~i.scanner THEN 10 ELSE 0)})})

\* performEnrichment's store.
tiEnrich(w) ==
  /\ tiWorker[w].pc = "enrich"
  /\ tiCache' = tiStore(tiCache, tiWorker[w].ip,
                        [score |-> calculateThreatScore(tiWorker[w].info), at |-> tiNow])
  /\ tiWorker' = [tiWorker EXCEPT ![w] = tiMissed(@.ip)]
  /\ UNCHANGED <<tiFlight, tiQueue, tiCaller, tiShodan, tiLast, tiNow>>

tiFinish(w) ==
  /\ tiWorker[w].pc = "done"
  /\ tiFlight' = tiFlight \ {tiWorker[w].ip}
  /\ tiWorker' = [tiWorker EXCEPT ![w] = tiIdle]
  /\ UNCHANGED <<tiCache, tiQueue, tiCaller, tiShodan, tiLast, tiNow>>

-----------------------------------------------------------------------------
(* The two cleanup loops and time. *)

tiKeep(f, age) == [x \in {y \in DOMAIN f : tiNow - f[y].at <= age} |-> f[x]]

cleanupEnrichments ==
  /\ tiCache' = tiKeep(tiCache, TiKeep) /\ tiCache' # tiCache
  /\ UNCHANGED <<tiFlight, tiQueue, tiCaller, tiWorker, tiShodan, tiLast, tiNow>>

cleanupShodan ==
  /\ tiShodan' = tiKeep(tiShodan, TiShodanKeep) /\ tiShodan' # tiShodan
  /\ UNCHANGED <<tiCache, tiFlight, tiQueue, tiCaller, tiWorker, tiLast, tiNow>>

\* minInterval passes.
tiInterval ==
  /\ tiLast /\ tiLast' = FALSE
  /\ UNCHANGED <<tiCache, tiFlight, tiQueue, tiCaller, tiWorker, tiShodan, tiNow>>

tiTick ==
  /\ tiNow < TiMaxTime /\ tiNow' = tiNow + 1
  /\ UNCHANGED <<tiCache, tiFlight, tiQueue, tiCaller, tiWorker, tiShodan, tiLast>>

tiWork(w) ==
  \/ tiReceive(w) \/ lookupCached(w) \/ fetchFailed(w) \/ tiEnrich(w) \/ tiFinish(w) \/ tiFetched(w)

ThreatIntelNext ==
  \/ \E c \in TiCallers :
       (\E ip \in TiIPs : readCache(c, ip)) \/ markInFlight(c) \/ tiSend(c) \/ tiUnmark(c)
  \/ \E w \in TiWorkers : tiWork(w)
  \/ cleanupEnrichments \/ cleanupShodan \/ tiInterval \/ tiTick

ThreatIntelSpec == ThreatIntelInit /\ [][ThreatIntelNext]_tiVars

-----------------------------------------------------------------------------
(* Properties. *)

\* Every marker has one owner, which will clear it: a caller about to send, a
\* place in the queue, or a worker.  So no dropped or failed request shuts an
\* address out for good, and no address is looked up twice at a time.
TiMarkersOwned ==
  \A ip \in TiIPs :
    LET callers == {c \in TiCallers : tiCaller[c].pc \in {"send", "unmark"} /\ tiCaller[c].ip = ip}
        places == {i \in 1..Len(tiQueue) : tiQueue[i] = ip}
        workers == {w \in TiWorkers : tiWorker[w].pc # "idle" /\ tiWorker[w].ip = ip}
    IN Cardinality(callers) + Cardinality(places) + Cardinality(workers)
         = IF ip \in tiFlight THEN 1 ELSE 0

\* A cached score is the one the service's own report of that address gives: a rate
\* limit or a failure never makes an address read as clean.
TiScoresTold ==
  \A ip \in DOMAIN tiCache : tiCache[ip].score = calculateThreatScore(TiReports[ip])

\* A lookup that was dropped or failed neither shuts its address out nor makes
\* it read as clean (EnrichIP, enrichWorker, performEnrichment).
IntelSound == TiMarkersOwned /\ TiScoresTold
=============================================================================
