----------------------------- MODULE HTTPTracking -----------------------------
(***************************************************************************)
(* What the analyzer remembers of each client's HTTP requests              *)
(* (pkg/analyzer/service.go: updateHTTPRate, updateProxyLag,               *)
(* shouldEmitLatencyAnomaly, updatePathEntropy, checkJA4Consistency,       *)
(* trackHTTPErrors, cleanupTrackingMaps): a window of paths with counters  *)
(* and streaks kept beside it, a window of statuses, when each rate was    *)
(* last updated, and when a latency anomaly was last reported.  Requests   *)
(* of many streams call these at the same time; each call runs under the   *)
(* lock of its map.  Rates, lags, entropy and the regularity of the gaps   *)
(* are left out: they are returned and steer nothing here.                 *)
(*                                                                         *)
(* A path is a record of the kind of its suffix and the value of it.       *)
(***************************************************************************)
EXTENDS Integers, Sequences, FiniteSets, FiniteSetsExt, SequencesExt

CONSTANTS
  HtClients,
  HtPaths,      \* [kind: "num", "huge", "alpha" or "other", n]; the digits of a
                \* huge one are too many to parse
  HtStatuses, HtPrints,
  HtWindow,     \* how long a path counts
  HtErrWindow,  \* how long a status counts
  HtMaxEvents,  \* the events of a window
  HtTable,      \* the clients of a table
  HtQuiet,      \* the ttl of the latency throttle
  HtIdle,       \* how long cleanup keeps an idle entry
  HtMaxTime     \* bound of the model: the clock

ASSUME HtAssumption ==
  /\ HtPaths \subseteq [kind : {"num", "huge", "alpha", "other"}, n : Nat]
  /\ HtWindow \in Nat /\ HtErrWindow \in Nat /\ HtMaxEvents \in Nat \ {0}
  /\ HtQuiet \in Nat /\ HtIdle \in Nat /\ HtQuiet <= HtIdle   \* 30 s and 15 minutes

VARIABLES
  htPaths,   \* pathWindows: client -> [events, counts, total, seen, streak, last, prints]
  htErrors,  \* httpErrorWindows: client -> [events, n404, n403, run, last]
  htRates,   \* httpRateByIP, and the like of it by ASN: client -> LastTime
  htQuiet,   \* latencyAnomalyThrottle: client -> when
  htTold,    \* client -> when its latency anomaly was last reported, -1 for never
  htNow

htVars == <<htPaths, htErrors, htRates, htQuiet, htTold, htNow>>

htNone == [c \in {} |-> 0]
htPut(f, c, v) == [x \in DOMAIN f \cup {c} |-> IF x = c THEN v ELSE f[x]]
htOnly(f, K) == [c \in DOMAIN f \cap K |-> f[c]]
htRoom(f, c) == c \in DOMAIN f \/ Cardinality(DOMAIN f) < HtTable
htKinds == {"num", "alpha"}

HTTPTrackingInit ==
  /\ htPaths = htNone /\ htErrors = htNone /\ htRates = htNone /\ htQuiet = htNone
  /\ htTold = [c \in HtClients |-> -1] /\ htNow = 0

\* The events a window keeps: the first that is recent enough and among the last ones.
keptFrom(events, window) ==
  Min({i \in DOMAIN events : htNow - events[i].at <= window /\ Len(events) - i < HtMaxEvents})

-----------------------------------------------------------------------------
(* updatePathEntropy and checkJA4Consistency. *)

newPathWindow ==
  [events |-> <<>>, counts |-> [p \in HtPaths |-> 0], total |-> 0, seen |-> htNow,
   streak |-> [k \in htKinds |-> 0], last |-> [k \in htKinds |-> -1], prints |-> {}]

pathWindow(c) == IF c \in DOMAIN htPaths THEN htPaths[c] ELSE newPathWindow

\* The counters after path p came and the events before the kept ones went.
countsAfter(w, p, gone) ==
  [q \in HtPaths |-> w.counts[q] + (IF q = p THEN 1 ELSE 0)
                     - Cardinality({i \in DOMAIN gone : gone[i].path = q})]

totalAfter(w, gone) == w.total + 1 - Len(gone)

\* Mutant: a suffix of another kind leaves the streak as it is.
streakAfterKept(w, p, k) ==
  IF p.kind # k THEN w.streak[k]
  ELSE IF w.last[k] # -1 /\ w.last[k] + 1 = p.n THEN w.streak[k] + 1 ELSE 1

\* Digits that do not parse change nothing of the numeric streak.
unparsed(p, k) == p.kind = "huge" /\ k = "num"

\* A streak counts successive values; a path without such a suffix ends it.
streakAfter(w, p, k) ==
  IF unparsed(p, k) THEN w.streak[k]
  ELSE IF p.kind # k THEN 0
  ELSE IF w.last[k] # -1 /\ w.last[k] + 1 = p.n THEN w.streak[k] + 1 ELSE 1

\* A window once path p came and what is old went.
pathWindowAfter(w, p) ==
  LET events == Append(w.events, [path |-> p, at |-> htNow])
      from == keptFrom(events, HtWindow)
      gone == SubSeq(events, 1, from - 1) IN
  [events |-> SubSeq(events, from, Len(events)), seen |-> htNow,
   counts |-> countsAfter(w, p, gone), total |-> totalAfter(w, gone),
   streak |-> [k \in htKinds |-> Min({streakAfter(w, p, k), HtMaxEvents + 1})],
   last |-> [k \in htKinds |->
              IF unparsed(p, k) THEN w.last[k] ELSE IF p.kind = k THEN p.n ELSE -1],
   prints |-> w.prints]

updatePathEntropy(c, p) ==
  /\ htRoom(htPaths, c)
  /\ htPaths' = htPut(htPaths, c, pathWindowAfter(pathWindow(c), p))
  /\ UNCHANGED <<htErrors, htRates, htQuiet, htTold, htNow>>

\* The fingerprints seen from a client; they leave only with the whole window.
checkJA4Consistency(c, f) ==
  /\ htRoom(htPaths, c)
  /\ htPaths' = htPut(htPaths, c, [pathWindow(c) EXCEPT !.seen = htNow, !.prints = @ \cup {f}])
  /\ UNCHANGED <<htErrors, htRates, htQuiet, htTold, htNow>>

-----------------------------------------------------------------------------
(* trackHTTPErrors. *)

newErrorWindow == [events |-> <<>>, n404 |-> 0, n403 |-> 0, run |-> 0, last |-> 0]
errorWindow(c) == IF c \in DOMAIN htErrors THEN htErrors[c] ELSE newErrorWindow

numberOf(events, status) == Cardinality({i \in DOMAIN events : events[i].status = status})
clientError(status) == status \in 400..499

notFoundAfter(w, status, gone) == w.n404 + (IF status = 404 THEN 1 ELSE 0) - numberOf(gone, 404)

errorWindowAfter(w, status) ==
  LET events == Append(w.events, [status |-> status, at |-> htNow])
      from == keptFrom(events, HtErrWindow)
      gone == SubSeq(events, 1, from - 1) IN
  [events |-> SubSeq(events, from, Len(events)),
   n404 |-> notFoundAfter(w, status, gone),
   n403 |-> w.n403 + (IF status = 403 THEN 1 ELSE 0) - numberOf(gone, 403),
   run |-> IF ~clientError(status) THEN 0
           ELSE IF clientError(w.last) THEN Min({w.run + 1, HtMaxEvents + 1}) ELSE 1,
   last |-> status]

trackHTTPErrors(c, status) ==
  /\ htRoom(htErrors, c)
  /\ htErrors' = htPut(htErrors, c, errorWindowAfter(errorWindow(c), status))
  /\ UNCHANGED <<htPaths, htRates, htQuiet, htTold, htNow>>

-----------------------------------------------------------------------------
(* updateHTTPRate, updateProxyLag, shouldEmitLatencyAnomaly and the cleanup. *)

updateHTTPRate(c) ==
  /\ htRoom(htRates, c)
  /\ htRates' = htPut(htRates, c, htNow)
  /\ UNCHANGED <<htPaths, htErrors, htQuiet, htTold, htNow>>

\* A report of the client not long ago.
throttled(c) == c \in DOMAIN htQuiet /\ htNow - htQuiet[c] < HtQuiet

\* A full table reports nobody, not even a client it holds.
shouldEmitLatencyAnomaly(c) ==
  /\ ~throttled(c) /\ Cardinality(DOMAIN htQuiet) < HtTable
  /\ htQuiet' = htPut(htQuiet, c, htNow)
  /\ htTold' = [htTold EXCEPT ![c] = htNow]
  /\ UNCHANGED <<htPaths, htErrors, htRates, htNow>>

\* The reports cleanup still remembers.
quietKept == {c \in DOMAIN htQuiet : htNow - htQuiet[c] <= HtIdle}

cleanupTrackingMaps ==
  /\ htPaths' = htOnly(htPaths, {c \in DOMAIN htPaths : htPaths[c].seen >= htNow - HtIdle})
  /\ htErrors' = htOnly(htErrors, {c \in DOMAIN htErrors : Last(htErrors[c].events).at >= htNow - HtIdle})
  /\ htRates' = htOnly(htRates, {c \in DOMAIN htRates : htNow - htRates[c] <= HtIdle})
  /\ htQuiet' = htOnly(htQuiet, quietKept)
  /\ UNCHANGED <<htTold, htNow>>

htTick ==
  /\ htNow < HtMaxTime /\ htNow' = htNow + 1
  /\ UNCHANGED <<htPaths, htErrors, htRates, htQuiet, htTold>>

\* The tables share nothing but the cleanup.
pathSteps == \E c \in HtClients :
  \/ \E p \in HtPaths : updatePathEntropy(c, p)
  \/ \E f \in HtPrints : checkJA4Consistency(c, f)
errorSteps == \E c \in HtClients, s \in HtStatuses : trackHTTPErrors(c, s)
rateSteps == \E c \in HtClients : updateHTTPRate(c) \/ shouldEmitLatencyAnomaly(c)
tableSteps == cleanupTrackingMaps \/ htTick

HTTPTrackingNext == pathSteps \/ errorSteps \/ rateSteps \/ tableSteps

HTTPTrackingSpec == HTTPTrackingInit /\ [][HTTPTrackingNext]_htVars

-----------------------------------------------------------------------------
(* Properties. *)

\* The counters the entropy is computed from are those of the events in the
\* window, whatever was pruned from it, by age or by number.
HtPathsExact ==
  \A c \in DOMAIN htPaths :
    LET w == htPaths[c] IN
    /\ w.total = Len(w.events)
    /\ \A p \in HtPaths : w.counts[p] = Cardinality({i \in DOMAIN w.events : w.events[i].path = p})

\* A streak is made of requests that were made: as far back as the window
\* reaches, the requests it counts are successive and nothing came between but
\* paths with digits that do not parse.
HtStreakReal ==
  \A c \in DOMAIN htPaths : \A k \in htKinds :
    LET events == htPaths[c].events
        parsed == {i \in DOMAIN events : ~unparsed(events[i].path, k)}
        counted == {i \in parsed : Cardinality({j \in parsed : j >= i}) <= htPaths[c].streak[k]} IN
    \A i \in counted :
      /\ events[i].path.kind = k
      /\ \A j \in counted :
           j < i /\ (\A m \in parsed : m <= j \/ m >= i) => events[i].path.n = events[j].path.n + 1

\* The 404 and 403 counts a scanner is judged by are those of the window.
HtErrorsExact ==
  \A c \in DOMAIN htErrors :
    LET w == htErrors[c] IN
    w.n404 = numberOf(w.events, 404) /\ w.n403 = numberOf(w.events, 403)

\* Two latency anomalies of one client are reported at least the ttl apart, a
\* cleanup in between included.
HtAnomaliesSpaced ==
  [][\A c \in HtClients :
       (htTold[c]' # htTold[c] /\ htTold[c] # -1) => htTold[c]' - htTold[c] >= HtQuiet]_htVars

\* Counters and streaks kept beside the windows are those of the windows, and
\* an anomaly is not told again too soon, whatever was pruned (the trackers of
\* processHTTPRequest).
TrackingExact ==
  /\ [](HtPathsExact /\ HtStreakReal /\ HtErrorsExact)
  /\ HtAnomaliesSpaced
=============================================================================
