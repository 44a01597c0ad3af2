------------------------------- MODULE Campaign -------------------------------
(***************************************************************************)
(* Attack campaigns (pkg/analyzer/aidetection/campaign.go,                 *)
(* campaign_events.go, campaign_baseline.go, udp_classifier.go, and        *)
(* evaluateCampaigns in engine.go).  A signal goes to three rollups: its   *)
(* destination subnet's, its collector's and the global one.  A rollup     *)
(* keeps the events of a sliding window in arrival order, although the     *)
(* collectors' timestamps arrive out of order: every event remembers the   *)
(* highest timestamp seen before it, and the rollup the largest lag, so    *)
(* that pruning may stop early.  Evaluation runs on the workers' tick and  *)
(* feeds an adaptive baseline.                                             *)
(*                                                                         *)
(* A signal is a record of what the code tells apart; rates are in half    *)
(* events a window, so that the growth cap of 1.5 stays an integer.        *)
(***************************************************************************)
EXTENDS Integers, Sequences, FiniteSets, SequencesExt, FiniteSetsExt

CONSTANTS
  CmpSignals,     \* records: type, source, udp, hint, collector, subnet, ip, port, src, weight
  CmpLags,        \* how far a signal's timestamp may lie behind the clock
  CmpWindow, CmpRetention, CmpMinSignals, CmpMinIPs, CmpMinSubnets, CmpMinPorts,
  CmpMinSources, CmpWeakSource, CmpWeakSignal,
  CmpMaxCampaigns, CmpMaxEvents,
  CmpMaxKeys, CmpTau, \* the baseline's; MinRate is 1
  CmpMaxRecords,  \* bound of the model: signals recorded
  CmpMaxTime      \* bound of the model: the clock

ASSUME CmpAssumption ==
  /\ CmpLags \subseteq Nat
  /\ CmpWindow \in Nat \ {0} /\ CmpRetention \in Nat /\ CmpRetention >= CmpWindow
  /\ CmpMaxEvents \in Nat \ {0} /\ CmpMaxCampaigns \in Nat \ {0}

VARIABLES
  campaigns,   \* the live campaigns, by key
  episodeSeq,
  cmpStates,   \* CampaignBaselineTracker.states
  cmpRun,      \* the evaluation in progress: the keys it has still to report
  cmpNow,      \* the clock
  cmpRecords,  \* signals recorded
  cmpLog,      \* auxiliary: what each campaign was given, in order, until it has ended and aged out
  cmpDead,     \* auxiliary: the ids of the campaigns that have ended
  cmpFed       \* auxiliary: how often each episode fed the baseline, since when

cmpVars == <<campaigns, episodeSeq, cmpStates, cmpRun, cmpNow, cmpRecords, cmpLog, cmpDead, cmpFed>>

cmpEmpty == [k \in {} |-> 0]

CampaignInit ==
  /\ campaigns = cmpEmpty /\ cmpStates = cmpEmpty /\ cmpLog = cmpEmpty /\ cmpFed = cmpEmpty
  /\ episodeSeq = 0 /\ cmpNow = CmpWindow /\ cmpRecords = 0
  /\ cmpRun = [pc |-> "idle", todo |-> {}]
  /\ cmpDead = {}

cmpWithout(f, ks) == [k \in DOMAIN f \ ks |-> f[k]]
cmpWith(f, k, v) == [x \in DOMAIN f \cup {k} |-> IF x = k THEN v ELSE f[x]]
MostOf(S) == CHOOSE x \in S : \A y \in S : y <= x
LeastOf(S) == CHOOSE x \in S : \A y \in S : x <= y

\* The places of S in their order, and what a sequence holds at them.
placesIn(S) == [n \in 1..Cardinality(S) |-> CHOOSE i \in S : Cardinality({j \in S : j <= i}) = n]
heldAt(s, S) == [n \in 1..Cardinality(S) |-> s[placesIn(S)[n]]]

-----------------------------------------------------------------------------
(* The vector of a signal. *)

reflections == <<[vector |-> "dns", port |-> 53], [vector |-> "ntp", port |-> 123],
                 [vector |-> "ssdp", port |-> 1900], [vector |-> "cldap", port |-> 389],
                 [vector |-> "memcached", port |-> 11211]>>

\* udp: "no" for a signal of another transport, "denied" for a UDP source whose
\* metadata names another one.  hint: the protocol the metadata indicates.
classifyUDPAttackVector(s) ==
  LET hits == {i \in DOMAIN reflections :
                 s.hint = reflections[i].vector \/ s.port = reflections[i].port}
  IN CASE s.udp = "no"                      -> s.type
       [] s.udp = "denied"                  -> "udp_flood"
       [] s.udp = "yes" /\ s.port = 443 /\ s.hint = "quic" -> "quic_initial"
       [] OTHER -> IF hits = {} THEN "udp_flood" ELSE reflections[LeastOf(hits)].vector

campaignKey(s, collector, subnet) ==
  [vector |-> classifyUDPAttackVector(s), source |-> s.source, collector |-> collector, subnet |-> subnet]

\* The three rollups of a signal, in the order they are recorded.
rollupsOf(s) ==
  <<campaignKey(s, s.collector, s.subnet), campaignKey(s, s.collector, "any"), campaignKey(s, "any", "any")>>

campaignScope(k) ==
  CASE k.subnet = "any" /\ k.collector = "any" -> "global_aggregate"
    [] k.subnet = "any" /\ k.collector # "any" -> "subnet_aggregate"
    [] OTHER -> "specific"

-----------------------------------------------------------------------------
(* campaignEvents: [ring, highWater, maxLag]. *)

\* The largest lag so far, behind the highest timestamp.
maxLagAfter(e, high, at) == MostOf({e.maxLag, high - at})

cmpPush(e, s, at) ==
  LET high == IF e.ring = <<>> \/ at > e.highWater THEN at ELSE e.highWater
  IN [ring      |-> Append(e.ring, [sig |-> s, at |-> at, highWater |-> high]),
      highWater |-> high,
      maxLag    |-> maxLagAfter(e, high, at)]

trimTo(e) ==
  [e EXCEPT !.ring = IF Len(@) > CmpMaxEvents THEN SubSeq(@, Len(@) - CmpMaxEvents + 1, Len(@)) ELSE @]

\* The live timestamps among the first n events.
liveBefore(e, n, cutoff) == {e.ring[i].at : i \in {j \in 1..n : e.ring[j].at >= cutoff}}

\* scanExpiredPrefix: the number of events read before no later one can be
\* older than the earliest live one.
scanExpired(e, cutoff) ==
  LET n == Len(e.ring)
      stops == {i \in 1..n :
                  LET live == liveBefore(e, i - 1, cutoff)
                  IN live # {} /\ e.ring[i].highWater - e.maxLag >= LeastOf(live)}
  IN IF stops = {} THEN n ELSE LeastOf(stops) - 1

\* latestTimestamp: backwards, until no earlier event can be newer.
latestTimestamp(ring) ==
  LET n == Len(ring)
      latestFrom(i) == MostOf({ring[j].at : j \in i..n})
      stops == {i \in 1..(n - 1) : ring[i].highWater <= latestFrom(i + 1)}
  IN latestFrom(IF stops = {} THEN 1 ELSE MostOf(stops) + 1)

\* compactPrefix: past the place where the scan stopped every event stays.
compacted(e, stop, cutoff) ==
  heldAt(e.ring, {i \in 1..Len(e.ring) : i > stop \/ e.ring[i].at >= cutoff})

\* PruneBefore: the events left, and the first and last timestamps it reports.
pruneBefore(e, cutoff) ==
  LET stop == scanExpired(e, cutoff)
      ring == compacted(e, stop, cutoff)
  IN IF ring = <<>>
     THEN [events |-> [ring |-> <<>>, highWater |-> 0, maxLag |-> 0], ok |-> FALSE]
     ELSE [events |-> [e EXCEPT !.ring = ring], ok |-> TRUE,
           first |-> LeastOf(liveBefore(e, stop, cutoff)), last |-> latestTimestamp(ring)]

cutoffAt(now) == now - CmpWindow

pruneCampaign(c, now) ==
  IF c.events.ring = <<>> \/ c.firstSeen >= cutoffAt(now) THEN c
  ELSE LET p == pruneBefore(c.events, cutoffAt(now))
       IN IF p.ok THEN [c EXCEPT !.events = p.events, !.firstSeen = p.first, !.lastSeen = p.last]
          ELSE [c EXCEPT !.events = p.events]

-----------------------------------------------------------------------------
(* Record. *)

newCampaign(at, episode) ==
  [firstSeen |-> at, lastSeen |-> 0, episode |-> episode, lastReason |-> "", lastDetection |-> 0,
   lastObserve |-> 0, events |-> [ring |-> <<>>, highWater |-> 0, maxLag |-> 0]]

\* episodeSeq++.
nextEpisode(cs, seq) == seq + 1

\* A campaign with one more signal.
withSignal(c, s, at) ==
  LET grown == [c EXCEPT !.firstSeen = LeastOf({@, at}), !.lastSeen = MostOf({@, at}),
                         !.events = cmpPush(@, s, at)]
      pruned == pruneCampaign(grown, at)
  IN [pruned EXCEPT !.events = trimTo(@)]

\* recordLocked, on the campaigns, the sequence number and the log.
recordLocked(st, k, s, at) ==
  LET new == k \notin DOMAIN st.campaigns
      c == IF new THEN newCampaign(at, nextEpisode(st.campaigns, st.seq)) ELSE st.campaigns[k]
      log == IF new THEN <<>> ELSE st.log[k]
  IN IF new /\ Cardinality(DOMAIN st.campaigns) >= CmpMaxCampaigns THEN st
     ELSE [campaigns |-> cmpWith(st.campaigns, k, withSignal(c, s, at)),
           seq       |-> IF new THEN c.episode ELSE st.seq,
           log       |-> cmpWith(st.log, k, Append(log, [sig |-> s, at |-> at]))]

CampaignRecord(s, lag) ==
  LET at == cmpNow - lag
      rs == rollupsOf(s)
      st0 == [campaigns |-> campaigns, seq |-> episodeSeq, log |-> cmpLog]
      st1 == recordLocked(st0, rs[1], s, at)
      st2 == recordLocked(st1, rs[2], s, at)
      st3 == recordLocked(st2, rs[3], s, at)
  IN /\ cmpRun.pc # "report"   \* the aggregator's mutex is free
     /\ cmpRecords < CmpMaxRecords
     /\ cmpRecords' = cmpRecords + 1
     /\ campaigns' = st3.campaigns /\ episodeSeq' = st3.seq /\ cmpLog' = st3.log
     /\ UNCHANGED <<cmpStates, cmpRun, cmpNow, cmpDead, cmpFed>>

-----------------------------------------------------------------------------
(* evaluateCampaignLocked. *)

cmpValues(ring, field) == {ring[i].sig[field] : i \in 1..Len(ring)}

weightSum(ring, S) == FoldSet(LAMBDA i, w : w + ring[i].sig.weight, 0, S)

weakSources(ring) ==
  /\ Cardinality(cmpValues(ring, "src")) >= CmpMinSources
  /\ \A src \in cmpValues(ring, "src") :
       weightSum(ring, {i \in 1..Len(ring) : ring[i].sig.src = src}) <= CmpWeakSource
  /\ weightSum(ring, 1..Len(ring)) <= CmpWeakSignal * Len(ring)

distinctRollup(k, ring) ==
  CASE campaignScope(k) = "global_aggregate" -> Cardinality(cmpValues(ring, "collector")) > 1
    [] campaignScope(k) = "subnet_aggregate" -> Cardinality(cmpValues(ring, "subnet") \ {"unknown"}) > 1
    [] OTHER -> TRUE

\* The reason of a detection, "" for none.
reasonOf(k, c) ==
  LET ring == c.events.ring
      specific == campaignScope(k) = "specific"
  IN CASE Len(ring) < CmpMinSignals \/ ~distinctRollup(k, ring) -> ""
       [] OTHER ->
          IF Cardinality(cmpValues(ring, "subnet") \ {"unknown"}) >= CmpMinSubnets
          THEN "destination_subnet_breadth"
          ELSE IF specific /\ Cardinality(cmpValues(ring, "ip") \ {""}) >= CmpMinIPs
          THEN "destination_ip_breadth"
          ELSE IF specific /\ Cardinality(cmpValues(ring, "port") \ {0}) >= CmpMinPorts
          THEN "destination_port_breadth"
          ELSE IF weakSources(ring) THEN "weak_source_breadth" ELSE ""

-----------------------------------------------------------------------------
(* CampaignBaselineTracker. *)

cmpMinRate == 2

\* capGrowthLocked.
capGrowth(old, new) == LeastOf({new, MostOf({old, (3 * MostOf({old, cmpMinRate})) \div 2})})

\* The value kept of the new average: at most half as much again.
cmpGrown(old, new) == IF new <= old THEN new ELSE capGrowth(old, new)

\* campaignBaselineKey: scope, vector and the commonest port, the least on a tie.
baselineKey(k, c) ==
  LET ring == c.events.ring
      uses(p) == Cardinality({i \in 1..Len(ring) : ring[i].sig.port = p})
      ports == cmpValues(ring, "port") \ {0}
      best == {p \in ports : \A q \in ports : uses(q) <= uses(p)}
  IN <<campaignScope(k), k.vector, IF ports = {} THEN 0 ELSE LeastOf(best)>>

\* The states before an observation: more than MaxKeys are pruned, then wiped.
statesRoom ==
  LET old == {b \in DOMAIN cmpStates : cmpStates[b].seen < cmpNow - 2 * CmpTau}
      left == cmpWithout(cmpStates, old)
  IN IF Cardinality(DOMAIN cmpStates) <= CmpMaxKeys THEN cmpStates
     ELSE IF Cardinality(DOMAIN left) <= CmpMaxKeys THEN left ELSE cmpEmpty

\* Observe: the moving average lies between its old value and the rate.
cmpObserve(b, rate) ==
  LET states == statesRoom
  IN IF b \notin DOMAIN states
     THEN cmpStates' = cmpWith(states, b, [value |-> rate, samples |-> 1, seen |-> cmpNow, first |-> rate])
     ELSE LET st == states[b]
          IN \E v \in (LeastOf({st.value, rate}))..(MostOf({st.value, rate})) :
               cmpStates' = cmpWith(states, b,
                 [st EXCEPT !.value = cmpGrown(st.value, v), !.samples = @ + 1, !.seen = cmpNow])

-----------------------------------------------------------------------------
(* Evaluate and ActiveCampaigns, which prune and delete alike. *)

cmpSwept == [k \in DOMAIN campaigns |-> pruneCampaign(campaigns[k], cmpNow)]

\* The places of the events of the window.
cmpFresh(s) == {i \in 1..Len(s) : s[i].at >= cutoffAt(cmpNow)}

cmpOver == {k \in DOMAIN campaigns :
           cmpSwept[k].events.ring = <<>> \/ cmpNow - cmpSwept[k].lastSeen > CmpRetention}

cmpSweep ==
  /\ campaigns' = cmpWithout(cmpSwept, cmpOver)
  /\ cmpLog' = cmpWithout(cmpLog, {k \in DOMAIN cmpLog :
                  (k \in cmpOver \/ k \notin DOMAIN campaigns) /\ cmpFresh(cmpLog[k]) = {}})
  /\ cmpDead' = cmpDead \cup {<<k, campaigns[k].episode>> : k \in cmpOver}

\* With nothing left to report Evaluate lets the mutex go, and its caller's
\* ActiveCampaigns takes it again.
afterReport(todo) == [pc |-> IF todo = {} THEN "active" ELSE "report", todo |-> todo]

\* Evaluate takes the mutex; the campaigns with a reason remain to be reported.
CampaignEvaluate ==
  /\ cmpRun.pc = "idle" /\ DOMAIN campaigns # {}
  /\ cmpSweep
  /\ cmpRun' = afterReport({k \in DOMAIN cmpSwept \ cmpOver : reasonOf(k, cmpSwept[k]) # ""})
  /\ UNCHANGED <<episodeSeq, cmpStates, cmpNow, cmpRecords, cmpFed>>

\* Mutant: a changed reason feeds the baseline again.
feedsBaselineOnReason(c, reason) ==
  c.lastObserve = 0 \/ cmpNow - c.lastObserve >= CmpWindow \/ c.lastReason # reason

\* The baseline is fed once a window, whatever the reason.
feedsBaseline(c, reason) == c.lastObserve = 0 \/ cmpNow - c.lastObserve >= CmpWindow

\* What a report notes of the campaign.
noted(c, reason) ==
  LET repeated == c.lastReason = reason /\ c.lastDetection # 0 /\ cmpNow - c.lastDetection < CmpWindow
  IN [c EXCEPT !.lastObserve   = IF feedsBaseline(c, reason) THEN cmpNow ELSE @,
               !.lastReason    = reason,
               !.lastDetection = IF repeated THEN @ ELSE cmpNow]

\* One campaign of the loop, in the order of the map's iteration.
cmpReport(k) ==
  LET c == campaigns[k]
      reason == reasonOf(k, c)
  IN /\ cmpRun.pc = "report" /\ k \in cmpRun.todo
     /\ cmpRun' = afterReport(cmpRun.todo \ {k})
     /\ campaigns' = [campaigns EXCEPT ![k] = noted(c, reason)]
     /\ \/ /\ feedsBaseline(c, reason)
           /\ cmpObserve(baselineKey(k, c), 2 * Len(c.events.ring))
           /\ cmpFed' = cmpWith(cmpFed, c.episode,
                IF c.episode \in DOMAIN cmpFed THEN [cmpFed[c.episode] EXCEPT !.n = @ + 1]
                ELSE [n |-> 1, since |-> cmpNow])
        \/ ~feedsBaseline(c, reason) /\ UNCHANGED <<cmpStates, cmpFed>>
     /\ UNCHANGED <<episodeSeq, cmpNow, cmpRecords, cmpLog, cmpDead>>

ActiveCampaigns ==
  /\ cmpRun.pc = "active"
  /\ cmpSweep
  /\ cmpRun' = [cmpRun EXCEPT !.pc = "idle"]
  /\ UNCHANGED <<episodeSeq, cmpStates, cmpNow, cmpRecords, cmpFed>>

cmpTick ==
  /\ cmpRun.pc # "report" /\ cmpNow < CmpMaxTime
  /\ cmpNow' = cmpNow + 1
  /\ UNCHANGED <<campaigns, episodeSeq, cmpStates, cmpRun, cmpRecords, cmpLog, cmpDead, cmpFed>>

CampaignNext ==
  \/ \E s \in CmpSignals, lag \in CmpLags : CampaignRecord(s, lag)
  \/ CampaignEvaluate \/ ActiveCampaigns \/ cmpTick
  \/ \E k \in cmpRun.todo : cmpReport(k)

CampaignSpec == CampaignInit /\ [][CampaignNext]_cmpVars

-----------------------------------------------------------------------------
(* Properties. *)

\* PruneBefore, which stops early in both directions, does what reading every
\* event would do: of the events of a rollup, in whatever order their
\* timestamps arrived, exactly those older than the cutoff go, and it reports
\* the first and last timestamps of the rest.
CmpPruneExact ==
  \A k \in DOMAIN campaigns : \A cutoff \in cutoffAt(cmpNow)..(cmpNow + 1) :
    LET e == campaigns[k].events
        p == pruneBefore(e, cutoff)
        left == heldAt(e.ring, {i \in 1..Len(e.ring) : e.ring[i].at >= cutoff})
        times == {left[i].at : i \in 1..Len(left)}
    IN /\ p.events.ring = left
       /\ left # <<>> => p.first = LeastOf(times) /\ p.last = MostOf(times)

\* No signal of the current window is missing from the rollups that took it:
\* neither a late timestamp, nor the pruning of Record, nor the deletion of
\* idle campaigns loses one, save the oldest once a rollup is full.
CmpWindowComplete ==
  \A k \in DOMAIN cmpLog :
    LET fresh(s) == heldAt([i \in 1..Len(s) |-> [sig |-> s[i].sig, at |-> s[i].at]], cmpFresh(s))
        given == fresh(cmpLog[k])
        kept == fresh(IF k \in DOMAIN campaigns THEN campaigns[k].events.ring ELSE <<>>)
    IN /\ IsSuffix(kept, given)
       /\ Len(cmpLog[k]) <= CmpMaxEvents => kept = given

\* A campaign id names one campaign: a burst that comes after the last campaign
\* of its key has aged out never takes up the old id.
CmpIdsFresh == \A k \in DOMAIN campaigns : <<k, campaigns[k].episode>> \notin cmpDead

\* A campaign trains the baseline once a window at most, however often its
\* reason changes and however often it is evaluated.
CmpTrainsOncePerWindow ==
  \A e \in DOMAIN cmpFed : cmpFed[e].n <= 1 + (cmpNow - cmpFed[e].since) \div CmpWindow

\* What growing by half at each observation makes of MinRate or a higher rate.
growthCap(first) ==
  LET cap[n \in Nat] == IF n <= 1 THEN MostOf({first, cmpMinRate}) ELSE (3 * cap[n - 1]) \div 2
  IN cap

\* The baseline cannot be dragged to an attack's own rate: after n observations
\* it is at most what n - 1 growths by half make of where it began (or MinRate).
CmpBaselineSlow ==
  \A b \in DOMAIN cmpStates : cmpStates[b].value <= growthCap(cmpStates[b].first)[cmpStates[b].samples]

\* Campaigns are made of the signals of their window and of no others, under
\* ids of their own, and an attack does not train the baseline it is measured
\* by (Record, PruneBefore, Evaluate, observeBaselineLocked).
CampaignsSound ==
  /\ CmpPruneExact
  /\ CmpWindowComplete
  /\ CmpIdsFresh
  /\ CmpTrainsOncePerWindow
  /\ CmpBaselineSlow
=============================================================================
