--------------------------- MODULE CollectorProofs ----------------------------
(***************************************************************************)
(* Proofs about the collector: the polls of the kernel's maps, the         *)
(* allowlists and block table it keeps there, its link to the analyzer.     *)
(***************************************************************************)
EXTENDS EgressPoll, RatePoll, HandshakePoll, BlockTable, AnalyzerLink,
        FiniteSetTheorems, SequenceTheorems, WellFoundedInduction, TLAPS
-----------------------------------------------------------------------------
(***************************************************************************)
(* EgressPoll.                                                             *)
(***************************************************************************)

\* What a client was told and what the next poll would credit to it were sent:
\* either the counter began anew after all that was told, or it runs on from the
\* shadow entry.
EgCredit(c) ==
  \/ egTold[c] + egBytes[c] <= egSent[c]
  \/ egPrev[c].bytes <= egBytes[c] /\ egTold[c] + egBytes[c] - egPrev[c].bytes <= egSent[c]

EgTyped ==
  /\ egSent \in [EgClients -> Nat]
  /\ egTold \in [EgClients -> Nat]
  /\ \A c \in DOMAIN egBytes : egBytes[c] \in Nat
  /\ \A c \in DOMAIN egPrev : egPrev[c].bytes \in Nat

EgInv ==
  /\ EgTyped
  /\ EgNeverOver
  /\ \A c \in EgClients : c \in DOMAIN egBytes /\ c \in DOMAIN egPrev => EgCredit(c)

\* A packet grows the counter, or starts it, by what it adds to the bytes sent.
LEMMA TransmitKeeps ==
  ASSUME EgInv, NEW c \in EgClients, NEW len \in EgSizes, transmit(c, len)
  PROVE  EgInv'
<1> DEFINE n == IF c \in DOMAIN egBytes THEN egBytes[c] + len ELSE len
<1>1. /\ UNCHANGED <<egPrev, egTold>>
      /\ egSent' = [egSent EXCEPT ![c] = @ + len]
      /\ egBytes' = egPut(egBytes, c, n)
  BY DEF transmit
<1>2. len \in Nat /\ n \in Nat
  BY EgAssumption DEF EgInv, EgTyped
<1>3. /\ c \in DOMAIN egBytes => n = egBytes[c] + len
      /\ c \notin DOMAIN egBytes => n = len
  OBVIOUS
<1> HIDE DEF n
<1>4. /\ DOMAIN egBytes' = DOMAIN egBytes \cup {c}
      /\ egBytes'[c] = n
      /\ \A x \in DOMAIN egBytes : x # c => egBytes'[x] = egBytes[x]
  BY <1>1 DEF egPut
<1>5. /\ egSent'[c] = egSent[c] + len
      /\ \A x \in EgClients : x # c => egSent'[x] = egSent[x]
      /\ egSent' \in [EgClients -> Nat]
  BY <1>1, <1>2 DEF EgInv, EgTyped
<1>6. EgTyped'
  BY <1>1, <1>2, <1>4, <1>5 DEF EgInv, EgTyped
<1>7. \A x \in EgClients : egSent[x] \in Nat /\ egTold[x] \in Nat /\ egSent'[x] \in Nat
  BY <1>5 DEF EgInv, EgTyped
<1>8. EgNeverOver'
  BY <1>1, <1>2, <1>5, <1>7 DEF EgInv, EgNeverOver
<1>9. ASSUME NEW x \in EgClients, x \in DOMAIN egBytes', x \in DOMAIN egPrev'
      PROVE  EgCredit(x)'
  <2>1. CASE x # c
    BY <1>1, <1>4, <1>5, <1>9, <2>1 DEF EgInv, EgCredit
  <2>2. CASE x = c /\ c \in DOMAIN egBytes
    <3>1. /\ EgCredit(c) /\ egBytes[c] \in Nat /\ egPrev[c].bytes \in Nat
          /\ egBytes'[c] = egBytes[c] + len
      BY <1>1, <1>3, <1>4, <1>9, <2>2 DEF EgInv, EgTyped
    <3> QED BY <1>1, <1>2, <1>5, <1>7, <2>2, <3>1 DEF EgCredit
  <2>3. CASE x = c /\ c \notin DOMAIN egBytes
    <3>1. egTold[c] <= egSent[c] /\ egBytes'[c] = len
      BY <1>3, <1>4, <2>3 DEF EgInv, EgNeverOver
    <3> QED BY <1>1, <1>2, <1>5, <1>7, <2>3, <3>1 DEF EgCredit
  <2> QED BY <2>1, <2>2, <2>3
<1> QED BY <1>6, <1>8, <1>9 DEF EgInv

\* A poll credits no more than was sent and not told.
LEMMA VisitKeeps ==
  ASSUME EgInv, NEW c \in EgClients, visit(c)
  PROVE  EgInv'
<1>1. CASE c \notin DOMAIN egBytes
  <2>1. UNCHANGED <<egBytes, egPrev, egSent, egTold>>
    BY <1>1 DEF visit
  <2> QED BY <2>1 DEF EgInv, EgTyped, EgNeverOver, EgCredit
<1>2. CASE c \in DOMAIN egBytes
  <2> DEFINE d == deltaEgress(c, egBytes[c])
             e == [bytes |-> egBytes[c], seen |-> egPoll.now]
  <2>1. /\ UNCHANGED <<egBytes, egSent>>
        /\ egPrev' = egPut(egPrev, c, e)
        /\ egTold' = [egTold EXCEPT ![c] = @ + d] \/ egTold' = egTold
    BY <1>2 DEF visit
  <2>2. /\ egBytes[c] \in Nat /\ egSent[c] \in Nat /\ egTold[c] \in Nat
        /\ egTold[c] <= egSent[c]
    BY <1>2 DEF EgInv, EgTyped, EgNeverOver
  <2>3. d \in Nat /\ egTold[c] + d <= egSent[c]
    <3>1. CASE c \notin DOMAIN egPrev
      BY <2>2, <3>1 DEF deltaEgress, firstSight
    <3>2. CASE c \in DOMAIN egPrev
      <4>1. egPrev[c].bytes \in Nat /\ EgCredit(c)
        BY <1>2, <3>2 DEF EgInv, EgTyped
      <4> QED BY <2>2, <3>2, <4>1 DEF deltaEgress, EgCredit
    <3> QED BY <3>1, <3>2
  <2>4. e.bytes = egBytes[c]
    OBVIOUS
  <2> HIDE DEF d, e
  <2>5. /\ DOMAIN egPrev' = DOMAIN egPrev \cup {c}
        /\ egPrev'[c] = e
        /\ \A x \in DOMAIN egPrev : x # c => egPrev'[x] = egPrev[x]
    BY <2>1 DEF egPut
  <2>6. /\ egTold' \in [EgClients -> Nat]
        /\ egTold'[c] \in Nat /\ egTold'[c] <= egSent[c]
        /\ \A x \in EgClients : x # c => egTold'[x] = egTold[x]
    BY <2>1, <2>2, <2>3 DEF EgInv, EgTyped
  <2>7. EgTyped'
    BY <2>1, <2>2, <2>4, <2>5, <2>6 DEF EgInv, EgTyped
  <2>8. EgNeverOver'
    BY <2>1, <2>6 DEF EgInv, EgNeverOver
  <2>9. ASSUME NEW x \in EgClients, x \in DOMAIN egBytes', x \in DOMAIN egPrev'
        PROVE  EgCredit(x)'
    <3>1. CASE x # c
      BY <2>1, <2>5, <2>6, <2>9, <3>1 DEF EgInv, EgCredit
    <3>2. CASE x = c
      BY <2>1, <2>2, <2>4, <2>5, <2>6, <3>2 DEF EgCredit
    <3> QED BY <3>1, <3>2
  <2> QED BY <2>7, <2>8, <2>9 DEF EgInv
<1> QED BY <1>1, <1>2

\* However counters are evicted, shadow entries pruned and the collector
\* restarted, no client is reported more bytes than were sent to it
\* (deltaEgress, pruneEgressState).
THEOREM EgressNeverOver == EgressPollSpec => []EgNeverOver
<1>1. EgressPollInit => EgInv
  <2> SUFFICES ASSUME EgressPollInit PROVE EgInv
    OBVIOUS
  <2>1. /\ DOMAIN egBytes = {} /\ DOMAIN egPrev = {}
        /\ egSent \in [EgClients -> Nat] /\ egTold \in [EgClients -> Nat]
        /\ \A c \in EgClients : egTold[c] = 0 /\ egSent[c] = 0
    BY DEF EgressPollInit, egNone
  <2> QED BY <2>1 DEF EgInv, EgTyped, EgNeverOver
<1>2. EgInv /\ [EgressPollNext]_egVars => EgInv'
  <2> SUFFICES ASSUME EgInv, [EgressPollNext]_egVars PROVE EgInv'
    OBVIOUS
  <2>1. ASSUME NEW c \in EgClients, NEW len \in EgSizes, transmit(c, len) PROVE EgInv'
    BY <2>1, TransmitKeeps
  <2>2. ASSUME NEW c \in EgClients, egEvict(c) PROVE EgInv'
    <3>1. /\ UNCHANGED <<egPrev, egSent, egTold>>
          /\ DOMAIN egBytes' \subseteq DOMAIN egBytes
          /\ \A x \in DOMAIN egBytes' : egBytes'[x] = egBytes[x]
      BY <2>2 DEF egEvict
    <3> QED BY <3>1 DEF EgInv, EgTyped, EgNeverOver, EgCredit
  <2>3. ASSUME NEW c \in EgClients, visit(c) PROVE EgInv'
    BY <2>3, VisitKeeps
  <2>4. CASE egTick \/ pollEgress \/ UNCHANGED egVars
    <3>1. UNCHANGED <<egBytes, egPrev, egSent, egTold>>
      BY <2>4 DEF egTick, pollEgress, egVars
    <3> QED BY <3>1 DEF EgInv, EgTyped, EgNeverOver, EgCredit
  <2>5. CASE pruneEgress
    <3> DEFINE young == {c \in DOMAIN egPrev : egPrev[c].seen >= egNow - EgTTL}
    <3>1. /\ UNCHANGED <<egBytes, egSent, egTold>>
          /\ egPrev' = egNone \/ egPrev' = [c \in young |-> egPrev[c]]
      BY <2>5 DEF pruneEgress
    <3>2. /\ DOMAIN egPrev' \subseteq DOMAIN egPrev
          /\ \A x \in DOMAIN egPrev' : egPrev'[x] = egPrev[x]
      BY <3>1 DEF egNone
    <3> QED BY <3>1, <3>2 DEF EgInv, EgTyped, EgNeverOver, EgCredit
  <2>6. CASE egRestart
    <3>1. UNCHANGED <<egSent, egTold>> /\ DOMAIN egBytes' = {} /\ DOMAIN egPrev' = {}
      BY <2>6 DEF egRestart, egNone
    <3> QED BY <3>1 DEF EgInv, EgTyped, EgNeverOver
  <2> QED BY <2>1, <2>2, <2>3, <2>4, <2>5, <2>6 DEF EgressPollNext
<1>3. EgInv => EgNeverOver
  BY DEF EgInv
<1> QED BY <1>1, <1>2, <1>3, PTL DEF EgressPollSpec
-----------------------------------------------------------------------------
(***************************************************************************)
(* RatePoll.                                                               *)
(***************************************************************************)

RpSample == [last : Nat, count : Nat]

\* The maps hold times up to now.
RpTyped ==
  /\ rpNow \in Nat /\ rpClock \in 0..rpNow
  /\ rpRate \in [DOMAIN rpRate -> RpSample]
  /\ \A s \in DOMAIN rpRate : s \in RpSources /\ rpRate[s].last <= rpNow
  /\ rpBad \in [DOMAIN rpBad -> 0..rpNow]
  /\ rpSeen \in [DOMAIN rpSeen -> 0..rpNow]
  /\ rpReached \in [RpSources -> Nat]

\* The poller at work.
RpPolling ==
  \/ rpPoll = rpIdle
  \/ /\ rpPoll = [pc |-> "rates", now |-> rpPoll.now, left |-> rpPoll.left, sent |-> rpPoll.sent]
     /\ rpPoll.now \in Nat
  \/ rpPoll = [pc |-> "flags", left |-> rpPoll.left, sent |-> rpPoll.sent]

\* The shadow map holds the samples of the full one that reach the threshold.
RpShadow ==
  /\ rpFull \in [DOMAIN rpFull -> RpSample]
  /\ DOMAIN rpPrev = {s \in DOMAIN rpFull : rpFull[s].count >= RpFlood}
  /\ rpPrev = [s \in DOMAIN rpPrev |-> rpFull[s]]

\* A sample was fresh when the poll that took it looked at the source, and the
\* rate clock is not behind it.
RpSampledFresh ==
  \A s \in DOMAIN rpPrev :
    /\ s \in RpSources /\ rpPrev[s].last <= rpClock
    /\ rpReached[s] # 0 => rpPrev[s].last >= rpReached[s] - RpMaxAge

\* A sighting that was alerted is still on record, or too old to be.
RpAlertsRecorded ==
  \A s \in DOMAIN rpAlert :
    /\ rpAlert[s].seen \in Nat
    /\ \/ s \in DOMAIN rpSeen /\ rpSeen[s] >= rpAlert[s].seen
       \/ ~freshIn(rpAlert[s].seen)

RpInv ==
  /\ RpTyped
  /\ RpPolling
  /\ RpShadow
  /\ RpSampledFresh
  /\ RpPeakRecent
  /\ RpAlertsRecorded
  /\ RpAlertsNew

\* The largest of some bounded numbers is one of them.
LEMMA LargestOf ==
  ASSUME NEW n \in Nat, NEW S \in SUBSET (0..n), S # {}
  PROVE  Max(S) \in S /\ \A y \in S : y <= Max(S)
<1> DEFINE T == {n - y : y \in S}
<1>1. T \subseteq Nat /\ T # {}
  <2>1. \A y \in S : n - y \in Nat
    OBVIOUS
  <2> QED BY <2>1
<1>2. PICK d \in T : \A e \in T : ~ (<<e, d>> \in OpToRel(<, Nat))
  BY <1>1, WFMin, NatLessThanWellFounded
<1>3. \A e \in T : d <= e
  <2> SUFFICES ASSUME NEW e \in T, e < d PROVE FALSE
    BY <1>1
  <2> HIDE DEF T
  <2>1. e \in Nat /\ d \in Nat
    BY <1>1
  <2>2. <<e, d>> \in OpToRel(<, Nat)
    BY <2>1 DEF OpToRel
  <2> QED BY <1>2, <2>2
<1>4. PICK m \in S : d = n - m
  OBVIOUS
<1>5. \A y \in S : m >= y
  <2> TAKE y \in S
  <2>1. d <= n - y
    BY <1>3
  <2> QED BY <1>4, <2>1
<1>6. Max(S) \in S /\ \A y \in S : Max(S) >= y
  BY <1>5 DEF Max
<1> QED BY <1>6

\* maxClock is the largest of the rate clock and the recorded sightings: the
\* samples are behind the rate clock.
LEMMA ClockOf ==
  ASSUME NEW now \in Nat, NEW clock \in 0..now, NEW seen,
         \A s \in DOMAIN seen : seen[s] \in 0..now,
         NEW S \in SUBSET (0..now),
         clock \in S, \A s \in DOMAIN seen : seen[s] \in S,
         \A x \in S : x <= clock \/ \E s \in DOMAIN seen : x = seen[s]
  PROVE  /\ Max(S) \in Nat /\ clock <= Max(S)
         /\ \A s \in DOMAIN seen : seen[s] <= Max(S)
         /\ Max(S) = clock \/ \E s \in DOMAIN seen : Max(S) = seen[s]
<1> DEFINE m == Max(S)
<1>1. m \in S /\ \A y \in S : y <= m
  BY LargestOf
<1> HIDE DEF m
<1>2. m \in Nat /\ clock <= m /\ \A s \in DOMAIN seen : seen[s] <= m
  BY <1>1
<1>3. m = clock \/ \E s \in DOMAIN seen : m = seen[s]
  BY <1>1, <1>2
<1> QED BY <1>2, <1>3 DEF m

\* The same of a state of the poll, and of the next one.
LEMMA MaxClockIs ==
  ASSUME RpInv
  PROVE  /\ maxClock \in Nat /\ rpClock <= maxClock
         /\ \A s \in DOMAIN rpSeen : rpSeen[s] <= maxClock
         /\ maxClock = rpClock \/ \E s \in DOMAIN rpSeen : maxClock = rpSeen[s]
<1>1. /\ rpNow \in Nat /\ rpClock \in 0..rpNow
      /\ \A s \in DOMAIN rpPrev : rpPrev[s].last \in Nat /\ rpPrev[s].last <= rpClock
      /\ \A s \in DOMAIN rpSeen : rpSeen[s] \in 0..rpNow
  BY DEF RpInv, RpTyped, RpShadow, RpSampledFresh, RpSample
<1> DEFINE S == {rpClock} \cup {rpPrev[s].last : s \in DOMAIN rpPrev}
                          \cup {rpSeen[s] : s \in DOMAIN rpSeen}
<1>2. /\ S \in SUBSET (0..rpNow)
      /\ rpClock \in S /\ \A s \in DOMAIN rpSeen : rpSeen[s] \in S
      /\ \A x \in S : x <= rpClock \/ \E s \in DOMAIN rpSeen : x = rpSeen[s]
  BY <1>1
<1>3. maxClock = Max(S)
  BY DEF maxClock
<1> HIDE DEF S
<1> QED BY <1>1, <1>2, <1>3, ClockOf

LEMMA NextMaxClockIs ==
  ASSUME RpTyped', RpShadow', RpSampledFresh'
  PROVE  /\ maxClock' \in Nat /\ rpClock' <= maxClock'
         /\ \A s \in DOMAIN rpSeen' : rpSeen'[s] <= maxClock'
         /\ maxClock' = rpClock' \/ \E s \in DOMAIN rpSeen' : maxClock' = rpSeen'[s]
<1>1. /\ rpNow' \in Nat /\ rpClock' \in 0..rpNow'
      /\ \A s \in DOMAIN rpPrev' : rpPrev'[s].last \in Nat /\ rpPrev'[s].last <= rpClock'
      /\ \A s \in DOMAIN rpSeen' : rpSeen'[s] \in 0..rpNow'
  BY DEF RpTyped, RpShadow, RpSampledFresh, RpSample
<1> DEFINE S == {rpClock'} \cup {rpPrev'[s].last : s \in DOMAIN rpPrev'}
                           \cup {rpSeen'[s] : s \in DOMAIN rpSeen'}
<1>2. /\ S \in SUBSET (0..rpNow')
      /\ rpClock' \in S /\ \A s \in DOMAIN rpSeen' : rpSeen'[s] \in S
      /\ \A x \in S : x <= rpClock' \/ \E s \in DOMAIN rpSeen' : x = rpSeen'[s]
  BY <1>1
<1>3. maxClock' = Max(S)
  BY DEF maxClock
<1> HIDE DEF S
<1> QED BY <1>1, <1>2, <1>3, ClockOf

\* What the clock has left behind stays so when the clock advances.
LEMMA OldStaysOld ==
  ASSUME maxClock \in Nat, maxClock' \in Nat, maxClock <= maxClock'
  PROVE  \A x \in Nat : ~freshIn(x) => ~freshIn(x)'
<1> SUFFICES ASSUME NEW x \in Nat, ~freshIn(x) PROVE ~freshIn(x)'
  OBVIOUS
<1>1. RpStale \in Nat
  BY RpAssumption
<1>2. ~(maxClock <= RpStale) /\ ~(x >= maxClock - RpStale)
  BY DEF freshIn
<1>3. ~(maxClock' <= RpStale) /\ ~(x >= maxClock' - RpStale)
  <2>1. \A m, n \in Nat : m <= n /\ ~(m <= RpStale) /\ ~(x >= m - RpStale)
                             => ~(n <= RpStale) /\ ~(x >= n - RpStale)
    BY <1>1
  <2> QED BY <1>2, <2>1
<1> QED BY <1>3 DEF freshIn

\* A step that leaves sightings and alerts alone, and does not turn the clock back.
LEMMA AlertsStay ==
  ASSUME RpInv, RpTyped', RpShadow', RpSampledFresh', UNCHANGED <<rpSeen, rpAlert>>,
         rpClock <= rpClock'
  PROVE  RpAlertsRecorded' /\ RpAlertsNew'
<1>1. maxClock \in Nat /\ maxClock' \in Nat /\ maxClock <= maxClock'
  <2>1. rpClock \in Nat /\ rpClock' \in Nat
    BY DEF RpInv, RpTyped
  <2> QED BY <2>1, MaxClockIs, NextMaxClockIs
<1>2. \A x \in Nat : ~freshIn(x) => ~freshIn(x)'
  BY <1>1, OldStaysOld
<1>3. RpAlertsRecorded'
  <2> SUFFICES ASSUME NEW s \in DOMAIN rpAlert'
               PROVE  /\ rpAlert'[s].seen \in Nat
                      /\ \/ s \in DOMAIN rpSeen' /\ rpSeen'[s] >= rpAlert'[s].seen
                         \/ ~freshIn(rpAlert[s].seen)'
    BY DEF RpAlertsRecorded
  <2> DEFINE x == rpAlert[s].seen
  <2>1. /\ x \in Nat /\ rpAlert'[s].seen = x
        /\ (s \in DOMAIN rpSeen /\ rpSeen[s] >= x) \/ ~freshIn(x)
    BY DEF RpInv, RpAlertsRecorded
  <2>2. \A y \in Nat : rpAlert'[s].seen = y /\ ~freshIn(y) => ~freshIn(rpAlert[s].seen)'
    BY <1>2 DEF freshIn
  <2> QED BY <2>1, <2>2
<1>4. RpAlertsNew'
  BY DEF RpInv, RpAlertsNew
<1> QED BY <1>3, <1>4
\* The steps of the kernel and the clock, and those that start a walk: the maps
\* of the collector stay.
LEMMA QuietPollKeeps ==
  ASSUME RpInv, RpTyped', RpPolling', RpPeakRecent',
         UNCHANGED <<rpPrev, rpFull, rpSeen, rpClock, rpReached, rpAlert>>
  PROVE  RpInv'
<1>1. RpShadow' /\ RpSampledFresh'
  BY DEF RpInv, RpShadow, RpSampledFresh
<1>2. rpClock <= rpClock'
  BY DEF RpInv, RpTyped
<1>3. RpAlertsRecorded' /\ RpAlertsNew'
  BY <1>1, <1>2, AlertsStay
<1> QED BY <1>1, <1>3 DEF RpInv

LEMMA KernelKeeps ==
  ASSUME RpInv, NEW s,
         \/ s \in RpSources /\ floodPacket(s)
         \/ s \in RpScanners /\ scan(s)
         \/ evict(s)
         \/ rpTick
  PROVE  RpInv'
<1>1. UNCHANGED <<rpPrev, rpFull, rpSeen, rpClock, rpPoll, rpReached, rpReport, rpAlert>>
  BY DEF floodPacket, scan, evict, rpTick
<1>2. RpPolling' /\ RpPeakRecent'
  BY <1>1 DEF RpInv, RpPolling, RpPeakRecent
<1>3. RpTyped
  BY DEF RpInv
<1>4. ASSUME s \in RpSources, floodPacket(s) PROVE RpTyped'
  <2>1. UNCHANGED <<rpBad, rpNow>>
    BY <1>4 DEF floodPacket
  <2>2. /\ rpRate' \in [DOMAIN rpRate' -> RpSample]
        /\ \A x \in DOMAIN rpRate' : x \in RpSources /\ rpRate'[x].last <= rpNow
    <3>1. CASE rpRate' = [rpRate EXCEPT ![s].count = @ + 1] /\ s \in DOMAIN rpRate
      BY <1>3, <3>1 DEF RpTyped, RpSample
    <3>2. CASE rpRate' = rpPut(rpRate, s, [last |-> rpNow, count |-> 1])
      <4> DEFINE r == [last |-> rpNow, count |-> 1]
      <4>1. r \in RpSample /\ r.last <= rpNow
        BY <1>3 DEF RpTyped, RpSample
      <4>2. rpRate' = rpPut(rpRate, s, r)
        BY <3>2
      <4> HIDE DEF r
      <4> QED BY <1>3, <1>4, <4>1, <4>2 DEF RpTyped, rpPut
    <3> QED BY <1>4, <3>1, <3>2 DEF floodPacket
  <2> QED BY <1>1, <1>3, <2>1, <2>2 DEF RpTyped
<1>5. ASSUME s \in RpScanners, scan(s) PROVE RpTyped'
  BY <1>1, <1>3, <1>5 DEF scan, RpTyped, rpPut
<1>6. ASSUME evict(s) PROVE RpTyped'
  <2>1. UNCHANGED rpNow /\ (rpRate' = rpDrop(rpRate, s) \/ rpRate' = rpRate)
        /\ (rpBad' = rpDrop(rpBad, s) \/ rpBad' = rpBad)
    BY <1>6 DEF evict
  <2>2. /\ rpRate' \in [DOMAIN rpRate' -> RpSample]
        /\ \A x \in DOMAIN rpRate' : x \in RpSources /\ rpRate'[x].last <= rpNow
    BY <1>3, <2>1 DEF RpTyped, rpDrop
  <2>3. rpBad' \in [DOMAIN rpBad' -> 0..rpNow]
    BY <1>3, <2>1 DEF RpTyped, rpDrop
  <2> QED BY <1>1, <1>3, <2>1, <2>2, <2>3 DEF RpTyped
<1>7. ASSUME rpTick PROVE RpTyped'
  <2>1. UNCHANGED <<rpRate, rpBad>> /\ rpNow' = rpNow + 1
    BY <1>7 DEF rpTick
  <2>2. rpNow' \in Nat /\ 0..rpNow \subseteq 0..rpNow'
    BY <1>3, <2>1 DEF RpTyped
  <2>3. \A x \in DOMAIN rpRate' : x \in RpSources /\ rpRate'[x].last <= rpNow'
    BY <1>3, <2>1 DEF RpTyped, RpSample
  <2>4. rpBad' \in [DOMAIN rpBad' -> 0..rpNow'] /\ rpSeen' \in [DOMAIN rpSeen' -> 0..rpNow']
    BY <1>1, <1>3, <2>1, <2>2 DEF RpTyped
  <2> QED BY <1>1, <1>3, <2>1, <2>2, <2>3, <2>4 DEF RpTyped
<1> QED BY <1>1, <1>2, <1>4, <1>5, <1>6, <1>7, QuietPollKeeps

LEMMA PollStartsKeep ==
  ASSUME RpInv, pollRates \/ pollFlags
  PROVE  RpInv'
<1>1. UNCHANGED <<rpRate, rpBad, rpPrev, rpFull, rpSeen, rpClock, rpReached, rpAlert, rpNow>>
  BY DEF pollRates, pollFlags
<1>2. RpTyped'
  BY <1>1 DEF RpInv, RpTyped
<1>3. CASE pollRates
  <2>1. PICK t \in {0, rpNow} :
          rpPoll' = [pc |-> "rates", now |-> t, left |-> DOMAIN rpRate, sent |-> 0]
    BY <1>3 DEF pollRates
  <2>2. t \in Nat
    BY DEF RpInv, RpTyped
  <2>3. RpPolling'
    BY <2>1, <2>2 DEF RpPolling
  <2>4. RpPeakRecent'
    BY <1>3 DEF pollRates, RpPeakRecent
  <2> QED BY <1>1, <1>2, <2>3, <2>4, QuietPollKeeps
<1>4. CASE pollFlags
  <2>1. RpPolling' /\ RpPeakRecent'
    BY <1>4 DEF pollFlags, RpInv, RpPolling, RpPeakRecent
  <2> QED BY <1>1, <1>2, <2>1, QuietPollKeeps
<1> QED BY <1>3, <1>4

\* A fresh sample goes to the full map, and to the shadow map if it reaches the
\* threshold; a stale one takes the source out of both.
LEMMA ShadowKept ==
  ASSUME RpShadow, NEW s, NEW r \in RpSample,
         \/ /\ rpFull' = rpPut(rpFull, s, r)
            /\ rpPrev' = storePrevRate(rpPrev, s, r)
         \/ /\ rpFull' = rpDrop(rpFull, s)
            /\ rpPrev' = rpDrop(rpPrev, s)
  PROVE  /\ RpShadow'
         /\ \A x \in DOMAIN rpPrev' : x # s => x \in DOMAIN rpPrev /\ rpPrev'[x] = rpPrev[x]
         /\ s \in DOMAIN rpPrev' => rpPrev'[s] = r /\ rpFull' # rpDrop(rpFull, s)
<1>1. RpFlood \in Nat
  BY RpAssumption
<1>2. CASE rpFull' = rpPut(rpFull, s, r) /\ rpPrev' = storePrevRate(rpPrev, s, r)
  <2>1. /\ DOMAIN rpFull' = DOMAIN rpFull \cup {s} /\ rpFull'[s] = r
        /\ \A x \in DOMAIN rpFull : x # s => rpFull'[x] = rpFull[x]
        /\ rpFull' \in [DOMAIN rpFull' -> RpSample]
    BY <1>2 DEF rpPut, RpShadow
  <2>2. CASE r.count >= RpFlood
    <3>1. rpPrev' = rpPut(rpPrev, s, r)
      BY <1>2, <2>2 DEF storePrevRate, keepsSample
    <3>2. /\ DOMAIN rpPrev' = DOMAIN rpPrev \cup {s} /\ rpPrev'[s] = r
          /\ \A x \in DOMAIN rpPrev : x # s => rpPrev'[x] = rpPrev[x]
          /\ rpPrev' = [x \in DOMAIN rpPrev' |-> rpPrev'[x]]
      BY <3>1 DEF rpPut
    <3>3. DOMAIN rpPrev' = {x \in DOMAIN rpFull' : rpFull'[x].count >= RpFlood}
      BY <2>1, <2>2, <3>2 DEF RpShadow
    <3>4. \A x \in DOMAIN rpPrev' : rpPrev'[x] = rpFull'[x]
      BY <2>1, <3>2 DEF RpShadow
    <3>5. rpFull' # rpDrop(rpFull, s)
      BY <2>1 DEF rpDrop
    <3> QED BY <2>1, <3>2, <3>3, <3>4, <3>5 DEF RpShadow
  <2>3. CASE ~(r.count >= RpFlood)
    <3>1. rpPrev' = rpDrop(rpPrev, s)
      BY <1>2, <2>3 DEF storePrevRate, keepsSample
    <3>2. /\ DOMAIN rpPrev' = DOMAIN rpPrev \ {s}
          /\ \A x \in DOMAIN rpPrev : x # s => rpPrev'[x] = rpPrev[x]
          /\ rpPrev' = [x \in DOMAIN rpPrev' |-> rpPrev'[x]]
      BY <3>1 DEF rpDrop
    <3>3. DOMAIN rpPrev' = {x \in DOMAIN rpFull' : rpFull'[x].count >= RpFlood}
      BY <2>1, <2>3, <3>2 DEF RpShadow
    <3>4. \A x \in DOMAIN rpPrev' : rpPrev'[x] = rpFull'[x]
      BY <2>1, <3>2 DEF RpShadow
    <3> QED BY <2>1, <3>2, <3>3, <3>4 DEF RpShadow
  <2> QED BY <2>2, <2>3
<1>3. CASE rpFull' = rpDrop(rpFull, s) /\ rpPrev' = rpDrop(rpPrev, s)
  <2>1. /\ DOMAIN rpFull' = DOMAIN rpFull \ {s}
        /\ \A x \in DOMAIN rpFull' : rpFull'[x] = rpFull[x]
        /\ rpFull' \in [DOMAIN rpFull' -> RpSample]
    BY <1>3 DEF rpDrop, RpShadow
  <2>2. /\ DOMAIN rpPrev' = DOMAIN rpPrev \ {s}
        /\ \A x \in DOMAIN rpPrev' : rpPrev'[x] = rpPrev[x]
        /\ rpPrev' = [x \in DOMAIN rpPrev' |-> rpPrev'[x]]
    BY <1>3 DEF rpDrop
  <2>3. DOMAIN rpPrev' = {x \in DOMAIN rpFull' : rpFull'[x].count >= RpFlood}
    BY <2>1, <2>2 DEF RpShadow
  <2>4. \A x \in DOMAIN rpPrev' : rpPrev'[x] = rpFull'[x]
    BY <2>1, <2>2 DEF RpShadow
  <2> QED BY <2>1, <2>2, <2>3, <2>4 DEF RpShadow
<1> QED BY <1>2, <1>3
\* What a walk makes of the poller.
LEMMA WalkOn ==
  ASSUME NEW p, NEW q, NEW t, NEW a, NEW b, NEW L, NEW n,
         p = [pc |-> "rates", now |-> t, left |-> a, sent |-> b],
         q = [p EXCEPT !.left = L] \/ q = [p EXCEPT !.left = L, !.sent = n]
  PROVE  /\ q = [pc |-> "rates", now |-> t, left |-> q.left, sent |-> q.sent]
         /\ q.now = t
<1>1. CASE q = [p EXCEPT !.left = L]
  BY <1>1
<1>2. CASE q = [p EXCEPT !.left = L, !.sent = n]
  BY <1>2
<1> QED BY <1>1, <1>2

\* One entry of the rate map.
LEMMA RateEntryKeeps ==
  ASSUME RpInv, NEW s \in RpSources, rateEntry(s)
  PROVE  RpInv'
<1>1. /\ UNCHANGED <<rpRate, rpBad, rpSeen, rpAlert, rpNow>>
      /\ rpPoll.pc = "rates"
  BY DEF rateEntry
<1>2. /\ rpPoll = [pc |-> "rates", now |-> rpPoll.now, left |-> rpPoll.left, sent |-> rpPoll.sent]
      /\ rpPoll.now \in Nat
  BY <1>1 DEF RpInv, RpPolling, rpIdle
<1>3. \A L, n : /\ rpPoll' = [rpPoll EXCEPT !.left = L] => RpPolling'
                /\ rpPoll' = [rpPoll EXCEPT !.left = L, !.sent = n] => RpPolling'
  <2> SUFFICES ASSUME NEW L, NEW n,
                      \/ rpPoll' = [rpPoll EXCEPT !.left = L]
                      \/ rpPoll' = [rpPoll EXCEPT !.left = L, !.sent = n]
               PROVE  RpPolling'
    OBVIOUS
  <2>1. /\ rpPoll' = [pc |-> "rates", now |-> rpPoll.now, left |-> rpPoll'.left,
                      sent |-> rpPoll'.sent]
        /\ rpPoll'.now = rpPoll.now
    BY <1>2, WalkOn
  <2> QED BY <1>2, <2>1 DEF RpPolling
<1>4. CASE s \notin DOMAIN rpRate
  <2>1. /\ UNCHANGED <<rpPrev, rpFull, rpClock, rpReached, rpReport>>
        /\ rpPoll' = [rpPoll EXCEPT !.left = @ \ {s}]
    BY <1>4 DEF rateEntry
  <2>2. RpTyped' /\ RpPeakRecent'
    BY <1>1, <2>1 DEF RpInv, RpTyped, RpPeakRecent
  <2>3. RpPolling'
    BY <1>3, <2>1
  <2> QED BY <1>1, <2>1, <2>2, <2>3, QuietPollKeeps
<1>5. CASE s \in DOMAIN rpRate
  <2> DEFINE r == rpRate[s]
  <2>1. /\ r \in RpSample /\ r.last \in Nat /\ r.last <= rpNow
        /\ rpNow \in Nat /\ rpClock \in 0..rpNow
    BY <1>5 DEF RpInv, RpTyped, RpSample
  <2>2. /\ rpClock' = Max({rpClock, r.last})
        /\ rpReached' = [rpReached EXCEPT ![s] = rpPoll.now]
    BY <1>5 DEF rateEntry
  <2>3. rpClock' \in 0..rpNow /\ rpClock <= rpClock' /\ r.last <= rpClock'
    <3> DEFINE S == {rpClock, r.last}
    <3>1. S \in SUBSET (0..rpNow) /\ S # {} /\ rpClock \in S /\ r.last \in S
      BY <2>1
    <3>2. rpClock' = Max(S)
      BY <2>2
    <3> HIDE DEF S, r
    <3> QED BY <2>1, <3>1, <3>2, LargestOf
  <2>4. /\ rpReached' \in [RpSources -> Nat] /\ rpReached'[s] = rpPoll.now
        /\ \A x \in RpSources : x # s => rpReached'[x] = rpReached[x]
    BY <1>2, <2>2 DEF RpInv, RpTyped
  <2>5. RpTyped'
    BY <1>1, <2>3, <2>4 DEF RpInv, RpTyped
  <2>6. CASE stale(r.last, rpPoll.now)
    <3>1. /\ rpFull' = rpDrop(rpFull, s) /\ rpPrev' = rpDrop(rpPrev, s)
          /\ rpPoll' = [rpPoll EXCEPT !.left = @ \ {s}]
          /\ UNCHANGED rpReport
      BY <1>5, <2>6 DEF rateEntry, afterStale
    <3> HIDE DEF r
    <3>2. /\ RpShadow'
          /\ \A x \in DOMAIN rpPrev' : x # s => x \in DOMAIN rpPrev /\ rpPrev'[x] = rpPrev[x]
          /\ s \notin DOMAIN rpPrev'
      BY <2>1, <3>1, ShadowKept DEF RpInv
    <3>3. RpSampledFresh'
      <4>1. \A x \in DOMAIN rpPrev : rpPrev[x].last \in Nat
        BY DEF RpInv, RpShadow, RpSample
      <4> QED BY <2>1, <2>3, <2>4, <3>2, <4>1 DEF RpInv, RpSampledFresh
    <3>4. RpPolling' /\ RpPeakRecent'
      BY <1>3, <3>1 DEF RpInv, RpPeakRecent
    <3>5. RpAlertsRecorded' /\ RpAlertsNew'
      BY <1>1, <2>3, <2>5, <3>2, <3>3, AlertsStay
    <3> QED BY <2>5, <3>2, <3>3, <3>4, <3>5 DEF RpInv
  <2>7. CASE ~stale(r.last, rpPoll.now)
    <3>1. sampled(s, r)
      BY <1>5, <2>7 DEF rateEntry
    <3> HIDE DEF r
    <3>2. rpFull' = rpPut(rpFull, s, r) /\ rpPrev' = storePrevRate(rpPrev, s, r)
      BY <3>1 DEF sampled
    <3>3. /\ RpShadow'
          /\ \A x \in DOMAIN rpPrev' : x # s => x \in DOMAIN rpPrev /\ rpPrev'[x] = rpPrev[x]
          /\ s \in DOMAIN rpPrev' => rpPrev'[s] = r
      BY <2>1, <3>2, ShadowKept DEF RpInv
    <3>4. rpPoll.now # 0 => r.last >= rpPoll.now - RpMaxAge
      BY <1>2, <2>1, <2>7, RpAssumption DEF stale
    <3>5. RpSampledFresh'
      <4>1. \A x \in DOMAIN rpPrev : rpPrev[x].last \in Nat
        BY DEF RpInv, RpShadow, RpSample
      <4> SUFFICES ASSUME NEW x \in DOMAIN rpPrev'
                   PROVE  /\ x \in RpSources /\ rpPrev'[x].last <= rpClock'
                          /\ rpReached'[x] # 0 => rpPrev'[x].last >= rpReached'[x] - RpMaxAge
        BY DEF RpSampledFresh
      <4>2. CASE x = s
        BY <2>3, <2>4, <3>3, <3>4, <4>2
      <4>3. CASE x # s
        BY <2>1, <2>3, <2>4, <3>3, <4>1, <4>3 DEF RpInv, RpSampledFresh
      <4> QED BY <4>2, <4>3
    <3>6. RpPolling'
      <4>1. \E L, n : rpPoll' = [rpPoll EXCEPT !.left = L, !.sent = n]
        BY <3>1 DEF sampled
      <4> QED BY <1>3, <4>1
    <3>7. RpPeakRecent'
      <4>1. CASE rpReport' = rpReport
        BY <4>1 DEF RpInv, RpPeakRecent
      <4>2. CASE rpReport' # rpReport
        <5> DEFINE old == windowRolled(rpPrev, s, r)
                   st == IF old THEN rpPrev[s].last ELSE r.last
                   ba == IF old THEN rpReached[s] ELSE rpPoll.now
        <5>1. rpReport' = [src |-> s, pps |-> ppsFromWindow(rpPrev, s, r),
                           start |-> st, basis |-> ba]
          BY <3>1, <4>2 DEF sampled
        <5>2. ba # 0 => st >= ba - RpMaxAge
          <6>1. CASE old
            BY <6>1 DEF windowRolled, RpInv, RpSampledFresh
          <6>2. CASE ~old
            BY <3>4, <6>2
          <6> QED BY <6>1, <6>2
        <5> HIDE DEF st, ba
        <5>3. rpReport'.start = st /\ rpReport'.basis = ba
          BY <5>1
        <5> QED BY <5>2, <5>3 DEF RpPeakRecent
      <4> QED BY <4>1, <4>2
    <3>8. RpAlertsRecorded' /\ RpAlertsNew'
      BY <1>1, <2>3, <2>5, <3>3, <3>5, AlertsStay
    <3> QED BY <2>5, <3>3, <3>5, <3>6, <3>7, <3>8 DEF RpInv
  <2> QED BY <2>6, <2>7
<1> QED BY <1>4, <1>5
LEMMA FlagsOn ==
  ASSUME NEW p, NEW q, NEW a, NEW b, NEW L, NEW n,
         p = [pc |-> "flags", left |-> a, sent |-> b],
         q = [p EXCEPT !.left = L, !.sent = n]
  PROVE  q = [pc |-> "flags", left |-> q.left, sent |-> q.sent]
OBVIOUS

\* One entry of the bad-flags map: a sighting on record, or too old to be, is
\* not alerted as a fresh one again.
LEMMA FlagEntryKeeps ==
  ASSUME RpInv, NEW s, flagEntry(s)
  PROVE  RpInv'
<1>1. /\ UNCHANGED <<rpRate, rpBad, rpPrev, rpFull, rpClock, rpReached, rpReport, rpNow>>
      /\ rpPoll.pc = "flags"
  BY DEF flagEntry
<1>2. RpPolling'
  <2>1. rpPoll = [pc |-> "flags", left |-> rpPoll.left, sent |-> rpPoll.sent]
    BY <1>1 DEF RpInv, RpPolling, rpIdle
  <2>2. PICK L, n : rpPoll' = [rpPoll EXCEPT !.left = L, !.sent = n]
    BY DEF flagEntry
  <2>3. rpPoll' = [pc |-> "flags", left |-> rpPoll'.left, sent |-> rpPoll'.sent]
    BY <2>1, <2>2, FlagsOn
  <2> QED BY <2>3 DEF RpPolling
<1>3. RpShadow' /\ RpSampledFresh' /\ RpPeakRecent'
  BY <1>1 DEF RpInv, RpShadow, RpSampledFresh, RpPeakRecent
<1>4. CASE ~newScan(s)
  <2>1. UNCHANGED <<rpSeen, rpAlert>>
    BY <1>4 DEF flagEntry
  <2>2. RpTyped' /\ rpClock <= rpClock'
    BY <1>1, <2>1 DEF RpInv, RpTyped
  <2> QED BY <1>2, <1>3, <2>1, <2>2, AlertsStay DEF RpInv
<1>5. CASE newScan(s)
  <2> DEFINE b == rpBad[s]
  <2>1. /\ b \in 0..rpNow /\ rpNow \in Nat
        /\ s \in DOMAIN rpSeen => b > rpSeen[s]
    BY <1>5 DEF newScan, RpInv, RpTyped
  <2>2. rpSeen' = rpPut(rpSeen, s, b)
    BY <1>5 DEF flagEntry
  <2>3. /\ DOMAIN rpSeen' = DOMAIN rpSeen \cup {s} /\ rpSeen'[s] = b
        /\ \A x \in DOMAIN rpSeen : x # s => rpSeen'[x] = rpSeen[x]
        /\ rpSeen' \in [DOMAIN rpSeen' -> 0..rpNow]
    BY <2>1, <2>2 DEF rpPut, RpInv, RpTyped
  <2>4. RpTyped'
    BY <1>1, <2>3 DEF RpInv, RpTyped
  <2>5. \A x \in DOMAIN rpSeen : rpSeen[x] \in Nat /\ rpSeen'[x] \in Nat /\ rpSeen[x] <= rpSeen'[x]
    BY <2>1, <2>3 DEF RpInv, RpTyped
  <2>6. \A x \in Nat : ~freshIn(x) => ~freshIn(x)'
    <3>1. maxClock \in Nat /\ maxClock' \in Nat /\ maxClock <= maxClock'
      <4>1. rpClock \in Nat
        BY DEF RpInv, RpTyped
      <4> QED BY <1>1, <1>3, <2>3, <2>4, <2>5, <4>1, MaxClockIs, NextMaxClockIs
    <3> QED BY <3>1, OldStaysOld
  <2>7. /\ b \in Nat
        /\ s \in DOMAIN rpAlert /\ rpAlert[s].seen = b => ~freshIn(b)
    BY <2>1 DEF RpInv, RpAlertsRecorded, RpTyped
  <2> DEFINE e == [seen |-> b, again |-> /\ s \in DOMAIN rpAlert /\ rpAlert[s].seen = b
                                         /\ freshIn(b)]
  <2>8. rpAlert' = rpAlert \/ rpAlert' = rpPut(rpAlert, s, e)
    BY <1>5 DEF flagEntry
  <2>9. e.seen = b /\ ~e.again
    BY <2>7
  <2> HIDE DEF e, b
  <2>10. \A x \in DOMAIN rpAlert' :
            \/ x \in DOMAIN rpAlert /\ rpAlert'[x] = rpAlert[x]
            \/ x = s /\ rpAlert'[x] = e
    BY <2>8 DEF rpPut
  <2>11. RpAlertsNew'
    BY <2>9, <2>10 DEF RpInv, RpAlertsNew
  <2>12. RpAlertsRecorded'
    <3> SUFFICES ASSUME NEW x \in DOMAIN rpAlert'
                 PROVE  /\ rpAlert'[x].seen \in Nat
                        /\ \/ x \in DOMAIN rpSeen' /\ rpSeen'[x] >= rpAlert'[x].seen
                           \/ ~freshIn(rpAlert[x].seen)'
      BY DEF RpAlertsRecorded
    <3>1. CASE x = s /\ rpAlert'[x] = e
      BY <2>1, <2>3, <2>7, <2>9, <3>1
    <3>2. CASE x \in DOMAIN rpAlert /\ rpAlert'[x] = rpAlert[x]
      <4> DEFINE y == rpAlert[x].seen
      <4>1. /\ y \in Nat /\ rpAlert'[x].seen = y
            /\ (x \in DOMAIN rpSeen /\ rpSeen[x] >= y) \/ ~freshIn(y)
        BY <3>2 DEF RpInv, RpAlertsRecorded
      <4>2. \A z \in Nat : rpAlert'[x].seen = z /\ ~freshIn(z) => ~freshIn(rpAlert[x].seen)'
        BY <2>6 DEF freshIn
      <4> HIDE DEF y
      <4> QED BY <2>3, <2>5, <4>1, <4>2
    <3> QED BY <2>10, <3>1, <3>2
  <2> QED BY <1>2, <1>3, <2>4, <2>11, <2>12 DEF RpInv
<1> QED BY <1>4, <1>5

\* Pruning drops what the clock has left behind, which does not move the clock,
\* or empties a map.
LEMMA PruneKeeps ==
  ASSUME RpInv, pruneStaleState
  PROVE  RpInv'
<1>1. /\ UNCHANGED <<rpRate, rpBad, rpClock, rpReached, rpReport, rpNow>>
      /\ rpPoll' = rpIdle
      /\ rpPrev' = capped(prunedRates(rpPrev))
      /\ rpFull' = IF Cardinality(DOMAIN prunedRates(rpPrev)) > RpHardCap THEN rpNone
                   ELSE prunedRates(rpFull)
      /\ rpSeen' = capped(prunedSeen(rpSeen))
      /\ rpAlert' = IF Cardinality(DOMAIN prunedSeen(rpSeen)) > RpHardCap THEN rpNone ELSE rpAlert
  BY DEF pruneStaleState
<1>2. RpPolling' /\ RpPeakRecent'
  BY <1>1 DEF RpInv, RpPolling, RpPeakRecent
<1>3. /\ DOMAIN rpNone = {} /\ rpNone = [x \in {} |-> rpNone[x]]
  BY DEF rpNone
<1>4. RpShadow' /\ \A x \in DOMAIN rpPrev' : x \in DOMAIN rpPrev /\ rpPrev'[x] = rpPrev[x]
  <2>1. CASE rpPrev' = rpNone /\ rpFull' = rpNone
    BY <1>3, <2>1 DEF RpShadow
  <2>2. CASE rpPrev' = prunedRates(rpPrev) /\ rpFull' = prunedRates(rpFull)
    <3>1. /\ DOMAIN rpPrev' = {x \in DOMAIN rpPrev : freshIn(rpPrev[x].last)}
          /\ \A x \in DOMAIN rpPrev' : rpPrev'[x] = rpPrev[x]
          /\ rpPrev' = [x \in DOMAIN rpPrev' |-> rpPrev'[x]]
      BY <2>2 DEF prunedRates
    <3>2. /\ DOMAIN rpFull' = {x \in DOMAIN rpFull : freshIn(rpFull[x].last)}
          /\ \A x \in DOMAIN rpFull' : rpFull'[x] = rpFull[x]
          /\ rpFull' = [x \in DOMAIN rpFull' |-> rpFull'[x]]
      BY <2>2 DEF prunedRates
    <3>3. \A x \in DOMAIN rpPrev : x \in DOMAIN rpFull /\ rpPrev[x] = rpFull[x]
      BY DEF RpInv, RpShadow
    <3>4. DOMAIN rpPrev' = {x \in DOMAIN rpFull' : rpFull'[x].count >= RpFlood}
      BY <3>1, <3>2, <3>3 DEF RpInv, RpShadow
    <3>5. \A x \in DOMAIN rpPrev' : rpPrev'[x] = rpFull'[x]
      BY <3>1, <3>2, <3>3, <3>4
    <3>6. rpFull' \in [DOMAIN rpFull' -> RpSample]
      BY <3>2 DEF RpInv, RpShadow
    <3> QED BY <3>1, <3>4, <3>5, <3>6 DEF RpShadow
  <2> QED BY <1>1, <2>1, <2>2 DEF capped
<1>5. RpSampledFresh'
  BY <1>1, <1>4 DEF RpInv, RpSampledFresh
<1>6. /\ \A x \in DOMAIN rpSeen' : x \in DOMAIN rpSeen /\ rpSeen'[x] = rpSeen[x]
      /\ rpSeen' = [x \in DOMAIN rpSeen' |-> rpSeen'[x]]
      /\ \/ DOMAIN rpAlert' = {}
         \/ /\ rpAlert' = rpAlert
            /\ DOMAIN rpSeen' = {x \in DOMAIN rpSeen : freshIn(rpSeen[x])}
  <2>1. CASE rpSeen' = rpNone /\ rpAlert' = rpNone
    BY <1>3, <2>1
  <2>2. CASE rpSeen' = prunedSeen(rpSeen) /\ rpAlert' = rpAlert
    BY <2>2 DEF prunedSeen
  <2> QED BY <1>1, <2>1, <2>2 DEF capped
<1>7. RpTyped'
  <2>1. rpSeen' \in [DOMAIN rpSeen' -> 0..rpNow]
    BY <1>6 DEF RpInv, RpTyped
  <2> QED BY <1>1, <2>1 DEF RpInv, RpTyped
<1>8. RpAlertsNew'
  BY <1>6 DEF RpInv, RpAlertsNew
<1>9. RpAlertsRecorded'
  <2>1. CASE DOMAIN rpAlert' = {}
    BY <2>1 DEF RpAlertsRecorded
  <2>2. CASE rpAlert' = rpAlert /\ DOMAIN rpSeen' = {x \in DOMAIN rpSeen : freshIn(rpSeen[x])}
    <3>1. maxClock \in Nat /\ maxClock' \in Nat /\ maxClock <= maxClock'
      <4>1. /\ maxClock \in Nat /\ RpStale \in Nat /\ rpClock \in Nat
            /\ maxClock = rpClock \/ \E x \in DOMAIN rpSeen : maxClock = rpSeen[x]
        BY RpAssumption, MaxClockIs DEF RpInv, RpTyped
      <4>2. \A x \in DOMAIN rpSeen : maxClock = rpSeen[x] => x \in DOMAIN rpSeen'
        BY <2>2, <4>1 DEF freshIn
      <4>3. /\ maxClock' \in Nat /\ rpClock' <= maxClock'
            /\ \A x \in DOMAIN rpSeen' : rpSeen'[x] <= maxClock'
        BY <1>4, <1>5, <1>7, NextMaxClockIs
      <4> QED BY <1>1, <1>6, <4>1, <4>2, <4>3
    <3>2. \A x \in Nat : ~freshIn(x) => ~freshIn(x)'
      BY <3>1, OldStaysOld
    <3> SUFFICES ASSUME NEW x \in DOMAIN rpAlert'
                 PROVE  /\ rpAlert'[x].seen \in Nat
                        /\ \/ x \in DOMAIN rpSeen' /\ rpSeen'[x] >= rpAlert'[x].seen
                           \/ ~freshIn(rpAlert[x].seen)'
      BY DEF RpAlertsRecorded
    <3> DEFINE y == rpAlert[x].seen
    <3>3. /\ y \in Nat /\ rpAlert'[x].seen = y
          /\ (x \in DOMAIN rpSeen /\ rpSeen[x] >= y) \/ ~freshIn(y)
      BY <2>2 DEF RpInv, RpAlertsRecorded
    <3>4. \A z \in Nat : rpAlert'[x].seen = z /\ ~freshIn(z) => ~freshIn(rpAlert[x].seen)'
      BY <3>2 DEF freshIn
    <3>5. ASSUME x \in DOMAIN rpSeen, rpSeen[x] >= y, ~freshIn(rpSeen[x])
          PROVE  ~freshIn(y)
      <4>1. rpSeen[x] \in Nat /\ RpStale \in Nat
        BY <3>5, RpAssumption DEF RpInv, RpTyped
      <4> QED BY <3>1, <3>3, <3>5, <4>1 DEF freshIn
    <3> HIDE DEF y
    <3> QED BY <1>6, <2>2, <3>3, <3>4, <3>5
  <2> QED BY <1>6, <2>1, <2>2
<1> QED BY <1>2, <1>4, <1>5, <1>7, <1>8, <1>9 DEF RpInv
\* A sample the shadow map dropped could not have changed what a poll reports.
LEMMA InvDropInvisible == RpInv => RpDropInvisible
<1> SUFFICES ASSUME RpInv, NEW s \in DOMAIN rpRate
             PROVE  (IF floods(rpPrev, s, rpRate[s]) THEN ppsFromWindow(rpPrev, s, rpRate[s]) ELSE 0)
                      = (IF floods(rpFull, s, rpRate[s]) THEN ppsFromWindow(rpFull, s, rpRate[s]) ELSE 0)
  BY DEF RpDropInvisible
<1>1. RpFlood \in Nat /\ rpRate[s].count \in Nat /\ rpRate[s].last \in Nat
  BY RpAssumption DEF RpInv, RpTyped, RpSample
<1>2. CASE s \in DOMAIN rpPrev
  <2>1. s \in DOMAIN rpFull /\ rpPrev[s] = rpFull[s]
    BY <1>2 DEF RpInv, RpShadow
  <2> QED BY <1>2, <2>1 DEF floods, ppsFromWindow, windowRolled
<1>3. CASE s \notin DOMAIN rpPrev
  <2>1. ppsFromWindow(rpPrev, s, rpRate[s]) = rpRate[s].count
    BY <1>3 DEF ppsFromWindow, windowRolled
  <2>2. s \in DOMAIN rpFull => rpFull[s].count \in Nat /\ rpFull[s].count < RpFlood
    BY <1>1, <1>3 DEF RpInv, RpShadow, RpSample
  <2>3. CASE windowRolled(rpFull, s, rpRate[s])
    <3>1. /\ ppsFromWindow(rpFull, s, rpRate[s]) = rpFull[s].count
          /\ s \in DOMAIN rpFull /\ rpRate[s].count < rpFull[s].count
      BY <2>3 DEF ppsFromWindow, windowRolled
    <3> QED BY <1>1, <2>1, <2>2, <3>1 DEF floods
  <2>4. CASE ~windowRolled(rpFull, s, rpRate[s])
    BY <2>1, <2>4 DEF ppsFromWindow, floods
  <2> QED BY <2>3, <2>4
<1> QED BY <1>2, <1>3

\* For any sources, windows, thresholds, caps and kernel steps between the steps
\* of a poll: leaving samples below the threshold out of the shadow map changes
\* no report, a report is about a window that was fresh when the source was
\* looked at, and a sighting still on record is not alerted twice
\* (storePrevRate, pruneStaleState, sendBadFlagsAlerts).
THEOREM RatesAreToldOnce == RatePollSpec => []RatesToldOnce
<1>1. RatePollInit => RpInv
  <2> SUFFICES ASSUME RatePollInit PROVE RpInv
    OBVIOUS
  <2>1. /\ DOMAIN rpNone = {} /\ rpNone = [x \in {} |-> rpNone[x]]
        /\ rpRate = rpNone /\ rpBad = rpNone /\ rpPrev = rpNone /\ rpFull = rpNone
        /\ rpSeen = rpNone /\ rpAlert = rpNone /\ rpNow = 1 /\ rpClock = 0
        /\ rpReached \in [RpSources -> Nat]
    BY DEF RatePollInit, rpNone
  <2>2. RpTyped
    BY <2>1 DEF RpTyped
  <2>3. RpPolling /\ RpPeakRecent
    BY DEF RatePollInit, RpPolling, RpPeakRecent
  <2>4. RpShadow /\ RpSampledFresh
    BY <2>1 DEF RpShadow, RpSampledFresh
  <2>5. RpAlertsRecorded /\ RpAlertsNew
    BY <2>1 DEF RpAlertsRecorded, RpAlertsNew
  <2> QED BY <2>2, <2>3, <2>4, <2>5 DEF RpInv
<1>2. RpInv /\ [RatePollNext]_rpVars => RpInv'
  <2> SUFFICES ASSUME RpInv, [RatePollNext]_rpVars PROVE RpInv'
    OBVIOUS
  <2>1. CASE UNCHANGED rpVars
    <3>1. RpTyped' /\ RpPolling' /\ RpPeakRecent'
      BY <2>1 DEF rpVars, RpInv, RpTyped, RpPolling, RpPeakRecent
    <3> QED BY <2>1, <3>1, QuietPollKeeps DEF rpVars
  <2> QED BY <2>1, KernelKeeps, PollStartsKeep, RateEntryKeeps, FlagEntryKeeps, PruneKeeps
          DEF RatePollNext
<1>3. RpInv => RatesToldOnce
  BY InvDropInvisible DEF RpInv, RatesToldOnce
<1> QED BY <1>1, <1>2, <1>3, PTL DEF RatePollSpec
-----------------------------------------------------------------------------
(***************************************************************************)
(* BlockTable.  The clock, the table, the command being executed with the  *)
(* two allowlists, and the pass of the garbage collector are four parts    *)
(* that most actions touch one of.                                         *)
(***************************************************************************)

ClockOK ==
  /\ tableNow \in 1..TableMaxTime
  /\ commands \in 0..MaxCommands

\* The table holds starts of blocks, of addresses that may be blocked, and fits.
TableOK ==
  /\ table \in [Addrs -> 0..tableNow]
  /\ Blocked \cap Private = {}
  /\ IsFiniteSet(Blocked)
  /\ Cardinality(Blocked) <= TableSize

CmdOK ==
  /\ cmd \in [pc : {"idle", "block", "allow", "remove"}, addr : SUBSET Addrs,
              at : 0..tableNow, nets : SUBSET Nets]
  /\ cmd.pc = "idle" => cmd = TableIdle
  /\ cmd.pc = "block" => cmd.addr \cap Private = {} /\ cmd.at # 0

\* What a command has done to one list it has yet to do to the other.
ListsOK ==
  /\ allowedNets \in [Nets -> Nat]
  /\ kernelAllow \subseteq Nets
  /\ mapFailed \in BOOLEAN
  /\ ~mapFailed =>
       /\ cmd.pc \in {"idle", "block"} => kernelAllow = Listed(allowedNets)
       /\ cmd.pc = "allow" => kernelAllow \cup cmd.nets = Listed(allowedNets)
       /\ cmd.pc = "remove" => kernelAllow \ cmd.nets = Listed(allowedNets)

PassTyped ==
  gc \in [pc : {"idle", "collect", "remove"}, at : 0..tableNow, todo : SUBSET Addrs,
          expired : SUBSET [addr : Addrs, at : 1..tableNow],
          block : SUBSET [addr : Addrs, at : 1..tableNow],
          dirty : BOOLEAN, reput : BOOLEAN]

\* A pass holds blocks that had expired when it started, and the block it is
\* about to delete is still the one it looked up unless it was put again since.
PassOK ==
  /\ gc.block # {} => gc.pc = "remove"
  /\ \A b \in gc.expired \cup gc.block : blockExpired(gc.at, b.at)
  /\ \A b \in gc.block : ~gc.reput => table[b.addr] \in {0, b.at}

BlockTableInv == ClockOK /\ TableOK /\ CmdOK /\ ListsOK /\ PassTyped /\ PassOK

\* Initially nothing is blocked, no command runs and no pass either.
LEMMA TableStarts == BlockTableInit => BlockTableInv
<1> SUFFICES ASSUME BlockTableInit PROVE BlockTableInv
  OBVIOUS
<1>1. tableNow = 1 /\ commands = 0 /\ table = [a \in Addrs |-> 0] /\ cmd = TableIdle /\ gc = NoPass
  BY DEF BlockTableInit
<1>2. ClockOK
  BY <1>1, SizeAssumption DEF ClockOK
<1>3. Blocked = {}
  BY <1>1 DEF Blocked
<1>4. TableOK
  BY <1>1, <1>3, FS_EmptySet, SizeAssumption DEF TableOK
<1>5. CmdOK
  BY <1>1 DEF CmdOK, TableIdle
<1>6. ListsOK
  <2>1. allowedNets \in [Nets -> Nat] /\ kernelAllow \subseteq Nets
    BY AddressAssumption DEF BlockTableInit, Listed
  <2>2. mapFailed \in BOOLEAN
    BY DEF BlockTableInit
  <2>3. ~mapFailed => kernelAllow = Listed(allowedNets)
    BY DEF BlockTableInit
  <2>4. cmd.pc = "idle"
    BY <1>1 DEF TableIdle
  <2> QED BY <2>1, <2>2, <2>3, <2>4 DEF ListsOK
<1>7. PassTyped /\ PassOK
  BY <1>1 DEF PassTyped, PassOK, NoPass
<1> QED BY <1>2, <1>4, <1>5, <1>6, <1>7 DEF BlockTableInv

-----------------------------------------------------------------------------
(* The commands. *)

\* A command that starts is counted.
LEMMA CommandCounted ==
  ASSUME BlockTableInv, commands < MaxCommands, commands' = commands + 1,
         UNCHANGED tableNow
  PROVE  ClockOK'
BY SizeAssumption DEF BlockTableInv, ClockOK

\* Nothing but its own steps changes the table.
LEMMA TableUntouched ==
  ASSUME BlockTableInv, UNCHANGED <<tableNow, table>>
  PROVE  TableOK'
BY DEF BlockTableInv, TableOK, Blocked

LEMMA PassUntouched ==
  ASSUME BlockTableInv, UNCHANGED <<tableNow, table, gc>>
  PROVE  PassTyped' /\ PassOK'
BY DEF BlockTableInv, PassTyped, PassOK, blockExpired

LEMMA CmdUntouched ==
  ASSUME BlockTableInv, UNCHANGED <<tableNow, cmd>>
  PROVE  CmdOK'
BY DEF BlockTableInv, CmdOK

LEMMA ListsUntouched ==
  ASSUME BlockTableInv, UNCHANGED <<allowedNets, kernelAllow, mapFailed, cmd>>
  PROVE  ListsOK'
BY DEF BlockTableInv, ListsOK, Listed

\* BLOCK_IP and putBlock leave the lists alone and are of the kinds the lists
\* agree under.
LEMMA ListsAgreeStill ==
  ASSUME BlockTableInv, UNCHANGED <<allowedNets, kernelAllow, mapFailed>>,
         cmd.pc \in {"idle", "block"}, cmd'.pc \in {"idle", "block"}
  PROVE  ListsOK'
BY DEF BlockTableInv, ListsOK, Listed

LEMMA CmdEnds ==
  ASSUME BlockTableInv, cmd' = TableIdle, UNCHANGED tableNow
  PROVE  CmdOK' /\ cmd'.pc = "idle"
BY DEF BlockTableInv, CmdOK, ClockOK, TableIdle

LEMMA BlockIPKeeps ==
  ASSUME BlockTableInv, NEW a \in Addrs, BlockIP(a)
  PROVE  BlockTableInv'
<1>1. /\ cmd = TableIdle /\ commands < MaxCommands /\ commands' = commands + 1
      /\ UNCHANGED <<tableNow, table, allowedNets, kernelAllow, gc, mapFailed>>
  BY DEF BlockIP
<1>2. cmd' = TableIdle \/ (a \notin Private /\ cmd' = [pc |-> "block", addr |-> {a}, at |-> tableNow, nets |-> {}])
  BY DEF BlockIP, TableIdle
<1>3. cmd.pc = "idle"
  BY <1>1 DEF TableIdle
<1>4. CmdOK' /\ cmd'.pc \in {"idle", "block"}
  BY <1>1, <1>2, CmdEnds DEF BlockTableInv, CmdOK, ClockOK
<1> QED BY <1>1, <1>3, <1>4, CommandCounted, TableUntouched, PassUntouched, ListsAgreeStill DEF BlockTableInv

\* What a change of the table does to a pass: it is told, and keeps what it holds.
LEMMA PassToldOf ==
  ASSUME BlockTableInv, NEW A, gc' = passSees(A), UNCHANGED tableNow
  PROVE  /\ PassTyped'
         /\ gc'.pc = gc.pc /\ gc'.at = gc.at /\ gc'.expired = gc.expired /\ gc'.block = gc.block
         /\ gc.pc # "idle" => gc'.reput = (gc.reput \/ \E b \in gc.block : b.addr \in A)
<1>1. CASE gc.pc = "idle"
  BY <1>1 DEF passSees, BlockTableInv, PassTyped
<1>2. CASE gc.pc # "idle"
  <2> DEFINE r == gc.reput \/ \E b \in gc.block : b.addr \in A
  <2>1. r \in BOOLEAN
    BY DEF BlockTableInv, PassTyped
  <2>2. gc' = [pc |-> gc.pc, at |-> gc.at, todo |-> gc.todo, expired |-> gc.expired,
               block |-> gc.block, dirty |-> TRUE, reput |-> r]
    BY <1>2 DEF passSees, BlockTableInv, PassTyped
  <2> HIDE DEF r
  <2>3. PassTyped'
    BY <2>1, <2>2 DEF BlockTableInv, PassTyped
  <2>4. gc'.reput = r
    BY <2>2
  <2> QED BY <2>2, <2>3, <2>4 DEF r
<1> QED BY <1>1, <1>2

\* Entries that the pass has not looked at may change, the one it has looked up
\* may go, and if it is put again the pass is told.
LEMMA PassOverChange ==
  ASSUME BlockTableInv, NEW A, gc' = passSees(A), UNCHANGED tableNow,
         \A x \in Addrs \ A : table'[x] \in {0, table[x]}
  PROVE  PassTyped' /\ PassOK'
<1>1. /\ PassTyped'
      /\ gc'.pc = gc.pc /\ gc'.at = gc.at /\ gc'.expired = gc.expired /\ gc'.block = gc.block
      /\ gc.pc # "idle" => gc'.reput = (gc.reput \/ \E b \in gc.block : b.addr \in A)
  BY PassToldOf
<1>2. /\ gc'.block # {} => gc'.pc = "remove"
      /\ \A b \in gc'.expired \cup gc'.block : blockExpired(gc'.at, b.at)
  BY <1>1 DEF BlockTableInv, PassOK
<1>3. ASSUME NEW b \in gc'.block, ~gc'.reput
      PROVE  table'[b.addr] \in {0, b.at}
  <2>1. b \in gc.block /\ gc.pc = "remove" /\ b.addr \in Addrs
    BY <1>1 DEF BlockTableInv, PassOK, PassTyped
  <2>2. ~gc.reput /\ b.addr \notin A
    BY <1>1, <1>3, <2>1
  <2>3. table[b.addr] \in {0, b.at}
    BY <2>1, <2>2 DEF BlockTableInv, PassOK
  <2> QED BY <2>1, <2>2, <2>3
<1>4. PassOK'
  BY <1>2, <1>3 DEF PassOK, blockExpired
<1> QED BY <1>1, <1>4

\* The Put keeps the table within its size: it renews an entry, finds room, or
\* evicts another one.
LEMMA PutBlockKeeps ==
  ASSUME BlockTableInv, putBlock
  PROVE  BlockTableInv'
<1>1. /\ cmd.pc = "block" /\ cmd' = TableIdle
      /\ UNCHANGED <<tableNow, allowedNets, kernelAllow, mapFailed, commands>>
  BY DEF putBlock
<1>2. PICK a \in cmd.addr, out \in SUBSET Blocked :
        /\ IF a \in Blocked \/ Cardinality(Blocked) < TableSize THEN out = {} ELSE Cardinality(out) = 1
        /\ table' = [x \in Addrs |-> IF x = a THEN cmd.at ELSE IF x \in out THEN 0 ELSE table[x]]
        /\ gc' = passSees({a})
  BY DEF putBlock
<1>3. a \in Addrs /\ a \notin Private /\ cmd.at \in 1..tableNow
  BY <1>1 DEF BlockTableInv, CmdOK, ClockOK
<1>4. table' \in [Addrs -> 0..tableNow]
  BY <1>2, <1>3 DEF BlockTableInv, TableOK, ClockOK
<1>5. Blocked' = (Blocked \ out) \cup {a}
  BY <1>2, <1>3, SMT DEF Blocked
<1>6. IsFiniteSet(Blocked') /\ Cardinality(Blocked') <= TableSize
  <2>1. IsFiniteSet(Blocked) /\ Cardinality(Blocked) \in Nat /\ Cardinality(Blocked) <= TableSize
    BY FS_CardinalityType DEF BlockTableInv, TableOK
  <2>2. CASE out = {}
    <3>1. Blocked' = Blocked \cup {a}
      BY <1>5, <2>2
    <3>2. a \in Blocked \/ Cardinality(Blocked) < TableSize
      <4>1. IsFiniteSet(out) /\ Cardinality(out) = 0
        BY <2>2, FS_EmptySet
      <4> QED BY <4>1, <1>2
    <3>3. /\ IsFiniteSet(Blocked \cup {a})
          /\ a \in Blocked => Cardinality(Blocked \cup {a}) = Cardinality(Blocked)
          /\ a \notin Blocked => Cardinality(Blocked \cup {a}) = Cardinality(Blocked) + 1
      BY <2>1, FS_AddElement
    <3> QED BY <2>1, <3>1, <3>2, <3>3, SizeAssumption
  <2>3. CASE out # {}
    <3>1. a \notin Blocked /\ Cardinality(out) = 1
      BY <1>2, <2>3
    <3>2. IsFiniteSet(out)
      BY <2>1, <1>2, FS_Subset
    <3>3. PICK e : out = {e}
      BY <3>1, <3>2, FS_Singleton
    <3>4. e \in Blocked
      BY <1>2, <3>3
    <3>5. IsFiniteSet(Blocked \ {e}) /\ Cardinality(Blocked \ {e}) = Cardinality(Blocked) - 1
      BY <2>1, <3>4, FS_RemoveElement
    <3>6. a \notin Blocked \ {e}
      BY <3>1
    <3>7. /\ IsFiniteSet((Blocked \ {e}) \cup {a})
          /\ Cardinality((Blocked \ {e}) \cup {a}) = Cardinality(Blocked \ {e}) + 1
      BY <3>5, <3>6, FS_AddElement
    <3>8. Blocked' = (Blocked \ {e}) \cup {a}
      BY <1>5, <3>3
    <3> QED BY <2>1, <3>5, <3>7, <3>8
  <2> QED BY <2>2, <2>3
<1>7. Blocked' \cap Private = {}
  BY <1>3, <1>5 DEF BlockTableInv, TableOK
<1>8. TableOK'
  BY <1>1, <1>4, <1>6, <1>7 DEF TableOK
<1>9. \A x \in Addrs \ {a} : table'[x] \in {0, table[x]}
  BY <1>2
<1>10. PassTyped' /\ PassOK'
  BY <1>1, <1>2, <1>9, PassOverChange
<1>11. CmdOK' /\ cmd'.pc = "idle"
  BY <1>1, CmdEnds
<1>12. ListsOK'
  BY <1>1, <1>11, ListsAgreeStill
<1>13. ClockOK'
  BY <1>1 DEF BlockTableInv, ClockOK
<1> QED BY <1>8, <1>10, <1>11, <1>12, <1>13 DEF BlockTableInv

LEMMA PutBlockFailsKeeps ==
  ASSUME BlockTableInv, putBlockFails
  PROVE  BlockTableInv'
<1>1. /\ cmd.pc = "block" /\ cmd' = TableIdle
      /\ UNCHANGED <<tableNow, table, allowedNets, kernelAllow, gc, mapFailed, commands>>
  BY DEF putBlockFails
<1>2. CmdOK' /\ cmd'.pc = "idle"
  BY <1>1, CmdEnds
<1>3. ClockOK'
  BY <1>1 DEF BlockTableInv, ClockOK
<1> QED BY <1>1, <1>2, <1>3, TableUntouched, PassUntouched, ListsAgreeStill DEF BlockTableInv

\* An entry that goes leaves a smaller table.
LEMMA EntryGoes ==
  ASSUME BlockTableInv, NEW a \in Addrs, table' = [table EXCEPT ![a] = 0], UNCHANGED tableNow
  PROVE  TableOK'
<1>1. table' \in [Addrs -> 0..tableNow]
  BY DEF BlockTableInv, TableOK, ClockOK
<1>2. Blocked' = Blocked \ {a}
  BY SMT DEF BlockTableInv, TableOK, Blocked
<1>3. IsFiniteSet(Blocked) /\ Cardinality(Blocked) \in Nat /\ Cardinality(Blocked) <= TableSize
  BY FS_CardinalityType DEF BlockTableInv, TableOK
<1>4. IsFiniteSet(Blocked') /\ Cardinality(Blocked') \in Nat /\ Cardinality(Blocked') <= Cardinality(Blocked)
  <2>1. Blocked' \subseteq Blocked
    BY <1>2
  <2>2. IsFiniteSet(Blocked') /\ Cardinality(Blocked') <= Cardinality(Blocked)
    BY <1>3, <2>1, FS_Subset
  <2> QED BY <2>2, FS_CardinalityType
<1>5. Blocked' \cap Private = {}
  BY <1>2 DEF BlockTableInv, TableOK
<1>6. Cardinality(Blocked') <= TableSize
  BY <1>3, <1>4, SizeAssumption
<1> QED BY <1>1, <1>4, <1>5, <1>6 DEF TableOK

LEMMA UnblockIPKeeps ==
  ASSUME BlockTableInv, NEW a \in Addrs, UnblockIP(a)
  PROVE  BlockTableInv'
<1>1. /\ commands < MaxCommands /\ commands' = commands + 1
      /\ table' = [table EXCEPT ![a] = 0] /\ gc' = passSees({})
      /\ UNCHANGED <<tableNow, allowedNets, kernelAllow, cmd, mapFailed>>
  BY DEF UnblockIP
<1>2. \A x \in Addrs \ {} : table'[x] \in {0, table[x]}
  BY <1>1 DEF BlockTableInv, TableOK
<1>3. PassTyped' /\ PassOK'
  BY <1>1, <1>2, PassOverChange
<1> QED BY <1>1, <1>3, EntryGoes, CommandCounted, CmdUntouched, ListsUntouched DEF BlockTableInv

\* ALLOWLIST_IP makes the list name one network more than the kernel.
LEMMA AllowlistIPKeeps ==
  ASSUME BlockTableInv, NEW a \in Addrs, AllowlistIP(a)
  PROVE  BlockTableInv'
<1> DEFINE n == HostNet[a]
<1>1. /\ cmd = TableIdle /\ commands < MaxCommands /\ commands' = commands + 1
      /\ allowedNets' = [allowedNets EXCEPT ![n] = @ + 1]
      /\ cmd' = [pc |-> "allow", addr |-> {}, at |-> 0, nets |-> {n}]
      /\ UNCHANGED <<tableNow, table, kernelAllow, gc, mapFailed>>
  BY DEF AllowlistIP, TableIdle
<1>2. n \in Nets /\ cmd.pc = "idle"
  BY <1>1, AddressAssumption DEF TableIdle
<1> HIDE DEF n
<1>3. CmdOK'
  BY <1>1, <1>2 DEF BlockTableInv, CmdOK, ClockOK
<1>4. allowedNets' \in [Nets -> Nat]
  BY <1>1, <1>2 DEF BlockTableInv, ListsOK
<1>5. Listed(allowedNets') = Listed(allowedNets) \cup {n}
  BY <1>1, <1>2, <1>4 DEF BlockTableInv, ListsOK, Listed
<1>6. ~mapFailed => kernelAllow = Listed(allowedNets)
  BY <1>2 DEF BlockTableInv, ListsOK
<1>7. ~mapFailed' => kernelAllow' \cup cmd'.nets = Listed(allowedNets')
  BY <1>1, <1>5, <1>6
<1>8. ListsOK'
  BY <1>1, <1>4, <1>7 DEF BlockTableInv, ListsOK, Listed
<1> QED BY <1>1, <1>3, <1>8, CommandCounted, TableUntouched, PassUntouched DEF BlockTableInv

LEMMA AddEntryKeeps ==
  ASSUME BlockTableInv, NEW ok \in BOOLEAN, AddAllowlistEntry(ok)
  PROVE  BlockTableInv'
<1>1. /\ cmd.pc = "allow" /\ cmd' = TableIdle
      /\ mapFailed' = (mapFailed \/ ~ok)
      /\ UNCHANGED <<tableNow, table, allowedNets, gc, commands>>
  BY DEF AddAllowlistEntry
<1>2. CmdOK' /\ cmd'.pc = "idle"
  BY <1>1, CmdEnds
<1>3. ListsOK'
  <2>1. kernelAllow' = kernelAllow \cup cmd.nets \/ kernelAllow' = kernelAllow
    BY DEF AddAllowlistEntry
  <2>2. kernelAllow' \subseteq Nets /\ allowedNets' \in [Nets -> Nat]
    BY <1>1, <2>1 DEF BlockTableInv, ListsOK, CmdOK
  <2>3. mapFailed' \in BOOLEAN
    BY <1>1 DEF BlockTableInv, ListsOK
  <2>4. ASSUME ~mapFailed'
        PROVE  kernelAllow' = Listed(allowedNets)
    <3>1. ok /\ ~mapFailed
      BY <1>1, <2>4
    <3>2. kernelAllow' = kernelAllow \cup cmd.nets
      BY <3>1 DEF AddAllowlistEntry
    <3> QED BY <1>1, <3>1, <3>2 DEF BlockTableInv, ListsOK
  <2> QED BY <1>1, <1>2, <2>2, <2>3, <2>4 DEF ListsOK, Listed
<1>4. ClockOK'
  BY <1>1 DEF BlockTableInv, ClockOK
<1> QED BY <1>1, <1>2, <1>3, <1>4, TableUntouched, PassUntouched DEF BlockTableInv

\* REMOVE_ALLOWLIST_IP: what it takes off the list, all of it, the kernel still has.
LEMMA RemoveAllowlistIPKeeps ==
  ASSUME BlockTableInv, NEW a \in Addrs, RemoveAllowlistIP(a)
  PROVE  BlockTableInv'
<1> DEFINE gone == {n \in Listed(allowedNets) : Base[n] = a}
<1>1. /\ cmd = TableIdle /\ commands < MaxCommands /\ commands' = commands + 1
      /\ allowedNets' = [n \in Nets |-> IF Base[n] = a THEN 0 ELSE allowedNets[n]]
      /\ UNCHANGED <<tableNow, table, kernelAllow, gc, mapFailed>>
  BY DEF RemoveAllowlistIP
<1>2. \/ gone = {} /\ cmd' = TableIdle
      \/ cmd' = [pc |-> "remove", addr |-> {}, at |-> 0, nets |-> gone]
  BY DEF RemoveAllowlistIP, TableIdle
<1>3. gone \subseteq Nets /\ cmd.pc = "idle"
  BY <1>1 DEF TableIdle, Listed
<1>4. allowedNets' \in [Nets -> Nat]
  BY <1>1 DEF BlockTableInv, ListsOK
<1>5. Listed(allowedNets') = Listed(allowedNets) \ gone
  BY <1>1 DEF BlockTableInv, ListsOK, Listed
<1>6. ~mapFailed => kernelAllow = Listed(allowedNets)
  BY <1>3 DEF BlockTableInv, ListsOK
<1> HIDE DEF gone
<1>7. CmdOK'
  <2>1. CASE cmd' = TableIdle
    BY <1>1, <2>1, CmdEnds
  <2>2. CASE cmd' = [pc |-> "remove", addr |-> {}, at |-> 0, nets |-> gone]
    BY <1>1, <1>3, <2>2 DEF BlockTableInv, CmdOK, ClockOK
  <2> QED BY <1>2, <2>1, <2>2
<1>8. ListsOK'
  <2>1. CASE gone = {} /\ cmd' = TableIdle
    <3>1. cmd'.pc = "idle"
      BY <2>1 DEF TableIdle
    <3>2. ~mapFailed' => kernelAllow' = Listed(allowedNets')
      BY <1>1, <1>5, <1>6, <2>1
    <3> QED BY <1>1, <1>4, <3>1, <3>2 DEF BlockTableInv, ListsOK, Listed
  <2>2. CASE cmd' = [pc |-> "remove", addr |-> {}, at |-> 0, nets |-> gone]
    <3>1. ~mapFailed' => kernelAllow' \ cmd'.nets = Listed(allowedNets')
      BY <1>1, <1>5, <1>6, <2>2
    <3> QED BY <1>1, <1>4, <2>2, <3>1 DEF BlockTableInv, ListsOK, Listed
  <2> QED BY <1>2, <2>1, <2>2
<1> QED BY <1>1, <1>7, <1>8, CommandCounted, TableUntouched, PassUntouched DEF BlockTableInv

LEMMA RemoveEntryKeeps ==
  ASSUME BlockTableInv, NEW n \in Nets, NEW ok \in BOOLEAN, RemoveAllowlistEntry(n, ok)
  PROVE  BlockTableInv'
<1>1. /\ cmd.pc = "remove" /\ n \in cmd.nets
      /\ mapFailed' = (mapFailed \/ ~ok)
      /\ UNCHANGED <<tableNow, table, allowedNets, gc, commands>>
  BY DEF RemoveAllowlistEntry
<1>2. \/ cmd.nets = {n} /\ cmd' = TableIdle
      \/ cmd' = [pc |-> "remove", addr |-> cmd.addr, at |-> cmd.at, nets |-> cmd.nets \ {n}]
  BY <1>1 DEF RemoveAllowlistEntry, BlockTableInv, CmdOK
<1>3. CmdOK'
  <2>1. CASE cmd' = TableIdle
    BY <1>1, <2>1, CmdEnds
  <2>2. CASE cmd' = [pc |-> "remove", addr |-> cmd.addr, at |-> cmd.at, nets |-> cmd.nets \ {n}]
    BY <1>1, <2>2 DEF BlockTableInv, CmdOK
  <2> QED BY <1>2, <2>1, <2>2
<1>4. ListsOK'
  <2>1. kernelAllow' \subseteq Nets /\ allowedNets' \in [Nets -> Nat]
    BY <1>1 DEF RemoveAllowlistEntry, BlockTableInv, ListsOK
  <2>2. mapFailed' \in BOOLEAN
    BY <1>1 DEF BlockTableInv, ListsOK
  <2>3. ASSUME ~mapFailed'
        PROVE  /\ kernelAllow \ cmd.nets = Listed(allowedNets)
               /\ kernelAllow' = kernelAllow \ {n}
    <3>1. ok /\ ~mapFailed
      BY <1>1, <2>3
    <3>2. kernelAllow' = kernelAllow \ {n}
      BY <3>1 DEF RemoveAllowlistEntry
    <3> QED BY <1>1, <3>1, <3>2 DEF BlockTableInv, ListsOK
  <2>4. CASE cmd.nets = {n} /\ cmd' = TableIdle
    <3>1. cmd'.pc = "idle"
      BY <2>4 DEF TableIdle
    <3>2. ~mapFailed' => kernelAllow' = Listed(allowedNets)
      BY <2>3, <2>4
    <3> QED BY <1>1, <2>1, <2>2, <3>1, <3>2 DEF ListsOK, Listed
  <2>5. CASE cmd' = [pc |-> "remove", addr |-> cmd.addr, at |-> cmd.at, nets |-> cmd.nets \ {n}]
    <3>1. cmd'.pc = "remove" /\ cmd'.nets = cmd.nets \ {n}
      BY <2>5
    <3>2. ~mapFailed' => kernelAllow' \ cmd'.nets = Listed(allowedNets)
      BY <1>1, <2>3, <3>1
    <3> QED BY <1>1, <2>1, <2>2, <3>1, <3>2 DEF ListsOK, Listed
  <2> QED BY <1>2, <2>4, <2>5
<1>5. ClockOK'
  BY <1>1 DEF BlockTableInv, ClockOK
<1> QED BY <1>1, <1>3, <1>4, <1>5, TableUntouched, PassUntouched DEF BlockTableInv

-----------------------------------------------------------------------------
(* The garbage collector. *)

\* A step of the pass alone.
LEMMA PassOnly ==
  ASSUME BlockTableInv, PassTyped', PassOK',
         UNCHANGED <<tableNow, table, allowedNets, kernelAllow, cmd, mapFailed, commands>>
  PROVE  BlockTableInv'
<1>1. ClockOK'
  BY DEF BlockTableInv, ClockOK
<1> QED BY <1>1, TableUntouched, CmdUntouched, ListsUntouched DEF BlockTableInv

LEMMA NoPassKeeps ==
  ASSUME BlockTableInv, gc' = NoPass,
         UNCHANGED <<tableNow, table, allowedNets, kernelAllow, cmd, mapFailed, commands>>
  PROVE  BlockTableInv'
<1>1. PassTyped' /\ PassOK'
  BY DEF BlockTableInv, ClockOK, PassTyped, PassOK, NoPass
<1> QED BY <1>1, PassOnly

LEMMA StartPassKeeps ==
  ASSUME BlockTableInv, startPass
  PROVE  BlockTableInv'
<1>1. gc' = [pc |-> "collect", at |-> tableNow, todo |-> Addrs, expired |-> {}, block |-> {},
             dirty |-> FALSE, reput |-> FALSE]
  BY DEF startPass, NoPass
<1>2. UNCHANGED <<tableNow, table, allowedNets, kernelAllow, cmd, mapFailed, commands>>
  BY DEF startPass
<1>3. PassTyped' /\ PassOK'
  BY <1>1, <1>2 DEF BlockTableInv, ClockOK, PassTyped, PassOK
<1> QED BY <1>2, <1>3, PassOnly

\* The pass collects a block that has expired by its clock.
LEMMA CollectKeeps ==
  ASSUME BlockTableInv, NEW a \in Addrs, collectExpired(a)
  PROVE  BlockTableInv'
<1> DEFINE e == IF table[a] # 0 /\ blockExpired(gc.at, table[a])
                THEN gc.expired \cup {[addr |-> a, at |-> table[a]]} ELSE gc.expired
           c == IF gc.todo = {a} THEN "remove" ELSE gc.pc
<1>1. gc.pc = "collect" /\ UNCHANGED <<tableNow, table, allowedNets, kernelAllow, cmd, mapFailed, commands>>
  BY DEF collectExpired
<1>2. gc' = [pc |-> c, at |-> gc.at, todo |-> gc.todo \ {a}, expired |-> e, block |-> gc.block,
             dirty |-> gc.dirty, reput |-> gc.reput]
  BY DEF collectExpired, BlockTableInv, PassTyped
<1>3. c \in {"collect", "remove"}
  BY <1>1
<1>4. e \in SUBSET [addr : Addrs, at : 1..tableNow] /\ \A b \in e : blockExpired(gc.at, b.at)
  <2>1. table[a] \in 0..tableNow /\ tableNow \in Nat
    BY DEF BlockTableInv, TableOK, ClockOK
  <2>2. gc.expired \in SUBSET [addr : Addrs, at : 1..tableNow] /\ \A b \in gc.expired : blockExpired(gc.at, b.at)
    BY DEF BlockTableInv, PassTyped, PassOK
  <2>3. CASE table[a] # 0 /\ blockExpired(gc.at, table[a])
    <3>1. table[a] \in 1..tableNow
      BY <2>1, <2>3
    <3>2. e = gc.expired \cup {[addr |-> a, at |-> table[a]]}
      BY <2>3
    <3> HIDE DEF e
    <3>3. \A b \in e : b \in gc.expired \/ b = [addr |-> a, at |-> table[a]]
      BY <3>2
    <3>4. \A b \in e : b \in [addr : Addrs, at : 1..tableNow]
      BY <2>2, <3>1, <3>3
    <3>5. \A b \in e : b \in gc.expired \/ b.at = table[a]
      BY <3>3
    <3>6. \A b \in e : blockExpired(gc.at, b.at)
      BY <2>2, <2>3, <3>5
    <3> QED BY <3>4, <3>6
  <2>4. CASE ~(table[a] # 0 /\ blockExpired(gc.at, table[a]))
    <3>1. e = gc.expired
      BY <2>4
    <3> QED BY <2>2, <3>1
  <2> QED BY <2>3, <2>4
<1> HIDE DEF e, c
<1>5. gc.block = {}
  BY <1>1 DEF BlockTableInv, PassOK
<1>6. PassTyped'
  BY <1>1, <1>2, <1>3, <1>4 DEF BlockTableInv, PassTyped
<1>7. gc'.block = {} /\ gc'.expired = e /\ gc'.at = gc.at
  BY <1>2, <1>5
<1>8. PassOK'
  BY <1>4, <1>7 DEF PassOK, blockExpired
<1> QED BY <1>1, <1>6, <1>8, PassOnly

\* deleteIfUnchanged's lookup finds the block the pass collected, or lets it be.
LEMMA LookupKeeps ==
  ASSUME BlockTableInv, NEW b \in gc.expired, lookupExpired(b)
  PROVE  BlockTableInv'
<1> DEFINE k == IF table[b.addr] = b.at THEN {b} ELSE {}
<1>1. gc.pc = "remove" /\ UNCHANGED <<tableNow, table, allowedNets, kernelAllow, cmd, mapFailed, commands>>
  BY DEF lookupExpired
<1>2. gc' = [pc |-> gc.pc, at |-> gc.at, todo |-> gc.todo, expired |-> gc.expired \ {b}, block |-> k,
             dirty |-> gc.dirty, reput |-> FALSE]
  BY DEF lookupExpired, BlockTableInv, PassTyped
<1>3. k \subseteq {b} /\ \A x \in k : table[x.addr] = x.at
  OBVIOUS
<1> HIDE DEF k
<1>4. PassTyped'
  BY <1>1, <1>2, <1>3 DEF BlockTableInv, PassTyped
<1>5. gc'.block = k /\ gc'.expired = gc.expired \ {b} /\ gc'.at = gc.at /\ gc'.pc = "remove"
  BY <1>1, <1>2
<1>6. \A x \in gc'.expired \cup gc'.block : x \in gc.expired
  BY <1>3, <1>5
<1>7. \A x \in gc'.expired \cup gc'.block : blockExpired(gc'.at, x.at)
  BY <1>5, <1>6 DEF BlockTableInv, PassOK
<1>8. PassOK'
  BY <1>1, <1>3, <1>5, <1>7 DEF PassOK, blockExpired
<1> QED BY <1>1, <1>4, <1>8, PassOnly

\* The lookup's block is dropped from the pass, deleted or not.
LEMMA BlockDone ==
  ASSUME BlockTableInv, gc' = [gc EXCEPT !.block = {}], UNCHANGED tableNow
  PROVE  PassTyped' /\ PassOK'
<1>1. gc' = [pc |-> gc.pc, at |-> gc.at, todo |-> gc.todo, expired |-> gc.expired, block |-> {},
             dirty |-> gc.dirty, reput |-> gc.reput]
  BY DEF BlockTableInv, PassTyped
<1>2. PassTyped'
  BY <1>1 DEF BlockTableInv, PassTyped
<1>3. gc'.block = {} /\ gc'.expired = gc.expired /\ gc'.at = gc.at
  BY <1>1
<1>4. PassOK'
  BY <1>3 DEF BlockTableInv, PassOK, blockExpired
<1> QED BY <1>2, <1>4

LEMMA DeleteKeeps ==
  ASSUME BlockTableInv, deleteExpired
  PROVE  BlockTableInv'
<1>1. PICK b \in gc.block : table' = [table EXCEPT ![b.addr] = 0]
  BY DEF deleteExpired
<1>2. b.addr \in Addrs
  BY <1>1 DEF BlockTableInv, PassTyped
<1>3. /\ gc' = [gc EXCEPT !.block = {}]
      /\ UNCHANGED <<tableNow, allowedNets, kernelAllow, cmd, mapFailed, commands>>
  BY DEF deleteExpired
<1>4. TableOK'
  <2> DEFINE a == b.addr
  <2>1. a \in Addrs /\ table' = [table EXCEPT ![a] = 0] /\ UNCHANGED tableNow
    BY <1>1, <1>2, <1>3
  <2> HIDE DEF a
  <2> QED BY <2>1, EntryGoes
<1>5. ClockOK'
  BY <1>3 DEF BlockTableInv, ClockOK
<1> QED BY <1>3, <1>4, <1>5, BlockDone, CmdUntouched, ListsUntouched DEF BlockTableInv

LEMMA DeleteFailsKeeps ==
  ASSUME BlockTableInv, deleteFails
  PROVE  BlockTableInv'
BY BlockDone, PassOnly DEF deleteFails

-----------------------------------------------------------------------------

\* Time passes: nothing that has expired comes back.
LEMMA TableTickKeeps ==
  ASSUME BlockTableInv, TableTick
  PROVE  BlockTableInv'
<1>1. /\ tableNow < TableMaxTime /\ tableNow' = tableNow + 1
      /\ UNCHANGED <<table, allowedNets, kernelAllow, cmd, gc, mapFailed, commands>>
  BY DEF TableTick
<1>2. tableNow \in Nat /\ \A n : n \in 0..tableNow => n \in 0..tableNow'
  BY <1>1 DEF BlockTableInv, ClockOK
<1>3. ClockOK'
  BY <1>1, SizeAssumption DEF BlockTableInv, ClockOK
<1>4. Blocked' = Blocked
  BY <1>1 DEF Blocked
<1>5. table \in [Addrs -> 0..tableNow']
  <2> DEFINE T == 0..tableNow U == 0..tableNow'
  <2>1. table \in [Addrs -> T]
    BY DEF BlockTableInv, TableOK
  <2>2. T \subseteq U
    BY <1>2
  <2> HIDE DEF T, U
  <2>3. table \in [Addrs -> U]
    BY <2>1, <2>2
  <2> QED BY <2>3 DEF U
<1>6. TableOK'
  BY <1>1, <1>4, <1>5 DEF BlockTableInv, TableOK
<1>7. CmdOK'
  BY <1>1, <1>2 DEF BlockTableInv, CmdOK
<1>8. PassTyped'
  <2>1. \A S : S \in SUBSET [addr : Addrs, at : 1..tableNow] => S \in SUBSET [addr : Addrs, at : 1..tableNow']
    BY <1>1, <1>2
  <2> QED BY <1>1, <1>2, <2>1 DEF BlockTableInv, PassTyped
<1>9. PassOK'
  BY <1>1 DEF BlockTableInv, PassOK, blockExpired
<1> QED BY <1>1, <1>3, <1>6, <1>7, <1>8, <1>9, ListsUntouched DEF BlockTableInv

\* Every step keeps the invariant.
LEMMA BlockTableStep == BlockTableInv /\ [BlockTableNext]_tableVars => BlockTableInv'
<1> SUFFICES ASSUME BlockTableInv, [BlockTableNext]_tableVars PROVE BlockTableInv'
  OBVIOUS
<1>1. CASE UNCHANGED tableVars
  BY <1>1, PassUntouched, PassOnly DEF tableVars
<1>2. ASSUME NEW a \in Addrs, BlockIP(a) \/ UnblockIP(a) \/ AllowlistIP(a) \/ RemoveAllowlistIP(a)
      PROVE  BlockTableInv'
  BY <1>2, BlockIPKeeps, UnblockIPKeeps, AllowlistIPKeeps, RemoveAllowlistIPKeeps
<1>3. CASE CommandStep
  BY <1>3, PutBlockKeeps, PutBlockFailsKeeps, AddEntryKeeps, RemoveEntryKeeps DEF CommandStep
<1>4. CASE PassStep
  <2>1. CASE endPass
    BY <2>1, NoPassKeeps DEF endPass
  <2> QED BY <1>4, <2>1, StartPassKeeps, CollectKeeps, LookupKeeps, DeleteKeeps, DeleteFailsKeeps DEF PassStep
<1>5. CASE abortPass
  BY <1>5, NoPassKeeps DEF abortPass
<1>6. CASE TableTick
  BY <1>6, TableTickKeeps
<1> QED BY <1>1, <1>2, <1>3, <1>4, <1>5, <1>6 DEF BlockTableNext

LEMMA BlockTableHolds == BlockTableSpec => []BlockTableInv
<1> QED BY TableStarts, BlockTableStep, PTL DEF BlockTableSpec

\* A step that gives up the block of the pass removes an active block only if
\* that one was put after the pass looked.
LEMMA DeleteIsFair ==
  ASSUME BlockTableInv, [BlockTableNext]_tableVars, NEW a \in Addrs,
         gc.block # {}, gc'.block = {}, table[a] # 0, table'[a] = 0,
         ~blockExpired(tableNow, table[a])
  PROVE  gc.reput
<1>1. gc.pc = "remove"
  BY DEF BlockTableInv, PassOK
<1>2. ASSUME NEW A, gc' = passSees(A)
      PROVE  FALSE
  <2>1. gc'.block = gc.block
    BY <1>1, <1>2 DEF passSees, BlockTableInv, PassTyped
  <2> QED BY <2>1
<1>3. CASE UNCHANGED gc
  BY <1>3
<1>4. CASE UNCHANGED table
  BY <1>4
<1>5. CASE deleteExpired
  <2>1. PICK b \in gc.block : table' = [table EXCEPT ![b.addr] = 0]
    BY <1>5 DEF deleteExpired
  <2>2. a = b.addr
    BY <2>1 DEF BlockTableInv, TableOK
  <2>3. blockExpired(gc.at, b.at)
    BY DEF BlockTableInv, PassOK
  <2>4. gc.at \in 0..tableNow /\ b.at \in 1..tableNow /\ tableNow \in Nat
    BY DEF BlockTableInv, PassTyped, ClockOK
  <2>5. blockExpired(tableNow, b.at)
    BY <2>3, <2>4, SizeAssumption DEF blockExpired
  <2>6. table[a] # b.at
    BY <2>5
  <2>7. ~gc.reput => table[b.addr] \in {0, b.at}
    BY DEF BlockTableInv, PassOK
  <2>8. gc.reput \in BOOLEAN
    BY DEF BlockTableInv, PassTyped
  <2> QED BY <2>2, <2>6, <2>7, <2>8
<1>6. ASSUME NEW x \in Addrs, BlockIP(x) \/ UnblockIP(x) \/ AllowlistIP(x) \/ RemoveAllowlistIP(x)
      PROVE  gc.reput
  BY <1>2, <1>4, <1>6 DEF BlockIP, UnblockIP, AllowlistIP, RemoveAllowlistIP
<1>7. CASE CommandStep
  BY <1>2, <1>4, <1>7 DEF CommandStep, putBlock, putBlockFails, AddAllowlistEntry, RemoveAllowlistEntry
<1>8. CASE PassStep
  BY <1>4, <1>5, <1>8 DEF PassStep, startPass, collectExpired, lookupExpired, deleteFails, endPass
<1>9. CASE abortPass \/ TableTick
  BY <1>4, <1>9 DEF abortPass, TableTick
<1>10. CASE UNCHANGED tableVars
  BY <1>4, <1>10 DEF tableVars
<1> QED BY <1>6, <1>7, <1>8, <1>9, <1>10 DEF BlockTableNext

\* AllowlistsAgree for every set of networks and addresses: between commands,
\* and unless a map operation failed, the kernel bypasses exactly the networks
\* the collector's list names (AllowlistIP, RemoveAllowlistIP).
THEOREM AllowlistsAlwaysAgree == BlockTableSpec => []AllowlistsAgree
<1>1. BlockTableInv => AllowlistsAgree
  BY DEF BlockTableInv, ListsOK, AllowlistsAgree, TableIdle
<1> QED BY <1>1, BlockTableHolds, PTL

\* The safety half of ExpiryExact: the table never holds a private address or
\* more than its size, and the expiry pass removes a block that has not expired
\* only when it was put between the lookup and the delete of deleteIfUnchanged.
THEOREM PassKeepsActiveBlocks == BlockTableSpec => []BlockTableTypeOK /\ GCKeepsActive
<1>1. BlockTableInv => BlockTableTypeOK
  BY DEF BlockTableInv, ClockOK, TableOK, CmdOK, ListsOK, PassTyped, BlockTableTypeOK
<1>2. BlockTableInv /\ [BlockTableNext]_tableVars =>
        [\A a \in Addrs :
           /\ gc.block # {} /\ gc'.block = {}
           /\ table[a] # 0 /\ table'[a] = 0
           /\ ~blockExpired(tableNow, table[a])
           => gc.reput]_tableVars
  BY DeleteIsFair
<1> QED BY <1>1, <1>2, BlockTableHolds, PTL DEF BlockTableSpec, GCKeepsActive
-----------------------------------------------------------------------------
(***************************************************************************)
(* HandshakePoll.  hpFate follows every handshake from its SYN; the proof  *)
(* relates it to the map, to what the poll holds and to what was told.     *)
(***************************************************************************)

HpFate == [key : HpKeys, is : {"pending", "completed", "evicted", "reported", "displaced"}]

HpEntry == [id : Nat, begin : Nat, synack : Nat]

HpFound == [key : HpKeys, val : HpEntry]

HpSignal == [src : {HpSource[k] : k \in HpKeys}, ids : SUBSET Nat]

\* The entries of the map and the pending handshakes are the same, and an entry
\* is of the newest handshake of its session.
HpMapSound ==
  /\ hpFate \in Seq(HpFate) /\ hpNow \in Nat
  /\ \A k \in DOMAIN hpMap :
       /\ k \in HpKeys /\ hpMap[k] \in HpEntry /\ hpMap[k].id \in DOMAIN hpFate
       /\ hpFate[hpMap[k].id].key = k /\ hpFate[hpMap[k].id].is = "pending"
       /\ \A g \in DOMAIN hpFate : hpFate[g].key = k => g <= hpMap[k].id
  /\ \A h \in DOMAIN hpFate : hpFate[h].is = "pending" =>
       hpFate[h].key \in DOMAIN hpMap /\ hpMap[hpFate[h].key].id = h

HpTold(h) == \E j \in DOMAIN hpSignals : h \in hpSignals[j].ids

HpCounted(h) == hpPoll.pc = "delete" /\ \E i \in hpPoll.counted : hpPoll.found[i].val.id = h

\* What a poll has found is a handshake of each of some sessions, none of them
\* told yet; what it counts is among that.
HpPollSound ==
  /\ hpPoll.pc \in {"idle", "walk", "delete"}
  /\ hpPoll.pc # "idle" =>
       /\ hpPoll.found \in Seq(HpFound)
       /\ \A i \in DOMAIN hpPoll.found :
            /\ hpPoll.found[i].val.id \in DOMAIN hpFate
            /\ hpFate[hpPoll.found[i].val.id].key = hpPoll.found[i].key
            /\ ~HpTold(hpPoll.found[i].val.id)
       /\ \A i, j \in DOMAIN hpPoll.found : hpPoll.found[i].key = hpPoll.found[j].key => i = j
  /\ hpPoll.pc = "walk" =>
       /\ hpPoll = [pc |-> "walk", now |-> hpPoll.now, left |-> hpPoll.left, found |-> hpPoll.found]
       /\ \A i \in DOMAIN hpPoll.found : hpPoll.found[i].key \notin hpPoll.left
  /\ hpPoll.pc = "delete" =>
       /\ hpPoll = [pc |-> "delete", found |-> hpPoll.found, start |-> hpPoll.start, counted |-> hpPoll.counted]
       /\ hpPoll.start \in Nat \ {0}
       /\ hpPoll.counted \subseteq DOMAIN hpPoll.found

\* What is counted or told is no longer pending, and if it was finished its
\* session had begun another one, which went instead.
HpSpared(h) ==
  /\ h \in DOMAIN hpFate
  /\ hpFate[h].is # "pending"
  /\ hpFate[h].is \in {"completed", "evicted"} =>
       \E g \in DOMAIN hpFate : g > h /\ hpFate[g].key = hpFate[h].key /\ hpFate[g].is = "displaced"

HpTellings ==
  /\ \A h : HpCounted(h) \/ HpTold(h) => HpSpared(h)
  /\ hpSignals \in Seq(HpSignal)
  /\ \A j \in DOMAIN hpSignals : \A h \in hpSignals[j].ids : HpSource[hpFate[h].key] = hpSignals[j].src

\* What the fates say was told or displaced is counted or told.
HpOwed ==
  \A h \in DOMAIN hpFate : HpSource[hpFate[h].key] \notin HpAllowed =>
    /\ hpFate[h].is = "reported" => HpCounted(h) \/ HpTold(h)
    /\ hpFate[h].is = "displaced" =>
         \E g \in DOMAIN hpFate : (HpCounted(g) \/ HpTold(g)) /\ g < h /\ hpFate[g].key = hpFate[h].key

HpInv == HpMapSound /\ HpPollSound /\ HpTellings /\ HpOwed /\ HpReportedOnce

\* Initially there is no handshake and no poll.
LEMMA HandshakesStart == HandshakePollInit => HpInv
<1> SUFFICES ASSUME HandshakePollInit PROVE HpInv
  OBVIOUS
<1>1. /\ hpMap = hpNone /\ hpFate = <<>> /\ hpPoll = hpIdle /\ hpSignals = <<>> /\ hpNow = 1
  BY DEF HandshakePollInit
<1>2. DOMAIN hpMap = {} /\ hpPoll.pc = "idle"
  BY <1>1 DEF hpNone, hpIdle
<1>3. DOMAIN hpFate = {} /\ DOMAIN hpSignals = {} /\ hpFate \in Seq(HpFate) /\ hpSignals \in Seq(HpSignal)
  BY <1>1
<1>4. HpMapSound
  BY <1>1, <1>2, <1>3 DEF HpMapSound
<1>5. \A h : ~HpTold(h) /\ ~HpCounted(h)
  BY <1>2, <1>3 DEF HpTold, HpCounted
<1> QED BY <1>2, <1>3, <1>4, <1>5 DEF HpInv, HpPollSound, HpTellings, HpOwed, HpReportedOnce

LEMMA SameTold ==
  ASSUME UNCHANGED <<hpPoll, hpSignals>>
  PROVE  \A h : (HpTold(h)' <=> HpTold(h)) /\ (HpCounted(h)' <=> HpCounted(h))
BY DEF HpTold, HpCounted

\* The kernel finishes, evicts and begins handshakes: nothing that the poll
\* holds or that was told is affected.
LEMMA KernelMoves ==
  ASSUME HpInv, hpFate' \in Seq(HpFate), UNCHANGED <<hpPoll, hpSignals>>,
         DOMAIN hpFate \subseteq DOMAIN hpFate',
         \A h \in DOMAIN hpFate :
           /\ hpFate'[h].key = hpFate[h].key
           /\ hpFate'[h].is = hpFate[h].is \/
              (hpFate[h].is = "pending" /\ hpFate'[h].is \in {"completed", "evicted"}),
         \A h \in DOMAIN hpFate' : h \notin DOMAIN hpFate => hpFate'[h].is = "pending"
  PROVE  HpPollSound' /\ HpTellings' /\ HpOwed' /\ HpReportedOnce'
<1>1. \A h : (HpTold(h)' <=> HpTold(h)) /\ (HpCounted(h)' <=> HpCounted(h))
  BY SameTold
<1>2. HpReportedOnce'
  BY DEF HpInv, HpReportedOnce
<1>3. HpPollSound'
  BY <1>1 DEF HpInv, HpPollSound
<1>4. ASSUME NEW h, HpCounted(h)' \/ HpTold(h)'
      PROVE  HpSpared(h)'
  <2>1. HpSpared(h)
    BY <1>1, <1>4 DEF HpInv, HpTellings
  <2>2. h \in DOMAIN hpFate /\ hpFate'[h].is = hpFate[h].is /\ hpFate[h].is # "pending" /\ hpFate'[h].key = hpFate[h].key
    BY <2>1 DEF HpSpared
  <2>3. ASSUME hpFate'[h].is \in {"completed", "evicted"}
        PROVE  \E g \in DOMAIN hpFate' : g > h /\ hpFate'[g].key = hpFate'[h].key /\ hpFate'[g].is = "displaced"
    <3>1. PICK g \in DOMAIN hpFate : g > h /\ hpFate[g].key = hpFate[h].key /\ hpFate[g].is = "displaced"
      BY <2>1, <2>2, <2>3 DEF HpSpared
    <3>2. g \in DOMAIN hpFate' /\ hpFate'[g].key = hpFate[g].key /\ hpFate'[g].is = "displaced"
      BY <3>1
    <3> QED BY <2>2, <3>1, <3>2
  <2> QED BY <2>2, <2>3 DEF HpSpared
<1>5. HpTellings'
  <2>1. \A j \in DOMAIN hpSignals' : \A h \in hpSignals'[j].ids : HpSource[hpFate'[h].key] = hpSignals'[j].src
    <3> SUFFICES ASSUME NEW j \in DOMAIN hpSignals, NEW h \in hpSignals[j].ids
                 PROVE  HpSource[hpFate'[h].key] = hpSignals[j].src
      OBVIOUS
    <3>1. HpTold(h)
      BY DEF HpTold
    <3>2. h \in DOMAIN hpFate /\ HpSource[hpFate[h].key] = hpSignals[j].src
      BY <3>1 DEF HpInv, HpTellings, HpSpared
    <3> QED BY <3>2
  <2>2. hpSignals' \in Seq(HpSignal)
    BY DEF HpInv, HpTellings
  <2>3. \A h : HpCounted(h)' \/ HpTold(h)' => HpSpared(h)'
    BY <1>4
  <2> QED BY <2>1, <2>2, <2>3 DEF HpTellings
<1>6. HpOwed'
  <2> SUFFICES ASSUME NEW h \in DOMAIN hpFate', HpSource[hpFate'[h].key] \notin HpAllowed
               PROVE  /\ hpFate'[h].is = "reported" => HpCounted(h)' \/ HpTold(h)'
                      /\ hpFate'[h].is = "displaced" =>
                           \E g \in DOMAIN hpFate' : (HpCounted(g)' \/ HpTold(g)') /\ g < h /\ hpFate'[g].key = hpFate'[h].key
    BY DEF HpOwed
  <2>1. hpFate'[h].is \in {"reported", "displaced"} =>
          h \in DOMAIN hpFate /\ hpFate[h].is = hpFate'[h].is /\ hpFate[h].key = hpFate'[h].key
    OBVIOUS
  <2>2. ASSUME hpFate'[h].is = "displaced"
        PROVE  \E g \in DOMAIN hpFate' : (HpCounted(g)' \/ HpTold(g)') /\ g < h /\ hpFate'[g].key = hpFate'[h].key
    <3>1. PICK g \in DOMAIN hpFate : (HpCounted(g) \/ HpTold(g)) /\ g < h /\ hpFate[g].key = hpFate[h].key
      BY <2>1, <2>2 DEF HpInv, HpOwed
    <3>2. g \in DOMAIN hpFate' /\ hpFate'[g].key = hpFate[g].key /\ (HpCounted(g)' \/ HpTold(g)')
      BY <1>1, <3>1
    <3> QED BY <2>1, <2>2, <3>1, <3>2
  <2>3. hpFate'[h].is = "reported" => HpCounted(h)' \/ HpTold(h)'
    BY <1>1, <2>1 DEF HpInv, HpOwed
  <2> QED BY <2>2, <2>3
<1> QED BY <1>2, <1>3, <1>5, <1>6

\* A SYN begins a handshake of a session that has none pending, and may push
\* another one out.
LEMMA SynKeeps ==
  ASSUME HpInv, NEW k \in HpKeys, syn(k)
  PROVE  HpInv'
<1> DEFINE n == Len(hpFate)
<1>1. k \notin DOMAIN hpMap /\ UNCHANGED <<hpPoll, hpSignals, hpNow>>
  BY DEF syn
<1>2. hpFate \in Seq(HpFate) /\ n \in Nat /\ DOMAIN hpFate = 1..n /\ hpNow \in Nat
  BY DEF HpInv, HpMapSound
<1>3. PICK out \in SUBSET DOMAIN hpMap :
        /\ hpMap' = [x \in (DOMAIN hpMap \ out) \cup {k} |->
             IF x = k THEN [id |-> n + 1, begin |-> hpNow, synack |-> 0] ELSE hpMap[x]]
        /\ hpFate' = Append([i \in 1..n |->
             IF hpFate[i].is = "pending" /\ \E x \in out : hpMap[x].id = i
             THEN [hpFate[i] EXCEPT !.is = "evicted"] ELSE hpFate[i]], [key |-> k, is |-> "pending"])
  BY DEF syn, hpBegun
<1> DEFINE F == [i \in 1..n |-> IF hpFate[i].is = "pending" /\ \E x \in out : hpMap[x].id = i
                                THEN [hpFate[i] EXCEPT !.is = "evicted"] ELSE hpFate[i]]
           Out(i) == \E x \in out : hpMap[x].id = i
<1>4. \A i \in 1..n :
        /\ F[i] \in HpFate /\ F[i].key = hpFate[i].key
        /\ hpFate[i].is = "pending" /\ Out(i) => F[i].is = "evicted"
        /\ ~(hpFate[i].is = "pending" /\ Out(i)) => F[i].is = hpFate[i].is
  <2> SUFFICES ASSUME NEW i \in 1..n
               PROVE  /\ F[i] \in HpFate /\ F[i].key = hpFate[i].key
                      /\ hpFate[i].is = "pending" /\ Out(i) => F[i].is = "evicted"
                      /\ ~(hpFate[i].is = "pending" /\ Out(i)) => F[i].is = hpFate[i].is
    OBVIOUS
  <2>1. hpFate[i] \in HpFate
    BY <1>2
  <2>2. CASE hpFate[i].is = "pending" /\ Out(i)
    <3>1. F[i] = [hpFate[i] EXCEPT !.is = "evicted"]
      BY <2>2
    <3> QED BY <2>1, <2>2, <3>1 DEF HpFate
  <2>3. CASE ~(hpFate[i].is = "pending" /\ Out(i))
    <3>1. F[i] = hpFate[i]
      BY <2>3
    <3> QED BY <2>1, <2>3, <3>1
  <2> QED BY <2>2, <2>3
<1>5. F \in Seq(HpFate) /\ Len(F) = n
  <2>1. F \in [1..n -> HpFate]
    BY <1>4
  <2> HIDE DEF F
  <2> QED BY <1>2, <2>1, IsASeq, LenProperties
<1>6. hpFate' = Append(F, [key |-> k, is |-> "pending"])
  BY <1>3
<1> HIDE DEF F, Out
<1>7. /\ hpFate' \in Seq(HpFate) /\ DOMAIN hpFate' = 1..(n + 1)
      /\ hpFate'[n + 1] = [key |-> k, is |-> "pending"]
      /\ \A i \in 1..n : hpFate'[i] = F[i]
  <2>1. [key |-> k, is |-> "pending"] \in HpFate
    BY DEF HpFate
  <2> DEFINE e == [key |-> k, is |-> "pending"]
  <2>2. hpFate' = Append(F, e) /\ e \in HpFate
    BY <1>6, <2>1
  <2> HIDE DEF e
  <2>3. /\ hpFate' \in Seq(HpFate) /\ Len(hpFate') = n + 1
        /\ \A i \in 1..n : hpFate'[i] = F[i]
        /\ hpFate'[n + 1] = e
    BY <1>2, <1>5, <2>2, AppendProperties
  <2> QED BY <1>2, <2>3, LenProperties DEF e
<1>8. DOMAIN hpFate \subseteq DOMAIN hpFate'
  BY <1>2, <1>7
<1>9. /\ \A h \in DOMAIN hpFate :
           /\ hpFate'[h].key = hpFate[h].key
           /\ hpFate'[h].is = hpFate[h].is \/
              (hpFate[h].is = "pending" /\ hpFate'[h].is \in {"completed", "evicted"})
      /\ \A h \in DOMAIN hpFate' : h \notin DOMAIN hpFate => hpFate'[h].is = "pending"
  BY <1>2, <1>4, <1>7
<1>10. HpPollSound' /\ HpTellings' /\ HpOwed' /\ HpReportedOnce'
  BY <1>1, <1>7, <1>8, <1>9, KernelMoves
<1>11. /\ DOMAIN hpMap' = (DOMAIN hpMap \ out) \cup {k}
       /\ hpMap'[k] = [id |-> n + 1, begin |-> hpNow, synack |-> 0]
       /\ \A x \in DOMAIN hpMap \ out : hpMap'[x] = hpMap[x]
  BY <1>1, <1>3
<1>12. HpMapSound'
  <2>1. ASSUME NEW x \in DOMAIN hpMap'
        PROVE  /\ x \in HpKeys /\ hpMap'[x] \in HpEntry /\ hpMap'[x].id \in DOMAIN hpFate'
               /\ hpFate'[hpMap'[x].id].key = x /\ hpFate'[hpMap'[x].id].is = "pending"
               /\ \A g \in DOMAIN hpFate' : hpFate'[g].key = x => g <= hpMap'[x].id
    <3>1. CASE x = k
      <4>1. hpMap'[x].id = n + 1 /\ hpMap'[x] \in HpEntry
        BY <1>2, <1>11, <3>1 DEF HpEntry
      <4> QED BY <1>2, <1>7, <3>1, <4>1
    <3>2. CASE x # k
      <4> DEFINE h == hpMap[x].id
      <4>1. x \in DOMAIN hpMap /\ x \notin out /\ hpMap'[x] = hpMap[x]
        BY <1>11, <3>2
      <4>2. /\ x \in HpKeys /\ hpMap[x] \in HpEntry /\ h \in 1..n /\ hpFate[h].key = x /\ hpFate[h].is = "pending"
            /\ \A g \in 1..n : hpFate[g].key = x => g <= h
        BY <1>2, <4>1 DEF HpInv, HpMapSound
      <4>3. ~Out(h)
        <5> SUFFICES ASSUME NEW y \in out, hpMap[y].id = h PROVE FALSE
          BY DEF Out
        <5>1. hpFate[h].key = y
          BY DEF HpInv, HpMapSound
        <5> QED BY <4>1, <4>2, <5>1
      <4>4. hpFate'[h] = F[h] /\ F[h].is = "pending" /\ F[h].key = x
        BY <1>4, <1>7, <4>2, <4>3
      <4>5. \A g \in 1..(n + 1) : hpFate'[g].key = x => g <= h
        BY <1>2, <1>4, <1>7, <3>2, <4>2
      <4> QED BY <1>2, <1>7, <4>1, <4>2, <4>4, <4>5
    <3> QED BY <3>1, <3>2
  <2>2. ASSUME NEW h \in DOMAIN hpFate', hpFate'[h].is = "pending"
        PROVE  hpFate'[h].key \in DOMAIN hpMap' /\ hpMap'[hpFate'[h].key].id = h
    <3>1. CASE h = n + 1
      BY <1>7, <1>11, <3>1
    <3>2. CASE h # n + 1
      <4>1. h \in 1..n
        BY <1>2, <1>7, <3>2
      <4>2. hpFate[h].is = "pending" /\ ~Out(h) /\ hpFate'[h].key = hpFate[h].key
        BY <1>4, <1>7, <2>2, <4>1
      <4>3. hpFate[h].key \in DOMAIN hpMap /\ hpMap[hpFate[h].key].id = h
        BY <1>2, <4>1, <4>2 DEF HpInv, HpMapSound
      <4>4. hpFate[h].key \notin out
        BY <4>2, <4>3 DEF Out
      <4> QED BY <1>11, <4>2, <4>3, <4>4
    <3> QED BY <3>1, <3>2
  <2> QED BY <1>1, <1>2, <1>7, <2>1, <2>2 DEF HpMapSound
<1> QED BY <1>10, <1>12 DEF HpInv

LEMMA SynAckKeeps ==
  ASSUME HpInv, NEW k \in HpKeys, synAck(k)
  PROVE  HpInv'
<1>1. /\ k \in DOMAIN hpMap /\ hpMap' = [hpMap EXCEPT ![k].synack = hpNow]
      /\ UNCHANGED <<hpFate, hpPoll, hpSignals, hpNow>>
  BY DEF synAck
<1>2. hpMap[k] \in HpEntry /\ hpNow \in Nat
  BY <1>1 DEF HpInv, HpMapSound
<1>3. /\ DOMAIN hpMap' = DOMAIN hpMap
      /\ \A x \in DOMAIN hpMap : hpMap'[x] = IF x = k THEN [hpMap[k] EXCEPT !.synack = hpNow] ELSE hpMap[x]
  BY <1>1
<1>4. hpMap'[k] \in HpEntry /\ hpMap'[k].id = hpMap[k].id
  BY <1>1, <1>2, <1>3 DEF HpEntry
<1>5. \A x \in DOMAIN hpMap : hpMap'[x].id = hpMap[x].id /\ (hpMap[x] \in HpEntry => hpMap'[x] \in HpEntry)
  BY <1>3, <1>4
<1>6. HpMapSound'
  <2>1. ASSUME NEW x \in DOMAIN hpMap'
        PROVE  /\ x \in HpKeys /\ hpMap'[x] \in HpEntry /\ hpMap'[x].id \in DOMAIN hpFate'
               /\ hpFate'[hpMap'[x].id].key = x /\ hpFate'[hpMap'[x].id].is = "pending"
               /\ \A g \in DOMAIN hpFate' : hpFate'[g].key = x => g <= hpMap'[x].id
    BY <1>1, <1>3, <1>5 DEF HpInv, HpMapSound
  <2>2. ASSUME NEW h \in DOMAIN hpFate', hpFate'[h].is = "pending"
        PROVE  hpFate'[h].key \in DOMAIN hpMap' /\ hpMap'[hpFate'[h].key].id = h
    BY <1>1, <1>3, <1>5, <2>2 DEF HpInv, HpMapSound
  <2>3. hpFate' \in Seq(HpFate) /\ hpNow' \in Nat
    BY <1>1 DEF HpInv, HpMapSound
  <2> QED BY <2>1, <2>2, <2>3 DEF HpMapSound
<1>7. hpFate' \in Seq(HpFate)
  BY <1>1 DEF HpInv, HpMapSound
<1>8. HpPollSound' /\ HpTellings' /\ HpOwed' /\ HpReportedOnce'
  BY <1>1, <1>7, KernelMoves
<1> QED BY <1>6, <1>8 DEF HpInv

\* The final ACK ends the pending handshake of the session.
LEMMA AckKeeps ==
  ASSUME HpInv, NEW k \in HpKeys, ack(k)
  PROVE  HpInv'
<1> DEFINE d == hpMap[k].id
<1>1. /\ k \in DOMAIN hpMap /\ hpMap' = hpDrop(hpMap, {k})
      /\ UNCHANGED <<hpPoll, hpSignals, hpNow>>
  BY DEF ack
<1>2. /\ hpFate \in Seq(HpFate) /\ d \in DOMAIN hpFate
      /\ hpFate[d].key = k /\ hpFate[d].is = "pending" /\ hpFate[d] \in HpFate
  BY <1>1 DEF HpInv, HpMapSound
<1> DEFINE e == [key |-> k, is |-> "completed"]
<1>3. hpFate' = [hpFate EXCEPT ![d] = e]
  <2>1. [hpFate[d] EXCEPT !.is = IF hpFate[d].is = "pending" THEN "completed" ELSE hpFate[d].is] = e
    BY <1>2 DEF HpFate
  <2>2. hpFate' = [hpFate EXCEPT ![d] = [hpFate[d] EXCEPT !.is = IF hpFate[d].is = "pending" THEN "completed" ELSE hpFate[d].is]]
    BY DEF ack
  <2> QED BY <2>1, <2>2
<1>4. e \in HpFate /\ e.key = k /\ e.is = "completed"
  BY DEF HpFate
<1> HIDE DEF d, e
<1>5. hpFate' \in Seq(HpFate) /\ DOMAIN hpFate' = DOMAIN hpFate
  BY <1>2, <1>3, <1>4, ExceptSeq
<1>6. /\ hpFate'[d] = e
      /\ \A h \in DOMAIN hpFate : h # d => hpFate'[h] = hpFate[h]
  BY <1>2, <1>3
<1>7. \A h \in DOMAIN hpFate :
           /\ hpFate'[h].key = hpFate[h].key
           /\ hpFate'[h].is = hpFate[h].is \/
              (hpFate[h].is = "pending" /\ hpFate'[h].is \in {"completed", "evicted"})
  BY <1>2, <1>4, <1>6
<1>8. HpPollSound' /\ HpTellings' /\ HpOwed' /\ HpReportedOnce'
  BY <1>1, <1>5, <1>7, KernelMoves
<1>9. DOMAIN hpMap' = DOMAIN hpMap \ {k} /\ \A x \in DOMAIN hpMap \ {k} : hpMap'[x] = hpMap[x]
  BY <1>1 DEF hpDrop
<1>10. HpMapSound'
  <2>1. ASSUME NEW x \in DOMAIN hpMap'
        PROVE  /\ x \in HpKeys /\ hpMap'[x] \in HpEntry /\ hpMap'[x].id \in DOMAIN hpFate'
               /\ hpFate'[hpMap'[x].id].key = x /\ hpFate'[hpMap'[x].id].is = "pending"
               /\ \A g \in DOMAIN hpFate' : hpFate'[g].key = x => g <= hpMap'[x].id
    <3>1. x \in DOMAIN hpMap /\ x # k /\ hpMap'[x] = hpMap[x]
      BY <1>9
    <3>2. /\ x \in HpKeys /\ hpMap[x] \in HpEntry /\ hpMap[x].id \in DOMAIN hpFate
          /\ hpFate[hpMap[x].id].key = x /\ hpFate[hpMap[x].id].is = "pending"
          /\ \A g \in DOMAIN hpFate : hpFate[g].key = x => g <= hpMap[x].id
      BY <3>1 DEF HpInv, HpMapSound
    <3>3. hpMap[x].id # d
      BY <1>2, <3>1, <3>2
    <3> QED BY <1>5, <1>6, <1>7, <3>1, <3>2, <3>3
  <2>2. ASSUME NEW h \in DOMAIN hpFate', hpFate'[h].is = "pending"
        PROVE  hpFate'[h].key \in DOMAIN hpMap' /\ hpMap'[hpFate'[h].key].id = h
    <3>1. h \in DOMAIN hpFate /\ h # d
      BY <1>4, <1>5, <1>6, <2>2
    <3>2. hpFate'[h] = hpFate[h] /\ hpFate[h].is = "pending"
      BY <1>6, <2>2, <3>1
    <3>3. hpFate[h].key \in DOMAIN hpMap /\ hpMap[hpFate[h].key].id = h
      BY <3>1, <3>2 DEF HpInv, HpMapSound
    <3>4. hpFate[h].key # k
      BY <3>1, <3>3 DEF d
    <3> QED BY <1>9, <3>2, <3>3, <3>4
  <2>3. hpNow' \in Nat
    BY <1>1 DEF HpInv, HpMapSound
  <2> QED BY <1>5, <2>1, <2>2, <2>3 DEF HpMapSound
<1> QED BY <1>8, <1>10 DEF HpInv

LEMMA HpTickKeeps ==
  ASSUME HpInv, hpTick
  PROVE  HpInv'
<1>1. hpNow' = hpNow + 1 /\ UNCHANGED <<hpMap, hpFate, hpPoll, hpSignals>>
  BY DEF hpTick
<1>2. HpMapSound' /\ hpFate' \in Seq(HpFate)
  BY <1>1 DEF HpInv, HpMapSound
<1>3. HpPollSound' /\ HpTellings' /\ HpOwed' /\ HpReportedOnce'
  BY <1>1, <1>2, KernelMoves
<1> QED BY <1>2, <1>3 DEF HpInv

-----------------------------------------------------------------------------
(* The poll. *)

\* A step of the poll that counts nothing leaves the accounts as they are.
LEMMA NothingCounted ==
  ASSUME HpInv, HpPollSound', UNCHANGED <<hpMap, hpFate, hpSignals, hpNow>>,
         \A h : HpCounted(h)' <=> HpCounted(h)
  PROVE  HpInv'
<1>1. \A h : HpTold(h)' <=> HpTold(h)
  BY DEF HpTold
<1>2. \A h : HpSpared(h)' <=> HpSpared(h)
  BY DEF HpSpared
<1>3. HpMapSound' /\ HpReportedOnce'
  BY DEF HpInv, HpMapSound, HpReportedOnce
<1>4. HpTellings'
  BY <1>1, <1>2 DEF HpInv, HpTellings
<1>5. HpOwed'
  BY <1>1 DEF HpInv, HpOwed
<1> QED BY <1>3, <1>4, <1>5 DEF HpInv

LEMMA PollBegins ==
  ASSUME HpInv, pollStart
  PROVE  HpInv'
<1>1. /\ hpPoll.pc = "idle" /\ UNCHANGED <<hpMap, hpFate, hpSignals, hpNow>>
  BY DEF pollStart
<1>2. PICK seen \in SUBSET HpKeys : hpPoll' = [pc |-> "walk", now |-> hpNow, left |-> seen, found |-> <<>>]
  BY DEF pollStart
<1>3. /\ hpPoll'.pc = "walk" /\ hpPoll'.found = <<>>
      /\ hpPoll' = [pc |-> "walk", now |-> hpPoll'.now, left |-> hpPoll'.left, found |-> hpPoll'.found]
  BY <1>2
<1>4. hpPoll'.found \in Seq(HpFound) /\ DOMAIN hpPoll'.found = {}
  BY <1>3
<1>5. HpPollSound'
  BY <1>3, <1>4 DEF HpPollSound
<1>6. \A h : HpCounted(h)' <=> HpCounted(h)
  BY <1>1, <1>3 DEF HpCounted
<1> QED BY <1>1, <1>5, <1>6, NothingCounted

LEMMA WalkRecord ==
  ASSUME NEW p, NEW q, NEW t, NEW s, NEW f, NEW l, NEW g,
         p = [pc |-> "walk", now |-> t, left |-> s, found |-> f],
         q = [p EXCEPT !.left = l, !.found = g]
  PROVE  q = [pc |-> "walk", now |-> t, left |-> l, found |-> g]
OBVIOUS

\* An entry joins what was found with the handshake it is of.
LEMMA WalkEntryKeeps ==
  ASSUME HpInv, walkEntry
  PROVE  HpInv'
<1> DEFINE L == hpPoll.found
<1>1. hpPoll.pc = "walk" /\ UNCHANGED <<hpMap, hpFate, hpSignals, hpNow>>
  BY DEF walkEntry
<1>2. /\ L \in Seq(HpFound)
      /\ hpPoll = [pc |-> "walk", now |-> hpPoll.now, left |-> hpPoll.left, found |-> L]
      /\ \A i \in DOMAIN L : L[i].key \notin hpPoll.left
      /\ \A i \in DOMAIN L :
            /\ L[i].val.id \in DOMAIN hpFate
            /\ hpFate[L[i].val.id].key = L[i].key
            /\ ~HpTold(L[i].val.id)
      /\ \A i, j \in DOMAIN L : L[i].key = L[j].key => i = j
  BY <1>1 DEF HpInv, HpPollSound
<1>3. PICK k \in hpPoll.left :
        hpPoll' = [hpPoll EXCEPT !.left = @ \ {k},
          !.found = IF k \in DOMAIN hpMap THEN keptOf(@, k, hpPoll.now) ELSE @]
  BY DEF walkEntry
<1> DEFINE M == IF k \in DOMAIN hpMap THEN keptOf(L, k, hpPoll.now) ELSE L
           e == [key |-> k, val |-> hpMap[k]]
<1>4. M = L \/ (k \in DOMAIN hpMap /\ M = Append(L, e))
  BY DEF keptOf
<1>12. hpPoll' = [hpPoll EXCEPT !.left = hpPoll.left \ {k}, !.found = M]
  BY <1>3
<1> HIDE DEF M, L
<1>5. hpPoll' = [pc |-> "walk", now |-> hpPoll.now, left |-> hpPoll.left \ {k}, found |-> M]
  <2> DEFINE l == hpPoll.left \ {k} s == hpPoll.left t == hpPoll.now
  <2>1. hpPoll = [pc |-> "walk", now |-> t, left |-> s, found |-> L] /\ hpPoll' = [hpPoll EXCEPT !.left = l, !.found = M]
    BY <1>2, <1>12
  <2> HIDE DEF l, s, t
  <2>2. hpPoll' = [pc |-> "walk", now |-> t, left |-> l, found |-> M]
    BY <2>1, WalkRecord
  <2> QED BY <2>2 DEF l, t
<1>6. hpPoll'.pc = "walk" /\ hpPoll'.found = M /\ hpPoll'.left = hpPoll.left \ {k} /\ hpPoll'.now = hpPoll.now
  BY <1>5
<1>7. \A h : HpTold(h)' <=> HpTold(h)
  BY <1>1 DEF HpTold
<1>8. /\ M \in Seq(HpFound)
      /\ \A i \in DOMAIN M : M[i].key \notin hpPoll.left \ {k}
      /\ \A i \in DOMAIN M :
            /\ M[i].val.id \in DOMAIN hpFate
            /\ hpFate[M[i].val.id].key = M[i].key
            /\ ~HpTold(M[i].val.id)
      /\ \A i, j \in DOMAIN M : M[i].key = M[j].key => i = j
  <2>1. CASE M = L
    BY <1>2, <2>1
  <2>2. CASE k \in DOMAIN hpMap /\ M = Append(L, e)
    <3>1. /\ k \in HpKeys /\ hpMap[k] \in HpEntry /\ hpMap[k].id \in DOMAIN hpFate
          /\ hpFate[hpMap[k].id].key = k /\ hpFate[hpMap[k].id].is = "pending"
      BY <2>2 DEF HpInv, HpMapSound
    <3>2. ~HpTold(hpMap[k].id)
      BY <3>1 DEF HpInv, HpTellings, HpSpared
    <3>3. e \in HpFound /\ e.key = k /\ e.val.id = hpMap[k].id
      BY <3>1 DEF HpFound
    <3> HIDE DEF L, e
    <3>4. /\ M \in Seq(HpFound) /\ Len(M) = Len(L) + 1
          /\ \A i \in 1..Len(L) : M[i] = L[i]
          /\ M[Len(L) + 1] = e
      BY <1>2, <2>2, <3>3, AppendProperties
    <3>5. DOMAIN M = 1..(Len(L) + 1) /\ DOMAIN L = 1..Len(L) /\ Len(L) \in Nat
      BY <1>2, <3>4, LenProperties
    <3>6. \A i \in DOMAIN M : (i \in DOMAIN L /\ M[i] = L[i]) \/ (i = Len(L) + 1 /\ M[i] = e)
      BY <3>4, <3>5
    <3>7. \A i \in DOMAIN L : L[i].key # k
      BY <1>2, <1>3
    <3>8. \A i, j \in DOMAIN M : M[i].key = M[j].key => i = j
      BY <1>2, <3>3, <3>6, <3>7
    <3> QED BY <1>2, <3>1, <3>2, <3>3, <3>4, <3>6, <3>8
  <2> QED BY <1>4, <2>1, <2>2
<1>9. hpPoll' = [pc |-> "walk", now |-> hpPoll'.now, left |-> hpPoll'.left, found |-> hpPoll'.found]
  BY <1>5, <1>6
<1>10. HpPollSound'
  BY <1>1, <1>6, <1>7, <1>8, <1>9 DEF HpPollSound
<1>11. \A h : HpCounted(h)' <=> HpCounted(h)
  BY <1>1, <1>6 DEF HpCounted
<1> QED BY <1>1, <1>10, <1>11, NothingCounted

LEMMA WalkEndsKeeps ==
  ASSUME HpInv, walkEnds
  PROVE  HpInv'
<1>1. hpPoll.pc = "walk" /\ UNCHANGED <<hpMap, hpFate, hpSignals, hpNow>>
  BY DEF walkEnds
<1>2. hpPoll' = [pc |-> "delete", found |-> hpPoll.found, start |-> 1, counted |-> {}]
  BY DEF walkEnds
<1>3. /\ hpPoll'.pc = "delete" /\ hpPoll'.found = hpPoll.found /\ hpPoll'.start = 1 /\ hpPoll'.counted = {}
      /\ hpPoll' = [pc |-> "delete", found |-> hpPoll'.found, start |-> hpPoll'.start, counted |-> hpPoll'.counted]
  BY <1>2
<1>4. \A h : HpTold(h)' <=> HpTold(h)
  BY <1>1 DEF HpTold
<1>5. HpPollSound'
  BY <1>1, <1>3, <1>4 DEF HpInv, HpPollSound
<1>6. \A h : HpCounted(h)' <=> HpCounted(h)
  BY <1>1, <1>3 DEF HpCounted
<1> QED BY <1>1, <1>5, <1>6, NothingCounted

\* Min of a set of positive numbers.
LEMMA SmallestOf ==
  ASSUME NEW S \in SUBSET Nat, S # {}
  PROVE  Min(S) \in S /\ \A y \in S : Min(S) <= y
<1>1. PICK d \in S : \A e \in S : ~ (<<e, d>> \in OpToRel(<, Nat))
  BY WFMin, NatLessThanWellFounded
<1>2. \A e \in S : d <= e
  <2> SUFFICES ASSUME NEW e \in S, e < d PROVE FALSE
    OBVIOUS
  <2>1. <<e, d>> \in OpToRel(<, Nat)
    BY DEF OpToRel
  <2> QED BY <1>1, <2>1
<1> QED BY <1>2 DEF Min

\* A chunk deletes the keys up to the first one that is gone: all of those are
\* still in the map.
LEMMA ChunkIsThere ==
  ASSUME HpInv, hpPoll.pc = "delete", NEW last \in Nat,
         hpPoll.start <= last, last <= Len(hpPoll.found),
         NEW n, n = deletedOf(last)
  PROVE  /\ n \in Nat /\ hpPoll.start + n <= last + 1
         /\ \A i \in hpPoll.start..(hpPoll.start + n - 1) :
              i \in DOMAIN hpPoll.found /\ hpPoll.found[i].key \in DOMAIN hpMap
<1> DEFINE st == hpPoll.start
           gone == {i \in st..last : ~stillThere(i)}
           m == IF gone = {} THEN last + 1 ELSE Min(gone)
<1>1. st \in Nat \ {0} /\ hpPoll.found \in Seq(HpFound)
  BY DEF HpInv, HpPollSound
<1>2. DOMAIN hpPoll.found = 1..Len(hpPoll.found) /\ Len(hpPoll.found) \in Nat
  BY <1>1, LenProperties
<1>3. n = m - st
  BY DEF deletedOf
<1>4. m \in st..(last + 1) /\ \A i \in st..(m - 1) : i \in st..last /\ stillThere(i)
  <2>1. CASE gone = {}
    <3>1. m = last + 1
      BY <2>1
    <3>2. \A i \in st..last : stillThere(i)
      BY <2>1
    <3> HIDE DEF m, gone
    <3> QED BY <1>1, <3>1, <3>2
  <2>2. CASE gone # {}
    <3>1. gone \in SUBSET Nat
      BY <1>1
    <3>2. m = Min(gone)
      BY <2>2
    <3>3. \A i \in st..last : ~stillThere(i) => i \in gone
      OBVIOUS
    <3>4. \A i \in gone : i \in st..last
      OBVIOUS
    <3> HIDE DEF m, gone
    <3>5. m \in gone /\ \A y \in gone : m <= y
      BY <2>2, <3>1, <3>2, SmallestOf
    <3>6. m \in st..last
      BY <3>4, <3>5
    <3>7. ASSUME NEW i \in st..(m - 1)
          PROVE  i \in st..last /\ stillThere(i)
      <4>1. i \in st..last /\ i < m
        BY <1>1, <3>6
      <4>2. i \notin gone
        BY <1>1, <3>1, <3>5, <3>6, <4>1
      <4> QED BY <3>3, <4>1, <4>2
    <3> QED BY <1>1, <3>6, <3>7
  <2> QED BY <2>1, <2>2
<1> HIDE DEF m, gone
<1>5. n \in Nat /\ st + n = m /\ st + n <= last + 1
  BY <1>1, <1>3, <1>4
<1>6. ASSUME NEW i \in st..(st + n - 1)
      PROVE  i \in DOMAIN hpPoll.found /\ hpPoll.found[i].key \in DOMAIN hpMap
  <2>1. i \in st..last /\ stillThere(i)
    <3>1. st + n - 1 = m - 1
      BY <1>1, <1>4, <1>5
    <3>2. i \in st..(m - 1)
      BY <1>6, <3>1
    <3> QED BY <1>4, <3>2
  <2> QED BY <1>1, <1>2, <2>1 DEF stillThere
<1> QED BY <1>5, <1>6

LEMMA DeleteRecord ==
  ASSUME NEW p, NEW q, NEW f, NEW s, NEW c, NEW t, NEW d,
         p = [pc |-> "delete", found |-> f, start |-> s, counted |-> c],
         q = [p EXCEPT !.start = t, !.counted = d]
  PROVE  q = [pc |-> "delete", found |-> f, start |-> t, counted |-> d]
OBVIOUS

\* A chunk of deletes: every key it consumes is counted with the handshake that
\* the walk found there.
LEMMA DeleteChunkKeeps ==
  ASSUME HpInv, deleteChunk
  PROVE  HpInv'
<1> DEFINE L == hpPoll.found
           st == hpPoll.start
           last == IF hpBatch THEN chunkEnd ELSE st
           n == deletedOf(last)
           D == st..(st + n - 1)
           new == IF st + n > last THEN last + 1 ELSE st + n + 1
<1>1. hpPoll.pc = "delete" /\ st <= Len(L) /\ UNCHANGED <<hpSignals, hpNow>>
  BY DEF deleteChunk
<1>2. /\ hpMap' = hpDrop(hpMap, consumed(n))
      /\ hpPoll' = [hpPoll EXCEPT !.start = new, !.counted = hpPoll.counted \cup D]
      /\ hpFate' = [h \in DOMAIN hpFate |-> [hpFate[h] EXCEPT !.is = fateOf(h, D, n)]]
  BY DEF deleteChunk, countedOf
<1>3. /\ L \in Seq(HpFound) /\ st \in Nat \ {0} /\ hpPoll.counted \subseteq DOMAIN L
      /\ hpPoll = [pc |-> "delete", found |-> L, start |-> st, counted |-> hpPoll.counted]
      /\ \A i \in DOMAIN L :
            /\ L[i].val.id \in DOMAIN hpFate
            /\ hpFate[L[i].val.id].key = L[i].key
            /\ ~HpTold(L[i].val.id)
      /\ \A i, j \in DOMAIN L : L[i].key = L[j].key => i = j
  BY <1>1 DEF HpInv, HpPollSound
<1>4. Len(L) \in Nat /\ DOMAIN L = 1..Len(L)
  BY <1>3, LenProperties
<1>5. last \in Nat /\ st <= last /\ last <= Len(L)
  <2>1. CASE hpBatch
    <3> DEFINE S == {st + HpChunk - 1, Len(L)}
    <3>1. HpChunk \in Nat \ {0}
      BY HpAssumption
    <3>2. S \in SUBSET Nat /\ S # {} /\ \A y \in S : y >= st
      BY <1>1, <1>3, <1>4, <3>1
    <3>3. last = Min(S) /\ Len(L) \in S
      BY <2>1 DEF chunkEnd
    <3> HIDE DEF S, last
    <3>4. Min(S) \in S /\ \A y \in S : Min(S) <= y
      BY <3>2, SmallestOf
    <3> QED BY <3>2, <3>3, <3>4
  <2>2. CASE ~hpBatch
    BY <1>1, <1>3, <1>4, <2>2
  <2> QED BY <2>1, <2>2
<1> HIDE DEF last
<1>6. /\ n \in Nat /\ st + n <= last + 1
      /\ \A i \in D : i \in DOMAIN L /\ L[i].key \in DOMAIN hpMap
  BY <1>1, <1>5, ChunkIsThere
<1>7. consumed(n) = {L[i].key : i \in D}
  BY DEF consumed
<1>8. new \in Nat \ {0}
  BY <1>3, <1>5, <1>6
<1> HIDE DEF n, new
<1>9. /\ hpFate' \in Seq(HpFate) /\ DOMAIN hpFate' = DOMAIN hpFate
      /\ \A h \in DOMAIN hpFate :
              /\ hpFate'[h].key = hpFate[h].key
              /\ hpFate[h].is # "pending" => hpFate'[h].is = hpFate[h].is
              /\ (\E i \in D : L[i].val.id = h) /\ hpFate[h].is = "pending" => hpFate'[h].is = "reported"
              /\ ~(\E i \in D : L[i].val.id = h) /\ (\E i \in D : hpMap[L[i].key].id = h)
                   => hpFate'[h].is = "displaced"
              /\ ~(\E i \in D : L[i].val.id = h) /\ ~(\E i \in D : hpMap[L[i].key].id = h)
                   => hpFate'[h].is = hpFate[h].is
  <2> DEFINE CS == {L[i].val.id : i \in D}
             TS == {hpMap[L[i].key].id : i \in D}
  <2>1. hpFate \in Seq(HpFate) /\ DOMAIN hpFate = 1..Len(hpFate) /\ Len(hpFate) \in Nat
    BY LenProperties DEF HpInv, HpMapSound
  <2>2. \A h : fateOf(h, D, n) =
          IF h \in CS THEN (IF hpFate[h].is = "pending" \/ h \in TS THEN "reported" ELSE hpFate[h].is)
          ELSE IF h \in TS THEN "displaced" ELSE hpFate[h].is
    BY DEF fateOf
  <2> HIDE DEF D
  <2>3. \A h : h \in TS => hpFate[h].is = "pending"
    BY <1>6 DEF HpInv, HpMapSound
  <2>4. /\ \A h : h \in CS <=> \E i \in D : L[i].val.id = h
        /\ \A h : h \in TS <=> \E i \in D : hpMap[L[i].key].id = h
    OBVIOUS
  <2> HIDE DEF CS, TS
  <2>5. ASSUME NEW h \in DOMAIN hpFate
        PROVE  hpFate'[h] \in HpFate /\ hpFate'[h].key = hpFate[h].key /\ hpFate'[h].is = fateOf(h, D, n)
    <3> DEFINE v == fateOf(h, D, n)
    <3>1. hpFate[h] \in HpFate
      BY <2>1
    <3>2. v \in {"pending", "completed", "evicted", "reported", "displaced"}
      BY <2>2, <3>1 DEF HpFate
    <3>3. hpFate'[h] = [hpFate[h] EXCEPT !.is = v]
      BY <1>2
    <3> HIDE DEF v
    <3>4. hpFate'[h] \in HpFate /\ hpFate'[h].key = hpFate[h].key /\ hpFate'[h].is = v
      BY <3>1, <3>2, <3>3 DEF HpFate
    <3> QED BY <3>4 DEF v
  <2>6. hpFate' \in Seq(HpFate) /\ DOMAIN hpFate' = DOMAIN hpFate
    <3>1. DOMAIN hpFate' = 1..Len(hpFate) /\ hpFate' \in [1..Len(hpFate) -> HpFate]
      BY <1>2, <2>1, <2>5
    <3>2. hpFate' \in Seq(HpFate)
      BY <2>1, <3>1, IsASeq
    <3> QED BY <2>1, <3>1, <3>2
  <2>7. ASSUME NEW h \in DOMAIN hpFate
        PROVE  /\ hpFate'[h].key = hpFate[h].key
               /\ hpFate[h].is # "pending" => hpFate'[h].is = hpFate[h].is
               /\ h \in CS /\ hpFate[h].is = "pending" => hpFate'[h].is = "reported"
               /\ h \notin CS /\ h \in TS => hpFate'[h].is = "displaced"
               /\ h \notin CS /\ h \notin TS => hpFate'[h].is = hpFate[h].is
    BY <2>2, <2>3, <2>5
  <2> QED BY <2>4, <2>6, <2>7
<1>10. /\ hpPoll' = [pc |-> "delete", found |-> L, start |-> new, counted |-> hpPoll.counted \cup D]
       /\ hpPoll'.pc = "delete" /\ hpPoll'.found = L /\ hpPoll'.start = new
       /\ hpPoll'.counted = hpPoll.counted \cup D
  <2> DEFINE c == hpPoll.counted \cup D
             d == hpPoll.counted
  <2>1. /\ hpPoll = [pc |-> "delete", found |-> L, start |-> st, counted |-> d]
        /\ hpPoll' = [hpPoll EXCEPT !.start = new, !.counted = c]
    BY <1>2, <1>3
  <2> HIDE DEF c, d, L, st
  <2>2. hpPoll' = [pc |-> "delete", found |-> L, start |-> new, counted |-> c]
    BY <2>1, DeleteRecord
  <2>3. hpPoll'.pc = "delete" /\ hpPoll'.found = L /\ hpPoll'.start = new /\ hpPoll'.counted = c
    BY <2>2
  <2> QED BY <2>2, <2>3 DEF c
<1> DEFINE C(h) == \E i \in D : L[i].val.id = h
           T(h) == \E i \in D : hpMap[L[i].key].id = h
<1>11. \A h \in DOMAIN hpFate :
         /\ hpFate'[h].key = hpFate[h].key
         /\ hpFate[h].is # "pending" => hpFate'[h].is = hpFate[h].is
         /\ C(h) /\ hpFate[h].is = "pending" => hpFate'[h].is = "reported"
         /\ ~C(h) /\ T(h) => hpFate'[h].is = "displaced"
         /\ ~C(h) /\ ~T(h) => hpFate'[h].is = hpFate[h].is
  BY <1>9
<1>12. /\ \A h : HpTold(h)' <=> HpTold(h)
       /\ \A h : HpCounted(h)' <=> HpCounted(h) \/ C(h)
  BY <1>1, <1>10 DEF HpTold, HpCounted
<1>13. \A i \in D : i \in DOMAIN L /\ L[i].key \in DOMAIN hpMap
                    /\ L[i].val.id \in DOMAIN hpFate /\ hpFate[L[i].val.id].key = L[i].key
  BY <1>3, <1>6
<1>14. DOMAIN hpMap' = DOMAIN hpMap \ {L[i].key : i \in D} /\ \A x \in DOMAIN hpMap' : hpMap'[x] = hpMap[x]
  BY <1>2, <1>7 DEF hpDrop
<1>15. D \subseteq DOMAIN L
  BY <1>13
<1> HIDE DEF D, L, st
<1>16. HpPollSound'
  <2>1. hpPoll'.counted \subseteq DOMAIN L
    BY <1>3, <1>10, <1>15
  <2>2. hpPoll' = [pc |-> "delete", found |-> hpPoll'.found, start |-> hpPoll'.start, counted |-> hpPoll'.counted]
    BY <1>10
  <2>3. \A i \in DOMAIN L :
            /\ L[i].val.id \in DOMAIN hpFate'
            /\ hpFate'[L[i].val.id].key = L[i].key
            /\ ~\E j \in DOMAIN hpSignals' : L[i].val.id \in hpSignals'[j].ids
    <3> TAKE i \in DOMAIN L
    <3>1. L[i].val.id \in DOMAIN hpFate /\ hpFate[L[i].val.id].key = L[i].key /\ ~HpTold(L[i].val.id)
      BY <1>3
    <3>2. ~\E j \in DOMAIN hpSignals' : L[i].val.id \in hpSignals'[j].ids
      BY <1>1, <3>1 DEF HpTold
    <3>3. L[i].val.id \in DOMAIN hpFate' /\ hpFate'[L[i].val.id].key = L[i].key
      BY <1>9, <1>11, <3>1
    <3> QED BY <3>2, <3>3
  <2> QED BY <1>3, <1>8, <1>10, <2>1, <2>2, <2>3 DEF HpPollSound, HpTold
<1>17. HpMapSound'
  <2>1. ASSUME NEW x \in DOMAIN hpMap'
        PROVE  /\ x \in HpKeys /\ hpMap'[x] \in HpEntry /\ hpMap'[x].id \in DOMAIN hpFate'
               /\ hpFate'[hpMap'[x].id].key = x /\ hpFate'[hpMap'[x].id].is = "pending"
               /\ \A g \in DOMAIN hpFate' : hpFate'[g].key = x => g <= hpMap'[x].id
    <3> DEFINE h == hpMap[x].id
    <3>1. x \in DOMAIN hpMap /\ hpMap'[x] = hpMap[x] /\ \A i \in D : L[i].key # x
      BY <1>14
    <3>2. /\ x \in HpKeys /\ hpMap[x] \in HpEntry /\ h \in DOMAIN hpFate /\ hpFate[h].key = x
          /\ hpFate[h].is = "pending" /\ \A g \in DOMAIN hpFate : hpFate[g].key = x => g <= h
      BY <3>1 DEF HpInv, HpMapSound
    <3>3. ~C(h)
      BY <1>13, <3>1, <3>2
    <3>4. ~T(h)
      <4> SUFFICES ASSUME NEW i \in D, hpMap[L[i].key].id = h PROVE FALSE
        OBVIOUS
      <4>1. hpFate[h].key = L[i].key
        BY <1>13 DEF HpInv, HpMapSound
      <4> QED BY <3>1, <3>2, <4>1
    <3>5. hpFate'[h].is = "pending" /\ hpFate'[h].key = x
      BY <1>11, <3>2, <3>3, <3>4
    <3>6. \A g \in DOMAIN hpFate' : hpFate'[g].key = x => g <= h
      BY <1>9, <1>11, <3>2
    <3> QED BY <1>9, <3>1, <3>2, <3>5, <3>6
  <2>2. ASSUME NEW h \in DOMAIN hpFate', hpFate'[h].is = "pending"
        PROVE  hpFate'[h].key \in DOMAIN hpMap' /\ hpMap'[hpFate'[h].key].id = h
    <3>1. h \in DOMAIN hpFate /\ hpFate'[h].key = hpFate[h].key
      BY <1>9, <1>11
    <3>2. hpFate[h].is = "pending" /\ ~T(h)
      BY <1>11, <2>2, <3>1
    <3>3. hpFate[h].key \in DOMAIN hpMap /\ hpMap[hpFate[h].key].id = h
      BY <3>1, <3>2 DEF HpInv, HpMapSound
    <3>4. \A i \in D : L[i].key # hpFate[h].key
      BY <3>2, <3>3
    <3> QED BY <1>14, <3>1, <3>3, <3>4
  <2>3. hpNow' \in Nat
    BY <1>1 DEF HpInv, HpMapSound
  <2> QED BY <1>9, <2>1, <2>2, <2>3 DEF HpMapSound
<1>18. ASSUME NEW h, HpCounted(h)' \/ HpTold(h)'
       PROVE  HpSpared(h)'
  <2>1. CASE HpCounted(h) \/ HpTold(h)
    <3>1. HpSpared(h)
      BY <2>1 DEF HpInv, HpTellings
    <3>2. h \in DOMAIN hpFate /\ hpFate[h].is # "pending" /\ hpFate'[h].is = hpFate[h].is /\ hpFate'[h].key = hpFate[h].key
      BY <1>11, <3>1 DEF HpSpared
    <3>3. ASSUME hpFate'[h].is \in {"completed", "evicted"}
          PROVE  \E g \in DOMAIN hpFate' : g > h /\ hpFate'[g].key = hpFate'[h].key /\ hpFate'[g].is = "displaced"
      <4>1. PICK g \in DOMAIN hpFate : g > h /\ hpFate[g].key = hpFate[h].key /\ hpFate[g].is = "displaced"
        BY <3>1, <3>2, <3>3 DEF HpSpared
      <4>2. hpFate'[g].key = hpFate[g].key /\ hpFate'[g].is = "displaced"
        BY <1>11, <4>1
      <4> QED BY <1>9, <3>2, <4>1, <4>2
    <3> QED BY <1>9, <3>2, <3>3 DEF HpSpared
  <2>2. CASE C(h)
    <3>1. PICK i \in D : L[i].val.id = h
      BY <2>2
    <3> DEFINE k == L[i].key
               g == hpMap[k].id
    <3>2. i \in DOMAIN L /\ h \in DOMAIN hpFate /\ hpFate[h].key = k /\ k \in DOMAIN hpMap
      BY <1>13, <3>1
    <3>3. g \in DOMAIN hpFate /\ hpFate[g].key = k /\ hpFate[g].is = "pending" /\ h <= g /\ g \in Nat /\ h \in Nat
      <4>1. DOMAIN hpFate \subseteq Nat
        <5>1. hpFate \in Seq(HpFate)
          BY DEF HpInv, HpMapSound
        <5>2. DOMAIN hpFate = 1..Len(hpFate) /\ Len(hpFate) \in Nat
          BY <5>1, LenProperties
        <5> QED BY <5>2
      <4> QED BY <3>2, <4>1 DEF HpInv, HpMapSound
    <3>4. CASE h = g
      <4>1. hpFate'[h].is = "reported"
        BY <1>11, <2>2, <3>2, <3>3, <3>4
      <4> QED BY <1>9, <3>2, <4>1 DEF HpSpared
    <3>5. CASE h # g
      <4>1. hpFate[h].is # "pending"
        BY <3>2, <3>5 DEF HpInv, HpMapSound
      <4>2. hpFate'[h].is = hpFate[h].is /\ hpFate'[h].key = k
        BY <1>11, <3>2, <4>1
      <4>3. ~C(g)
        <5> SUFFICES ASSUME NEW j \in D, L[j].val.id = g PROVE FALSE
          OBVIOUS
        <5>1. j \in DOMAIN L /\ L[j].key = k
          BY <1>13, <3>3
        <5>2. j = i
          BY <1>3, <3>2, <5>1
        <5> QED BY <3>1, <3>5, <5>2
      <4>4. T(g)
        BY <3>1
      <4>5. hpFate'[g].is = "displaced" /\ hpFate'[g].key = k
        BY <1>11, <3>3, <4>3, <4>4
      <4>6. g > h
        BY <3>3, <3>5
      <4> QED BY <1>9, <3>2, <3>3, <4>1, <4>2, <4>5, <4>6 DEF HpSpared
    <3> QED BY <3>4, <3>5
  <2> QED BY <1>12, <1>18, <2>1, <2>2
<1>19. HpTellings'
  <2>1. \A j \in DOMAIN hpSignals' : \A h \in hpSignals'[j].ids : HpSource[hpFate'[h].key] = hpSignals'[j].src
    <3> SUFFICES ASSUME NEW j \in DOMAIN hpSignals, NEW h \in hpSignals[j].ids
                 PROVE  HpSource[hpFate'[h].key] = hpSignals[j].src
      BY <1>1
    <3>1. HpTold(h)
      BY DEF HpTold
    <3>2. h \in DOMAIN hpFate /\ HpSource[hpFate[h].key] = hpSignals[j].src
      BY <3>1 DEF HpInv, HpTellings, HpSpared
    <3> QED BY <1>11, <3>2
  <2>2. hpSignals' \in Seq(HpSignal)
    BY <1>1 DEF HpInv, HpTellings
  <2>3. \A h : HpCounted(h)' \/ HpTold(h)' => HpSpared(h)'
    BY <1>18
  <2> QED BY <2>1, <2>2, <2>3 DEF HpTellings
<1>20. HpOwed'
  <2> SUFFICES ASSUME NEW h \in DOMAIN hpFate', HpSource[hpFate'[h].key] \notin HpAllowed
               PROVE  /\ hpFate'[h].is = "reported" => HpCounted(h)' \/ HpTold(h)'
                      /\ hpFate'[h].is = "displaced" =>
                           \E g \in DOMAIN hpFate' : (HpCounted(g)' \/ HpTold(g)') /\ g < h /\ hpFate'[g].key = hpFate'[h].key
    BY DEF HpOwed
  <2>1. h \in DOMAIN hpFate /\ hpFate'[h].key = hpFate[h].key
    BY <1>9, <1>11
  <2>2. ASSUME hpFate'[h].is = "reported"
        PROVE  HpCounted(h)' \/ HpTold(h)'
    <3>1. C(h) \/ hpFate[h].is = "reported"
      BY <1>11, <2>1, <2>2
    <3> QED BY <1>12, <2>1, <3>1 DEF HpInv, HpOwed
  <2>3. ASSUME hpFate'[h].is = "displaced"
        PROVE  \E g \in DOMAIN hpFate' : (HpCounted(g)' \/ HpTold(g)') /\ g < h /\ hpFate'[g].key = hpFate'[h].key
    <3>1. CASE hpFate[h].is = "displaced"
      <4>1. PICK g \in DOMAIN hpFate : (HpCounted(g) \/ HpTold(g)) /\ g < h /\ hpFate[g].key = hpFate[h].key
        BY <2>1, <3>1 DEF HpInv, HpOwed
      <4> QED BY <1>9, <1>11, <1>12, <2>1, <4>1
    <3>2. CASE ~C(h) /\ T(h)
      <4>1. PICK i \in D : hpMap[L[i].key].id = h
        BY <3>2
      <4>0. PICK g : g = L[i].val.id
        OBVIOUS
      <4>2. g \in DOMAIN hpFate /\ hpFate[g].key = L[i].key /\ L[i].key \in DOMAIN hpMap
        BY <1>13, <4>0
      <4>3. hpFate[h].key = L[i].key /\ g <= h
        BY <4>1, <4>2 DEF HpInv, HpMapSound
      <4>4. C(g) /\ g # h
        BY <3>2, <4>0, <4>1
      <4>5. DOMAIN hpFate \subseteq Nat
        <5>1. hpFate \in Seq(HpFate)
          BY DEF HpInv, HpMapSound
        <5>2. DOMAIN hpFate = 1..Len(hpFate) /\ Len(hpFate) \in Nat
          BY <5>1, LenProperties
        <5> QED BY <5>2
      <4>6. g < h
        BY <2>1, <4>2, <4>3, <4>4, <4>5
      <4>7. HpCounted(g)'
        BY <1>12, <4>4
      <4>8. hpFate'[g].key = hpFate'[h].key /\ g \in DOMAIN hpFate'
        BY <1>9, <1>11, <2>1, <4>2, <4>3
      <4> QED BY <4>6, <4>7, <4>8
    <3>3. hpFate[h].is = "displaced" \/ (~C(h) /\ T(h))
      <4> HIDE DEF C, T
      <4> QED BY <1>11, <2>1, <2>3
    <3> QED BY <3>1, <3>2, <3>3
  <2> QED BY <2>2, <2>3
<1>21. HpReportedOnce'
  BY <1>1 DEF HpInv, HpReportedOnce
<1> QED BY <1>16, <1>17, <1>19, <1>20, <1>21 DEF HpInv

\* SetToSeq lists each element of a finite set once.
LEMMA ListedOnce ==
  ASSUME NEW Q, IsFiniteSet(Q), NEW Z, Z = SetToSeq(Q)
  PROVE  /\ Z \in Seq(Q) /\ DOMAIN Z = 1..Len(Z) /\ Len(Z) \in Nat
         /\ \A i \in DOMAIN Z : Z[i] \in Q
         /\ \A i, j \in DOMAIN Z : Z[i] = Z[j] => i = j
         /\ \A q \in Q : \E i \in DOMAIN Z : Z[i] = q
<1> DEFINE c == Cardinality(Q)
<1>1. c \in Nat /\ ExistsBijection(1..c, Q)
  BY FS_CardinalityType
<1>2. \E f \in [1..c -> Q] : IsInjective(f)
  BY <1>1 DEF ExistsBijection, Bijection, Injection
<1>3. Z \in [1..c -> Q] /\ IsInjective(Z)
  BY <1>2 DEF SetToSeq
<1> HIDE DEF c
<1>4. Z \in Seq(Q) /\ Len(Z) = c /\ DOMAIN Z = 1..c
  BY <1>1, <1>3, IsASeq, LenProperties
<1>5. \A i, j \in DOMAIN Z : Z[i] = Z[j] => i = j
  BY <1>3 DEF IsInjective
<1>6. Z \in Surjection(1..c, Q)
  <2>1. Z \in Injection(1..c, Q)
    BY <1>3 DEF Injection
  <2>2. IsFiniteSet(1..c) /\ Cardinality(1..c) = c
    BY <1>1, FS_Interval
  <2>3. Cardinality(1..c) = Cardinality(Q)
    BY <2>2 DEF c
  <2> QED BY <2>1, <2>2, <2>3, FS_Injection
<1>7. \A q \in Q : \E i \in DOMAIN Z : Z[i] = q
  BY <1>3, <1>6 DEF Surjection
<1> QED BY <1>1, <1>3, <1>4, <1>5, <1>7

\* The report: one signal per source, of what was counted for it.
LEMMA SendCountsKeeps ==
  ASSUME HpInv, sendCounts
  PROVE  HpInv'
<1> DEFINE L == hpPoll.found
           Cn == hpPoll.counted
           srcs == {HpSource[L[i].key] : i \in Cn} \ HpAllowed
           sig(s) == [src |-> s, ids |-> {L[i].val.id : i \in {j \in Cn : HpSource[L[j].key] = s}}]
           Q == {sig(s) : s \in srcs}
           Z == SetToSeq(Q)
           m == Len(hpSignals)
<1>1. /\ hpPoll.pc = "delete" /\ hpSignals' = hpSignals \o Z /\ hpPoll' = hpIdle
      /\ UNCHANGED <<hpMap, hpFate, hpNow>>
  BY DEF sendCounts
<1>2. /\ L \in Seq(HpFound) /\ Cn \subseteq DOMAIN L
      /\ \A i \in DOMAIN L :
            /\ L[i].val.id \in DOMAIN hpFate
            /\ hpFate[L[i].val.id].key = L[i].key
            /\ ~HpTold(L[i].val.id)
  BY <1>1 DEF HpInv, HpPollSound
<1>3. /\ DOMAIN L = 1..Len(L) /\ Len(L) \in Nat
      /\ \A i \in DOMAIN L : L[i].key \in HpKeys /\ L[i].val.id \in Nat
  <2>1. DOMAIN L = 1..Len(L) /\ Len(L) \in Nat
    BY <1>2, LenProperties
  <2>2. \A i \in DOMAIN L : L[i] \in HpFound
    BY <1>2, <2>1, ElementOfSeq
  <2>3. \A i \in DOMAIN L : L[i].key \in HpKeys /\ L[i].val.id \in Nat
    BY <2>2 DEF HpFound, HpEntry
  <2> QED BY <2>1, <2>3
<1> HIDE DEF L, Cn
<1>4. \A q \in Q : q.src \in srcs /\ q = sig(q.src)
  <2> SUFFICES ASSUME NEW q \in Q PROVE q.src \in srcs /\ q = sig(q.src)
    OBVIOUS
  <2>1. PICK s \in srcs : q = sig(s)
    OBVIOUS
  <2>2. q.src = s
    BY <2>1
  <2> QED BY <2>1, <2>2
<1>5. \A q \in Q : \A h \in q.ids : \E i \in Cn : h = L[i].val.id /\ HpSource[L[i].key] = q.src
  <2> SUFFICES ASSUME NEW q \in Q, NEW h \in q.ids
               PROVE  \E i \in Cn : h = L[i].val.id /\ HpSource[L[i].key] = q.src
    OBVIOUS
  <2>1. q.ids = {L[i].val.id : i \in {j \in Cn : HpSource[L[j].key] = q.src}}
    BY <1>4
  <2> QED BY <2>1
<1>6. ASSUME NEW i \in Cn, HpSource[L[i].key] \notin HpAllowed
      PROVE  \E q \in Q : L[i].val.id \in q.ids
  <2>1. HpSource[L[i].key] \in srcs
    BY <1>6
  <2>2. L[i].val.id \in sig(HpSource[L[i].key]).ids
    OBVIOUS
  <2> QED BY <2>1, <2>2
<1>7. Q \subseteq HpSignal
  <2> SUFFICES ASSUME NEW q \in Q PROVE q \in HpSignal
    OBVIOUS
  <2>1. q = sig(q.src) /\ q.src \in {HpSource[k] : k \in HpKeys}
    <3>1. PICK i \in Cn : q.src = HpSource[L[i].key]
      BY <1>4
    <3> QED BY <1>2, <1>3, <1>4, <3>1
  <2>2. sig(q.src).ids \subseteq Nat
    BY <1>2, <1>3
  <2> QED BY <2>1, <2>2 DEF HpSignal
<1>8. IsFiniteSet(Q)
  <2> DEFINE A == {i \in Cn : HpSource[L[i].key] \notin HpAllowed}
             f == [i \in A |-> sig(HpSource[L[i].key])]
  <2>1. IsFiniteSet(A)
    <3>1. IsFiniteSet(1..Len(L))
      BY <1>3, FS_Interval
    <3>2. A \subseteq 1..Len(L)
      BY <1>2, <1>3
    <3> QED BY <3>1, <3>2, FS_Subset
  <2>2. \A i \in A : f[i] \in Q
    OBVIOUS
  <2>3. \A q \in Q : \E i \in A : f[i] = q
    <3> SUFFICES ASSUME NEW q \in Q PROVE \E i \in A : f[i] = q
      OBVIOUS
    <3>1. q = sig(q.src) /\ q.src \in srcs
      BY <1>4
    <3>2. PICK i \in Cn : q.src = HpSource[L[i].key] /\ HpSource[L[i].key] \notin HpAllowed
      BY <3>1
    <3>3. i \in A /\ f[i] = sig(HpSource[L[i].key])
      BY <3>2
    <3> QED BY <3>1, <3>2, <3>3
  <2>4. f \in [A -> Q]
    BY <2>2
  <2> HIDE DEF f, A, Q
  <2>5. f \in Surjection(A, Q)
    BY <2>3, <2>4 DEF Surjection
  <2> QED BY <2>1, <2>5, FS_Surjection
<1>9. \A q, r \in Q : q.src = r.src => q = r
  <2> TAKE q, r \in Q
  <2> HAVE q.src = r.src
  <2>1. q = sig(q.src) /\ r = sig(r.src)
    BY <1>4
  <2> HIDE DEF sig
  <2> QED BY <2>1
<1>25. \A q \in Q : q.src \notin HpAllowed
  BY <1>4
<1> HIDE DEF Q
<1>10. /\ Z \in Seq(Q) /\ DOMAIN Z = 1..Len(Z) /\ Len(Z) \in Nat
       /\ \A i \in DOMAIN Z : Z[i] \in Q
       /\ \A i, j \in DOMAIN Z : Z[i] = Z[j] => i = j
       /\ \A q \in Q : \E i \in DOMAIN Z : Z[i] = q
  BY <1>8, ListedOnce
<1> HIDE DEF Z
<1>11. hpSignals \in Seq(HpSignal) /\ m \in Nat /\ DOMAIN hpSignals = 1..m
  BY LenProperties DEF HpInv, HpTellings
<1>12. /\ hpSignals' \in Seq(HpSignal) /\ DOMAIN hpSignals' = 1..(m + Len(Z))
       /\ \A j \in 1..m : hpSignals'[j] = hpSignals[j]
       /\ \A j \in (m + 1)..(m + Len(Z)) : hpSignals'[j] = Z[j - m] /\ j - m \in DOMAIN Z
  <2>1. Z \in Seq(HpSignal)
    BY <1>7, <1>10, SeqMonotonic
  <2>2. /\ hpSignals' \in Seq(HpSignal) /\ Len(hpSignals') = m + Len(Z)
        /\ \A i \in 1..(m + Len(Z)) : hpSignals'[i] = IF i <= m THEN hpSignals[i] ELSE Z[i - m]
    BY <1>1, <1>11, <2>1, ConcatProperties
  <2>3. DOMAIN hpSignals' = 1..(m + Len(Z))
    BY <2>2, LenProperties
  <2> QED BY <1>10, <1>11, <2>2, <2>3
<1> HIDE DEF m
\* A signal after the step is one from before or one of the new ones.
<1>13. \A j \in DOMAIN hpSignals' :
         \/ j \in DOMAIN hpSignals /\ hpSignals'[j] = hpSignals[j]
         \/ j \notin DOMAIN hpSignals /\ j - m \in DOMAIN Z /\ hpSignals'[j] = Z[j - m]
            /\ hpSignals'[j] \in Q
  BY <1>10, <1>11, <1>12
<1>14. \A h : HpCounted(h) <=> \E i \in Cn : L[i].val.id = h
  BY <1>1 DEF HpCounted, L, Cn
<1>15. \A q \in Q : \A h \in q.ids :
         /\ HpCounted(h) /\ ~HpTold(h) /\ h \in DOMAIN hpFate
         /\ HpSource[hpFate[h].key] = q.src /\ q.src \notin HpAllowed
  BY <1>2, <1>5, <1>25, <1>14
<1>16. \A h : HpTold(h) => HpTold(h)'
  BY <1>11, <1>12 DEF HpTold
<1>17. \A h : HpTold(h)' => HpTold(h) \/ HpCounted(h)
  BY <1>13, <1>15 DEF HpTold
<1>18. ASSUME NEW h, HpCounted(h), HpSource[hpFate[h].key] \notin HpAllowed
       PROVE  HpTold(h)'
  <2>1. PICK i \in Cn : L[i].val.id = h
    BY <1>14, <1>18
  <2>2. HpSource[L[i].key] \notin HpAllowed
    BY <1>2, <1>18, <2>1
  <2>3. PICK q \in Q : h \in q.ids
    BY <1>6, <2>1, <2>2
  <2>4. PICK z \in DOMAIN Z : Z[z] = q
    BY <1>10
  <2>5. m + z \in (m + 1)..(m + Len(Z)) /\ (m + z) - m = z
    BY <1>10, <1>11
  <2>6. m + z \in DOMAIN hpSignals' /\ hpSignals'[m + z] = q
    BY <1>11, <1>12, <1>10, <2>4, <2>5
  <2> QED BY <2>3, <2>6 DEF HpTold
<1>19. hpPoll'.pc = "idle" /\ \A h : ~HpCounted(h)'
  BY <1>1 DEF hpIdle, HpCounted
<1>20. HpPollSound'
  BY <1>19 DEF HpPollSound
<1>21. HpMapSound'
  BY <1>1 DEF HpInv, HpMapSound
<1>22. HpTellings'
  <2>1. \A h : HpSpared(h)' <=> HpSpared(h)
    BY <1>1 DEF HpSpared
  <2>2. \A h : HpCounted(h)' \/ HpTold(h)' => HpSpared(h)'
    BY <1>17, <1>19, <2>1 DEF HpInv, HpTellings
  <2>3. ASSUME NEW j \in DOMAIN hpSignals', NEW h \in hpSignals'[j].ids
        PROVE  HpSource[hpFate'[h].key] = hpSignals'[j].src
    <3>1. CASE j \in DOMAIN hpSignals /\ hpSignals'[j] = hpSignals[j]
      BY <1>1, <2>3, <3>1 DEF HpInv, HpTellings
    <3>2. CASE hpSignals'[j] \in Q
      BY <1>1, <1>15, <2>3, <3>2
    <3> QED BY <1>13, <3>1, <3>2
  <2> QED BY <1>12, <2>2, <2>3 DEF HpTellings
<1>23. HpOwed'
  <2> SUFFICES ASSUME NEW h \in DOMAIN hpFate, HpSource[hpFate[h].key] \notin HpAllowed
               PROVE  /\ hpFate[h].is = "reported" => HpTold(h)'
                      /\ hpFate[h].is = "displaced" =>
                           \E g \in DOMAIN hpFate : HpTold(g)' /\ g < h /\ hpFate[g].key = hpFate[h].key
    BY <1>1 DEF HpOwed
  <2>1. hpFate[h].is = "reported" => HpTold(h)'
    BY <1>16, <1>18 DEF HpInv, HpOwed
  <2>2. ASSUME hpFate[h].is = "displaced"
        PROVE  \E g \in DOMAIN hpFate : HpTold(g)' /\ g < h /\ hpFate[g].key = hpFate[h].key
    <3>1. PICK g \in DOMAIN hpFate : (HpCounted(g) \/ HpTold(g)) /\ g < h /\ hpFate[g].key = hpFate[h].key
      BY <2>2 DEF HpInv, HpOwed
    <3>2. HpTold(g)'
      BY <1>16, <1>18, <3>1
    <3> QED BY <3>1, <3>2
  <2> QED BY <2>1, <2>2
<1>24. HpReportedOnce'
  <2> SUFFICES ASSUME NEW i \in DOMAIN hpSignals', NEW j \in DOMAIN hpSignals', i # j,
                      NEW h, h \in hpSignals'[i].ids, h \in hpSignals'[j].ids
               PROVE  FALSE
    BY DEF HpReportedOnce
  <2>1. CASE i \in DOMAIN hpSignals /\ j \in DOMAIN hpSignals
    BY <1>13, <2>1 DEF HpInv, HpReportedOnce
  <2>2. ASSUME NEW x \in DOMAIN hpSignals, NEW y \in DOMAIN hpSignals', y \notin DOMAIN hpSignals,
               h \in hpSignals'[x].ids, h \in hpSignals'[y].ids
        PROVE  FALSE
    <3>1. HpTold(h)
      BY <1>11, <1>12, <2>2 DEF HpTold
    <3>2. hpSignals'[y] \in Q
      BY <1>13, <2>2
    <3>3. ~HpTold(h)
      BY <1>15, <2>2, <3>2
    <3> QED BY <3>1, <3>3
  <2>3. CASE i \notin DOMAIN hpSignals /\ j \notin DOMAIN hpSignals
    <3>1. /\ i - m \in DOMAIN Z /\ hpSignals'[i] = Z[i - m] /\ hpSignals'[i] \in Q
          /\ j - m \in DOMAIN Z /\ hpSignals'[j] = Z[j - m] /\ hpSignals'[j] \in Q
      BY <1>13, <2>3
    <3>2. hpSignals'[i].src = hpSignals'[j].src
      BY <1>15, <3>1
    <3>3. Z[i - m] = Z[j - m]
      BY <1>9, <3>1, <3>2
    <3>4. i - m = j - m
      BY <1>10, <3>1, <3>3
    <3>5. i \in Nat /\ j \in Nat
      BY <1>10, <1>11, <1>12
    <3> QED BY <1>11, <3>4, <3>5
  <2> QED BY <2>1, <2>2, <2>3
<1> QED BY <1>20, <1>21, <1>22, <1>23, <1>24 DEF HpInv

-----------------------------------------------------------------------------

LEMMA HandshakeStep == HpInv /\ [HandshakePollNext]_hpVars => HpInv'
<1> SUFFICES ASSUME HpInv, [HandshakePollNext]_hpVars PROVE HpInv'
  OBVIOUS
<1>1. CASE UNCHANGED hpVars
  <2>1. UNCHANGED <<hpMap, hpFate, hpPoll, hpSignals, hpNow>>
    BY <1>1 DEF hpVars
  <2>2. hpFate' \in Seq(HpFate) /\ HpMapSound'
    BY <2>1 DEF HpInv, HpMapSound
  <2>3. HpPollSound' /\ HpTellings' /\ HpOwed' /\ HpReportedOnce'
    BY <2>1, <2>2, KernelMoves
  <2> QED BY <2>2, <2>3 DEF HpInv
<1>2. ASSUME NEW k \in HpKeys, syn(k) \/ synAck(k) \/ ack(k)
      PROVE  HpInv'
  BY <1>2, SynKeeps, SynAckKeeps, AckKeeps
<1> QED BY <1>1, <1>2, HpTickKeeps, PollBegins, WalkEntryKeeps, WalkEndsKeeps, DeleteChunkKeeps,
           SendCountsKeeps DEF HandshakePollNext

\* Every incomplete handshake is told once, none that was finished and none not
\* at all, for any number of sessions, sources, polls and packets between their
\* steps (sendPendingHandshakes and deleteKeys).
THEOREM HandshakesAreToldOnce == HandshakePollSpec => []HandshakesToldOnce
<1>1. HpInv => HandshakesToldOnce
  <2> SUFFICES ASSUME HpInv PROVE HandshakesToldOnce
    OBVIOUS
  <2>1. HpReportedOnce
    BY DEF HpInv
  <2>2. \A h \in DOMAIN hpFate : hpFate[h] \in HpFate
    BY DEF HpInv, HpMapSound
  <2>3. HpFinishedSpared
    <3> SUFFICES ASSUME NEW s \in Range(hpSignals), NEW h \in s.ids,
                        hpFate[h].is \in {"completed", "evicted"}
                 PROVE  \E g \in DOMAIN hpFate : g > h /\ hpFate[g] = [key |-> hpFate[h].key, is |-> "displaced"]
      BY DEF HpFinishedSpared
    <3>1. HpTold(h)
      BY DEF Range, HpTold
    <3>2. PICK g \in DOMAIN hpFate : g > h /\ hpFate[g].key = hpFate[h].key /\ hpFate[g].is = "displaced"
      BY <3>1 DEF HpInv, HpTellings, HpSpared
    <3>3. hpFate[g] = [key |-> hpFate[g].key, is |-> hpFate[g].is]
      BY <2>2 DEF HpFate
    <3> QED BY <3>2, <3>3
  <2>4. HpAllAccounted
    <3> DEFINE inMap == {hpMap[k].id : k \in DOMAIN hpMap}
               inPoll == IF hpPoll.pc = "delete" THEN {hpPoll.found[i].val.id : i \in hpPoll.counted} ELSE {}
               told == UNION {s.ids : s \in Range(hpSignals)}
    <3>1. \A h : HpCounted(h) => h \in inPoll
      BY DEF HpCounted
    <3>2. \A h : HpTold(h) => h \in told
      BY DEF HpTold, Range
    <3>3. \A h \in DOMAIN hpFate : hpFate[h].is = "pending" => h \in inMap
      BY DEF HpInv, HpMapSound
    <3> HIDE DEF inMap, inPoll, told
    <3>4. \A h \in DOMAIN hpFate : HpSource[hpFate[h].key] \notin HpAllowed =>
            /\ hpFate[h].is = "reported" => h \in inPoll \cup told
            /\ hpFate[h].is = "displaced" =>
                 \E g \in inPoll \cup told : g < h /\ hpFate[g].key = hpFate[h].key
      BY <3>1, <3>2 DEF HpInv, HpOwed
    <3> QED BY <3>3, <3>4 DEF HpAllAccounted, inMap, inPoll, told
  <2> QED BY <2>1, <2>3, <2>4 DEF HandshakesToldOnce
<1> QED BY <1>1, HandshakesStart, HandshakeStep, PTL DEF HandshakePollSpec

-----------------------------------------------------------------------------
(***************************************************************************)
(* AnalyzerLink.                                                           *)
(***************************************************************************)

LinkQueueTyped ==
  /\ queue \in 0..QueueSize
  /\ producer \in [Producers -> {"idle", "full", "retry"}]
  /\ owed \in 0..(QueueSize + Cardinality(Producers))

LinkTyped ==
  /\ mgr \in [pc : {"loop", "dialing", "opened", "read", "recv", "execute", "lost",
                    "wait", "done"},
              stream : Streams \cup {0}, delay : 0..MaxBackoff,
              backoff : Initial..MaxBackoff, connectedFor : 0..Stable]
  /\ cur \in Streams \cup {0}
  /\ alive \subseteq Streams /\ stuck \subseteq alive
  /\ connected \in BOOLEAN
  /\ ready \in [connected : BOOLEAN, up : BOOLEAN, everUp : BOOLEAN, down : 0..Grace]
  /\ sender \in [pc : {"idle", "copy", "send", "reset", "store", "done"},
                 stream : Streams \cup {0}]
  /\ stray \subseteq Streams
  /\ stop \in {"no", "cancelled", "closed"}
  /\ synced \in alive \cup {0}
  /\ outage \in 0..Grace

\* A stream is alive only while the fields hold it; one whose Send has timed out
\* stays there no longer than until the reset.
LinkInv ==
  /\ LinkTyped
  /\ NoConcurrentSend
  /\ alive \subseteq {cur}
  /\ cur # 0 /\ cur \in stray => sender.pc = "reset"
  /\ mgr.pc = "dialing" => cur = 0
  /\ sender.pc = "send" => sender.stream # 0

LinkQueueInv == LinkQueueTyped /\ SignalsAccounted

-----------------------------------------------------------------------------
\* The producers that hold a signal.
Holding == {p \in Producers : producer[p] # "idle"}

LEMMA HoldingCount ==
  ASSUME producer \in [Producers -> {"idle", "full", "retry"}]
  PROVE  /\ IsFiniteSet(Holding)
         /\ Cardinality(Holding) \in 0..Cardinality(Producers)
         /\ Cardinality(Producers) \in Nat
<1>1. Holding \subseteq Producers
  BY DEF Holding
<1>2. /\ IsFiniteSet(Holding)
      /\ Cardinality(Holding) <= Cardinality(Producers)
  BY <1>1, FS_Subset, LinkAssumption
<1>3. Cardinality(Holding) \in Nat /\ Cardinality(Producers) \in Nat
  BY <1>2, FS_CardinalityType, LinkAssumption
<1> QED
  BY <1>2, <1>3

\* A producer that takes up or lays down a signal changes the count by one.
LEMMA HoldingStep ==
  ASSUME producer \in [Producers -> {"idle", "full", "retry"}],
         NEW p \in Producers, NEW pc \in {"idle", "full", "retry"},
         producer' = [producer EXCEPT ![p] = pc]
  PROVE  /\ producer' \in [Producers -> {"idle", "full", "retry"}]
         /\ producer[p] = "idle" /\ pc # "idle"
              => Cardinality(Holding') = Cardinality(Holding) + 1
         /\ producer[p] # "idle" /\ pc # "idle"
              => Cardinality(Holding') = Cardinality(Holding)
         /\ producer[p] # "idle" /\ pc = "idle"
              => /\ Cardinality(Holding') = Cardinality(Holding) - 1
                 /\ Cardinality(Holding) > 0
<1>1. producer' \in [Producers -> {"idle", "full", "retry"}]
  OBVIOUS
<1>2. IsFiniteSet(Holding) /\ Cardinality(Holding) \in Nat
  BY HoldingCount
<1>3. ASSUME producer[p] = "idle", pc # "idle"
      PROVE  Cardinality(Holding') = Cardinality(Holding) + 1
  <2>1. Holding' = Holding \cup {p} /\ p \notin Holding
    BY <1>3 DEF Holding
  <2> QED
    BY <2>1, <1>2, FS_AddElement
<1>4. ASSUME producer[p] # "idle", pc # "idle"
      PROVE  Cardinality(Holding') = Cardinality(Holding)
  <2>1. Holding' = Holding
    BY <1>4 DEF Holding
  <2> QED
    BY <2>1
<1>5. ASSUME producer[p] # "idle", pc = "idle"
      PROVE  /\ Cardinality(Holding') = Cardinality(Holding) - 1
             /\ Cardinality(Holding) > 0
  <2>1. Holding' = Holding \ {p} /\ p \in Holding
    BY <1>5 DEF Holding
  <2>2. /\ Cardinality(Holding') = Cardinality(Holding) - 1
        /\ IsFiniteSet(Holding')
    BY <2>1, <1>2, FS_RemoveElement
  <2>3. Cardinality(Holding') \in Nat
    BY <2>2, FS_CardinalityType
  <2> QED
    BY <2>2, <2>3, <1>2
<1> QED
  BY <1>1, <1>3, <1>4, <1>5

\* What the queue and the producers hold bounds what is owed.
LEMMA OwedBound ==
  LinkQueueInv <=> /\ queue \in 0..QueueSize
                   /\ producer \in [Producers -> {"idle", "full", "retry"}]
                   /\ owed = queue + Cardinality(Holding)
<1>1. ASSUME producer \in [Producers -> {"idle", "full", "retry"}]
      PROVE  /\ Cardinality(Holding) \in 0..Cardinality(Producers)
             /\ Cardinality(Producers) \in Nat
  BY <1>1, HoldingCount
<1> QED
  BY <1>1, LinkAssumption DEF LinkQueueInv, LinkQueueTyped, SignalsAccounted, Holding

LEMMA QueueStepKeeps ==
  ASSUME LinkQueueInv, [Next]_vars
  PROVE  LinkQueueInv'
<1> USE LinkAssumption
<1>1. /\ queue \in 0..QueueSize
      /\ producer \in [Producers -> {"idle", "full", "retry"}]
      /\ owed = queue + Cardinality(Holding)
      /\ Cardinality(Holding) \in Nat
  BY OwedBound, HoldingCount
<1>2. SUFFICES /\ queue' \in 0..QueueSize
               /\ producer' \in [Producers -> {"idle", "full", "retry"}]
               /\ owed' = queue' + Cardinality(Holding')
  <2>1. (LinkQueueInv <=> /\ queue \in 0..QueueSize
                          /\ producer \in [Producers -> {"idle", "full", "retry"}]
                          /\ owed = queue + Cardinality(Holding))'
    BY OwedBound, PTL
  <2> QED
    BY <2>1
<1>3. CASE UNCHANGED queueVars
  BY <1>1, <1>3 DEF queueVars, Holding
<1>4. CASE takeSignal
  BY <1>1, <1>4 DEF takeSignal, Holding
<1>5. ASSUME NEW p \in Producers, offer(p)
      PROVE  /\ queue' \in 0..QueueSize
             /\ producer' \in [Producers -> {"idle", "full", "retry"}]
             /\ owed' = queue' + Cardinality(Holding')
  <2>1. CASE queue < QueueSize
    BY <2>1, <1>1, <1>5 DEF offer, Holding
  <2>2. CASE ~(queue < QueueSize)
    <3>1. producer' = [producer EXCEPT ![p] = "full"] /\ producer[p] = "idle"
      BY <2>2, <1>5 DEF offer
    <3>2. Cardinality(Holding') = Cardinality(Holding) + 1
      BY <3>1, <1>1, HoldingStep
    <3> QED
      BY <3>1, <3>2, <2>2, <1>1, <1>5 DEF offer
  <2> QED
    BY <2>1, <2>2
<1>6. ASSUME NEW p \in Producers, dropOldest(p)
      PROVE  /\ queue' \in 0..QueueSize
             /\ producer' \in [Producers -> {"idle", "full", "retry"}]
             /\ owed' = queue' + Cardinality(Holding')
  <2>1. producer' = [producer EXCEPT ![p] = "retry"] /\ producer[p] = "full"
    BY <1>6 DEF dropOldest
  <2>2. Cardinality(Holding') = Cardinality(Holding)
    BY <2>1, <1>1, HoldingStep
  <2> QED
    BY <2>1, <2>2, <1>1, <1>6 DEF dropOldest
<1>7. ASSUME NEW p \in Producers, retryOffer(p)
      PROVE  /\ queue' \in 0..QueueSize
             /\ producer' \in [Producers -> {"idle", "full", "retry"}]
             /\ owed' = queue' + Cardinality(Holding')
  <2>1. producer' = [producer EXCEPT ![p] = "idle"] /\ producer[p] = "retry"
    BY <1>7 DEF retryOffer
  <2>2. Cardinality(Holding') = Cardinality(Holding) - 1 /\ Cardinality(Holding) > 0
    BY <2>1, <1>1, HoldingStep
  <2> QED
    BY <2>1, <2>2, <1>1, <1>7 DEF retryOffer
<1>8. CASE manageAnalyzerConnection \/ receiveCommand
  <2>1. UNCHANGED queueVars
    BY <1>8 DEF manageAnalyzerConnection, startConnect, connectFails, connectToAnalyzer,
         markConnected, readStream, receiveCommand, executeCommand, applyRules,
         receiveFails, connectionLost, waitAnalyzerReconnect, managerStops, allButMgr
  <2> QED
    BY <1>3, <2>1
<1>9. CASE signalSender \/ senderStops
  <2>1. UNCHANGED queueVars
    BY <1>9 DEF signalSender, senderStops, copyStream, sendReturns, sendTimesOut,
         resetAnalyzerConnection, resetStores
  <2> QED
    BY <1>3, <2>1
<1>10. CASE (\E s \in Streams : breaks(s) \/ stopsReading(s) \/ straySendReturns(s))
            \/ Stop \/ stopCloses \/ Tick
  <2>1. UNCHANGED queueVars
    BY <1>10 DEF breaks, stopsReading, straySendReturns, Stop, stopCloses, Tick
  <2> QED
    BY <1>3, <2>1
<1>11. CASE UNCHANGED vars
  BY <1>3, <1>11 DEF vars
<1> QED
  BY <1>4, <1>5, <1>6, <1>7, <1>8, <1>9, <1>10, <1>11 DEF Next, sendSignal

-----------------------------------------------------------------------------
\* The delay and the backoff stay in their range.
LEMMA BackoffInRange ==
  ASSUME NEW b \in Initial..MaxBackoff, NEW c \in Nat
  PROVE  /\ analyzerReconnectBackoff(b, c)[1] \in 1..MaxBackoff
         /\ analyzerReconnectBackoff(b, c)[2] \in Initial..MaxBackoff
<1> DEFINE d == IF b <= 0 \/ c >= Stable THEN Initial ELSE b
<1>1. d \in Initial..MaxBackoff /\ Initial > 0 /\ MaxBackoff \in Nat /\ Initial \in Nat
  BY LinkAssumption
<1>2. analyzerReconnectBackoff(b, c) = <<d, Min({2 * d, MaxBackoff})>>
  BY DEF analyzerReconnectBackoff
<1> HIDE DEF d
<1>3. {2 * d, MaxBackoff} \in SUBSET Nat /\ {2 * d, MaxBackoff} # {}
  BY <1>1
<1>4. /\ Min({2 * d, MaxBackoff}) \in {2 * d, MaxBackoff}
      /\ Min({2 * d, MaxBackoff}) <= MaxBackoff
  BY <1>3, SmallestOf
<1>5. Min({2 * d, MaxBackoff}) \in Initial..MaxBackoff
  BY <1>1, <1>4
<1> QED
  BY <1>1, <1>2, <1>5

\* What startWait leaves.
LEMMA WaitStarted ==
  ASSUME mgr.backoff \in Initial..MaxBackoff, NEW c \in Nat, startWait(c)
  PROVE  /\ mgr' \in [pc : {"wait"}, stream : {0}, delay : 1..MaxBackoff,
                      backoff : Initial..MaxBackoff, connectedFor : {0}]
         /\ mgr'.pc = "wait" /\ mgr'.stream = 0 /\ mgr'.delay > 0
<1>1. PICK b : b = analyzerReconnectBackoff(mgr.backoff, c)
  OBVIOUS
<1>2. b[1] \in 1..MaxBackoff /\ b[2] \in Initial..MaxBackoff
  BY <1>1, BackoffInRange
<1>3. mgr' = [pc |-> "wait", stream |-> 0, delay |-> b[1], backoff |-> b[2],
              connectedFor |-> 0]
  BY <1>1 DEF startWait
<1> QED
  BY <1>2, <1>3, LinkAssumption

\* A new stream is one nothing refers to.
LEMMA NewStream ==
  ASSUME unused # {}
  PROVE  Min(unused) \in unused
<1>1. unused \in SUBSET Nat
  BY LinkAssumption DEF unused, Streams
<1> QED
  BY <1>1, SmallestOf

LEMMA LinkTypedIn ==
  ASSUME LinkTyped
  PROVE  /\ mgr.backoff \in Initial..MaxBackoff
         /\ mgr.connectedFor \in Nat
         /\ mgr.stream \in Streams \cup {0}
         /\ mgr.delay \in 0..MaxBackoff
         /\ sender.stream \in Streams \cup {0}
         /\ ready.down \in 0..Grace
         /\ ready.up \in BOOLEAN /\ ready.everUp \in BOOLEAN /\ ready.connected \in BOOLEAN
         /\ 0 \notin Streams
         /\ 0 \in 0..Grace
BY LinkAssumption DEF LinkTyped, Streams

LEMMA StreamsEnd ==
  ASSUME LinkTyped, NEW S, endStreams(S)
  PROVE  /\ alive' = alive \ S
         /\ alive' \subseteq Streams /\ stuck' \subseteq alive'
         /\ synced' \in alive' \cup {0}
         /\ outage' \in 0..Grace
         /\ \/ synced' = synced /\ outage' = outage
            \/ synced # 0 /\ synced' = 0 /\ outage' = 0
BY LinkTypedIn DEF LinkTyped, endStreams

\* The steps of the manager keep the streams in order.
LEMMA ManagerKeeps ==
  ASSUME LinkInv, manageAnalyzerConnection \/ receiveCommand
  PROVE  LinkInv'
<1> USE LinkTypedIn, LinkAssumption DEF LinkInv, NoConcurrentSend
<1>1. CASE startConnect
  <2>1. /\ mgr' = [mgr EXCEPT !.pc = "dialing"] /\ cur' = 0
        /\ endStreams({cur})
        /\ UNCHANGED <<connected, ready, senderVars, queueVars, stop>>
    BY <1>1 DEF startConnect
  <2>2. LinkTyped'
    BY <2>1, StreamsEnd DEF LinkTyped, senderVars
  <2>3. alive' = {}
    BY <2>1, StreamsEnd
  <2> QED
    BY <2>1, <2>2, <2>3 DEF senderVars
<1>2. CASE connectFails \/ connectionLost
  <2>1. PICK c \in Nat : startWait(c)
    BY <1>2 DEF connectFails, connectionLost
  <2>2. /\ mgr' \in [pc : {"wait"}, stream : {0}, delay : 1..MaxBackoff,
                      backoff : Initial..MaxBackoff, connectedFor : {0}]
        /\ mgr'.pc = "wait"
    BY <2>1, WaitStarted
  <2>3. /\ UNCHANGED <<cur, alive, stuck, synced, outage, senderVars, stop>>
        /\ \/ UNCHANGED <<connected, ready>>
           \/ connected' = FALSE /\ readySet(FALSE)
    BY <1>2 DEF connectFails, connectionLost, allButMgr
  <2>4. ready' \in [connected : BOOLEAN, up : BOOLEAN, everUp : BOOLEAN, down : 0..Grace]
    BY <2>3 DEF readySet, LinkTyped
  <2>5. mgr' \in [pc : {"loop", "dialing", "opened", "read", "recv", "execute", "lost",
                    "wait", "done"},
              stream : Streams \cup {0}, delay : 0..MaxBackoff,
              backoff : Initial..MaxBackoff, connectedFor : 0..Stable]
    BY <2>2
  <2>6. LinkTyped'
    BY <2>3, <2>4, <2>5 DEF LinkTyped, senderVars
  <2> QED
    BY <2>2, <2>3, <2>6 DEF senderVars
<1>3. CASE connectToAnalyzer
  <2>1. /\ cur' \in unused /\ mgr.pc = "dialing"
        /\ alive' = alive \cup {cur'}
        /\ mgr' = [mgr EXCEPT !.pc = "opened"]
        /\ UNCHANGED <<stuck, connected, ready, synced, outage, senderVars, stop>>
    BY <1>3, NewStream DEF connectToAnalyzer
  <2>2. cur' \in Streams /\ cur' \notin stray /\ cur' # 0 /\ alive = {}
    BY <2>1 DEF unused, LinkTyped
  <2>3. LinkTyped'
    BY <2>1, <2>2 DEF LinkTyped, senderVars
  <2> QED
    BY <2>1, <2>2, <2>3 DEF senderVars
<1>4. CASE markConnected
  <2>1. /\ mgr' = [mgr EXCEPT !.pc = "read", !.connectedFor = 0]
        /\ connected' = TRUE
        /\ ready' = [ready EXCEPT !.connected = TRUE, !.up = FALSE, !.down = ready.down]
        /\ UNCHANGED <<cur, alive, stuck, synced, outage, senderVars, stop>>
    BY <1>4 DEF markConnected, readySet, LinkTyped
  <2>2. 0 \in 0..Stable
    OBVIOUS
  <2>3. mgr' \in [pc : {"read"}, stream : Streams \cup {0}, delay : 0..MaxBackoff,
                  backoff : Initial..MaxBackoff, connectedFor : 0..Stable]
    BY <2>1, <2>2 DEF LinkTyped
  <2>4. ready' \in [connected : BOOLEAN, up : BOOLEAN, everUp : BOOLEAN, down : 0..Grace]
    BY <2>1 DEF LinkTyped
  <2>5. LinkTyped'
    BY <2>1, <2>3, <2>4 DEF LinkTyped, senderVars
  <2> QED
    BY <2>1, <2>3, <2>5 DEF senderVars
<1>5. CASE readStream \/ receiveCommand \/ executeCommand \/ receiveFails
           \/ waitAnalyzerReconnect \/ managerStops
  <2>1. UNCHANGED allButMgr
    BY <1>5 DEF readStream, receiveCommand, executeCommand, receiveFails,
         waitAnalyzerReconnect, managerStops
  <2>2. mgr' \in [pc : {"loop", "read", "recv", "execute", "lost", "done"},
              stream : Streams \cup {0}, delay : 0..MaxBackoff,
              backoff : Initial..MaxBackoff, connectedFor : 0..Stable]
    <3>1. CASE readStream \/ receiveCommand \/ waitAnalyzerReconnect
      <4>1. CASE readStream
        <5>1. PICK pc \in {"lost", "recv"} : mgr' = [mgr EXCEPT !.pc = pc, !.stream = cur]
          BY <4>1 DEF readStream
        <5> QED
          BY <5>1 DEF LinkTyped
      <4>2. CASE receiveCommand \/ waitAnalyzerReconnect
        <5>1. PICK pc \in {"execute", "loop"} : mgr' = [mgr EXCEPT !.pc = pc]
          BY <4>2 DEF receiveCommand, waitAnalyzerReconnect
        <5> QED
          BY <5>1 DEF LinkTyped
      <4> QED
        BY <3>1, <4>1, <4>2
    <3>2. CASE executeCommand \/ receiveFails
      <4>1. PICK pc \in {"read", "lost"} : mgr' = [mgr EXCEPT !.pc = pc, !.stream = 0]
        BY <3>2 DEF executeCommand, receiveFails
      <4> QED
        BY <4>1 DEF LinkTyped
    <3>3. CASE managerStops
      <4>1. Initial \in Initial..MaxBackoff /\ 0 \in 0..MaxBackoff
        OBVIOUS
      <4> QED
        BY <3>3, <4>1 DEF managerStops, LinkTyped
    <3> QED
      BY <1>5, <3>1, <3>2, <3>3
  <2>3. LinkTyped'
    BY <2>1, <2>2 DEF LinkTyped, allButMgr, senderVars
  <2> QED
    BY <2>1, <2>2, <2>3 DEF allButMgr, senderVars
<1>6. CASE applyRules
  <2>1. /\ mgr' = [mgr EXCEPT !.pc = "read", !.stream = 0]
        /\ UNCHANGED <<cur, alive, stuck, connected, senderVars, stop>>
    BY <1>6 DEF applyRules
  <2>2. ready' \in [connected : BOOLEAN, up : BOOLEAN, everUp : BOOLEAN, down : 0..Grace]
    BY <1>6 DEF applyRules, markSynced, LinkTyped
  <2>3. synced' \in alive' \cup {0} /\ outage' \in 0..Grace
    BY <1>6 DEF applyRules, LinkTyped
  <2>4. LinkTyped'
    BY <2>1, <2>2, <2>3 DEF LinkTyped, senderVars
  <2> QED
    BY <2>1, <2>4 DEF senderVars
<1> QED
  BY <1>1, <1>2, <1>3, <1>4, <1>5, <1>6 DEF manageAnalyzerConnection

\* So do the steps of the sender, ...
LEMMA SenderKeeps ==
  ASSUME LinkInv, takeSignal \/ signalSender \/ senderStops
  PROVE  LinkInv'
<1> USE LinkTypedIn, LinkAssumption DEF LinkInv, NoConcurrentSend
<1>1. CASE takeSignal \/ copyStream \/ sendReturns \/ senderStops
  <2>1. UNCHANGED linkVars /\ UNCHANGED stray /\ UNCHANGED stop
    BY <1>1 DEF takeSignal, copyStream, sendReturns, senderStops
  <2>2. sender' \in [pc : {"idle", "copy", "send", "done"}, stream : Streams \cup {0}]
    BY <1>1 DEF takeSignal, copyStream, sendReturns, senderStops, LinkTyped
  <2>3. /\ sender.pc # "reset"
        /\ sender'.pc = "send" => sender'.stream = cur /\ cur # 0
    BY <1>1 DEF takeSignal, copyStream, sendReturns, senderStops, LinkTyped
  <2>4. LinkTyped'
    BY <2>1, <2>2 DEF LinkTyped, linkVars
  <2> QED
    BY <2>1, <2>2, <2>3, <2>4 DEF linkVars
<1>2. CASE sendTimesOut
  <2>1. /\ UNCHANGED linkVars /\ UNCHANGED stop
        /\ sender.pc = "send" /\ sender' = [sender EXCEPT !.pc = "reset"]
        /\ stray' = stray \cup {sender.stream}
    BY <1>2 DEF sendTimesOut
  <2>2. sender' \in [pc : {"reset"}, stream : Streams]
    BY <2>1 DEF LinkTyped
  <2>3. LinkTyped'
    BY <2>1, <2>2 DEF LinkTyped, linkVars
  <2> QED
    BY <2>1, <2>2, <2>3 DEF linkVars
<1>3. CASE resetAnalyzerConnection
  <2>1. /\ cur' = 0 /\ endStreams({cur})
        /\ sender' = [pc |-> "store", stream |-> 0]
        /\ UNCHANGED <<mgr, connected, ready, stray, stop>>
    BY <1>3 DEF resetAnalyzerConnection
  <2>2. LinkTyped'
    BY <2>1, StreamsEnd DEF LinkTyped
  <2>3. alive' = {}
    BY <2>1, StreamsEnd
  <2> QED
    BY <2>1, <2>2, <2>3
<1>4. CASE resetStores
  BY <1>4 DEF resetStores, LinkTyped
<1> QED
  BY <1>1, <1>2, <1>3, <1>4 DEF signalSender

\* ... and the streams that end by themselves, the shutdown and the time.
LEMMA EnvironmentKeeps ==
  ASSUME LinkInv,
         \/ \E p \in Producers : offer(p) \/ sendSignal(p)
         \/ \E s \in Streams : breaks(s) \/ stopsReading(s) \/ straySendReturns(s)
         \/ Stop \/ stopCloses
         \/ Tick
         \/ UNCHANGED vars
  PROVE  LinkInv'
<1> USE LinkTypedIn, LinkAssumption DEF LinkInv, NoConcurrentSend
<1>1. CASE (\E p \in Producers : offer(p) \/ sendSignal(p)) \/ stopCloses \/ UNCHANGED vars
  <2>1. UNCHANGED linkVars /\ UNCHANGED senderVars /\ stop' \in {stop, "closed"}
    BY <1>1 DEF offer, sendSignal, dropOldest, retryOffer, stopCloses, vars
  <2> QED
    BY <2>1 DEF LinkTyped, linkVars, senderVars
<1>2. ASSUME NEW S, endStreams(S), UNCHANGED <<mgr, cur, connected, ready, senderVars>>,
             stop' \in {stop, "cancelled"}
      PROVE  LinkInv'
  BY <1>2, StreamsEnd DEF LinkTyped, senderVars
<1>3. ASSUME NEW s \in Streams, breaks(s)
      PROVE  LinkInv'
  BY <1>2, <1>3 DEF breaks
<1>4. CASE Stop
  BY <1>2, <1>4 DEF Stop
<1>5. ASSUME NEW s \in Streams, stopsReading(s) \/ straySendReturns(s)
      PROVE  LinkInv'
  BY <1>5 DEF stopsReading, straySendReturns, LinkTyped, linkVars, senderVars
<1>6. CASE Tick
  <2>1. /\ UNCHANGED <<cur, alive, stuck, connected, synced, senderVars, stop>>
        /\ outage' = cappedTo(outage, Grace)
        /\ ready' = [ready EXCEPT !.down = cappedTo(@, Grace)]
    BY <1>6 DEF Tick
  <2>2. mgr' \in [pc : {"loop", "dialing", "opened", "read", "recv", "execute", "lost",
                    "wait", "done"},
              stream : Streams \cup {0}, delay : 0..MaxBackoff,
              backoff : Initial..MaxBackoff, connectedFor : 0..Stable]
        /\ mgr'.pc = mgr.pc
    <3>1. PICK d, c : mgr' = [mgr EXCEPT !.delay = d, !.connectedFor = c]
                      /\ d = (IF mgr.delay = 0 THEN 0 ELSE mgr.delay - 1)
                      /\ c \in {mgr.connectedFor, cappedTo(mgr.connectedFor, Stable)}
      BY <1>6 DEF Tick, LinkTyped
    <3>2. mgr.connectedFor \in 0..Stable /\ mgr.delay \in 0..MaxBackoff
      BY DEF LinkTyped
    <3>3. d \in 0..MaxBackoff
      BY <3>1, <3>2
    <3>4. c \in 0..Stable
      BY <3>1, <3>2 DEF cappedTo
    <3> QED
      BY <3>1, <3>3, <3>4 DEF LinkTyped
  <2>3. /\ ready' \in [connected : BOOLEAN, up : BOOLEAN, everUp : BOOLEAN, down : 0..Grace]
        /\ outage' \in 0..Grace
    BY <2>1 DEF LinkTyped, cappedTo
  <2>4. LinkTyped'
    BY <2>1, <2>2, <2>3 DEF LinkTyped, senderVars
  <2> QED
    BY <2>1, <2>2, <2>4 DEF senderVars
<1> QED
  BY <1>1, <1>3, <1>4, <1>5, <1>6

LEMMA LinkStepKeeps ==
  ASSUME LinkInv, [Next]_vars
  PROVE  LinkInv'
BY ManagerKeeps, SenderKeeps, EnvironmentKeeps DEF Next

LEMMA LinkStarts ==
  ASSUME Init
  PROVE  LinkInv /\ LinkQueueInv
<1>1. Holding = {} /\ Cardinality({}) = 0
  BY FS_EmptySet DEF Init, Holding
<1>2. LinkQueueInv
  BY <1>1, OwedBound, LinkAssumption DEF Init
<1>3. /\ 0 \in 0..MaxBackoff /\ Initial \in Initial..MaxBackoff
      /\ 0 \in 0..Stable /\ 0 \in 0..Grace /\ Grace \in 0..Grace
  BY LinkAssumption
<1>4. LinkTyped
  BY <1>3 DEF Init, LinkTyped
<1>5. LinkInv
  BY <1>4 DEF Init, LinkInv, NoConcurrentSend
<1> QED
  BY <1>2, <1>5

-----------------------------------------------------------------------------
\* With goroutines that run on when they can.  The manager owns the current
\* stream from the dial to the loss of it, and the sender has nothing to do with
\* an earlier one by the time it is dialled; readiness runs ahead of the end of a
\* stream by no time at all.
LinkServing == mgr.pc \in {"read", "recv", "execute"}

LinkOwner ==
  /\ mgr.pc \in {"wait", "loop", "dialing", "lost", "done"} => alive = {}
  /\ mgr.pc \in {"recv", "execute"} => mgr.stream # 0 /\ cur \in {mgr.stream, 0}
  /\ mgr.pc \in {"wait", "loop", "dialing", "opened", "done"} => ~connected
  /\ mgr.pc \in {"loop", "dialing", "opened"} => sender.pc \in {"idle", "done"}
  /\ mgr.pc = "wait" /\ mgr.delay = 0 => sender.pc \in {"idle", "done"}
  /\ sender.pc \in {"send", "reset"} /\ cur # 0 => cur = sender.stream
  /\ LinkServing /\ cur # 0 => connected /\ sender.pc # "store"

LinkReady ==
  /\ LinkServing \/ mgr.pc = "lost" => ready.connected
  /\ ready.up => ready.connected /\ ready.everUp /\ (LinkServing \/ mgr.pc = "lost")
  /\ ready.up /\ synced = 0 => alive = {} /\ outage = 0
  /\ synced # 0 => ready.up
  /\ ~ready.up /\ ready.everUp /\ synced = 0 => outage <= ready.down

LEMMA ManagerOwns ==
  ASSUME LinkInv, LinkOwner, manageAnalyzerConnection \/ receiveCommand
  PROVE  LinkOwner'
<1> USE DEF LinkOwner, LinkServing
<1>0. /\ mgr \in [pc : {"loop", "dialing", "opened", "read", "recv", "execute", "lost",
                    "wait", "done"},
              stream : Streams \cup {0}, delay : 0..MaxBackoff,
              backoff : Initial..MaxBackoff, connectedFor : 0..Stable]
      /\ alive \subseteq {cur} /\ 0 \notin alive
      /\ mgr.pc = "dialing" => cur = 0
      /\ mgr.backoff \in Initial..MaxBackoff /\ mgr.connectedFor \in Nat
  BY LinkTypedIn DEF LinkInv, LinkTyped
<1>1. CASE startConnect
  <2>1. /\ mgr' = [mgr EXCEPT !.pc = "dialing"] /\ cur' = 0 /\ mgr.pc = "loop"
        /\ alive' = alive \ {cur}
        /\ UNCHANGED <<connected, sender>>
    BY <1>1 DEF startConnect, endStreams, senderVars
  <2> QED
    BY <1>0, <2>1
<1>2. CASE connectFails \/ connectionLost
  <2>1. PICK c \in Nat : startWait(c)
    BY <1>0, <1>2 DEF connectFails, connectionLost
  <2>2. mgr'.pc = "wait" /\ mgr'.delay > 0
    BY <2>1, <1>0, WaitStarted
  <2>3. /\ UNCHANGED <<cur, alive, sender>>
        /\ mgr.pc \in {"dialing", "lost"}
        /\ \/ connected' = FALSE
           \/ mgr.pc = "dialing" /\ connected' = connected
    BY <1>2 DEF connectFails, connectionLost, allButMgr, senderVars
  <2> QED
    BY <1>0, <2>2, <2>3
<1>3. CASE connectToAnalyzer
  <2>1. /\ mgr' = [mgr EXCEPT !.pc = "opened"] /\ mgr.pc = "dialing"
        /\ UNCHANGED <<connected, sender>>
    BY <1>3 DEF connectToAnalyzer, senderVars
  <2> QED
    BY <1>0, <2>1
<1>4. CASE markConnected
  <2>1. /\ mgr'.pc = "read" /\ mgr.pc = "opened" /\ connected' = TRUE
        /\ UNCHANGED <<cur, alive, sender>>
    BY <1>0, <1>4 DEF markConnected, senderVars
  <2> QED
    BY <1>0, <2>1
<1>5. CASE readStream \/ receiveFails
  <2>1. UNCHANGED <<cur, alive, sender, connected>>
    BY <1>5 DEF readStream, receiveFails, allButMgr, senderVars
  <2>2. CASE readStream
    <3>1. /\ mgr.pc = "read"
          /\ mgr'.pc = (IF cur = 0 THEN "lost" ELSE "recv") /\ mgr'.stream = cur
      BY <1>0, <2>2 DEF readStream
    <3> QED
      BY <1>0, <2>1, <3>1
  <2>3. CASE receiveFails
    <3>1. mgr'.pc = "lost" /\ mgr.pc = "recv" /\ mgr.stream \notin alive
      BY <1>0, <2>3 DEF receiveFails
    <3>2. alive = {}
      BY <1>0, <3>1
    <3> QED
      BY <1>0, <2>1, <3>1, <3>2
  <2> QED
    BY <1>5, <2>2, <2>3
<1>6. CASE receiveCommand
  <2>1. /\ UNCHANGED <<cur, alive, sender, connected>>
        /\ mgr'.pc = "execute" /\ mgr'.stream = mgr.stream /\ mgr.pc = "recv"
    BY <1>0, <1>6 DEF receiveCommand, allButMgr, senderVars
  <2> QED
    BY <1>0, <2>1
<1>7. CASE executeCommand \/ applyRules
  <2>1. /\ UNCHANGED <<cur, alive, sender, connected>>
        /\ mgr'.pc = "read" /\ mgr.pc = "execute"
    BY <1>0, <1>7 DEF executeCommand, applyRules, allButMgr, senderVars
  <2> QED
    BY <1>0, <2>1
<1>8. CASE waitAnalyzerReconnect \/ managerStops
  <2>1. /\ UNCHANGED <<cur, alive, sender, connected>>
        /\ mgr.pc \in {"loop", "wait"}
        /\ \/ mgr'.pc = "loop" /\ mgr.pc = "wait" /\ mgr.delay = 0
           \/ mgr'.pc = "done"
    BY <1>0, <1>8 DEF waitAnalyzerReconnect, managerStops, allButMgr, senderVars
  <2> QED
    BY <1>0, <2>1
<1> QED
  BY <1>1, <1>2, <1>3, <1>4, <1>5, <1>6, <1>7, <1>8 DEF manageAnalyzerConnection

LEMMA SenderOwns ==
  ASSUME LinkInv, LinkOwner, takeSignal \/ signalSender \/ senderStops
  PROVE  LinkOwner'
<1> USE DEF LinkOwner, LinkServing
<1>0. /\ sender \in [pc : {"idle", "copy", "send", "reset", "store", "done"},
                     stream : Streams \cup {0}]
      /\ alive \subseteq {cur} /\ 0 \notin alive
  BY LinkTypedIn DEF LinkInv, LinkTyped
<1>1. CASE takeSignal
  <2>1. /\ UNCHANGED <<mgr, cur, alive, connected>>
        /\ sender.pc = "idle"
        /\ sender'.pc = (IF connected THEN "copy" ELSE "idle")
    BY <1>0, <1>1 DEF takeSignal, linkVars
  <2> QED
    BY <2>1
<1>2. CASE copyStream
  <2>1. /\ UNCHANGED <<mgr, cur, alive, connected>>
        /\ sender.pc = "copy"
        /\ sender'.pc \in {"idle", "send"} /\ sender'.stream = cur
    BY <1>2 DEF copyStream, linkVars
  <2> QED
    BY <2>1
<1>3. CASE sendReturns \/ senderStops
  <2>1. /\ UNCHANGED <<mgr, cur, alive, connected>>
        /\ sender'.pc \in {"idle", "done"}
    BY <1>0, <1>3 DEF sendReturns, senderStops, linkVars
  <2> QED
    BY <2>1
<1>4. CASE sendTimesOut
  <2>1. /\ UNCHANGED <<mgr, cur, alive, connected>>
        /\ sender.pc = "send" /\ sender'.pc = "reset" /\ sender'.stream = sender.stream
    BY <1>0, <1>4 DEF sendTimesOut, linkVars
  <2> QED
    BY <2>1
<1>5. CASE resetAnalyzerConnection
  <2>1. /\ UNCHANGED <<mgr, connected>> /\ cur' = 0 /\ alive' = alive \ {cur}
        /\ sender.pc = "reset" /\ sender'.pc = "store"
    BY <1>5 DEF resetAnalyzerConnection, endStreams
  <2> QED
    BY <1>0, <2>1
<1>6. CASE resetStores
  <2>1. /\ UNCHANGED <<mgr, cur, alive>> /\ connected' = FALSE
        /\ sender.pc = "store" /\ sender'.pc = "idle"
    BY <1>6 DEF resetStores
  <2> QED
    BY <2>1
<1> QED
  BY <1>1, <1>2, <1>3, <1>4, <1>5, <1>6 DEF signalSender

LEMMA EnvironmentOwns ==
  ASSUME Prompt, LinkInv, LinkOwner,
         \/ \E p \in Producers : offer(p) \/ sendSignal(p)
         \/ \E s \in Streams : breaks(s) \/ stopsReading(s) \/ straySendReturns(s)
         \/ Stop \/ stopCloses
         \/ Tick
         \/ UNCHANGED vars
  PROVE  LinkOwner'
<1> USE DEF LinkOwner, LinkServing
<1>1. CASE ~Tick
  <2>1. UNCHANGED <<mgr, cur, connected, sender>> /\ alive' \subseteq alive
    BY <1>1 DEF offer, sendSignal, dropOldest, retryOffer, breaks, stopsReading,
         straySendReturns, Stop, stopCloses, vars, linkVars, senderVars, endStreams
  <2> QED
    BY <2>1
<1>2. CASE Tick
  <2>1. /\ UNCHANGED <<cur, alive, connected, sender>>
        /\ mgr'.pc = mgr.pc /\ mgr'.stream = mgr.stream /\ ~busy
    BY <1>2 DEF Tick, senderVars, LinkInv, LinkTyped
  <2>2. ASSUME mgr.pc = "wait"
        PROVE  sender.pc \in {"idle", "done"}
    <3>1. alive = {} /\ muFree
      BY <2>2 DEF muFree
    <3>2. sender.pc \in {"idle", "copy", "send", "reset", "store", "done"}
      BY DEF LinkInv, LinkTyped
    <3> QED
      BY <2>1, <3>1, <3>2 DEF busy
  <2> QED
    BY <2>1, <2>2
<1> QED
  BY <1>1, <1>2

LEMMA OwnerStepKeeps ==
  ASSUME Prompt, LinkInv, LinkOwner, [Next]_vars
  PROVE  LinkOwner'
BY ManagerOwns, SenderOwns, EnvironmentOwns DEF Next

-----------------------------------------------------------------------------
\* The end of streams keeps readiness in step with them.
LEMMA EndKeepsReady ==
  ASSUME LinkInv, LinkReady, NEW S, endStreams(S), UNCHANGED <<mgr, ready>>
  PROVE  LinkReady'
<1>1. /\ alive' = alive \ S
      /\ alive \subseteq {cur}
      /\ \/ synced' = synced /\ outage' = outage
         \/ synced # 0 /\ synced' = 0 /\ outage' = 0 /\ alive' = {}
  BY StreamsEnd DEF LinkInv, LinkTyped, endStreams
<1>2. ready.down \in 0..Grace
  BY LinkTypedIn DEF LinkInv
<1> QED
  BY <1>1, <1>2 DEF LinkReady, LinkServing

LEMMA ManagerKeepsReady ==
  ASSUME LinkInv, LinkOwner, LinkReady, manageAnalyzerConnection \/ receiveCommand
  PROVE  LinkReady'
<1> USE DEF LinkServing
<1>0. /\ mgr \in [pc : {"loop", "dialing", "opened", "read", "recv", "execute", "lost",
                    "wait", "done"},
              stream : Streams \cup {0}, delay : 0..MaxBackoff,
              backoff : Initial..MaxBackoff, connectedFor : 0..Stable]
      /\ ready \in [connected : BOOLEAN, up : BOOLEAN, everUp : BOOLEAN, down : 0..Grace]
      /\ alive \subseteq {cur} /\ synced \in alive \cup {0}
      /\ mgr.backoff \in Initial..MaxBackoff /\ mgr.connectedFor \in Nat
      /\ ready.down \in 0..Grace /\ outage \in 0..Grace
  BY LinkTypedIn DEF LinkInv, LinkTyped
<1>1. CASE startConnect
  <2>1. /\ mgr'.pc = "dialing" /\ mgr.pc = "loop"
        /\ endStreams({cur}) /\ UNCHANGED ready
    BY <1>0, <1>1 DEF startConnect
  <2>2. UNCHANGED <<synced, outage>>
    BY <1>0, <2>1 DEF endStreams, LinkOwner
  <2> QED
    BY <1>0, <2>1, <2>2 DEF LinkReady, LinkOwner
<1>2. CASE connectFails
  <2>1. startWait(0) /\ mgr.pc = "dialing" /\ UNCHANGED allButMgr
    BY <1>2 DEF connectFails
  <2>2. mgr'.pc = "wait"
    BY <1>0, <2>1, WaitStarted
  <2> QED
    BY <2>1, <2>2 DEF LinkReady, allButMgr
<1>3. CASE connectToAnalyzer
  <2>1. /\ mgr'.pc = "opened" /\ mgr.pc = "dialing"
        /\ UNCHANGED <<ready, synced, outage>>
    BY <1>0, <1>3 DEF connectToAnalyzer
  <2> QED
    BY <2>1 DEF LinkReady
<1>4. CASE markConnected
  <2>1. /\ mgr'.pc = "read" /\ mgr.pc = "opened"
        /\ UNCHANGED <<synced, outage>>
        /\ readySet(TRUE)
    BY <1>0, <1>4 DEF markConnected
  <2>2. /\ ready'.connected = TRUE /\ ready'.up = FALSE
        /\ ready'.everUp = ready.everUp /\ ready'.down = ready.down
    BY <1>0, <2>1 DEF readySet
  <2> QED
    BY <1>0, <2>1, <2>2 DEF LinkReady
<1>5. CASE connectionLost
  <2>1. /\ mgr.pc = "lost" /\ readySet(FALSE) /\ startWait(mgr.connectedFor)
        /\ UNCHANGED <<alive, synced, outage>>
    BY <1>5 DEF connectionLost
  <2>2. mgr'.pc = "wait"
    BY <1>0, <2>1, WaitStarted
  <2>3. /\ ready'.connected = FALSE /\ ready'.up = FALSE
        /\ ready'.everUp = ready.everUp
        /\ ready'.down = (IF ready.up THEN 0 ELSE ready.down)
    BY <1>0, <2>1 DEF readySet
  <2>4. synced = 0
    BY <1>0, <2>1 DEF LinkOwner
  <2> QED
    BY <1>0, <2>1, <2>2, <2>3, <2>4 DEF LinkReady
<1>6. CASE readStream \/ receiveCommand \/ executeCommand \/ receiveFails
  <2>1. /\ UNCHANGED allButMgr
        /\ mgr.pc \in {"read", "recv", "execute"}
        /\ mgr'.pc \in {"lost", "read", "recv", "execute"}
    BY <1>0, <1>6 DEF readStream, receiveCommand, executeCommand, receiveFails
  <2> QED
    BY <2>1 DEF LinkReady, allButMgr
<1>7. CASE applyRules
  <2>1. /\ mgr.pc = "execute" /\ mgr'.pc = "read" /\ UNCHANGED <<cur, alive>>
        /\ markSynced
        /\ IF mgr.stream \in alive
             THEN synced' = mgr.stream /\ UNCHANGED outage
             ELSE outage' = 0 /\ UNCHANGED synced
    BY <1>0, <1>7 DEF applyRules
  <2>2. ready'.connected = TRUE /\ ready'.up = TRUE /\ ready'.everUp = TRUE
    BY <1>0, <2>1 DEF markSynced, LinkReady
  <2>3. mgr.stream # 0 /\ (mgr.stream \notin alive => alive = {})
    BY <1>0, <2>1, LinkTypedIn DEF LinkOwner, LinkInv, LinkTyped
  <2> QED
    BY <2>1, <2>2, <2>3 DEF LinkReady
<1>8. CASE waitAnalyzerReconnect \/ managerStops
  <2>1. /\ UNCHANGED allButMgr
        /\ mgr.pc \in {"loop", "wait"} /\ mgr'.pc \in {"loop", "done"}
    BY <1>0, <1>8 DEF waitAnalyzerReconnect, managerStops
  <2> QED
    BY <2>1 DEF LinkReady, allButMgr
<1> QED
  BY <1>1, <1>2, <1>3, <1>4, <1>5, <1>6, <1>7, <1>8 DEF manageAnalyzerConnection

LEMMA OthersKeepReady ==
  ASSUME Prompt, LinkInv, LinkOwner, LinkReady,
         \/ takeSignal \/ signalSender \/ senderStops
         \/ \E p \in Producers : offer(p) \/ sendSignal(p)
         \/ \E s \in Streams : breaks(s) \/ stopsReading(s) \/ straySendReturns(s)
         \/ Stop \/ stopCloses
         \/ Tick
         \/ UNCHANGED vars
  PROVE  LinkReady'
<1>1. CASE Tick
  <2>1. /\ mgr'.pc = mgr.pc /\ ~busy
        /\ ready'.connected = ready.connected /\ ready'.up = ready.up
        /\ ready'.everUp = ready.everUp
        /\ ready'.down = cappedTo(ready.down, Grace)
        /\ outage' = cappedTo(outage, Grace)
        /\ UNCHANGED <<alive, synced>>
    BY <1>1 DEF Tick, LinkInv, LinkTyped
  <2>2. ready.down \in 0..Grace /\ outage \in 0..Grace /\ Grace \in Nat
    BY LinkTypedIn, LinkAssumption DEF LinkInv, LinkTyped
  <2>3. ~(ready.up /\ synced = 0)
    BY <2>1 DEF busy, LinkReady, LinkServing
  <2>4. outage <= ready.down => outage' <= ready'.down
    BY <2>1, <2>2 DEF cappedTo
  <2> QED
    BY <2>1, <2>3, <2>4 DEF LinkReady, LinkServing
<1>2. CASE resetAnalyzerConnection \/ Stop \/ \E s \in Streams : breaks(s)
  <2>1. PICK S : endStreams(S) /\ UNCHANGED <<mgr, ready>>
    BY <1>2 DEF resetAnalyzerConnection, Stop, breaks
  <2> QED
    BY <2>1, EndKeepsReady
<1>3. CASE ~Tick /\ ~resetAnalyzerConnection /\ ~Stop /\ ~\E s \in Streams : breaks(s)
  <2>1. UNCHANGED <<mgr, ready, alive, synced, outage>>
    BY <1>3 DEF takeSignal, signalSender, senderStops, copyStream, sendReturns,
         sendTimesOut, resetStores, offer, sendSignal, dropOldest, retryOffer,
         stopsReading, straySendReturns, stopCloses, vars, linkVars
  <2> QED
    BY <2>1 DEF LinkReady, LinkServing
<1> QED
  BY <1>1, <1>2, <1>3

LEMMA ReadyStepKeeps ==
  ASSUME Prompt, LinkInv, LinkOwner, LinkReady, [Next]_vars
  PROVE  LinkReady'
BY ManagerKeepsReady, OthersKeepReady DEF Next

\* Whatever the goroutines are held up for: the queue and the producers account for
\* every signal that is neither taken nor dropped, and a Send that timed out is
\* never overtaken by another on its stream (sendSignal, sendSignalWithTimeout,
\* resetAnalyzerConnection).
THEOREM LinkAccounts == Spec => [](TypeOK /\ NoConcurrentSend /\ SignalsAccounted)
<1>1. Init => LinkInv /\ LinkQueueInv
  BY LinkStarts
<1>2. LinkInv /\ LinkQueueInv /\ [Next]_vars => LinkInv' /\ LinkQueueInv'
  BY LinkStepKeeps, QueueStepKeeps
<1>3. LinkInv /\ LinkQueueInv => TypeOK /\ NoConcurrentSend /\ SignalsAccounted
  BY DEF LinkInv, LinkTyped, LinkQueueInv, LinkQueueTyped, TypeOK
<1> QED
  BY <1>1, <1>2, <1>3, PTL DEF Spec

\* When no goroutine that can go on is held up for a whole tick, signals flow on
\* every connection that is up, a reset takes down no connection but the stuck one,
\* and readiness tells whether rules can be expected (manageAnalyzerConnection,
\* signalSender, resetAnalyzerConnection, the /readyz check).
THEOREM LinkKeeps == Prompt /\ Spec => LinkKeepsSignals
<1> DEFINE I == LinkInv /\ LinkQueueInv /\ LinkOwner /\ LinkReady
<1> SUFFICES ASSUME Prompt PROVE Spec => LinkKeepsSignals
  OBVIOUS
<1>1. Init => I
  <2> SUFFICES ASSUME Init PROVE LinkOwner /\ LinkReady
    BY LinkStarts
  <2>1. /\ mgr.pc = "loop" /\ cur = 0 /\ alive = {} /\ connected = FALSE
        /\ ready.connected = FALSE /\ ready.up = FALSE /\ ready.everUp = FALSE
        /\ sender.pc = "idle" /\ synced = 0
    BY DEF Init
  <2> QED
    BY <2>1 DEF LinkOwner, LinkReady, LinkServing
<1>2. I /\ [Next]_vars => I'
  BY LinkStepKeeps, QueueStepKeeps, OwnerStepKeeps, ReadyStepKeeps
<1>3. I => TypeOK /\ NoConcurrentSend /\ SignalsAccounted
  BY DEF LinkInv, LinkTyped, LinkQueueInv, LinkQueueTyped, TypeOK
<1>4. I => SignalsFlow
  BY LinkTypedIn DEF LinkInv, LinkTyped, LinkOwner, LinkServing, SignalsFlow
<1>5. I => ReadyWithinGrace
  <2> SUFFICES ASSUME I, check, synced = 0 PROVE outage < Grace
    BY DEF ReadyWithinGrace
  <2>1. ready.down \in 0..Grace /\ outage \in 0..Grace /\ Grace \in Nat /\ Grace > 0
    BY LinkTypedIn, LinkAssumption DEF LinkInv, LinkTyped
  <2> QED
    BY <2>1 DEF check, LinkReady
<1>6. I /\ [Next]_vars
        => [sender.pc = "reset" /\ sender'.pc = "store" /\ cur \in alive
              => cur = sender.stream]_vars
  BY LinkTypedIn DEF LinkInv, LinkTyped, LinkOwner
<1> HIDE DEF I
<1> QED
  BY <1>1, <1>2, <1>3, <1>4, <1>5, <1>6, PTL DEF Spec, LinkKeepsSignals, ResetHitsStuckStream
=============================================================================
