------------------------------- MODULE Profiles -------------------------------
(***************************************************************************)
(* The two per-address packet analyzers: TCP timestamp clock skew          *)
(* (pkg/analyzer/clockskew) and payload entropy (pkg/analyzer/entropy).    *)
(* Each runs under its own lock, so an operation is one step.  TSvals wrap *)
(* at ProfWrap (2^32 in the code) and tick once per unit of time; a skew   *)
(* is kept as its tick delta and its time delta and compared in parts per  *)
(* million without rounding.  seq orders the observations, as time.Now()   *)
(* does.                                                                   *)
(***************************************************************************)
EXTENDS MapCleaner

CONSTANTS
  ProfIPs,
  ProfOffsets,      \* ProfOffsets[ip]: TSval offsets of the hosts behind ip
  ProfWrap,         \* number of TSvals
  ProfMax, ProfHeadroom, ProfExpiry,
  ProfResetGap,     \* 10 s: a decrease sooner than this is another connection
  ProfMinTime,      \* 15 s
  ProfChangeObs, ProfChangeTime,  \* 15 observations, 30 s
  ProfAnomObs, ProfAnomTime,      \* 20 observations, 60 s
  ProfScores,       \* entropy scores, 0..100
  ProfEntropyObs,   \* 5: observations before low and high are reported
  ProfMixedObs,     \* 10: observations before a mix is reported
  ProfMaxTime,      \* bound of the model: the clock
  ProfMaxOps        \* bound of the model: observations

ASSUME ProfilesAssumption ==
  /\ ProfWrap \in Nat \ {0} /\ ProfMax \in Nat \ {0}
  /\ ProfResetGap \in Nat
  /\ ProfHeadroom \in Nat /\ ProfHeadroom >= 2   \* batchEvictHeadroom is 10; with 1 the newcomer goes too
  /\ \A ip \in ProfIPs : ProfOffsets[ip] \subseteq 0..(ProfWrap - 1)

VARIABLES
  profSkew,     \* clock skew profiles, by address
  profEnt,      \* entropy profiles, by address
  profNow,      \* the clock
  profOps,      \* observations so far; the latest one's seq
  profEmitted   \* signals of the latest observation

profileVars == <<profSkew, profEnt, profNow, profOps, profEmitted>>

ProfilesInit == profSkew = <<>> /\ profEnt = <<>> /\ profNow = 0 /\ profOps = 0 /\ profEmitted = {}

\* f with the value v for k.
profPut(f, k, v) == [x \in DOMAIN f \cup {k} |-> IF x = k THEN v ELSE f[x]]

-----------------------------------------------------------------------------
(* Clock skew. *)

\* Mutant: a wrapped TSval is subtracted as it is.
tsDeltaPlain(ts, first) == ts - first

\* TSvals passed since the first, across one wraparound.
tsDelta(ts, first) == IF ts >= first THEN ts - first ELSE (ProfWrap - 1 - first) + ts + 1

profAbs(x) == IF x < 0 THEN -x ELSE x

\* |delta - time| / time, over a number of parts per million.
skewOver(delta, time, ppm) == profAbs(delta - time) * 1000000 > ppm * time

\* A skew past 50000 ppm is several hosts or a wrapped clock, not drift.
implausible(delta, time) == skewOver(delta, time, 50000)

NoSkew == [delta |-> 1, time |-> 1]
NewSkew(ts, changes) ==
  [first |-> ts, last |-> ts, firstAt |-> profNow, lastAt |-> profNow, seq |-> profOps + 1,
   obs |-> 1, skew |-> NoSkew, changes |-> changes]

\* |a - b| > 500 ppm.
skewChanged(a, b) ==
  profAbs((a.delta - a.time) * b.time - (b.delta - b.time) * a.time) * 1000000 > 500 * a.time * b.time

\* The order in which a new profile is evicted.
bornAt(seq) == seq

\* ProcessTimestamp: a new profile, a reset, or a measurement and its signals.
ProcessTimestamp(ip, ts) ==
  LET new == ip \notin DOMAIN profSkew
      p == profSkew[ip]
      seen == [x \in DOMAIN profSkew \cup {ip} |->
                IF x = ip THEN bornAt(profOps + 1) ELSE profSkew[x].seq]
      time == profNow - p.firstAt
      delta == tsDelta(ts, p.first)
      q == [p EXCEPT !.obs = @ + 1, !.last = ts, !.lastAt = profNow, !.seq = profOps + 1]
      skew == [delta |-> delta, time |-> time]
      changed == skewChanged(skew, p.skew) /\ q.obs >= ProfChangeObs /\ time >= ProfChangeTime
      anomalous == skewOver(delta, time, 10000) /\ q.obs >= ProfAnomObs /\ time >= ProfAnomTime
  IN /\ ts # 0
     /\ profOps < ProfMaxOps /\ profOps' = profOps + 1
     /\ IF new
        THEN /\ profSkew' \in enforceMaxSizeBatch(profPut(profSkew, ip, NewSkew(ts, 0)),
                                                  ProfMax, ProfHeadroom, seen)
             /\ profEmitted' = {}
        ELSE IF ts < p.last /\ profNow - p.lastAt < ProfResetGap
        THEN profSkew' = [profSkew EXCEPT ![ip] = NewSkew(ts, p.changes)] /\ profEmitted' = {}
        ELSE IF time < ProfMinTime
        THEN profSkew' = [profSkew EXCEPT ![ip] = q] /\ profEmitted' = {}
        ELSE IF implausible(delta, time)
        THEN profSkew' = [profSkew EXCEPT ![ip] = NewSkew(ts, p.changes)] /\ profEmitted' = {}
        ELSE /\ profSkew' = [profSkew EXCEPT ![ip] =
                               [q EXCEPT !.skew = skew, !.changes = @ + IF changed THEN 1 ELSE 0]]
             /\ profEmitted' = {[ip |-> ip, kind |-> k] :
                  k \in (IF changed THEN {"change"} ELSE {}) \cup
                        (IF anomalous THEN {"skew"} ELSE {})}
     /\ UNCHANGED <<profEnt, profNow>>

-----------------------------------------------------------------------------
(* Entropy. *)

\* score * 8 / 100 bits under 3, over 7.5.
lowEntropy(score) == score * 8 < 300
highEntropy(score) == score * 8 > 750

\* Both kinds over 30 %, and within 20 % of each other.
mixedEntropy(p) ==
  /\ p.obs > ProfMixedObs
  /\ 10 * p.low > 3 * p.obs /\ 10 * p.high > 3 * p.obs
  /\ 5 * profAbs(p.low - p.high) < p.obs

ProcessEntropy(ip, score) ==
  LET new == ip \notin DOMAIN profEnt
      T == IF new THEN profPut(profEnt, ip, [obs |-> 0, low |-> 0, high |-> 0, at |-> profNow,
                                             seq |-> profOps + 1]) ELSE profEnt
      seen == [x \in DOMAIN T |-> IF x = ip THEN bornAt(profOps + 1) ELSE T[x].seq]
      p == [T[ip] EXCEPT !.obs = @ + 1, !.at = profNow, !.seq = profOps + 1,
                         !.low = @ + IF lowEntropy(score) THEN 1 ELSE 0,
                         !.high = @ + IF highEntropy(score) THEN 1 ELSE 0]
  IN /\ score # 0
     /\ profOps < ProfMaxOps /\ profOps' = profOps + 1
     /\ \E U \in (IF new THEN enforceMaxSizeBatch(T, ProfMax, ProfHeadroom, seen) ELSE {T}) :
          profEnt' = IF ip \in DOMAIN U THEN [U EXCEPT ![ip] = p] ELSE U
     /\ profEmitted' = {[ip |-> ip, kind |-> k] : k \in
          {x \in {"low", "high", "mixed"} :
             \/ x = "low" /\ lowEntropy(score) /\ p.obs > ProfEntropyObs
             \/ x = "high" /\ highEntropy(score) /\ p.obs > ProfEntropyObs
             \/ x = "mixed" /\ mixedEntropy(p)}}
     /\ UNCHANGED <<profSkew, profNow>>

-----------------------------------------------------------------------------
\* cleanup of both analyzers.
profCleanup ==
  /\ profSkew' = removeEntriesOlderThan(profSkew, profNow - ProfExpiry,
                                       [x \in DOMAIN profSkew |-> profSkew[x].lastAt])
  /\ profEnt' = removeEntriesOlderThan(profEnt, profNow - ProfExpiry,
                                       [x \in DOMAIN profEnt |-> profEnt[x].at])
  /\ <<profSkew', profEnt'>> # <<profSkew, profEnt>>
  /\ profEmitted' = {} /\ UNCHANGED <<profNow, profOps>>

profTick == profNow < ProfMaxTime /\ profNow' = profNow + 1 /\ profEmitted' = {}
            /\ UNCHANGED <<profSkew, profEnt, profOps>>

ProfilesNext ==
  \/ \E ip \in ProfIPs : \E o \in ProfOffsets[ip] : ProcessTimestamp(ip, (profNow + o) % ProfWrap)
  \/ \E ip \in ProfIPs, score \in ProfScores : ProcessEntropy(ip, score)
  \/ profCleanup \/ profTick

ProfilesSpec == ProfilesInit /\ [][ProfilesNext]_profileVars

-----------------------------------------------------------------------------
(* Properties. *)

Honest(ip) == Cardinality(ProfOffsets[ip]) = 1

\* A host whose clock keeps perfect time is never reported, whatever the gaps
\* between its packets and however often its 32-bit timestamps wrap.
ProfHonestSilent ==
  \A s \in profEmitted : Honest(s.ip) => s.kind \notin {"change", "skew"}

\* One wraparound after a pause does not cost such a host its reference point.
ProfSurvivesWrap ==
  [][\A ip \in DOMAIN profSkew \cap DOMAIN profSkew' :
       LET p == profSkew[ip]
       IN /\ Honest(ip) /\ profSkew'[ip] # p
          /\ profNow - p.lastAt >= ProfResetGap /\ profNow - p.firstAt < ProfWrap
          => profSkew'[ip].firstAt = p.firstAt]_profileVars

\* An address is tracked once it has been observed: a full table makes room by
\* dropping another.
ProfNewcomerTracked ==
  [][profOps' # profOps => \E ip \in ProfIPs :
       \/ ip \in DOMAIN profSkew' /\ profSkew'[ip].seq = profOps'
       \/ ip \in DOMAIN profEnt' /\ profEnt'[ip].seq = profOps']_profileVars

\* Clock profiles do no wrong to an honest host, over wraparounds, pauses and
\* a full table (ProcessTimestamp).
ProfilesFair ==
  /\ []ProfHonestSilent
  /\ ProfSurvivesWrap
  /\ ProfNewcomerTracked
=============================================================================
