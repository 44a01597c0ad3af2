------------------------------- MODULE Baseline -------------------------------
(***************************************************************************)
(* The per-ASN baselines (pkg/analyzer/baseline): running statistics for   *)
(* each metric, the guard that keeps anomalous samples out of the baseline *)
(* they are scored against, and the shadow candidate through which a       *)
(* lasting shift still replaces it.                                        *)
(*                                                                         *)
(* Welford's mean and M2 are kept as the exact sums they stand for: n      *)
(* samples, their sum s and their sum of squares q, so mean = s / n and    *)
(* M2 = (n*q - s*s) / n.  Times are ages, capped where no comparison tells *)
(* them apart.  Each operation runs under its shard's lock.                *)
(***************************************************************************)
EXTENDS Integers, FiniteSets, FiniteSetsExt, Functions, TLC

CONSTANTS
  BaseASNs, BaseShardOf, BaseMetrics,
  BaseValues,       \* sample values
  BaseMinObs,       \* minObservations
  BasePerShard,     \* maxBaselines / numBaselineShards
  BaseMinSamples,   \* convergenceMinSamples
  BaseMinDuration,  \* convergenceMinDuration
  BaseRetention,    \* retentionPeriod
  BaseMaxObs        \* bound of the model: observations

ASSUME BaselineAssumption ==
  /\ BaseASNs \subseteq DOMAIN BaseShardOf /\ BaseValues \subseteq Nat \ {0}
  /\ BaseMinObs \in Nat \ {0} /\ BasePerShard \in Nat
  /\ BaseMinSamples \in Nat \ {0} /\ BaseMinDuration \in Nat /\ BaseRetention \in Nat

VARIABLES
  baseTable,  \* baselines, by ASN
  baseObs,    \* observations so far
  baseRun,    \* history: the latest samples of a metric that were out of its band
  baseSame    \* history: the latest samples of a metric that were one value

baselineVars == <<baseTable, baseObs, baseRun, baseSame>>

BaseStats == [n |-> 0, s |-> 0, q |-> 0]
BaseCand  == [shadow |-> BaseStats, first |-> 0]
BaseNew   == [count |-> 0, seen |-> 0, main |-> [m \in BaseMetrics |-> BaseStats],
              cand |-> [m \in BaseMetrics |-> BaseCand]]
BaseNoRun  == [m \in BaseMetrics |-> [n |-> 0, age |-> 0]]
BaseNoSame == [m \in BaseMetrics |-> [v |-> 0, n |-> 0, age |-> 0, span |-> 0]]

BaselineInit ==
  /\ baseTable = <<>> /\ baseObs = 0
  /\ baseRun = [a \in BaseASNs |-> BaseNoRun] /\ baseSame = [a \in BaseASNs |-> BaseNoSame]

-----------------------------------------------------------------------------
UpdateRunningStats(st, v) == [n |-> st.n + 1, s |-> st.s + v, q |-> st.q + v * v]

\* |ZScore(v)| > 3; a score against fewer than two samples, or against samples
\* that are all alike, is 0.
farFrom(st, v) ==
  LET dev == st.n * st.q - st.s * st.s
  IN st.n >= 2 /\ dev > 0
       /\ (st.n * v - st.s) * (st.n * v - st.s) * (st.n - 1) > 9 * st.n * dev

\* Mutant: a sample that fits the baseline leaves the candidate standing.
discardedNot(cand) == cand

\* What is left of the candidate when a sample fits the baseline.
discarded(cand) == BaseCand

\* Age of the candidate's first sample once another is folded.
firstFold(cand) == IF cand.shadow.n = 0 THEN 0 ELSE cand.first

\* foldCandidate: restart on an incoherent sample, fold, adopt when both gates open.
foldCandidate(main, cand, v) ==
  LET c == IF farFrom(cand.shadow, v) THEN BaseCand ELSE cand
      d == [shadow |-> UpdateRunningStats(c.shadow, v), first |-> firstFold(c)]
  IN IF d.shadow.n >= BaseMinSamples /\ d.first >= BaseMinDuration
     THEN [main |-> d.shadow, cand |-> BaseCand] ELSE [main |-> main, cand |-> d]

foldMetric(main, cand, v, warm) ==
  IF warm /\ farFrom(main, v) THEN foldCandidate(main, cand, v)
  ELSE [main |-> UpdateRunningStats(main, v), cand |-> discarded(cand)]

\* RecordObservation: obs[m] = 0 where the observation has no such metric.  A
\* full shard takes no new ASN.
RecordObservation(asn, obs) ==
  LET known == asn \in DOMAIN baseTable
      shard == {a \in DOMAIN baseTable : BaseShardOf[a] = BaseShardOf[asn]}
      b == IF known THEN baseTable[asn] ELSE BaseNew
      warm == b.count + 1 >= BaseMinObs
      f(m) == foldMetric(b.main[m], b.cand[m], obs[m], warm)
      run == baseRun[asn]
      same == baseSame[asn]
  IN /\ baseObs < BaseMaxObs /\ baseObs' = baseObs + 1
     /\ IF ~known /\ Cardinality(shard) >= BasePerShard
        THEN UNCHANGED <<baseTable, baseRun, baseSame>>
        ELSE /\ baseTable' = (asn :>
                  [count |-> b.count + 1, seen |-> 0,
                   main |-> [m \in BaseMetrics |-> IF obs[m] = 0 THEN b.main[m] ELSE f(m).main],
                   cand |-> [m \in BaseMetrics |-> IF obs[m] = 0 THEN b.cand[m] ELSE f(m).cand]])
                    @@ baseTable
             /\ baseRun' = [baseRun EXCEPT ![asn] = [m \in BaseMetrics |->
                  IF obs[m] = 0 THEN run[m]
                  ELSE IF ~(warm /\ farFrom(b.main[m], obs[m])) THEN [n |-> 0, age |-> 0]
                  ELSE [n |-> run[m].n + 1, age |-> IF run[m].n = 0 THEN 0 ELSE run[m].age]]]
             /\ baseSame' = [baseSame EXCEPT ![asn] = [m \in BaseMetrics |->
                  IF obs[m] = 0 THEN same[m]
                  ELSE IF same[m].v # obs[m] THEN [v |-> obs[m], n |-> 1, age |-> 0, span |-> 0]
                  ELSE [same[m] EXCEPT !.n = @ + 1, !.span = same[m].age]]]

\* cleanup: forget what was last seen before the retention period.
baseCleanup ==
  LET kept == {a \in DOMAIN baseTable : baseTable[a].seen <= BaseRetention}
  IN /\ DOMAIN baseTable # kept
     /\ baseTable' = Restrict(baseTable, kept)
     /\ baseRun' = [a \in BaseASNs |-> IF a \in kept THEN baseRun[a] ELSE BaseNoRun]
     /\ baseSame' = [a \in BaseASNs |-> IF a \in kept THEN baseSame[a] ELSE BaseNoSame]
     /\ UNCHANGED baseObs

baseAged(x, cap) == Min({x + 1, cap})

\* Time passes.
baseTick ==
  /\ DOMAIN baseTable # {}
  /\ baseTable' = [a \in DOMAIN baseTable |->
       [baseTable[a] EXCEPT !.seen = baseAged(@, BaseRetention + 1),
          !.cand = [m \in BaseMetrics |-> [@[m] EXCEPT !.first =
             IF baseTable[a].cand[m].shadow.n = 0 THEN 0 ELSE baseAged(@, BaseMinDuration)]]]]
  /\ baseRun' = [a \in BaseASNs |-> [m \in BaseMetrics |->
       IF baseRun[a][m].n = 0 THEN baseRun[a][m]
       ELSE [baseRun[a][m] EXCEPT !.age = baseAged(@, BaseMinDuration)]]]
  /\ baseSame' = [a \in BaseASNs |-> [m \in BaseMetrics |->
       IF baseSame[a][m].n = 0 THEN baseSame[a][m]
       ELSE [baseSame[a][m] EXCEPT !.age = baseAged(@, BaseMinDuration)]]]
  /\ UNCHANGED baseObs

BaselineNext ==
  \/ \E asn \in BaseASNs, obs \in [BaseMetrics -> BaseValues \cup {0}] : RecordObservation(asn, obs)
  \/ baseCleanup \/ baseTick

-----------------------------------------------------------------------------
(* Properties. *)

\* A baseline is replaced, rather than extended by the sample at hand, only at
\* the end of convergenceMinSamples samples in a row that were all out of its
\* band and that span convergenceMinDuration: one normal sample between two
\* bursts is enough to keep an attack from becoming the baseline.
BaseAdoptsOnlyLasting ==
  [][\A asn \in DOMAIN baseTable \cap DOMAIN baseTable' : \A m \in BaseMetrics :
       LET old == baseTable[asn].main[m]
           new == baseTable'[asn].main[m]
       IN \/ new = old
          \/ \E v \in BaseValues : new = UpdateRunningStats(old, v)
          \/ baseRun'[asn][m].n >= BaseMinSamples /\ baseRun'[asn][m].age >= BaseMinDuration
    ]_baselineVars

\* A permanent shift is absorbed: a metric that has shown one value
\* convergenceMinSamples times over convergenceMinDuration no longer scores
\* that value as anomalous.
BaseConverges ==
  \A asn \in DOMAIN baseTable : \A m \in BaseMetrics :
    LET same == baseSame[asn][m]
    IN same.n > BaseMinSamples /\ same.span >= BaseMinDuration
         => ~farFrom(baseTable[asn].main[m], same.v)

\* An ASN's baseline follows a lasting shift and nothing else (foldMetric,
\* foldCandidate).
BaselineTracks ==
  /\ []BaseConverges
  /\ BaseAdoptsOnlyLasting
=============================================================================
