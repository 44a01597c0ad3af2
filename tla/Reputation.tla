------------------------------ MODULE Reputation ------------------------------
(***************************************************************************)
(* The reputation store (pkg/analyzer/reputation/reputation.go and the     *)
(* nil-safe helper over it).  Entries live in shards, each behind its own  *)
(* lock; RecordSignal visits up to three shards one after the other, and   *)
(* the decay pass and the score-cap setters walk the shards in between.    *)
(*                                                                         *)
(* Scores are integers in tenths: an entry below 1 is dropped by decay.    *)
(* Every locked section that stamps an entry sees a later clock.           *)
(***************************************************************************)
EXTENDS Integers, FiniteSets, FiniteSetsExt, Functions, Sequences

CONSTANTS
  RepWorkers,   \* goroutines that record signals
  RepIPs, RepASNs, RepJA4s,
  RepShardCount,
  RepShardOf,   \* the shard of a bare key: shardFor
  RepBudget,    \* maxEntries / reputationShardCount, at least 1
  RepBatch,     \* a prune evicts perShardBudget / RepBatch more than needed
  RepMaxHosts,  \* maxASNHosts
  RepSoft,      \* an ASN counts as at least this many hosts (50)
  RepMaxAge,    \* maxEntryAge
  RepWeight,    \* weight of a penalty or a reward
  RepNoCap,     \* +Inf
  RepSettable,  \* the types whose cap an operator lowers
  RepCaps,      \* the caps set
  RepMaxTime    \* bound of the model: the clock

RepShards == 1..RepShardCount
RepBare   == RepIPs \cup RepASNs \cup RepJA4s
RepKinds  == {"ip", "asn", "ja4"}

ASSUME RepAssumption ==
  /\ RepShardCount \in Nat \ {0}
  /\ RepShardOf \in [RepBare -> RepShards]
  /\ RepBudget \in Nat \ {0} /\ RepBatch \in Nat \ {0, 1}
  /\ RepMaxHosts \in Nat \ {0} /\ RepSoft \in Nat \ {0} /\ RepMaxAge \in Nat \ {0}
  /\ RepWeight \in Nat /\ RepNoCap \in Nat /\ RepCaps \subseteq Nat
  /\ RepSettable \subseteq RepKinds

VARIABLES
  repEntries,  \* the shards' entries, by <<type, key>>
  repStats,    \* asnStats, by ASN: the hosts seen and the offenders
  repCap,      \* the score cap of each type
  repNow,      \* the clock
  repTask,     \* repTask[w]: the RecordSignal worker w is in
  repDecay,    \* the decay pass: the shard it is at, 0 for none, and its now
  repSetter    \* a Set*ScoreCap call: the shard it is at, 0 for none, type, cap

reputationVars ==
  <<repEntries, repStats, repCap, repNow, repTask, repDecay, repSetter>>

RepIdle     == [pc |-> "idle"]
RepNoPass   == [shard |-> 0, now |-> 0]
RepNoSetter == [shard |-> 0, kind |-> "ip", cap |-> RepNoCap]

ReputationInit ==
  /\ repEntries = <<>> /\ repStats = <<>>
  /\ repCap = [t \in RepKinds |-> RepNoCap]
  /\ repNow = 0
  /\ repTask = [w \in RepWorkers |-> RepIdle]
  /\ repDecay = RepNoPass
  /\ repSetter = RepNoSetter

-----------------------------------------------------------------------------
(* The maps behind a shard's lock. *)

RepKeysOf(E, sh) == {k \in DOMAIN E : RepShardOf[k[2]] = sh}

\* A shard is locked while a worker is between reading a cap and writing.
RepFree(sh) ==
  \A w \in RepWorkers :
    repTask[w].pc = "write" => RepShardOf[repTask[w].plan[1][2]] # sh

\* deleteEntryLocked for every key of K: an ASN takes its statistics with it.
deleteEntries(E, St, K) ==
  <<Restrict(E, DOMAIN E \ K),
    Restrict(St, {a \in DOMAIN St : <<"asn", a>> \notin K})>>

\* The n least recently seen of the keys K.
oldest(E, K, n) ==
  CHOOSE S \in kSubset(n, K) :
    \A s \in S, k \in K \ S : E[s].seen <= E[k].seen

pruneIfNeeded(E, St, sh) ==
  LET K == RepKeysOf(E, sh)
      excess == Cardinality(K) - RepBudget + RepBudget \div RepBatch
  IN IF Cardinality(K) <= RepBudget THEN <<E, St>>
     ELSE deleteEntries(E, St, oldest(E, K, excess))

\* Repeated offences weigh less: divided by the square root of their number.
dampen(weight, offenses) ==
  weight \div (CHOOSE r \in 1..(offenses + 1) :
                 r * r >= offenses + 1 /\ (r - 1) * (r - 1) < offenses + 1)

\* The map F after a write at k.
repPut(F, k, v) == [x \in DOMAIN F \cup {k} |-> IF x = k THEN v ELSE F[x]]

RepEntry(E, k) == IF k \in DOMAIN E THEN E[k] ELSE [score |-> 0, seen |-> 0, off |-> 0]

\* The entry of k after a penalty: created, raised, capped and stamped.
penalized(E, k, weight, cap) ==
  repPut(E, k, [score |-> Min({RepEntry(E, k).score + weight, cap}),
                seen  |-> repNow + 1,
                off   |-> RepEntry(E, k).off + 1])

\* The entry of k after a reward; an unknown key and a clean one stay as they are.
rewarded(E, k, weight) ==
  IF RepEntry(E, k).score <= 0 THEN E
  ELSE repPut(E, k, [E[k] EXCEPT !.score = @ - Min({dampen(weight, E[k].off), @}),
                                 !.seen = repNow + 1])

getASNStats(asn) ==
  IF asn \in DOMAIN repStats THEN repStats[asn] ELSE [seen |-> {}, off |-> {}]

\* boundASNStatsLocked: each set loses arbitrary members, independently.
boundASNStats(st) ==
  {[seen |-> s, off |-> o] :
     s \in IF Cardinality(st.seen) > RepMaxHosts THEN kSubset(RepMaxHosts, st.seen)
           ELSE {st.seen},
     o \in IF Cardinality(st.off) > RepMaxHosts THEN kSubset(RepMaxHosts, st.off)
           ELSE {st.off}}

\* The weight times offenders / total; a small ASN is not judged by one host.
ratioWeight(st) == (RepWeight * Cardinality(st.off)) \div Max({Cardinality(st.seen), RepSoft})

-----------------------------------------------------------------------------
(* RecordSignal, and the Penalize and PenalizeASN calls it stands for. *)

\* The sections of a call, in order: Penalize and PenalizeASN have one.
RecordSignal(w) ==
  /\ repTask[w].pc = "idle" /\ repNow < RepMaxTime
  /\ \E ip \in RepIPs, asn \in RepASNs, ja4 \in RepJA4s :
       \E plan \in {<< <<"ip", ip>> >>, << <<"asn", asn>> >>, << <<"ja4", ja4>> >>,
                    << <<"ip", ip>>, <<"asn", asn>>, <<"ja4", ja4>> >>} :
         repTask' = [repTask EXCEPT ![w] = [pc |-> "lock", ip |-> ip, plan |-> plan]]
  /\ UNCHANGED <<repEntries, repStats, repCap, repNow, repDecay, repSetter>>

\* A section takes its shard's lock and loads the cap of its type.
PenalizeReadCap(w) ==
  LET k == repTask[w].plan[1]
  IN /\ repTask[w].pc = "lock"
     /\ RepFree(RepShardOf[k[2]])
     /\ repTask' = [repTask EXCEPT ![w] =
                      [pc |-> "write", ip |-> @.ip, plan |-> @.plan, cap |-> repCap[k[1]]]]
     /\ UNCHANGED <<repEntries, repStats, repCap, repNow, repDecay, repSetter>>

nextSection(t) ==
  IF Len(t.plan) = 1 THEN RepIdle
  ELSE [pc |-> "lock", ip |-> t.ip, plan |-> Tail(t.plan)]

\* An address or a fingerprint: raise the entry, prune the shard, unlock.
Penalize(w) ==
  LET t == repTask[w]
      k == t.plan[1]
      pruned == pruneIfNeeded(penalized(repEntries, k, RepWeight, t.cap),
                              repStats, RepShardOf[k[2]])
  IN /\ t.pc = "write" /\ k[1] # "asn"
     /\ repEntries' = pruned[1] /\ repStats' = pruned[2]
     /\ repNow' = repNow + 1
     /\ repTask' = [repTask EXCEPT ![w] = nextSection(t)]
     /\ UNCHANGED <<repCap, repDecay, repSetter>>

\* An ASN: host sets, ratio and damped penalty; this section does not prune.
PenalizeASN(w) ==
  LET t == repTask[w]
      k == t.plan[1]
      st == getASNStats(k[2])
  IN /\ t.pc = "write" /\ k[1] = "asn"
     /\ \E b \in boundASNStats([seen |-> st.seen \cup {t.ip}, off |-> st.off \cup {t.ip}]) :
          /\ repStats' = repPut(repStats, k[2], b)
          /\ repEntries' = penalized(repEntries, k,
                             dampen(ratioWeight(b), RepEntry(repEntries, k).off), t.cap)
     /\ repNow' = repNow + 1
     /\ repTask' = [repTask EXCEPT ![w] = nextSection(t)]
     /\ UNCHANGED <<repCap, repDecay, repSetter>>

-----------------------------------------------------------------------------
(* The other operations, each one section. *)

\* ObserveIP: statistics of an ASN that may have no entry.
ObserveIP(asn, ip) ==
  /\ RepFree(RepShardOf[asn]) /\ repNow < RepMaxTime
  /\ \E b \in boundASNStats([getASNStats(asn) EXCEPT !.seen = @ \cup {ip}]) :
       repStats' = repPut(repStats, asn, b)
  /\ repNow' = repNow + 1
  /\ UNCHANGED <<repEntries, repCap, repTask, repDecay, repSetter>>

\* RewardIP and RewardJA4.
Reward(kind, key) ==
  /\ RepFree(RepShardOf[key]) /\ repNow < RepMaxTime
  /\ repEntries' = rewarded(repEntries, <<kind, key>>, RepWeight)
  /\ repNow' = repNow + 1
  /\ UNCHANGED <<repStats, repCap, repTask, repDecay, repSetter>>

\* RewardASN adds the host without trimming; good hosts scale the reward.
RewardASN(asn, ip) ==
  LET st == [getASNStats(asn) EXCEPT !.seen = @ \cup {ip}]
      good == Max({Cardinality(st.seen) - Cardinality(st.off), 0})
  IN /\ RepFree(RepShardOf[asn]) /\ repNow < RepMaxTime
     /\ repStats' = repPut(repStats, asn, st)
     /\ repEntries' = rewarded(repEntries, <<"asn", asn>>,
                        (RepWeight * good) \div Cardinality(st.seen))
     /\ repNow' = repNow + 1
     /\ UNCHANGED <<repCap, repTask, repDecay, repSetter>>

\* Set*ScoreCap stores the cap, then clamps shard after shard.
SetScoreCap(kind, cap) ==
  /\ repSetter.shard = 0 /\ cap < repCap[kind]
  /\ repCap' = [repCap EXCEPT ![kind] = cap]
  /\ repSetter' = [shard |-> 1, kind |-> kind, cap |-> cap]
  /\ UNCHANGED <<repEntries, repStats, repNow, repTask, repDecay>>

\* Mutant: the walk does not wait for the shard's lock.
clampLockedNot(sh) == TRUE

clampLocked(sh) == RepFree(sh)

\* One shard of the walk; the ASN setter also drops statistics without entry.
ClampShard ==
  LET sh == repSetter.shard
      K == {k \in RepKeysOf(repEntries, sh) : k[1] = repSetter.kind}
      orphan(a) == RepShardOf[a] = sh /\ <<"asn", a>> \notin DOMAIN repEntries
  IN /\ sh # 0 /\ clampLocked(sh)
     /\ repEntries' = [k \in DOMAIN repEntries |->
                         IF k \in K THEN [repEntries[k] EXCEPT !.score = Min({@, repSetter.cap})]
                         ELSE repEntries[k]]
     /\ repStats' = IF repSetter.kind # "asn" THEN repStats
                    ELSE Restrict(repStats, {a \in DOMAIN repStats : ~orphan(a)})
     /\ repSetter' = IF sh = RepShardCount THEN RepNoSetter
                     ELSE [repSetter EXCEPT !.shard = sh + 1]
     /\ UNCHANGED <<repCap, repNow, repTask, repDecay>>

\* The decay pass reads the clock once ...
StartDecay ==
  /\ repDecay.shard = 0 /\ DOMAIN repEntries # {}
  /\ repDecay' = [shard |-> 1, now |-> repNow]
  /\ UNCHANGED <<repEntries, repStats, repCap, repNow, repTask, repSetter>>

\* What a pass drops: entries past their age, and low scores.
decayed(E, sh) ==
  {k \in RepKeysOf(E, sh) : repDecay.now - E[k].seen > RepMaxAge \/ E[k].score < 1}

\* ... and scales, drops and prunes one shard at a time.
DecayShard ==
  LET sh == repDecay.shard
      E == [k \in DOMAIN repEntries |->
              IF RepShardOf[k[2]] = sh THEN [repEntries[k] EXCEPT !.score = @ \div 2]
              ELSE repEntries[k]]
      gone == decayed(E, sh)
      left == deleteEntries(E, repStats, gone)
      kept == pruneIfNeeded(left[1], left[2], sh)
  IN /\ sh # 0 /\ RepFree(sh)
     /\ repEntries' = kept[1] /\ repStats' = kept[2]
     /\ repDecay' = IF sh = RepShardCount THEN RepNoPass
                    ELSE [repDecay EXCEPT !.shard = sh + 1]
     /\ UNCHANGED <<repCap, repNow, repTask, repSetter>>

ReputationNext ==
  \/ \E w \in RepWorkers :
       RecordSignal(w) \/ PenalizeReadCap(w) \/ Penalize(w) \/ PenalizeASN(w)
  \/ \E asn \in RepASNs, ip \in RepIPs : ObserveIP(asn, ip) \/ RewardASN(asn, ip)
  \/ \E ip \in RepIPs : Reward("ip", ip)
  \/ \E ja4 \in RepJA4s : Reward("ja4", ja4)
  \/ \E kind \in RepSettable, cap \in RepCaps : SetScoreCap(kind, cap)
  \/ ClampShard \/ StartDecay \/ DecayShard

ReputationSpec == ReputationInit /\ [][ReputationNext]_reputationVars

\* The decay goroutine and the callers run; nobody has to call.
ReputationFairness ==
  /\ WF_reputationVars(StartDecay) /\ WF_reputationVars(DecayShard)
  /\ \A w \in RepWorkers : WF_reputationVars(Penalize(w) \/ PenalizeASN(w))

-----------------------------------------------------------------------------
(* Properties. *)

\* Once a Set*ScoreCap call has returned, no score of its type is above the
\* cap, whatever penalties raced with its walk over the shards.
RepCapHolds ==
  repSetter.shard = 0 =>
    \A k \in DOMAIN repEntries : repEntries[k].score <= repCap[k[1]]

\* An ASN never counts more offenders than hosts, so the ratio that scales its
\* penalty is at most one, although the two sets are trimmed independently.
RepRatioAtMostOne ==
  \A a \in DOMAIN repStats :
    Cardinality(repStats[a].off) <= Cardinality(repStats[a].seen)

\* A flood of addresses or fingerprints cannot push a shard past its budget:
\* only ASN entries, which do not prune, may.
RepShardBounded ==
  \A sh \in RepShards :
    Cardinality({k \in RepKeysOf(repEntries, sh) : k[1] # "asn"}) <= RepBudget

\* The penalty that triggers a prune is not itself forgotten by it.
RepFreshSurvives ==
  [][\A w \in RepWorkers :
       repTask[w].pc = "write" /\ repTask'[w].pc # "write" =>
         repTask[w].plan[1] \in DOMAIN repEntries'
    ]_reputationVars

\* Every entity is forgiven: once no more signals come, decay drops it.
RepForgets ==
  \A ip \in RepIPs : []<>(<<"ip", ip>> \notin DOMAIN repEntries)

\* Scores respect the caps set while penalties race, the host sets stay in
\* proportion, and pruning spares what is new (Penalize, SetIPScoreCap,
\* boundASNStatsLocked, pruneIfNeededLocked).
RepScoresKept ==
  /\ [](RepCapHolds /\ RepRatioAtMostOne /\ RepShardBounded)
  /\ RepFreshSurvives

\* Scores are bounded while they last and forgiven in the end, through caps,
\* decay and pruning that walk the shards while penalties are added (decay).
ReputationFair == RepScoresKept /\ RepForgets
=============================================================================
