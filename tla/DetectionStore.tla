---------------------------- MODULE DetectionStore ----------------------------
(***************************************************************************)
(* What the detection engine keeps of its detections                       *)
(* (pkg/analyzer/aidetection/state.go): the latest detection of every      *)
(* entity with its reverse index, the detection history, and the counters  *)
(* of the entities.  A worker that publishes a detection visits the three  *)
(* stores one after the other, each behind its own lock; cleanup passes    *)
(* and other workers come in between.                                      *)
(*                                                                         *)
(* A detection is numbered; its keys are the address and, when known, the  *)
(* network and the fingerprint it is filed under.                          *)
(***************************************************************************)
EXTENDS Integers, Sequences, FiniteSets, Functions

CONSTANTS
  DSWorkers,
  DSKeySets,    \* the key sets a detection may have: detectionEntityKeys
  DSMaxEvents,  \* latestMaxEvents
  DSTTL,        \* latestTTL, historyMaxAge and metricsTTL
  DSSkew,       \* how far in the future a detection may be stamped
  DSHistory,    \* historyMaxSize
  DSEntities,   \* metricsMaxEntities
  DSMade,       \* bound of the model: detections made
  DSMaxTime     \* bound of the model: the clock

ASSUME DSAssumption ==
  /\ DSMaxEvents \in Nat \ {0} /\ DSHistory \in Nat \ {0} /\ DSEntities \in Nat \ {0}
  /\ DSSkew \in Nat
  /\ \A K \in DSKeySets : K # {} /\ IsFiniteSet(K)

VARIABLES
  dsTime,     \* DetectionTime of every detection made
  dsLatest,   \* latestDetections: the detection of a key
  dsKeys,     \* latestDetectionKeys: the keys of a detection
  dsHist,     \* detectionHistory
  dsSeen,     \* metricsLastSeen, by entity
  dsSignals,  \* the entities with a signal count
  dsDetects,  \* the entities with a detection count
  dsTask,     \* the detection each worker is publishing
  dsNow

dsVars == <<dsTime, dsLatest, dsKeys, dsHist, dsSeen, dsSignals, dsDetects, dsTask, dsNow>>

DSIdle == [pc |-> "idle"]

\* f with the value v for all of K.
dsPut(f, K, v) == [x \in DOMAIN f \cup K |-> IF x \in K THEN v ELSE f[x]]

DetectionStoreInit ==
  /\ dsTime = <<>> /\ dsLatest = <<>> /\ dsKeys = <<>> /\ dsHist = <<>>
  /\ dsSeen = <<>> /\ dsSignals = {} /\ dsDetects = {}
  /\ dsTask = [w \in DSWorkers |-> DSIdle]
  /\ dsNow = 0

-----------------------------------------------------------------------------
(* The counters. *)

\* admitMetricEntityLocked: a full table admits only entities it knows.
admits(counted, e) ==
  e \in counted \/ e \in DOMAIN dsSeen \/ Cardinality(DOMAIN dsSeen) < DSEntities

\* The metrics section of processSignal, for one entity of the signal.
countSignal(e) ==
  /\ admits(dsSignals, e)
  /\ dsSeen' = dsPut(dsSeen, {e}, dsNow)
  /\ dsSignals' = dsSignals \cup {e}
  /\ UNCHANGED <<dsTime, dsLatest, dsKeys, dsHist, dsDetects, dsTask, dsNow>>

\* A worker decides on a detection; the event is stamped then.
detect(w, K) ==
  /\ dsTask[w].pc = "idle" /\ Len(dsTime) < DSMade
  /\ \E stamp \in {dsNow, dsNow + DSSkew + 1} : dsTime' = Append(dsTime, stamp)
  /\ dsTask' = [dsTask EXCEPT ![w] = [pc |-> "count", ev |-> Len(dsTime'), todo |-> K, keys |-> K]]
  /\ UNCHANGED <<dsLatest, dsKeys, dsHist, dsSeen, dsSignals, dsDetects, dsNow>>

\* The detection counts: one entity after the other under one lock, in an
\* order that matters when the table is nearly full.
countDetection(w) ==
  LET K == dsTask[w].todo
      Admitted == {A \in SUBSET K :
                     /\ K \cap (dsDetects \cup DOMAIN dsSeen) \subseteq A
                     /\ Cardinality(DOMAIN dsSeen \cup A) <= DSEntities
                          \/ A = K \cap (dsDetects \cup DOMAIN dsSeen)
                     /\ A # K => Cardinality(DOMAIN dsSeen \cup A) >= DSEntities}
  IN /\ dsTask[w].pc = "count"
     /\ \E A \in Admitted :
          /\ dsSeen' = dsPut(dsSeen, A, dsNow)
          /\ dsDetects' = dsDetects \cup A
     /\ dsTask' = [dsTask EXCEPT ![w].pc = "cache"]
     /\ UNCHANGED <<dsTime, dsLatest, dsKeys, dsHist, dsSignals, dsNow>>

\* The counts without the entities of E.
forgotten(E) ==
  /\ dsSignals' = dsSignals \ E
  /\ dsDetects' = dsDetects \ E

cleanupMetricState ==
  LET E == {e \in DOMAIN dsSeen : dsSeen[e] < dsNow - DSTTL}
  IN /\ E # {}
     /\ dsSeen' = Restrict(dsSeen, DOMAIN dsSeen \ E)
     /\ forgotten(E)
     /\ UNCHANGED <<dsTime, dsLatest, dsKeys, dsHist, dsTask, dsNow>>

-----------------------------------------------------------------------------
(* The latest detections. *)

\* removeDetectionLocked, for the detections D.
dsRemoved(latest, keys, D) ==
  <<Restrict(latest, {k \in DOMAIN latest : latest[k] \notin D}),
    Restrict(keys, DOMAIN keys \ D)>>

\* The detections over the limit, the oldest first.
surplus(keys) ==
  {D \in SUBSET DOMAIN keys :
     /\ Cardinality(DOMAIN keys \ D) <= DSMaxEvents
     /\ D # {} => Cardinality(DOMAIN keys \ D) = DSMaxEvents
     /\ \A d \in D, k \in DOMAIN keys \ D : dsTime[d] <= dsTime[k]}

\* Mutant: the detection that had a key keeps it in the index.
unfiledNot(K) == dsKeys

\* The index without the keys K, and without a detection left with none.
unfiled(K) ==
  LET less == [d \in DOMAIN dsKeys |-> dsKeys[d] \ K]
  IN Restrict(less, {d \in DOMAIN less : less[d] # {}})

\* cacheDetection: take the keys over, file the detection, prune.
cacheDetection(w) ==
  LET t == dsTask[w]
      latest == dsPut(dsLatest, t.keys, t.ev)
      keys == dsPut(unfiled(t.keys), {t.ev}, t.keys)
  IN /\ t.pc = "cache"
     /\ \E D \in surplus(keys) :
          /\ dsLatest' = dsRemoved(latest, keys, D)[1]
          /\ dsKeys' = dsRemoved(latest, keys, D)[2]
     /\ dsTask' = [dsTask EXCEPT ![w].pc = "history"]
     /\ UNCHANGED <<dsTime, dsHist, dsSeen, dsSignals, dsDetects, dsNow>>

\* Of handleDetection: an allowlisted address is neither cached nor kept.
skipCache(w) ==
  /\ dsTask[w].pc = "cache"
  /\ dsTask' = [dsTask EXCEPT ![w] = DSIdle]
  /\ UNCHANGED <<dsTime, dsLatest, dsKeys, dsHist, dsSeen, dsSignals, dsDetects, dsNow>>

\* cleanupRetainedState: what is too old, and what is stamped in the future.
expireLatest ==
  LET D == {d \in DOMAIN dsKeys : dsTime[d] < dsNow - DSTTL \/ dsTime[d] > dsNow + DSSkew}
  IN /\ D # {}
     /\ dsLatest' = dsRemoved(dsLatest, dsKeys, D)[1]
     /\ dsKeys' = dsRemoved(dsLatest, dsKeys, D)[2]
     /\ UNCHANGED <<dsTime, dsHist, dsSeen, dsSignals, dsDetects, dsTask, dsNow>>

-----------------------------------------------------------------------------
(* The history. *)

\* The latest DSHistory of the detections s.
dsCut(s) == IF Len(s) > DSHistory THEN SubSeq(s, Len(s) - DSHistory + 1, Len(s)) ELSE s

\* pruneDetectionHistoryLocked: the old ones at the front, then the surplus.
dsPruned(s) ==
  LET keep == {i \in 1..Len(s) : dsTime[s[i]] >= dsNow - DSTTL}
      first == IF keep = {} THEN Len(s) + 1 ELSE CHOOSE i \in keep : \A j \in keep : i <= j
  IN dsCut(SubSeq(s, first, Len(s)))

addDetectionHistory(w) ==
  /\ dsTask[w].pc = "history"
  /\ dsHist' = dsPruned(Append(dsHist, dsTask[w].ev))
  /\ dsTask' = [dsTask EXCEPT ![w] = DSIdle]
  /\ UNCHANGED <<dsTime, dsLatest, dsKeys, dsSeen, dsSignals, dsDetects, dsNow>>

pruneDetectionHistory ==
  /\ dsHist' = dsPruned(dsHist)
  /\ UNCHANGED <<dsTime, dsLatest, dsKeys, dsSeen, dsSignals, dsDetects, dsTask, dsNow>>

dsTick ==
  /\ dsNow < DSMaxTime
  /\ dsNow' = dsNow + 1
  /\ UNCHANGED <<dsTime, dsLatest, dsKeys, dsHist, dsSeen, dsSignals, dsDetects, dsTask>>

DetectionStoreNext ==
  \/ \E e \in UNION DSKeySets : countSignal(e)
  \/ \E w \in DSWorkers :
       \/ \E K \in DSKeySets : detect(w, K)
       \/ countDetection(w) \/ cacheDetection(w) \/ skipCache(w) \/ addDetectionHistory(w)
  \/ cleanupMetricState \/ expireLatest \/ pruneDetectionHistory \/ dsTick

DetectionStoreSpec == DetectionStoreInit /\ [][DetectionStoreNext]_dsVars

-----------------------------------------------------------------------------
(* Properties. *)

\* The two directions of the index agree and hold nothing else: a detection is
\* kept exactly as long as some key leads to it, and at most DSMaxEvents are.
DSIndexExact ==
  /\ \A d \in DOMAIN dsKeys :
       /\ dsKeys[d] # {}
       /\ dsKeys[d] = {k \in DOMAIN dsLatest : dsLatest[k] = d}
  /\ \A k \in DOMAIN dsLatest : dsLatest[k] \in DOMAIN dsKeys
  /\ Cardinality(DOMAIN dsKeys) <= DSMaxEvents

\* Every count belongs to an entity the cleanup will find: counts cannot
\* outlive their entity and grow past the limit.
DSCountsOwned ==
  /\ dsSignals \cup dsDetects = DOMAIN dsSeen
  /\ Cardinality(DOMAIN dsSeen) <= DSEntities

\* A detection that goes into the history is in it: the limit costs an older
\* one, never the new one.
DSHistoryTakesNew ==
  [][\A w \in DSWorkers :
       dsTask[w].pc = "history" /\ dsTask'[w].pc = "idle" /\ dsTime[dsTask[w].ev] >= dsNow - DSTTL
         => dsHist' # <<>> /\ dsHist'[Len(dsHist')] = dsTask[w].ev]_dsVars

\* Detections, counts and history hold what leads to them and no more, at
\* their limits and while workers race with the cleanup (cacheDetection,
\* addDetectionHistory, cleanupRetainedState).
DetectionsFiled ==
  /\ [](DSIndexExact /\ DSCountsOwned)
  /\ DSHistoryTakesNew
=============================================================================
