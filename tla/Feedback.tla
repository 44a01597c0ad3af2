------------------------------- MODULE Feedback -------------------------------
(***************************************************************************)
(* The adaptive feedback loop (pkg/analyzer/aidetection/feedback.go):      *)
(* reported outcomes, the threshold they move, the allowlist of false      *)
(* positives and its file.  One mutex guards the state; a section that     *)
(* takes and releases it is one step.  Saves run in goroutines of their    *)
(* own, in any order, and the file is rewritten in place.  What the same   *)
(* operations do to the learning window is in LearnedPatterns.             *)
(***************************************************************************)
EXTENDS Integers, Sequences, FiniteSets, Functions, TLC

CONSTANTS
  FbIPs,
  FbTTL,          \* allowlistTTL
  FbPeriod,       \* windowPeriod
  FbMaxOutcomes,  \* maxOutcomes
  FbEnough,       \* detections needed before the threshold moves (100)
  FbInterval,     \* adjustmentInterval
  FbMin, FbMax, FbInitial, FbStep,  \* the threshold, in steps of the model
  FbHigh, FbLow,  \* 1.5 and 0.5 times targetFPRate, in percent
  FbSavers,       \* bound of the model: saves under way at once
  FbReports,      \* bound of the model: outcomes reported
  FbMaxTime       \* bound of the model: the clock

ASSUME FbAssumption ==
  /\ FbMaxOutcomes \in Nat \ {0}
  /\ FbMin \in Int /\ FbMax \in Int /\ FbInitial \in Int
  /\ FbMin <= FbInitial /\ FbInitial <= FbMax
  /\ FbLow <= FbHigh /\ FbStep \in Nat

VARIABLES
  fbPath,      \* persistencePath is set
  fbLock,      \* who holds mu across steps: "free" or "remove"
  fbOutcomes,  \* outcomes
  fbTotal,     \* totalDetections, totalFalsePos, totalTruePos; made bounds the model
  fbThreshold, \* currentThreshold, and lastAdjustment
  fbHits,      \* truePositiveIPs
  fbAllow,     \* allowlist: the expiry of an address
  fbClean,     \* the Cleanup pass
  fbRemove,    \* a RemoveFromAllowlist call
  fbSavers,    \* saveAllowlist goroutines, numbered
  fbDisk,      \* the allowlist file
  fbNow

fbVars == <<fbPath, fbLock, fbOutcomes, fbTotal, fbThreshold, fbHits, fbAllow,
            fbClean, fbRemove, fbSavers, fbDisk, fbNow>>

FeedbackInit ==
  /\ fbPath \in BOOLEAN
  /\ fbLock = "free"
  /\ fbOutcomes = <<>> /\ fbTotal = [all |-> 0, fp |-> 0, tp |-> 0, made |-> 0]
  /\ fbThreshold = [at |-> FbInitial, moved |-> 0]
  /\ fbHits = [ip \in FbIPs |-> 0]
  /\ fbAllow = <<>>
  /\ fbClean = "idle" /\ fbRemove = "idle"
  /\ fbSavers = <<>> /\ fbDisk = [list |-> <<>>, ok |-> TRUE]
  /\ fbNow = 1

\* f.mu.Lock() comes through.
muFree == fbLock = "free"

-----------------------------------------------------------------------------
(* RecordOutcome. *)

\* calculateFPRate: the share of false positives, in percent, over the latest
\* outcomes down to the first one out of the window.
FPRate(s) ==
  LET old == {i \in 1..Len(s) : s[i].at < fbNow - FbPeriod}
      from == IF old = {} THEN 1 ELSE (CHOOSE i \in old : \A j \in old : j <= i) + 1
      fp == {i \in from..Len(s) : s[i].kind = "fp"}
  IN IF from > Len(s) THEN 0 ELSE (100 * Cardinality(fp)) \div (Len(s) - from + 1)

\* The threshold one step up.
raised(t) == IF t + FbStep > FbMax THEN FbMax ELSE t + FbStep

lowered(t) == IF t - FbStep < FbMin THEN FbMin ELSE t - FbStep

\* considerThresholdAdjustment, after the totals and the rate are updated.
adjusted(tot, rate) ==
  LET t == fbThreshold.at
  IN IF fbNow - fbThreshold.moved < FbInterval \/ tot.all < FbEnough THEN fbThreshold
     ELSE IF rate > FbHigh /\ t < FbMax THEN [at |-> raised(t), moved |-> fbNow]
     ELSE IF rate < FbLow /\ tot.tp > 5 * tot.fp /\ t > FbMin
          THEN [at |-> lowered(t), moved |-> fbNow]
     ELSE fbThreshold

newest(s) == IF Len(s) > FbMaxOutcomes THEN Tail(s) ELSE s

\* go saveAllowlist(): nothing to do without a path.
spawned == IF fbPath THEN Append(fbSavers, [pc |-> "snap", data |-> <<>>]) ELSE fbSavers

RecordOutcome(ip, kind) ==
  LET outcomes == newest(Append(fbOutcomes, [ip |-> ip, kind |-> kind, at |-> fbNow]))
      total == [all |-> fbTotal.all + 1,
                fp  |-> fbTotal.fp + (IF kind = "fp" THEN 1 ELSE 0),
                tp  |-> fbTotal.tp + (IF kind = "tp" THEN 1 ELSE 0),
                made |-> fbTotal.made + 1]
  IN /\ muFree /\ fbTotal.made < FbReports
     /\ fbOutcomes' = outcomes
     /\ fbTotal' = total
     /\ fbHits' = [fbHits EXCEPT ![ip] = IF kind = "tp" THEN @ + 1 ELSE @]
     /\ fbAllow' = IF kind = "fp" THEN (ip :> fbNow + FbTTL) @@ fbAllow ELSE fbAllow
     /\ fbSavers' = IF kind = "fp" THEN spawned ELSE fbSavers
     /\ fbThreshold' = adjusted(total, FPRate(outcomes))
     /\ UNCHANGED <<fbPath, fbLock, fbClean, fbRemove, fbDisk, fbNow>>

\* The report-fp and report-tp endpoints.
reportFalsePositive(ip) == RecordOutcome(ip, "fp")
reportTruePositive(ip) == RecordOutcome(ip, "tp")

-----------------------------------------------------------------------------
(* The operator's removals. *)

\* RemoveFromAllowlist takes the lock, deletes, and calls saveAllowlist.
RemoveFromAllowlist(ip) ==
  /\ fbRemove = "idle" /\ muFree
  /\ fbLock' = "remove"
  /\ fbAllow' = Restrict(fbAllow, DOMAIN fbAllow \ {ip})
  /\ fbRemove' = "save"
  /\ UNCHANGED <<fbPath, fbOutcomes, fbTotal, fbThreshold, fbHits, fbClean,
                 fbSavers, fbDisk, fbNow>>

\* The allowlist endpoints; the bulk one calls once per address.
deleteFromAllowlist(ip) == RemoveFromAllowlist(ip)

\* Its saveAllowlist: without a path it returns at once; with one, GetAllowlist
\* asks for the read lock of the mutex this very call holds.
removeSaves ==
  /\ fbRemove = "save"
  /\ ~fbPath \/ fbLock = "free"
  /\ fbRemove' = "idle" /\ fbLock' = "free"
  /\ fbDisk' = IF fbPath THEN [list |-> fbAllow, ok |-> TRUE] ELSE fbDisk
  /\ UNCHANGED <<fbPath, fbOutcomes, fbTotal, fbThreshold, fbHits, fbAllow,
                 fbClean, fbSavers, fbNow>>

-----------------------------------------------------------------------------
(* Cleanup: two sections, with the learning window's patterns in between. *)

\* The true positives of each address among the outcomes s.
countHits(s) ==
  [ip \in FbIPs |-> Cardinality({i \in 1..Len(s) : s[i].ip = ip /\ s[i].kind = "tp"})]

cleanupStart ==
  LET cutoff == fbNow - FbPeriod
      kept == {i \in 1..Len(fbOutcomes) : fbOutcomes[i].at > cutoff}
      first == IF kept = {} THEN Len(fbOutcomes) + 1
               ELSE CHOOSE i \in kept : \A j \in kept : i <= j
      outcomes == SubSeq(fbOutcomes, first, Len(fbOutcomes))
  IN /\ fbClean = "idle" /\ muFree /\ Len(fbSavers) < FbSavers
     /\ fbOutcomes' = outcomes
     /\ fbHits' = countHits(outcomes)
     /\ fbAllow' = Restrict(fbAllow, {ip \in DOMAIN fbAllow : fbNow <= fbAllow[ip]})
     /\ fbClean' = "end"
     /\ UNCHANGED <<fbPath, fbLock, fbTotal, fbThreshold, fbRemove, fbSavers,
                    fbDisk, fbNow>>

\* Mutant: the pass does not save.
cleanupSavesNot == fbSavers

\* The goroutines after a pass: go saveAllowlist().
cleanupSaves == spawned

cleanupEnd ==
  /\ fbClean = "end" /\ muFree
  /\ fbClean' = "idle"
  /\ fbSavers' = cleanupSaves
  /\ UNCHANGED <<fbPath, fbLock, fbOutcomes, fbTotal, fbThreshold, fbHits, fbAllow,
                 fbRemove, fbDisk, fbNow>>

-----------------------------------------------------------------------------
(* saveAllowlist in a goroutine, the file, and a restart. *)

saver(i, s) == [fbSavers EXCEPT ![i] = s]

\* GetAllowlist: a copy under the read lock.
allowlistSnapshot(i) ==
  /\ fbSavers[i].pc = "snap" /\ fbLock = "free"
  /\ fbSavers' = saver(i, [pc |-> "open", data |-> fbAllow])
  /\ UNCHANGED <<fbPath, fbLock, fbOutcomes, fbTotal, fbThreshold, fbHits, fbAllow,
                 fbClean, fbRemove, fbDisk, fbNow>>

\* WriteFile truncates the file when it opens it,
allowlistOpen(i) ==
  /\ fbSavers[i].pc = "open"
  /\ fbDisk' = [list |-> <<>>, ok |-> FALSE]
  /\ fbSavers' = saver(i, [fbSavers[i] EXCEPT !.pc = "write"])
  /\ UNCHANGED <<fbPath, fbLock, fbOutcomes, fbTotal, fbThreshold, fbHits, fbAllow,
                 fbClean, fbRemove, fbNow>>

\* and writes from its start: over a longer text another goroutine has written
\* since, its end stays and the file does not parse.  A full disk writes nothing.
allowlistWrite(i) ==
  /\ fbSavers[i].pc = "write"
  /\ fbDisk' = IF Cardinality(DOMAIN fbDisk.list) > Cardinality(DOMAIN fbSavers[i].data)
               THEN [fbDisk EXCEPT !.ok = FALSE]
               ELSE [list |-> fbSavers[i].data, ok |-> TRUE]
  /\ fbSavers' = SubSeq(fbSavers, 1, i - 1) \o SubSeq(fbSavers, i + 1, Len(fbSavers))
  /\ UNCHANGED <<fbPath, fbLock, fbOutcomes, fbTotal, fbThreshold, fbHits, fbAllow,
                 fbClean, fbRemove, fbNow>>

\* loadAllowlist: the entries of a file that parses, if they are still due.
allowlistLoaded ==
  IF fbDisk.ok THEN Restrict(fbDisk.list, {ip \in DOMAIN fbDisk.list : fbDisk.list[ip] > fbNow})
  ELSE <<>>

\* The analyzer dies and starts again.
fbRestart ==
  /\ fbPath
  /\ fbAllow' = allowlistLoaded
  /\ fbLock' = "free" /\ fbOutcomes' = <<>> /\ fbTotal' = [fbTotal EXCEPT !.all = 0, !.fp = 0, !.tp = 0]
  /\ fbThreshold' = [at |-> FbInitial, moved |-> fbNow]
  /\ fbHits' = [ip \in FbIPs |-> 0]
  /\ fbClean' = "idle" /\ fbRemove' = "idle" /\ fbSavers' = <<>>
  /\ UNCHANGED <<fbPath, fbDisk, fbNow>>

fbTick ==
  /\ fbNow < FbMaxTime
  /\ fbNow' = fbNow + 1
  /\ UNCHANGED <<fbPath, fbLock, fbOutcomes, fbTotal, fbThreshold, fbHits, fbAllow,
                 fbClean, fbRemove, fbSavers, fbDisk>>

fbSave(i) == allowlistSnapshot(i) \/ allowlistOpen(i) \/ allowlistWrite(i)

FeedbackNext ==
  \/ \E ip \in FbIPs : reportFalsePositive(ip) \/ reportTruePositive(ip) \/ deleteFromAllowlist(ip)
  \/ removeSaves \/ cleanupStart \/ cleanupEnd
  \/ \E i \in 1..Len(fbSavers) : fbSave(i)
  \/ fbRestart \/ fbTick

\* A goroutine that saves, a removal under way and the ticking Cleanup do not
\* stall by themselves; nobody has to report, remove or restart.
FeedbackFairness ==
  /\ WF_fbVars(fbSavers # <<>> /\ fbSave(1))
  /\ WF_fbVars(removeSaves) /\ WF_fbVars(cleanupStart) /\ WF_fbVars(cleanupEnd)

FeedbackSpec == FeedbackInit /\ [][FeedbackNext]_fbVars /\ FeedbackFairness

-----------------------------------------------------------------------------
(* Properties. *)

\* The threshold stays between its limits, whatever is reported and however
\* often the analyzer restarts.
FbThresholdInBand == fbThreshold.at \in FbMin..FbMax

\* The history stays within its bound, no true positive it still has is missing from its
\* address's count, and no count is above the total, whether an outcome leaves by the
\* bound, by its age or by a restart (RecordOutcome, Cleanup).
FbOutcomesCounted ==
  /\ Len(fbOutcomes) <= FbMaxOutcomes
  /\ \A ip \in FbIPs :
       countHits(fbOutcomes)[ip] <= fbHits[ip] /\ fbHits[ip] <= fbTotal.tp

FbLearned == FbThresholdInBand /\ FbOutcomesCounted

\* A removal that saves under its own lock does not come back, and until the analyzer
\* dies nothing is reported, learned, cleaned or removed any more (RemoveFromAllowlist).
FbRemovalStays ==
  [][fbPath /\ fbRemove = "save" =>
       \/ fbRestart
       \/ UNCHANGED <<fbLock, fbRemove, fbOutcomes, fbTotal, fbThreshold, fbHits, fbAllow, fbClean>>]_fbVars

\* An allowlisted address reaches the file, and if a late save overwrites it
\* with an older list, it reaches it again: unless it leaves the list, or a
\* removal holds the lock.
FbAllowlistReachesDisk ==
  \A ip \in FbIPs :
    []<>(\/ fbDisk.ok /\ ip \in DOMAIN fbDisk.list
         \/ ~fbPath \/ ip \notin DOMAIN fbAllow \/ fbLock = "remove")

\* What the feedback loop has learned stays usable: the threshold in its band, the
\* counts those of the history, and the allowlist on the disk, whichever of the saving
\* goroutines comes last; and while a removal waits for itself, nothing of it changes
\* (considerThresholdAdjustment, saveAllowlist, Cleanup, RemoveFromAllowlist).
FeedbackKept ==
  /\ []FbLearned
  /\ FbRemovalStays
  /\ FbAllowlistReachesDisk
=============================================================================
