---------------------------- MODULE LearnedPatterns ----------------------------
(***************************************************************************)
(* The learning window and the patterns learned from it                    *)
(* (pkg/analyzer/aidetection/feedback.go).  A labelled address is watched  *)
(* for a while; a Cleanup pass then learns patterns from what was seen,    *)
(* between two sections of the lock, and operators label patterns          *)
(* themselves.  A pattern's key is the set of traits it is about.          *)
(* Confidence counts in twentieths.                                        *)
(***************************************************************************)
EXTENDS Integers, Sequences, FiniteSets, FiniteSetsExt, Functions

CONSTANTS
  LPIPs,
  LPTraits,    \* what an address may show
  LPMax,       \* maxPatterns
  LPWindow,    \* learningWindow
  LPCalls,     \* bound of the model: labels given
  LPMaxTime    \* bound of the model: the clock

ASSUME LPAssumption == LPMax \in Nat \ {0} /\ LPTraits \subseteq {"ua", "asn", "ja4h"}

LPLabels == {"legitimate", "malicious"}

VARIABLES
  lpLabel,   \* learningIPs: label, expiry and the traits seen
  lpPat,     \* learnedPatterns
  lpClean,   \* the Cleanup pass: expired addresses to finalise, and the copy
  lpPath,    \* patternsPath is set
  lpStuck,   \* a RemovePattern call waits for the lock it holds
  lpMade, lpNow,
  lpUser     \* auxiliary: the label the first operator gave each stored key

lpVars == <<lpLabel, lpPat, lpClean, lpPath, lpStuck, lpMade, lpNow, lpUser>>

LPNoClean == [pc |-> "idle", gone |-> {}, todo |-> {}, copy |-> <<>>]

LearnedPatternsInit ==
  /\ lpLabel = <<>> /\ lpPat = <<>> /\ lpUser = <<>>
  /\ lpClean = LPNoClean
  /\ lpPath \in BOOLEAN /\ lpStuck = FALSE
  /\ lpMade = 0 /\ lpNow = 0

\* f with the value v for k.
lpPut(f, k, v) == [x \in DOMAIN f \cup {k} |-> IF x = k THEN v ELSE f[x]]

-----------------------------------------------------------------------------
(* The learning window. *)

\* Of RecordOutcome: a report opens the address's window anew.
labelAddress(ip, label) ==
  /\ ~lpStuck /\ lpMade < LPCalls
  /\ lpMade' = lpMade + 1
  /\ lpLabel' = lpPut(lpLabel, ip, [label |-> label, until |-> lpNow + LPWindow,
                                     seen |-> {"asn"} \cap LPTraits])
  /\ UNCHANGED <<lpPat, lpClean, lpPath, lpStuck, lpNow, lpUser>>

\* AccumulateLearningData: while the window is open, the first value of a trait.
accumulate(ip, trait) ==
  /\ ~lpStuck /\ ip \in DOMAIN lpLabel /\ lpNow <= lpLabel[ip].until
  /\ lpLabel' = [lpLabel EXCEPT ![ip].seen = @ \cup {trait}]
  /\ UNCHANGED <<lpPat, lpClean, lpPath, lpStuck, lpMade, lpNow, lpUser>>

\* ClearLearningWindow, BulkRemoveFromLearningWindow.
removeFromWindow(I) ==
  /\ ~lpStuck
  /\ lpLabel' = Restrict(lpLabel, DOMAIN lpLabel \ I)
  /\ UNCHANGED <<lpPat, lpClean, lpPath, lpStuck, lpMade, lpNow, lpUser>>

-----------------------------------------------------------------------------
(* LearnPatternWithBehavior. *)

\* The keys of traffic with the traits T; an ASN alone is too broad to learn
\* unless an operator labels it.
patternKeys(T, byUser) ==
  (SUBSET T) \cap ({{"ua", "asn", "ja4h"}, {"ua", "asn"}, {"ua"}, {"ja4h"}}
                 \cup (IF byUser THEN {{"asn"}} ELSE {}))

\* The confidence of a new pattern: the fewer traits, the less.
initialConfidence(K) ==
  CASE K = {"asn"} -> 10 [] K = {"ua"} -> 14 [] K = {"ja4h"} -> 16
    [] K = {"ua", "asn"} -> 18 [] OTHER -> 20

\* Whose label stands: an operator's over one that was learned.
relabelled(p, label, byUser) ==
  IF byUser /\ ~p.user THEN [label |-> label, user |-> TRUE]
  ELSE [label |-> p.label, user |-> p.user]

\* A known pattern after one more label.
updated(p, label, byUser) ==
  LET conf == IF p.label = label THEN Min({20, p.conf + 1}) ELSE Max({2, p.conf - 2})
  IN [label |-> relabelled(p, label, byUser).label, user |-> relabelled(p, label, byUser).user,
      conf |-> conf, seen |-> lpNow]

\* Mutant: the oldest pattern goes, whoever labelled it.
evictableAny(P) == DOMAIN P

\* The patterns evictOldestAutomaticPatternLocked chooses from.
evictable(P) == {k \in DOMAIN P : ~P[k].user}

\* A new key: make room, and give up when every pattern is an operator's.
inserted(P, k, label, byUser) ==
  LET E == evictable(P)
      old == {e \in E : \A f \in E : P[e].seen <= P[f].seen}
      new == [label |-> label, user |-> byUser, conf |-> initialConfidence(k), seen |-> lpNow]
  IN IF Cardinality(DOMAIN P) < LPMax THEN {lpPut(P, k, new)}
     ELSE IF E = {} THEN {P}
     ELSE {lpPut(Restrict(P, DOMAIN P \ {e}), k, new) : e \in old}

lpStoreOne(P, k, label, byUser) ==
  IF k \in DOMAIN P THEN {lpPut(P, k, updated(P[k], label, byUser))}
  ELSE inserted(P, k, label, byUser)

\* Every table of A after one more key.
lpStoreAll(A, k, label, byUser) == UNION {lpStoreOne(P, k, label, byUser) : P \in A}

\* All tables the keys may leave behind: the code takes them in map order.
lpStored(T, label, byUser) ==
  LET Keys == patternKeys(T, byUser)
      after[K \in SUBSET Keys] ==
        IF K = {} THEN {lpPat}
        ELSE UNION {lpStoreAll(after[K \ {k}], k, label, byUser) : k \in K}
  IN after[Keys]

\* The auxiliary record: the first operator's label of every stored key.
userWords(P, K, label, byUser) ==
  [k \in DOMAIN P |-> IF k \in DOMAIN lpUser /\ k \in DOMAIN lpPat /\ lpUser[k] # "none" THEN lpUser[k]
                      ELSE IF byUser /\ k \in K THEN label ELSE "none"]

learnPattern(T, label, byUser) ==
  \E P \in lpStored(T, label, byUser) :
    lpPat' = P /\ lpUser' = userWords(P, patternKeys(T, byUser), label, byUser)

\* An operator labels traffic (labels/submit).
LearnPattern(T, label) ==
  /\ ~lpStuck /\ lpMade < LPCalls
  /\ lpMade' = lpMade + 1
  /\ learnPattern(T, label, TRUE)
  /\ UNCHANGED <<lpLabel, lpClean, lpPath, lpStuck, lpNow>>

\* RemovePattern deletes under the lock and saves: with a path, the save asks
\* for the lock the call holds.
RemovePattern(k) ==
  /\ ~lpStuck
  /\ lpPat' = Restrict(lpPat, DOMAIN lpPat \ {k})
  /\ lpUser' = Restrict(lpUser, DOMAIN lpUser \ {k})
  /\ lpStuck' = lpPath
  /\ UNCHANGED <<lpLabel, lpClean, lpPath, lpMade, lpNow>>

-----------------------------------------------------------------------------
(* Cleanup: collect the expired addresses, finalise each, delete them. *)

collectExpired ==
  LET gone == {ip \in DOMAIN lpLabel : lpNow > lpLabel[ip].until}
  IN /\ ~lpStuck /\ lpClean.pc = "idle" /\ gone # {}
     /\ lpClean' = [LPNoClean EXCEPT !.pc = "copy", !.gone = gone, !.todo = gone]
     /\ UNCHANGED <<lpLabel, lpPat, lpPath, lpStuck, lpMade, lpNow, lpUser>>

\* FinalizeLearningPattern's first section: copy the label, if there is one.
copyLabel(ip) ==
  /\ ~lpStuck /\ lpClean.pc = "copy" /\ ip \in lpClean.todo
  /\ lpClean' = [lpClean EXCEPT !.todo = @ \ {ip},
                   !.pc = IF ip \in DOMAIN lpLabel THEN "learn" ELSE "copy",
                   !.copy = IF ip \in DOMAIN lpLabel THEN lpLabel[ip] ELSE <<>>]
  /\ UNCHANGED <<lpLabel, lpPat, lpPath, lpStuck, lpMade, lpNow, lpUser>>

\* Its second: learn from the copy.
FinalizeLearningPattern ==
  /\ ~lpStuck /\ lpClean.pc = "learn"
  /\ learnPattern(lpClean.copy.seen, lpClean.copy.label, FALSE)
  /\ lpClean' = [lpClean EXCEPT !.pc = "copy", !.copy = <<>>]
  /\ UNCHANGED <<lpLabel, lpPath, lpStuck, lpMade, lpNow>>

deleteExpiredLabels ==
  /\ ~lpStuck /\ lpClean.pc = "copy" /\ lpClean.todo = {}
  /\ lpLabel' = Restrict(lpLabel, DOMAIN lpLabel \ lpClean.gone)
  /\ lpClean' = LPNoClean
  /\ UNCHANGED <<lpPat, lpPath, lpStuck, lpMade, lpNow, lpUser>>

lpTick ==
  /\ lpNow < LPMaxTime
  /\ lpNow' = lpNow + 1
  /\ UNCHANGED <<lpLabel, lpPat, lpClean, lpPath, lpStuck, lpMade, lpUser>>

LearnedPatternsNext ==
  \/ \E ip \in LPIPs :
       \/ \E label \in LPLabels : labelAddress(ip, label)
       \/ \E trait \in LPTraits : accumulate(ip, trait)
       \/ removeFromWindow({ip}) \/ copyLabel(ip)
  \/ \E T \in (SUBSET LPTraits) \ {{}}, label \in LPLabels : LearnPattern(T, label)
  \/ \E k \in DOMAIN lpPat : RemovePattern(k)
  \/ collectExpired \/ FinalizeLearningPattern \/ deleteExpiredLabels \/ lpTick

LearnedPatternsSpec == LearnedPatternsInit /\ [][LearnedPatternsNext]_lpVars

-----------------------------------------------------------------------------
(* Properties. *)

\* A pattern an operator has labelled keeps that label, however often the
\* traffic is learned or labelled again.
LPUserKept ==
  \A k \in DOMAIN lpPat : lpUser[k] # "none" => lpPat[k].label = lpUser[k]

\* Only its removal takes a pattern an operator has labelled out of the table:
\* a full table gives up learned ones.
LPUserLabelsStay ==
  [][\/ \E k \in DOMAIN lpPat : RemovePattern(k)
     \/ \A k \in DOMAIN lpPat : lpPat[k].user => k \in DOMAIN lpPat']_lpVars

\* An operator's label outlives everything but its removal: relabelling by
\* traffic and eviction from a full table (LearnPatternWithBehavior,
\* evictOldestAutomaticPatternLocked).
UserHasTheWord ==
  /\ []LPUserKept
  /\ LPUserLabelsStay
=============================================================================
