----------------------------- MODULE MCDetection -----------------------------
(***************************************************************************)
(* The analyzer's detectors and their stores, for TLC. They share no       *)
(* state: a behaviour picks one of them (part) and runs it from its own    *)
(* initial states while the others stay as they started, so each is        *)
(* checked on its own and none multiplies the states of another.           *)
(***************************************************************************)
EXTENDS Sustained, Baseline, Patterns, Profiles, EventRing, EventHistory,
        DetectionStore, LearnedPatterns, SessionRecordings, Verdict, Campaign,
        TLC

\* Sustained: two resources of one section, one of another.
SectionOf == [r1 |-> "s1", r2 |-> "s1", r3 |-> "s2"]

\* Baseline: two networks that compete for one place.
OneShard == [a \in BaseASNs |-> 1]

\* Patterns: packets that differ in what each detector looks at.
plainMeta == [ttl |-> 0, port |-> 0, incomplete |-> FALSE, asn |-> 0, conn |-> 0]
Metas == {[plainMeta EXCEPT !.ttl = 54, !.incomplete = TRUE],
          [plainMeta EXCEPT !.ttl = 245, !.asn = 1],
          [plainMeta EXCEPT !.ttl = 118, !.port = 1],
          [plainMeta EXCEPT !.ttl = 30, !.port = 2, !.asn = 2, !.conn = 1]}

\* Profiles: an honest clock, and an address two hosts share.
Offsets == ("i1" :> {1}) @@ ("i2" :> {0, 2})

\* Campaign: signals of two collectors and of two hosts.
udpSignal(c, net, ip, p, src) ==
  [type |-> "t", source |-> "udp", udp |-> "yes", hint |-> "", collector |-> c,
   subnet |-> net, ip |-> ip, port |-> p, src |-> src, weight |-> 1]
CampaignSignals ==
  {udpSignal("c1", "s1", "i1", 53, "a"), udpSignal("c2", "s1", "i1", 53, "b"),
   [udpSignal("c1", "s2", "i2", 80, "b") EXCEPT !.hint = "dns"]}

------------------------------------------------------------------------------
VARIABLE part   \* the component that runs

detectionVars == <<part, sustainedVars, baselineVars, patternVars, profileVars,
                   ringVars, histVars, dsVars, lpVars, recVars, vdVars,
                   cmpVars>>

DetectionInit ==
  /\ part \in {"sustained", "baseline", "patterns", "profiles", "ring",
               "history", "detections", "labels", "recordings", "verdict",
               "campaigns"}
  /\ SustainedInit /\ BaselineInit /\ PatternsInit /\ ProfilesInit /\
     EventRingInit /\ EventHistoryInit /\ DetectionStoreInit /\
     SessionRecordingsInit /\ VerdictInit /\ CampaignInit
  /\ LearnedPatternsInit /\ (part # "labels" => ~lpPath)

\* The components that do not run stay as they started.
still ==
  /\ UNCHANGED part
  /\ IF part = "sustained" THEN TRUE ELSE UNCHANGED sustainedVars
  /\ IF part = "baseline" THEN TRUE ELSE UNCHANGED baselineVars
  /\ IF part = "patterns" THEN TRUE ELSE UNCHANGED patternVars
  /\ IF part = "profiles" THEN TRUE ELSE UNCHANGED profileVars
  /\ IF part = "ring" THEN TRUE ELSE UNCHANGED ringVars
  /\ IF part = "history" THEN TRUE ELSE UNCHANGED histVars
  /\ IF part = "detections" THEN TRUE ELSE UNCHANGED dsVars
  /\ IF part = "labels" THEN TRUE ELSE UNCHANGED lpVars
  /\ IF part = "recordings" THEN TRUE ELSE UNCHANGED recVars
  /\ IF part = "verdict" THEN TRUE ELSE UNCHANGED vdVars
  /\ IF part = "campaigns" THEN TRUE ELSE UNCHANGED cmpVars

DetectionNext ==
  \/ part = "sustained" /\ SustainedNext /\ still
  \/ part = "baseline" /\ BaselineNext /\ still
  \/ part = "patterns" /\ PatternsNext /\ still
  \/ part = "profiles" /\ ProfilesNext /\ still
  \/ part = "ring" /\ EventRingNext /\ still
  \/ part = "history" /\ EventHistoryNext /\ still
  \/ part = "detections" /\ DetectionStoreNext /\ still
  \/ part = "labels" /\ LearnedPatternsNext /\ still
  \/ part = "recordings" /\ SessionRecordingsNext /\ still
  \/ part = "verdict" /\ VerdictNext /\ still
  \/ part = "campaigns" /\ CampaignNext /\ still

DetectionSpec == DetectionInit /\ [][DetectionNext]_detectionVars
==============================================================================
