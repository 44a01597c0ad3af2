-------------------------------- MODULE Verdict --------------------------------
(***************************************************************************)
(* What the AI detection engine makes of one window                        *)
(* (pkg/analyzer/aidetection/engine.go: evaluateWindow, isDDoSPattern,     *)
(* handleDetection; confidence.go; CategorizeBot of verification.go).  A   *)
(* window is a number of signals of each kind; a kind stands for the       *)
(* signal types the rules treat alike:                                     *)
(*   hdr    a missing browser header (weak and low severity)               *)
(*   meta   TCP metadata (the same, seen by the kernel and not the proxy)  *)
(*   inc    incomplete handshakes (low severity, counts towards a flood)   *)
(*   flood  UDP, ICMP or SYN floods        freq  high frequency            *)
(*   ua     a bot user agent                                               *)
(*   pot    a honeypot hit, or an exact match of a known bot's JA4H        *)
(* Confidences are in thousandths.  The reputation of the source is what   *)
(* its earlier detections made of it, so a verdict depends on the ones     *)
(* before it.                                                              *)
(***************************************************************************)
EXTENDS Integers, FiniteSets, FiniteSetsExt, Functions

CONSTANTS
  VdCounts,      \* how many signals of a kind a window may hold
  VdWidth,       \* bound of the model: kinds in one window
  VdWeight,      \* the weight of a signal
  VdStatic,      \* staticThreshold
  VdSuspicious,  \* suspiciousScoreThreshold
  VdMinFlood,    \* ddosMinFloodWeight
  VdIPFlood, VdASNFlood,                \* ddosMinIPFloodPPS, ddosMinASNFloodPPS
  VdIncomplete, VdPattern, VdTotal,     \* the DDoS thresholds
  VdThreshold,   \* confidenceThreshold
  VdBlockScore   \* blockScoreThreshold

VdKinds == {"hdr", "meta", "inc", "flood", "freq", "pot", "ua"}
VdWeak  == {"hdr", "meta"}       \* weakBrowserHeaderSignals
VdLow   == {"hdr", "meta", "inc"} \* lowSeverity
VdHigh  == {"flood", "freq", "pot"}           \* highSeverity
VdTcp   == {"meta", "inc", "flood", "freq"}   \* the others come from SPOE
TypeCap == [k \in VdKinds |-> CASE k \in VdWeak -> 1 [] k = "inc" -> 6 [] k = "flood" -> 50
                              [] k = "pot" -> 30 [] k = "ua" -> 10 [] k = "freq" -> 20]

RuleFloor == 800  \* strongRuleConfidenceFloor
LegitCap  == 400  \* legitimateMLConfidenceCap

\* The block threshold is below what deterministic evidence is lifted to, and browser
\* headers alone cannot reach the block score: so in DefaultConfig.
ASSUME VdAssumption ==
  /\ VdCounts \subseteq Nat /\ VdWeight \in Nat /\ VdThreshold \in Nat /\ VdBlockScore \in Nat
  /\ VdThreshold <= RuleFloor /\ VdBlockScore > Cardinality(VdWeak)

VARIABLES
  vdRep,   \* the source's reputation score: none, some, or past the ban threshold
  vdWarm,  \* the warmup period runs
  vdIn,    \* the window in hand and its circumstances
  vdOut    \* the verdict on it

vdVars == <<vdRep, vdWarm, vdIn, vdOut>>

\* What else handleDetection looks at: the learned label of the pattern, what the user agent
\* says, what DNS and threat intelligence say of the address, the model's prediction
\* (none: no model, no verdict, or no strong one), and
\* the floods of the whole network in this worker's window.
VdContexts ==
  [label : {"none", "legitimate", "malicious"}, agent : {"none", "browser", "crawler"},
   origin : {"verified", "failed", "scanner", "unknown"},
   ml : {"none", "bot", "legit"}, asnFlood : {0, VdASNFlood}]

\* The windows: few kinds at a time.
VdWindows ==
  UNION {{[k \in VdKinds |-> IF k \in DOMAIN f THEN f[k] ELSE 0] : f \in [K -> VdCounts]} :
           K \in {K \in SUBSET VdKinds : K # {} /\ Cardinality(K) <= VdWidth}}

VdNoOut == [out |-> "none", conf |-> 0, cat |-> "unknown", block |-> FALSE, rep |-> "none"]

VerdictInit ==
  /\ vdRep = "none" /\ vdWarm = TRUE
  /\ vdIn = [win |-> [k \in VdKinds |-> 0], ctx |-> CHOOSE c \in VdContexts : TRUE]
  /\ vdOut = VdNoOut

-----------------------------------------------------------------------------
typesOf(w)      == {k \in VdKinds : w[k] > 0}
totalOf(w)      == w["hdr"] + w["meta"] + w["inc"] + w["flood"] + w["freq"] + w["pot"] + w["ua"]
weightOf(w, K) == VdWeight * SumFunctionOnSet(w, K)
upTo(n, m)    == IF n < m THEN n ELSE m
atLeast(n, m) == IF n > m THEN n ELSE m

\* isDDoSPattern; New leaves enableDDoSCategory and ddosRequireHighFreq set, always.
isDDoSPattern(w, asnFlood) ==
  LET hasFlood == w["inc"] + w["flood"] > 0
      heavy    == weightOf(w, {"inc", "flood"}) >= VdIPFlood \/ asnFlood >= VdASNFlood
      web      == typesOf(w) \cap VdTcp = {}
  IN /\ ~(web /\ ~hasFlood /\ w["inc"] < VdIncomplete /\ w["freq"] < VdPattern /\ totalOf(w) < VdTotal)
     /\ heavy
     /\ \/ w["inc"] >= VdIncomplete /\ (w["freq"] > 0 \/ hasFlood)
        \/ w["freq"] >= VdPattern /\ (w["freq"] > 0 \/ hasFlood)
        \/ totalOf(w) >= VdTotal /\ w["freq"] > 0

\* The guards of evaluateWindow, for a window that is no DDoS pattern.
worthALook(w) ==
  LET lowOnly == typesOf(w) \subseteq VdLow
      flood   == weightOf(w, {"flood"})
      sources == (IF typesOf(w) \cap VdTcp # {} THEN 1 ELSE 0) + (IF typesOf(w) \ VdTcp # {} THEN 1 ELSE 0)
  IN /\ ~(lowOnly /\ w["inc"] < 5 /\ totalOf(w) < 4)
     /\ totalOf(w) >= 3 \/ typesOf(w) \cap VdHigh # {}
     /\ ~(flood > 0 /\ flood < VdMinFlood)
     /\ weightOf(w, VdKinds) >= VdSuspicious
     /\ ~(lowOnly /\ sources < 2)

\* evaluateWindow: the confidence a window is handed on with, 0 if it is not;
\* surge is what checkAdaptiveDetection says.
handedOn(w, asnFlood, surge) ==
  LET lowOnly == typesOf(w) \subseteq VdLow
      many    == Cardinality(typesOf(w)) >= 2
  IN CASE isDDoSPattern(w, asnFlood) -> 900
       [] ~isDDoSPattern(w, asnFlood) /\ (~worthALook(w) \/ ~many) -> 0
       [] OTHER ->
            IF lowOnly THEN IF surge THEN 550 ELSE 0
            ELSE IF totalOf(w) >= VdStatic \/ weightOf(w, VdKinds) >= VdStatic THEN 800
            ELSE IF surge THEN 600 ELSE 0

-----------------------------------------------------------------------------
(* handleDetection. *)

\* containsDeterministicHighSeverity.
deterministic(w) == w["pot"] > 0

\* Evidence that a pattern learned as legitimate does not silence.
outweighsLearned(w, asnFlood, rep) ==
  isDDoSPattern(w, asnFlood) \/ deterministic(w) \/ rep = "bad"

\* CategorizeBot.
categorized(w, c) ==
  CASE c.agent = "browser" -> "browser"
    [] c.agent = "crawler" -> IF c.origin = "verified" THEN "search_engine" ELSE "search_unknown"
    [] c.agent = "none" ->
         IF w["flood"] > 0 \/ w["freq"] > 0 \/ w["inc"] > 50 THEN "ddos"
         ELSE IF w["ua"] > 0 THEN "scraper"
         ELSE IF w["pot"] >= 2 THEN "malicious" ELSE "unknown"

\* InferCategoryFromSignals.
inferred(w) == IF w["flood"] > 0 \/ w["freq"] > 0 THEN "ddos" ELSE "malicious"

\* The weights, each type up to its cap.
scoreOf(w) ==
  LET capped(k) == upTo(VdWeight * w[k], TypeCap[k])
  IN capped("hdr") + capped("meta") + capped("inc") + capped("flood")
       + capped("freq") + capped("pot") + capped("ua")

\* CalculateConfidence.
ruleConfidence(w, c, rep) ==
  LET severe == w["pot"] + w["flood"]
      raw == 500 + 30 * upTo(Cardinality(typesOf(w)), 5) + 10 * upTo(totalOf(w), 10)
               + (200 * upTo(severe, 3)) \div 3
               + (CASE rep = "none" -> 0 [] rep = "some" -> 100 [] rep = "bad" -> 200)
               + (CASE c.origin = "verified" -> -150 [] c.origin = "failed" -> 150 [] OTHER -> 0)
               + upTo(10 * scoreOf(w), 100)
  IN upTo(atLeast(raw, 0), 1000)

ddosFloor(conf, ddos) == IF ddos THEN atLeast(conf, 950) ELSE conf

intelBoost(conf, c) == IF c.origin = "scanner" THEN upTo(conf + 300, 1000) ELSE conf

\* Mutant: reputation is left out of the floor.
evidenceFloorTrafficOnly(conf, w, rep) ==
  IF deterministic(w) THEN atLeast(conf, RuleFloor) ELSE conf

evidenceFloor(conf, w, rep) ==
  IF deterministic(w) \/ rep = "bad" THEN atLeast(conf, RuleFloor) ELSE conf

\* blendMLConfidence: a bot verdict (900) raises, a strong legitimate one caps weak rules.
blendMLConfidence(conf, ml) ==
  CASE ml = "bot" -> atLeast(conf, 900)
    [] ml = "legit" /\ conf < RuleFloor -> upTo(conf, LegitCap)
    [] OTHER -> conf

\* hasOnlyWeakBrowserHeaderEvidence: just below the threshold.
weakCapped(conf, w) == IF typesOf(w) \subseteq VdWeak THEN upTo(conf, VdThreshold - 1) ELSE conf

\* What is about to be blocked has a category.
named(cat, conf, w) == IF cat = "unknown" /\ conf >= VdThreshold THEN inferred(w) ELSE cat

\* An unknown category needs more confidence and volume.
tooVague(w, cat, ddos, conf) ==
  /\ cat = "unknown" /\ ~ddos
  /\ totalOf(w) < 3 \/ (typesOf(w) \subseteq VdLow /\ conf < 800) \/ conf < 600

\* The event made of a window, VdNoOut if none is.
detection(w, c, rep, handed) ==
  LET ddos    == isDDoSPattern(w, c.asnFlood)
      skipped == c.label = "legitimate" /\ ~outweighsLearned(w, c.asnFlood, rep)
      first   == IF c.label = "malicious" THEN atLeast(handed, 850) ELSE handed
      cat1    == categorized(w, c)
      cat2    == IF cat1 = "ddos" /\ ~ddos THEN "unknown" ELSE cat1
      rules   == evidenceFloor(intelBoost(ddosFloor(ruleConfidence(w, c, rep), ddos), c), w, rep)
      conf    == weakCapped(blendMLConfidence(rules, c.ml), w)
      cat3    == IF ddos THEN "ddos" ELSE cat2
      cat4    == IF c.ml = "bot" THEN "malicious" ELSE cat3
      cat     == named(cat4, conf, w)
  IN IF skipped \/ cat1 = "browser" \/ tooVague(w, cat2, ddos, first) THEN VdNoOut
     ELSE [out |-> "event", conf |-> conf, cat |-> cat, rep |-> rep,
           block |-> conf >= VdThreshold \/ (cat = "ddos" /\ scoreOf(w) >= VdBlockScore)]

\* A worker's ticker: a window, the verdict on it, and the penalty for the source.  During
\* the warmup the event is kept and punished, and handed to no handler.
evaluateWindow(w, c) ==
  /\ \E handed \in {handedOn(w, c.asnFlood, surge) : surge \in BOOLEAN} \ {0} :
       LET out == detection(w, c, vdRep, handed) IN
         /\ out.out = "event"
         /\ vdOut' = [out EXCEPT !.out = IF vdWarm THEN "kept" ELSE "handled"]
  /\ vdIn' = [win |-> w, ctx |-> c]
  /\ vdRep' \in (IF vdRep = "bad" THEN {"bad"} ELSE {"some", "bad"})
  /\ UNCHANGED vdWarm

\* The next window.
windowDone ==
  /\ vdOut.out # "none"
  /\ vdOut' = VdNoOut
  /\ vdIn' = [win |-> [k \in VdKinds |-> 0], ctx |-> CHOOSE c \in VdContexts : TRUE]
  /\ UNCHANGED <<vdRep, vdWarm>>

\* Reputation decays while nothing happens; the warmup ends.
timePasses ==
  /\ vdOut.out = "none"
  /\ \/ vdRep' = (CASE vdRep = "bad" -> "some" [] OTHER -> "none") /\ UNCHANGED vdWarm
     \/ vdWarm' = FALSE /\ UNCHANGED vdRep
  /\ UNCHANGED <<vdIn, vdOut>>

VerdictNext ==
  \/ vdOut.out = "none" /\ \E w \in VdWindows, c \in VdContexts : evaluateWindow(w, c)
  \/ windowDone \/ timePasses

VerdictSpec == VerdictInit /\ [][VerdictNext]_vdVars

-----------------------------------------------------------------------------
(* Properties. *)

vdBad == vdOut.rep = "bad"

\* Missing browser headers alone never block a client: not with a flood elsewhere in its
\* network, a bad reputation, or a model that is sure (handleDetection).
VdWeakNeverBlocks == vdOut.out # "none" /\ typesOf(vdIn.win) \subseteq VdWeak => ~vdOut.block

\* Where there is more than browser headers, a source past the ban threshold, a honeypot
\* hit or a DDoS pattern that became an event would be blocked, however sure the model is
\* that the traffic is legitimate (handleDetection, blendMLConfidence).
VdEvidenceStands ==
  /\ vdOut.out # "none" /\ ~(typesOf(vdIn.win) \subseteq VdWeak)
  /\ vdBad \/ vdIn.win["pot"] > 0 \/ isDDoSPattern(vdIn.win, vdIn.ctx.asnFlood)
  => vdOut.block

\* A pattern learned as legitimate makes no difference to such evidence: without the label
\* the same window would have ended the same way (handleDetection).
VdLearnedIrrelevant ==
  \A w \in {vdIn.win}, c \in {vdIn.ctx} :
    /\ vdOut.out # "none"
    /\ vdBad \/ w["pot"] > 0 \/ isDDoSPattern(w, c.asnFlood)
    => detection(w, [c EXCEPT !.label = "legitimate"], vdOut.rep, 900)
         = detection(w, [c EXCEPT !.label = "none"], vdOut.rep, 900)

\* No block is reported with the category unknown (handleDetection).
VdBlockNamed == vdOut.out # "none" /\ vdOut.block => vdOut.cat # "unknown"

\* Of the adjustments of one confidence no later one undoes what an earlier
\* one had to fix: weak signals never block, evidence does, learned labels do
\* not outweigh it, and a block has a category (handleDetection,
\* blendMLConfidence).
VerdictsSound ==
  /\ VdWeakNeverBlocks
  /\ VdEvidenceStands
  /\ VdLearnedIrrelevant
  /\ VdBlockNamed
=============================================================================
