----------------------------- MODULE CrawlerVerify -----------------------------
(***************************************************************************)
(* CrawlerVerifier (pkg/analyzer/aidetection/verification.go): does the    *)
(* address that claims to be a crawler belong to it?  Detection passes ask *)
(* concurrently; a verdict comes from the cache or from one reverse and    *)
(* one forward DNS lookup, shared through singleflight by the callers of   *)
(* the same address and claim.  DNS may fail or time out at either lookup. *)
(***************************************************************************)
EXTENDS Integers, FiniteSets, MapCleaner

CONSTANTS
  CvCallers,   \* concurrent detection passes
  CvIPs,
  CvAgents,    \* user agents: the sets of crawlers named, numbered in botNamePriority's order
  CvPTR,       \* [CvIPs -> the crawler whose domain the PTR name ends in, 0 for another name, -1 for none]
  CvForward,   \* the addresses whose PTR name resolves back to them
  CvTTL, CvNegativeTTL, CvMax, CvHeadroom,
  CvMaxTime    \* bound of the model: the clock

ASSUME CvAssumption ==
  /\ CvNegativeTTL \in Nat /\ CvTTL \in Nat /\ CvNegativeTTL <= CvTTL
  /\ CvAgents \subseteq SUBSET (Nat \ {0})

VARIABLES
  cvCache,   \* verdicts by <<address, claimed crawler>>
  cvFlight,  \* the singleflight calls under way: key -> [pc, status]
  cvCaller,  \* each pass: [pc, key, status]; status and learned once answered
  cvNow

crawlerVars == <<cvCache, cvFlight, cvCaller, cvNow>>

CvIdle == [pc |-> "idle"]

CrawlerVerifyInit ==
  /\ cvCache = [k \in {} |-> 0] /\ cvFlight = [k \in {} |-> 0]
  /\ cvCaller = [c \in CvCallers |-> CvIdle]
  /\ cvNow = 0

cvPut(f, k, v) == [x \in DOMAIN f \cup {k} |-> IF x = k THEN v ELSE f[x]]
cvDrop(f, k) == [x \in DOMAIN f \ {k} |-> f[x]]

\* claimedBotFor: the first crawler of the fixed order the user agent names; 0 for none.
claimedBotFor(ua) == IF ua = {} THEN 0 ELSE CHOOSE b \in ua : \A x \in ua : b <= x

cvAnswer(status, learned, k) == [pc |-> "done", key |-> k, status |-> status, learned |-> learned]

\* VerifyCrawler up to the cache: cachedVerification forgets an expired verdict.
VerifyCrawler(c, ip, ua) ==
  LET k == <<ip, claimedBotFor(ua)>>
      cached == k \in DOMAIN cvCache
      expired == cached /\ cvNow > cvCache[k].expires
  IN /\ cvCaller[c].pc = "idle"
     /\ IF ua = {} THEN cvCaller' = [cvCaller EXCEPT ![c] = cvAnswer("skipped", cvNow, k)]
        ELSE IF cached /\ ~expired
        THEN cvCaller' = [cvCaller EXCEPT ![c] = cvAnswer(cvCache[k].status, cvCache[k].learned, k)]
        ELSE cvCaller' = [cvCaller EXCEPT ![c] = [pc |-> "do", key |-> k]]
     /\ cvCache' = IF ua # {} /\ expired THEN cvDrop(cvCache, k) ELSE cvCache
     /\ UNCHANGED <<cvFlight, cvNow>>

\* verifyGroup.Do: join the call for this key, or start it.
joinFlight(c) ==
  LET k == cvCaller[c].key
  IN /\ cvCaller[c].pc = "do"
     /\ cvCaller' = [cvCaller EXCEPT ![c].pc = "wait"]
     /\ cvFlight' = IF k \in DOMAIN cvFlight THEN cvFlight
                    ELSE cvPut(cvFlight, k, [pc |-> "reverse", status |-> "none"])
     /\ UNCHANGED <<cvCache, cvNow>>

\* The reverse lookup.  No name, or no answer in time, says nothing; a name in
\* another domain contradicts the claim.
lookupAddr(k, failed) ==
  /\ k \in DOMAIN cvFlight /\ cvFlight[k].pc = "reverse"
  /\ cvFlight' = [cvFlight EXCEPT ![k] =
       CASE failed \/ CvPTR[k[1]] = -1 -> [pc |-> "store", status |-> "unknown"]
         [] ~failed /\ CvPTR[k[1]] = k[2] -> [pc |-> "forward", status |-> "none"]
         [] OTHER -> [pc |-> "store", status |-> "failed"]]
  /\ UNCHANGED <<cvCache, cvCaller, cvNow>>

resolvesBack(ip) == ip \in CvForward

\* verifyForwardDNS: an error counts as a mismatch.
lookupIPAddr(k, failed) ==
  /\ k \in DOMAIN cvFlight /\ cvFlight[k].pc = "forward"
  /\ cvFlight' = [cvFlight EXCEPT ![k] =
       [pc |-> "store", status |-> IF ~failed /\ resolvesBack(k[1]) THEN "verified" ELSE "failed"]]
  /\ UNCHANGED <<cvCache, cvCaller, cvNow>>

\* Mutant: every verdict is kept as long as a good one.
cvTTLOfPositive(status) == CvTTL

\* What is not verified is kept for the short time only.
cvTTLOf(status) == IF status \in {"failed", "unknown"} THEN CvNegativeTTL ELSE CvTTL

\* storeVerification with its size limit; then Do answers everyone who waits.
storeVerification(k) ==
  LET status == cvFlight[k].status
      stored == cvPut(cvCache, k, [status |-> status, expires |-> cvNow + cvTTLOf(status), learned |-> cvNow])
      expires == [x \in DOMAIN stored |-> stored[x].expires]
  IN /\ k \in DOMAIN cvFlight /\ cvFlight[k].pc = "store"
     /\ cvCache' \in enforceMaxSizeBatch(stored, CvMax, CvHeadroom, expires)
     /\ cvFlight' = cvDrop(cvFlight, k)
     /\ cvCaller' = [c \in CvCallers |->
          IF cvCaller[c].pc = "wait" /\ cvCaller[c].key = k
          THEN cvAnswer(status, cvNow, k) ELSE cvCaller[c]]
     /\ UNCHANGED cvNow

\* The pass goes on with its verdict.
useVerdict(c) ==
  /\ cvCaller[c].pc = "done"
  /\ cvCaller' = [cvCaller EXCEPT ![c] = CvIdle]
  /\ UNCHANGED <<cvCache, cvFlight, cvNow>>

\* A lookup ends within its timeout, which is less than a tick.
cvTick ==
  /\ cvNow < CvMaxTime /\ DOMAIN cvFlight = {}
  /\ \A c \in CvCallers : cvCaller[c].pc # "done"
  /\ cvNow' = cvNow + 1
  /\ UNCHANGED <<cvCache, cvFlight, cvCaller>>

CrawlerVerifyNext ==
  \/ \E c \in CvCallers :
       \/ \E ip \in CvIPs, ua \in CvAgents : VerifyCrawler(c, ip, ua)
       \/ joinFlight(c) \/ useVerdict(c)
  \/ \E k \in DOMAIN cvFlight :
       \/ \E failed \in BOOLEAN : lookupAddr(k, failed) \/ lookupIPAddr(k, failed)
       \/ storeVerification(k)
  \/ cvTick

CrawlerVerifySpec == CrawlerVerifyInit /\ [][CrawlerVerifyNext]_crawlerVars

-----------------------------------------------------------------------------
(* Properties. *)

\* A verdict of "verified" is given only to an address whose PTR name lies in
\* the claimed crawler's domain and resolves back to it, through every mixture
\* of cached, shared and failed lookups; and DNS that merely fails to answer the
\* reverse lookup never makes an address without a name an impostor.
CvVerdictsEarned ==
  \A c \in CvCallers : cvCaller[c].pc = "done" =>
    LET ip == cvCaller[c].key[1]
        bot == cvCaller[c].key[2]
    IN /\ cvCaller[c].status = "verified" => CvPTR[ip] = bot /\ ip \in CvForward
       /\ cvCaller[c].status = "failed" => CvPTR[ip] # -1

\* A crawler that DNS trouble made look bad gets over it: a verdict other than
\* "verified" is at most the negative TTL old when it is used, whoever looked it
\* up, and no verdict is older than the cache's TTL.
CvVerdictsFresh ==
  \A c \in CvCallers : cvCaller[c].pc = "done" =>
    cvNow - cvCaller[c].learned <= IF cvCaller[c].status = "verified" THEN CvTTL ELSE CvNegativeTTL

\* A crawler's verdict is earned and fresh, whoever looked it up and whatever
\* DNS did (VerifyCrawler, storeVerification).
CrawlerVerdictsSound == CvVerdictsEarned /\ CvVerdictsFresh
=============================================================================
