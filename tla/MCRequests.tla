----------------------------- MODULE MCRequests ------------------------------
(***************************************************************************)
(* What happens to a request on its way through the collector and the      *)
(* analyzer, for TLC: the kernel maps the collector polls, the trackers    *)
(* and the handler of the analyzer, the verification of bots and crawlers, *)
(* the threat intelligence asked about an address, and the rules a restart *)
(* brings back. They share no state: a behaviour picks one of them (part)  *)
(* and runs it from its own initial states while the others stay as they   *)
(* started, so each is checked on its own and none multiplies the states   *)
(* of another.                                                             *)
(***************************************************************************)
EXTENDS RuleSync, RateLimit, HandshakePoll, RatePoll, EgressPoll, HTTPTracking,
        HTTPRequest, BotVerify, CrawlerVerify, ThreatIntel, TLC

CONSTANTS pass, drop, push1, push2, r1, r2

\* RuleSync: a PASS rule and a DROP rule of two controllers.
TwoScopes == (pass :> "a") @@ (drop :> "b")
TwoExpiry == (pass :> 3) @@ (drop :> 3)

\* RateLimit: two addresses of one network.
KeysOf == [ip |-> {"i1", "i2"}, asn |-> {"a"}]

\* HandshakePoll: two sessions of one source, one of another.
SourceOf == [k \in HpKeys |-> IF k = "k3" THEN "b" ELSE "a"]

\* HTTPTracking: numbered pages, a number too large to parse, a word.
PathsOf == {[kind |-> "num", n |-> 1], [kind |-> "num", n |-> 2],
            [kind |-> "huge", n |-> 0], [kind |-> "alpha", n |-> 1]}

\* CrawlerVerify: a crawler, a host with its name that the name does not resolve
\* to, and a host without a name.
CrawlerAgents == {{}, {1, 2}}
PTROf == [ip \in CvIPs |-> IF ip = 3 THEN -1 ELSE 1]

\* ThreatIntel: a scanner, and an address Shodan has not seen.
ReportsOf ==
  [ip \in TiIPs |->
     IF ip = "b" THEN Unseen
     ELSE [scanner |-> TRUE, ports |-> 11, vulns |-> 1, tor |-> FALSE, vpn |-> FALSE,
           cloud |-> TRUE]]

------------------------------------------------------------------------------
VARIABLE part   \* the component that runs

requestsVars == <<part, vars, rateLimitVars, hpVars, rpVars, egVars, htVars,
                  hrVars, bvVars, crawlerVars, tiVars>>

RequestsInit ==
  /\ part \in {"persist", "limits", "handshakes", "rates", "egress", "paths",
               "errors", "bursts", "requests", "bots", "crawlers", "intel"}
  /\ Init /\ RateLimitInit /\ RatePollInit /\ EgressPollInit /\ HTTPTrackingInit
     /\ BotVerifyInit /\ CrawlerVerifyInit /\ ThreatIntelInit
  /\ HandshakePollInit /\ (part # "handshakes" => hpBatch)
  /\ HTTPRequestInit /\ (part # "requests" => hrDry)

\* The components that do not run stay as they started.
still ==
  /\ UNCHANGED part
  /\ IF part = "persist" THEN TRUE ELSE UNCHANGED vars
  /\ IF part = "limits" THEN TRUE ELSE UNCHANGED rateLimitVars
  /\ IF part = "handshakes" THEN TRUE ELSE UNCHANGED hpVars
  /\ IF part = "rates" THEN TRUE ELSE UNCHANGED rpVars
  /\ IF part = "egress" THEN TRUE ELSE UNCHANGED egVars
  /\ IF part \in {"paths", "errors", "bursts"} THEN TRUE ELSE UNCHANGED htVars
  /\ IF part = "requests" THEN TRUE ELSE UNCHANGED hrVars
  /\ IF part = "bots" THEN TRUE ELSE UNCHANGED bvVars
  /\ IF part = "crawlers" THEN TRUE ELSE UNCHANGED crawlerVars
  /\ IF part = "intel" THEN TRUE ELSE UNCHANGED tiVars

RequestsNext ==
  \/ part = "persist" /\ Next /\ still
  \/ part = "limits" /\ RateLimitNext /\ still
  \/ part = "handshakes" /\ HandshakePollNext /\ still
  \/ part = "rates" /\ RatePollNext /\ still
  \/ part = "egress" /\ EgressPollNext /\ still
  \/ part = "paths" /\ (pathSteps \/ tableSteps) /\ still
  \/ part = "errors" /\ (errorSteps \/ tableSteps) /\ still
  \/ part = "bursts" /\ (rateSteps \/ tableSteps) /\ still
  \/ part = "requests" /\ HTTPRequestNext /\ still
  \/ part = "bots" /\ BotVerifyNext /\ still
  \/ part = "crawlers" /\ CrawlerVerifyNext /\ still
  \/ part = "intel" /\ ThreatIntelNext /\ still

RequestsSpec == RequestsInit /\ [][RequestsNext]_requestsVars
==============================================================================
