------------------------------ MODULE HTTPRequest ------------------------------
(***************************************************************************)
(* What one HTTP request makes the analyzer do (processHTTPRequest of      *)
(* pkg/analyzer/service_http.go): its stages, their gates and early        *)
(* returns, and the detection signals each may emit.  A request of a       *)
(* client that claims to be a crawler meets three answers in turn: not yet *)
(* known (the lookup runs beside the requests), verified, or an impostor.  *)
(* The details a stage looks at are abstracted to which of its signals it  *)
(* emits; what it may emit depends on the user agent, on whether the       *)
(* request is of a kind browsers' headers are optional for, and on the     *)
(* verifier's answer.                                                      *)
(***************************************************************************)
EXTENDS FiniteSets

CONSTANTS
  HrCrawlers,   \* clients that are what they claim
  HrImpostors,  \* clients that claim to be a crawler and are not
  HrPersons,    \* clients that claim nothing of the kind
  HrAgents      \* the user agents of the latter

ASSUME HrAssumption ==
  /\ HrAgents \subseteq {"none", "browser", "crios", "script"}
  /\ HrCrawlers \cap HrImpostors = {}
  /\ HrPersons \cap (HrCrawlers \cup HrImpostors) = {}

VARIABLES
  hrKnown,    \* client -> what the verifier knows: "unknown", "overdue", "verified", "impostor"
  hrReq,      \* the request under way, or the last one: [pc, c, ua, ..., out]
  hrCommands, \* whom the request had a block commanded for
  hrDry       \* Config.DryRun

hrVars == <<hrKnown, hrReq, hrCommands, hrDry>>

HrClients == HrCrawlers \cup HrImpostors \cup HrPersons

HTTPRequestInit ==
  /\ hrKnown = [c \in HrClients |-> "unknown"]
  /\ hrReq = [pc |-> "idle"] /\ hrCommands = {}
  /\ hrDry \in BOOLEAN

\* The user agent of a crawler, real or not, names a bot; it is an honest one,
\* whatever browser it embeds.
agentsOf(c) == IF c \in HrPersons THEN HrAgents ELSE {"crawler"}

arrive(c) ==
  /\ hrReq.pc \in {"idle", "limited", "verified", "browser", "end"}
  /\ \E ua \in agentsOf(c), background \in BOOLEAN :
       hrReq' = [pc |-> "limit", c |-> c, ua |-> ua, background |-> background,
                 pending |-> FALSE, answer |-> "none", out |-> {}]
  /\ hrCommands' = {}
  /\ UNCHANGED <<hrKnown, hrDry>>

\* The request ends, for the reason why.
hrEnd(why) == hrReq' = [hrReq EXCEPT !.pc = why]

\* A stage emits some of the signals it may and the request goes on.
emits(S, next) ==
  \E T \in SUBSET S : hrReq' = [hrReq EXCEPT !.pc = next, !.out = @ \cup T]

\* A block is commanded, unless in a dry run.
commanded(c) == IF hrDry THEN hrCommands ELSE hrCommands \cup {c}

-----------------------------------------------------------------------------
(* The stages, in their order. *)

rateLimited ==
  /\ hrReq.pc = "limit"
  /\ hrCommands' = commanded(hrReq.c)
  /\ hrEnd("limited")
  /\ UNCHANGED <<hrKnown, hrDry>>

\* The sustained-download tracker sees every request that passes.
withinLimit ==
  /\ hrReq.pc = "limit"
  /\ hrReq' = [hrReq EXCEPT !.pc = "track"]
  /\ UNCHANGED <<hrKnown, hrCommands, hrDry>>

\* The windows of HTTPTracking: sequences and errors of any request, entropy and
\* timing only of a page.
track ==
  /\ hrReq.pc = "track"
  /\ emits({"errors"} \cup (IF hrReq.background THEN {} ELSE {"timing"}), "verify")
  /\ UNCHANGED <<hrKnown, hrCommands, hrDry>>

\* VerifyBot answers Pending until it knows, for a bounded time.
stillPending(c) == hrKnown[c] = "unknown"

\* A verified crawler's request ends here.
verify ==
  /\ hrReq.pc = "verify"
  /\ hrReq' = IF hrReq.ua # "crawler" THEN [hrReq EXCEPT !.pc = "claims"]
              ELSE [hrReq EXCEPT !.pc = IF hrKnown[hrReq.c] = "verified" THEN "verified" ELSE "claims",
                                 !.pending = stillPending(hrReq.c), !.answer = hrKnown[hrReq.c]]
  /\ UNCHANGED <<hrKnown, hrCommands, hrDry>>

chromeUA(ua) == ua \in {"browser", "crios"}
blinkUA(ua) == ua = "browser"

\* What a claimed browser is held to: fingerprints, client hints, fetch
\* metadata, the Accept header, the TLS version.
browserClaims(ua) ==
  (IF chromeUA(ua) THEN {"ja4_accept_tls"} ELSE {}) \cup (IF blinkUA(ua) THEN {"sec_ch_fetch"} ELSE {})

claims ==
  /\ hrReq.pc = "claims"
  /\ emits((IF hrReq.ua = "script" THEN {"bot_ua"} ELSE {})
           \cup (IF hrReq.pending THEN {} ELSE {"header_order"} \cup browserClaims(hrReq.ua)), "latency")
  /\ UNCHANGED <<hrKnown, hrCommands, hrDry>>

latency ==
  /\ hrReq.pc = "latency"
  /\ emits({"latency"}, "ja4db")
  /\ UNCHANGED <<hrKnown, hrCommands, hrDry>>

\* The JA4 database: an exact browser match is rewarded and ends the request,
\* an exact match of a known bot is a signal, anything else is enrichment.
ja4Browser ==
  /\ hrReq.pc = "ja4db"
  /\ hrEnd("browser")
  /\ UNCHANGED <<hrKnown, hrCommands, hrDry>>

\* Mutant: a pending crawler is judged by its fingerprint.
ja4SignalsAlways == {"ja4_bot"}

ja4Signals == IF hrReq.pending THEN {} ELSE {"ja4_bot"}

ja4Other ==
  /\ hrReq.pc = "ja4db"
  /\ emits(ja4Signals, "agent")
  /\ UNCHANGED <<hrKnown, hrCommands, hrDry>>

\* Bot keywords in the user agent, always found in a crawler's.
agentKeywords ==
  /\ hrReq.pc = "agent"
  /\ LET T == IF hrReq.pending \/ hrReq.ua \notin {"crawler", "script"} THEN {} ELSE {"keyword"} IN
     \/ hrReq' = [hrReq EXCEPT !.pc = "absent", !.out = @ \cup T]
     \/ hrReq.ua = "script" /\ hrReq' = [hrReq EXCEPT !.pc = "absent"]
  /\ UNCHANGED <<hrKnown, hrCommands, hrDry>>

\* browserHeadersOptional
headersOptional == hrReq.pending \/ hrReq.background

absentHeaders ==
  /\ hrReq.pc = "absent"
  /\ emits(IF headersOptional THEN {} ELSE {"no_headers"}, "intel")
  /\ UNCHANGED <<hrKnown, hrCommands, hrDry>>

intel ==
  /\ hrReq.pc = "intel"
  /\ emits({"scanner"}, "reputation")
  /\ UNCHANGED <<hrKnown, hrCommands, hrDry>>

\* The score is over the threshold and the model confirms it, or not.
reputationBlock ==
  /\ hrReq.pc = "reputation"
  /\ hrCommands' \in {hrCommands, commanded(hrReq.c)}
  /\ hrEnd("end")
  /\ UNCHANGED <<hrKnown, hrDry>>

-----------------------------------------------------------------------------
(* The verifier beside the requests: a lookup ends, takes longer than the  *)
(* pending window, or its verdict expires.                                 *)

lookupEnds(c) ==
  /\ hrKnown[c] \in {"unknown", "overdue"} /\ c \notin HrPersons
  /\ hrKnown' = [hrKnown EXCEPT ![c] = IF c \in HrCrawlers THEN "verified" ELSE "impostor"]
  /\ UNCHANGED <<hrReq, hrCommands, hrDry>>

pendingOver(c) ==
  /\ hrKnown[c] = "unknown" /\ c \in HrImpostors
  /\ hrKnown' = [hrKnown EXCEPT ![c] = "overdue"]
  /\ UNCHANGED <<hrReq, hrCommands, hrDry>>

verdictExpires(c) ==
  /\ hrKnown[c] \in {"verified", "impostor"}
  /\ hrKnown' = [hrKnown EXCEPT ![c] = "unknown"]
  /\ UNCHANGED <<hrReq, hrCommands, hrDry>>

HTTPRequestNext ==
  \/ \E c \in HrClients : arrive(c) \/ lookupEnds(c) \/ pendingOver(c) \/ verdictExpires(c)
  \/ rateLimited \/ withinLimit \/ track \/ verify \/ claims \/ latency
  \/ ja4Browser \/ ja4Other \/ agentKeywords \/ absentHeaders \/ intel \/ reputationBlock

HTTPRequestSpec == HTTPRequestInit /\ [][HTTPRequestNext]_hrVars

-----------------------------------------------------------------------------
(* Properties. *)

exempt == {"bot_ua", "header_order", "ja4_accept_tls", "sec_ch_fetch", "ja4_bot", "keyword", "no_headers"}

\* A real crawler is never held to what a verified one is exempt from, in the
\* requests before its lookup is done, after it, and after the verdict expired
\* (given that its lookups end within the pending window).
HrCrawlerSpared ==
  (hrReq.pc # "idle" /\ hrReq.c \in HrCrawlers) => hrReq.out \cap exempt = {}

\* An impostor is not spared for having claimed to be a crawler: a request
\* answered as an impostor's, or after the pending window, that runs to its end
\* has emitted the signal its user agent calls for.
HrImpostorJudged ==
  (hrReq.pc = "end" /\ hrReq.answer \in {"impostor", "overdue"}) => "keyword" \in hrReq.out

\* A genuine crawler is spared and a false one is judged, before, during and
\* after their lookups (processHTTPRequest).
CrawlersJudgedRight == HrCrawlerSpared /\ HrImpostorJudged
=============================================================================
