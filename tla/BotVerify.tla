------------------------------- MODULE BotVerify -------------------------------
(***************************************************************************)
(* Verification of crawlers by DNS (pkg/analyzer/botverify): a cache of    *)
(* verdicts with one pool for verified and one for unverified addresses,   *)
(* a queue of lookups served by workers, and the time an address may stay  *)
(* unjudged.  VerifyAsync never waits; Verify looks up in the caller.      *)
(* A lookup begins in one step and its verdict is stored in a later one.   *)
(*                                                                         *)
(* A verdict is "ok" (reverse and forward DNS agree, or the organisation   *)
(* does), "bad" (a definitive answer that contradicts the claim) or        *)
(* "transient" (DNS gave no answer).                                       *)
(***************************************************************************)
EXTENDS Integers, Sequences, FiniteSets, SequencesExt

CONSTANTS
  BvIPs,
  BvWorkers,     \* the lookup workers
  BvCallers,     \* goroutines inside Verify (the VerifyBot RPC)
  BvQueueCap,    \* queueSize
  BvMaxCache,    \* maxCacheEntries, of each pool
  BvMaxPending,  \* maxPendingTracked
  BvTTL,         \* cacheTTL
  BvShortTTL,    \* transientFailTTL
  BvWindow,      \* pendingWindow
  BvCooldown,    \* pendingCooldown
  BvForgive,     \* maxConsecutiveTransientFailures
  BvMaxTime      \* bound of the model: the clock

ASSUME BvAssumption ==
  /\ BvQueueCap \in Nat \ {0} /\ BvMaxCache \in Nat \ {0}
  /\ BvShortTTL \in Nat /\ BvTTL \in Nat /\ BvShortTTL <= BvTTL
  /\ BvWindow \in Nat /\ BvCooldown \in Nat /\ BvForgive \in Nat
  /\ "" \notin BvIPs /\ BvWorkers \cap BvCallers = {}

VARIABLES
  bvCache,    \* cache: the verdict on an address, its time and its transient run
  bvPool,     \* verifiedLRU and unverifiedLRU, oldest first
  bvQueue, bvQueued,  \* queue, and the addresses in it or being looked up
  bvLook,     \* what each worker and caller is looking up, and since when
  bvSince,    \* pendingSince, -1 for none
  bvClosed,
  bvRun,      \* history: transient verdicts in a row since an entry was made or judged
  bvGranted,  \* history: when the last pending window began, -1 after a verdict
  bvNow

bvVars == <<bvCache, bvPool, bvQueue, bvQueued, bvLook, bvSince, bvClosed, bvRun, bvGranted, bvNow>>

BvNone == [v |-> "none", at |-> 0, run |-> 0]
BvIdle == [ip |-> "", at |-> 0]
BvLookers == BvWorkers \union BvCallers

BotVerifyInit ==
  /\ bvCache = [ip \in BvIPs |-> BvNone]
  /\ bvPool = [ok |-> <<>>, other |-> <<>>]
  /\ bvQueue = <<>> /\ bvQueued = {} /\ bvClosed = FALSE /\ bvNow = 0
  /\ bvLook = [l \in BvLookers |-> BvIdle]
  /\ bvSince = [ip \in BvIPs |-> -1]
  /\ bvRun = [ip \in BvIPs |-> 0] /\ bvGranted = [ip \in BvIPs |-> -1]

\* cachedResultTTL.
cachedResultTTL(e) == IF e.v = "transient" THEN BvShortTTL ELSE BvTTL

\* cachedResult.
served(ip) == bvCache[ip].v # "none" /\ bvNow - bvCache[ip].at < cachedResultTTL(bvCache[ip])

-----------------------------------------------------------------------------
(* VerifyAsync. *)

\* enqueueLocked.
enqueued(ip) ==
  IF ip \notin bvQueued /\ Len(bvQueue) < BvQueueCap
  THEN bvQueue' = Append(bvQueue, ip) /\ bvQueued' = bvQueued \union {ip}
  ELSE UNCHANGED <<bvQueue, bvQueued>>

\* A verdict that has only expired asks for a new lookup without a pending window.
lapsedVerified(ip) == bvCache[ip].v = "ok"

\* No verdict to serve: the address is queued; a first time opens its pending window, unless
\* the table is full.  The answer is Pending inside the window, Dropped after it.
VerifyAsync(ip) ==
  /\ ~served(ip) /\ ~bvClosed
  /\ enqueued(ip)
  /\ IF ~lapsedVerified(ip) /\ bvSince[ip] < 0
        /\ Cardinality({j \in BvIPs : bvSince[j] >= 0}) < BvMaxPending
     THEN /\ bvSince' = [bvSince EXCEPT ![ip] = bvNow]
          /\ bvGranted' = [bvGranted EXCEPT ![ip] = bvNow]
     ELSE UNCHANGED <<bvSince, bvGranted>>
  /\ UNCHANGED <<bvCache, bvPool, bvLook, bvClosed, bvRun, bvNow>>

-----------------------------------------------------------------------------
(* Storing a verdict. *)

poolOf(v) == IF v = "ok" THEN "ok" ELSE "other"

\* What is left of a pool, in its order.
without(s, ips) ==
  LET kept[i \in 0..Len(s)] ==
        IF i = 0 THEN <<>> ELSE IF s[i] \in ips THEN kept[i - 1] ELSE Append(kept[i - 1], s[i])
  IN kept[Len(s)]

bvWithout(pool, ips) == [p \in {"ok", "other"} |-> without(pool[p], ips)]

\* Mutant: a run ends with the time its verdict was served.
nextRunIfServed(ip) == IF bvCache[ip].v = "transient" /\ served(ip) THEN bvCache[ip].run + 1 ELSE 1

\* The previous entry is counted on for as long as it is in the cache.
nextRun(ip) == IF bvCache[ip].v = "transient" THEN bvCache[ip].run + 1 ELSE 1

\* What makes room for a verdict: the oldest of its own pool.
evictedFor(ip, v, pool) ==
  IF Len(pool[poolOf(v)]) < BvMaxCache THEN {} ELSE {Head(pool[poolOf(v)])}

\* storeLocked: the old entry goes, room is made, the verdict is appended.
storeLocked(ip, v, at) ==
  LET bare == bvWithout(bvPool, {ip})
      gone == evictedFor(ip, v, bare)
      run  == IF v = "transient" THEN nextRun(ip) ELSE 0
  IN /\ bvPool' = [bvWithout(bare, gone) EXCEPT ![poolOf(v)] = Append(@, ip)]
     /\ bvCache' = [j \in BvIPs |-> IF j = ip THEN [v |-> v, at |-> at, run |-> run]
                                    ELSE IF j \in gone THEN BvNone ELSE bvCache[j]]
     /\ bvRun' = [j \in BvIPs |-> IF j = ip THEN IF v = "transient" THEN bvRun[j] + 1 ELSE 0
                                  ELSE IF j \in gone THEN 0 ELSE bvRun[j]]

-----------------------------------------------------------------------------
(* The lookups. *)

\* worker takes a job; verifyDNS dates its result now, before it asks.
workerTake(w) ==
  /\ bvLook[w] = BvIdle /\ bvQueue # <<>> /\ ~bvClosed
  /\ bvLook' = [bvLook EXCEPT ![w] = [ip |-> Head(bvQueue), at |-> bvNow]]
  /\ bvQueue' = Tail(bvQueue)
  /\ UNCHANGED <<bvCache, bvPool, bvQueued, bvSince, bvClosed, bvRun, bvGranted, bvNow>>

\* A lookup cut short by Close says nothing about the address.
storable == ~bvClosed

\* The verdict and the end of the job, in one section.
workerStore(w, v) ==
  /\ bvLook[w] # BvIdle
  /\ bvClosed => v = "transient"      \* the context is cancelled
  /\ LET ip == bvLook[w].ip IN
       /\ IF storable
          THEN /\ storeLocked(ip, v, bvLook[w].at)
               /\ bvSince' = [bvSince EXCEPT ![ip] = -1]
               /\ bvGranted' = [bvGranted EXCEPT ![ip] = -1]
          ELSE UNCHANGED <<bvCache, bvPool, bvRun, bvSince, bvGranted>>
       /\ bvQueued' = bvQueued \ {ip}
  /\ bvLook' = [bvLook EXCEPT ![w] = BvIdle]
  /\ UNCHANGED <<bvQueue, bvClosed, bvNow>>

\* Verify: one caller at a time for an address (verifyInFlight), the cache asked again first.
Verify(c, ip) ==
  /\ bvLook[c] = BvIdle /\ ~served(ip)
  /\ \A d \in BvCallers : bvLook[d].ip # ip
  /\ bvLook' = [bvLook EXCEPT ![c] = [ip |-> ip, at |-> bvNow]]
  /\ UNCHANGED <<bvCache, bvPool, bvQueue, bvQueued, bvSince, bvClosed, bvRun, bvGranted, bvNow>>

verifyReturn(c, v) ==
  /\ bvLook[c] # BvIdle
  /\ bvClosed => v = "transient"
  /\ IF storable THEN storeLocked(bvLook[c].ip, v, bvLook[c].at)
                 ELSE UNCHANGED <<bvCache, bvPool, bvRun>>
  /\ bvLook' = [bvLook EXCEPT ![c] = BvIdle]
  /\ UNCHANGED <<bvQueue, bvQueued, bvSince, bvClosed, bvGranted, bvNow>>

-----------------------------------------------------------------------------
(* What the verdict means for the client. *)

\* IsForgivenTransientFailure.
forgiven(e) == e.v = "transient" /\ e.run <= BvForgive

\* Handler.VerifyBot, and the VerifyBot RPC: verified, left alone, or accused and penalised.
VerifyBot(ip) ==
  CASE ~served(ip)             -> "pending or dropped"
    [] bvCache[ip].v = "ok"    -> "verified"
    [] forgiven(bvCache[ip])   -> "unverified"
    [] OTHER                   -> "impersonation"

-----------------------------------------------------------------------------
(* cleanupLoop and Close. *)

\* Verified entries are kept for a second cacheTTL.
bvCleanup ==
  LET gone == {ip \in BvIPs : bvCache[ip].v # "none" /\
                bvNow - bvCache[ip].at > (IF bvCache[ip].v = "ok" THEN 2 * BvTTL ELSE BvTTL)}
  IN /\ gone # {} /\ ~bvClosed
     /\ bvCache' = [ip \in BvIPs |-> IF ip \in gone THEN BvNone ELSE bvCache[ip]]
     /\ bvRun' = [ip \in BvIPs |-> IF ip \in gone THEN 0 ELSE bvRun[ip]]
     /\ bvPool' = bvWithout(bvPool, gone)
     /\ UNCHANGED <<bvQueue, bvQueued, bvLook, bvSince, bvClosed, bvGranted, bvNow>>

windowOver(ip) ==
  bvSince[ip] >= 0 /\ ip \notin bvQueued /\ bvNow - bvSince[ip] > BvWindow + BvCooldown

prunePending ==
  /\ ~bvClosed /\ \E ip \in BvIPs : windowOver(ip)
  /\ bvSince' = [ip \in BvIPs |-> IF windowOver(ip) THEN -1 ELSE bvSince[ip]]
  /\ UNCHANGED <<bvCache, bvPool, bvQueue, bvQueued, bvLook, bvClosed, bvRun, bvGranted, bvNow>>

closeBegin ==
  /\ ~bvClosed /\ bvClosed' = TRUE
  /\ UNCHANGED <<bvCache, bvPool, bvQueue, bvQueued, bvLook, bvSince, bvRun, bvGranted, bvNow>>

\* The workers have gone: what was queued is forgotten.
closeEnd ==
  /\ bvClosed /\ \A w \in BvWorkers : bvLook[w] = BvIdle
  /\ bvQueued # {} \/ \E ip \in BvIPs : bvSince[ip] >= 0
  /\ bvQueued' = {} /\ bvSince' = [ip \in BvIPs |-> -1]
  /\ UNCHANGED <<bvCache, bvPool, bvQueue, bvLook, bvClosed, bvRun, bvGranted, bvNow>>

bvTick ==
  /\ bvNow < BvMaxTime /\ bvNow' = bvNow + 1
  /\ UNCHANGED <<bvCache, bvPool, bvQueue, bvQueued, bvLook, bvSince, bvClosed, bvRun, bvGranted>>

BotVerifyNext ==
  \/ \E ip \in BvIPs : VerifyAsync(ip) \/ \E c \in BvCallers : Verify(c, ip)
  \/ \E w \in BvWorkers : workerTake(w) \/ \E v \in {"ok", "bad", "transient"} : workerStore(w, v)
  \/ \E c \in BvCallers, v \in {"ok", "bad", "transient"} : verifyReturn(c, v)
  \/ bvCleanup \/ prunePending \/ closeBegin \/ closeEnd \/ bvTick

BotVerifySpec == BotVerifyInit /\ [][BotVerifyNext]_bvVars

-----------------------------------------------------------------------------
(* Properties. *)

\* Every address noted as queued has a job, in the queue or with a worker: none waits for a
\* lookup that nobody will make (enqueueLocked, worker).
BvQueuedIsReal ==
  ~bvClosed => bvQueued = ToSet(bvQueue) \union ({bvLook[w].ip : w \in BvWorkers} \ {""})

\* A verdict that was not positive never costs another address its verified entry
\* (storeLocked: "can only evict other failed claims, never a real crawler's verdict").
BvVerifiedKept ==
  [][\A ip \in BvIPs :
       (bvCache[ip].v = "ok" /\ bvCache'[ip].v = "none" /\ bvNow - bvCache[ip].at <= 2 * BvTTL)
       => \E k \in BvIPs : bvCache'[k].v = "ok" /\ bvCache'[k] # bvCache[k]]_bvVars

\* DNS that gives no answer is forgiven a number of times in a row and no longer: a client is
\* accused after a definitive answer or one failure too many, however the lookups of the
\* workers and of Verify interleave (storeLocked, IsForgivenTransientFailure, VerifyBot).
BvForgivenessEnds ==
  \A ip \in BvIPs :
    served(ip) => (VerifyBot(ip) = "impersonation"
                     <=> bvCache[ip].v = "bad" \/ bvRun[ip] > BvForgive)

\* An address without a verdict gets a new pending window only when the last one and its
\* cooldown are over (VerifyAsync, prunePending).
BvPendingBounded ==
  [][\A ip \in BvIPs :
       bvGranted[ip] >= 0 /\ bvGranted'[ip] >= 0 /\ bvGranted'[ip] # bvGranted[ip]
       => bvNow - bvGranted[ip] > BvWindow + BvCooldown]_bvVars

\* Closing the verifier leaves no verdict behind that a cancelled lookup made up
\* (worker, Verify, Close).
BvCloseJudgesNobody == [][bvClosed => bvCache' = bvCache]_bvVars

\* A client is accused of impersonation for what DNS said, or for failing to
\* be answered too often, and for nothing a queue, an eviction or Close did
\* (VerifyAsync, VerifyBot, storeLocked, worker, Close).
BotsJudgedRight ==
  /\ [](BvQueuedIsReal /\ BvForgivenessEnds)
  /\ BvVerifiedKept
  /\ BvPendingBounded
  /\ BvCloseJudgesNobody
=============================================================================
