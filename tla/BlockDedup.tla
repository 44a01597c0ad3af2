------------------------------ MODULE BlockDedup ------------------------------
(***************************************************************************)
(* The analyzer's block command plane (pkg/analyzer/service.go): collector *)
(* streams register and end, decisions taken on one stream (sendCommand)   *)
(* or from all streams (Broadcast) reserve a BLOCK_IP per source and       *)
(* collector, and the reserved sends go out directly or through one        *)
(* fan-out queue per trusted scrub stream.                                 *)
(*                                                                         *)
(* A decision is several steps of one goroutine, interleaved with all the  *)
(* others: the gates and the snapshot of recipients (collectorsMu), the    *)
(* clock read in reserveCommand, the reservation (recentBlocksMu), then    *)
(* the sends.  Only BLOCK_IP is modelled: it is the only command these     *)
(* paths issue, and rule sets have a module of their own.                  *)
(*                                                                         *)
(* Times are ticks of one clock that starts at 1; 0 is Go's zero time.     *)
(***************************************************************************)
EXTENDS Integers, Sequences, FiniteSets, FiniteSetsExt

CONSTANTS
  Streams,        \* collector streams; a reconnect is another stream
  Broadcasters,   \* goroutines that call Broadcast (AI detections, holds)
  Sources,        \* source addresses that get blocked
  CertTrusted,    \* streams whose certificate is on -scrub-client-names
  DryRun,         \* -dry-run
  GateScrub,      \* -scrub-broadcast-requires-trusted-evidence
  TTL,            \* recentBlockTTL
  EvidenceTTL,    \* scrubEvidenceTTL
  SweepInterval,  \* recentBlocksSweepInterval
  MaxSent,        \* maxBlockSentEntries
  QueueSize,      \* scrubFanoutQueueSize
  MaxCollectors,  \* -max-collectors
  MaxTime,        \* bound of the model: last tick of the clock
  MaxDecisions    \* bound of the model: decisions before the kill switch

ASSUME StreamsAssumption ==
  /\ CertTrusted \subseteq Streams
  /\ Streams \cap Broadcasters = {}
  /\ IsFiniteSet(Streams)
ASSUME FlagsAssumption == DryRun \in BOOLEAN /\ GateScrub \in BOOLEAN
ASSUME NumbersAssumption ==
  /\ TTL \in Nat \ {0}
  /\ EvidenceTTL \in Nat
  /\ SweepInterval \in Nat
  /\ MaxSent \in Nat
  /\ QueueSize \in Nat \ {0}
  /\ MaxCollectors \in Nat
  /\ MaxTime \in Nat \ {0}
  /\ MaxDecisions \in Nat

VARIABLES
  now,           \* the clock
  conn,          \* conn[s]: "new", "open", "ending" (context done), "gone"
  key,           \* key[s]: dedupKey, 0 before registration
  keySeq,        \* streamKeySeq
  role,          \* role[s]: "scrub", or "host" for any other or no role
  stopped,       \* enforcementState.stopped
  evidence,      \* evidence[src]: last trusted scrub report, 0 for none
  recentBlocks,  \* recentBlocks[src]: blockReservation
  swept,         \* recentBlocksSwept
  op,            \* op[p]: the decision goroutine p is working on
  inflight,      \* sends started by Broadcast
  fanout,        \* fanout[s]: the stream's queue of scrubFanoutItems
  inHand,        \* inHand[s]: items the fan-out worker of s has taken out
  worker,        \* worker[s]: "none", "run", "draining", "done"
  issued,        \* history: issued[src][s], reservation time of the last send
  got,           \* history: got[src][s], when the last Send succeeded
  decisions      \* history: signals and Broadcasts handled before the stop

connVars     == <<conn, key, keySeq, role>>
queueVars    == <<fanout, inHand, worker>>
dedupHistory == <<issued, got, decisions>>
dedupVars    == <<now, connVars, stopped, evidence, recentBlocks, swept, op, inflight,
          queueVars, dedupHistory>>

Procs  == Streams \cup Broadcasters
Time   == 0..MaxTime
Scopes == {"local", "fanout", "broadcast"}
Roles  == {"host", "scrub"}

\* a.collectors: a stream stays registered until its handler has returned.
Registered == {s \in Streams : conn[s] \in {"open", "ending"}}

isTrustedScrub(s) == s \in CertTrusted /\ role[s] = "scrub"

-----------------------------------------------------------------------------
(***************************************************************************)
(* blockReservation and its methods.                                       *)
(***************************************************************************)

NoMark == [at |-> 0, upTo |-> 0, skip |-> {}]

\* The zero blockReservation.  A source without an entry in recentBlocks is
\* the same value: reserveBlockExcept starts from it in both cases.
NewReservation ==
  [at |-> 0, published |-> [c \in Scopes |-> 0], sent |-> << >>,
   bcastEntries |-> 0, bcast |-> NoMark]

\* broadcastMark.covers
covers(m, k, t) ==
  /\ m.at # 0
  /\ t - m.at < TTL
  /\ k <= m.upTo
  /\ k \notin m.skip

\* blockReservation.has
has(r, k, t) ==
  \/ k \in DOMAIN r.sent /\ t - r.sent[k].at < TTL
  \/ covers(r.bcast, k, t)

\* blockReservation.pending
pending(r, targets, t) == {s \in targets : ~has(r, key[s], t)}

\* blockReservation.deleteSent for every key of K
deleteSent(r, K) ==
  [r EXCEPT !.sent = [k \in DOMAIN r.sent \ K |-> r.sent[k]],
            !.bcastEntries =
               @ - Cardinality({k \in K \cap DOMAIN r.sent : r.sent[k].broadcast})]

\* blockReservation.setSent for every key of K
setSent(r, K, t, broadcast) ==
  LET replaced == {k \in K \cap DOMAIN r.sent : r.sent[k].broadcast}
  IN  [r EXCEPT !.sent = [k \in DOMAIN r.sent \cup K |->
                            IF k \in K THEN [at |-> t, broadcast |-> broadcast]
                                       ELSE r.sent[k]],
                !.bcastEntries = @ - Cardinality(replaced)
                                   + (IF broadcast THEN Cardinality(K) ELSE 0)]

\* newBroadcastMark
newBroadcastMark(r, targets, excluded, t) ==
  LET upTo == Max({key[s] : s \in targets})
  IN  [at |-> t, upTo |-> upTo,
       skip |-> {key[s] : s \in {x \in targets : has(r, key[x], t)}}
                \cup {key[s] : s \in {x \in excluded : key[x] <= upTo}}]

\* blockReservation.publishedWithin
publishedWithin(r, scope, t) ==
  r.published[scope] # 0 /\ t - r.published[scope] < TTL

-----------------------------------------------------------------------------
(***************************************************************************)
(* reserveBlockExcept, in the order of its steps.                          *)
(***************************************************************************)

\* An expired or missing entry starts over.
liveReservation(r, t) == IF t - r.at >= TTL THEN NewReservation ELSE r

\* Entries and marks past the TTL are dropped first.
withoutExpired(r, t) ==
  LET d == deleteSent(r, {k \in DOMAIN r.sent : t - r.sent[k].at >= TTL})
  IN  IF t - d.bcast.at >= TTL THEN [d EXCEPT !.bcast = NoMark] ELSE d

\* A Broadcast that would hold more than MaxSent entries becomes a mark.
needsMark(r, scope, fresh) ==
  scope = "broadcast" /\ r.bcastEntries + Cardinality(fresh) > MaxSent

\* "Start over": the old mark and the Broadcast entries are forgotten.
startOver(r) ==
  [deleteSent(r, {k \in DOMAIN r.sent : r.sent[k].broadcast})
     EXCEPT !.bcast = NoMark]

\* Mutant of reserveBlockExcept: after the start-over the block still goes only
\* to the targets the old mark and entries did not cover.
reserveBlockExceptStaleFresh(r0, scope, targets, excluded, t) ==
  LET r1    == withoutExpired(r0, t)
      fresh == pending(r1, targets, t)
      r2    == startOver(r1)
      r3    == IF needsMark(r1, scope, fresh)
               THEN [r2 EXCEPT !.bcast = newBroadcastMark(r2, targets, excluded, t)]
               ELSE setSent(r1, {key[s] : s \in fresh}, t, scope = "broadcast")
  IN  IF fresh = {} THEN [fresh |-> {}, r |-> r1, publish |-> FALSE]
      ELSE [fresh |-> fresh, r |-> [r3 EXCEPT !.at = t], publish |-> FALSE]

\* The fresh targets and the reservation they leave behind.
reserveBlockExcept(r0, scope, targets, excluded, t) ==
  LET r1    == withoutExpired(r0, t)
      first == pending(r1, targets, t)
      mark  == needsMark(r1, scope, first)
      r2    == IF mark THEN startOver(r1) ELSE r1
      fresh == pending(r2, targets, t)
      r3    == IF mark
               THEN [r2 EXCEPT !.bcast = newBroadcastMark(r2, targets, excluded, t)]
               ELSE setSent(r2, {key[s] : s \in fresh}, t, scope = "broadcast")
      r4    == [r3 EXCEPT !.at = t]
      r5    == IF publishedWithin(r4, scope, t) THEN r4
               ELSE [r4 EXCEPT !.published[scope] = t]
  IN  IF first = {} THEN [fresh |-> {}, r |-> r1, publish |-> FALSE]
      ELSE [fresh |-> fresh, r |-> r5, publish |-> ~publishedWithin(r4, scope, t)]

\* sweepRecentBlocksLocked, which runs when the source had no live entry.
sweepRecentBlocks(rb, t) ==
  [x \in Sources |-> IF rb[x].at # 0 /\ t - rb[x].at > 2 * TTL
                     THEN NewReservation ELSE rb[x]]

\* releaseBlock: a compare-and-delete of the peer's entry.
releaseBlock(s, item) ==
  LET r == recentBlocks[item.src]
      k == key[s]
  IN  recentBlocks' =
        IF k \in DOMAIN r.sent /\ r.sent[k].at = item.at
        THEN [recentBlocks EXCEPT ![item.src] = deleteSent(r, {k})]
        ELSE recentBlocks

\* A goroutine that is not deciding anything.
Idle == [pc |-> "idle", src |-> 0, scope |-> "local", targets |-> {},
         excluded |-> {}, at |-> 0, todo |-> {}]

-----------------------------------------------------------------------------
(***************************************************************************)
(* Streams.                                                                *)
(***************************************************************************)

\* registerCollector: refused at capacity; the key is taken under the lock.
Connect(s) ==
  /\ conn[s] = "new"
  /\ Cardinality(Registered) < MaxCollectors
  /\ keySeq' = keySeq + 1
  /\ key' = [key EXCEPT ![s] = keySeq + 1]
  /\ conn' = [conn EXCEPT ![s] = "open"]
  /\ worker' = [worker EXCEPT ![s] = IF s \in CertTrusted THEN "run" ELSE "none"]
  /\ UNCHANGED <<now, role, stopped, evidence, recentBlocks, swept, op, inflight,
                 fanout, inHand, dedupHistory>>

\* handleRoleSignal, on the stream's receive goroutine.  The role of a stream
\* without a trusted certificate is never looked at here.
AnnounceRole(s, r) ==
  /\ s \in CertTrusted
  /\ conn[s] = "open"
  /\ op[s].pc = "idle"
  /\ role[s] # r
  /\ role' = [role EXCEPT ![s] = r]
  /\ UNCHANGED <<now, conn, key, keySeq, stopped, evidence, recentBlocks, swept,
                 op, inflight, queueVars, dedupHistory>>

\* The stream's context ends: the peer went away, or a Send stalled past the
\* send timeout and the watchdog of sendLocked aborted the stream.
EndStream(s) ==
  /\ conn[s] = "open"
  /\ conn' = [conn EXCEPT ![s] = "ending"]
  /\ UNCHANGED <<now, key, keySeq, role, stopped, evidence, recentBlocks, swept,
                 op, inflight, queueVars, dedupHistory>>

\* unregisterCollector
Unregister(s) ==
  /\ conn[s] = "ending"
  /\ conn' = [conn EXCEPT ![s] = "gone"]
  /\ UNCHANGED <<now, key, keySeq, role, stopped, evidence, recentBlocks, swept,
                 op, inflight, queueVars, dedupHistory>>

\* The bound on decisions; it does not apply once the kill switch is set.
CountDecision ==
  \/ stopped /\ UNCHANGED decisions
  \/ ~stopped /\ decisions < MaxDecisions /\ decisions' = decisions + 1

\* processSignal up to its verdict, on the stream's receive goroutine: trusted
\* scrub evidence is remembered (the set is nil unless the gate is on).
processSignal(s, src) ==
  /\ conn[s] = "open"
  /\ op[s].pc = "idle"
  /\ CountDecision
  /\ evidence' = IF GateScrub /\ isTrustedScrub(s)
                 THEN [evidence EXCEPT ![src] = now] ELSE evidence
  /\ op' = [op EXCEPT ![s] = [Idle EXCEPT !.pc = "verdict", !.src = src]]
  /\ UNCHANGED <<now, connVars, stopped, recentBlocks, swept, inflight,
                 queueVars, issued, got>>

\* A full evidenceSet evicts some entry to make room.
EvictEvidence(src) ==
  /\ evidence[src] # 0
  /\ evidence' = [evidence EXCEPT ![src] = 0]
  /\ UNCHANGED <<now, connVars, stopped, recentBlocks, swept, op, inflight,
                 queueVars, dedupHistory>>

evidenceHas(src) == evidence[src] # 0 /\ now - evidence[src] < EvidenceTTL

-----------------------------------------------------------------------------
(***************************************************************************)
(* Decisions.                                                              *)
(***************************************************************************)

\* trustedScrubPeers
trustedScrubPeers(s) ==
  {x \in Registered \ {s} : isTrustedScrub(x) /\ worker[x] \notin {"draining", "done"}}

\* No rate limit, reputation or rule verdict asked for a block.
NoDecision(s) ==
  /\ op[s].pc = "verdict"
  /\ op' = [op EXCEPT ![s] = Idle]
  /\ UNCHANGED <<now, connVars, stopped, evidence, recentBlocks, swept, inflight,
                 queueVars, dedupHistory>>

\* sendCommand up to reserveCommand; dry run and the kill switch end it.
\* eligible: the verdict rests on trusted scrub evidence alone.
sendCommand(s, eligible) ==
  LET fansOut == eligible /\ isTrustedScrub(s)
  IN  /\ op[s].pc = "verdict"
      /\ op' = [op EXCEPT ![s] =
                  IF DryRun \/ stopped THEN Idle
                  ELSE [@ EXCEPT !.pc = "reserve",
                          !.scope = IF fansOut THEN "fanout" ELSE "local",
                          !.targets = {s} \cup (IF fansOut THEN trustedScrubPeers(s)
                                                           ELSE {})]]
      /\ UNCHANGED <<now, connVars, stopped, evidence, recentBlocks, swept,
                     inflight, queueVars, dedupHistory>>

\* Mutant of Broadcast: the kill switch is not looked at.
BroadcastIgnoringStop(b, src) ==
  /\ op[b].pc = "idle"
  /\ CountDecision
  /\ Registered # {}
  /\ op' = [op EXCEPT ![b] = [Idle EXCEPT !.pc = "reserve", !.src = src,
                               !.scope = "broadcast", !.targets = Registered]]
  /\ UNCHANGED <<now, connVars, stopped, evidence, recentBlocks, swept, inflight,
                 queueVars, issued, got>>

\* Broadcast up to reserveCommand: nothing is reserved without recipients.
Broadcast(b, src) ==
  LET gated == IF GateScrub /\ ~evidenceHas(src)
               THEN {s \in Registered : isTrustedScrub(s)} ELSE {}
  IN  /\ op[b].pc = "idle"
      /\ CountDecision
      /\ ~DryRun
      /\ ~stopped
      /\ Registered \ gated # {}
      /\ op' = [op EXCEPT ![b] =
                  [Idle EXCEPT !.pc = "reserve", !.src = src, !.scope = "broadcast",
                     !.targets = Registered \ gated, !.excluded = gated]]
      /\ UNCHANGED <<now, connVars, stopped, evidence, recentBlocks, swept,
                     inflight, queueVars, issued, got>>

\* time.Now() in reserveCommand, before recentBlocksMu is taken.
ReadClock(p) ==
  /\ op[p].pc = "reserve"
  /\ op[p].at = 0
  /\ op' = [op EXCEPT ![p].at = now]
  /\ UNCHANGED <<now, connVars, stopped, evidence, recentBlocks, swept, inflight,
                 queueVars, dedupHistory>>

\* reserveCommand under recentBlocksMu, and what follows it at once: the
\* decision is published, and Broadcast starts one goroutine per recipient.
reserveCommand(p) ==
  LET o == op[p]
  IN  /\ o.pc = "reserve"
      /\ o.at # 0
      /\ \E live \in {liveReservation(recentBlocks[o.src], o.at)} :
         \E res \in {reserveBlockExcept(live, o.scope, o.targets, o.excluded, o.at)} :
           LET sweep  == live.at = 0 /\ o.at - swept >= SweepInterval
               stored == [recentBlocks EXCEPT ![o.src] = res.r]
           IN  /\ recentBlocks' = IF sweep THEN sweepRecentBlocks(stored, o.at)
                                  ELSE stored
               /\ swept' = IF sweep THEN o.at ELSE swept
               /\ issued' = [issued EXCEPT ![o.src] =
                               [s \in Streams |-> IF s \in res.fresh THEN o.at
                                                                     ELSE @[s]]]
               /\ inflight' = inflight \cup
                    (IF p \in Broadcasters
                     THEN {[src |-> o.src, to |-> s] : s \in res.fresh} ELSE {})
               /\ op' = [op EXCEPT ![p] =
                           IF p \in Broadcasters \/ res.fresh = {} THEN Idle
                           ELSE [@ EXCEPT !.pc = "send", !.todo = res.fresh]]
      /\ UNCHANGED <<now, connVars, stopped, evidence, queueVars, got, decisions>>

-----------------------------------------------------------------------------
(***************************************************************************)
(* Sends.  Send succeeds on an open stream and fails once its context has  *)
(* ended; a Send that stalls ends the stream (EndStream).                  *)
(***************************************************************************)

deliver(src, s) ==
  got' = IF conn[s] = "open" THEN [got EXCEPT ![src][s] = now] ELSE got

\* Mutant of enqueueScrubFanout: a full queue drops the command only.
enqueueNoRelease(s, peer) ==
  LET item == [src |-> op[s].src, at |-> op[s].at]
      drop == worker[peer] \in {"draining", "done"} \/ Len(fanout[peer]) >= QueueSize
  IN  /\ op[s].pc = "send"
      /\ peer \in op[s].todo \ {s}
      /\ op' = [op EXCEPT ![s].todo = @ \ {peer}]
      /\ fanout' = IF drop THEN fanout
                   ELSE [fanout EXCEPT ![peer] = Append(@, item)]
      /\ UNCHANGED <<now, connVars, stopped, evidence, recentBlocks, swept,
                     inflight, inHand, worker, dedupHistory>>

\* enqueueScrubFanout: a closed queue drops the command, a full one releases
\* the peer's reservation.
enqueueScrubFanout(s, peer) ==
  LET item == [src |-> op[s].src, at |-> op[s].at]
      closed == worker[peer] \in {"draining", "done"}
      full == Len(fanout[peer]) >= QueueSize
  IN  /\ op[s].pc = "send"
      /\ peer \in op[s].todo \ {s}
      /\ op' = [op EXCEPT ![s].todo = @ \ {peer}]
      /\ fanout' = IF closed \/ full THEN fanout
                   ELSE [fanout EXCEPT ![peer] = Append(@, item)]
      /\ IF ~closed /\ full THEN releaseBlock(peer, item)
                            ELSE UNCHANGED recentBlocks
      /\ UNCHANGED <<now, connVars, stopped, evidence, swept, inflight, inHand,
                     worker, dedupHistory>>

\* sendToStream to the origin, once every peer's command is queued.
sendToOrigin(s) ==
  /\ op[s].pc = "send"
  /\ op[s].todo \subseteq {s}
  /\ IF s \in op[s].todo THEN deliver(op[s].src, s) ELSE UNCHANGED got
  /\ op' = [op EXCEPT ![s] = Idle]
  /\ UNCHANGED <<now, connVars, stopped, evidence, recentBlocks, swept, inflight,
                 queueVars, issued, decisions>>

\* sendToStream on a goroutine of Broadcast.
sendBroadcast(m) ==
  /\ m \in inflight
  /\ deliver(m.src, m.to)
  /\ inflight' = inflight \ {m}
  /\ UNCHANGED <<now, connVars, stopped, evidence, recentBlocks, swept, op,
                 queueVars, issued, decisions>>

-----------------------------------------------------------------------------
(***************************************************************************)
(* The fan-out worker of a trusted scrub stream.                           *)
(***************************************************************************)

\* runScrubFanout takes an item out and re-checks stream and role.
takeFanout(s) ==
  /\ worker[s] = "run"
  /\ inHand[s] = << >>
  /\ fanout[s] # << >>
  /\ fanout' = [fanout EXCEPT ![s] = Tail(@)]
  /\ IF conn[s] = "open" /\ isTrustedScrub(s)
     THEN inHand' = [inHand EXCEPT ![s] = <<Head(fanout[s])>>]
     ELSE UNCHANGED inHand
  /\ IF conn[s] = "open" /\ ~isTrustedScrub(s)
     THEN releaseBlock(s, Head(fanout[s]))
     ELSE UNCHANGED recentBlocks
  /\ worker' = [worker EXCEPT ![s] = IF conn[s] = "open" THEN "run" ELSE "draining"]
  /\ UNCHANGED <<now, connVars, stopped, evidence, swept, op, inflight, dedupHistory>>

\* sendLocked of the item taken out; a failed send releases it.
sendFanout(s) ==
  /\ inHand[s] # << >>
  /\ inHand' = [inHand EXCEPT ![s] = << >>]
  /\ deliver(Head(inHand[s]).src, s)
  /\ IF conn[s] = "open" THEN UNCHANGED recentBlocks
                         ELSE releaseBlock(s, Head(inHand[s]))
  /\ UNCHANGED <<now, connVars, stopped, evidence, swept, op, inflight, fanout,
                 worker, issued, decisions>>

\* drainScrubFanout, first half: the queue is closed under fanoutMu.
closeFanout(s) ==
  /\ worker[s] = "run"
  /\ inHand[s] = << >>
  /\ conn[s] \in {"ending", "gone"}
  /\ worker' = [worker EXCEPT ![s] = "draining"]
  /\ UNCHANGED <<now, connVars, stopped, evidence, recentBlocks, swept, op,
                 inflight, fanout, inHand, dedupHistory>>

\* drainScrubFanout, second half: what is left is counted and dropped.
drainScrubFanout(s) ==
  /\ worker[s] = "draining"
  /\ fanout' = [fanout EXCEPT ![s] = << >>]
  /\ worker' = [worker EXCEPT ![s] = "done"]
  /\ UNCHANGED <<now, connVars, stopped, evidence, recentBlocks, swept, op,
                 inflight, inHand, dedupHistory>>

-----------------------------------------------------------------------------

\* StopEnforcement: the kill switch, one-way.
StopEnforcement ==
  /\ ~stopped
  /\ stopped' = TRUE
  /\ UNCHANGED <<now, connVars, evidence, recentBlocks, swept, op, inflight,
                 queueVars, dedupHistory>>

Tick ==
  /\ now < MaxTime
  /\ now' = now + 1
  /\ UNCHANGED <<connVars, stopped, evidence, recentBlocks, swept, op, inflight,
                 queueVars, dedupHistory>>

BlockDedupInit ==
  /\ now = 1
  /\ conn = [s \in Streams |-> "new"]
  /\ key = [s \in Streams |-> 0]
  /\ keySeq = 0
  /\ role = [s \in Streams |-> "host"]
  /\ stopped = FALSE
  /\ evidence = [x \in Sources |-> 0]
  /\ recentBlocks = [x \in Sources |-> NewReservation]
  /\ swept = 0
  /\ op = [p \in Procs |-> Idle]
  /\ inflight = {}
  /\ fanout = [s \in Streams |-> << >>]
  /\ inHand = [s \in Streams |-> << >>]
  /\ worker = [s \in Streams |-> "none"]
  /\ issued = [x \in Sources |-> [s \in Streams |-> 0]]
  /\ got = [x \in Sources |-> [s \in Streams |-> 0]]
  /\ decisions = 0

StreamStep(s) ==
  \/ Connect(s)
  \/ \E r \in Roles : AnnounceRole(s, r)
  \/ EndStream(s)
  \/ Unregister(s)
  \/ \E x \in Sources : processSignal(s, x)
  \/ NoDecision(s)
  \/ \E e \in BOOLEAN : sendCommand(s, e)

SendStep(s) ==
  \/ \E peer \in Streams : enqueueScrubFanout(s, peer)
  \/ sendToOrigin(s)

WorkerStep(s) ==
  \/ takeFanout(s)
  \/ sendFanout(s)
  \/ closeFanout(s)
  \/ drainScrubFanout(s)

BlockDedupNext ==
  \/ \E s \in Streams : StreamStep(s) \/ SendStep(s) \/ WorkerStep(s)
  \/ \E b \in Broadcasters, x \in Sources : Broadcast(b, x)
  \/ \E p \in Procs : ReadClock(p) \/ reserveCommand(p)
  \/ \E m \in inflight : sendBroadcast(m)
  \/ \E x \in Sources : EvictEvidence(x)
  \/ StopEnforcement
  \/ Tick

BlockDedupSpec == BlockDedupInit /\ [][BlockDedupNext]_dedupVars

\* What goroutine p does next for the decision it has taken.
DecisionStep(p) == ReadClock(p) \/ reserveCommand(p) \/ (p \in Streams /\ SendStep(p))

\* The runtime schedules every runnable goroutine, and sendLocked's watchdog
\* bounds every Send.  Nothing is assumed of collectors, signals or the clock.
BlockDedupFairness ==
  /\ \A p \in Procs : WF_dedupVars(DecisionStep(p))
  /\ \A s \in Streams : WF_dedupVars(WorkerStep(s))
  /\ \A x \in Sources, s \in Streams :
        WF_dedupVars(sendBroadcast([src |-> x, to |-> s]))

BlockDedupFairSpec == BlockDedupSpec /\ BlockDedupFairness

-----------------------------------------------------------------------------
(***************************************************************************)
(* Properties.                                                             *)
(***************************************************************************)

IsReservation(r) ==
  /\ r = [at |-> r.at, published |-> r.published, sent |-> r.sent,
          bcastEntries |-> r.bcastEntries, bcast |-> r.bcast]
  /\ r.at \in Time
  /\ r.published \in [Scopes -> Time]
  /\ r.sent \in [DOMAIN r.sent -> [at : 1..MaxTime, broadcast : BOOLEAN]]
  /\ DOMAIN r.sent \subseteq 1..keySeq
  /\ r.bcastEntries \in Int
  /\ r.bcast = [at |-> r.bcast.at, upTo |-> r.bcast.upTo, skip |-> r.bcast.skip]
  /\ r.bcast.at \in Time
  /\ r.bcast.upTo \in 0..keySeq
  /\ r.bcast.skip \subseteq 1..keySeq

Item == [src : Sources, at : 1..MaxTime]

IsOp(o) ==
  /\ o = [pc |-> o.pc, src |-> o.src, scope |-> o.scope, targets |-> o.targets,
          excluded |-> o.excluded, at |-> o.at, todo |-> o.todo]
  /\ o.pc \in {"idle", "verdict", "reserve", "send"}
  /\ o.pc # "idle" => o.src \in Sources
  /\ o.scope \in Scopes
  /\ o.targets \subseteq Streams
  /\ o.excluded \subseteq Streams
  /\ o.todo \subseteq Streams
  /\ o.at \in 0..now
  /\ o.pc = "reserve" => o.targets # {}
  /\ o.pc = "send" => o.at # 0

\* Type invariant: the values every variable takes.
BlockDedupTypeOK ==
  /\ now \in 1..MaxTime
  /\ conn \in [Streams -> {"new", "open", "ending", "gone"}]
  /\ keySeq \in Nat
  /\ key \in [Streams -> 0..keySeq]
  /\ role \in [Streams -> Roles]
  /\ stopped \in BOOLEAN
  /\ evidence \in [Sources -> Time]
  /\ DOMAIN recentBlocks = Sources
  /\ \A x \in Sources : IsReservation(recentBlocks[x])
  /\ swept \in Time
  /\ DOMAIN op = Procs
  /\ \A p \in Procs : IsOp(op[p])
  /\ inflight \subseteq [src : Sources, to : Streams]
  /\ fanout \in [Streams -> Seq(Item)]
  /\ inHand \in [Streams -> Seq(Item)]
  /\ worker \in [Streams -> {"none", "run", "draining", "done"}]
  /\ issued \in [Sources -> [Streams -> Time]]
  /\ got \in [Sources -> [Streams -> Time]]
  /\ decisions \in 0..MaxDecisions

\* "No collector's dedup outlasts recentBlockTTL from its last send"
\* (reserveBlockExcept): while the dedup suppresses a source's block for a
\* connected collector, a decision did address that collector less than a TTL
\* ago, whether it is held as an entry or covered by a broadcastMark.
CoverageIsIssued ==
  \A x \in Sources, s \in Registered :
     has(recentBlocks[x], key[s], now)
       => issued[x][s] # 0 /\ now - issued[x][s] < TTL

\* A block of x for s that some goroutine still has to hand to the stream.
OnItsWay(x, s) ==
  \/ [src |-> x, to |-> s] \in inflight
  \/ \E i \in DOMAIN fanout[s] : fanout[s][i].src = x
  \/ \E i \in DOMAIN inHand[s] : inHand[s][i].src = x
  \/ \E p \in Streams : op[p].pc = "send" /\ op[p].src = x /\ s \in op[p].todo

\* The dedup never swallows a block: while it suppresses repeats for a live
\* collector, the collector has the block or a goroutine is about to send it.
\* Every way a fan-out can fail on a live stream (full queue, role change)
\* must release the reservation for this.
SuppressedMeansDelivered ==
  \A x \in Sources, s \in Streams :
     conn[s] = "open" /\ has(recentBlocks[x], key[s], now)
       => (got[x][s] # 0 /\ got[x][s] >= issued[x][s]) \/ OnItsWay(x, s)

\* bcastEntries, kept by hand over inserts, expiry, start-over and release, is
\* the number of Broadcast entries and never passes maxBlockSentEntries.
BcastEntriesExact ==
  \A x \in Sources :
     LET r == recentBlocks[x]
     IN  /\ r.bcastEntries = Cardinality({k \in DOMAIN r.sent : r.sent[k].broadcast})
         /\ r.bcastEntries <= MaxSent

\* fanoutMu orders enqueues against the worker closing the queue: nothing is
\* left behind, uncounted, in the queue of a worker that is gone.
NothingStranded ==
  \A s \in Streams : worker[s] = "done" => fanout[s] = << >> /\ inHand[s] = << >>

\* No block is being reserved, queued or sent.
FanoutQuiet ==
  /\ \A p \in Procs : op[p].pc \in {"idle", "verdict"}
  /\ inflight = {}
  /\ \A s \in Streams : fanout[s] = << >> /\ inHand[s] = << >>

\* Once the kill switch is set the plane drains: from some point on no block
\* is being reserved, queued or sent.
KillSwitchDrains == <>[]stopped => <>[]FanoutQuiet

\* The dedup's book-keeping is exact, through streams that come and go and
\* Broadcasts that collapse entries into marks: what it holds as covered was
\* issued, and its count of Broadcast entries is right (reserveBlockExcept,
\* deleteSent).
DedupExact == BlockDedupTypeOK /\ CoverageIsIssued /\ BcastEntriesExact

\* A block the dedup stands for is not lost on its way through the fan-out
\* queues (enqueueScrubFanout, the fan-out worker, releaseBlock).
FanoutLosesNothing == SuppressedMeansDelivered /\ NothingStranded

\* With the evidence gate of Broadcast on, the collectors it holds back are not
\* covered by a mark, and the kill switch brings the plane to rest (Broadcast,
\* newBroadcastMark, StopEnforcement).
GatedPlaneSound == []CoverageIsIssued /\ KillSwitchDrains
=============================================================================
