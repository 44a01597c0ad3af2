----------------------------- MODULE AnalyzerLink -----------------------------
(***************************************************************************)
(* The collector's link to the analyzer (pkg/collector/service.go and the  *)
(* analyzerReadiness of scrub.go): one goroutine that dials, receives      *)
(* commands and redials with a backoff (manageAnalyzerConnection), one     *)
(* that sends the queued signals (signalSender) and tears a stuck          *)
(* connection down, the producers that put signals into the bounded queue  *)
(* without ever waiting (sendSignal), Stop, and the readiness report that  *)
(* follows the stream.                                                     *)
(*                                                                         *)
(* c.mu is held over the whole of connectToAnalyzer, that is while mgr.pc  *)
(* is "dialing"; its other critical sections are single steps.             *)
(* Durations are relative and saturate, so time never runs out.  A stream  *)
(* stands for its connection too (the two fields are set and cleared       *)
(* together); 0 is no stream, and numbers are used again once nothing      *)
(* refers to them.  Signals have no content: the queue is its length.      *)
(***************************************************************************)
EXTENDS Integers, FiniteSets, FiniteSetsExt

CONSTANTS
  Producers,   \* goroutines that call sendSignal
  QueueSize,   \* capacity of signalQueue
  Initial,     \* analyzerReconnectInitial, in ticks
  MaxBackoff,  \* analyzerReconnectMax
  Stable,      \* analyzerConnectionStable
  Grace,       \* -readyz-analyzer-grace
  Prompt,      \* no goroutine that can go on is held up for a whole tick
  MaxStreams   \* bound of the model: streams referred to at one time

ASSUME LinkAssumption ==
  /\ IsFiniteSet(Producers)
  /\ QueueSize \in Nat \ {0}
  /\ Initial \in Nat \ {0}
  /\ MaxBackoff \in Nat /\ Initial <= MaxBackoff
  /\ Stable \in Nat \ {0}
  /\ Grace \in Nat \ {0}
  /\ Prompt \in BOOLEAN
  /\ MaxStreams \in Nat \ {0}

VARIABLES
  mgr,        \* manageAnalyzerConnection: pc, stream, delay, backoff, connectedFor
  cur,        \* signalStream and analyzerConn
  alive,      \* streams neither closed nor broken
  stuck,      \* live streams the analyzer no longer reads: Send blocks
  connected,  \* the atomic flag
  ready,      \* analyzerReadiness: connected, up, everUp, down
  sender,     \* signalSender: pc and the stream it copied
  stray,      \* streams on which a timed out Send goroutine is still in Send
  queue,      \* length of signalQueue
  producer,   \* producer[p]: where p is in sendSignal
  stop,       \* Stop: "no", "cancelled", "closed"
  synced,     \* history: stream whose rule set was applied, 0 once it ended
  outage,     \* history: ticks since the last synced stream ended
  owed        \* history: signals neither dropped nor taken by signalSender

linkVars   == <<mgr, cur, alive, stuck, connected, ready, synced, outage>>
senderVars == <<sender, stray>>
queueVars  == <<queue, producer, owed>>
allButMgr  == <<cur, alive, stuck, connected, ready, synced, outage, senderVars,
                queueVars, stop>>
vars       == <<linkVars, senderVars, queueVars, stop>>

Streams  == 1..MaxStreams
cappedTo(n, d) == IF n < d THEN n + 1 ELSE d
cancelled == stop # "no"
muFree    == mgr.pc # "dialing"

\* Streams no goroutine and no field refers to.
unused == Streams \ ({cur, mgr.stream, sender.stream, synced} \cup alive \cup stray)

-----------------------------------------------------------------------------
(* Streams end: closed by this side, or broken or refused by the other. *)

\* The outage starts when a stream whose rules were applied ends.
endStreams(S) ==
  /\ alive' = alive \ S
  /\ stuck' = stuck \ S
  /\ synced' = IF synced \in S THEN 0 ELSE synced
  /\ outage' = IF synced # 0 /\ synced \in S THEN 0 ELSE outage

breaks(s) ==
  /\ s \in alive
  /\ endStreams({s})
  /\ UNCHANGED <<mgr, cur, connected, ready, senderVars, queueVars, stop>>

stopsReading(s) ==
  /\ s \in alive \ stuck
  /\ stuck' = stuck \cup {s}
  /\ UNCHANGED <<mgr, cur, alive, connected, ready, synced, outage, senderVars,
                 queueVars, stop>>

-----------------------------------------------------------------------------
(* analyzerReadiness *)

readySet(c) ==
  ready' = [ready EXCEPT !.connected = c, !.up = FALSE,
                         !.down = IF ~c /\ ready.up THEN 0 ELSE @]

markSynced ==
  ready' = IF ready.connected THEN [ready EXCEPT !.up = TRUE, !.everUp = TRUE]
                              ELSE ready

check == ready.up \/ (ready.everUp /\ ready.down < Grace)

-----------------------------------------------------------------------------
(* manageAnalyzerConnection *)

\* The delay of this wait and the backoff of the next.
analyzerReconnectBackoff(current, connectedFor) ==
  LET d == IF current <= 0 \/ connectedFor >= Stable THEN Initial ELSE current
  IN  <<d, Min({2 * d, MaxBackoff})>>

startWait(connectedFor) ==
  LET b == analyzerReconnectBackoff(mgr.backoff, connectedFor)
  IN  mgr' = [pc |-> "wait", stream |-> 0, delay |-> b[1], backoff |-> b[2],
              connectedFor |-> 0]

startConnect ==
  /\ mgr.pc = "loop" /\ ~cancelled
  /\ mgr' = [mgr EXCEPT !.pc = "dialing"]
  /\ cur' = 0
  /\ endStreams({cur})
  /\ UNCHANGED <<connected, ready, senderVars, queueVars, stop>>

\* The dial, the stream or the announcement of the role fails.
connectFails ==
  /\ mgr.pc = "dialing"
  /\ startWait(0)
  /\ UNCHANGED allButMgr

\* Mutant: the dial does not use the context that Stop cancels.
dialOutlivesStop ==
  /\ mgr.pc = "dialing" /\ unused # {}
  /\ cur' = Min(unused)
  /\ alive' = alive \cup {cur'}
  /\ mgr' = [mgr EXCEPT !.pc = "opened"]
  /\ UNCHANGED <<stuck, connected, ready, synced, outage, senderVars, queueVars,
                 stop>>

connectToAnalyzer ==
  /\ mgr.pc = "dialing" /\ ~cancelled /\ unused # {}
  /\ cur' = Min(unused)
  /\ alive' = alive \cup {cur'}
  /\ mgr' = [mgr EXCEPT !.pc = "opened"]
  /\ UNCHANGED <<stuck, connected, ready, synced, outage, senderVars, queueVars,
                 stop>>

markConnected ==
  /\ mgr.pc = "opened"
  /\ mgr' = [mgr EXCEPT !.pc = "read", !.connectedFor = 0]
  /\ connected' = TRUE
  /\ readySet(TRUE)
  /\ UNCHANGED <<cur, alive, stuck, synced, outage, senderVars, queueVars, stop>>

\* Mutant: a stream taken away by a reset is redialled at once.
readStreamRedials ==
  /\ mgr.pc = "read"
  /\ mgr' = [mgr EXCEPT !.pc = IF cur = 0 THEN "loop" ELSE "recv", !.stream = cur]
  /\ UNCHANGED allButMgr

\* receiveCommands: the stream is read again before every Recv.
readStream ==
  /\ mgr.pc = "read"
  /\ mgr' = [mgr EXCEPT !.pc = IF cur = 0 THEN "lost" ELSE "recv", !.stream = cur]
  /\ UNCHANGED allButMgr

receiveCommand ==
  /\ mgr.pc = "recv" /\ mgr.stream \in alive
  /\ mgr' = [mgr EXCEPT !.pc = "execute"]
  /\ UNCHANGED allButMgr

\* A block, an unblock, or a rule set the engine rejects.
executeCommand ==
  /\ mgr.pc = "execute"
  /\ mgr' = [mgr EXCEPT !.pc = "read", !.stream = 0]
  /\ UNCHANGED allButMgr

\* A rule set the engine applies.  If its stream has ended meanwhile the
\* outage starts now: no later command can come from that stream.
applyRules ==
  /\ mgr.pc = "execute"
  /\ mgr' = [mgr EXCEPT !.pc = "read", !.stream = 0]
  /\ markSynced
  /\ IF mgr.stream \in alive
       THEN synced' = mgr.stream /\ UNCHANGED outage
       ELSE outage' = 0 /\ UNCHANGED synced
  /\ UNCHANGED <<cur, alive, stuck, connected, senderVars, queueVars, stop>>

receiveFails ==
  /\ mgr.pc = "recv" /\ mgr.stream \notin alive
  /\ mgr' = [mgr EXCEPT !.pc = "lost", !.stream = 0]
  /\ UNCHANGED allButMgr

connectionLost ==
  /\ mgr.pc = "lost"
  /\ connected' = FALSE
  /\ readySet(FALSE)
  /\ startWait(mgr.connectedFor)
  /\ UNCHANGED <<cur, alive, stuck, synced, outage, senderVars, queueVars, stop>>

\* waitAnalyzerReconnect: its timer fires, or the collector shuts down.
waitAnalyzerReconnect ==
  /\ mgr.pc = "wait" /\ mgr.delay = 0
  /\ mgr' = [mgr EXCEPT !.pc = "loop"]
  /\ UNCHANGED allButMgr

managerStops ==
  /\ mgr.pc \in {"loop", "wait"} /\ cancelled
  /\ mgr' = [mgr EXCEPT !.pc = "done", !.delay = 0, !.backoff = Initial]
  /\ UNCHANGED allButMgr

-----------------------------------------------------------------------------
(* signalSender *)

takeSignal ==
  /\ sender.pc = "idle" /\ queue > 0
  /\ queue' = queue - 1
  /\ owed' = owed - 1
  /\ sender' = [sender EXCEPT !.pc = IF connected THEN "copy" ELSE "idle"]
  /\ UNCHANGED <<linkVars, stray, producer, stop>>

copyStream ==
  /\ sender.pc = "copy" /\ muFree
  /\ sender' = IF cur = 0 THEN [pc |-> "idle", stream |-> 0]
                          ELSE [pc |-> "send", stream |-> cur]
  /\ UNCHANGED <<linkVars, stray, queueVars, stop>>

\* sendSignalWithTimeout: the Send returns, with or without an error.
sendReturns ==
  /\ sender.pc = "send" /\ sender.stream \notin stuck
  /\ sender' = [pc |-> "idle", stream |-> 0]
  /\ UNCHANGED <<linkVars, stray, queueVars, stop>>

\* The timer fires first; the goroutine stays in Send.
sendTimesOut ==
  /\ sender.pc = "send"
  /\ stray' = stray \cup {sender.stream}
  /\ sender' = [sender EXCEPT !.pc = "reset"]
  /\ UNCHANGED <<linkVars, queueVars, stop>>

straySendReturns(s) ==
  /\ s \in stray \ stuck
  /\ stray' = stray \ {s}
  /\ UNCHANGED <<linkVars, sender, queueVars, stop>>

\* The part of resetAnalyzerConnection under c.mu.
resetAnalyzerConnection ==
  /\ sender.pc = "reset" /\ muFree
  /\ cur' = 0
  /\ endStreams({cur})
  /\ sender' = [pc |-> "store", stream |-> 0]
  /\ UNCHANGED <<mgr, connected, ready, stray, queueVars, stop>>

resetStores ==
  /\ sender.pc = "store"
  /\ connected' = FALSE
  /\ sender' = [pc |-> "idle", stream |-> 0]
  /\ UNCHANGED <<mgr, cur, alive, stuck, ready, synced, outage, stray, queueVars,
                 stop>>

senderStops ==
  /\ sender.pc = "idle" /\ cancelled
  /\ sender' = [sender EXCEPT !.pc = "done"]
  /\ UNCHANGED <<linkVars, stray, queueVars, stop>>

-----------------------------------------------------------------------------
(* sendSignal: three selects with a default, none of which waits. *)

offer(p) ==
  /\ producer[p] = "idle"
  /\ owed' = owed + 1
  /\ IF queue < QueueSize
       THEN queue' = queue + 1 /\ UNCHANGED producer
       ELSE producer' = [producer EXCEPT ![p] = "full"] /\ UNCHANGED queue
  /\ UNCHANGED <<linkVars, senderVars, stop>>

dropOldest(p) ==
  /\ producer[p] = "full"
  /\ IF queue > 0 THEN queue' = queue - 1 /\ owed' = owed - 1
                  ELSE UNCHANGED <<queue, owed>>
  /\ producer' = [producer EXCEPT ![p] = "retry"]
  /\ UNCHANGED <<linkVars, senderVars, stop>>

retryOffer(p) ==
  /\ producer[p] = "retry"
  /\ IF queue < QueueSize THEN queue' = queue + 1 /\ UNCHANGED owed
                          ELSE owed' = owed - 1 /\ UNCHANGED queue
  /\ producer' = [producer EXCEPT ![p] = "idle"]
  /\ UNCHANGED <<linkVars, senderVars, stop>>

-----------------------------------------------------------------------------
(* Stop: cancel ends every stream and dial; then the connection is closed. *)

Stop ==
  /\ stop = "no"
  /\ stop' = "cancelled"
  /\ endStreams(Streams)
  /\ UNCHANGED <<mgr, cur, connected, ready, senderVars, queueVars>>

stopCloses ==
  /\ stop = "cancelled" /\ muFree
  /\ stop' = "closed"
  /\ UNCHANGED <<linkVars, senderVars, queueVars>>

-----------------------------------------------------------------------------
\* Some goroutine can take a step that waits for nobody.
busy ==
  \/ mgr.pc \in {"loop", "opened", "read", "execute", "lost"}
  \/ mgr.pc = "recv" /\ mgr.stream \notin alive
  \/ mgr.pc = "wait" /\ mgr.delay = 0
  \/ sender.pc \in {"copy", "reset"} /\ muFree
  \/ sender.pc = "store"
  \/ sender.pc = "send" /\ sender.stream \notin alive

Tick ==
  /\ Prompt => ~busy
  /\ mgr' = [mgr EXCEPT !.delay = IF @ = 0 THEN 0 ELSE @ - 1,
                        !.connectedFor = IF mgr.pc \in {"read", "recv", "execute", "lost"}
                                           THEN cappedTo(@, Stable) ELSE @]
  /\ ready' = [ready EXCEPT !.down = cappedTo(@, Grace)]
  /\ outage' = cappedTo(outage, Grace)
  /\ UNCHANGED <<cur, alive, stuck, connected, synced, senderVars, queueVars, stop>>

Init ==
  /\ mgr = [pc |-> "loop", stream |-> 0, delay |-> 0, backoff |-> Initial,
            connectedFor |-> 0]
  /\ cur = 0 /\ alive = {} /\ stuck = {}
  /\ connected = FALSE
  /\ ready = [connected |-> FALSE, up |-> FALSE, everUp |-> FALSE, down |-> 0]
  /\ sender = [pc |-> "idle", stream |-> 0] /\ stray = {}
  /\ queue = 0 /\ producer = [p \in Producers |-> "idle"]
  /\ stop = "no"
  /\ synced = 0 /\ outage = Grace /\ owed = 0

manageAnalyzerConnection ==
  \/ startConnect \/ connectFails \/ connectToAnalyzer \/ markConnected
  \/ readStream \/ executeCommand \/ applyRules
  \/ receiveFails \/ connectionLost \/ waitAnalyzerReconnect \/ managerStops

signalSender ==
  copyStream \/ sendReturns \/ sendTimesOut \/ resetAnalyzerConnection \/ resetStores

sendSignal(p) == dropOldest(p) \/ retryOffer(p)

Next ==
  \/ manageAnalyzerConnection \/ receiveCommand
  \/ takeSignal \/ signalSender \/ senderStops
  \/ \E p \in Producers : offer(p) \/ sendSignal(p)
  \/ \E s \in Streams : breaks(s) \/ stopsReading(s) \/ straySendReturns(s)
  \/ Stop \/ stopCloses
  \/ Tick

Spec == Init /\ [][Next]_vars

\* The goroutines run; a receiver blocked on signalQueue is handed the next
\* signal; select picks at random among its ready cases, so the context is
\* seen at some time; and time passes.
FairSpec ==
  /\ Spec
  /\ WF_vars(manageAnalyzerConnection)
  /\ WF_vars(signalSender)
  /\ SF_vars(takeSignal)
  /\ SF_vars(senderStops)
  /\ WF_vars(stopCloses)
  /\ \A p \in Producers : WF_vars(sendSignal(p))
  /\ SF_vars(Tick)

-----------------------------------------------------------------------------
TypeOK ==
  /\ mgr \in [pc : {"loop", "dialing", "opened", "read", "recv", "execute", "lost",
                    "wait", "done"},
              stream : Streams \cup {0}, delay : 0..MaxBackoff,
              backoff : Initial..MaxBackoff, connectedFor : 0..Stable]
  /\ cur \in Streams \cup {0}
  /\ alive \subseteq Streams /\ stuck \subseteq alive
  /\ connected \in BOOLEAN
  /\ ready \in [connected : BOOLEAN, up : BOOLEAN, everUp : BOOLEAN, down : 0..Grace]
  /\ sender \in [pc : {"idle", "copy", "send", "reset", "store", "done"},
                 stream : Streams \cup {0}]
  /\ stray \subseteq Streams
  /\ queue \in 0..QueueSize
  /\ producer \in [Producers -> {"idle", "full", "retry"}]
  /\ stop \in {"no", "cancelled", "closed"}
  /\ synced \in alive \cup {0}
  /\ outage \in 0..Grace
  /\ owed \in 0..(QueueSize + Cardinality(Producers))

\* gRPC allows one Send at a time on a stream.  A Send that timed out is
\* still running, so signalSender must never send on that stream again:
\* resetAnalyzerConnection takes the stream away before the next signal.
NoConcurrentSend == sender.pc = "send" => sender.stream \notin stray

\* While commands are received on a live current stream, the connected flag
\* is TRUE unless a reset is under way: the flag resetAnalyzerConnection
\* stores after releasing c.mu never outlives the redial, which would make
\* signalSender skip every signal of a healthy connection.
SignalsFlow ==
  mgr.pc = "recv" /\ cur = mgr.stream /\ cur \in alive
    => connected \/ sender.pc = "store"

\* The analyzer check of /readyz passes only while the stream that delivered
\* the rules is up, or less than the grace period after such a stream ended:
\* streams that are refused before they send rules do not prolong it.  The
\* manager's own steps take no time.
ReadyWithinGrace ==
  check => \/ synced # 0
           \/ outage < Grace

\* Every signal given to sendSignal is in the queue, in the hands of a
\* producer, taken by the sender or counted as dropped.
SignalsAccounted ==
  owed = queue + Cardinality({p \in Producers : producer[p] # "idle"})

\* resetAnalyzerConnection closes whatever connection is current; if that is
\* alive, it is the one whose Send timed out.
ResetHitsStuckStream ==
  [][sender.pc = "reset" /\ sender'.pc = "store" /\ cur \in alive
       => cur = sender.stream]_vars

\* An analyzer that stops reading while signals are queued is noticed by the
\* send timeout although Recv never fails, and dialled again.
StuckIsReplaced ==
  (mgr.pc = "recv" /\ cur \in stuck /\ queue > 0)
    ~> (mgr.pc = "dialing" \/ cancelled)

\* After Stop both goroutines end and Stop gets c.mu, whatever they were doing.
StopsEventually ==
  cancelled ~> (mgr.pc = "done" /\ sender.pc = "done" /\ stop = "closed")

\* On a connection that is up signals flow, one Send at a time, none lost
\* uncounted; a reset takes down no connection but the stuck one; and readiness
\* tells whether rules can be expected (signalSender, sendSignal,
\* resetAnalyzerConnection, the /readyz check).
LinkKeepsSignals ==
  /\ [](TypeOK /\ NoConcurrentSend /\ SignalsFlow /\ SignalsAccounted /\ ReadyWithinGrace)
  /\ ResetHitsStuckStream

\* Neither a stuck analyzer nor a shutdown leaves the link hanging
\* (manageAnalyzerConnection, signalSender, Stop).
LinkMakesProgress == StuckIsReplaced /\ StopsEventually
===============================================================================
