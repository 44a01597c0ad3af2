------------------------------- MODULE RuleSync -------------------------------
(***************************************************************************)
(* Runtime rules, from a controller's PushRules to the scrub collectors    *)
(* (pkg/analyzer/rules.go, rules_persist.go, enforcement.go, and applyRules *)
(* of pkg/collector/rules.go at the far end).                              *)
(*                                                                         *)
(* Callers that want collectors brought up to date (a push, the kill       *)
(* switch, the periodic resync, a stream that announces scrub mode) leave  *)
(* a waiter with the stream; one worker per stream serves all the waiters  *)
(* it finds with one freshly built replacement set.                        *)
(*                                                                         *)
(* ver counts the changes of what collectors should hold.  A rule's scope  *)
(* is part of its wire id, so the store is one set of rules.               *)
(***************************************************************************)
EXTENDS Integers, Sequences, FiniteSets

CONSTANTS
  Rules,      \* rules controllers push
  ScopeOf,    \* ScopeOf[r]: the scope of rule r
  PassRules,  \* the rules whose action is PASS
  Expires,    \* Expires[r]: expiry of rule r
  Margin,     \* ruleExpiryMargin
  Capacity,   \* rules that fit a collector (CheckCapacity, maxRuleSetBytes)
  DryRun,     \* -dry-run
  Persist,    \* -rule-state-dir is set
  Pushers,    \* PushRules calls
  Stop,       \* the goroutine StopEnforcement starts
  Resync,     \* runRuleResync
  Streams,    \* collector streams; a reconnect is another stream
  Window,     \* rule sets a stream's flow-control window holds
  MaxTime,    \* bound: last tick of the clock
  MaxCrashes  \* bound: analyzer restarts

ASSUME RulesAssumption ==
  /\ PassRules \subseteq Rules
  /\ DOMAIN ScopeOf = Rules
  /\ Expires \in [Rules -> Nat]
  /\ Margin \in Nat
  /\ DryRun \in BOOLEAN
  /\ Persist \in BOOLEAN
  /\ Window \in Nat \ {0}
  /\ MaxTime \in Nat \ {0}
  /\ Stop # Resync /\ {Stop, Resync} \cap Pushers = {}

VARIABLES
  now,      \* the clock
  store,    \* ruleStore
  ver,      \* history: number of changes of the store or the kill switch
  stopped,  \* enforcementState.stopped
  conn,     \* conn[s]: "new", "open", "gone"
  scrub,    \* scrub[s]: the announced role is scrub
  announce, \* announce[s]: setRole is done, requestRuleSync is not
  waiters,  \* waiters[s]: syncWaiters, each as the version it was left at
  sync,     \* sync[s]: the stream's worker (pc "idle": syncing is false)
  sentVer,  \* history: version of the newest set sent on s
  wire,     \* wire[s]: sets sent and not yet received
  held,     \* held[s]: rules the collector of s has installed
  caller,   \* caller[p]: where a caller is
  file,     \* the saved rules and their version
  pmu,      \* holder of ruleStatePersister.mu, as a set
  crashes   \* history: restarts so far

streamVars == <<conn, scrub, announce, waiters, sync, sentVer, wire, held>>
vars == <<now, store, ver, stopped, streamVars, caller, file, pmu, crashes>>

Callers  == Pushers \cup {Stop, Resync}
IdleSync == [pc |-> "idle", batch |-> {}, enforcing |-> FALSE, at |-> 0,
             set |-> {}, ver |-> 0]
NoCall   == [pc |-> "idle", ver |-> 0, snap |-> {}, todo |-> {}, saved |-> FALSE]

Enforcing == ~DryRun /\ ~stopped
expired(r) == now >= Expires[r]

\* Mutant of desired: the kill switch is not looked at.
desiredIgnoresSwitch(at, enforcing) == {r \in store : at + Margin < Expires[r]}

\* desired: what is sent (rules too close to expiry are withdrawn), and the
\* store without the expired rules.
desired(at, enforcing) ==
  {r \in store : at + Margin < Expires[r] /\ (enforcing \/ r \in PassRules)}
pruned(at) == {r \in store : at < Expires[r]}

-----------------------------------------------------------------------------
(***************************************************************************)
(* PushRules, and the callers that only sync.                              *)
(***************************************************************************)

\* PushRules up to persistRules (which does nothing without a state directory):
\* an expired rule or a union that does not fit is refused; otherwise replace
\* sets the scope.
replace(p, scope, set) ==
  LET others == {r \in store : ScopeOf[r] # scope}
  IN  /\ caller[p] = NoCall
      /\ \A r \in set : ScopeOf[r] = scope /\ ~expired(r)
      /\ Cardinality({r \in others : ~expired(r)} \cup set) <= Capacity
      /\ store' = others \cup set
      /\ ver' = ver + 1
      /\ caller' = [caller EXCEPT ![p].pc = IF Persist THEN "persist" ELSE "publish",
                                  ![p].ver = ver + 1]
      /\ UNCHANGED <<now, stopped, streamVars, file, pmu, crashes>>

\* Mutant of save: the snapshot is taken before the lock.
saveEarlySnapshot(p) ==
  \/ /\ caller[p].pc = "persist"
     /\ caller[p].snap = {}
     /\ caller' = [caller EXCEPT ![p].snap = {[rules |-> store, ver |-> ver]}]
     /\ UNCHANGED <<now, store, ver, stopped, streamVars, file, pmu, crashes>>
  \/ /\ caller[p].pc = "persist"
     /\ caller[p].snap # {}
     /\ pmu = {}
     /\ pmu' = {p}
     /\ caller' = [caller EXCEPT ![p].pc = "saving"]
     /\ UNCHANGED <<now, store, ver, stopped, streamVars, file, crashes>>

\* save: the snapshot is taken with the persister's lock held.
save(p) ==
  /\ caller[p].pc = "persist"
  /\ pmu = {}
  /\ pmu' = {p}
  /\ caller' = [caller EXCEPT ![p].pc = "saving",
                              ![p].snap = {[rules |-> store, ver |-> ver]}]
  /\ UNCHANGED <<now, store, ver, stopped, streamVars, file, crashes>>

\* The rename that makes the snapshot the file, or an error before it.
saveEnds(p, ok) ==
  /\ caller[p].pc = "saving"
  /\ pmu' = {}
  /\ \E f \in caller[p].snap : file' = IF ok THEN f ELSE file
  /\ caller' = [caller EXCEPT ![p].pc = "publish", ![p].snap = {}, ![p].saved = ok]
  /\ UNCHANGED <<now, store, ver, stopped, streamVars, crashes>>

\* publishCommand(ruleSetCommand()): building the set drops expired rules.
publish(p) ==
  /\ caller[p].pc = "publish"
  /\ store' = pruned(now)
  /\ caller' = [caller EXCEPT ![p].pc = "snapshot"]
  /\ UNCHANGED <<now, ver, stopped, streamVars, file, pmu, crashes>>

\* StopEnforcement sets the switch and starts a sync.
StopEnforcement ==
  /\ ~stopped
  /\ caller[Stop].pc = "idle"
  /\ stopped' = TRUE
  /\ ver' = ver + 1
  /\ caller' = [caller EXCEPT ![Stop].pc = "snapshot", ![Stop].ver = ver + 1]
  /\ UNCHANGED <<now, store, streamVars, file, pmu, crashes>>

\* The ticker of runRuleResync.
startResync ==
  /\ caller[Resync].pc = "idle"
  /\ caller' = [caller EXCEPT ![Resync].pc = "snapshot"]
  /\ UNCHANGED <<now, store, ver, stopped, streamVars, file, pmu, crashes>>

\* The caller still has to leave a waiter with the streams of todo.  Afterwards
\* it waits for the results, its timeout or its context, and the sends go on
\* without it whichever comes first: it changes nothing more.
\* runRuleResync may then start again.
requesting(p, todo) ==
  [caller EXCEPT ![p].todo = todo,
                 ![p].pc = CASE todo # {} -> "request"
                             [] todo = {} /\ p = Resync -> "idle"
                             [] OTHER -> "done"]

\* syncScrubCollectors: the scrub streams, under collectorsMu.
syncScrubCollectors(p) ==
  /\ caller[p].pc = "snapshot"
  /\ caller' = requesting(p, {s \in Streams : conn[s] = "open" /\ scrub[s]})
  /\ UNCHANGED <<now, store, ver, stopped, streamVars, file, pmu, crashes>>

\* requestRuleSync: leave a waiter, and start the worker if none runs.
addWaiter(s) ==
  /\ waiters' = [waiters EXCEPT ![s] = @ \cup {ver}]
  /\ sync' = [sync EXCEPT ![s].pc = IF @ = "idle" THEN "take" ELSE @]

\* Mutant of requestRuleSync: a stream that is being synced is left alone.
requestRuleSyncSkipsBusy(p, s) ==
  /\ caller[p].pc = "request"
  /\ s \in caller[p].todo
  /\ IF sync[s].pc = "idle" THEN addWaiter(s)
                            ELSE UNCHANGED <<waiters, sync>>
  /\ caller' = requesting(p, caller[p].todo \ {s})
  /\ UNCHANGED <<now, store, ver, stopped, conn, scrub, announce, sentVer, wire,
                 held, file, pmu, crashes>>

requestRuleSync(p, s) ==
  /\ caller[p].pc = "request"
  /\ s \in caller[p].todo
  /\ addWaiter(s)
  /\ caller' = requesting(p, caller[p].todo \ {s})
  /\ UNCHANGED <<now, store, ver, stopped, conn, scrub, announce, sentVer, wire,
                 held, file, pmu, crashes>>

-----------------------------------------------------------------------------
(***************************************************************************)
(* runRuleSyncs, one worker per stream.                                    *)
(***************************************************************************)

\* All waiters are taken under syncMu; without any the worker ends.
takeWaiters(s) ==
  /\ sync[s].pc = "take"
  /\ sync' = [sync EXCEPT ![s] =
                IF waiters[s] = {} THEN IdleSync
                ELSE [@ EXCEPT !.pc = "enforcing", !.batch = waiters[s]]]
  /\ waiters' = [waiters EXCEPT ![s] = {}]
  /\ UNCHANGED <<now, store, ver, stopped, conn, scrub, announce, sentVer, wire,
                 held, caller, file, pmu, crashes>>

\* ruleSetCommand: the clock and Enforcing are read first, ...
readEnforcing(s) ==
  /\ sync[s].pc = "enforcing"
  /\ sync' = [sync EXCEPT ![s].pc = "build", ![s].at = now,
                          ![s].enforcing = Enforcing, ![s].ver = ver]
  /\ UNCHANGED <<now, store, ver, stopped, conn, scrub, announce, waiters, sentVer,
                 wire, held, caller, file, pmu, crashes>>

\* ... then the set is built under the store's lock.
ruleSetCommand(s) ==
  /\ sync[s].pc = "build"
  /\ sync' = [sync EXCEPT ![s].pc = "send", ![s].set = desired(sync[s].at, sync[s].enforcing)]
  /\ store' = pruned(sync[s].at)
  /\ UNCHANGED <<now, ver, stopped, conn, scrub, announce, waiters, sentVer, wire,
                 held, caller, file, pmu, crashes>>

\* sendLocked, which blocks while the window is full (the watchdog ends a
\* stream that stays so) and fails on a stream that is gone; either way the waiters get
\* the result and the worker looks for more.
sendRules(s) ==
  /\ sync[s].pc = "send"
  /\ conn[s] = "open" => Len(wire[s]) < Window
  /\ IF conn[s] = "open"
     THEN /\ wire' = [wire EXCEPT ![s] = Append(@, sync[s].set)]
          /\ sentVer' = [sentVer EXCEPT ![s] = sync[s].ver]
     ELSE UNCHANGED <<wire, sentVer>>
  /\ sync' = [sync EXCEPT ![s].pc = "take", ![s].batch = {}, ![s].set = {},
                          ![s].at = 0, ![s].enforcing = FALSE]
  /\ UNCHANGED <<now, store, ver, stopped, conn, scrub, announce, waiters, held,
                 caller, file, pmu, crashes>>

-----------------------------------------------------------------------------
(***************************************************************************)
(* Streams and collectors.                                                 *)
(***************************************************************************)

Connect(s) ==
  /\ conn[s] = "new"
  /\ conn' = [conn EXCEPT ![s] = "open"]
  /\ UNCHANGED <<now, store, ver, stopped, scrub, announce, waiters, sync, sentVer,
                 wire, held, caller, file, pmu, crashes>>

Disconnect(s) ==
  /\ conn[s] = "open"
  /\ conn' = [conn EXCEPT ![s] = "gone"]
  /\ wire' = [wire EXCEPT ![s] = << >>]
  /\ UNCHANGED <<now, store, ver, stopped, scrub, announce, waiters, sync, sentVer,
                 held, caller, file, pmu, crashes>>

\* handleRoleSignal: setRole, then a sync only on becoming scrub.  recvSignals
\* handles a stream's signals one at a time.
setRole(s, isScrub) ==
  /\ conn[s] = "open"
  /\ ~announce[s]
  /\ scrub' = [scrub EXCEPT ![s] = isScrub]
  /\ announce' = [announce EXCEPT ![s] = isScrub /\ ~scrub[s]]
  /\ UNCHANGED <<now, store, ver, stopped, conn, waiters, sync, sentVer, wire, held,
                 caller, file, pmu, crashes>>

requestRoleSync(s) ==
  /\ announce[s]
  /\ announce' = [announce EXCEPT ![s] = FALSE]
  /\ addWaiter(s)
  /\ UNCHANGED <<now, store, ver, stopped, conn, scrub, sentVer, wire, held, caller,
                 file, pmu, crashes>>

\* applyRules: a set with an expired rule is rejected as a whole.
applyRules(s) ==
  /\ wire[s] # << >>
  /\ wire' = [wire EXCEPT ![s] = Tail(@)]
  /\ held' = [held EXCEPT ![s] = IF \E r \in Head(wire[s]) : expired(r)
                                 THEN @ ELSE Head(wire[s])]
  /\ UNCHANGED <<now, store, ver, stopped, conn, scrub, announce, waiters, sync,
                 sentVer, caller, file, pmu, crashes>>

\* runRuleExpiry on the collector.
expireHeld(s) ==
  /\ \E r \in held[s] : expired(r)
  /\ held' = [held EXCEPT ![s] = {r \in @ : ~expired(r)}]
  /\ UNCHANGED <<now, store, ver, stopped, conn, scrub, announce, waiters, sync,
                 sentVer, wire, caller, file, pmu, crashes>>

\* The analyzer crashes and restarts: restoreRules loads the unexpired rules of
\* the file before collectors connect; the kill switch is not persisted.
Restart ==
  /\ crashes < MaxCrashes
  /\ crashes' = crashes + 1
  /\ store' = {r \in file.rules : ~expired(r)}
  /\ stopped' = FALSE
  /\ ver' = ver + 1
  /\ conn' = [s \in Streams |-> IF conn[s] = "open" THEN "gone" ELSE conn[s]]
  /\ announce' = [s \in Streams |-> FALSE]
  /\ waiters' = [s \in Streams |-> {}]
  /\ sync' = [s \in Streams |-> IdleSync]
  /\ wire' = [s \in Streams |-> << >>]
  /\ caller' = [p \in Callers |->
                  IF p \in Pushers /\ caller[p] # NoCall
                  THEN [NoCall EXCEPT !.pc = "done", !.ver = caller[p].ver,
                                      !.saved = caller[p].saved]
                  ELSE NoCall]
  /\ pmu' = {}
  /\ UNCHANGED <<now, scrub, sentVer, held, file>>

Tick ==
  /\ now < MaxTime
  /\ now' = now + 1
  /\ UNCHANGED <<store, ver, stopped, streamVars, caller, file, pmu, crashes>>

Init ==
  /\ now = 1
  /\ store = {}
  /\ ver = 0
  /\ stopped = FALSE
  /\ conn = [s \in Streams |-> "new"]
  /\ scrub = [s \in Streams |-> FALSE]
  /\ announce = [s \in Streams |-> FALSE]
  /\ waiters = [s \in Streams |-> {}]
  /\ sync = [s \in Streams |-> IdleSync]
  /\ sentVer = [s \in Streams |-> -1]
  /\ wire = [s \in Streams |-> << >>]
  /\ held = [s \in Streams |-> {}]
  /\ caller = [p \in Callers |-> NoCall]
  /\ file = [rules |-> {}, ver |-> 0]
  /\ pmu = {}
  /\ crashes = 0

\* What a caller does with a changed rule set; with a state file it saves first.
DistributeStep(p) ==
  \/ publish(p)
  \/ syncScrubCollectors(p)
  \/ \E s \in Streams : requestRuleSync(p, s)

SaveStep(p) == save(p) \/ \E ok \in BOOLEAN : saveEnds(p, ok)

CallerStep(p) == SaveStep(p) \/ DistributeStep(p)

WorkerStep(s) ==
  \/ takeWaiters(s)
  \/ readEnforcing(s)
  \/ ruleSetCommand(s)
  \/ sendRules(s)

CollectorStep(s) == applyRules(s) \/ expireHeld(s)

\* The steps of an analyzer that keeps no state file and is not restarted.
SyncNext ==
  \/ \E p \in Pushers, set \in SUBSET Rules :
        \E scope \in {ScopeOf[r] : r \in Rules} : replace(p, scope, set)
  \/ StopEnforcement
  \/ startResync
  \/ \E p \in Callers : DistributeStep(p)
  \/ \E s \in Streams : WorkerStep(s) \/ CollectorStep(s)
  \/ \E s \in Streams : Connect(s) \/ Disconnect(s) \/ requestRoleSync(s)
  \/ \E s \in Streams, isScrub \in BOOLEAN : setRole(s, isScrub)
  \/ Tick

\* The saves of the state file, and the restarts that read it.
PersistNext == Restart \/ \E p \in Callers : SaveStep(p)

Next == SyncNext \/ PersistNext

Spec == Init /\ [][Next]_vars

SyncSpec == Init /\ [][SyncNext]_vars

\* Goroutines run, the resync ticker fires, a collector reads its stream.
\* Nothing is assumed of controllers, connections, crashes or the clock.
Fairness ==
  /\ \A p \in Callers : WF_vars(CallerStep(p))
  /\ WF_vars(startResync)
  /\ \A s \in Streams : /\ WF_vars(WorkerStep(s))
                        /\ WF_vars(CollectorStep(s))
                        /\ WF_vars(requestRoleSync(s))

FairSyncSpec == SyncSpec /\ Fairness

-----------------------------------------------------------------------------
(* Properties. *)

\* Type invariant: the values every variable takes.
TypeOK ==
  /\ now \in 1..MaxTime
  /\ store \subseteq Rules
  /\ ver \in Nat
  /\ stopped \in BOOLEAN
  /\ conn \in [Streams -> {"new", "open", "gone"}]
  /\ scrub \in [Streams -> BOOLEAN]
  /\ announce \in [Streams -> BOOLEAN]
  /\ \A s \in Streams :
       /\ waiters[s] \subseteq 0..ver
       /\ sync[s].pc \in {"idle", "take", "enforcing", "build", "send"}
       /\ sync[s].batch \subseteq 0..ver
       /\ sync[s].pc \in {"enforcing", "build", "send"} <=> sync[s].batch # {}
       /\ sync[s].ver \in 0..ver
       /\ sentVer[s] \in -1..ver
       /\ held[s] \subseteq Rules
  /\ \A p \in Callers :
       caller[p].pc \in {"idle", "persist", "saving", "publish", "snapshot", "request", "done"}
  /\ file.rules \subseteq Rules
  /\ pmu = {p \in Pushers : caller[p].pc = "saving"}

\* "makes sure the collector is sent its complete rule set, built after this
\* call" (requestRuleSync): the set a batch of coalesced requests is answered
\* with reflects every change made before each of them.
SyncCoversWaiters ==
  \A s \in Streams :
     sync[s].pc \in {"build", "send"} =>
        \A w \in sync[s].batch : w <= sync[s].ver

\* Somebody will still send stream s a set at least as new as the current one.
WillSync(s) ==
  \/ waiters[s] # {}
  \/ announce[s]
  \/ sync[s].pc = "enforcing"
  \/ sync[s].pc \in {"build", "send"} /\ sync[s].ver = ver
  \/ \E p \in Callers \ {Resync} :
        \/ caller[p].pc \in {"persist", "saving", "publish", "snapshot"}
        \/ caller[p].pc = "request" /\ s \in caller[p].todo

\* No lost update: a connected scrub collector has been sent the newest change
\* of the rules and the kill switch, or somebody is about to send it, without
\* counting on the resync.  Coalescing requests into a running send, or a
\* collector that announces its role during a push, must not lose it.
NoLostUpdate ==
  \A s \in Streams :
     conn[s] = "open" /\ scrub[s] => sentVer[s] = ver \/ WillSync(s)

\* ruleStatePersister.mu "serialises writers so the newest snapshot lands
\* last": once a push saved its rules, the file never goes back behind it.
SavedPushSurvives ==
  \A p \in Pushers : caller[p].saved => file.ver >= caller[p].ver

\* "Withdraw DROP and RATE_LIMIT rules already on scrub collectors"
\* (StopEnforcement): with the kill switch set, a scrub collector that stays
\* connected ends up with PASS rules only.
KillSwitchWithdraws ==
  \A s \in Streams :
     <>[](stopped /\ conn[s] = "open" /\ scrub[s]) => <>[](held[s] \subseteq PassRules)

\* A scrub collector is brought up to date by sets built after each request
\* for one (requestRuleSync, PushRules, StopEnforcement).
SyncComplete == TypeOK /\ SyncCoversWaiters /\ NoLostUpdate
=============================================================================
