-------------------------------- MODULE Engine --------------------------------
(***************************************************************************)
(* The frame of the AI detection engine                                    *)
(* (pkg/analyzer/aidetection/engine.go): signals are routed to the queue   *)
(* of one worker by their correlation key, each worker collects a window   *)
(* and evaluates it on its ticker, detections mark addresses of a network  *)
(* as active or abusive, and those marks are saved to a file on a ticker   *)
(* and once more when the engine stops.  The process may be killed at any  *)
(* step and started again.                                                 *)
(*                                                                         *)
(* A key stands for one address of one network.  What evaluateWindow       *)
(* decides of a window is the subject of Verdict; here a window with       *)
(* EngThreshold signals or more is a detection.                            *)
(***************************************************************************)
EXTENDS Integers, Sequences, FiniteSets

CONSTANTS
  EngKeys,
  EngShards,     \* one queue and one worker each
  EngQueueCap,   \* perWorker of newSignalShards
  EngThreshold,  \* signals in a window that make a detection
  EngTTL,        \* asnTTL
  EngMaxIPs,     \* addresses tracked in one network (5000)
  EngMaxSignals, \* bound of the model: signals emitted
  EngMaxTime     \* bound of the model: the clock

ASSUME EngAssumption ==
  /\ EngShards # {} /\ EngQueueCap \in Nat \ {0} /\ EngTTL \in Nat /\ EngMaxIPs \in Nat \ {0}

VARIABLES
  engRoute,   \* fnv64 of a key modulo the shards: any function of the key
  engQueue,   \* signalChans
  engWin,     \* windowSignals of each worker
  engWorker,  \* what each worker is at: its pc and the keys left to evaluate
  engActive, engAbusive,  \* asnActiveIPs and asnAbusiveIPs: when an address was marked
  engSave,    \* saveState, run by the saver and by Stop
  engTmp, engFile,        \* the two files
  engPhase,   \* how far Stop has come
  engEmitted, engNow

engMarks == <<engActive, engAbusive>>
engDisk  == <<engTmp, engFile>>
engVars  == <<engRoute, engQueue, engWin, engWorker, engMarks, engSave, engDisk, engPhase,
              engEmitted, engNow>>

Unmarked == [k \in EngKeys |-> -1]
NoMarks  == [st |-> "whole", active |-> Unmarked, abusive |-> Unmarked]
Torn     == [NoMarks EXCEPT !.st = "torn"]    \* a file cut short: json.Unmarshal refuses it
Absent   == [NoMarks EXCEPT !.st = "absent"]  \* no such file
Savers   == {"loop", "stop"}

\* What New and Start set up.
NewQueues  == [s \in EngShards |-> <<>>]
NewWindow  == [k \in EngKeys |-> <<>>]
NewWorkers == [s \in EngShards |-> [pc |-> "select", left |-> {}]]
NewSavers  == [p \in Savers |-> [pc |-> "idle", snap |-> NoMarks]]

unexpired(t) == t >= 0 /\ engNow - t <= EngTTL
keptMarks(table)  == [k \in EngKeys |-> IF unexpired(table[k]) THEN table[k] ELSE -1]

\* loadState takes what has not expired, and nothing from a file it cannot read.
stateLoaded ==
  IF engFile.st # "whole" THEN NoMarks
  ELSE [st |-> "whole", active |-> keptMarks(engFile.active), abusive |-> keptMarks(engFile.abusive)]

EngineInit ==
  /\ engRoute \in [EngKeys -> EngShards]
  /\ engTmp = Absent /\ engFile = Absent
  /\ engEmitted = 0 /\ engNow = 0
  /\ engActive = Unmarked /\ engAbusive = Unmarked
  /\ engQueue = NewQueues /\ engWin = [s \in EngShards |-> NewWindow]
  /\ engWorker = NewWorkers /\ engSave = NewSavers /\ engPhase = "up"

stopClosed == engPhase # "up"

-----------------------------------------------------------------------------
(* EmitSignal. *)

\* The worker that owns a key: signalRouteKey, hashed.
shardOf(k) == engRoute[k]

EmitSignal(k) ==
  /\ engEmitted < EngMaxSignals
  /\ engEmitted' = engEmitted + 1
  /\ LET s == shardOf(k) IN
       \/ /\ Len(engQueue[s]) < EngQueueCap
          /\ engQueue' = [engQueue EXCEPT ![s] = Append(@, [key |-> k, n |-> engEmitted])]
       \/ /\ Len(engQueue[s]) >= EngQueueCap    \* the select's default: dropped
          /\ UNCHANGED engQueue
  /\ UNCHANGED <<engRoute, engWin, engWorker, engMarks, engSave, engDisk, engPhase, engNow>>

-----------------------------------------------------------------------------
(* The marks of a network's addresses. *)

\* A full table takes only addresses it already has.
markedIn(table, k) ==
  LET used == {j \in EngKeys : table[j] >= 0} IN
  IF k \in used \/ Cardinality(used) < EngMaxIPs THEN [table EXCEPT ![k] = engNow] ELSE table

markASNActive(k) == engActive' = markedIn(engActive, k) /\ UNCHANGED engAbusive

\* An address already active keeps the time of its last signal.
markASNAbusive(k) ==
  /\ engAbusive' = markedIn(engAbusive, k)
  /\ engActive' = IF engActive[k] >= 0 THEN engActive ELSE markedIn(engActive, k)

\* asnCleanupLoop: Stop does not wait for it, so a last pass may come late.
cleanupASNMaps ==
  /\ engActive' = keptMarks(engActive) /\ engAbusive' = keptMarks(engAbusive)
  /\ engMarks' # engMarks
  /\ UNCHANGED <<engRoute, engQueue, engWin, engWorker, engSave, engDisk, engPhase,
                 engEmitted, engNow>>

-----------------------------------------------------------------------------
(* worker: one select of stop, its queue and its ticker after another. *)

engSignal(s) ==
  /\ engWorker[s].pc = "select" /\ engQueue[s] # <<>>
  /\ LET sig == Head(engQueue[s]) IN
       /\ markASNActive(sig.key)
       /\ engWin' = [engWin EXCEPT ![s][sig.key] = Append(@, sig.n)]
  /\ engQueue' = [engQueue EXCEPT ![s] = Tail(@)]
  /\ UNCHANGED <<engRoute, engWorker, engSave, engDisk, engPhase, engEmitted, engNow>>

\* The ticker fires: the keys of the window are evaluated one after another.
windowTick(s) ==
  /\ engWorker[s].pc = "select"
  /\ LET left == {k \in EngKeys : engWin[s][k] # <<>>} IN
       /\ left # {}
       /\ engWorker' = [engWorker EXCEPT ![s] = [pc |-> "evaluate", left |-> left]]
  /\ UNCHANGED <<engRoute, engQueue, engWin, engMarks, engSave, engDisk, engPhase,
                 engEmitted, engNow>>

\* One key, in the order of the map; after the last one the window is empty again.
evaluateKey(s, k) ==
  /\ engWorker[s].pc = "evaluate" /\ k \in engWorker[s].left
  /\ IF Len(engWin[s][k]) >= EngThreshold THEN markASNAbusive(k) ELSE UNCHANGED engMarks
  /\ engWorker' = [engWorker EXCEPT ![s] =
       [pc |-> IF @.left = {k} THEN "select" ELSE "evaluate", left |-> @.left \ {k}]]
  /\ engWin' = [engWin EXCEPT ![s] =
       IF engWorker[s].left = {k} THEN NewWindow ELSE @]
  /\ UNCHANGED <<engRoute, engQueue, engSave, engDisk, engPhase, engEmitted, engNow>>

workerExit(s) ==
  /\ stopClosed /\ engWorker[s].pc = "select"
  /\ engWorker' = [engWorker EXCEPT ![s].pc = "gone"]
  /\ UNCHANGED <<engRoute, engQueue, engWin, engMarks, engSave, engDisk, engPhase,
                 engEmitted, engNow>>

-----------------------------------------------------------------------------
(* saveState and the two that run it. *)

engSaving(p, pc) == engSave' = [engSave EXCEPT ![p].pc = pc]

\* The data goes to the temporary file.
stateWritten(data) == engTmp' = data /\ UNCHANGED engFile

\* The maps are copied under their lock; the rest runs outside it.
stateSnapshot(p) ==
  /\ engSave[p].pc = "idle"
  /\ \/ p = "loop" /\ ~stopClosed
     \/ p = "stop" /\ engPhase = "save"
  /\ engSave' = [engSave EXCEPT ![p] =
       [pc |-> "open", snap |->
          [st |-> "whole", active |-> keptMarks(engActive), abusive |-> keptMarks(engAbusive)]]]
  /\ UNCHANGED <<engRoute, engQueue, engWin, engWorker, engMarks, engDisk, engPhase,
                 engEmitted, engNow>>

\* WriteFile truncates before it writes.
stateWrite(p) ==
  /\ \/ engSave[p].pc = "open" /\ stateWritten(Torn) /\ engSaving(p, "write")
     \/ engSave[p].pc = "write" /\ stateWritten(engSave[p].snap) /\ engSaving(p, "rename")
  /\ UNCHANGED <<engRoute, engQueue, engWin, engWorker, engMarks, engPhase, engEmitted, engNow>>

\* Stop returns when its own save is over, whatever came of it.
stateSaveEnd(p, ok) ==
  /\ engSaving(p, "idle")
  /\ engPhase' = IF p = "loop" THEN engPhase ELSE IF ok THEN "stopped" ELSE "unsaved"

stateRename(p) ==
  /\ engSave[p].pc = "rename"
  /\ engFile' = IF engTmp = Absent THEN engFile ELSE engTmp
  /\ engTmp' = Absent
  /\ stateSaveEnd(p, TRUE)
  /\ UNCHANGED <<engRoute, engQueue, engWin, engWorker, engMarks, engEmitted, engNow>>

\* MkdirAll or WriteFile fails: a warning, and the old file stays.
stateSaveFails(p) ==
  /\ engSave[p].pc \in {"open", "write"}
  /\ stateSaveEnd(p, FALSE)
  /\ UNCHANGED <<engRoute, engQueue, engWin, engWorker, engMarks, engDisk, engEmitted, engNow>>

\* stateSaveLoop sees stop and closes stateSaveDone.
saverLeaves == engSave["loop"].pc = "idle" /\ stopClosed

saverExit ==
  /\ saverLeaves
  /\ engSaving("loop", "gone")
  /\ UNCHANGED <<engRoute, engQueue, engWin, engWorker, engMarks, engDisk, engPhase,
                 engEmitted, engNow>>

-----------------------------------------------------------------------------
(* Stop. *)

stopCall ==
  /\ engPhase = "up"
  /\ engPhase' = "saver"
  /\ UNCHANGED <<engRoute, engQueue, engWin, engWorker, engMarks, engSave, engDisk,
                 engEmitted, engNow>>

\* Mutant: Stop does not wait for the workers.
workersDoneNot == TRUE

saverDone == engSave["loop"].pc = "gone"
workersDone == \A s \in EngShards : engWorker[s].pc = "gone"

stopWait ==
  /\ \/ engPhase = "saver" /\ saverDone /\ engPhase' = "workers"
     \/ engPhase = "workers" /\ workersDone /\ engPhase' = "save"
  /\ UNCHANGED <<engRoute, engQueue, engWin, engWorker, engMarks, engSave, engDisk,
                 engEmitted, engNow>>

\* The process is killed, or has ended, and starts again.
engRestart ==
  /\ UNCHANGED <<engRoute, engDisk, engEmitted, engNow>>
  /\ engActive' = stateLoaded.active /\ engAbusive' = stateLoaded.abusive
  /\ engQueue' = NewQueues /\ engWin' = [s \in EngShards |-> NewWindow]
  /\ engWorker' = NewWorkers /\ engSave' = NewSavers /\ engPhase' = "up"

engTick ==
  /\ engNow < EngMaxTime /\ engNow' = engNow + 1
  /\ UNCHANGED <<engRoute, engQueue, engWin, engWorker, engMarks, engSave, engDisk, engPhase,
                 engEmitted>>

workerStep(s) == engSignal(s) \/ windowTick(s) \/ workerExit(s)
                 \/ \E k \in EngKeys : evaluateKey(s, k)
stateSaveStep(p)   == stateWrite(p) \/ stateRename(p) \/ stateSaveFails(p)

EngineNext ==
  \/ \E k \in EngKeys : EmitSignal(k)
  \/ \E s \in EngShards : workerStep(s)
  \/ \E p \in Savers : stateSnapshot(p) \/ stateSaveStep(p)
  \/ saverExit \/ stopCall \/ stopWait \/ cleanupASNMaps \/ engRestart \/ engTick

EngineSpec == EngineInit /\ [][EngineNext]_engVars

\* Goroutines run; a select that finds stop closed leaves sooner or later; the operator
\* need not stop the engine, and restarts are not owed.
EngineFairness ==
  /\ \A s \in EngShards : WF_engVars(\E k \in EngKeys : evaluateKey(s, k))
  /\ SF_engVars(\E s \in EngShards : workerExit(s))
  /\ \A p \in Savers : WF_engVars(stateSaveStep(p))
  /\ WF_engVars(stateSnapshot("stop")) /\ WF_engVars(saverExit) /\ WF_engVars(stopWait)

-----------------------------------------------------------------------------
(* Properties. *)

\* Worker s holds a signal of key k, in its window or in its queue.
engHolds(s, k) ==
  engWin[s][k] # <<>> \/ \E i \in 1..Len(engQueue[s]) : engQueue[s][i].key = k

\* What it holds of the key is in the order of emission: the window, then the queue.
engInOrder(s, k) ==
  LET win == engWin[s][k]
      queue == engQueue[s]
      ofKey == {i \in 1..Len(queue) : queue[i].key = k}
  IN /\ \A i, j \in 1..Len(win) : i < j => win[i] < win[j]
     /\ \A i \in 1..Len(win), j \in ofKey : win[i] < queue[j].n
     /\ \A i, j \in ofKey : i < j => queue[i].n < queue[j].n

\* A key's signals are all with one worker and in the order they were emitted, so the
\* thresholds of evaluateWindow see the whole window (EmitSignal, worker).
EngWindowWhole ==
  \A k \in EngKeys, s \in EngShards :
    /\ engHolds(s, k) => \A t \in EngShards \ {s} : ~engHolds(t, k)
    /\ engInOrder(s, k)

\* When Stop has returned after a save that worked, every mark that is still fresh is in
\* the file, with its time: no worker marked after the copy, no older copy came later
\* (Stop, stateSaveLoop, saveState).
EngStoppedSaved ==
  engPhase = "stopped" =>
    \A k \in EngKeys :
      /\ unexpired(engActive[k]) => engFile.active[k] = engActive[k]
      /\ unexpired(engAbusive[k]) => engFile.abusive[k] = engAbusive[k]

\* Wherever the process is killed, the state file is one saveState finished (saveState).
EngFileWhole == engFile # Torn

\* Stop returns, unless the process is killed first (Stop, stateSaveLoop, worker).
EngStopReturns == []<>(engPhase \in {"stopped", "unsaved", "up"})

\* Neither a worker, a save, Stop nor a kill of the process loses part of what
\* the engine knows, and Stop returns (EmitSignal, worker, saveState, Stop).
EngineLosesNothing ==
  /\ [](EngWindowWhole /\ EngStoppedSaved /\ EngFileWhole)
  /\ EngStopReturns
=============================================================================
