----------------------------- MODULE EventHistory -----------------------------
(***************************************************************************)
(* The per-address event histories                                         *)
(* (pkg/analyzer/aidetection/history.go).  A worker adds an event in three *)
(* sections (look the entry up and hold it, write its history, let it go), *)
(* and a cleanup pass collects candidates, reads each one's age and        *)
(* deletes it, each under its own lock; workers and passes interleave.     *)
(*                                                                         *)
(* An entry is a number, so that a new entry of an address is told from    *)
(* the old one a pass still holds.  A history is the sequence of its       *)
(* events' timestamps: what EventRing is shown to implement.               *)
(***************************************************************************)
EXTENDS Integers, Sequences, FiniteSets

CONSTANTS
  HistWorkers,  \* goroutines that add events; each may run a cleanup pass
  HistIPs,
  HistMax,      \* maxHistories
  HistEvents,   \* maxEvents
  HistMaxAge,   \* maxAge
  HistTrim,     \* a history trims its old events this rarely (5 s)
  HistInterval, \* cleanupInt
  HistEntries,  \* bound of the model: entries ever made
  HistMaxAdds,  \* bound of the model: adds to one entry
  HistMaxTime   \* bound of the model: the clock

ASSUME HistAssumption ==
  /\ HistMax \in Nat \ {0} /\ HistEvents \in Nat \ {0} /\ HistMaxAge \in Nat
  /\ HistTrim \in Nat /\ HistInterval \in Nat
  /\ IsFiniteSet(HistWorkers)

VARIABLES
  histMap,    \* histories: the entry of an address, 0 for none
  histEntry,  \* the entries made so far
  histPass,   \* lastCleanup of the manager
  histTask,   \* what each worker is at
  histNow,    \* the clock
  histWrote   \* auxiliary: the entry and time of each address's last event

histVars == <<histMap, histEntry, histPass, histTask, histNow, histWrote>>

HistIdle == [pc |-> "idle"]

EventHistoryInit ==
  /\ histMap = [ip \in HistIPs |-> 0]
  /\ histEntry = <<>>
  /\ histPass = 0 /\ histNow = 0
  /\ histTask = [w \in HistWorkers |-> HistIdle]
  /\ histWrote = [ip \in HistIPs |-> [entry |-> 0, at |-> 0]]

-----------------------------------------------------------------------------
(* HistoryManager.AddEvent. *)

\* NewEventHistory.
newEntry == [seen |-> histNow, trimmed |-> histNow, events |-> <<>>, active |-> 1, gen |-> 0]

\* A worker that holds entry e, and will run a pass if one is due.
histHolding(w, ip, e) ==
  [histTask EXCEPT ![w] = [pc |-> "write", ip |-> ip, entry |-> e, now |-> histNow,
                           due |-> histNow - histPass > HistInterval]]

\* The first section; a full table refuses a new address.
histLookup(w, ip) ==
  /\ histTask[w].pc = "idle"
  /\ \/ /\ histMap[ip] # 0
        /\ histEntry[histMap[ip]].gen + histEntry[histMap[ip]].active < HistMaxAdds
        /\ histEntry' = [histEntry EXCEPT ![histMap[ip]].active = @ + 1]
        /\ histTask' = histHolding(w, ip, histMap[ip])
        /\ UNCHANGED histMap
     \/ /\ histMap[ip] = 0
        /\ Cardinality({i \in HistIPs : histMap[i] # 0}) < HistMax
        /\ Len(histEntry) < HistEntries
        /\ histEntry' = Append(histEntry, newEntry)
        /\ histMap' = [histMap EXCEPT ![ip] = Len(histEntry')]
        /\ histTask' = histHolding(w, ip, Len(histEntry'))
  /\ histPass' = IF histNow - histPass > HistInterval THEN histNow ELSE histPass
  /\ UNCHANGED <<histNow, histWrote>>

\* The events without the old ones at the front: cleanupOldEventsLocked.
cleanupOldEvents(s) ==
  LET fresh == {i \in 1..Len(s) : s[i] >= histNow - HistMaxAge}
      first == IF fresh = {} THEN Len(s) + 1 ELSE CHOOSE i \in fresh : \A j \in fresh : i <= j
  IN SubSeq(s, first, Len(s))

\* PushBack on a ring of HistEvents cells.
histPushed(s, t) == IF Len(s) = HistEvents THEN Append(Tail(s), t) ELSE Append(s, t)

\* EventHistory.AddEvent.
histWrite(w) ==
  LET t == histTask[w]
      h == histEntry[t.entry]
      trim == histNow - h.trimmed > HistTrim
  IN /\ t.pc = "write"
     /\ histEntry' = [histEntry EXCEPT ![t.entry] =
          [h EXCEPT !.events  = histPushed(IF trim THEN cleanupOldEvents(@) ELSE @, histNow),
                    !.trimmed = IF trim THEN histNow ELSE @,
                    !.seen    = histNow]]
     /\ histWrote' = [histWrote EXCEPT ![t.ip] = [entry |-> t.entry, at |-> histNow]]
     /\ histTask' = [histTask EXCEPT ![w].pc = "finish"]
     /\ UNCHANGED <<histMap, histPass, histNow>>

\* finishAdd; then the pass, when this call found it due.
finishAdd(w) ==
  LET t == histTask[w]
  IN /\ t.pc = "finish"
     /\ histEntry' = [histEntry EXCEPT ![t.entry].gen = @ + 1, ![t.entry].active = @ - 1]
     /\ histTask' = [histTask EXCEPT ![w] =
          IF t.due THEN [pc |-> "collect", now |-> t.now] ELSE HistIdle]
     /\ UNCHANGED <<histMap, histPass, histNow, histWrote>>

-----------------------------------------------------------------------------
(* Cleanup: called by AddEvent, and by cleanupRetainedState with its tick. *)

startPass(w) ==
  /\ histTask[w].pc = "idle"
  /\ histTask' = [histTask EXCEPT ![w] = [pc |-> "collect", now |-> histNow]]
  /\ UNCHANGED <<histMap, histEntry, histPass, histNow, histWrote>>

\* The candidates: the entries nobody holds, with their generation.
histCollect(w) ==
  /\ histTask[w].pc = "collect"
  /\ histTask' = [histTask EXCEPT ![w] =
       [pc |-> "scan", now |-> @.now,
        todo |-> {[ip |-> ip, entry |-> histMap[ip], gen |-> histEntry[histMap[ip]].gen] :
                    ip \in {i \in HistIPs : histMap[i] # 0 /\ histEntry[histMap[i]].active = 0}}]]
  /\ UNCHANGED <<histMap, histEntry, histPass, histNow, histWrote>>

\* One candidate's age is read under its history's lock.
checkAge(w, c) ==
  LET t == histTask[w]
  IN /\ t.pc = "scan" /\ c \in t.todo
     /\ histTask' = [histTask EXCEPT ![w] =
          IF histEntry[c.entry].seen < t.now - HistMaxAge
          THEN [pc |-> "delete", now |-> t.now, todo |-> t.todo \ {c}, cand |-> c]
          ELSE [pc |-> "scan", now |-> t.now, todo |-> t.todo \ {c}]]
     /\ UNCHANGED <<histMap, histEntry, histPass, histNow, histWrote>>

\* Mutant: the generation is not compared.
deletableAnyGen(c) == histMap[c.ip] = c.entry /\ histEntry[c.entry].active = 0

\* deleteExpired's test, under the manager's lock.
deletable(c) ==
  /\ histMap[c.ip] = c.entry
  /\ histEntry[c.entry].active = 0
  /\ histEntry[c.entry].gen = c.gen

deleteExpired(w) ==
  LET t == histTask[w]
  IN /\ t.pc = "delete"
     /\ histMap' = [histMap EXCEPT ![t.cand.ip] = IF deletable(t.cand) THEN 0 ELSE @]
     /\ histTask' = [histTask EXCEPT ![w] = [pc |-> "scan", now |-> t.now, todo |-> t.todo]]
     /\ UNCHANGED <<histEntry, histPass, histNow, histWrote>>

endPass(w) ==
  /\ histTask[w].pc = "scan" /\ histTask[w].todo = {}
  /\ histPass' = histTask[w].now
  /\ histTask' = [histTask EXCEPT ![w] = HistIdle]
  /\ UNCHANGED <<histMap, histEntry, histNow, histWrote>>

histTick ==
  /\ histNow < HistMaxTime
  /\ histNow' = histNow + 1
  /\ UNCHANGED <<histMap, histEntry, histPass, histTask, histWrote>>

EventHistoryNext ==
  \/ \E w \in HistWorkers :
       \/ \E ip \in HistIPs : histLookup(w, ip)
       \/ histWrite(w) \/ finishAdd(w) \/ startPass(w) \/ histCollect(w) \/ deleteExpired(w) \/ endPass(w)
       \/ histTask[w].pc = "scan" /\ \E c \in histTask[w].todo : checkAge(w, c)
  \/ histTick

EventHistorySpec == EventHistoryInit /\ [][EventHistoryNext]_histVars

-----------------------------------------------------------------------------
(* Properties. *)

\* An address with an event younger than maxAge is found by GetHistory, in the
\* very history that event went to: no pass deletes what an add has just
\* refreshed, whatever it read before.
HistNoFreshLost ==
  \A ip \in HistIPs :
    LET wrote == histWrote[ip]
    IN wrote.entry # 0 /\ histNow - wrote.at <= HistMaxAge =>
         /\ histMap[ip] = wrote.entry
         /\ LET h == histEntry[wrote.entry].events IN h[Len(h)] = wrote.at

\* The history a worker is about to write is reachable: its event cannot go to
\* a history no reader will find.
HistHeldReachable ==
  \A w \in HistWorkers :
    histTask[w].pc = "write" => histMap[histTask[w].ip] = histTask[w].entry

\* An event just added is found, and goes where readers look, whatever a
\* cleanup judged before (HistoryManager.AddEvent, Cleanup, deleteExpired).
HistoryKept == HistNoFreshLost /\ HistHeldReachable
=============================================================================
