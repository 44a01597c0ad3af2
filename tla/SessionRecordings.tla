--------------------------- MODULE SessionRecordings ---------------------------
(***************************************************************************)
(* Session recordings of labelled addresses                                *)
(* (pkg/analyzer/aidetection/engine.go).  A worker that processes a signal *)
(* puts it into the address's rolling buffer while the address is in the   *)
(* learning window, and then into its recording, if there is one: two      *)
(* sections of two locks.  A recording starts with a copy of the buffer,   *)
(* and a timer of its own ends it.                                         *)
(***************************************************************************)
EXTENDS Integers, Sequences, FiniteSets, SequencesExt

CONSTANTS
  RecWorkers,
  RecIPs,
  RecBuffer,     \* cells of a rolling buffer (100)
  RecMaxIPs,     \* maxPreDetectionIPs
  RecPost,       \* signals a recording takes after its start (500)
  RecLength,     \* how long a recording runs
  RecKeep,       \* maxCompletedRecordings
  RecIdle,       \* a buffer unused for longer is dropped (15 min)
  RecMaxSignals, \* bound of the model: signals
  RecMaxTime     \* bound of the model: the clock

ASSUME RecAssumption ==
  RecBuffer \in Nat \ {0} /\ RecLength \in Nat \ {0} /\ RecKeep \in Nat /\ RecMaxIPs \in Nat

VARIABLES
  recWindow,  \* the addresses in the learning window
  recBuf,     \* preDetectionBuffers, and preDetectionLastSeen
  recSess,    \* sessionRecordings; pre is 0 when there is none
  recTimers,  \* the goroutines that will end recordings: address and time
  recEnding,  \* recordings taken out of the map and not stored yet
  recStored,  \* recordings on disk
  recDone,    \* completedRecordings: the start times
  recTask,    \* the signal each worker is at
  recMade, recNow

recVars == <<recWindow, recBuf, recSess, recTimers, recEnding, recStored, recDone, recTask,
             recMade, recNow>>

RecNone == [start |-> -1, pre |-> <<>>, post |-> <<>>]

SessionRecordingsInit ==
  /\ recWindow = {}
  /\ recBuf = [ip \in RecIPs |-> [sigs |-> <<>>, seen |-> -1]]
  /\ recSess = [ip \in RecIPs |-> RecNone]
  /\ recTimers = {} /\ recEnding = {} /\ recStored = 0 /\ recDone = <<>>
  /\ recTask = [w \in RecWorkers |-> [step |-> 0, ip |-> CHOOSE ip \in RecIPs : TRUE, sig |-> 0]]
  /\ recMade = 0 /\ recNow = 0

recording(ip) == recSess[ip].start >= 0

-----------------------------------------------------------------------------
(* processSignal. *)

\* The two sections, in the order processSignal takes them.
captureOrder == <<"pre", "post">>

recReceive(w, ip) ==
  /\ recTask[w].step = 0 /\ recMade < RecMaxSignals
  /\ recMade' = recMade + 1
  /\ recTask' = [recTask EXCEPT ![w] = [step |-> 1, ip |-> ip, sig |-> recMade']]
  /\ UNCHANGED <<recWindow, recBuf, recSess, recTimers, recEnding, recStored, recDone, recNow>>

atStep(w, name) == recTask[w].step > 0 /\ captureOrder[recTask[w].step] = name

recAdvance(w) ==
  recTask' = [recTask EXCEPT ![w] = IF @.step = 2 THEN [@ EXCEPT !.step = 0, !.sig = 0]
                                    ELSE [@ EXCEPT !.step = 2]]

\* The last RecBuffer signals.
rolled(s, x) == IF Len(s) = RecBuffer THEN Append(Tail(s), x) ELSE Append(s, x)

\* capturePreDetectionEvent, if the address is in the window; a new address
\* finds no room in a full table.
capturePreDetectionEvent(w) ==
  LET t == recTask[w]
      used == {ip \in RecIPs : recBuf[ip].seen >= 0}
      room == t.ip \in used \/ Cardinality(used) < RecMaxIPs
  IN /\ atStep(w, "pre")
     /\ recBuf' = IF t.ip \in recWindow /\ room
                  THEN [recBuf EXCEPT ![t.ip] =
                          [sigs |-> rolled(@.sigs, t.sig), seen |-> recNow]]
                  ELSE recBuf
     /\ recAdvance(w)
     /\ UNCHANGED <<recWindow, recSess, recTimers, recEnding, recStored, recDone, recMade, recNow>>

\* capturePostDetectionEventLocked.
capturePostDetectionEvent(w) ==
  LET t == recTask[w]
  IN /\ atStep(w, "post")
     /\ recSess' = IF recording(t.ip) /\ Len(recSess[t.ip].post) < RecPost
                   THEN [recSess EXCEPT ![t.ip].post = Append(@, t.sig)]
                   ELSE recSess
     /\ recAdvance(w)
     /\ UNCHANGED <<recWindow, recBuf, recTimers, recEnding, recStored, recDone, recMade, recNow>>

-----------------------------------------------------------------------------
(* The operator's labels, and the recordings. *)

\* A report puts the address into the learning window, its expiry takes it out.
recLabel(ip) ==
  /\ recWindow' = recWindow \cup {ip}
  /\ UNCHANGED <<recBuf, recSess, recTimers, recEnding, recStored, recDone, recTask, recMade, recNow>>

recUnlabel(ip) ==
  /\ recWindow' = recWindow \ {ip}
  /\ UNCHANGED <<recBuf, recSess, recTimers, recEnding, recStored, recDone, recTask, recMade, recNow>>

\* Mutant: a second report starts the recording over.
startableAgain(ip) == TRUE

\* An address is recorded once at a time.
startable(ip) == ~recording(ip)

\* startSessionRecording.
startSessionRecording(ip) ==
  /\ startable(ip) /\ recNow + RecLength <= RecMaxTime
  /\ recSess' = [recSess EXCEPT ![ip] = [start |-> recNow, pre |-> recBuf[ip].sigs, post |-> <<>>]]
  /\ recTimers' = recTimers \cup {[ip |-> ip, at |-> recNow + RecLength]}
  /\ UNCHANGED <<recWindow, recBuf, recEnding, recStored, recDone, recTask, recMade, recNow>>

\* Of handleDetection: only addresses in the learning window are recorded.
recordDetection(ip) == ip \in recWindow /\ startSessionRecording(ip)

\* StartRecordingForIP: the endpoints record any address.
StartRecordingForIP(ip) == startSessionRecording(ip)

\* finalizeRecording: the timer takes whatever recording the address has.
finalizeRecording(t) ==
  /\ t \in recTimers /\ t.at <= recNow
  /\ recTimers' = recTimers \ {t}
  /\ recSess' = [recSess EXCEPT ![t.ip] = RecNone]
  /\ recEnding' = IF recording(t.ip) THEN recEnding \cup {<<t.ip, recSess[t.ip].start>>} ELSE recEnding
  /\ UNCHANGED <<recWindow, recBuf, recStored, recDone, recTask, recMade, recNow>>

\* persistSessionRecording, or the in-memory list when it fails.
persistRecording(r) ==
  /\ r \in recEnding
  /\ recEnding' = recEnding \ {r}
  /\ \/ recStored' = recStored + 1 /\ UNCHANGED recDone
     \/ /\ recDone' = IF Len(recDone) = RecKeep THEN Append(Tail(recDone), r) ELSE Append(recDone, r)
        /\ UNCHANGED recStored
  /\ UNCHANGED <<recWindow, recBuf, recSess, recTimers, recTask, recMade, recNow>>

\* Of cleanupRetainedState: buffers nobody has filled for a while.
dropBuffers ==
  LET gone == {ip \in RecIPs : recBuf[ip].seen >= 0 /\ recBuf[ip].seen < recNow - RecIdle}
  IN /\ gone # {}
     /\ recBuf' = [ip \in RecIPs |-> IF ip \in gone THEN [sigs |-> <<>>, seen |-> -1] ELSE recBuf[ip]]
     /\ UNCHANGED <<recWindow, recSess, recTimers, recEnding, recStored, recDone, recTask,
                    recMade, recNow>>

recTick ==
  /\ recNow < RecMaxTime
  /\ recNow' = recNow + 1
  /\ UNCHANGED <<recWindow, recBuf, recSess, recTimers, recEnding, recStored, recDone, recTask, recMade>>

SessionRecordingsNext ==
  \/ \E w \in RecWorkers :
       \/ \E ip \in RecIPs : recReceive(w, ip)
       \/ capturePreDetectionEvent(w) \/ capturePostDetectionEvent(w)
  \/ \E ip \in RecIPs : recLabel(ip) \/ recUnlabel(ip) \/ recordDetection(ip) \/ StartRecordingForIP(ip)
  \/ \E t \in recTimers : finalizeRecording(t)
  \/ \E r \in recEnding : persistRecording(r)
  \/ dropBuffers \/ recTick

SessionRecordingsSpec == SessionRecordingsInit /\ [][SessionRecordingsNext]_recVars

-----------------------------------------------------------------------------
(* Properties. *)

\* A recording has every signal of its address that the buffer has seen, even
\* one that came while it started: from the copy of the buffer or from after
\* its start, unless it is full or the worker is still at it.
RecNothingBetween ==
  \A ip \in RecIPs : recording(ip) /\ Len(recSess[ip].post) < RecPost =>
    \A s \in ToSet(recBuf[ip].sigs) :
      \/ s \in ToSet(recSess[ip].pre) \cup ToSet(recSess[ip].post)
      \/ \E w \in RecWorkers : recTask[w].sig = s

\* A recording ends only when its own time is up: no timer of an earlier
\* recording of the address cuts it short.
RecFullLength ==
  [][\A ip \in RecIPs :
       recording(ip) /\ recSess'[ip].start # recSess[ip].start
         => recNow >= recSess[ip].start + RecLength]_recVars

\* A recording has every signal from its buffer on and runs for its full time
\* (startSessionRecording, finalizeRecording).
RecordingsWhole ==
  /\ []RecNothingBetween
  /\ RecFullLength
=============================================================================
