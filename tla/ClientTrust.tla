------------------------------ MODULE ClientTrust ------------------------------
(***************************************************************************)
(* The client CA bundle of the analyzer's gRPC listener (pkg/grpctls       *)
(* reload.go, revoke.go, server.go, and runClientCAEnforcer of             *)
(* pkg/analyzer/service.go).  The bundle is re-read when its file changes; *)
(* a broken file keeps the last good pool.  A handshake verifies its       *)
(* client with the pool its configuration was built from, and registers    *)
(* the connection afterwards; a sweeper re-verifies the registered         *)
(* connections whenever the pool is another one than the last time.        *)
(*                                                                         *)
(* A pool is [gen, cas]: gen is its identity (the pointer the code         *)
(* compares), cas the authorities in it.                                   *)
(***************************************************************************)
EXTENDS Integers, FiniteSets

CONSTANTS
  CtConns,     \* connections; none is called as the sweeper
  CtIssuer,    \* connection -> the authority that signed its client's certificate
  CtBundles,   \* what the file may hold: sets of authorities; {} does not parse
  CtFirst,     \* what it holds at the start
  CtMaxWrites  \* bound of the model: changes of the file

ASSUME CtAssumption == CtFirst # {} /\ CtFirst \in CtBundles /\ "sweeper" \notin CtConns

VARIABLES
  ctFile,    \* the file: [there, stamp, cas]; a stamp is its time and size
  ctSource,  \* fileSource: [stamp, pool]
  ctReader,  \* who holds the source's mutex after the stat, and the data once read
  ctConn,    \* the connections: [pc, pool], pool the one last verified against
  ctChecked, \* trackingServerCreds.checked
  ctSweep    \* CloseUntrusted: [pc, pool, closing]

ctVars == <<ctFile, ctSource, ctReader, ctConn, ctChecked, ctSweep>>

sweeper == "sweeper"
mutexFree == [pc |-> "free"]
ctAway == [pc |-> "away"]
sweepIdle == [pc |-> "idle"]

\* newFileSource and newTrackingServerCreds: the first load must succeed.
ClientTrustInit ==
  /\ ctFile = [there |-> TRUE, stamp |-> 0, cas |-> CtFirst]
  /\ ctSource = [stamp |-> 0, pool |-> [gen |-> 0, cas |-> CtFirst]]
  /\ ctReader = mutexFree
  /\ ctConn = [c \in CtConns |-> ctAway]
  /\ ctChecked = ctSource.pool
  /\ ctSweep = sweepIdle

verifies(c, pool) == CtIssuer[c] \in pool.cas

\* The operator rewrites the file, in one piece or not, or takes it away.
rewriteFile(b) ==
  /\ ctFile.stamp < CtMaxWrites
  /\ ctFile' = [there |-> TRUE, stamp |-> ctFile.stamp + 1, cas |-> b]
  /\ UNCHANGED <<ctSource, ctReader, ctConn, ctChecked, ctSweep>>

removeFile ==
  /\ ctFile.there /\ ctFile.stamp < CtMaxWrites
  /\ ctFile' = [ctFile EXCEPT !.there = FALSE]
  /\ UNCHANGED <<ctSource, ctReader, ctConn, ctChecked, ctSweep>>

-----------------------------------------------------------------------------
(* fileSource.get.  A caller waits in pc "get"; it leaves with a pool.  *)

\* The caller goes on with the pool: a handshake verifies, the sweeper compares.
handed(w, pool) ==
  IF w = sweeper
  THEN ctSweep' = [pc |-> "compare", pool |-> pool] /\ UNCHANGED ctConn
  ELSE ctConn' = [ctConn EXCEPT ![w] = [pc |-> "verify", pool |-> pool]] /\ UNCHANGED ctSweep

asksSource(w) == IF w = sweeper THEN ctSweep.pc = "get" ELSE ctConn[w].pc = "get"

\* stampsEqual, or a failed stat: the loaded pool stays.
unchangedFile == ~ctFile.there \/ ctFile.stamp = ctSource.stamp

statSource(w) ==
  /\ asksSource(w) /\ ctReader = mutexFree
  /\ IF unchangedFile
     THEN handed(w, ctSource.pool) /\ UNCHANGED <<ctSource, ctReader>>
     ELSE /\ ctSource' = [ctSource EXCEPT !.stamp = ctFile.stamp]
          /\ ctReader' = [pc |-> "read", who |-> w]
          /\ UNCHANGED <<ctConn, ctSweep>>
  /\ UNCHANGED <<ctFile, ctChecked>>

\* os.ReadFile; a missing file is an error, as is one that does not parse.
readSource(w) ==
  /\ ctReader.pc = "read" /\ ctReader.who = w
  /\ ctReader' = [pc |-> "store", who |-> w, data |-> IF ctFile.there THEN ctFile.cas ELSE {}]
  /\ UNCHANGED <<ctFile, ctSource, ctConn, ctChecked, ctSweep>>

\* The pool after a read: a new object, or the previous one after a failure.
reloaded ==
  IF ctReader.data = {} THEN ctSource.pool
  ELSE [gen |-> ctSource.pool.gen + 1, cas |-> ctReader.data]

\* Mutant: the file is looked at again after the read.
stampKeptLate == ctFile.stamp

\* The stamp stays the one seen before the read.
stampKept == ctSource.stamp

storeSource(w) ==
  /\ ctReader.pc = "store" /\ ctReader.who = w
  /\ ctSource' = [stamp |-> stampKept, pool |-> reloaded]
  /\ handed(w, reloaded)
  /\ ctReader' = mutexFree
  /\ UNCHANGED <<ctFile, ctChecked>>

-----------------------------------------------------------------------------
(* A connection: GetConfigForClient takes the pool, the TLS handshake      *)
(* verifies with it, ServerHandshake registers.                            *)

connect(c) ==
  /\ ctConn[c].pc = "away"
  /\ ctConn' = [ctConn EXCEPT ![c] = [pc |-> "get"]]
  /\ UNCHANGED <<ctFile, ctSource, ctReader, ctChecked, ctSweep>>

verifyClient(c) ==
  /\ ctConn[c].pc = "verify"
  /\ ctConn' = [ctConn EXCEPT ![c] =
       IF verifies(c, @.pool) THEN [pc |-> "register", pool |-> @.pool] ELSE ctAway]
  /\ UNCHANGED <<ctFile, ctSource, ctReader, ctChecked, ctSweep>>

\* The connection enters the map unless a pool no sweep has checked yet refuses it.
register(c) ==
  /\ ctConn[c].pc = "register" /\ ctReader = mutexFree
  /\ ctConn' = [ctConn EXCEPT ![c] =
       IF ctSource.pool = ctChecked THEN [pc |-> "open", pool |-> @.pool]
       ELSE IF verifies(c, ctSource.pool) THEN [pc |-> "open", pool |-> ctSource.pool]
       ELSE ctAway]
  /\ UNCHANGED <<ctFile, ctSource, ctReader, ctChecked, ctSweep>>

clientCloses(c) ==
  /\ ctConn[c].pc = "open"
  /\ ctConn' = [ctConn EXCEPT ![c] = ctAway]
  /\ ctSweep' = IF ctSweep.pc = "close" THEN [ctSweep EXCEPT !.closing = @ \ {c}] ELSE ctSweep
  /\ UNCHANGED <<ctFile, ctSource, ctReader, ctChecked>>

-----------------------------------------------------------------------------
(* CloseUntrusted, once per tick of runClientCAEnforcer. *)

sweepTick ==
  /\ ctSweep.pc = "idle"
  /\ ctSweep' = [pc |-> "get"]
  /\ UNCHANGED <<ctFile, ctSource, ctReader, ctConn, ctChecked>>

openConns == {c \in CtConns : ctConn[c].pc = "open"}

\* The registered connections a pool does not trust.
untrusted(pool) == {c \in openConns : ~verifies(c, pool)}

\* Under the lock: nothing to do for the same pool; otherwise all are looked at.
sweepCompare ==
  /\ ctSweep.pc = "compare"
  /\ IF ctSweep.pool = ctChecked
     THEN ctSweep' = sweepIdle /\ UNCHANGED <<ctChecked, ctConn>>
     ELSE LET bad == untrusted(ctSweep.pool) IN
          /\ ctChecked' = ctSweep.pool
          /\ ctConn' = [c \in CtConns |->
               IF c \in openConns \ bad THEN [ctConn[c] EXCEPT !.pool = ctSweep.pool] ELSE ctConn[c]]
          /\ ctSweep' = IF bad = {} THEN sweepIdle ELSE [pc |-> "close", pool |-> ctSweep.pool, closing |-> bad]
  /\ UNCHANGED <<ctFile, ctSource, ctReader>>

sweepClose ==
  /\ ctSweep.pc = "close"
  /\ \/ ctSweep.closing = {} /\ ctSweep' = sweepIdle /\ UNCHANGED ctConn
     \/ \E c \in ctSweep.closing :
          /\ ctConn' = [ctConn EXCEPT ![c] = ctAway]
          /\ ctSweep' = [ctSweep EXCEPT !.closing = @ \ {c}]
  /\ UNCHANGED <<ctFile, ctSource, ctReader, ctChecked>>

sweeperSteps == sweepTick \/ statSource(sweeper) \/ readSource(sweeper) \/ storeSource(sweeper) \/ sweepCompare \/ sweepClose

handshakeSteps(c) == statSource(c) \/ readSource(c) \/ storeSource(c) \/ verifyClient(c) \/ register(c)

ClientTrustNext ==
  \/ \E b \in CtBundles : rewriteFile(b)
  \/ removeFile
  \/ sweeperSteps
  \/ \E c \in CtConns : connect(c) \/ handshakeSteps(c) \/ clientCloses(c)

ClientTrustSpec == ClientTrustInit /\ [][ClientTrustNext]_ctVars

\* The ticker keeps ticking and a goroutine that can run does; the source's
\* mutex is handed on fairly (Go's starvation mode).
ClientTrustFairness ==
  /\ WF_ctVars(sweepTick \/ sweepCompare \/ sweepClose)
  /\ SF_ctVars(statSource(sweeper))
  /\ WF_ctVars(readSource(sweeper) \/ storeSource(sweeper))
  /\ \A c \in CtConns : WF_ctVars(readSource(c) \/ storeSource(c))

-----------------------------------------------------------------------------
(* Properties. *)

fileSettled == ctFile.there /\ ctFile.cas # {} /\ ctFile.stamp = CtMaxWrites

\* The loaded pool is never behind a file it takes for the one it read: when
\* the recorded stamp is the file's and no read is under way, the pool holds
\* what the file holds (a file that does not parse leaves the earlier pool),
\* however the file is rewritten between the stat and the read.
CtLoadedIsFile ==
  (ctReader = mutexFree /\ ctFile.there /\ ctFile.cas # {} /\ ctSource.stamp = ctFile.stamp)
    => ctSource.pool.cas = ctFile.cas

\* A broken or missing file never takes the listener's authorities away: the
\* pool in use always has one, and so every pool a handshake or a sweep holds.
CtAlwaysSomeTrust ==
  /\ ctSource.pool.cas # {} /\ ctChecked.cas # {}
  /\ \A c \in CtConns : ctConn[c].pc \in {"verify", "register", "open"} => ctConn[c].pool.cas # {}

\* Open, last verified against the pool the sweeper checked last or picked by
\* it to be closed, and not trusted by the file in its final form.
revoked(c) ==
  /\ ctConn[c].pc = "open" /\ fileSettled /\ CtIssuer[c] \notin ctFile.cas
  /\ ctConn[c].pool = ctChecked \/ (ctSweep.pc = "close" /\ c \in ctSweep.closing)

\* A rotation does not lose sight of the connections it revokes: such a
\* connection stays revoked until it is closed ...
CtRevokedStays ==
  [][\A c \in CtConns : revoked(c) => revoked(c)' \/ ctConn'[c].pc # "open"]_ctVars

\* ... and it does not stay so forever.
CtRevokedLeaves ==
  /\ CtRevokedStays
  /\ \A c \in CtConns : []<>~revoked(c)

\* The client authorities in force follow the CA file, however it is
\* rewritten, and reach the connections they revoke (fileSource.get,
\* ServerHandshake, CloseUntrusted).
TrustFollowsFile ==
  /\ [](CtLoadedIsFile /\ CtAlwaysSomeTrust)
  /\ CtRevokedLeaves
=============================================================================
