----------------------------- MODULE HandshakePoll -----------------------------
(***************************************************************************)
(* How the collector reports handshakes nobody finished                    *)
(* (sendPendingHandshakes of pkg/collector/service.go, the map walker of   *)
(* pkg/collector/ebpf/walk.go, and the TC programs that fill the map).     *)
(* The kernel keeps a pending handshake per session until its final ACK or *)
(* until the LRU map needs the room.  A poll walks the map, collects what  *)
(* has been pending too long, deletes it in batches and reports, per       *)
(* source, what it deleted.  Packets keep arriving in between.             *)
(* The IPv6 half of the function is the same over maps of its own.         *)
(***************************************************************************)
EXTENDS Integers, Sequences, FiniteSets, FiniteSetsExt, SequencesExt, Functions

CONSTANTS
  HpKeys,      \* sessions
  HpSource,    \* session -> source address
  HpAllowed,   \* allowlisted sources
  HpTimeout,   \* handshakeTimeout
  HpSources,   \* maxBatchSize: sources one poll selects
  HpChunk,     \* keys of one BatchDelete
  HpRoom,      \* max_entries of the kernel map
  HpMaxTime, HpMaxTries \* bounds of the model: the clock, handshakes begun

ASSUME HpAssumption ==
  /\ HpTimeout \in Nat
  /\ {HpSources, HpChunk, HpRoom} \subseteq Nat \ {0}

VARIABLES
  hpMap,    \* pending_handshakes: session -> [id, begin, synack]
  hpFate,   \* handshake -> [key, is]: its session and what became of it
  hpPoll,   \* the poller
  hpBatch,  \* whether the kernel has batch operations (not MapWalker.noBatch)
  hpSignals, \* signals sent, in order: [src, ids]
  hpNow

hpVars == <<hpMap, hpFate, hpPoll, hpBatch, hpSignals, hpNow>>

hpIdle == [pc |-> "idle"]
hpNone == [k \in {} |-> 0]
hpDrop(f, K) == [k \in DOMAIN f \ K |-> f[k]]
hpBegun == Len(hpFate)

HandshakePollInit ==
  /\ hpMap = hpNone /\ hpFate = <<>> /\ hpPoll = hpIdle
  /\ hpBatch \in BOOLEAN /\ hpSignals = <<>> /\ hpNow = 1

-----------------------------------------------------------------------------
(* The kernel. *)

\* A SYN opens an entry unless the session has one; a full LRU map evicts another.
syn(k) ==
  /\ k \notin DOMAIN hpMap /\ hpBegun < HpMaxTries
  /\ \E out \in SUBSET DOMAIN hpMap :
       /\ Cardinality(out) = (IF Cardinality(DOMAIN hpMap) < HpRoom THEN 0 ELSE 1)
       /\ hpMap' = [x \in (DOMAIN hpMap \ out) \cup {k} |->
            IF x = k THEN [id |-> hpBegun + 1, begin |-> hpNow, synack |-> 0] ELSE hpMap[x]]
       /\ hpFate' = Append([i \in 1..hpBegun |->
            IF hpFate[i].is = "pending" /\ \E x \in out : hpMap[x].id = i
            THEN [hpFate[i] EXCEPT !.is = "evicted"] ELSE hpFate[i]], [key |-> k, is |-> "pending"])
  /\ UNCHANGED <<hpPoll, hpBatch, hpSignals, hpNow>>

synAck(k) ==
  /\ k \in DOMAIN hpMap /\ hpMap[k].synack = 0
  /\ hpMap' = [hpMap EXCEPT ![k].synack = hpNow]
  /\ UNCHANGED <<hpFate, hpPoll, hpBatch, hpSignals, hpNow>>

\* The final ACK of an answered handshake.
ack(k) ==
  /\ k \in DOMAIN hpMap /\ hpMap[k].synack # 0
  /\ hpMap' = hpDrop(hpMap, {k})
  /\ hpFate' = [hpFate EXCEPT ![hpMap[k].id].is = IF @ = "pending" THEN "completed" ELSE @]
  /\ UNCHANGED <<hpPoll, hpBatch, hpSignals, hpNow>>

hpTick ==
  /\ hpNow < HpMaxTime /\ hpNow' = hpNow + 1
  /\ UNCHANGED <<hpMap, hpFate, hpPoll, hpBatch, hpSignals>>

-----------------------------------------------------------------------------
(* The poll: the walk. *)

pendingHandshakeExpired(now, begin) == begin # 0 /\ now >= begin /\ now - begin >= HpTimeout

\* The clock is read once.  Sessions that appear later may or may not be seen.
pollStart ==
  /\ hpPoll.pc = "idle"
  /\ \E seen \in SUBSET HpKeys :
       /\ DOMAIN hpMap \subseteq seen
       /\ hpPoll' = [pc |-> "walk", now |-> hpNow, left |-> seen, found |-> <<>>]
  /\ UNCHANGED <<hpMap, hpFate, hpBatch, hpSignals, hpNow>>

selected(found) == {HpSource[found[i].key] : i \in DOMAIN found}

\* An expired entry is kept with its value, if its source is selected or may still be.
keptOf(found, k, now) ==
  IF /\ pendingHandshakeExpired(now, hpMap[k].begin)
     /\ HpSource[k] \in selected(found) \/ Cardinality(selected(found)) < HpSources
  THEN Append(found, [key |-> k, val |-> hpMap[k]]) ELSE found

\* One entry, in the order of the hash table.
walkEntry ==
  /\ hpPoll.pc = "walk" /\ hpPoll.left # {}
  /\ \E k \in hpPoll.left :
       hpPoll' = [hpPoll EXCEPT !.left = @ \ {k},
         !.found = IF k \in DOMAIN hpMap THEN keptOf(@, k, hpPoll.now) ELSE @]
  /\ UNCHANGED <<hpMap, hpFate, hpBatch, hpSignals, hpNow>>

\* The walk ends; without batch operations an iterator may also abort under churn.
walkEnds ==
  /\ hpPoll.pc = "walk" /\ (hpPoll.left = {} \/ ~hpBatch)
  /\ hpPoll' = [pc |-> "delete", found |-> hpPoll.found, start |-> 1, counted |-> {}]
  /\ UNCHANGED <<hpMap, hpFate, hpBatch, hpSignals, hpNow>>

-----------------------------------------------------------------------------
(* deleteKeys.  A batch stops at the first key that is gone; the keys it   *)
(* deleted are counted, that key is skipped.                               *)

stillThere(i) == hpPoll.found[i].key \in DOMAIN hpMap

chunkEnd == Min({hpPoll.start + HpChunk - 1, Len(hpPoll.found)})

\* The keys a chunk deletes.
consumed(n) == {hpPoll.found[i].key : i \in hpPoll.start..(hpPoll.start + n - 1)}

\* How many keys of the chunk go before the first one that is missing.
deletedOf(last) ==
  LET gone == {i \in hpPoll.start..last : ~stillThere(i)}
  IN (IF gone = {} THEN last + 1 ELSE Min(gone)) - hpPoll.start

\* Mutant: every key of the chunk is counted, gone or not.
countedAll(n, last) == hpPoll.start..last

\* The indices onDeleted is called with.
countedOf(n, last) == hpPoll.start..(hpPoll.start + n - 1)

\* Entries whose key is deleted under another handshake of the session.
fateOf(h, I, n) ==
  LET D == hpPoll.start..(hpPoll.start + n - 1)
      C == {hpPoll.found[i].val.id : i \in I}
      T == {hpMap[hpPoll.found[i].key].id : i \in D}
  IN IF h \in C THEN (IF hpFate[h].is = "pending" \/ h \in T THEN "reported" ELSE hpFate[h].is)
     ELSE IF h \in T THEN "displaced" ELSE hpFate[h].is

deleteChunk ==
  /\ hpPoll.pc = "delete" /\ hpPoll.start <= Len(hpPoll.found)
  /\ LET last == IF hpBatch THEN chunkEnd ELSE hpPoll.start
         n == deletedOf(last)
         I == countedOf(n, last) IN
     /\ hpMap' = hpDrop(hpMap, consumed(n))
     /\ hpPoll' = [hpPoll EXCEPT !.start = IF @ + n > last THEN last + 1 ELSE @ + n + 1,
                                 !.counted = @ \cup I]
     /\ hpFate' = [h \in DOMAIN hpFate |-> [hpFate[h] EXCEPT !.is = fateOf(h, I, n)]]
  /\ UNCHANGED <<hpBatch, hpSignals, hpNow>>

\* One signal per source that is not allowlisted.
sendCounts ==
  /\ hpPoll.pc = "delete" /\ hpPoll.start > Len(hpPoll.found)
  /\ LET srcs == {HpSource[hpPoll.found[i].key] : i \in hpPoll.counted} \ HpAllowed IN
     hpSignals' = hpSignals \o SetToSeq(
       {[src |-> s, ids |-> {hpPoll.found[i].val.id : i \in {j \in hpPoll.counted : HpSource[hpPoll.found[j].key] = s}}]
         : s \in srcs})
  /\ hpPoll' = hpIdle
  /\ UNCHANGED <<hpMap, hpFate, hpBatch, hpNow>>

HandshakePollNext ==
  \/ \E k \in HpKeys : syn(k) \/ synAck(k) \/ ack(k)
  \/ hpTick
  \/ pollStart \/ walkEntry \/ walkEnds \/ deleteChunk \/ sendCounts

HandshakePollSpec == HandshakePollInit /\ [][HandshakePollNext]_hpVars

-----------------------------------------------------------------------------
(* Properties. *)

\* A handshake is reported in one signal only, whatever the polls overlap with:
\* the entry is consumed with the report.
HpReportedOnce ==
  \A i, j \in DOMAIN hpSignals : i # j => hpSignals[i].ids \cap hpSignals[j].ids = {}

\* A handshake the kernel completed or evicted before the delete is reported
\* only if its session had begun another one by then (the delete removes the
\* entry of the session, whichever handshake it is of).
HpFinishedSpared ==
  \A s \in Range(hpSignals) : \A h \in s.ids :
    hpFate[h].is \in {"completed", "evicted"} =>
      \E g \in DOMAIN hpFate : g > h /\ hpFate[g] = [key |-> hpFate[h].key, is |-> "displaced"]

\* No handshake disappears: one that is neither finished nor evicted is in the
\* map, or it is being counted by the poll, or it has been reported (unless its
\* source is allowlisted), or it was displaced as above.
HpAllAccounted ==
  LET inMap == {hpMap[k].id : k \in DOMAIN hpMap}
      inPoll == IF hpPoll.pc = "delete" THEN {hpPoll.found[i].val.id : i \in hpPoll.counted} ELSE {}
      told == UNION {s.ids : s \in Range(hpSignals)}
  IN \A h \in DOMAIN hpFate :
       /\ hpFate[h].is = "pending" => h \in inMap
       /\ HpSource[hpFate[h].key] \notin HpAllowed =>
            /\ hpFate[h].is = "reported" => h \in inPoll \cup told
            /\ hpFate[h].is = "displaced" =>
                 \E g \in inPoll \cup told : g < h /\ hpFate[g].key = hpFate[h].key

\* Every incomplete handshake is reported once, none that was completed and
\* none not at all, whatever the kernel does between the walk and the deletes
\* (sendPendingHandshakes).
HandshakesToldOnce == HpReportedOnce /\ HpFinishedSpared /\ HpAllAccounted
=============================================================================
