------------------------------ MODULE EgressPoll ------------------------------
(***************************************************************************)
(* How the collector turns the kernel's cumulative egress counters into    *)
(* volumes (pkg/collector/egress.go, account_egress_v4 of                  *)
(* protector.bpf.c).  A shadow map holds the counter each client had at    *)
(* the last poll; the difference is credited.  Counters vanish when the    *)
(* LRU map needs room, the shadow map with a restart, by age, or when it   *)
(* is over its cap.  The IPv6 map has the same code and a budget of its    *)
(* own.                                                                    *)
(***************************************************************************)
EXTENDS Integers, FiniteSets, FiniteSetsExt

CONSTANTS
  EgClients, EgAllowed,
  EgSizes,    \* sizes of packets
  EgFloor,    \* EgressMinBytes
  EgBatch,    \* egressMaxBatchSize
  EgHardCap,  \* egressPrevStateHardCap
  EgTTL,      \* egressPrevStateTTL
  EgMaxTime, EgMaxBytes \* bounds of the model: the clock, the bytes of a client

ASSUME EgAssumption == EgSizes \subseteq Nat

VARIABLES
  egBytes,  \* egress_bytes: client -> cumulative counter
  egPrev,   \* prevEgressBytes: client -> [bytes, seen]
  egPoll,   \* the poller
  egSent,   \* client -> the bytes really sent to it
  egTold,   \* client -> the bytes reported of it
  egNow

egVars == <<egBytes, egPrev, egPoll, egSent, egTold, egNow>>

egNone == [c \in {} |-> 0]
egPut(f, c, v) == [x \in DOMAIN f \cup {c} |-> IF x = c THEN v ELSE f[x]]
egIdle == [pc |-> "idle"]

EgressPollInit ==
  /\ egBytes = egNone /\ egPrev = egNone /\ egPoll = egIdle
  /\ egSent = [c \in EgClients |-> 0] /\ egTold = [c \in EgClients |-> 0] /\ egNow = 0

-----------------------------------------------------------------------------
(* The kernel. *)

\* account_egress: the counter grows, or starts with this packet's length.
transmit(c, len) ==
  /\ egSent[c] + len <= EgMaxBytes
  /\ egSent' = [egSent EXCEPT ![c] = @ + len]
  /\ egBytes' = egPut(egBytes, c, IF c \in DOMAIN egBytes THEN egBytes[c] + len ELSE len)
  /\ UNCHANGED <<egPrev, egPoll, egTold, egNow>>

egEvict(c) ==
  /\ c \in DOMAIN egBytes
  /\ egBytes' = [x \in DOMAIN egBytes \ {c} |-> egBytes[x]]
  /\ UNCHANGED <<egPrev, egPoll, egSent, egTold, egNow>>

egTick ==
  /\ egNow < EgMaxTime /\ egNow' = egNow + 1
  /\ UNCHANGED <<egBytes, egPrev, egPoll, egSent, egTold>>

-----------------------------------------------------------------------------
(* sendEgressVolume and pollEgressMap. *)

pollEgress ==
  /\ egPoll.pc = "idle"
  /\ egPoll' = [pc |-> "walk", now |-> egNow, left |-> DOMAIN egBytes, sent |-> 0]
  /\ UNCHANGED <<egBytes, egPrev, egSent, egTold, egNow>>

\* Mutant: a client seen for the first time is credited with its counter.
firstSightWhole(total) == total

\* A client seen for the first time is recorded, not credited.
firstSight(total) == 0

\* deltaEgress: a counter that went backwards was evicted and started anew.
deltaEgress(c, total) ==
  IF c \notin DOMAIN egPrev THEN firstSight(total)
  ELSE IF total < egPrev[c].bytes THEN total
  ELSE total - egPrev[c].bytes

\* The shadow entry is updated whether or not the volume is reported.
visit(c) ==
  /\ egPoll.pc = "walk" /\ c \in egPoll.left
  /\ IF c \notin DOMAIN egBytes
     THEN egPoll' = [egPoll EXCEPT !.left = @ \ {c}] /\ UNCHANGED <<egPrev, egTold>>
     ELSE LET d == deltaEgress(c, egBytes[c])
              told == d > 0 /\ egPoll.sent < EgBatch /\ c \notin EgAllowed /\ d >= EgFloor IN
          /\ egPrev' = egPut(egPrev, c, [bytes |-> egBytes[c], seen |-> egPoll.now])
          /\ egTold' = IF told THEN [egTold EXCEPT ![c] = @ + d] ELSE egTold
          /\ egPoll' = [egPoll EXCEPT !.left = @ \ {c}, !.sent = IF told THEN @ + 1 ELSE @]
  /\ UNCHANGED <<egBytes, egSent, egNow>>

\* pruneEgressState: the clients that stopped; a map over its cap is emptied.
pruneEgress ==
  /\ egPoll.pc = "walk" /\ egPoll.left = {}
  /\ LET young == {c \in DOMAIN egPrev : egPrev[c].seen >= egNow - EgTTL} IN
     egPrev' = IF Cardinality(young) > EgHardCap THEN egNone ELSE [c \in young |-> egPrev[c]]
  /\ egPoll' = egIdle
  /\ UNCHANGED <<egBytes, egSent, egTold, egNow>>

\* The collector restarts: its programs and their maps are loaded anew.
egRestart ==
  /\ egPrev' = egNone /\ egPoll' = egIdle
  /\ egBytes' = egNone
  /\ UNCHANGED <<egSent, egTold, egNow>>

EgressPollNext ==
  \/ \E c \in EgClients : (\E len \in EgSizes : transmit(c, len)) \/ egEvict(c) \/ visit(c)
  \/ egTick \/ pollEgress \/ pruneEgress \/ egRestart

EgressPollSpec == EgressPollInit /\ [][EgressPollNext]_egVars

-----------------------------------------------------------------------------
(* Properties. *)

\* No volume is invented: however counters are evicted, shadow entries pruned
\* and the collector restarted, a client is never reported more bytes than were
\* sent to it.
EgNeverOver == \A c \in EgClients : egTold[c] <= egSent[c]
=============================================================================
