------------------------------ MODULE BlockTable ------------------------------
(***************************************************************************)
(* A collector's block table and allowlists (pkg/collector/ebpf/actions.go *)
(* and allowlist.go, driven by executeCommand and runBlockGC of            *)
(* pkg/collector/service.go).                                              *)
(*                                                                         *)
(* Two goroutines write the kernel's block table without a common lock:    *)
(* the one that executes the analyzer's commands, and the garbage          *)
(* collector, which first collects the expired blocks and then removes     *)
(* each with a lookup and a delete.  The allowlist exists twice, as the    *)
(* collector's list and in the kernel maps, and only the command goroutine *)
(* changes it.  Every map operation is a step of its own.                  *)
(*                                                                         *)
(* The two address families have maps of their own that work alike; here   *)
(* they are one.  Times are ticks of the monotonic clock, which starts at  *)
(* 1; 0 in the table stands for no entry.                                  *)
(***************************************************************************)
EXTENDS Integers, FiniteSets

CONSTANTS
  Addrs,          \* source addresses
  Private,        \* loopback, private and link-local addresses
  Nets,           \* networks that may be allowlisted
  Base,           \* Base[n]: the address of network n
  HostNet,        \* HostNet[a]: the network of a alone
  Members,        \* Members[n]: the addresses network n contains
  Configured,     \* Configured[n]: how often -allowlist names network n
  BlockDuration,  \* -block-duration, 0 for permanent blocks
  TableSize,      \* BLOCK_MAP_SIZE
  TableMaxTime,   \* bound: last tick of the clock
  MaxCommands     \* bound: commands executed

ASSUME AddressAssumption ==
  /\ Private \subseteq Addrs
  /\ Base \in [Nets -> Addrs]
  /\ HostNet \in [Addrs -> Nets]
  /\ Members \in [Nets -> SUBSET Addrs]
  /\ \A a \in Addrs : Base[HostNet[a]] = a /\ Members[HostNet[a]] = {a}
  /\ Configured \in [Nets -> Nat]
ASSUME SizeAssumption ==
  /\ BlockDuration \in Nat
  /\ TableSize \in Nat \ {0}
  /\ TableMaxTime \in Nat \ {0}
  /\ MaxCommands \in Nat

VARIABLES
  tableNow,     \* the monotonic clock
  table,        \* table[a]: start of the block of a, 0 for none
  allowedNets,  \* allowedNets[n]: entries of n in the collector's list (its order is never used)
  kernelAllow,  \* kernel: networks in allowlist_v4 and allowlist_v6
  cmd,          \* the command being executed
  gc,           \* the pass of the garbage collector
  mapFailed,    \* history: an allowlist map operation failed
  commands      \* history: commands executed

tableVars == <<tableNow, table, allowedNets, kernelAllow, cmd, gc, mapFailed, commands>>

TableIdle   == [pc |-> "idle", addr |-> {}, at |-> 0, nets |-> {}]
NoPass == [pc |-> "idle", at |-> 0, todo |-> {}, expired |-> {}, block |-> {},
           dirty |-> FALSE, reput |-> FALSE]

Blocked == {a \in Addrs : table[a] # 0}

\* The networks a list names.
Listed(nets) == {n \in Nets : nets[n] > 0}

\* blockExpired: a block from the clock's future and a permanent one are active.
blockExpired(t, at) == BlockDuration > 0 /\ at < t /\ t - at >= BlockDuration

-----------------------------------------------------------------------------
(***************************************************************************)
(* executeCommand.  A command is counted when it starts.                   *)
(***************************************************************************)

\* BLOCK_IP up to its clock read.  BlockIP also looks at Maps.AllowedNets,
\* a field nothing assigns, so that check never finds a network.
BlockIP(a) ==
  /\ cmd = TableIdle
  /\ commands < MaxCommands
  /\ commands' = commands + 1
  /\ cmd' = IF a \in Private THEN TableIdle
            ELSE [TableIdle EXCEPT !.pc = "block", !.addr = {a}, !.at = tableNow]
  /\ UNCHANGED <<tableNow, table, allowedNets, kernelAllow, gc, mapFailed>>

\* The table changes under a pass: its iteration may abort, and the block it
\* has looked up may be another one now.
passSees(A) ==
  IF gc.pc = "idle" THEN gc
  ELSE [gc EXCEPT !.dirty = TRUE,
                  !.reput = @ \/ \E b \in gc.block : b.addr \in A]

\* The Put: a full table evicts some other entry (the map is an LRU hash).
putBlock ==
  /\ cmd.pc = "block"
  /\ \E a \in cmd.addr, out \in SUBSET Blocked :
       /\ IF a \in Blocked \/ Cardinality(Blocked) < TableSize
          THEN out = {}
          ELSE Cardinality(out) = 1
       /\ table' = [x \in Addrs |-> IF x = a THEN cmd.at
                                    ELSE IF x \in out THEN 0 ELSE table[x]]
       /\ gc' = passSees({a})
  /\ cmd' = TableIdle
  /\ UNCHANGED <<tableNow, allowedNets, kernelAllow, mapFailed, commands>>

putBlockFails ==
  /\ cmd.pc = "block"
  /\ cmd' = TableIdle
  /\ UNCHANGED <<tableNow, table, allowedNets, kernelAllow, gc, mapFailed, commands>>

UnblockIP(a) ==
  /\ cmd = TableIdle
  /\ commands < MaxCommands
  /\ commands' = commands + 1
  /\ table' = [table EXCEPT ![a] = 0]
  /\ gc' = passSees({})
  /\ UNCHANGED <<tableNow, allowedNets, kernelAllow, cmd, mapFailed>>

\* ALLOWLIST_IP: the collector's list first (duplicates are kept), ...
AllowlistIP(a) ==
  /\ cmd = TableIdle
  /\ commands < MaxCommands
  /\ commands' = commands + 1
  /\ allowedNets' = [allowedNets EXCEPT ![HostNet[a]] = @ + 1]
  /\ cmd' = [TableIdle EXCEPT !.pc = "allow", !.nets = {HostNet[a]}]
  /\ UNCHANGED <<tableNow, table, kernelAllow, gc, mapFailed>>

\* ... then the kernel's.  A failure is logged and the list keeps the entry.
AddAllowlistEntry(ok) ==
  /\ cmd.pc = "allow"
  /\ kernelAllow' = IF ok THEN kernelAllow \cup cmd.nets ELSE kernelAllow
  /\ mapFailed' = (mapFailed \/ ~ok)
  /\ cmd' = TableIdle
  /\ UNCHANGED <<tableNow, table, allowedNets, gc, commands>>

\* Mutant of RemoveAllowlistIP: only one entry is taken off the list.
RemoveAllowlistIPFirst(a) ==
  LET gone == {n \in Listed(allowedNets) : Base[n] = a}
  IN  /\ cmd = TableIdle
      /\ commands < MaxCommands
      /\ commands' = commands + 1
      /\ \/ gone = {} /\ UNCHANGED <<allowedNets, cmd>>
         \/ \E n \in gone :
              /\ allowedNets' = [allowedNets EXCEPT ![n] = @ - 1]
              /\ cmd' = [TableIdle EXCEPT !.pc = "remove", !.nets = {n}]
      /\ UNCHANGED <<tableNow, table, kernelAllow, gc, mapFailed>>

\* REMOVE_ALLOWLIST_IP takes off every network with that address, whatever its
\* length, ...
RemoveAllowlistIP(a) ==
  LET gone == {n \in Listed(allowedNets) : Base[n] = a}
  IN  /\ cmd = TableIdle
      /\ commands < MaxCommands
      /\ commands' = commands + 1
      /\ allowedNets' = [n \in Nets |-> IF Base[n] = a THEN 0 ELSE allowedNets[n]]
      /\ cmd' = IF gone = {} THEN TableIdle
                ELSE [TableIdle EXCEPT !.pc = "remove", !.nets = gone]
      /\ UNCHANGED <<tableNow, table, kernelAllow, gc, mapFailed>>

\* ... then each of them from the kernel.
RemoveAllowlistEntry(n, ok) ==
  /\ cmd.pc = "remove"
  /\ n \in cmd.nets
  /\ kernelAllow' = IF ok THEN kernelAllow \ {n} ELSE kernelAllow
  /\ mapFailed' = (mapFailed \/ ~ok)
  /\ cmd' = IF cmd.nets = {n} THEN TableIdle ELSE [cmd EXCEPT !.nets = @ \ {n}]
  /\ UNCHANGED <<tableNow, table, allowedNets, gc, commands>>

-----------------------------------------------------------------------------
(***************************************************************************)
(* gcExpiredBlocks.                                                        *)
(***************************************************************************)

\* runBlockGC's ticker: the clock is read once for the whole pass.
startPass ==
  /\ gc.pc = "idle"
  /\ gc' = [NoPass EXCEPT !.pc = "collect", !.at = tableNow, !.todo = Addrs]
  /\ UNCHANGED <<tableNow, table, allowedNets, kernelAllow, cmd, mapFailed, commands>>

\* expiredBlocks meets key a, in the order of the hash.
collectExpired(a) ==
  /\ gc.pc = "collect"
  /\ a \in gc.todo
  /\ gc' = [gc EXCEPT !.todo = @ \ {a},
                      !.pc = IF gc.todo = {a} THEN "remove" ELSE @,
                      !.expired = IF table[a] # 0 /\ blockExpired(gc.at, table[a])
                                  THEN @ \cup {[addr |-> a, at |-> table[a]]} ELSE @]
  /\ UNCHANGED <<tableNow, table, allowedNets, kernelAllow, cmd, mapFailed, commands>>

\* An iteration that the map changed under may abort; the pass is skipped.
abortPass ==
  /\ gc.pc = "collect"
  /\ gc.dirty
  /\ gc' = NoPass
  /\ UNCHANGED <<tableNow, table, allowedNets, kernelAllow, cmd, mapFailed, commands>>

\* Mutant of lookupExpired: the block found is not compared.
lookupExpiredAny(b) ==
  /\ gc.pc = "remove"
  /\ gc.block = {}
  /\ b \in gc.expired
  /\ gc' = [gc EXCEPT !.expired = @ \ {b}, !.reput = FALSE,
                      !.block = IF table[b.addr] # 0 THEN {b} ELSE {}]
  /\ UNCHANGED <<tableNow, table, allowedNets, kernelAllow, cmd, mapFailed, commands>>

\* deleteIfUnchanged: a block that is gone or was renewed is left alone, ...
lookupExpired(b) ==
  /\ gc.pc = "remove"
  /\ gc.block = {}
  /\ b \in gc.expired
  /\ gc' = [gc EXCEPT !.expired = @ \ {b}, !.reput = FALSE,
                      !.block = IF table[b.addr] = b.at THEN {b} ELSE {}]
  /\ UNCHANGED <<tableNow, table, allowedNets, kernelAllow, cmd, mapFailed, commands>>

\* ... and then the key is deleted, whatever it holds by now.
deleteExpired ==
  /\ \E b \in gc.block : table' = [table EXCEPT ![b.addr] = 0]
  /\ gc' = [gc EXCEPT !.block = {}]
  /\ UNCHANGED <<tableNow, allowedNets, kernelAllow, cmd, mapFailed, commands>>

\* An error is logged, and the block is left for the next pass.
deleteFails ==
  /\ gc.block # {}
  /\ gc' = [gc EXCEPT !.block = {}]
  /\ UNCHANGED <<tableNow, table, allowedNets, kernelAllow, cmd, mapFailed, commands>>

endPass ==
  /\ gc.pc = "remove"
  /\ gc.expired = {} /\ gc.block = {}
  /\ gc' = NoPass
  /\ UNCHANGED <<tableNow, table, allowedNets, kernelAllow, cmd, mapFailed, commands>>

TableTick ==
  /\ tableNow < TableMaxTime
  /\ tableNow' = tableNow + 1
  /\ UNCHANGED <<table, allowedNets, kernelAllow, cmd, gc, mapFailed, commands>>

-----------------------------------------------------------------------------

\* Start: SyncAllowlist tries every configured network, and goes on after a
\* failure.  The block table starts empty.
BlockTableInit ==
  /\ tableNow = 1
  /\ table = [a \in Addrs |-> 0]
  /\ allowedNets = Configured
  /\ kernelAllow \in SUBSET Listed(Configured)
  /\ mapFailed = (kernelAllow # Listed(Configured))
  /\ cmd = TableIdle
  /\ gc = NoPass
  /\ commands = 0

CommandStep ==
  \/ putBlock \/ putBlockFails
  \/ \E ok \in BOOLEAN : AddAllowlistEntry(ok)
  \/ \E ok \in BOOLEAN, n \in Nets : RemoveAllowlistEntry(n, ok)

PassStep ==
  \/ startPass
  \/ \E a \in Addrs : collectExpired(a)
  \/ \E b \in gc.expired : lookupExpired(b)
  \/ deleteExpired \/ deleteFails \/ endPass

BlockTableNext ==
  \/ \E a \in Addrs : BlockIP(a) \/ UnblockIP(a) \/ AllowlistIP(a) \/ RemoveAllowlistIP(a)
  \/ CommandStep
  \/ PassStep \/ abortPass
  \/ TableTick

BlockTableSpec == BlockTableInit /\ [][BlockTableNext]_tableVars

\* Goroutines run and the ticker fires; a delete that is tried again and again
\* does not fail every time.  Nothing is assumed of the analyzer or the clock.
BlockTableFairness == WF_tableVars(CommandStep) /\ WF_tableVars(PassStep) /\ SF_tableVars(deleteExpired)

BlockTableFairSpec == BlockTableSpec /\ BlockTableFairness

-----------------------------------------------------------------------------
(* Properties. *)

\* Type invariant: the values every variable takes; private addresses are never
\* in the table.
BlockTableTypeOK ==
  /\ tableNow \in 1..TableMaxTime
  /\ table \in [Addrs -> 0..tableNow]
  /\ Blocked \cap Private = {}
  /\ Cardinality(Blocked) <= TableSize
  /\ allowedNets \in [Nets -> Nat]
  /\ kernelAllow \subseteq Nets
  /\ cmd \in [pc : {"idle", "block", "allow", "remove"}, addr : SUBSET Addrs,
              at : 0..tableNow, nets : SUBSET Nets]
  /\ gc \in [pc : {"idle", "collect", "remove"}, at : 0..tableNow, todo : SUBSET Addrs,
             expired : SUBSET [addr : Addrs, at : 1..tableNow],
             block : SUBSET [addr : Addrs, at : 1..tableNow],
             dirty : BOOLEAN, reput : BOOLEAN]
  /\ mapFailed \in BOOLEAN
  /\ commands \in 0..MaxCommands

\* The garbage collector races renewals: it removes a block that has not
\* expired only if that block was put between its own lookup and delete, the
\* two map operations of deleteIfUnchanged.
GCKeepsActive ==
  [][\A a \in Addrs :
       /\ gc.block # {} /\ gc'.block = {}
       /\ table[a] # 0 /\ table'[a] = 0
       /\ ~blockExpired(tableNow, table[a])
       => gc.reput]_tableVars

\* The two allowlists agree: between commands, unless a map operation failed,
\* XDP bypasses exactly the networks of the collector's list, however often
\* addresses were added and removed and whatever networks share an address.
AllowlistsAgree ==
  cmd = TableIdle /\ ~mapFailed => kernelAllow = Listed(allowedNets)

\* Blocks end: an expired block is removed or renewed.
ExpiredRemoved ==
  \A a \in Addrs \ Private :
     []<>(table[a] = 0 \/ ~blockExpired(tableNow, table[a]))

\* "The collector's userspace block-decision path also honors the same list as
\* a second layer of defense" (README): executing a BLOCK_IP never puts an
\* address of the collector's allowlist into the table.
SecondLayer ==
  [][\A a \in Addrs :
       table[a] = 0 /\ table'[a] # 0
         => \A n \in Listed(allowedNets) : a \notin Members[n]]_tableVars

\* The expiry pass takes blocks out of the table when they have expired, never
\* before, and in the end always (deleteExpiredBlock, deleteIfUnchanged).
ExpiryExact == []BlockTableTypeOK /\ GCKeepsActive /\ ExpiredRemoved
=============================================================================
