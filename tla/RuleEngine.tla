------------------------------ MODULE RuleEngine ------------------------------
(***************************************************************************)
(* The collector's rule engine (pkg/collector/rules.go) over the kernel    *)
(* maps it drives (pkg/collector/ebpf/rules.go): rule bodies live in       *)
(* numbered slots, and one trie per address family names the slots of the  *)
(* live rules.  XDP reads a trie and then the bodies, without a lock, so   *)
(* every map write of an install is a step of its own here.                *)
(*                                                                         *)
(* ruleEngine.mu makes installs exclusive; it is held from the clock read  *)
(* on, so time spent waiting for it counts as time spent installing.       *)
(***************************************************************************)
EXTENDS Integers, Sequences, SequencesExt, FiniteSets, Functions

CONSTANTS
  Ids,          \* rule ids
  V4,           \* the ids whose rules are for IPv4 destinations
  Bodies,       \* rule bodies (match and action)
  NoBody,       \* the zeroed body of a slot never written
  Slots,        \* RuleSlots
  MaxRules,     \* RulesMax, per family
  SlotGrace,    \* slotGrace
  CanFail,      \* map operations that may fail: "put", "v4", "v6", "restore"
  InstallTime,  \* bound: ticks an install lasts at most
  ReadTime,     \* bound: ticks XDP works with one trie at most
  RuleMaxTime,  \* bound: last tick of the clock
  MaxInstalls   \* bound: deltas applied

ASSUME RuleSetAssumption == V4 \subseteq Ids /\ IsFiniteSet(Slots)
ASSUME TimesAssumption ==
  /\ SlotGrace \in Nat
  /\ InstallTime \in Nat
  /\ ReadTime \in Nat
  /\ RuleMaxTime \in Nat \ {0}
  /\ SlotGrace > InstallTime + ReadTime

VARIABLES
  ruleNow,    \* the clock
  rules,      \* rules[id]: body of every rule in ruleEngine.rules
  installed,  \* installed[id]: slot and body
  free,       \* free slots, a stack
  retired,    \* replaced slots and when
  job,        \* the install in progress
  installs,   \* history: deltas applied
  body,       \* kernel: scrub_rules[slot]
  used,       \* kernel: rule_buckets[slot] holds a count
  trie,       \* kernel: trie[f][id], the slot the live trie of f gives id
  meant,      \* history: meant[f][id], the body the trie of f was built for
  packet,     \* the packet in XDP that has read its family's trie, if any
  failed      \* history: "v6", an IPv6 swap failed once; "restore", and the IPv4
              \* trie was not put back since the last successful install

engineVars == <<rules, installed, free, retired, job, installs>>
kernelVars == <<body, used, trie, meant>>
ruleEngineVars == <<ruleNow, engineVars, kernelVars, packet, failed>>

NoJob == [pc |-> "idle", next |-> << >>, slots |-> << >>, fresh |-> << >>, at |-> 0]
Families == {"v4", "v6"}

\* Rule sets: partial functions from ids to bodies.
RuleSets == UNION {[D -> Bodies] : D \in SUBSET Ids}

\* scrubrules.SplitFamilies
family(f, D) == IF f = "v4" THEN D \cap V4 ELSE D \ V4

\* releaseRetired
releaseRetired(t) ==
  LET out == {r \in retired : t - r.at >= SlotGrace}
  IN  /\ retired' = retired \ out
      /\ free' = free \o SetToSeq({r.slot : r \in out})

-----------------------------------------------------------------------------
(***************************************************************************)
(* Apply and Expire up to install: the next set, the slots that are kept.  *)
(***************************************************************************)

\* install up to its loop: unchanged rules keep their slot.  A set over the
\* limits is refused after retired slots were released.
startInstall(next) ==
  LET kept == {i \in DOMAIN next \cap DOMAIN installed : installed[i].body = next[i]}
  IN  /\ job.pc = "idle"
      /\ releaseRetired(ruleNow)
      /\ job' = IF \E f \in Families : Cardinality(family(f, DOMAIN next)) > MaxRules
                THEN NoJob
                ELSE [pc |-> "write", next |-> next, fresh |-> << >>, at |-> ruleNow,
                      slots |-> [i \in kept |-> installed[i].slot]]

\* A delta (replace, removals, upserts) can ask for any rule set.  A delta that
\* does not parse changes nothing.
Apply(next) ==
  /\ installs < MaxInstalls
  /\ installs' = installs + 1
  /\ startInstall(next)
  /\ UNCHANGED <<ruleNow, rules, installed, kernelVars, packet, failed>>

\* Expire finds the rules D past their expiry; without any it only releases.
Expire(D) ==
  /\ job.pc = "idle"
  /\ IF D = {} THEN releaseRetired(ruleNow) /\ UNCHANGED <<job, installs>>
     ELSE /\ installs < MaxInstalls
          /\ installs' = installs + 1
          /\ startInstall(Restrict(rules, DOMAIN rules \ D))
  /\ UNCHANGED <<ruleNow, rules, installed, kernelVars, packet, failed>>

-----------------------------------------------------------------------------
(***************************************************************************)
(* install.                                                                *)
(***************************************************************************)

\* rollback: the slots taken by this install are free again.
rollback ==
  /\ free' = free \o job.fresh
  /\ job' = NoJob

\* A slot for a new or changed rule: taken, its body written, its rate window
\* reset.  Any of it may fail, and then the install is rolled back.
takeSlot(i) ==
  /\ job.pc = "write"
  /\ i \in DOMAIN job.next \ DOMAIN job.slots
  /\ free # << >>
  /\ LET s == Last(free)
     IN  /\ free' = Front(free)
         /\ body' = [body EXCEPT ![s] = job.next[i]]
         /\ job' = [job EXCEPT !.pc = "reset", !.fresh = Append(@, s),
                               !.slots = [x \in DOMAIN @ \cup {i} |->
                                            IF x = i THEN s ELSE @[x]]]
  /\ UNCHANGED <<ruleNow, rules, installed, retired, installs, used, trie, meant, packet, failed>>

\* PutRuleBody fails: the slot was already taken and is given back.
putFails ==
  /\ job.pc = "write"
  /\ DOMAIN job.next \ DOMAIN job.slots # {}
  /\ free # << >>
  /\ "put" \in CanFail
  /\ free' = Front(free) \o job.fresh \o <<Last(free)>>
  /\ job' = NoJob
  /\ UNCHANGED <<ruleNow, rules, installed, retired, installs, kernelVars, packet, failed>>

noFreeSlot ==
  /\ job.pc = "write"
  /\ DOMAIN job.next \ DOMAIN job.slots # {}
  /\ free = << >>
  /\ rollback
  /\ UNCHANGED <<ruleNow, rules, installed, retired, installs, kernelVars, packet, failed>>

ResetRuleBucket ==
  /\ job.pc = "reset"
  /\ used' = [used EXCEPT ![Last(job.fresh)] = FALSE]
  /\ job' = [job EXCEPT !.pc = "write"]
  /\ UNCHANGED <<ruleNow, rules, installed, free, retired, installs, body, trie, meant,
                 packet, failed>>

resetFails ==
  /\ job.pc = "reset"
  /\ "put" \in CanFail
  /\ rollback
  /\ UNCHANGED <<ruleNow, rules, installed, retired, installs, kernelVars, packet, failed>>

\* SwapRuleTrie: one outer-map update makes the new trie of family f live.
SwapRuleTrie(f, set, slots) ==
  LET D == family(f, DOMAIN set)
  IN  /\ trie' = [trie EXCEPT ![f] = [i \in D |-> slots[i]]]
      /\ meant' = [meant EXCEPT ![f] = [i \in D |-> set[i]]]

swapV4 ==
  /\ job.pc = "write"
  /\ DOMAIN job.slots = DOMAIN job.next
  /\ SwapRuleTrie("v4", job.next, job.slots)
  /\ job' = [job EXCEPT !.pc = "v6"]
  /\ UNCHANGED <<ruleNow, rules, installed, free, retired, installs, body, used, packet, failed>>

swapV4Fails ==
  /\ job.pc = "write"
  /\ DOMAIN job.slots = DOMAIN job.next
  /\ "v4" \in CanFail
  /\ rollback
  /\ UNCHANGED <<ruleNow, rules, installed, retired, installs, kernelVars, packet, failed>>

\* Mutant of commit: the slots of replaced rules are free at once.
commitNoGrace ==
  /\ installed' = [i \in DOMAIN job.next |->
                     [slot |-> job.slots[i], body |-> job.next[i]]]
  /\ free' = free \o SetToSeq({installed[i].slot : i \in DOMAIN installed}
                                \ Range(job.slots))
  /\ retired' = retired
  /\ rules' = job.next

\* commit: replaced slots are retired with the time the install began.
commit ==
  /\ installed' = [i \in DOMAIN job.next |->
                     [slot |-> job.slots[i], body |-> job.next[i]]]
  /\ retired' = retired \cup
       {[slot |-> installed[i].slot, at |-> job.at] :
          i \in {x \in DOMAIN installed :
                   x \notin DOMAIN job.slots \/ job.slots[x] # installed[x].slot}}
  /\ free' = free
  /\ rules' = job.next

\* The IPv6 swap succeeds, and the install commits.
swapV6 ==
  /\ job.pc = "v6"
  /\ SwapRuleTrie("v6", job.next, job.slots)
  /\ commit
  /\ job' = NoJob
  /\ failed' = failed \ {"restore"}
  /\ UNCHANGED <<ruleNow, installs, body, used, packet>>

\* Mutant of swapV6Fails: the IPv4 trie is left as it is.
swapV6FailsNoRestore ==
  /\ job.pc = "v6"
  /\ "v6" \in CanFail
  /\ rollback
  /\ UNCHANGED <<ruleNow, rules, installed, retired, installs, kernelVars, packet, failed>>

swapV6Fails ==
  /\ job.pc = "v6"
  /\ "v6" \in CanFail
  /\ job' = [job EXCEPT !.pc = "restore"]
  /\ failed' = failed \cup {"v6"}
  /\ UNCHANGED <<ruleNow, rules, installed, free, retired, installs, kernelVars, packet>>

\* The previous IPv4 rules are put back.
restoreV4 ==
  /\ job.pc = "restore"
  /\ SwapRuleTrie("v4", rules, [i \in DOMAIN installed |-> installed[i].slot])
  /\ rollback
  /\ UNCHANGED <<ruleNow, rules, installed, retired, installs, body, used, packet, failed>>

\* That fails too: the fresh slots are retired instead of freed.
restoreV4Fails ==
  /\ job.pc = "restore"
  /\ "restore" \in CanFail
  /\ retired' = retired \cup {[slot |-> s, at |-> job.at] : s \in Range(job.fresh)}
  /\ job' = NoJob
  /\ failed' = failed \cup {"restore"}
  /\ UNCHANGED <<ruleNow, rules, installed, free, installs, kernelVars, packet>>

-----------------------------------------------------------------------------
(***************************************************************************)
(* XDP: a packet reads the live trie of its family, then a body.           *)
(***************************************************************************)

readTrie(f, i) ==
  /\ packet = {}
  /\ i \in DOMAIN trie[f]
  /\ packet' = {[slot |-> trie[f][i], want |-> meant[f][i], since |-> ruleNow]}
  /\ UNCHANGED <<ruleNow, engineVars, kernelVars, failed>>

\* The body is read, and a rate-limit rule counts the packet.
matchRule ==
  /\ \E q \in packet : used' = [used EXCEPT ![q.slot] = TRUE]
  /\ packet' = {}
  /\ UNCHANGED <<ruleNow, engineVars, body, trie, meant, failed>>

RuleEngineTick ==
  /\ ruleNow < RuleMaxTime
  /\ \A q \in packet : ruleNow - q.since < ReadTime
  /\ job.pc # "idle" => ruleNow - job.at < InstallTime
  /\ ruleNow' = ruleNow + 1
  /\ UNCHANGED <<engineVars, kernelVars, packet, failed>>

RuleEngineInit ==
  /\ ruleNow = 1
  /\ rules = << >>
  /\ installed = << >>
  /\ free = SetToSeq(Slots)
  /\ retired = {}
  /\ job = NoJob
  /\ installs = 0
  /\ body = [s \in Slots |-> NoBody]
  /\ used = [s \in Slots |-> FALSE]
  /\ trie = [f \in Families |-> << >>]
  /\ meant = [f \in Families |-> << >>]
  /\ packet = {}
  /\ failed = {}

Install ==
  \/ \E i \in Ids : takeSlot(i)
  \/ putFails \/ noFreeSlot
  \/ ResetRuleBucket \/ resetFails
  \/ swapV4 \/ swapV4Fails
  \/ swapV6 \/ swapV6Fails
  \/ restoreV4 \/ restoreV4Fails

RuleEngineNext ==
  \/ \E set \in RuleSets : Apply(set)
  \/ \E D \in SUBSET DOMAIN rules : Expire(D)
  \/ Install
  \/ \E f \in Families, i \in Ids : readTrie(f, i)
  \/ matchRule
  \/ RuleEngineTick

RuleEngineSpec == RuleEngineInit /\ [][RuleEngineNext]_ruleEngineVars

-----------------------------------------------------------------------------
(* Properties. *)

FreeSlots == Range(free)

\* Type invariant: the values every variable takes.
RuleEngineTypeOK ==
  /\ ruleNow \in 1..RuleMaxTime
  /\ DOMAIN rules \subseteq Ids /\ Range(rules) \subseteq Bodies
  /\ DOMAIN installed \subseteq Ids
  /\ Range(installed) \subseteq [slot : Slots, body : Bodies]
  /\ FreeSlots \subseteq Slots
  /\ retired \subseteq [slot : Slots, at : 1..RuleMaxTime]
  /\ job.pc \in {"idle", "write", "reset", "v6", "restore"}
  /\ body \in [Slots -> Bodies \cup {NoBody}]
  /\ used \in [Slots -> BOOLEAN]
  /\ DOMAIN trie = Families /\ DOMAIN meant = Families
  /\ failed \subseteq {"v6", "restore"}

\* Every slot is accounted for exactly once: free, retired, held by a rule or
\* taken by the install in progress.  No install, failed or not, leaks a slot
\* or hands one out twice.
SlotsPartition ==
  LET ruleSlots == {installed[i].slot : i \in DOMAIN installed}
      retiring  == {r.slot : r \in retired}
      taken     == Range(job.fresh)
  IN  /\ Len(free) = Cardinality(FreeSlots)
      /\ Cardinality(retired) = Cardinality(retiring)
      /\ Cardinality(ruleSlots) = Cardinality(DOMAIN installed)
      /\ FreeSlots \cup retiring \cup ruleSlots \cup taken = Slots
      /\ Len(free) + Cardinality(retiring) + Cardinality(ruleSlots) + Len(job.fresh)
           = Cardinality(Slots)

\* The slots the live tries name hold the bodies of the rules the tries were
\* built for, ...
LiveBodies ==
  \A f \in Families : \A i \in DOMAIN trie[f] : body[trie[f][i]] = meant[f][i]

\* ... and a packet that read a trie finds the body that trie meant.
PacketReads ==
  \A q \in packet : body[q.slot] = q.want

\* XDP applies the rules that were pushed and no others, whatever map operation
\* failed, unless it was both swaps: no install writes to a slot a live trie
\* names, and a successful install repairs what the failed swaps left behind.
LiveBodiesMatch == "restore" \notin failed => LiveBodies

\* slotGrace is enough: as long as no IPv6 swap failed, a packet finds the rule
\* its trie meant, however late it reads the body.
PacketSeesItsRule == "v6" \notin failed => PacketReads

\* While no install runs, the kernel holds exactly the engine's rules: a failed
\* install left no trace.
KernelHoldsRules ==
  job.pc = "idle" /\ "restore" \notin failed =>
    /\ DOMAIN installed = DOMAIN rules
    /\ \A i \in DOMAIN rules : installed[i].body = rules[i]
    /\ \A f \in Families :
         /\ meant[f] = Restrict(rules, family(f, DOMAIN rules))
         /\ \A i \in DOMAIN trie[f] : trie[f][i] = installed[i].slot

\* "On error the kernel keeps the previous tries" (install), and "The live IPv4
\* trie may still point at the fresh slots, so they must not be handed out again
\* before the grace period": what the comments claim of the failed restore is
\* that no live trie is overwritten, which needs more than the grace period.
PreviousTriesKept == LiveBodies

\* "Unchanged rules keep their slot, and with it their rate-limit window"
\* (install), and a rule given another slot starts with an empty window.  (An
\* IPv4 rule may have counted packets by the time the install commits.)
WindowsKept ==
  [][failed = {} => \A i \in DOMAIN installed' :
       LET same == i \in DOMAIN installed /\ installed[i].slot = installed'[i].slot
       IN  /\ i \in DOMAIN rules /\ rules[i] = rules'[i] => same
           /\ ~same /\ i \notin V4 => ~used'[installed'[i].slot]]_ruleEngineVars

\* An install takes effect as a whole or leaves no trace, whatever map
\* operation of it fails: in the slots, in the bodies XDP applies, in the
\* tries, and in the rate windows of the rules it keeps (install).
InstallsAtomic ==
  /\ [](RuleEngineTypeOK /\ SlotsPartition /\ LiveBodiesMatch /\ KernelHoldsRules)
  /\ WindowsKept
=============================================================================
