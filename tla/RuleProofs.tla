------------------------------ MODULE RuleProofs ------------------------------
(***************************************************************************)
(* Proofs about runtime rules: the collector's rule engine, for any rules, *)
(* bodies, slots and map operations that fail, and the distribution of the *)
(* rules to the collectors, for any rules, pushes, streams, clock and      *)
(* restarts, with and without a state directory.                           *)
(***************************************************************************)
EXTENDS RuleEngine, RuleSync, FiniteSetTheorems, SequenceTheorems, TLAPS

-----------------------------------------------------------------------------
(* Stacks of slots: sequences without repetitions. *)

\* What a concatenation holds, and when it repeats nothing.
LEMMA ConcatSlots ==
  ASSUME NEW S, NEW s \in Seq(S), NEW t \in Seq(S)
  PROVE  /\ s \o t \in Seq(S)
         /\ Range(s \o t) = Range(s) \cup Range(t)
         /\ IsInjective(s) /\ IsInjective(t) /\ Range(s) \cap Range(t) = {}
              => IsInjective(s \o t)
<1>1. /\ s \o t \in Seq(S)
      /\ Len(s \o t) = Len(s) + Len(t)
      /\ \A i \in 1..(Len(s) + Len(t)) :
            (s \o t)[i] = IF i <= Len(s) THEN s[i] ELSE t[i - Len(s)]
  BY ConcatProperties
<1>2. /\ Len(s) \in Nat /\ Len(t) \in Nat
      /\ DOMAIN s = 1..Len(s) /\ DOMAIN t = 1..Len(t)
      /\ DOMAIN (s \o t) = 1..(Len(s) + Len(t))
  BY <1>1, LenProperties
<1> DEFINE u == s \o t
<1>3. \A i \in DOMAIN u : \/ i \in DOMAIN s /\ u[i] = s[i]
                          \/ i - Len(s) \in DOMAIN t /\ u[i] = t[i - Len(s)]
  BY <1>1, <1>2
<1>4. \A i \in DOMAIN s : i \in DOMAIN u /\ u[i] = s[i]
  BY <1>1, <1>2
<1>5. \A i \in DOMAIN t : i + Len(s) \in DOMAIN u /\ u[i + Len(s)] = t[i]
  BY <1>1, <1>2
<1>6. Range(u) = Range(s) \cup Range(t)
  <2> HIDE DEF u
  <2> QED BY <1>3, <1>4, <1>5 DEF Range
<1>7. ASSUME IsInjective(s), IsInjective(t), Range(s) \cap Range(t) = {}
      PROVE  IsInjective(u)
  <2> SUFFICES ASSUME NEW a \in DOMAIN u, NEW b \in DOMAIN u, u[a] = u[b]
               PROVE  a = b
    BY DEF IsInjective
  <2>1. a \in Int /\ b \in Int
    BY <1>2
  <2> HIDE DEF u
  <2>2. \A i \in DOMAIN s, j \in DOMAIN t : s[i] # t[j]
    BY <1>7 DEF Range
  <2>3. CASE a \in DOMAIN s /\ u[a] = s[a]
    BY <1>3, <1>7, <2>2, <2>3 DEF IsInjective
  <2>4. CASE a - Len(s) \in DOMAIN t /\ u[a] = t[a - Len(s)]
    <3>1. CASE b \in DOMAIN s /\ u[b] = s[b]
      BY <2>2, <2>4, <3>1
    <3>2. CASE b - Len(s) \in DOMAIN t /\ u[b] = t[b - Len(s)]
      <4>1. a - Len(s) = b - Len(s)
        BY <1>7, <2>4, <3>2 DEF IsInjective
      <4> QED BY <1>2, <2>1, <4>1
    <3> QED BY <1>3, <3>1, <3>2
  <2> QED BY <1>3, <2>3, <2>4
<1> QED BY <1>1, <1>6, <1>7

\* A stack of one slot.
LEMMA OneSlot ==
  ASSUME NEW S, NEW e \in S
  PROVE  <<e>> \in Seq(S) /\ Range(<<e>>) = {e} /\ IsInjective(<<e>>)
<1>1. <<e>> \in Seq(S) /\ DOMAIN <<e>> = {1} /\ <<e>>[1] = e
  OBVIOUS
<1> QED BY <1>1 DEF Range, IsInjective

\* Appending a slot.
LEMMA AppendSlot ==
  ASSUME NEW S, NEW s \in Seq(S), NEW e \in S
  PROVE  /\ Append(s, e) \in Seq(S)
         /\ Append(s, e) # << >>
         /\ Last(Append(s, e)) = e
         /\ Range(Append(s, e)) = Range(s) \cup {e}
         /\ IsInjective(s) /\ e \notin Range(s) => IsInjective(Append(s, e))
<1>1. Append(s, e) = s \o <<e>>
  BY AppendIsConcat
<1>2. /\ Append(s, e) \in Seq(S) /\ Append(s, e) # << >>
      /\ Len(Append(s, e)) = Len(s) + 1 /\ Append(s, e)[Len(s) + 1] = e
  BY AppendProperties
<1>3. Last(Append(s, e)) = e
  BY <1>2 DEF Last
<1>4. <<e>> \in Seq(S) /\ Range(<<e>>) = {e} /\ IsInjective(<<e>>)
  BY OneSlot
<1>5. /\ Range(Append(s, e)) = Range(s) \cup {e}
      /\ IsInjective(s) /\ e \notin Range(s) => IsInjective(Append(s, e))
  <2> DEFINE t == <<e>>
  <2>1. t \in Seq(S) /\ Range(t) = {e} /\ IsInjective(t)
    BY <1>4
  <2> HIDE DEF t
  <2>2. /\ Range(s \o t) = Range(s) \cup Range(t)
        /\ Range(s) \cap Range(t) = {} /\ IsInjective(s) => IsInjective(s \o t)
    BY <2>1, ConcatSlots
  <2>3. e \notin Range(s) => Range(s) \cap Range(t) = {}
    BY <2>1
  <2> QED BY <1>1, <2>1, <2>2, <2>3 DEF t
<1> QED BY <1>2, <1>3, <1>5

\* Taking the last slot off.
LEMMA TakeLast ==
  ASSUME NEW S, NEW s \in Seq(S), s # << >>
  PROVE  /\ Front(s) \in Seq(S)
         /\ Last(s) \in S
         /\ Range(s) = Range(Front(s)) \cup {Last(s)}
         /\ IsInjective(s) => IsInjective(Front(s)) /\ Last(s) \notin Range(Front(s))
<1>1. Len(s) \in Nat \ {0} /\ DOMAIN s = 1..Len(s) /\ s \in [1..Len(s) -> S]
  BY EmptySeq, LenProperties
<1>2. /\ Front(s) \in Seq(S)
      /\ Len(Front(s)) = Len(s) - 1
      /\ \A i \in 1..(Len(s) - 1) : Front(s)[i] = s[i]
  <2>1. \A i \in 1..(Len(s) - 1) : s[i] \in S
    BY <1>1
  <2>2. /\ SubSeq(s, 1, Len(s) - 1) \in Seq(S)
        /\ Len(SubSeq(s, 1, Len(s) - 1))
             = IF 1 <= Len(s) - 1 THEN Len(s) - 1 - 1 + 1 ELSE 0
        /\ \A i \in 1..(Len(s) - 1 - 1 + 1) :
              SubSeq(s, 1, Len(s) - 1)[i] = s[1 + i - 1]
    BY <1>1, <2>1, SubSeqProperties
  <2> QED BY <1>1, <2>2 DEF Front
<1>3. DOMAIN Front(s) = 1..(Len(s) - 1)
  BY <1>2, LenProperties
<1>4. Last(s) = s[Len(s)] /\ Last(s) \in S
  BY <1>1 DEF Last
<1> DEFINE f == Front(s)
<1>5. \A i \in DOMAIN f : i \in DOMAIN s /\ i # Len(s) /\ f[i] = s[i]
  BY <1>1, <1>2, <1>3
<1>6. \A i \in DOMAIN s : i = Len(s) \/ (i \in DOMAIN f /\ f[i] = s[i])
  BY <1>1, <1>2, <1>3
<1>7. Len(s) \in DOMAIN s
  BY <1>1
<1> HIDE DEF f
<1>8. Range(s) = Range(f) \cup {Last(s)}
  BY <1>4, <1>5, <1>6, <1>7 DEF Range
<1>9. IsInjective(s) => IsInjective(f) /\ Last(s) \notin Range(f)
  BY <1>4, <1>5, <1>7 DEF Range, IsInjective
<1> QED BY <1>2, <1>4, <1>8, <1>9 DEF f

\* SetToSeq lists a finite set without repetitions.
LEMMA ListOfSet ==
  ASSUME NEW S, IsFiniteSet(S), NEW T, S \subseteq T
  PROVE  /\ SetToSeq(S) \in Seq(T)
         /\ IsInjective(SetToSeq(S))
         /\ Range(SetToSeq(S)) = S
<1> DEFINE n == Cardinality(S)
<1>1. n \in Nat /\ ExistsBijection(1..n, S)
  BY FS_CardinalityType
<1>2. PICK g \in Bijection(1..n, S) : TRUE
  BY <1>1 DEF ExistsBijection
<1>3. g \in [1..n -> S] /\ IsInjective(g)
  BY <1>2 DEF Bijection, Injection
<1>4. SetToSeq(S) \in [1..n -> S] /\ IsInjective(SetToSeq(S))
  BY <1>3 DEF SetToSeq
<1> DEFINE f == SetToSeq(S)
<1>5. f \in Seq(S) /\ f \in Seq(T)
  BY <1>1, <1>4
<1>6. Range(f) = S
  <2>1. f \in Injection(1..n, S)
    BY <1>4 DEF Injection
  <2>2. IsFiniteSet(1..n) /\ Cardinality(1..n) = n
    BY <1>1, FS_Interval
  <2>3. f \in Surjection(1..n, S)
    <3>1. Cardinality(1..n) = Cardinality(S)
      BY <2>2
    <3> HIDE DEF f, n
    <3> QED BY <2>1, <3>1, FS_Injection
  <2> QED BY <2>3 DEF Surjection, Range
<1> QED BY <1>4, <1>5, <1>6

\* A sequence without repetitions is as long as the set of its elements.
LEMMA LenOfSlots ==
  ASSUME NEW S, NEW s \in Seq(S), IsInjective(s)
  PROVE  IsFiniteSet(Range(s)) /\ Cardinality(Range(s)) = Len(s)
<1>1. Len(s) \in Nat /\ DOMAIN s = 1..Len(s) /\ s \in [1..Len(s) -> S]
  BY LenProperties
<1>2. IsFiniteSet(1..Len(s)) /\ Cardinality(1..Len(s)) = Len(s)
  BY <1>1, FS_Interval
<1>3. s \in Bijection(1..Len(s), Range(s))
  BY <1>1 DEF Bijection, Injection, Surjection, Range, IsInjective
<1>4. ExistsBijection(1..Len(s), Range(s))
  BY <1>3 DEF ExistsBijection
<1> QED BY <1>2, <1>4, FS_Bijection

-----------------------------------------------------------------------------
(***************************************************************************)
(* The inductive invariant.                                                *)
(***************************************************************************)

\* Partial functions on rule ids.
RulesTo(f, S) == DOMAIN f \subseteq Ids /\ f \in [DOMAIN f -> S]

RetiredSlots(ret) == {r.slot : r \in ret}
RuleSlots(inst)   == {inst[i].slot : i \in DOMAIN inst}

IsJob(j) ==
  /\ j = [pc |-> j.pc, next |-> j.next, slots |-> j.slots, fresh |-> j.fresh, at |-> j.at]
  /\ j.pc \in {"idle", "write", "reset", "v6", "restore"}
  /\ RulesTo(j.next, Bodies)
  /\ RulesTo(j.slots, Slots)
  /\ j.fresh \in Seq(Slots)
  /\ j.at \in Nat
  /\ j.pc = "idle" => j = NoJob
  /\ j.pc # "idle" => j.at \in 1..ruleNow

\* The values of the variables.
Types ==
  /\ ruleNow \in 1..RuleMaxTime
  /\ RulesTo(rules, Bodies)
  /\ RulesTo(installed, [slot : Slots, body : Bodies])
  /\ free \in Seq(Slots)
  /\ retired \subseteq [slot : Slots, at : 1..RuleMaxTime]
  /\ IsJob(job)
  /\ body \in [Slots -> Bodies \cup {NoBody}]
  /\ used \in [Slots -> BOOLEAN]
  /\ DOMAIN trie = Families /\ DOMAIN meant = Families
  /\ \A f \in Families : RulesTo(trie[f], Slots) /\ RulesTo(meant[f], Bodies)
  /\ \A f \in Families : DOMAIN meant[f] = DOMAIN trie[f]
  /\ packet \subseteq [slot : Slots, want : Bodies, since : 1..ruleNow]
  /\ failed \subseteq {"v6", "restore"}

\* No slot has two owners, ...
Disjoint(fr, ret, inst, fresh) ==
  /\ IsInjective(fr)
  /\ IsInjective(fresh)
  /\ \A q, r \in ret : q.slot = r.slot => q = r
  /\ \A i, j \in DOMAIN inst : inst[i].slot = inst[j].slot => i = j
  /\ Range(fr) \cap RetiredSlots(ret) = {}
  /\ Range(fr) \cap RuleSlots(inst) = {}
  /\ Range(fr) \cap Range(fresh) = {}
  /\ RetiredSlots(ret) \cap RuleSlots(inst) = {}
  /\ RetiredSlots(ret) \cap Range(fresh) = {}
  /\ RuleSlots(inst) \cap Range(fresh) = {}

\* ... and none is without.
Owned(fr, ret, inst, fresh) ==
  /\ Disjoint(fr, ret, inst, fresh)
  /\ Range(fr) \cup RetiredSlots(ret) \cup RuleSlots(inst) \cup Range(fresh) = Slots

\* The slots of an install: kept ones are those of unchanged rules, the others
\* are the fresh ones, and each holds the body of its rule.
Kept == {i \in DOMAIN job.next \cap DOMAIN installed : installed[i].body = job.next[i]}

JobSlots ==
  /\ DOMAIN job.slots \subseteq DOMAIN job.next
  /\ Kept \subseteq DOMAIN job.slots
  /\ \A i \in Kept : job.slots[i] = installed[i].slot
  /\ \A i \in DOMAIN job.slots \ Kept : job.slots[i] \in Range(job.fresh)
  /\ \A s \in Range(job.fresh) : \E i \in DOMAIN job.slots \ Kept : job.slots[i] = s
  /\ \A i, k \in DOMAIN job.slots : job.slots[i] = job.slots[k] => i = k
  /\ \A i \in DOMAIN job.slots : body[job.slots[i]] = job.next[i]
  /\ job.pc \in {"v6", "restore"} => DOMAIN job.slots = DOMAIN job.next
  /\ job.pc = "reset" => job.fresh # << >>

\* The engine's own two tables agree, and the slots hold the rules' bodies.
Tables ==
  /\ DOMAIN installed = DOMAIN rules
  /\ \A i \in DOMAIN rules : installed[i].body = rules[i]
  /\ \A i \in DOMAIN installed : body[installed[i].slot] = installed[i].body

\* The tries: IPv6 always has the engine's rules; IPv4 has those of the install
\* in progress once it is swapped, and the engine's before, unless a failed
\* restore left something else.
TrieHas(f, set, slots) ==
  /\ trie[f] = [i \in family(f, DOMAIN set) |-> slots[i]]
  /\ meant[f] = [i \in family(f, DOMAIN set) |-> set[i]]

InstalledSlots == [i \in DOMAIN installed |-> installed[i].slot]

Tries ==
  /\ TrieHas("v6", rules, InstalledSlots)
  /\ job.pc \in {"v6", "restore"} => TrieHas("v4", job.next, job.slots)
  /\ job.pc \notin {"v6", "restore"} /\ "restore" \notin failed
       => TrieHas("v4", rules, InstalledSlots)

\* What failed so far.
Failures ==
  /\ "restore" \in failed => "v6" \in failed
  /\ job.pc = "restore" => "v6" \in failed

\* Time spent on an install and on a packet.
Deadlines ==
  /\ job.pc # "idle" => ruleNow - job.at <= InstallTime
  /\ \A q \in packet : ruleNow - q.since <= ReadTime

\* While no IPv6 swap failed: the slot a packet is about to read is not free,
\* holds what the packet wants, and if it was replaced since, then by an install
\* that was not over when the packet read the trie.
Packets ==
  "v6" \notin failed =>
    \A q \in packet :
      /\ body[q.slot] = q.want
      /\ q.slot \notin Range(free)
      /\ \A r \in retired : r.slot = q.slot => q.since <= r.at + InstallTime
      /\ job.pc \in {"write", "reset"} => q.slot \notin Range(job.fresh)
      /\ job.pc = "v6" => \A i \in DOMAIN job.slots \ Kept :
                             job.slots[i] = q.slot => i \in V4

\* While no IPv6 swap failed: a fresh slot has an empty rate window as soon as
\* ResetRuleBucket is through with it, but for IPv4 rules that are live already.
Windows ==
  "v6" \notin failed =>
    \A i \in DOMAIN job.slots \ Kept :
      \/ ~used[job.slots[i]]
      \/ job.pc = "reset" /\ job.slots[i] = Last(job.fresh)
      \/ job.pc = "v6" /\ i \in V4

RuleEngineInv ==
  /\ Types
  /\ Owned(free, retired, installed, job.fresh)
  /\ JobSlots
  /\ Tables
  /\ Tries
  /\ Failures
  /\ Deadlines
  /\ Packets
  /\ Windows

-----------------------------------------------------------------------------
(* Empty rule sets and stacks. *)

LEMMA EmptyRules ==
  /\ DOMAIN << >> = {}
  /\ Range(<< >>) = {}
  /\ IsInjective(<< >>)
  /\ \A S : << >> \in Seq(S)
  /\ \A S : RulesTo(<< >>, S)
<1>1. DOMAIN << >> = {}
  OBVIOUS
<1>2. \A S : << >> \in Seq(S)
  OBVIOUS
<1>3. \A S : << >> \in [{} -> S]
  OBVIOUS
<1> QED BY <1>1, <1>2, <1>3 DEF Range, IsInjective, RulesTo

-----------------------------------------------------------------------------
(***************************************************************************)
(* How slots change hands.  Every lemma is about one way an install, or    *)
(* the release of retired slots, moves slots from one owner to another.    *)
(***************************************************************************)

\* releaseRetired: retired slots become free.
LEMMA OwnedRelease ==
  ASSUME NEW fr \in Seq(Slots), NEW ret, NEW inst, NEW fresh, NEW out,
         Owned(fr, ret, inst, fresh), out \subseteq ret,
         \A r \in ret : r.slot \in Slots
  PROVE  /\ fr \o SetToSeq({r.slot : r \in out}) \in Seq(Slots)
         /\ Range(fr \o SetToSeq({r.slot : r \in out}))
              = Range(fr) \cup {r.slot : r \in out}
         /\ Owned(fr \o SetToSeq({r.slot : r \in out}), ret \ out, inst, fresh)
<1> DEFINE O == {r.slot : r \in out}
           t == SetToSeq(O)
<1>1. O \subseteq Slots /\ IsFiniteSet(O)
  <2>1. O \subseteq Slots
    OBVIOUS
  <2> HIDE DEF O
  <2> QED BY <2>1, RuleSetAssumption, FS_Subset
<1>2. t \in Seq(Slots) /\ IsInjective(t) /\ Range(t) = O
  <2> HIDE DEF O
  <2> QED BY <1>1, ListOfSet
<1>3. O \subseteq RetiredSlots(ret)
  BY DEF RetiredSlots
<1>4. RetiredSlots(ret \ out) \cap O = {}
  BY DEF RetiredSlots, Owned, Disjoint
<1>5. RetiredSlots(ret \ out) \cup O = RetiredSlots(ret)
  BY DEF RetiredSlots
<1> HIDE DEF O, t
<1>6. Range(fr) \cap O = {} /\ IsInjective(fr)
  BY <1>3 DEF Owned, Disjoint
<1>7. /\ fr \o t \in Seq(Slots)
      /\ Range(fr \o t) = Range(fr) \cup O
      /\ IsInjective(fr \o t)
  BY <1>2, <1>6, ConcatSlots
<1> DEFINE R == Range(fr \o t)
           Q == RetiredSlots(ret \ out)
<1>8. R \cap Q = {} /\ R \cap RuleSlots(inst) = {} /\ R \cap Range(fresh) = {}
  BY <1>3, <1>4, <1>5, <1>7 DEF Owned, Disjoint
<1>9. Q \cap RuleSlots(inst) = {} /\ Q \cap Range(fresh) = {}
  BY <1>5 DEF Owned, Disjoint
<1>10. R \cup Q \cup RuleSlots(inst) \cup Range(fresh) = Slots
  BY <1>5, <1>7 DEF Owned
<1> HIDE DEF R, Q
<1>11. Owned(fr \o t, ret \ out, inst, fresh)
  BY <1>7, <1>8, <1>9, <1>10 DEF Owned, Disjoint, R, Q
<1> QED BY <1>7, <1>11 DEF O, t

\* rollback: fresh slots become free.
LEMMA OwnedRollback ==
  ASSUME NEW fr \in Seq(Slots), NEW ret, NEW inst, NEW fresh \in Seq(Slots),
         Owned(fr, ret, inst, fresh)
  PROVE  /\ fr \o fresh \in Seq(Slots)
         /\ Range(fr \o fresh) = Range(fr) \cup Range(fresh)
         /\ Owned(fr \o fresh, ret, inst, << >>)
<1>1. Range(fr) \cap Range(fresh) = {} /\ IsInjective(fr) /\ IsInjective(fresh)
  BY DEF Owned, Disjoint
<1>2. /\ fr \o fresh \in Seq(Slots)
      /\ Range(fr \o fresh) = Range(fr) \cup Range(fresh)
      /\ IsInjective(fr \o fresh)
  BY <1>1, ConcatSlots
<1> DEFINE e == << >>
<1>3. Range(e) = {} /\ IsInjective(e)
  BY EmptyRules
<1> HIDE DEF e
<1>4. Disjoint(fr \o fresh, ret, inst, e)
  BY <1>2, <1>3 DEF Owned, Disjoint
<1>5. Range(fr \o fresh) \cup RetiredSlots(ret) \cup RuleSlots(inst) \cup Range(e) = Slots
  BY <1>2, <1>3 DEF Owned
<1> QED BY <1>2, <1>4, <1>5 DEF Owned, e

\* takeSlot: the last free slot becomes a fresh one.
LEMMA OwnedTake ==
  ASSUME NEW fr \in Seq(Slots), NEW ret, NEW inst, NEW fresh \in Seq(Slots),
         Owned(fr, ret, inst, fresh), fr # << >>
  PROVE  /\ Front(fr) \in Seq(Slots)
         /\ Last(fr) \in Slots
         /\ Last(fr) \in Range(fr)
         /\ Last(fr) \notin Range(Front(fr))
         /\ Last(fr) \notin Range(fresh)
         /\ Range(fr) = Range(Front(fr)) \cup {Last(fr)}
         /\ Append(fresh, Last(fr)) \in Seq(Slots)
         /\ Append(fresh, Last(fr)) # << >>
         /\ Last(Append(fresh, Last(fr))) = Last(fr)
         /\ Range(Append(fresh, Last(fr))) = Range(fresh) \cup {Last(fr)}
         /\ Owned(Front(fr), ret, inst, Append(fresh, Last(fr)))
<1>1. /\ Front(fr) \in Seq(Slots) /\ Last(fr) \in Slots
      /\ Range(fr) = Range(Front(fr)) \cup {Last(fr)}
      /\ IsInjective(Front(fr)) /\ Last(fr) \notin Range(Front(fr))
  BY TakeLast DEF Owned, Disjoint
<1>2. Last(fr) \notin Range(fresh)
  BY <1>1 DEF Owned, Disjoint
<1>3. /\ Append(fresh, Last(fr)) \in Seq(Slots)
      /\ Append(fresh, Last(fr)) # << >>
      /\ Last(Append(fresh, Last(fr))) = Last(fr)
      /\ Range(Append(fresh, Last(fr))) = Range(fresh) \cup {Last(fr)}
      /\ IsInjective(Append(fresh, Last(fr)))
  BY <1>1, <1>2, AppendSlot DEF Owned, Disjoint
<1> DEFINE f == Front(fr)
           t == Append(fresh, Last(fr))
           l == Last(fr)
<1>4. /\ Range(fr) = Range(f) \cup {l} /\ l \notin Range(f)
      /\ Range(t) = Range(fresh) \cup {l}
      /\ IsInjective(f) /\ IsInjective(t)
  BY <1>1, <1>3
<1> HIDE DEF f, t, l
<1>5. Disjoint(f, ret, inst, t)
  BY <1>4 DEF Owned, Disjoint
<1>6. Range(f) \cup RetiredSlots(ret) \cup RuleSlots(inst) \cup Range(t) = Slots
  BY <1>4 DEF Owned
<1> QED BY <1>1, <1>2, <1>3, <1>5, <1>6 DEF Owned, f, t, l

\* putFails: the slot just taken goes on top of the fresh ones given back.
LEMMA OwnedPutFails ==
  ASSUME NEW fr \in Seq(Slots), NEW ret, NEW inst, NEW fresh \in Seq(Slots),
         Owned(fr, ret, inst, fresh), fr # << >>
  PROVE  /\ Front(fr) \o fresh \o <<Last(fr)>> \in Seq(Slots)
         /\ Range(Front(fr) \o fresh \o <<Last(fr)>>) = Range(fr) \cup Range(fresh)
         /\ Owned(Front(fr) \o fresh \o <<Last(fr)>>, ret, inst, << >>)
<1> DEFINE f == Front(fr)
           l == Last(fr)
           g == f \o fresh
           t == <<l>>
           e == << >>
<1>1. /\ f \in Seq(Slots) /\ l \in Slots
      /\ Range(fr) = Range(f) \cup {l}
      /\ IsInjective(f) /\ l \notin Range(f)
  BY TakeLast DEF Owned, Disjoint
<1>2. t \in Seq(Slots) /\ Range(t) = {l} /\ IsInjective(t)
  BY <1>1, OneSlot
<1>3. Range(e) = {} /\ IsInjective(e)
  BY EmptyRules
<1> HIDE DEF e, f, l, t
<1>4. Range(f) \cap Range(fresh) = {} /\ l \notin Range(fresh) /\ IsInjective(fresh)
  BY <1>1 DEF Owned, Disjoint
<1>5. /\ g \in Seq(Slots) /\ IsInjective(g)
      /\ Range(g) = Range(f) \cup Range(fresh)
  BY <1>1, <1>4, ConcatSlots
<1> HIDE DEF g
<1>6. Range(g) \cap Range(t) = {}
  BY <1>1, <1>2, <1>4, <1>5
<1>7. /\ g \o t \in Seq(Slots) /\ IsInjective(g \o t)
      /\ Range(g \o t) = Range(g) \cup Range(t)
  BY <1>2, <1>5, <1>6, ConcatSlots
<1>8. Range(g \o t) = Range(fr) \cup Range(fresh)
  BY <1>1, <1>2, <1>5, <1>7
<1>9. Disjoint(g \o t, ret, inst, e)
  BY <1>3, <1>7, <1>8 DEF Owned, Disjoint
<1>10. Range(g \o t) \cup RetiredSlots(ret) \cup RuleSlots(inst) \cup Range(e) = Slots
  BY <1>3, <1>8 DEF Owned
<1> QED BY <1>7, <1>8, <1>9, <1>10 DEF Owned, e, f, l, g, t

\* restoreV4Fails: fresh slots are retired.
LEMMA OwnedRetire ==
  ASSUME NEW fr, NEW ret, NEW inst, NEW fresh, NEW add, Owned(fr, ret, inst, fresh),
         \A q, r \in add : q.slot = r.slot => q = r,
         RetiredSlots(add) = Range(fresh)
  PROVE  Owned(fr, ret \cup add, inst, << >>)
<1> DEFINE e == << >>
<1>1. RetiredSlots(ret \cup add) = RetiredSlots(ret) \cup Range(fresh)
  <2>1. RetiredSlots(ret \cup add) = RetiredSlots(ret) \cup RetiredSlots(add)
    BY DEF RetiredSlots
  <2> QED BY <2>1
<1>2. Range(e) = {} /\ IsInjective(e)
  BY EmptyRules
<1>3. \A q, r \in ret \cup add : q.slot = r.slot => q = r
  <2>1. \A q, r \in ret : q.slot = r.slot => q = r
    BY DEF Owned, Disjoint
  <2>2. \A q \in add : q.slot \in Range(fresh)
    BY DEF RetiredSlots
  <2>3. \A q \in ret : q.slot \notin Range(fresh)
    BY DEF Owned, Disjoint, RetiredSlots
  <2> QED BY <2>1, <2>2, <2>3
<1> HIDE DEF e
<1>4. Disjoint(fr, ret \cup add, inst, e)
  BY <1>1, <1>2, <1>3 DEF Owned, Disjoint
<1>5. Range(fr) \cup RetiredSlots(ret \cup add) \cup RuleSlots(inst) \cup Range(e) = Slots
  BY <1>1, <1>2 DEF Owned
<1> QED BY <1>4, <1>5 DEF Owned, e

\* commit: the slots of the install become the rules', and the slots of
\* replaced rules are retired.
LEMMA OwnedCommit ==
  ASSUME NEW fr, NEW ret, NEW inst, NEW fresh, Owned(fr, ret, inst, fresh),
         NEW K, NEW new, NEW add,
         K \subseteq DOMAIN new \cap DOMAIN inst,
         \A i \in K : new[i].slot = inst[i].slot,
         \A i \in DOMAIN new \ K : new[i].slot \in Range(fresh),
         \A s \in Range(fresh) : \E i \in DOMAIN new \ K : new[i].slot = s,
         \A i, k \in DOMAIN new : new[i].slot = new[k].slot => i = k,
         \A q, r \in add : q.slot = r.slot => q = r,
         \A i \in DOMAIN inst \ K : inst[i].slot \in RetiredSlots(add),
         \A x \in RetiredSlots(add) : \E i \in DOMAIN inst \ K : inst[i].slot = x
  PROVE  Owned(fr, ret \cup add, new, << >>)
<1> DEFINE A == {inst[i].slot : i \in DOMAIN inst \ K}
           B == {inst[i].slot : i \in K}
           e == << >>
<1>1. /\ IsInjective(fr) /\ IsInjective(fresh)
      /\ \A q, r \in ret : q.slot = r.slot => q = r
      /\ \A i, j \in DOMAIN inst : inst[i].slot = inst[j].slot => i = j
      /\ Range(fr) \cap RetiredSlots(ret) = {}
      /\ Range(fr) \cap RuleSlots(inst) = {}
      /\ Range(fr) \cap Range(fresh) = {}
      /\ RetiredSlots(ret) \cap RuleSlots(inst) = {}
      /\ RetiredSlots(ret) \cap Range(fresh) = {}
      /\ RuleSlots(inst) \cap Range(fresh) = {}
      /\ Range(fr) \cup RetiredSlots(ret) \cup RuleSlots(inst) \cup Range(fresh) = Slots
  BY DEF Owned, Disjoint
<1>2. A \cup B = RuleSlots(inst) /\ A \cap B = {}
  BY <1>1 DEF RuleSlots
<1>3. RuleSlots(new) = B \cup Range(fresh)
  <2>1. \A i \in DOMAIN new : new[i].slot \in B \cup Range(fresh)
    OBVIOUS
  <2>2. \A x \in B : \E i \in DOMAIN new : new[i].slot = x
    OBVIOUS
  <2> HIDE DEF B
  <2> QED BY <2>1, <2>2 DEF RuleSlots
<1>4. RetiredSlots(ret \cup add) = RetiredSlots(ret) \cup A
  <2>1. RetiredSlots(add) = A
    OBVIOUS
  <2>2. RetiredSlots(ret \cup add) = RetiredSlots(ret) \cup RetiredSlots(add)
    BY DEF RetiredSlots
  <2> QED BY <2>1, <2>2
<1>5. \A q, r \in ret \cup add : q.slot = r.slot => q = r
  <2>1. \A q \in add : q.slot \in RuleSlots(inst)
    BY <1>2 DEF RetiredSlots
  <2>2. \A q \in ret : q.slot \notin RuleSlots(inst)
    BY <1>1 DEF RetiredSlots
  <2> QED BY <1>1, <2>1, <2>2
<1>6. Range(e) = {} /\ IsInjective(e)
  BY EmptyRules
<1> HIDE DEF A, B, e
<1>7. Disjoint(fr, ret \cup add, new, e)
  <2>1. /\ Range(fr) \cap RetiredSlots(ret \cup add) = {}
        /\ Range(fr) \cap RuleSlots(new) = {}
        /\ RetiredSlots(ret \cup add) \cap RuleSlots(new) = {}
    BY <1>1, <1>2, <1>3, <1>4
  <2> QED BY <1>1, <1>5, <1>6, <2>1 DEF Disjoint
<1>8. Range(fr) \cup RetiredSlots(ret \cup add) \cup RuleSlots(new) \cup Range(e) = Slots
  BY <1>1, <1>2, <1>3, <1>4, <1>6
<1> QED BY <1>7, <1>8 DEF Owned, e

\* Owned in terms of numbers, as SlotsPartition has it.
LEMMA OwnedPartition ==
  ASSUME Types, Owned(free, retired, installed, job.fresh)
  PROVE  SlotsPartition
<1> DEFINE F == Range(free)
           Q == RetiredSlots(retired)
           R == RuleSlots(installed)
           T == Range(job.fresh)
<1>1. /\ IsInjective(free) /\ IsInjective(job.fresh)
      /\ F \cap Q = {} /\ F \cap R = {} /\ F \cap T = {}
      /\ Q \cap R = {} /\ Q \cap T = {} /\ R \cap T = {}
      /\ F \cup Q \cup R \cup T = Slots
  BY DEF Owned, Disjoint
<1>2. free \in Seq(Slots) /\ job.fresh \in Seq(Slots)
  BY DEF Types, IsJob
<1>3. /\ Cardinality(F) = Len(free)
      /\ Cardinality(T) = Len(job.fresh)
  BY <1>1, <1>2, LenOfSlots
<1>4. Cardinality(retired) = Cardinality(Q)
  <2> DEFINE g == [r \in retired |-> r.slot]
  <2>1. g \in Bijection(retired, Q)
    <3>1. g \in [retired -> Q]
      BY DEF RetiredSlots
    <3>2. IsInjective(g)
      BY DEF IsInjective, Owned, Disjoint
    <3>3. \A x \in Q : \E r \in retired : g[r] = x
      BY DEF RetiredSlots
    <3> QED BY <3>1, <3>2, <3>3 DEF Bijection, Injection, Surjection
  <2>2. IsFiniteSet(Q)
    BY <1>1, RuleSetAssumption, FS_Subset
  <2>3. g \in Injection(retired, Q) /\ g \in Surjection(retired, Q)
    BY <2>1 DEF Bijection
  <2> HIDE DEF g, Q
  <2> QED BY <2>2, <2>3, FS_Injection
<1>5. Cardinality(R) = Cardinality(DOMAIN installed)
  <2> DEFINE g == [i \in DOMAIN installed |-> installed[i].slot]
  <2>1. g \in Bijection(DOMAIN installed, R)
    <3>1. g \in [DOMAIN installed -> R]
      BY DEF RuleSlots
    <3>2. IsInjective(g)
      BY DEF IsInjective, Owned, Disjoint
    <3>3. \A x \in R : \E i \in DOMAIN installed : g[i] = x
      BY DEF RuleSlots
    <3> QED BY <3>1, <3>2, <3>3 DEF Bijection, Injection, Surjection
  <2>2. IsFiniteSet(R)
    BY <1>1, RuleSetAssumption, FS_Subset
  <2>3. g \in Injection(DOMAIN installed, R) /\ g \in Surjection(DOMAIN installed, R)
    BY <2>1 DEF Bijection
  <2> HIDE DEF g, R
  <2> QED BY <2>2, <2>3, FS_Injection
<1>6. /\ IsFiniteSet(F) /\ IsFiniteSet(Q) /\ IsFiniteSet(R) /\ IsFiniteSet(T)
      /\ Cardinality(F) \in Nat /\ Cardinality(Q) \in Nat
      /\ Cardinality(R) \in Nat /\ Cardinality(T) \in Nat
  <2> HIDE DEF F, Q, R, T
  <2>1. F \subseteq Slots /\ Q \subseteq Slots /\ R \subseteq Slots /\ T \subseteq Slots
    BY <1>1
  <2>2. IsFiniteSet(F) /\ IsFiniteSet(Q) /\ IsFiniteSet(R) /\ IsFiniteSet(T)
    BY <2>1, RuleSetAssumption, FS_Subset
  <2> QED BY <2>2, FS_CardinalityType
<1>7. Cardinality(F) + Cardinality(Q) + Cardinality(R) + Cardinality(T) = Cardinality(Slots)
  <2> HIDE DEF F, Q, R, T
  <2>1. /\ IsFiniteSet(F \cup Q)
        /\ Cardinality(F \cup Q) = Cardinality(F) + Cardinality(Q) - Cardinality(F \cap Q)
    BY <1>6, FS_Union
  <2>2. Cardinality(F \cap Q) = 0
    BY <1>1, FS_EmptySet
  <2>3. /\ IsFiniteSet(R \cup T)
        /\ Cardinality(R \cup T) = Cardinality(R) + Cardinality(T) - Cardinality(R \cap T)
    BY <1>6, FS_Union
  <2>4. Cardinality(R \cap T) = 0
    BY <1>1, FS_EmptySet
  <2>5. Cardinality((F \cup Q) \cup (R \cup T))
          = Cardinality(F \cup Q) + Cardinality(R \cup T)
              - Cardinality((F \cup Q) \cap (R \cup T))
    BY <2>1, <2>3, FS_Union
  <2>6. (F \cup Q) \cap (R \cup T) = {} /\ (F \cup Q) \cup (R \cup T) = Slots
    BY <1>1
  <2>7. Cardinality((F \cup Q) \cap (R \cup T)) = 0
    BY <2>6, FS_EmptySet
  <2>8. Cardinality(Slots) = Cardinality(F \cup Q) + Cardinality(R \cup T) - 0
    BY <2>5, <2>6, <2>7
  <2>9. /\ Cardinality(F \cup Q) = Cardinality(F) + Cardinality(Q) - 0
        /\ Cardinality(R \cup T) = Cardinality(R) + Cardinality(T) - 0
    BY <2>1, <2>2, <2>3, <2>4
  <2> QED BY <1>6, <2>8, <2>9
<1> QED BY <1>1, <1>3, <1>4, <1>5, <1>7
        DEF SlotsPartition, FreeSlots, RetiredSlots, RuleSlots

-----------------------------------------------------------------------------
(***************************************************************************)
(* Every step keeps the invariant.                                         *)
(***************************************************************************)

\* The parts of an invariant about the install in progress when there is none.
LEMMA NoInstall ==
  ASSUME RuleEngineInv, job' = NoJob
  PROVE  /\ JobSlots' /\ Windows' /\ IsJob(job)'
         /\ job'.pc = "idle" /\ job'.fresh = << >>
<1>1. /\ job'.pc = "idle" /\ job'.next = << >> /\ job'.slots = << >>
      /\ job'.fresh = << >> /\ job'.at = 0
  BY DEF NoJob
<1>2. DOMAIN job'.slots = {} /\ DOMAIN job'.next = {} /\ Range(job'.fresh) = {}
  BY <1>1, EmptyRules
<1>3. JobSlots'
  BY <1>1, <1>2 DEF JobSlots, Kept
<1>4. Windows'
  BY <1>2 DEF Windows
<1>5. RulesTo(job'.next, Bodies) /\ RulesTo(job'.slots, Slots) /\ job'.fresh \in Seq(Slots)
  BY <1>1, EmptyRules
<1>6. IsJob(job)'
  BY <1>1, <1>5 DEF IsJob, NoJob, RulesTo
<1> QED BY <1>1, <1>3, <1>4, <1>6

\* A failed install before the first swap gives back the slots it has taken.
LEMMA GiveBack ==
  ASSUME RuleEngineInv, job.pc \in {"write", "reset"}, job' = NoJob,
         free' \in Seq(Slots), Range(free') = Range(free) \cup Range(job.fresh),
         Owned(free', retired, installed, << >>),
         UNCHANGED <<ruleNow, rules, installed, retired, kernelVars, packet, failed>>
  PROVE  RuleEngineInv'
<1>1. /\ JobSlots' /\ Windows' /\ IsJob(job)'
      /\ job'.pc = "idle" /\ job'.fresh = << >>
  BY NoInstall
<1>2. Types'
  BY <1>1 DEF RuleEngineInv, Types, kernelVars, RulesTo
<1>3. Owned(free, retired, installed, job.fresh)'
  BY <1>1
<1>4. Tables'
  BY DEF RuleEngineInv, Tables, kernelVars
<1>5. Tries'
  BY <1>1 DEF RuleEngineInv, Tries, TrieHas, InstalledSlots, kernelVars
<1>6. Failures' /\ Deadlines'
  BY <1>1 DEF RuleEngineInv, Failures, Deadlines
<1>7. Packets'
  BY <1>1 DEF RuleEngineInv, Packets, kernelVars
<1> QED BY <1>1, <1>2, <1>3, <1>4, <1>5, <1>6, <1>7 DEF RuleEngineInv

\* releaseRetired frees no slot a packet may still read: the packet has been
\* in XDP for at most ReadTime, and the slot was retired longer ago than an
\* install and a packet together last.
LEMMA ReleaseIsLate ==
  ASSUME RuleEngineInv, releaseRetired(ruleNow)
  PROVE  /\ free' \in Seq(Slots)
         /\ retired' \subseteq retired
         /\ Owned(free', retired', installed, job.fresh)
         /\ "v6" \notin failed => \A q \in packet : q.slot \notin Range(free')
<1> DEFINE out == {r \in retired : ruleNow - r.at >= SlotGrace}
<1>1. retired' = retired \ out /\ free' = free \o SetToSeq({r.slot : r \in out})
  BY DEF releaseRetired
<1>2. \A r \in retired : r.slot \in Slots /\ r.at \in Nat
  BY DEF RuleEngineInv, Types
<1>3. /\ free' \in Seq(Slots)
      /\ Range(free') = Range(free) \cup {r.slot : r \in out}
      /\ Owned(free', retired', installed, job.fresh)
  <2>1. free \in Seq(Slots) /\ Owned(free, retired, installed, job.fresh)
    BY DEF RuleEngineInv, Types
  <2>2. out \subseteq retired
    OBVIOUS
  <2> HIDE DEF out
  <2> QED BY <1>1, <1>2, <2>1, <2>2, OwnedRelease
<1>4. ASSUME "v6" \notin failed, NEW q \in packet
      PROVE  q.slot \notin Range(free')
  <2>1. /\ q.slot \notin Range(free)
        /\ \A r \in retired : r.slot = q.slot => q.since <= r.at + InstallTime
    BY <1>4 DEF RuleEngineInv, Packets
  <2>2. ruleNow - q.since <= ReadTime /\ q.since \in Nat /\ ruleNow \in Nat
    BY DEF RuleEngineInv, Deadlines, Types
  <2>3. \A r \in out : r.slot # q.slot
    BY <1>2, <2>1, <2>2, TimesAssumption
  <2> HIDE DEF out
  <2> QED BY <1>3, <2>1, <2>3
<1> QED BY <1>1, <1>3, <1>4

\* Apply and Expire up to the loop of install.
LEMMA StartInstallKeeps ==
  ASSUME RuleEngineInv, NEW next, RulesTo(next, Bodies), startInstall(next),
         UNCHANGED <<ruleNow, rules, installed, kernelVars, packet, failed>>
  PROVE  RuleEngineInv'
<1> DEFINE kept == {i \in DOMAIN next \cap DOMAIN installed : installed[i].body = next[i]}
<1>1. /\ job.pc = "idle" /\ job = NoJob
      /\ job.fresh = << >>
  BY DEF startInstall, RuleEngineInv, Types, IsJob, NoJob
<1>2. /\ free' \in Seq(Slots)
      /\ retired' \subseteq retired
      /\ Owned(free', retired', installed, << >>)
      /\ "v6" \notin failed => \A q \in packet : q.slot \notin Range(free')
  BY <1>1, ReleaseIsLate DEF startInstall
<1>3. Types /\ ruleNow \in 1..RuleMaxTime /\ ruleNow \in Nat
  BY DEF RuleEngineInv, Types
<1>4. \/ job' = NoJob
      \/ job' = [pc |-> "write", next |-> next, fresh |-> << >>, at |-> ruleNow,
                 slots |-> [i \in kept |-> installed[i].slot]]
  BY DEF startInstall
<1>5. /\ IsJob(job)' /\ JobSlots' /\ Windows'
      /\ job'.pc \in {"idle", "write"} /\ job'.fresh = << >>
      /\ job'.pc # "idle" => job'.at = ruleNow
  <2>1. CASE job' = NoJob
    BY <2>1, NoInstall
  <2>2. CASE job' = [pc |-> "write", next |-> next, fresh |-> << >>, at |-> ruleNow,
                     slots |-> [i \in kept |-> installed[i].slot]]
    <3>1. /\ job'.pc = "write" /\ job'.next = next /\ job'.fresh = << >>
          /\ job'.at = ruleNow /\ job'.slots = [i \in kept |-> installed[i].slot]
      BY <2>2
    <3>2. DOMAIN job'.slots = kept /\ Kept' = kept
      BY <3>1 DEF Kept
    <3>3. RulesTo(job'.slots, Slots)
      BY <1>3, <3>1 DEF Types, RulesTo
    <3>4. job'.fresh \in Seq(Slots) /\ Range(job'.fresh) = {}
      BY <3>1, EmptyRules
    <3>5. IsJob(job)'
      BY <1>3, <2>2, <3>1, <3>3, <3>4 DEF IsJob, RulesTo
    <3>6. JobSlots'
      <4>1. \A i, k \in DOMAIN installed : installed[i].slot = installed[k].slot => i = k
        BY DEF RuleEngineInv, Owned, Disjoint
      <4>2. \A i \in kept : body[installed[i].slot] = next[i]
        BY DEF RuleEngineInv, Tables
      <4>3. body' = body /\ installed' = installed
        BY DEF kernelVars
      <4> QED BY <3>1, <3>2, <3>4, <4>1, <4>2, <4>3 DEF JobSlots
    <3>7. Windows'
      BY <3>2 DEF Windows
    <3> QED BY <3>1, <3>5, <3>6, <3>7
  <2> QED BY <1>4, <2>1, <2>2
<1> HIDE DEF kept
<1>6. Types'
  BY <1>2, <1>3, <1>5 DEF Types, kernelVars, RulesTo
<1>7. Owned(free, retired, installed, job.fresh)'
  BY <1>2, <1>5
<1>8. Tables'
  BY DEF RuleEngineInv, Tables, kernelVars
<1>9. Tries'
  BY <1>1, <1>5 DEF RuleEngineInv, Tries, TrieHas, InstalledSlots, kernelVars
<1>10. Failures' /\ Deadlines'
  BY <1>3, <1>5, TimesAssumption DEF RuleEngineInv, Failures, Deadlines
<1>11. Packets'
  <2>1. Range(job'.fresh) = {}
    BY <1>5, EmptyRules
  <2> QED BY <1>2, <1>5, <2>1 DEF RuleEngineInv, Packets, kernelVars
<1> QED BY <1>5, <1>6, <1>7, <1>8, <1>9, <1>10, <1>11 DEF RuleEngineInv

\* Apply
LEMMA ApplyKeeps ==
  ASSUME RuleEngineInv, NEW set \in RuleSets, Apply(set)
  PROVE  RuleEngineInv'
<1>1. RulesTo(set, Bodies)
  <2>1. PICK D \in SUBSET Ids : set \in [D -> Bodies]
    BY DEF RuleSets
  <2>2. DOMAIN set = D
    BY <2>1
  <2> QED BY <2>1, <2>2 DEF RulesTo
<1> QED BY <1>1, StartInstallKeeps DEF Apply

\* Expire
LEMMA ExpireKeeps ==
  ASSUME RuleEngineInv, NEW D \in SUBSET DOMAIN rules, Expire(D)
  PROVE  RuleEngineInv'
<1>1. CASE D = {}
  <2>1. /\ releaseRetired(ruleNow) /\ job' = job /\ job.pc = "idle" /\ job = NoJob
        /\ UNCHANGED <<ruleNow, rules, installed, kernelVars, packet, failed>>
    BY <1>1 DEF Expire, RuleEngineInv, Types, IsJob
  <2>2. /\ free' \in Seq(Slots)
        /\ retired' \subseteq retired
        /\ Owned(free', retired', installed, job.fresh)
        /\ "v6" \notin failed => \A q \in packet : q.slot \notin Range(free')
    BY <2>1, ReleaseIsLate
  <2>3. JobSlots' /\ Windows' /\ IsJob(job)'
    BY <2>1, NoInstall
  <2>4. Types'
    BY <2>1, <2>2, <2>3 DEF RuleEngineInv, Types, kernelVars, RulesTo
  <2>5. Owned(free, retired, installed, job.fresh)'
    BY <2>1, <2>2
  <2>6. Tables' /\ Tries' /\ Failures' /\ Deadlines'
    BY <2>1 DEF RuleEngineInv, Tables, Tries, Failures, Deadlines, TrieHas,
                InstalledSlots, kernelVars
  <2>7. Packets'
    BY <2>1, <2>2 DEF RuleEngineInv, Packets, kernelVars, Kept
  <2> QED BY <2>3, <2>4, <2>5, <2>6, <2>7 DEF RuleEngineInv
<1>2. CASE D # {}
  <2> DEFINE next == Restrict(rules, DOMAIN rules \ D)
  <2>1. RulesTo(next, Bodies)
    BY DEF Restrict, RuleEngineInv, Types, RulesTo
  <2> HIDE DEF next
  <2>2. startInstall(next)
    BY <1>2 DEF Expire, next
  <2> QED BY <2>1, <2>2, StartInstallKeeps DEF Expire
<1> QED BY <1>1, <1>2

\* A failed install before the first swap: PutRuleBody, ResetRuleBucket, the
\* IPv4 swap, or no slot left.
LEMMA EarlyFailureKeeps ==
  ASSUME RuleEngineInv, putFails \/ noFreeSlot \/ resetFails \/ swapV4Fails
  PROVE  RuleEngineInv'
<1>1. /\ free \in Seq(Slots) /\ job.fresh \in Seq(Slots)
      /\ Owned(free, retired, installed, job.fresh)
  BY DEF RuleEngineInv, Types, IsJob
<1>2. CASE putFails
  <2>1. /\ free # << >> /\ free' = Front(free) \o job.fresh \o <<Last(free)>>
    BY <1>2 DEF putFails
  <2>2. /\ free' \in Seq(Slots)
        /\ Range(free') = Range(free) \cup Range(job.fresh)
        /\ Owned(free', retired, installed, << >>)
    BY <1>1, <2>1, OwnedPutFails
  <2> QED BY <1>2, <2>2, GiveBack DEF putFails
<1>3. ASSUME rollback, job.pc \in {"write", "reset"},
             UNCHANGED <<ruleNow, rules, installed, retired, kernelVars, packet, failed>>
      PROVE  RuleEngineInv'
  <2>1. /\ free' \in Seq(Slots)
        /\ Range(free') = Range(free) \cup Range(job.fresh)
        /\ Owned(free', retired, installed, << >>)
    BY <1>1, <1>3, OwnedRollback DEF rollback
  <2> QED BY <1>3, <2>1, GiveBack DEF rollback
<1> QED BY <1>2, <1>3 DEF noFreeSlot, resetFails, swapV4Fails

\* takeSlot
LEMMA TakeSlotKeeps ==
  ASSUME RuleEngineInv, NEW i \in Ids, takeSlot(i)
  PROVE  RuleEngineInv'
<1> DEFINE s == Last(free)
<1>1. /\ job.pc = "write" /\ free # << >>
      /\ i \in DOMAIN job.next /\ i \notin DOMAIN job.slots
      /\ free' = Front(free)
      /\ body' = [body EXCEPT ![s] = job.next[i]]
      /\ job' = [job EXCEPT !.pc = "reset", !.fresh = Append(@, s),
                            !.slots = [x \in DOMAIN @ \cup {i} |->
                                         IF x = i THEN s ELSE @[x]]]
      /\ UNCHANGED <<ruleNow, rules, installed, retired, used, trie, meant, packet, failed>>
  BY DEF takeSlot
<1>2. /\ free \in Seq(Slots) /\ job.fresh \in Seq(Slots) /\ IsJob(job) /\ Types
      /\ Owned(free, retired, installed, job.fresh)
  BY DEF RuleEngineInv, Types, IsJob
<1>3. /\ Front(free) \in Seq(Slots)
      /\ s \in Slots /\ s \in Range(free)
      /\ s \notin Range(Front(free)) /\ s \notin Range(job.fresh)
      /\ Range(free) = Range(Front(free)) \cup {s}
      /\ Append(job.fresh, s) \in Seq(Slots) /\ Append(job.fresh, s) # << >>
      /\ Last(Append(job.fresh, s)) = s
      /\ Range(Append(job.fresh, s)) = Range(job.fresh) \cup {s}
      /\ Owned(Front(free), retired, installed, Append(job.fresh, s))
  BY <1>1, <1>2, OwnedTake
<1>4. \A x \in DOMAIN installed : installed[x].slot # s
  BY <1>2, <1>3 DEF Owned, Disjoint, RuleSlots
<1> HIDE DEF s
<1>5. /\ job'.pc = "reset" /\ job'.next = job.next /\ job'.at = job.at
      /\ job'.fresh = Append(job.fresh, s)
      /\ job'.slots = [x \in DOMAIN job.slots \cup {i} |-> IF x = i THEN s ELSE job.slots[x]]
      /\ job' = [pc |-> "reset", next |-> job.next, slots |-> job'.slots,
                 fresh |-> job'.fresh, at |-> job.at]
  BY <1>1, <1>2 DEF IsJob
<1>6. /\ DOMAIN job'.slots = DOMAIN job.slots \cup {i}
      /\ job'.slots[i] = s
      /\ \A x \in DOMAIN job.slots : job'.slots[x] = job.slots[x]
      /\ \A x \in DOMAIN job'.slots : x = i \/ x \in DOMAIN job.slots
  BY <1>1, <1>5
<1>7. \A x \in DOMAIN job.slots : job.slots[x] # s /\ job.slots[x] \in Slots
  BY <1>2, <1>3, <1>4 DEF RuleEngineInv, JobSlots, Kept, IsJob, RulesTo
<1>8. Kept' = Kept /\ i \notin Kept
  BY <1>1, <1>5 DEF Kept, RuleEngineInv, JobSlots
<1>9. IsJob(job)'
  <2>1. RulesTo(job'.slots, Slots)
    BY <1>2, <1>3, <1>5 DEF IsJob, RulesTo
  <2> QED BY <1>1, <1>2, <1>3, <1>5, <2>1 DEF IsJob, RulesTo
<1>10. body' \in [Slots -> Bodies \cup {NoBody}] /\ body'[s] = job.next[i]
       /\ \A x \in Slots : x # s => body'[x] = body[x]
  BY <1>1, <1>2, <1>3 DEF Types, IsJob, RulesTo
<1>11. Types'
  BY <1>1, <1>2, <1>3, <1>9, <1>10 DEF Types, RulesTo
<1>12. Owned(free, retired, installed, job.fresh)'
  BY <1>1, <1>3, <1>5 DEF s
<1>13. JobSlots'
  <2>1. DOMAIN job'.slots \subseteq DOMAIN job'.next /\ Kept' \subseteq DOMAIN job'.slots
    BY <1>1, <1>5, <1>6, <1>8 DEF RuleEngineInv, JobSlots
  <2>2. \A x \in Kept' : job'.slots[x] = installed'[x].slot
    BY <1>1, <1>6, <1>8 DEF RuleEngineInv, JobSlots
  <2>3. \A x \in DOMAIN job'.slots \ Kept' : job'.slots[x] \in Range(job'.fresh)
    BY <1>3, <1>5, <1>6, <1>8 DEF RuleEngineInv, JobSlots
  <2>4. ASSUME NEW y \in Range(job'.fresh)
        PROVE  \E x \in DOMAIN job'.slots \ Kept' : job'.slots[x] = y
    <3>1. CASE y = s
      BY <1>6, <1>8, <3>1
    <3>2. CASE y \in Range(job.fresh)
      <4>1. PICK x \in DOMAIN job.slots \ Kept : job.slots[x] = y
        BY <3>2 DEF RuleEngineInv, JobSlots
      <4> QED BY <1>6, <1>8, <4>1
    <3>3. y = s \/ y \in Range(job.fresh)
      BY <1>3, <1>5
    <3> QED BY <3>1, <3>2, <3>3
  <2>5. \A x, k \in DOMAIN job'.slots : job'.slots[x] = job'.slots[k] => x = k
    BY <1>6, <1>7 DEF RuleEngineInv, JobSlots
  <2>6. \A x \in DOMAIN job'.slots : body'[job'.slots[x]] = job'.next[x]
    BY <1>5, <1>6, <1>7, <1>10 DEF RuleEngineInv, JobSlots
  <2>7. job'.fresh # << >> /\ job'.pc = "reset"
    BY <1>3, <1>5
  <2> QED BY <2>1, <2>2, <2>3, <2>4, <2>5, <2>6, <2>7 DEF JobSlots
<1>14. Tables'
  <2>1. \A x \in DOMAIN installed : installed[x].slot \in Slots
    BY <1>2 DEF Types, RulesTo
  <2> QED BY <1>1, <1>4, <1>10, <2>1 DEF RuleEngineInv, Tables
<1>15. Tries'
  BY <1>1, <1>5 DEF RuleEngineInv, Tries, TrieHas, InstalledSlots
<1>16. Failures' /\ Deadlines'
  BY <1>1, <1>5 DEF RuleEngineInv, Failures, Deadlines
<1>17. Packets'
  <2> SUFFICES ASSUME "v6" \notin failed, NEW q \in packet
               PROVE  /\ body'[q.slot] = q.want
                      /\ q.slot \notin Range(free')
                      /\ q.slot \notin Range(job'.fresh)
    BY <1>1, <1>5 DEF Packets, RuleEngineInv
  <2>1. /\ body[q.slot] = q.want /\ q.slot \notin Range(free)
        /\ q.slot \notin Range(job.fresh) /\ q.slot \in Slots
    BY <1>1, <1>2 DEF RuleEngineInv, Packets, Types
  <2> QED BY <1>1, <1>3, <1>5, <1>10, <2>1
<1>18. Windows'
  BY <1>1, <1>3, <1>5, <1>6, <1>8 DEF RuleEngineInv, Windows
<1> QED BY <1>11, <1>12, <1>13, <1>14, <1>15, <1>16, <1>17, <1>18 DEF RuleEngineInv

\* ResetRuleBucket
LEMMA ResetKeeps ==
  ASSUME RuleEngineInv, ResetRuleBucket
  PROVE  RuleEngineInv'
<1>1. /\ job.pc = "reset"
      /\ used' = [used EXCEPT ![Last(job.fresh)] = FALSE]
      /\ job' = [job EXCEPT !.pc = "write"]
      /\ UNCHANGED <<ruleNow, rules, installed, free, retired, body, trie, meant, packet, failed>>
  BY DEF ResetRuleBucket
<1>2. Types /\ IsJob(job)
  BY DEF RuleEngineInv, Types
<1>3. /\ job'.pc = "write" /\ job'.next = job.next /\ job'.at = job.at
      /\ job'.fresh = job.fresh /\ job'.slots = job.slots
      /\ job' = [pc |-> "write", next |-> job.next, slots |-> job.slots,
                 fresh |-> job.fresh, at |-> job.at]
  BY <1>1, <1>2 DEF IsJob
<1>4. Kept' = Kept
  BY <1>1, <1>3 DEF Kept
<1>5. used' \in [Slots -> BOOLEAN]
  BY <1>1, <1>2 DEF Types
<1>6. IsJob(job)'
  BY <1>1, <1>2, <1>3 DEF IsJob, RulesTo
<1>7. Types'
  BY <1>1, <1>2, <1>5, <1>6 DEF Types, RulesTo
<1>8. Owned(free, retired, installed, job.fresh)'
  BY <1>1, <1>3 DEF RuleEngineInv
<1>9. JobSlots'
  BY <1>1, <1>3, <1>4 DEF RuleEngineInv, JobSlots
<1>10. Tables' /\ Tries' /\ Failures' /\ Deadlines'
  BY <1>1, <1>3 DEF RuleEngineInv, Tables, Tries, TrieHas, InstalledSlots, Failures, Deadlines
<1>11. Packets'
  BY <1>1, <1>3 DEF RuleEngineInv, Packets
<1>12. Windows'
  <2>1. \A i \in DOMAIN job.slots : job.slots[i] \in Slots
    BY <1>2 DEF IsJob, RulesTo
  <2>2. ASSUME "v6" \notin failed, NEW i \in DOMAIN job.slots \ Kept
        PROVE  ~used'[job.slots[i]]
    <3>1. ~used[job.slots[i]] \/ job.slots[i] = Last(job.fresh)
      BY <1>1, <2>2 DEF RuleEngineInv, Windows
    <3> QED BY <1>1, <1>2, <2>1, <3>1 DEF Types
  <2> QED BY <1>1, <1>3, <1>4, <2>2 DEF Windows
<1> QED BY <1>7, <1>8, <1>9, <1>10, <1>11, <1>12 DEF RuleEngineInv

\* What SwapRuleTrie does to the tries.
LEMMA SwapTrie ==
  ASSUME Types, NEW f \in Families, NEW set, NEW slots, RulesTo(set, Bodies),
         RulesTo(slots, Slots), DOMAIN slots = DOMAIN set, SwapRuleTrie(f, set, slots)
  PROVE  /\ DOMAIN trie' = Families /\ DOMAIN meant' = Families
         /\ \A g \in Families : RulesTo(trie'[g], Slots) /\ RulesTo(meant'[g], Bodies)
         /\ \A g \in Families : DOMAIN meant'[g] = DOMAIN trie'[g]
         /\ trie'[f] = [i \in family(f, DOMAIN set) |-> slots[i]]
         /\ meant'[f] = [i \in family(f, DOMAIN set) |-> set[i]]
         /\ \A g \in Families : g # f => trie'[g] = trie[g] /\ meant'[g] = meant[g]
<1> DEFINE D == family(f, DOMAIN set)
           t == [i \in D |-> slots[i]]
           m == [i \in D |-> set[i]]
<1>1. D \subseteq DOMAIN set
  BY DEF family
<1>2. trie' = [trie EXCEPT ![f] = t] /\ meant' = [meant EXCEPT ![f] = m]
  BY DEF SwapRuleTrie
<1> HIDE DEF D
<1>3. /\ RulesTo(t, Slots) /\ RulesTo(m, Bodies) /\ DOMAIN t = D /\ DOMAIN m = D
  BY <1>1 DEF RulesTo
<1>4. DOMAIN trie = Families /\ DOMAIN meant = Families
  BY DEF Types
<1> HIDE DEF t, m
<1>5. /\ DOMAIN trie' = Families /\ DOMAIN meant' = Families
      /\ trie'[f] = t /\ meant'[f] = m
      /\ \A g \in Families : g # f => trie'[g] = trie[g] /\ meant'[g] = meant[g]
  BY <1>2, <1>4
<1>6. \A g \in Families : RulesTo(trie'[g], Slots) /\ RulesTo(meant'[g], Bodies)
  BY <1>3, <1>5 DEF Types
<1>7. \A g \in Families : DOMAIN meant'[g] = DOMAIN trie'[g]
  BY <1>3, <1>5 DEF Types
<1> QED BY <1>5, <1>6, <1>7 DEF t, m, D

\* The IPv4 swap
LEMMA SwapV4Keeps ==
  ASSUME RuleEngineInv, swapV4
  PROVE  RuleEngineInv'
<1>1. /\ job.pc = "write" /\ DOMAIN job.slots = DOMAIN job.next
      /\ SwapRuleTrie("v4", job.next, job.slots)
      /\ job' = [job EXCEPT !.pc = "v6"]
      /\ UNCHANGED <<ruleNow, rules, installed, free, retired, body, used, packet, failed>>
  BY DEF swapV4
<1>2. Types /\ IsJob(job)
  BY DEF RuleEngineInv, Types
<1>3. /\ job'.pc = "v6" /\ job'.next = job.next /\ job'.at = job.at
      /\ job'.fresh = job.fresh /\ job'.slots = job.slots
      /\ job' = [pc |-> "v6", next |-> job.next, slots |-> job.slots,
                 fresh |-> job.fresh, at |-> job.at]
  BY <1>1, <1>2 DEF IsJob
<1>4. Kept' = Kept
  BY <1>1, <1>3 DEF Kept
<1>5. /\ DOMAIN trie' = Families /\ DOMAIN meant' = Families
      /\ \A g \in Families : RulesTo(trie'[g], Slots) /\ RulesTo(meant'[g], Bodies)
      /\ \A g \in Families : DOMAIN meant'[g] = DOMAIN trie'[g]
      /\ trie'["v4"] = [i \in family("v4", DOMAIN job.next) |-> job.slots[i]]
      /\ meant'["v4"] = [i \in family("v4", DOMAIN job.next) |-> job.next[i]]
      /\ trie'["v6"] = trie["v6"] /\ meant'["v6"] = meant["v6"]
  BY <1>1, <1>2, SwapTrie DEF IsJob, Families
<1>6. IsJob(job)'
  BY <1>1, <1>2, <1>3 DEF IsJob, RulesTo
<1>7. Types'
  BY <1>1, <1>2, <1>5, <1>6 DEF Types, RulesTo
<1>8. Owned(free, retired, installed, job.fresh)'
  BY <1>1, <1>3 DEF RuleEngineInv
<1>9. JobSlots'
  BY <1>1, <1>3, <1>4 DEF RuleEngineInv, JobSlots
<1>10. Tables' /\ Failures' /\ Deadlines'
  BY <1>1, <1>3 DEF RuleEngineInv, Tables, Failures, Deadlines
<1>11. Tries'
  BY <1>1, <1>3, <1>5 DEF RuleEngineInv, Tries, TrieHas, InstalledSlots
<1>12. Packets'
  BY <1>1, <1>3, <1>4 DEF RuleEngineInv, Packets, JobSlots
<1>13. Windows'
  BY <1>1, <1>3, <1>4 DEF RuleEngineInv, Windows
<1> QED BY <1>7, <1>8, <1>9, <1>10, <1>11, <1>12, <1>13 DEF RuleEngineInv

\* What commit leaves behind.
LEMMA CommitMoves ==
  ASSUME RuleEngineInv, job.pc = "v6", commit
  PROVE  /\ rules' = job.next /\ free' = free
         /\ DOMAIN installed' = DOMAIN job.next
         /\ \A i \in DOMAIN job.next : /\ installed'[i].slot = job.slots[i]
                                       /\ installed'[i].body = job.next[i]
         /\ RulesTo(installed', [slot : Slots, body : Bodies])
         /\ Owned(free', retired', installed', << >>)
         /\ \A r \in retired' : \/ r \in retired
                                \/ r.slot \in Slots /\ r.at = job.at
         /\ retired' \subseteq [slot : Slots, at : 1..RuleMaxTime]
<1> DEFINE D    == DOMAIN job.next
           new  == [i \in D |-> [slot |-> job.slots[i], body |-> job.next[i]]]
           lost == {x \in DOMAIN installed :
                      x \notin DOMAIN job.slots \/ job.slots[x] # installed[x].slot}
           add  == {[slot |-> installed[i].slot, at |-> job.at] : i \in lost}
<1>1. installed' = new /\ retired' = retired \cup add /\ free' = free /\ rules' = job.next
  BY DEF commit
<1>2. Types /\ IsJob(job) /\ DOMAIN job.slots = D /\ D \subseteq Ids
  BY DEF RuleEngineInv, Types, JobSlots, IsJob, RulesTo
<1>3. \A i \in D : job.slots[i] \in Slots /\ job.next[i] \in Bodies
  BY <1>2 DEF IsJob, RulesTo
<1>4. DOMAIN new = D /\ \A i \in D : new[i].slot = job.slots[i] /\ new[i].body = job.next[i]
  OBVIOUS
<1>5. RulesTo(new, [slot : Slots, body : Bodies])
  BY <1>2, <1>3 DEF RulesTo
<1>6. add \subseteq [slot : Slots, at : {job.at}]
  BY <1>2 DEF Types, RulesTo
<1>7. job.at \in 1..RuleMaxTime
  BY <1>2, TimesAssumption DEF Types, IsJob
<1>8. Owned(free, retired \cup add, new, << >>)
  <2>1. /\ Owned(free, retired, installed, job.fresh)
        /\ Kept \subseteq D \cap DOMAIN installed
        /\ \A i \in Kept : job.slots[i] = installed[i].slot
        /\ \A i \in D \ Kept : job.slots[i] \in Range(job.fresh)
        /\ \A s \in Range(job.fresh) : \E i \in D \ Kept : job.slots[i] = s
        /\ \A i, k \in D : job.slots[i] = job.slots[k] => i = k
    BY <1>2 DEF RuleEngineInv, JobSlots, Kept
  <2>2. lost = DOMAIN installed \ Kept
    <3>1. \A i \in DOMAIN installed : installed[i].slot \notin Range(job.fresh)
      BY <2>1 DEF Owned, Disjoint, RuleSlots
    <3> QED BY <1>2, <2>1, <3>1
  <2> HIDE DEF lost
  <2>3. \A q, r \in add : q.slot = r.slot => q = r
    OBVIOUS
  <2>4. /\ \A i \in DOMAIN installed \ Kept : installed[i].slot \in RetiredSlots(add)
        /\ \A x \in RetiredSlots(add) :
              \E i \in DOMAIN installed \ Kept : installed[i].slot = x
    <3>1. ASSUME NEW i \in lost PROVE \E r \in add : r.slot = installed[i].slot
      <4>1. /\ [slot |-> installed[i].slot, at |-> job.at] \in add
            /\ [slot |-> installed[i].slot, at |-> job.at].slot = installed[i].slot
        OBVIOUS
      <4> QED BY <4>1
    <3>2. \A r \in add : \E i \in lost : r.slot = installed[i].slot
      OBVIOUS
    <3> HIDE DEF add
    <3> QED BY <2>2, <3>1, <3>2 DEF RetiredSlots
  <2> HIDE DEF add, new, D
  <2>5. /\ Kept \subseteq DOMAIN new \cap DOMAIN installed
        /\ \A i \in Kept : new[i].slot = installed[i].slot
        /\ \A i \in DOMAIN new \ Kept : new[i].slot \in Range(job.fresh)
        /\ \A s \in Range(job.fresh) : \E i \in DOMAIN new \ Kept : new[i].slot = s
        /\ \A i, k \in DOMAIN new : new[i].slot = new[k].slot => i = k
    BY <1>4, <2>1
  <2> QED BY <2>1, <2>3, <2>4, <2>5, OwnedCommit
<1> HIDE DEF new, add
<1>9. \A r \in retired' : r \in retired \/ (r.slot \in Slots /\ r.at = job.at)
  BY <1>1, <1>6
<1>10. retired' \subseteq [slot : Slots, at : 1..RuleMaxTime]
  BY <1>1, <1>2, <1>6, <1>7 DEF Types
<1> QED BY <1>1, <1>4, <1>5, <1>8, <1>9, <1>10

\* The IPv6 swap and commit
LEMMA SwapV6Keeps ==
  ASSUME RuleEngineInv, swapV6
  PROVE  RuleEngineInv'
<1>1. /\ job.pc = "v6" /\ SwapRuleTrie("v6", job.next, job.slots)
      /\ commit /\ job' = NoJob /\ failed' = failed \ {"restore"}
      /\ UNCHANGED <<ruleNow, body, used, packet>>
  BY DEF swapV6
<1>2. /\ rules' = job.next /\ free' = free
      /\ DOMAIN installed' = DOMAIN job.next
      /\ \A i \in DOMAIN job.next : /\ installed'[i].slot = job.slots[i]
                                    /\ installed'[i].body = job.next[i]
      /\ RulesTo(installed', [slot : Slots, body : Bodies])
      /\ Owned(free', retired', installed', << >>)
      /\ \A r \in retired' : r \in retired \/ (r.slot \in Slots /\ r.at = job.at)
      /\ retired' \subseteq [slot : Slots, at : 1..RuleMaxTime]
  BY <1>1, CommitMoves
<1>3. Types /\ IsJob(job) /\ DOMAIN job.slots = DOMAIN job.next
  BY <1>1 DEF RuleEngineInv, Types, JobSlots
<1>4. /\ DOMAIN trie' = Families /\ DOMAIN meant' = Families
      /\ \A g \in Families : RulesTo(trie'[g], Slots) /\ RulesTo(meant'[g], Bodies)
      /\ \A g \in Families : DOMAIN meant'[g] = DOMAIN trie'[g]
      /\ trie'["v6"] = [i \in family("v6", DOMAIN job.next) |-> job.slots[i]]
      /\ meant'["v6"] = [i \in family("v6", DOMAIN job.next) |-> job.next[i]]
      /\ trie'["v4"] = trie["v4"] /\ meant'["v4"] = meant["v4"]
  BY <1>1, <1>3, SwapTrie DEF IsJob, Families
<1>5. /\ JobSlots' /\ Windows' /\ IsJob(job)'
      /\ job'.pc = "idle" /\ job'.fresh = << >>
  BY <1>1, NoInstall
<1>6. Types'
  BY <1>1, <1>2, <1>3, <1>4, <1>5 DEF Types, IsJob, RulesTo
<1>7. Owned(free, retired, installed, job.fresh)'
  BY <1>2, <1>5
<1>8. Tables'
  BY <1>1, <1>2, <1>3 DEF RuleEngineInv, JobSlots, Tables
<1>9. Tries'
  <2>1. InstalledSlots' = [i \in DOMAIN job.next |-> job.slots[i]]
    BY <1>2 DEF InstalledSlots
  <2>2. \A f : family(f, DOMAIN job.next) \subseteq DOMAIN job.next
    BY DEF family
  <2>3. \A f : [i \in family(f, DOMAIN job.next) |-> InstalledSlots'[i]]
                 = [i \in family(f, DOMAIN job.next) |-> job.slots[i]]
    BY <2>1, <2>2
  <2>4. TrieHas("v4", job.next, job.slots)
    BY <1>1 DEF RuleEngineInv, Tries
  <2>5. TrieHas("v6", rules, InstalledSlots)'
    BY <1>2, <1>4, <2>3 DEF TrieHas
  <2>6. TrieHas("v4", rules, InstalledSlots)'
    BY <1>2, <1>4, <2>3, <2>4 DEF TrieHas
  <2> QED BY <1>5, <2>5, <2>6 DEF Tries
<1>10. Failures' /\ Deadlines'
  BY <1>1, <1>5 DEF RuleEngineInv, Failures, Deadlines
<1>11. Packets'
  <2> SUFFICES ASSUME "v6" \notin failed, NEW q \in packet
               PROVE  /\ body[q.slot] = q.want /\ q.slot \notin Range(free)
                      /\ \A r \in retired' : r.slot = q.slot => q.since <= r.at + InstallTime
    BY <1>1, <1>2, <1>5 DEF Packets
  <2>1. /\ body[q.slot] = q.want /\ q.slot \notin Range(free)
        /\ \A r \in retired : r.slot = q.slot => q.since <= r.at + InstallTime
    BY DEF RuleEngineInv, Packets
  <2>2. q.since \in 1..ruleNow /\ ruleNow \in Nat /\ job.at \in Nat
    BY <1>3 DEF Types, IsJob
  <2>3. ruleNow - job.at <= InstallTime
    BY <1>1 DEF RuleEngineInv, Deadlines
  <2>4. q.since <= job.at + InstallTime
    BY <2>2, <2>3, TimesAssumption
  <2> QED BY <1>2, <2>1, <2>4
<1> QED BY <1>5, <1>6, <1>7, <1>8, <1>9, <1>10, <1>11 DEF RuleEngineInv

\* The IPv6 swap fails
LEMMA SwapV6FailsKeeps ==
  ASSUME RuleEngineInv, swapV6Fails
  PROVE  RuleEngineInv'
<1>1. /\ job.pc = "v6" /\ job' = [job EXCEPT !.pc = "restore"]
      /\ failed' = failed \cup {"v6"}
      /\ UNCHANGED <<ruleNow, rules, installed, free, retired, body, used, trie, meant, packet>>
  BY DEF swapV6Fails, kernelVars
<1>2. Types /\ IsJob(job)
  BY DEF RuleEngineInv, Types
<1>3. /\ job'.pc = "restore" /\ job'.next = job.next /\ job'.at = job.at
      /\ job'.fresh = job.fresh /\ job'.slots = job.slots
      /\ job' = [pc |-> "restore", next |-> job.next, slots |-> job.slots,
                 fresh |-> job.fresh, at |-> job.at]
  BY <1>1, <1>2 DEF IsJob
<1>4. Kept' = Kept
  BY <1>1, <1>3 DEF Kept
<1>5. IsJob(job)'
  BY <1>1, <1>2, <1>3 DEF IsJob, RulesTo
<1>6. Types'
  BY <1>1, <1>2, <1>5 DEF Types, RulesTo
<1>7. Owned(free, retired, installed, job.fresh)'
  BY <1>1, <1>3 DEF RuleEngineInv
<1>8. JobSlots'
  BY <1>1, <1>3, <1>4 DEF RuleEngineInv, JobSlots
<1>9. Tables' /\ Deadlines' /\ Failures'
  BY <1>1, <1>3 DEF RuleEngineInv, Tables, Deadlines, Failures
<1>10. Tries'
  BY <1>1, <1>3 DEF RuleEngineInv, Tries, TrieHas, InstalledSlots
<1>11. Packets' /\ Windows'
  BY <1>1 DEF Packets, Windows
<1> QED BY <1>6, <1>7, <1>8, <1>9, <1>10, <1>11 DEF RuleEngineInv

\* The previous IPv4 trie is put back
LEMMA RestoreKeeps ==
  ASSUME RuleEngineInv, restoreV4
  PROVE  RuleEngineInv'
<1>1. /\ job.pc = "restore" /\ SwapRuleTrie("v4", rules, InstalledSlots)
      /\ rollback
      /\ UNCHANGED <<ruleNow, rules, installed, retired, body, used, packet, failed>>
  BY DEF restoreV4, InstalledSlots
<1>2. Types /\ IsJob(job) /\ "v6" \in failed
  BY <1>1 DEF RuleEngineInv, Types, Failures
<1>3. RulesTo(InstalledSlots, Slots) /\ DOMAIN InstalledSlots = DOMAIN rules
  BY <1>2 DEF InstalledSlots, Types, RulesTo, RuleEngineInv, Tables
<1>4. /\ DOMAIN trie' = Families /\ DOMAIN meant' = Families
      /\ \A g \in Families : RulesTo(trie'[g], Slots) /\ RulesTo(meant'[g], Bodies)
      /\ \A g \in Families : DOMAIN meant'[g] = DOMAIN trie'[g]
      /\ trie'["v4"] = [i \in family("v4", DOMAIN rules) |-> InstalledSlots[i]]
      /\ meant'["v4"] = [i \in family("v4", DOMAIN rules) |-> rules[i]]
      /\ trie'["v6"] = trie["v6"] /\ meant'["v6"] = meant["v6"]
  <2>1. RulesTo(rules, Bodies) /\ "v4" \in Families /\ "v6" \in Families
    BY <1>2 DEF Types, Families
  <2> QED BY <1>1, <1>2, <1>3, <2>1, SwapTrie
<1>5. /\ JobSlots' /\ Windows' /\ IsJob(job)'
      /\ job'.pc = "idle" /\ job'.fresh = << >>
  BY <1>1, NoInstall DEF rollback
<1>6. free' \in Seq(Slots) /\ Owned(free', retired, installed, << >>)
  BY <1>1, <1>2, OwnedRollback DEF rollback, Types, IsJob, RuleEngineInv
<1>7. Types'
  BY <1>1, <1>2, <1>4, <1>5, <1>6 DEF Types, RulesTo
<1>8. Owned(free, retired, installed, job.fresh)'
  BY <1>1, <1>5, <1>6
<1>9. Tables' /\ Failures' /\ Deadlines'
  BY <1>1, <1>5 DEF RuleEngineInv, Tables, Failures, Deadlines
<1>10. Tries'
  <2>1. InstalledSlots' = InstalledSlots
    BY <1>1 DEF InstalledSlots
  <2> QED BY <1>1, <1>4, <1>5, <2>1 DEF RuleEngineInv, Tries, TrieHas
<1>11. Packets'
  BY <1>1, <1>2 DEF Packets
<1> QED BY <1>5, <1>7, <1>8, <1>9, <1>10, <1>11 DEF RuleEngineInv

\* Nor can it be put back
LEMMA RestoreFailsKeeps ==
  ASSUME RuleEngineInv, restoreV4Fails
  PROVE  RuleEngineInv'
<1> DEFINE add == {[slot |-> s, at |-> job.at] : s \in Range(job.fresh)}
<1>1. /\ job.pc = "restore" /\ retired' = retired \cup add /\ job' = NoJob
      /\ failed' = failed \cup {"restore"}
      /\ UNCHANGED <<ruleNow, rules, installed, free, body, used, trie, meant, packet>>
  BY DEF restoreV4Fails, kernelVars
<1>2. Types /\ IsJob(job) /\ "v6" \in failed
  BY <1>1 DEF RuleEngineInv, Types, Failures
<1>3. /\ JobSlots' /\ Windows' /\ IsJob(job)'
      /\ job'.pc = "idle" /\ job'.fresh = << >>
  BY <1>1, NoInstall
<1>4. Owned(free, retired \cup add, installed, << >>)
  <2>1. \A q, r \in add : q.slot = r.slot => q = r
    OBVIOUS
  <2>2. RetiredSlots(add) = Range(job.fresh)
    <3>1. ASSUME NEW x \in Range(job.fresh) PROVE \E r \in add : r.slot = x
      <4>1. [slot |-> x, at |-> job.at] \in add /\ [slot |-> x, at |-> job.at].slot = x
        OBVIOUS
      <4> QED BY <4>1
    <3>2. \A r \in add : r.slot \in Range(job.fresh)
      OBVIOUS
    <3> HIDE DEF add
    <3> QED BY <3>1, <3>2 DEF RetiredSlots
  <2> HIDE DEF add
  <2> QED BY <2>1, <2>2, OwnedRetire DEF RuleEngineInv
<1>5. add \subseteq [slot : Slots, at : 1..RuleMaxTime]
  <2>1. Range(job.fresh) \subseteq Slots
    BY <1>2 DEF IsJob, Range
  <2>2. job.at \in 1..RuleMaxTime
    BY <1>1, <1>2, TimesAssumption DEF Types, IsJob
  <2> QED BY <2>1, <2>2
<1> HIDE DEF add
<1>6. Types'
  BY <1>1, <1>2, <1>3, <1>5 DEF Types, RulesTo
<1>7. Owned(free, retired, installed, job.fresh)'
  BY <1>1, <1>3, <1>4
<1>8. Tables' /\ Failures' /\ Deadlines'
  BY <1>1, <1>2, <1>3 DEF RuleEngineInv, Tables, Failures, Deadlines
<1>9. Tries'
  BY <1>1, <1>3 DEF RuleEngineInv, Tries, TrieHas, InstalledSlots
<1>10. Packets'
  BY <1>1, <1>2 DEF Packets
<1> QED BY <1>3, <1>6, <1>7, <1>8, <1>9, <1>10 DEF RuleEngineInv

\* What a live trie names, while no IPv6 swap failed: the slot of a rule of the
\* engine, or, once the IPv4 trie is swapped, one of the install.
LEMMA TrieSlots ==
  ASSUME RuleEngineInv, "v6" \notin failed, NEW f \in Families, NEW i \in DOMAIN trie[f]
  PROVE  \/ /\ i \in DOMAIN installed /\ trie[f][i] = installed[i].slot
            /\ meant[f][i] = installed[i].body
         \/ /\ job.pc = "v6" /\ i \in V4
            /\ i \in DOMAIN job.slots /\ trie[f][i] = job.slots[i]
            /\ meant[f][i] = job.next[i]
<1>1. "restore" \notin failed /\ job.pc # "restore"
  BY DEF RuleEngineInv, Failures
<1>2. CASE TrieHas(f, rules, InstalledSlots)
  <2>1. i \in family(f, DOMAIN rules) /\ family(f, DOMAIN rules) \subseteq DOMAIN rules
    BY <1>2 DEF TrieHas, family
  <2>2. i \in DOMAIN installed /\ installed[i].body = rules[i]
    BY <2>1 DEF RuleEngineInv, Tables
  <2> QED BY <1>2, <2>1, <2>2 DEF TrieHas, InstalledSlots
<1>3. CASE f = "v4" /\ job.pc = "v6"
  <2>1. TrieHas("v4", job.next, job.slots) /\ DOMAIN job.slots = DOMAIN job.next
    BY <1>3 DEF RuleEngineInv, Tries, JobSlots
  <2>2. i \in DOMAIN job.next /\ i \in V4 /\ i \in family("v4", DOMAIN job.next)
    BY <1>3, <2>1 DEF TrieHas, family
  <2> QED BY <1>3, <2>1, <2>2 DEF TrieHas
<1>4. f = "v4" \/ f = "v6"
  BY DEF Families
<1> QED BY <1>1, <1>2, <1>3, <1>4 DEF RuleEngineInv, Tries, Types, IsJob

\* readTrie
LEMMA ReadTrieKeeps ==
  ASSUME RuleEngineInv, NEW f \in Families, NEW i \in Ids, readTrie(f, i)
  PROVE  RuleEngineInv'
<1> DEFINE q == [slot |-> trie[f][i], want |-> meant[f][i], since |-> ruleNow]
<1>1. /\ i \in DOMAIN trie[f] /\ packet' = {q}
      /\ UNCHANGED <<ruleNow, rules, installed, free, retired, job, body, used, trie, meant,
                     failed>>
  BY DEF readTrie, engineVars, kernelVars
<1>2. Types /\ ruleNow \in Nat \ {0}
  BY DEF RuleEngineInv, Types
<1>3. q \in [slot : Slots, want : Bodies, since : 1..ruleNow]
  <2>1. trie[f][i] \in Slots /\ meant[f][i] \in Bodies
    BY <1>1, <1>2 DEF Types, RulesTo
  <2> QED BY <1>2, <2>1
<1>4. q.slot = trie[f][i] /\ q.want = meant[f][i] /\ q.since = ruleNow
  OBVIOUS
<1> HIDE DEF q
<1>5. IsJob(job)'
  BY <1>1, <1>2 DEF Types, IsJob
<1>6. Types'
  BY <1>1, <1>2, <1>3, <1>5 DEF Types, RulesTo
<1>7. Owned(free, retired, installed, job.fresh)'
  BY <1>1 DEF RuleEngineInv
<1>8. Kept' = Kept
  BY <1>1 DEF Kept
<1>9. JobSlots' /\ Windows'
  BY <1>1, <1>8 DEF RuleEngineInv, JobSlots, Windows
<1>10. Tables' /\ Failures'
  BY <1>1 DEF RuleEngineInv, Tables, Failures
<1>11. Tries'
  BY <1>1 DEF RuleEngineInv, Tries, TrieHas, InstalledSlots
<1>12. Deadlines'
  BY <1>1, <1>2, <1>4, TimesAssumption DEF RuleEngineInv, Deadlines
<1>13. Packets'
  <2> SUFFICES ASSUME "v6" \notin failed
               PROVE  /\ body[q.slot] = q.want
                      /\ q.slot \notin Range(free)
                      /\ q.slot \notin RetiredSlots(retired)
                      /\ job.pc \in {"write", "reset"} => q.slot \notin Range(job.fresh)
                      /\ job.pc = "v6" => \A k \in DOMAIN job.slots \ Kept :
                                             job.slots[k] = q.slot => k \in V4
    BY <1>1, <1>8 DEF Packets, RetiredSlots
  <2>1. /\ Range(free) \cap RuleSlots(installed) = {}
        /\ Range(free) \cap Range(job.fresh) = {}
        /\ RetiredSlots(retired) \cap RuleSlots(installed) = {}
        /\ RetiredSlots(retired) \cap Range(job.fresh) = {}
        /\ RuleSlots(installed) \cap Range(job.fresh) = {}
    BY DEF RuleEngineInv, Owned, Disjoint
  <2>2. \A k \in DOMAIN job.slots \ Kept : job.slots[k] \in Range(job.fresh)
    BY DEF RuleEngineInv, JobSlots
  <2>3. CASE i \in DOMAIN installed /\ q.slot = installed[i].slot
             /\ q.want = installed[i].body
    <3>1. q.slot \in RuleSlots(installed)
      BY <2>3 DEF RuleSlots
    <3>2. body[q.slot] = q.want
      BY <2>3 DEF RuleEngineInv, Tables
    <3> QED BY <2>1, <2>2, <3>1, <3>2
  <2>4. CASE job.pc = "v6" /\ i \in V4 /\ i \in DOMAIN job.slots
             /\ q.slot = job.slots[i] /\ q.want = job.next[i]
    <3>1. body[q.slot] = q.want
      BY <2>4 DEF RuleEngineInv, JobSlots
    <3>2. q.slot \in RuleSlots(installed) \/ q.slot \in Range(job.fresh)
      BY <2>2, <2>4 DEF RuleEngineInv, JobSlots, Kept, RuleSlots
    <3>3. \A k \in DOMAIN job.slots : job.slots[k] = q.slot => k = i
      BY <2>4 DEF RuleEngineInv, JobSlots
    <3> QED BY <2>1, <2>4, <3>1, <3>2, <3>3
  <2> QED BY <1>1, <1>4, <2>3, <2>4, TrieSlots
<1> QED BY <1>6, <1>7, <1>9, <1>10, <1>11, <1>12, <1>13 DEF RuleEngineInv

\* matchRule
LEMMA MatchRuleKeeps ==
  ASSUME RuleEngineInv, matchRule
  PROVE  RuleEngineInv'
<1>1. PICK q \in packet : used' = [used EXCEPT ![q.slot] = TRUE]
  BY DEF matchRule
<1>2. /\ packet' = {}
      /\ UNCHANGED <<ruleNow, rules, installed, free, retired, job, body, trie, meant, failed>>
  BY DEF matchRule, engineVars
<1>3. Types
  BY DEF RuleEngineInv
<1>4. used' \in [Slots -> BOOLEAN]
  BY <1>1, <1>3 DEF Types
<1>5. IsJob(job)'
  BY <1>2, <1>3 DEF Types, IsJob
<1>6. Types'
  BY <1>2, <1>3, <1>4, <1>5 DEF Types, RulesTo
<1>7. Owned(free, retired, installed, job.fresh)'
  BY <1>2 DEF RuleEngineInv
<1>8. Kept' = Kept
  BY <1>2 DEF Kept
<1>9. JobSlots' /\ Tables' /\ Failures'
  BY <1>2, <1>8 DEF RuleEngineInv, JobSlots, Tables, Failures
<1>10. Tries'
  BY <1>2 DEF RuleEngineInv, Tries, TrieHas, InstalledSlots
<1>11. Deadlines' /\ Packets'
  BY <1>2 DEF RuleEngineInv, Deadlines, Packets
<1>12. Windows'
  <2> SUFFICES ASSUME "v6" \notin failed, NEW i \in DOMAIN job.slots \ Kept,
                      used'[job.slots[i]]
               PROVE  \/ job.pc = "reset" /\ job.slots[i] = Last(job.fresh)
                      \/ job.pc = "v6" /\ i \in V4
    BY <1>2, <1>8 DEF Windows
  <2>1. \/ ~used[job.slots[i]]
        \/ job.pc = "reset" /\ job.slots[i] = Last(job.fresh)
        \/ job.pc = "v6" /\ i \in V4
    BY DEF RuleEngineInv, Windows
  <2>2. CASE ~used[job.slots[i]]
    <3>1. job.slots[i] \in Slots /\ q.slot \in Slots
      BY <1>3 DEF Types, IsJob, RulesTo
    <3>2. job.slots[i] = q.slot
      BY <1>1, <1>3, <2>2, <3>1 DEF Types
    <3>3. job.slots[i] \in Range(job.fresh)
      BY DEF RuleEngineInv, JobSlots
    <3>4. job.pc \notin {"write", "reset"}
      BY <3>2, <3>3 DEF RuleEngineInv, Packets
    <3>5. job.pc # "restore"
      BY DEF RuleEngineInv, Failures
    <3>6. job.pc # "idle"
      BY <1>3, EmptyRules DEF Types, IsJob, NoJob
    <3>7. job.pc = "v6"
      BY <1>3, <3>4, <3>5, <3>6 DEF Types, IsJob
    <3> QED BY <3>2, <3>7 DEF RuleEngineInv, Packets
  <2> QED BY <2>1, <2>2
<1> QED BY <1>6, <1>7, <1>9, <1>10, <1>11, <1>12 DEF RuleEngineInv

\* The clock
LEMMA TickKeeps ==
  ASSUME RuleEngineInv, RuleEngineTick
  PROVE  RuleEngineInv'
<1>1. /\ ruleNow < RuleMaxTime /\ ruleNow' = ruleNow + 1
      /\ \A q \in packet : ruleNow - q.since < ReadTime
      /\ job.pc # "idle" => ruleNow - job.at < InstallTime
      /\ UNCHANGED <<rules, installed, free, retired, job, body, used, trie, meant, packet,
                     failed>>
  BY DEF RuleEngineTick, engineVars, kernelVars
<1>2. Types /\ ruleNow \in Nat /\ ruleNow' \in Nat /\ ruleNow' \in 1..RuleMaxTime
      /\ 1..ruleNow \subseteq 1..ruleNow'
  BY <1>1, TimesAssumption DEF RuleEngineInv, Types
<1>3. IsJob(job)'
  BY <1>1, <1>2 DEF Types, IsJob
<1>4. packet' \subseteq [slot : Slots, want : Bodies, since : 1..ruleNow']
  BY <1>1, <1>2 DEF Types
<1>5. Types'
  BY <1>1, <1>2, <1>3, <1>4 DEF Types, RulesTo
<1>6. Owned(free, retired, installed, job.fresh)'
  BY <1>1 DEF RuleEngineInv
<1>7. Kept' = Kept
  BY <1>1 DEF Kept
<1>8. JobSlots' /\ Windows' /\ Packets'
  BY <1>1, <1>7 DEF RuleEngineInv, JobSlots, Windows, Packets
<1>9. Tables' /\ Failures'
  BY <1>1 DEF RuleEngineInv, Tables, Failures
<1>10. Tries'
  BY <1>1 DEF RuleEngineInv, Tries, TrieHas, InstalledSlots
<1>11. Deadlines'
  <2>1. \A q \in packet : q.since \in Nat
    BY <1>2 DEF Types
  <2>2. job.at \in Nat
    BY <1>2 DEF Types, IsJob
  <2> QED BY <1>1, <1>2, <2>1, <2>2, TimesAssumption DEF Deadlines
<1> QED BY <1>5, <1>6, <1>8, <1>9, <1>10, <1>11 DEF RuleEngineInv

\* The initial state
LEMMA InitKeeps == RuleEngineInit => RuleEngineInv
<1> SUFFICES ASSUME RuleEngineInit PROVE RuleEngineInv
  OBVIOUS
<1>0. ruleNow \in 1..RuleMaxTime
  BY TimesAssumption DEF RuleEngineInit
<1>1. /\ job.pc = "idle" /\ job.next = << >> /\ job.slots = << >> /\ job.fresh = << >>
      /\ job.at = 0
  BY DEF RuleEngineInit, NoJob
<1>2. DOMAIN job.slots = {} /\ DOMAIN job.next = {} /\ Range(job.fresh) = {}
  BY <1>1, EmptyRules
<1>3. IsJob(job)
  <2>1. RulesTo(job.next, Bodies) /\ RulesTo(job.slots, Slots) /\ job.fresh \in Seq(Slots)
    BY <1>1, EmptyRules
  <2> QED BY <1>1, <2>1 DEF IsJob, RuleEngineInit, NoJob
<1>4. free \in Seq(Slots) /\ IsInjective(free) /\ Range(free) = Slots
  BY RuleSetAssumption, ListOfSet DEF RuleEngineInit
<1>5. \A f \in Families : trie[f] = << >> /\ meant[f] = << >>
  BY DEF RuleEngineInit
<1>6. Types
  BY <1>0, <1>3, <1>4, <1>5, EmptyRules DEF RuleEngineInit, Types
<1>7. Owned(free, retired, installed, job.fresh)
  <2>1. RetiredSlots(retired) = {} /\ RuleSlots(installed) = {} /\ DOMAIN installed = {}
        /\ IsInjective(job.fresh) /\ retired = {}
    BY <1>1, EmptyRules DEF RuleEngineInit, RetiredSlots, RuleSlots
  <2> QED BY <1>2, <1>4, <2>1 DEF Owned, Disjoint
<1>8. JobSlots /\ Windows
  BY <1>1, <1>2 DEF JobSlots, Windows, Kept
<1>9. DOMAIN rules = {} /\ DOMAIN installed = {}
  BY EmptyRules DEF RuleEngineInit
<1>10. Tables
  BY <1>9 DEF Tables
<1>11. Tries
  <2>1. \A f : family(f, DOMAIN rules) = {}
    BY <1>9 DEF family
  <2>2. ASSUME NEW f \in Families PROVE TrieHas(f, rules, InstalledSlots)
    <3>1. /\ [i \in {} |-> InstalledSlots[i]] = << >>
          /\ [i \in {} |-> rules[i]] = << >>
      OBVIOUS
    <3> QED BY <1>5, <2>1, <3>1 DEF TrieHas
  <2> QED BY <1>1, <2>2 DEF Tries, Families
<1>12. Failures /\ Deadlines /\ Packets
  BY <1>1 DEF Failures, Deadlines, Packets, RuleEngineInit
<1> QED BY <1>6, <1>7, <1>8, <1>10, <1>11, <1>12 DEF RuleEngineInv

\* Every step keeps the invariant.
LEMMA NextKeeps == RuleEngineInv /\ [RuleEngineNext]_ruleEngineVars => RuleEngineInv'
<1> SUFFICES ASSUME RuleEngineInv, [RuleEngineNext]_ruleEngineVars PROVE RuleEngineInv'
  OBVIOUS
<1>1. ASSUME NEW set \in RuleSets, Apply(set) PROVE RuleEngineInv'
  BY <1>1, ApplyKeeps
<1>2. ASSUME NEW D \in SUBSET DOMAIN rules, Expire(D) PROVE RuleEngineInv'
  BY <1>2, ExpireKeeps
<1>3. CASE Install
  BY <1>3, TakeSlotKeeps, EarlyFailureKeeps, ResetKeeps, SwapV4Keeps, SwapV6Keeps,
     SwapV6FailsKeeps, RestoreKeeps, RestoreFailsKeeps DEF Install
<1>4. ASSUME NEW f \in Families, NEW i \in Ids, readTrie(f, i) PROVE RuleEngineInv'
  BY <1>4, ReadTrieKeeps
<1>5. CASE matchRule
  BY <1>5, MatchRuleKeeps
<1>6. CASE RuleEngineTick
  BY <1>6, TickKeeps
<1>7. CASE UNCHANGED ruleEngineVars
  <2>1. UNCHANGED <<ruleNow, rules, installed, free, retired, job, body, used, trie, meant,
                    packet, failed>>
    BY <1>7 DEF ruleEngineVars, engineVars, kernelVars
  <2>2. Types'
    BY <2>1 DEF RuleEngineInv, Types, IsJob, RulesTo
  <2>3. Kept' = Kept /\ InstalledSlots' = InstalledSlots
    BY <2>1 DEF Kept, InstalledSlots
  <2> QED BY <2>1, <2>2, <2>3 DEF RuleEngineInv, JobSlots, Tables, Tries, TrieHas,
             Failures, Deadlines, Packets, Windows
<1> QED BY <1>1, <1>2, <1>3, <1>4, <1>5, <1>6, <1>7 DEF RuleEngineNext

\* The invariant holds throughout every behaviour.
LEMMA InvHolds == RuleEngineSpec => []RuleEngineInv
BY InitKeeps, NextKeeps, PTL DEF RuleEngineSpec

-----------------------------------------------------------------------------
(***************************************************************************)
(* What the invariant gives.                                               *)
(***************************************************************************)

\* The slots named by the live tries hold the bodies meant.
LEMMA InvLiveBodies ==
  ASSUME RuleEngineInv, "restore" \notin failed
  PROVE  LiveBodies
<1> SUFFICES ASSUME NEW f \in Families, NEW i \in DOMAIN trie[f]
             PROVE  body[trie[f][i]] = meant[f][i]
  BY DEF LiveBodies
<1>1. CASE TrieHas(f, rules, InstalledSlots)
  <2>1. i \in family(f, DOMAIN rules) /\ family(f, DOMAIN rules) \subseteq DOMAIN rules
    BY <1>1 DEF TrieHas, family
  <2>2. i \in DOMAIN installed /\ body[installed[i].slot] = rules[i]
    BY <2>1 DEF RuleEngineInv, Tables
  <2> QED BY <1>1, <2>1, <2>2 DEF TrieHas, InstalledSlots
<1>2. CASE f = "v4" /\ job.pc \in {"v6", "restore"}
  <2>1. TrieHas("v4", job.next, job.slots) /\ DOMAIN job.slots = DOMAIN job.next
    BY <1>2 DEF RuleEngineInv, Tries, JobSlots
  <2>2. i \in DOMAIN job.slots /\ i \in family("v4", DOMAIN job.next)
    BY <1>2, <2>1 DEF TrieHas, family
  <2> QED BY <1>2, <2>1, <2>2 DEF TrieHas, RuleEngineInv, JobSlots
<1>3. f = "v4" \/ f = "v6"
  BY DEF Families
<1> QED BY <1>1, <1>2, <1>3 DEF RuleEngineInv, Tries

\* Between installs the kernel holds the engine's rules.
LEMMA InvKernel ==
  ASSUME RuleEngineInv
  PROVE  KernelHoldsRules
<1> SUFFICES ASSUME job.pc = "idle", "restore" \notin failed, NEW f \in Families
             PROVE  /\ DOMAIN installed = DOMAIN rules
                    /\ \A i \in DOMAIN rules : installed[i].body = rules[i]
                    /\ meant[f] = Restrict(rules, family(f, DOMAIN rules))
                    /\ \A i \in DOMAIN trie[f] : trie[f][i] = installed[i].slot
  BY DEF KernelHoldsRules, RuleEngineInv, Tables
<1>1. TrieHas(f, rules, InstalledSlots)
  BY DEF RuleEngineInv, Tries, Families
<1>2. family(f, DOMAIN rules) \subseteq DOMAIN rules
  BY DEF family
<1>3. DOMAIN installed = DOMAIN rules /\ \A i \in DOMAIN rules : installed[i].body = rules[i]
  BY DEF RuleEngineInv, Tables
<1> QED BY <1>1, <1>2, <1>3 DEF TrieHas, InstalledSlots, Restrict

\* The type invariant of the specification.
LEMMA InvTypeOK ==
  ASSUME RuleEngineInv
  PROVE  RuleEngineTypeOK
<1>1. Types
  BY DEF RuleEngineInv
<1>2. Range(rules) \subseteq Bodies /\ Range(installed) \subseteq [slot : Slots, body : Bodies]
  BY <1>1 DEF Types, RulesTo, Range
<1>3. FreeSlots \subseteq Slots
  BY DEF FreeSlots, RuleEngineInv, Owned
<1> QED BY <1>1, <1>2, <1>3 DEF Types, RuleEngineTypeOK, RulesTo, IsJob

\* What a step may do to slots and rate windows.
LEMMA StepKeepsWindows ==
  ASSUME RuleEngineInv, [RuleEngineNext]_ruleEngineVars, failed = {}, NEW i \in DOMAIN installed'
  PROVE  LET same == i \in DOMAIN installed /\ installed[i].slot = installed'[i].slot
         IN  /\ i \in DOMAIN rules /\ rules[i] = rules'[i] => same
             /\ ~same /\ i \notin V4 => ~used'[installed'[i].slot]
<1>1. CASE installed' = installed
  BY <1>1
<1>2. CASE swapV6
  <2>1. job.pc = "v6" /\ commit /\ used' = used
    BY <1>2 DEF swapV6
  <2>2. /\ rules' = job.next /\ DOMAIN installed' = DOMAIN job.next
        /\ installed'[i].slot = job.slots[i]
    BY <2>1, CommitMoves
  <2>3. i \in DOMAIN job.slots
    BY <2>1, <2>2 DEF RuleEngineInv, JobSlots
  <2>4. CASE i \in Kept
    <3>1. i \in DOMAIN installed /\ installed[i].slot = job.slots[i]
      BY <2>4 DEF RuleEngineInv, JobSlots, Kept
    <3> QED BY <2>2, <3>1
  <2>5. CASE i \notin Kept
    <3>1. ~(i \in DOMAIN rules /\ rules[i] = rules'[i])
      BY <2>2, <2>5 DEF Kept, RuleEngineInv, Tables
    <3>2. i \notin V4 => ~used[job.slots[i]]
      BY <2>1, <2>3, <2>5 DEF RuleEngineInv, Windows
    <3> QED BY <2>1, <2>2, <3>1, <3>2
  <2> QED BY <2>4, <2>5
<1>3. installed' = installed \/ swapV6
  <2>1. ASSUME NEW set \in RuleSets, Apply(set) PROVE installed' = installed
    BY <2>1 DEF Apply
  <2>2. ASSUME NEW D \in SUBSET DOMAIN rules, Expire(D) PROVE installed' = installed
    BY <2>2 DEF Expire
  <2>3. ASSUME Install, ~swapV6 PROVE installed' = installed
    BY <2>3 DEF Install, takeSlot, putFails, noFreeSlot, ResetRuleBucket, resetFails,
       swapV4, swapV4Fails, swapV6Fails, restoreV4, restoreV4Fails
  <2>4. ASSUME NEW f \in Families, NEW k \in Ids, readTrie(f, k) PROVE installed' = installed
    BY <2>4 DEF readTrie, engineVars
  <2>5. CASE matchRule \/ RuleEngineTick \/ UNCHANGED ruleEngineVars
    BY <2>5 DEF matchRule, RuleEngineTick, ruleEngineVars, engineVars
  <2> QED BY <2>1, <2>2, <2>3, <2>4, <2>5 DEF RuleEngineNext
<1> QED BY <1>1, <1>2, <1>3

\* slotGrace is long enough, for every set of rules, every number of slots and
\* whatever map operations fail short of the IPv6 swap: a packet in XDP always
\* finds in its slot the body that the trie it read meant (releaseRetired,
\* commit).
THEOREM PacketFindsItsRule == RuleEngineSpec => []PacketSeesItsRule
<1>1. RuleEngineInv => PacketSeesItsRule
  BY DEF RuleEngineInv, Packets, PacketSeesItsRule, PacketReads
<1> QED BY <1>1, InvHolds, PTL

\* No install, failed or not, leaks a slot or hands one out twice (takeSlot,
\* rollback, commit, releaseRetired).
THEOREM SlotsAccounted == RuleEngineSpec => []SlotsPartition
<1>1. RuleEngineInv => SlotsPartition
  BY OwnedPartition DEF RuleEngineInv
<1> QED BY <1>1, InvHolds, PTL

\* An install takes effect as a whole or leaves no trace, whatever map
\* operation of it fails: types, slots, live bodies, tries between installs, and
\* the rate windows of the rules it keeps (install).
THEOREM InstallsAreAtomic == RuleEngineSpec => InstallsAtomic
<1>1. RuleEngineInv => RuleEngineTypeOK /\ SlotsPartition /\ LiveBodiesMatch /\ KernelHoldsRules
  <2> SUFFICES ASSUME RuleEngineInv
               PROVE  RuleEngineTypeOK /\ SlotsPartition /\ LiveBodiesMatch /\ KernelHoldsRules
    OBVIOUS
  <2>1. SlotsPartition
    BY OwnedPartition DEF RuleEngineInv
  <2>2. LiveBodiesMatch
    BY InvLiveBodies DEF LiveBodiesMatch
  <2> QED BY <2>1, <2>2, InvTypeOK, InvKernel
<1>2. RuleEngineInv /\ [RuleEngineNext]_ruleEngineVars =>
        [failed = {} => \A i \in DOMAIN installed' :
           LET same == i \in DOMAIN installed /\ installed[i].slot = installed'[i].slot
           IN  /\ i \in DOMAIN rules /\ rules[i] = rules'[i] => same
               /\ ~same /\ i \notin V4 => ~used'[installed'[i].slot]]_ruleEngineVars
  BY StepKeepsWindows
<1> QED BY <1>1, <1>2, InvHolds, PTL DEF RuleEngineSpec, InstallsAtomic, WindowsKept

-----------------------------------------------------------------------------
(***************************************************************************)
(* The inductive invariant.                                                *)
(***************************************************************************)

Snapshot == [rules : SUBSET Rules, ver : Nat]

\* The values of the analyzer's own variables, ...
AnalyzerTyped ==
  /\ now \in 1..MaxTime
  /\ store \in SUBSET Rules
  /\ ver \in Nat
  /\ stopped \in BOOLEAN
  /\ file \in Snapshot

\* ... of the streams', ...
StreamsTyped ==
  /\ conn \in [Streams -> {"new", "open", "gone"}]
  /\ scrub \in [Streams -> BOOLEAN]
  /\ announce \in [Streams -> BOOLEAN]
  /\ sentVer \in [Streams -> Int]
  /\ wire \in [Streams -> Seq(SUBSET Rules)]
  /\ held \in [Streams -> SUBSET Rules]

\* ... of the workers', ...
WorkersTyped ==
  /\ waiters \in [Streams -> SUBSET Nat]
  /\ sync \in [Streams -> [pc : {"idle", "take", "enforcing", "build", "send"},
                           batch : SUBSET Nat, enforcing : BOOLEAN, at : Nat,
                           set : SUBSET Rules, ver : Nat]]

\* ... and of the callers'.
CallersTyped ==
  caller \in [Callers -> [pc : {"idle", "persist", "saving", "publish", "snapshot",
                                "request", "done"},
                          ver : Nat, snap : SUBSET Snapshot, todo : SUBSET Streams,
                          saved : BOOLEAN]]

\* No version is ahead of the store's.
VersionsBounded ==
  /\ file.ver <= ver
  /\ \A p \in Callers : caller[p].ver <= ver
  /\ \A s \in Streams :
       /\ -1 <= sentVer[s] /\ sentVer[s] <= ver
       /\ sync[s].ver <= ver
       /\ \A w \in waiters[s] \cup sync[s].batch : w <= ver

\* A worker has a batch while it builds and sends; the set it builds covers the
\* batch, and is no older than the newest set it sent before.
WorkersSound ==
  \A s \in Streams :
    /\ sync[s].pc \in {"enforcing", "build", "send"} <=> sync[s].batch # {}
    /\ sync[s].pc \in {"build", "send"} =>
         /\ sentVer[s] <= sync[s].ver
         /\ \A w \in sync[s].batch : w <= sync[s].ver

\* A stream has announced nothing before it is open.
RolesSound == \A s \in Streams : conn[s] = "new" => ~scrub[s]

\* Only pushes save, one at a time.  The snapshot of the one that holds the lock
\* is no older than its own push and than the file it replaces.
SaversSound ==
  /\ pmu = {p \in Pushers : caller[p].pc = "saving"}
  /\ \A p \in Callers :
       /\ caller[p].pc \in {"persist", "saving"} => p \in Pushers /\ ~caller[p].saved
       /\ caller[p].pc = "saving" =>
            /\ pmu = {p}
            /\ \A f \in caller[p].snap :
                  caller[p].ver <= f.ver /\ file.ver <= f.ver /\ f.ver <= ver

RuleSyncInv ==
  /\ AnalyzerTyped
  /\ StreamsTyped
  /\ WorkersTyped
  /\ CallersTyped
  /\ VersionsBounded
  /\ WorkersSound
  /\ RolesSound
  /\ SaversSound
  /\ SavedPushSurvives
  /\ NoLostUpdate
-----------------------------------------------------------------------------
(***************************************************************************)
(* The steps of callers.                                                   *)
(***************************************************************************)

\* Caller p is about to have stream s sent the rules as they are now.
Bound(p, s) ==
  \/ caller[p].pc \in {"persist", "saving", "publish", "snapshot"}
  \/ caller[p].pc = "request" /\ s \in caller[p].todo

\* A step of callers that leaves the versions and streams alone loses no update
\* if whoever was bound to sync an open scrub stream still is.
LEMMA CallersLoseNothing ==
  ASSUME NoLostUpdate,
         UNCHANGED <<ver, conn, scrub, announce, waiters, sync, sentVer>>,
         \A p \in Callers \ {Resync}, s \in Streams :
            conn[s] = "open" /\ scrub[s] /\ Bound(p, s) => Bound(p, s)'
  PROVE  NoLostUpdate'
BY DEF NoLostUpdate, WillSync, Bound

LEMMA InitInv == Init => RuleSyncInv
<1> SUFFICES ASSUME Init PROVE RuleSyncInv
  OBVIOUS
<1> USE DEF Init
<1>1. AnalyzerTyped
  <2>1. MaxTime \in Nat /\ 1 <= MaxTime
    BY RulesAssumption
  <2>2. file \in Snapshot
    BY DEF Snapshot
  <2>3. now \in 1..MaxTime /\ store \in SUBSET Rules /\ ver \in Nat
    BY <2>1
  <2>4. stopped \in BOOLEAN
    OBVIOUS
  <2> QED BY <2>2, <2>3, <2>4, Zenon DEF AnalyzerTyped
<1>2. StreamsTyped
  BY DEF StreamsTyped
<1>3. WorkersTyped
  BY DEF WorkersTyped, IdleSync
<1>4. CallersTyped
  BY DEF CallersTyped, NoCall
<1>5. VersionsBounded
  BY DEF VersionsBounded, NoCall, IdleSync
<1>6. WorkersSound
  BY DEF WorkersSound, IdleSync
<1>7. RolesSound
  BY DEF RolesSound
<1>8. SaversSound
  BY DEF SaversSound, NoCall, Callers
<1>9. SavedPushSurvives
  BY DEF SavedPushSurvives, NoCall, Callers
<1>10. NoLostUpdate
  BY DEF NoLostUpdate
<1> QED BY <1>1, <1>2, <1>3, <1>4, <1>5, <1>6, <1>7, <1>8, <1>9, <1>10 DEF RuleSyncInv

\* PushRules puts a newer version into the store and owes every stream a sync.
LEMMA ReplaceKeeps ==
  ASSUME RuleSyncInv, NEW p \in Pushers, NEW set \in SUBSET Rules, NEW scope,
         replace(p, scope, set)
  PROVE  RuleSyncInv'
<1>1. /\ UNCHANGED <<now, stopped, conn, scrub, announce, waiters, sync, sentVer, wire,
                     held, file, pmu, crashes>>
      /\ ver' = ver + 1 /\ ver \in Nat
      /\ store' = {r \in store : ScopeOf[r] # scope} \cup set
      /\ caller[p] = NoCall
  BY DEF replace, streamVars, RuleSyncInv, AnalyzerTyped
<1>2. /\ p \in Callers /\ p # Resync
      /\ CallersTyped
  BY RulesAssumption DEF Callers, RuleSyncInv
<1>3. PICK pc \in {"persist", "publish"} :
         caller' = [caller EXCEPT ![p].pc = pc, ![p].ver = ver + 1]
  BY DEF replace
<1>4. CallersTyped'
  <2>1. ver + 1 \in Nat
    BY <1>1
  <2> QED BY <1>2, <1>3, <2>1 DEF CallersTyped
<1>5. /\ caller'[p].pc = pc /\ caller'[p].ver = ver + 1 /\ caller'[p].saved = FALSE
      /\ \A q \in Callers : q # p => caller'[q] = caller[q]
  BY <1>1, <1>2, <1>3 DEF CallersTyped, NoCall
<1>6. AnalyzerTyped'
  BY <1>1 DEF RuleSyncInv, AnalyzerTyped
<1>7. StreamsTyped' /\ WorkersTyped'
  BY <1>1 DEF RuleSyncInv, StreamsTyped, WorkersTyped
<1>8. VersionsBounded'
  <2>1. \A n \in Int : n <= ver => n <= ver'
    BY <1>1
  <2>2. file'.ver <= ver' /\ \A q \in Callers : caller'[q].ver <= ver'
    BY <1>1, <1>2, <1>5, <2>1 DEF RuleSyncInv, VersionsBounded, AnalyzerTyped, Snapshot, CallersTyped
  <2>3. \A s \in Streams :
          /\ -1 <= sentVer'[s] /\ sentVer'[s] <= ver'
          /\ sync'[s].ver <= ver'
          /\ \A w \in waiters'[s] \cup sync'[s].batch : w <= ver'
    BY <1>1, <2>1 DEF RuleSyncInv, VersionsBounded, StreamsTyped, WorkersTyped
  <2> QED BY <2>2, <2>3 DEF VersionsBounded
<1>9. WorkersSound' /\ RolesSound'
  BY <1>1 DEF RuleSyncInv, WorkersSound, RolesSound
<1>10. SaversSound'
  <2>1. pc # "saving" /\ caller[p].pc # "saving" /\ caller[p].saved = FALSE
    BY <1>1 DEF NoCall
  <2>2. pmu' = {q \in Pushers : caller'[q].pc = "saving"}
    BY <1>1, <1>2, <1>5, <2>1 DEF RuleSyncInv, SaversSound, Callers
  <2>3. \A q \in Callers : \A f \in caller[q].snap : f.ver \in Nat
    BY <1>2 DEF CallersTyped, Snapshot
  <2>4. ASSUME NEW q \in Callers, caller'[q].pc = "saving"
        PROVE  /\ pmu' = {q}
               /\ \A f \in caller'[q].snap :
                    caller'[q].ver <= f.ver /\ file'.ver <= f.ver /\ f.ver <= ver'
    BY <1>1, <1>5, <2>1, <2>3, <2>4 DEF RuleSyncInv, SaversSound
  <2>5. \A q \in Callers :
          caller'[q].pc \in {"persist", "saving"} => q \in Pushers /\ ~caller'[q].saved
    BY <1>5 DEF RuleSyncInv, SaversSound
  <2> QED BY <2>2, <2>4, <2>5 DEF SaversSound
<1>11. SavedPushSurvives'
  BY <1>1, <1>2, <1>5 DEF RuleSyncInv, SavedPushSurvives, Callers
<1>12. NoLostUpdate'
  BY <1>1, <1>2, <1>5 DEF NoLostUpdate, WillSync
<1> QED BY <1>4, <1>6, <1>7, <1>8, <1>9, <1>10, <1>11, <1>12 DEF RuleSyncInv

\* save takes a snapshot of the store, no older than the push or the file.
LEMMA SaveKeeps ==
  ASSUME RuleSyncInv, NEW p \in Callers, save(p)
  PROVE  RuleSyncInv'
<1>1. /\ UNCHANGED <<now, store, ver, stopped, conn, scrub, announce, waiters, sync,
                     sentVer, wire, held, file, crashes>>
      /\ pmu = {} /\ pmu' = {p}
      /\ caller[p].pc = "persist"
  BY DEF save, streamVars
<1>2. p \in Pushers /\ ~caller[p].saved
  BY <1>1 DEF RuleSyncInv, SaversSound
<1>3. PICK f \in Snapshot :
        /\ f.ver = ver
        /\ caller' = [caller EXCEPT ![p].pc = "saving", ![p].snap = {f}]
  <2>1. [rules |-> store, ver |-> ver] \in Snapshot
    BY DEF RuleSyncInv, AnalyzerTyped, Snapshot
  <2> QED BY <2>1 DEF save
<1>4. CallersTyped'
  BY <1>3 DEF RuleSyncInv, CallersTyped
<1>5. /\ caller'[p].pc = "saving" /\ caller'[p].snap = {f}
      /\ caller'[p].ver = caller[p].ver /\ caller'[p].saved = caller[p].saved
      /\ \A q \in Callers : q # p => caller'[q] = caller[q]
  BY <1>3 DEF RuleSyncInv, CallersTyped
<1>6. AnalyzerTyped' /\ StreamsTyped' /\ WorkersTyped'
  BY <1>1 DEF RuleSyncInv, AnalyzerTyped, StreamsTyped, WorkersTyped
<1>7. VersionsBounded'
  BY <1>1, <1>5 DEF RuleSyncInv, VersionsBounded
<1>8. WorkersSound' /\ RolesSound'
  BY <1>1 DEF RuleSyncInv, WorkersSound, RolesSound
<1>9. SaversSound'
  <2>1. \A q \in Callers : caller[q].pc # "saving"
    BY <1>1 DEF RuleSyncInv, SaversSound
  <2>2. pmu' = {q \in Pushers : caller'[q].pc = "saving"}
    BY <1>1, <1>2, <1>5, <2>1 DEF Callers
  <2>3. caller[p].ver <= f.ver /\ file.ver <= f.ver /\ f.ver <= ver'
    BY <1>1, <1>3 DEF RuleSyncInv, VersionsBounded, AnalyzerTyped
  <2> QED BY <1>1, <1>2, <1>5, <2>1, <2>2, <2>3 DEF RuleSyncInv, SaversSound
<1>10. SavedPushSurvives'
  BY <1>1, <1>5 DEF RuleSyncInv, SavedPushSurvives, Callers
<1>11. NoLostUpdate'
  BY <1>1, <1>5, CallersLoseNothing DEF RuleSyncInv, Bound
<1> QED BY <1>4, <1>6, <1>7, <1>8, <1>9, <1>10, <1>11 DEF RuleSyncInv
\* The rename moves the file to a newer snapshot, or it stays.
LEMMA SaveEndsKeeps ==
  ASSUME RuleSyncInv, NEW p \in Callers, NEW ok \in BOOLEAN, saveEnds(p, ok)
  PROVE  RuleSyncInv'
<1>1. /\ UNCHANGED <<now, store, ver, stopped, conn, scrub, announce, waiters, sync,
                     sentVer, wire, held, crashes>>
      /\ pmu' = {} /\ caller[p].pc = "saving"
      /\ caller' = [caller EXCEPT ![p].pc = "publish", ![p].snap = {}, ![p].saved = ok]
  BY DEF saveEnds, streamVars
<1>2. p \in Pushers /\ pmu = {p}
  BY <1>1 DEF RuleSyncInv, SaversSound
<1>3. PICK f \in caller[p].snap : file' = IF ok THEN f ELSE file
  BY DEF saveEnds
<1>4. /\ f \in Snapshot /\ file \in Snapshot
      /\ caller[p].ver \in Nat /\ file.ver \in Nat /\ f.ver \in Nat
      /\ caller[p].ver <= f.ver /\ file.ver <= f.ver /\ f.ver <= ver
  BY <1>1, <1>3 DEF RuleSyncInv, SaversSound, CallersTyped, AnalyzerTyped, Snapshot
<1>5. CallersTyped'
  BY <1>1 DEF RuleSyncInv, CallersTyped
<1>6. /\ caller'[p].pc = "publish" /\ caller'[p].snap = {}
      /\ caller'[p].ver = caller[p].ver /\ caller'[p].saved = ok
      /\ \A q \in Callers : q # p => caller'[q] = caller[q]
  BY <1>1 DEF RuleSyncInv, CallersTyped
<1>7. /\ file' \in Snapshot /\ file'.ver \in Nat
      /\ file.ver <= file'.ver /\ file'.ver <= ver
      /\ ok => caller[p].ver <= file'.ver
  BY <1>3, <1>4 DEF RuleSyncInv, VersionsBounded
<1>8. AnalyzerTyped' /\ StreamsTyped' /\ WorkersTyped'
  BY <1>1, <1>7 DEF RuleSyncInv, AnalyzerTyped, StreamsTyped, WorkersTyped
<1>9. VersionsBounded'
  BY <1>1, <1>6, <1>7 DEF RuleSyncInv, VersionsBounded
<1>10. WorkersSound' /\ RolesSound'
  BY <1>1 DEF RuleSyncInv, WorkersSound, RolesSound
<1>11. SaversSound'
  <2>1. \A q \in Callers : caller'[q].pc # "saving"
    <3>1. \A q \in Callers : q # p => caller[q].pc # "saving"
      BY <1>2 DEF RuleSyncInv, SaversSound
    <3> QED BY <1>6, <3>1
  <2>2. pmu' = {q \in Pushers : caller'[q].pc = "saving"}
    BY <1>1, <2>1 DEF Callers
  <2> QED BY <1>6, <2>1, <2>2 DEF RuleSyncInv, SaversSound
<1>12. SavedPushSurvives'
  <2> SUFFICES ASSUME NEW q \in Pushers, caller'[q].saved
               PROVE  file'.ver >= caller'[q].ver
    BY DEF SavedPushSurvives
  <2>1. q \in Callers /\ caller[q].ver \in Nat
    BY DEF Callers, RuleSyncInv, CallersTyped
  <2>2. CASE q = p
    BY <1>4, <1>6, <1>7, <2>2
  <2>3. CASE q # p
    <3>1. file.ver >= caller[q].ver
      BY <1>6, <2>1, <2>3 DEF RuleSyncInv, SavedPushSurvives
    <3> QED BY <1>4, <1>6, <1>7, <2>1, <2>3, <3>1
  <2> QED BY <2>2, <2>3
<1>13. NoLostUpdate'
  BY <1>1, <1>6, CallersLoseNothing DEF RuleSyncInv, Bound
<1> QED BY <1>5, <1>8, <1>9, <1>10, <1>11, <1>12, <1>13 DEF RuleSyncInv

\* The steps of a caller that change neither versions, streams nor file: it
\* saves nothing before or after, and whom it was bound to sync it still is.
LEMMA CallerStepKeeps ==
  ASSUME RuleSyncInv, NEW p \in Callers, NEW c, CallersTyped',
         UNCHANGED <<now, ver, stopped, conn, scrub, announce, waiters, sync,
                     sentVer, wire, held, file, pmu>>,
         store' \in SUBSET Rules,
         caller' = [caller EXCEPT ![p] = c],
         caller[p].pc \notin {"persist", "saving"},
         c.pc \notin {"persist", "saving"},
         c.ver = caller[p].ver, c.saved = caller[p].saved,
         p # Resync => \A s \in Streams :
            conn[s] = "open" /\ scrub[s] /\ Bound(p, s) => Bound(p, s)'
  PROVE  RuleSyncInv'
<1>1. /\ caller'[p] = c
      /\ \A q \in Callers : q # p => caller'[q] = caller[q]
  BY DEF RuleSyncInv, CallersTyped
<1>2. AnalyzerTyped'
  BY DEF RuleSyncInv, AnalyzerTyped
<1>3. StreamsTyped' /\ WorkersTyped'
  BY DEF RuleSyncInv, StreamsTyped, WorkersTyped
<1>4. VersionsBounded'
  BY <1>1 DEF RuleSyncInv, VersionsBounded
<1>5. WorkersSound' /\ RolesSound'
  BY DEF RuleSyncInv, WorkersSound, RolesSound
<1>6. SaversSound'
  <2>1. pmu' = {q \in Pushers : caller'[q].pc = "saving"}
    BY <1>1 DEF RuleSyncInv, SaversSound, Callers
  <2> QED BY <1>1, <2>1 DEF RuleSyncInv, SaversSound
<1>7. SavedPushSurvives'
  BY <1>1 DEF RuleSyncInv, SavedPushSurvives, Callers
<1>8. NoLostUpdate'
  <2>1. \A q \in Callers \ {Resync}, s \in Streams :
            conn[s] = "open" /\ scrub[s] /\ Bound(q, s) => Bound(q, s)'
    BY <1>1 DEF Bound
  <2> QED BY <2>1, CallersLoseNothing DEF RuleSyncInv
<1> QED BY <1>2, <1>3, <1>4, <1>5, <1>6, <1>7, <1>8 DEF RuleSyncInv

\* publish drops expired rules and goes on to the streams.
LEMMA PublishKeeps ==
  ASSUME RuleSyncInv, NEW p \in Callers, publish(p)
  PROVE  RuleSyncInv'
<1> DEFINE c == [caller[p] EXCEPT !.pc = "snapshot"]
<1>1. /\ UNCHANGED <<now, ver, stopped, conn, scrub, announce, waiters, sync,
                     sentVer, wire, held, file, pmu>>
      /\ caller[p].pc = "publish"
      /\ store' \in SUBSET Rules
  BY DEF publish, streamVars, pruned, RuleSyncInv, AnalyzerTyped
<1>2. caller' = [caller EXCEPT ![p] = c]
  BY DEF publish, RuleSyncInv, CallersTyped
<1>3. /\ c.pc = "snapshot" /\ c.ver = caller[p].ver /\ c.saved = caller[p].saved
      /\ CallersTyped'
  BY <1>2 DEF RuleSyncInv, CallersTyped
<1> HIDE DEF c
<1>4. \A s \in Streams : Bound(p, s)'
  BY <1>2, <1>3 DEF Bound, RuleSyncInv, CallersTyped
<1> QED BY <1>1, <1>2, <1>3, <1>4, CallerStepKeeps

\* The resync starts.
LEMMA StartResyncKeeps ==
  ASSUME RuleSyncInv, startResync
  PROVE  RuleSyncInv'
<1> DEFINE c == [caller[Resync] EXCEPT !.pc = "snapshot"]
<1>1. /\ UNCHANGED <<now, ver, stopped, conn, scrub, announce, waiters, sync,
                     sentVer, wire, held, file, pmu>>
      /\ caller[Resync].pc = "idle"
      /\ store' \in SUBSET Rules
      /\ Resync \in Callers
  BY DEF startResync, streamVars, RuleSyncInv, AnalyzerTyped, Callers
<1>2. caller' = [caller EXCEPT ![Resync] = c]
  BY DEF startResync, RuleSyncInv, CallersTyped
<1>3. /\ c.pc = "snapshot" /\ c.ver = caller[Resync].ver
      /\ c.saved = caller[Resync].saved
      /\ CallersTyped'
  BY <1>1, <1>2 DEF RuleSyncInv, CallersTyped
<1> HIDE DEF c
<1> QED BY <1>1, <1>2, <1>3, CallerStepKeeps

\* What requesting makes of a caller.
LEMMA RequestingIs ==
  ASSUME RuleSyncInv, NEW p \in Callers, NEW todo \in SUBSET Streams,
         caller' = requesting(p, todo)
  PROVE  \E c : /\ caller' = [caller EXCEPT ![p] = c]
                /\ CallersTyped'
                /\ c.pc \in {"request", "idle", "done"}
                /\ todo # {} => c.pc = "request"
                /\ c.todo = todo /\ c.ver = caller[p].ver /\ c.saved = caller[p].saved
<1>1. PICK pc \in {"request", "idle", "done"} :
        /\ caller' = [caller EXCEPT ![p].todo = todo, ![p].pc = pc]
        /\ todo # {} => pc = "request"
  <2> DEFINE pc == CASE todo # {} -> "request"
                     [] todo = {} /\ p = Resync -> "idle"
                     [] OTHER -> "done"
  <2>1. /\ pc \in {"request", "idle", "done"}
        /\ todo # {} => pc = "request"
    OBVIOUS
  <2>2. caller' = [caller EXCEPT ![p].todo = todo, ![p].pc = pc]
    BY DEF requesting
  <2> HIDE DEF pc
  <2> QED BY <2>1, <2>2
<1>2. CallersTyped'
  BY <1>1 DEF RuleSyncInv, CallersTyped
<1> DEFINE c == caller'[p]
<1>3. /\ caller' = [caller EXCEPT ![p] = c]
      /\ c.pc = pc /\ c.todo = todo /\ c.ver = caller[p].ver /\ c.saved = caller[p].saved
  BY <1>1 DEF RuleSyncInv, CallersTyped
<1> HIDE DEF c
<1> QED BY <1>1, <1>2, <1>3

\* The snapshot of the streams holds every open scrub stream.
LEMMA SyncScrubCollectorsKeeps ==
  ASSUME RuleSyncInv, NEW p \in Callers, syncScrubCollectors(p)
  PROVE  RuleSyncInv'
<1> DEFINE todo == {s \in Streams : conn[s] = "open" /\ scrub[s]}
<1>1. /\ UNCHANGED <<now, ver, stopped, conn, scrub, announce, waiters, sync,
                     sentVer, wire, held, file, pmu>>
      /\ caller[p].pc = "snapshot"
      /\ store' \in SUBSET Rules
      /\ caller' = requesting(p, todo)
  BY DEF syncScrubCollectors, streamVars, RuleSyncInv, AnalyzerTyped
<1>2. /\ todo \in SUBSET Streams
      /\ \A s \in Streams : conn[s] = "open" /\ scrub[s] => s \in todo
  OBVIOUS
<1> HIDE DEF todo
<1>3. PICK c : /\ caller' = [caller EXCEPT ![p] = c]
               /\ CallersTyped'
               /\ c.pc \in {"request", "idle", "done"}
               /\ todo # {} => c.pc = "request"
               /\ c.todo = todo /\ c.ver = caller[p].ver /\ c.saved = caller[p].saved
  BY <1>1, <1>2, RequestingIs
<1>4. \A s \in todo : Bound(p, s)'
  BY <1>3 DEF Bound, RuleSyncInv, CallersTyped
<1> QED BY <1>1, <1>2, <1>3, <1>4, CallerStepKeeps
\* The kill switch is a change like a push: it owes every stream a sync.
LEMMA StopEnforcementKeeps ==
  ASSUME RuleSyncInv, StopEnforcement
  PROVE  RuleSyncInv'
<1>1. /\ UNCHANGED <<now, store, conn, scrub, announce, waiters, sync, sentVer, wire,
                     held, file, pmu, crashes>>
      /\ ver' = ver + 1 /\ ver \in Nat
      /\ stopped' = TRUE
      /\ caller[Stop].pc = "idle"
      /\ caller' = [caller EXCEPT ![Stop].pc = "snapshot", ![Stop].ver = ver + 1]
  BY DEF StopEnforcement, streamVars, RuleSyncInv, AnalyzerTyped
<1>2. Stop \in Callers /\ Stop # Resync /\ Stop \notin Pushers
  BY RulesAssumption DEF Callers
<1>3. CallersTyped'
  <2>1. ver + 1 \in Nat
    BY <1>1
  <2> QED BY <1>1, <1>2, <2>1 DEF RuleSyncInv, CallersTyped
<1>4. /\ caller'[Stop].pc = "snapshot" /\ caller'[Stop].ver = ver + 1
      /\ caller'[Stop].saved = caller[Stop].saved
      /\ \A q \in Callers : q # Stop => caller'[q] = caller[q]
  BY <1>1, <1>2 DEF RuleSyncInv, CallersTyped
<1>5. AnalyzerTyped'
  BY <1>1 DEF RuleSyncInv, AnalyzerTyped
<1>6. StreamsTyped' /\ WorkersTyped'
  BY <1>1 DEF RuleSyncInv, StreamsTyped, WorkersTyped
<1>7. VersionsBounded'
  <2>1. \A n \in Int : n <= ver => n <= ver'
    BY <1>1
  <2>2. file'.ver <= ver' /\ \A q \in Callers : caller'[q].ver <= ver'
    BY <1>1, <1>2, <1>4, <2>1 DEF RuleSyncInv, VersionsBounded, AnalyzerTyped, Snapshot, CallersTyped
  <2>3. \A s \in Streams :
          /\ -1 <= sentVer'[s] /\ sentVer'[s] <= ver'
          /\ sync'[s].ver <= ver'
          /\ \A w \in waiters'[s] \cup sync'[s].batch : w <= ver'
    BY <1>1, <2>1 DEF RuleSyncInv, VersionsBounded, StreamsTyped, WorkersTyped
  <2> QED BY <2>2, <2>3 DEF VersionsBounded
<1>8. WorkersSound' /\ RolesSound'
  BY <1>1 DEF RuleSyncInv, WorkersSound, RolesSound
<1>9. SaversSound'
  <2>1. pmu' = {q \in Pushers : caller'[q].pc = "saving"}
    BY <1>1, <1>2, <1>4 DEF RuleSyncInv, SaversSound, Callers
  <2>2. \A q \in Callers : \A f \in caller[q].snap : f.ver \in Nat
    BY DEF RuleSyncInv, CallersTyped, Snapshot
  <2>3. ASSUME NEW q \in Callers, caller'[q].pc = "saving"
        PROVE  /\ pmu' = {q}
               /\ \A f \in caller'[q].snap :
                    caller'[q].ver <= f.ver /\ file'.ver <= f.ver /\ f.ver <= ver'
    <3>1. q # Stop /\ caller'[q] = caller[q]
      BY <1>4, <2>3
    <3>2. /\ pmu = {q}
          /\ \A f \in caller[q].snap :
                caller[q].ver <= f.ver /\ file.ver <= f.ver /\ f.ver <= ver
      BY <2>3, <3>1 DEF RuleSyncInv, SaversSound
    <3> QED BY <1>1, <2>2, <3>1, <3>2
  <2>4. \A q \in Callers :
          caller'[q].pc \in {"persist", "saving"} => q \in Pushers /\ ~caller'[q].saved
    BY <1>4 DEF RuleSyncInv, SaversSound
  <2> QED BY <2>1, <2>3, <2>4 DEF SaversSound
<1>10. SavedPushSurvives'
  BY <1>1, <1>2, <1>4 DEF RuleSyncInv, SavedPushSurvives, Callers
<1>11. NoLostUpdate'
  BY <1>1, <1>2, <1>4 DEF NoLostUpdate, WillSync
<1> QED BY <1>3, <1>5, <1>6, <1>7, <1>8, <1>9, <1>10, <1>11 DEF RuleSyncInv

-----------------------------------------------------------------------------
(***************************************************************************)
(* The steps of workers and streams.                                       *)
(***************************************************************************)

\* A stream owed a sync by somebody other than its worker.
Owed(s) ==
  \/ announce[s]
  \/ \E p \in Callers \ {Resync} : Bound(p, s)

\* Some set the worker has taken or will take up is as new as the store.
WorkerCurrent(s) ==
  \/ waiters[s] # {}
  \/ sync[s].pc = "enforcing"
  \/ sync[s].pc \in {"build", "send"} /\ sync[s].ver = ver

LEMMA WillSyncIs == \A s \in Streams : WillSync(s) <=> WorkerCurrent(s) \/ Owed(s)
BY DEF WillSync, WorkerCurrent, Owed, Bound

\* A step of one stream that leaves the callers and the file alone.
LEMMA StreamStepKeeps ==
  ASSUME RuleSyncInv, NEW s \in Streams,
         UNCHANGED <<now, ver, stopped, caller, file, pmu>>,
         store' \in SUBSET Rules,
         StreamsTyped', WorkersTyped',
         \A u \in Streams : u # s =>
            /\ conn'[u] = conn[u] /\ scrub'[u] = scrub[u] /\ announce'[u] = announce[u]
            /\ waiters'[u] = waiters[u] /\ sync'[u] = sync[u] /\ sentVer'[u] = sentVer[u],
         -1 <= sentVer'[s], sentVer'[s] <= ver,
         sync'[s].ver <= ver,
         \A w \in waiters'[s] : w <= ver,
         \A w \in sync'[s].batch : w <= ver,
         sync'[s].pc \in {"enforcing", "build", "send"} <=> sync'[s].batch # {},
         sync'[s].pc \in {"build", "send"} =>
            /\ sentVer'[s] <= sync'[s].ver
            /\ \A w \in sync'[s].batch : w <= sync'[s].ver,
         conn'[s] = "new" => ~scrub'[s],
         conn'[s] = "open" /\ scrub'[s] =>
            sentVer'[s] = ver \/ WorkerCurrent(s)' \/ Owed(s)'
  PROVE  RuleSyncInv'
<1>1. AnalyzerTyped' /\ CallersTyped'
  BY DEF RuleSyncInv, AnalyzerTyped, CallersTyped
<1>2. VersionsBounded'
  BY DEF RuleSyncInv, VersionsBounded
<1>3. WorkersSound' /\ RolesSound'
  BY DEF RuleSyncInv, WorkersSound, RolesSound
<1>4. SaversSound' /\ SavedPushSurvives'
  BY DEF RuleSyncInv, SaversSound, SavedPushSurvives
<1>5. NoLostUpdate'
  <2> SUFFICES ASSUME NEW u \in Streams, conn'[u] = "open", scrub'[u]
               PROVE  sentVer'[u] = ver' \/ WillSync(u)'
    BY DEF NoLostUpdate
  <2>1. CASE u = s
    BY <2>1, WillSyncIs DEF WillSync, WorkerCurrent, Owed, Bound
  <2>2. CASE u # s
    BY <2>2 DEF RuleSyncInv, NoLostUpdate, WillSync
  <2> QED BY <2>1, <2>2
<1> QED BY <1>1, <1>2, <1>3, <1>4, <1>5 DEF RuleSyncInv

\* What addWaiter does to a stream.
LEMMA AddWaiterIs ==
  ASSUME RuleSyncInv, NEW s \in Streams, addWaiter(s)
  PROVE  /\ WorkersTyped'
         /\ waiters'[s] = waiters[s] \cup {ver}
         /\ sync'[s].ver = sync[s].ver /\ sync'[s].batch = sync[s].batch
         /\ \/ sync'[s].pc = sync[s].pc
            \/ sync[s].pc = "idle" /\ sync'[s].pc = "take"
         /\ \A u \in Streams : u # s => waiters'[u] = waiters[u] /\ sync'[u] = sync[u]
<1>1. ver \in Nat /\ WorkersTyped
  BY DEF RuleSyncInv, AnalyzerTyped
<1>2. PICK pc \in {"idle", "take", "enforcing", "build", "send"} :
        /\ sync' = [sync EXCEPT ![s].pc = pc]
        /\ pc = sync[s].pc \/ (sync[s].pc = "idle" /\ pc = "take")
  <2> DEFINE pc == IF sync[s].pc = "idle" THEN "take" ELSE sync[s].pc
  <2>1. /\ pc \in {"idle", "take", "enforcing", "build", "send"}
        /\ pc = sync[s].pc \/ (sync[s].pc = "idle" /\ pc = "take")
    BY <1>1 DEF WorkersTyped
  <2>2. sync' = [sync EXCEPT ![s].pc = pc]
    BY DEF addWaiter
  <2> HIDE DEF pc
  <2> QED BY <2>1, <2>2
<1>3. sync' \in [Streams -> [pc : {"idle", "take", "enforcing", "build", "send"},
                             batch : SUBSET Nat, enforcing : BOOLEAN, at : Nat,
                             set : SUBSET Rules, ver : Nat]]
  BY <1>1, <1>2 DEF WorkersTyped
<1>4. /\ waiters' \in [Streams -> SUBSET Nat]
      /\ waiters'[s] = waiters[s] \cup {ver}
      /\ \A u \in Streams : u # s => waiters'[u] = waiters[u]
  BY <1>1 DEF addWaiter, WorkersTyped
<1>5. /\ sync'[s].ver = sync[s].ver /\ sync'[s].batch = sync[s].batch
      /\ sync'[s].pc = pc
      /\ \A u \in Streams : u # s => sync'[u] = sync[u]
  BY <1>1, <1>2 DEF WorkersTyped
<1> QED BY <1>2, <1>3, <1>4, <1>5 DEF WorkersTyped

\* A stream that announced its role gets its waiter.
LEMMA RequestRoleSyncKeeps ==
  ASSUME RuleSyncInv, NEW s \in Streams, requestRoleSync(s)
  PROVE  RuleSyncInv'
<1>1. /\ UNCHANGED <<now, store, ver, stopped, conn, scrub, sentVer, wire, held, caller,
                     file, pmu>>
      /\ announce' = [announce EXCEPT ![s] = FALSE]
      /\ addWaiter(s)
  BY DEF requestRoleSync
<1>2. /\ WorkersTyped'
      /\ waiters'[s] = waiters[s] \cup {ver}
      /\ sync'[s].ver = sync[s].ver /\ sync'[s].batch = sync[s].batch
      /\ \/ sync'[s].pc = sync[s].pc
         \/ sync[s].pc = "idle" /\ sync'[s].pc = "take"
      /\ \A u \in Streams : u # s => waiters'[u] = waiters[u] /\ sync'[u] = sync[u]
  BY <1>1, AddWaiterIs
<1>3. StreamsTyped' /\ \A u \in Streams : u # s => announce'[u] = announce[u]
  BY <1>1 DEF RuleSyncInv, StreamsTyped
<1>4. /\ -1 <= sentVer[s] /\ sentVer[s] <= ver /\ sync[s].ver <= ver
      /\ \A w \in waiters'[s] : w <= ver
      /\ \A w \in sync[s].batch : w <= ver
  BY <1>2 DEF RuleSyncInv, VersionsBounded, AnalyzerTyped
<1>5. /\ sync'[s].pc \in {"enforcing", "build", "send"} <=> sync'[s].batch # {}
      /\ sync'[s].pc \in {"build", "send"} =>
            /\ sentVer'[s] <= sync'[s].ver
            /\ \A w \in sync'[s].batch : w <= sync'[s].ver
      /\ conn'[s] = "new" => ~scrub'[s]
  BY <1>1, <1>2 DEF RuleSyncInv, WorkersSound, RolesSound
<1>6. WorkerCurrent(s)'
  BY <1>2 DEF WorkerCurrent
<1>7. store' \in SUBSET Rules
  BY <1>1 DEF RuleSyncInv, AnalyzerTyped
<1> QED BY <1>1, <1>2, <1>3, <1>4, <1>5, <1>6, <1>7, StreamStepKeeps
\* A caller leaves its waiter with a stream and is still bound to the others.
LEMMA RequestRuleSyncKeeps ==
  ASSUME RuleSyncInv, NEW p \in Callers, NEW s \in Streams, requestRuleSync(p, s)
  PROVE  RuleSyncInv'
<1> DEFINE todo == caller[p].todo \ {s}
<1>1. /\ UNCHANGED <<now, store, ver, stopped, conn, scrub, announce, sentVer, wire,
                     held, file, pmu>>
      /\ caller[p].pc = "request"
      /\ caller' = requesting(p, todo)
      /\ addWaiter(s)
  BY DEF requestRuleSync
<1>2. /\ todo \in SUBSET Streams
      /\ \A u \in Streams : u # s /\ u \in caller[p].todo => u \in todo
  BY DEF RuleSyncInv, CallersTyped
<1> HIDE DEF todo
<1>3. PICK c : /\ caller' = [caller EXCEPT ![p] = c]
               /\ CallersTyped'
               /\ c.pc \in {"request", "idle", "done"}
               /\ todo # {} => c.pc = "request"
               /\ c.todo = todo /\ c.ver = caller[p].ver /\ c.saved = caller[p].saved
  BY <1>1, <1>2, RequestingIs
<1>4. /\ caller'[p] = c
      /\ \A q \in Callers : q # p => caller'[q] = caller[q]
  BY <1>3 DEF RuleSyncInv, CallersTyped
<1>5. /\ WorkersTyped'
      /\ waiters'[s] = waiters[s] \cup {ver}
      /\ sync'[s].ver = sync[s].ver /\ sync'[s].batch = sync[s].batch
      /\ \/ sync'[s].pc = sync[s].pc
         \/ sync[s].pc = "idle" /\ sync'[s].pc = "take"
      /\ \A u \in Streams : u # s => waiters'[u] = waiters[u] /\ sync'[u] = sync[u]
  BY <1>1, AddWaiterIs
<1>6. AnalyzerTyped' /\ StreamsTyped'
  BY <1>1 DEF RuleSyncInv, AnalyzerTyped, StreamsTyped
<1>7. VersionsBounded'
  <2>1. file'.ver <= ver' /\ \A q \in Callers : caller'[q].ver <= ver'
    BY <1>1, <1>3, <1>4 DEF RuleSyncInv, VersionsBounded
  <2>2. \A u \in Streams : \A w \in waiters'[u] : w <= ver
    BY <1>5 DEF RuleSyncInv, VersionsBounded, AnalyzerTyped
  <2>3. \A u \in Streams : sync'[u].ver = sync[u].ver /\ sync'[u].batch = sync[u].batch
    BY <1>5
  <2> QED BY <1>1, <2>1, <2>2, <2>3 DEF RuleSyncInv, VersionsBounded
<1>8. WorkersSound' /\ RolesSound'
  <2>1. \A u \in Streams :
          /\ sync'[u].ver = sync[u].ver /\ sync'[u].batch = sync[u].batch
          /\ sync'[u].pc = sync[u].pc \/ (sync[u].pc = "idle" /\ sync'[u].pc = "take")
    BY <1>5
  <2> QED BY <1>1, <2>1 DEF RuleSyncInv, WorkersSound, RolesSound
<1>9. SaversSound'
  <2>1. pmu' = {q \in Pushers : caller'[q].pc = "saving"}
    BY <1>1, <1>3, <1>4 DEF RuleSyncInv, SaversSound, Callers
  <2> QED BY <1>1, <1>3, <1>4, <2>1 DEF RuleSyncInv, SaversSound
<1>10. SavedPushSurvives'
  BY <1>1, <1>3, <1>4 DEF RuleSyncInv, SavedPushSurvives, Callers
<1>11. NoLostUpdate'
  <2> SUFFICES ASSUME NEW u \in Streams, conn'[u] = "open", scrub'[u]
               PROVE  sentVer'[u] = ver' \/ WillSync(u)'
    BY DEF NoLostUpdate
  <2>1. CASE u = s
    BY <1>5, <2>1 DEF WillSync
  <2>2. CASE u # s
    <3>1. \A q \in Callers : Bound(q, u) => Bound(q, u)'
      BY <1>1, <1>2, <1>3, <1>4, <2>2 DEF Bound
    <3>2. sentVer[u] = ver \/ WillSync(u)
      BY <1>1 DEF RuleSyncInv, NoLostUpdate
    <3> QED BY <1>1, <1>5, <2>2, <3>1, <3>2 DEF WillSync, Bound
  <2> QED BY <2>1, <2>2
<1> QED BY <1>3, <1>5, <1>6, <1>7, <1>8, <1>9, <1>10, <1>11 DEF RuleSyncInv

\* What is known of a stream, for the steps below.
LEMMA StreamFacts ==
  ASSUME RuleSyncInv, NEW s \in Streams
  PROVE  /\ ver \in Nat /\ sentVer[s] \in Int /\ sync[s].ver \in Nat
         /\ -1 <= sentVer[s] /\ sentVer[s] <= ver /\ sync[s].ver <= ver
         /\ \A w \in waiters[s] : w \in Nat /\ w <= ver
         /\ \A w \in sync[s].batch : w \in Nat /\ w <= ver
         /\ sync[s].pc \in {"enforcing", "build", "send"} <=> sync[s].batch # {}
         /\ sync[s].pc \in {"build", "send"} =>
              /\ sentVer[s] <= sync[s].ver
              /\ \A w \in sync[s].batch : w <= sync[s].ver
         /\ conn[s] = "new" => ~scrub[s]
         /\ conn[s] = "open" /\ scrub[s] =>
              sentVer[s] = ver \/ WorkerCurrent(s) \/ Owed(s)
         /\ store \in SUBSET Rules
<1>1. /\ ver \in Nat /\ sentVer[s] \in Int /\ sync[s].ver \in Nat
      /\ store \in SUBSET Rules
      /\ waiters[s] \subseteq Nat /\ sync[s].batch \subseteq Nat
  BY DEF RuleSyncInv, AnalyzerTyped, StreamsTyped, WorkersTyped
<1>2. /\ -1 <= sentVer[s] /\ sentVer[s] <= ver /\ sync[s].ver <= ver
      /\ \A w \in waiters[s] \cup sync[s].batch : w <= ver
  BY DEF RuleSyncInv, VersionsBounded
<1>3. /\ sync[s].pc \in {"enforcing", "build", "send"} <=> sync[s].batch # {}
      /\ sync[s].pc \in {"build", "send"} =>
              /\ sentVer[s] <= sync[s].ver
              /\ \A w \in sync[s].batch : w <= sync[s].ver
      /\ conn[s] = "new" => ~scrub[s]
  BY DEF RuleSyncInv, WorkersSound, RolesSound
<1>4. conn[s] = "open" /\ scrub[s] =>
         sentVer[s] = ver \/ WorkerCurrent(s) \/ Owed(s)
  BY WillSyncIs DEF RuleSyncInv, NoLostUpdate
<1> QED BY <1>1, <1>2, <1>3, <1>4

\* The worker takes every waiter there is, or ends when there is none.
LEMMA TakeWaitersKeeps ==
  ASSUME RuleSyncInv, NEW s \in Streams, takeWaiters(s)
  PROVE  RuleSyncInv'
<1>1. /\ UNCHANGED <<now, store, ver, stopped, conn, scrub, announce, sentVer, wire,
                     held, caller, file, pmu>>
      /\ sync[s].pc = "take"
      /\ waiters' = [waiters EXCEPT ![s] = {}]
  BY DEF takeWaiters
<1>2. WorkersTyped
  BY DEF RuleSyncInv
<1> DEFINE taken == [sync[s] EXCEPT !.pc = "enforcing", !.batch = waiters[s]]
<1>3. sync' = [sync EXCEPT ![s] = IF waiters[s] = {} THEN IdleSync ELSE taken]
  BY <1>2 DEF takeWaiters, WorkersTyped
<1>4. /\ taken \in [pc : {"idle", "take", "enforcing", "build", "send"},
                    batch : SUBSET Nat, enforcing : BOOLEAN, at : Nat,
                    set : SUBSET Rules, ver : Nat]
      /\ taken.pc = "enforcing" /\ taken.batch = waiters[s] /\ taken.ver = sync[s].ver
  BY <1>2 DEF WorkersTyped
<1>5. /\ IdleSync \in [pc : {"idle", "take", "enforcing", "build", "send"},
                       batch : SUBSET Nat, enforcing : BOOLEAN, at : Nat,
                       set : SUBSET Rules, ver : Nat]
      /\ IdleSync.pc = "idle" /\ IdleSync.batch = {} /\ IdleSync.ver = 0
  BY DEF IdleSync
<1> HIDE DEF taken
<1>6. /\ WorkersTyped'
      /\ waiters'[s] = {}
      /\ sync'[s] = IF waiters[s] = {} THEN IdleSync ELSE taken
      /\ \A u \in Streams : u # s => waiters'[u] = waiters[u] /\ sync'[u] = sync[u]
  BY <1>1, <1>2, <1>3, <1>4, <1>5 DEF WorkersTyped
<1>7. StreamsTyped'
  BY <1>1 DEF RuleSyncInv, StreamsTyped
<1>8. /\ sync'[s].ver <= ver
      /\ \A w \in sync'[s].batch : w <= ver
      /\ sync'[s].pc \in {"idle", "enforcing"}
      /\ sync'[s].pc = "enforcing" <=> sync'[s].batch # {}
  BY <1>4, <1>5, <1>6, StreamFacts
<1>9. WorkerCurrent(s) => WorkerCurrent(s)'
  BY <1>1, <1>4, <1>6 DEF WorkerCurrent
<1>10. Owed(s) => Owed(s)'
  BY <1>1 DEF Owed, Bound
<1>11. conn'[s] = "open" /\ scrub'[s] =>
          sentVer'[s] = ver \/ WorkerCurrent(s)' \/ Owed(s)'
  BY <1>1, <1>9, <1>10, StreamFacts
<1>12. /\ -1 <= sentVer'[s] /\ sentVer'[s] <= ver
       /\ conn'[s] = "new" => ~scrub'[s]
       /\ store' \in SUBSET Rules
  BY <1>1, StreamFacts
<1> QED BY <1>1, <1>6, <1>7, <1>8, <1>11, <1>12, StreamStepKeeps
\* The version of the set being built is the store's when the switch is read.
LEMMA ReadEnforcingKeeps ==
  ASSUME RuleSyncInv, NEW s \in Streams, readEnforcing(s)
  PROVE  RuleSyncInv'
<1>1. /\ UNCHANGED <<now, store, ver, stopped, conn, scrub, announce, waiters, sentVer,
                     wire, held, caller, file, pmu>>
      /\ sync[s].pc = "enforcing"
  BY DEF readEnforcing
<1>2. WorkersTyped /\ now \in Nat /\ ver \in Nat
  BY DEF RuleSyncInv, AnalyzerTyped
<1>3. PICK enf \in BOOLEAN :
        sync' = [sync EXCEPT ![s].pc = "build", ![s].at = now,
                             ![s].enforcing = enf, ![s].ver = ver]
  <2>1. Enforcing \in BOOLEAN
    BY DEF Enforcing
  <2> QED BY <2>1 DEF readEnforcing
<1>4. /\ WorkersTyped'
      /\ sync'[s].pc = "build" /\ sync'[s].ver = ver /\ sync'[s].batch = sync[s].batch
      /\ \A u \in Streams : u # s => sync'[u] = sync[u]
  <2> DEFINE r == [pc |-> "build", batch |-> sync[s].batch, enforcing |-> enf, at |-> now,
                   set |-> sync[s].set, ver |-> ver]
  <2>1. sync' = [sync EXCEPT ![s] = r]
    <3> DEFINE o == [sync[s] EXCEPT !.pc = "build", !.at = now, !.enforcing = enf, !.ver = ver]
    <3>1. sync' = [sync EXCEPT ![s] = o]
      BY <1>2, <1>3 DEF WorkersTyped
    <3>2. sync[s] \in [pc : {"idle", "take", "enforcing", "build", "send"},
                       batch : SUBSET Nat, enforcing : BOOLEAN, at : Nat,
                       set : SUBSET Rules, ver : Nat]
      BY <1>2 DEF WorkersTyped
    <3>3. o = [sync[s] EXCEPT !.pc = "build", !.at = now, !.enforcing = enf, !.ver = ver]
      OBVIOUS
    <3> HIDE DEF o
    <3>4. o = r
      BY <3>2, <3>3
    <3> QED BY <3>1, <3>4
  <2>2. /\ r \in [pc : {"idle", "take", "enforcing", "build", "send"},
                  batch : SUBSET Nat, enforcing : BOOLEAN, at : Nat,
                  set : SUBSET Rules, ver : Nat]
        /\ r.pc = "build" /\ r.ver = ver /\ r.batch = sync[s].batch
    BY <1>2 DEF WorkersTyped
  <2> HIDE DEF r
  <2> QED BY <1>1, <1>2, <2>1, <2>2 DEF WorkersTyped
<1>5. StreamsTyped'
  BY <1>1 DEF RuleSyncInv, StreamsTyped
<1>6. WorkerCurrent(s)'
  BY <1>1, <1>4 DEF WorkerCurrent
<1>7. /\ -1 <= sentVer'[s] /\ sentVer'[s] <= ver
      /\ sync'[s].ver <= ver /\ sentVer'[s] <= sync'[s].ver
      /\ \A w \in waiters'[s] : w <= ver
      /\ \A w \in sync'[s].batch : w <= ver /\ w <= sync'[s].ver
      /\ sync'[s].batch # {}
      /\ conn'[s] = "new" => ~scrub'[s]
      /\ store' \in SUBSET Rules
  BY <1>1, <1>4, StreamFacts
<1> QED BY <1>1, <1>4, <1>5, <1>6, <1>7, StreamStepKeeps

\* Building the set drops expired rules; its version stays.
LEMMA RuleSetCommandKeeps ==
  ASSUME RuleSyncInv, NEW s \in Streams, ruleSetCommand(s)
  PROVE  RuleSyncInv'
<1>1. /\ UNCHANGED <<now, ver, stopped, conn, scrub, announce, waiters, sentVer,
                     wire, held, caller, file, pmu>>
      /\ sync[s].pc = "build"
  BY DEF ruleSetCommand
<1>2. WorkersTyped
  BY DEF RuleSyncInv
<1>3. store' \in SUBSET Rules
  BY DEF ruleSetCommand, pruned, RuleSyncInv, AnalyzerTyped
<1>4. PICK set \in SUBSET Rules :
        sync' = [sync EXCEPT ![s].pc = "send", ![s].set = set]
  <2>1. desired(sync[s].at, sync[s].enforcing) \in SUBSET Rules
    BY DEF desired, RuleSyncInv, AnalyzerTyped
  <2> QED BY <2>1 DEF ruleSetCommand
<1>5. /\ WorkersTyped'
      /\ sync'[s].pc = "send" /\ sync'[s].ver = sync[s].ver
      /\ sync'[s].batch = sync[s].batch
      /\ \A u \in Streams : u # s => sync'[u] = sync[u]
  BY <1>1, <1>2, <1>4 DEF WorkersTyped
<1>6. StreamsTyped'
  BY <1>1 DEF RuleSyncInv, StreamsTyped
<1>7. WorkerCurrent(s) => WorkerCurrent(s)'
  BY <1>1, <1>5 DEF WorkerCurrent
<1>8. Owed(s) => Owed(s)'
  BY <1>1 DEF Owed, Bound
<1>9. conn'[s] = "open" /\ scrub'[s] =>
          sentVer'[s] = ver \/ WorkerCurrent(s)' \/ Owed(s)'
  BY <1>1, <1>7, <1>8, StreamFacts
<1>10. /\ -1 <= sentVer'[s] /\ sentVer'[s] <= ver
       /\ sync'[s].ver <= ver /\ sentVer'[s] <= sync'[s].ver
       /\ \A w \in waiters'[s] : w <= ver
       /\ \A w \in sync'[s].batch : w <= ver /\ w <= sync'[s].ver
       /\ sync'[s].batch # {}
       /\ conn'[s] = "new" => ~scrub'[s]
  BY <1>1, <1>5, StreamFacts
<1> QED BY <1>1, <1>3, <1>5, <1>6, <1>9, <1>10, StreamStepKeeps

\* The set sent is never older than the one sent before, so a stream that had
\* the newest version still has it, and one that waited for it gets it.
LEMMA SendRulesKeeps ==
  ASSUME RuleSyncInv, NEW s \in Streams, sendRules(s)
  PROVE  RuleSyncInv'
<1>1. /\ UNCHANGED <<now, store, ver, stopped, conn, scrub, announce, waiters, held,
                     caller, file, pmu>>
      /\ sync[s].pc = "send"
      /\ sync' = [sync EXCEPT ![s].pc = "take", ![s].batch = {}, ![s].set = {},
                              ![s].at = 0, ![s].enforcing = FALSE]
      /\ IF conn[s] = "open"
         THEN /\ wire' = [wire EXCEPT ![s] = Append(@, sync[s].set)]
              /\ sentVer' = [sentVer EXCEPT ![s] = sync[s].ver]
         ELSE UNCHANGED <<wire, sentVer>>
  BY DEF sendRules
<1>2. WorkersTyped /\ StreamsTyped
  BY DEF RuleSyncInv
<1>3. /\ WorkersTyped'
      /\ sync'[s].pc = "take" /\ sync'[s].ver = sync[s].ver
      /\ sync'[s].batch = {}
      /\ \A u \in Streams : u # s => sync'[u] = sync[u]
  <2> DEFINE r == [pc |-> "take", batch |-> {}, enforcing |-> FALSE, at |-> 0,
                   set |-> {}, ver |-> sync[s].ver]
  <2>1. sync' = [sync EXCEPT ![s] = r]
    <3> DEFINE o == [sync[s] EXCEPT !.pc = "take", !.batch = {}, !.set = {}, !.at = 0,
                                    !.enforcing = FALSE]
    <3>1. sync' = [sync EXCEPT ![s] = o]
      BY <1>1, <1>2 DEF WorkersTyped
    <3>2. sync[s] \in [pc : {"idle", "take", "enforcing", "build", "send"},
                       batch : SUBSET Nat, enforcing : BOOLEAN, at : Nat,
                       set : SUBSET Rules, ver : Nat]
      BY <1>2 DEF WorkersTyped
    <3>3. o = [sync[s] EXCEPT !.pc = "take", !.batch = {}, !.set = {}, !.at = 0,
                              !.enforcing = FALSE]
      OBVIOUS
    <3> HIDE DEF o
    <3>4. o = r
      BY <3>2, <3>3
    <3> QED BY <3>1, <3>4
  <2>2. /\ r \in [pc : {"idle", "take", "enforcing", "build", "send"},
                  batch : SUBSET Nat, enforcing : BOOLEAN, at : Nat,
                  set : SUBSET Rules, ver : Nat]
        /\ r.pc = "take" /\ r.ver = sync[s].ver /\ r.batch = {}
    BY <1>2 DEF WorkersTyped
  <2>3. waiters' = waiters
    BY <1>1
  <2> HIDE DEF r
  <2> QED BY <1>2, <2>1, <2>2, <2>3 DEF WorkersTyped
<1>4. /\ sync[s].set \in SUBSET Rules /\ wire[s] \in Seq(SUBSET Rules)
      /\ Append(wire[s], sync[s].set) \in Seq(SUBSET Rules)
  <2>1. sync[s].set \in SUBSET Rules /\ wire[s] \in Seq(SUBSET Rules)
    BY <1>2 DEF WorkersTyped, StreamsTyped
  <2> QED BY <2>1, AppendProperties
<1>5. StreamsTyped'
  <2>1. wire' \in [Streams -> Seq(SUBSET Rules)]
    <3> DEFINE w == Append(wire[s], sync[s].set)
    <3>1. wire' = [wire EXCEPT ![s] = w] \/ wire' = wire
      BY <1>1
    <3>2. w \in Seq(SUBSET Rules)
      BY <1>4
    <3> HIDE DEF w
    <3> QED BY <1>2, <3>1, <3>2 DEF StreamsTyped
  <2>2. sentVer' \in [Streams -> Int]
    BY <1>1, <1>2, StreamFacts DEF StreamsTyped
  <2> QED BY <1>1, <1>2, <2>1, <2>2 DEF StreamsTyped
<1>6. /\ \A u \in Streams : u # s => sentVer'[u] = sentVer[u]
      /\ conn[s] = "open" => sentVer'[s] = sync[s].ver
      /\ sentVer'[s] = sync[s].ver \/ sentVer'[s] = sentVer[s]
  BY <1>1, <1>2 DEF StreamsTyped
<1>7. Owed(s) => Owed(s)'
  BY <1>1 DEF Owed, Bound
<1>8. ASSUME conn[s] = "open", scrub[s]
      PROVE  sentVer'[s] = ver \/ WorkerCurrent(s)' \/ Owed(s)'
  <2>1. sentVer[s] = ver \/ WorkerCurrent(s) \/ Owed(s)
    BY <1>8, StreamFacts
  <2>2. CASE sentVer[s] = ver
    BY <1>1, <1>6, <1>8, <2>2, StreamFacts
  <2>3. CASE WorkerCurrent(s)
    BY <1>1, <1>6, <1>8, <2>3 DEF WorkerCurrent
  <2> QED BY <1>7, <2>1, <2>2, <2>3
<1>9. /\ -1 <= sentVer'[s] /\ sentVer'[s] <= ver
      /\ sync'[s].ver <= ver
      /\ \A w \in waiters'[s] : w <= ver
      /\ conn'[s] = "new" => ~scrub'[s]
      /\ store' \in SUBSET Rules
  BY <1>1, <1>3, <1>6, StreamFacts
<1> QED BY <1>1, <1>3, <1>5, <1>6, <1>8, <1>9, StreamStepKeeps

\* The steps of a stream that leave its worker alone.
LEMMA QuietStreamKeeps ==
  ASSUME RuleSyncInv, NEW s \in Streams, StreamsTyped',
         UNCHANGED <<now, store, ver, stopped, waiters, sync, sentVer, caller, file, pmu>>,
         \A u \in Streams : u # s =>
            conn'[u] = conn[u] /\ scrub'[u] = scrub[u] /\ announce'[u] = announce[u],
         conn'[s] = "new" => ~scrub'[s],
         conn'[s] = "open" /\ scrub'[s] =>
            announce'[s] \/ (conn[s] = "open" /\ scrub[s] /\ announce'[s] = announce[s])
  PROVE  RuleSyncInv'
<1>1. WorkersTyped'
  BY DEF RuleSyncInv, WorkersTyped
<1>2. conn'[s] = "open" /\ scrub'[s] =>
         sentVer'[s] = ver \/ WorkerCurrent(s)' \/ Owed(s)'
  <2>1. (\E p \in Callers \ {Resync} : Bound(p, s)) => Owed(s)'
    BY DEF Owed, Bound
  <2>2. announce'[s] => Owed(s)'
    BY DEF Owed
  <2>3. WorkerCurrent(s) => WorkerCurrent(s)'
    BY DEF WorkerCurrent
  <2> QED BY <2>1, <2>2, <2>3, StreamFacts DEF Owed
<1> QED BY <1>1, <1>2, StreamFacts, StreamStepKeeps

\* Streams come and go, announce their roles, and collectors apply and expire
\* rules.
LEMMA StreamStepsKeep ==
  ASSUME RuleSyncInv, NEW s \in Streams, NEW isScrub \in BOOLEAN,
         \/ Connect(s)
         \/ Disconnect(s)
         \/ setRole(s, isScrub)
         \/ applyRules(s)
         \/ expireHeld(s)
  PROVE  RuleSyncInv'
<1>1. StreamsTyped /\ (conn[s] = "new" => ~scrub[s])
  BY StreamFacts DEF RuleSyncInv
<1>2. CASE Connect(s)
  <2>1. StreamsTyped' /\ ~scrub'[s]
        /\ \A u \in Streams : u # s => conn'[u] = conn[u]
    BY <1>1, <1>2 DEF Connect, StreamsTyped
  <2> QED BY <1>2, <2>1, QuietStreamKeeps DEF Connect
<1>3. CASE Disconnect(s)
  <2>1. /\ conn'[s] = "gone" /\ \A u \in Streams : u # s => conn'[u] = conn[u]
        /\ conn' \in [Streams -> {"new", "open", "gone"}]
    BY <1>1, <1>3 DEF Disconnect, StreamsTyped
  <2>2. wire' \in [Streams -> Seq(SUBSET Rules)]
    BY <1>1, <1>3, EmptySeq DEF Disconnect, StreamsTyped
  <2>3. StreamsTyped'
    BY <1>1, <1>3, <2>1, <2>2 DEF Disconnect, StreamsTyped
  <2> QED BY <1>3, <2>1, <2>3, QuietStreamKeeps DEF Disconnect
<1>4. CASE setRole(s, isScrub)
  <2>1. /\ scrub'[s] = isScrub /\ announce'[s] = (isScrub /\ ~scrub[s])
        /\ \A u \in Streams : u # s => scrub'[u] = scrub[u] /\ announce'[u] = announce[u]
        /\ scrub' \in [Streams -> BOOLEAN] /\ announce' \in [Streams -> BOOLEAN]
        /\ conn[s] = "open" /\ ~announce[s]
        /\ scrub[s] \in BOOLEAN /\ announce[s] \in BOOLEAN
    BY <1>1, <1>4 DEF setRole, StreamsTyped
  <2>2. StreamsTyped'
    BY <1>1, <1>4, <2>1 DEF setRole, StreamsTyped
  <2>3. UNCHANGED <<now, store, ver, stopped, conn, waiters, sync, sentVer, caller, file,
                    pmu>>
    BY <1>4 DEF setRole
  <2>4. scrub'[s] => announce'[s] \/ (scrub[s] /\ announce'[s] = announce[s])
    BY <2>1
  <2> QED BY <2>1, <2>2, <2>3, <2>4, QuietStreamKeeps
<1>5. CASE applyRules(s)
  <2>1. wire[s] \in Seq(SUBSET Rules) /\ wire[s] # << >>
    BY <1>1, <1>5 DEF applyRules, StreamsTyped
  <2>2. Head(wire[s]) \in SUBSET Rules /\ Tail(wire[s]) \in Seq(SUBSET Rules)
    BY <2>1, HeadTailProperties
  <2>3. PICK h \in SUBSET Rules : held' = [held EXCEPT ![s] = h]
    BY <1>1, <1>5, <2>2 DEF applyRules, StreamsTyped
  <2>4. StreamsTyped'
    BY <1>1, <1>5, <2>2, <2>3 DEF applyRules, StreamsTyped
  <2> QED BY <1>1, <1>5, <2>4, QuietStreamKeeps DEF applyRules
<1>6. CASE expireHeld(s)
  <2>1. StreamsTyped'
    BY <1>1, <1>6 DEF expireHeld, StreamsTyped
  <2> QED BY <1>1, <1>6, <2>1, QuietStreamKeeps DEF expireHeld
<1> QED BY <1>2, <1>3, <1>4, <1>5, <1>6
-----------------------------------------------------------------------------
(***************************************************************************)
(* Restarts, the clock, and the theorems.                                  *)
(***************************************************************************)

\* A restart loads the file; no stream is open and no push goes on.
LEMMA RestartKeeps ==
  ASSUME RuleSyncInv, Restart
  PROVE  RuleSyncInv'
<1>1. /\ store' = {r \in file.rules : ~expired(r)}
      /\ stopped' = FALSE
      /\ ver' = ver + 1 /\ ver \in Nat
      /\ conn' = [s \in Streams |-> IF conn[s] = "open" THEN "gone" ELSE conn[s]]
      /\ announce' = [s \in Streams |-> FALSE]
      /\ waiters' = [s \in Streams |-> {}]
      /\ sync' = [s \in Streams |-> IdleSync]
      /\ wire' = [s \in Streams |-> << >>]
      /\ pmu' = {}
      /\ UNCHANGED <<now, scrub, sentVer, held, file>>
  BY DEF Restart, RuleSyncInv, AnalyzerTyped
<1>2. \A p \in Callers :
        \/ caller'[p] = NoCall
        \/ /\ p \in Pushers
           /\ caller'[p] = [NoCall EXCEPT !.pc = "done", !.ver = caller[p].ver,
                                          !.saved = caller[p].saved]
  BY DEF Restart
<1>3. \A p \in Callers :
        /\ caller'[p] \in [pc : {"idle", "persist", "saving", "publish", "snapshot",
                                 "request", "done"},
                           ver : Nat, snap : SUBSET Snapshot, todo : SUBSET Streams,
                           saved : BOOLEAN]
        /\ caller'[p].pc \in {"idle", "done"}
        /\ caller'[p].saved => caller[p].saved /\ caller'[p].ver = caller[p].ver
        /\ caller'[p].ver = 0 \/ caller'[p].ver = caller[p].ver
  <2> TAKE p \in Callers
  <2>1. caller[p].ver \in Nat /\ caller[p].saved \in BOOLEAN
    BY DEF RuleSyncInv, CallersTyped
  <2>2. CASE caller'[p] = NoCall
    BY <2>2 DEF NoCall
  <2>3. CASE caller'[p] = [NoCall EXCEPT !.pc = "done", !.ver = caller[p].ver,
                                         !.saved = caller[p].saved]
    <3>1. caller'[p] = [pc |-> "done", ver |-> caller[p].ver, snap |-> {}, todo |-> {},
                        saved |-> caller[p].saved]
      BY <2>3 DEF NoCall
    <3> QED BY <2>1, <3>1
  <2> QED BY <1>2, <2>2, <2>3
<1>4. CallersTyped'
  BY <1>3 DEF CallersTyped, Restart
<1>5. AnalyzerTyped'
  <2>1. store' \in SUBSET Rules /\ ver' \in Nat
    BY <1>1 DEF RuleSyncInv, AnalyzerTyped, Snapshot
  <2>2. stopped' \in BOOLEAN
    BY <1>1
  <2>3. now' \in 1..MaxTime /\ file' \in Snapshot
    BY <1>1 DEF RuleSyncInv, AnalyzerTyped
  <2> QED BY <2>1, <2>2, <2>3 DEF AnalyzerTyped
<1>6. StreamsTyped'
  <2>1. wire' \in [Streams -> Seq(SUBSET Rules)]
    BY <1>1, EmptySeq
  <2>2. conn' \in [Streams -> {"new", "open", "gone"}]
    BY <1>1 DEF RuleSyncInv, StreamsTyped
  <2>3. announce' \in [Streams -> BOOLEAN]
    BY <1>1
  <2> QED BY <1>1, <2>1, <2>2, <2>3 DEF RuleSyncInv, StreamsTyped
<1>7. /\ WorkersTyped'
      /\ \A s \in Streams : /\ waiters'[s] = {} /\ sync'[s].pc = "idle"
                            /\ sync'[s].batch = {} /\ sync'[s].ver = 0
  BY <1>1 DEF IdleSync, WorkersTyped
<1>8. VersionsBounded'
  <2>1. /\ file'.ver <= ver'
        /\ \A p \in Callers : caller'[p].ver <= ver'
    <3>1. file.ver \in Nat /\ \A p \in Callers : caller[p].ver \in Nat
      BY DEF RuleSyncInv, AnalyzerTyped, Snapshot, CallersTyped
    <3> QED BY <1>1, <1>3, <3>1 DEF RuleSyncInv, VersionsBounded
  <2>2. \A s \in Streams : -1 <= sentVer'[s] /\ sentVer'[s] <= ver'
    BY <1>1, StreamFacts
  <2> QED BY <1>1, <1>7, <2>1, <2>2 DEF VersionsBounded
<1>9. WorkersSound'
  BY <1>7 DEF WorkersSound
<1>10. RolesSound'
  BY <1>1 DEF RuleSyncInv, RolesSound
<1>11. SaversSound'
  <2>1. pmu' = {p \in Pushers : caller'[p].pc = "saving"}
    BY <1>1, <1>3 DEF Callers
  <2> QED BY <1>3, <2>1 DEF SaversSound
<1>12. SavedPushSurvives'
  BY <1>1, <1>3 DEF RuleSyncInv, SavedPushSurvives, Callers
<1>13. NoLostUpdate'
  BY <1>1 DEF NoLostUpdate
<1> QED BY <1>4, <1>5, <1>6, <1>7, <1>8, <1>9, <1>10, <1>11, <1>12, <1>13 DEF RuleSyncInv

\* The clock ticks, or nothing happens.
LEMMA SyncTickKeeps ==
  ASSUME RuleSyncInv, Tick \/ UNCHANGED vars
  PROVE  RuleSyncInv'
<1>1. /\ UNCHANGED <<store, ver, stopped, conn, scrub, announce, waiters, sync, sentVer,
                     wire, held, caller, file, pmu>>
      /\ now' \in 1..MaxTime
  BY RulesAssumption DEF Tick, vars, streamVars, RuleSyncInv, AnalyzerTyped
<1>2. AnalyzerTyped' /\ StreamsTyped' /\ WorkersTyped' /\ CallersTyped'
  BY <1>1 DEF RuleSyncInv, AnalyzerTyped, StreamsTyped, WorkersTyped, CallersTyped
<1>3. VersionsBounded' /\ WorkersSound' /\ RolesSound' /\ SaversSound'
  BY <1>1 DEF RuleSyncInv, VersionsBounded, WorkersSound, RolesSound, SaversSound
<1>4. SavedPushSurvives' /\ NoLostUpdate'
  BY <1>1 DEF RuleSyncInv, SavedPushSurvives, NoLostUpdate, WillSync
<1> QED BY <1>2, <1>3, <1>4 DEF RuleSyncInv

LEMMA SyncNextKeeps == RuleSyncInv /\ [Next]_vars => RuleSyncInv'
<1> SUFFICES ASSUME RuleSyncInv, [Next]_vars PROVE RuleSyncInv'
  OBVIOUS
<1>1. ASSUME NEW p \in Pushers, NEW set \in SUBSET Rules,
             NEW scope \in {ScopeOf[r] : r \in Rules}, replace(p, scope, set)
      PROVE  RuleSyncInv'
  BY <1>1, ReplaceKeeps
<1>2. CASE StopEnforcement \/ startResync
  BY <1>2, StopEnforcementKeeps, StartResyncKeeps
<1>3. ASSUME NEW p \in Callers, DistributeStep(p) PROVE RuleSyncInv'
  BY <1>3, PublishKeeps, SyncScrubCollectorsKeeps, RequestRuleSyncKeeps DEF DistributeStep
<1>4. ASSUME NEW s \in Streams, WorkerStep(s) PROVE RuleSyncInv'
  BY <1>4, TakeWaitersKeeps, ReadEnforcingKeeps, RuleSetCommandKeeps, SendRulesKeeps
     DEF WorkerStep
<1>5. ASSUME NEW s \in Streams, CollectorStep(s) \/ Connect(s) \/ Disconnect(s)
      PROVE  RuleSyncInv'
  <2>1. TRUE \in BOOLEAN
    OBVIOUS
  <2> QED BY <1>5, <2>1, StreamStepsKeep DEF CollectorStep
<1>6. ASSUME NEW s \in Streams, requestRoleSync(s) PROVE RuleSyncInv'
  BY <1>6, RequestRoleSyncKeeps
<1>7. ASSUME NEW s \in Streams, NEW isScrub \in BOOLEAN, setRole(s, isScrub)
      PROVE  RuleSyncInv'
  BY <1>7, StreamStepsKeep
<1>8. CASE Tick \/ UNCHANGED vars
  BY <1>8, SyncTickKeeps
<1>9. ASSUME NEW p \in Callers, SaveStep(p) PROVE RuleSyncInv'
  BY <1>9, SaveKeeps, SaveEndsKeeps DEF SaveStep
<1>10. CASE Restart
  BY <1>10, RestartKeeps
<1> QED BY <1>1, <1>2, <1>3, <1>4, <1>5, <1>6, <1>7, <1>8, <1>9, <1>10
        DEF Next, SyncNext, PersistNext

LEMMA SyncInvHolds == Spec => []RuleSyncInv
BY InitInv, SyncNextKeeps, PTL DEF Spec

\* The inductive invariant gives the types, ...
LEMMA SyncInvTypeOK == RuleSyncInv => TypeOK
<1> SUFFICES ASSUME RuleSyncInv PROVE TypeOK
  OBVIOUS
<1>1. /\ now \in 1..MaxTime /\ store \subseteq Rules /\ ver \in Nat /\ stopped \in BOOLEAN
      /\ file.rules \subseteq Rules
  BY DEF RuleSyncInv, AnalyzerTyped, Snapshot
<1>2. /\ conn \in [Streams -> {"new", "open", "gone"}]
      /\ scrub \in [Streams -> BOOLEAN]
      /\ announce \in [Streams -> BOOLEAN]
      /\ \A s \in Streams : held[s] \subseteq Rules
  BY DEF RuleSyncInv, StreamsTyped
<1>3. ASSUME NEW s \in Streams
      PROVE  /\ waiters[s] \subseteq 0..ver
             /\ sync[s].batch \subseteq 0..ver
             /\ sync[s].ver \in 0..ver
             /\ sentVer[s] \in -1..ver
             /\ sync[s].pc \in {"enforcing", "build", "send"} <=> sync[s].batch # {}
  BY StreamFacts
<1>4. \A s \in Streams : sync[s].pc \in {"idle", "take", "enforcing", "build", "send"}
  BY DEF RuleSyncInv, WorkersTyped
<1>5. /\ \A p \in Callers : caller[p].pc \in {"idle", "persist", "saving", "publish",
                                              "snapshot", "request", "done"}
      /\ pmu = {p \in Pushers : caller[p].pc = "saving"}
  BY DEF RuleSyncInv, CallersTyped, SaversSound
<1> QED BY <1>1, <1>2, <1>3, <1>4, <1>5 DEF TypeOK

\* ... and that a batch is answered with a set at least as new as each request.
LEMMA InvCovers == RuleSyncInv => SyncCoversWaiters
BY DEF RuleSyncInv, WorkersSound, SyncCoversWaiters

\* For any rules, pushes, streams and restarts: a batch of coalesced requests is
\* answered with a set built after each of them, and a connected scrub collector
\* has been sent the newest change of the rules and the kill switch or somebody
\* other than the resync is about to send it (requestRuleSync, runRuleSyncs,
\* syncScrubCollectors, handleRoleSignal).
THEOREM SyncIsComplete == Spec => []SyncComplete
<1>1. RuleSyncInv => SyncComplete
  BY SyncInvTypeOK, InvCovers DEF SyncComplete, RuleSyncInv
<1> QED BY <1>1, SyncInvHolds, PTL

\* The same of an analyzer that keeps no state file and is not restarted.
THEOREM SyncWithoutFileIsComplete == SyncSpec => []SyncComplete
<1>1. SyncNext => Next
  BY DEF Next
<1>2. SyncSpec => Spec
  BY <1>1, PTL DEF SyncSpec, Spec
<1> QED BY <1>2, SyncIsComplete, PTL

\* Once a push has saved its rules the file never goes back behind it, however
\* many pushes save at the same time and fail or not (ruleStatePersister.save).
THEOREM SavedPushIsKept == Spec => []SavedPushSurvives
<1>1. RuleSyncInv => SavedPushSurvives
  BY DEF RuleSyncInv
<1> QED BY <1>1, SyncInvHolds, PTL
=============================================================================
