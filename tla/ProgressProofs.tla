---------------------------- MODULE ProgressProofs ----------------------------
(***************************************************************************)
(* Proofs about the parts that MCAnalyzerProgress checks together: the     *)
(* decision feed, the client CA bundle, the reputation store, the frame of *)
(* the detection engine and the feedback loop, each for every value of its *)
(* constants.                                                              *)
(***************************************************************************)
EXTENDS WatchHub, ClientTrust, Reputation, Engine, Feedback, FiniteSetTheorems,
        SequenceTheorems, WellFoundedInduction, TLAPS

-----------------------------------------------------------------------------
(***************************************************************************)
(* The decision feed, for any number of publishers and subscribers and any *)
(* ring size.                                                              *)
(***************************************************************************)

\* The values of pub[p].
Pub == [pc : {"idle", "lock", "push"}, todo : SUBSET Subscribers,
        wake : SUBSET Subscribers]

\* Ring indices stay inside the ring.
LEMMA SlotArithmetic ==
  ASSUME NEW a \in Nat
  PROVE  a % BufferSize \in Slots
BY SizesAssumption DEF Slots

\* The index of the i-th decision from head h, and a ring of k decisions that
\* end with decision l.
At(h, i) == (h + i) % BufferSize
Holding(r, h, k, l) == \A i \in 0..(k - 1) : r[At(h, i)] = l - k + 1 + i

\* Indices wrap around once.
LEMMA RingIndex ==
  ASSUME NEW h \in Slots, NEW i \in 0..BufferSize
  PROVE  /\ At(h, i) = IF h + i < BufferSize THEN h + i ELSE h + i - BufferSize
         /\ At(h, i) \in Slots
BY SizesAssumption DEF Slots, At

\* A decision added to a ring with room for it.
LEMMA RingAppend ==
  ASSUME NEW r \in [Slots -> Nat], NEW h \in Slots, NEW k \in 0..(BufferSize - 1),
         NEW l \in Nat, Holding(r, h, k, l)
  PROVE  Holding([r EXCEPT ![At(h, k)] = l + 1], h, k + 1, l + 1)
<1> SUFFICES ASSUME NEW i \in 0..(k + 1 - 1)
             PROVE  [r EXCEPT ![At(h, k)] = l + 1][At(h, i)] = l + 1 - (k + 1) + 1 + i
  BY DEF Holding
<1>0. BufferSize \in Nat \ {0} /\ h \in 0..(BufferSize - 1)
  BY SizesAssumption DEF Slots
<1>1. k \in 0..BufferSize /\ i \in 0..BufferSize /\ i \in Nat /\ i <= k
  BY <1>0
<1>2. /\ At(h, k) = IF h + k < BufferSize THEN h + k ELSE h + k - BufferSize
      /\ At(h, i) = IF h + i < BufferSize THEN h + i ELSE h + i - BufferSize
      /\ At(h, k) \in Slots /\ At(h, i) \in Slots
  BY <1>1, RingIndex
<1>3. CASE i = k
  BY <1>2, <1>3
<1>4. CASE i # k
  <2>1. i \in 0..(k - 1)
    BY <1>1, <1>4
  <2>2. r[At(h, i)] = l - k + 1 + i
    BY <2>1 DEF Holding
  <2>3. At(h, i) # At(h, k)
    BY <1>0, <1>1, <1>2, <1>4
  <2> QED BY <1>1, <1>2, <2>2, <2>3
<1> QED BY <1>3, <1>4

\* A decision that replaces the oldest one of a full ring.
LEMMA RingOverwrite ==
  ASSUME NEW r \in [Slots -> Nat], NEW h \in Slots, NEW l \in Nat,
         Holding(r, h, BufferSize, l)
  PROVE  Holding([r EXCEPT ![h] = l + 1], At(h, 1), BufferSize, l + 1)
<1> DEFINE g == At(h, 1)
<1>0. BufferSize \in Nat \ {0} /\ h \in 0..(BufferSize - 1)
  BY SizesAssumption DEF Slots
<1>1. /\ g = IF h + 1 < BufferSize THEN h + 1 ELSE h + 1 - BufferSize
      /\ g \in Slots
  BY <1>0, RingIndex
<1> HIDE DEF g
<1>2. ASSUME NEW i \in 0..(BufferSize - 1)
      PROVE  [r EXCEPT ![h] = l + 1][At(g, i)] = (l + 1) - BufferSize + 1 + i
  <2>1. i \in 0..BufferSize
    BY <1>0
  <2>2. /\ At(g, i) = IF g + i < BufferSize THEN g + i ELSE g + i - BufferSize
        /\ At(g, i) \in Slots
    BY <1>1, <2>1, RingIndex
  <2>3. CASE i = BufferSize - 1
    <3>1. At(g, i) = h
      BY <1>0, <1>1, <2>2, <2>3
    <3> QED BY <1>0, <2>3, <3>1
  <2>4. CASE i # BufferSize - 1
    <3>1. i + 1 \in 0..(BufferSize - 1) /\ i + 1 \in 0..BufferSize
      BY <1>0, <2>4
    <3>2. r[At(h, i + 1)] = l - BufferSize + 1 + (i + 1)
      BY <3>1 DEF Holding
    <3>3. At(h, i + 1) = IF h + (i + 1) < BufferSize THEN h + (i + 1)
                                                   ELSE h + (i + 1) - BufferSize
      BY <3>1, RingIndex
    <3>4. At(g, i) = At(h, i + 1) /\ At(g, i) # h
      BY <1>0, <1>1, <2>2, <2>4, <3>3
    <3> QED BY <1>0, <2>2, <3>2, <3>4
  <2> QED BY <2>3, <2>4
<1>3. Holding([r EXCEPT ![h] = l + 1], g, BufferSize, l + 1)
  BY <1>2 DEF Holding
<1> QED BY <1>3 DEF g

\* The oldest decision taken out.
LEMMA RingDropHead ==
  ASSUME NEW r \in [Slots -> Nat], NEW h \in Slots, NEW k \in 1..BufferSize,
         NEW l \in Nat, Holding(r, h, k, l)
  PROVE  /\ r[h] = l - k + 1
         /\ Holding([r EXCEPT ![h] = 0], At(h, 1), k - 1, l)
<1>0. BufferSize \in Nat \ {0} /\ h \in 0..(BufferSize - 1)
  BY SizesAssumption DEF Slots
<1>1. r[h] = l - k + 1
  <2>1. 0 \in 0..(k - 1) /\ 0 \in 0..BufferSize
    BY <1>0
  <2>2. r[At(h, 0)] = l - k + 1 + 0
    BY <2>1 DEF Holding
  <2>3. At(h, 0) = h
    BY <1>0, <2>1, RingIndex
  <2> QED BY <1>0, <2>2, <2>3
<1>2. ASSUME NEW i \in 0..(k - 1 - 1)
      PROVE  [r EXCEPT ![h] = 0][At(At(h, 1), i)] = l - (k - 1) + 1 + i
  <2>1. i \in 0..BufferSize /\ i + 1 \in 0..(k - 1) /\ i + 1 \in 0..BufferSize
    BY <1>0
  <2>2. /\ At(h, 1) = IF h + 1 < BufferSize THEN h + 1 ELSE h + 1 - BufferSize
        /\ At(h, 1) \in Slots
    BY <1>0, RingIndex
  <2>3. /\ At(At(h, 1), i) = IF At(h, 1) + i < BufferSize THEN At(h, 1) + i
                                                      ELSE At(h, 1) + i - BufferSize
        /\ At(At(h, 1), i) \in Slots
    BY <2>1, <2>2, RingIndex
  <2>4. At(h, i + 1) = IF h + (i + 1) < BufferSize THEN h + (i + 1)
                                                 ELSE h + (i + 1) - BufferSize
    BY <2>1, RingIndex
  <2>5. r[At(h, i + 1)] = l - k + 1 + (i + 1)
    BY <2>1 DEF Holding
  <2>6. At(At(h, 1), i) = At(h, i + 1) /\ At(At(h, 1), i) # h
    BY <1>0, <2>1, <2>2, <2>3, <2>4
  <2> QED BY <1>0, <2>1, <2>3, <2>5, <2>6
<1> QED BY <1>1, <1>2 DEF Holding

\* The initial state is well typed.
LEMMA InitTypeOK == Init => TypeOK
<1> SUFFICES ASSUME Init PROVE TypeOK
  OBVIOUS
<1>1. 0 \in Slots
  BY SizesAssumption DEF Slots
<1>2. 0 \in 0..MaxPublished /\ 0 \in 0..BufferSize
  BY SizesAssumption
<1> QED
  BY <1>1, <1>2 DEF Init, TypeOK, Quiet

\* Every step keeps the variables well typed.
LEMMA NextTypeOK == TypeOK /\ [Next]_vars => TypeOK'
<1> SUFFICES ASSUME TypeOK, [Next]_vars PROVE TypeOK'
  OBVIOUS
<1>1. ASSUME NEW p \in Publishers, CheckActive(p) PROVE TypeOK'
  BY <1>1 DEF CheckActive, ringVars, historyVars, TypeOK
<1>2. ASSUME NEW p \in Publishers, publish(p) PROVE TypeOK'
  <2>1. seq' \in 0..MaxPublished
    BY <1>2, SizesAssumption DEF publish, TypeOK
  <2>2. pub' \in [Publishers -> Pub]
    <3>1. [pc |-> "push", todo |-> subs, wake |-> {}] \in Pub
      BY DEF TypeOK, Pub
    <3> QED BY <1>2, <3>1 DEF publish, TypeOK, Pub
  <2> QED BY <1>2, <2>1, <2>2 DEF publish, ringVars, historyVars, TypeOK, Pub
<1>3. ASSUME NEW p \in Publishers, NEW s \in Subscribers, push(p, s) PROVE TypeOK'
  <2> DEFINE full == n[s] = BufferSize
             h    == IF full THEN (head[s] + 1) % BufferSize ELSE head[s]
             k    == IF full THEN n[s] - 1 ELSE n[s]
             r    == IF full THEN [ring[s] EXCEPT ![head[s]] = 0] ELSE ring[s]
  <2>1. /\ head[s] \in Slots
        /\ n[s] \in 0..BufferSize
        /\ ring[s] \in [Slots -> Nat]
        /\ seq \in Nat
        /\ dropped[s] \in Nat
    BY DEF TypeOK
  <2>2. h \in Slots /\ h \in Nat
    <3>1. head[s] \in Nat
      BY <2>1 DEF Slots
    <3>2. (head[s] + 1) % BufferSize \in Slots
      BY <3>1, SlotArithmetic
    <3> QED BY <2>1, <3>1, <3>2 DEF Slots
  <2>3. k \in 0..(BufferSize - 1)
    BY <2>1, SizesAssumption
  <2>4. (h + k) % BufferSize \in Slots
    <3>1. h + k \in Nat
      BY <2>2, <2>3, SizesAssumption
    <3> HIDE DEF h, k
    <3> QED BY <3>1, SlotArithmetic
  <2>5. r \in [Slots -> Nat]
    BY <2>1
  <2> HIDE DEF h, k, r
  <2>6. ring' \in [Subscribers -> [Slots -> Nat]]
    <3>1. ring' = [ring EXCEPT ![s] = [r EXCEPT ![(h + k) % BufferSize] = seq]]
      BY <1>3 DEF push, h, k, r, full
    <3>2. [r EXCEPT ![(h + k) % BufferSize] = seq] \in [Slots -> Nat]
      BY <2>1, <2>5
    <3> QED BY <3>1, <3>2 DEF TypeOK
  <2>7. head' \in [Subscribers -> Slots]
    <3>1. head' = [head EXCEPT ![s] = h]
      BY <1>3 DEF push, h, full
    <3> QED BY <3>1, <2>2 DEF TypeOK
  <2>8. n' \in [Subscribers -> 0..BufferSize]
    <3>1. n' = [n EXCEPT ![s] = k + 1]
      BY <1>3 DEF push, k, full
    <3>2. k + 1 \in 0..BufferSize
      BY <2>3, SizesAssumption
    <3> QED BY <3>1, <3>2 DEF TypeOK
  <2>9. dropped' \in [Subscribers -> Nat]
    BY <1>3, <2>1 DEF push, TypeOK
  <2>10. pub' \in [Publishers -> Pub]
    <3>1. pub[p] \in Pub
      BY DEF TypeOK, Pub
    <3>2. [pub[p] EXCEPT !.todo = @ \ {s}, !.wake = {s}] \in Pub
      BY <3>1 DEF Pub
    <3>3. pub' = [pub EXCEPT ![p] = [pub[p] EXCEPT !.todo = @ \ {s}, !.wake = {s}]]
      BY <1>3 DEF push
    <3> QED BY <3>2, <3>3 DEF TypeOK, Pub
  <2>11. last' \in [Subscribers -> Nat]
    BY <1>3, <2>1 DEF push, TypeOK
  <2> QED
    BY <1>3, <2>6, <2>7, <2>8, <2>9, <2>10, <2>11 DEF push, TypeOK, Pub
<1>4. ASSUME NEW p \in Publishers, wakeUp(p) PROVE TypeOK'
  BY <1>4 DEF wakeUp, ringVars, historyVars, TypeOK
<1>5. ASSUME NEW p \in Publishers, publishDone(p) PROVE TypeOK'
  BY <1>5 DEF publishDone, Quiet, ringVars, historyVars, TypeOK
<1>6. ASSUME NEW s \in Subscribers, subscribe(s) PROVE TypeOK'
  BY <1>6 DEF subscribe, ringVars, TypeOK
<1>7. ASSUME NEW s \in Subscribers, Refuse(s) PROVE TypeOK'
  BY <1>7 DEF Refuse, ringVars, historyVars, TypeOK
<1>8. ASSUME NEW s \in Subscribers, EndCall(s) PROVE TypeOK'
  BY <1>8 DEF EndCall, ringVars, historyVars, TypeOK
<1>9. ASSUME NEW s \in Subscribers, takeToken(s) PROVE TypeOK'
  BY <1>9 DEF takeToken, ringVars, historyVars, TypeOK
<1>10. ASSUME NEW s \in Subscribers, seeEnd(s) PROVE TypeOK'
  BY <1>10 DEF seeEnd, ringVars, historyVars, TypeOK
<1>11. ASSUME NEW s \in Subscribers, pop(s) PROVE TypeOK'
  <2>1. /\ head[s] \in Slots
        /\ n[s] \in 0..BufferSize
        /\ ring[s] \in [Slots -> Nat]
    BY DEF TypeOK
  <2>2. (head[s] + 1) % BufferSize \in Slots
    <3>1. head[s] + 1 \in Nat
      BY <2>1 DEF Slots
    <3> QED BY <3>1, SlotArithmetic
  <2>3. CASE n[s] = 0
    BY <1>11, <2>3 DEF pop, historyVars, TypeOK
  <2>4. CASE n[s] # 0
    <3>1. ring[s][head[s]] \in Nat
      BY <2>1
    <3>2. hand' \in [Subscribers -> Nat]
      BY <1>11, <2>4, <3>1 DEF pop, TypeOK
    <3>3. ring' \in [Subscribers -> [Slots -> Nat]]
      <4>1. ring' = [ring EXCEPT ![s] = [ring[s] EXCEPT ![head[s]] = 0]]
        BY <1>11, <2>4 DEF pop
      <4>2. [ring[s] EXCEPT ![head[s]] = 0] \in [Slots -> Nat]
        BY <2>1
      <4> QED BY <4>1, <4>2 DEF TypeOK
    <3>4. head' \in [Subscribers -> Slots]
      <4>1. head' = [head EXCEPT ![s] = (head[s] + 1) % BufferSize]
        BY <1>11, <2>4 DEF pop
      <4> QED BY <4>1, <2>2 DEF TypeOK
    <3>5. n' \in [Subscribers -> 0..BufferSize]
      <4>1. n[s] - 1 \in 0..BufferSize
        BY <2>1, <2>4, SizesAssumption
      <4>2. n' = [n EXCEPT ![s] = n[s] - 1]
        BY <1>11, <2>4 DEF pop
      <4> QED BY <4>1, <4>2 DEF TypeOK
    <3>6. call' \in [Subscribers -> {"idle", "wait", "drain", "send", "leave", "gone"}]
      BY <1>11, <2>4 DEF pop, TypeOK
    <3> QED
      BY <1>11, <2>4, <3>2, <3>3, <3>4, <3>5, <3>6 DEF pop, historyVars, TypeOK
  <2> QED BY <2>3, <2>4
<1>12. ASSUME NEW s \in Subscribers, Send(s) PROVE TypeOK'
  <2>1. hand[s] \in Nat /\ sent[s] + 1 \in Nat
    BY DEF TypeOK
  <2>2. CASE ended[s]
    BY <1>12, <2>2 DEF Send, ringVars, TypeOK
  <2>3. CASE ~ended[s]
    <3>1. /\ hand' = [hand EXCEPT ![s] = 0]
          /\ call' = [call EXCEPT ![s] = "drain"]
          /\ sent' = [sent EXCEPT ![s] = sent[s] + 1]
          /\ latest' = [latest EXCEPT ![s] = hand[s]]
      BY <1>12, <2>3 DEF Send
    <3>2. hand' \in [Subscribers -> Nat] /\ sent' \in [Subscribers -> Nat]
          /\ latest' \in [Subscribers -> Nat]
      BY <2>1, <3>1 DEF TypeOK
    <3>3. call' \in [Subscribers -> {"idle", "wait", "drain", "send", "leave", "gone"}]
      BY <3>1 DEF TypeOK
    <3> QED BY <1>12, <3>2, <3>3 DEF Send, ringVars, TypeOK
  <2> QED BY <2>2, <2>3
<1>13. ASSUME NEW s \in Subscribers, unsubscribe(s) PROVE TypeOK'
  BY <1>13 DEF unsubscribe, ringVars, historyVars, TypeOK
<1>14. CASE UNCHANGED vars
  BY <1>14 DEF vars, ringVars, historyVars, TypeOK
<1> QED
  BY <1>1, <1>2, <1>3, <1>4, <1>5, <1>6, <1>7, <1>8, <1>9, <1>10, <1>11, <1>12,
     <1>13, <1>14 DEF Next, PublisherStep, HandlerStep

\* The type invariant of the feed: in particular the ring arithmetic of push
\* and pop never leaves the ring, whatever its size.
THEOREM TypeCorrect == Spec => []TypeOK
BY InitTypeOK, NextTypeOK, PTL DEF Spec

-----------------------------------------------------------------------------
(***************************************************************************)
(* RingInv, one lemma per conjunct.                                        *)
(***************************************************************************)

\* Nothing is on any publisher's list while hub.mu is free.
LEMMA IdleLists ==
  ASSUME LockDiscipline, mu = {}
  PROVE  \A p \in Publishers : pub[p].todo = {} /\ pub[p].wake = {}
BY DEF LockDiscipline

\* Two publishers never have a list at the same time.
LEMMA OnePublisher ==
  ASSUME LockDiscipline, NEW p \in Publishers, NEW q \in Publishers,
         pub[p].pc = "push", q # p
  PROVE  pub[q].pc # "push" /\ pub[q].todo = {} /\ pub[q].wake = {}
BY DEF LockDiscipline

\* hub.mu keeps publishers apart.
LEMMA NextLockDiscipline ==
  ASSUME TypeOK, LockDiscipline, [Next]_vars
  PROVE  LockDiscipline'
<1> USE DEF TypeOK, LockDiscipline, ringVars, historyVars
<1>1. ASSUME NEW p \in Publishers, CheckActive(p) PROVE LockDiscipline'
  BY <1>1 DEF CheckActive
<1>2. ASSUME NEW p \in Publishers, publish(p) PROVE LockDiscipline'
  BY <1>2 DEF publish
<1>3. ASSUME NEW p \in Publishers, NEW s \in Subscribers, push(p, s)
      PROVE  LockDiscipline'
  BY <1>3 DEF push
<1>4. ASSUME NEW p \in Publishers, wakeUp(p) PROVE LockDiscipline'
  BY <1>4 DEF wakeUp
<1>5. ASSUME NEW p \in Publishers, publishDone(p) PROVE LockDiscipline'
  <2> SUFFICES ASSUME NEW q \in Publishers
               PROVE  /\ pub'[q].pc = "push" => mu' = {q}
                      /\ pub'[q].pc # "push" => pub'[q].todo = {} /\ pub'[q].wake = {}
                      /\ pub'[q].todo \subseteq subs'
    BY DEF LockDiscipline
  <2>1. CASE q = p
    BY <1>5, <2>1 DEF publishDone, Quiet
  <2>2. CASE q # p
    <3>1. pub[q].pc # "push" /\ pub[q].todo = {} /\ pub[q].wake = {}
      BY <1>5, <2>2, OnePublisher DEF publishDone
    <3>2. pub'[q] = pub[q]
      BY <1>5, <2>2 DEF publishDone
    <3> QED BY <3>1, <3>2
  <2> QED BY <2>1, <2>2
<1>6. ASSUME NEW s \in Subscribers, HandlerStep(s) \/ subscribe(s) \/ Refuse(s) \/ EndCall(s)
      PROVE  LockDiscipline'
  BY <1>6 DEF HandlerStep, subscribe, Refuse, EndCall, takeToken, seeEnd, pop, Send,
              unsubscribe
<1>7. CASE UNCHANGED vars
  BY <1>7 DEF vars
<1> QED
  BY <1>1, <1>2, <1>3, <1>4, <1>5, <1>6, <1>7 DEF Next, PublisherStep

\* hub.subs follows the calls.
LEMMA NextSubsAreActive ==
  ASSUME RingInv, [Next]_vars
  PROVE  SubsAreActive'
<1> USE DEF RingInv, TypeOK, SubsAreActive, ringVars, historyVars
<1>1. ASSUME NEW p \in Publishers, CheckActive(p) \/ PublisherStep(p)
      PROVE  SubsAreActive'
  BY <1>1 DEF CheckActive, PublisherStep, publish, push, wakeUp, publishDone
<1>2. ASSUME NEW s \in Subscribers, subscribe(s) \/ Refuse(s) \/ EndCall(s)
      PROVE  SubsAreActive'
  BY <1>2 DEF subscribe, Refuse, EndCall
<1>3. ASSUME NEW s \in Subscribers, HandlerStep(s) PROVE SubsAreActive'
  BY <1>3 DEF HandlerStep, takeToken, seeEnd, pop, Send, unsubscribe
<1>4. CASE UNCHANGED vars
  BY <1>4 DEF vars
<1> QED
  BY <1>1, <1>2, <1>3, <1>4 DEF Next

\* Decisions are pushed to each subscriber one by one, without gaps.
LEMMA NextUpToDate ==
  ASSUME RingInv, [Next]_vars
  PROVE  UpToDate'
<1> USE DEF RingInv, TypeOK, ringVars, historyVars
<1>1. ASSUME NEW p \in Publishers, CheckActive(p) \/ wakeUp(p)
      PROVE  UpToDate'
  <2>1. ASSUME NEW q \in Publishers PROVE pub'[q].todo = pub[q].todo
    <3>1. CASE CheckActive(p)
      BY <3>1 DEF CheckActive
    <3>2. CASE wakeUp(p)
      BY <3>2 DEF wakeUp
    <3> QED BY <1>1, <3>1, <3>2
  <2> QED BY <1>1, <2>1 DEF CheckActive, wakeUp, UpToDate
<1>2. ASSUME NEW p \in Publishers, publish(p) PROVE UpToDate'
  <2>1. \A s \in subs : last[s] = seq
    BY <1>2, IdleLists DEF publish, UpToDate
  <2>2. seq' - 1 = seq /\ seq \in Nat
    BY <1>2 DEF publish
  <2>3. pub'[p].todo = subs
    BY <1>2 DEF publish
  <2> QED BY <1>2, <2>1, <2>2, <2>3 DEF publish, UpToDate
<1>3. ASSUME NEW p \in Publishers, NEW s \in Subscribers, push(p, s)
      PROVE  UpToDate'
  <2> SUFFICES ASSUME NEW t \in subs'
               PROVE  last'[t] = IF \E q \in Publishers : t \in pub'[q].todo
                                 THEN seq' - 1 ELSE seq'
    BY DEF UpToDate
  <2>1. /\ subs' = subs /\ seq' = seq
        /\ last' = [last EXCEPT ![s] = seq]
        /\ pub'[p].todo = pub[p].todo \ {s}
        /\ \A q \in Publishers : q # p => pub'[q] = pub[q]
    BY <1>3 DEF push
  <2>2. \A q \in Publishers : q # p => pub[q].todo = {}
    BY <1>3, OnePublisher DEF push
  <2>3. t \in Subscribers
    BY <2>1
  <2>4. CASE t = s
    BY <2>1, <2>2, <2>3, <2>4
  <2>5. CASE t # s
    BY <2>1, <2>2, <2>3, <2>5 DEF UpToDate
  <2> QED BY <2>4, <2>5
<1>4. ASSUME NEW p \in Publishers, publishDone(p) PROVE UpToDate'
  <2>1. \A q \in Publishers : pub'[q].todo = pub[q].todo
    BY <1>4 DEF publishDone, Quiet
  <2> QED BY <1>4, <2>1 DEF publishDone, UpToDate
<1>5. ASSUME NEW s \in Subscribers, subscribe(s) PROVE UpToDate'
  <2>1. \A q \in Publishers : pub'[q].todo = {}
    BY <1>5, IdleLists DEF subscribe
  <2>2. \A t \in subs : last[t] = seq
    BY <1>5, IdleLists DEF subscribe, UpToDate
  <2> QED BY <1>5, <2>1, <2>2 DEF subscribe, UpToDate
<1>6. ASSUME NEW s \in Subscribers, HandlerStep(s) \/ Refuse(s) \/ EndCall(s)
      PROVE  UpToDate'
  BY <1>6 DEF HandlerStep, Refuse, EndCall, takeToken, seeEnd, pop, Send, unsubscribe,
              UpToDate
<1>7. CASE UNCHANGED vars
  BY <1>7 DEF vars, UpToDate
<1> QED
  BY <1>1, <1>2, <1>3, <1>4, <1>5, <1>6, <1>7 DEF Next, PublisherStep

\* What one push does to the ring of its subscriber, in linear arithmetic.
LEMMA PushFacts ==
  ASSUME RingInv, NEW p \in Publishers, NEW s \in Subscribers, push(p, s)
  PROVE  /\ s \in subs
         /\ call[s] # "idle"
         /\ last[s] = seq - 1
         /\ last' = [last EXCEPT ![s] = seq]
         /\ seq \in Nat
         /\ \/ /\ n[s] < BufferSize
               /\ n' = [n EXCEPT ![s] = n[s] + 1]
               /\ head' = head
               /\ dropped' = dropped
               /\ ring' = [ring EXCEPT ![s] =
                             [ring[s] EXCEPT ![(head[s] + n[s]) % BufferSize] = seq]]
            \/ /\ n[s] = BufferSize
               /\ n' = n
               /\ head' = [head EXCEPT ![s] = (head[s] + 1) % BufferSize]
               /\ dropped' = [dropped EXCEPT ![s] = dropped[s] + 1]
               /\ ring' = [ring EXCEPT ![s] = [ring[s] EXCEPT ![head[s]] = seq]]
<1>0. /\ BufferSize \in Nat \ {0}
      /\ n[s] \in 0..BufferSize
      /\ head[s] \in 0..(BufferSize - 1)
  BY SizesAssumption DEF RingInv, TypeOK, Slots
<1>1. /\ n[s] \in 0..BufferSize
      /\ head[s] \in Slots
      /\ ring \in [Subscribers -> [Slots -> Nat]]
      /\ head \in [Subscribers -> Slots]
      /\ n \in [Subscribers -> 0..BufferSize]
      /\ dropped \in [Subscribers -> Nat]
      /\ BufferSize \in Nat \ {0}
      /\ seq \in Nat
  BY SizesAssumption DEF RingInv, TypeOK
<1>2. s \in subs /\ last[s] = seq - 1
  BY DEF push, RingInv, LockDiscipline, UpToDate
<1>3. call[s] # "idle"
  BY <1>2 DEF RingInv, SubsAreActive
<1>4. last' = [last EXCEPT ![s] = seq]
  BY DEF push
<1>5. CASE n[s] # BufferSize
  <2>1. n[s] < BufferSize
    BY <1>0, <1>5
  <2>2. n' = [n EXCEPT ![s] = n[s] + 1]
    BY <1>5 DEF push
  <2>3. head' = head
    BY <1>1, <1>5 DEF push
  <2>4. dropped' = dropped
    BY <1>1, <1>5 DEF push
  <2>5. ring' = [ring EXCEPT ![s] =
                   [ring[s] EXCEPT ![(head[s] + n[s]) % BufferSize] = seq]]
    BY <1>5 DEF push
  <2> QED BY <1>1, <1>2, <1>3, <1>4, <2>1, <2>2, <2>3, <2>4, <2>5
<1>6. CASE n[s] = BufferSize
  <2> DEFINE h == (head[s] + 1) % BufferSize
             r == [ring[s] EXCEPT ![head[s]] = 0]
  <2>1. h \in Slots /\ (h + (n[s] - 1)) % BufferSize = head[s]
    <3>1. h = IF head[s] + 1 < BufferSize THEN head[s] + 1
                                          ELSE head[s] + 1 - BufferSize
      BY <1>1, RingIndex DEF At
    <3>2. h \in Slots /\ n[s] - 1 \in 0..BufferSize
      BY <1>1, <1>6, <3>1 DEF Slots
    <3>3. (h + (n[s] - 1)) % BufferSize
            = IF h + (n[s] - 1) < BufferSize THEN h + (n[s] - 1)
                                             ELSE h + (n[s] - 1) - BufferSize
      <4> HIDE DEF h
      <4> QED BY <3>2, RingIndex DEF At
    <3> QED BY <1>0, <1>6, <3>1, <3>2, <3>3
  <2>2. n' = n
    <3>1. n' = [n EXCEPT ![s] = n[s] - 1 + 1]
      BY <1>6 DEF push
    <3> QED BY <1>1, <3>1
  <2>3. head' = [head EXCEPT ![s] = h]
    BY <1>6 DEF push
  <2>4. dropped' = [dropped EXCEPT ![s] = dropped[s] + 1]
    BY <1>6 DEF push
  <2>5. ring' = [ring EXCEPT ![s] = [r EXCEPT ![(h + (n[s] - 1)) % BufferSize] = seq]]
    BY <1>6 DEF push
  <2>6. [r EXCEPT ![head[s]] = seq] = [ring[s] EXCEPT ![head[s]] = seq]
    BY <1>1
  <2> QED
    BY <1>1, <1>2, <1>3, <1>4, <1>6, <2>1, <2>2, <2>3, <2>4, <2>5, <2>6
<1> QED BY <1>5, <1>6

\* Nothing is pushed to, popped from or sent by a call that has not subscribed.
LEMMA NextStartsEmpty ==
  ASSUME RingInv, [Next]_vars
  PROVE  StartsEmpty'
<1> USE DEF StartsEmpty, ringVars, historyVars
<1>1. ASSUME NEW p \in Publishers, CheckActive(p) \/ publish(p) \/ wakeUp(p) \/ publishDone(p)
      PROVE  StartsEmpty'
  BY <1>1 DEF RingInv, CheckActive, publish, wakeUp, publishDone
<1>2. ASSUME NEW p \in Publishers, NEW s \in Subscribers, push(p, s)
      PROVE  StartsEmpty'
  <2>1. call[s] # "idle" /\ call' = call /\ sent' = sent /\ latest' = latest
    BY <1>2, PushFacts DEF push
  <2>2. \A t \in Subscribers : t # s => n'[t] = n[t] /\ dropped'[t] = dropped[t]
    BY <1>2 DEF push, RingInv, TypeOK
  <2> QED BY <2>1, <2>2 DEF RingInv
<1>3. ASSUME NEW s \in Subscribers, subscribe(s) \/ Refuse(s) \/ EndCall(s) \/ HandlerStep(s)
      PROVE  StartsEmpty'
  BY <1>3 DEF RingInv, TypeOK, subscribe, Refuse, EndCall, HandlerStep, takeToken,
              seeEnd, pop, Send, unsubscribe
<1>4. CASE UNCHANGED vars
  BY <1>4 DEF vars, RingInv
<1> QED
  BY <1>1, <1>2, <1>3, <1>4 DEF Next, PublisherStep

\* What one pop does to the ring of its subscriber.
LEMMA PopFacts ==
  ASSUME RingInv, NEW s \in Subscribers, pop(s), n[s] # 0
  PROVE  /\ n[s] \in 1..BufferSize
         /\ n' = [n EXCEPT ![s] = n[s] - 1]
         /\ head' = [head EXCEPT ![s] = (head[s] + 1) % BufferSize]
         /\ ring' = [ring EXCEPT ![s] = [ring[s] EXCEPT ![head[s]] = 0]]
         /\ call[s] = "drain"
         /\ call' = [call EXCEPT ![s] = "send"]
         /\ hand' = [hand EXCEPT ![s] = ring[s][head[s]]]
         /\ last' = last /\ latest' = latest /\ joined' = joined /\ sent' = sent
         /\ dropped' = dropped
         /\ ring[s][head[s]] = last[s] - n[s] + 1
<1>1. /\ BufferSize \in Nat \ {0}
      /\ n[s] \in 0..BufferSize
      /\ head[s] \in 0..(BufferSize - 1)
      /\ last[s] \in Nat
  BY SizesAssumption DEF RingInv, TypeOK, Slots
<1>2. ring[s][head[s]] = last[s] - n[s] + 1
  <2>1. 0 \in 0..(n[s] - 1)
    BY <1>1
  <2>2. ring[s][(head[s] + 0) % BufferSize] = last[s] - n[s] + 1 + 0
    BY <2>1 DEF RingInv, RingHoldsNewest
  <2>3. (head[s] + 0) % BufferSize = head[s]
    <3>1. head[s] \in Slots /\ 0 \in 0..BufferSize
      BY <1>1 DEF Slots
    <3>2. (head[s] + 0) % BufferSize = IF head[s] + 0 < BufferSize THEN head[s] + 0
                                       ELSE head[s] + 0 - BufferSize
      BY <3>1, RingIndex DEF At
    <3> QED BY <1>1, <3>2
  <2> QED BY <1>1, <2>2, <2>3
<1> QED
  BY <1>1, <1>2 DEF pop, historyVars

\* Decisions leave the ring in order.
LEMMA NextHandInOrder ==
  ASSUME RingInv, [Next]_vars
  PROVE  HandInOrder'
<1> USE DEF ringVars, historyVars
<1>1. ASSUME NEW p \in Publishers, CheckActive(p) \/ publish(p) \/ wakeUp(p) \/ publishDone(p)
      PROVE  HandInOrder'
  BY <1>1 DEF HandInOrder, RingInv, CheckActive, publish, wakeUp, publishDone
<1> SUFFICES ASSUME NEW t \in Subscribers
             PROVE  /\ latest'[t] <= last'[t] - n'[t]
                    /\ call'[t] = "send" => /\ latest'[t] < hand'[t]
                                            /\ hand'[t] <= last'[t] - n'[t]
  BY DEF HandInOrder
<1>2. /\ latest[t] \in Nat /\ last[t] \in Nat /\ n[t] \in Nat /\ hand[t] \in Nat
      /\ BufferSize \in Nat
  BY SizesAssumption DEF RingInv, TypeOK
<1>3. /\ latest[t] <= last[t] - n[t]
      /\ call[t] = "send" => latest[t] < hand[t] /\ hand[t] <= last[t] - n[t]
  BY DEF RingInv, HandInOrder
<1>4. ASSUME NEW p \in Publishers, NEW s \in Subscribers, push(p, s)
      PROVE  /\ latest'[t] <= last'[t] - n'[t]
             /\ call'[t] = "send" => latest'[t] < hand'[t] /\ hand'[t] <= last'[t] - n'[t]
  <2>1. latest' = latest /\ hand' = hand /\ call' = call
    BY <1>4 DEF push
  <2>2. last'[t] - n'[t] \in Int /\ last'[t] - n'[t] >= last[t] - n[t]
    <3>1. CASE t # s
      BY <1>2, <1>4, <3>1 DEF push, RingInv, TypeOK
    <3>2. CASE t = s
      <4>1. last'[t] = last[t] + 1
        BY <1>2, <1>4, <3>2, PushFacts DEF RingInv, TypeOK
      <4>2. n'[t] = n[t] \/ n'[t] = n[t] + 1
        BY <1>4, <3>2, PushFacts DEF RingInv, TypeOK
      <4> QED BY <1>2, <4>1, <4>2
    <3> QED BY <3>1, <3>2
  <2> QED BY <1>2, <1>3, <2>1, <2>2
<1>5. ASSUME NEW s \in Subscribers, subscribe(s)
      PROVE  /\ latest'[t] <= last'[t] - n'[t]
             /\ call'[t] = "send" => latest'[t] < hand'[t] /\ hand'[t] <= last'[t] - n'[t]
  <2>1. CASE t # s
    BY <1>3, <1>5, <2>1 DEF subscribe, RingInv, TypeOK
  <2>2. CASE t = s
    <3>1. latest[t] = 0 /\ n[t] = 0 /\ latest' = latest /\ n' = n
      BY <1>5, <2>2 DEF subscribe, RingInv, StartsEmpty
    <3>2. last'[t] = seq /\ seq \in Nat /\ call'[t] = "wait"
      BY <1>5, <2>2 DEF subscribe, RingInv, TypeOK
    <3> QED BY <3>1, <3>2
  <2> QED BY <2>1, <2>2
<1>6. ASSUME NEW s \in Subscribers,
             Refuse(s) \/ EndCall(s) \/ takeToken(s) \/ seeEnd(s) \/ unsubscribe(s)
      PROVE  /\ latest'[t] <= last'[t] - n'[t]
             /\ call'[t] = "send" => latest'[t] < hand'[t] /\ hand'[t] <= last'[t] - n'[t]
  BY <1>3, <1>6 DEF Refuse, EndCall, takeToken, seeEnd, unsubscribe, RingInv, TypeOK
<1>7. ASSUME NEW s \in Subscribers, pop(s)
      PROVE  /\ latest'[t] <= last'[t] - n'[t]
             /\ call'[t] = "send" => latest'[t] < hand'[t] /\ hand'[t] <= last'[t] - n'[t]
  <2>1. CASE n[s] = 0
    BY <1>3, <1>7, <2>1 DEF pop, RingInv, TypeOK
  <2>2. CASE n[s] # 0 /\ t # s
    BY <1>3, <1>7, <2>2 DEF pop, RingInv, TypeOK
  <2>3. CASE n[s] # 0 /\ t = s
    <3>1. /\ n'[t] = n[t] - 1
          /\ hand'[t] = last[t] - n[t] + 1
          /\ last' = last /\ latest' = latest
      BY <1>7, <2>3, PopFacts DEF RingInv, TypeOK
    <3> QED BY <1>2, <1>3, <3>1
  <2> QED BY <2>1, <2>2, <2>3
<1>8. ASSUME NEW s \in Subscribers, Send(s)
      PROVE  /\ latest'[t] <= last'[t] - n'[t]
             /\ call'[t] = "send" => latest'[t] < hand'[t] /\ hand'[t] <= last'[t] - n'[t]
  BY <1>2, <1>3, <1>8 DEF Send, RingInv, TypeOK
<1>9. CASE UNCHANGED vars
  BY <1>3, <1>9 DEF vars
<1> QED
  BY <1>1, <1>4, <1>5, <1>6, <1>7, <1>8, <1>9
     DEF Next, PublisherStep, HandlerStep, HandInOrder

\* The ring holds the newest decisions, in order.
LEMMA NextRingHoldsNewest ==
  ASSUME RingInv, [Next]_vars
  PROVE  RingHoldsNewest'
<1> USE DEF ringVars, historyVars
<1> DEFINE Holds(t) == Holding(ring'[t], head'[t], n'[t], last'[t])
<1>0. \A t \in Subscribers : Holding(ring[t], head[t], n[t], last[t])
  BY DEF RingInv, RingHoldsNewest, Holding, At
<1>1. ASSUME NEW t \in Subscribers, ring'[t] = ring[t], head'[t] = head[t],
             n'[t] = n[t], last'[t] = last[t]
      PROVE  Holds(t)
  BY <1>0, <1>1
<1>2. ASSUME NEW p \in Publishers, CheckActive(p) \/ publish(p) \/ wakeUp(p) \/ publishDone(p),
             NEW t \in Subscribers
      PROVE  Holds(t)
  <2>1. ring' = ring /\ head' = head /\ n' = n /\ last' = last
    BY <1>2 DEF CheckActive, publish, wakeUp, publishDone
  <2> QED BY <1>0, <2>1
<1>3. ASSUME NEW p \in Publishers, NEW s \in Subscribers, push(p, s), NEW t \in Subscribers
      PROVE  Holds(t)
  <2>1. CASE t # s
    <3>1. ring'[t] = ring[t] /\ head'[t] = head[t] /\ n'[t] = n[t] /\ last'[t] = last[t]
      BY <1>3, <2>1 DEF push, RingInv, TypeOK
    <3> QED BY <1>1, <3>1
  <2>2. CASE t = s
    <3>1. /\ BufferSize \in Nat \ {0}
          /\ n[s] \in 0..BufferSize
          /\ head[s] \in Slots
          /\ last[s] \in Nat
          /\ ring[s] \in [Slots -> Nat]
      BY SizesAssumption DEF RingInv, TypeOK
    <3>2. last[s] + 1 = seq /\ last'[s] = seq
      <4>1. last[s] = seq - 1 /\ seq \in Nat /\ last' = [last EXCEPT ![s] = seq]
        BY <1>3, PushFacts
      <4>2. last \in [Subscribers -> Nat]
        BY DEF RingInv, TypeOK
      <4> QED BY <4>1, <4>2
    <3>3. CASE n[s] < BufferSize
      <4>1. /\ n' = [n EXCEPT ![s] = n[s] + 1] /\ head' = head
            /\ ring' = [ring EXCEPT ![s] = [ring[s] EXCEPT ![At(head[s], n[s])] = seq]]
        BY <1>3, <3>1, <3>3, PushFacts DEF At
      <4>2. /\ n'[s] = n[s] + 1 /\ head'[s] = head[s]
            /\ ring'[s] = [ring[s] EXCEPT ![At(head[s], n[s])] = seq]
        BY <4>1 DEF RingInv, TypeOK
      <4>3. n[s] \in 0..(BufferSize - 1)
        BY <3>1, <3>3
      <4>4. Holding([ring[s] EXCEPT ![At(head[s], n[s])] = last[s] + 1],
                    head[s], n[s] + 1, last[s] + 1)
        BY <1>0, <3>1, <4>3, RingAppend
      <4> QED BY <2>2, <3>2, <4>2, <4>4
    <3>4. CASE n[s] = BufferSize
      <4>1. /\ n' = n /\ head' = [head EXCEPT ![s] = At(head[s], 1)]
            /\ ring' = [ring EXCEPT ![s] = [ring[s] EXCEPT ![head[s]] = seq]]
        BY <1>3, <3>1, <3>4, PushFacts DEF At
      <4>2. /\ n'[s] = BufferSize /\ head'[s] = At(head[s], 1)
            /\ ring'[s] = [ring[s] EXCEPT ![head[s]] = seq]
        BY <3>4, <4>1 DEF RingInv, TypeOK
      <4>3. Holding([ring[s] EXCEPT ![head[s]] = last[s] + 1], At(head[s], 1),
                    BufferSize, last[s] + 1)
        BY <1>0, <3>1, <3>4, RingOverwrite
      <4> QED BY <2>2, <3>2, <4>2, <4>3
    <3> QED BY <3>1, <3>3, <3>4
  <2> QED BY <2>1, <2>2
<1>4. ASSUME NEW s \in Subscribers, subscribe(s), NEW t \in Subscribers
      PROVE  Holds(t)
  <2>1. CASE t # s
    <3>1. ring'[t] = ring[t] /\ head'[t] = head[t] /\ n'[t] = n[t] /\ last'[t] = last[t]
      BY <1>4, <2>1 DEF subscribe, RingInv, TypeOK
    <3> QED BY <1>1, <3>1
  <2>2. CASE t = s
    <3>1. n'[t] = 0
      BY <1>4, <2>2 DEF subscribe, RingInv, StartsEmpty
    <3> QED BY <3>1 DEF Holding
  <2> QED BY <2>1, <2>2
<1>5. ASSUME NEW s \in Subscribers, NEW t \in Subscribers,
             Refuse(s) \/ EndCall(s) \/ takeToken(s) \/ seeEnd(s) \/ Send(s) \/ unsubscribe(s)
      PROVE  Holds(t)
  <2>1. ring' = ring /\ head' = head /\ n' = n /\ last' = last
    BY <1>5 DEF Refuse, EndCall, takeToken, seeEnd, Send, unsubscribe
  <2> QED BY <1>0, <2>1
<1>6. ASSUME NEW s \in Subscribers, pop(s), NEW t \in Subscribers
      PROVE  Holds(t)
  <2>1. CASE t # s \/ n[s] = 0
    <3>1. ring'[t] = ring[t] /\ head'[t] = head[t] /\ n'[t] = n[t] /\ last'[t] = last[t]
      BY <1>6, <2>1 DEF pop, RingInv, TypeOK
    <3> QED BY <1>1, <3>1
  <2>2. CASE t = s /\ n[s] # 0
    <3>1. /\ head[s] \in Slots /\ last[s] \in Nat /\ ring[s] \in [Slots -> Nat]
      BY DEF RingInv, TypeOK
    <3>2. /\ n[s] \in 1..BufferSize
          /\ n' = [n EXCEPT ![s] = n[s] - 1] /\ last' = last
          /\ head' = [head EXCEPT ![s] = At(head[s], 1)]
          /\ ring' = [ring EXCEPT ![s] = [ring[s] EXCEPT ![head[s]] = 0]]
      BY <1>6, <2>2, PopFacts DEF At
    <3>3. /\ n'[s] = n[s] - 1 /\ head'[s] = At(head[s], 1) /\ last'[s] = last[s]
          /\ ring'[s] = [ring[s] EXCEPT ![head[s]] = 0]
      BY <3>2 DEF RingInv, TypeOK
    <3>4. Holding([ring[s] EXCEPT ![head[s]] = 0], At(head[s], 1), n[s] - 1, last[s])
      BY <1>0, <3>1, <3>2, RingDropHead
    <3> QED BY <2>2, <3>3, <3>4
  <2> QED BY <2>1, <2>2
<1>7. CASE UNCHANGED vars
  <2>1. ring' = ring /\ head' = head /\ n' = n /\ last' = last
    BY <1>7 DEF vars
  <2> QED BY <2>1 DEF RingInv, RingHoldsNewest
<1>8. (\A t \in Subscribers : Holds(t)) => RingHoldsNewest'
  BY DEF Holding, At, RingHoldsNewest
<1> HIDE DEF Holds
<1> QED
  BY <1>2, <1>3, <1>4, <1>5, <1>6, <1>7, <1>8 DEF Next, PublisherStep, HandlerStep

\* Every decision pushed to a subscriber is accounted for.
LEMMA NextNothingUnaccounted ==
  ASSUME RingInv, [Next]_vars
  PROVE  NothingUnaccounted'
<1> USE DEF ringVars, historyVars
<1> DEFINE InHand(t) == IF call[t] = "send" THEN 1 ELSE 0
           Sum(t)    == last[t] - joined[t] = sent[t] + dropped[t] + n[t] + InHand(t)
<1> SUFFICES ASSUME NEW t \in Subscribers, call'[t] \in {"wait", "drain", "send"}
             PROVE  last'[t] - joined'[t] = sent'[t] + dropped'[t] + n'[t]
                                              + (IF call'[t] = "send" THEN 1 ELSE 0)
  BY DEF NothingUnaccounted
<1>1. /\ last[t] \in Nat /\ joined[t] \in Nat /\ sent[t] \in Nat
      /\ dropped[t] \in Nat /\ n[t] \in Nat
  BY SizesAssumption DEF RingInv, TypeOK
<1>2. call[t] \in {"wait", "drain", "send"} => Sum(t)
  BY DEF RingInv, NothingUnaccounted
<1>3. ASSUME NEW p \in Publishers, CheckActive(p) \/ publish(p) \/ wakeUp(p) \/ publishDone(p)
      PROVE  Sum(t)'
  BY <1>2, <1>3 DEF CheckActive, publish, wakeUp, publishDone
<1>4. ASSUME NEW p \in Publishers, NEW s \in Subscribers, push(p, s)
      PROVE  Sum(t)'
  <2>1. sent' = sent /\ joined' = joined /\ call' = call
    BY <1>4 DEF push
  <2>2. CASE t # s
    <3>1. n'[t] = n[t] /\ dropped'[t] = dropped[t] /\ last'[t] = last[t]
      BY <1>4, <2>2 DEF push, RingInv, TypeOK
    <3> QED BY <1>2, <2>1, <3>1
  <2>3. CASE t = s
    <3>1. last'[t] = last[t] + 1
      BY <1>1, <1>4, <2>3, PushFacts DEF RingInv, TypeOK
    <3>2. \/ n'[t] = n[t] + 1 /\ dropped'[t] = dropped[t]
          \/ n'[t] = n[t] /\ dropped'[t] = dropped[t] + 1
      BY <1>4, <2>3, PushFacts DEF RingInv, TypeOK
    <3>3. Sum(t)
      BY <1>2, <2>1
    <3> QED BY <1>1, <2>1, <3>1, <3>2, <3>3
  <2> QED BY <2>2, <2>3
<1>5. ASSUME NEW s \in Subscribers, subscribe(s) PROVE Sum(t)'
  <2>1. CASE t # s
    BY <1>2, <1>5, <2>1 DEF subscribe, RingInv, TypeOK
  <2>2. CASE t = s
    <3>1. n[t] = 0 /\ dropped[t] = 0 /\ sent[t] = 0
      BY <1>5, <2>2 DEF subscribe, RingInv, StartsEmpty
    <3>2. last'[t] = seq /\ joined'[t] = seq /\ call'[t] = "wait" /\ seq \in Nat
      BY <1>5, <2>2 DEF subscribe, RingInv, TypeOK
    <3> QED BY <1>5, <3>1, <3>2 DEF subscribe
  <2> QED BY <2>1, <2>2
<1>6. ASSUME NEW s \in Subscribers,
             Refuse(s) \/ EndCall(s) \/ takeToken(s) \/ seeEnd(s) \/ unsubscribe(s)
      PROVE  Sum(t)'
  BY <1>2, <1>6 DEF Refuse, EndCall, takeToken, seeEnd, unsubscribe, RingInv, TypeOK
<1>7. ASSUME NEW s \in Subscribers, pop(s) PROVE Sum(t)'
  <2>1. CASE n[s] = 0
    BY <1>2, <1>7, <2>1 DEF pop, RingInv, TypeOK
  <2>2. CASE n[s] # 0 /\ t # s
    BY <1>2, <1>7, <2>2 DEF pop, RingInv, TypeOK
  <2>3. CASE n[s] # 0 /\ t = s
    <3>1. /\ n'[t] = n[t] - 1 /\ call[t] = "drain" /\ call'[t] = "send"
          /\ last' = last /\ joined' = joined /\ sent' = sent /\ dropped' = dropped
      BY <1>7, <2>3, PopFacts DEF RingInv, TypeOK
    <3> QED BY <1>1, <1>2, <3>1
  <2> QED BY <2>1, <2>2, <2>3
<1>8. ASSUME NEW s \in Subscribers, Send(s) PROVE Sum(t)'
  <2>1. CASE t # s \/ ended[s]
    BY <1>2, <1>8, <2>1 DEF Send, RingInv, TypeOK
  <2>2. CASE t = s /\ ~ended[s]
    <3>1. /\ sent'[t] = sent[t] + 1 /\ call[t] = "send" /\ call'[t] = "drain"
          /\ last' = last /\ joined' = joined /\ n' = n /\ dropped' = dropped
      BY <1>8, <2>2 DEF Send, RingInv, TypeOK
    <3> QED BY <1>1, <1>2, <3>1
  <2> QED BY <2>1, <2>2
<1>9. CASE UNCHANGED vars
  BY <1>2, <1>9 DEF vars
<1> QED
  BY <1>3, <1>4, <1>5, <1>6, <1>7, <1>8, <1>9 DEF Next, PublisherStep, HandlerStep

\* RingInv holds at the start, and every step keeps it.
LEMMA InitRingInv == Init => RingInv
<1> SUFFICES ASSUME Init PROVE RingInv
  OBVIOUS
<1>1. TypeOK
  BY InitTypeOK
<1>2. LockDiscipline /\ SubsAreActive /\ UpToDate /\ StartsEmpty /\ HandInOrder
  BY DEF Init, Quiet, LockDiscipline, SubsAreActive, UpToDate, StartsEmpty, HandInOrder
<1>3. RingHoldsNewest /\ NothingUnaccounted
  BY DEF Init, RingHoldsNewest, NothingUnaccounted
<1> QED BY <1>1, <1>2, <1>3 DEF RingInv

LEMMA NextRingInv == RingInv /\ [Next]_vars => RingInv'
<1> SUFFICES ASSUME RingInv, [Next]_vars PROVE RingInv'
  OBVIOUS
<1>1. TypeOK' /\ LockDiscipline'
  BY NextTypeOK, NextLockDiscipline DEF RingInv
<1>2. SubsAreActive' /\ UpToDate' /\ StartsEmpty'
  BY NextSubsAreActive, NextUpToDate, NextStartsEmpty
<1>3. HandInOrder' /\ RingHoldsNewest' /\ NothingUnaccounted'
  BY NextHandInOrder, NextRingHoldsNewest, NextNothingUnaccounted
<1> QED BY <1>1, <1>2, <1>3 DEF RingInv

LEMMA RingInvHolds == Spec => []RingInv
BY InitRingInv, NextRingInv, PTL DEF Spec

\* The ring of watch.go: whatever its size and however publishers, slow readers
\* and reconnects interleave, it holds the newest decisions in order.
THEOREM RingCorrect == Spec => []RingHoldsNewest
<1>1. RingInv => RingHoldsNewest
  BY DEF RingInv
<1> QED BY <1>1, RingInvHolds, PTL

\* No decision pushed to a connected subscriber is lost without being counted.
THEOREM Accounted == Spec => []NothingUnaccounted
<1>1. RingInv => NothingUnaccounted
  BY DEF RingInv
<1> QED BY <1>1, RingInvHolds, PTL

\* A step that changes what a subscriber was sent last sends something newer.
LEMMA StepInOrder ==
  ASSUME RingInv, [Next]_vars, NEW s \in Subscribers, latest'[s] # latest[s]
  PROVE  latest'[s] > latest[s]
<1> USE DEF ringVars, historyVars
<1>1. latest[s] \in Nat /\ hand[s] \in Nat
  BY DEF RingInv, TypeOK
<1>2. ASSUME NEW p \in Publishers, CheckActive(p) \/ PublisherStep(p)
      PROVE  latest' = latest
  BY <1>2 DEF CheckActive, PublisherStep, publish, push, wakeUp, publishDone
<1>3. ASSUME NEW t \in Subscribers, subscribe(t) \/ Refuse(t) \/ EndCall(t)
      PROVE  latest' = latest
  BY <1>3 DEF subscribe, Refuse, EndCall
<1>4. ASSUME NEW t \in Subscribers, takeToken(t) \/ seeEnd(t) \/ pop(t) \/ unsubscribe(t)
      PROVE  latest' = latest
  BY <1>4 DEF takeToken, seeEnd, pop, unsubscribe
<1>5. ASSUME NEW t \in Subscribers, Send(t) PROVE latest'[s] > latest[s]
  <2>1. t = s /\ latest'[s] = hand[s] /\ call[s] = "send"
    BY <1>5 DEF Send, RingInv, TypeOK
  <2>2. latest[s] < hand[s]
    BY <2>1 DEF RingInv, HandInOrder
  <2> QED BY <1>1, <2>1, <2>2
<1>6. CASE UNCHANGED vars
  BY <1>6 DEF vars
<1> QED
  BY <1>2, <1>3, <1>4, <1>5, <1>6 DEF Next, HandlerStep

\* A subscriber is never sent an older decision after a newer one, whatever the
\* ring dropped in between.
THEOREM InOrder == Spec => SentInOrder
<1>1. RingInv /\ [Next]_vars
        => [\A s \in Subscribers : latest'[s] # latest[s] => latest'[s] > latest[s]]_vars
  BY StepInOrder
<1> QED BY <1>1, RingInvHolds, PTL DEF Spec, SentInOrder

-----------------------------------------------------------------------------
(***************************************************************************)
(* Wake-ups.  RingInv supplies two facts: a publisher that takes the lock  *)
(* owes no wake-up, and a new subscriber starts with an empty ring.        *)
(***************************************************************************)

\* No step strands a decision in the ring of a waiting handler.
LEMMA NextNoLostWakeup ==
  ASSUME RingInv, NoLostWakeup, [Next]_vars
  PROVE  NoLostWakeup'
<1> USE DEF RingInv, TypeOK, NoLostWakeup, ringVars, historyVars
<1>1. ASSUME NEW p \in Publishers, CheckActive(p) PROVE NoLostWakeup'
  BY <1>1 DEF CheckActive
<1>2. ASSUME NEW p \in Publishers, publish(p) PROVE NoLostWakeup'
  BY <1>2 DEF publish, LockDiscipline
<1>3. ASSUME NEW p \in Publishers, NEW s \in Subscribers, push(p, s)
      PROVE  NoLostWakeup'
  <2> SUFFICES ASSUME NEW t \in Subscribers, call'[t] = "wait", n'[t] > 0
               PROVE  notify'[t] \/ \E q \in Publishers : t \in pub'[q].wake
    BY DEF NoLostWakeup
  <2>1. notify' = notify /\ call' = call /\ pub[p].wake = {} /\ pub'[p].wake = {s}
        /\ \A q \in Publishers : q # p => pub'[q] = pub[q]
    BY <1>3 DEF push
  <2>2. CASE t = s
    BY <2>1, <2>2
  <2>3. CASE t # s
    <3>1. n'[t] = n[t]
      BY <1>3, <2>3 DEF push
    <3>2. notify[t] \/ \E q \in Publishers : t \in pub[q].wake
      BY <2>1, <3>1
    <3> QED BY <2>1, <3>2
  <2> QED BY <2>2, <2>3
<1>4. ASSUME NEW p \in Publishers, wakeUp(p) PROVE NoLostWakeup'
  BY <1>4 DEF wakeUp
<1>5. ASSUME NEW p \in Publishers, publishDone(p) PROVE NoLostWakeup'
  BY <1>5 DEF publishDone
<1>6. ASSUME NEW s \in Subscribers, subscribe(s) PROVE NoLostWakeup'
  BY <1>6 DEF subscribe, StartsEmpty
<1>7. ASSUME NEW s \in Subscribers, Refuse(s) \/ EndCall(s) PROVE NoLostWakeup'
  BY <1>7 DEF Refuse, EndCall
<1>8. ASSUME NEW s \in Subscribers, HandlerStep(s) PROVE NoLostWakeup'
  BY <1>8 DEF HandlerStep, takeToken, seeEnd, pop, Send, unsubscribe
<1>9. CASE UNCHANGED vars
  BY <1>9 DEF vars
<1> QED
  BY <1>1, <1>2, <1>3, <1>4, <1>5, <1>6, <1>7, <1>8, <1>9 DEF Next, PublisherStep

\* No lost wake-up, for any number of publishers and subscribers: a handler
\* never sleeps on a ring that holds a decision unless a wake-up is due.
THEOREM NoWakeupLost == Spec => []NoLostWakeup
<1>1. Init => NoLostWakeup
  BY DEF Init, NoLostWakeup
<1>2. RingInv /\ NoLostWakeup /\ [Next]_vars => NoLostWakeup'
  BY NextNoLostWakeup
<1> QED BY <1>1, <1>2, RingInvHolds, PTL DEF Spec

-----------------------------------------------------------------------------
(***************************************************************************)
(* The bound on subscribers, which needs no assumption on Subscribers: the *)
(* set grows by one element at a time.                                     *)
(***************************************************************************)

\* hub.subs is finite and within -watch-max-subscribers.
WithinBound == IsFiniteSet(subs) /\ Cardinality(subs) <= MaxSubscribers

\* No step takes hub.subs past the bound.
LEMMA NextWithinBound ==
  ASSUME WithinBound, [Next]_vars
  PROVE  WithinBound'
<1> USE SizesAssumption DEF WithinBound
<1>1. Cardinality(subs) \in Nat
  BY FS_CardinalityType
<1>2. ASSUME NEW s \in Subscribers, subscribe(s) PROVE WithinBound'
  <2>1. subs' = subs \cup {s} /\ Cardinality(subs) < MaxSubscribers
    BY <1>2 DEF subscribe
  <2>2. /\ IsFiniteSet(subs')
        /\ Cardinality(subs') = Cardinality(subs) \/ Cardinality(subs') = Cardinality(subs) + 1
    BY <2>1, FS_AddElement
  <2> QED BY <1>1, <2>1, <2>2
<1>3. ASSUME NEW s \in Subscribers, unsubscribe(s) PROVE WithinBound'
  <2>1. subs' = subs \ {s}
    BY <1>3 DEF unsubscribe
  <2>2. /\ IsFiniteSet(subs')
        /\ Cardinality(subs') = Cardinality(subs) \/ Cardinality(subs') = Cardinality(subs) - 1
    BY <2>1, FS_RemoveElement
  <2> QED BY <1>1, <2>2
<1>4. CASE UNCHANGED subs
  BY <1>4
<1>5. ASSUME NEW p \in Publishers, CheckActive(p) \/ PublisherStep(p) PROVE UNCHANGED subs
  BY <1>5 DEF CheckActive, PublisherStep, publish, push, wakeUp, publishDone
<1>6. ASSUME NEW s \in Subscribers, Refuse(s) \/ EndCall(s) PROVE UNCHANGED subs
  BY <1>6 DEF Refuse, EndCall
<1>7. ASSUME NEW s \in Subscribers, HandlerStep(s) PROVE UNCHANGED subs \/ unsubscribe(s)
  BY <1>7 DEF HandlerStep, takeToken, seeEnd, pop, Send
<1>8. CASE UNCHANGED vars
  BY <1>4, <1>8 DEF vars
<1> QED BY <1>2, <1>3, <1>4, <1>5, <1>6, <1>7, <1>8 DEF Next

\* -watch-max-subscribers bounds the rings that are alive, those of callers that
\* have not yet unsubscribed included (subscribe, unsubscribe).
THEOREM Bounded == Spec => []SubscribersBounded
<1>1. Init => WithinBound
  BY SizesAssumption, FS_EmptySet DEF Init, WithinBound
<1>2. WithinBound /\ [Next]_vars => WithinBound'
  BY NextWithinBound
<1>3. WithinBound /\ RingInv => SubscribersBounded
  BY DEF WithinBound, RingInv, SubsAreActive, SubscribersBounded
<1> QED BY <1>1, <1>2, <1>3, RingInvHolds, PTL DEF Spec

\* All that a subscriber of the decision feed can rely on, for any number of
\* publishers, subscribers and slots (publish, push, pop, WatchDecisions).
THEOREM FeedIsCorrect == Spec => FeedCorrect
BY TypeCorrect, Bounded, RingCorrect, Accounted, InOrder, NoWakeupLost, PTL DEF FeedCorrect

-----------------------------------------------------------------------------
\* A set of numbers that is not empty has a least one.
LEMMA LeastOf ==
  ASSUME NEW S \in SUBSET Nat, S # {}
  PROVE  \E d \in S : \A e \in S : d <= e
<1>1. PICK d \in S : \A e \in S : ~(<<e, d>> \in OpToRel(<, Nat))
  BY WFMin, NatLessThanWellFounded
<1>2. \A e \in S : d <= e
  <2> SUFFICES ASSUME NEW e \in S, e < d PROVE FALSE
    OBVIOUS
  <2> QED BY <1>1 DEF OpToRel
<1> QED BY <1>2

-----------------------------------------------------------------------------
(***************************************************************************)
(* The client CA bundle: what is loaded is what the file held when it was  *)
(* last looked at, and a connection it revokes is not forgotten.           *)
(***************************************************************************)

\* What is loaded, and what a reader has in hand.
CtSourceOk ==
  /\ ctFile \in [there : BOOLEAN, stamp : Nat, cas : CtBundles]
  /\ \E p : ctSource = [stamp |-> ctSource.stamp, pool |-> p]
  /\ ctSource.stamp \in Nat /\ ctSource.stamp <= ctFile.stamp /\ ctSource.pool.cas # {}
  /\ CtLoadedIsFile
  /\ ctReader.pc = "store" /\ ctFile.there /\ ctSource.stamp = ctFile.stamp => ctReader.data = ctFile.cas

\* Who reads is waiting for the source.
CtReaderOk ==
  \/ ctReader = mutexFree
  \/ /\ ctReader.pc \in {"read", "store"}
     /\ ctReader.who \in CtConns \cup {sweeper} /\ asksSource(ctReader.who)

\* The pools in use, by the sweeper and by the connections.
CtPoolsOk ==
  /\ ctChecked.cas # {}
  /\ ctSweep.pc \in {"idle", "get", "compare", "close"}
  /\ ctSweep.pc = "compare" => ctSweep.pool.cas # {}
  /\ ctSweep.pc = "close" =>
       /\ ctSweep = [pc |-> "close", pool |-> ctSweep.pool, closing |-> ctSweep.closing]
       /\ \A c \in ctSweep.closing : c \in CtConns /\ ctConn[c].pc = "open"
  /\ ctConn = [c \in CtConns |-> ctConn[c]]
  /\ \A c \in CtConns : ctConn[c].pc \in {"verify", "register", "open"} =>
       ctConn[c].pool.cas # {} /\ ctConn[c] = [pc |-> ctConn[c].pc, pool |-> ctConn[c].pool]

CtInv == CtSourceOk /\ CtReaderOk /\ CtPoolsOk

CtStays(c) == revoked(c) => revoked(c)' \/ ctConn'[c].pc # "open"

LEMMA TrustInitial == ClientTrustInit => CtInv
<1> SUFFICES ASSUME ClientTrustInit PROVE CtInv
  OBVIOUS
<1>1. CtSourceOk
  <2>1. /\ ctFile = [there |-> TRUE, stamp |-> 0, cas |-> CtFirst]
        /\ \E p : ctSource = [stamp |-> 0, pool |-> p] /\ p.cas = CtFirst
        /\ ctReader.pc = "free"
    BY DEF ClientTrustInit, mutexFree
  <2>2. PICK p : ctSource = [stamp |-> 0, pool |-> p] /\ p.cas = CtFirst
    BY <2>1
  <2>3. /\ ctSource.stamp = 0 /\ ctSource.pool = p
        /\ ctFile.stamp = 0 /\ ctFile.cas = CtFirst
        /\ ctFile \in [there : BOOLEAN, stamp : Nat, cas : CtBundles]
    BY <2>1, <2>2, CtAssumption
  <2>4. \E q : ctSource = [stamp |-> ctSource.stamp, pool |-> q]
    BY <2>2
  <2>5. CtLoadedIsFile
    BY <2>2, <2>3 DEF CtLoadedIsFile
  <2>6. p.cas # {}
    BY <2>2, CtAssumption
  <2> QED BY <2>1, <2>3, <2>4, <2>5, <2>6 DEF CtSourceOk
<1>2. CtReaderOk
  BY DEF ClientTrustInit, CtReaderOk
<1>3. CtPoolsOk
  BY CtAssumption DEF ClientTrustInit, CtPoolsOk, sweepIdle, ctAway
<1> QED BY <1>1, <1>2, <1>3 DEF CtInv

\* The operator: a written file is another one, and a settled one stays.
LEMMA FileMoves ==
  ASSUME CtInv, (\E b \in CtBundles : rewriteFile(b)) \/ removeFile
  PROVE  CtInv' /\ \A c \in CtConns : CtStays(c)
<1>1. UNCHANGED <<ctSource, ctReader, ctConn, ctChecked, ctSweep>>
  BY DEF rewriteFile, removeFile
<1>2. ASSUME \E b \in CtBundles : rewriteFile(b) PROVE CtInv'
  <2>1. PICK b \in CtBundles : rewriteFile(b)
    BY <1>2
  <2>2. ctFile' = [there |-> TRUE, stamp |-> ctFile.stamp + 1, cas |-> b]
    BY <2>1 DEF rewriteFile
  <2>3. ctFile.stamp \in Nat /\ ctSource.stamp \in Nat /\ ctSource.stamp <= ctFile.stamp
    BY DEF CtInv, CtSourceOk
  <2>4. ctFile'.stamp = ctFile.stamp + 1 /\ ctSource'.stamp # ctFile'.stamp /\ ctSource'.stamp <= ctFile'.stamp
    BY <1>1, <2>2, <2>3
  <2>5. ctFile' \in [there : BOOLEAN, stamp : Nat, cas : CtBundles]
    BY <2>2, <2>3
  <2>6. CtSourceOk'
    BY <1>1, <2>4, <2>5 DEF CtInv, CtSourceOk, CtLoadedIsFile
  <2> QED BY <1>1, <2>6 DEF CtInv, CtReaderOk, CtPoolsOk, asksSource
<1>3. ASSUME removeFile PROVE CtInv'
  <2>1. ctFile' = [ctFile EXCEPT !.there = FALSE] /\ ctFile \in [there : BOOLEAN, stamp : Nat, cas : CtBundles]
    BY <1>3 DEF removeFile, CtInv, CtSourceOk
  <2>2. /\ ctFile' \in [there : BOOLEAN, stamp : Nat, cas : CtBundles]
        /\ ctFile'.there = FALSE /\ ctFile'.stamp = ctFile.stamp
    BY <2>1
  <2>3. CtSourceOk'
    BY <1>1, <2>2 DEF CtInv, CtSourceOk, CtLoadedIsFile
  <2> QED BY <1>1, <2>3 DEF CtInv, CtReaderOk, CtPoolsOk, asksSource
<1>4. ASSUME NEW c \in CtConns PROVE CtStays(c)
  <2>1. ~fileSettled
    <3>1. ctFile.stamp < CtMaxWrites /\ ctFile.stamp \in Nat
      BY DEF rewriteFile, removeFile, CtInv, CtSourceOk
    <3> QED BY <3>1 DEF fileSettled
  <2> QED BY <2>1 DEF CtStays, revoked
<1> QED BY <1>2, <1>3, <1>4

\* A caller is handed a pool: it was asking, and nobody else moves.
LEMMA HandedKeeps ==
  ASSUME CtInv, NEW w \in CtConns \cup {sweeper}, asksSource(w), NEW pool, pool.cas # {},
         handed(w, pool), UNCHANGED <<ctFile, ctChecked>>
  PROVE  CtPoolsOk' /\ \A c \in CtConns : CtStays(c)
<1>1. CASE w = sweeper
  <2>1. ctSweep' = [pc |-> "compare", pool |-> pool] /\ ctConn' = ctConn /\ ctSweep.pc = "get"
    BY <1>1 DEF handed, asksSource
  <2>2. CtPoolsOk'
    BY <2>1 DEF CtInv, CtPoolsOk
  <2>3. \A c \in CtConns : CtStays(c)
    BY <2>1 DEF CtStays, revoked, fileSettled
  <2> QED BY <2>2, <2>3
<1>2. CASE w # sweeper
  <2>1. /\ w \in CtConns /\ ctConn[w].pc = "get" /\ ctSweep' = ctSweep
        /\ ctConn' = [ctConn EXCEPT ![w] = [pc |-> "verify", pool |-> pool]]
    BY <1>2 DEF handed, asksSource
  <2>2. /\ ctConn' = [c \in CtConns |-> ctConn'[c]]
        /\ ctConn'[w] = [pc |-> "verify", pool |-> pool]
        /\ \A c \in CtConns : c # w => ctConn'[c] = ctConn[c]
    BY <2>1 DEF CtInv, CtPoolsOk
  <2>3. CtPoolsOk'
    BY <2>1, <2>2 DEF CtInv, CtPoolsOk
  <2>4. ASSUME NEW c \in CtConns PROVE CtStays(c)
    <3>1. CASE c = w
      BY <2>1, <3>1 DEF CtStays, revoked
    <3>2. CASE c # w
      BY <2>1, <2>2, <3>2 DEF CtStays, revoked, fileSettled
    <3> QED BY <3>1, <3>2
  <2> QED BY <2>3, <2>4
<1> QED BY <1>1, <1>2

\* A read of the bundle, from the stat to the store.
LEMMA SourceMoves ==
  ASSUME CtInv, NEW w \in CtConns \cup {sweeper},
         statSource(w) \/ readSource(w) \/ storeSource(w)
  PROVE  CtInv' /\ \A c \in CtConns : CtStays(c)
<1>0. PICK s, p : ctSource = [stamp |-> s, pool |-> p]
  BY DEF CtInv, CtSourceOk
<1>1. CASE statSource(w) /\ unchangedFile
  <2>1. /\ asksSource(w) /\ ctReader = mutexFree /\ handed(w, ctSource.pool)
        /\ UNCHANGED <<ctFile, ctChecked, ctSource, ctReader>>
    BY <1>1 DEF statSource
  <2>2. ctSource.pool.cas # {}
    BY DEF CtInv, CtSourceOk
  <2>3. CtPoolsOk' /\ \A c \in CtConns : CtStays(c)
    BY <2>1, <2>2, HandedKeeps
  <2>4. CtSourceOk' /\ CtReaderOk'
    BY <2>1 DEF CtInv, CtSourceOk, CtLoadedIsFile, CtReaderOk
  <2> QED BY <2>3, <2>4 DEF CtInv
<1>2. CASE statSource(w) /\ ~unchangedFile
  <2>1. /\ asksSource(w) /\ ctSource' = [ctSource EXCEPT !.stamp = ctFile.stamp]
        /\ ctReader' = [pc |-> "read", who |-> w]
        /\ UNCHANGED <<ctConn, ctSweep, ctFile, ctChecked>>
    BY <1>2 DEF statSource
  <2>2. ctSource' = [stamp |-> ctFile.stamp, pool |-> p] /\ ctFile.stamp \in Nat /\ p.cas # {}
    BY <1>0, <2>1 DEF CtInv, CtSourceOk
  <2>3. ctReader'.pc = "read" /\ ctReader'.who = w /\ ctReader' # mutexFree
    BY <2>1 DEF mutexFree
  <2>4. CtSourceOk'
    <3>1. \E q : ctSource' = [stamp |-> ctSource'.stamp, pool |-> q]
      BY <2>2
    <3>2. ctSource'.stamp = ctFile.stamp /\ ctSource'.pool = p
      BY <2>2
    <3>3. CtLoadedIsFile' /\ ctReader'.pc # "store"
      BY <2>3 DEF CtLoadedIsFile
    <3>4. ctFile' = ctFile /\ ctFile.stamp <= ctFile.stamp
      BY <2>1, <2>2
    <3> QED BY <2>2, <3>1, <3>2, <3>3, <3>4 DEF CtInv, CtSourceOk
  <2>5. CtReaderOk'
    BY <2>1, <2>3 DEF CtReaderOk, asksSource
  <2>6. CtPoolsOk' /\ \A c \in CtConns : CtStays(c)
    BY <2>1 DEF CtInv, CtPoolsOk, CtStays, revoked, fileSettled
  <2> QED BY <2>4, <2>5, <2>6 DEF CtInv
<1>3. CASE readSource(w)
  <2>1. /\ ctReader.pc = "read" /\ ctReader.who = w
        /\ ctReader' = [pc |-> "store", who |-> w, data |-> IF ctFile.there THEN ctFile.cas ELSE {}]
        /\ UNCHANGED <<ctFile, ctSource, ctConn, ctChecked, ctSweep>>
    BY <1>3 DEF readSource
  <2>2. /\ ctReader'.pc = "store" /\ ctReader'.who = w /\ ctReader' # mutexFree
        /\ ctFile.there => ctReader'.data = ctFile.cas
    BY <2>1 DEF mutexFree
  <2>3. asksSource(w)
    BY <2>1 DEF CtInv, CtReaderOk, mutexFree
  <2>4. CtSourceOk'
    BY <2>1, <2>2 DEF CtInv, CtSourceOk, CtLoadedIsFile
  <2>5. CtReaderOk'
    BY <2>1, <2>2, <2>3 DEF CtReaderOk, asksSource
  <2>6. CtPoolsOk' /\ \A c \in CtConns : CtStays(c)
    BY <2>1 DEF CtInv, CtPoolsOk, CtStays, revoked, fileSettled
  <2> QED BY <2>4, <2>5, <2>6 DEF CtInv
<1>4. CASE storeSource(w)
  <2>1. PICK pool : pool = reloaded
    OBVIOUS
  <2>2. /\ ctReader.pc = "store" /\ ctReader.who = w
        /\ ctSource' = [stamp |-> s, pool |-> pool] /\ handed(w, pool)
        /\ ctReader' = mutexFree /\ UNCHANGED <<ctFile, ctChecked>>
    BY <1>0, <1>4, <2>1 DEF storeSource, stampKept
  <2>3. asksSource(w)
    BY <2>2 DEF CtInv, CtReaderOk, mutexFree
  <2>4. pool.cas # {}
    BY <2>1 DEF reloaded, CtInv, CtSourceOk
  <2>5. CtPoolsOk' /\ \A c \in CtConns : CtStays(c)
    BY <2>2, <2>3, <2>4, HandedKeeps
  <2>6. ctFile.there /\ ctFile.cas # {} /\ s = ctFile.stamp => pool.cas = ctFile.cas
    BY <1>0, <2>1, <2>2 DEF reloaded, CtInv, CtSourceOk
  <2>7. CtSourceOk'
    <3>1. ctSource'.stamp = s /\ ctSource'.pool = pool /\ ctReader'.pc # "store"
      BY <2>2 DEF mutexFree
    <3>2. \E q : ctSource' = [stamp |-> ctSource'.stamp, pool |-> q]
      BY <2>2
    <3>3. s <= ctFile.stamp
      BY <1>0 DEF CtInv, CtSourceOk
    <3>4. CtLoadedIsFile'
      BY <2>2, <2>6, <3>1 DEF CtLoadedIsFile
    <3>5. ctFile' = ctFile /\ s \in Nat
      BY <1>0, <2>2 DEF CtInv, CtSourceOk
    <3> QED BY <2>4, <3>1, <3>2, <3>3, <3>4, <3>5 DEF CtInv, CtSourceOk
  <2>8. CtReaderOk'
    BY <2>2 DEF CtReaderOk
  <2> QED BY <2>5, <2>7, <2>8 DEF CtInv
<1> QED BY <1>1, <1>2, <1>3, <1>4

\* A reader's state is its own: other goroutines do not move it.
LEMMA ReaderStays ==
  ASSUME CtInv, UNCHANGED <<ctFile, ctSource, ctReader>>,
         \A c \in CtConns : ctConn[c].pc = "get" => ctConn'[c].pc = "get",
         ctSweep.pc = "get" => ctSweep'.pc = "get"
  PROVE  CtSourceOk' /\ CtReaderOk'
<1>1. CtSourceOk'
  BY DEF CtInv, CtSourceOk, CtLoadedIsFile
<1>2. CtReaderOk'
  BY DEF CtInv, CtReaderOk, asksSource
<1> QED BY <1>1, <1>2

\* The steps of a connection that do not read the bundle.
LEMMA ConnectionMoves ==
  ASSUME CtInv, NEW c \in CtConns,
         connect(c) \/ verifyClient(c) \/ register(c) \/ clientCloses(c)
  PROVE  CtInv' /\ \A d \in CtConns : CtStays(d)
<1>1. PICK v : ctConn' = [ctConn EXCEPT ![c] = v]
  BY DEF connect, verifyClient, register, clientCloses
<1>2. /\ ctConn' = [d \in CtConns |-> ctConn'[d]] /\ ctConn'[c] = v
      /\ \A d \in CtConns : d # c => ctConn'[d] = ctConn[d]
  BY <1>1 DEF CtInv, CtPoolsOk
<1>3. /\ v.pc \in {"verify", "register", "open"} => v.pool.cas # {} /\ v = [pc |-> v.pc, pool |-> v.pool]
      /\ ctConn[c].pc # "get"
      /\ ctConn[c].pc = "open" => v.pc # "open"
  <2>1. CASE connect(c)
    <3>1. ctConn'[c] = [pc |-> "get"] /\ ctConn[c].pc = "away"
      BY <2>1, <1>2 DEF connect, CtInv, CtPoolsOk
    <3> QED BY <1>2, <3>1
  <2>2. CASE verifyClient(c)
    <3>1. /\ ctConn[c].pc = "verify" /\ ctConn[c].pool.cas # {}
          /\ ctConn'[c] = IF verifies(c, ctConn[c].pool) THEN [pc |-> "register", pool |-> ctConn[c].pool] ELSE ctAway
      BY <2>2, <1>2 DEF verifyClient, CtInv, CtPoolsOk
    <3> QED BY <1>2, <3>1 DEF ctAway
  <2>3. CASE register(c)
    <3>1. /\ ctConn[c].pc = "register" /\ ctConn[c].pool.cas # {} /\ ctSource.pool.cas # {}
          /\ ctConn'[c] = IF ctSource.pool = ctChecked THEN [pc |-> "open", pool |-> ctConn[c].pool]
               ELSE IF verifies(c, ctSource.pool) THEN [pc |-> "open", pool |-> ctSource.pool]
               ELSE ctAway
      BY <2>3, <1>2 DEF register, CtInv, CtPoolsOk, CtSourceOk
    <3> QED BY <1>2, <3>1 DEF ctAway
  <2>4. CASE clientCloses(c)
    <3>1. ctConn'[c] = ctAway /\ ctConn[c].pc = "open"
      BY <2>4, <1>2 DEF clientCloses, CtInv, CtPoolsOk
    <3> QED BY <1>2, <3>1 DEF ctAway
  <2> QED BY <2>1, <2>2, <2>3, <2>4
<1>4. /\ UNCHANGED <<ctFile, ctSource, ctReader, ctChecked>>
      /\ \/ ctSweep' = ctSweep /\ (ctConn[c].pc = "open" => ctSweep.pc # "close")
         \/ /\ ctSweep.pc = "close"
            /\ ctSweep' = [pc |-> "close", pool |-> ctSweep.pool, closing |-> ctSweep.closing \ {c}]
  <2>1. CASE clientCloses(c) /\ ctSweep.pc = "close"
    <3>1. /\ UNCHANGED <<ctFile, ctSource, ctReader, ctChecked>>
          /\ ctSweep' = [ctSweep EXCEPT !.closing = @ \ {c}]
      BY <2>1 DEF clientCloses
    <3>2. ctSweep = [pc |-> "close", pool |-> ctSweep.pool, closing |-> ctSweep.closing]
      BY <2>1 DEF CtInv, CtPoolsOk
    <3> QED BY <2>1, <3>1, <3>2
  <2>2. CASE ~(clientCloses(c) /\ ctSweep.pc = "close")
    BY <2>2 DEF connect, verifyClient, register, clientCloses
  <2> QED BY <2>1, <2>2
<1>5. CtPoolsOk'
  BY <1>2, <1>3, <1>4 DEF CtInv, CtPoolsOk
<1>6. CtSourceOk' /\ CtReaderOk'
  <2>1. \A d \in CtConns : ctConn[d].pc = "get" => ctConn'[d].pc = "get"
    BY <1>2, <1>3
  <2>2. ctSweep.pc = "get" => ctSweep'.pc = "get"
    BY <1>4
  <2> QED BY <1>4, <2>1, <2>2, ReaderStays
<1>7. ASSUME NEW d \in CtConns PROVE CtStays(d)
  <2>1. CASE d = c
    BY <1>2, <1>3, <2>1 DEF CtStays, revoked
  <2>2. CASE d # c
    BY <1>2, <1>4, <2>2 DEF CtStays, revoked, fileSettled
  <2> QED BY <2>1, <2>2
<1> QED BY <1>5, <1>6, <1>7 DEF CtInv

\* The sweeper's steps that do not read the bundle.
LEMMA SweeperMoves ==
  ASSUME CtInv, sweepTick \/ sweepCompare \/ sweepClose
  PROVE  CtInv' /\ \A c \in CtConns : CtStays(c)
<1>0. UNCHANGED <<ctFile, ctSource, ctReader>>
  BY DEF sweepTick, sweepCompare, sweepClose
<1>1. CASE sweepTick
  <2>1. ctSweep.pc = "idle" /\ ctSweep' = [pc |-> "get"] /\ UNCHANGED <<ctConn, ctChecked>>
    BY <1>1 DEF sweepTick
  <2>2. CtPoolsOk' /\ \A c \in CtConns : CtStays(c)
    BY <1>0, <2>1 DEF CtInv, CtPoolsOk, CtStays, revoked, fileSettled
  <2>3. CtSourceOk' /\ CtReaderOk'
    BY <1>0, <2>1, ReaderStays
  <2> QED BY <2>2, <2>3 DEF CtInv
<1>2. CASE sweepCompare /\ ctSweep.pool = ctChecked
  <2>1. ctSweep.pc = "compare" /\ ctSweep' = sweepIdle /\ UNCHANGED <<ctConn, ctChecked>>
    BY <1>2 DEF sweepCompare
  <2>2. CtPoolsOk' /\ \A c \in CtConns : CtStays(c)
    BY <1>0, <2>1 DEF CtInv, CtPoolsOk, CtStays, revoked, fileSettled, sweepIdle
  <2>3. CtSourceOk' /\ CtReaderOk'
    BY <1>0, <2>1, ReaderStays
  <2> QED BY <2>2, <2>3 DEF CtInv
<1>3. CASE sweepCompare /\ ctSweep.pool # ctChecked
  <2>1. PICK bad : bad = untrusted(ctSweep.pool)
    OBVIOUS
  <2>2. /\ ctSweep.pc = "compare" /\ ctChecked' = ctSweep.pool
        /\ ctConn' = [c \in CtConns |->
             IF c \in openConns \ bad THEN [ctConn[c] EXCEPT !.pool = ctSweep.pool] ELSE ctConn[c]]
        /\ ctSweep' = IF bad = {} THEN sweepIdle ELSE [pc |-> "close", pool |-> ctSweep.pool, closing |-> bad]
    BY <1>3, <2>1 DEF sweepCompare
  <2>3. /\ ctConn' = [c \in CtConns |-> ctConn'[c]]
        /\ \A c \in CtConns : c \in openConns \ bad =>
             ctConn'[c] = [pc |-> "open", pool |-> ctSweep.pool] /\ ctConn[c].pc = "open"
        /\ \A c \in CtConns : c \notin openConns \ bad => ctConn'[c] = ctConn[c]
    <3>1. \A c \in CtConns : c \in openConns =>
            /\ ctConn[c].pc = "open"
            /\ \E p : ctConn[c] = [pc |-> "open", pool |-> p]
      BY DEF CtInv, CtPoolsOk, openConns
    <3>2. \A c \in CtConns : c \in openConns \ bad => ctConn'[c] = [ctConn[c] EXCEPT !.pool = ctSweep.pool]
      BY <2>2
    <3>3. \A c \in CtConns : c \in openConns \ bad => ctConn'[c] = [pc |-> "open", pool |-> ctSweep.pool]
      BY <3>1, <3>2
    <3>4. ctConn' = [c \in CtConns |-> ctConn'[c]]
      BY <2>2
    <3>5. \A c \in CtConns : c \notin openConns \ bad => ctConn'[c] = ctConn[c]
      BY <2>2
    <3> QED BY <3>1, <3>3, <3>4, <3>5
  <2>4. ctSweep.pool.cas # {}
    BY <2>2 DEF CtInv, CtPoolsOk
  <2>5. CtPoolsOk'
    <3>1. /\ ctSweep'.pc \in {"idle", "close"}
          /\ ctSweep'.pc = "close" =>
               /\ ctSweep' = [pc |-> "close", pool |-> ctSweep'.pool, closing |-> ctSweep'.closing]
               /\ ctSweep'.closing = bad
      BY <2>2 DEF sweepIdle
    <3>2. \A c \in CtConns : ctConn'[c].pc \in {"verify", "register", "open"} =>
            ctConn'[c].pool.cas # {} /\ ctConn'[c] = [pc |-> ctConn'[c].pc, pool |-> ctConn'[c].pool]
      BY <2>3, <2>4 DEF CtInv, CtPoolsOk
    <3>3. \A c \in bad : c \in CtConns /\ ctConn'[c].pc = "open"
      BY <2>1, <2>3 DEF untrusted, openConns
    <3> QED BY <2>2, <2>3, <2>4, <3>1, <3>2, <3>3 DEF CtPoolsOk
  <2>6. CtSourceOk' /\ CtReaderOk'
    <3>1. \A c \in CtConns : ctConn[c].pc = "get" => ctConn'[c].pc = "get"
      BY <2>3
    <3> QED BY <1>0, <2>2, <3>1, ReaderStays
  <2>7. ASSUME NEW c \in CtConns PROVE CtStays(c)
    <3> SUFFICES ASSUME revoked(c) PROVE revoked(c)'
      BY DEF CtStays
    <3>1. ctConn[c].pc = "open" /\ c \in openConns
      BY DEF revoked, openConns
    <3>2. CASE c \in bad
      <4>1. ctSweep'.pc = "close" /\ c \in ctSweep'.closing
        BY <2>2, <3>2
      <4>2. ctConn'[c] = ctConn[c]
        BY <2>3, <3>2
      <4> QED BY <1>0, <3>1, <4>1, <4>2 DEF revoked, fileSettled
    <3>3. CASE c \notin bad
      <4>1. ctConn'[c] = [pc |-> "open", pool |-> ctSweep.pool]
        BY <2>3, <3>1, <3>3
      <4> QED BY <1>0, <2>2, <4>1 DEF revoked, fileSettled
    <3> QED BY <3>2, <3>3
  <2> QED BY <2>5, <2>6, <2>7 DEF CtInv
<1>4. CASE sweepClose /\ ctSweep.closing = {} /\ ctConn' = ctConn
  <2>1. ctSweep.pc = "close" /\ ctChecked' = ctChecked
        /\ (ctSweep' = sweepIdle \/ ctSweep' = [pc |-> "close", pool |-> ctSweep.pool, closing |-> {}])
    BY <1>4 DEF sweepClose, sweepIdle
  <2>2. ctSweep'.pc \in {"idle", "close"} /\ (ctSweep'.pc = "close" =>
          ctSweep' = [pc |-> "close", pool |-> ctSweep'.pool, closing |-> {}] /\ ctSweep'.closing = {})
    BY <2>1 DEF sweepIdle
  <2>3. CtPoolsOk'
    BY <1>4, <2>1, <2>2 DEF CtInv, CtPoolsOk
  <2>4. \A c \in CtConns : CtStays(c)
    BY <1>0, <1>4, <2>1 DEF CtStays, revoked, fileSettled
  <2>5. CtSourceOk' /\ CtReaderOk'
    BY <1>0, <1>4, <2>1, ReaderStays
  <2> QED BY <2>3, <2>4, <2>5 DEF CtInv
<1>5. CASE \E c \in ctSweep.closing :
             /\ ctSweep.pc = "close" /\ ctChecked' = ctChecked
             /\ ctConn' = [ctConn EXCEPT ![c] = ctAway]
             /\ ctSweep' = [ctSweep EXCEPT !.closing = @ \ {c}]
  <2>1. PICK c \in ctSweep.closing :
          /\ ctSweep.pc = "close" /\ ctChecked' = ctChecked
          /\ ctConn' = [ctConn EXCEPT ![c] = ctAway]
          /\ ctSweep' = [ctSweep EXCEPT !.closing = @ \ {c}]
    BY <1>5
  <2>2. ctSweep' = [pc |-> "close", pool |-> ctSweep.pool, closing |-> ctSweep.closing \ {c}]
    BY <2>1 DEF CtInv, CtPoolsOk
  <2>3. /\ ctConn' = [d \in CtConns |-> ctConn'[d]]
        /\ c \in CtConns => ctConn'[c] = ctAway
        /\ \A d \in CtConns : d # c => ctConn'[d] = ctConn[d]
    BY <2>1 DEF CtInv, CtPoolsOk
  <2>4. ctAway.pc = "away"
    BY DEF ctAway
  <2>5. CtPoolsOk'
    BY <2>1, <2>2, <2>3, <2>4 DEF CtInv, CtPoolsOk
  <2>6. ASSUME NEW d \in CtConns PROVE CtStays(d)
    <3>1. CASE d = c
      BY <2>3, <2>4, <3>1 DEF CtStays
    <3>2. CASE d # c
      BY <1>0, <2>1, <2>2, <2>3, <3>2 DEF CtStays, revoked, fileSettled
    <3> QED BY <3>1, <3>2
  <2>7. CtSourceOk' /\ CtReaderOk'
    <3>1. \A d \in CtConns : ctConn[d].pc = "get" => ctConn'[d].pc = "get"
      <4>1. ctConn[c].pc = "open"
        BY <2>1 DEF CtInv, CtPoolsOk
      <4> QED BY <2>3, <4>1
    <3> QED BY <1>0, <2>1, <3>1, ReaderStays
  <2> QED BY <2>5, <2>6, <2>7 DEF CtInv
<1> QED BY <1>1, <1>2, <1>3, <1>4, <1>5 DEF sweepClose

LEMMA TrustStep ==
  ASSUME CtInv, [ClientTrustNext]_ctVars
  PROVE  CtInv' /\ \A c \in CtConns : CtStays(c)
<1>1. CASE (\E b \in CtBundles : rewriteFile(b)) \/ removeFile
  BY <1>1, FileMoves
<1>2. CASE sweeperSteps
  BY <1>2, SourceMoves, SweeperMoves DEF sweeperSteps
<1>3. ASSUME NEW c \in CtConns, connect(c) \/ handshakeSteps(c) \/ clientCloses(c)
      PROVE  CtInv' /\ \A d \in CtConns : CtStays(d)
  BY <1>3, SourceMoves, ConnectionMoves DEF handshakeSteps
<1>4. CASE UNCHANGED ctVars
  BY <1>4 DEF ctVars, CtInv, CtSourceOk, CtLoadedIsFile, CtReaderOk, CtPoolsOk, asksSource, CtStays, revoked, fileSettled
<1> QED BY <1>1, <1>2, <1>3, <1>4 DEF ClientTrustNext

\* Without fairness, what of TrustFollowsFile is safety: the pool in use is that
\* of the file it was read from and never empty, and a connection a rotation
\* revoked stays known as revoked (fileSource.get, CloseUntrusted).
THEOREM TrustIsKept == ClientTrustSpec => [](CtLoadedIsFile /\ CtAlwaysSomeTrust) /\ CtRevokedStays
<1>1. CtInv => CtLoadedIsFile /\ CtAlwaysSomeTrust
  BY DEF CtInv, CtSourceOk, CtPoolsOk, CtAlwaysSomeTrust
<1>2. CtInv /\ [ClientTrustNext]_ctVars =>
        CtInv' /\ [\A c \in CtConns : revoked(c) => revoked(c)' \/ ctConn'[c].pc # "open"]_ctVars
  BY TrustStep DEF CtStays
<1> QED BY <1>1, <1>2, TrustInitial, PTL DEF ClientTrustSpec, CtRevokedStays

-----------------------------------------------------------------------------
(***************************************************************************)
(* The reputation store: a cap holds once its setter has returned, whatever *)
(* penalties raced with its walk; an ASN's offenders are no more than its   *)
(* hosts; a shard keeps its budget and what a penalty has just written.     *)
(***************************************************************************)

RepKeys == RepKinds \X RepBare
RepEntrySet(num) == [score : Nat, seen : 0..num, off : Nat]

\* A setter has still to visit the shard of key k.
RepBehind(k, s) == s.shard # 0 /\ s.kind = k[1] /\ s.shard <= RepShardOf[k[2]]

\* The entries E at time num, under the caps C and with the setter at s.
RepGood(E, num, C, s) ==
  /\ E = [k \in DOMAIN E |-> E[k]]
  /\ IsFiniteSet(DOMAIN E) /\ DOMAIN E \subseteq RepKeys
  /\ \A k \in DOMAIN E : E[k] \in RepEntrySet(num)
  /\ \A k \in DOMAIN E : E[k].score <= C[k[1]] \/ RepBehind(k, s)

RepPlainKeys(E, sh) == {k \in RepKeysOf(E, sh) : k[1] # "asn"}
RepFits(E) == \A sh \in RepShards : Cardinality(RepPlainKeys(E, sh)) <= RepBudget

\* The hosts of an ASN: trimming them apart leaves the offenders no more.
RepHosts(st) ==
  /\ st \in [seen : SUBSET RepIPs, off : SUBSET RepIPs]
  /\ IsFiniteSet(st.seen) /\ IsFiniteSet(st.off)
  /\ Cardinality(st.off) <= RepMaxHosts
  /\ st.off \subseteq st.seen \/ RepMaxHosts <= Cardinality(st.seen)

RepHostsOk(St) == St = [a \in DOMAIN St |-> St[a]] /\ \A a \in DOMAIN St : RepHosts(St[a])

\* A worker that has read the cap has read the one in force, or the setter has
\* still to wait for its shard.
RepTaskOk(t, C, s) ==
  /\ t.pc \in {"idle", "lock", "write"}
  /\ t.pc # "idle" => t.ip \in RepIPs /\ t.plan \in Seq(RepKeys) /\ t.plan # <<>>
  /\ t.pc = "write" => t.cap \in Nat /\ (t.cap <= C[t.plan[1][1]] \/ RepBehind(t.plan[1], s))

RepTasksOk ==
  /\ repTask = [w \in RepWorkers |-> repTask[w]]
  /\ \A w \in RepWorkers : RepTaskOk(repTask[w], repCap, repSetter)

RepSetterOk ==
  /\ repCap \in [RepKinds -> Nat]
  /\ repSetter = [shard |-> repSetter.shard, kind |-> repSetter.kind, cap |-> repSetter.cap]
  /\ repSetter.shard \in 0..RepShardCount /\ repSetter.kind \in RepKinds
  /\ repSetter.shard # 0 => repSetter.cap = repCap[repSetter.kind]

RepInv ==
  /\ repNow \in Nat
  /\ RepGood(repEntries, repNow, repCap, repSetter) /\ RepFits(repEntries)
  /\ RepHostsOk(repStats) /\ RepTasksOk /\ RepSetterOk

-----------------------------------------------------------------------------
(* Arithmetic. *)

LEMMA RepMinOfTwo ==
  ASSUME NEW a \in Nat, NEW b \in Nat
  PROVE  Min({a, b}) \in Nat /\ Min({a, b}) <= a /\ Min({a, b}) <= b
<1>1. \E x \in {a, b} : \A y \in {a, b} : x <= y
  OBVIOUS
<1>2. Min({a, b}) \in {a, b} /\ \A y \in {a, b} : Min({a, b}) <= y
  BY <1>1 DEF Min
<1> QED BY <1>2

LEMMA RepMaxOfTwo ==
  ASSUME NEW a \in Int, NEW b \in Int
  PROVE  Max({a, b}) \in {a, b} /\ a <= Max({a, b}) /\ b <= Max({a, b})
<1>1. \E x \in {a, b} : \A y \in {a, b} : x >= y
  OBVIOUS
<1>2. Max({a, b}) \in {a, b} /\ \A y \in {a, b} : Max({a, b}) >= y
  BY <1>1 DEF Max
<1> QED BY <1>2

\* A division by two or more takes something away.
LEMMA RepPart ==
  ASSUME NEW a \in Nat \ {0}, NEW b \in Nat \ {0, 1}
  PROVE  a \div b \in Nat /\ a \div b < a
<1>1. a \div b \in Nat /\ b * (a \div b) <= a
  OBVIOUS
<1>2. PICK q \in Nat : q = a \div b /\ b * q <= a
  BY <1>1
<1>3. b * q >= 2 * q
  <2>1. PICK c \in Nat : b = c + 2
    <3>1. b - 2 \in Nat /\ b = (b - 2) + 2
      OBVIOUS
    <3> QED BY <3>1
  <2>2. c * q \in Nat
    BY <2>1
  <2>3. b * q = c * q + 2 * q
    BY <2>1
  <2> QED BY <2>2, <2>3
<1>4. q < a
  BY <1>2, <1>3
<1> QED BY <1>2, <1>4

LEMMA RepProduct ==
  ASSUME NEW a \in Nat, NEW b \in Nat, NEW c \in Nat \ {0}
  PROVE  (a * b) \div c \in Nat
<1>1. PICK p \in Nat : p = a * b
  OBVIOUS
<1>2. p \div c \in Nat
  OBVIOUS
<1> QED BY <1>1, <1>2

LEMMA DampenBounded ==
  ASSUME NEW weight \in Nat, NEW offenses \in Nat
  PROVE  dampen(weight, offenses) \in Nat
<1>1. PICK num \in Nat \ {0} : num = offenses + 1
  OBVIOUS
<1>2. PICK S : S = {r \in Nat : r * r >= num}
  OBVIOUS
<1>3. num \in S
  <2>1. PICK m \in Nat : num = m + 1
    BY <1>1
  <2>2. m * m \in Nat
    OBVIOUS
  <2>3. num * num = m * m + 2 * m + 1
    BY <2>1
  <2> QED BY <1>2, <2>1, <2>2, <2>3
<1>4. PICK r \in S : \A e \in S : r <= e
  BY <1>2, <1>3, LeastOf
<1>5. r \in Nat /\ r * r >= num /\ r <= num
  BY <1>2, <1>3, <1>4
<1>6. r # 0
  BY <1>1, <1>5
<1>7. (r - 1) * (r - 1) < num
  <2>1. r - 1 \in Nat /\ ~(r <= r - 1)
    BY <1>5, <1>6
  <2>2. r - 1 \notin S
    BY <1>4, <2>1
  <2>3. PICK q \in Nat : q = r - 1
    BY <2>1
  <2>4. q * q \in Int /\ ~(q * q >= num)
    BY <1>2, <2>2, <2>3
  <2> QED BY <2>3, <2>4
<1>8. r \in 1..num
  BY <1>5, <1>6
<1>9. PICK d : d = CHOOSE z \in 1..num : z * z >= num /\ (z - 1) * (z - 1) < num
  OBVIOUS
<1>10. d \in 1..num
  BY <1>5, <1>7, <1>8, <1>9
<1>11. dampen(weight, offenses) = weight \div d
  BY <1>1, <1>9 DEF dampen
<1>12. weight \div d \in Nat
  BY <1>10
<1> QED BY <1>11, <1>12

-----------------------------------------------------------------------------
(* The maps. *)

LEMMA RestrictKeeps ==
  ASSUME NEW E, NEW num, NEW C, NEW s, RepGood(E, num, C, s), NEW D \in SUBSET DOMAIN E
  PROVE  /\ RepGood(Restrict(E, D), num, C, s)
         /\ DOMAIN Restrict(E, D) = D
         /\ \A sh : RepPlainKeys(Restrict(E, D), sh) \subseteq RepPlainKeys(E, sh)
<1>1. PICK F : F = Restrict(E, D)
  OBVIOUS
<1>2. /\ F = [x \in D |-> E[x]] /\ DOMAIN F = D
      /\ \A x \in D : F[x] = E[x]
  BY <1>1 DEF Restrict
<1>3. IsFiniteSet(D)
  BY FS_Subset DEF RepGood
<1>4. RepGood(F, num, C, s)
  BY <1>2, <1>3 DEF RepGood
<1>5. \A sh : RepPlainKeys(F, sh) \subseteq RepPlainKeys(E, sh)
  BY <1>2 DEF RepPlainKeys, RepKeysOf
<1> QED BY <1>1, <1>2, <1>4, <1>5

\* Fewer plain keys fit as well.
LEMMA FewerFit ==
  ASSUME NEW E, NEW num, NEW C, NEW s, RepGood(E, num, C, s), RepFits(E), NEW F,
         \A sh : RepPlainKeys(F, sh) \subseteq RepPlainKeys(E, sh)
  PROVE  RepFits(F)
<1> SUFFICES ASSUME NEW sh \in RepShards PROVE Cardinality(RepPlainKeys(F, sh)) <= RepBudget
  BY DEF RepFits
<1>1. IsFiniteSet(RepPlainKeys(E, sh))
  BY FS_Subset DEF RepGood, RepPlainKeys, RepKeysOf
<1>2. /\ IsFiniteSet(RepPlainKeys(F, sh))
      /\ Cardinality(RepPlainKeys(F, sh)) <= Cardinality(RepPlainKeys(E, sh))
  BY <1>1, FS_Subset
<1>3. Cardinality(RepPlainKeys(E, sh)) <= RepBudget
  BY DEF RepFits
<1>4. Cardinality(RepPlainKeys(F, sh)) \in Nat /\ Cardinality(RepPlainKeys(E, sh)) \in Nat
  BY <1>1, <1>2, FS_CardinalityType
<1> QED BY <1>2, <1>3, <1>4, RepAssumption

\* An entry of its time is written at k, under the cap or with the setter to come.
RepPuts(E, num, C, s, k, v, F) ==
  /\ num \in Nat /\ RepGood(E, num, C, s) /\ k \in RepKeys /\ v \in RepEntrySet(num + 1)
  /\ v.score <= C[k[1]] \/ RepBehind(k, s)
  /\ F = repPut(E, k, v)

RepWritten(E, num, C, s, k, v, F) ==
  /\ RepGood(F, num + 1, C, s)
  /\ DOMAIN F = DOMAIN E \cup {k} /\ F[k] = v
  /\ \A x \in DOMAIN E : x # k => F[x] = E[x]

LEMMA PutKeeps ==
  ASSUME NEW E, NEW num, NEW C, NEW s, NEW k, NEW v, NEW F, RepPuts(E, num, C, s, k, v, F)
  PROVE  RepWritten(E, num, C, s, k, v, F)
<1>1. PICK m : m = num + 1
  OBVIOUS
<1>2. /\ F = [x \in DOMAIN E \cup {k} |-> IF x = k THEN v ELSE E[x]]
      /\ DOMAIN F = DOMAIN E \cup {k} /\ F[k] = v
      /\ \A x \in DOMAIN E : x # k => F[x] = E[x]
  BY DEF RepPuts, repPut
<1>3. IsFiniteSet(DOMAIN F)
  BY <1>2, FS_AddElement DEF RepPuts, RepGood
<1>4. \A x \in DOMAIN E : E[x] \in RepEntrySet(m)
  BY <1>1 DEF RepPuts, RepGood, RepEntrySet
<1>5. F = [x \in DOMAIN F |-> F[x]]
  BY <1>2
<1>6. RepGood(F, m, C, s)
  BY <1>1, <1>2, <1>3, <1>4, <1>5 DEF RepPuts, RepGood
<1> QED BY <1>1, <1>2, <1>6 DEF RepWritten

\* The entry a penalty or a reward starts from.
LEMMA EntryIs ==
  ASSUME NEW E, NEW num, NEW C, NEW s, RepGood(E, num, C, s), NEW k
  PROVE  RepEntry(E, k).score \in Nat /\ RepEntry(E, k).off \in Nat
BY DEF RepEntry, RepGood, RepEntrySet

LEMMA PenaltyKeeps ==
  ASSUME RepInv, NEW k \in RepKeys, NEW weight \in Nat, NEW cap \in Nat,
         cap <= repCap[k[1]] \/ RepBehind(k, repSetter)
  PROVE  \E v : /\ penalized(repEntries, k, weight, cap) = repPut(repEntries, k, v)
                /\ v \in RepEntrySet(repNow + 1) /\ v.seen = repNow + 1
                /\ v.score <= repCap[k[1]] \/ RepBehind(k, repSetter)
<1>1. PICK sc \in Nat, of \in Nat : sc = RepEntry(repEntries, k).score /\ of = RepEntry(repEntries, k).off
  BY EntryIs DEF RepInv
<1>2. PICK m : m = Min({sc + weight, cap})
  OBVIOUS
<1>3. m \in Nat /\ m <= cap
  BY <1>1, <1>2, RepMinOfTwo
<1>4. PICK v : v = [score |-> m, seen |-> repNow + 1, off |-> of + 1]
  OBVIOUS
<1>5. penalized(repEntries, k, weight, cap) = repPut(repEntries, k, v)
  BY <1>1, <1>2, <1>4 DEF penalized
<1>6. repNow \in Nat
  BY DEF RepInv
<1>7. v \in RepEntrySet(repNow + 1) /\ v.seen = repNow + 1 /\ v.score = m
  BY <1>1, <1>3, <1>4, <1>6 DEF RepEntrySet
<1>8. v.score <= repCap[k[1]] \/ RepBehind(k, repSetter)
  <2>1. CASE RepBehind(k, repSetter)
    BY <2>1
  <2>2. CASE cap <= repCap[k[1]]
    <3>1. repCap[k[1]] \in Nat
      BY DEF RepInv, RepSetterOk, RepKeys
    <3> QED BY <1>3, <1>7, <2>2, <3>1
  <2> QED BY <2>1, <2>2
<1> QED BY <1>5, <1>7, <1>8

LEMMA RewardKeeps ==
  ASSUME RepInv, NEW k \in RepKeys, NEW weight \in Nat
  PROVE  /\ RepGood(rewarded(repEntries, k, weight), repNow + 1, repCap, repSetter)
         /\ RepFits(rewarded(repEntries, k, weight))
<1>0. repNow \in Nat /\ RepGood(repEntries, repNow, repCap, repSetter)
  BY DEF RepInv
<1>1. CASE RepEntry(repEntries, k).score <= 0
  <2>1. rewarded(repEntries, k, weight) = repEntries
    BY <1>1 DEF rewarded
  <2>2. \A x \in DOMAIN repEntries : repEntries[x] \in RepEntrySet(repNow + 1)
    BY <1>0 DEF RepGood, RepEntrySet
  <2>3. RepGood(repEntries, repNow + 1, repCap, repSetter)
    BY <1>0, <2>2 DEF RepGood
  <2> QED BY <2>1, <2>3 DEF RepInv
<1>2. CASE ~(RepEntry(repEntries, k).score <= 0)
  <2>1. k \in DOMAIN repEntries
    BY <1>2 DEF RepEntry
  <2>2. PICK e : e = repEntries[k]
    OBVIOUS
  <2>3. e \in RepEntrySet(repNow) /\ (e.score <= repCap[k[1]] \/ RepBehind(k, repSetter))
    BY <1>0, <2>1, <2>2 DEF RepGood
  <2>4. PICK m : m = Min({dampen(weight, e.off), e.score})
    OBVIOUS
  <2>5. e.score \in Nat /\ e.off \in Nat
    BY <2>3 DEF RepEntrySet
  <2>6. m \in Nat /\ m <= e.score
    BY <2>4, <2>5, DampenBounded, RepMinOfTwo
  <2>7. PICK v : v = [e EXCEPT !.score = e.score - m, !.seen = repNow + 1]
    OBVIOUS
  <2>8. rewarded(repEntries, k, weight) = repPut(repEntries, k, v)
    BY <1>2, <2>2, <2>4, <2>7 DEF rewarded
  <2>9. v \in RepEntrySet(repNow + 1) /\ v.score = e.score - m
    <3>1. e = [score |-> e.score, seen |-> e.seen, off |-> e.off]
      BY <2>3 DEF RepEntrySet
    <3>2. v = [score |-> e.score - m, seen |-> repNow + 1, off |-> e.off]
      BY <2>7, <3>1
    <3>3. e.score - m \in Nat /\ repNow + 1 \in 0..(repNow + 1)
      BY <1>0, <2>5, <2>6
    <3> QED BY <2>5, <3>2, <3>3 DEF RepEntrySet
  <2>10. v.score <= repCap[k[1]] \/ RepBehind(k, repSetter)
    <3>1. repCap[k[1]] \in Nat
      BY DEF RepInv, RepSetterOk, RepKeys
    <3> QED BY <2>3, <2>5, <2>6, <2>9, <3>1
  <2>11. PICK F : F = repPut(repEntries, k, v)
    OBVIOUS
  <2>12. RepGood(F, repNow + 1, repCap, repSetter) /\ DOMAIN F = DOMAIN repEntries \cup {k}
    <3>1. RepPuts(repEntries, repNow, repCap, repSetter, k, v, F)
      BY <1>0, <2>9, <2>10, <2>11 DEF RepPuts
    <3>2. RepWritten(repEntries, repNow, repCap, repSetter, k, v, F)
      BY <3>1, PutKeeps
    <3> QED BY <3>2 DEF RepWritten
  <2>13. \A sh : RepPlainKeys(F, sh) \subseteq RepPlainKeys(repEntries, sh)
    BY <2>1, <2>12 DEF RepPlainKeys, RepKeysOf
  <2>14. RepFits(F)
    BY <1>0, <2>13, FewerFit DEF RepInv
  <2> QED BY <2>8, <2>11, <2>12, <2>14
<1> QED BY <1>1, <1>2

-----------------------------------------------------------------------------
(* Pruning. *)

\* There are num least recently seen keys among finitely many.
LEMMA OldestExist ==
  ASSUME NEW E, NEW K, IsFiniteSet(K), \A k \in K : E[k].seen \in Nat,
         NEW num \in 0..Cardinality(K)
  PROVE  /\ oldest(E, K, num) \in kSubset(num, K)
         /\ \A x \in oldest(E, K, num), k \in K \ oldest(E, K, num) : E[x].seen <= E[k].seen
<1> DEFINE Has(m) == \E S \in kSubset(m, K) : \A x \in S, k \in K \ S : E[x].seen <= E[k].seen
<1>1. PICK Bad : Bad = {m \in Nat : m <= Cardinality(K) /\ ~Has(m)}
  OBVIOUS
<1>2. Cardinality(K) \in Nat
  BY FS_CardinalityType
<1>3. Bad = {}
  <2> SUFFICES ASSUME Bad # {} PROVE FALSE
    OBVIOUS
  <2>1. PICK b \in Bad : \A e \in Bad : b <= e
    BY <1>1, LeastOf
  <2>2. b \in Nat /\ b <= Cardinality(K) /\ ~Has(b)
    BY <1>1, <2>1
  <2>3. b # 0
    <3>1. {} \in kSubset(0, K)
      BY FS_EmptySet DEF kSubset
    <3>2. Has(0)
      BY <3>1
    <3> QED BY <2>2, <3>2
  <2>4. b - 1 \in Nat /\ b - 1 <= Cardinality(K) /\ ~(b <= b - 1)
    BY <1>2, <2>2, <2>3
  <2>5. Has(b - 1)
    BY <1>1, <2>1, <2>4
  <2>6. PICK S \in kSubset(b - 1, K) : \A x \in S, k \in K \ S : E[x].seen <= E[k].seen
    BY <2>5
  <2>7. S \subseteq K /\ Cardinality(S) = b - 1
    BY <2>6 DEF kSubset
  <2>8. IsFiniteSet(S)
    BY <2>7, FS_Subset
  <2>9. K \ S # {}
    <3> SUFFICES ASSUME K = S PROVE FALSE
      BY <2>7
    <3> QED BY <2>2, <2>4, <2>7
  <2>10. PICK T : T = {E[k].seen : k \in K \ S}
    OBVIOUS
  <2>11. T \in SUBSET Nat /\ T # {}
    BY <2>9, <2>10
  <2>12. PICK d \in T : \A e \in T : d <= e
    BY <2>11, LeastOf
  <2>13. PICK y \in K \ S : E[y].seen = d
    BY <2>10, <2>12
  <2>14. \A k \in K \ S : E[y].seen <= E[k].seen
    BY <2>10, <2>12, <2>13
  <2>15. PICK U : U = S \cup {y}
    OBVIOUS
  <2>16. Cardinality(U) = b /\ U \subseteq K
    <3>1. Cardinality(U) = IF y \in S THEN Cardinality(S) ELSE Cardinality(S) + 1
      BY <2>8, <2>15, FS_AddElement
    <3>2. y \notin S /\ (b - 1) + 1 = b
      BY <2>2, <2>13
    <3> QED BY <2>7, <2>13, <2>15, <3>1, <3>2
  <2>17. \A x \in U, k \in K \ U : E[x].seen <= E[k].seen
    BY <2>6, <2>14, <2>15
  <2>18. U \in kSubset(b, K)
    BY <2>16 DEF kSubset
  <2> QED BY <2>2, <2>17, <2>18
<1>4. Has(num)
  BY <1>1, <1>2, <1>3
<1>5. PICK O : O = oldest(E, K, num)
  OBVIOUS
<1>6. O = CHOOSE S \in kSubset(num, K) : \A x \in S, k \in K \ S : E[x].seen <= E[k].seen
  BY <1>5 DEF oldest
<1>7. O \in kSubset(num, K) /\ \A x \in O, k \in K \ O : E[x].seen <= E[k].seen
  BY <1>4, <1>6
<1> QED BY <1>5, <1>7

\* What a prune of the shard leaves of the entries and of the statistics.
RepPrunedTo(E, sh, F) ==
  \E D \in SUBSET DOMAIN E :
    /\ F = Restrict(E, D)
    /\ \A T : T \subseteq RepKeysOf(F, sh) => Cardinality(T) <= RepBudget
    /\ \A f \in RepKeysOf(E, sh) :
         (\A k \in RepKeysOf(E, sh) : k # f => E[k].seen < E[f].seen) => f \in D

RepRestricts(St, Tt) == \E D \in SUBSET DOMAIN St : Tt = Restrict(St, D)

LEMMA PruneLeaves ==
  ASSUME NEW E, NEW num \in Nat, NEW C, NEW s, RepGood(E, num, C, s), NEW St, RepHostsOk(St), NEW sh
  PROVE  /\ RepPrunedTo(E, sh, pruneIfNeeded(E, St, sh)[1])
         /\ RepRestricts(St, pruneIfNeeded(E, St, sh)[2])
<1>1. PICK K : K = RepKeysOf(E, sh)
  OBVIOUS
<1>2. IsFiniteSet(K) /\ Cardinality(K) \in Nat /\ K \subseteq DOMAIN E
  BY <1>1, FS_Subset, FS_CardinalityType DEF RepGood, RepKeysOf
<1>3. CASE Cardinality(K) <= RepBudget
  <2>1. pruneIfNeeded(E, St, sh)[1] = E /\ pruneIfNeeded(E, St, sh)[2] = St
    BY <1>1, <1>3 DEF pruneIfNeeded
  <2>2. E = Restrict(E, DOMAIN E) /\ St = Restrict(St, DOMAIN St)
    BY DEF RepGood, RepHostsOk, Restrict
  <2>3. ASSUME NEW T, T \subseteq K PROVE Cardinality(T) <= RepBudget
    <3>1. IsFiniteSet(T) /\ Cardinality(T) <= Cardinality(K)
      BY <1>2, <2>3, FS_Subset
    <3>2. Cardinality(T) \in Nat
      BY <3>1, FS_CardinalityType
    <3> QED BY <1>2, <1>3, <3>1, <3>2, RepAssumption
  <2>4. RepPrunedTo(E, sh, E)
    BY <1>1, <1>2, <2>2, <2>3 DEF RepPrunedTo
  <2>5. RepRestricts(St, St)
    BY <2>2 DEF RepRestricts
  <2> QED BY <2>1, <2>4, <2>5
<1>4. CASE ~(Cardinality(K) <= RepBudget)
  <2>1. PICK part \in Nat : part = RepBudget \div RepBatch /\ part < RepBudget
    BY RepPart, RepAssumption
  <2>2. PICK excess : excess = Cardinality(K) - RepBudget + part
    OBVIOUS
  <2>3. excess \in 0..Cardinality(K)
    BY <1>2, <1>4, <2>1, <2>2, RepAssumption
  <2>4. PICK X : X = oldest(E, K, excess)
    OBVIOUS
  <2>5. \A k \in K : E[k].seen \in Nat
    BY <1>2 DEF RepGood, RepEntrySet
  <2>6. X \in kSubset(excess, K) /\ \A x \in X, k \in K \ X : E[x].seen <= E[k].seen
    BY <1>2, <2>3, <2>4, <2>5, OldestExist
  <2>7. X \subseteq K /\ Cardinality(X) = excess
    BY <2>6 DEF kSubset
  <2>8. pruneIfNeeded(E, St, sh) = deleteEntries(E, St, X)
    BY <1>1, <1>4, <2>1, <2>2, <2>4 DEF pruneIfNeeded
  <2>9. PICK D : D = DOMAIN E \ X
    OBVIOUS
  <2>10. /\ pruneIfNeeded(E, St, sh)[1] = Restrict(E, D)
         /\ \E G \in SUBSET DOMAIN St : pruneIfNeeded(E, St, sh)[2] = Restrict(St, G)
    <3>1. PICK G : G = {a \in DOMAIN St : <<"asn", a>> \notin X}
      OBVIOUS
    <3>2. deleteEntries(E, St, X) = <<Restrict(E, DOMAIN E \ X), Restrict(St, {a \in DOMAIN St : <<"asn", a>> \notin X})>>
      BY DEF deleteEntries
    <3>3. pruneIfNeeded(E, St, sh) = <<Restrict(E, D), Restrict(St, G)>>
      BY <2>8, <2>9, <3>1, <3>2
    <3>4. G \in SUBSET DOMAIN St
      BY <3>1
    <3> QED BY <3>3, <3>4
  <2>11. PICK F : F = Restrict(E, D)
    OBVIOUS
  <2>12. RepKeysOf(F, sh) = K \ X
    BY <1>1, <2>7, <2>9, <2>11 DEF RepKeysOf, Restrict
  <2>13. IsFiniteSet(K \ X) /\ Cardinality(K \ X) = RepBudget - part
    <3>1. K \cap X = X
      BY <2>7
    <3>2. IsFiniteSet(K \ X) /\ Cardinality(K \ X) = Cardinality(K) - Cardinality(K \cap X)
      BY <1>2, FS_Difference
    <3>3. Cardinality(K \ X) = Cardinality(K) - excess
      BY <2>7, <3>1, <3>2
    <3>4. Cardinality(K) - excess = RepBudget - part
      BY <1>2, <2>1, <2>2, RepAssumption
    <3> QED BY <3>2, <3>3, <3>4
  <2>14. ASSUME NEW T, T \subseteq K \ X PROVE Cardinality(T) <= RepBudget
    <3>1. IsFiniteSet(T) /\ Cardinality(T) <= Cardinality(K \ X)
      BY <2>13, <2>14, FS_Subset
    <3>2. Cardinality(T) \in Nat
      BY <3>1, FS_CardinalityType
    <3> QED BY <2>1, <2>13, <3>1, <3>2, RepAssumption
  <2>15. ASSUME NEW f \in K, \A k \in K : k # f => E[k].seen < E[f].seen
         PROVE  f \in D
    <3>1. K \ X # {}
      <4> SUFFICES ASSUME K \ X = {} PROVE FALSE
        OBVIOUS
      <4>1. Cardinality(K \ X) = 0
        BY FS_EmptySet
      <4> QED BY <2>1, <2>13, <4>1, RepAssumption
    <3>2. f \notin X
      <4> SUFFICES ASSUME f \in X PROVE FALSE
        OBVIOUS
      <4>1. PICK k \in K \ X : TRUE
        BY <3>1
      <4>2. E[f].seen <= E[k].seen /\ E[k].seen < E[f].seen
        BY <2>6, <2>15, <4>1
      <4>3. E[f].seen \in Nat /\ E[k].seen \in Nat
        BY <2>5
      <4> QED BY <4>2, <4>3
    <3> QED BY <1>2, <2>9, <3>2
  <2>16. RepPrunedTo(E, sh, F)
    <3>1. D \in SUBSET DOMAIN E
      BY <2>9
    <3>2. \A T : T \subseteq RepKeysOf(F, sh) => Cardinality(T) <= RepBudget
      BY <2>12, <2>14
    <3>3. \A f \in RepKeysOf(E, sh) :
            (\A k \in RepKeysOf(E, sh) : k # f => E[k].seen < E[f].seen) => f \in D
      BY <1>1, <2>15
    <3> QED BY <2>11, <3>1, <3>2, <3>3 DEF RepPrunedTo
  <2> QED BY <2>10, <2>11, <2>16 DEF RepRestricts
<1> QED BY <1>3, <1>4

LEMMA HostsRestrict ==
  ASSUME NEW St, RepHostsOk(St), NEW Tt, RepRestricts(St, Tt)
  PROVE  RepHostsOk(Tt)
<1>1. PICK D \in SUBSET DOMAIN St : Tt = Restrict(St, D)
  BY DEF RepRestricts
<1>2. Tt = [a \in D |-> St[a]]
  BY <1>1 DEF Restrict
<1>3. DOMAIN Tt = D /\ \A a \in D : Tt[a] = St[a]
  BY <1>2
<1> QED BY <1>2, <1>3 DEF RepHostsOk

LEMMA HostsPut ==
  ASSUME NEW St, RepHostsOk(St), NEW a, NEW b, RepHosts(b)
  PROVE  RepHostsOk(repPut(St, a, b))
<1>1. PICK Tt : Tt = repPut(St, a, b)
  OBVIOUS
<1>2. /\ DOMAIN Tt = DOMAIN St \cup {a} /\ Tt = [x \in DOMAIN Tt |-> Tt[x]] /\ Tt[a] = b
      /\ \A x \in DOMAIN St : x # a => Tt[x] = St[x]
  BY <1>1 DEF repPut
<1>3. \A x \in DOMAIN Tt : RepHosts(Tt[x])
  BY <1>2 DEF RepHostsOk
<1> QED BY <1>1, <1>2, <1>3 DEF RepHostsOk

\* The hosts before they are trimmed.
RepUntrimmed(st) ==
  /\ st \in [seen : SUBSET RepIPs, off : SUBSET RepIPs]
  /\ IsFiniteSet(st.seen) /\ IsFiniteSet(st.off)
  /\ st.off \subseteq st.seen \/ RepMaxHosts <= Cardinality(st.seen)

LEMMA TrimKeeps ==
  ASSUME NEW st, RepUntrimmed(st), NEW b \in boundASNStats(st)
  PROVE  RepHosts(b)
<1>1. PICK sn, of : /\ b = [seen |-> sn, off |-> of]
                    /\ sn \in (IF Cardinality(st.seen) > RepMaxHosts
                               THEN kSubset(RepMaxHosts, st.seen) ELSE {st.seen})
                    /\ of \in (IF Cardinality(st.off) > RepMaxHosts
                               THEN kSubset(RepMaxHosts, st.off) ELSE {st.off})
  BY DEF boundASNStats
<1>2. /\ Cardinality(st.seen) > RepMaxHosts => sn \subseteq st.seen /\ Cardinality(sn) = RepMaxHosts
      /\ ~(Cardinality(st.seen) > RepMaxHosts) => sn = st.seen
      /\ Cardinality(st.off) > RepMaxHosts => of \subseteq st.off /\ Cardinality(of) = RepMaxHosts
      /\ ~(Cardinality(st.off) > RepMaxHosts) => of = st.off
  BY <1>1 DEF kSubset
<1>3. sn \subseteq st.seen /\ of \subseteq st.off
  BY <1>2
<1>4. IsFiniteSet(sn) /\ IsFiniteSet(of)
  BY <1>3, FS_Subset DEF RepUntrimmed
<1>5. Cardinality(st.seen) \in Nat /\ Cardinality(st.off) \in Nat
  BY FS_CardinalityType DEF RepUntrimmed
<1>6. Cardinality(of) <= RepMaxHosts
  BY <1>2, <1>5, RepAssumption
<1>7. of \subseteq sn \/ RepMaxHosts <= Cardinality(sn)
  <2>1. CASE Cardinality(st.seen) > RepMaxHosts
    BY <1>2, <2>1, RepAssumption
  <2>2. CASE ~(Cardinality(st.seen) > RepMaxHosts)
    BY <1>2, <1>3, <2>2 DEF RepUntrimmed
  <2> QED BY <2>1, <2>2
<1>8. b \in [seen : SUBSET RepIPs, off : SUBSET RepIPs] /\ b.seen = sn /\ b.off = of
  BY <1>1, <1>3 DEF RepUntrimmed
<1> QED BY <1>4, <1>6, <1>7, <1>8 DEF RepHosts

\* A host more, and perhaps an offender more.
LEMMA HostsGrow ==
  ASSUME RepHostsOk(repStats), NEW asn, NEW ip \in RepIPs
  PROVE  /\ RepHosts(getASNStats(asn))
         /\ RepUntrimmed([seen |-> getASNStats(asn).seen \cup {ip}, off |-> getASNStats(asn).off \cup {ip}])
         /\ RepUntrimmed([getASNStats(asn) EXCEPT !.seen = @ \cup {ip}])
         /\ RepHosts([getASNStats(asn) EXCEPT !.seen = @ \cup {ip}])
         /\ Cardinality([getASNStats(asn) EXCEPT !.seen = @ \cup {ip}].seen) \in Nat \ {0}
         /\ Cardinality([getASNStats(asn) EXCEPT !.seen = @ \cup {ip}].off) \in Nat
<1>1. PICK st : st = getASNStats(asn)
  OBVIOUS
<1>2. RepHosts(st)
  <2>1. CASE asn \in DOMAIN repStats
    BY <1>1, <2>1 DEF getASNStats, RepHostsOk
  <2>2. CASE asn \notin DOMAIN repStats
    <3>1. st = [seen |-> {}, off |-> {}]
      BY <1>1, <2>2 DEF getASNStats
    <3>2. st.seen = {} /\ st.off = {} /\ st \in [seen : SUBSET RepIPs, off : SUBSET RepIPs]
      BY <3>1
    <3>3. IsFiniteSet({}) /\ Cardinality({}) = 0
      BY FS_EmptySet
    <3> QED BY <3>2, <3>3, RepAssumption DEF RepHosts
  <2> QED BY <2>1, <2>2
<1>3. PICK sn, of : sn = st.seen \cup {ip} /\ of = st.off \cup {ip}
  OBVIOUS
<1>4. /\ sn \in SUBSET RepIPs /\ of \in SUBSET RepIPs
      /\ IsFiniteSet(sn) /\ IsFiniteSet(of)
      /\ IsFiniteSet(st.seen) /\ IsFiniteSet(st.off)
      /\ Cardinality(sn) = IF ip \in st.seen THEN Cardinality(st.seen) ELSE Cardinality(st.seen) + 1
  BY <1>2, <1>3, FS_AddElement DEF RepHosts
<1>5. Cardinality(st.seen) \in Nat /\ Cardinality(st.off) \in Nat /\ Cardinality(sn) \in Nat
  BY <1>4, FS_CardinalityType
<1>6. st.off \subseteq st.seen \/ RepMaxHosts <= Cardinality(sn)
  <2>1. CASE RepMaxHosts <= Cardinality(st.seen)
    BY <1>4, <1>5, <2>1, RepAssumption
  <2> QED BY <1>2, <2>1 DEF RepHosts
<1>7. /\ of \subseteq sn \/ RepMaxHosts <= Cardinality(sn)
      /\ st.off \subseteq sn \/ RepMaxHosts <= Cardinality(sn)
  BY <1>3, <1>6
<1>8. st \in [seen : SUBSET RepIPs, off : SUBSET RepIPs]
  BY <1>2 DEF RepHosts
<1>9. PICK r : r = [st EXCEPT !.seen = @ \cup {ip}]
  OBVIOUS
<1>10. r.seen = sn /\ r.off = st.off /\ r \in [seen : SUBSET RepIPs, off : SUBSET RepIPs]
  BY <1>3, <1>4, <1>8, <1>9
<1>11. RepUntrimmed(r)
  BY <1>4, <1>7, <1>10 DEF RepUntrimmed
<1>12. RepHosts(r)
  BY <1>2, <1>4, <1>7, <1>10 DEF RepHosts
<1>13. PICK q : q = [seen |-> sn, off |-> of]
  OBVIOUS
<1>14. q.seen = sn /\ q.off = of /\ q \in [seen : SUBSET RepIPs, off : SUBSET RepIPs]
  BY <1>4, <1>13
<1>15. RepUntrimmed(q)
  BY <1>4, <1>7, <1>14 DEF RepUntrimmed
<1>16. Cardinality(sn) # 0
  BY <1>3, <1>4, FS_EmptySet
<1> QED BY <1>1, <1>2, <1>3, <1>5, <1>9, <1>10, <1>11, <1>12, <1>13, <1>15, <1>16

-----------------------------------------------------------------------------
(* The operations. *)

\* A worker leaves a section only with its key written.
RepFresh(v) ==
  repTask[v].pc = "write" /\ repTask'[v].pc # "write" => repTask[v].plan[1] \in DOMAIN repEntries'

RepMoves == RepInv' /\ \A v \in RepWorkers : RepFresh(v)

LEMMA ReputationInitial == ReputationInit => RepInv
<1> SUFFICES ASSUME ReputationInit PROVE RepInv
  OBVIOUS
<1>1. repEntries = <<>> /\ repStats = <<>>
  BY DEF ReputationInit
<1>2. DOMAIN repEntries = {} /\ DOMAIN repStats = {}
  BY <1>1
<1>3. repEntries = [k \in DOMAIN repEntries |-> repEntries[k]] /\ repStats = [a \in DOMAIN repStats |-> repStats[a]]
  BY <1>1
<1>4. RepGood(repEntries, repNow, repCap, repSetter)
  BY <1>2, <1>3, FS_EmptySet DEF RepGood
<1>5. RepFits(repEntries)
  <2>1. \A sh : RepPlainKeys(repEntries, sh) = {}
    BY <1>2 DEF RepPlainKeys, RepKeysOf
  <2> QED BY <2>1, FS_EmptySet, RepAssumption DEF RepFits
<1>6. RepHostsOk(repStats)
  BY <1>2, <1>3 DEF RepHostsOk
<1>7. RepTasksOk
  BY DEF ReputationInit, RepTasksOk, RepTaskOk, RepIdle
<1>8. RepSetterOk /\ repNow \in Nat
  BY RepAssumption DEF ReputationInit, RepSetterOk, RepNoSetter, RepKinds
<1> QED BY <1>4, <1>5, <1>6, <1>7, <1>8 DEF RepInv

\* One worker moves on, the others and the caps stay.
LEMMA RepTaskMoves ==
  ASSUME RepInv, NEW w \in RepWorkers, NEW t, repTask' = [repTask EXCEPT ![w] = t],
         RepTaskOk(t, repCap, repSetter), UNCHANGED <<repCap, repSetter>>
  PROVE  /\ RepTasksOk' /\ RepSetterOk'
         /\ repTask'[w] = t
         /\ \A v \in RepWorkers : v # w => repTask'[v] = repTask[v]
<1>1. /\ repTask' = [v \in RepWorkers |-> repTask'[v]] /\ repTask'[w] = t
      /\ \A v \in RepWorkers : v # w => repTask'[v] = repTask[v]
  BY DEF RepInv, RepTasksOk
<1>2. \A v \in RepWorkers : RepTaskOk(repTask'[v], repCap, repSetter)
  BY <1>1 DEF RepInv, RepTasksOk
<1>3. RepTasksOk'
  BY <1>1, <1>2 DEF RepTasksOk
<1>4. RepSetterOk'
  BY DEF RepInv, RepSetterOk
<1> QED BY <1>1, <1>3, <1>4

\* The key of a section, and what comes after it.
LEMMA SectionOf ==
  ASSUME RepInv, NEW w \in RepWorkers, repTask[w].pc # "idle"
  PROVE  /\ repTask[w].plan[1] \in RepKeys /\ repTask[w].ip \in RepIPs
         /\ RepTaskOk(nextSection(repTask[w]), repCap, repSetter)
         /\ nextSection(repTask[w]).pc # "write"
<1>1. PICK t : t = repTask[w]
  OBVIOUS
<1>2. t.ip \in RepIPs /\ t.plan \in Seq(RepKeys) /\ t.plan # <<>>
  BY <1>1 DEF RepInv, RepTasksOk, RepTaskOk
<1>3. PICK p \in Seq(RepKeys) : p = t.plan /\ p # <<>>
  BY <1>2
<1>4. Len(p) \in Nat \ {0} /\ p[1] \in RepKeys
  BY <1>3
<1>5. CASE Len(p) = 1
  BY <1>1, <1>2, <1>3, <1>4, <1>5 DEF nextSection, RepIdle, RepTaskOk
<1>6. CASE Len(p) # 1
  <2>1. Tail(p) \in Seq(RepKeys) /\ Len(Tail(p)) = Len(p) - 1
    BY <1>3
  <2>2. Tail(p) # <<>>
    BY <1>4, <1>6, <2>1
  <2>3. nextSection(t) = [pc |-> "lock", ip |-> t.ip, plan |-> Tail(p)]
    BY <1>3, <1>6 DEF nextSection
  <2> QED BY <1>1, <1>2, <1>3, <1>4, <2>1, <2>2, <2>3 DEF RepTaskOk
<1> QED BY <1>5, <1>6

LEMMA CallsMove ==
  ASSUME RepInv, NEW w \in RepWorkers, RecordSignal(w) \/ PenalizeReadCap(w)
  PROVE  RepMoves
<1>0. UNCHANGED <<repEntries, repStats, repCap, repNow, repDecay, repSetter>>
  BY DEF RecordSignal, PenalizeReadCap
<1>1. \E t : /\ repTask' = [repTask EXCEPT ![w] = t] /\ RepTaskOk(t, repCap, repSetter)
             /\ repTask[w].pc = "write" => t.pc = "write"
  <2>1. CASE RecordSignal(w)
    <3>1. PICK ip \in RepIPs, asn \in RepASNs, ja4 \in RepJA4s :
            \E plan \in {<< <<"ip", ip>> >>, << <<"asn", asn>> >>, << <<"ja4", ja4>> >>,
                         << <<"ip", ip>>, <<"asn", asn>>, <<"ja4", ja4>> >>} :
              repTask' = [repTask EXCEPT ![w] = [pc |-> "lock", ip |-> ip, plan |-> plan]]
      BY <2>1 DEF RecordSignal
    <3>2. PICK plan : /\ plan \in {<< <<"ip", ip>> >>, << <<"asn", asn>> >>, << <<"ja4", ja4>> >>,
                                   << <<"ip", ip>>, <<"asn", asn>>, <<"ja4", ja4>> >>}
                      /\ repTask' = [repTask EXCEPT ![w] = [pc |-> "lock", ip |-> ip, plan |-> plan]]
      BY <3>1
    <3>3. <<"ip", ip>> \in RepKeys /\ <<"asn", asn>> \in RepKeys /\ <<"ja4", ja4>> \in RepKeys
      BY DEF RepKeys, RepKinds, RepBare
    <3>4. plan \in Seq(RepKeys) /\ plan # <<>>
      <4>1. PICK x \in RepKeys, y \in RepKeys, z \in RepKeys :
              x = <<"ip", ip>> /\ y = <<"asn", asn>> /\ z = <<"ja4", ja4>>
        BY <3>3
      <4>2. <<x>> \in Seq(RepKeys) /\ <<y>> \in Seq(RepKeys) /\ <<z>> \in Seq(RepKeys)
            /\ <<x, y, z>> \in Seq(RepKeys)
        OBVIOUS
      <4>3. <<x>> # <<>> /\ <<y>> # <<>> /\ <<z>> # <<>> /\ <<x, y, z>> # <<>>
        OBVIOUS
      <4>4. plan \in {<<x>>, <<y>>, <<z>>, <<x, y, z>>}
        BY <3>2, <4>1
      <4> QED BY <4>2, <4>3, <4>4
    <3>5. PICK t : t = [pc |-> "lock", ip |-> ip, plan |-> plan]
      OBVIOUS
    <3>6. t.pc = "lock" /\ t.ip = ip /\ t.plan = plan
      BY <3>5
    <3>7. RepTaskOk(t, repCap, repSetter)
      BY <3>4, <3>6 DEF RepTaskOk
    <3>8. repTask[w].pc = "idle"
      BY <2>1 DEF RecordSignal
    <3> QED BY <3>2, <3>5, <3>7, <3>8
  <2>2. CASE PenalizeReadCap(w)
    <3>1. PICK r : r = repTask[w]
      OBVIOUS
    <3>2. /\ r.pc = "lock"
          /\ repTask' = [repTask EXCEPT ![w] =
                           [pc |-> "write", ip |-> r.ip, plan |-> r.plan, cap |-> repCap[r.plan[1][1]]]]
      BY <2>2, <3>1 DEF PenalizeReadCap
    <3>3. PICK t : t = [pc |-> "write", ip |-> r.ip, plan |-> r.plan, cap |-> repCap[r.plan[1][1]]]
      OBVIOUS
    <3>4. t.pc = "write" /\ t.ip = r.ip /\ t.plan = r.plan /\ t.cap = repCap[r.plan[1][1]]
      BY <3>3
    <3>5. r.plan[1] \in RepKeys /\ r.ip \in RepIPs
      BY <3>1, <3>2, SectionOf
    <3>6. repCap[r.plan[1][1]] \in Nat
      BY <3>5 DEF RepInv, RepSetterOk, RepKeys
    <3>7. r.plan \in Seq(RepKeys) /\ r.plan # <<>>
      BY <3>1, <3>2 DEF RepInv, RepTasksOk, RepTaskOk
    <3>8. RepTaskOk(t, repCap, repSetter)
      BY <3>4, <3>5, <3>6, <3>7 DEF RepTaskOk
    <3> QED BY <3>2, <3>3, <3>4, <3>8
  <2> QED BY <2>1, <2>2
<1>2. PICK t : /\ repTask' = [repTask EXCEPT ![w] = t] /\ RepTaskOk(t, repCap, repSetter)
               /\ repTask[w].pc = "write" => t.pc = "write"
  BY <1>1
<1>3. /\ RepTasksOk' /\ RepSetterOk' /\ repTask'[w] = t
      /\ \A v \in RepWorkers : v # w => repTask'[v] = repTask[v]
  BY <1>0, <1>2, RepTaskMoves
<1>4. RepInv'
  BY <1>0, <1>3 DEF RepInv
<1>5. \A v \in RepWorkers : RepFresh(v)
  BY <1>2, <1>3 DEF RepFresh
<1> QED BY <1>4, <1>5 DEF RepMoves

\* A section of w writes its key and ends.
LEMMA SectionEnds ==
  ASSUME RepInv, NEW w \in RepWorkers, repTask[w].pc = "write",
         repTask' = [repTask EXCEPT ![w] = nextSection(repTask[w])],
         repNow' = repNow + 1, UNCHANGED <<repCap, repSetter>>,
         RepGood(repEntries', repNow + 1, repCap, repSetter), RepFits(repEntries'),
         RepHostsOk(repStats'), repTask[w].plan[1] \in DOMAIN repEntries'
  PROVE  RepMoves
<1>1. RepTaskOk(nextSection(repTask[w]), repCap, repSetter)
  BY SectionOf
<1>2. /\ RepTasksOk' /\ RepSetterOk'
      /\ \A v \in RepWorkers : v # w => repTask'[v] = repTask[v]
  BY <1>1, RepTaskMoves
<1>3. RepInv'
  BY <1>2 DEF RepInv, RepFits
<1>4. \A v \in RepWorkers : RepFresh(v)
  BY <1>2 DEF RepFresh
<1> QED BY <1>3, <1>4 DEF RepMoves

LEMMA PenalizeMoves ==
  ASSUME RepInv, NEW w \in RepWorkers, Penalize(w)
  PROVE  RepMoves
<1>1. PICK t, k : t = repTask[w] /\ k = t.plan[1]
  OBVIOUS
<1>2. PICK E1 : E1 = penalized(repEntries, k, RepWeight, t.cap)
  OBVIOUS
<1>3. /\ t.pc = "write" /\ repNow' = repNow + 1
      /\ repEntries' = pruneIfNeeded(E1, repStats, RepShardOf[k[2]])[1]
      /\ repStats' = pruneIfNeeded(E1, repStats, RepShardOf[k[2]])[2]
      /\ repTask' = [repTask EXCEPT ![w] = nextSection(t)]
      /\ UNCHANGED <<repCap, repDecay, repSetter>>
  BY <1>1, <1>2 DEF Penalize
<1>4. k \in RepKeys /\ t.cap \in Nat /\ (t.cap <= repCap[k[1]] \/ RepBehind(k, repSetter))
  BY <1>1, <1>3, SectionOf DEF RepInv, RepTasksOk, RepTaskOk
<1>5. PICK v : /\ E1 = repPut(repEntries, k, v) /\ v \in RepEntrySet(repNow + 1) /\ v.seen = repNow + 1
               /\ v.score <= repCap[k[1]] \/ RepBehind(k, repSetter)
  BY <1>2, <1>4, PenaltyKeeps, RepAssumption
<1>6. repNow \in Nat /\ RepGood(repEntries, repNow, repCap, repSetter)
  BY DEF RepInv
<1>7. /\ RepGood(E1, repNow + 1, repCap, repSetter) /\ DOMAIN E1 = DOMAIN repEntries \cup {k}
      /\ E1[k] = v /\ \A x \in DOMAIN repEntries : x # k => E1[x] = repEntries[x]
  <2>1. RepPuts(repEntries, repNow, repCap, repSetter, k, v, E1)
    BY <1>4, <1>5, <1>6 DEF RepPuts
  <2>2. RepWritten(repEntries, repNow, repCap, repSetter, k, v, E1)
    BY <2>1, PutKeeps
  <2> QED BY <2>2 DEF RepWritten
<1>8. PICK sh : sh = RepShardOf[k[2]]
  OBVIOUS
<1>9. RepPrunedTo(E1, sh, repEntries') /\ RepRestricts(repStats, repStats')
  <2>1. RepHostsOk(repStats) /\ repNow + 1 \in Nat
    BY <1>6 DEF RepInv
  <2> QED BY <1>3, <1>7, <1>8, <2>1, PruneLeaves
<1>10. PICK D \in SUBSET DOMAIN E1 :
         /\ repEntries' = Restrict(E1, D)
         /\ \A T : T \subseteq RepKeysOf(repEntries', sh) => Cardinality(T) <= RepBudget
         /\ \A f \in RepKeysOf(E1, sh) :
              (\A x \in RepKeysOf(E1, sh) : x # f => E1[x].seen < E1[f].seen) => f \in D
  BY <1>9 DEF RepPrunedTo
<1>11. /\ RepGood(repEntries', repNow + 1, repCap, repSetter) /\ DOMAIN repEntries' = D
       /\ \A z : RepPlainKeys(repEntries', z) \subseteq RepPlainKeys(E1, z)
  BY <1>7, <1>10, RestrictKeeps
<1>12. k \in D
  <2>1. k \in RepKeysOf(E1, sh)
    BY <1>7, <1>8 DEF RepKeysOf
  <2>2. ASSUME NEW x \in RepKeysOf(E1, sh), x # k PROVE E1[x].seen < E1[k].seen
    <3>1. x \in DOMAIN repEntries /\ E1[x] = repEntries[x]
      BY <1>7, <2>2 DEF RepKeysOf
    <3>2. repEntries[x].seen \in 0..repNow
      BY <1>6, <3>1 DEF RepGood, RepEntrySet
    <3> QED BY <1>5, <1>6, <1>7, <3>1, <3>2
  <2> QED BY <1>10, <2>1, <2>2
<1>13. RepFits(repEntries')
  <2> SUFFICES ASSUME NEW z \in RepShards PROVE Cardinality(RepPlainKeys(repEntries', z)) <= RepBudget
    BY DEF RepFits
  <2>1. CASE z = sh
    BY <1>10, <2>1 DEF RepPlainKeys
  <2>2. CASE z # sh
    <3>1. RepPlainKeys(repEntries', z) \subseteq RepPlainKeys(repEntries, z)
      BY <1>7, <1>8, <1>11, <2>2 DEF RepPlainKeys, RepKeysOf
    <3>2. IsFiniteSet(RepPlainKeys(repEntries, z))
      BY <1>6, FS_Subset DEF RepGood, RepPlainKeys, RepKeysOf
    <3>3. /\ IsFiniteSet(RepPlainKeys(repEntries', z))
          /\ Cardinality(RepPlainKeys(repEntries', z)) <= Cardinality(RepPlainKeys(repEntries, z))
      BY <3>1, <3>2, FS_Subset
    <3>4. Cardinality(RepPlainKeys(repEntries, z)) <= RepBudget
      BY DEF RepInv, RepFits
    <3>5. Cardinality(RepPlainKeys(repEntries, z)) \in Nat /\ Cardinality(RepPlainKeys(repEntries', z)) \in Nat
      BY <3>2, <3>3, FS_CardinalityType
    <3> QED BY <3>3, <3>4, <3>5, RepAssumption
  <2> QED BY <2>1, <2>2
<1>14. RepHostsOk(repStats')
  BY <1>9, HostsRestrict DEF RepInv
<1> QED BY <1>1, <1>3, <1>11, <1>12, <1>13, <1>14, SectionEnds

LEMMA PenalizeASNMoves ==
  ASSUME RepInv, NEW w \in RepWorkers, PenalizeASN(w)
  PROVE  RepMoves
<1>1. PICK t, k, st : t = repTask[w] /\ k = t.plan[1] /\ st = getASNStats(k[2])
  OBVIOUS
<1>2. PICK b \in boundASNStats([seen |-> st.seen \cup {t.ip}, off |-> st.off \cup {t.ip}]) :
        /\ repStats' = repPut(repStats, k[2], b)
        /\ repEntries' = penalized(repEntries, k,
                           dampen(ratioWeight(b), RepEntry(repEntries, k).off), t.cap)
  BY <1>1 DEF PenalizeASN
<1>3. /\ t.pc = "write" /\ k[1] = "asn" /\ repNow' = repNow + 1
      /\ repTask' = [repTask EXCEPT ![w] = nextSection(t)]
      /\ UNCHANGED <<repCap, repDecay, repSetter>>
  BY <1>1 DEF PenalizeASN
<1>4. /\ k \in RepKeys /\ t.ip \in RepIPs
      /\ t.cap \in Nat /\ (t.cap <= repCap[k[1]] \/ RepBehind(k, repSetter))
  BY <1>1, <1>3, SectionOf DEF RepInv, RepTasksOk, RepTaskOk
<1>5. RepHosts(b)
  BY <1>1, <1>2, <1>4, HostsGrow, TrimKeeps DEF RepInv
<1>6. RepHostsOk(repStats')
  BY <1>2, <1>5, HostsPut DEF RepInv
<1>7. ratioWeight(b) \in Nat
  <2>1. Cardinality(b.off) \in Nat /\ Cardinality(b.seen) \in Nat
    BY <1>5, FS_CardinalityType DEF RepHosts
  <2>2. PICK m : m = Max({Cardinality(b.seen), RepSoft})
    OBVIOUS
  <2>3. m \in Nat \ {0}
    <3>1. PICK c \in Nat : c = Cardinality(b.seen)
      BY <2>1
    <3>2. m = Max({c, RepSoft})
      BY <2>2, <3>1
    <3>3. RepSoft \in Nat \ {0}
      BY RepAssumption
    <3>4. m \in {c, RepSoft} /\ c <= m /\ RepSoft <= m
      BY <3>2, <3>3, RepMaxOfTwo
    <3> QED BY <3>3, <3>4
  <2> QED BY <2>1, <2>2, <2>3, RepProduct, RepAssumption DEF ratioWeight
<1>8. PICK wt \in Nat : wt = dampen(ratioWeight(b), RepEntry(repEntries, k).off)
  BY <1>7, EntryIs, DampenBounded DEF RepInv
<1>9. PICK v : /\ repEntries' = repPut(repEntries, k, v) /\ v \in RepEntrySet(repNow + 1)
               /\ v.score <= repCap[k[1]] \/ RepBehind(k, repSetter)
  BY <1>2, <1>4, <1>8, PenaltyKeeps
<1>10. repNow \in Nat /\ RepGood(repEntries, repNow, repCap, repSetter)
  BY DEF RepInv
<1>11. /\ RepGood(repEntries', repNow + 1, repCap, repSetter)
       /\ DOMAIN repEntries' = DOMAIN repEntries \cup {k}
  <2>1. RepPuts(repEntries, repNow, repCap, repSetter, k, v, repEntries')
    BY <1>4, <1>9, <1>10 DEF RepPuts
  <2>2. RepWritten(repEntries, repNow, repCap, repSetter, k, v, repEntries')
    BY <2>1, PutKeeps
  <2> QED BY <2>2 DEF RepWritten
<1>12. \A z : RepPlainKeys(repEntries', z) \subseteq RepPlainKeys(repEntries, z)
  BY <1>3, <1>11 DEF RepPlainKeys, RepKeysOf
<1>13. RepFits(repEntries')
  BY <1>10, <1>12, FewerFit DEF RepInv
<1> QED BY <1>1, <1>3, <1>6, <1>11, <1>13, SectionEnds

\* The rewards and the observed hosts touch no worker and no cap.
LEMMA OthersMove ==
  ASSUME RepInv, repNow' \in {repNow, repNow + 1}, UNCHANGED <<repCap, repTask, repSetter>>,
         RepGood(repEntries', repNow', repCap, repSetter), RepFits(repEntries'), RepHostsOk(repStats')
  PROVE  RepMoves
<1>1. RepTasksOk' /\ RepSetterOk' /\ repNow' \in Nat
  BY DEF RepInv, RepTasksOk, RepSetterOk
<1>2. RepInv'
  BY <1>1 DEF RepInv, RepFits
<1>3. \A v \in RepWorkers : RepFresh(v)
  BY DEF RepFresh
<1> QED BY <1>2, <1>3 DEF RepMoves

LEMMA RewardsMove ==
  ASSUME RepInv,
         \/ \E asn \in RepASNs, ip \in RepIPs : ObserveIP(asn, ip) \/ RewardASN(asn, ip)
         \/ \E ip \in RepIPs : Reward("ip", ip)
         \/ \E ja4 \in RepJA4s : Reward("ja4", ja4)
  PROVE  RepMoves
<1>0. repNow \in Nat /\ RepGood(repEntries, repNow, repCap, repSetter) /\ RepFits(repEntries) /\ RepHostsOk(repStats)
  BY DEF RepInv
<1>1. ASSUME NEW asn \in RepASNs, NEW ip \in RepIPs, ObserveIP(asn, ip) PROVE RepMoves
  <2>1. PICK b \in boundASNStats([getASNStats(asn) EXCEPT !.seen = @ \cup {ip}]) :
          repStats' = repPut(repStats, asn, b)
    BY <1>1 DEF ObserveIP
  <2>2. repNow' = repNow + 1 /\ UNCHANGED <<repEntries, repCap, repTask, repDecay, repSetter>>
    BY <1>1 DEF ObserveIP
  <2>3. RepHosts(b)
    BY <1>0, <2>1, HostsGrow, TrimKeeps
  <2>4. RepHostsOk(repStats')
    BY <1>0, <2>1, <2>3, HostsPut
  <2>5. RepGood(repEntries, repNow + 1, repCap, repSetter)
    BY <1>0 DEF RepGood, RepEntrySet
  <2> QED BY <1>0, <2>2, <2>4, <2>5, OthersMove
<1>2. ASSUME NEW asn \in RepASNs, NEW ip \in RepIPs, RewardASN(asn, ip) PROVE RepMoves
  <2>1. PICK st : st = [getASNStats(asn) EXCEPT !.seen = @ \cup {ip}]
    OBVIOUS
  <2>2. PICK good : good = Max({Cardinality(st.seen) - Cardinality(st.off), 0})
    OBVIOUS
  <2>3. /\ repStats' = repPut(repStats, asn, st) /\ repNow' = repNow + 1
        /\ repEntries' = rewarded(repEntries, <<"asn", asn>>, (RepWeight * good) \div Cardinality(st.seen))
        /\ UNCHANGED <<repCap, repTask, repDecay, repSetter>>
    BY <1>2, <2>1, <2>2 DEF RewardASN
  <2>4. RepHosts(st) /\ Cardinality(st.seen) \in Nat \ {0} /\ Cardinality(st.off) \in Nat
    BY <1>0, <2>1, HostsGrow
  <2>5. good \in Nat
    <3>1. PICK d \in Int : d = Cardinality(st.seen) - Cardinality(st.off)
      BY <2>4
    <3>2. good = Max({d, 0})
      BY <2>2, <3>1
    <3>3. good \in {d, 0} /\ 0 <= good
      BY <3>2, RepMaxOfTwo
    <3> QED BY <3>3
  <2>6. (RepWeight * good) \div Cardinality(st.seen) \in Nat
    BY <2>4, <2>5, RepProduct, RepAssumption
  <2>7. <<"asn", asn>> \in RepKeys
    BY DEF RepKeys, RepKinds, RepBare
  <2>8. RepGood(repEntries', repNow + 1, repCap, repSetter) /\ RepFits(repEntries')
    BY <2>3, <2>6, <2>7, RewardKeeps
  <2>9. RepHostsOk(repStats')
    BY <1>0, <2>3, <2>4, HostsPut
  <2> QED BY <2>3, <2>8, <2>9, OthersMove
<1>3. ASSUME NEW kind, NEW key, <<kind, key>> \in RepKeys, Reward(kind, key) PROVE RepMoves
  <2>1. /\ repEntries' = rewarded(repEntries, <<kind, key>>, RepWeight) /\ repNow' = repNow + 1
        /\ UNCHANGED <<repStats, repCap, repTask, repDecay, repSetter>>
    BY <1>3 DEF Reward
  <2>2. RepGood(repEntries', repNow + 1, repCap, repSetter) /\ RepFits(repEntries')
    BY <1>3, <2>1, RewardKeeps, RepAssumption
  <2> QED BY <1>0, <2>1, <2>2, OthersMove
<1>4. /\ \A ip \in RepIPs : <<"ip", ip>> \in RepKeys
      /\ \A ja4 \in RepJA4s : <<"ja4", ja4>> \in RepKeys
  BY DEF RepKeys, RepKinds, RepBare
<1> QED BY <1>1, <1>2, <1>3, <1>4

\* A new cap: whoever is above it is ahead of the walk that starts.
LEMMA SetterStarts ==
  ASSUME RepInv, NEW kind \in RepSettable, NEW cap \in RepCaps, SetScoreCap(kind, cap)
  PROVE  RepMoves
<1>1. /\ repSetter.shard = 0 /\ cap < repCap[kind]
      /\ repCap' = [repCap EXCEPT ![kind] = cap]
      /\ repSetter' = [shard |-> 1, kind |-> kind, cap |-> cap]
      /\ UNCHANGED <<repEntries, repStats, repNow, repTask, repDecay>>
  BY DEF SetScoreCap
<1>2. kind \in RepKinds /\ cap \in Nat /\ repCap \in [RepKinds -> Nat]
  BY RepAssumption DEF RepInv, RepSetterOk
<1>3. /\ repCap' \in [RepKinds -> Nat] /\ repCap'[kind] = cap
      /\ \A z \in RepKinds : z # kind => repCap'[z] = repCap[z]
  BY <1>1, <1>2
<1>4. repSetter'.shard = 1 /\ repSetter'.kind = kind /\ repSetter'.cap = cap
  BY <1>1
<1>5. \A k \in RepKeys : k[1] \in RepKinds /\ (RepBehind(k, repSetter') \/ repCap'[k[1]] = repCap[k[1]])
  <2> SUFFICES ASSUME NEW k \in RepKeys
               PROVE  k[1] \in RepKinds /\ (RepBehind(k, repSetter') \/ repCap'[k[1]] = repCap[k[1]])
    OBVIOUS
  <2>1. k[1] \in RepKinds /\ k[2] \in RepBare
    BY DEF RepKeys
  <2>2. RepShardOf[k[2]] \in Nat /\ 1 <= RepShardOf[k[2]]
    BY <2>1, RepAssumption DEF RepShards
  <2> QED BY <1>3, <1>4, <2>1, <2>2 DEF RepBehind
<1>6. \A k : ~RepBehind(k, repSetter)
  BY <1>1 DEF RepBehind
<1>7. RepGood(repEntries, repNow, repCap', repSetter')
  <2>1. \A k \in DOMAIN repEntries : repEntries[k].score <= repCap[k[1]] /\ k \in RepKeys
    BY <1>6 DEF RepInv, RepGood
  <2>2. \A k \in DOMAIN repEntries : repEntries[k].score <= repCap'[k[1]] \/ RepBehind(k, repSetter')
    BY <1>5, <2>1
  <2> QED BY <2>2 DEF RepInv, RepGood
<1>8. RepTasksOk'
  <2>1. ASSUME NEW w \in RepWorkers PROVE RepTaskOk(repTask[w], repCap', repSetter')
    <3>1. RepTaskOk(repTask[w], repCap, repSetter)
      BY DEF RepInv, RepTasksOk
    <3>2. repTask[w].pc = "write" => repTask[w].plan[1] \in RepKeys
      BY SectionOf
    <3> QED BY <1>5, <1>6, <3>1, <3>2 DEF RepTaskOk
  <2> QED BY <1>1, <2>1 DEF RepInv, RepTasksOk
<1>9. RepSetterOk'
  BY <1>1, <1>2, <1>3, <1>4, RepAssumption DEF RepSetterOk
<1>10. RepInv'
  BY <1>1, <1>7, <1>8, <1>9 DEF RepInv
<1>11. \A v \in RepWorkers : RepFresh(v)
  BY <1>1 DEF RepFresh
<1> QED BY <1>10, <1>11 DEF RepMoves

\* One shard of the walk: what was behind the cap there no longer is.
LEMMA SetterWalks ==
  ASSUME RepInv, ClampShard
  PROVE  RepMoves
<1>1. PICK sh : sh = repSetter.shard
  OBVIOUS
<1>2. PICK K : K = {k \in RepKeysOf(repEntries, sh) : k[1] = repSetter.kind}
  OBVIOUS
<1>3. /\ sh # 0 /\ RepFree(sh)
      /\ repEntries' = [k \in DOMAIN repEntries |->
                          IF k \in K THEN [repEntries[k] EXCEPT !.score = Min({@, repSetter.cap})]
                          ELSE repEntries[k]]
      /\ repSetter' = IF sh = RepShardCount THEN RepNoSetter ELSE [repSetter EXCEPT !.shard = sh + 1]
      /\ UNCHANGED <<repCap, repNow, repTask, repDecay>>
  BY <1>1, <1>2 DEF ClampShard, clampLocked
<1>4. RepRestricts(repStats, repStats')
  <2>1. CASE repSetter.kind # "asn"
    <3>1. repStats' = repStats
      BY <2>1 DEF ClampShard
    <3>2. repStats = Restrict(repStats, DOMAIN repStats)
      BY DEF RepInv, RepHostsOk, Restrict
    <3> QED BY <3>1, <3>2 DEF RepRestricts
  <2>2. CASE repSetter.kind = "asn"
    <3>1. PICK D \in SUBSET DOMAIN repStats : repStats' = Restrict(repStats, D)
      BY <2>2 DEF ClampShard
    <3> QED BY <3>1 DEF RepRestricts
  <2> QED BY <2>1, <2>2
<1>5. RepHostsOk(repStats')
  BY <1>4, HostsRestrict DEF RepInv
<1>6. /\ repCap \in [RepKinds -> Nat] /\ repSetter.kind \in RepKinds /\ sh \in 1..RepShardCount
      /\ repSetter.cap = repCap[repSetter.kind]
      /\ repSetter = [shard |-> sh, kind |-> repSetter.kind, cap |-> repSetter.cap]
  BY <1>1, <1>3, RepAssumption DEF RepInv, RepSetterOk
<1>7. /\ sh = RepShardCount => repSetter' = RepNoSetter
      /\ sh # RepShardCount => repSetter' = [shard |-> sh + 1, kind |-> repSetter.kind, cap |-> repSetter.cap]
  BY <1>3, <1>6
<1>8. ASSUME NEW k \in RepKeys, RepBehind(k, repSetter), RepShardOf[k[2]] # sh
      PROVE  RepBehind(k, repSetter')
  <2>1. k[2] \in RepBare
    BY DEF RepKeys
  <2>2. RepShardOf[k[2]] \in 1..RepShardCount
    BY <2>1, RepAssumption DEF RepShards
  <2>3. sh <= RepShardOf[k[2]] /\ repSetter.kind = k[1]
    BY <1>1, <1>8 DEF RepBehind
  <2>4. sh # RepShardCount /\ sh + 1 <= RepShardOf[k[2]]
    BY <1>6, <1>8, <2>2, <2>3, RepAssumption
  <2>5. repSetter'.shard = sh + 1 /\ repSetter'.kind = repSetter.kind
    BY <1>7, <2>4
  <2> QED BY <1>6, <2>3, <2>4, <2>5 DEF RepBehind
<1>9. repNow \in Nat /\ RepGood(repEntries, repNow, repCap, repSetter) /\ RepFits(repEntries)
  BY DEF RepInv
<1>10. DOMAIN repEntries' = DOMAIN repEntries /\ repEntries' = [k \in DOMAIN repEntries' |-> repEntries'[k]]
  BY <1>3
<1>11. ASSUME NEW k \in DOMAIN repEntries
       PROVE  /\ repEntries'[k] \in RepEntrySet(repNow)
              /\ repEntries'[k].score <= repCap[k[1]] \/ RepBehind(k, repSetter')
  <2>1. PICK e : e = repEntries[k]
    OBVIOUS
  <2>2. e \in RepEntrySet(repNow) /\ k \in RepKeys /\ (e.score <= repCap[k[1]] \/ RepBehind(k, repSetter))
    BY <1>9, <2>1 DEF RepGood
  <2>3. CASE k \in K
    <3>1. PICK m : m = Min({e.score, repSetter.cap})
      OBVIOUS
    <3>2. m \in Nat /\ m <= repSetter.cap
      BY <1>6, <2>2, <3>1, RepMinOfTwo DEF RepEntrySet
    <3>3. repEntries'[k] = [e EXCEPT !.score = m]
      BY <1>3, <2>1, <2>3, <3>1
    <3>4. repEntries'[k] \in RepEntrySet(repNow) /\ repEntries'[k].score = m
      BY <2>2, <3>2, <3>3 DEF RepEntrySet
    <3> QED BY <1>2, <1>6, <2>3, <3>2, <3>4
  <2>4. CASE k \notin K
    <3>1. repEntries'[k] = e
      BY <1>3, <2>1, <2>4
    <3>2. RepBehind(k, repSetter) => RepShardOf[k[2]] # sh
      BY <1>2, <2>4 DEF RepBehind, RepKeysOf
    <3> QED BY <1>8, <2>2, <3>1, <3>2
  <2> QED BY <2>3, <2>4
<1>12. RepGood(repEntries', repNow, repCap, repSetter')
  BY <1>9, <1>10, <1>11 DEF RepGood
<1>13. RepFits(repEntries')
  <2>1. \A z : RepPlainKeys(repEntries', z) \subseteq RepPlainKeys(repEntries, z)
    BY <1>10 DEF RepPlainKeys, RepKeysOf
  <2> QED BY <1>9, <2>1, FewerFit
<1>14. RepTasksOk'
  <2>1. ASSUME NEW w \in RepWorkers PROVE RepTaskOk(repTask[w], repCap, repSetter')
    <3>1. RepTaskOk(repTask[w], repCap, repSetter)
      BY DEF RepInv, RepTasksOk
    <3>2. repTask[w].pc = "write" => repTask[w].plan[1] \in RepKeys /\ RepShardOf[repTask[w].plan[1][2]] # sh
      BY <1>3, SectionOf DEF RepFree
    <3> QED BY <1>8, <3>1, <3>2 DEF RepTaskOk
  <2> QED BY <1>3, <2>1 DEF RepInv, RepTasksOk
<1>15. RepSetterOk'
  <2>1. CASE sh = RepShardCount
    BY <1>3, <1>6, <1>7, <2>1, RepAssumption DEF RepSetterOk, RepNoSetter, RepKinds
  <2>2. CASE sh # RepShardCount
    <3>1. repSetter'.shard = sh + 1 /\ repSetter'.kind = repSetter.kind /\ repSetter'.cap = repSetter.cap
      BY <1>7, <2>2
    <3>2. sh + 1 \in 0..RepShardCount
      BY <1>6, <2>2, RepAssumption
    <3> QED BY <1>3, <1>6, <1>7, <2>2, <3>1, <3>2 DEF RepSetterOk
  <2> QED BY <2>1, <2>2
<1>16. RepInv'
  BY <1>3, <1>5, <1>9, <1>12, <1>13, <1>14, <1>15 DEF RepInv
<1>17. \A v \in RepWorkers : RepFresh(v)
  BY <1>3 DEF RepFresh
<1> QED BY <1>16, <1>17 DEF RepMoves

\* Decay lowers, drops and prunes; it raises and adds nothing.
LEMMA DecayMoves ==
  ASSUME RepInv, DecayShard
  PROVE  RepMoves
<1>1. PICK sh : sh = repDecay.shard
  OBVIOUS
<1>2. PICK E : E = [k \in DOMAIN repEntries |->
                      IF RepShardOf[k[2]] = sh THEN [repEntries[k] EXCEPT !.score = @ \div 2]
                      ELSE repEntries[k]]
  OBVIOUS
<1>3. PICK G, St : /\ G = Restrict(E, DOMAIN E \ decayed(E, sh))
                   /\ St = Restrict(repStats, {a \in DOMAIN repStats : <<"asn", a>> \notin decayed(E, sh)})
  OBVIOUS
<1>4. /\ repEntries' = pruneIfNeeded(G, St, sh)[1] /\ repStats' = pruneIfNeeded(G, St, sh)[2]
      /\ UNCHANGED <<repCap, repNow, repTask, repSetter>>
  BY <1>1, <1>2, <1>3 DEF DecayShard, deleteEntries
<1>5. repNow \in Nat /\ RepGood(repEntries, repNow, repCap, repSetter) /\ RepFits(repEntries) /\ RepHostsOk(repStats)
  BY DEF RepInv
<1>6. DOMAIN E = DOMAIN repEntries /\ E = [k \in DOMAIN E |-> E[k]]
  BY <1>2
<1>7. ASSUME NEW k \in DOMAIN repEntries
      PROVE  E[k] \in RepEntrySet(repNow) /\ (E[k].score <= repCap[k[1]] \/ RepBehind(k, repSetter))
  <2>1. PICK e : e = repEntries[k]
    OBVIOUS
  <2>2. e \in RepEntrySet(repNow) /\ k \in RepKeys /\ (e.score <= repCap[k[1]] \/ RepBehind(k, repSetter))
    BY <1>5, <2>1 DEF RepGood
  <2>3. CASE RepShardOf[k[2]] = sh
    <3>1. PICK m : m = e.score \div 2
      OBVIOUS
    <3>2. e.score \in Nat /\ m \in Nat /\ m <= e.score
      BY <2>2, <3>1 DEF RepEntrySet
    <3>3. E[k] = [e EXCEPT !.score = m]
      BY <1>2, <2>1, <2>3, <3>1
    <3>4. E[k] \in RepEntrySet(repNow) /\ E[k].score = m
      BY <2>2, <3>2, <3>3 DEF RepEntrySet
    <3>5. repCap[k[1]] \in Nat
      BY <2>2 DEF RepInv, RepSetterOk, RepKeys
    <3> QED BY <2>2, <3>2, <3>4, <3>5
  <2>4. CASE RepShardOf[k[2]] # sh
    BY <1>2, <2>1, <2>2, <2>4
  <2> QED BY <2>3, <2>4
<1>8. RepGood(E, repNow, repCap, repSetter)
  BY <1>5, <1>6, <1>7 DEF RepGood
<1>9. /\ RepGood(G, repNow, repCap, repSetter)
      /\ \A z : RepPlainKeys(G, z) \subseteq RepPlainKeys(E, z)
  BY <1>3, <1>8, RestrictKeeps
<1>10. RepHostsOk(St)
  <2>1. RepRestricts(repStats, St)
    BY <1>3 DEF RepRestricts
  <2> QED BY <1>5, <2>1, HostsRestrict
<1>11. RepPrunedTo(G, sh, repEntries') /\ RepRestricts(St, repStats')
  BY <1>4, <1>5, <1>9, <1>10, PruneLeaves
<1>12. PICK D \in SUBSET DOMAIN G : repEntries' = Restrict(G, D)
  BY <1>11 DEF RepPrunedTo
<1>13. /\ RepGood(repEntries', repNow, repCap, repSetter)
       /\ \A z : RepPlainKeys(repEntries', z) \subseteq RepPlainKeys(G, z)
  BY <1>9, <1>12, RestrictKeeps
<1>14. \A z : RepPlainKeys(repEntries', z) \subseteq RepPlainKeys(repEntries, z)
  <2>1. \A z : RepPlainKeys(E, z) = RepPlainKeys(repEntries, z)
    BY <1>6 DEF RepPlainKeys, RepKeysOf
  <2> QED BY <1>9, <1>13, <2>1
<1>15. RepFits(repEntries')
  BY <1>5, <1>14, FewerFit
<1>16. RepHostsOk(repStats')
  BY <1>10, <1>11, HostsRestrict
<1> QED BY <1>4, <1>13, <1>15, <1>16, OthersMove

LEMMA ReputationStep ==
  ASSUME RepInv, [ReputationNext]_reputationVars
  PROVE  RepMoves
<1>1. CASE StartDecay \/ UNCHANGED reputationVars
  <2>1. UNCHANGED <<repEntries, repStats, repCap, repNow, repTask, repSetter>>
    BY <1>1 DEF StartDecay, reputationVars
  <2> QED BY <2>1, OthersMove DEF RepInv
<1>2. CASE \E w \in RepWorkers : RecordSignal(w) \/ PenalizeReadCap(w) \/ Penalize(w) \/ PenalizeASN(w)
  BY <1>2, CallsMove, PenalizeMoves, PenalizeASNMoves
<1>3. CASE \/ \E asn \in RepASNs, ip \in RepIPs : ObserveIP(asn, ip) \/ RewardASN(asn, ip)
           \/ \E ip \in RepIPs : Reward("ip", ip)
           \/ \E ja4 \in RepJA4s : Reward("ja4", ja4)
  BY <1>3, RewardsMove
<1>4. CASE \E kind \in RepSettable, cap \in RepCaps : SetScoreCap(kind, cap)
  BY <1>4, SetterStarts
<1>5. CASE ClampShard \/ DecayShard
  BY <1>5, SetterWalks, DecayMoves
<1> QED BY <1>1, <1>2, <1>3, <1>4, <1>5 DEF ReputationNext

\* The invariant says what RepScoresKept claims of a state.
LEMMA ScoresKeptNow == RepInv => RepCapHolds /\ RepRatioAtMostOne /\ RepShardBounded
<1> SUFFICES ASSUME RepInv PROVE RepCapHolds /\ RepRatioAtMostOne /\ RepShardBounded
  OBVIOUS
<1>1. RepCapHolds
  BY DEF RepInv, RepGood, RepBehind, RepCapHolds
<1>2. RepShardBounded
  BY DEF RepInv, RepFits, RepPlainKeys, RepShardBounded
<1>3. ASSUME NEW a \in DOMAIN repStats
      PROVE  Cardinality(repStats[a].off) <= Cardinality(repStats[a].seen)
  <2>1. PICK st : st = repStats[a]
    OBVIOUS
  <2>2. RepHosts(st)
    BY <2>1 DEF RepInv, RepHostsOk
  <2>3. Cardinality(st.off) \in Nat /\ Cardinality(st.seen) \in Nat
    BY <2>2, FS_CardinalityType DEF RepHosts
  <2>4. CASE st.off \subseteq st.seen
    BY <2>1, <2>2, <2>4, FS_Subset DEF RepHosts
  <2>5. CASE RepMaxHosts <= Cardinality(st.seen)
    BY <2>1, <2>2, <2>3, <2>5, RepAssumption DEF RepHosts
  <2> QED BY <2>2, <2>4, <2>5 DEF RepHosts
<1> QED BY <1>1, <1>2, <1>3 DEF RepRatioAtMostOne

\* For any shards, keys, workers, caps and weights: a cap holds once its setter
\* has returned, an ASN's offenders are no more than its hosts, a shard keeps its
\* budget and a prune spares the penalty that caused it (Penalize, SetIPScoreCap,
\* boundASNStatsLocked, pruneIfNeededLocked).
THEOREM ScoresAreKept == ReputationSpec => RepScoresKept
<1>1. RepInv /\ [ReputationNext]_reputationVars =>
        RepInv' /\ [\A w \in RepWorkers :
                      repTask[w].pc = "write" /\ repTask'[w].pc # "write" =>
                        repTask[w].plan[1] \in DOMAIN repEntries']_reputationVars
  BY ReputationStep DEF RepMoves, RepFresh
<1> QED BY <1>1, ReputationInitial, ScoresKeptNow, PTL DEF ReputationSpec, RepScoresKept, RepFreshSurvives

-----------------------------------------------------------------------------
(***************************************************************************)
(* The engine's frame: a window is whole and in order, and what Stop saves *)
(* is what was known when the last worker had left.                        *)
(***************************************************************************)

EngSignals == [key : EngKeys, n : Nat]
EngSnaps   == [st : {"whole", "torn", "absent"},
               active : [EngKeys -> Int], abusive : [EngKeys -> Int]]

\* The queues: every signal with the owner of its key, in the order of emission.
EngQueuesOk ==
  /\ engRoute \in [EngKeys -> EngShards] /\ engEmitted \in Nat
  /\ engQueue \in [EngShards -> Seq(EngSignals)]
  /\ \A s \in EngShards : \A i \in 1..Len(engQueue[s]) :
       engQueue[s][i].n < engEmitted /\ engRoute[engQueue[s][i].key] = s
  /\ \A s \in EngShards : \A i, j \in 1..Len(engQueue[s]) :
       i < j => engQueue[s][i].n < engQueue[s][j].n

\* The windows: likewise, and ahead of what is queued.
EngWindowsOk ==
  /\ engWin \in [EngShards -> [EngKeys -> Seq(Nat)]]
  /\ \A s \in EngShards, k \in EngKeys :
       /\ engWin[s][k] # <<>> => engRoute[k] = s
       /\ \A i, j \in 1..Len(engWin[s][k]) : i < j => engWin[s][k][i] < engWin[s][k][j]
       /\ \A i \in 1..Len(engWin[s][k]) : engWin[s][k][i] < engEmitted
       /\ \A i \in 1..Len(engWin[s][k]), j \in 1..Len(engQueue[s]) :
            engWin[s][k][i] < engQueue[s][j].n

EngMarksOk ==
  /\ engActive \in [EngKeys -> Int] /\ engAbusive \in [EngKeys -> Int] /\ engNow \in Nat

\* A snapshot or a file shows the marks that are still fresh.
EngShows(f) ==
  \A k \in EngKeys :
    /\ unexpired(engActive[k]) => f.active[k] = engActive[k]
    /\ unexpired(engAbusive[k]) => f.abusive[k] = engAbusive[k]

\* How far Stop has come says who is gone.
EngStopOk ==
  /\ engPhase \in {"up", "saver", "workers", "save", "stopped", "unsaved"}
  /\ engWorker \in [EngShards -> [pc : {"select", "evaluate", "gone"}, left : SUBSET EngKeys]]
  /\ engPhase \in {"workers", "save", "stopped", "unsaved"} => saverDone
  /\ engPhase \in {"save", "stopped", "unsaved"} => workersDone

\* One save at a time: the temporary file about to be renamed is its copy.
EngSavesOk ==
  /\ engSave \in [Savers -> [pc : {"idle", "open", "write", "rename", "gone"}, snap : EngSnaps]]
  /\ engSave["stop"].pc \in {"open", "write", "rename"} => engPhase = "save" /\ EngShows(engSave["stop"].snap)
  /\ engSave["stop"].pc # "gone"
  /\ \A p \in Savers : engSave[p].pc \in {"open", "write", "rename"} => engSave[p].snap.st = "whole"
  /\ \A p \in Savers : engSave[p].pc = "rename" => engTmp = engSave[p].snap
  /\ engPhase = "stopped" => EngShows(engFile)
  /\ engTmp \in EngSnaps /\ engFile \in EngSnaps

EngInv == EngQueuesOk /\ EngWindowsOk /\ EngMarksOk /\ EngStopOk /\ EngSavesOk /\ EngFileWhole

LEMMA EngineInitial == EngineInit => EngInv
<1> SUFFICES ASSUME EngineInit PROVE EngInv
  OBVIOUS
<1>1. EngQueuesOk
  BY DEF EngineInit, EngQueuesOk, NewQueues
<1>2. EngWindowsOk
  BY DEF EngineInit, EngWindowsOk, NewQueues, NewWindow
<1>3. EngMarksOk
  BY DEF EngineInit, EngMarksOk, Unmarked
<1>4. EngStopOk
  BY DEF EngineInit, EngStopOk, NewWorkers
<1>5. EngSavesOk
  BY DEF EngineInit, EngSavesOk, NewSavers, Savers, NoMarks, Absent, Unmarked, EngSnaps
<1>6. EngFileWhole
  BY DEF EngineInit, EngFileWhole, Absent, Torn, NoMarks
<1> QED BY <1>1, <1>2, <1>3, <1>4, <1>5, <1>6 DEF EngInv

\* The marks change, the rest of what is saved does not: no save of Stop is under way.
EngBeforeStop == engPhase \notin {"save", "stopped", "unsaved"}

LEMMA MarkedIs ==
  ASSUME NEW table \in [EngKeys -> Int], NEW k \in EngKeys, engNow \in Nat
  PROVE  markedIn(table, k) \in [EngKeys -> Int]
<1>1. [table EXCEPT ![k] = engNow] \in [EngKeys -> Int]
  OBVIOUS
<1>2. markedIn(table, k) = table \/ markedIn(table, k) = [table EXCEPT ![k] = engNow]
  BY DEF markedIn
<1> QED BY <1>1, <1>2

LEMMA KeptIs ==
  ASSUME NEW table \in [EngKeys -> Int]
  PROVE  /\ keptMarks(table) \in [EngKeys -> Int]
         /\ \A k \in EngKeys : unexpired(table[k]) => keptMarks(table)[k] = table[k]
         /\ \A k \in EngKeys : unexpired(keptMarks(table)[k]) => keptMarks(table)[k] = table[k]
<1>1. keptMarks(table) = [k \in EngKeys |-> IF unexpired(table[k]) THEN table[k] ELSE -1]
  BY DEF keptMarks
<1>2. ~unexpired(-1)
  BY DEF unexpired
<1> QED BY <1>1, <1>2

\* What is queued or in a window is numbered, and numbered below the count.
LEMMA QueuedIs ==
  ASSUME EngInv, NEW s \in EngShards, NEW i \in 1..Len(engQueue[s])
  PROVE  /\ engQueue[s][i] \in EngSignals
         /\ engQueue[s][i].key \in EngKeys /\ engRoute[engQueue[s][i].key] = s
         /\ engQueue[s][i].n \in Nat /\ engQueue[s][i].n < engEmitted /\ engQueue[s][i].n < engEmitted + 1
<1>1. engQueue[s] \in Seq(EngSignals) /\ engEmitted \in Nat
  BY DEF EngInv, EngQueuesOk
<1>2. engQueue[s][i] \in EngSignals
  BY <1>1
<1>3. engQueue[s][i].n < engEmitted /\ engRoute[engQueue[s][i].key] = s
  BY DEF EngInv, EngQueuesOk
<1>4. engQueue[s][i].n \in Nat /\ engQueue[s][i].key \in EngKeys
  BY <1>2 DEF EngSignals
<1> QED BY <1>1, <1>2, <1>3, <1>4

LEMMA WindowIs ==
  ASSUME EngInv, NEW s \in EngShards, NEW k \in EngKeys, NEW i \in 1..Len(engWin[s][k])
  PROVE  engWin[s][k][i] \in Nat /\ engWin[s][k][i] < engEmitted /\ engWin[s][k][i] < engEmitted + 1
<1>1. engWin[s][k] \in Seq(Nat) /\ engEmitted \in Nat
  BY DEF EngInv, EngQueuesOk, EngWindowsOk
<1>2. engWin[s][k][i] \in Nat
  BY <1>1
<1>3. engWin[s][k][i] < engEmitted
  BY DEF EngInv, EngWindowsOk
<1> QED BY <1>1, <1>2, <1>3

\* A signal joins the queue of its owner, last of all, or is dropped.
LEMMA EmitMoves ==
  ASSUME EngInv, NEW k \in EngKeys, EmitSignal(k)
  PROVE  EngInv'
<1>1. PICK s \in EngShards : s = engRoute[k]
  BY DEF EngInv, EngQueuesOk
<1>2. /\ engEmitted' = engEmitted + 1
      /\ UNCHANGED <<engRoute, engWin, engWorker, engMarks, engSave, engDisk, engPhase, engNow>>
      /\ \/ engQueue' = [engQueue EXCEPT ![s] = Append(@, [key |-> k, n |-> engEmitted])]
         \/ engQueue' = engQueue
  BY <1>1 DEF EmitSignal, shardOf
<1>3. engEmitted \in Nat /\ engQueue \in [EngShards -> Seq(EngSignals)]
  BY DEF EngInv, EngQueuesOk
<1>4. CASE engQueue' = engQueue
  <2>1. EngQueuesOk'
    <3>1. \A t \in EngShards : \A i \in 1..Len(engQueue[t]) :
            engQueue[t][i].n < engEmitted + 1 /\ engRoute[engQueue[t][i].key] = t
      BY QueuedIs
    <3>2. engEmitted + 1 \in Nat
      BY <1>3
    <3> QED BY <1>2, <1>4, <3>1, <3>2 DEF EngInv, EngQueuesOk
  <2>2. EngWindowsOk'
    <3>1. \A t \in EngShards, z \in EngKeys : \A i \in 1..Len(engWin[t][z]) : engWin[t][z][i] < engEmitted + 1
      BY WindowIs
    <3> QED BY <1>2, <1>4, <3>1 DEF EngInv, EngWindowsOk
  <2> QED BY <1>2, <2>1, <2>2 DEF EngInv, EngMarksOk, EngStopOk, EngSavesOk, EngFileWhole, engMarks, engDisk, EngShows, unexpired, saverDone, workersDone
<1>5. CASE engQueue' = [engQueue EXCEPT ![s] = Append(@, [key |-> k, n |-> engEmitted])]
  <2>1. PICK sig \in EngSignals : sig = [key |-> k, n |-> engEmitted] /\ sig.key = k /\ sig.n = engEmitted
    <3>1. [key |-> k, n |-> engEmitted] \in EngSignals
      BY <1>3 DEF EngSignals
    <3> QED BY <3>1
  <2>2. PICK q \in Seq(EngSignals) : q = engQueue[s]
    BY <1>3
  <2>3. /\ engQueue' \in [EngShards -> Seq(EngSignals)] /\ engQueue'[s] = Append(q, sig)
        /\ \A t \in EngShards : t # s => engQueue'[t] = engQueue[t]
    BY <1>3, <1>5, <2>1, <2>2
  <2>4. /\ Len(engQueue'[s]) = Len(q) + 1 /\ engQueue'[s][Len(q) + 1] = sig
        /\ \A i \in 1..Len(q) : engQueue'[s][i] = q[i]
    BY <2>2, <2>3
  <2>5. \A i \in 1..Len(q) : q[i].n \in Nat /\ q[i].n < engEmitted /\ engRoute[q[i].key] = s
    BY <2>2, QueuedIs
  <2>6. \A t \in EngShards : \A i \in 1..Len(engQueue'[t]) :
          engQueue'[t][i].n < engEmitted + 1 /\ engRoute[engQueue'[t][i].key] = t
    <3> SUFFICES ASSUME NEW t \in EngShards, NEW i \in 1..Len(engQueue'[t])
                 PROVE  engQueue'[t][i].n < engEmitted + 1 /\ engRoute[engQueue'[t][i].key] = t
      OBVIOUS
    <3>1. CASE t = s /\ i = Len(q) + 1
      BY <1>1, <1>3, <2>1, <2>4, <3>1
    <3>2. CASE t = s /\ i # Len(q) + 1
      <4>1. i \in 1..Len(q)
        BY <2>2, <2>4, <3>2
      <4> QED BY <1>3, <2>4, <2>5, <3>2, <4>1
    <3>3. CASE t # s
      BY <2>3, <3>3, QueuedIs
    <3> QED BY <3>1, <3>2, <3>3
  <2>7. \A t \in EngShards : \A i, j \in 1..Len(engQueue'[t]) : i < j => engQueue'[t][i].n < engQueue'[t][j].n
    <3> SUFFICES ASSUME NEW t \in EngShards, NEW i \in 1..Len(engQueue'[t]), NEW j \in 1..Len(engQueue'[t]), i < j
                 PROVE  engQueue'[t][i].n < engQueue'[t][j].n
      OBVIOUS
    <3>1. CASE t = s /\ j = Len(q) + 1
      BY <2>1, <2>2, <2>4, <2>5, <3>1
    <3>2. CASE t = s /\ j # Len(q) + 1
      BY <2>2, <2>4, <3>2 DEF EngInv, EngQueuesOk
    <3>3. CASE t # s
      BY <2>3, <3>3 DEF EngInv, EngQueuesOk
    <3> QED BY <3>1, <3>2, <3>3
  <2>8. EngQueuesOk'
    BY <1>2, <1>3, <2>3, <2>6, <2>7 DEF EngInv, EngQueuesOk
  <2>9. \A t \in EngShards, z \in EngKeys :
          \A i \in 1..Len(engWin[t][z]), j \in 1..Len(engQueue'[t]) : engWin[t][z][i] < engQueue'[t][j].n
    <3> SUFFICES ASSUME NEW t \in EngShards, NEW z \in EngKeys, NEW i \in 1..Len(engWin[t][z]), NEW j \in 1..Len(engQueue'[t])
                 PROVE  engWin[t][z][i] < engQueue'[t][j].n
      OBVIOUS
    <3>1. CASE t = s /\ j = Len(q) + 1
      <4>1. engWin[t][z][i] < engEmitted
        BY DEF EngInv, EngWindowsOk
      <4> QED BY <2>1, <2>4, <3>1, <4>1
    <3>2. CASE t = s /\ j # Len(q) + 1
      <4>1. j \in 1..Len(q) /\ engQueue'[t][j] = engQueue[t][j] /\ q = engQueue[t]
        BY <2>2, <2>4, <3>2
      <4>2. engWin[t][z][i] < engQueue[t][j].n
        BY <4>1 DEF EngInv, EngWindowsOk
      <4> QED BY <4>1, <4>2
    <3>3. CASE t # s
      BY <2>3, <3>3 DEF EngInv, EngWindowsOk
    <3> QED BY <3>1, <3>2, <3>3
  <2>10. \A t \in EngShards, z \in EngKeys : \A i \in 1..Len(engWin[t][z]) : engWin[t][z][i] < engEmitted + 1
    BY WindowIs
  <2>11. EngWindowsOk'
    BY <1>2, <2>9, <2>10 DEF EngInv, EngWindowsOk
  <2> QED BY <1>2, <2>8, <2>11 DEF EngInv, EngMarksOk, EngStopOk, EngSavesOk, EngFileWhole, engMarks, engDisk, EngShows, unexpired, saverDone, workersDone
<1> QED BY <1>2, <1>4, <1>5

\* A worker that has not gone: Stop has not come to its save.
LEMMA WorkerThere ==
  ASSUME EngInv, NEW s \in EngShards, engWorker[s].pc # "gone"
  PROVE  EngBeforeStop
BY DEF EngInv, EngStopOk, workersDone, EngBeforeStop

\* Marks may change as long as Stop has not come to its save.
LEMMA SavesStay ==
  ASSUME EngInv, EngBeforeStop, UNCHANGED <<engSave, engDisk, engPhase>>
  PROVE  EngSavesOk' /\ EngFileWhole'
<1>1. engSave["stop"].pc \notin {"open", "write", "rename"} /\ engPhase # "stopped"
  BY DEF EngInv, EngSavesOk, EngBeforeStop
<1> QED BY <1>1 DEF EngInv, EngSavesOk, EngFileWhole, engDisk

LEMMA SignalMoves ==
  ASSUME EngInv, NEW s \in EngShards, engSignal(s)
  PROVE  EngInv'
<1>1. PICK q \in Seq(EngSignals) : q = engQueue[s] /\ q # <<>>
  BY DEF engSignal, EngInv, EngQueuesOk
<1>2. PICK sig : sig = Head(q)
  OBVIOUS
<1>3. sig \in EngSignals /\ sig = q[1] /\ Len(q) \in Nat \ {0}
  BY <1>1, <1>2
<1>4. PICK z \in EngKeys, num \in Nat : z = sig.key /\ num = sig.n
  BY <1>3 DEF EngSignals
<1>5. /\ engWorker[s].pc = "select"
      /\ engActive' = markedIn(engActive, z) /\ UNCHANGED engAbusive
      /\ engWin' = [engWin EXCEPT ![s][z] = Append(@, num)]
      /\ engQueue' = [engQueue EXCEPT ![s] = Tail(@)]
      /\ UNCHANGED <<engRoute, engWorker, engSave, engDisk, engPhase, engEmitted, engNow>>
  BY <1>1, <1>2, <1>4 DEF engSignal, markASNActive
<1>6. /\ num < engEmitted /\ engRoute[z] = s
      /\ \A j \in 1..Len(q) : 1 < j => num < q[j].n
  <2>1. 1 \in 1..Len(engQueue[s]) /\ engQueue[s][1].key = z /\ engQueue[s][1].n = num
    BY <1>1, <1>3, <1>4
  <2>2. num < engEmitted /\ engRoute[z] = s
    BY <2>1, QueuedIs
  <2>3. \A j \in 1..Len(engQueue[s]) : 1 < j => engQueue[s][1].n < engQueue[s][j].n
    BY <2>1 DEF EngInv, EngQueuesOk
  <2> QED BY <1>1, <2>1, <2>2, <2>3
<1>7. /\ engQueue \in [EngShards -> Seq(EngSignals)] /\ engWin \in [EngShards -> [EngKeys -> Seq(Nat)]]
  BY DEF EngInv, EngQueuesOk, EngWindowsOk
<1>8. /\ engQueue' \in [EngShards -> Seq(EngSignals)] /\ engQueue'[s] = Tail(q)
      /\ \A t \in EngShards : t # s => engQueue'[t] = engQueue[t]
  BY <1>1, <1>5, <1>7
<1>9. Len(engQueue'[s]) = Len(q) - 1 /\ \A j \in 1..(Len(q) - 1) : engQueue'[s][j] = q[j + 1]
  BY <1>1, <1>3, <1>8
<1>10. EngQueuesOk'
  <2>1. \A t \in EngShards : \A i \in 1..Len(engQueue'[t]) :
          engQueue'[t][i].n < engEmitted /\ engRoute[engQueue'[t][i].key] = t
    <3> SUFFICES ASSUME NEW t \in EngShards, NEW i \in 1..Len(engQueue'[t])
                 PROVE  engQueue'[t][i].n < engEmitted /\ engRoute[engQueue'[t][i].key] = t
      OBVIOUS
    <3>1. CASE t = s
      <4>1. i \in 1..(Len(q) - 1) /\ i + 1 \in 1..Len(q)
        BY <1>3, <1>9, <3>1
      <4> QED BY <1>1, <1>9, <3>1, <4>1 DEF EngInv, EngQueuesOk
    <3>2. CASE t # s
      BY <1>8, <3>2 DEF EngInv, EngQueuesOk
    <3> QED BY <3>1, <3>2
  <2>2. \A t \in EngShards : \A i, j \in 1..Len(engQueue'[t]) : i < j => engQueue'[t][i].n < engQueue'[t][j].n
    <3> SUFFICES ASSUME NEW t \in EngShards, NEW i \in 1..Len(engQueue'[t]), NEW j \in 1..Len(engQueue'[t]), i < j
                 PROVE  engQueue'[t][i].n < engQueue'[t][j].n
      OBVIOUS
    <3>1. CASE t = s
      <4>1. /\ i \in 1..(Len(q) - 1) /\ i + 1 \in 1..Len(q) /\ j \in 1..(Len(q) - 1) /\ j + 1 \in 1..Len(q)
            /\ i + 1 < j + 1
        BY <1>3, <1>9, <3>1
      <4> QED BY <1>1, <1>9, <3>1, <4>1 DEF EngInv, EngQueuesOk
    <3>2. CASE t # s
      BY <1>8, <3>2 DEF EngInv, EngQueuesOk
    <3> QED BY <3>1, <3>2
  <2>3. engRoute \in [EngKeys -> EngShards] /\ engEmitted \in Nat /\ UNCHANGED <<engRoute, engEmitted>>
    BY <1>5 DEF EngInv, EngQueuesOk
  <2> QED BY <1>8, <2>1, <2>2, <2>3 DEF EngQueuesOk
<1>11. PICK w \in Seq(Nat) : w = engWin[s][z]
  BY <1>7
<1>12. /\ engWin' \in [EngShards -> [EngKeys -> Seq(Nat)]] /\ engWin'[s][z] = Append(w, num)
       /\ \A t \in EngShards, k \in EngKeys : t # s \/ k # z => engWin'[t][k] = engWin[t][k]
  BY <1>5, <1>7, <1>11
<1>13. /\ Len(engWin'[s][z]) = Len(w) + 1 /\ engWin'[s][z][Len(w) + 1] = num
       /\ \A i \in 1..Len(w) : engWin'[s][z][i] = w[i]
  BY <1>11, <1>12
<1>14. \A i \in 1..Len(w) : w[i] < num /\ w[i] < engEmitted
  <2> SUFFICES ASSUME NEW i \in 1..Len(w) PROVE w[i] < num /\ w[i] < engEmitted
    OBVIOUS
  <2>1. 1 \in 1..Len(engQueue[s]) /\ engQueue[s][1].n = num
    BY <1>1, <1>3, <1>4
  <2>2. i \in 1..Len(engWin[s][z]) /\ engWin[s][z][i] = w[i]
    BY <1>11
  <2>3. engWin[s][z][i] < engQueue[s][1].n
    BY <2>1, <2>2 DEF EngInv, EngWindowsOk
  <2> QED BY <2>1, <2>2, <2>3, WindowIs
<1>15. EngWindowsOk'
  <2>1. ASSUME NEW t \in EngShards, NEW k \in EngKeys
        PROVE  /\ engWin'[t][k] # <<>> => engRoute[k] = t
               /\ \A i, j \in 1..Len(engWin'[t][k]) : i < j => engWin'[t][k][i] < engWin'[t][k][j]
               /\ \A i \in 1..Len(engWin'[t][k]) : engWin'[t][k][i] < engEmitted
               /\ \A i \in 1..Len(engWin'[t][k]), j \in 1..Len(engQueue'[t]) :
                    engWin'[t][k][i] < engQueue'[t][j].n
    <3>1. CASE t = s /\ k = z
      <4>1. \A i, j \in 1..Len(engWin'[t][k]) : i < j => engWin'[t][k][i] < engWin'[t][k][j]
        <5> SUFFICES ASSUME NEW i \in 1..Len(engWin'[t][k]), NEW j \in 1..Len(engWin'[t][k]), i < j
                     PROVE  engWin'[t][k][i] < engWin'[t][k][j]
          OBVIOUS
        <5>0. /\ i \in 1..(Len(w) + 1) /\ j \in 1..(Len(w) + 1) /\ Len(w) \in Nat
              /\ i \in 1..Len(w) /\ engWin'[t][k][i] = w[i]
          BY <1>11, <1>13, <3>1
        <5>1. CASE j = Len(w) + 1
          BY <1>13, <1>14, <3>1, <5>0, <5>1
        <5>2. CASE j # Len(w) + 1
          <6>1. j \in 1..Len(w) /\ engWin'[t][k][j] = w[j]
            BY <1>13, <3>1, <5>0, <5>2
          <6>2. w[i] < w[j]
            BY <1>11, <5>0, <6>1 DEF EngInv, EngWindowsOk
          <6> QED BY <5>0, <6>1, <6>2
        <5> QED BY <5>1, <5>2
      <4>2. \A i \in 1..Len(engWin'[t][k]) : engWin'[t][k][i] < engEmitted
        <5> TAKE i \in 1..Len(engWin'[t][k])
        <5>1. i \in 1..(Len(w) + 1) /\ Len(w) \in Nat
          BY <1>11, <1>13, <3>1
        <5>2. CASE i = Len(w) + 1
          BY <1>6, <1>13, <3>1, <5>2
        <5>3. CASE i # Len(w) + 1
          <6>1. i \in 1..Len(w)
            BY <5>1, <5>3
          <6> QED BY <1>13, <1>14, <3>1, <6>1
        <5> QED BY <5>2, <5>3
      <4>3. \A i \in 1..Len(engWin'[t][k]), j \in 1..Len(engQueue'[t]) : engWin'[t][k][i] < engQueue'[t][j].n
        <5> SUFFICES ASSUME NEW i \in 1..Len(engWin'[t][k]), NEW j \in 1..Len(engQueue'[t])
                     PROVE  engWin'[t][k][i] < engQueue'[t][j].n
          OBVIOUS
        <5>1. j \in 1..(Len(q) - 1) /\ j + 1 \in 1..Len(q) /\ 1 < j + 1 /\ engQueue'[t][j] = q[j + 1]
          BY <1>3, <1>9, <3>1
        <5>2. CASE i = Len(w) + 1
          BY <1>6, <1>13, <3>1, <5>1, <5>2
        <5>3. CASE i # Len(w) + 1
          <6>0. i \in 1..(Len(w) + 1) /\ Len(w) \in Nat
            BY <1>11, <1>13, <3>1
          <6>1. i \in 1..Len(w) /\ engWin'[t][k][i] = w[i]
            BY <1>13, <3>1, <5>3, <6>0
          <6> QED BY <1>1, <1>11, <5>1, <6>1 DEF EngInv, EngWindowsOk
        <5> QED BY <5>2, <5>3
      <4> QED BY <1>6, <3>1, <4>1, <4>2, <4>3
    <3>2. CASE t = s /\ k # z
      <4>1. engWin'[t][k] = engWin[t][k]
        BY <1>12, <3>2
      <4>2. ASSUME NEW i \in 1..Len(engWin[t][k]), NEW j \in 1..Len(engQueue'[t])
            PROVE  engWin[t][k][i] < engQueue'[t][j].n
        <5>1. j \in 1..(Len(q) - 1) /\ j + 1 \in 1..Len(q) /\ engQueue'[t][j] = q[j + 1]
          BY <1>3, <1>9, <3>2
        <5> QED BY <1>1, <3>2, <5>1 DEF EngInv, EngWindowsOk
      <4> QED BY <4>1, <4>2 DEF EngInv, EngWindowsOk
    <3>3. CASE t # s
      <4>1. engWin'[t][k] = engWin[t][k] /\ engQueue'[t] = engQueue[t]
        BY <1>8, <1>12, <3>3
      <4> QED BY <4>1 DEF EngInv, EngWindowsOk
    <3> QED BY <3>1, <3>2, <3>3
  <2>2. UNCHANGED <<engRoute, engEmitted>>
    BY <1>5
  <2> QED BY <1>12, <2>1, <2>2 DEF EngWindowsOk
<1>16. EngMarksOk'
  BY <1>5, MarkedIs DEF EngInv, EngMarksOk
<1>17. EngSavesOk' /\ EngFileWhole'
  BY <1>5, WorkerThere, SavesStay
<1>18. EngStopOk'
  BY <1>5 DEF EngInv, EngStopOk, saverDone, workersDone
<1> QED BY <1>10, <1>15, <1>16, <1>17, <1>18 DEF EngInv

\* A worker goes from one state to another; the rest of what Stop waits for stays.
LEMMA WorkerMoves ==
  ASSUME EngInv, NEW s \in EngShards, NEW t \in [pc : {"select", "evaluate", "gone"}, left : SUBSET EngKeys],
         engWorker' = [engWorker EXCEPT ![s] = t], engWorker[s].pc # "gone",
         UNCHANGED <<engSave, engPhase>>
  PROVE  EngStopOk'
BY DEF EngInv, EngStopOk, saverDone, workersDone

LEMMA WorkersMove ==
  ASSUME EngInv, NEW s \in EngShards,
         windowTick(s) \/ workerExit(s) \/ \E k \in EngKeys : evaluateKey(s, k)
  PROVE  EngInv'
<1>0. engWorker[s] \in [pc : {"select", "evaluate", "gone"}, left : SUBSET EngKeys]
  BY DEF EngInv, EngStopOk
<1>1. CASE windowTick(s)
  <2>1. PICK left : left = {k \in EngKeys : engWin[s][k] # <<>>}
    OBVIOUS
  <2>2. /\ engWorker[s].pc = "select"
        /\ engWorker' = [engWorker EXCEPT ![s] = [pc |-> "evaluate", left |-> left]]
        /\ UNCHANGED <<engRoute, engQueue, engWin, engMarks, engSave, engDisk, engPhase, engEmitted, engNow>>
    BY <1>1, <2>1 DEF windowTick
  <2>3. [pc |-> "evaluate", left |-> left] \in [pc : {"select", "evaluate", "gone"}, left : SUBSET EngKeys]
    BY <2>1
  <2>4. EngStopOk'
    BY <2>2, <2>3, WorkerMoves
  <2> QED BY <2>2, <2>4, WorkerThere, SavesStay DEF EngInv, EngQueuesOk, EngWindowsOk, EngMarksOk, engMarks
<1>2. CASE workerExit(s)
  <2>1. /\ engWorker[s].pc = "select"
        /\ engWorker' = [engWorker EXCEPT ![s].pc = "gone"]
        /\ UNCHANGED <<engRoute, engQueue, engWin, engMarks, engSave, engDisk, engPhase, engEmitted, engNow>>
    BY <1>2 DEF workerExit
  <2>2. PICK t : t = [engWorker[s] EXCEPT !.pc = "gone"]
    OBVIOUS
  <2>3. t \in [pc : {"select", "evaluate", "gone"}, left : SUBSET EngKeys]
    BY <1>0, <2>2
  <2>4. engWorker' = [engWorker EXCEPT ![s] = t]
    BY <2>1, <2>2
  <2>5. EngStopOk'
    BY <2>1, <2>3, <2>4, WorkerMoves
  <2> QED BY <2>1, <2>5, WorkerThere, SavesStay DEF EngInv, EngQueuesOk, EngWindowsOk, EngMarksOk, engMarks
<1>3. ASSUME NEW k \in EngKeys, evaluateKey(s, k) PROVE EngInv'
  <2>1. PICK t : t = [pc |-> IF engWorker[s].left = {k} THEN "select" ELSE "evaluate",
                      left |-> engWorker[s].left \ {k}]
    OBVIOUS
  <2>2. /\ engWorker[s].pc = "evaluate"
        /\ engWorker' = [engWorker EXCEPT ![s] = t]
        /\ UNCHANGED <<engRoute, engQueue, engSave, engDisk, engPhase, engEmitted, engNow>>
    BY <1>3, <2>1 DEF evaluateKey
  <2>3. \/ engActive' = engActive /\ engAbusive' = engAbusive
        \/ engAbusive' = markedIn(engAbusive, k) /\ engActive' = engActive
        \/ engAbusive' = markedIn(engAbusive, k) /\ engActive' = markedIn(engActive, k)
    BY <1>3 DEF evaluateKey, markASNAbusive, engMarks
  <2>4. engWin' = [engWin EXCEPT ![s] = NewWindow] \/ engWin' = engWin
    BY <1>3 DEF evaluateKey, EngInv, EngWindowsOk
  <2>5. EngMarksOk'
    <3>1. /\ engActive \in [EngKeys -> Int] /\ engAbusive \in [EngKeys -> Int] /\ engNow \in Nat
          /\ markedIn(engActive, k) \in [EngKeys -> Int] /\ markedIn(engAbusive, k) \in [EngKeys -> Int]
      BY MarkedIs DEF EngInv, EngMarksOk
    <3> QED BY <2>2, <2>3, <3>1 DEF EngMarksOk
  <2>6. EngWindowsOk'
    <3>1. CASE engWin' = engWin
      BY <2>2, <3>1 DEF EngInv, EngWindowsOk
    <3>2. CASE engWin' = [engWin EXCEPT ![s] = NewWindow]
      <4>1. NewWindow \in [EngKeys -> Seq(Nat)] /\ \A z \in EngKeys : NewWindow[z] = <<>>
        BY DEF NewWindow
      <4>2. /\ engWin' \in [EngShards -> [EngKeys -> Seq(Nat)]]
            /\ \A z \in EngKeys : engWin'[s][z] = <<>>
            /\ \A x \in EngShards : x # s => engWin'[x] = engWin[x]
        BY <3>2, <4>1 DEF EngInv, EngWindowsOk
      <4>3. ASSUME NEW x \in EngShards, NEW z \in EngKeys
            PROVE  engWin'[x][z] = <<>> \/ engWin'[x][z] = engWin[x][z]
        BY <4>2
      <4>4. engRoute' = engRoute /\ engQueue' = engQueue /\ engEmitted' = engEmitted
        BY <2>2
      <4>5. ASSUME NEW x \in EngShards, NEW z \in EngKeys
            PROVE  /\ engWin'[x][z] # <<>> => engRoute'[z] = x
                   /\ \A i, j \in 1..Len(engWin'[x][z]) : i < j => engWin'[x][z][i] < engWin'[x][z][j]
                   /\ \A i \in 1..Len(engWin'[x][z]) : engWin'[x][z][i] < engEmitted'
                   /\ \A i \in 1..Len(engWin'[x][z]), j \in 1..Len(engQueue'[x]) :
                        engWin'[x][z][i] < engQueue'[x][j].n
        <5>1. CASE engWin'[x][z] = <<>>
          BY <5>1
        <5>2. CASE engWin'[x][z] = engWin[x][z]
          BY <4>4, <5>2 DEF EngInv, EngWindowsOk
        <5> QED BY <4>3, <5>1, <5>2
      <4> QED BY <4>2, <4>5 DEF EngWindowsOk
    <3> QED BY <2>4, <3>1, <3>2
  <2>7. t \in [pc : {"select", "evaluate", "gone"}, left : SUBSET EngKeys]
    BY <1>0, <2>1
  <2>8. EngStopOk'
    BY <2>2, <2>7, WorkerMoves
  <2>9. EngSavesOk' /\ EngFileWhole'
    BY <2>2, WorkerThere, SavesStay
  <2> QED BY <2>2, <2>5, <2>6, <2>8, <2>9 DEF EngInv, EngQueuesOk
<1> QED BY <1>1, <1>2, <1>3

\* The clock and the cleanup: what was fresh is as before or no longer fresh.
LEMMA MarksAge ==
  ASSUME EngInv, cleanupASNMaps \/ engTick
  PROVE  EngInv'
<1>1. /\ UNCHANGED <<engRoute, engQueue, engWin, engWorker, engSave, engDisk, engPhase, engEmitted>>
      /\ engNow' \in {engNow, engNow + 1}
      /\ engActive' \in {engActive, keptMarks(engActive)}
      /\ engAbusive' \in {engAbusive, keptMarks(engAbusive)}
  BY DEF cleanupASNMaps, engTick, engMarks
<1>2. engActive \in [EngKeys -> Int] /\ engAbusive \in [EngKeys -> Int] /\ engNow \in Nat
  BY DEF EngInv, EngMarksOk
<1>3. engActive' \in [EngKeys -> Int] /\ engAbusive' \in [EngKeys -> Int] /\ engNow' \in Nat
  BY <1>1, <1>2, KeptIs
<1>4. ASSUME NEW table \in [EngKeys -> Int], NEW after \in {table, keptMarks(table)}, NEW k \in EngKeys,
             after[k] >= 0, engNow' - after[k] <= EngTTL
      PROVE  after[k] = table[k] /\ unexpired(table[k])
  <2>1. after \in [EngKeys -> Int]
    BY KeptIs
  <2>2. unexpired(after[k])
    BY <1>1, <1>2, <1>4, <2>1, EngAssumption DEF unexpired
  <2>3. after[k] = table[k]
    BY <2>2, KeptIs
  <2> QED BY <2>2, <2>3
<1>5. \A k \in EngKeys :
        /\ unexpired(engActive[k])' => engActive'[k] = engActive[k] /\ unexpired(engActive[k])
        /\ unexpired(engAbusive[k])' => engAbusive'[k] = engAbusive[k] /\ unexpired(engAbusive[k])
  <2> TAKE k \in EngKeys
  <2>1. unexpired(engActive[k])' => engActive'[k] >= 0 /\ engNow' - engActive'[k] <= EngTTL
    BY DEF unexpired
  <2>2. unexpired(engAbusive[k])' => engAbusive'[k] >= 0 /\ engNow' - engAbusive'[k] <= EngTTL
    BY DEF unexpired
  <2> QED BY <1>1, <1>2, <1>4, <2>1, <2>2
<1>6. /\ EngShows(engSave["stop"].snap) => EngShows(engSave["stop"].snap)'
      /\ EngShows(engFile) => EngShows(engFile)'
  BY <1>1, <1>5 DEF EngShows, engDisk
<1>7. EngSavesOk' /\ EngFileWhole'
  BY <1>1, <1>6 DEF EngInv, EngSavesOk, EngFileWhole, engDisk
<1>8. EngStopOk'
  BY <1>1 DEF EngInv, EngStopOk, saverDone, workersDone
<1>9. EngQueuesOk' /\ EngWindowsOk'
  BY <1>1 DEF EngInv, EngQueuesOk, EngWindowsOk
<1> QED BY <1>3, <1>7, <1>8, <1>9 DEF EngInv, EngMarksOk

\* One of the two that save moves on; the other stays.
LEMMA SaverSteps ==
  ASSUME EngInv, NEW p \in Savers, NEW r \in [pc : {"idle", "open", "write", "rename", "gone"}, snap : EngSnaps],
         engSave' = [engSave EXCEPT ![p] = r]
  PROVE  /\ engSave' \in [Savers -> [pc : {"idle", "open", "write", "rename", "gone"}, snap : EngSnaps]]
         /\ engSave'[p] = r /\ \A o \in Savers : o # p => engSave'[o] = engSave[o]
BY DEF EngInv, EngSavesOk

\* While one of them saves, the other does not.
LEMMA OneSaves ==
  ASSUME EngInv, NEW p \in Savers, engSave[p].pc \in {"open", "write", "rename"}, NEW o \in Savers, o # p
  PROVE  engSave[o].pc \notin {"open", "write", "rename"}
<1>1. engSave["stop"].pc \in {"open", "write", "rename"} => engSave["loop"].pc = "gone"
  BY DEF EngInv, EngSavesOk, EngStopOk, saverDone
<1> QED BY <1>1 DEF Savers

LEMMA SnapshotMoves ==
  ASSUME EngInv, NEW p \in Savers, stateSnapshot(p)
  PROVE  EngInv'
<1>1. PICK snap : snap = [st |-> "whole", active |-> keptMarks(engActive), abusive |-> keptMarks(engAbusive)]
  OBVIOUS
<1>2. PICK r : r = [pc |-> "open", snap |-> snap]
  OBVIOUS
<1>3. /\ engSave[p].pc = "idle" /\ engSave' = [engSave EXCEPT ![p] = r]
      /\ ((p = "loop" /\ engPhase = "up") \/ (p = "stop" /\ engPhase = "save"))
      /\ UNCHANGED <<engRoute, engQueue, engWin, engWorker, engMarks, engDisk, engPhase, engEmitted, engNow>>
  BY <1>1, <1>2 DEF stateSnapshot, stopClosed
<1>4. /\ engActive \in [EngKeys -> Int] /\ engAbusive \in [EngKeys -> Int]
  BY DEF EngInv, EngMarksOk
<1>5. snap \in EngSnaps /\ snap.st = "whole" /\ EngShows(snap)
  BY <1>1, <1>4, KeptIs DEF EngSnaps, EngShows
<1>6. r \in [pc : {"idle", "open", "write", "rename", "gone"}, snap : EngSnaps] /\ r.pc = "open" /\ r.snap = snap
  BY <1>2, <1>5
<1>7. /\ engSave' \in [Savers -> [pc : {"idle", "open", "write", "rename", "gone"}, snap : EngSnaps]]
      /\ engSave'[p] = r /\ \A o \in Savers : o # p => engSave'[o] = engSave[o]
  BY <1>3, <1>6, SaverSteps
<1>8. EngSavesOk'
  <2>1. EngShows(snap)' = EngShows(snap) /\ EngShows(engFile)' = EngShows(engFile)
    BY <1>3 DEF EngShows, unexpired, engMarks, engDisk
  <2>2. "loop" \in Savers /\ "stop" \in Savers /\ (p = "loop" \/ p = "stop")
    BY DEF Savers
  <2>3. engSave'["stop"].pc \in {"open", "write", "rename"} => engPhase' = "save" /\ EngShows(engSave["stop"].snap)'
    <3>1. CASE p = "stop"
      BY <1>3, <1>5, <1>6, <1>7, <2>1, <3>1 DEF EngShows, unexpired, engMarks
    <3>2. CASE p = "loop"
      BY <1>3, <1>7, <2>2, <3>2 DEF EngInv, EngSavesOk, EngShows, unexpired, engMarks
    <3> QED BY <2>2, <3>1, <3>2
  <2>4. engSave'["stop"].pc # "gone"
    BY <1>6, <1>7, <2>2 DEF EngInv, EngSavesOk
  <2>5. \A o \in Savers : engSave'[o].pc \in {"open", "write", "rename"} => engSave'[o].snap.st = "whole"
    BY <1>5, <1>6, <1>7 DEF EngInv, EngSavesOk
  <2>6. \A o \in Savers : engSave'[o].pc = "rename" => engTmp' = engSave'[o].snap
    BY <1>3, <1>6, <1>7 DEF EngInv, EngSavesOk, engDisk
  <2>7. engPhase' = "stopped" => EngShows(engFile)'
    BY <1>3, <2>1 DEF EngInv, EngSavesOk
  <2>8. engTmp' \in EngSnaps /\ engFile' \in EngSnaps
    BY <1>3 DEF EngInv, EngSavesOk, engDisk
  <2> QED BY <1>7, <2>3, <2>4, <2>5, <2>6, <2>7, <2>8 DEF EngSavesOk
<1>9. EngStopOk'
  <2>1. saverDone => saverDone'
    BY <1>3, <1>7 DEF saverDone, Savers
  <2> QED BY <1>3, <2>1 DEF EngInv, EngStopOk, workersDone
<1> QED BY <1>3, <1>8, <1>9 DEF EngInv, EngQueuesOk, EngWindowsOk, EngMarksOk, EngFileWhole, engMarks, engDisk

\* The rest of a save.
LEMMA SaveMoves ==
  ASSUME EngInv, NEW p \in Savers, stateSaveStep(p)
  PROVE  EngInv'
<1>0. /\ "loop" \in Savers /\ "stop" \in Savers /\ (p = "loop" \/ p = "stop")
      /\ engSave[p] \in [pc : {"idle", "open", "write", "rename", "gone"}, snap : EngSnaps]
      /\ engSave[p].pc \in {"open", "write", "rename"}
  BY DEF Savers, EngInv, EngSavesOk, stateSaveStep, stateWrite, stateRename, stateSaveFails
<1>1. UNCHANGED <<engRoute, engQueue, engWin, engWorker, engMarks, engEmitted, engNow>>
  BY DEF stateSaveStep, stateWrite, stateRename, stateSaveFails
<1>2. PICK snap : snap = engSave[p].snap /\ snap.st = "whole" /\ snap # Torn /\ snap # Absent /\ snap \in EngSnaps
  <2>1. engSave[p].snap.st = "whole" /\ engSave[p].snap \in EngSnaps
    BY <1>0 DEF EngInv, EngSavesOk
  <2>2. Torn.st = "torn" /\ Absent.st = "absent"
    BY DEF Torn, Absent, NoMarks
  <2>3. engSave[p].snap # Torn /\ engSave[p].snap # Absent
    BY <2>1, <2>2
  <2> QED BY <2>1, <2>3
<1>3. \A o \in Savers : o # p => engSave[o].pc \notin {"open", "write", "rename"}
  BY <1>0, OneSaves
<1>4. /\ engPhase \in {"up", "saver", "workers", "save", "stopped", "unsaved"}
      /\ p = "stop" => engPhase = "save" /\ EngShows(snap)
      /\ p = "loop" => engPhase \in {"up", "saver"}
  BY <1>0, <1>2 DEF EngInv, EngSavesOk, EngStopOk, saverDone
<1>5. PICK r \in [pc : {"idle", "write", "rename"}, snap : {snap}] :
        /\ engSave' = [engSave EXCEPT ![p] = r]
        /\ \/ /\ engSave[p].pc = "open" /\ r.pc = "write"
              /\ engTmp' = Torn /\ engFile' = engFile /\ engPhase' = engPhase
           \/ /\ engSave[p].pc = "write" /\ r.pc = "rename"
              /\ engTmp' = snap /\ engFile' = engFile /\ engPhase' = engPhase
           \/ /\ engSave[p].pc = "rename" /\ r.pc = "idle"
              /\ engTmp' = Absent /\ engFile' = snap
              /\ engPhase' = IF p = "loop" THEN engPhase ELSE "stopped"
           \/ /\ r.pc = "idle" /\ engTmp' = engTmp /\ engFile' = engFile
              /\ engPhase' = IF p = "loop" THEN engPhase ELSE "unsaved"
  <2>1. \A pc \in {"idle", "write", "rename"} :
          /\ [pc |-> pc, snap |-> snap] \in [pc : {"idle", "write", "rename"}, snap : {snap}]
          /\ [engSave[p] EXCEPT !.pc = pc] = [pc |-> pc, snap |-> snap]
    BY <1>0, <1>2
  <2>2. \A pc \in {"idle", "write", "rename"} :
          engSaving(p, pc) => engSave' = [engSave EXCEPT ![p] = [pc |-> pc, snap |-> snap]]
    BY <2>1 DEF engSaving
  <2>3. CASE stateWrite(p)
    <3>1. CASE engSave[p].pc = "open" /\ stateWritten(Torn) /\ engSaving(p, "write")
      <4>1. engPhase' = engPhase
        BY <2>3 DEF stateWrite
      <4> WITNESS [pc |-> "write", snap |-> snap] \in [pc : {"idle", "write", "rename"}, snap : {snap}]
      <4> QED BY <2>2, <3>1, <4>1 DEF stateWritten
    <3>2. CASE engSave[p].pc = "write" /\ stateWritten(engSave[p].snap) /\ engSaving(p, "rename")
      <4>1. engPhase' = engPhase
        BY <2>3 DEF stateWrite
      <4> WITNESS [pc |-> "rename", snap |-> snap] \in [pc : {"idle", "write", "rename"}, snap : {snap}]
      <4> QED BY <1>2, <2>2, <3>2, <4>1 DEF stateWritten
    <3> QED BY <2>3, <3>1, <3>2 DEF stateWrite
  <2>4. CASE stateRename(p)
    <3>1. engTmp = snap
      BY <1>2, <2>4 DEF EngInv, EngSavesOk, stateRename
    <3>2. /\ engSave[p].pc = "rename" /\ engTmp' = Absent /\ engFile' = snap /\ engSaving(p, "idle")
          /\ engPhase' = IF p = "loop" THEN engPhase ELSE "stopped"
      BY <1>2, <2>4, <3>1 DEF stateRename, stateSaveEnd
    <3> WITNESS [pc |-> "idle", snap |-> snap] \in [pc : {"idle", "write", "rename"}, snap : {snap}]
    <3> QED BY <2>2, <3>2
  <2>5. CASE stateSaveFails(p)
    <3>1. /\ engTmp' = engTmp /\ engFile' = engFile /\ engSaving(p, "idle")
          /\ engPhase' = IF p = "loop" THEN engPhase ELSE "unsaved"
      BY <2>5 DEF stateSaveFails, stateSaveEnd, engDisk
    <3> WITNESS [pc |-> "idle", snap |-> snap] \in [pc : {"idle", "write", "rename"}, snap : {snap}]
    <3> QED BY <2>2, <3>1
  <2> QED BY <2>3, <2>4, <2>5 DEF stateSaveStep
<1>6. r \in [pc : {"idle", "open", "write", "rename", "gone"}, snap : EngSnaps] /\ r.snap = snap
  BY <1>2, <1>5
<1>7. /\ engSave' \in [Savers -> [pc : {"idle", "open", "write", "rename", "gone"}, snap : EngSnaps]]
      /\ engSave'[p] = r /\ \A o \in Savers : o # p => engSave'[o] = engSave[o]
  BY <1>5, <1>6, SaverSteps
<1>8. EngSavesOk'
  <2>1. EngShows(snap)' = EngShows(snap)
    BY <1>1 DEF EngShows, unexpired, engMarks
  <2>2. engSave'["stop"].pc \in {"open", "write", "rename"} => engPhase' = "save" /\ EngShows(engSave["stop"].snap)'
    <3>1. CASE p = "stop"
      <4>1. engSave'["stop"].snap = snap
        BY <1>6, <1>7, <3>1
      <4>2. EngShows(engSave["stop"].snap)' = EngShows(snap)'
        BY <4>1 DEF EngShows
      <4>3. r.pc \in {"open", "write", "rename"} => engPhase' = "save"
        BY <1>4, <1>5, <3>1
      <4> QED BY <1>4, <1>7, <2>1, <3>1, <4>2, <4>3
    <3>2. CASE p = "loop"
      BY <1>0, <1>3, <1>7, <3>2
    <3> QED BY <1>0, <3>1, <3>2
  <2>3. engSave'["stop"].pc # "gone"
    BY <1>0, <1>5, <1>7 DEF EngInv, EngSavesOk
  <2>4. \A o \in Savers : engSave'[o].pc \in {"open", "write", "rename"} => engSave'[o].snap.st = "whole"
    BY <1>2, <1>3, <1>6, <1>7
  <2>5. \A o \in Savers : engSave'[o].pc = "rename" => engTmp' = engSave'[o].snap
    BY <1>3, <1>5, <1>6, <1>7
  <2>6. engPhase' = "stopped" => EngShows(engFile)'
    <3> SUFFICES ASSUME engPhase' = "stopped" PROVE EngShows(engFile)'
      OBVIOUS
    <3>1. p = "stop" /\ engFile' = snap
      BY <1>0, <1>4, <1>5
    <3>2. EngShows(engFile)' = EngShows(snap)'
      BY <3>1 DEF EngShows
    <3> QED BY <1>4, <2>1, <3>1, <3>2
  <2>7. engTmp' \in EngSnaps /\ engFile' \in EngSnaps
    <3>1. Torn \in EngSnaps /\ Absent \in EngSnaps
      BY DEF Torn, Absent, NoMarks, Unmarked, EngSnaps
    <3> QED BY <1>2, <1>5, <3>1 DEF EngInv, EngSavesOk
  <2> QED BY <1>7, <2>2, <2>3, <2>4, <2>5, <2>6, <2>7 DEF EngSavesOk
<1>9. EngStopOk'
  <2>1. saverDone => saverDone'
    <3>1. saverDone => p # "loop"
      BY <1>0 DEF saverDone
    <3> QED BY <1>0, <1>7, <3>1 DEF saverDone
  <2>2. engPhase' = engPhase \/ (engPhase = "save" /\ engPhase' \in {"stopped", "unsaved"})
    BY <1>0, <1>4, <1>5
  <2>3. workersDone' = workersDone
    BY <1>1 DEF workersDone
  <2> QED BY <1>1, <2>1, <2>2, <2>3 DEF EngInv, EngStopOk
<1>10. EngFileWhole'
  BY <1>2, <1>5 DEF EngInv, EngFileWhole
<1>11. EngQueuesOk' /\ EngWindowsOk'
  BY <1>1 DEF EngInv, EngQueuesOk, EngWindowsOk
<1> QED BY <1>1, <1>8, <1>9, <1>10, <1>11 DEF EngInv, EngMarksOk, engMarks

\* The saver leaves, Stop is called, Stop goes on.
LEMMA StopMoves ==
  ASSUME EngInv, saverExit \/ stopCall \/ stopWait
  PROVE  EngInv'
<1>0. "loop" \in Savers /\ "stop" \in Savers
  BY DEF Savers
<1>1. UNCHANGED <<engRoute, engQueue, engWin, engWorker, engMarks, engDisk, engEmitted, engNow>>
  BY DEF saverExit, stopCall, stopWait
<1>2. /\ engQueue' = engQueue /\ engTmp' = engTmp /\ engFile' = engFile
      /\ EngShows(engFile)' = EngShows(engFile) /\ workersDone' = workersDone
  BY <1>1 DEF EngShows, unexpired, engMarks, engDisk, workersDone
<1>3. EngSavesOk' /\ EngStopOk'
  <2>1. CASE saverExit
    <3>1. PICK r : r = [engSave["loop"] EXCEPT !.pc = "gone"]
      OBVIOUS
    <3>2. /\ r \in [pc : {"idle", "open", "write", "rename", "gone"}, snap : EngSnaps]
          /\ r.pc = "gone"
      BY <1>0, <3>1 DEF EngInv, EngSavesOk
    <3>3. engSave' = [engSave EXCEPT !["loop"] = r] /\ engPhase' = engPhase
      BY <2>1, <3>1 DEF saverExit, engSaving
    <3>4. /\ engSave' \in [Savers -> [pc : {"idle", "open", "write", "rename", "gone"}, snap : EngSnaps]]
          /\ engSave'["loop"] = r /\ engSave'["stop"] = engSave["stop"]
      BY <1>0, <3>2, <3>3, SaverSteps
    <3>5. EngShows(engSave["stop"].snap)' = EngShows(engSave["stop"].snap)
      BY <1>1, <3>4 DEF EngShows, unexpired, engMarks
    <3>6. \A o \in Savers : engSave'[o] = engSave[o] \/ engSave'[o].pc = "gone"
      BY <3>2, <3>4 DEF Savers
    <3>7. EngSavesOk'
      BY <1>2, <3>3, <3>4, <3>5, <3>6 DEF EngInv, EngSavesOk
    <3>8. saverDone'
      BY <3>2, <3>4 DEF saverDone
    <3> QED BY <1>1, <1>2, <3>3, <3>7, <3>8 DEF EngInv, EngStopOk
  <2>2. CASE stopCall \/ stopWait
    <3>1. /\ engSave' = engSave
          /\ \/ engPhase = "up" /\ engPhase' = "saver"
             \/ engPhase = "saver" /\ saverDone /\ engPhase' = "workers"
             \/ engPhase = "workers" /\ workersDone /\ engPhase' = "save"
      BY <2>2 DEF stopCall, stopWait
    <3>2. EngShows(engSave["stop"].snap)' = EngShows(engSave["stop"].snap) /\ saverDone' = saverDone
      BY <1>1, <3>1 DEF EngShows, unexpired, engMarks, saverDone
    <3>3. EngSavesOk'
      BY <1>2, <3>1, <3>2 DEF EngInv, EngSavesOk
    <3> QED BY <1>1, <1>2, <3>1, <3>2, <3>3 DEF EngInv, EngStopOk
  <2> QED BY <2>1, <2>2
<1>4. EngQueuesOk' /\ EngWindowsOk' /\ EngFileWhole' /\ EngMarksOk'
  BY <1>1, <1>2 DEF EngInv, EngQueuesOk, EngWindowsOk, EngFileWhole, EngMarksOk, engMarks
<1> QED BY <1>3, <1>4 DEF EngInv

\* A kill and a start: nothing in flight, and the marks of the file.
LEMMA RestartMoves ==
  ASSUME EngInv, engRestart
  PROVE  EngInv'
<1>1. /\ UNCHANGED <<engRoute, engEmitted, engNow>> /\ engTmp' = engTmp /\ engFile' = engFile
      /\ engActive' = stateLoaded.active /\ engAbusive' = stateLoaded.abusive
      /\ engQueue' = NewQueues /\ engWin' = [s \in EngShards |-> NewWindow]
      /\ engWorker' = NewWorkers /\ engSave' = NewSavers /\ engPhase' = "up"
  BY DEF engRestart, engDisk
<1>2. EngQueuesOk'
  BY <1>1 DEF EngInv, EngQueuesOk, NewQueues
<1>3. EngWindowsOk'
  BY <1>1 DEF EngWindowsOk, NewQueues, NewWindow
<1>4. EngMarksOk'
  <2>1. /\ engFile \in EngSnaps /\ engFile.active \in [EngKeys -> Int] /\ engFile.abusive \in [EngKeys -> Int]
    BY DEF EngInv, EngSavesOk, EngSnaps
  <2>2. stateLoaded.active \in [EngKeys -> Int] /\ stateLoaded.abusive \in [EngKeys -> Int]
    <3>1. CASE engFile.st # "whole"
      BY <3>1 DEF stateLoaded, NoMarks, Unmarked
    <3>2. CASE engFile.st = "whole"
      BY <2>1, <3>2, KeptIs DEF stateLoaded
    <3> QED BY <3>1, <3>2
  <2> QED BY <1>1, <2>2 DEF EngInv, EngMarksOk
<1>5. EngStopOk'
  BY <1>1 DEF EngStopOk, NewWorkers
<1>6. EngSavesOk'
  BY <1>1 DEF EngInv, EngSavesOk, NewSavers, Savers, NoMarks, Unmarked, EngSnaps
<1>7. EngFileWhole'
  BY <1>1 DEF EngInv, EngFileWhole
<1> QED BY <1>2, <1>3, <1>4, <1>5, <1>6, <1>7 DEF EngInv

LEMMA EngineStep == EngInv /\ [EngineNext]_engVars => EngInv'
<1> SUFFICES ASSUME EngInv, [EngineNext]_engVars PROVE EngInv'
  OBVIOUS
<1>1. CASE UNCHANGED engVars
  <2>1. /\ UNCHANGED <<engRoute, engQueue, engWin, engWorker, engActive, engAbusive, engSave>>
        /\ UNCHANGED <<engTmp, engFile, engPhase, engEmitted, engNow>>
    BY <1>1 DEF engVars, engMarks, engDisk
  <2>2. EngQueuesOk' /\ EngWindowsOk'
    BY <2>1 DEF EngInv, EngQueuesOk, EngWindowsOk
  <2>3. EngMarksOk' /\ EngStopOk' /\ EngFileWhole'
    BY <2>1 DEF EngInv, EngMarksOk, EngStopOk, EngFileWhole, saverDone, workersDone
  <2>4. /\ EngShows(engSave["stop"].snap)' = EngShows(engSave["stop"].snap)
        /\ EngShows(engFile)' = EngShows(engFile)
    BY <2>1 DEF EngShows, unexpired
  <2>5. EngSavesOk'
    BY <2>1, <2>4 DEF EngInv, EngSavesOk
  <2> QED BY <2>2, <2>3, <2>5 DEF EngInv
<1>2. CASE \E k \in EngKeys : EmitSignal(k)
  BY <1>2, EmitMoves
<1>3. CASE \E s \in EngShards : workerStep(s)
  BY <1>3, SignalMoves, WorkersMove DEF workerStep
<1>4. CASE \E p \in Savers : stateSnapshot(p) \/ stateSaveStep(p)
  BY <1>4, SnapshotMoves, SaveMoves
<1>5. CASE saverExit \/ stopCall \/ stopWait
  BY <1>5, StopMoves
<1>6. CASE cleanupASNMaps \/ engTick
  BY <1>6, MarksAge
<1>7. CASE engRestart
  BY <1>7, RestartMoves
<1> QED BY <1>1, <1>2, <1>3, <1>4, <1>5, <1>6, <1>7 DEF EngineNext

LEMMA KnowledgeNow == EngInv => EngWindowWhole /\ EngStoppedSaved /\ EngFileWhole
<1> SUFFICES ASSUME EngInv PROVE EngWindowWhole /\ EngStoppedSaved /\ EngFileWhole
  OBVIOUS
<1>1. EngWindowWhole
  <2> SUFFICES ASSUME NEW k \in EngKeys, NEW s \in EngShards
               PROVE  /\ engHolds(s, k) => \A t \in EngShards \ {s} : ~engHolds(t, k)
                      /\ engInOrder(s, k)
    BY DEF EngWindowWhole
  <2>1. \A t \in EngShards : engHolds(t, k) => engRoute[k] = t
    BY DEF EngInv, EngQueuesOk, EngWindowsOk, engHolds
  <2>2. engInOrder(s, k)
    BY DEF EngInv, EngQueuesOk, EngWindowsOk, engInOrder
  <2> QED BY <2>1, <2>2
<1>2. EngStoppedSaved
  BY DEF EngInv, EngSavesOk, EngStoppedSaved, EngShows
<1> QED BY <1>1, <1>2 DEF EngInv

\* Wherever the process is stopped, killed or started again, a key's signals are with
\* one worker in the order they came, the state file is one a save finished, and after a
\* Stop whose save worked it has every mark that is still fresh (EmitSignal, worker,
\* saveState, Stop).
THEOREM KnowledgeIsKept == EngineSpec => [](EngWindowWhole /\ EngStoppedSaved /\ EngFileWhole)
<1>1. EngInv /\ [EngineNext]_engVars => EngInv'
  BY EngineStep
<1>2. EngineSpec => []EngInv
  BY EngineInitial, <1>1, PTL DEF EngineSpec
<1> QED BY <1>2, KnowledgeNow, PTL

-----------------------------------------------------------------------------
(***************************************************************************)
(* The feedback loop: the threshold in its band, the counts those of the   *)
(* history, and a removal that never returns.                              *)
(***************************************************************************)

FbOutcome == [ip : FbIPs, kind : {"fp", "tp"}, at : Int]

\* The places of an address's true positives.
FbPlaces(s, ip) == {i \in 1..Len(s) : s[i].ip = ip /\ s[i].kind = "tp"}

\* The history and its bound, the totals and the counts.
FbHistoryOk ==
  /\ fbOutcomes \in Seq(FbOutcome) /\ Len(fbOutcomes) <= FbMaxOutcomes
  /\ fbTotal \in [all : Nat, fp : Nat, tp : Nat, made : Nat]
  /\ fbHits \in [FbIPs -> Nat] /\ fbNow \in Int
  /\ \A ip \in FbIPs : Cardinality(FbPlaces(fbOutcomes, ip)) <= fbHits[ip] /\ fbHits[ip] <= fbTotal.tp

FbLockOk == fbRemove \in {"idle", "save"} /\ (fbLock = "free" <=> fbRemove = "idle")

FbInv == FbThresholdInBand /\ FbHistoryOk /\ FbLockOk

LEMMA FbPlacesFinite ==
  ASSUME NEW s \in Seq(FbOutcome), NEW ip \in FbIPs
  PROVE  IsFiniteSet(FbPlaces(s, ip)) /\ Cardinality(FbPlaces(s, ip)) \in Nat
<1>1. IsFiniteSet(1..Len(s)) /\ FbPlaces(s, ip) \in SUBSET (1..Len(s))
  BY FS_Interval DEF FbPlaces
<1>2. IsFiniteSet(FbPlaces(s, ip))
  BY <1>1, FS_Subset
<1> QED BY <1>2, FS_CardinalityType

\* Dropping outcomes from the front loses places and adds none.
LEMMA FbFewerPlaces ==
  ASSUME NEW s \in Seq(FbOutcome), NEW t \in Seq(FbOutcome), NEW d \in Nat, NEW ip \in FbIPs,
         \A i \in 1..Len(t) : i + d \in 1..Len(s) /\ t[i] = s[i + d]
  PROVE  Cardinality(FbPlaces(t, ip)) <= Cardinality(FbPlaces(s, ip))
<1>1. PICK onward : onward = [i \in FbPlaces(t, ip) |-> i + d]
  OBVIOUS
<1>2. \A i \in FbPlaces(t, ip) : i \in Nat /\ i + d \in FbPlaces(s, ip)
  BY DEF FbPlaces
<1>3. \A i, j \in FbPlaces(t, ip) : i + d = j + d => i = j
  BY <1>2
<1>4. onward \in Injection(FbPlaces(t, ip), FbPlaces(s, ip))
  BY <1>1, <1>2, <1>3 DEF Injection, IsInjective
<1> QED BY <1>4, FbPlacesFinite, FS_Injection

\* One more outcome is at most one more place, and one only of its own address.
LEMMA FbOneMorePlace ==
  ASSUME NEW s \in Seq(FbOutcome), NEW o \in FbOutcome, NEW ip \in FbIPs
  PROVE  Cardinality(FbPlaces(Append(s, o), ip)) =
           IF o.ip = ip /\ o.kind = "tp" THEN Cardinality(FbPlaces(s, ip)) + 1
           ELSE Cardinality(FbPlaces(s, ip))
<1>1. PICK t \in Seq(FbOutcome) : t = Append(s, o)
  BY AppendProperties
<1>2. Len(s) \in Nat /\ Len(t) = Len(s) + 1 /\ t[Len(s) + 1] = o /\ \A i \in 1..Len(s) : t[i] = s[i]
  BY <1>1
<1>3. \A i \in 1..Len(t) : i \in 1..Len(s) \/ i = Len(s) + 1
  BY <1>2
<1>4. 1..Len(s) \subseteq 1..Len(t) /\ Len(s) + 1 \in 1..Len(t) /\ Len(s) + 1 \notin 1..Len(s)
  BY <1>2
<1>5. CASE o.ip = ip /\ o.kind = "tp"
  <2>1. FbPlaces(t, ip) = FbPlaces(s, ip) \cup {Len(s) + 1} /\ Len(s) + 1 \notin FbPlaces(s, ip)
    BY <1>2, <1>3, <1>4, <1>5 DEF FbPlaces
  <2>2. IsFiniteSet(FbPlaces(s, ip))
    BY FbPlacesFinite
  <2>3. Cardinality(FbPlaces(s, ip) \cup {Len(s) + 1}) = Cardinality(FbPlaces(s, ip)) + 1
    BY <2>1, <2>2, FS_AddElement
  <2>4. FbPlaces(Append(s, o), ip) = FbPlaces(s, ip) \cup {Len(s) + 1}
    BY <1>1, <2>1
  <2> QED BY <1>5, <2>3, <2>4
<1>6. CASE ~(o.ip = ip /\ o.kind = "tp")
  <2>1. FbPlaces(t, ip) = FbPlaces(s, ip)
    BY <1>2, <1>3, <1>4, <1>6 DEF FbPlaces
  <2> QED BY <1>1, <1>6, <2>1
<1> QED BY <1>5, <1>6

LEMMA FeedbackInitial == FeedbackInit => FbInv
<1> SUFFICES ASSUME FeedbackInit PROVE FbInv
  OBVIOUS
<1>1. FbThresholdInBand
  BY FbAssumption DEF FeedbackInit, FbThresholdInBand
<1>2. \A ip \in FbIPs : Cardinality(FbPlaces(<<>>, ip)) = 0
  BY FS_EmptySet DEF FbPlaces
<1>3. FbHistoryOk
  BY <1>2, FbAssumption DEF FeedbackInit, FbHistoryOk
<1> QED BY <1>1, <1>3 DEF FeedbackInit, FbInv, FbLockOk

\* A step of the threshold ends at a limit if it would pass it.
LEMMA FbAdjusted ==
  ASSUME FbInv, NEW tot, NEW rate
  PROVE  adjusted(tot, rate).at \in FbMin..FbMax
<1>1. fbThreshold.at \in FbMin..FbMax
  BY DEF FbInv, FbThresholdInBand
<1>2. raised(fbThreshold.at) \in FbMin..FbMax /\ lowered(fbThreshold.at) \in FbMin..FbMax
  BY <1>1, FbAssumption DEF raised, lowered
<1>3. \/ adjusted(tot, rate) = fbThreshold
      \/ adjusted(tot, rate) = [at |-> raised(fbThreshold.at), moved |-> fbNow]
      \/ adjusted(tot, rate) = [at |-> lowered(fbThreshold.at), moved |-> fbNow]
  BY DEF adjusted
<1> QED BY <1>1, <1>2, <1>3

LEMMA FbRecords ==
  ASSUME FbInv, NEW ip \in FbIPs, NEW kind \in {"fp", "tp"}, RecordOutcome(ip, kind)
  PROVE  FbInv'
<1>1. PICK o : o = [ip |-> ip, kind |-> kind, at |-> fbNow]
  OBVIOUS
<1>2. PICK s : s = Append(fbOutcomes, o)
  OBVIOUS
<1>3. PICK tot : tot = [all |-> fbTotal.all + 1,
                        fp  |-> fbTotal.fp + (IF kind = "fp" THEN 1 ELSE 0),
                        tp  |-> fbTotal.tp + (IF kind = "tp" THEN 1 ELSE 0),
                        made |-> fbTotal.made + 1]
  OBVIOUS
<1>4. /\ fbOutcomes' = newest(s) /\ fbTotal' = tot
      /\ fbHits' = [fbHits EXCEPT ![ip] = IF kind = "tp" THEN @ + 1 ELSE @]
      /\ fbThreshold' = adjusted(tot, FPRate(newest(s)))
      /\ UNCHANGED <<fbLock, fbRemove, fbNow>>
  BY <1>1, <1>2, <1>3 DEF RecordOutcome
<1>5. /\ fbOutcomes \in Seq(FbOutcome) /\ Len(fbOutcomes) <= FbMaxOutcomes /\ Len(fbOutcomes) \in Nat
      /\ fbTotal.all \in Nat /\ fbTotal.fp \in Nat /\ fbTotal.tp \in Nat /\ fbTotal.made \in Nat
      /\ fbHits \in [FbIPs -> Nat] /\ fbNow \in Int
      /\ \A j \in FbIPs : Cardinality(FbPlaces(fbOutcomes, j)) <= fbHits[j] /\ fbHits[j] <= fbTotal.tp
  BY DEF FbInv, FbHistoryOk
<1>6. o \in FbOutcome /\ o.ip = ip /\ o.kind = kind
  BY <1>1, <1>5 DEF FbOutcome
<1>7. s \in Seq(FbOutcome) /\ Len(s) = Len(fbOutcomes) + 1
  BY <1>2, <1>5, <1>6
<1>8. tot \in [all : Nat, fp : Nat, tp : Nat, made : Nat] /\ tot.tp = fbTotal.tp + (IF kind = "tp" THEN 1 ELSE 0)
  <2>1. \A k \in {"fp", "tp"} : (IF kind = k THEN 1 ELSE 0) \in Nat
    OBVIOUS
  <2>2. PICK a \in Nat, b \in Nat :
          a = (IF kind = "fp" THEN 1 ELSE 0) /\ b = (IF kind = "tp" THEN 1 ELSE 0)
    BY <2>1
  <2>3. tot = [all |-> fbTotal.all + 1, fp |-> fbTotal.fp + a, tp |-> fbTotal.tp + b, made |-> fbTotal.made + 1]
    BY <1>3, <2>2
  <2>4. /\ fbTotal.all + 1 \in Nat /\ fbTotal.fp + a \in Nat
        /\ fbTotal.tp + b \in Nat /\ fbTotal.made + 1 \in Nat
    BY <1>5
  <2> QED BY <2>2, <2>3, <2>4
<1>9. PICK num \in Seq(FbOutcome) :
        /\ num = newest(s) /\ Len(num) <= FbMaxOutcomes
        /\ \A j \in FbIPs : Cardinality(FbPlaces(num, j)) <= Cardinality(FbPlaces(s, j))
  <2>1. CASE Len(s) > FbMaxOutcomes
    <3>1. /\ Tail(s) \in Seq(FbOutcome) /\ Len(Tail(s)) = Len(s) - 1 /\ newest(s) = Tail(s)
          /\ \A i \in 1..Len(Tail(s)) : i + 1 \in 1..Len(s) /\ Tail(s)[i] = s[i + 1]
      BY <1>5, <1>7, <2>1, FbAssumption DEF newest
    <3>2. \A j \in FbIPs : Cardinality(FbPlaces(Tail(s), j)) <= Cardinality(FbPlaces(s, j))
      BY <1>7, <3>1, FbFewerPlaces
    <3>3. Len(Tail(s)) <= FbMaxOutcomes
      BY <1>5, <1>7, <3>1, FbAssumption
    <3> QED BY <3>1, <3>2, <3>3
  <2>2. CASE ~(Len(s) > FbMaxOutcomes)
    <3>1. newest(s) = s /\ Len(s) <= FbMaxOutcomes
      BY <1>5, <1>7, <2>2, FbAssumption DEF newest
    <3>2. \A j \in FbIPs : Cardinality(FbPlaces(s, j)) <= Cardinality(FbPlaces(s, j))
      BY <1>7, FbPlacesFinite
    <3> QED BY <1>7, <3>1, <3>2
  <2> QED BY <2>1, <2>2
<1>10. fbHits' \in [FbIPs -> Nat]
  BY <1>4, <1>5
<1>11. ASSUME NEW j \in FbIPs
       PROVE  Cardinality(FbPlaces(num, j)) <= fbHits'[j] /\ fbHits'[j] <= tot.tp
  <2>1. /\ Cardinality(FbPlaces(num, j)) \in Nat /\ Cardinality(FbPlaces(fbOutcomes, j)) \in Nat
        /\ Cardinality(FbPlaces(s, j)) \in Nat
    BY <1>5, <1>7, FbPlacesFinite
  <2>2. Cardinality(FbPlaces(s, j)) =
          IF o.ip = j /\ o.kind = "tp" THEN Cardinality(FbPlaces(fbOutcomes, j)) + 1
          ELSE Cardinality(FbPlaces(fbOutcomes, j))
    BY <1>2, <1>5, <1>6, FbOneMorePlace
  <2>3. fbHits'[j] = IF j = ip /\ kind = "tp" THEN fbHits[j] + 1 ELSE fbHits[j]
    BY <1>4, <1>5
  <2>4. /\ Cardinality(FbPlaces(fbOutcomes, j)) <= fbHits[j] /\ fbHits[j] <= fbTotal.tp
        /\ Cardinality(FbPlaces(num, j)) <= Cardinality(FbPlaces(s, j)) /\ fbHits[j] \in Nat
    BY <1>5, <1>9
  <2>5. PICK inNew \in Nat, inOld \in Nat, inAll \in Nat, hits \in Nat, sum \in Nat :
          /\ inNew = Cardinality(FbPlaces(num, j)) /\ inOld = Cardinality(FbPlaces(fbOutcomes, j))
          /\ inAll = Cardinality(FbPlaces(s, j)) /\ hits = fbHits[j] /\ sum = fbTotal.tp
    BY <1>5, <2>1, <2>4
  <2>6. inOld <= hits /\ hits <= sum /\ inNew <= inAll
    BY <2>4, <2>5
  <2>7. CASE j = ip /\ kind = "tp"
    <3>1. inAll = inOld + 1 /\ fbHits'[j] = hits + 1 /\ tot.tp = sum + 1
      BY <1>6, <1>8, <2>2, <2>3, <2>5, <2>7
    <3>2. inNew <= hits + 1 /\ hits + 1 <= sum + 1
      BY <2>6, <3>1
    <3> QED BY <2>5, <3>1, <3>2
  <2>8. CASE ~(j = ip /\ kind = "tp")
    <3>1. inAll = inOld /\ fbHits'[j] = hits
      BY <1>6, <2>2, <2>3, <2>5, <2>8
    <3>2. tot.tp = sum \/ tot.tp = sum + 1
      BY <1>8, <2>5
    <3>3. inNew <= hits /\ hits <= tot.tp
      BY <2>6, <3>1, <3>2
    <3> QED BY <2>5, <3>1, <3>3
  <2> QED BY <2>7, <2>8
<1>12. FbHistoryOk'
  BY <1>4, <1>5, <1>8, <1>9, <1>10, <1>11 DEF FbHistoryOk
<1>13. FbThresholdInBand'
  BY <1>4, FbAdjusted DEF FbThresholdInBand
<1>14. FbLockOk'
  BY <1>4 DEF FbInv, FbLockOk
<1> QED BY <1>12, <1>13, <1>14 DEF FbInv

\* The old outcomes go, and the rest are counted again.
LEMMA FbCleans ==
  ASSUME FbInv, cleanupStart
  PROVE  FbInv'
<1>1. PICK kept : kept = {i \in 1..Len(fbOutcomes) : fbOutcomes[i].at > fbNow - FbPeriod}
  OBVIOUS
<1>2. PICK first : first = IF kept = {} THEN Len(fbOutcomes) + 1
                           ELSE CHOOSE i \in kept : \A j \in kept : i <= j
  OBVIOUS
<1>3. /\ fbOutcomes' = SubSeq(fbOutcomes, first, Len(fbOutcomes))
      /\ fbHits' = countHits(SubSeq(fbOutcomes, first, Len(fbOutcomes)))
      /\ UNCHANGED <<fbLock, fbTotal, fbThreshold, fbRemove, fbNow>>
  BY <1>1, <1>2 DEF cleanupStart
<1>4. /\ fbOutcomes \in Seq(FbOutcome) /\ Len(fbOutcomes) <= FbMaxOutcomes /\ Len(fbOutcomes) \in Nat
      /\ fbTotal \in [all : Nat, fp : Nat, tp : Nat, made : Nat]
      /\ fbHits \in [FbIPs -> Nat] /\ fbNow \in Int
      /\ \A j \in FbIPs : Cardinality(FbPlaces(fbOutcomes, j)) <= fbHits[j] /\ fbHits[j] <= fbTotal.tp
  BY DEF FbInv, FbHistoryOk
<1>5. first \in 1..(Len(fbOutcomes) + 1)
  <2>1. CASE kept = {}
    BY <1>2, <1>4, <2>1
  <2>2. CASE kept # {}
    <3>1. kept \subseteq Nat /\ kept \subseteq 1..Len(fbOutcomes)
      BY <1>1
    <3>2. \E i \in kept : \A j \in kept : i <= j
      BY <2>2, <3>1, LeastOf
    <3>3. first \in kept
      BY <1>2, <2>2, <3>2
    <3> QED BY <1>4, <3>1, <3>3
  <2> QED BY <2>1, <2>2
<1>6. PICK t \in Seq(FbOutcome) :
        /\ t = SubSeq(fbOutcomes, first, Len(fbOutcomes)) /\ Len(t) <= Len(fbOutcomes)
        /\ \A i \in 1..Len(t) : i + (first - 1) \in 1..Len(fbOutcomes) /\ t[i] = fbOutcomes[i + (first - 1)]
  <2>1. SubSeq(fbOutcomes, first, Len(fbOutcomes)) \in Seq(FbOutcome)
    BY <1>4, <1>5
  <2>2. Len(SubSeq(fbOutcomes, first, Len(fbOutcomes))) = Len(fbOutcomes) - first + 1
    BY <1>4, <1>5
  <2>3. \A i \in 1..(Len(fbOutcomes) - first + 1) :
          /\ i + (first - 1) \in 1..Len(fbOutcomes)
          /\ SubSeq(fbOutcomes, first, Len(fbOutcomes))[i] = fbOutcomes[i + (first - 1)]
    BY <1>4, <1>5
  <2>4. Len(fbOutcomes) - first + 1 <= Len(fbOutcomes)
    BY <1>4, <1>5
  <2> QED BY <2>1, <2>2, <2>3, <2>4
<1>7. fbHits' = [j \in FbIPs |-> Cardinality(FbPlaces(t, j))]
  BY <1>3, <1>6 DEF countHits, FbPlaces
<1>8. ASSUME NEW j \in FbIPs
      PROVE  /\ Cardinality(FbPlaces(t, j)) \in Nat
             /\ Cardinality(FbPlaces(t, j)) <= fbHits'[j] /\ fbHits'[j] <= fbTotal.tp
  <2>1. /\ Cardinality(FbPlaces(t, j)) \in Nat /\ Cardinality(FbPlaces(fbOutcomes, j)) \in Nat
    BY <1>4, <1>6, FbPlacesFinite
  <2>2. first - 1 \in Nat
    BY <1>4, <1>5
  <2>3. Cardinality(FbPlaces(t, j)) <= Cardinality(FbPlaces(fbOutcomes, j))
    BY <1>4, <1>6, <2>2, FbFewerPlaces
  <2>4. fbHits[j] \in Nat /\ fbTotal.tp \in Nat
    BY <1>4
  <2> QED BY <1>4, <1>7, <2>1, <2>3, <2>4
<1>9. FbHistoryOk'
  <2>1. fbHits' \in [FbIPs -> Nat]
    BY <1>7, <1>8
  <2>2. Len(t) <= FbMaxOutcomes
    BY <1>4, <1>6, FbAssumption
  <2>3. fbOutcomes' = t
    BY <1>3, <1>6
  <2> QED BY <1>3, <1>4, <1>8, <2>1, <2>2, <2>3 DEF FbHistoryOk
<1> QED BY <1>3, <1>9 DEF FbInv, FbThresholdInBand, FbLockOk

\* Everything else leaves the history, its counts and the threshold alone, or starts anew.
LEMMA FbOthers ==
  ASSUME FbInv, FeedbackNext,
         ~cleanupStart, \A ip \in FbIPs : ~reportFalsePositive(ip) /\ ~reportTruePositive(ip)
  PROVE  FbInv'
<1>1. CASE fbRestart
  <2>1. /\ fbLock' = "free" /\ fbRemove' = "idle" /\ fbOutcomes' = <<>> /\ fbNow' = fbNow
        /\ fbTotal' = [fbTotal EXCEPT !.all = 0, !.fp = 0, !.tp = 0]
        /\ fbThreshold' = [at |-> FbInitial, moved |-> fbNow]
        /\ fbHits' = [ip \in FbIPs |-> 0]
    BY <1>1 DEF fbRestart
  <2>2. fbTotal' \in [all : Nat, fp : Nat, tp : Nat, made : Nat] /\ fbTotal'.tp = 0
    BY <2>1 DEF FbInv, FbHistoryOk
  <2>3. \A ip \in FbIPs : Cardinality(FbPlaces(<<>>, ip)) = 0
    BY FS_EmptySet DEF FbPlaces
  <2>4. FbHistoryOk'
    BY <2>1, <2>2, <2>3, FbAssumption DEF FbInv, FbHistoryOk
  <2> QED BY <2>1, <2>4, FbAssumption DEF FbInv, FbLockOk, FbThresholdInBand
<1>2. CASE ~fbRestart
  <2>1. /\ UNCHANGED <<fbOutcomes, fbTotal, fbThreshold, fbHits>> /\ fbNow' \in {fbNow, fbNow + 1}
        /\ \/ UNCHANGED <<fbLock, fbRemove>>
           \/ fbLock' = "remove" /\ fbRemove' = "save"
           \/ fbLock' = "free" /\ fbRemove' = "idle"
    BY <1>2 DEF FeedbackNext, deleteFromAllowlist, RemoveFromAllowlist, removeSaves, cleanupEnd, fbSave,
         allowlistSnapshot, allowlistOpen, allowlistWrite, fbTick
  <2>2. FbHistoryOk'
    BY <2>1 DEF FbInv, FbHistoryOk
  <2> QED BY <2>1, <2>2 DEF FbInv, FbLockOk, FbThresholdInBand
<1> QED BY <1>1, <1>2

LEMMA FbMoves == FbInv /\ [FeedbackNext]_fbVars => FbInv'
<1> SUFFICES ASSUME FbInv, [FeedbackNext]_fbVars PROVE FbInv'
  OBVIOUS
<1>1. CASE UNCHANGED fbVars
  BY <1>1 DEF fbVars, FbInv, FbHistoryOk, FbLockOk, FbThresholdInBand
<1>2. CASE cleanupStart
  BY <1>2, FbCleans
<1>3. ASSUME NEW ip \in FbIPs, reportFalsePositive(ip) \/ reportTruePositive(ip) PROVE FbInv'
  BY <1>3, FbRecords DEF reportFalsePositive, reportTruePositive
<1>4. CASE /\ FeedbackNext /\ ~cleanupStart
           /\ \A ip \in FbIPs : ~reportFalsePositive(ip) /\ ~reportTruePositive(ip)
  BY <1>4, FbOthers
<1> QED BY <1>1, <1>2, <1>3, <1>4

LEMMA FbLearnedNow == FbInv => FbLearned
<1> SUFFICES ASSUME FbInv, NEW ip \in FbIPs PROVE countHits(fbOutcomes)[ip] = Cardinality(FbPlaces(fbOutcomes, ip))
  BY DEF FbInv, FbHistoryOk, FbLearned, FbOutcomesCounted
<1> QED BY DEF countHits, FbPlaces

\* Whatever is reported, cleaned or restarted, the threshold stays between its limits, the
\* history within its bound, and an address's count between the true positives the history
\* still has of it and the total (RecordOutcome, considerThresholdAdjustment, Cleanup).
THEOREM LearningIsKept == FeedbackSpec => []FbLearned
<1>1. FeedbackSpec => []FbInv
  BY FeedbackInitial, FbMoves, PTL DEF FeedbackSpec
<1> QED BY <1>1, FbLearnedNow, PTL

\* With a path configured RemoveFromAllowlist keeps the lock it asks for again: until the
\* analyzer dies, no outcome, cleanup or removal comes through (RemoveFromAllowlist,
\* saveAllowlist, GetAllowlist).
THEOREM RemovalNeverReturns == FeedbackSpec => FbRemovalStays
<1>1. FeedbackSpec => []FbInv
  BY FeedbackInitial, FbMoves, PTL DEF FeedbackSpec
<1>2. FbInv /\ [FeedbackNext]_fbVars =>
        [fbPath /\ fbRemove = "save" =>
           \/ fbRestart
           \/ UNCHANGED <<fbLock, fbRemove, fbOutcomes, fbTotal, fbThreshold, fbHits, fbAllow, fbClean>>]_fbVars
  <2> SUFFICES ASSUME FbInv, FeedbackNext, fbPath, fbRemove = "save", ~fbRestart
               PROVE  UNCHANGED <<fbLock, fbRemove, fbOutcomes, fbTotal, fbThreshold, fbHits, fbAllow, fbClean>>
    BY Zenon
  <2>1. fbLock # "free"
    BY DEF FbInv, FbLockOk
  <2> QED BY <2>1 DEF FeedbackNext, reportFalsePositive, reportTruePositive, RecordOutcome, deleteFromAllowlist,
               RemoveFromAllowlist, removeSaves, cleanupStart, cleanupEnd, fbSave, allowlistSnapshot,
               allowlistOpen, allowlistWrite, fbTick, muFree
<1> QED BY <1>1, <1>2, PTL DEF FeedbackSpec, FbRemovalStays
=============================================================================
