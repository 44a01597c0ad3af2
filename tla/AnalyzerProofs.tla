---------------------------- MODULE AnalyzerProofs ----------------------------
(***************************************************************************)
(* Proofs about the analyzer's components, each for every value of its     *)
(* constants: the event ring, the event histories built on it, the         *)
(* threat intelligence lookups, the crawler verdicts, the HTTP requests    *)
(* that use them, the verdict on a window, the store of detections, the    *)
(* session recordings, the verification of bots by DNS, the patterns       *)
(* learned from the operator's verdicts and the trackers of requests.      *)
(*                                                                         *)
(* The ring: it stays well formed, and read through At it is a bounded     *)
(* queue.  RingWellFormed is inductive as it stands; the refinement needs  *)
(* it for the bounds of head and size, without which a wrapped index may   *)
(* name any cell.                                                          *)
(***************************************************************************)
EXTENDS EventRing, EventHistory, ThreatIntel, CrawlerVerify, BotVerify, HTTPRequest, Verdict,
        DetectionStore, SessionRecordings, LearnedPatterns, HTTPTracking,
        FiniteSetTheorems, SequenceTheorems, WellFoundedInduction, TLAPS

-----------------------------------------------------------------------------
(* Arithmetic of the wrapped index. *)

\* A logical index inside the buffer names a cell.
LEMMA PhysicalIsCell ==
  ASSUME NEW cap \in Nat, NEW head \in 0..(cap - 1), NEW i \in 0..cap
  PROVE  physical(cap, head, i) \in 0..(cap - 1)
BY DEF physical

\* Different logical indices name different cells.
LEMMA PhysicalInjective ==
  ASSUME NEW cap \in Nat, NEW head \in 0..(cap - 1), NEW i \in 0..(cap - 1),
         NEW j \in 0..(cap - 1), physical(cap, head, i) = physical(cap, head, j)
  PROVE  i = j
BY DEF physical

\* Every cell has a logical index.
LEMMA PhysicalOnto ==
  ASSUME NEW cap \in Nat, NEW head \in 0..(cap - 1), NEW i \in 0..(cap - 1)
  PROVE  \E j \in 0..(cap - 1) : physical(cap, head, j) = i
<1>1. CASE i >= head
  <2>1. i - head \in 0..(cap - 1) /\ physical(cap, head, i - head) = i
    BY <1>1 DEF physical
  <2> QED BY <2>1
<1>2. CASE i < head
  <2>1. /\ i + cap - head \in 0..(cap - 1)
        /\ physical(cap, head, i + cap - head) = i
    BY <1>2 DEF physical
  <2> QED BY <2>1
<1> QED BY <1>1, <1>2

\* Moving the head by k moves every logical index by k.
LEMMA PhysicalShift ==
  ASSUME NEW cap \in Nat, NEW head \in 0..(cap - 1), NEW k \in 0..(cap - 1),
         NEW i \in 0..(cap - 1)
  PROVE  physical(cap, physical(cap, head, k), i)
           = physical(cap, head, IF i + k < cap THEN i + k ELSE i + k - cap)
BY DEF physical

\* grow makes room for at least one more value, up to the limit.
LEMMA GrownCapGrows ==
  ASSUME RingWellFormed, ringSize # RingLimit, ringSize = ringCap
  PROVE  grownCap \in (ringCap + 1)..RingLimit
<1>1. /\ RingLimit \in Nat \ {0} /\ RingGrowth \in Nat \ {0}
      /\ ringCap \in 0..RingLimit /\ ringCap # RingLimit
  BY RingAssumption DEF RingWellFormed
<1> QED BY <1>1 DEF grownCap, ringMin, ringMax

\* copyTo lays the events out from cell 0 and leaves the rest zero.
LEMMA CopyToUnwraps ==
  ASSUME RingWellFormed, NEW g \in Nat, NEW i \in 0..(g - 1)
  PROVE  copyTo(g)[i] = IF i < ringSize THEN ringBuf[physical(ringCap, ringHead, i)]
                                        ELSE RingZero
<1>1. /\ RingLimit \in Nat /\ ringCap \in Nat /\ ringSize \in 0..ringCap
      /\ ringHead \in Nat /\ (ringCap > 0 => ringHead < ringCap)
      /\ (ringCap = 0 => ringHead = 0)
  BY RingAssumption DEF RingWellFormed
<1> QED BY <1>1 DEF copyTo, physical, ringMin

-----------------------------------------------------------------------------
(* Well-formedness. *)

LEMMA InitWellFormed == EventRingInit => RingWellFormed
BY RingAssumption DEF EventRingInit, RingWellFormed

LEMMA PushFullWellFormed ==
  ASSUME RingWellFormed, NEW v \in RingValues, pushFull(v)
  PROVE  RingWellFormed'
<1>1. /\ RingLimit \in Nat \ {0} /\ ringCap = RingLimit /\ ringSize = RingLimit
      /\ ringHead \in 0..(ringCap - 1)
  BY RingAssumption DEF RingWellFormed, pushFull
<1>2. ringCap' = ringCap /\ ringSize' = ringSize
      /\ ringHead' = physical(ringCap, ringHead, 1)
      /\ ringBuf' = [ringBuf EXCEPT ![ringHead] = v]
  BY DEF pushFull
<1>3. ringHead' \in 0..(ringCap - 1)
  BY <1>1, <1>2, PhysicalIsCell
<1>4. ringBuf' \in [0..(ringCap - 1) -> RingValues \cup {RingZero}]
  BY <1>1, <1>2 DEF RingWellFormed
<1> QED BY <1>1, <1>2, <1>3, <1>4 DEF RingWellFormed

LEMMA PushGrowWellFormed ==
  ASSUME RingWellFormed, NEW v \in RingValues, pushGrow(v)
  PROVE  RingWellFormed'
<1> DEFINE g == grownCap
<1>1. /\ RingLimit \in Nat \ {0} /\ ringCap \in Nat /\ ringSize = ringCap
      /\ ringSize # RingLimit
  BY RingAssumption DEF RingWellFormed, pushGrow
<1>2. g \in (ringCap + 1)..RingLimit
  BY <1>1, GrownCapGrows
<1>3. /\ ringCap' = g /\ ringSize' = ringSize + 1 /\ ringHead' = 0
      /\ ringBuf' = [copyTo(g) EXCEPT ![physical(g, 0, ringSize)] = v]
  BY DEF pushGrow
<1> HIDE DEF g
<1>4. physical(g, 0, ringSize) = ringSize
  BY <1>1, <1>2 DEF physical
<1>5. \A i \in 0..(g - 1) : copyTo(g)[i] =
        IF i < ringSize THEN ringBuf[physical(ringCap, ringHead, i)] ELSE RingZero
  BY <1>1, <1>2, CopyToUnwraps
<1>6. DOMAIN copyTo(g) = 0..(g - 1) /\ copyTo(g) = [i \in 0..(g - 1) |-> copyTo(g)[i]]
  BY DEF copyTo
<1>7. \A i \in 0..(g - 1) : copyTo(g)[i] \in RingValues \cup {RingZero}
  <2> SUFFICES ASSUME NEW i \in 0..(g - 1), i < ringSize
               PROVE  ringBuf[physical(ringCap, ringHead, i)] \in RingValues \cup {RingZero}
    BY <1>5
  <2>1. ringHead \in 0..(ringCap - 1) /\ i \in 0..ringCap
    BY <1>1 DEF RingWellFormed
  <2>2. physical(ringCap, ringHead, i) \in 0..(ringCap - 1)
    BY <1>1, <2>1, PhysicalIsCell
  <2> QED BY <2>2 DEF RingWellFormed
<1>8. ringBuf' \in [0..(g - 1) -> RingValues \cup {RingZero}]
  BY <1>1, <1>2, <1>3, <1>4, <1>6, <1>7
<1>9. \A i \in ringSize'..(g - 1) : ringBuf'[physical(g, 0, i)] = RingZero
  <2> SUFFICES ASSUME NEW i \in (ringSize + 1)..(g - 1)
               PROVE  ringBuf'[physical(g, 0, i)] = RingZero
    BY <1>3
  <2>1. physical(g, 0, i) = i /\ i \in 0..(g - 1) /\ i # ringSize /\ ~(i < ringSize)
    BY <1>1, <1>2 DEF physical
  <2>2. ringBuf'[i] = copyTo(g)[i]
    BY <1>3, <1>4, <1>6, <2>1
  <2> QED BY <1>5, <2>1, <2>2
<1> QED BY <1>1, <1>2, <1>3, <1>8, <1>9 DEF RingWellFormed

LEMMA PushFreeWellFormed ==
  ASSUME RingWellFormed, NEW v \in RingValues, pushFree(v)
  PROVE  RingWellFormed'
<1>1. /\ RingLimit \in Nat \ {0} /\ ringCap \in 0..RingLimit /\ ringSize \in 0..(ringCap - 1)
      /\ ringHead \in 0..(ringCap - 1)
  BY RingAssumption DEF RingWellFormed, pushFree
<1>2. /\ ringCap' = ringCap /\ ringHead' = ringHead /\ ringSize' = ringSize + 1
      /\ ringBuf' = [ringBuf EXCEPT ![physical(ringCap, ringHead, ringSize)] = v]
  BY DEF pushFree
<1>3. physical(ringCap, ringHead, ringSize) \in 0..(ringCap - 1)
  BY <1>1, PhysicalIsCell
<1>4. ringBuf' \in [0..(ringCap - 1) -> RingValues \cup {RingZero}]
  BY <1>2, <1>3 DEF RingWellFormed
<1>5. \A i \in (ringSize + 1)..(ringCap - 1) :
        ringBuf'[physical(ringCap, ringHead, i)] = RingZero
  <2> SUFFICES ASSUME NEW i \in (ringSize + 1)..(ringCap - 1)
               PROVE  ringBuf'[physical(ringCap, ringHead, i)] = RingZero
    OBVIOUS
  <2>1. /\ i \in 0..(ringCap - 1) /\ i \in ringSize..(ringCap - 1) /\ i # ringSize
        /\ ringSize \in 0..(ringCap - 1) /\ ringCap \in Nat
    BY <1>1
  <2>2. physical(ringCap, ringHead, i) # physical(ringCap, ringHead, ringSize)
    BY <1>1, <2>1, PhysicalInjective
  <2>3. physical(ringCap, ringHead, i) \in 0..(ringCap - 1)
    BY <1>1, <2>1, PhysicalIsCell
  <2>4. ringBuf[physical(ringCap, ringHead, i)] = RingZero
    BY <2>1 DEF RingWellFormed
  <2> QED BY <1>2, <2>2, <2>3, <2>4 DEF RingWellFormed
<1> QED BY <1>1, <1>2, <1>4, <1>5 DEF RingWellFormed

LEMMA DropFrontWellFormed ==
  ASSUME RingWellFormed, NEW n \in RingDrops, DropFront(n)
  PROVE  RingWellFormed'
<1> DEFINE k == ringMin(n, ringSize)
           gone(i) == \E j \in 0..(k - 1) : i = physical(ringCap, ringHead, j)
<1>1. /\ RingLimit \in Nat \ {0} /\ ringCap \in 0..RingLimit /\ ringSize \in 0..ringCap
      /\ ringHead \in Nat /\ (ringCap = 0 => ringHead = 0)
      /\ (ringCap > 0 => ringHead \in 0..(ringCap - 1)) /\ n \in Nat
  BY RingAssumption DEF RingWellFormed
<1>2. k \in 0..ringSize
  BY <1>1 DEF ringMin
<1>3. /\ ringBuf' = [i \in 0..(ringCap - 1) |-> IF gone(i) THEN RingZero ELSE ringBuf[i]]
      /\ ringSize' = ringSize - k /\ ringCap' = ringCap
      /\ ringHead' = IF ringSize = k THEN 0 ELSE physical(ringCap, ringHead, k)
  BY DEF DropFront, cleared
<1> HIDE DEF k
<1>4. ringBuf' \in [0..(ringCap - 1) -> RingValues \cup {RingZero}]
  BY <1>3 DEF RingWellFormed
<1>5. /\ ringHead' \in Nat /\ (ringCap = 0 => ringHead' = 0)
      /\ (ringCap > 0 => ringHead' < ringCap)
  <2>1. CASE ringSize = k
    BY <1>1, <1>3, <2>1
  <2>2. CASE ringSize # k
    <3>1. ringCap \in Nat /\ ringHead \in 0..(ringCap - 1) /\ k \in 0..ringCap
      BY <1>1, <1>2, <2>2
    <3>2. physical(ringCap, ringHead, k) \in 0..(ringCap - 1)
      BY <3>1, PhysicalIsCell
    <3> QED BY <1>1, <1>3, <2>2, <3>1, <3>2
  <2> QED BY <2>1, <2>2
<1>6. \A j \in 0..(ringCap - 1) :
         j < k \/ j >= ringSize => ringBuf'[physical(ringCap, ringHead, j)] = RingZero
  <2> SUFFICES ASSUME NEW j \in 0..(ringCap - 1), j < k \/ j >= ringSize
               PROVE  ringBuf'[physical(ringCap, ringHead, j)] = RingZero
    OBVIOUS
  <2>1. ringCap \in Nat /\ ringHead \in 0..(ringCap - 1) /\ j \in 0..ringCap
    BY <1>1
  <2>2. physical(ringCap, ringHead, j) \in 0..(ringCap - 1)
    BY <2>1, PhysicalIsCell
  <2>3. CASE j < k
    <3>1. gone(physical(ringCap, ringHead, j))
      BY <1>1, <1>2, <2>3
    <3> QED BY <1>3, <2>2, <3>1
  <2>4. CASE j >= ringSize
    <3>1. ringBuf[physical(ringCap, ringHead, j)] = RingZero
      BY <1>1, <2>4 DEF RingWellFormed
    <3> HIDE DEF gone
    <3> QED BY <1>3, <2>2, <3>1
  <2> QED BY <2>3, <2>4
<1>7. \A i \in ringSize'..(ringCap - 1) : ringBuf'[physical(ringCap, ringHead', i)] = RingZero
  <2> SUFFICES ASSUME NEW i \in (ringSize - k)..(ringCap - 1)
               PROVE  ringBuf'[physical(ringCap, ringHead', i)] = RingZero
    BY <1>3
  <2>1. ringCap \in Nat /\ ringHead \in 0..(ringCap - 1) /\ i \in 0..(ringCap - 1)
    BY <1>1, <1>2
  <2>2. CASE ringSize = k
    <3>1. physical(ringCap, ringHead', i) = i
      BY <1>3, <2>1, <2>2 DEF physical
    <3>2. PICK j \in 0..(ringCap - 1) : physical(ringCap, ringHead, j) = i
      BY <2>1, PhysicalOnto
    <3>3. j < k \/ j >= ringSize
      BY <1>1, <1>2, <2>2
    <3> QED BY <1>6, <3>1, <3>2, <3>3
  <2>3. CASE ringSize # k
    <3> DEFINE j == IF i + k < ringCap THEN i + k ELSE i + k - ringCap
    <3>1. k \in 0..(ringCap - 1)
      BY <1>1, <1>2, <2>3
    <3>2. physical(ringCap, ringHead', i) = physical(ringCap, ringHead, j)
      BY <1>3, <2>1, <2>3, <3>1, PhysicalShift
    <3>3. j \in 0..(ringCap - 1) /\ (j < k \/ j >= ringSize)
      BY <1>1, <1>2, <2>1, <3>1
    <3> QED BY <1>6, <3>2, <3>3
  <2> QED BY <2>2, <2>3
<1>8. ringCap' \in 0..RingLimit /\ ringSize' \in 0..ringCap' /\ ringCap' = ringCap
  BY <1>1, <1>2, <1>3
<1> HIDE DEF gone
<1> QED BY <1>4, <1>5, <1>7, <1>8 DEF RingWellFormed

LEMMA NextWellFormed == RingWellFormed /\ [EventRingNext]_ringVars => RingWellFormed'
<1> SUFFICES ASSUME RingWellFormed, [EventRingNext]_ringVars PROVE RingWellFormed'
  OBVIOUS
<1>1. ASSUME NEW v \in RingValues, PushBack(v) PROVE RingWellFormed'
  BY <1>1, PushFullWellFormed, PushGrowWellFormed, PushFreeWellFormed DEF PushBack
<1>2. ASSUME NEW n \in RingDrops, DropFront(n) PROVE RingWellFormed'
  BY <1>2, DropFrontWellFormed
<1>3. CASE UNCHANGED ringVars
  BY <1>3 DEF ringVars, RingWellFormed, physical
<1> QED BY <1>1, <1>2, <1>3 DEF EventRingNext

\* The ring of ring.go never outgrows its limit, its head is always a cell, and
\* no cell outside the live run keeps an event, whatever limit and growth step
\* it was made with.
THEOREM RingStaysWellFormed == EventRingSpec => []RingWellFormed
BY InitWellFormed, NextWellFormed, PTL DEF EventRingSpec

-----------------------------------------------------------------------------
(* The ring is a bounded queue. *)

LEMMA InitIsQueue == EventRingInit => Abstract!BQInit
BY DEF EventRingInit, Abstract!BQInit, ringSlice

\* The i-th event of the slice is what At(i - 1) returns.
LEMMA SliceAt ==
  ASSUME RingWellFormed, NEW i \in 1..ringSize
  PROVE  ringSlice[i] = ringBuf[physical(ringCap, ringHead, i - 1)]
BY DEF ringSlice

\* Overwriting the oldest event at the limit is a push into a full queue.
LEMMA PushFullIsPush ==
  ASSUME RingWellFormed, NEW v \in RingValues, pushFull(v)
  PROVE  Abstract!BQPush(v)
<1>1. /\ RingLimit \in Nat \ {0} /\ ringCap = RingLimit /\ ringSize = RingLimit
      /\ ringHead \in 0..(ringCap - 1) /\ ringCap \in Nat
  BY RingAssumption DEF RingWellFormed, pushFull
<1>2. /\ ringCap' = ringCap /\ ringSize' = ringSize
      /\ ringHead' = physical(ringCap, ringHead, 1)
      /\ ringBuf' = [ringBuf EXCEPT ![ringHead] = v]
      /\ ringBuf \in [0..(ringCap - 1) -> RingValues \cup {RingZero}]
  BY DEF pushFull, RingWellFormed
<1>3. ASSUME NEW i \in 1..ringSize
      PROVE  ringBuf'[physical(ringCap, ringHead', i - 1)]
               = IF i = ringSize THEN v ELSE ringSlice[i + 1]
  <2>1. CASE i = ringSize
    <3>1. physical(ringCap, ringHead', i - 1) = ringHead
      BY <1>1, <1>2, <2>1 DEF physical
    <3> QED BY <1>1, <1>2, <2>1, <3>1
  <2>2. CASE i # ringSize
    <3>1. /\ physical(ringCap, ringHead', i - 1) = physical(ringCap, ringHead, i)
          /\ physical(ringCap, ringHead, i) # ringHead
          /\ physical(ringCap, ringHead, i) \in 0..(ringCap - 1)
      BY <1>1, <1>2, <2>2 DEF physical
    <3>2. i + 1 \in 1..ringSize /\ (i + 1) - 1 = i
      BY <1>1, <2>2
    <3>3. ringSlice[i + 1] = ringBuf[physical(ringCap, ringHead, i)]
      BY <3>2, SliceAt
    <3> QED BY <1>2, <2>2, <3>1, <3>3
  <2> QED BY <2>1, <2>2
<1>4. ringSlice' = [i \in 1..ringSize |-> IF i = ringSize THEN v ELSE ringSlice[i + 1]]
  <2>1. ringSlice' = [i \in 1..ringSize |-> ringBuf'[physical(ringCap, ringHead', i - 1)]]
    BY <1>2 DEF ringSlice, physical
  <2> QED BY <1>3, <2>1
<1> QED BY <1>1, <1>2, <1>4 DEF Abstract!BQPush

\* Growing keeps the events in order and appends the new one.
LEMMA PushGrowIsPush ==
  ASSUME RingWellFormed, NEW v \in RingValues, pushGrow(v)
  PROVE  Abstract!BQPush(v)
<1> DEFINE g == grownCap
<1>1. /\ RingLimit \in Nat \ {0} /\ ringCap \in 0..RingLimit /\ ringSize = ringCap
      /\ ringSize # RingLimit
  BY RingAssumption DEF RingWellFormed, pushGrow
<1>2. g \in (ringCap + 1)..RingLimit
  BY <1>1, GrownCapGrows
<1>3. /\ ringCap' = g /\ ringSize' = ringSize + 1 /\ ringHead' = 0
      /\ ringBuf' = [copyTo(g) EXCEPT ![physical(g, 0, ringSize)] = v]
  BY DEF pushGrow
<1> HIDE DEF g
<1>4. DOMAIN copyTo(g) = 0..(g - 1)
  BY DEF copyTo
<1>5. ASSUME NEW i \in 1..(ringSize + 1)
      PROVE  ringBuf'[physical(g, 0, i - 1)]
               = IF i = ringSize + 1 THEN v ELSE ringSlice[i]
  <2>1. /\ physical(g, 0, i - 1) = i - 1 /\ i - 1 \in 0..(g - 1) /\ g \in Nat
        /\ physical(g, 0, ringSize) = ringSize /\ ringSize \in 0..(g - 1)
    BY <1>1, <1>2 DEF physical
  <2>2. CASE i = ringSize + 1
    BY <1>1, <1>3, <1>4, <2>1, <2>2
  <2>3. CASE i # ringSize + 1
    <3>1. i \in 1..ringSize /\ i - 1 < ringSize /\ i - 1 # ringSize
      BY <1>1, <2>3
    <3>2. ringBuf'[i - 1] = copyTo(g)[i - 1]
      BY <1>3, <1>4, <2>1, <3>1
    <3>3. copyTo(g)[i - 1] = ringBuf[physical(ringCap, ringHead, i - 1)]
      BY <2>1, <3>1, CopyToUnwraps
    <3> QED BY <2>1, <2>3, <3>1, <3>2, <3>3, SliceAt
  <2> QED BY <2>2, <2>3
<1>6. ringSlice' = [i \in 1..(ringSize + 1) |-> IF i = ringSize + 1 THEN v ELSE ringSlice[i]]
  <2>1. ringSlice' = [i \in 1..(ringSize + 1) |-> ringBuf'[physical(g, 0, i - 1)]]
    BY <1>3 DEF ringSlice, physical
  <2> QED BY <1>5, <2>1
<1>7. ringSize < RingLimit
  BY <1>1
<1> QED BY <1>3, <1>6, <1>7 DEF Abstract!BQPush

\* Filling the next free cell appends to the queue.
LEMMA PushFreeIsPush ==
  ASSUME RingWellFormed, NEW v \in RingValues, pushFree(v)
  PROVE  Abstract!BQPush(v)
<1>1. /\ RingLimit \in Nat \ {0} /\ ringCap \in 0..RingLimit /\ ringCap \in Nat
      /\ ringSize \in 0..(ringCap - 1) /\ ringHead \in 0..(ringCap - 1)
  BY RingAssumption DEF RingWellFormed, pushFree
<1>2. /\ ringCap' = ringCap /\ ringHead' = ringHead /\ ringSize' = ringSize + 1
      /\ ringBuf' = [ringBuf EXCEPT ![physical(ringCap, ringHead, ringSize)] = v]
      /\ ringBuf \in [0..(ringCap - 1) -> RingValues \cup {RingZero}]
  BY DEF pushFree, RingWellFormed
<1>3. ASSUME NEW i \in 1..(ringSize + 1)
      PROVE  ringBuf'[physical(ringCap, ringHead, i - 1)]
               = IF i = ringSize + 1 THEN v ELSE ringSlice[i]
  <2>1. physical(ringCap, ringHead, i - 1) \in 0..(ringCap - 1)
    BY <1>1, PhysicalIsCell
  <2>2. CASE i = ringSize + 1
    <3>1. i - 1 = ringSize
      BY <1>1, <2>2
    <3> QED BY <1>2, <2>1, <2>2, <3>1
  <2>3. CASE i # ringSize + 1
    <3>1. i \in 1..ringSize /\ i - 1 \in 0..(ringCap - 1) /\ i - 1 # ringSize
      BY <1>1, <2>3
    <3>2. physical(ringCap, ringHead, i - 1) # physical(ringCap, ringHead, ringSize)
      BY <1>1, <3>1, PhysicalInjective
    <3> QED BY <1>2, <2>1, <2>3, <3>1, <3>2, SliceAt
  <2> QED BY <2>2, <2>3
<1>4. ringSlice' = [i \in 1..(ringSize + 1) |-> IF i = ringSize + 1 THEN v ELSE ringSlice[i]]
  <2>1. ringSlice' = [i \in 1..(ringSize + 1) |-> ringBuf'[physical(ringCap, ringHead, i - 1)]]
    BY <1>2 DEF ringSlice, physical
  <2> QED BY <1>3, <2>1
<1>5. ringSize < RingLimit
  BY <1>1
<1> QED BY <1>2, <1>4, <1>5 DEF Abstract!BQPush

\* Dropping from the front drops that many of the oldest, and no other event.
LEMMA DropFrontIsDrop ==
  ASSUME RingWellFormed, NEW n \in RingDrops, DropFront(n)
  PROVE  \E k \in 0..ringSize : Abstract!BQDrop(k)
<1> DEFINE k == ringMin(n, ringSize)
           gone(i) == \E j \in 0..(k - 1) : i = physical(ringCap, ringHead, j)
<1>1. /\ RingLimit \in Nat \ {0} /\ ringCap \in Nat /\ ringSize \in 0..ringCap
      /\ (ringCap > 0 => ringHead \in 0..(ringCap - 1)) /\ n \in Nat
  BY RingAssumption DEF RingWellFormed
<1>2. k \in 0..ringSize
  BY <1>1 DEF ringMin
<1>3. /\ ringBuf' = [i \in 0..(ringCap - 1) |-> IF gone(i) THEN RingZero ELSE ringBuf[i]]
      /\ ringSize' = ringSize - k /\ ringCap' = ringCap
      /\ ringHead' = IF ringSize = k THEN 0 ELSE physical(ringCap, ringHead, k)
  BY DEF DropFront, cleared
<1> HIDE DEF k
<1>4. ASSUME NEW i \in 1..(ringSize - k)
      PROVE  ringBuf'[physical(ringCap, ringHead', i - 1)] = ringSlice[i + k]
  <2>1. /\ ringHead \in 0..(ringCap - 1) /\ k \in 0..(ringCap - 1) /\ ringSize # k
        /\ i - 1 \in 0..(ringCap - 1) /\ i - 1 + k \in 0..(ringCap - 1)
        /\ i - 1 + k < ringCap /\ i + k \in 1..ringSize /\ (i + k) - 1 = i - 1 + k
        /\ i - 1 + k >= k
    BY <1>1, <1>2
  <2>2. physical(ringCap, ringHead', i - 1) = physical(ringCap, ringHead, i - 1 + k)
    BY <1>1, <1>3, <2>1, PhysicalShift
  <2>3. physical(ringCap, ringHead, i - 1 + k) \in 0..(ringCap - 1)
    BY <1>1, <2>1, PhysicalIsCell
  <2>4. ~gone(physical(ringCap, ringHead, i - 1 + k))
    <3> SUFFICES ASSUME NEW j \in 0..(k - 1)
                 PROVE  physical(ringCap, ringHead, i - 1 + k) # physical(ringCap, ringHead, j)
      OBVIOUS
    <3>1. j \in 0..(ringCap - 1) /\ j # i - 1 + k
      BY <1>1, <1>2, <2>1
    <3> QED BY <1>1, <2>1, <3>1, PhysicalInjective
  <2> HIDE DEF gone
  <2>5. ringBuf'[physical(ringCap, ringHead', i - 1)]
          = ringBuf[physical(ringCap, ringHead, i - 1 + k)]
    BY <1>3, <2>2, <2>3, <2>4
  <2> QED BY <2>1, <2>5, SliceAt
<1> HIDE DEF gone
<1>5. ringSlice' = [i \in 1..(ringSize - k) |-> ringSlice[i + k]]
  <2>1. ringSlice' = [i \in 1..(ringSize - k) |-> ringBuf'[physical(ringCap, ringHead', i - 1)]]
    BY <1>3 DEF ringSlice, physical
  <2> QED BY <1>4, <2>1
<1>6. Abstract!BQDrop(k)
  BY <1>3, <1>5 DEF Abstract!BQDrop
<1> QED BY <1>2, <1>6

\* Every step of the ring is a step of the queue or leaves it as it is.
LEMMA NextIsQueue ==
  RingWellFormed /\ [EventRingNext]_ringVars => [Abstract!BQNext]_(Abstract!bqVars)
<1> SUFFICES ASSUME RingWellFormed, [EventRingNext]_ringVars
             PROVE  [Abstract!BQNext]_(Abstract!bqVars)
  OBVIOUS
<1>1. ASSUME NEW v \in RingValues, PushBack(v) PROVE Abstract!BQPush(v)
  BY <1>1, PushFullIsPush, PushGrowIsPush, PushFreeIsPush DEF PushBack
<1>2. ASSUME NEW n \in RingDrops, DropFront(n)
      PROVE  \E k \in 0..ringSize : Abstract!BQDrop(k)
  BY <1>2, DropFrontIsDrop
<1>3. CASE UNCHANGED ringVars
  BY <1>3 DEF ringVars, Abstract!bqVars, ringSlice, physical
<1> QED BY <1>1, <1>2, <1>3 DEF EventRingNext, Abstract!BQNext

\* The ring of ring.go, read through At, implements a bounded queue: growing,
\* wrapping, overwriting and dropping never lose, repeat or reorder an event.
THEOREM RingImplementsQueue == EventRingSpec => RingIsQueue
<1>1. EventRingSpec => []RingWellFormed
  BY RingStaysWellFormed
<1> QED BY <1>1, InitIsQueue, NextIsQueue, PTL DEF EventRingSpec, RingIsQueue, Abstract!BQSpec

-----------------------------------------------------------------------------
(***************************************************************************)
(* Event histories: who holds an entry, and what a cleanup pass may still  *)
(* believe of it.                                                          *)
(***************************************************************************)

HistRecord == [seen : Nat, trimmed : Nat, events : Seq(Nat), active : Nat, gen : Nat]
HistCands == [ip : HistIPs, entry : Nat, gen : Nat]
HistAdds == [pc : {"write", "finish"}, ip : HistIPs, entry : Nat, now : Nat, due : BOOLEAN]
HistTasks ==
  {HistIdle} \cup HistAdds \cup [pc : {"collect"}, now : Nat]
    \cup [pc : {"scan"}, now : Nat, todo : SUBSET HistCands]
    \cup [pc : {"delete"}, now : Nat, todo : SUBSET HistCands, cand : HistCands]

EventHistoryTyped ==
  /\ histNow \in Nat /\ histPass \in Nat
  /\ histEntry \in Seq(HistRecord)
  /\ histMap \in [HistIPs -> 0..Len(histEntry)]
  /\ histWrote \in [HistIPs -> [entry : 0..Len(histEntry), at : Nat]]
  /\ histTask \in [HistWorkers -> HistTasks]

\* An entry belongs to one address, now and when it was last written.
HistOwned ==
  \A ip, jp \in HistIPs : ip # jp /\ histMap[ip] # 0 =>
    histMap[ip] # histMap[jp] /\ histMap[ip] # histWrote[jp].entry

\* A worker that holds an entry between lookup and finishAdd, which is the one
\* readers find.
HistHolding(w) == histTask[w].pc \in {"write", "finish"}
HistHeldMapped ==
  \A w \in HistWorkers : HistHolding(w) =>
    histTask[w].entry # 0 /\ histMap[histTask[w].ip] = histTask[w].entry

\* active counts the holders.
HistHolders(e) == {w \in HistWorkers : HistHolding(w) /\ histTask[w].entry = e}
HistCounted ==
  \A e \in 1..Len(histEntry) : histEntry[e].active = Cardinality(HistHolders(e))

\* A pass's candidates: the generation only grows, ...
HistCandOf(w, c) ==
  \/ histTask[w].pc \in {"scan", "delete"} /\ c \in histTask[w].todo
  \/ histTask[w].pc = "delete" /\ c = histTask[w].cand
HistCandSound(w) ==
  /\ histTask[w].pc # "idle" => histTask[w].now <= histNow
  /\ \A c \in HistCands : HistCandOf(w, c) =>
       c.entry \in 1..Len(histEntry) /\ histEntry[c.entry].gen >= c.gen

\* ... and with the generation it was taken with, and nobody holding it, the one
\* about to be deleted is as old as it was when its age was read.
HistExpired(w) ==
  LET h == histEntry[histTask[w].cand.entry]
  IN h.gen = histTask[w].cand.gen /\ h.active = 0 => h.seen < histTask[w].now - HistMaxAge
HistPassesSound ==
  \A w \in HistWorkers :
    HistCandSound(w) /\ (histTask[w].pc = "delete" => HistExpired(w))

\* The last event of an address is the last of the history it went to, ...
HistWroteSound ==
  \A ip \in HistIPs : histWrote[ip].entry # 0 =>
    LET h == histEntry[histWrote[ip].entry]
    IN h.seen = histWrote[ip].at /\ h.events # <<>> /\ h.events[Len(h.events)] = histWrote[ip].at

\* ... and while it is fresh that is the one readers find.
HistFreshMapped ==
  \A ip \in HistIPs :
    histWrote[ip].entry # 0 /\ histNow - histWrote[ip].at <= HistMaxAge =>
      histMap[ip] = histWrote[ip].entry

EventHistoryInv ==
  /\ EventHistoryTyped /\ HistOwned /\ HistHeldMapped /\ HistCounted
  /\ HistPassesSound /\ HistWroteSound /\ HistFreshMapped

LEMMA EventHistoryInitial == EventHistoryInit => EventHistoryInv
<1> SUFFICES ASSUME EventHistoryInit PROVE EventHistoryInv
  OBVIOUS
<1>1. Len(histEntry) = 0 /\ histEntry \in Seq(HistRecord)
  BY DEF EventHistoryInit
<1>2. EventHistoryTyped
  BY <1>1 DEF EventHistoryInit, EventHistoryTyped, HistTasks
<1>3. HistOwned /\ HistWroteSound /\ HistFreshMapped
  BY DEF EventHistoryInit, HistOwned, HistWroteSound, HistFreshMapped
<1>4. HistHeldMapped /\ HistPassesSound
  BY DEF EventHistoryInit, HistHeldMapped, HistPassesSound, HistCandSound, HistHolding,
     HistCandOf, HistIdle
<1>5. HistCounted
  BY <1>1 DEF HistCounted
<1> QED BY <1>2, <1>3, <1>4, <1>5 DEF EventHistoryInv

\* What a task holds, by where its worker is.
LEMMA HistTaskFields ==
  ASSUME NEW t \in HistTasks
  PROVE  /\ t.pc \in {"write", "finish"} => t \in HistAdds
         /\ t.pc = "delete" => t \in [pc : {"delete"}, now : Nat, todo : SUBSET HistCands, cand : HistCands]
<1>1. t \in HistAdds => t.pc # "delete"
  BY DEF HistAdds
<1> QED BY <1>1 DEF HistTasks, HistIdle

\* The holders of an entry are finitely many.
LEMMA HoldersFinite ==
  ASSUME NEW e PROVE IsFiniteSet(HistHolders(e)) /\ Cardinality(HistHolders(e)) \in Nat
<1>1. HistHolders(e) \subseteq HistWorkers
  BY DEF HistHolders
<1> QED BY <1>1, HistAssumption, FS_Subset, FS_CardinalityType

\* Steps of a worker that holds nothing before and after, that change no entry
\* and no address.
LEMMA PassesKeep ==
  ASSUME EventHistoryInv, NEW w \in HistWorkers, NEW t \in HistTasks,
         histTask' = [histTask EXCEPT ![w] = t],
         UNCHANGED <<histEntry, histNow, histWrote>>, histPass' \in Nat,
         histTask[w].pc \notin {"write", "finish"}, t.pc \notin {"write", "finish"},
         histMap' = histMap,
         HistCandSound(w)', t.pc = "delete" => HistExpired(w)'
  PROVE  EventHistoryInv'
<1>1. \A v \in HistWorkers : histTask'[v] = IF v = w THEN t ELSE histTask[v]
  BY DEF EventHistoryInv, EventHistoryTyped
<1>2. EventHistoryTyped'
  BY DEF EventHistoryInv, EventHistoryTyped
<1>3. \A v \in HistWorkers : /\ HistHolding(v)' <=> HistHolding(v)
                             /\ HistHolding(v) => histTask'[v] = histTask[v]
  BY <1>1 DEF HistHolding
<1>4. HistOwned' /\ HistWroteSound' /\ HistFreshMapped'
  BY DEF EventHistoryInv, HistOwned, HistWroteSound, HistFreshMapped
<1>5. HistHeldMapped'
  BY <1>3 DEF EventHistoryInv, HistHeldMapped
<1>6. \A e : HistHolders(e)' = HistHolders(e)
  BY <1>3 DEF HistHolders
<1>7. HistCounted'
  BY <1>6 DEF EventHistoryInv, HistCounted
<1>8. HistPassesSound'
  <2> SUFFICES ASSUME NEW v \in HistWorkers, v # w
               PROVE  (HistCandSound(v) /\ (histTask[v].pc = "delete" => HistExpired(v)))'
    BY <1>1 DEF HistPassesSound
  <2>1. histTask'[v] = histTask[v] /\ HistCandSound(v) /\ (histTask[v].pc = "delete" => HistExpired(v))
    BY <1>1 DEF EventHistoryInv, HistPassesSound
  <2>2. HistCandSound(v)'
    BY <2>1 DEF HistCandSound, HistCandOf
  <2> QED BY <2>1, <2>2 DEF HistExpired
<1> QED BY <1>2, <1>4, <1>5, <1>7, <1>8 DEF EventHistoryInv

\* A pass starts, collects its candidates, reads an age, and ends.
LEMMA PassStepsKeep ==
  ASSUME EventHistoryInv, NEW w \in HistWorkers,
         \/ startPass(w) \/ histCollect(w) \/ endPass(w)
         \/ histTask[w].pc = "scan" /\ \E c \in histTask[w].todo : checkAge(w, c)
  PROVE  EventHistoryInv'
<1>1. /\ histTask \in [HistWorkers -> HistTasks] /\ histNow \in Nat /\ histPass \in Nat
      /\ histEntry \in Seq(HistRecord) /\ Len(histEntry) \in Nat
      /\ histMap \in [HistIPs -> 0..Len(histEntry)]
      /\ HistCandSound(w)
  BY DEF EventHistoryInv, EventHistoryTyped, HistPassesSound
<1>2. CASE startPass(w)
  <2>1. PICK t : t = [pc |-> "collect", now |-> histNow]
    OBVIOUS
  <2>2. t \in HistTasks /\ t.pc = "collect" /\ t.now = histNow
    BY <1>1, <2>1 DEF HistTasks
  <2>3. /\ histTask' = [histTask EXCEPT ![w] = t] /\ histTask'[w] = t /\ histTask[w].pc = "idle"
        /\ UNCHANGED <<histMap, histEntry, histPass, histNow, histWrote>>
    BY <1>1, <1>2, <2>1 DEF startPass
  <2>4. HistCandSound(w)'
    BY <1>1, <2>2, <2>3 DEF HistCandSound, HistCandOf
  <2> QED BY <1>1, <2>2, <2>3, <2>4, PassesKeep
<1>3. CASE endPass(w)
  <2>1. /\ histTask' = [histTask EXCEPT ![w] = HistIdle] /\ histTask'[w] = HistIdle
        /\ histTask[w].pc = "scan" /\ histPass' = histTask[w].now
        /\ UNCHANGED <<histMap, histEntry, histNow, histWrote>>
    BY <1>1, <1>3 DEF endPass
  <2>2. histPass' \in Nat
    BY <1>1, <2>1 DEF HistTasks, HistAdds, HistIdle
  <2>3. HistIdle \in HistTasks /\ HistIdle.pc = "idle"
    BY DEF HistTasks, HistIdle
  <2>4. HistCandSound(w)'
    BY <2>1, <2>3 DEF HistCandSound, HistCandOf
  <2> QED BY <1>1, <2>1, <2>2, <2>3, <2>4, PassesKeep
<1>4. CASE histCollect(w)
  <2> DEFINE live == {i \in HistIPs : histMap[i] # 0 /\ histEntry[histMap[i]].active = 0}
             cand(ip) == [ip |-> ip, entry |-> histMap[ip], gen |-> histEntry[histMap[ip]].gen]
  <2>1. PICK todo : todo = {cand(ip) : ip \in live}
    OBVIOUS
  <2>2. PICK t : t = [pc |-> "scan", now |-> histTask[w].now, todo |-> todo]
    OBVIOUS
  <2>3. /\ histTask[w].pc = "collect" /\ histTask' = [histTask EXCEPT ![w] = t] /\ histTask'[w] = t
        /\ UNCHANGED <<histMap, histEntry, histPass, histNow, histWrote>>
    BY <1>1, <1>4, <2>1, <2>2 DEF histCollect
  <2>4. ASSUME NEW ip \in live
        PROVE  /\ cand(ip) \in HistCands
               /\ cand(ip).entry \in 1..Len(histEntry)
               /\ histEntry[cand(ip).entry].gen = cand(ip).gen
    <3>1. ip \in HistIPs /\ histMap[ip] \in 1..Len(histEntry)
      BY <1>1
    <3>2. histEntry[histMap[ip]] \in HistRecord
      BY <1>1, <3>1
    <3> QED BY <3>1, <3>2 DEF HistRecord, HistCands
  <2>5. todo \subseteq HistCands /\ \A c \in todo : /\ c.entry \in 1..Len(histEntry)
                                                    /\ histEntry[c.entry].gen >= c.gen
    <3> SUFFICES ASSUME NEW c \in todo
                 PROVE  /\ c \in HistCands /\ c.entry \in 1..Len(histEntry)
                        /\ histEntry[c.entry].gen >= c.gen
      OBVIOUS
    <3>1. PICK ip \in live : c = cand(ip)
      BY <2>1
    <3> QED BY <2>4, <3>1 DEF HistCands
  <2>6. histTask[w].now \in Nat
    BY <1>1, <2>3 DEF HistTasks, HistAdds, HistIdle
  <2>7. t \in HistTasks /\ t.pc = "scan" /\ t.todo = todo /\ t.now = histTask[w].now
    BY <2>2, <2>5, <2>6 DEF HistTasks
  <2>8. HistCandSound(w)'
    BY <1>1, <2>3, <2>5, <2>7 DEF HistCandSound, HistCandOf
  <2> QED BY <1>1, <2>3, <2>7, <2>8, PassesKeep
<1>5. CASE histTask[w].pc = "scan" /\ \E c \in histTask[w].todo : checkAge(w, c)
  <2>1. PICK c \in histTask[w].todo : checkAge(w, c)
    BY <1>5
  <2>2. PICK n, todo : n = histTask[w].now /\ todo = histTask[w].todo \ {c}
    OBVIOUS
  <2>3. n \in Nat /\ todo \subseteq HistCands /\ c \in HistCands /\ histTask[w].todo \subseteq HistCands
    BY <1>1, <1>5, <2>1, <2>2 DEF HistTasks, HistAdds, HistIdle
  <2>4. /\ n <= histNow
        /\ \A d \in todo \cup {c} : d.entry \in 1..Len(histEntry) /\ histEntry[d.entry].gen >= d.gen
    BY <1>1, <1>5, <2>1, <2>2, <2>3 DEF HistCandSound, HistCandOf
  <2>5. CASE histEntry[c.entry].seen < n - HistMaxAge
    <3>1. PICK t : t = [pc |-> "delete", now |-> n, todo |-> todo, cand |-> c]
      OBVIOUS
    <3>2. /\ t \in HistTasks /\ t.pc = "delete" /\ t.now = n /\ t.todo = todo /\ t.cand = c
      BY <2>3, <3>1 DEF HistTasks
    <3>3. /\ histTask' = [histTask EXCEPT ![w] = t] /\ histTask'[w] = t
          /\ UNCHANGED <<histMap, histEntry, histPass, histNow, histWrote>>
      BY <1>1, <2>1, <2>2, <2>5, <3>1 DEF checkAge
    <3>4. HistCandSound(w)'
      BY <2>4, <3>2, <3>3 DEF HistCandSound, HistCandOf
    <3>5. HistExpired(w)'
      BY <2>5, <3>2, <3>3 DEF HistExpired
    <3> QED BY <1>1, <1>5, <3>2, <3>3, <3>4, <3>5, PassesKeep
  <2>6. CASE ~(histEntry[c.entry].seen < n - HistMaxAge)
    <3>1. PICK t : t = [pc |-> "scan", now |-> n, todo |-> todo]
      OBVIOUS
    <3>2. t \in HistTasks /\ t.pc = "scan" /\ t.now = n /\ t.todo = todo
      BY <2>3, <3>1 DEF HistTasks
    <3>3. /\ histTask' = [histTask EXCEPT ![w] = t] /\ histTask'[w] = t
          /\ UNCHANGED <<histMap, histEntry, histPass, histNow, histWrote>>
      BY <1>1, <2>1, <2>2, <2>6, <3>1 DEF checkAge
    <3>4. HistCandSound(w)'
      BY <2>4, <3>2, <3>3 DEF HistCandSound, HistCandOf
    <3> QED BY <1>1, <1>5, <3>2, <3>3, <3>4, PassesKeep
  <2> QED BY <2>5, <2>6
<1> QED BY <1>2, <1>3, <1>4, <1>5

\* An address loses its entry only if that expired: nobody holds it, and it was
\* not added to since its age was read.
LEMMA DeleteKeeps ==
  ASSUME EventHistoryInv, NEW w \in HistWorkers, deleteExpired(w)
  PROVE  EventHistoryInv'
<1>1. /\ histTask \in [HistWorkers -> HistTasks] /\ histNow \in Nat /\ histPass \in Nat
      /\ histEntry \in Seq(HistRecord) /\ Len(histEntry) \in Nat
      /\ histMap \in [HistIPs -> 0..Len(histEntry)]
      /\ histWrote \in [HistIPs -> [entry : 0..Len(histEntry), at : Nat]]
      /\ histTask[w].pc = "delete" /\ HistCandSound(w) /\ HistExpired(w)
  BY DEF EventHistoryInv, EventHistoryTyped, HistPassesSound, deleteExpired
<1>2. PICK n, todo, c : n = histTask[w].now /\ todo = histTask[w].todo /\ c = histTask[w].cand
  OBVIOUS
<1>3. n \in Nat /\ todo \subseteq HistCands /\ c \in HistCands /\ c.ip \in HistIPs
  <2>1. histTask[w] \in [pc : {"delete"}, now : Nat, todo : SUBSET HistCands, cand : HistCands]
    BY <1>1, HistTaskFields
  <2> QED BY <1>2, <2>1 DEF HistCands
<1>4. /\ n <= histNow
      /\ \A d \in todo \cup {c} : d.entry \in 1..Len(histEntry) /\ histEntry[d.entry].gen >= d.gen
  BY <1>1, <1>2, <1>3 DEF HistCandSound, HistCandOf
<1>5. PICK t : t = [pc |-> "scan", now |-> n, todo |-> todo]
  OBVIOUS
<1>6. t \in HistTasks /\ t.pc = "scan" /\ t.now = n /\ t.todo = todo
  BY <1>3, <1>5 DEF HistTasks
<1>7. /\ histTask' = [histTask EXCEPT ![w] = t] /\ histTask'[w] = t
      /\ UNCHANGED <<histEntry, histPass, histNow, histWrote>>
      /\ histMap' = [histMap EXCEPT ![c.ip] = IF deletable(c) THEN 0 ELSE @]
  BY <1>1, <1>2, <1>5 DEF deleteExpired
<1>8. CASE ~deletable(c)
  <2>1. histMap' = histMap
    BY <1>1, <1>3, <1>7, <1>8
  <2>2. HistCandSound(w)'
    BY <1>4, <1>6, <1>7 DEF HistCandSound, HistCandOf
  <2> QED BY <1>1, <1>6, <1>7, <2>1, <2>2, PassesKeep
<1>9. CASE deletable(c)
  <2>1. /\ histMap[c.ip] = c.entry /\ c.entry # 0 /\ histEntry[c.entry].active = 0
        /\ histEntry[c.entry].seen < n - HistMaxAge
    BY <1>1, <1>2, <1>4, <1>9 DEF deletable, HistExpired
  <2>2. \A ip \in HistIPs : histMap'[ip] = IF ip = c.ip THEN 0 ELSE histMap[ip]
    BY <1>1, <1>3, <1>7, <1>9
  <2>3. \A v \in HistWorkers : histTask'[v] = IF v = w THEN t ELSE histTask[v]
    BY <1>1, <1>7
  <2>4. EventHistoryTyped'
    <3>1. histMap' \in [HistIPs -> 0..Len(histEntry)]
      BY <1>1, <1>3, <1>7, <1>9
    <3>2. histTask' \in [HistWorkers -> HistTasks]
      BY <1>1, <1>6, <1>7
    <3> QED BY <1>1, <1>7, <3>1, <3>2 DEF EventHistoryTyped
  <2>5. HistOwned'
    BY <1>7, <2>2 DEF EventHistoryInv, HistOwned
  <2>6. \A v \in HistWorkers : /\ HistHolding(v)' <=> HistHolding(v)
                               /\ HistHolding(v) => histTask'[v] = histTask[v]
    BY <1>1, <1>6, <2>3 DEF HistHolding
  <2>7. ASSUME NEW v \in HistWorkers, HistHolding(v)
        PROVE  histTask[v].ip # c.ip /\ histTask[v].ip \in HistIPs
    <3>1. histTask[v].entry # 0 /\ histMap[histTask[v].ip] = histTask[v].entry
      BY <2>7 DEF EventHistoryInv, HistHeldMapped
    <3>2. histTask[v].entry # c.entry
      <4> SUFFICES ASSUME histTask[v].entry = c.entry PROVE FALSE
        OBVIOUS
      <4>1. v \in HistHolders(c.entry)
        BY <2>7 DEF HistHolders
      <4>2. Cardinality(HistHolders(c.entry)) = 0
        BY <1>4, <2>1 DEF EventHistoryInv, HistCounted
      <4> QED BY <4>1, <4>2, HoldersFinite, FS_EmptySet
    <3>3. histTask[v].ip \in HistIPs
      <4>1. histTask[v] \in HistAdds
        BY <1>1, <2>7, HistTaskFields DEF HistHolding
      <4> QED BY <4>1 DEF HistAdds
    <3> QED BY <2>1, <3>1, <3>2, <3>3
  <2>8. HistHeldMapped'
    BY <2>2, <2>6, <2>7 DEF EventHistoryInv, HistHeldMapped
  <2>9. \A e : HistHolders(e)' = HistHolders(e)
    BY <2>6 DEF HistHolders
  <2>10. HistCounted'
    BY <1>7, <2>9 DEF EventHistoryInv, HistCounted
  <2>11. HistPassesSound'
    <3> SUFFICES ASSUME NEW v \in HistWorkers
                 PROVE  (HistCandSound(v) /\ (histTask[v].pc = "delete" => HistExpired(v)))'
      BY DEF HistPassesSound
    <3>1. CASE v = w
      BY <1>4, <1>6, <1>7, <3>1 DEF HistCandSound, HistCandOf
    <3>2. CASE v # w
      <4>1. /\ histTask'[v] = histTask[v] /\ HistCandSound(v)
            /\ (histTask[v].pc = "delete" => HistExpired(v))
        BY <2>3, <3>2 DEF EventHistoryInv, HistPassesSound
      <4>2. HistCandSound(v)'
        BY <1>7, <4>1 DEF HistCandSound, HistCandOf
      <4> QED BY <1>7, <4>1, <4>2 DEF HistExpired
    <3> QED BY <3>1, <3>2
  <2>12. HistWroteSound'
    BY <1>7 DEF EventHistoryInv, HistWroteSound
  <2>13. HistFreshMapped'
    <3> SUFFICES ASSUME NEW ip \in HistIPs, histWrote[ip].entry # 0,
                        histNow - histWrote[ip].at <= HistMaxAge
                 PROVE  histMap'[ip] = histWrote[ip].entry
      BY <1>7 DEF HistFreshMapped
    <3>1. histMap[ip] = histWrote[ip].entry
      BY DEF EventHistoryInv, HistFreshMapped
    <3>2. ip # c.ip
      <4> SUFFICES ASSUME ip = c.ip PROVE FALSE
        OBVIOUS
      <4>1. histEntry[c.entry].seen = histWrote[ip].at
        BY <2>1, <3>1 DEF EventHistoryInv, HistWroteSound
      <4>2. histWrote[ip].at \in Nat /\ HistMaxAge \in Nat
        BY <1>1, HistAssumption
      <4> QED BY <1>1, <1>3, <1>4, <2>1, <4>1, <4>2
    <3> QED BY <2>2, <3>1, <3>2
  <2> QED BY <2>4, <2>5, <2>8, <2>10, <2>11, <2>12, <2>13 DEF EventHistoryInv
<1> QED BY <1>8, <1>9

\* Time passes.
LEMMA HistTickKeeps ==
  ASSUME EventHistoryInv, histTick \/ UNCHANGED histVars
  PROVE  EventHistoryInv'
<1>1. /\ UNCHANGED <<histMap, histEntry, histPass, histTask, histWrote>>
      /\ histNow \in Nat /\ histNow' \in Nat /\ histNow <= histNow'
  BY DEF EventHistoryInv, EventHistoryTyped, histTick, histVars
<1>2. EventHistoryTyped' /\ HistOwned' /\ HistWroteSound'
  BY <1>1 DEF EventHistoryInv, EventHistoryTyped, HistOwned, HistWroteSound
<1>3. HistHeldMapped' /\ HistCounted'
  BY <1>1 DEF EventHistoryInv, HistHeldMapped, HistCounted, HistHolding, HistHolders
<1>4. HistPassesSound'
  <2> SUFFICES ASSUME NEW v \in HistWorkers
               PROVE  (HistCandSound(v) /\ (histTask[v].pc = "delete" => HistExpired(v)))'
    BY DEF HistPassesSound
  <2>1. HistCandSound(v) /\ (histTask[v].pc = "delete" => HistExpired(v)) /\ histTask[v] \in HistTasks
    BY DEF EventHistoryInv, HistPassesSound, EventHistoryTyped
  <2>2. histTask[v].pc # "idle" => histTask[v].now \in Nat
    BY <2>1 DEF HistTasks, HistAdds, HistIdle
  <2>3. HistCandSound(v)'
    BY <1>1, <2>1, <2>2 DEF HistCandSound, HistCandOf
  <2> QED BY <1>1, <2>1, <2>3 DEF HistExpired
<1>5. HistFreshMapped'
  <2> SUFFICES ASSUME NEW ip \in HistIPs, histWrote[ip].entry # 0,
                      histNow' - histWrote[ip].at <= HistMaxAge
               PROVE  histMap[ip] = histWrote[ip].entry
    BY <1>1 DEF HistFreshMapped
  <2>1. histWrote[ip].at \in Nat /\ HistMaxAge \in Nat
    BY HistAssumption DEF EventHistoryInv, EventHistoryTyped
  <2>2. histNow - histWrote[ip].at <= HistMaxAge
    BY <1>1, <2>1
  <2> QED BY <2>2 DEF EventHistoryInv, HistFreshMapped
<1> QED BY <1>2, <1>3, <1>4, <1>5 DEF EventHistoryInv

\* A worker takes hold of entry e of address ip: the one found, or a new one.
LEMMA HoldKeeps ==
  ASSUME EventHistoryInv, NEW w \in HistWorkers, NEW ip \in HistIPs, NEW e \in Nat, NEW t \in HistAdds,
         ~HistHolding(w), t.pc = "write", t.ip = ip, t.entry = e, t.now = histNow,
         histTask' = [histTask EXCEPT ![w] = t],
         histEntry' \in Seq(HistRecord), Len(histEntry') \in Nat, Len(histEntry) \in Nat,
         Len(histEntry) <= Len(histEntry'), e \in 1..Len(histEntry'),
         \A d \in 1..Len(histEntry') : d # e => d \in 1..Len(histEntry) /\ histEntry'[d] = histEntry[d],
         e \in 1..Len(histEntry) => /\ histEntry'[e].seen = histEntry[e].seen
                                    /\ histEntry'[e].events = histEntry[e].events
                                    /\ histEntry'[e].gen = histEntry[e].gen,
         histEntry'[e].active = Cardinality(HistHolders(e)) + 1,
         histMap' = [histMap EXCEPT ![ip] = e],
         histMap[ip] = e \/ (histMap[ip] = 0 /\ e \notin 1..Len(histEntry)),
         histPass' \in Nat, UNCHANGED <<histNow, histWrote>>
  PROVE  EventHistoryInv'
<1>1. /\ histTask \in [HistWorkers -> HistTasks] /\ histNow \in Nat
      /\ histMap \in [HistIPs -> 0..Len(histEntry)]
      /\ histWrote \in [HistIPs -> [entry : 0..Len(histEntry), at : Nat]]
  BY DEF EventHistoryInv, EventHistoryTyped
<1>2. \A v \in HistWorkers : histTask'[v] = IF v = w THEN t ELSE histTask[v]
  BY <1>1
<1>3. \A jp \in HistIPs : /\ histMap'[jp] = IF jp = ip THEN e ELSE histMap[jp]
                          /\ histMap[jp] \in 0..Len(histEntry)
                          /\ histWrote[jp].entry \in 0..Len(histEntry) /\ histWrote[jp].at \in Nat
  BY <1>1
<1>4. EventHistoryTyped'
  <2>1. t \in HistTasks
    BY DEF HistTasks
  <2>2. histTask' \in [HistWorkers -> HistTasks]
    BY <1>1, <2>1
  <2>3. histMap' \in [HistIPs -> 0..Len(histEntry')]
    BY <1>1
  <2>4. histWrote' \in [HistIPs -> [entry : 0..Len(histEntry'), at : Nat]]
    BY <1>1
  <2> QED BY <1>1, <2>2, <2>3, <2>4 DEF EventHistoryTyped
<1>5. HistOwned'
  <2> SUFFICES ASSUME NEW ap \in HistIPs, NEW bp \in HistIPs, ap # bp, histMap'[ap] # 0
               PROVE  histMap'[ap] # histMap'[bp] /\ histMap'[ap] # histWrote[bp].entry
    BY DEF HistOwned
  <2>1. /\ histMap[ap] # 0 => histMap[ap] # histMap[bp] /\ histMap[ap] # histWrote[bp].entry
        /\ histMap[bp] # 0 => histMap[bp] # histMap[ap]
    BY DEF EventHistoryInv, HistOwned
  <2> QED BY <1>3, <2>1
<1>6. \A v \in HistWorkers : /\ HistHolding(v)' <=> (v = w \/ HistHolding(v))
                             /\ v # w => histTask'[v] = histTask[v]
  BY <1>2 DEF HistHolding
<1>7. HistHeldMapped'
  <2> SUFFICES ASSUME NEW v \in HistWorkers, HistHolding(v)'
               PROVE  histTask'[v].entry # 0 /\ histMap'[histTask'[v].ip] = histTask'[v].entry
    BY DEF HistHeldMapped
  <2>1. CASE v = w
    BY <1>2, <1>3, <2>1
  <2>2. CASE v # w
    <3>1. histTask[v] \in HistAdds
      BY <1>1, <1>6, <2>2, HistTaskFields DEF HistHolding
    <3>2. histTask[v].ip \in HistIPs
      BY <3>1 DEF HistAdds
    <3>3. histTask[v].entry # 0 /\ histMap[histTask[v].ip] = histTask[v].entry
      BY <1>6, <2>2 DEF EventHistoryInv, HistHeldMapped
    <3> QED BY <1>2, <1>3, <2>2, <3>2, <3>3
  <2> QED BY <2>1, <2>2
<1>8. HistCounted'
  <2> SUFFICES ASSUME NEW d \in 1..Len(histEntry')
               PROVE  histEntry'[d].active = Cardinality(HistHolders(d)')
    BY DEF HistCounted
  <2>1. CASE d = e
    <3>1. HistHolders(d)' = HistHolders(e) \cup {w} /\ w \notin HistHolders(e)
      BY <1>2, <1>6, <2>1 DEF HistHolders
    <3>2. Cardinality(HistHolders(e) \cup {w}) = Cardinality(HistHolders(e)) + 1
      BY <3>1, HoldersFinite, FS_AddElement
    <3> QED BY <2>1, <3>1, <3>2
  <2>2. CASE d # e
    <3>1. HistHolders(d)' = HistHolders(d)
      BY <1>2, <1>6, <2>2 DEF HistHolders
    <3> QED BY <2>2, <3>1 DEF EventHistoryInv, HistCounted
  <2> QED BY <2>1, <2>2
<1>9. HistPassesSound'
  <2> SUFFICES ASSUME NEW v \in HistWorkers, v # w
               PROVE  (HistCandSound(v) /\ (histTask[v].pc = "delete" => HistExpired(v)))'
    <3>1. histTask'[w] = t /\ t.now <= histNow'
      BY <1>1, <1>2
    <3>2. HistCandSound(w)' /\ t.pc # "delete"
      BY <3>1 DEF HistCandSound, HistCandOf
    <3> QED BY <3>1, <3>2 DEF HistPassesSound
  <2>1. histTask'[v] = histTask[v] /\ HistCandSound(v) /\ (histTask[v].pc = "delete" => HistExpired(v))
    BY <1>2 DEF EventHistoryInv, HistPassesSound
  <2>2. HistCandSound(v)'
    BY <2>1 DEF HistCandSound, HistCandOf
  <2>3. ASSUME histTask[v].pc = "delete" PROVE HistExpired(v)'
    <3>1. PICK c : c = histTask[v].cand
      OBVIOUS
    <3>2. c \in HistCands
      <4>1. histTask[v] \in [pc : {"delete"}, now : Nat, todo : SUBSET HistCands, cand : HistCands]
        BY <1>1, <2>3, HistTaskFields
      <4> QED BY <3>1, <4>1
    <3>3. c.entry \in 1..Len(histEntry)
      BY <2>1, <2>3, <3>1, <3>2 DEF HistCandSound, HistCandOf
    <3>4. CASE c.entry = e
      <4>1. histEntry'[e].active # 0
        BY HoldersFinite
      <4> QED BY <2>1, <3>1, <3>4, <4>1 DEF HistExpired
    <3>5. CASE c.entry # e
      <4>1. histEntry'[c.entry] = histEntry[c.entry]
        BY <3>3, <3>5
      <4> QED BY <2>1, <2>3, <3>1, <4>1 DEF HistExpired
    <3> QED BY <3>4, <3>5
  <2> QED BY <2>1, <2>2, <2>3
<1>10. HistWroteSound'
  <2> SUFFICES ASSUME NEW jp \in HistIPs, histWrote[jp].entry # 0
               PROVE  LET h == histEntry'[histWrote[jp].entry]
                      IN /\ h.seen = histWrote[jp].at /\ h.events # <<>>
                         /\ h.events[Len(h.events)] = histWrote[jp].at
    BY DEF HistWroteSound
  <2>1. PICK d : d = histWrote[jp].entry
    OBVIOUS
  <2>2. d \in 1..Len(histEntry) /\ d \in 1..Len(histEntry')
    BY <1>3, <2>1
  <2>3. histEntry'[d].seen = histEntry[d].seen /\ histEntry'[d].events = histEntry[d].events
    BY <2>2
  <2> QED BY <2>1, <2>3 DEF EventHistoryInv, HistWroteSound
<1>11. HistFreshMapped'
  BY <1>3 DEF EventHistoryInv, HistFreshMapped
<1> QED BY <1>4, <1>5, <1>7, <1>8, <1>9, <1>10, <1>11 DEF EventHistoryInv

\* A record with another count of holders.
LEMMA HistActiveSet ==
  ASSUME NEW h \in HistRecord, NEW n \in Nat, NEW g, g = [h EXCEPT !.active = n]
  PROVE  g \in HistRecord /\ g.seen = h.seen /\ g.events = h.events /\ g.gen = h.gen /\ g.active = n
  BY DEF HistRecord

\* One more holder of an entry.
LEMMA HistActiveUp ==
  ASSUME NEW s \in Seq(HistRecord), NEW e \in 1..Len(s)
  PROVE  LET r == [s EXCEPT ![e].active = @ + 1]
         IN /\ r \in Seq(HistRecord) /\ Len(r) = Len(s)
            /\ \A d \in 1..Len(s) : d # e => r[d] = s[d]
            /\ r[e].seen = s[e].seen /\ r[e].events = s[e].events /\ r[e].gen = s[e].gen
            /\ r[e].active = s[e].active + 1
<1>1. PICK h \in HistRecord : h = s[e]
  BY ElementOfSeq
<1>2. PICK g : g = [h EXCEPT !.active = h.active + 1]
  OBVIOUS
<1>3. /\ h.active + 1 \in Nat /\ g \in HistRecord
      /\ g.seen = h.seen /\ g.events = h.events /\ g.gen = h.gen /\ g.active = h.active + 1
  <2>1. h.active + 1 \in Nat
    BY <1>1 DEF HistRecord
  <2> QED BY <1>1, <1>2, <2>1, HistActiveSet
<1>4. PICK r : r = [s EXCEPT ![e] = g]
  OBVIOUS
<1>5. r \in Seq(HistRecord) /\ Len(r) = Len(s) /\ \A d \in 1..Len(s) : r[d] = IF d = e THEN g ELSE s[d]
  BY <1>3, <1>4, ExceptSeq
<1>6. r = [s EXCEPT ![e].active = @ + 1]
  BY <1>1, <1>2, <1>4
<1> QED BY <1>1, <1>3, <1>5, <1>6

LEMMA HistLookupKeeps ==
  ASSUME EventHistoryInv, NEW w \in HistWorkers, NEW ip \in HistIPs, histLookup(w, ip)
  PROVE  EventHistoryInv'
<1>1. /\ histTask \in [HistWorkers -> HistTasks] /\ histNow \in Nat /\ histPass \in Nat
      /\ histEntry \in Seq(HistRecord) /\ Len(histEntry) \in Nat
      /\ histMap \in [HistIPs -> 0..Len(histEntry)] /\ histMap[ip] \in 0..Len(histEntry)
      /\ ~HistHolding(w) /\ histPass' \in Nat /\ UNCHANGED <<histNow, histWrote>>
  BY DEF EventHistoryInv, EventHistoryTyped, histLookup, HistHolding
<1>2. PICK due : due = (histNow - histPass > HistInterval)
  OBVIOUS
<1> due \in BOOLEAN
  BY <1>1, <1>2, HistAssumption
<1>3. CASE histMap[ip] # 0
  <2>1. PICK e : e = histMap[ip]
    OBVIOUS
  <2>2. e \in 1..Len(histEntry) /\ e \in Nat
    BY <1>1, <1>3, <2>1
  <2>3. PICK t : t = [pc |-> "write", ip |-> ip, entry |-> e, now |-> histNow, due |-> due]
    OBVIOUS
  <2>4. t \in HistAdds /\ t.pc = "write" /\ t.ip = ip /\ t.entry = e /\ t.now = histNow
    BY <1>1, <2>2, <2>3 DEF HistAdds
  <2>5. /\ histEntry' = [histEntry EXCEPT ![e].active = @ + 1]
        /\ histTask' = [histTask EXCEPT ![w] = t] /\ histMap' = histMap
    BY <1>2, <1>3, <2>1, <2>3 DEF histLookup, histHolding
  <2>6. histMap' = [histMap EXCEPT ![ip] = e]
    BY <1>1, <2>1, <2>5
  <2>7. /\ histEntry' \in Seq(HistRecord) /\ Len(histEntry') = Len(histEntry)
        /\ \A d \in 1..Len(histEntry) : d # e => histEntry'[d] = histEntry[d]
        /\ histEntry'[e].seen = histEntry[e].seen /\ histEntry'[e].events = histEntry[e].events
        /\ histEntry'[e].gen = histEntry[e].gen
        /\ histEntry'[e].active = histEntry[e].active + 1
    BY <1>1, <2>2, <2>5, HistActiveUp
  <2>8. histEntry[e].active = Cardinality(HistHolders(e))
    BY <2>2 DEF EventHistoryInv, HistCounted
  <2>9. /\ Len(histEntry) <= Len(histEntry') /\ e \in 1..Len(histEntry') /\ Len(histEntry') \in Nat
        /\ \A d \in 1..Len(histEntry') : d # e => d \in 1..Len(histEntry) /\ histEntry'[d] = histEntry[d]
        /\ histEntry'[e].active = Cardinality(HistHolders(e)) + 1
    BY <1>1, <2>2, <2>7, <2>8
  <2> QED BY <1>1, <2>1, <2>2, <2>4, <2>5, <2>6, <2>7, <2>9, HoldKeeps
<1>4. CASE histMap[ip] = 0
  <2>1. PICK e : e = Len(histEntry) + 1
    OBVIOUS
  <2>2. PICK h : h = newEntry
    OBVIOUS
  <2>3. h \in HistRecord /\ h.active = 1
    BY <1>1, <2>2 DEF newEntry, HistRecord
  <2>4. histEntry' = Append(histEntry, h)
    BY <1>4, <2>2 DEF histLookup
  <2>5. /\ histEntry' \in Seq(HistRecord) /\ Len(histEntry') = e
        /\ \A d \in 1..Len(histEntry) : histEntry'[d] = histEntry[d]
        /\ histEntry'[e] = h
    BY <1>1, <2>1, <2>3, <2>4, AppendProperties
  <2>6. PICK t : t = [pc |-> "write", ip |-> ip, entry |-> e, now |-> histNow, due |-> due]
    OBVIOUS
  <2>7. t \in HistAdds /\ t.pc = "write" /\ t.ip = ip /\ t.entry = e /\ t.now = histNow /\ e \in Nat
    BY <1>1, <2>1, <2>6 DEF HistAdds
  <2>8. /\ histTask' = [histTask EXCEPT ![w] = t] /\ histMap' = [histMap EXCEPT ![ip] = e]
    BY <1>2, <1>4, <2>5, <2>6 DEF histLookup, histHolding
  <2>9. HistHolders(e) = {}
    <3> SUFFICES ASSUME NEW v \in HistWorkers, HistHolding(v), histTask[v].entry = e PROVE FALSE
      BY DEF HistHolders
    <3>1. histTask[v] \in HistAdds
      BY <1>1, HistTaskFields DEF HistHolding
    <3>2. histTask[v].ip \in HistIPs
      BY <3>1 DEF HistAdds
    <3>3. histMap[histTask[v].ip] = e
      BY DEF EventHistoryInv, HistHeldMapped
    <3> QED BY <1>1, <2>1, <3>2, <3>3
  <2>10. Cardinality(HistHolders(e)) = 0
    BY <2>9, FS_EmptySet
  <2>11. e \notin 1..Len(histEntry) /\ e \in 1..Len(histEntry')
    BY <1>1, <2>1, <2>5
  <2>12. \A d \in 1..Len(histEntry') : d # e => d \in 1..Len(histEntry) /\ histEntry'[d] = histEntry[d]
    BY <1>1, <2>1, <2>5
  <2>13. /\ Len(histEntry) <= Len(histEntry') /\ Len(histEntry') \in Nat
         /\ histEntry'[e].active = Cardinality(HistHolders(e)) + 1
    BY <1>1, <2>1, <2>3, <2>5, <2>7, <2>10
  <2> QED BY <1>1, <1>4, <2>5, <2>7, <2>8, <2>11, <2>12, <2>13, HoldKeeps
<1> QED BY <1>3, <1>4

\* Trimming keeps a sequence of times, and a push puts its time last.
LEMMA HistTrimmed ==
  ASSUME histNow \in Nat, NEW s \in Seq(Nat)
  PROVE  cleanupOldEvents(s) \in Seq(Nat)
<1>1. PICK fresh : fresh = {i \in 1..Len(s) : s[i] >= histNow - HistMaxAge}
  OBVIOUS
<1>2. Len(s) \in Nat /\ \A i \in 1..Len(s) : s[i] \in Nat
  BY LenProperties, ElementOfSeq
<1>3. CASE fresh = {}
  <2>1. cleanupOldEvents(s) = SubSeq(s, Len(s) + 1, Len(s))
    BY <1>1, <1>3 DEF cleanupOldEvents
  <2>2. \A i \in (Len(s) + 1)..Len(s) : s[i] \in Nat
    BY <1>2
  <2> QED BY <1>2, <2>1, <2>2, SubSeqProperties
<1>4. CASE fresh # {}
  <2>1. fresh \subseteq Nat /\ fresh \subseteq 1..Len(s)
    BY <1>1, <1>2
  <2>2. PICK b \in fresh : \A x \in fresh : ~(<<x, b>> \in OpToRel(<, Nat))
    BY <1>4, <2>1, WFMin, NatLessThanWellFounded
  <2>3. ASSUME NEW x \in fresh PROVE b <= x
    <3>1. x \in Nat /\ b \in Nat
      BY <2>1, <2>2
    <3>2. ~(x < b)
      <4> SUFFICES ASSUME x < b PROVE FALSE
        OBVIOUS
      <4>1. <<x, b>> \in OpToRel(<, Nat)
        BY <3>1 DEF OpToRel
      <4> QED BY <2>2, <4>1
    <3> QED BY <3>1, <3>2
  <2>4. PICK m : m = CHOOSE i \in fresh : \A j \in fresh : i <= j
    OBVIOUS
  <2>5. m \in fresh
    BY <2>2, <2>3, <2>4
  <2>6. cleanupOldEvents(s) = SubSeq(s, m, Len(s))
    BY <1>1, <1>4, <2>4 DEF cleanupOldEvents
  <2>7. m \in Int /\ Len(s) \in Int /\ \A i \in m..Len(s) : s[i] \in Nat
    BY <1>2, <2>1, <2>5
  <2> QED BY <2>6, <2>7, SubSeqProperties
<1> QED BY <1>3, <1>4

LEMMA HistPushedLast ==
  ASSUME NEW s \in Seq(Nat), NEW n \in Nat
  PROVE  LET p == histPushed(s, n)
         IN p \in Seq(Nat) /\ p # <<>> /\ p[Len(p)] = n
<1>1. PICK q \in Seq(Nat) : histPushed(s, n) = Append(q, n)
  <2>1. CASE Len(s) = HistEvents
    <3>1. s # <<>>
      BY <2>1, HistAssumption
    <3>2. Tail(s) \in Seq(Nat)
      BY <3>1, HeadTailProperties
    <3> QED BY <2>1, <3>2 DEF histPushed
  <2>2. CASE Len(s) # HistEvents
    BY <2>2 DEF histPushed
  <2> QED BY <2>1, <2>2
<1>2. /\ Append(q, n) \in Seq(Nat) /\ Append(q, n) # <<>> /\ Len(Append(q, n)) = Len(q) + 1
      /\ Append(q, n)[Len(q) + 1] = n
  BY <1>1, AppendProperties
<1> QED BY <1>1, <1>2

\* The record of an entry an event was added to.
HistAdded(h, p, m, n) == [h EXCEPT !.events = p, !.trimmed = m, !.seen = n]

LEMMA HistWritten ==
  ASSUME NEW h, NEW p, NEW n, NEW m, NEW g,
         h \in HistRecord, p \in Seq(Nat), n \in Nat, m \in Nat,
         g = HistAdded(h, p, m, n)
  PROVE  /\ g \in HistRecord /\ g.events = p /\ g.seen = n
         /\ g.active = h.active /\ g.gen = h.gen
<1>1. g.events = p /\ g.seen = n /\ g.active = h.active /\ g.gen = h.gen /\ g.trimmed = m
  BY DEF HistRecord, HistAdded
<1>2. [h EXCEPT !.events = p] \in HistRecord
  BY DEF HistRecord
<1>3. [[h EXCEPT !.events = p] EXCEPT !.trimmed = m] \in HistRecord
  BY <1>2 DEF HistRecord
<1>4. [[[h EXCEPT !.events = p] EXCEPT !.trimmed = m] EXCEPT !.seen = n] \in HistRecord
  BY <1>3 DEF HistRecord
<1> QED BY <1>1, <1>4 DEF HistAdded

\* A holder's task, its address and its entry.
LEMMA HistHolder ==
  ASSUME EventHistoryInv, NEW w \in HistWorkers, HistHolding(w)
  PROVE  /\ histTask[w] \in HistAdds /\ histTask[w].ip \in HistIPs
         /\ histTask[w].entry \in 1..Len(histEntry) /\ histMap[histTask[w].ip] = histTask[w].entry
         /\ w \in HistHolders(histTask[w].entry) /\ histEntry[histTask[w].entry].active # 0
<1>1. /\ histTask \in [HistWorkers -> HistTasks] /\ Len(histEntry) \in Nat
      /\ histMap \in [HistIPs -> 0..Len(histEntry)]
  BY DEF EventHistoryInv, EventHistoryTyped
<1>2. histTask[w] \in HistAdds
  BY <1>1, HistTaskFields DEF HistHolding
<1>3. histTask[w].ip \in HistIPs
  BY <1>2 DEF HistAdds
<1>4. histTask[w].entry # 0 /\ histMap[histTask[w].ip] = histTask[w].entry
  BY DEF EventHistoryInv, HistHeldMapped
<1>5. PICK e : e = histTask[w].entry
  OBVIOUS
<1>6. e \in 1..Len(histEntry)
  BY <1>1, <1>3, <1>4, <1>5
<1>7. w \in HistHolders(e)
  BY <1>5 DEF HistHolders
<1>8. histEntry[e].active # 0
  <2>1. Cardinality(HistHolders(e)) # 0
    BY <1>7, HoldersFinite, FS_EmptySet
  <2> QED BY <1>6, <2>1 DEF EventHistoryInv, HistCounted
<1> QED BY <1>2, <1>3, <1>4, <1>5, <1>6, <1>7, <1>8

\* An event is written: to the history readers find, which no pass may delete
\* while its writer holds it.
LEMMA HistWriteKeeps ==
  ASSUME EventHistoryInv, NEW w \in HistWorkers, histWrite(w)
  PROVE  EventHistoryInv'
<1>1. /\ histTask \in [HistWorkers -> HistTasks] /\ histNow \in Nat /\ histPass \in Nat
      /\ histEntry \in Seq(HistRecord) /\ Len(histEntry) \in Nat
      /\ histMap \in [HistIPs -> 0..Len(histEntry)]
      /\ histWrote \in [HistIPs -> [entry : 0..Len(histEntry), at : Nat]]
      /\ histTask[w].pc = "write" /\ UNCHANGED <<histMap, histPass, histNow>>
  BY DEF EventHistoryInv, EventHistoryTyped, histWrite
<1>2. PICK e, ip : e = histTask[w].entry /\ ip = histTask[w].ip
  OBVIOUS
<1>3. /\ HistHolding(w) /\ histTask[w] \in HistAdds /\ ip \in HistIPs /\ e \in 1..Len(histEntry)
      /\ histMap[ip] = e /\ histEntry[e].active # 0
  BY <1>1, <1>2, HistHolder DEF HistHolding
<1>4. PICK h \in HistRecord : h = histEntry[e]
  BY <1>1, <1>3, ElementOfSeq
<1>5. PICK p \in Seq(Nat), m \in Nat :
         /\ p # <<>> /\ p[Len(p)] = histNow
         /\ histEntry' = [histEntry EXCEPT ![e] = [h EXCEPT !.events = p, !.trimmed = m, !.seen = histNow]]
  <2>1. h.events \in Seq(Nat) /\ h.trimmed \in Nat
    BY <1>4 DEF HistRecord
  <2>2. CASE histNow - h.trimmed > HistTrim
    <3>1. cleanupOldEvents(h.events) \in Seq(Nat)
      BY <1>1, <2>1, HistTrimmed
    <3>2. PICK p : p = histPushed(cleanupOldEvents(h.events), histNow)
      OBVIOUS
    <3>3. p \in Seq(Nat) /\ p # <<>> /\ p[Len(p)] = histNow
      BY <1>1, <3>1, <3>2, HistPushedLast
    <3>4. histEntry' = [histEntry EXCEPT ![e] = [h EXCEPT !.events = p, !.trimmed = histNow, !.seen = histNow]]
      BY <1>2, <1>4, <2>2, <3>2 DEF histWrite
    <3> QED BY <1>1, <3>3, <3>4
  <2>3. CASE ~(histNow - h.trimmed > HistTrim)
    <3>1. PICK p : p = histPushed(h.events, histNow)
      OBVIOUS
    <3>2. p \in Seq(Nat) /\ p # <<>> /\ p[Len(p)] = histNow
      BY <1>1, <2>1, <3>1, HistPushedLast
    <3>3. histEntry' = [histEntry EXCEPT ![e] = [h EXCEPT !.events = p, !.trimmed = h.trimmed, !.seen = histNow]]
      BY <1>2, <1>4, <2>3, <3>1 DEF histWrite
    <3> QED BY <2>1, <3>2, <3>3
  <2> QED BY <2>2, <2>3
<1>6. PICK g : g = [h EXCEPT !.events = p, !.trimmed = m, !.seen = histNow]
  OBVIOUS
<1>7. g \in HistRecord /\ g.events = p /\ g.seen = histNow /\ g.active = h.active /\ g.gen = h.gen
  <2>1. PICK n : n = histNow
    OBVIOUS
  <2>2. g = HistAdded(h, p, m, n)
    BY <1>6, <2>1 DEF HistAdded
  <2>3. g \in HistRecord /\ g.events = p /\ g.seen = n /\ g.active = h.active /\ g.gen = h.gen
    <3>1. h \in HistRecord /\ p \in Seq(Nat) /\ m \in Nat /\ n \in Nat
      BY <1>1, <1>4, <1>5, <2>1
    <3> QED BY <2>2, <3>1, HistWritten
  <2> QED BY <2>1, <2>3
<1>8. /\ histEntry' \in Seq(HistRecord) /\ Len(histEntry') = Len(histEntry)
      /\ \A d \in 1..Len(histEntry) : histEntry'[d] = IF d = e THEN g ELSE histEntry[d]
  BY <1>1, <1>3, <1>5, <1>6, <1>7, ExceptSeq
<1>9. PICK t : t = [histTask[w] EXCEPT !.pc = "finish"]
  OBVIOUS
<1>10. t \in HistAdds /\ t.pc = "finish" /\ t.ip = ip /\ t.entry = e /\ t.now = histTask[w].now
  BY <1>2, <1>3, <1>9 DEF HistAdds
<1>11. histTask' = [histTask EXCEPT ![w] = t]
  BY <1>9 DEF histWrite
<1>12. \A v \in HistWorkers : histTask'[v] = IF v = w THEN t ELSE histTask[v]
  BY <1>1, <1>11
<1>13. PICK u : u = [entry |-> e, at |-> histNow]
  OBVIOUS
<1>14. u \in [entry : 0..Len(histEntry), at : Nat] /\ u.entry = e /\ u.at = histNow
  BY <1>1, <1>3, <1>13
<1>15. histWrote' = [histWrote EXCEPT ![ip] = u]
  BY <1>2, <1>13 DEF histWrite
<1>16. \A jp \in HistIPs : histWrote'[jp] = IF jp = ip THEN u ELSE histWrote[jp]
  BY <1>1, <1>15
<1>17. EventHistoryTyped'
  <2>1. t \in HistTasks
    BY <1>10 DEF HistTasks
  <2>2. histTask' \in [HistWorkers -> HistTasks]
    BY <1>1, <1>11, <2>1
  <2>3. histWrote' \in [HistIPs -> [entry : 0..Len(histEntry), at : Nat]]
    BY <1>1, <1>14, <1>15
  <2> QED BY <1>1, <1>8, <2>2, <2>3 DEF EventHistoryTyped
<1>18. HistOwned'
  BY <1>1, <1>3, <1>14, <1>16 DEF EventHistoryInv, HistOwned
<1>19. \A v \in HistWorkers : /\ HistHolding(v)' <=> HistHolding(v)
                              /\ HistHolding(v) => /\ histTask'[v].ip = histTask[v].ip
                                                   /\ histTask'[v].entry = histTask[v].entry
  BY <1>2, <1>3, <1>10, <1>12 DEF HistHolding
<1>20. HistHeldMapped'
  BY <1>1, <1>19 DEF EventHistoryInv, HistHeldMapped
<1>21. \A d : HistHolders(d)' = HistHolders(d)
  BY <1>19 DEF HistHolders
<1>22. HistCounted'
  BY <1>4, <1>7, <1>8, <1>21 DEF EventHistoryInv, HistCounted
<1>23. HistPassesSound'
  <2> SUFFICES ASSUME NEW v \in HistWorkers
               PROVE  (HistCandSound(v) /\ (histTask[v].pc = "delete" => HistExpired(v)))'
    BY DEF HistPassesSound
  <2>1. HistCandSound(v) /\ (histTask[v].pc = "delete" => HistExpired(v))
    BY DEF EventHistoryInv, HistPassesSound
  <2>2. CASE v = w
    <3>1. histTask'[v] = t /\ t.now <= histNow'
      BY <1>1, <1>10, <1>12, <2>1, <2>2 DEF HistCandSound
    <3> QED BY <1>10, <3>1 DEF HistCandSound, HistCandOf
  <2>3. CASE v # w
    <3>1. histTask'[v] = histTask[v]
      BY <1>12, <2>3
    <3>2. HistCandSound(v)'
      BY <1>1, <1>4, <1>7, <1>8, <2>1, <3>1 DEF HistCandSound, HistCandOf
    <3>3. ASSUME histTask[v].pc = "delete" PROVE HistExpired(v)'
      <4>1. PICK c : c = histTask[v].cand
        OBVIOUS
      <4>2. c \in HistCands
        <5>1. histTask[v] \in [pc : {"delete"}, now : Nat, todo : SUBSET HistCands, cand : HistCands]
          BY <1>1, <3>3, HistTaskFields
        <5> QED BY <4>1, <5>1
      <4>3. c.entry \in 1..Len(histEntry)
        BY <2>1, <3>3, <4>1, <4>2 DEF HistCandSound, HistCandOf
      <4>4. CASE c.entry = e
        <5>1. histEntry'[e].active # 0
          BY <1>3, <1>4, <1>7, <1>8
        <5> QED BY <3>1, <4>1, <4>4, <5>1 DEF HistExpired
      <4>5. CASE c.entry # e
        <5>1. histEntry'[c.entry] = histEntry[c.entry]
          BY <1>8, <4>3, <4>5
        <5> QED BY <2>1, <3>1, <3>3, <4>1, <5>1 DEF HistExpired
      <4> QED BY <4>4, <4>5
    <3> QED BY <3>1, <3>2, <3>3
  <2> QED BY <2>2, <2>3
<1>24. HistWroteSound'
  <2> SUFFICES ASSUME NEW jp \in HistIPs, histWrote'[jp].entry # 0
               PROVE  LET h_1 == histEntry'[histWrote'[jp].entry]
                      IN /\ h_1.seen = histWrote'[jp].at /\ h_1.events # <<>>
                         /\ h_1.events[Len(h_1.events)] = histWrote'[jp].at
    BY DEF HistWroteSound
  <2>1. CASE jp = ip
    <3>1. histWrote'[jp].entry = e /\ histWrote'[jp].at = histNow /\ histEntry'[e] = g
      BY <1>3, <1>8, <1>14, <1>16, <2>1
    <3> QED BY <1>5, <1>7, <3>1
  <2>2. CASE jp # ip
    <3>1. PICK d : d = histWrote[jp].entry
      OBVIOUS
    <3>2. histWrote'[jp] = histWrote[jp] /\ d # 0 /\ d \in 1..Len(histEntry)
      BY <1>1, <1>16, <2>2, <3>1
    <3>3. d # e
      BY <1>3, <2>2, <3>1, <3>2 DEF EventHistoryInv, HistOwned
    <3>4. histEntry'[d] = histEntry[d]
      BY <1>8, <3>2, <3>3
    <3> QED BY <3>1, <3>2, <3>4 DEF EventHistoryInv, HistWroteSound
  <2> QED BY <2>1, <2>2
<1>25. HistFreshMapped'
  BY <1>1, <1>3, <1>14, <1>16 DEF EventHistoryInv, HistFreshMapped
<1> QED BY <1>17, <1>18, <1>20, <1>22, <1>23, <1>24, <1>25 DEF EventHistoryInv

\* The entries once a holder of e lets it go.
HistRelease(s, e) == [s EXCEPT ![e].gen = @ + 1, ![e].active = @ - 1]

LEMMA HistReleased ==
  ASSUME NEW s \in Seq(HistRecord), NEW e \in 1..Len(s), s[e].active # 0, NEW r,
         r = HistRelease(s, e)
  PROVE  /\ r \in Seq(HistRecord) /\ Len(r) = Len(s)
         /\ \A d \in 1..Len(s) : d # e => r[d] = s[d]
         /\ r[e].seen = s[e].seen /\ r[e].events = s[e].events
         /\ r[e].gen = s[e].gen + 1 /\ r[e].active = s[e].active - 1
<1>1. PICK h \in HistRecord : h = s[e]
  BY ElementOfSeq
<1>2. PICK m \in Nat, n \in Nat : m = h.gen + 1 /\ n = h.active - 1
  <2>1. h.gen \in Nat /\ h.active \in Nat /\ h.active # 0
    BY <1>1 DEF HistRecord
  <2> QED BY <2>1
<1>3. PICK f : f = [h EXCEPT !.gen = m]
  OBVIOUS
<1>4. f \in HistRecord /\ f.seen = h.seen /\ f.events = h.events /\ f.gen = m /\ f.active = h.active
  BY <1>1, <1>2, <1>3 DEF HistRecord
<1>5. PICK g : g = [f EXCEPT !.active = n]
  OBVIOUS
<1>6. g \in HistRecord /\ g.seen = h.seen /\ g.events = h.events /\ g.gen = m /\ g.active = n
  BY <1>2, <1>4, <1>5, HistActiveSet
<1>7. PICK q : q = [s EXCEPT ![e] = f]
  OBVIOUS
<1>8. q \in Seq(HistRecord) /\ Len(q) = Len(s) /\ \A d \in 1..Len(s) : q[d] = IF d = e THEN f ELSE s[d]
  BY <1>4, <1>7, ExceptSeq
<1>9. PICK z : z = [q EXCEPT ![e] = g]
  OBVIOUS
<1>10. z \in Seq(HistRecord) /\ Len(z) = Len(s) /\ \A d \in 1..Len(s) : z[d] = IF d = e THEN g ELSE q[d]
  BY <1>6, <1>8, <1>9, ExceptSeq
<1>11. q = [s EXCEPT ![e].gen = @ + 1]
  BY <1>1, <1>2, <1>3, <1>7
<1>12. z = [q EXCEPT ![e].active = @ - 1]
  <2>1. q[e] = f /\ f.active - 1 = n
    BY <1>2, <1>4, <1>8
  <2> QED BY <1>5, <1>9, <2>1
<1>13. z = r
  BY <1>11, <1>12 DEF HistRelease
<1> QED BY <1>1, <1>2, <1>6, <1>8, <1>10, <1>13

\* finishAdd: the writer lets its entry go, one generation on, and may start a
\* pass of its own.
LEMMA FinishAddKeeps ==
  ASSUME EventHistoryInv, NEW w \in HistWorkers, finishAdd(w)
  PROVE  EventHistoryInv'
<1>1. /\ histTask \in [HistWorkers -> HistTasks] /\ histNow \in Nat /\ histPass \in Nat
      /\ histEntry \in Seq(HistRecord) /\ Len(histEntry) \in Nat
      /\ histMap \in [HistIPs -> 0..Len(histEntry)]
      /\ histWrote \in [HistIPs -> [entry : 0..Len(histEntry), at : Nat]]
      /\ histTask[w].pc = "finish" /\ UNCHANGED <<histMap, histPass, histNow, histWrote>>
  BY DEF EventHistoryInv, EventHistoryTyped, finishAdd
<1>2. PICK e : e = histTask[w].entry
  OBVIOUS
<1>3. /\ HistHolding(w) /\ histTask[w] \in HistAdds /\ e \in 1..Len(histEntry)
      /\ histEntry[e].active # 0 /\ w \in HistHolders(e)
  BY <1>1, <1>2, HistHolder DEF HistHolding
<1>4. histEntry' = [histEntry EXCEPT ![e].gen = @ + 1, ![e].active = @ - 1]
  BY <1>2 DEF finishAdd
<1>5. /\ histEntry' \in Seq(HistRecord) /\ Len(histEntry') = Len(histEntry)
      /\ \A d \in 1..Len(histEntry) : d # e => histEntry'[d] = histEntry[d]
      /\ histEntry'[e].seen = histEntry[e].seen /\ histEntry'[e].events = histEntry[e].events
      /\ histEntry'[e].gen = histEntry[e].gen + 1 /\ histEntry'[e].active = histEntry[e].active - 1
  <2>1. PICK s, r : s = histEntry /\ r = histEntry'
    OBVIOUS
  <2>2. /\ s \in Seq(HistRecord) /\ e \in 1..Len(s) /\ s[e].active # 0
        /\ r = HistRelease(s, e)
    BY <1>1, <1>3, <1>4, <2>1 DEF HistRelease
  <2>3. /\ r \in Seq(HistRecord) /\ Len(r) = Len(s)
        /\ \A d \in 1..Len(s) : d # e => r[d] = s[d]
        /\ r[e].seen = s[e].seen /\ r[e].events = s[e].events
        /\ r[e].gen = s[e].gen + 1 /\ r[e].active = s[e].active - 1
    BY <2>2, HistReleased
  <2> QED BY <2>1, <2>3
<1>6. PICK n : n = histTask[w].now
  OBVIOUS
<1>7. n \in Nat /\ n <= histNow
  BY <1>1, <1>3, <1>6 DEF EventHistoryInv, HistPassesSound, HistCandSound, HistAdds
<1>8. PICK t : t = IF histTask[w].due THEN [pc |-> "collect", now |-> n] ELSE HistIdle
  OBVIOUS
<1>9. t \in HistTasks /\ t.pc \in {"collect", "idle"} /\ (t.pc = "collect" => t.now = n)
  BY <1>7, <1>8 DEF HistTasks, HistIdle
<1>10. histTask' = [histTask EXCEPT ![w] = t]
  BY <1>6, <1>8 DEF finishAdd
<1>11. \A v \in HistWorkers : histTask'[v] = IF v = w THEN t ELSE histTask[v]
  BY <1>1, <1>10
<1>12. EventHistoryTyped'
  <2>1. histTask' \in [HistWorkers -> HistTasks]
    BY <1>1, <1>9, <1>10
  <2> QED BY <1>1, <1>5, <2>1 DEF EventHistoryTyped
<1>13. HistOwned' /\ HistFreshMapped'
  BY <1>1 DEF EventHistoryInv, HistOwned, HistFreshMapped
<1>14. \A v \in HistWorkers : /\ HistHolding(v)' <=> (HistHolding(v) /\ v # w)
                              /\ v # w => histTask'[v] = histTask[v]
  BY <1>9, <1>11 DEF HistHolding
<1>15. HistHeldMapped'
  BY <1>1, <1>14 DEF EventHistoryInv, HistHeldMapped
<1>16. HistCounted'
  <2> SUFFICES ASSUME NEW d \in 1..Len(histEntry)
               PROVE  histEntry'[d].active = Cardinality(HistHolders(d)')
    BY <1>5 DEF HistCounted
  <2>1. histEntry[d].active = Cardinality(HistHolders(d))
    BY DEF EventHistoryInv, HistCounted
  <2>2. CASE d = e
    <3>1. HistHolders(d)' = HistHolders(e) \ {w}
      BY <1>14, <2>2 DEF HistHolders
    <3>2. Cardinality(HistHolders(e) \ {w}) = Cardinality(HistHolders(e)) - 1
      BY <1>3, HoldersFinite, FS_RemoveElement
    <3> QED BY <1>5, <2>1, <2>2, <3>1, <3>2
  <2>3. CASE d # e
    <3>1. HistHolders(d)' = HistHolders(d)
      BY <1>2, <1>14, <2>3 DEF HistHolders
    <3> QED BY <1>5, <2>1, <2>3, <3>1
  <2> QED BY <2>2, <2>3
<1>17. HistPassesSound'
  <2> SUFFICES ASSUME NEW v \in HistWorkers
               PROVE  (HistCandSound(v) /\ (histTask[v].pc = "delete" => HistExpired(v)))'
    BY DEF HistPassesSound
  <2>1. HistCandSound(v) /\ (histTask[v].pc = "delete" => HistExpired(v))
    BY DEF EventHistoryInv, HistPassesSound
  <2>2. CASE v = w
    <3>1. histTask'[v] = t
      BY <1>11, <2>2
    <3> QED BY <1>1, <1>7, <1>9, <3>1 DEF HistCandSound, HistCandOf
  <2>3. CASE v # w
    <3>1. histTask'[v] = histTask[v]
      BY <1>11, <2>3
    <3>2. \A d \in 1..Len(histEntry) : /\ histEntry[d].gen \in Nat /\ histEntry'[d].gen \in Nat
                                       /\ histEntry'[d].gen >= histEntry[d].gen
      <4> SUFFICES ASSUME NEW d \in 1..Len(histEntry)
                   PROVE  /\ histEntry[d].gen \in Nat /\ histEntry'[d].gen \in Nat
                          /\ histEntry'[d].gen >= histEntry[d].gen
        OBVIOUS
      <4>1. histEntry[d] \in HistRecord
        BY <1>1, ElementOfSeq
      <4>2. histEntry[d].gen \in Nat
        BY <4>1 DEF HistRecord
      <4> QED BY <1>5, <4>2
    <3>3. HistCandSound(v)'
      <4> SUFFICES ASSUME NEW c \in HistCands, HistCandOf(v, c)'
                   PROVE  c.entry \in 1..Len(histEntry) /\ histEntry'[c.entry].gen >= c.gen
        BY <1>1, <1>5, <2>1, <3>1 DEF HistCandSound
      <4>1. c.entry \in 1..Len(histEntry) /\ histEntry[c.entry].gen >= c.gen
        BY <2>1, <3>1 DEF HistCandSound, HistCandOf
      <4>2. c.gen \in Nat
        BY DEF HistCands
      <4> QED BY <3>2, <4>1, <4>2
    <3>4. ASSUME histTask[v].pc = "delete" PROVE HistExpired(v)'
      <4>1. PICK c : c = histTask[v].cand
        OBVIOUS
      <4>2. c \in HistCands
        <5>1. histTask[v] \in [pc : {"delete"}, now : Nat, todo : SUBSET HistCands, cand : HistCands]
          BY <1>1, <3>4, HistTaskFields
        <5> QED BY <4>1, <5>1
      <4>3. c.entry \in 1..Len(histEntry) /\ histEntry[c.entry].gen >= c.gen /\ c.gen \in Nat
        BY <2>1, <3>4, <4>1, <4>2 DEF HistCandSound, HistCandOf, HistCands
      <4>4. CASE c.entry = e
        <5>1. histEntry'[c.entry].gen # c.gen
          BY <1>5, <3>2, <4>3, <4>4
        <5> QED BY <3>1, <4>1, <5>1 DEF HistExpired
      <4>5. CASE c.entry # e
        <5>1. histEntry'[c.entry] = histEntry[c.entry]
          BY <1>5, <4>3, <4>5
        <5> QED BY <2>1, <3>1, <3>4, <4>1, <5>1 DEF HistExpired
      <4> QED BY <4>4, <4>5
    <3> QED BY <3>1, <3>3, <3>4
  <2> QED BY <2>2, <2>3
<1>18. HistWroteSound'
  <2> SUFFICES ASSUME NEW jp \in HistIPs, histWrote[jp].entry # 0
               PROVE  LET h == histEntry'[histWrote[jp].entry]
                      IN /\ h.seen = histWrote[jp].at /\ h.events # <<>>
                         /\ h.events[Len(h.events)] = histWrote[jp].at
    BY <1>1 DEF HistWroteSound
  <2>1. PICK d : d = histWrote[jp].entry
    OBVIOUS
  <2>2. d \in 1..Len(histEntry)
    BY <1>1, <2>1
  <2>3. histEntry'[d].seen = histEntry[d].seen /\ histEntry'[d].events = histEntry[d].events
    BY <1>5, <2>2
  <2> QED BY <2>1, <2>3 DEF EventHistoryInv, HistWroteSound
<1> QED BY <1>12, <1>13, <1>15, <1>16, <1>17, <1>18 DEF EventHistoryInv

LEMMA EventHistoryInductive == EventHistoryInv /\ [EventHistoryNext]_histVars => EventHistoryInv'
<1> SUFFICES ASSUME EventHistoryInv, [EventHistoryNext]_histVars PROVE EventHistoryInv'
  OBVIOUS
<1>1. CASE histTick \/ UNCHANGED histVars
  BY <1>1, HistTickKeeps
<1>2. CASE \E w \in HistWorkers :
         \/ \E ip \in HistIPs : histLookup(w, ip)
         \/ histWrite(w) \/ finishAdd(w) \/ startPass(w) \/ histCollect(w) \/ deleteExpired(w) \/ endPass(w)
         \/ histTask[w].pc = "scan" /\ \E c \in histTask[w].todo : checkAge(w, c)
  BY <1>2, HistLookupKeeps, HistWriteKeeps, FinishAddKeeps, PassStepsKeep, DeleteKeeps
<1> QED BY <1>1, <1>2 DEF EventHistoryNext

\* The address's fresh event is found, and a held entry is the one readers find.
LEMMA HistoryKeptFollows == EventHistoryInv => HistoryKept
<1> SUFFICES ASSUME EventHistoryInv PROVE HistoryKept
  OBVIOUS
<1>1. HistNoFreshLost
  BY DEF EventHistoryInv, HistFreshMapped, HistWroteSound, HistNoFreshLost
<1>2. HistHeldReachable
  BY DEF EventHistoryInv, HistHeldMapped, HistHolding, HistHeldReachable
<1> QED BY <1>1, <1>2 DEF HistoryKept

\* An event just added is found where readers look, for any number of workers
\* adding events and running cleanup passes over any addresses: no pass deletes
\* an entry that an add holds, or has refreshed since its age was read
\* (HistoryManager.AddEvent, finishAdd, Cleanup, deleteExpired).
THEOREM FreshEventsAreKept == EventHistorySpec => []HistoryKept
<1>1. EventHistoryInit => EventHistoryInv
  BY EventHistoryInitial
<1>2. EventHistoryInv /\ [EventHistoryNext]_histVars => EventHistoryInv'
  BY EventHistoryInductive
<1>3. EventHistoryInv => HistoryKept
  BY HistoryKeptFollows
<1> QED BY <1>1, <1>2, <1>3, PTL DEF EventHistorySpec

-----------------------------------------------------------------------------
(***************************************************************************)
(* Threat intelligence: the owner of each marker, and what is known of an  *)
(* address.                                                                *)
(***************************************************************************)

TiInfos == {TiReports[ip] : ip \in TiIPs}

ThreatIntelTyped ==
  /\ tiFlight \subseteq TiIPs
  /\ tiQueue \in Seq(TiIPs)
  /\ tiCaller \in [TiCallers -> {tiIdle} \cup [pc : {"mark", "send", "unmark"}, ip : TiIPs]]
  /\ tiWorker \in [TiWorkers -> {tiIdle} \cup [pc : {"lookup", "done"}, ip : TiIPs]
                                \cup [pc : {"enrich"}, ip : TiIPs, info : TiInfos]
                                \cup [pc : {"fetch"}, ip : TiIPs, old : SUBSET TiInfos]]

\* The three kinds of owner of the marker of ip.
TiCallerHas(c, ip) == tiCaller[c].pc \in {"send", "unmark"} /\ tiCaller[c].ip = ip
TiPlaceHas(i, ip) == tiQueue[i] = ip
TiWorkerHas(w, ip) == tiWorker[w].pc # "idle" /\ tiWorker[w].ip = ip

\* A marker has an owner, ...
TiMarked(ip) ==
  ip \in tiFlight <=> \/ \E c \in TiCallers : TiCallerHas(c, ip)
                      \/ \E i \in 1..Len(tiQueue) : TiPlaceHas(i, ip)
                      \/ \E w \in TiWorkers : TiWorkerHas(w, ip)

\* ... and only one.
TiOwnedOnce(ip) ==
  /\ \A c, d \in TiCallers : TiCallerHas(c, ip) /\ TiCallerHas(d, ip) => c = d
  /\ \A i, j \in 1..Len(tiQueue) : TiPlaceHas(i, ip) /\ TiPlaceHas(j, ip) => i = j
  /\ \A w, v \in TiWorkers : TiWorkerHas(w, ip) /\ TiWorkerHas(v, ip) => w = v
  /\ \A c \in TiCallers, i \in 1..Len(tiQueue) : ~(TiCallerHas(c, ip) /\ TiPlaceHas(i, ip))
  /\ \A c \in TiCallers, w \in TiWorkers : ~(TiCallerHas(c, ip) /\ TiWorkerHas(w, ip))
  /\ \A i \in 1..Len(tiQueue), w \in TiWorkers : ~(TiPlaceHas(i, ip) /\ TiWorkerHas(w, ip))

TiMarkersSound == \A ip \in TiIPs : TiMarked(ip) /\ TiOwnedOnce(ip)

\* Whatever is held of an address is the service's own report of it.
TiReportsTrue ==
  /\ \A ip \in DOMAIN tiShodan : tiShodan[ip].info = TiReports[ip]
  /\ \A w \in TiWorkers :
       /\ tiWorker[w].pc = "enrich" => tiWorker[w].info = TiReports[tiWorker[w].ip]
       /\ tiWorker[w].pc = "fetch" => tiWorker[w].old \subseteq {TiReports[tiWorker[w].ip]}

ThreatIntelInv == ThreatIntelTyped /\ TiMarkersSound /\ TiReportsTrue /\ TiScoresTold

\* A marker with one owner is counted once.
LEMMA OwnersCounted ==
  ASSUME ThreatIntelInv
  PROVE  TiMarkersOwned
<1> SUFFICES ASSUME NEW ip \in TiIPs
             PROVE  LET callers == {c \in TiCallers : tiCaller[c].pc \in {"send", "unmark"}
                                                        /\ tiCaller[c].ip = ip}
                        places == {i \in 1..Len(tiQueue) : tiQueue[i] = ip}
                        workers == {w \in TiWorkers : tiWorker[w].pc # "idle" /\ tiWorker[w].ip = ip}
                    IN Cardinality(callers) + Cardinality(places) + Cardinality(workers)
                         = IF ip \in tiFlight THEN 1 ELSE 0
  BY DEF TiMarkersOwned
<1> DEFINE callers == {c \in TiCallers : TiCallerHas(c, ip)}
           places == {i \in 1..Len(tiQueue) : TiPlaceHas(i, ip)}
           workers == {w \in TiWorkers : TiWorkerHas(w, ip)}
<1>1. TiMarked(ip) /\ TiOwnedOnce(ip)
  BY DEF ThreatIntelInv, TiMarkersSound
<1>2. \/ /\ ip \notin tiFlight /\ callers = {} /\ places = {} /\ workers = {}
      \/ /\ ip \in tiFlight /\ places = {} /\ workers = {}
         /\ \E c \in TiCallers : callers = {c}
      \/ /\ ip \in tiFlight /\ callers = {} /\ workers = {}
         /\ \E i \in 1..Len(tiQueue) : places = {i}
      \/ /\ ip \in tiFlight /\ callers = {} /\ places = {}
         /\ \E w \in TiWorkers : workers = {w}
  <2>1. CASE ip \notin tiFlight
    BY <1>1, <2>1 DEF TiMarked
  <2>2. ASSUME NEW c \in TiCallers, TiCallerHas(c, ip)
        PROVE  ip \in tiFlight /\ places = {} /\ workers = {} /\ callers = {c}
    BY <1>1, <2>2 DEF TiMarked, TiOwnedOnce
  <2>3. ASSUME NEW i \in 1..Len(tiQueue), TiPlaceHas(i, ip)
        PROVE  ip \in tiFlight /\ callers = {} /\ workers = {} /\ places = {i}
    BY <1>1, <2>3 DEF TiMarked, TiOwnedOnce
  <2>4. ASSUME NEW w \in TiWorkers, TiWorkerHas(w, ip)
        PROVE  ip \in tiFlight /\ callers = {} /\ places = {} /\ workers = {w}
    BY <1>1, <2>4 DEF TiMarked, TiOwnedOnce
  <2> HIDE DEF callers, places, workers
  <2> QED BY <1>1, <2>1, <2>2, <2>3, <2>4 DEF TiMarked
<1>3. Cardinality(callers) + Cardinality(places) + Cardinality(workers)
        = IF ip \in tiFlight THEN 1 ELSE 0
  <2> HIDE DEF callers, places, workers
  <2>1. Cardinality({}) = 0
    BY FS_EmptySet
  <2>2. ASSUME NEW x, NEW S, S = {x} PROVE Cardinality(S) = 1
    BY <2>2, FS_Singleton
  <2>3. CASE callers = {} /\ places = {} /\ workers = {} /\ ip \notin tiFlight
    BY <2>1, <2>3
  <2>4. CASE places = {} /\ workers = {} /\ ip \in tiFlight /\ \E c \in TiCallers : callers = {c}
    <3>1. Cardinality(callers) = 1
      BY <2>2, <2>4
    <3> QED BY <2>1, <2>4, <3>1
  <2>5. CASE callers = {} /\ workers = {} /\ ip \in tiFlight /\ \E i \in 1..Len(tiQueue) : places = {i}
    <3>1. Cardinality(places) = 1
      BY <2>2, <2>5
    <3> QED BY <2>1, <2>5, <3>1
  <2>6. CASE callers = {} /\ places = {} /\ ip \in tiFlight /\ \E w \in TiWorkers : workers = {w}
    <3>1. Cardinality(workers) = 1
      BY <2>2, <2>6
    <3> QED BY <2>1, <2>6, <3>1
  <2> QED BY <1>2, <2>3, <2>4, <2>5, <2>6
<1> QED BY <1>3 DEF TiCallerHas, TiPlaceHas, TiWorkerHas

LEMMA ThreatIntelInitial == ThreatIntelInit => ThreatIntelInv
<1> SUFFICES ASSUME ThreatIntelInit PROVE ThreatIntelInv
  OBVIOUS
<1>1. ThreatIntelTyped
  BY DEF ThreatIntelInit, ThreatIntelTyped
<1>2. TiMarkersSound
  BY DEF ThreatIntelInit, TiMarkersSound, TiMarked, TiOwnedOnce, TiCallerHas, TiPlaceHas,
     TiWorkerHas, tiIdle
<1>3. TiReportsTrue /\ TiScoresTold
  BY DEF ThreatIntelInit, TiReportsTrue, TiScoresTold, tiIdle, tiNone
<1> QED BY <1>1, <1>2, <1>3 DEF ThreatIntelInv

\* A step that moves no marker.
LEMMA OwnersUnchanged ==
  ASSUME ThreatIntelInv, UNCHANGED <<tiFlight, tiQueue>>,
         \A c \in TiCallers, ip \in TiIPs : TiCallerHas(c, ip)' <=> TiCallerHas(c, ip),
         \A w \in TiWorkers, ip \in TiIPs : TiWorkerHas(w, ip)' <=> TiWorkerHas(w, ip)
  PROVE  TiMarkersSound'
<1>1. \A i \in 1..Len(tiQueue), ip \in TiIPs : TiPlaceHas(i, ip)' <=> TiPlaceHas(i, ip)
  BY DEF TiPlaceHas
<1>2. Len(tiQueue') = Len(tiQueue)
  OBVIOUS
<1> SUFFICES ASSUME NEW ip \in TiIPs
             PROVE  TiMarked(ip)' /\ TiOwnedOnce(ip)'
  BY DEF TiMarkersSound
<1>3. TiMarked(ip) /\ TiOwnedOnce(ip)
  BY DEF ThreatIntelInv, TiMarkersSound
<1>4. TiMarked(ip)'
  BY <1>1, <1>2, <1>3 DEF TiMarked
<1>5. TiOwnedOnce(ip)'
  BY <1>1, <1>2, <1>3 DEF TiOwnedOnce
<1> QED BY <1>4, <1>5

\* What EnrichIP does keeps the invariant.
LEMMA CallersKeep ==
  ASSUME ThreatIntelInv, NEW c \in TiCallers,
         (\E ip \in TiIPs : readCache(c, ip)) \/ markInFlight(c) \/ tiSend(c) \/ tiUnmark(c)
  PROVE  ThreatIntelInv'
<1>1. UNCHANGED <<tiCache, tiWorker, tiShodan>>
  BY DEF readCache, markInFlight, tiSend, tiUnmark
<1>2. TiReportsTrue' /\ TiScoresTold'
  BY <1>1 DEF ThreatIntelInv, TiReportsTrue, TiScoresTold
<1>3. \A w \in TiWorkers, ip \in TiIPs : TiWorkerHas(w, ip)' <=> TiWorkerHas(w, ip)
  BY <1>1 DEF TiWorkerHas
<1>4. /\ tiCaller \in [TiCallers -> {tiIdle} \cup [pc : {"mark", "send", "unmark"}, ip : TiIPs]]
      /\ tiQueue \in Seq(TiIPs) /\ tiFlight \subseteq TiIPs
      /\ Len(tiQueue) \in Nat
  BY DEF ThreatIntelInv, ThreatIntelTyped
<1>5. CASE \E ip \in TiIPs : readCache(c, ip)
  <2>1. PICK x \in TiIPs : readCache(c, x)
    BY <1>5
  <2>2. ThreatIntelTyped'
    BY <2>1 DEF ThreatIntelInv, ThreatIntelTyped, readCache
  <2>3. \A d \in TiCallers, ip \in TiIPs : TiCallerHas(d, ip)' <=> TiCallerHas(d, ip)
    BY <1>4, <2>1 DEF readCache, TiCallerHas
  <2>4. TiMarkersSound'
    BY <1>3, <2>1, <2>3, OwnersUnchanged DEF readCache
  <2> QED BY <1>2, <2>2, <2>4 DEF ThreatIntelInv
<1> DEFINE x == tiCaller[c].ip
<1>6. ASSUME tiCaller[c].pc # "idle" PROVE x \in TiIPs
  BY <1>4, <1>6 DEF tiIdle
<1>7. CASE markInFlight(c)
  <2>1. x \in TiIPs /\ tiFlight' = tiFlight \cup {x} /\ tiQueue' = tiQueue
    BY <1>6, <1>7 DEF markInFlight
  <2>2. ThreatIntelTyped'
    BY <1>7, <2>1 DEF ThreatIntelInv, ThreatIntelTyped, markInFlight
  <2>3. \A d \in TiCallers, ip \in TiIPs :
          TiCallerHas(d, ip)' <=> TiCallerHas(d, ip) \/ (d = c /\ ip = x /\ x \notin tiFlight)
    BY <1>4, <1>7, <2>1 DEF markInFlight, TiCallerHas, tiIdle
  <2>4. \A i \in 1..Len(tiQueue), ip \in TiIPs : TiPlaceHas(i, ip)' <=> TiPlaceHas(i, ip)
    BY <2>1 DEF TiPlaceHas
  <2> HIDE DEF x
  <2>5. ASSUME NEW ip \in TiIPs PROVE TiMarked(ip)' /\ TiOwnedOnce(ip)'
    <3>1. TiMarked(ip) /\ TiOwnedOnce(ip) /\ Len(tiQueue') = Len(tiQueue)
      BY <2>1 DEF ThreatIntelInv, TiMarkersSound
    <3>2. TiMarked(ip)'
      BY <1>3, <2>1, <2>3, <2>4, <3>1 DEF TiMarked
    <3>3. TiOwnedOnce(ip)'
      BY <1>3, <2>1, <2>3, <2>4, <3>1 DEF TiOwnedOnce, TiMarked
    <3> QED BY <3>2, <3>3
  <2> QED BY <1>2, <2>2, <2>5 DEF ThreatIntelInv, TiMarkersSound
<1>8. CASE tiSend(c) /\ tiQueue' = Append(tiQueue, x)
             /\ tiCaller' = [tiCaller EXCEPT ![c] = tiIdle]
  <2>1. /\ x \in TiIPs /\ tiFlight' = tiFlight /\ TiCallerHas(c, x)
        /\ tiCaller' = [tiCaller EXCEPT ![c] = tiIdle] /\ tiCaller[c].pc = "send"
    BY <1>6, <1>8 DEF tiSend, TiCallerHas
  <2>2. ThreatIntelTyped'
    BY <1>1, <1>4, <1>8, <2>1 DEF ThreatIntelInv, ThreatIntelTyped
  <2>3. \A d \in TiCallers, ip \in TiIPs :
          /\ TiCallerHas(d, ip)' <=> d # c /\ TiCallerHas(d, ip)
          /\ TiCallerHas(c, ip) <=> ip = x
    BY <1>4, <2>1 DEF TiCallerHas, tiIdle
  <2>4. /\ Len(tiQueue') = Len(tiQueue) + 1
        /\ \A i \in 1..Len(tiQueue') : i \in 1..Len(tiQueue) \/ i = Len(tiQueue) + 1
        /\ \A i \in 1..Len(tiQueue) : i \in 1..Len(tiQueue') /\ tiQueue'[i] = tiQueue[i]
                                        /\ i # Len(tiQueue) + 1
        /\ Len(tiQueue) + 1 \in 1..Len(tiQueue') /\ tiQueue'[Len(tiQueue) + 1] = x
    BY <1>4, <1>8, <2>1
  <2>5. PICK m, n, l : m = 1..Len(tiQueue) /\ n = 1..Len(tiQueue') /\ l = Len(tiQueue) + 1
    OBVIOUS
  <2>6. /\ \A i \in m, ip \in TiIPs : TiPlaceHas(i, ip)' <=> TiPlaceHas(i, ip)
        /\ \A ip \in TiIPs : TiPlaceHas(l, ip)' <=> ip = x
    BY <2>4, <2>5 DEF TiPlaceHas
  <2> HIDE DEF x
  <2>7. ASSUME NEW ip \in TiIPs PROVE TiMarked(ip)' /\ TiOwnedOnce(ip)'
    <3>1. TiMarked(ip) /\ TiOwnedOnce(ip)
      BY DEF ThreatIntelInv, TiMarkersSound
    <3>2. /\ l \in n /\ (TiPlaceHas(l, ip)' <=> ip = x)
          /\ \A i \in n : i \in m \/ i = l
          /\ \A i \in m : i \in n /\ i # l /\ (TiPlaceHas(i, ip)' <=> TiPlaceHas(i, ip))
      BY <2>4, <2>5, <2>6
    <3>3. TiMarked(ip)'
      BY <1>3, <2>1, <2>3, <2>5, <3>1, <3>2 DEF TiMarked
    <3>4. TiOwnedOnce(ip)'
      BY <1>3, <2>1, <2>3, <2>5, <3>1, <3>2 DEF TiOwnedOnce
    <3> QED BY <3>3, <3>4
  <2> QED BY <1>2, <2>2, <2>7 DEF ThreatIntelInv, TiMarkersSound
<1>9. CASE tiSend(c) /\ UNCHANGED tiQueue /\ tiCaller' = [tiCaller EXCEPT ![c] = afterDrop(c)]
  <2>1. /\ x \in TiIPs /\ UNCHANGED <<tiFlight, tiQueue>> /\ tiCaller[c].pc = "send"
        /\ tiCaller' = [tiCaller EXCEPT ![c] = [pc |-> "unmark", ip |-> x]]
    BY <1>6, <1>9 DEF tiSend, afterDrop
  <2>2. ThreatIntelTyped'
    BY <1>1, <1>4, <2>1 DEF ThreatIntelInv, ThreatIntelTyped
  <2>3. \A d \in TiCallers, ip \in TiIPs : TiCallerHas(d, ip)' <=> TiCallerHas(d, ip)
    BY <1>4, <2>1 DEF TiCallerHas
  <2>4. TiMarkersSound'
    BY <1>3, <2>1, <2>3, OwnersUnchanged
  <2> QED BY <1>2, <2>2, <2>4 DEF ThreatIntelInv
<1>10. CASE tiUnmark(c)
  <2>1. /\ x \in TiIPs /\ tiFlight' = tiFlight \ {x} /\ tiQueue' = tiQueue
        /\ tiCaller' = [tiCaller EXCEPT ![c] = tiIdle] /\ tiCaller[c].pc = "unmark"
    BY <1>6, <1>10 DEF tiUnmark
  <2>2. ThreatIntelTyped'
    BY <1>1, <1>4, <2>1 DEF ThreatIntelInv, ThreatIntelTyped
  <2>3. \A d \in TiCallers, ip \in TiIPs :
          /\ TiCallerHas(d, ip)' <=> d # c /\ TiCallerHas(d, ip)
          /\ TiCallerHas(c, ip) <=> ip = x
    BY <1>4, <2>1 DEF TiCallerHas, tiIdle
  <2>4. \A i \in 1..Len(tiQueue), ip \in TiIPs : TiPlaceHas(i, ip)' <=> TiPlaceHas(i, ip)
    BY <2>1 DEF TiPlaceHas
  <2> HIDE DEF x
  <2>5. ASSUME NEW ip \in TiIPs PROVE TiMarked(ip)' /\ TiOwnedOnce(ip)'
    <3>1. TiMarked(ip) /\ TiOwnedOnce(ip) /\ Len(tiQueue') = Len(tiQueue)
      BY <2>1 DEF ThreatIntelInv, TiMarkersSound
    <3>2. TiMarked(ip)'
      BY <1>3, <2>1, <2>3, <2>4, <3>1 DEF TiMarked, TiOwnedOnce
    <3>3. TiOwnedOnce(ip)'
      BY <1>3, <2>1, <2>3, <2>4, <3>1 DEF TiOwnedOnce
    <3> QED BY <3>2, <3>3
  <2> QED BY <1>2, <2>2, <2>5 DEF ThreatIntelInv, TiMarkersSound
<1>11. tiSend(c) =>
         \/ tiQueue' = Append(tiQueue, x) /\ tiCaller' = [tiCaller EXCEPT ![c] = tiIdle]
         \/ UNCHANGED tiQueue /\ tiCaller' = [tiCaller EXCEPT ![c] = afterDrop(c)]
  BY DEF tiSend
<1> QED BY <1>5, <1>7, <1>8, <1>9, <1>10, <1>11

\* A map's entry replaced or added, or not.
LEMMA StoreKeeps ==
  ASSUME NEW f, NEW ip, NEW v, NEW x \in DOMAIN tiStore(f, ip, v)
  PROVE  \/ x = ip /\ tiStore(f, ip, v)[x] = v
         \/ x \in DOMAIN f /\ tiStore(f, ip, v)[x] = f[x]
BY DEF tiStore

\* What a worker does keeps the invariant.
LEMMA WorkersKeep ==
  ASSUME ThreatIntelInv, NEW w \in TiWorkers, tiWork(w)
  PROVE  ThreatIntelInv'
<1>1. UNCHANGED tiCaller
  BY DEF tiWork, tiReceive, lookupCached, fetchFailed, tiEnrich, tiFinish, tiFetched
<1>2. \A c \in TiCallers, ip \in TiIPs : TiCallerHas(c, ip)' <=> TiCallerHas(c, ip)
  BY <1>1 DEF TiCallerHas
<1> DEFINE Busy == [pc : {"lookup", "done"}, ip : TiIPs]
                     \cup [pc : {"enrich"}, ip : TiIPs, info : TiInfos]
                     \cup [pc : {"fetch"}, ip : TiIPs, old : SUBSET TiInfos]
<1>3. /\ tiWorker \in [TiWorkers -> {tiIdle} \cup Busy]
      /\ tiQueue \in Seq(TiIPs) /\ tiFlight \subseteq TiIPs
      /\ Len(tiQueue) \in Nat
  BY DEF ThreatIntelInv, ThreatIntelTyped
<1> DEFINE x == tiWorker[w].ip
<1>4. ASSUME tiWorker[w].pc # "idle" PROVE tiWorker[w] \in Busy /\ x \in TiIPs
  BY <1>3, <1>4 DEF tiIdle
\* A step that keeps the address in hand.
<1>5. ASSUME UNCHANGED <<tiFlight, tiQueue>>, tiWorker[w].pc # "idle",
             NEW r \in Busy, r.ip = x, tiWorker' = [tiWorker EXCEPT ![w] = r]
      PROVE  ThreatIntelTyped' /\ TiMarkersSound'
  <2>1. r.pc # "idle"
    OBVIOUS
  <2>2. \A v \in TiWorkers, ip \in TiIPs : TiWorkerHas(v, ip)' <=> TiWorkerHas(v, ip)
    BY <1>3, <1>5, <2>1 DEF TiWorkerHas
  <2>3. ThreatIntelTyped'
    BY <1>1, <1>3, <1>5 DEF ThreatIntelInv, ThreatIntelTyped
  <2> QED BY <1>2, <1>5, <2>2, <2>3, OwnersUnchanged
<1>6. CASE tiReceive(w)
  <2>1. PICK q : q = Head(tiQueue)
    OBVIOUS
  <2>2. /\ tiQueue # <<>> /\ tiQueue' = Tail(tiQueue) /\ tiWorker[w].pc = "idle"
        /\ tiWorker' = [tiWorker EXCEPT ![w] = [pc |-> "lookup", ip |-> q]]
        /\ UNCHANGED <<tiFlight, tiShodan, tiCache>>
    BY <1>6, <2>1 DEF tiReceive
  <2>3. /\ q \in TiIPs /\ tiQueue[1] = q /\ 1 \in 1..Len(tiQueue)
        /\ \A i \in 1..Len(tiQueue') : i + 1 \in 1..Len(tiQueue) /\ tiQueue'[i] = tiQueue[i + 1]
                                         /\ i + 1 # 1
        /\ \A i \in 1..Len(tiQueue) : i = 1 \/ i - 1 \in 1..Len(tiQueue')
        /\ \A i \in 1..Len(tiQueue) : i \in Int
    BY <1>3, <2>1, <2>2
  <2>4. ThreatIntelTyped'
    BY <1>1, <1>3, <2>2, <2>3 DEF ThreatIntelInv, ThreatIntelTyped
  <2>5. \A v \in TiWorkers, ip \in TiIPs :
          /\ TiWorkerHas(v, ip)' <=> TiWorkerHas(v, ip) \/ (v = w /\ ip = q)
          /\ ~TiWorkerHas(w, ip)
    BY <1>3, <2>2, <2>3 DEF TiWorkerHas
  <2>6. PICK m, n : m = 1..Len(tiQueue) /\ n = 1..Len(tiQueue')
    OBVIOUS
  <2>7. \A i \in n, ip \in TiIPs : TiPlaceHas(i, ip)' <=> TiPlaceHas(i + 1, ip)
    BY <2>3, <2>6 DEF TiPlaceHas
  <2>8. \A ip \in TiIPs : TiPlaceHas(1, ip) <=> ip = q
    BY <2>3 DEF TiPlaceHas
  <2>9. \A i \in m : i = 1 \/ (i - 1 \in n /\ (i - 1) + 1 = i)
    BY <2>3, <2>6
  <2>10. /\ 1 \in m
         /\ \A i \in n : i + 1 \in m /\ i + 1 # 1
         /\ \A i, j \in n : i + 1 = j + 1 => i = j
    BY <2>3, <2>6
  <2>11. ASSUME NEW ip \in TiIPs PROVE TiMarked(ip)' /\ TiOwnedOnce(ip)'
    <3>1. TiMarked(ip) /\ TiOwnedOnce(ip)
      BY DEF ThreatIntelInv, TiMarkersSound
    <3>2. (\E i \in m : TiPlaceHas(i, ip)) <=> ip = q \/ (\E i \in n : TiPlaceHas(i, ip)')
      BY <2>7, <2>8, <2>9, <2>10
    <3>3. TiMarked(ip)'
      BY <1>2, <2>2, <2>5, <2>6, <3>1, <3>2 DEF TiMarked
    <3>4. /\ \A i, j \in n : TiPlaceHas(i, ip)' /\ TiPlaceHas(j, ip)' => i = j
          /\ \A i \in n : TiPlaceHas(i, ip)' => ip # q /\ \E j \in m : TiPlaceHas(j, ip)
          /\ ip = q => \E j \in m : TiPlaceHas(j, ip)
      BY <2>6, <2>7, <2>8, <2>10, <3>1 DEF TiOwnedOnce
    <3>5. /\ \A c \in TiCallers, i \in m : ~(TiCallerHas(c, ip) /\ TiPlaceHas(i, ip))
          /\ \A i \in m, v \in TiWorkers : ~(TiPlaceHas(i, ip) /\ TiWorkerHas(v, ip))
      BY <2>6, <3>1 DEF TiOwnedOnce
    <3>6. TiOwnedOnce(ip)'
      BY <1>2, <2>5, <2>6, <3>1, <3>4, <3>5 DEF TiOwnedOnce
    <3> QED BY <3>3, <3>6
  <2>12. TiReportsTrue' /\ TiScoresTold'
    BY <1>3, <2>2 DEF ThreatIntelInv, TiReportsTrue, TiScoresTold
  <2> QED BY <2>4, <2>11, <2>12 DEF ThreatIntelInv, TiMarkersSound
<1>7. CASE tiFinish(w)
  <2>1. /\ x \in TiIPs /\ tiFlight' = tiFlight \ {x} /\ tiWorker[w].pc = "done"
        /\ tiWorker' = [tiWorker EXCEPT ![w] = tiIdle] /\ UNCHANGED <<tiQueue, tiShodan, tiCache>>
    BY <1>4, <1>7 DEF tiFinish
  <2>2. ThreatIntelTyped'
    BY <1>1, <1>3, <2>1 DEF ThreatIntelInv, ThreatIntelTyped
  <2>3. \A v \in TiWorkers, ip \in TiIPs :
          /\ TiWorkerHas(v, ip)' <=> v # w /\ TiWorkerHas(v, ip)
          /\ TiWorkerHas(w, ip) <=> ip = x
    BY <1>3, <2>1 DEF TiWorkerHas, tiIdle
  <2>4. \A i \in 1..Len(tiQueue), ip \in TiIPs : TiPlaceHas(i, ip)' <=> TiPlaceHas(i, ip)
    BY <2>1 DEF TiPlaceHas
  <2>5. TiReportsTrue' /\ TiScoresTold'
    BY <1>3, <2>1 DEF ThreatIntelInv, TiReportsTrue, TiScoresTold, tiIdle
  <2> HIDE DEF x
  <2>6. ASSUME NEW ip \in TiIPs PROVE TiMarked(ip)' /\ TiOwnedOnce(ip)'
    <3>1. TiMarked(ip) /\ TiOwnedOnce(ip) /\ Len(tiQueue') = Len(tiQueue)
      BY <2>1 DEF ThreatIntelInv, TiMarkersSound
    <3>2. TiMarked(ip)'
      BY <1>2, <2>1, <2>3, <2>4, <3>1 DEF TiMarked, TiOwnedOnce
    <3>3. TiOwnedOnce(ip)'
      BY <1>2, <2>1, <2>3, <2>4, <3>1 DEF TiOwnedOnce
    <3> QED BY <3>2, <3>3
  <2> QED BY <2>2, <2>5, <2>6 DEF ThreatIntelInv, TiMarkersSound
\* What a lookup may give the worker: the report of its address, or nothing.
<1>8. ASSUME NEW old, old \subseteq {TiReports[x]}, x \in TiIPs
      PROVE  /\ TiReports[x] \in TiInfos
             /\ tiFallback(x, old) \in {tiMissed(x), tiFound(x, TiReports[x])}
  <2>1. TiReports[x] \in TiInfos
    BY <1>8 DEF TiInfos
  <2>2. CASE old = {}
    BY <2>1, <2>2 DEF tiFallback
  <2>3. CASE old = {TiReports[x]}
    <3>1. (CHOOSE i \in old : TRUE) = TiReports[x]
      BY <2>3
    <3> QED BY <2>1, <2>3, <3>1 DEF tiFallback
  <2> QED BY <1>8, <2>2, <2>3
<1>9. ASSUME x \in TiIPs, TiReports[x] \in TiInfos
      PROVE  /\ tiMissed(x) \in Busy /\ tiMissed(x).ip = x /\ tiMissed(x).pc = "done"
             /\ tiFound(x, TiReports[x]) \in Busy /\ tiFound(x, TiReports[x]).ip = x
             /\ tiFound(x, TiReports[x]).info = TiReports[x]
             /\ tiFound(x, TiReports[x]).pc = "enrich"
  BY <1>9 DEF tiMissed, tiFound
\* With what it holds true, and the client's cache, the reports stay true.
<1>10. ASSUME NEW r \in Busy, r.ip = x, tiWorker' = [tiWorker EXCEPT ![w] = r],
              r.pc = "enrich" => r.info = TiReports[x],
              r.pc = "fetch" => r.old \subseteq {TiReports[x]},
              \A ip \in DOMAIN tiShodan' : tiShodan'[ip].info = TiReports[ip]
       PROVE  TiReportsTrue'
  <2>1. \A v \in TiWorkers : tiWorker'[v] = IF v = w THEN r ELSE tiWorker[v]
    BY <1>3, <1>10
  <2> HIDE DEF Busy
  <2> QED BY <1>10, <2>1 DEF ThreatIntelInv, TiReportsTrue
<1>11. /\ \A ip \in DOMAIN tiShodan : tiShodan[ip].info = TiReports[ip]
       /\ tiWorker[w].pc = "enrich" => tiWorker[w].info = TiReports[x]
       /\ tiWorker[w].pc = "fetch" => tiWorker[w].old \subseteq {TiReports[x]}
  BY DEF ThreatIntelInv, TiReportsTrue
<1>12. CASE lookupCached(w)
  <2> DEFINE old == IF x \in DOMAIN tiShodan THEN {tiShodan[x].info} ELSE {}
             hit == old # {} /\ tiNow - tiShodan[x].at < TiShodanTTL
             r == IF hit THEN tiFound(x, tiShodan[x].info)
                  ELSE IF tiLast THEN tiFallback(x, old) ELSE [pc |-> "fetch", ip |-> x, old |-> old]
  <2>1. /\ x \in TiIPs /\ tiWorker[w].pc # "idle" /\ UNCHANGED <<tiFlight, tiQueue, tiShodan, tiCache>>
        /\ tiWorker' = [tiWorker EXCEPT ![w] = r]
    BY <1>4, <1>12 DEF lookupCached
  <2>2. old \subseteq {TiReports[x]} /\ (hit => tiShodan[x].info = TiReports[x])
    BY <1>11
  <2>3. /\ TiReports[x] \in TiInfos
        /\ tiFallback(x, old) \in {tiMissed(x), tiFound(x, TiReports[x])}
    BY <1>8, <2>1, <2>2
  <2>4. \/ r \in {tiMissed(x), tiFound(x, TiReports[x])}
        \/ r = [pc |-> "fetch", ip |-> x, old |-> old]
    BY <2>2, <2>3
  <2> HIDE DEF old, hit, r
  <2>5. PICK o : o = old
    OBVIOUS
  <2>6. PICK q : q = r
    OBVIOUS
  <2>7. /\ q \in Busy /\ q.ip = x
        /\ q.pc = "enrich" => q.info = TiReports[x]
        /\ q.pc = "fetch" => q.old \subseteq {TiReports[x]}
    <3>1. CASE q \in {tiMissed(x), tiFound(x, TiReports[x])}
      BY <1>9, <2>1, <2>3, <3>1
    <3>2. CASE q = [pc |-> "fetch", ip |-> x, old |-> o]
      BY <2>1, <2>2, <2>3, <2>5, <3>2
    <3> QED BY <2>4, <2>5, <2>6, <3>1, <3>2
  <2>8. ThreatIntelTyped' /\ TiMarkersSound'
    BY <1>5, <2>1, <2>6, <2>7
  <2>9. TiReportsTrue'
    BY <1>10, <1>11, <2>1, <2>6, <2>7
  <2> QED BY <2>1, <2>8, <2>9 DEF ThreatIntelInv, TiScoresTold
<1>13. CASE tiFetched(w)
  <2> DEFINE e == [info |-> TiReports[x], at |-> tiNow]
  <2>1. /\ x \in TiIPs /\ tiWorker[w].pc # "idle" /\ UNCHANGED <<tiFlight, tiQueue, tiCache>>
        /\ tiShodan' = tiStore(tiShodan, x, e)
        /\ tiWorker' = [tiWorker EXCEPT ![w] = tiFound(x, TiReports[x])]
        /\ TiReports[x] \in TiInfos
    BY <1>4, <1>13 DEF tiFetched, TiInfos
  <2>2. e.info = TiReports[x]
    OBVIOUS
  <2> HIDE DEF e
  <2>3. \A ip \in DOMAIN tiShodan' : tiShodan'[ip].info = TiReports[ip]
    BY <1>11, <2>1, <2>2, StoreKeeps
  <2>4. PICK q : q = tiFound(x, TiReports[x])
    OBVIOUS
  <2>5. q \in Busy /\ q.ip = x /\ q.info = TiReports[x] /\ q.pc = "enrich"
    BY <1>9, <2>1, <2>4
  <2>6. ThreatIntelTyped' /\ TiMarkersSound'
    BY <1>5, <2>1, <2>4, <2>5
  <2>7. TiReportsTrue'
    BY <1>10, <2>1, <2>3, <2>4, <2>5
  <2> QED BY <2>1, <2>6, <2>7 DEF ThreatIntelInv, TiScoresTold
<1>14. CASE fetchFailed(w)
  <2>1. /\ x \in TiIPs /\ tiWorker[w].pc # "idle" /\ UNCHANGED <<tiFlight, tiQueue, tiShodan, tiCache>>
        /\ tiWorker' = [tiWorker EXCEPT ![w] = tiFallback(x, tiWorker[w].old)]
        /\ tiWorker[w].pc = "fetch"
    BY <1>3, <1>4, <1>14 DEF fetchFailed
  <2>2. PICK q : q = tiFallback(x, tiWorker[w].old)
    OBVIOUS
  <2>3. TiReports[x] \in TiInfos /\ q \in {tiMissed(x), tiFound(x, TiReports[x])}
    BY <1>8, <1>11, <2>1, <2>2
  <2>4. /\ q \in Busy /\ q.ip = x
        /\ q.pc = "enrich" => q.info = TiReports[x]
        /\ q.pc = "fetch" => q.old \subseteq {TiReports[x]}
    BY <1>9, <2>1, <2>3
  <2>5. ThreatIntelTyped' /\ TiMarkersSound'
    BY <1>5, <2>1, <2>2, <2>4
  <2>6. TiReportsTrue'
    BY <1>10, <1>11, <2>1, <2>2, <2>4
  <2> QED BY <2>1, <2>5, <2>6 DEF ThreatIntelInv, TiScoresTold
<1>15. CASE tiEnrich(w)
  <2> DEFINE e == [score |-> calculateThreatScore(tiWorker[w].info), at |-> tiNow]
  <2>1. /\ x \in TiIPs /\ tiWorker[w].pc # "idle" /\ UNCHANGED <<tiFlight, tiQueue, tiShodan>>
        /\ tiCache' = tiStore(tiCache, x, e)
        /\ tiWorker' = [tiWorker EXCEPT ![w] = tiMissed(x)]
        /\ tiWorker[w].pc = "enrich" /\ TiReports[x] \in TiInfos
    BY <1>3, <1>4, <1>15 DEF tiEnrich, TiInfos
  <2>2. e.score = calculateThreatScore(TiReports[x])
    BY <1>11, <2>1
  <2> HIDE DEF e
  <2>3. TiScoresTold'
    BY <2>1, <2>2, StoreKeeps DEF ThreatIntelInv, TiScoresTold
  <2>4. PICK q : q = tiMissed(x)
    OBVIOUS
  <2>5. q \in Busy /\ q.ip = x /\ q.pc = "done"
    BY <1>9, <2>1, <2>4
  <2>6. ThreatIntelTyped' /\ TiMarkersSound'
    BY <1>5, <2>1, <2>4, <2>5
  <2>7. TiReportsTrue'
    BY <1>10, <1>11, <2>1, <2>4, <2>5
  <2> QED BY <2>3, <2>6, <2>7 DEF ThreatIntelInv
<1> QED BY <1>6, <1>7, <1>12, <1>13, <1>14, <1>15 DEF tiWork

\* The cleanup loops drop entries and change none.
LEMMA CleanupsKeep ==
  ASSUME ThreatIntelInv,
         cleanupEnrichments \/ cleanupShodan \/ tiInterval \/ tiTick \/ UNCHANGED tiVars
  PROVE  ThreatIntelInv'
<1>1. UNCHANGED <<tiFlight, tiQueue, tiCaller, tiWorker>>
  BY DEF cleanupEnrichments, cleanupShodan, tiInterval, tiTick, tiVars
<1>2. ThreatIntelTyped' /\ TiMarkersSound'
  <2>1. ThreatIntelTyped'
    BY <1>1 DEF ThreatIntelInv, ThreatIntelTyped
  <2>2. /\ \A c \in TiCallers, ip \in TiIPs : TiCallerHas(c, ip)' <=> TiCallerHas(c, ip)
        /\ \A w \in TiWorkers, ip \in TiIPs : TiWorkerHas(w, ip)' <=> TiWorkerHas(w, ip)
    BY <1>1 DEF TiCallerHas, TiWorkerHas
  <2> QED BY <1>1, <2>1, <2>2, OwnersUnchanged
<1>3. /\ \A ip \in DOMAIN tiCache' : ip \in DOMAIN tiCache /\ tiCache'[ip] = tiCache[ip]
      /\ \A ip \in DOMAIN tiShodan' : ip \in DOMAIN tiShodan /\ tiShodan'[ip] = tiShodan[ip]
  BY DEF cleanupEnrichments, cleanupShodan, tiInterval, tiTick, tiVars, tiKeep
<1>4. TiReportsTrue' /\ TiScoresTold'
  BY <1>1, <1>3 DEF ThreatIntelInv, TiReportsTrue, TiScoresTold
<1> QED BY <1>2, <1>4 DEF ThreatIntelInv

\* The invariant is inductive.
LEMMA ThreatIntelInvHolds == ThreatIntelSpec => []ThreatIntelInv
<1>1. ThreatIntelInv /\ [ThreatIntelNext]_tiVars => ThreatIntelInv'
  BY CallersKeep, WorkersKeep, CleanupsKeep DEF ThreatIntelNext
<1> QED BY <1>1, ThreatIntelInitial, PTL DEF ThreatIntelSpec

\* For any callers, workers and addresses: every in-flight marker has exactly one
\* owner that will clear it, and every cached score is that of the service's own
\* report (EnrichIP, enrichWorker, performEnrichment).
THEOREM IntelIsSound == ThreatIntelSpec => []IntelSound
<1>1. ThreatIntelInv => IntelSound
  BY OwnersCounted DEF ThreatIntelInv, IntelSound
<1> QED BY <1>1, ThreatIntelInvHolds, PTL

-----------------------------------------------------------------------------
(***************************************************************************)
(* Crawler verification: what a verdict rests on, from the lookup through  *)
(* the cache to the pass that uses it.                                     *)
(***************************************************************************)

\* Addresses and claimed crawlers; 0 is no claim.
CvKeys == CvIPs \X Nat

CvLearned == {"verified", "failed", "unknown"}

\* A verdict on the claim k that DNS supports.
CvEarned(status, k) ==
  /\ status = "verified" => CvPTR[k[1]] = k[2] /\ k[1] \in CvForward
  /\ status = "failed" => CvPTR[k[1]] # -1

\* How old a verdict may be when it is used.
CvAgeLimit(status) == IF status = "verified" THEN CvTTL ELSE CvNegativeTTL

\* A cached verdict expires when its age limit is reached.
CvCacheSound ==
  \A k \in DOMAIN cvCache :
    /\ k \in CvKeys
    /\ cvCache[k].status \in CvLearned /\ CvEarned(cvCache[k].status, k)
    /\ cvCache[k].learned \in Nat
    /\ cvCache[k].expires = cvCache[k].learned + CvAgeLimit(cvCache[k].status)

\* A call that has got as far as the forward lookup has the right name; one that
\* is about to store has earned its verdict.
CvFlightSound ==
  \A k \in DOMAIN cvFlight :
    /\ k \in CvKeys
    /\ cvFlight[k].pc = "forward" => CvPTR[k[1]] = k[2]
    /\ cvFlight[k].pc = "store" =>
         cvFlight[k].status \in CvLearned /\ CvEarned(cvFlight[k].status, k)

\* The values of cvCaller[c].
CvPass(p) ==
  \/ p = CvIdle
  \/ p.pc \in {"do", "wait"} /\ p.key \in CvKeys /\ p = [pc |-> p.pc, key |-> p.key]
  \/ /\ p.pc = "done" /\ p.key \in CvKeys
     /\ CvEarned(p.status, p.key)
     /\ p.learned \in Nat
     /\ cvNow - p.learned <= CvAgeLimit(p.status)

CrawlerVerifyInv ==
  /\ cvNow \in Nat
  /\ CvCacheSound /\ CvFlightSound
  /\ DOMAIN cvCaller = CvCallers /\ cvCaller = [c \in CvCallers |-> cvCaller[c]]
  /\ \A c \in CvCallers : CvPass(cvCaller[c])

\* The crawler a user agent claims to be is one it names.
LEMMA ClaimedBot ==
  ASSUME NEW ua \in CvAgents
  PROVE  claimedBotFor(ua) \in Nat
<1>1. CASE ua = {}
  BY <1>1 DEF claimedBotFor
<1>2. CASE ua # {}
  <2>1. ua \subseteq Nat
    BY CvAssumption
  <2>2. PICK b \in ua : \A x \in ua : ~(<<x, b>> \in OpToRel(<, Nat))
    BY <1>2, <2>1, WFMin, NatLessThanWellFounded
  <2>3. ASSUME NEW x \in ua PROVE b <= x
    <3>1. x \in Nat /\ b \in Nat
      BY <2>1
    <3>2. ~(x < b)
      <4> SUFFICES ASSUME x < b PROVE FALSE
        OBVIOUS
      <4>1. <<x, b>> \in OpToRel(<, Nat)
        BY <3>1 DEF OpToRel
      <4> QED BY <2>2, <4>1
    <3> QED BY <3>1, <3>2
  <2> QED BY <1>2, <2>1, <2>3 DEF claimedBotFor
<1> QED BY <1>1, <1>2

\* The size limit drops verdicts and changes none.
LEMMA LimitDrops ==
  ASSUME NEW m, NEW max, NEW headroom, NEW seen,
         NEW f \in enforceMaxSizeBatch(m, max, headroom, seen)
  PROVE  \A x \in DOMAIN f : x \in DOMAIN m /\ f[x] = m[x]
BY DEF enforceMaxSizeBatch, removeOldestN, Restrict

LEMMA CrawlerVerifyInitial == CrawlerVerifyInit => CrawlerVerifyInv
BY DEF CrawlerVerifyInit, CrawlerVerifyInv, CvCacheSound, CvFlightSound, CvPass

\* A pass that goes on with the value p.
LEMMA PassKeeps ==
  ASSUME CrawlerVerifyInv, NEW c \in CvCallers, NEW p, CvPass(p), UNCHANGED cvNow,
         cvCaller' = [cvCaller EXCEPT ![c] = p]
  PROVE  /\ DOMAIN cvCaller' = CvCallers /\ cvCaller' = [d \in CvCallers |-> cvCaller'[d]]
         /\ \A d \in CvCallers : CvPass(cvCaller[d])'
<1>1. /\ DOMAIN cvCaller' = CvCallers /\ cvCaller' = [d \in CvCallers |-> cvCaller'[d]]
      /\ \A d \in CvCallers : cvCaller'[d] = IF d = c THEN p ELSE cvCaller[d]
  BY DEF CrawlerVerifyInv
<1>2. \A d \in CvCallers : CvPass(cvCaller[d])'
  BY <1>1 DEF CrawlerVerifyInv, CvPass
<1> QED BY <1>1, <1>2

\* A pass asks; the cache answers it, forgets an expired verdict, or leaves it
\* to a lookup.
LEMMA AskKeeps ==
  ASSUME CrawlerVerifyInv, NEW c \in CvCallers, NEW ip \in CvIPs, NEW ua \in CvAgents,
         VerifyCrawler(c, ip, ua)
  PROVE  CrawlerVerifyInv'
<1> DEFINE k == <<ip, claimedBotFor(ua)>>
           cached == k \in DOMAIN cvCache
           expired == cached /\ cvNow > cvCache[k].expires
<1>1. /\ UNCHANGED <<cvFlight, cvNow>>
      /\ IF ua = {} THEN cvCaller' = [cvCaller EXCEPT ![c] = cvAnswer("skipped", cvNow, k)]
         ELSE IF cached /\ ~expired
         THEN cvCaller' = [cvCaller EXCEPT ![c] = cvAnswer(cvCache[k].status, cvCache[k].learned, k)]
         ELSE cvCaller' = [cvCaller EXCEPT ![c] = [pc |-> "do", key |-> k]]
      /\ cvCache' = IF ua # {} /\ expired THEN cvDrop(cvCache, k) ELSE cvCache
  BY DEF VerifyCrawler
<1>2. k \in CvKeys
  BY ClaimedBot DEF CvKeys
<1> HIDE DEF k
<1>3. CvCacheSound'
  <2>1. \A x \in DOMAIN cvCache' : x \in DOMAIN cvCache /\ cvCache'[x] = cvCache[x]
    BY <1>1 DEF cvDrop
  <2> QED BY <2>1 DEF CrawlerVerifyInv, CvCacheSound
<1>4. CvFlightSound'
  BY <1>1 DEF CrawlerVerifyInv, CvFlightSound
<1>5. cvNow \in Nat /\ CvTTL \in Nat /\ CvNegativeTTL \in Nat
  BY CvAssumption DEF CrawlerVerifyInv
<1>6. \E p : CvPass(p) /\ cvCaller' = [cvCaller EXCEPT ![c] = p]
  <2>1. CASE ua = {}
    <3>1. CvPass(cvAnswer("skipped", cvNow, k))
      BY <1>2, <1>5 DEF CvPass, cvAnswer, CvEarned, CvAgeLimit
    <3> QED BY <1>1, <2>1, <3>1
  <2>2. CASE ua # {} /\ cached /\ ~expired
    <3>1. /\ cvCache[k].status \in CvLearned /\ CvEarned(cvCache[k].status, k)
          /\ cvCache[k].learned \in Nat
          /\ cvCache[k].expires = cvCache[k].learned + CvAgeLimit(cvCache[k].status)
          /\ ~(cvNow > cvCache[k].expires)
      BY <2>2 DEF CrawlerVerifyInv, CvCacheSound
    <3>2. CvPass(cvAnswer(cvCache[k].status, cvCache[k].learned, k))
      BY <1>2, <1>5, <3>1 DEF CvPass, cvAnswer, CvAgeLimit
    <3> QED BY <1>1, <2>2, <3>2
  <2>3. CASE ua # {} /\ ~(cached /\ ~expired)
    <3>1. CvPass([pc |-> "do", key |-> k])
      BY <1>2 DEF CvPass
    <3> QED BY <1>1, <2>3, <3>1
  <2> QED BY <2>1, <2>2, <2>3
<1> QED BY <1>1, <1>3, <1>4, <1>5, <1>6, PassKeeps DEF CrawlerVerifyInv

\* A pass joins the lookup of its claim, or starts it.
LEMMA JoinKeeps ==
  ASSUME CrawlerVerifyInv, NEW c \in CvCallers, joinFlight(c)
  PROVE  CrawlerVerifyInv'
<1>1. PICK k : k = cvCaller[c].key
  OBVIOUS
<1>2. /\ cvCaller[c].pc = "do" /\ cvCaller' = [cvCaller EXCEPT ![c].pc = "wait"]
      /\ UNCHANGED <<cvCache, cvNow>>
      /\ cvFlight' = IF k \in DOMAIN cvFlight THEN cvFlight
                     ELSE cvPut(cvFlight, k, [pc |-> "reverse", status |-> "none"])
  BY <1>1 DEF joinFlight
<1>3. k \in CvKeys /\ cvCaller[c] = [pc |-> "do", key |-> k]
  <2>1. PICK p : p = cvCaller[c]
    OBVIOUS
  <2>2. CvPass(p) /\ p.pc = "do" /\ p.key = k
    BY <1>1, <1>2, <2>1 DEF CrawlerVerifyInv
  <2>3. p.key \in CvKeys /\ p = [pc |-> p.pc, key |-> p.key]
    BY <2>2 DEF CvPass, CvIdle
  <2> QED BY <2>1, <2>2, <2>3
<1>4. cvCaller' = [cvCaller EXCEPT ![c] = [pc |-> "wait", key |-> k]]
  <2>1. ASSUME NEW p, p = [pc |-> "do", key |-> k]
        PROVE  [p EXCEPT !.pc = "wait"] = [pc |-> "wait", key |-> k]
    BY <2>1
  <2>2. [cvCaller[c] EXCEPT !.pc = "wait"] = [pc |-> "wait", key |-> k]
    BY <1>3, <2>1
  <2> QED BY <1>2, <2>2
<1>5. CvPass([pc |-> "wait", key |-> k])
  BY <1>3 DEF CvPass
<1>6. CvFlightSound'
  <2>1. \A x \in DOMAIN cvFlight' :
          \/ x \in DOMAIN cvFlight /\ cvFlight'[x] = cvFlight[x]
          \/ x = k /\ cvFlight'[x].pc = "reverse"
    BY <1>2 DEF cvPut
  <2> QED BY <1>3, <2>1 DEF CrawlerVerifyInv, CvFlightSound
<1>7. CvCacheSound' /\ cvNow' \in Nat
  BY <1>2 DEF CrawlerVerifyInv, CvCacheSound
<1> QED BY <1>2, <1>4, <1>5, <1>6, <1>7, PassKeeps DEF CrawlerVerifyInv

\* The two lookups, whether DNS answers or not.
LEMMA LookupsKeep ==
  ASSUME CrawlerVerifyInv, NEW k \in DOMAIN cvFlight, NEW failed \in BOOLEAN,
         lookupAddr(k, failed) \/ lookupIPAddr(k, failed)
  PROVE  CrawlerVerifyInv'
<1>1. k \in CvKeys /\ k[1] \in CvIPs /\ k[2] \in Nat /\ k[2] # -1
  BY DEF CrawlerVerifyInv, CvFlightSound, CvKeys
<1>2. UNCHANGED <<cvCache, cvCaller, cvNow>>
  BY DEF lookupAddr, lookupIPAddr
<1>3. DOMAIN cvFlight' = DOMAIN cvFlight /\ \A x \in DOMAIN cvFlight : x # k => cvFlight'[x] = cvFlight[x]
  BY DEF lookupAddr, lookupIPAddr
<1>4. /\ cvFlight'[k].pc = "forward" => CvPTR[k[1]] = k[2]
      /\ cvFlight'[k].pc = "store" =>
           cvFlight'[k].status \in CvLearned /\ CvEarned(cvFlight'[k].status, k)
  <2>1. CASE lookupAddr(k, failed)
    <3>1. cvFlight'[k] = CASE failed \/ CvPTR[k[1]] = -1 -> [pc |-> "store", status |-> "unknown"]
                           [] ~failed /\ CvPTR[k[1]] = k[2] -> [pc |-> "forward", status |-> "none"]
                           [] OTHER -> [pc |-> "store", status |-> "failed"]
      BY <2>1 DEF lookupAddr
    <3>2. CASE failed \/ CvPTR[k[1]] = -1
      <4>1. cvFlight'[k] = [pc |-> "store", status |-> "unknown"]
        BY <1>1, <3>1, <3>2
      <4> QED BY <4>1 DEF CvLearned, CvEarned
    <3>3. CASE ~failed /\ CvPTR[k[1]] # -1 /\ CvPTR[k[1]] = k[2]
      <4>1. cvFlight'[k] = [pc |-> "forward", status |-> "none"]
        BY <1>1, <3>1, <3>3
      <4>2. cvFlight'[k].pc = "forward"
        BY <4>1
      <4> QED BY <3>3, <4>2
    <3>4. CASE ~failed /\ CvPTR[k[1]] # -1 /\ CvPTR[k[1]] # k[2]
      <4>1. cvFlight'[k] = [pc |-> "store", status |-> "failed"]
        BY <1>1, <3>1, <3>4
      <4> QED BY <3>4, <4>1 DEF CvLearned, CvEarned
    <3> QED BY <3>2, <3>3, <3>4
  <2>2. CASE lookupIPAddr(k, failed)
    <3>1. cvFlight'[k] = [pc |-> "store", status |-> IF ~failed /\ resolvesBack(k[1])
                                                     THEN "verified" ELSE "failed"]
      BY <2>2 DEF lookupIPAddr
    <3>2. CvPTR[k[1]] = k[2]
      BY <2>2 DEF lookupIPAddr, CrawlerVerifyInv, CvFlightSound
    <3>3. CASE ~failed /\ resolvesBack(k[1])
      <4>1. cvFlight'[k] = [pc |-> "store", status |-> "verified"]
        BY <3>1, <3>3
      <4> QED BY <3>2, <3>3, <4>1 DEF CvLearned, CvEarned, resolvesBack
    <3>4. CASE ~(~failed /\ resolvesBack(k[1]))
      <4>1. cvFlight'[k] = [pc |-> "store", status |-> "failed"]
        BY <3>1, <3>4
      <4> QED BY <1>1, <3>2, <4>1 DEF CvLearned, CvEarned
    <3> QED BY <3>3, <3>4
  <2> QED BY <2>1, <2>2
<1>5. CvFlightSound'
  BY <1>1, <1>3, <1>4 DEF CrawlerVerifyInv, CvFlightSound
<1> QED BY <1>2, <1>5 DEF CrawlerVerifyInv, CvCacheSound, CvPass

\* A verdict is stored and everyone who waits for it answered.
LEMMA StoreKeepsVerdicts ==
  ASSUME CrawlerVerifyInv, NEW k \in DOMAIN cvFlight, storeVerification(k)
  PROVE  CrawlerVerifyInv'
<1>1. PICK s, now : s = cvFlight[k].status /\ now = cvNow
  OBVIOUS
<1>2. PICK v : v = [status |-> s, expires |-> now + cvTTLOf(s), learned |-> now]
  OBVIOUS
<1>3. PICK stored : stored = cvPut(cvCache, k, v)
  OBVIOUS
<1>4. /\ cvFlight[k].pc = "store"
      /\ \E seen : cvCache' \in enforceMaxSizeBatch(stored, CvMax, CvHeadroom, seen)
      /\ cvFlight' = cvDrop(cvFlight, k)
      /\ cvCaller' = [c \in CvCallers |->
           IF cvCaller[c].pc = "wait" /\ cvCaller[c].key = k
           THEN cvAnswer(s, now, k) ELSE cvCaller[c]]
      /\ cvNow' = cvNow
  BY <1>1, <1>2, <1>3 DEF storeVerification
<1>5. k \in CvKeys /\ s \in CvLearned /\ CvEarned(s, k) /\ now \in Nat
  BY <1>1, <1>4 DEF CrawlerVerifyInv, CvFlightSound
<1>6. \A x \in DOMAIN cvCache' :
        \/ x \in DOMAIN cvCache /\ cvCache'[x] = cvCache[x]
        \/ x = k /\ cvCache'[x] = v
  <2>1. \A x \in DOMAIN cvCache' : x \in DOMAIN stored /\ cvCache'[x] = stored[x]
    BY <1>4, LimitDrops
  <2> QED BY <1>3, <2>1 DEF cvPut
<1>7. v.status = s /\ v.learned = now /\ v.expires = now + CvAgeLimit(s)
  BY <1>2, <1>5 DEF cvTTLOf, CvAgeLimit, CvLearned
<1>8. CvCacheSound'
  BY <1>5, <1>6, <1>7 DEF CrawlerVerifyInv, CvCacheSound
<1>9. CvFlightSound'
  <2>1. \A x \in DOMAIN cvFlight' : x \in DOMAIN cvFlight /\ cvFlight'[x] = cvFlight[x]
    BY <1>4 DEF cvDrop
  <2> QED BY <2>1 DEF CrawlerVerifyInv, CvFlightSound
<1>10. PICK p : p = cvAnswer(s, now, k)
  OBVIOUS
<1>11. CvPass(p)
  BY <1>1, <1>5, <1>10, CvAssumption DEF CvPass, cvAnswer, CvAgeLimit
<1>12. /\ DOMAIN cvCaller' = CvCallers /\ cvCaller' = [c \in CvCallers |-> cvCaller'[c]]
       /\ \A c \in CvCallers : cvCaller'[c] \in {p, cvCaller[c]}
  BY <1>4, <1>10
<1>13. \A c \in CvCallers : CvPass(cvCaller[c])'
  BY <1>4, <1>11, <1>12 DEF CrawlerVerifyInv, CvPass
<1> QED BY <1>4, <1>8, <1>9, <1>12, <1>13 DEF CrawlerVerifyInv

\* A pass goes on, and time passes when nobody holds an answer.
LEMMA RestKeeps ==
  ASSUME CrawlerVerifyInv,
         (\E c \in CvCallers : useVerdict(c)) \/ cvTick \/ UNCHANGED crawlerVars
  PROVE  CrawlerVerifyInv'
<1>1. ASSUME NEW c \in CvCallers, useVerdict(c) PROVE CrawlerVerifyInv'
  <2>1. CvPass(CvIdle)
    BY DEF CvPass
  <2> QED BY <1>1, <2>1, PassKeeps DEF useVerdict, CrawlerVerifyInv, CvCacheSound, CvFlightSound
<1>2. CASE cvTick
  <2>1. UNCHANGED <<cvCache, cvFlight, cvCaller>> /\ cvNow' \in Nat
    BY <1>2 DEF cvTick, CrawlerVerifyInv
  <2>2. \A c \in CvCallers : cvCaller[c].pc # "done"
    BY <1>2 DEF cvTick
  <2>3. \A c \in CvCallers : CvPass(cvCaller[c])'
    BY <2>1, <2>2 DEF CrawlerVerifyInv, CvPass
  <2> QED BY <2>1, <2>3 DEF CrawlerVerifyInv, CvCacheSound, CvFlightSound
<1>3. CASE UNCHANGED crawlerVars
  BY <1>3 DEF crawlerVars, CrawlerVerifyInv, CvCacheSound, CvFlightSound, CvPass
<1> QED BY <1>1, <1>2, <1>3

\* The invariant is inductive.
LEMMA CrawlerVerifyInvHolds == CrawlerVerifySpec => []CrawlerVerifyInv
<1>1. CrawlerVerifyInv /\ [CrawlerVerifyNext]_crawlerVars => CrawlerVerifyInv'
  BY AskKeeps, JoinKeeps, LookupsKeep, StoreKeepsVerdicts, RestKeeps DEF CrawlerVerifyNext
<1> QED BY <1>1, CrawlerVerifyInitial, PTL DEF CrawlerVerifySpec

\* For any passes, addresses, claims and cache size: a verdict that is used was
\* earned and is not older than its TTL, whoever looked it up (VerifyCrawler,
\* verifyGroup.Do, storeVerification).
THEOREM VerdictsEarnedAndFresh == CrawlerVerifySpec => []CrawlerVerdictsSound
<1>1. CrawlerVerifyInv => CrawlerVerdictsSound
  <2> SUFFICES ASSUME CrawlerVerifyInv, NEW c \in CvCallers, cvCaller[c].pc = "done"
               PROVE  /\ CvEarned(cvCaller[c].status, cvCaller[c].key)
                      /\ cvNow - cvCaller[c].learned <= CvAgeLimit(cvCaller[c].status)
    BY DEF CrawlerVerdictsSound, CvVerdictsEarned, CvVerdictsFresh, CvEarned, CvAgeLimit
  <2> QED BY DEF CrawlerVerifyInv, CvPass, CvIdle
<1> QED BY <1>1, CrawlerVerifyInvHolds, PTL

-----------------------------------------------------------------------------
(***************************************************************************)
(* HTTP requests: what is known of a client and where its request stands.  *)
(***************************************************************************)

HrAnswers == {"none", "unknown", "overdue", "verified", "impostor"}

\* The stages past the verifier, and those past the keyword check.
HrJudging == {"claims", "latency", "ja4db", "agent", "absent", "intel", "reputation"}
HrKeyworded == {"absent", "intel", "reputation", "end"}
HrStages == {"limit", "limited", "track", "verify", "verified", "browser", "end"} \cup HrJudging

HrSignals == exempt \cup {"errors", "timing", "latency", "scanner"}

HrRequest ==
  [pc : HrStages,
   c : HrClients, ua : HrAgents \cup {"crawler"}, background : BOOLEAN, pending : BOOLEAN,
   answer : HrAnswers, out : SUBSET HrSignals]

\* A genuine crawler is at worst not known yet.
HrKnownSound ==
  /\ hrKnown \in [HrClients -> HrAnswers]
  /\ \A c \in HrCrawlers : hrKnown[c] \in {"unknown", "verified"}

\* Past the verifier, a genuine crawler's request is marked pending, so that no
\* stage judges it.
HrCrawlerSound(r) ==
  r.c \in HrCrawlers =>
    /\ r.ua = "crawler"
    /\ r.out \cap exempt = {}
    /\ r.pc \in HrJudging => r.pending

\* A request answered as an impostor's is not pending, and past the keyword
\* check it has its signal.
HrImpostorSound(r) ==
  r.answer \in {"impostor", "overdue"} =>
    /\ r.ua = "crawler" /\ ~r.pending
    /\ r.pc \in HrKeyworded => "keyword" \in r.out

HrReqSound(r) == r \in HrRequest /\ HrCrawlerSound(r) /\ HrImpostorSound(r)

HTTPRequestInv ==
  /\ HrKnownSound
  /\ hrReq = [pc |-> "idle"] \/ HrReqSound(hrReq)

\* The request moves on with the signals T, neither charging a genuine crawler
\* with what it is exempt from nor letting an impostor by.
HrMoved(T, next) ==
  /\ hrReq' = [hrReq EXCEPT !.pc = next, !.out = @ \cup T]
  /\ hrReq.c \in HrCrawlers =>
       /\ T \cap exempt = {}
       /\ next \in HrJudging => hrReq.pending
  /\ hrReq.answer \in {"impostor", "overdue"} /\ next \in HrKeyworded
       => "keyword" \in hrReq.out \cup T

\* That keeps it sound.
LEMMA MovedKeeps ==
  ASSUME HTTPRequestInv, hrReq.pc # "idle", UNCHANGED hrKnown,
         NEW T, T \subseteq HrSignals, NEW next, next \in HrStages, HrMoved(T, next)
  PROVE  HTTPRequestInv'
<1>1. HrReqSound(hrReq) /\ hrReq \in HrRequest
  BY DEF HTTPRequestInv, HrReqSound
<1>2. /\ hrReq' \in HrRequest /\ hrReq'.c = hrReq.c /\ hrReq'.ua = hrReq.ua
      /\ hrReq'.pending = hrReq.pending /\ hrReq'.answer = hrReq.answer
      /\ hrReq'.out = hrReq.out \cup T /\ hrReq'.pc = next
  BY <1>1 DEF HrRequest, HrMoved
<1>3. HrCrawlerSound(hrReq')
  BY <1>1, <1>2 DEF HrReqSound, HrCrawlerSound, HrMoved
<1>4. HrImpostorSound(hrReq')
  BY <1>1, <1>2 DEF HrReqSound, HrImpostorSound, HrMoved
<1> QED BY <1>2, <1>3, <1>4 DEF HTTPRequestInv, HrKnownSound, HrReqSound

\* The stages of a request keep the invariant.
LEMMA StagesKeep ==
  ASSUME HTTPRequestInv,
         \/ rateLimited \/ withinLimit \/ track \/ claims \/ latency \/ ja4Browser
         \/ ja4Other \/ agentKeywords \/ absentHeaders \/ intel \/ reputationBlock
  PROVE  HTTPRequestInv'
<1>1. hrReq.pc # "idle" /\ UNCHANGED hrKnown
  BY DEF rateLimited, withinLimit, track, claims, latency, ja4Browser, ja4Other,
         agentKeywords, absentHeaders, intel, reputationBlock
<1>2. hrReq \in HrRequest /\ HrReqSound(hrReq)
  BY <1>1 DEF HTTPRequestInv, HrReqSound
<1>3. /\ hrReq.c \in HrCrawlers =>
           /\ hrReq.ua = "crawler"
           /\ hrReq.pc \in HrJudging => hrReq.pending
      /\ hrReq.answer \in {"impostor", "overdue"} =>
           /\ hrReq.ua = "crawler" /\ ~hrReq.pending
           /\ hrReq.pc \in HrKeyworded => "keyword" \in hrReq.out
  BY <1>2 DEF HrReqSound, HrCrawlerSound, HrImpostorSound
<1>4. ASSUME NEW why \in HrStages, hrEnd(why)
      PROVE  hrReq' = [hrReq EXCEPT !.pc = why, !.out = @ \cup {}]
  BY <1>2, <1>4 DEF HrRequest, hrEnd
<1>5. HrStages = {"limit", "limited", "track", "verify", "verified", "browser", "end", "claims",
                  "latency", "ja4db", "agent", "absent", "intel", "reputation"}
  BY DEF HrStages, HrJudging
<1>6. CASE rateLimited
  <2>1. HrMoved({}, "limited")
    BY <1>4, <1>5, <1>6 DEF rateLimited, HrMoved, HrJudging, HrKeyworded
  <2> QED BY <1>1, <1>5, <2>1, MovedKeeps
<1>7. CASE withinLimit
  <2>1. HrMoved({}, "track")
    BY <1>4, <1>5, <1>7 DEF withinLimit, hrEnd, HrMoved, HrJudging, HrKeyworded
  <2> QED BY <1>1, <1>5, <2>1, MovedKeeps
<1>8. CASE track
  <2>1. PICK T \in SUBSET {"errors", "timing"} : HrMoved(T, "verify")
    BY <1>8 DEF track, emits, exempt, HrMoved, HrJudging, HrKeyworded
  <2>2. T \subseteq HrSignals
    BY DEF HrSignals
  <2> QED BY <1>1, <1>5, <2>1, <2>2, MovedKeeps
<1>9. CASE claims
  <2>1. PICK T \in SUBSET {"bot_ua", "header_order", "ja4_accept_tls", "sec_ch_fetch"} :
          /\ hrReq' = [hrReq EXCEPT !.pc = "latency", !.out = @ \cup T]
          /\ hrReq.c \in HrCrawlers => T = {}
    BY <1>3, <1>9 DEF claims, emits, browserClaims, chromeUA, blinkUA, HrJudging
  <2>2. HrMoved(T, "latency")
    BY <1>3, <1>9, <2>1 DEF claims, HrMoved, HrJudging, HrKeyworded
  <2>3. T \subseteq HrSignals
    BY DEF HrSignals, exempt
  <2> QED BY <1>1, <1>5, <2>2, <2>3, MovedKeeps
<1>10. CASE latency
  <2>1. PICK T \in SUBSET {"latency"} : HrMoved(T, "ja4db")
    BY <1>3, <1>10 DEF latency, emits, exempt, HrMoved, HrJudging, HrKeyworded
  <2>2. T \subseteq HrSignals
    BY DEF HrSignals
  <2> QED BY <1>1, <1>5, <2>1, <2>2, MovedKeeps
<1>11. CASE ja4Browser
  <2>1. HrMoved({}, "browser")
    BY <1>4, <1>5, <1>11 DEF ja4Browser, HrMoved, HrJudging, HrKeyworded
  <2> QED BY <1>1, <1>5, <2>1, MovedKeeps
<1>12. CASE ja4Other
  <2>1. PICK T \in SUBSET {"ja4_bot"} : HrMoved(T, "agent")
    BY <1>3, <1>12 DEF ja4Other, ja4Signals, emits, HrMoved, HrJudging, HrKeyworded
  <2>2. T \subseteq HrSignals
    BY DEF HrSignals, exempt
  <2> QED BY <1>1, <1>5, <2>1, <2>2, MovedKeeps
<1>13. CASE agentKeywords
  <2>1. CASE hrReq.ua = "script" /\ hrReq' = [hrReq EXCEPT !.pc = "absent"]
    <3>1. HrMoved({}, "absent")
      BY <1>3, <1>4, <1>5, <1>13, <2>1 DEF agentKeywords, hrEnd, HrMoved, HrJudging
    <3> QED BY <1>1, <1>5, <3>1, MovedKeeps
  <2> DEFINE T == IF hrReq.pending \/ hrReq.ua \notin {"crawler", "script"} THEN {} ELSE {"keyword"}
  <2>2. CASE hrReq' = [hrReq EXCEPT !.pc = "absent", !.out = @ \cup T]
    <3>1. T \subseteq HrSignals
      BY DEF HrSignals, exempt
    <3>2. /\ hrReq.pc = "agent"
          /\ hrReq.pending => T = {}
          /\ hrReq.ua = "crawler" /\ ~hrReq.pending => T = {"keyword"}
      BY <1>13 DEF agentKeywords
    <3> HIDE DEF T
    <3>3. HrMoved(T, "absent")
      BY <1>3, <2>2, <3>2 DEF HrMoved, HrJudging
    <3> QED BY <1>1, <1>5, <3>1, <3>3, MovedKeeps
  <2> QED BY <1>13, <2>1, <2>2 DEF agentKeywords
<1>14. CASE absentHeaders
  <2>1. PICK T \in SUBSET {"no_headers"} : HrMoved(T, "intel")
    BY <1>3, <1>14 DEF absentHeaders, headersOptional, emits, HrMoved, HrJudging, HrKeyworded
  <2>2. T \subseteq HrSignals
    BY DEF HrSignals, exempt
  <2> QED BY <1>1, <1>5, <2>1, <2>2, MovedKeeps
<1>15. CASE intel
  <2>1. PICK T \in SUBSET {"scanner"} : HrMoved(T, "reputation")
    BY <1>3, <1>15 DEF intel, emits, exempt, HrMoved, HrJudging, HrKeyworded
  <2>2. T \subseteq HrSignals
    BY DEF HrSignals
  <2> QED BY <1>1, <1>5, <2>1, <2>2, MovedKeeps
<1>16. CASE reputationBlock
  <2>1. HrMoved({}, "end")
    BY <1>3, <1>4, <1>5, <1>16 DEF reputationBlock, HrMoved, HrJudging, HrKeyworded
  <2> QED BY <1>1, <1>5, <2>1, MovedKeeps
<1> QED BY <1>6, <1>7, <1>8, <1>9, <1>10, <1>11, <1>12, <1>13, <1>14, <1>15, <1>16

\* The verifier's answer marks a genuine crawler pending, unless it is verified.
LEMMA VerifyKeeps ==
  ASSUME HTTPRequestInv, verify
  PROVE  HTTPRequestInv'
<1>1. HrReqSound(hrReq) /\ hrReq \in HrRequest /\ UNCHANGED hrKnown /\ hrReq.pc = "verify"
  BY DEF HTTPRequestInv, HrReqSound, verify
<1>2. /\ hrReq.c \in HrClients /\ hrKnown[hrReq.c] \in HrAnswers
      /\ hrReq.c \in HrCrawlers => hrKnown[hrReq.c] \in {"unknown", "verified"}
  BY <1>1 DEF HTTPRequestInv, HrKnownSound, HrRequest
<1>3. CASE hrReq.ua # "crawler"
  <2>1. hrReq' = [hrReq EXCEPT !.pc = "claims"]
    BY <1>3 DEF verify
  <2>2. HrReqSound(hrReq')
    BY <1>1, <1>3, <2>1 DEF HrReqSound, HrCrawlerSound, HrImpostorSound, HrRequest, HrStages,
       HrJudging, HrKeyworded
  <2> QED BY <1>1, <2>2 DEF HTTPRequestInv, HrKnownSound
<1>4. CASE hrReq.ua = "crawler"
  <2>1. hrReq' = [hrReq EXCEPT !.pc = IF hrKnown[hrReq.c] = "verified" THEN "verified" ELSE "claims",
                               !.pending = stillPending(hrReq.c), !.answer = hrKnown[hrReq.c]]
    BY <1>4 DEF verify
  <2>2. /\ hrReq' \in HrRequest
        /\ hrReq'.pc = IF hrKnown[hrReq.c] = "verified" THEN "verified" ELSE "claims"
        /\ hrReq'.pending = (hrKnown[hrReq.c] = "unknown") /\ hrReq'.answer = hrKnown[hrReq.c]
        /\ hrReq'.c = hrReq.c /\ hrReq'.ua = hrReq.ua /\ hrReq'.out = hrReq.out
    BY <1>1, <1>2, <2>1 DEF HrRequest, HrStages, HrJudging, stillPending
  <2>3. HrCrawlerSound(hrReq')
    BY <1>1, <1>2, <2>2 DEF HrReqSound, HrCrawlerSound, HrJudging
  <2>4. HrImpostorSound(hrReq')
    BY <1>2, <1>4, <2>2 DEF HrImpostorSound, HrKeyworded
  <2> QED BY <1>1, <2>2, <2>3, <2>4 DEF HTTPRequestInv, HrKnownSound, HrReqSound
<1> QED BY <1>3, <1>4

\* A new request, and a lookup beside the requests.
LEMMA ArrivalsKeep ==
  ASSUME HTTPRequestInv, NEW c \in HrClients,
         arrive(c) \/ lookupEnds(c) \/ pendingOver(c) \/ verdictExpires(c)
  PROVE  HTTPRequestInv'
<1>1. CASE arrive(c)
  <2>1. PICK ua \in agentsOf(c), background \in BOOLEAN :
          hrReq' = [pc |-> "limit", c |-> c, ua |-> ua, background |-> background,
                    pending |-> FALSE, answer |-> "none", out |-> {}]
    BY <1>1 DEF arrive
  <2>2. ua \in HrAgents \cup {"crawler"} /\ (c \in HrCrawlers => ua = "crawler")
    BY HrAssumption DEF agentsOf
  <2>3. HrReqSound(hrReq')
    BY <2>1, <2>2 DEF HrReqSound, HrRequest, HrStages, HrAnswers, HrCrawlerSound, HrImpostorSound,
       HrJudging, HrKeyworded
  <2> QED BY <1>1, <2>3 DEF arrive, HTTPRequestInv, HrKnownSound
<1>2. CASE lookupEnds(c)
  BY <1>2 DEF lookupEnds, HTTPRequestInv, HrKnownSound, HrAnswers
<1>3. CASE pendingOver(c)
  BY <1>3, HrAssumption DEF pendingOver, HTTPRequestInv, HrKnownSound, HrAnswers
<1>4. CASE verdictExpires(c)
  BY <1>4 DEF verdictExpires, HTTPRequestInv, HrKnownSound, HrAnswers
<1> QED BY <1>1, <1>2, <1>3, <1>4

\* The invariant is inductive.
LEMMA HTTPRequestInvHolds == HTTPRequestSpec => []HTTPRequestInv
<1>1. HTTPRequestInit => HTTPRequestInv
  BY DEF HTTPRequestInit, HTTPRequestInv, HrKnownSound, HrAnswers, HrClients
<1>2. HTTPRequestInv /\ [HTTPRequestNext]_hrVars => HTTPRequestInv'
  <2> SUFFICES ASSUME HTTPRequestInv, [HTTPRequestNext]_hrVars
               PROVE  HTTPRequestInv'
    OBVIOUS
  <2>1. CASE UNCHANGED hrVars
    BY <2>1 DEF hrVars, HTTPRequestInv, HrKnownSound
  <2> QED BY <2>1, StagesKeep, VerifyKeeps, ArrivalsKeep DEF HTTPRequestNext
<1> QED BY <1>1, <1>2, PTL DEF HTTPRequestSpec

\* A genuine crawler is never judged by what a verified one is exempt from, and
\* one answered as an impostor is (processHTTPRequest), for any clients, however
\* their lookups and requests interleave.
THEOREM CrawlersAreJudgedRight == HTTPRequestSpec => []CrawlersJudgedRight
<1>1. HTTPRequestInv => CrawlersJudgedRight
  BY DEF HTTPRequestInv, HrReqSound, HrCrawlerSound, HrImpostorSound, HrKeyworded,
     CrawlersJudgedRight, HrCrawlerSpared, HrImpostorJudged
<1> QED BY <1>1, HTTPRequestInvHolds, PTL

-----------------------------------------------------------------------------
(***************************************************************************)
(* Verdicts: a verdict is what handleDetection makes of the window and     *)
(* the reputation it was formed with, and no adjustment undoes another.    *)
(***************************************************************************)

\* A window counts signals.
LEMMA WindowsCount == VdWindows \subseteq [VdKinds -> Nat]
<1> SUFFICES ASSUME NEW w \in VdWindows PROVE w \in [VdKinds -> Nat]
  OBVIOUS
<1>1. PICK K \in SUBSET VdKinds : \E f \in [K -> VdCounts] :
         w = [k \in VdKinds |-> IF k \in DOMAIN f THEN f[k] ELSE 0]
  BY DEF VdWindows
<1>2. PICK f \in [K -> VdCounts] : w = [k \in VdKinds |-> IF k \in DOMAIN f THEN f[k] ELSE 0]
  BY <1>1
<1>3. \A k \in VdKinds : (IF k \in DOMAIN f THEN f[k] ELSE 0) \in Nat
  BY <1>2, VdAssumption
<1> QED BY <1>2, <1>3

\* What the rules make of a window, before the model and the weak-signal cap.
vdRules(w, c, rep) ==
  evidenceFloor(intelBoost(ddosFloor(ruleConfidence(w, c, rep), isDDoSPattern(w, c.asnFlood)), c), w, rep)
vdConf(w, c, rep) == weakCapped(blendMLConfidence(vdRules(w, c, rep), c.ml), w)

\* Score and confidence are numbers.
LEMMA ScoreIsNumber ==
  ASSUME NEW w \in [VdKinds -> Nat]
  PROVE  /\ scoreOf(w) \in Nat /\ totalOf(w) \in Nat
         /\ typesOf(w) \subseteq VdWeak => scoreOf(w) <= 2
<1>1. \A k \in VdKinds : /\ w[k] \in Nat /\ TypeCap[k] \in Nat
                         /\ upTo(VdWeight * w[k], TypeCap[k]) \in Nat
                         /\ upTo(VdWeight * w[k], TypeCap[k]) <= TypeCap[k]
  <2> SUFFICES ASSUME NEW k \in VdKinds
               PROVE  /\ w[k] \in Nat /\ TypeCap[k] \in Nat
                      /\ upTo(VdWeight * w[k], TypeCap[k]) \in Nat
                      /\ upTo(VdWeight * w[k], TypeCap[k]) <= TypeCap[k]
    OBVIOUS
  <2>1. w[k] \in Nat /\ TypeCap[k] \in Nat
    BY DEF TypeCap, VdKinds, VdWeak
  <2>2. VdWeight * w[k] \in Nat
    BY <2>1, VdAssumption
  <2> QED BY <2>1, <2>2 DEF upTo
<1>2. \A k \in {"hdr", "meta", "inc", "flood", "freq", "pot", "ua"} : k \in VdKinds
  BY DEF VdKinds
<1>3. scoreOf(w) \in Nat
  BY <1>1, <1>2 DEF scoreOf
<1>4. totalOf(w) \in Nat
  BY <1>1, <1>2 DEF totalOf
<1>5. ASSUME typesOf(w) \subseteq VdWeak PROVE scoreOf(w) <= 2
  <2>1. \A k \in VdKinds \ VdWeak : w[k] = 0
    BY <1>1, <1>5 DEF typesOf
  <2>2. \A k \in VdKinds \ VdWeak : upTo(VdWeight * w[k], TypeCap[k]) = 0
    <3> SUFFICES ASSUME NEW k \in VdKinds \ VdWeak PROVE upTo(VdWeight * w[k], TypeCap[k]) = 0
      OBVIOUS
    <3>1. VdWeight * w[k] = 0
      BY <2>1, VdAssumption
    <3>2. TypeCap[k] \in Nat
      BY <1>1
    <3> QED BY <3>1, <3>2 DEF upTo
  <2>3. \A k \in VdWeak : k \in VdKinds /\ TypeCap[k] = 1
    BY DEF TypeCap, VdWeak, VdKinds
  <2>4. /\ upTo(VdWeight * w["hdr"], TypeCap["hdr"]) <= 1
        /\ upTo(VdWeight * w["meta"], TypeCap["meta"]) <= 1
    BY <1>1, <1>2, <2>3 DEF VdWeak
  <2>5. /\ upTo(VdWeight * w["inc"], TypeCap["inc"]) = 0
        /\ upTo(VdWeight * w["flood"], TypeCap["flood"]) = 0
        /\ upTo(VdWeight * w["freq"], TypeCap["freq"]) = 0
        /\ upTo(VdWeight * w["pot"], TypeCap["pot"]) = 0
        /\ upTo(VdWeight * w["ua"], TypeCap["ua"]) = 0
    BY <2>2 DEF VdKinds, VdWeak
  <2> QED BY <1>1, <1>2, <2>4, <2>5 DEF scoreOf
<1> QED BY <1>3, <1>4, <1>5

VdReputations == {"none", "some", "bad"}

LEMMA KindsFinite == IsFiniteSet(VdKinds) /\ Cardinality(VdWeak) = 2
<1>1. \A S, x : IsFiniteSet(S) => IsFiniteSet(S \cup {x})
  BY FS_AddElement
<1>2. IsFiniteSet({"hdr"}) /\ Cardinality({"hdr"}) = 1
  BY FS_Singleton
<1>3. IsFiniteSet(({"hdr"} \cup {"meta"}) \cup {"inc"})
  BY <1>1, <1>2
<1>4. IsFiniteSet((((({"hdr"} \cup {"meta"}) \cup {"inc"}) \cup {"flood"}) \cup {"freq"}) \cup {"pot"})
  BY <1>1, <1>3
<1>5. IsFiniteSet(((((({"hdr"} \cup {"meta"}) \cup {"inc"}) \cup {"flood"}) \cup {"freq"}) \cup {"pot"}) \cup {"ua"})
  BY <1>1, <1>4
<1>6. VdKinds = (((((({"hdr"} \cup {"meta"}) \cup {"inc"}) \cup {"flood"}) \cup {"freq"}) \cup {"pot"}) \cup {"ua"})
  BY DEF VdKinds
<1>7. VdWeak = {"hdr"} \cup {"meta"} /\ "meta" \notin {"hdr"}
  BY DEF VdWeak
<1>8. Cardinality({"hdr"} \cup {"meta"}) = 1 + 1
  BY <1>2, <1>7, FS_AddElement
<1> QED BY <1>5, <1>6, <1>7, <1>8

LEMMA ConfidenceIsNumber ==
  ASSUME NEW w \in [VdKinds -> Nat], NEW c \in VdContexts, NEW rep \in VdReputations
  PROVE  ruleConfidence(w, c, rep) \in Int
<1>1. w["pot"] \in Nat /\ w["flood"] \in Nat /\ totalOf(w) \in Nat /\ scoreOf(w) \in Nat
  BY ScoreIsNumber DEF VdKinds
<1>2. Cardinality(typesOf(w)) \in Nat
  <2>1. typesOf(w) \subseteq VdKinds
    BY DEF typesOf
  <2> QED BY <2>1, KindsFinite, FS_Subset, FS_CardinalityType
<1>3. PICK n \in Nat, t \in Nat, s \in Nat, v \in Nat :
         /\ n = Cardinality(typesOf(w)) /\ t = totalOf(w) /\ s = w["pot"] + w["flood"] /\ v = scoreOf(w)
  BY <1>1, <1>2
<1>4. /\ upTo(n, 5) \in Int /\ upTo(t, 10) \in Int /\ upTo(s, 3) \in Int /\ upTo(10 * v, 100) \in Int
  BY DEF upTo
<1>5. PICK b \in Int : b = (200 * upTo(s, 3)) \div 3
  BY <1>4
<1>6. PICK r \in Int : r = (CASE rep = "none" -> 0 [] rep = "some" -> 100 [] rep = "bad" -> 200)
  BY DEF VdReputations
<1>7. PICK o \in Int : o = (CASE c.origin = "verified" -> -150 [] c.origin = "failed" -> 150 [] OTHER -> 0)
  OBVIOUS
<1>8. PICK raw \in Int : raw = 500 + 30 * upTo(n, 5) + 10 * upTo(t, 10) + b + r + o + upTo(10 * v, 100)
  <2>1. PICK x \in Int, y \in Int, z \in Int : x = upTo(n, 5) /\ y = upTo(t, 10) /\ z = upTo(10 * v, 100)
    BY <1>4
  <2>2. 500 + 30 * x + 10 * y + b + r + o + z \in Int
    <3>1. b \in Int /\ r \in Int /\ o \in Int /\ x \in Int /\ y \in Int /\ z \in Int
      BY <1>5, <1>6, <1>7, <2>1
    <3> QED BY <3>1
  <2> QED BY <2>1, <2>2
<1>9. ruleConfidence(w, c, rep) = upTo(atLeast(raw, 0), 1000)
  BY <1>3, <1>5, <1>6, <1>7, <1>8 DEF ruleConfidence
<1> QED BY <1>8, <1>9 DEF upTo, atLeast

\* The adjustments in turn: evidence lifts the confidence over the threshold, and
\* nothing after it takes that back but the cap on weak signals.
LEMMA AdjustmentsHold ==
  ASSUME NEW w \in [VdKinds -> Nat], NEW c \in VdContexts, NEW rep \in VdReputations
  PROVE  /\ vdConf(w, c, rep) \in Int
         /\ typesOf(w) \subseteq VdWeak => vdConf(w, c, rep) < VdThreshold
         /\ /\ ~(typesOf(w) \subseteq VdWeak)
            /\ rep = "bad" \/ w["pot"] > 0 \/ isDDoSPattern(w, c.asnFlood)
            => vdConf(w, c, rep) >= VdThreshold
<1>1. PICK n \in Int : n = ruleConfidence(w, c, rep)
  BY ConfidenceIsNumber
<1>2. PICK ddos : ddos = isDDoSPattern(w, c.asnFlood)
  OBVIOUS
<1>3. PICK d \in Int : d = ddosFloor(n, ddos) /\ (ddos => d >= 950)
  BY <1>1 DEF ddosFloor, atLeast
<1>4. PICK i \in Int : i = intelBoost(d, c) /\ (ddos => i >= 950)
  BY <1>3 DEF intelBoost, upTo
<1>5. PICK r \in Int : r = evidenceFloor(i, w, rep) /\ (ddos \/ w["pot"] > 0 \/ rep = "bad" => r >= RuleFloor)
  BY <1>4 DEF evidenceFloor, atLeast, deterministic, RuleFloor
<1>6. PICK b \in Int : b = blendMLConfidence(r, c.ml) /\ (ddos \/ w["pot"] > 0 \/ rep = "bad" => b >= RuleFloor)
  BY <1>5 DEF blendMLConfidence, atLeast, upTo, RuleFloor, LegitCap
<1>7. vdConf(w, c, rep) = weakCapped(b, w)
  BY <1>1, <1>2, <1>3, <1>4, <1>5, <1>6 DEF vdConf, vdRules
<1>8. VdThreshold \in Nat /\ VdThreshold <= RuleFloor
  BY VdAssumption
<1> QED BY <1>2, <1>6, <1>7, <1>8 DEF weakCapped, upTo, RuleFloor

\* The verdict in hand is what the adjustments make of its window.
VdOutSound ==
  /\ vdIn.win \in [VdKinds -> Nat] /\ vdIn.ctx \in VdContexts /\ vdOut.rep \in VdReputations
  /\ vdOut.conf = vdConf(vdIn.win, vdIn.ctx, vdOut.rep)
  /\ vdOut.block = (\/ vdOut.conf >= VdThreshold
                    \/ (vdOut.cat = "ddos" /\ scoreOf(vdIn.win) >= VdBlockScore))
  /\ vdOut.cat = "unknown" => ~(vdOut.conf >= VdThreshold)
VerdictInv == vdRep \in VdReputations /\ (vdOut.out # "none" => VdOutSound)

\* What detection returns, if it is an event.
LEMMA DetectionParts ==
  ASSUME NEW w, NEW c, NEW rep, NEW said, NEW d, d = detection(w, c, rep, said), d.out = "event"
  PROVE  /\ d.conf = vdConf(w, c, rep) /\ d.rep = rep
         /\ d.block = (d.conf >= VdThreshold \/ (d.cat = "ddos" /\ scoreOf(w) >= VdBlockScore))
         /\ d.cat = "unknown" => ~(d.conf >= VdThreshold)
         /\ d = [out |-> "event", conf |-> d.conf, cat |-> d.cat, rep |-> d.rep, block |-> d.block]
<1>1. PICK conf : conf = vdConf(w, c, rep)
  OBVIOUS
<1>2. VdNoOut.out # "event"
  BY DEF VdNoOut
<1>3. PICK cat4 : LET cat == named(cat4, conf, w)
                  IN d = [out |-> "event", conf |-> conf, cat |-> cat, rep |-> rep,
                          block |-> conf >= VdThreshold \/ (cat = "ddos" /\ scoreOf(w) >= VdBlockScore)]
  BY <1>1, <1>2 DEF detection, vdConf, vdRules
<1>4. PICK cat : cat = named(cat4, conf, w)
  OBVIOUS
<1>5. PICK block : block = (conf >= VdThreshold \/ (cat = "ddos" /\ scoreOf(w) >= VdBlockScore))
  OBVIOUS
<1>6. d = [out |-> "event", conf |-> conf, cat |-> cat, rep |-> rep, block |-> block]
  BY <1>3, <1>4, <1>5
<1>7. d.conf = conf /\ d.cat = cat /\ d.rep = rep /\ d.block = block
  BY <1>6
<1>8. cat = "unknown" => ~(conf >= VdThreshold)
  BY <1>4 DEF named, inferred
<1> QED BY <1>1, <1>5, <1>6, <1>7, <1>8

LEMMA VerdictInitial == VerdictInit => VerdictInv
  BY DEF VerdictInit, VerdictInv, VdNoOut, VdReputations

LEMMA VerdictInductive == VerdictInv /\ [VerdictNext]_vdVars => VerdictInv'
<1> SUFFICES ASSUME VerdictInv, [VerdictNext]_vdVars PROVE VerdictInv'
  OBVIOUS
<1>1. ASSUME NEW w \in VdWindows, NEW c \in VdContexts, evaluateWindow(w, c)
      PROVE  VerdictInv'
  <2>1. PICK said : LET out == detection(w, c, vdRep, said)
                      IN /\ out.out = "event"
                         /\ vdOut' = [out EXCEPT !.out = IF vdWarm THEN "kept" ELSE "handled"]
    BY <1>1 DEF evaluateWindow
  <2>2. PICK d, rep : d = detection(w, c, rep, said) /\ rep = vdRep
    OBVIOUS
  <2>3. PICK o : o = IF vdWarm THEN "kept" ELSE "handled"
    OBVIOUS
  <2>4. d.out = "event" /\ vdOut' = [d EXCEPT !.out = o]
    BY <2>1, <2>2, <2>3
  <2>5. /\ d.conf = vdConf(w, c, rep) /\ d.rep = rep
        /\ d.block = (d.conf >= VdThreshold \/ (d.cat = "ddos" /\ scoreOf(w) >= VdBlockScore))
        /\ d.cat = "unknown" => ~(d.conf >= VdThreshold)
        /\ d = [out |-> "event", conf |-> d.conf, cat |-> d.cat, rep |-> d.rep, block |-> d.block]
    BY <2>2, <2>4, DetectionParts
  <2>6. vdOut'.conf = d.conf /\ vdOut'.cat = d.cat /\ vdOut'.rep = d.rep /\ vdOut'.block = d.block
    BY <2>4, <2>5
  <2>7. vdIn'.win = w /\ vdIn'.ctx = c /\ vdRep \in VdReputations /\ vdRep' \in VdReputations
    BY <1>1 DEF evaluateWindow, VerdictInv, VdReputations
  <2>8. w \in [VdKinds -> Nat]
    BY <1>1, WindowsCount
  <2>9. VdOutSound'
    BY <1>1, <2>2, <2>5, <2>6, <2>7, <2>8 DEF VdOutSound
  <2> QED BY <2>7, <2>9 DEF VerdictInv
<1>2. CASE windowDone
  BY <1>2 DEF windowDone, VerdictInv, VdNoOut
<1>3. CASE timePasses
  BY <1>3 DEF timePasses, VerdictInv, VdReputations
<1>4. CASE UNCHANGED vdVars
  BY <1>4 DEF vdVars, VerdictInv, VdOutSound
<1> QED BY <1>1, <1>2, <1>3, <1>4 DEF VerdictNext

vdLabelled(c, label) == [c EXCEPT !.label = label]

\* With such evidence the label of a learned pattern does not matter.
LEMMA LabelsIrrelevant ==
  ASSUME NEW w, NEW c \in VdContexts, NEW rep, NEW said,
         rep = "bad" \/ w["pot"] > 0 \/ isDDoSPattern(w, c.asnFlood)
  PROVE  detection(w, vdLabelled(c, "legitimate"), rep, said)
           = detection(w, vdLabelled(c, "none"), rep, said)
<1>1. PICK a, b : a = vdLabelled(c, "legitimate") /\ b = vdLabelled(c, "none")
  OBVIOUS
<1>2. /\ a.label = "legitimate" /\ b.label = "none"
      /\ a.agent = c.agent /\ b.agent = c.agent /\ a.origin = c.origin /\ b.origin = c.origin
      /\ a.ml = c.ml /\ b.ml = c.ml /\ a.asnFlood = c.asnFlood /\ b.asnFlood = c.asnFlood
  BY <1>1 DEF VdContexts, vdLabelled
<1>3. outweighsLearned(w, c.asnFlood, rep)
  BY DEF outweighsLearned, deterministic
<1>4. categorized(w, a) = categorized(w, b)
  BY <1>2 DEF categorized
<1>5. ruleConfidence(w, a, rep) = ruleConfidence(w, b, rep)
  BY <1>2 DEF ruleConfidence
<1>6. \A n : intelBoost(n, a) = intelBoost(n, b)
  BY <1>2 DEF intelBoost
<1>7. detection(w, a, rep, said) = detection(w, b, rep, said)
  BY <1>2, <1>3, <1>4, <1>5, <1>6 DEF detection
<1> QED BY <1>1, <1>7

LEMMA VerdictsFollow == VerdictInv => VerdictsSound
<1> SUFFICES ASSUME VerdictInv, vdOut.out # "none" PROVE VerdictsSound
  BY DEF VerdictsSound, VdWeakNeverBlocks, VdEvidenceStands, VdLearnedIrrelevant, VdBlockNamed
<1>1. VdOutSound
  BY DEF VerdictInv
<1>2. PICK w \in [VdKinds -> Nat], c \in VdContexts, rep \in VdReputations :
         w = vdIn.win /\ c = vdIn.ctx /\ rep = vdOut.rep
  BY <1>1 DEF VdOutSound
<1>3. /\ vdOut.conf \in Int
      /\ typesOf(w) \subseteq VdWeak => vdOut.conf < VdThreshold
      /\ /\ ~(typesOf(w) \subseteq VdWeak)
         /\ rep = "bad" \/ w["pot"] > 0 \/ isDDoSPattern(w, c.asnFlood)
         => vdOut.conf >= VdThreshold
  BY <1>1, <1>2, AdjustmentsHold DEF VdOutSound
<1>4. /\ scoreOf(w) \in Nat /\ (typesOf(w) \subseteq VdWeak => scoreOf(w) <= 2)
      /\ VdThreshold \in Nat /\ VdBlockScore \in Nat /\ VdBlockScore > 2
  BY <1>2, ScoreIsNumber, KindsFinite, VdAssumption
<1>5. VdWeakNeverBlocks
  BY <1>1, <1>2, <1>3, <1>4 DEF VdOutSound, VdWeakNeverBlocks
<1>6. VdEvidenceStands
  BY <1>1, <1>2, <1>3 DEF VdOutSound, VdEvidenceStands, vdBad
<1>7. VdLearnedIrrelevant
  <2> SUFFICES ASSUME rep = "bad" \/ w["pot"] > 0 \/ isDDoSPattern(w, c.asnFlood)
               PROVE  detection(w, vdLabelled(c, "legitimate"), rep, 900)
                        = detection(w, vdLabelled(c, "none"), rep, 900)
    BY <1>2 DEF VdLearnedIrrelevant, vdBad, vdLabelled
  <2> QED BY <1>2, LabelsIrrelevant
<1>8. VdBlockNamed
  BY <1>1 DEF VdOutSound, VdBlockNamed
<1> QED BY <1>5, <1>6, <1>7, <1>8 DEF VerdictsSound

\* For any thresholds and weights: missing browser headers alone never block,
\* deterministic evidence, a bad reputation or a DDoS pattern does, whatever the
\* model or a learned label says, and a block has a category (handleDetection,
\* blendMLConfidence).
THEOREM VerdictsAreSound == VerdictSpec => []VerdictsSound
  BY VerdictInitial, VerdictInductive, VerdictsFollow, PTL DEF VerdictSpec

-----------------------------------------------------------------------------
(* The detections.                                                         *)
(*                                                                         *)
(* A detection that is not filed yet is with one worker, and no key leads  *)
(* to it.                                                                  *)

DSAhead(w) == dsTask[w].pc \in {"count", "cache"}

DSTasks ==
  [pc : {"idle"}]
    \cup [pc : {"count", "cache", "history"}, ev : Nat, todo : DSKeySets, keys : DSKeySets]

DSStoreInv ==
  /\ Len(dsTime) \in Nat /\ DOMAIN dsTime = 1..Len(dsTime)
  /\ dsTask \in [DSWorkers -> DSTasks]
  /\ DOMAIN dsKeys \subseteq 1..Len(dsTime)
  /\ \A w \in DSWorkers : DSAhead(w) =>
       /\ dsTask[w].ev \in 1..Len(dsTime) /\ dsTask[w].ev \notin DOMAIN dsKeys
       /\ \A v \in DSWorkers \ {w} : DSAhead(v) => dsTask[v].ev # dsTask[w].ev

DSInv ==
  /\ DSStoreInv /\ DSIndexExact /\ DSCountsOwned
  /\ IsFiniteSet(DOMAIN dsSeen)
  /\ dsNow \in Int /\ dsTime \in Seq(Int) /\ dsHist \in Seq(Nat)

LEMMA DetectionStoreInitial == DetectionStoreInit => DSInv
<1> SUFFICES ASSUME DetectionStoreInit PROVE DSInv
  OBVIOUS
<1>1. /\ dsTime = <<>> /\ dsLatest = <<>> /\ dsKeys = <<>> /\ dsHist = <<>> /\ dsSeen = <<>>
      /\ dsNow = 0 /\ dsSignals = {} /\ dsDetects = {} /\ dsTask = [w \in DSWorkers |-> DSIdle]
  BY DEF DetectionStoreInit
<1>2. dsTime \in Seq(Int) /\ dsHist \in Seq(Nat) /\ Len(dsTime) = 0 /\ DOMAIN dsTime = {}
  BY <1>1
<1>3. DOMAIN dsKeys = {} /\ DOMAIN dsLatest = {} /\ DOMAIN dsSeen = {}
  BY <1>1
<1>4. IsFiniteSet({}) /\ Cardinality({}) = 0
  BY FS_EmptySet
<1>5. \A w \in DSWorkers : dsTask[w] = DSIdle /\ ~DSAhead(w)
  BY <1>1 DEF DSIdle, DSAhead
<1>6. dsTask \in [DSWorkers -> DSTasks]
  BY <1>1 DEF DSIdle, DSTasks
<1>7. DSStoreInv
  BY <1>2, <1>3, <1>5, <1>6 DEF DSStoreInv
<1>8. DSIndexExact
  BY <1>3, <1>4, DSAssumption DEF DSIndexExact
<1>9. DSCountsOwned
  BY <1>1, <1>3, <1>4, DSAssumption DEF DSCountsOwned
<1> QED BY <1>1, <1>2, <1>3, <1>4, <1>7, <1>8, <1>9 DEF DSInv

-----------------------------------------------------------------------------
(* The counters. *)

LEMMA CountSignalKeeps ==
  ASSUME DSInv, NEW e, countSignal(e)
  PROVE  DSInv'
<1>1. /\ dsSeen' = dsPut(dsSeen, {e}, dsNow) /\ dsSignals' = dsSignals \cup {e}
      /\ UNCHANGED <<dsTime, dsLatest, dsKeys, dsHist, dsDetects, dsTask, dsNow>>
      /\ e \in dsSignals \/ e \in DOMAIN dsSeen \/ Cardinality(DOMAIN dsSeen) < DSEntities
  BY DEF countSignal, admits
<1>2. DOMAIN dsSeen' = DOMAIN dsSeen \cup {e}
  BY <1>1 DEF dsPut
<1>3. /\ dsSignals \cup dsDetects = DOMAIN dsSeen /\ IsFiniteSet(DOMAIN dsSeen)
      /\ Cardinality(DOMAIN dsSeen) <= DSEntities /\ Cardinality(DOMAIN dsSeen) \in Nat
  BY FS_CardinalityType DEF DSInv, DSCountsOwned
<1>4. /\ IsFiniteSet(DOMAIN dsSeen \cup {e})
      /\ e \in DOMAIN dsSeen \/ Cardinality(DOMAIN dsSeen \cup {e}) = Cardinality(DOMAIN dsSeen) + 1
      /\ e \in DOMAIN dsSeen => DOMAIN dsSeen \cup {e} = DOMAIN dsSeen
  <2>1. PICK S : S = DOMAIN dsSeen
    OBVIOUS
  <2>2. /\ IsFiniteSet(S \cup {e})
        /\ e \in S \/ Cardinality(S \cup {e}) = Cardinality(S) + 1
    BY <1>3, <2>1, FS_AddElement
  <2> QED BY <2>1, <2>2
<1>5. Cardinality(DOMAIN dsSeen \cup {e}) <= DSEntities
  BY <1>1, <1>3, <1>4, DSAssumption
<1>6. DSCountsOwned'
  BY <1>1, <1>2, <1>3, <1>5 DEF DSCountsOwned
<1>7. DSStoreInv' /\ DSIndexExact'
  BY <1>1 DEF DSInv, DSStoreInv, DSIndexExact, DSAhead
<1> QED BY <1>1, <1>2, <1>4, <1>6, <1>7 DEF DSInv

\* A task that moves on with its detection.
LEMMA TaskMoves ==
  ASSUME DSStoreInv, NEW w \in DSWorkers, NEW t \in DSTasks,
         dsTask' = [dsTask EXCEPT ![w] = t],
         t.pc \in {"idle", "history"} \/ (DSAhead(w) /\ t.ev = dsTask[w].ev),
         UNCHANGED <<dsTime, dsKeys>>
  PROVE  DSStoreInv'
<1>1. dsTask' \in [DSWorkers -> DSTasks] /\ dsTask'[w] = t
      /\ \A v \in DSWorkers \ {w} : dsTask'[v] = dsTask[v]
  BY DEF DSStoreInv
<1>2. \A v \in DSWorkers : DSAhead(v)' => DSAhead(v) /\ dsTask'[v].ev = dsTask[v].ev
  BY <1>1 DEF DSAhead
<1> QED BY <1>1, <1>2 DEF DSStoreInv

LEMMA CountDetectionKeeps ==
  ASSUME DSInv, NEW w \in DSWorkers, countDetection(w)
  PROVE  DSInv'
<1>1. PICK K : K = dsTask[w].todo
  OBVIOUS
<1>2. PICK A \in SUBSET K :
        /\ \/ Cardinality(DOMAIN dsSeen \cup A) <= DSEntities
           \/ A = K \cap (dsDetects \cup DOMAIN dsSeen)
        /\ dsSeen' = dsPut(dsSeen, A, dsNow)
        /\ dsDetects' = dsDetects \cup A
  BY <1>1 DEF countDetection
<1>3. /\ dsTask[w].pc = "count" /\ dsTask' = [dsTask EXCEPT ![w].pc = "cache"]
      /\ UNCHANGED <<dsTime, dsLatest, dsKeys, dsHist, dsSignals, dsNow>>
  BY DEF countDetection
<1>4. dsTask[w] \in DSTasks /\ dsTask \in [DSWorkers -> DSTasks]
  BY DEF DSInv, DSStoreInv
<1>5. K \in DSKeySets /\ IsFiniteSet(K)
  BY <1>1, <1>3, <1>4, DSAssumption DEF DSTasks
<1>6. DOMAIN dsSeen' = DOMAIN dsSeen \cup A
  BY <1>2 DEF dsPut
<1>7. /\ dsSignals \cup dsDetects = DOMAIN dsSeen /\ IsFiniteSet(DOMAIN dsSeen)
      /\ Cardinality(DOMAIN dsSeen) <= DSEntities
  BY DEF DSInv, DSCountsOwned
<1>8. IsFiniteSet(A)
  BY <1>2, <1>5, FS_Subset
<1>9. IsFiniteSet(DOMAIN dsSeen \cup A)
  BY <1>7, <1>8, FS_Union
<1>10. Cardinality(DOMAIN dsSeen \cup A) <= DSEntities
  <2>1. CASE A = K \cap (dsDetects \cup DOMAIN dsSeen)
    <3>1. DOMAIN dsSeen \cup A = DOMAIN dsSeen
      BY <1>7, <2>1
    <3> QED BY <1>7, <3>1
  <2> QED BY <1>2, <2>1
<1>11. DSCountsOwned'
  BY <1>2, <1>3, <1>6, <1>7, <1>10 DEF DSCountsOwned
<1>12. DSIndexExact'
  BY <1>3 DEF DSInv, DSIndexExact
<1>13. DSStoreInv'
  <2>1. PICK t : t = [dsTask[w] EXCEPT !.pc = "cache"]
    OBVIOUS
  <2>2. t \in DSTasks /\ t.ev = dsTask[w].ev /\ dsTask' = [dsTask EXCEPT ![w] = t]
    BY <1>3, <1>4, <2>1 DEF DSTasks
  <2> QED BY <1>3, <2>2, TaskMoves DEF DSInv, DSAhead
<1> QED BY <1>3, <1>6, <1>9, <1>11, <1>12, <1>13 DEF DSInv

LEMMA CleanupMetricsKeeps ==
  ASSUME DSInv, cleanupMetricState
  PROVE  DSInv'
<1>1. PICK E \in SUBSET DOMAIN dsSeen :
        /\ dsSeen' = Restrict(dsSeen, DOMAIN dsSeen \ E)
        /\ dsSignals' = dsSignals \ E /\ dsDetects' = dsDetects \ E
        /\ UNCHANGED <<dsTime, dsLatest, dsKeys, dsHist, dsTask, dsNow>>
  BY DEF cleanupMetricState, forgotten
<1>2. DOMAIN dsSeen' = DOMAIN dsSeen \ E
  BY <1>1 DEF Restrict
<1>3. /\ dsSignals \cup dsDetects = DOMAIN dsSeen /\ IsFiniteSet(DOMAIN dsSeen)
      /\ Cardinality(DOMAIN dsSeen) <= DSEntities
  BY DEF DSInv, DSCountsOwned
<1>4. /\ IsFiniteSet(DOMAIN dsSeen \ E) /\ IsFiniteSet(DOMAIN dsSeen)
      /\ Cardinality(DOMAIN dsSeen \ E) <= Cardinality(DOMAIN dsSeen)
      /\ Cardinality(DOMAIN dsSeen \ E) \in Nat /\ Cardinality(DOMAIN dsSeen) \in Nat
  BY <1>3, FS_Subset, FS_CardinalityType
<1>5. DSCountsOwned'
  <2>1. (dsSignals \ E) \cup (dsDetects \ E) = DOMAIN dsSeen \ E
    BY <1>3
  <2>2. Cardinality(DOMAIN dsSeen \ E) <= DSEntities
    BY <1>3, <1>4, DSAssumption
  <2> QED BY <1>1, <1>2, <2>1, <2>2 DEF DSCountsOwned
<1>6. DSStoreInv' /\ DSIndexExact'
  BY <1>1 DEF DSInv, DSStoreInv, DSIndexExact, DSAhead
<1> QED BY <1>1, <1>2, <1>4, <1>5, <1>6 DEF DSInv

-----------------------------------------------------------------------------
(* The latest detections. *)

\* The two directions of the index agree.
DSAgree(latest, keys) ==
  /\ \A d \in DOMAIN keys : keys[d] # {} /\ keys[d] = {k \in DOMAIN latest : latest[k] = d}
  /\ \A k \in DOMAIN latest : latest[k] \in DOMAIN keys

\* They do after some detections go.
LEMMA IndexRemoved ==
  ASSUME NEW latest, NEW keys, NEW D \in SUBSET DOMAIN keys, DSAgree(latest, keys),
         NEW fewer, NEW left, fewer = dsRemoved(latest, keys, D)[1], left = dsRemoved(latest, keys, D)[2]
  PROVE  /\ \A d : d \in DOMAIN left <=> d \in DOMAIN keys /\ d \notin D
         /\ DSAgree(fewer, left)
<1>1. /\ fewer = Restrict(latest, {k \in DOMAIN latest : latest[k] \notin D})
      /\ left = Restrict(keys, DOMAIN keys \ D)
  BY DEF dsRemoved
<1>2. /\ DOMAIN fewer = {k \in DOMAIN latest : latest[k] \notin D}
      /\ \A k \in DOMAIN fewer : fewer[k] = latest[k]
  BY <1>1 DEF Restrict
<1>3. /\ DOMAIN left = DOMAIN keys \ D
      /\ \A d \in DOMAIN left : left[d] = keys[d]
  BY <1>1 DEF Restrict
<1> QED BY <1>2, <1>3 DEF DSAgree

LEMMA CacheKeeps ==
  ASSUME DSInv, NEW w \in DSWorkers, cacheDetection(w)
  PROVE  DSInv'
<1>1. PICK ev, K : ev = dsTask[w].ev /\ K = dsTask[w].keys
  OBVIOUS
<1>2. PICK latest, keys : latest = dsPut(dsLatest, K, ev) /\ keys = dsPut(unfiled(K), {ev}, K)
  OBVIOUS
<1>3. PICK D \in surplus(keys) :
        /\ dsLatest' = dsRemoved(latest, keys, D)[1]
        /\ dsKeys' = dsRemoved(latest, keys, D)[2]
  BY <1>1, <1>2 DEF cacheDetection
<1>4. /\ dsTask[w].pc = "cache" /\ dsTask' = [dsTask EXCEPT ![w].pc = "history"]
      /\ UNCHANGED <<dsTime, dsHist, dsSeen, dsSignals, dsDetects, dsNow>>
  BY DEF cacheDetection
<1>5. dsTask[w] \in DSTasks /\ dsTask \in [DSWorkers -> DSTasks] /\ DSAhead(w)
  BY <1>4 DEF DSInv, DSStoreInv, DSAhead
<1>6. K \in DSKeySets /\ K # {} /\ ev \in 1..Len(dsTime) /\ ev \notin DOMAIN dsKeys
  BY <1>1, <1>4, <1>5, DSAssumption DEF DSTasks, DSInv, DSStoreInv
<1>7. /\ \A d \in DOMAIN dsKeys : dsKeys[d] # {} /\ dsKeys[d] = {k \in DOMAIN dsLatest : dsLatest[k] = d}
      /\ \A k \in DOMAIN dsLatest : dsLatest[k] \in DOMAIN dsKeys
  BY DEF DSInv, DSIndexExact
<1>8. /\ DOMAIN unfiled(K) = {d \in DOMAIN dsKeys : dsKeys[d] \ K # {}}
      /\ \A d \in DOMAIN unfiled(K) : unfiled(K)[d] = dsKeys[d] \ K
  BY DEF unfiled, Restrict
<1>9. /\ DOMAIN latest = K \cup DOMAIN dsLatest
      /\ \A k \in K : latest[k] = ev
      /\ \A k \in DOMAIN dsLatest \ K : latest[k] = dsLatest[k]
  <2>1. latest = dsPut(dsLatest, K, ev)
    BY <1>2
  <2> QED BY <2>1 DEF dsPut
<1>10. /\ DOMAIN keys = {ev} \cup DOMAIN unfiled(K)
       /\ keys[ev] = K
       /\ \A d \in DOMAIN unfiled(K) : d # ev /\ keys[d] = dsKeys[d] \ K
  <2>1. \A d \in DOMAIN unfiled(K) : d # ev
    BY <1>6, <1>8
  <2>2. PICK U : U = unfiled(K)
    OBVIOUS
  <2>3. keys = dsPut(U, {ev}, K)
    BY <1>2, <2>2
  <2>4. /\ DOMAIN keys = {ev} \cup DOMAIN U /\ keys[ev] = K
        /\ \A d \in DOMAIN U \ {ev} : keys[d] = U[d]
    BY <2>3 DEF dsPut
  <2>5. \A d \in DOMAIN U : d # ev /\ U[d] = dsKeys[d] \ K
    BY <1>8, <2>1, <2>2
  <2> QED BY <2>2, <2>4, <2>5
<1>11. \A d \in DOMAIN keys : keys[d] # {} /\ keys[d] = {k \in DOMAIN latest : latest[k] = d}
  <2>1. keys[ev] # {} /\ keys[ev] = {k \in DOMAIN latest : latest[k] = ev}
    BY <1>6, <1>7, <1>9, <1>10
  <2>2. ASSUME NEW d \in DOMAIN unfiled(K)
        PROVE  keys[d] # {} /\ keys[d] = {k \in DOMAIN latest : latest[k] = d}
    <3>1. d \in DOMAIN dsKeys /\ keys[d] = dsKeys[d] \ K /\ keys[d] # {} /\ d # ev
      BY <1>8, <1>10
    <3>2. dsKeys[d] = {k \in DOMAIN dsLatest : dsLatest[k] = d}
      BY <1>7, <3>1
    <3> QED BY <1>9, <3>1, <3>2
  <2> QED BY <1>10, <2>1, <2>2
<1>12. \A k \in DOMAIN latest : latest[k] \in DOMAIN keys
  <2>1. ASSUME NEW k \in DOMAIN dsLatest \ K PROVE latest[k] \in DOMAIN keys
    <3>1. latest[k] = dsLatest[k] /\ dsLatest[k] \in DOMAIN dsKeys /\ k \in dsKeys[dsLatest[k]]
      BY <1>7, <1>9
    <3>2. dsLatest[k] \in DOMAIN unfiled(K)
      BY <1>8, <3>1
    <3> QED BY <1>10, <3>1, <3>2
  <2> QED BY <1>9, <1>10, <2>1
<1>13. D \in SUBSET DOMAIN keys /\ Cardinality(DOMAIN keys \ D) <= DSMaxEvents
  BY DEF surplus
<1>14. PICK fewer, left : fewer = dsLatest' /\ left = dsKeys'
  OBVIOUS
<1>15. DOMAIN left = DOMAIN keys \ D /\ DSAgree(fewer, left)
  <2>1. fewer = dsRemoved(latest, keys, D)[1] /\ left = dsRemoved(latest, keys, D)[2]
    BY <1>3, <1>14
  <2>2. DSAgree(latest, keys)
    BY <1>11, <1>12 DEF DSAgree
  <2> QED BY <1>13, <2>1, <2>2, IndexRemoved
<1>16. DSIndexExact'
  BY <1>13, <1>14, <1>15 DEF DSIndexExact, DSAgree
<1>17. DOMAIN dsKeys' \subseteq DOMAIN dsKeys \cup {ev}
  BY <1>8, <1>10, <1>14, <1>15
<1>18. DSStoreInv'
  <2>1. /\ dsTask' \in [DSWorkers -> DSTasks] /\ dsTask'[w].pc = "history"
        /\ \A v \in DSWorkers \ {w} : dsTask'[v] = dsTask[v]
    BY <1>4, <1>5 DEF DSTasks
  <2>2. \A v \in DSWorkers : DSAhead(v)' => v # w /\ DSAhead(v) /\ dsTask'[v].ev = dsTask[v].ev
    BY <2>1 DEF DSAhead
  <2>3. \A v \in DSWorkers \ {w} : DSAhead(v) => dsTask[v].ev # ev
    BY <1>1, <1>5 DEF DSInv, DSStoreInv
  <2> QED BY <1>4, <1>6, <1>17, <2>1, <2>2, <2>3 DEF DSInv, DSStoreInv
<1>19. DSCountsOwned'
  BY <1>4 DEF DSInv, DSCountsOwned
<1> QED BY <1>4, <1>16, <1>18, <1>19 DEF DSInv

LEMMA ExpireLatestKeeps ==
  ASSUME DSInv, expireLatest
  PROVE  DSInv'
<1>1. PICK E \in SUBSET DOMAIN dsKeys :
        /\ dsLatest' = dsRemoved(dsLatest, dsKeys, E)[1]
        /\ dsKeys' = dsRemoved(dsLatest, dsKeys, E)[2]
        /\ UNCHANGED <<dsTime, dsHist, dsSeen, dsSignals, dsDetects, dsTask, dsNow>>
  BY DEF expireLatest
<1>2. /\ DSAgree(dsLatest, dsKeys) /\ Cardinality(DOMAIN dsKeys) <= DSMaxEvents
      /\ DOMAIN dsKeys \subseteq 1..Len(dsTime) /\ Len(dsTime) \in Nat
  BY DEF DSInv, DSIndexExact, DSStoreInv, DSAgree
<1>3. PICK fewer, left : fewer = dsLatest' /\ left = dsKeys'
  OBVIOUS
<1>4. DOMAIN left = DOMAIN dsKeys \ E /\ DSAgree(fewer, left)
  <2>1. fewer = dsRemoved(dsLatest, dsKeys, E)[1] /\ left = dsRemoved(dsLatest, dsKeys, E)[2]
    BY <1>1, <1>3
  <2> QED BY <1>2, <2>1, IndexRemoved
<1>5. IsFiniteSet(DOMAIN dsKeys)
  <2>1. IsFiniteSet(1..Len(dsTime))
    BY <1>2, FS_Interval
  <2> QED BY <1>2, <2>1, FS_Subset
<1>6. Cardinality(DOMAIN dsKeys \ E) <= DSMaxEvents
  <2>1. /\ IsFiniteSet(DOMAIN dsKeys \ E)
        /\ Cardinality(DOMAIN dsKeys \ E) <= Cardinality(DOMAIN dsKeys)
        /\ Cardinality(DOMAIN dsKeys \ E) \in Nat /\ Cardinality(DOMAIN dsKeys) \in Nat
    BY <1>5, FS_Subset, FS_CardinalityType
  <2> QED BY <1>2, <2>1, DSAssumption
<1>7. DSIndexExact'
  BY <1>3, <1>4, <1>6 DEF DSIndexExact, DSAgree
<1>8. DSStoreInv'
  <2>1. DOMAIN dsKeys' \subseteq DOMAIN dsKeys
    BY <1>3, <1>4
  <2> QED BY <1>1, <2>1 DEF DSInv, DSStoreInv, DSAhead
<1>9. DSCountsOwned'
  BY <1>1 DEF DSInv, DSCountsOwned
<1> QED BY <1>1, <1>7, <1>8, <1>9 DEF DSInv

-----------------------------------------------------------------------------
(* The history. *)

LEMMA DSSmallestOf ==
  ASSUME NEW S \in SUBSET Nat, S # {}
  PROVE  \E d \in S : \A e \in S : d <= e
<1>1. PICK d \in S : \A e \in S : ~(<<e, d>> \in OpToRel(<, Nat))
  BY WFMin, NatLessThanWellFounded
<1>2. \A e \in S : d <= e
  <2> SUFFICES ASSUME NEW e \in S, e < d PROVE FALSE
    OBVIOUS
  <2> QED BY <1>1 DEF OpToRel
<1> QED BY <1>2

\* What pruning leaves ends where the history ended, unless it leaves nothing.
LEMMA DSPrunedTail ==
  ASSUME NEW s \in Seq(Nat)
  PROVE  /\ dsPruned(s) \in Seq(Nat)
         /\ Len(s) > 0 /\ dsTime[s[Len(s)]] >= dsNow - DSTTL =>
              dsPruned(s) # <<>> /\ dsPruned(s)[Len(dsPruned(s))] = s[Len(s)]
<1>1. PICK keep : keep = {i \in 1..Len(s) : dsTime[s[i]] >= dsNow - DSTTL}
  OBVIOUS
<1>2. PICK first : first = IF keep = {} THEN Len(s) + 1
                           ELSE CHOOSE i \in keep : \A j \in keep : i <= j
  OBVIOUS
<1>3. PICK n \in Nat : n = Len(s)
  OBVIOUS
<1>4. /\ first \in 1..(n + 1)
      /\ keep # {} => first \in keep /\ \A j \in keep : first <= j
  <2>1. CASE keep = {}
    BY <1>2, <1>3, <2>1
  <2>2. CASE keep # {}
    <3>1. keep \in SUBSET Nat /\ keep \subseteq 1..n
      BY <1>1, <1>3
    <3>2. \E d \in keep : \A e \in keep : d <= e
      BY <2>2, <3>1, DSSmallestOf
    <3>3. first \in keep /\ \A j \in keep : first <= j
      BY <1>2, <2>2, <3>2
    <3> QED BY <3>1, <3>3
  <2> QED BY <2>1, <2>2
<1>5. PICK t : t = SubSeq(s, first, n)
  OBVIOUS
<1>6. t \in Seq(Nat) /\ Len(t) = n - first + 1 /\ \A i \in 1..Len(t) : t[i] = s[first + i - 1]
  <2>1. first \in Int /\ 1 <= first /\ first <= n + 1
    BY <1>4
  <2>2. \A i \in first..n : s[i] \in Nat
    BY <1>3, <2>1
  <2> QED BY <1>3, <1>5, <2>1, <2>2, SubSeqProperties
<1>7. dsPruned(s) = dsCut(t)
  BY <1>1, <1>2, <1>3, <1>5 DEF dsPruned
<1>8. PICK m \in Nat : m = Len(t)
  BY <1>6
<1>9. /\ dsCut(t) \in Seq(Nat)
      /\ m > 0 => dsCut(t) # <<>> /\ dsCut(t)[Len(dsCut(t))] = t[m]
  <2>1. CASE m > DSHistory
    <3>1. dsCut(t) = SubSeq(t, m - DSHistory + 1, m)
      BY <1>8, <2>1 DEF dsCut
    <3>2. m - DSHistory + 1 \in 1..m /\ DSHistory \in Nat \ {0}
      BY <2>1, DSAssumption
    <3>3. /\ dsCut(t) \in Seq(Nat) /\ Len(dsCut(t)) = DSHistory /\ DSHistory \in Nat
          /\ \A i \in 1..Len(dsCut(t)) : dsCut(t)[i] = t[m - DSHistory + i]
      <4>1. PICK a \in Int : a = m - DSHistory + 1 /\ 1 <= a /\ a <= m
        BY <3>2
      <4>2. \A i \in a..m : t[i] \in Nat
        BY <1>6, <1>8, <4>1
      <4>3. /\ dsCut(t) = SubSeq(t, a, m)
            /\ SubSeq(t, a, m) \in Seq(Nat) /\ Len(SubSeq(t, a, m)) = m - a + 1
            /\ \A i \in 1..(m - a + 1) : SubSeq(t, a, m)[i] = t[a + i - 1]
        <5>1. dsCut(t) = SubSeq(t, a, m)
          BY <3>1, <4>1
        <5>2. PICK b \in Int : b = m /\ a <= b
          BY <4>1
        <5>3. \A i \in a..b : t[i] \in Nat
          BY <4>2, <5>2
        <5>4. /\ SubSeq(t, a, b) \in Seq(Nat)
              /\ Len(SubSeq(t, a, b)) = IF a <= b THEN b - a + 1 ELSE 0
              /\ \A i \in 1..(b - a + 1) : SubSeq(t, a, b)[i] = t[a + i - 1]
          BY <5>3, SubSeqProperties
        <5> QED BY <5>1, <5>2, <5>4
      <4>4. m - a + 1 = DSHistory /\ \A i \in Nat : a + i - 1 = m - DSHistory + i
        BY <3>2, <4>1
      <4> QED BY <3>2, <4>3, <4>4
    <3>4. dsCut(t)[Len(dsCut(t))] = t[m]
      BY <3>2, <3>3
    <3> QED BY <3>2, <3>3, <3>4
  <2>2. CASE ~(m > DSHistory)
    <3>1. dsCut(t) = t
      BY <1>8, <2>2 DEF dsCut
    <3> QED BY <1>6, <1>8, <3>1
  <2> QED BY <2>1, <2>2
<1>10. ASSUME n > 0, dsTime[s[n]] >= dsNow - DSTTL
       PROVE  dsPruned(s) # <<>> /\ dsPruned(s)[Len(dsPruned(s))] = s[n]
  <2>1. n \in keep /\ first \in 1..n
    BY <1>1, <1>3, <1>4, <1>10
  <2>2. m = n - first + 1 /\ m > 0 /\ t[m] = s[n]
    BY <1>6, <1>8, <2>1
  <2> QED BY <1>7, <1>9, <2>2
<1> QED BY <1>3, <1>7, <1>9, <1>10

LEMMA DetectKeeps ==
  ASSUME DSInv, NEW w \in DSWorkers, NEW K \in DSKeySets, detect(w, K)
  PROVE  DSInv'
<1>1. PICK stamp \in {dsNow, dsNow + DSSkew + 1} : dsTime' = Append(dsTime, stamp)
  BY DEF detect
<1>2. /\ dsTask[w].pc = "idle"
      /\ dsTask' = [dsTask EXCEPT ![w] = [pc |-> "count", ev |-> Len(dsTime'), todo |-> K, keys |-> K]]
      /\ UNCHANGED <<dsLatest, dsKeys, dsHist, dsSeen, dsSignals, dsDetects, dsNow>>
  BY DEF detect
<1>3. PICK n \in Nat : n = Len(dsTime)
  BY DEF DSInv
<1>4. dsTime' \in Seq(Int) /\ Len(dsTime') = n + 1 /\ DOMAIN dsTime' = 1..(n + 1)
  <2>1. stamp \in Int /\ dsTime \in Seq(Int)
    BY DSAssumption DEF DSInv
  <2> QED BY <1>1, <1>3, <2>1, AppendProperties
<1>5. /\ dsTask' \in [DSWorkers -> DSTasks]
      /\ dsTask'[w] = [pc |-> "count", ev |-> n + 1, todo |-> K, keys |-> K]
      /\ \A v \in DSWorkers \ {w} : dsTask'[v] = dsTask[v]
  <2>1. [pc |-> "count", ev |-> n + 1, todo |-> K, keys |-> K] \in DSTasks
    BY DEF DSTasks
  <2>2. dsTask \in [DSWorkers -> DSTasks]
    BY DEF DSInv, DSStoreInv
  <2> QED BY <1>2, <1>4, <2>1, <2>2
<1>6. /\ DOMAIN dsKeys \subseteq 1..n
      /\ \A v \in DSWorkers : DSAhead(v) => dsTask[v].ev \in 1..n /\ dsTask[v].ev \notin DOMAIN dsKeys
      /\ \A u, v \in DSWorkers : u # v /\ DSAhead(u) /\ DSAhead(v) => dsTask[u].ev # dsTask[v].ev
  BY <1>3 DEF DSInv, DSStoreInv
<1>7. /\ \A v \in DSWorkers \ {w} : DSAhead(v)' <=> DSAhead(v)
      /\ dsTask'[w].ev = n + 1 /\ n + 1 \notin 1..n
  BY <1>5 DEF DSAhead
<1>8. \A v \in DSWorkers : DSAhead(v)' =>
        /\ dsTask'[v].ev \in 1..(n + 1) /\ dsTask'[v].ev \notin DOMAIN dsKeys
        /\ \A u \in DSWorkers \ {v} : DSAhead(u)' => dsTask'[u].ev # dsTask'[v].ev
  <2> SUFFICES ASSUME NEW v \in DSWorkers, DSAhead(v)'
               PROVE  /\ dsTask'[v].ev \in 1..(n + 1) /\ dsTask'[v].ev \notin DOMAIN dsKeys
                      /\ \A u \in DSWorkers \ {v} : DSAhead(u)' => dsTask'[u].ev # dsTask'[v].ev
    OBVIOUS
  <2>1. CASE v = w
    BY <1>5, <1>6, <1>7, <2>1
  <2>2. CASE v # w
    BY <1>5, <1>6, <1>7, <2>2
  <2> QED BY <2>1, <2>2
<1>9. DSStoreInv'
  <2>1. DOMAIN dsKeys' \subseteq 1..(n + 1) /\ n + 1 \in Nat
    BY <1>2, <1>6
  <2> QED BY <1>2, <1>4, <1>5, <1>8, <2>1 DEF DSStoreInv
<1>10. DSIndexExact' /\ DSCountsOwned'
  BY <1>2 DEF DSInv, DSIndexExact, DSCountsOwned
<1> QED BY <1>2, <1>4, <1>9, <1>10 DEF DSInv

\* The steps that only move a worker on or prune the history.
LEMMA HistoryStepsKeep ==
  ASSUME DSInv,
         \/ \E w \in DSWorkers : skipCache(w) \/ addDetectionHistory(w)
         \/ pruneDetectionHistory \/ dsTick
  PROVE  DSInv'
<1>1. CASE \E w \in DSWorkers : skipCache(w) \/ addDetectionHistory(w)
  <2>1. PICK w \in DSWorkers : skipCache(w) \/ addDetectionHistory(w)
    BY <1>1
  <2>2. /\ dsTask' = [dsTask EXCEPT ![w] = DSIdle] /\ dsTask[w].pc \in {"cache", "history"}
        /\ dsHist' = dsHist \/ (dsTask[w].pc = "history" /\ dsHist' = dsPruned(Append(dsHist, dsTask[w].ev)))
        /\ UNCHANGED <<dsTime, dsLatest, dsKeys, dsSeen, dsSignals, dsDetects, dsNow>>
    BY <2>1 DEF skipCache, addDetectionHistory
  <2>3. dsTask[w] \in DSTasks
    BY DEF DSInv, DSStoreInv
  <2>4. dsTask[w].ev \in Nat
    BY <2>2, <2>3 DEF DSTasks
  <2>5. Append(dsHist, dsTask[w].ev) \in Seq(Nat)
    BY <2>4, AppendProperties DEF DSInv
  <2>6. dsHist' \in Seq(Nat)
    BY <2>2, <2>5, DSPrunedTail DEF DSInv
  <2>7. DSStoreInv'
    BY <2>2, TaskMoves DEF DSInv, DSIdle, DSTasks
  <2>8. DSIndexExact' /\ DSCountsOwned'
    BY <2>2 DEF DSInv, DSIndexExact, DSCountsOwned
  <2> QED BY <2>2, <2>6, <2>7, <2>8 DEF DSInv
<1>2. CASE pruneDetectionHistory \/ dsTick
  <2>1. /\ UNCHANGED <<dsTime, dsLatest, dsKeys, dsSeen, dsSignals, dsDetects, dsTask>>
        /\ dsHist' = dsHist \/ dsHist' = dsPruned(dsHist)
        /\ dsNow' \in Int
    BY <1>2 DEF DSInv, pruneDetectionHistory, dsTick
  <2>2. dsHist' \in Seq(Nat)
    BY <2>1, DSPrunedTail DEF DSInv
  <2>3. DSStoreInv' /\ DSIndexExact' /\ DSCountsOwned'
    BY <2>1 DEF DSInv, DSStoreInv, DSIndexExact, DSCountsOwned, DSAhead
  <2> QED BY <2>1, <2>2, <2>3 DEF DSInv
<1> QED BY <1>1, <1>2

LEMMA DetectionStoreKeeps == DSInv /\ [DetectionStoreNext]_dsVars => DSInv'
<1> SUFFICES ASSUME DSInv, [DetectionStoreNext]_dsVars PROVE DSInv'
  OBVIOUS
<1>1. CASE \E e \in UNION DSKeySets : countSignal(e)
  BY <1>1, CountSignalKeeps
<1>2. CASE \E w \in DSWorkers : \E K \in DSKeySets : detect(w, K)
  BY <1>2, DetectKeeps
<1>3. CASE \E w \in DSWorkers : countDetection(w) \/ cacheDetection(w)
  BY <1>3, CountDetectionKeeps, CacheKeeps
<1>4. CASE \/ \E w \in DSWorkers : skipCache(w) \/ addDetectionHistory(w)
           \/ pruneDetectionHistory \/ dsTick
  BY <1>4, HistoryStepsKeep
<1>5. CASE cleanupMetricState \/ expireLatest
  BY <1>5, CleanupMetricsKeeps, ExpireLatestKeeps
<1>6. CASE UNCHANGED dsVars
  BY <1>6 DEF dsVars, DSInv, DSStoreInv, DSIndexExact, DSCountsOwned, DSAhead
<1> QED BY <1>1, <1>2, <1>3, <1>4, <1>5, <1>6 DEF DetectionStoreNext

\* Only the end of a publication enters the history; what enters it stays.
LEMMA HistoryTakesNew ==
  ASSUME DSInv, [DetectionStoreNext]_dsVars, NEW w \in DSWorkers,
         dsTask[w].pc = "history", dsTask'[w].pc = "idle", dsTime[dsTask[w].ev] >= dsNow - DSTTL
  PROVE  dsHist' # <<>> /\ dsHist'[Len(dsHist')] = dsTask[w].ev
<1>1. dsTask \in [DSWorkers -> DSTasks] /\ dsTask[w] \in DSTasks
  BY DEF DSInv, DSStoreInv
<1>2. addDetectionHistory(w)
  <2>1. dsTask'[w] # dsTask[w]
    OBVIOUS
  <2>2. CASE \E e \in UNION DSKeySets : countSignal(e)
    BY <2>1, <2>2 DEF countSignal
  <2>3. CASE cleanupMetricState \/ expireLatest \/ pruneDetectionHistory \/ dsTick \/ UNCHANGED dsVars
    BY <2>1, <2>3 DEF cleanupMetricState, expireLatest, pruneDetectionHistory, dsTick, dsVars
  <2>4. CASE \E v \in DSWorkers :
               \/ \E K \in DSKeySets : detect(v, K)
               \/ countDetection(v) \/ cacheDetection(v) \/ skipCache(v) \/ addDetectionHistory(v)
    <3>1. PICK v \in DSWorkers :
               \/ \E K \in DSKeySets : detect(v, K)
               \/ countDetection(v) \/ cacheDetection(v) \/ skipCache(v) \/ addDetectionHistory(v)
      BY <2>4
    <3>2. \E t : dsTask' = [dsTask EXCEPT ![v] = t]
      BY <3>1 DEF detect, countDetection, cacheDetection, skipCache, addDetectionHistory
    <3>3. v = w
      BY <1>1, <2>1, <3>2
    <3> QED BY <3>1, <3>3 DEF detect, countDetection, cacheDetection, skipCache
  <2> QED BY <2>2, <2>3, <2>4 DEF DetectionStoreNext
<1>3. PICK s : s = Append(dsHist, dsTask[w].ev)
  OBVIOUS
<1>4. dsTask[w].ev \in Nat /\ dsHist \in Seq(Nat)
  BY <1>1 DEF DSTasks, DSInv
<1>5. s \in Seq(Nat) /\ Len(s) > 0 /\ s[Len(s)] = dsTask[w].ev
  BY <1>3, <1>4, AppendProperties, LenProperties
<1>6. dsHist' = dsPruned(s)
  BY <1>2, <1>3 DEF addDetectionHistory
<1> QED BY <1>5, <1>6, DSPrunedTail

\* For any workers, key sets and limits: the latest detections and their reverse
\* index agree and stay within the limit, no count outlives its entity, and a
\* detection that goes into the history is in it, however the workers and the
\* cleanup passes meet (cacheDetection, addDetectionHistory, cleanupRetainedState).
THEOREM DetectionsAreFiled == DetectionStoreSpec => DetectionsFiled
<1>1. DetectionStoreInit => DSInv
  BY DetectionStoreInitial
<1>2. DSInv /\ [DetectionStoreNext]_dsVars => DSInv'
  BY DetectionStoreKeeps
<1>3. DSInv => DSIndexExact /\ DSCountsOwned
  BY DEF DSInv
<1>4. DSInv /\ [DetectionStoreNext]_dsVars =>
        [\A w \in DSWorkers :
           dsTask[w].pc = "history" /\ dsTask'[w].pc = "idle" /\ dsTime[dsTask[w].ev] >= dsNow - DSTTL
             => dsHist' # <<>> /\ dsHist'[Len(dsHist')] = dsTask[w].ev]_dsVars
  BY HistoryTakesNew
<1> QED
  BY <1>1, <1>2, <1>3, <1>4, PTL DEF DetectionStoreSpec, DetectionsFiled, DSHistoryTakesNew

-----------------------------------------------------------------------------
(* The recordings.                                                         *)
(*                                                                         *)
(* A recording has the one timer that was started with it, and a signal    *)
(* belongs to one address wherever it is.                                  *)

RecSessions == [start : {-1} \cup Nat, pre : Seq(Nat), post : Seq(Nat)]
RecTasks == [step : {0}, ip : RecIPs \cup {CHOOSE ip \in RecIPs : TRUE}, sig : {0}]
              \cup [step : {1, 2}, ip : RecIPs, sig : Nat \ {0}]

RecTyped ==
  /\ recNow \in Nat /\ recMade \in Nat
  /\ recSess \in [RecIPs -> RecSessions]
  /\ recTask \in [RecWorkers -> RecTasks]
  /\ DOMAIN recBuf = RecIPs
  /\ \A ip \in RecIPs : recBuf[ip].sigs \in Seq(1..recMade)
  /\ \A w \in RecWorkers : recTask[w].sig \in 0..recMade

RecTimersSound ==
  \A t \in recTimers :
    /\ t \in [ip : RecIPs, at : Nat] /\ recording(t.ip)
    /\ t.at = recSess[t.ip].start + RecLength

RecSignalsOwned ==
  /\ \A w \in RecWorkers, ip \in RecIPs :
       recTask[w].sig \in ToSet(recBuf[ip].sigs) => recTask[w].ip = ip
  /\ \A v, w \in RecWorkers :
       recTask[v].sig = recTask[w].sig /\ recTask[w].sig # 0 => recTask[v].ip = recTask[w].ip

RecInv == RecTyped /\ RecTimersSound /\ RecSignalsOwned /\ RecNothingBetween

LEMMA SeqHolds ==
  ASSUME NEW S, NEW s \in Seq(S) PROVE \A x \in ToSet(s) : x \in S
<1>1. Len(s) \in Nat /\ DOMAIN s = 1..Len(s) /\ \A i \in 1..Len(s) : s[i] \in S
  BY ElementOfSeq, LenProperties
<1> QED BY <1>1 DEF ToSet

LEMMA SeqWider ==
  ASSUME NEW S, NEW T, S \subseteq T, NEW s \in Seq(S) PROVE s \in Seq(T)
<1>1. Len(s) \in Nat /\ s = [i \in 1..Len(s) |-> s[i]] /\ \A i \in 1..Len(s) : s[i] \in T
  BY ElementOfSeq, LenProperties
<1> QED BY <1>1, IsASeq

LEMMA RecordingsInitial == SessionRecordingsInit => RecInv
<1> SUFFICES ASSUME SessionRecordingsInit PROVE RecInv
  OBVIOUS
<1>1. /\ \A ip \in RecIPs : recSess[ip] = RecNone /\ recBuf[ip].sigs = <<>>
      /\ recSess = [ip \in RecIPs |-> RecNone] /\ DOMAIN recBuf = RecIPs
      /\ recTask = [w \in RecWorkers |-> [step |-> 0, ip |-> CHOOSE ip \in RecIPs : TRUE, sig |-> 0]]
      /\ recTimers = {} /\ recMade = 0 /\ recNow = 0
  BY DEF SessionRecordingsInit
<1>2. RecNone \in RecSessions /\ RecNone.start = -1
  BY DEF RecNone, RecSessions
<1>3. recTask \in [RecWorkers -> RecTasks] /\ \A w \in RecWorkers : recTask[w].sig = 0
  BY <1>1 DEF RecTasks
<1>4. /\ <<>> \in Seq(1..recMade) /\ ToSet(<<>>) = {}
  BY DEF ToSet
<1>5. \A ip \in RecIPs : ~recording(ip)
  BY <1>1, <1>2 DEF recording
<1>6. RecTyped
  <2>1. recSess \in [RecIPs -> RecSessions]
    BY <1>1, <1>2
  <2>2. \A ip \in RecIPs : recBuf[ip].sigs \in Seq(1..recMade)
    BY <1>1, <1>4
  <2>3. \A w \in RecWorkers : recTask[w].sig \in 0..recMade
    BY <1>1, <1>3
  <2> QED BY <1>1, <1>3, <2>1, <2>2, <2>3 DEF RecTyped
<1>7. RecTimersSound
  BY <1>1 DEF RecTimersSound
<1>8. RecSignalsOwned
  BY <1>1, <1>3, <1>4 DEF RecSignalsOwned
<1>9. RecNothingBetween
  BY <1>5 DEF RecNothingBetween
<1> QED BY <1>6, <1>7, <1>8, <1>9 DEF RecInv

\* A worker that receives a signal: a new number, and nothing it leaves behind.
LEMMA RecReceiveKeeps ==
  ASSUME RecInv, NEW w \in RecWorkers, NEW ip \in RecIPs, recReceive(w, ip)
  PROVE  RecInv'
<1>1. /\ recMade \in Nat /\ recTask \in [RecWorkers -> RecTasks] /\ recTask[w] \in RecTasks
      /\ recMade' = recMade + 1 /\ recTask[w].step = 0
      /\ UNCHANGED <<recWindow, recBuf, recSess, recTimers, recNow>>
  BY DEF recReceive, RecInv, RecTyped
<1>2. /\ recTask' \in [RecWorkers -> RecTasks]
      /\ recTask'[w] = [step |-> 1, ip |-> ip, sig |-> recMade + 1]
      /\ \A v \in RecWorkers \ {w} : recTask'[v] = recTask[v]
  <2>1. [step |-> 1, ip |-> ip, sig |-> recMade + 1] \in RecTasks
    BY <1>1 DEF RecTasks
  <2>2. recTask' = [recTask EXCEPT ![w] = [step |-> 1, ip |-> ip, sig |-> recMade + 1]]
    BY <1>1 DEF recReceive
  <2> QED BY <1>1, <2>1, <2>2
<1>3. \A i \in RecIPs : /\ recBuf[i].sigs \in Seq(1..recMade) /\ recBuf[i].sigs \in Seq(1..(recMade + 1))
                        /\ ToSet(recBuf[i].sigs) \subseteq 1..recMade
  <2> SUFFICES ASSUME NEW i \in RecIPs
               PROVE  /\ recBuf[i].sigs \in Seq(1..recMade) /\ recBuf[i].sigs \in Seq(1..(recMade + 1))
                      /\ ToSet(recBuf[i].sigs) \subseteq 1..recMade
    OBVIOUS
  <2>1. PICK s \in Seq(1..recMade) : s = recBuf[i].sigs
    BY DEF RecInv, RecTyped
  <2>2. 1..recMade \subseteq 1..(recMade + 1)
    BY <1>1
  <2>3. s \in Seq(1..(recMade + 1))
    BY <2>2, SeqWider
  <2>4. ToSet(s) \subseteq 1..recMade
    BY SeqHolds
  <2> QED BY <2>1, <2>3, <2>4
<1>4. \A v \in RecWorkers : recTask[v].sig \in 0..recMade
  BY DEF RecInv, RecTyped
<1>5. recTask[w].sig = 0
  BY <1>1 DEF RecTasks
<1>6. RecTyped'
  BY <1>1, <1>2, <1>3, <1>4 DEF RecInv, RecTyped
<1>7. RecTimersSound'
  BY <1>1 DEF RecInv, RecTimersSound, recording
<1>8. RecSignalsOwned'
  <2>1. recMade + 1 \notin 1..recMade /\ recMade + 1 \notin 0..recMade
    BY <1>1
  <2>2. \A v \in RecWorkers, i \in RecIPs :
          recTask'[v].sig \in ToSet(recBuf[i].sigs) => recTask'[v].ip = i
    BY <1>2, <1>3, <2>1 DEF RecInv, RecSignalsOwned
  <2>3. \A u, v \in RecWorkers :
          recTask'[u].sig = recTask'[v].sig /\ recTask'[v].sig # 0 => recTask'[u].ip = recTask'[v].ip
    BY <1>2, <1>4, <2>1 DEF RecInv, RecSignalsOwned
  <2> QED BY <1>1, <2>2, <2>3 DEF RecSignalsOwned
<1>9. RecNothingBetween'
  <2> SUFFICES ASSUME NEW i \in RecIPs, recording(i), Len(recSess[i].post) < RecPost,
                      NEW s \in ToSet(recBuf[i].sigs)
               PROVE  \/ s \in ToSet(recSess[i].pre) \cup ToSet(recSess[i].post)
                      \/ \E v \in RecWorkers : recTask'[v].sig = s
    BY <1>1 DEF RecNothingBetween, recording
  <2>1. s \in 1..recMade
    BY <1>3
  <2>2. s # 0
    BY <2>1
  <2> QED BY <1>2, <1>5, <2>2 DEF RecInv, RecNothingBetween
<1> QED BY <1>6, <1>7, <1>8, <1>9 DEF RecInv

LEMMA RolledHas ==
  ASSUME NEW S, NEW s \in Seq(S), NEW x \in S
  PROVE  /\ rolled(s, x) \in Seq(S)
         /\ \A y \in ToSet(rolled(s, x)) : y \in ToSet(s) \/ y = x
<1>1. CASE Len(s) = RecBuffer
  <2>1. s # <<>>
    BY <1>1, RecAssumption
  <2>2. PICK t : t = Tail(s)
    OBVIOUS
  <2>3. t \in Seq(S) /\ Len(t) = Len(s) - 1 /\ \A i \in 1..Len(t) : t[i] = s[i + 1]
    BY <2>1, <2>2, HeadTailProperties
  <2>4. rolled(s, x) = Append(t, x)
    BY <1>1, <2>2 DEF rolled
  <2>5. /\ Append(t, x) \in Seq(S) /\ Len(Append(t, x)) = Len(t) + 1 /\ Append(t, x)[Len(t) + 1] = x
        /\ \A i \in 1..Len(t) : Append(t, x)[i] = t[i]
    BY <2>3, AppendProperties
  <2>6. Len(t) \in Nat /\ Len(s) \in Nat /\ DOMAIN s = 1..Len(s) /\ DOMAIN Append(t, x) = 1..(Len(t) + 1)
    BY <2>3, <2>5, LenProperties
  <2>7. ASSUME NEW y \in ToSet(Append(t, x)) PROVE y \in ToSet(s) \/ y = x
    <3>1. PICK i \in 1..(Len(t) + 1) : y = Append(t, x)[i]
      BY <2>6 DEF ToSet
    <3>2. CASE i = Len(t) + 1
      BY <2>5, <3>1, <3>2
    <3>3. CASE i # Len(t) + 1
      <4>1. i \in 1..Len(t) /\ i + 1 \in DOMAIN s
        BY <2>3, <2>6, <3>3
      <4>2. y = s[i + 1]
        BY <2>3, <2>5, <3>1, <4>1
      <4> QED BY <4>1, <4>2 DEF ToSet
    <3> QED BY <3>2, <3>3
  <2> QED BY <2>4, <2>5, <2>7
<1>2. CASE Len(s) # RecBuffer
  <2>1. rolled(s, x) = Append(s, x)
    BY <1>2 DEF rolled
  <2>2. /\ Append(s, x) \in Seq(S) /\ Len(Append(s, x)) = Len(s) + 1 /\ Append(s, x)[Len(s) + 1] = x
        /\ \A i \in 1..Len(s) : Append(s, x)[i] = s[i]
    BY AppendProperties
  <2>3. Len(s) \in Nat /\ DOMAIN s = 1..Len(s) /\ DOMAIN Append(s, x) = 1..(Len(s) + 1)
    BY <2>2, LenProperties
  <2>4. ASSUME NEW y \in ToSet(Append(s, x)) PROVE y \in ToSet(s) \/ y = x
    <3>1. PICK i \in 1..(Len(s) + 1) : y = Append(s, x)[i]
      BY <2>3 DEF ToSet
    <3>2. CASE i = Len(s) + 1
      BY <2>2, <3>1, <3>2
    <3>3. CASE i # Len(s) + 1
      <4>1. i \in 1..Len(s)
        BY <2>3, <3>3
      <4> QED BY <2>2, <2>3, <3>1, <4>1 DEF ToSet
    <3> QED BY <3>2, <3>3
  <2> QED BY <2>1, <2>2, <2>4
<1> QED BY <1>1, <1>2

\* The first section: the signal goes into the buffer, and the worker still has it.
LEMMA PreKeeps ==
  ASSUME RecInv, NEW w \in RecWorkers, capturePreDetectionEvent(w)
  PROVE  RecInv'
<1>1. /\ recMade \in Nat /\ recTask \in [RecWorkers -> RecTasks] /\ recTask[w] \in RecTasks
      /\ DOMAIN recBuf = RecIPs
      /\ UNCHANGED <<recWindow, recSess, recTimers, recMade, recNow>>
  BY DEF capturePreDetectionEvent, RecInv, RecTyped
<1>2. recTask[w].step = 1 /\ recTask[w].ip \in RecIPs /\ recTask[w].sig \in Nat \ {0}
  <2>1. atStep(w, "pre")
    BY DEF capturePreDetectionEvent
  <2> QED BY <1>1, <2>1 DEF atStep, captureOrder, RecTasks
<1>3. PICK ip, x : ip = recTask[w].ip /\ x = recTask[w].sig
  OBVIOUS
<1>4. x \in 1..recMade
  BY <1>2, <1>3 DEF RecInv, RecTyped
<1>5. /\ recTask' \in [RecWorkers -> RecTasks]
      /\ \A v \in RecWorkers : recTask'[v].sig = recTask[v].sig /\ recTask'[v].ip = recTask[v].ip
  <2>1. recTask' = [recTask EXCEPT ![w] = [recTask[w] EXCEPT !.step = 2]]
    BY <1>2 DEF capturePreDetectionEvent, recAdvance
  <2>2. [recTask[w] EXCEPT !.step = 2] \in RecTasks
    BY <1>1, <1>2 DEF RecTasks
  <2>3. [recTask[w] EXCEPT !.step = 2].sig = recTask[w].sig /\ [recTask[w] EXCEPT !.step = 2].ip = recTask[w].ip
    BY <1>1 DEF RecTasks
  <2> QED BY <1>1, <2>1, <2>2, <2>3
<1>6. /\ DOMAIN recBuf' = RecIPs
      /\ \A i \in RecIPs : i # ip => recBuf'[i] = recBuf[i]
      /\ recBuf'[ip] = recBuf[ip] \/ recBuf'[ip].sigs = rolled(recBuf[ip].sigs, x)
  BY <1>1, <1>2, <1>3 DEF capturePreDetectionEvent
<1>7. \A i \in RecIPs :
        /\ recBuf'[i].sigs \in Seq(1..recMade)
        /\ \A y \in ToSet(recBuf'[i].sigs) : y \in ToSet(recBuf[i].sigs) \/ (i = ip /\ y = x)
  <2> SUFFICES ASSUME NEW i \in RecIPs
               PROVE  /\ recBuf'[i].sigs \in Seq(1..recMade)
                      /\ \A y \in ToSet(recBuf'[i].sigs) : y \in ToSet(recBuf[i].sigs) \/ (i = ip /\ y = x)
    OBVIOUS
  <2>1. PICK s \in Seq(1..recMade) : s = recBuf[i].sigs
    BY DEF RecInv, RecTyped
  <2>2. CASE recBuf'[i] = recBuf[i]
    BY <2>1, <2>2
  <2>3. CASE recBuf'[i] # recBuf[i]
    <3>1. i = ip /\ recBuf'[i].sigs = rolled(s, x)
      BY <1>6, <2>1, <2>3
    <3>2. rolled(s, x) \in Seq(1..recMade) /\ \A y \in ToSet(rolled(s, x)) : y \in ToSet(s) \/ y = x
      BY <1>4, RolledHas
    <3> QED BY <2>1, <3>1, <3>2
  <2> QED BY <2>2, <2>3
<1>8. RecTyped'
  BY <1>1, <1>5, <1>6, <1>7 DEF RecInv, RecTyped
<1>9. RecTimersSound'
  BY <1>1 DEF RecInv, RecTimersSound, recording
<1>10. RecSignalsOwned'
  <2>1. x # 0 /\ \A v \in RecWorkers : recTask[v].sig = x => recTask[v].ip = ip
    BY <1>2, <1>3 DEF RecInv, RecSignalsOwned
  <2>2. \A v \in RecWorkers, i \in RecIPs :
          recTask'[v].sig \in ToSet(recBuf'[i].sigs) => recTask'[v].ip = i
    <3> SUFFICES ASSUME NEW v \in RecWorkers, NEW i \in RecIPs,
                        recTask[v].sig \in ToSet(recBuf'[i].sigs)
                 PROVE  recTask[v].ip = i
      BY <1>5
    <3>1. CASE recTask[v].sig \in ToSet(recBuf[i].sigs)
      BY <3>1 DEF RecInv, RecSignalsOwned
    <3>2. CASE i = ip /\ recTask[v].sig = x
      BY <2>1, <3>2
    <3> QED BY <1>7, <3>1, <3>2
  <2>3. \A u, v \in RecWorkers :
          recTask'[u].sig = recTask'[v].sig /\ recTask'[v].sig # 0 => recTask'[u].ip = recTask'[v].ip
    BY <1>5 DEF RecInv, RecSignalsOwned
  <2> QED BY <2>2, <2>3 DEF RecSignalsOwned
<1>11. RecNothingBetween'
  <2> SUFFICES ASSUME NEW i \in RecIPs, recording(i), Len(recSess[i].post) < RecPost,
                      NEW s \in ToSet(recBuf'[i].sigs)
               PROVE  \/ s \in ToSet(recSess[i].pre) \cup ToSet(recSess[i].post)
                      \/ \E v \in RecWorkers : recTask'[v].sig = s
    BY <1>1 DEF RecNothingBetween, recording
  <2>1. CASE s \in ToSet(recBuf[i].sigs)
    BY <1>5, <2>1 DEF RecInv, RecNothingBetween
  <2>2. CASE s = x
    BY <1>3, <1>5, <2>2
  <2> QED BY <1>7, <2>1, <2>2
<1> QED BY <1>8, <1>9, <1>10, <1>11 DEF RecInv

\* The second section: the recording takes the signal, if it has room.
LEMMA PostKeeps ==
  ASSUME RecInv, NEW w \in RecWorkers, capturePostDetectionEvent(w)
  PROVE  RecInv'
<1>1. /\ recMade \in Nat /\ recTask \in [RecWorkers -> RecTasks] /\ recTask[w] \in RecTasks
      /\ recSess \in [RecIPs -> RecSessions]
      /\ UNCHANGED <<recWindow, recBuf, recTimers, recMade, recNow>>
  BY DEF capturePostDetectionEvent, RecInv, RecTyped
<1>2. recTask[w].step = 2 /\ recTask[w].ip \in RecIPs /\ recTask[w].sig \in Nat \ {0}
  <2>1. atStep(w, "post")
    BY DEF capturePostDetectionEvent
  <2> QED BY <1>1, <2>1 DEF atStep, captureOrder, RecTasks
<1>3. PICK ip \in RecIPs : ip = recTask[w].ip
  BY <1>2
<1>4. PICK x \in Nat : x = recTask[w].sig
  BY <1>2
<1>5. PICK o \in RecSessions : o = recSess[ip]
  BY <1>1
<1>6. /\ recTask' \in [RecWorkers -> RecTasks] /\ recTask'[w].sig = 0
      /\ \A v \in RecWorkers \ {w} : recTask'[v] = recTask[v]
  <2>1. recTask' = [recTask EXCEPT ![w] = [recTask[w] EXCEPT !.step = 0, !.sig = 0]]
    BY <1>2 DEF capturePostDetectionEvent, recAdvance
  <2>2. [recTask[w] EXCEPT !.step = 0, !.sig = 0] \in RecTasks
        /\ [recTask[w] EXCEPT !.step = 0, !.sig = 0].sig = 0
    BY <1>1, <1>2 DEF RecTasks
  <2> QED BY <1>1, <2>1, <2>2
<1>7. PICK n \in RecSessions :
        /\ recSess' = [recSess EXCEPT ![ip] = n] /\ n.start = o.start /\ n.pre = o.pre
        /\ \/ n.post = o.post /\ ~(o.start >= 0 /\ Len(o.post) < RecPost)
           \/ n.post = Append(o.post, x) /\ Len(o.post) < RecPost
  <2>1. CASE recording(ip) /\ Len(recSess[ip].post) < RecPost
    <3>1. PICK n : n = [o EXCEPT !.post = Append(o.post, x)]
      OBVIOUS
    <3>2. Append(o.post, x) \in Seq(Nat)
      BY AppendProperties DEF RecSessions
    <3>3. n \in RecSessions /\ n.start = o.start /\ n.pre = o.pre /\ n.post = Append(o.post, x)
      BY <3>1, <3>2 DEF RecSessions
    <3>4. recSess' = [recSess EXCEPT ![ip] = n]
      BY <1>1, <1>3, <1>4, <1>5, <2>1, <3>1 DEF capturePostDetectionEvent
    <3> QED BY <1>5, <2>1, <3>3, <3>4
  <2>2. CASE ~(recording(ip) /\ Len(recSess[ip].post) < RecPost)
    <3>1. recSess' = recSess
      BY <1>3, <2>2 DEF capturePostDetectionEvent
    <3>2. recSess' = [recSess EXCEPT ![ip] = o]
      BY <1>1, <1>5, <3>1
    <3> QED BY <1>5, <2>2, <3>2 DEF recording
  <2> QED BY <2>1, <2>2
<1>8. /\ recSess' \in [RecIPs -> RecSessions] /\ recSess'[ip] = n
      /\ \A i \in RecIPs \ {ip} : recSess'[i] = recSess[i]
  BY <1>1, <1>7
<1>9. \A i \in RecIPs : recSess'[i].start = recSess[i].start /\ recSess'[i].pre = recSess[i].pre
  BY <1>5, <1>7, <1>8
<1>10. RecTyped'
  <2>1. \A v \in RecWorkers : recTask'[v].sig \in 0..recMade
    BY <1>1, <1>6 DEF RecInv, RecTyped
  <2> QED BY <1>1, <1>6, <1>8, <2>1 DEF RecInv, RecTyped
<1>11. RecTimersSound'
  BY <1>1, <1>9 DEF RecInv, RecTimersSound, recording
<1>12. \A i \in RecIPs : 0 \notin ToSet(recBuf[i].sigs)
  <2> SUFFICES ASSUME NEW i \in RecIPs PROVE 0 \notin ToSet(recBuf[i].sigs)
    OBVIOUS
  <2>1. PICK s \in Seq(1..recMade) : s = recBuf[i].sigs
    BY DEF RecInv, RecTyped
  <2>2. ToSet(s) \subseteq 1..recMade
    BY SeqHolds
  <2> QED BY <2>1, <2>2
<1>13. RecSignalsOwned'
  <2>1. \A v \in RecWorkers, i \in RecIPs :
          recTask'[v].sig \in ToSet(recBuf[i].sigs) => recTask'[v].ip = i
    BY <1>6, <1>12 DEF RecInv, RecSignalsOwned
  <2>2. \A u, v \in RecWorkers :
          recTask'[u].sig = recTask'[v].sig /\ recTask'[v].sig # 0 => recTask'[u].ip = recTask'[v].ip
    BY <1>6 DEF RecInv, RecSignalsOwned
  <2> QED BY <1>1, <2>1, <2>2 DEF RecSignalsOwned
<1>14. RecNothingBetween'
  <2> SUFFICES ASSUME NEW i \in RecIPs, recSess'[i].start >= 0, Len(recSess'[i].post) < RecPost,
                      NEW s \in ToSet(recBuf[i].sigs)
               PROVE  \/ s \in ToSet(recSess'[i].pre) \cup ToSet(recSess'[i].post)
                      \/ \E v \in RecWorkers : recTask'[v].sig = s
    BY <1>1 DEF RecNothingBetween, recording
  <2>1. CASE i # ip
    <3>1. recSess'[i] = recSess[i] /\ recording(i)
      BY <1>8, <2>1 DEF recording
    <3>2. recTask[w].sig # s
      BY <1>3, <2>1 DEF RecInv, RecSignalsOwned
    <3> QED BY <1>6, <3>1, <3>2 DEF RecInv, RecNothingBetween
  <2>2. CASE i = ip
    <3>1. n.post = Append(o.post, x) /\ Len(o.post) < RecPost /\ o.start >= 0
      BY <1>7, <1>8, <2>2
    <3>2. o.post \in Seq(Nat) /\ Len(o.post) \in Nat
      BY DEF RecSessions
    <3>3. x \in ToSet(n.post) /\ \A y \in ToSet(o.post) : y \in ToSet(n.post)
      <4>1. PICK p \in Seq(Nat) : p = o.post
        BY <3>2
      <4>2. /\ Len(Append(p, x)) = Len(p) + 1 /\ Append(p, x)[Len(p) + 1] = x
            /\ \A k \in 1..Len(p) : Append(p, x)[k] = p[k]
            /\ Append(p, x) \in Seq(Nat)
        BY AppendProperties
      <4>3. /\ DOMAIN p = 1..Len(p) /\ DOMAIN Append(p, x) = 1..(Len(p) + 1) /\ Len(p) \in Nat
        BY <4>2, LenProperties
      <4>4. x \in ToSet(Append(p, x)) /\ \A y \in ToSet(p) : y \in ToSet(Append(p, x))
        BY <4>2, <4>3 DEF ToSet
      <4> QED BY <3>1, <4>1, <4>4
    <3>4. \/ s \in ToSet(o.pre) \cup ToSet(o.post)
          \/ \E v \in RecWorkers : recTask[v].sig = s
      <4>1. recording(ip) /\ Len(recSess[ip].post) < RecPost
        BY <1>5, <3>1 DEF recording
      <4> QED BY <1>5, <2>2, <4>1 DEF RecInv, RecNothingBetween
    <3> QED BY <1>4, <1>6, <1>7, <1>8, <2>2, <3>3, <3>4
  <2> QED BY <2>1, <2>2
<1> QED BY <1>10, <1>11, <1>13, <1>14 DEF RecInv

\* A recording starts with the buffer and a timer of its own.
LEMMA StartKeeps ==
  ASSUME RecInv, NEW ip \in RecIPs, startSessionRecording(ip)
  PROVE  RecInv'
<1>1. /\ recSess \in [RecIPs -> RecSessions] /\ recNow \in Nat /\ recMade \in Nat
      /\ recBuf[ip].sigs \in Seq(1..recMade) /\ ~recording(ip)
      /\ recTimers' = recTimers \cup {[ip |-> ip, at |-> recNow + RecLength]}
      /\ UNCHANGED <<recWindow, recBuf, recTask, recMade, recNow>>
  BY DEF startSessionRecording, startable, RecInv, RecTyped
<1>2. PICK n : n = [start |-> recNow, pre |-> recBuf[ip].sigs, post |-> <<>>]
  OBVIOUS
<1>3. n \in RecSessions /\ n.start = recNow /\ n.pre = recBuf[ip].sigs
  <2>1. recBuf[ip].sigs \in Seq(Nat)
    <3>1. PICK s \in Seq(1..recMade) : s = recBuf[ip].sigs
      BY <1>1
    <3>2. 1..recMade \subseteq Nat
      OBVIOUS
    <3>3. s \in Seq(Nat)
      BY <3>2, SeqWider
    <3> QED BY <3>1, <3>3
  <2> QED BY <1>1, <1>2, <2>1 DEF RecSessions
<1>4. /\ recSess' \in [RecIPs -> RecSessions] /\ recSess'[ip] = n
      /\ \A i \in RecIPs \ {ip} : recSess'[i] = recSess[i]
  BY <1>1, <1>2, <1>3 DEF startSessionRecording
<1>5. RecTyped'
  BY <1>1, <1>4 DEF RecInv, RecTyped
<1>6. RecTimersSound'
  <2> SUFFICES ASSUME NEW t \in recTimers'
               PROVE  /\ t \in [ip : RecIPs, at : Nat] /\ recSess'[t.ip].start >= 0
                      /\ t.at = recSess'[t.ip].start + RecLength
    BY DEF RecTimersSound, recording
  <2>1. CASE t \in recTimers
    <3>1. /\ t \in [ip : RecIPs, at : Nat] /\ recording(t.ip)
          /\ t.at = recSess[t.ip].start + RecLength
      BY <2>1 DEF RecInv, RecTimersSound
    <3> QED BY <1>1, <1>4, <3>1 DEF recording
  <2>2. CASE t = [ip |-> ip, at |-> recNow + RecLength]
    <3>1. recNow + RecLength \in Nat
      BY <1>1, RecAssumption
    <3> QED BY <1>1, <1>3, <1>4, <2>2, <3>1
  <2> QED BY <1>1, <2>1, <2>2
<1>7. RecSignalsOwned'
  BY <1>1 DEF RecInv, RecSignalsOwned
<1>8. RecNothingBetween'
  <2> SUFFICES ASSUME NEW i \in RecIPs, recSess'[i].start >= 0, Len(recSess'[i].post) < RecPost,
                      NEW s \in ToSet(recBuf[i].sigs)
               PROVE  \/ s \in ToSet(recSess'[i].pre) \cup ToSet(recSess'[i].post)
                      \/ \E v \in RecWorkers : recTask[v].sig = s
    BY <1>1 DEF RecNothingBetween, recording
  <2>1. CASE i = ip
    BY <1>3, <1>4, <2>1
  <2>2. CASE i # ip
    <3>1. recSess'[i] = recSess[i] /\ recording(i)
      BY <1>4, <2>2 DEF recording
    <3> QED BY <3>1 DEF RecInv, RecNothingBetween
  <2> QED BY <2>1, <2>2
<1> QED BY <1>5, <1>6, <1>7, <1>8 DEF RecInv

\* The timer that ends a recording was its only one.
LEMMA FinalizeKeeps ==
  ASSUME RecInv, NEW t \in recTimers, finalizeRecording(t)
  PROVE  RecInv'
<1>1. /\ recSess \in [RecIPs -> RecSessions] /\ t.ip \in RecIPs
      /\ recTimers' = recTimers \ {t} /\ recSess' = [recSess EXCEPT ![t.ip] = RecNone]
      /\ UNCHANGED <<recWindow, recBuf, recTask, recMade, recNow>>
  BY DEF finalizeRecording, RecInv, RecTyped, RecTimersSound
<1>2. RecNone \in RecSessions /\ RecNone.start = -1
  BY DEF RecNone, RecSessions
<1>3. /\ recSess' \in [RecIPs -> RecSessions] /\ recSess'[t.ip].start = -1
      /\ \A i \in RecIPs \ {t.ip} : recSess'[i] = recSess[i]
  BY <1>1, <1>2
<1>4. RecTyped'
  BY <1>1, <1>3 DEF RecInv, RecTyped
<1>5. \A i \in RecIPs : recSess'[i].start >= 0 => i # t.ip /\ recSess'[i] = recSess[i]
  BY <1>3
<1>6. RecNothingBetween'
  <2> SUFFICES ASSUME NEW i \in RecIPs, recSess'[i].start >= 0, Len(recSess'[i].post) < RecPost,
                      NEW s \in ToSet(recBuf[i].sigs)
               PROVE  \/ s \in ToSet(recSess'[i].pre) \cup ToSet(recSess'[i].post)
                      \/ \E v \in RecWorkers : recTask[v].sig = s
    BY <1>1 DEF RecNothingBetween, recording
  <2>1. recSess'[i] = recSess[i] /\ recording(i)
    BY <1>5 DEF recording
  <2> QED BY <2>1 DEF RecInv, RecNothingBetween
<1>7. RecSignalsOwned'
  BY <1>1 DEF RecInv, RecSignalsOwned
<1>8. RecTimersSound'
  <2> SUFFICES ASSUME NEW u \in recTimers, u # t
               PROVE  /\ u \in [ip : RecIPs, at : Nat] /\ recSess'[u.ip].start >= 0
                      /\ u.at = recSess'[u.ip].start + RecLength
    BY <1>1 DEF RecTimersSound, recording
  <2>1. /\ u \in [ip : RecIPs, at : Nat] /\ t \in [ip : RecIPs, at : Nat] /\ recording(u.ip)
        /\ u.at = recSess[u.ip].start + RecLength /\ t.at = recSess[t.ip].start + RecLength
    BY DEF RecInv, RecTimersSound
  <2>2. u.ip # t.ip
    BY <2>1
  <2> QED BY <1>3, <2>1, <2>2 DEF recording
<1> QED BY <1>4, <1>6, <1>7, <1>8 DEF RecInv

\* An idle buffer that goes owes a recording nothing.
LEMMA DropKeeps ==
  ASSUME RecInv, dropBuffers
  PROVE  RecInv'
<1>1. /\ UNCHANGED <<recWindow, recSess, recTimers, recTask, recMade, recNow>>
      /\ DOMAIN recBuf' = RecIPs
      /\ \A i \in RecIPs : recBuf'[i] = recBuf[i] \/ recBuf'[i].sigs = <<>>
  BY DEF dropBuffers
<1>2. \A i \in RecIPs : /\ recBuf'[i].sigs \in Seq(1..recMade)
                        /\ recBuf'[i] = recBuf[i] \/ ToSet(recBuf'[i].sigs) = {}
  <2>1. <<>> \in Seq(1..recMade) /\ ToSet(<<>>) = {}
    BY DEF ToSet
  <2> QED BY <1>1, <2>1 DEF RecInv, RecTyped
<1>3. RecTyped'
  BY <1>1, <1>2 DEF RecInv, RecTyped
<1>4. RecTimersSound'
  BY <1>1 DEF RecInv, RecTimersSound, recording
<1>5. RecSignalsOwned'
  BY <1>1, <1>2 DEF RecInv, RecSignalsOwned
<1>6. RecNothingBetween'
  <2> SUFFICES ASSUME NEW i \in RecIPs, recording(i), Len(recSess[i].post) < RecPost,
                      NEW s \in ToSet(recBuf'[i].sigs)
               PROVE  \/ s \in ToSet(recSess[i].pre) \cup ToSet(recSess[i].post)
                      \/ \E v \in RecWorkers : recTask[v].sig = s
    BY <1>1 DEF RecNothingBetween, recording
  <2>1. s \in ToSet(recBuf[i].sigs)
    BY <1>2
  <2> QED BY <2>1 DEF RecInv, RecNothingBetween
<1> QED BY <1>3, <1>4, <1>5, <1>6 DEF RecInv

LEMMA RecordingsKeep == RecInv /\ [SessionRecordingsNext]_recVars => RecInv'
<1> SUFFICES ASSUME RecInv, [SessionRecordingsNext]_recVars PROVE RecInv'
  OBVIOUS
<1>1. CASE \E w \in RecWorkers, ip \in RecIPs : recReceive(w, ip)
  BY <1>1, RecReceiveKeeps
<1>2. CASE \E w \in RecWorkers : capturePreDetectionEvent(w) \/ capturePostDetectionEvent(w)
  BY <1>2, PreKeeps, PostKeeps
<1>3. CASE \E ip \in RecIPs : startSessionRecording(ip)
  BY <1>3, StartKeeps
<1>4. CASE \E t \in recTimers : finalizeRecording(t)
  BY <1>4, FinalizeKeeps
<1>5. CASE dropBuffers
  BY <1>5, DropKeeps
<1>6. CASE \/ \E ip \in RecIPs : recLabel(ip) \/ recUnlabel(ip)
           \/ \E r \in recEnding : persistRecording(r)
           \/ recTick \/ UNCHANGED recVars
  <2>1. UNCHANGED <<recBuf, recSess, recTimers, recTask, recMade>> /\ recNow' \in Nat
    BY <1>6 DEF recLabel, recUnlabel, persistRecording, recTick, recVars, RecInv, RecTyped
  <2> QED BY <2>1 DEF RecInv, RecTyped, RecTimersSound, RecSignalsOwned, RecNothingBetween, recording
<1> QED BY <1>1, <1>2, <1>3, <1>4, <1>5, <1>6
     DEF SessionRecordingsNext, recordDetection, StartRecordingForIP

\* Only a timer ends a recording, and it is the recording's own.
LEMMA EndsInTime ==
  ASSUME RecInv, [SessionRecordingsNext]_recVars, NEW ip \in RecIPs,
         recording(ip), recSess'[ip].start # recSess[ip].start
  PROVE  recNow >= recSess[ip].start + RecLength
<1>1. recSess \in [RecIPs -> RecSessions] /\ recSess[ip] \in RecSessions
  BY DEF RecInv, RecTyped
<1>2. CASE \E w \in RecWorkers : capturePostDetectionEvent(w)
  <2>1. PICK w \in RecWorkers : capturePostDetectionEvent(w)
    BY <1>2
  <2>2. PICK a : a = recTask[w].ip
    OBVIOUS
  <2>3. recSess' = recSess \/ \E p : recSess' = [recSess EXCEPT ![a] = [recSess[a] EXCEPT !.post = p]]
    BY <1>1, <2>1, <2>2 DEF capturePostDetectionEvent
  <2>4. recSess'[ip].start = recSess[ip].start
    BY <1>1, <2>3 DEF RecSessions
  <2> QED BY <2>4
<1>3. CASE \E a \in RecIPs : startSessionRecording(a)
  BY <1>1, <1>3 DEF startSessionRecording, startable
<1>4. CASE \E t \in recTimers : finalizeRecording(t)
  <2>1. PICK t \in recTimers : finalizeRecording(t)
    BY <1>4
  <2>2. t.ip = ip
    BY <1>1, <2>1 DEF finalizeRecording
  <2> QED BY <2>1, <2>2 DEF finalizeRecording, RecInv, RecTimersSound
<1>5. CASE recSess' = recSess
  BY <1>5
<1> QED
  BY <1>2, <1>3, <1>4, <1>5
  DEF SessionRecordingsNext, recReceive, capturePreDetectionEvent, recLabel, recUnlabel, recordDetection,
      StartRecordingForIP, persistRecording, dropBuffers, recTick, recVars

\* For any workers, addresses and sizes: a recording has every signal from its
\* buffer on, whether it came before or while it started, unless it is full,
\* and only its own timer ends it (processSignal, startSessionRecording,
\* finalizeRecording).
THEOREM RecordingsAreWhole == SessionRecordingsSpec => RecordingsWhole
<1>1. SessionRecordingsInit => RecInv
  BY RecordingsInitial
<1>2. RecInv /\ [SessionRecordingsNext]_recVars => RecInv'
  BY RecordingsKeep
<1>3. RecInv => RecNothingBetween
  BY DEF RecInv
<1>4. RecInv /\ [SessionRecordingsNext]_recVars =>
        [\A ip \in RecIPs :
           recording(ip) /\ recSess'[ip].start # recSess[ip].start
             => recNow >= recSess[ip].start + RecLength]_recVars
  BY EndsInTime
<1> QED
  BY <1>1, <1>2, <1>3, <1>4, PTL DEF SessionRecordingsSpec, RecordingsWhole, RecFullLength

-----------------------------------------------------------------------------
(***************************************************************************)
(* The crawlers' verdicts: a run of failures is counted on for as long as  *)
(* its entry is in the cache, and an entry leaves for one of its own kind. *)
(***************************************************************************)

\* What is kept of the first i members of s.
keptSteps(s, ips, kept) ==
  kept = [i \in 0..Len(s) |->
            IF i = 0 THEN <<>> ELSE IF s[i] \in ips THEN kept[i - 1] ELSE Append(kept[i - 1], s[i])]

LEMMA KeptExists ==
  ASSUME NEW s, Len(s) \in Nat, NEW ips PROVE \E kept : keptSteps(s, ips, kept)
<1> DEFINE built(m) ==
      \E f : f = [i \in 0..m |->
                    IF i = 0 THEN <<>> ELSE IF s[i] \in ips THEN f[i - 1] ELSE Append(f[i - 1], s[i])]
<1> DEFINE Bad == {m \in Nat : ~built(m)}
<1>1. Bad = {}
  <2> SUFFICES ASSUME Bad # {} PROVE FALSE
    OBVIOUS
  <2>1. PICK m \in Bad : \A e \in Bad : ~ (<<e, m>> \in OpToRel(<, Nat))
    BY WFMin, NatLessThanWellFounded
  <2>2. CASE m = 0
    <3>1. PICK f : f = [i \in 0..0 |-> <<>>]
      OBVIOUS
    <3>2. f = [i \in 0..0 |-> IF i = 0 THEN <<>> ELSE IF s[i] \in ips THEN f[i - 1] ELSE Append(f[i - 1], s[i])]
      BY <3>1
    <3> QED BY <2>2, <3>2
  <2>3. CASE m # 0
    <3>1. m - 1 \in Nat /\ m \in Nat /\ m - 1 < m
      BY <2>3
    <3>2. built(m - 1)
      <4>1. <<m - 1, m>> \in OpToRel(<, Nat)
        BY <3>1 DEF OpToRel
      <4> QED BY <2>1, <3>1, <4>1
    <3>3. PICK g : g = [i \in 0..(m - 1) |->
                          IF i = 0 THEN <<>> ELSE IF s[i] \in ips THEN g[i - 1] ELSE Append(g[i - 1], s[i])]
      BY <3>2
    <3>4. PICK f : f = [i \in 0..m |-> IF i < m THEN g[i]
                                       ELSE IF s[m] \in ips THEN g[m - 1] ELSE Append(g[m - 1], s[m])]
      OBVIOUS
    <3>5. \A i \in 0..m :
            f[i] = IF i = 0 THEN <<>> ELSE IF s[i] \in ips THEN f[i - 1] ELSE Append(f[i - 1], s[i])
      <4> SUFFICES ASSUME NEW i \in 0..m
                   PROVE  f[i] = IF i = 0 THEN <<>> ELSE IF s[i] \in ips THEN f[i - 1] ELSE Append(f[i - 1], s[i])
        OBVIOUS
      <4>1. CASE i = m
        <5>1. f[i] = IF s[m] \in ips THEN g[m - 1] ELSE Append(g[m - 1], s[m])
          BY <3>1, <3>4, <4>1
        <5>2. f[i - 1] = g[m - 1]
          BY <3>1, <3>4, <4>1
        <5> QED BY <2>3, <4>1, <5>1, <5>2
      <4>2. CASE i # m
        <5>1. i \in 0..(m - 1) /\ i < m /\ f[i] = g[i] /\ (i # 0 => i - 1 \in 0..m /\ i - 1 < m /\ f[i - 1] = g[i - 1])
          BY <3>1, <3>4, <4>2
        <5>2. g[i] = IF i = 0 THEN <<>> ELSE IF s[i] \in ips THEN g[i - 1] ELSE Append(g[i - 1], s[i])
          BY <3>3, <5>1
        <5> QED BY <5>1, <5>2
      <4> QED BY <4>1, <4>2
    <3>6. f = [i \in 0..m |->
                 IF i = 0 THEN <<>> ELSE IF s[i] \in ips THEN f[i - 1] ELSE Append(f[i - 1], s[i])]
      BY <3>4, <3>5
    <3> QED BY <3>6
  <2> QED BY <2>2, <2>3
<1>2. built(Len(s))
  BY <1>1
<1> QED BY <1>2 DEF keptSteps

\* The members left are those not taken out, and taking one out makes it shorter.
LEMMA WithoutHas ==
  ASSUME NEW S, NEW s \in Seq(S), NEW ips, NEW r, r = without(s, ips)
  PROVE  /\ r \in Seq(S) /\ Len(r) <= Len(s)
         /\ \A x : x \in ToSet(r) <=> x \in ToSet(s) /\ x \notin ips
         /\ \A x \in ips : x \in ToSet(s) => Len(r) < Len(s)
<1>1. PICK n \in Nat : n = Len(s)
  BY LenProperties
<1>2. PICK kept : keptSteps(s, ips, kept) /\ r = kept[n]
  <2>1. PICK g : keptSteps(s, ips, g)
    BY <1>1, KeptExists
  <2> DEFINE F == CHOOSE kept : kept = [i \in 0..Len(s) |->
        IF i = 0 THEN <<>> ELSE IF s[i] \in ips THEN kept[i - 1] ELSE Append(kept[i - 1], s[i])]
  <2>2. F = [i \in 0..Len(s) |->
        IF i = 0 THEN <<>> ELSE IF s[i] \in ips THEN F[i - 1] ELSE Append(F[i - 1], s[i])]
    BY <2>1 DEF keptSteps
  <2>3. r = F[Len(s)]
    BY DEF without
  <2> HIDE DEF F
  <2> QED BY <1>1, <2>2, <2>3 DEF keptSteps
<1>3. /\ kept[0] = <<>>
      /\ \A i \in 1..n : kept[i] = IF s[i] \in ips THEN kept[i - 1] ELSE Append(kept[i - 1], s[i])
  <2>1. \A i \in 0..n : kept[i] = IF i = 0 THEN <<>> ELSE IF s[i] \in ips THEN kept[i - 1] ELSE Append(kept[i - 1], s[i])
    BY <1>1, <1>2 DEF keptSteps
  <2>2. 0 \in 0..n /\ \A i \in 1..n : i \in 0..n /\ i # 0
    OBVIOUS
  <2> QED BY <2>1, <2>2
<1>4. DOMAIN s = 1..n /\ \A i \in 1..n : s[i] \in S
  BY <1>1, LenProperties, ElementOfSeq
<1> DEFINE good(m) == /\ kept[m] \in Seq(S) /\ Len(kept[m]) <= m
                      /\ \A x : x \in ToSet(kept[m]) <=> x \notin ips /\ \E i \in 1..m : s[i] = x
                      /\ (\E i \in 1..m : s[i] \in ips) => Len(kept[m]) < m
<1> DEFINE Bad == {m \in 0..n : ~good(m)}
<1>5. good(0)
  BY <1>3 DEF ToSet
<1>6. ASSUME NEW m \in 1..n, good(m - 1) PROVE good(m)
  <2>1. PICK k \in Seq(S) : k = kept[m - 1]
    BY <1>6
  <2>2. PICK l \in Nat : l = Len(k)
    BY LenProperties
  <2>3. /\ l <= m - 1 /\ (\E i \in 1..(m - 1) : s[i] \in ips) => l < m - 1
        /\ \A x : x \in ToSet(k) <=> x \notin ips /\ \E i \in 1..(m - 1) : s[i] = x
    BY <1>6, <2>1, <2>2
  <2>4. 1..m = 1..(m - 1) \cup {m}
    OBVIOUS
  <2>7. m \in Nat /\ l <= m - 1
    <3>1. m \in Nat
      OBVIOUS
    <3>2. l <= m - 1
      BY <1>6, <2>1, <2>2
    <3> QED BY <3>1, <3>2
  <2>8. l < m /\ l + 1 <= m
    BY <2>7
  <2>5. CASE s[m] \in ips
    <3>1. kept[m] = k
      BY <1>3, <2>1, <2>5
    <3>2. l < m
      BY <2>8
    <3>3. \A x : x \in ToSet(k) <=> x \notin ips /\ \E i \in 1..m : s[i] = x
      BY <2>3, <2>4, <2>5
    <3> QED BY <2>2, <3>1, <3>2, <3>3
  <2>6. CASE s[m] \notin ips
    <3>1. PICK a : a = Append(k, s[m])
      OBVIOUS
    <3>2. kept[m] = a
      BY <1>3, <2>1, <2>6, <3>1
    <3>3. /\ a \in Seq(S) /\ Len(a) = l + 1 /\ a[l + 1] = s[m]
          /\ \A i \in 1..l : a[i] = k[i]
      BY <1>4, <2>2, <3>1, AppendProperties
    <3>4. DOMAIN k = 1..l /\ DOMAIN a = 1..(l + 1) /\ 1..(l + 1) = 1..l \cup {l + 1}
      BY <2>2, <3>3, LenProperties
    <3>5. \A x : x \in ToSet(a) <=> x \in ToSet(k) \/ x = s[m]
      BY <3>3, <3>4 DEF ToSet
    <3>6. \A x : x \in ToSet(a) <=> x \notin ips /\ \E i \in 1..m : s[i] = x
      BY <2>3, <2>4, <2>6, <3>5
    <3>7. (\E i \in 1..m : s[i] \in ips) => l + 1 < m
      <4> SUFFICES ASSUME NEW i \in 1..m, s[i] \in ips PROVE l + 1 < m
        OBVIOUS
      <4>1. i \in 1..(m - 1)
        BY <2>4, <2>6
      <4>2. (\E j \in 1..(m - 1) : s[j] \in ips) => l < m - 1
        BY <1>6, <2>1, <2>2
      <4>3. l < m - 1
        BY <4>1, <4>2
      <4> QED BY <2>7, <4>3
    <3> QED BY <2>8, <3>2, <3>3, <3>6, <3>7
  <2> QED BY <2>5, <2>6
<1> HIDE DEF good
<1>7. Bad = {}
  <2> SUFFICES ASSUME Bad # {} PROVE FALSE
    OBVIOUS
  <2>0. Bad \subseteq Nat
    OBVIOUS
  <2>1. PICK m \in Bad : \A e \in Bad : ~ (<<e, m>> \in OpToRel(<, Nat))
    BY <2>0, WFMin, NatLessThanWellFounded
  <2>6. m # 0
    BY <1>5, <2>1
  <2>7. m \in 0..n
    BY <2>1
  <2>2. m \in 1..n /\ m - 1 \in 0..n
    <3> HIDE DEF Bad
    <3> QED BY <2>6, <2>7
  <2>3. m - 1 \notin Bad
    <3>1. <<m - 1, m>> \in OpToRel(<, Nat)
      BY <2>2 DEF OpToRel
    <3> QED BY <2>1, <3>1
  <2>4. good(m - 1)
    BY <2>2, <2>3
  <2>5. good(m)
    BY <1>6, <2>2, <2>4
  <2> QED BY <2>1, <2>5
<1>8. good(n)
  BY <1>1, <1>7
<1> HIDE DEF Bad
<1>9. \A x : x \in ToSet(s) <=> \E i \in 1..n : s[i] = x
  BY <1>4 DEF ToSet
<1> QED BY <1>1, <1>2, <1>8, <1>9 DEF good

-----------------------------------------------------------------------------
BvTyped ==
  /\ bvCache \in [BvIPs -> [v : {"none", "ok", "bad", "transient"}, at : Nat, run : Nat]]
  /\ bvPool \in [{"ok", "other"} -> Seq(BvIPs)]
  /\ bvQueue \in Seq(BvIPs) /\ bvQueued \in SUBSET BvIPs
  /\ bvLook \in [BvLookers -> {BvIdle} \cup [ip : BvIPs, at : Nat]]
  /\ bvSince \in [BvIPs -> {-1} \cup Nat] /\ bvGranted \in [BvIPs -> {-1} \cup Nat]
  /\ bvClosed \in BOOLEAN /\ bvRun \in [BvIPs -> Nat] /\ bvNow \in Nat

\* A verified entry is in the verified pool and in no other, and the pools keep their bound.
BvPools ==
  /\ Len(bvPool["ok"]) <= BvMaxCache /\ Len(bvPool["other"]) <= BvMaxCache
  /\ \A j \in BvIPs : /\ j \in ToSet(bvPool["other"]) => bvCache[j].v # "ok"
                      /\ bvCache[j].v = "ok" => j \in ToSet(bvPool["ok"])

\* The run an entry counts is the one that happened.
BvRuns == \A j \in BvIPs : bvRun[j] = IF bvCache[j].v = "transient" THEN bvCache[j].run ELSE 0

\* A job is in the queue once, or with one worker.
BvJobs ==
  ~bvClosed =>
    /\ \A j \in BvIPs : j \in bvQueued <=> j \in ToSet(bvQueue) \/ \E w \in BvWorkers : bvLook[w].ip = j
    /\ \A m, n \in 1..Len(bvQueue) : bvQueue[m] = bvQueue[n] => m = n
    /\ \A w \in BvWorkers : /\ bvLook[w].ip \notin ToSet(bvQueue)
                            /\ \A u \in BvWorkers : bvLook[u].ip = bvLook[w].ip => u = w \/ bvLook[w] = BvIdle

\* A window is noted until it and its cooldown are over.
BvWindows ==
  \A j \in BvIPs :
    /\ bvSince[j] >= 0 => bvGranted[j] = bvSince[j]
    /\ ~bvClosed /\ bvSince[j] < 0 /\ bvGranted[j] >= 0 => bvNow - bvGranted[j] > BvWindow + BvCooldown

BotVerifyInv == BvTyped /\ BvPools /\ BvRuns /\ BvJobs /\ BvWindows

LEMMA IdleAsksForNone == \A j \in BvIPs : j # BvIdle.ip
<1>1. "" \notin BvIPs
  BY BvAssumption, Zenon
<1>2. BvIdle.ip = ""
  BY Zenon DEF BvIdle
<1> QED BY <1>1, <1>2, Zenon

\* What storing a verdict on ip does to the cache, and whom it may cost an entry.
BvStored(ip, v, at, gone) ==
  /\ bvCache' = [j \in BvIPs |-> IF j = ip THEN [v |-> v, at |-> at, run |-> IF v = "transient" THEN nextRun(ip) ELSE 0]
                                 ELSE IF j \in gone THEN BvNone ELSE bvCache[j]]
  /\ bvRun' = [j \in BvIPs |-> IF j = ip THEN IF v = "transient" THEN bvRun[j] + 1 ELSE 0
                               ELSE IF j \in gone THEN 0 ELSE bvRun[j]]
  /\ v # "ok" => \A j \in gone : bvCache[j].v # "ok"
  /\ v = "ok" /\ gone # {} => bvCache[ip].v # "ok"

\* An entry leaves for one of its own kind, and only when the pool is full without the old one.
LEMMA BvStoreKeeps ==
  ASSUME BvTyped, BvPools, NEW ip \in BvIPs, NEW v \in {"ok", "bad", "transient"}, NEW at \in Nat,
         storeLocked(ip, v, at)
  PROVE  /\ bvPool' \in [{"ok", "other"} -> Seq(BvIPs)] /\ BvPools'
         /\ \E gone \in SUBSET BvIPs : BvStored(ip, v, at, gone)
<1>0. BvMaxCache \in Nat /\ BvMaxCache > 0
  <2>1. BvMaxCache \in Nat \ {0}
    BY BvAssumption, Zenon
  <2> QED BY <2>1
<1>1. PICK p \in {"ok", "other"}, q \in {"ok", "other"} : p = poolOf(v) /\ q # p /\ (p = "ok" <=> v = "ok")
  BY DEF poolOf
<1>2. PICK P \in Seq(BvIPs), Q \in Seq(BvIPs) : P = bvPool[p] /\ Q = bvPool[q]
  BY DEF BvTyped
<1>3. Len(P) <= BvMaxCache /\ Len(Q) <= BvMaxCache
  BY <1>1, <1>2 DEF BvPools
<1>4. PICK bare : bare = bvWithout(bvPool, {ip})
  OBVIOUS
<1>5. PICK B, C : B = without(P, {ip}) /\ C = without(Q, {ip}) /\ bare[p] = B /\ bare[q] = C
  BY <1>2, <1>4 DEF bvWithout
<1>6. /\ B \in Seq(BvIPs) /\ Len(B) <= Len(P)
      /\ \A x : x \in ToSet(B) <=> x \in ToSet(P) /\ x # ip
      /\ ip \in ToSet(P) => Len(B) < Len(P)
  BY <1>5, WithoutHas
<1>7. /\ C \in Seq(BvIPs) /\ Len(C) <= Len(Q)
      /\ \A x : x \in ToSet(C) <=> x \in ToSet(Q) /\ x # ip
  BY <1>5, WithoutHas
<1>8. PICK gone : gone = evictedFor(ip, v, bare)
  OBVIOUS
<1>9. PICK lp \in Nat, lb \in Nat, lc \in Nat, lq \in Nat : lp = Len(P) /\ lb = Len(B) /\ lc = Len(C) /\ lq = Len(Q)
  BY <1>6, <1>7, LenProperties
<1>10. gone = IF lb < BvMaxCache THEN {} ELSE {Head(B)}
  BY <1>1, <1>5, <1>8, <1>9 DEF evictedFor
<1>11. \A x \in gone : x \in ToSet(B)
  <2>1. CASE lb < BvMaxCache
    BY <2>1, <1>10
  <2>2. CASE ~ (lb < BvMaxCache)
    <3>1. lb > 0
      BY <2>2, <1>0, <1>9
    <3>2. Head(B) = B[1] /\ 1 \in DOMAIN B
      BY <3>1, <1>6, <1>9, LenProperties, HeadTailProperties
    <3> QED BY <2>2, <3>2, <1>10 DEF ToSet
  <2> QED BY <2>1, <2>2
<1>12. \A x \in gone : x \in BvIPs /\ x # ip /\ x \in ToSet(P)
  <2>1. \A x \in ToSet(B) : x \in BvIPs
    BY <1>6 DEF ToSet
  <2> QED BY <2>1, <1>6, <1>11
<1>13. PICK B2, C2 : B2 = without(B, gone) /\ C2 = without(C, gone)
  OBVIOUS
<1>14. /\ B2 \in Seq(BvIPs) /\ Len(B2) <= Len(B)
       /\ \A x : x \in ToSet(B2) <=> x \in ToSet(B) /\ x \notin gone
       /\ \A x \in gone : x \in ToSet(B) => Len(B2) < Len(B)
  BY <1>6, <1>13, WithoutHas
<1>15. /\ C2 \in Seq(BvIPs) /\ Len(C2) <= Len(C)
       /\ \A x : x \in ToSet(C2) <=> x \in ToSet(C) /\ x \notin gone
  BY <1>7, <1>13, WithoutHas
<1>16. PICK A : A = Append(B2, ip)
  OBVIOUS
<1>17. PICK m \in Nat : m = Len(B2)
  BY <1>14, LenProperties
<1>18. /\ A \in Seq(BvIPs) /\ Len(A) = m + 1 /\ A[m + 1] = ip
       /\ \A i \in 1..m : A[i] = B2[i]
  BY <1>14, <1>16, <1>17, AppendProperties
<1>19. \A x : x \in ToSet(A) <=> x \in ToSet(B2) \/ x = ip
  <2>1. DOMAIN A = 1..(m + 1) /\ DOMAIN B2 = 1..m /\ 1..(m + 1) = 1..m \cup {m + 1}
    BY <1>14, <1>17, <1>18, LenProperties
  <2> QED BY <2>1, <1>18 DEF ToSet
<1>20. m < BvMaxCache
  <2>1. CASE lb < BvMaxCache
    BY <2>1, <1>0, <1>9, <1>14, <1>17
  <2>2. CASE ~ (lb < BvMaxCache)
    <3>1. Head(B) \in gone
      BY <2>2, <1>10
    <3>2. m < lb
      BY <3>1, <1>9, <1>11, <1>14, <1>17
    <3>3. lb <= lp /\ lp <= BvMaxCache
      BY <1>3, <1>6, <1>9
    <3> QED BY <3>2, <3>3, <1>0, <1>9, <1>17
  <2> QED BY <2>1, <2>2
<1>21. bvPool' \in [{"ok", "other"} -> Seq(BvIPs)] /\ bvPool'[p] = A /\ bvPool'[q] = C2
  <2>1. bvPool' = [bvWithout(bare, gone) EXCEPT ![p] = Append(@, ip)]
    BY <1>1, <1>4, <1>8 DEF storeLocked
  <2>2. PICK d : d = bvWithout(bare, gone)
    OBVIOUS
  <2>3. d = [x \in {"ok", "other"} |-> without(bare[x], gone)]
    BY <2>2 DEF bvWithout
  <2>4. d[p] = B2 /\ d[q] = C2 /\ DOMAIN d = {"ok", "other"}
    BY <2>3, <1>1, <1>5, <1>13
  <2>5. bvPool' = [d EXCEPT ![p] = Append(@, ip)]
    BY <2>1, <2>2
  <2>6. bvPool'[p] = A /\ bvPool'[q] = C2 /\ DOMAIN bvPool' = {"ok", "other"}
    BY <2>4, <2>5, <1>1, <1>16
  <2>7. bvPool' = [x \in {"ok", "other"} |-> bvPool'[x]]
    BY <2>5, <2>4
  <2>8. \A x \in {"ok", "other"} : bvPool'[x] \in Seq(BvIPs)
    BY <2>6, <1>1, <1>15, <1>18
  <2> QED BY <2>6, <2>7, <2>8
<1>22. BvStored(ip, v, at, gone)
  <2>1. /\ bvCache' = [j \in BvIPs |-> IF j = ip THEN [v |-> v, at |-> at, run |-> IF v = "transient" THEN nextRun(ip) ELSE 0]
                                 ELSE IF j \in gone THEN BvNone ELSE bvCache[j]]
        /\ bvRun' = [j \in BvIPs |-> IF j = ip THEN IF v = "transient" THEN bvRun[j] + 1 ELSE 0
                               ELSE IF j \in gone THEN 0 ELSE bvRun[j]]
    BY <1>4, <1>8 DEF storeLocked
  <2>2. v # "ok" => \A j \in gone : bvCache[j].v # "ok"
    <3>1. v # "ok" => P = bvPool["other"]
      BY <1>1, <1>2
    <3> QED BY <3>1, <1>12 DEF BvPools
  <2>3. v = "ok" /\ gone # {} => bvCache[ip].v # "ok"
    <3> SUFFICES ASSUME v = "ok", gone # {}, bvCache[ip].v = "ok" PROVE FALSE
      OBVIOUS
    <3>1. P = bvPool["ok"]
      BY <1>1, <1>2
    <3>2. ip \in ToSet(P)
      BY <3>1 DEF BvPools
    <3>3. lb < lp /\ lp <= BvMaxCache
      BY <3>2, <1>3, <1>6, <1>9
    <3>4. lb < BvMaxCache
      BY <3>3, <1>0
    <3> QED BY <3>4, <1>10
  <2> QED BY <2>1, <2>2, <2>3 DEF BvStored
<1>23. BvPools'
  <2>1. Len(A) <= BvMaxCache /\ Len(C2) <= BvMaxCache
    <3>1. Len(A) <= BvMaxCache
      BY <1>0, <1>17, <1>18, <1>20
    <3>2. PICK k \in Nat : k = Len(C2)
      BY <1>15, LenProperties
    <3>3. k <= lc /\ lc <= lq /\ lq <= BvMaxCache
      BY <3>2, <1>3, <1>7, <1>9, <1>15
    <3> QED BY <3>1, <3>2, <3>3, <1>0
  <2>2. ASSUME NEW j \in BvIPs, j \in ToSet(bvPool'["other"]) PROVE bvCache'[j].v # "ok"
    <3>1. CASE j = ip
      <4>1. CASE v = "ok"
        <5>1. bvPool'["other"] = C2
          BY <4>1, <1>1, <1>21
        <5> QED BY <5>1, <3>1, <2>2, <1>7, <1>15
      <4> QED BY <4>1, <3>1, <1>22 DEF BvStored
    <3>2. CASE j # ip
      <4>1. j \in ToSet(bvPool["other"]) /\ j \notin gone
        <5>1. CASE v = "ok"
          <6>1. bvPool'["other"] = C2 /\ bvPool["other"] = Q
            BY <5>1, <1>1, <1>2, <1>21
          <6> QED BY <6>1, <2>2, <1>7, <1>15
        <5>2. CASE v # "ok"
          <6>1. bvPool'["other"] = A /\ bvPool["other"] = P
            BY <5>2, <1>1, <1>2, <1>21
          <6> QED BY <6>1, <2>2, <3>2, <1>6, <1>14, <1>19
        <5> QED BY <5>1, <5>2
      <4>2. bvCache'[j] = bvCache[j]
        BY <4>1, <3>2, <1>22 DEF BvStored
      <4> QED BY <4>1, <4>2 DEF BvPools
    <3> QED BY <3>1, <3>2
  <2>3. ASSUME NEW j \in BvIPs, bvCache'[j].v = "ok" PROVE j \in ToSet(bvPool'["ok"])
    <3>1. CASE j = ip
      <4>1. v = "ok"
        BY <2>3, <3>1, <1>22 DEF BvStored
      <4>2. bvPool'["ok"] = A
        BY <4>1, <1>1, <1>21
      <4> QED BY <4>2, <3>1, <1>19
    <3>2. CASE j # ip
      <4>1. j \notin gone /\ bvCache[j].v = "ok"
        BY <2>3, <3>2, <1>22 DEF BvStored, BvNone
      <4>2. j \in ToSet(bvPool["ok"])
        BY <4>1 DEF BvPools
      <4>3. CASE v = "ok"
        <5>1. bvPool'["ok"] = A /\ bvPool["ok"] = P
          BY <4>3, <1>1, <1>2, <1>21
        <5> QED BY <5>1, <3>2, <4>1, <4>2, <1>6, <1>14, <1>19
      <4>4. CASE v # "ok"
        <5>1. bvPool'["ok"] = C2 /\ bvPool["ok"] = Q
          BY <4>4, <1>1, <1>2, <1>21
        <5> QED BY <5>1, <3>2, <4>1, <4>2, <1>7, <1>15
      <4> QED BY <4>3, <4>4
    <3> QED BY <3>1, <3>2
  <2>4. Len(bvPool'["ok"]) <= BvMaxCache /\ Len(bvPool'["other"]) <= BvMaxCache
    BY <2>1, <1>1, <1>21
  <2> QED BY <2>2, <2>3, <2>4 DEF BvPools
<1>24. gone \in SUBSET BvIPs
  BY <1>12
<1> QED BY <1>21, <1>22, <1>23, <1>24

\* A verdict keeps the entries typed and their runs counted.
LEMMA StoredKeeps ==
  ASSUME BvTyped, BvRuns, NEW ip \in BvIPs, NEW v \in {"ok", "bad", "transient"}, NEW at \in Nat,
         NEW gone, BvStored(ip, v, at, gone)
  PROVE  /\ bvCache' \in [BvIPs -> [v : {"none", "ok", "bad", "transient"}, at : Nat, run : Nat]]
         /\ bvRun' \in [BvIPs -> Nat] /\ BvRuns'
<1>1. PICK r \in Nat : r = (IF v = "transient" THEN nextRun(ip) ELSE 0)
  BY DEF BvTyped, nextRun
<1>2. v = "transient" => r = bvRun[ip] + 1
  BY <1>1 DEF BvRuns, nextRun
<1>3. bvCache' = [j \in BvIPs |-> IF j = ip THEN [v |-> v, at |-> at, run |-> r]
                                  ELSE IF j \in gone THEN BvNone ELSE bvCache[j]]
  BY <1>1 DEF BvStored
<1>4. bvRun' = [j \in BvIPs |-> IF j = ip THEN IF v = "transient" THEN bvRun[j] + 1 ELSE 0
                                ELSE IF j \in gone THEN 0 ELSE bvRun[j]]
  BY DEF BvStored
<1>5. bvCache' \in [BvIPs -> [v : {"none", "ok", "bad", "transient"}, at : Nat, run : Nat]]
  BY <1>3 DEF BvTyped, BvNone
<1>6. bvRun' \in [BvIPs -> Nat]
  BY <1>4 DEF BvTyped
<1>7. BvRuns'
  <2> SUFFICES ASSUME NEW j \in BvIPs
               PROVE  bvRun'[j] = IF bvCache'[j].v = "transient" THEN bvCache'[j].run ELSE 0
    BY DEF BvRuns
  <2>1. CASE j = ip
    BY <2>1, <1>1, <1>2, <1>3, <1>4
  <2>2. CASE j # ip /\ j \in gone
    BY <2>2, <1>3, <1>4 DEF BvNone
  <2>3. CASE j # ip /\ j \notin gone
    BY <2>3, <1>3, <1>4 DEF BvRuns
  <2> QED BY <2>1, <2>2, <2>3
<1> QED BY <1>5, <1>6, <1>7

LEMMA BvBegins == BotVerifyInit => BotVerifyInv
<1> SUFFICES ASSUME BotVerifyInit PROVE BotVerifyInv
  OBVIOUS
<1>0. BvMaxCache \in Nat
  <2>1. BvMaxCache \in Nat \ {0}
    BY BvAssumption, Zenon
  <2> QED BY <2>1
<1>1. bvPool \in [{"ok", "other"} -> Seq(BvIPs)] /\ bvPool["ok"] = <<>> /\ bvPool["other"] = <<>>
  <2>1. bvPool = [ok |-> <<>>, other |-> <<>>]
    BY DEF BotVerifyInit
  <2>2. bvPool = [x \in {"ok", "other"} |-> <<>>]
    BY <2>1
  <2>3. <<>> \in Seq(BvIPs)
    OBVIOUS
  <2> QED BY <2>2, <2>3
<1>2. BvTyped
  BY <1>1 DEF BotVerifyInit, BvTyped, BvNone
<1>3. BvPools
  BY <1>0, <1>1 DEF BotVerifyInit, BvPools, BvNone, ToSet
<1>4. BvRuns
  BY DEF BotVerifyInit, BvRuns, BvNone
<1>5. \A j \in BvIPs : j # BvIdle.ip
  BY IdleAsksForNone
<1>6. BvJobs
  <2>1. \A w \in BvWorkers : bvLook[w] = BvIdle
    BY DEF BotVerifyInit, BvLookers
  <2>2. bvQueue = <<>> /\ bvQueued = {} /\ ToSet(bvQueue) = {} /\ Len(bvQueue) = 0
    BY DEF BotVerifyInit, ToSet
  <2>3. \A j \in BvIPs : j \in bvQueued <=> j \in ToSet(bvQueue) \/ \E w \in BvWorkers : bvLook[w].ip = j
    BY <1>5, <2>1, <2>2
  <2>4. \A m, n \in 1..Len(bvQueue) : bvQueue[m] = bvQueue[n] => m = n
    BY <2>2
  <2>5. \A w \in BvWorkers : /\ bvLook[w].ip \notin ToSet(bvQueue)
                             /\ \A u \in BvWorkers : bvLook[u].ip = bvLook[w].ip => u = w \/ bvLook[w] = BvIdle
    BY <2>1, <2>2
  <2> QED BY <2>3, <2>4, <2>5 DEF BvJobs
<1>7. BvWindows
  BY DEF BotVerifyInit, BvWindows
<1> QED BY <1>2, <1>3, <1>4, <1>6, <1>7 DEF BotVerifyInv

LEMMA BvAskKeeps == ASSUME BotVerifyInv, NEW ip \in BvIPs, VerifyAsync(ip) PROVE BotVerifyInv'
<1> USE DEF BotVerifyInv
<1>0. /\ ~bvClosed /\ enqueued(ip)
      /\ UNCHANGED <<bvCache, bvPool, bvLook, bvClosed, bvRun, bvNow>>
  BY DEF VerifyAsync
<1>1. \/ ip \notin bvQueued /\ bvQueue' = Append(bvQueue, ip) /\ bvQueued' = bvQueued \cup {ip}
      \/ UNCHANGED <<bvQueue, bvQueued>>
  BY <1>0 DEF enqueued
<1>2. \/ /\ bvSince[ip] < 0
         /\ bvSince' = [bvSince EXCEPT ![ip] = bvNow] /\ bvGranted' = [bvGranted EXCEPT ![ip] = bvNow]
      \/ UNCHANGED <<bvSince, bvGranted>>
  BY DEF VerifyAsync
<1>3. BvTyped'
  <2>1. bvQueue' \in Seq(BvIPs) /\ bvQueued' \in SUBSET BvIPs
    <3>1. PICK q \in Seq(BvIPs), K \in SUBSET BvIPs : q = bvQueue /\ K = bvQueued
      BY DEF BvTyped
    <3>2. Append(q, ip) \in Seq(BvIPs)
      BY AppendProperties
    <3> QED BY <1>1, <3>1, <3>2
  <2>2. bvSince' \in [BvIPs -> {-1} \cup Nat] /\ bvGranted' \in [BvIPs -> {-1} \cup Nat]
    <3>1. PICK T : T = {-1} \cup Nat
      OBVIOUS
    <3>2. bvNow \in T /\ bvSince \in [BvIPs -> T] /\ bvGranted \in [BvIPs -> T]
      BY <3>1 DEF BvTyped
    <3>3. bvSince' \in [BvIPs -> T] /\ bvGranted' \in [BvIPs -> T]
      BY <1>2, <3>2
    <3> QED BY <3>1, <3>3
  <2> QED BY <1>0, <2>1, <2>2 DEF BvTyped
<1>4. BvPools' /\ BvRuns'
  BY <1>0 DEF BvPools, BvRuns
<1>5. BvJobs'
  <2>1. CASE UNCHANGED <<bvQueue, bvQueued>>
    BY <2>1, <1>0 DEF BvJobs
  <2>2. CASE ip \notin bvQueued /\ bvQueue' = Append(bvQueue, ip) /\ bvQueued' = bvQueued \cup {ip}
    <3>1. PICK q \in Seq(BvIPs) : q = bvQueue
      BY DEF BvTyped
    <3>2. PICK n \in Nat : n = Len(q)
      BY <3>1, LenProperties
    <3>3. PICK r \in Seq(BvIPs) : r = Append(q, ip)
      BY <3>1, AppendProperties
    <3>4. /\ Len(r) = n + 1 /\ r[n + 1] = ip /\ \A i \in 1..n : r[i] = q[i]
      BY <3>1, <3>2, <3>3, AppendProperties
    <3>5. DOMAIN q = 1..n /\ DOMAIN r = 1..(n + 1) /\ 1..(n + 1) = 1..n \cup {n + 1}
      BY <3>2, <3>3, <3>4, LenProperties
    <3>6. \A x : x \in ToSet(r) <=> x \in ToSet(q) \/ x = ip
      BY <3>4, <3>5 DEF ToSet
    <3>7. ip \notin ToSet(q) /\ \A w \in BvWorkers : bvLook[w].ip # ip
      BY <1>0, <2>2, <3>1 DEF BvJobs
    <3>8. \A j \in BvIPs : j \in bvQueued' <=> j \in ToSet(r) \/ \E w \in BvWorkers : bvLook[w].ip = j
      BY <1>0, <2>2, <3>1, <3>6 DEF BvJobs
    <3>9. \A k, l \in 1..(n + 1) : r[k] = r[l] => k = l
      <4>1. \A i \in 1..n : q[i] # ip
        BY <3>5, <3>7 DEF ToSet
      <4>2. \A k, l \in 1..n : q[k] = q[l] => k = l
        BY <1>0, <3>1, <3>2 DEF BvJobs
      <4> QED BY <4>1, <4>2, <3>4, <3>5
    <3>10. \A w \in BvWorkers : /\ bvLook[w].ip \notin ToSet(r)
                               /\ \A u \in BvWorkers : bvLook[u].ip = bvLook[w].ip => u = w \/ bvLook[w] = BvIdle
      BY <1>0, <3>1, <3>6, <3>7 DEF BvJobs
    <3> QED BY <1>0, <2>2, <3>1, <3>3, <3>4, <3>8, <3>9, <3>10 DEF BvJobs
  <2> QED BY <1>1, <2>1, <2>2
<1>6. BvWindows'
  <2>1. CASE UNCHANGED <<bvSince, bvGranted>>
    BY <2>1, <1>0 DEF BvWindows
  <2>2. CASE bvSince' = [bvSince EXCEPT ![ip] = bvNow] /\ bvGranted' = [bvGranted EXCEPT ![ip] = bvNow]
    BY <2>2, <1>0 DEF BvWindows, BvTyped
  <2> QED BY <1>2, <2>1, <2>2
<1> QED BY <1>3, <1>4, <1>5, <1>6

LEMMA BvTakeKeeps == ASSUME BotVerifyInv, NEW w \in BvWorkers, workerTake(w) PROVE BotVerifyInv'
<1> USE DEF BotVerifyInv
<1>0. /\ ~bvClosed /\ bvLook[w] = BvIdle /\ bvQueue # <<>>
      /\ UNCHANGED <<bvCache, bvPool, bvQueued, bvSince, bvClosed, bvRun, bvGranted, bvNow>>
  BY DEF workerTake
<1>1. PICK q \in Seq(BvIPs) : q = bvQueue /\ q # <<>>
  BY <1>0 DEF BvTyped
<1>2. PICK n \in Nat : n = Len(q) /\ n > 0 /\ DOMAIN q = 1..n
  BY <1>1, LenProperties, EmptySeq
<1>3. PICK h \in BvIPs : h = Head(q) /\ h = q[1]
  BY <1>1, <1>2, HeadTailProperties, ElementOfSeq
<1>4. PICK t \in Seq(BvIPs) : /\ t = Tail(q) /\ Len(t) = n - 1 /\ \A i \in 1..(n - 1) : t[i] = q[i + 1]
  <2>1. PICK t : t = Tail(q)
    OBVIOUS
  <2>2. t \in Seq(BvIPs) /\ Len(t) = n - 1
    BY <2>1, <1>1, <1>2, HeadTailProperties
  <2>3. \A i \in 1..(n - 1) : t[i] = q[i + 1]
    BY <2>1, <1>1, <1>2
  <2> QED BY <2>1, <2>2, <2>3
<1>5. bvQueue' = t /\ bvLook' = [bvLook EXCEPT ![w] = [ip |-> h, at |-> bvNow]]
  BY <1>1, <1>3, <1>4 DEF workerTake
<1>6. /\ bvLook \in [BvLookers -> {BvIdle} \cup [ip : BvIPs, at : Nat]] /\ w \in BvLookers
      /\ \A u \in BvWorkers : u \in BvLookers
  BY DEF BvTyped, BvLookers
<1>7. BvTyped'
  <2>1. [ip |-> h, at |-> bvNow] \in [ip : BvIPs, at : Nat]
    BY <1>3 DEF BvTyped
  <2>2. bvLook' \in [BvLookers -> {BvIdle} \cup [ip : BvIPs, at : Nat]]
    BY <2>1, <1>5, <1>6
  <2> QED BY <2>2, <1>0, <1>4, <1>5 DEF BvTyped
<1>8. BvPools' /\ BvRuns' /\ BvWindows'
  BY <1>0 DEF BvPools, BvRuns, BvWindows
<1>9. BvJobs'
  <2>1. \A k, l \in 1..n : q[k] = q[l] => k = l
    BY <1>0, <1>1, <1>2 DEF BvJobs
  <2>2. DOMAIN t = 1..(n - 1)
    BY <1>2, <1>4, LenProperties
  <2>3. \A i \in 1..n : i = 1 \/ (i - 1 \in 1..(n - 1) /\ t[i - 1] = q[i])
    <3> SUFFICES ASSUME NEW i \in 1..n, i # 1 PROVE i - 1 \in 1..(n - 1) /\ t[i - 1] = q[i]
      OBVIOUS
    <3>1. i - 1 \in 1..(n - 1) /\ (i - 1) + 1 = i
      OBVIOUS
    <3>2. t[i - 1] = q[(i - 1) + 1]
      BY <1>4, <3>1
    <3> QED BY <3>1, <3>2
  <2>4. \A i \in 1..(n - 1) : i + 1 \in 1..n /\ i + 1 # 1
    BY <1>2
  <2>5. \A x : x \in ToSet(q) <=> x \in ToSet(t) \/ x = h
    <3>1. \A x : x \in ToSet(q) <=> \E i \in 1..n : q[i] = x
      BY <1>2 DEF ToSet
    <3>2. \A x : x \in ToSet(t) <=> \E i \in 1..(n - 1) : t[i] = x
      BY <2>2 DEF ToSet
    <3>3. 1 \in 1..n
      BY <1>2
    <3>4. ASSUME NEW x, x \in ToSet(q) PROVE x \in ToSet(t) \/ x = h
      <4>1. PICK i \in 1..n : q[i] = x
        BY <3>1, <3>4
      <4>2. CASE i = 1
        BY <4>1, <4>2, <1>3
      <4>3. CASE i # 1
        <5>1. i - 1 \in 1..(n - 1) /\ t[i - 1] = x
          BY <2>3, <4>1, <4>3
        <5> QED BY <3>2, <5>1
      <4> QED BY <4>2, <4>3
    <3>5. ASSUME NEW x, x \in ToSet(t) PROVE x \in ToSet(q)
      <4>1. PICK i \in 1..(n - 1) : t[i] = x
        BY <3>2, <3>5
      <4>2. q[i + 1] = x
        BY <1>4, <4>1
      <4>3. i + 1 \in 1..n
        BY <2>4, <4>1
      <4> QED BY <3>1, <4>2, <4>3
    <3> QED BY <3>1, <3>3, <3>4, <3>5, <1>3
  <2>6. h \notin ToSet(t)
    <3>1. \A i \in 1..(n - 1) : t[i] # h
      <4> SUFFICES ASSUME NEW i \in 1..(n - 1), t[i] = h PROVE FALSE
        OBVIOUS
      <4>1. q[i + 1] = q[1] /\ i + 1 \in 1..n /\ 1 \in 1..n /\ i + 1 # 1
        BY <1>2, <1>3, <1>4, <2>4
      <4> QED BY <4>1, <2>1
    <3> QED BY <3>1, <2>2 DEF ToSet
  <2>7. \A u \in BvWorkers : bvLook[u].ip \notin ToSet(q)
    BY <1>0, <1>1 DEF BvJobs
  <2>8. /\ bvLook'[w] = [ip |-> h, at |-> bvNow] /\ bvLook'[w].ip = h
        /\ \A u \in BvWorkers : u # w => bvLook'[u] = bvLook[u] /\ bvLook[u].ip # h
    BY <1>5, <1>6, <2>5, <2>7
  <2>9. \A j \in BvIPs : j \in bvQueued <=> j \in ToSet(q) \/ \E u \in BvWorkers : bvLook[u].ip = j
    BY <1>0, <1>1 DEF BvJobs
  <2>10. \A j \in BvIPs : j # bvLook[w].ip
    BY <1>0, IdleAsksForNone
  <2>11. \A j \in BvIPs : j \in bvQueued' <=> j \in ToSet(t) \/ \E u \in BvWorkers : bvLook'[u].ip = j
    BY <1>0, <2>5, <2>8, <2>9, <2>10
  <2>12. \A k, l \in 1..(n - 1) : t[k] = t[l] => k = l
    <3> SUFFICES ASSUME NEW k \in 1..(n - 1), NEW l \in 1..(n - 1), t[k] = t[l] PROVE k = l
      OBVIOUS
    <3>1. q[k + 1] = q[l + 1] /\ k + 1 \in 1..n /\ l + 1 \in 1..n
      BY <1>4, <2>4
    <3>2. k + 1 = l + 1
      BY <3>1, <2>1
    <3> QED BY <3>2
  <2>13. ASSUME NEW u \in BvWorkers
         PROVE  /\ bvLook'[u].ip \notin ToSet(t)
                /\ \A x \in BvWorkers : bvLook'[x].ip = bvLook'[u].ip => x = u \/ bvLook'[u] = BvIdle
    <3>1. /\ bvLook[u].ip \notin ToSet(q)
          /\ \A x \in BvWorkers : bvLook[x].ip = bvLook[u].ip => x = u \/ bvLook[u] = BvIdle
      BY <1>0, <1>1 DEF BvJobs
    <3>2. CASE u = w
      BY <3>2, <2>6, <2>8
    <3>3. CASE u # w
      BY <3>1, <3>3, <2>5, <2>8
    <3> QED BY <3>2, <3>3
  <2>14. bvQueue' = t /\ Len(bvQueue') = n - 1
    BY <1>4, <1>5
  <2> QED BY <2>11, <2>12, <2>13, <2>14 DEF BvJobs
<1> QED BY <1>7, <1>8, <1>9

\* What a worker stores ends its job; nothing is stored once the verifier is closed.
LEMMA BvWorkerKeeps ==
  ASSUME BotVerifyInv, NEW w \in BvWorkers, NEW v \in {"ok", "bad", "transient"}, workerStore(w, v)
  PROVE  BotVerifyInv'
<1> USE DEF BotVerifyInv
<1>1. w \in BvLookers /\ \A u \in BvWorkers : u \in BvLookers
  BY DEF BvLookers
<1>2. PICK ip \in BvIPs, at \in Nat : bvLook[w] = [ip |-> ip, at |-> at] /\ bvLook[w].ip = ip /\ bvLook[w].at = at
  <2>1. bvLook[w] \in [ip : BvIPs, at : Nat]
    BY <1>1 DEF workerStore, BvTyped
  <2> QED BY <2>1
<1>3. bvQueued' = bvQueued \ {ip} /\ bvLook' = [bvLook EXCEPT ![w] = BvIdle] /\ UNCHANGED <<bvQueue, bvClosed, bvNow>>
  BY <1>2 DEF workerStore
<1>4. CASE bvClosed
  <2>1. UNCHANGED <<bvCache, bvPool, bvRun, bvSince, bvGranted>>
    BY <1>4 DEF workerStore, storable
  <2>2. BvTyped'
    BY <2>1, <1>3 DEF BvTyped
  <2>3. BvPools' /\ BvRuns' /\ BvWindows' /\ BvJobs'
    BY <2>1, <1>3, <1>4 DEF BvPools, BvRuns, BvWindows, BvJobs
  <2> QED BY <2>2, <2>3
<1>5. CASE ~bvClosed
  <2>1. /\ storeLocked(ip, v, at)
        /\ bvSince' = [bvSince EXCEPT ![ip] = -1] /\ bvGranted' = [bvGranted EXCEPT ![ip] = -1]
    BY <1>2, <1>5 DEF workerStore, storable
  <2>2. PICK gone \in SUBSET BvIPs : BvStored(ip, v, at, gone)
    BY <2>1, BvStoreKeeps
  <2>3. bvPool' \in [{"ok", "other"} -> Seq(BvIPs)] /\ BvPools'
    BY <2>1, BvStoreKeeps
  <2>4. /\ bvCache' \in [BvIPs -> [v : {"none", "ok", "bad", "transient"}, at : Nat, run : Nat]]
        /\ bvRun' \in [BvIPs -> Nat] /\ BvRuns'
    BY <2>2, StoredKeeps
  <2>5. BvTyped'
    BY <1>3, <2>1, <2>3, <2>4 DEF BvTyped
  <2>6. BvWindows'
    BY <1>3, <2>1 DEF BvWindows, BvTyped
  <2>7. BvJobs'
    <3>1. ip \notin ToSet(bvQueue) /\ \A u \in BvWorkers : u # w => bvLook[u].ip # ip
      <4>1. BvIdle.ip # ip
        BY IdleAsksForNone
      <4> QED BY <1>2, <1>5, <4>1 DEF BvJobs
    <3>2. bvLook'[w] = BvIdle /\ \A u \in BvWorkers : u # w => bvLook'[u] = bvLook[u]
      BY <1>1, <1>3 DEF BvTyped
    <3>3. \A j \in BvIPs : j # BvIdle.ip
      BY IdleAsksForNone
    <3>4. PICK Q : Q = ToSet(bvQueue)
      OBVIOUS
    <3>5. \A j \in BvIPs : j \in bvQueued <=> j \in Q \/ \E u \in BvWorkers : bvLook[u].ip = j
      BY <1>5, <3>4 DEF BvJobs
    <3>6. \A j \in BvIPs : j \in bvQueued' <=> j \in Q \/ \E u \in BvWorkers : bvLook'[u].ip = j
      <4> SUFFICES ASSUME NEW j \in BvIPs
                   PROVE  j \in bvQueued' <=> j \in Q \/ \E u \in BvWorkers : bvLook'[u].ip = j
        OBVIOUS
      <4>1. CASE j = ip
        BY <4>1, <1>3, <3>1, <3>2, <3>3, <3>4
      <4>2. CASE j # ip
        BY <4>2, <1>2, <1>3, <3>2, <3>3, <3>5
      <4> QED BY <4>1, <4>2
    <3>7. \A x \in Q : x \in BvIPs
      <4>1. bvQueue \in Seq(BvIPs)
        BY DEF BvTyped
      <4> QED BY <3>4, <4>1 DEF ToSet
    <3>8. ASSUME NEW u \in BvWorkers
          PROVE  /\ bvLook'[u].ip \notin Q
                 /\ \A x \in BvWorkers : bvLook'[x].ip = bvLook'[u].ip => x = u \/ bvLook'[u] = BvIdle
      <4>1. CASE u = w
        BY <4>1, <3>2, <3>3, <3>7
      <4>2. CASE u # w
        <5>1. /\ bvLook[u].ip \notin Q
              /\ \A x \in BvWorkers : bvLook[x].ip = bvLook[u].ip => x = u \/ bvLook[u] = BvIdle
          BY <1>5, <3>4 DEF BvJobs
        <5>2. bvLook[u] = BvIdle \/ bvLook[u].ip \in BvIPs
          BY <1>1 DEF BvTyped
        <5> QED BY <4>2, <5>1, <5>2, <3>2, <3>3
      <4> QED BY <4>1, <4>2
    <3>9. \A m, n \in 1..Len(bvQueue) : bvQueue[m] = bvQueue[n] => m = n
      BY <1>5 DEF BvJobs
    <3> QED BY <1>3, <3>4, <3>6, <3>8, <3>9 DEF BvJobs
  <2> QED BY <2>3, <2>4, <2>5, <2>6, <2>7
<1> QED BY <1>4, <1>5

\* A caller's lookup is nobody's job.
LEMMA BvCallerKeeps ==
  ASSUME BotVerifyInv, NEW c \in BvCallers,
         \/ \E ip \in BvIPs : Verify(c, ip)
         \/ \E v \in {"ok", "bad", "transient"} : verifyReturn(c, v)
  PROVE  BotVerifyInv'
<1> USE DEF BotVerifyInv
<1>1. c \in BvLookers /\ \A u \in BvWorkers : u \in BvLookers /\ u # c
  <2>1. BvWorkers \cap BvCallers = {}
    BY BvAssumption, Zenon
  <2> QED BY <2>1 DEF BvLookers
<1>2. /\ UNCHANGED <<bvQueue, bvQueued, bvSince, bvClosed, bvGranted, bvNow>>
      /\ bvLook' \in [BvLookers -> {BvIdle} \cup [ip : BvIPs, at : Nat]]
      /\ \A u \in BvWorkers : bvLook'[u] = bvLook[u]
  <2>1. CASE \E ip \in BvIPs : Verify(c, ip)
    BY <2>1, <1>1 DEF Verify, BvTyped
  <2>2. CASE \E v \in {"ok", "bad", "transient"} : verifyReturn(c, v)
    BY <2>2, <1>1 DEF verifyReturn, BvTyped
  <2> QED BY <2>1, <2>2
<1>3. /\ bvPool' \in [{"ok", "other"} -> Seq(BvIPs)] /\ BvPools'
      /\ bvCache' \in [BvIPs -> [v : {"none", "ok", "bad", "transient"}, at : Nat, run : Nat]]
      /\ bvRun' \in [BvIPs -> Nat] /\ BvRuns'
  <2>1. CASE UNCHANGED <<bvCache, bvPool, bvRun>>
    BY <2>1 DEF BvTyped, BvPools, BvRuns
  <2>2. ASSUME NEW v \in {"ok", "bad", "transient"}, verifyReturn(c, v), ~ UNCHANGED <<bvCache, bvPool, bvRun>>
        PROVE  /\ bvPool' \in [{"ok", "other"} -> Seq(BvIPs)] /\ BvPools'
               /\ bvCache' \in [BvIPs -> [v : {"none", "ok", "bad", "transient"}, at : Nat, run : Nat]]
               /\ bvRun' \in [BvIPs -> Nat] /\ BvRuns'
    <3>1. bvLook[c] \in [ip : BvIPs, at : Nat]
      BY <1>1, <2>2 DEF verifyReturn, BvTyped
    <3>2. PICK ip \in BvIPs, at \in Nat : ip = bvLook[c].ip /\ at = bvLook[c].at
      BY <3>1
    <3>3. storeLocked(ip, v, at)
      BY <2>2, <3>2 DEF verifyReturn
    <3>4. PICK gone \in SUBSET BvIPs : BvStored(ip, v, at, gone)
      BY <3>3, BvStoreKeeps
    <3>5. bvPool' \in [{"ok", "other"} -> Seq(BvIPs)] /\ BvPools'
      BY <3>3, BvStoreKeeps
    <3>6. /\ bvCache' \in [BvIPs -> [v : {"none", "ok", "bad", "transient"}, at : Nat, run : Nat]]
          /\ bvRun' \in [BvIPs -> Nat] /\ BvRuns'
      BY <3>4, StoredKeeps
    <3> QED BY <3>5, <3>6
  <2>3. ASSUME NEW ip \in BvIPs, Verify(c, ip) PROVE UNCHANGED <<bvCache, bvPool, bvRun>>
    BY <2>3 DEF Verify
  <2> QED BY <2>1, <2>2, <2>3
<1>4. BvTyped'
  BY <1>2, <1>3 DEF BvTyped
<1>5. BvWindows' /\ BvJobs'
  BY <1>2 DEF BvWindows, BvJobs
<1> QED BY <1>3, <1>4, <1>5

\* What is dropped for its age leaves its pool too.
LEMMA BvCleanupKeeps == ASSUME BotVerifyInv, bvCleanup PROVE BotVerifyInv'
<1> USE DEF BotVerifyInv
<1>1. PICK gone \in SUBSET BvIPs :
        /\ bvCache' = [ip \in BvIPs |-> IF ip \in gone THEN BvNone ELSE bvCache[ip]]
        /\ bvRun' = [ip \in BvIPs |-> IF ip \in gone THEN 0 ELSE bvRun[ip]]
        /\ bvPool' = bvWithout(bvPool, gone)
        /\ UNCHANGED <<bvQueue, bvQueued, bvLook, bvSince, bvClosed, bvGranted, bvNow>>
  <2>1. PICK gone : gone = {ip \in BvIPs : bvCache[ip].v # "none" /\
                bvNow - bvCache[ip].at > (IF bvCache[ip].v = "ok" THEN 2 * BvTTL ELSE BvTTL)}
    OBVIOUS
  <2>2. gone \in SUBSET BvIPs
    BY <2>1
  <2> QED BY <2>1, <2>2 DEF bvCleanup
<1>2. PICK P \in Seq(BvIPs), Q \in Seq(BvIPs) : P = bvPool["ok"] /\ Q = bvPool["other"]
  BY DEF BvTyped
<1>3. PICK P2, Q2 : P2 = without(P, gone) /\ Q2 = without(Q, gone)
  OBVIOUS
<1>4. P2 \in Seq(BvIPs) /\ Len(P2) <= Len(P) /\ \A x : x \in ToSet(P2) <=> x \in ToSet(P) /\ x \notin gone
  BY <1>3, WithoutHas
<1>5. Q2 \in Seq(BvIPs) /\ Len(Q2) <= Len(Q) /\ \A x : x \in ToSet(Q2) <=> x \in ToSet(Q) /\ x \notin gone
  BY <1>3, WithoutHas
<1>6. bvPool' = [x \in {"ok", "other"} |-> without(bvPool[x], gone)]
  BY <1>1 DEF bvWithout
<1>7. bvPool'["ok"] = P2 /\ bvPool'["other"] = Q2 /\ bvPool' \in [{"ok", "other"} -> Seq(BvIPs)]
  <2>1. bvPool'["ok"] = P2 /\ bvPool'["other"] = Q2
    BY <1>2, <1>3, <1>6
  <2>2. \A x \in {"ok", "other"} : without(bvPool[x], gone) \in Seq(BvIPs)
    BY <1>2, <1>3, <1>4, <1>5
  <2> QED BY <2>1, <2>2, <1>6
<1>8. BvTyped'
  <2>1. bvCache' \in [BvIPs -> [v : {"none", "ok", "bad", "transient"}, at : Nat, run : Nat]]
    BY <1>1 DEF BvTyped, BvNone
  <2>2. bvRun' \in [BvIPs -> Nat]
    BY <1>1 DEF BvTyped
  <2> QED BY <1>1, <1>7, <2>1, <2>2 DEF BvTyped
<1>9. BvPools'
  <2>1. Len(P2) <= BvMaxCache /\ Len(Q2) <= BvMaxCache
    <3>1. BvMaxCache \in Nat
      <4>1. BvMaxCache \in Nat \ {0}
        BY BvAssumption, Zenon
      <4> QED BY <4>1
    <3>2. PICK a \in Nat, b \in Nat, d \in Nat, e \in Nat : a = Len(P) /\ b = Len(Q) /\ d = Len(P2) /\ e = Len(Q2)
      BY <1>4, <1>5, LenProperties
    <3>3. a <= BvMaxCache /\ b <= BvMaxCache
      BY <1>2, <3>2 DEF BvPools
    <3> QED BY <1>4, <1>5, <3>1, <3>2, <3>3
  <2>2. ASSUME NEW j \in BvIPs
        PROVE  /\ j \in ToSet(Q2) => bvCache'[j].v # "ok"
               /\ bvCache'[j].v = "ok" => j \in ToSet(P2)
    <3>1. j \in ToSet(Q) => bvCache[j].v # "ok"
      BY <1>2 DEF BvPools
    <3>2. bvCache[j].v = "ok" => j \in ToSet(P)
      BY <1>2 DEF BvPools
    <3>3. bvCache'[j] = IF j \in gone THEN BvNone ELSE bvCache[j]
      BY <1>1
    <3> QED BY <3>1, <3>2, <3>3, <1>4, <1>5 DEF BvNone
  <2> QED BY <2>1, <2>2, <1>7 DEF BvPools
<1>10. BvRuns'
  BY <1>1 DEF BvRuns, BvNone
<1>11. BvWindows' /\ BvJobs'
  BY <1>1 DEF BvWindows, BvJobs
<1> QED BY <1>8, <1>9, <1>10, <1>11

\* A window is forgotten when it and its cooldown are over, or with the verifier.
LEMMA BvRestKeeps ==
  ASSUME BotVerifyInv, prunePending \/ closeBegin \/ closeEnd \/ bvTick \/ UNCHANGED bvVars PROVE BotVerifyInv'
<1> USE DEF BotVerifyInv
<1>0. PICK a \in Nat, b \in Nat : a = BvWindow /\ b = BvCooldown
  <2>1. BvWindow \in Nat /\ BvCooldown \in Nat
    BY BvAssumption, Zenon
  <2> QED BY <2>1
<1>1. CASE prunePending
  <2>1. /\ ~bvClosed /\ bvSince' = [ip \in BvIPs |-> IF windowOver(ip) THEN -1 ELSE bvSince[ip]]
        /\ UNCHANGED <<bvCache, bvPool, bvQueue, bvQueued, bvLook, bvClosed, bvRun, bvGranted, bvNow>>
    BY <1>1 DEF prunePending
  <2>2. BvTyped'
    BY <2>1 DEF BvTyped
  <2>3. BvPools' /\ BvRuns' /\ BvJobs'
    BY <2>1 DEF BvPools, BvRuns, BvJobs
  <2>4. BvWindows'
    <3> SUFFICES ASSUME NEW j \in BvIPs
                 PROVE  /\ bvSince'[j] >= 0 => bvGranted[j] = bvSince'[j]
                        /\ ~bvClosed /\ bvSince'[j] < 0 /\ bvGranted[j] >= 0 => bvNow - bvGranted[j] > BvWindow + BvCooldown
      BY <2>1 DEF BvWindows
    <3>1. CASE windowOver(j)
      BY <3>1, <2>1 DEF BvWindows, windowOver, BvTyped
    <3>2. CASE ~ windowOver(j)
      BY <3>2, <2>1 DEF BvWindows, BvTyped
    <3> QED BY <3>1, <3>2
  <2> QED BY <2>2, <2>3, <2>4
<1>2. CASE closeBegin
  <2>1. bvClosed' = TRUE /\ UNCHANGED <<bvCache, bvPool, bvQueue, bvQueued, bvLook, bvSince, bvRun, bvGranted, bvNow>>
    BY <1>2 DEF closeBegin
  <2> QED BY <2>1 DEF BvTyped, BvPools, BvRuns, BvJobs, BvWindows
<1>3. CASE closeEnd
  <2>1. /\ bvClosed /\ bvQueued' = {} /\ bvSince' = [ip \in BvIPs |-> -1]
        /\ UNCHANGED <<bvCache, bvPool, bvQueue, bvLook, bvClosed, bvRun, bvGranted, bvNow>>
    BY <1>3 DEF closeEnd
  <2>2. BvTyped'
    BY <2>1 DEF BvTyped
  <2>3. BvPools' /\ BvRuns' /\ BvJobs' /\ BvWindows'
    BY <2>1 DEF BvPools, BvRuns, BvJobs, BvWindows
  <2> QED BY <2>2, <2>3
<1>4. CASE bvTick
  <2>1. /\ bvNow' = bvNow + 1
        /\ UNCHANGED <<bvCache, bvPool, bvQueue, bvQueued, bvLook, bvSince, bvClosed, bvRun, bvGranted>>
    BY <1>4 DEF bvTick
  <2>2. BvTyped'
    BY <2>1 DEF BvTyped
  <2>3. BvPools' /\ BvRuns' /\ BvJobs'
    BY <2>1 DEF BvPools, BvRuns, BvJobs
  <2>4. BvWindows'
    <3> SUFFICES ASSUME NEW j \in BvIPs
                 PROVE  /\ bvSince[j] >= 0 => bvGranted[j] = bvSince[j]
                        /\ ~bvClosed /\ bvSince[j] < 0 /\ bvGranted[j] >= 0 => bvNow' - bvGranted[j] > BvWindow + BvCooldown
      BY <2>1 DEF BvWindows
    <3>1. PICK n \in Nat, g \in {-1} \cup Nat : n = bvNow /\ g = bvGranted[j]
      BY DEF BvTyped
    <3> QED BY <1>0, <2>1, <3>1 DEF BvWindows
  <2> QED BY <2>2, <2>3, <2>4
<1>5. CASE UNCHANGED bvVars
  BY <1>5 DEF bvVars, BvTyped, BvPools, BvRuns, BvJobs, BvWindows
<1> QED BY <1>1, <1>2, <1>3, <1>4, <1>5

LEMMA BvStepKeeps == BotVerifyInv /\ [BotVerifyNext]_bvVars => BotVerifyInv'
<1> SUFFICES ASSUME BotVerifyInv, [BotVerifyNext]_bvVars PROVE BotVerifyInv'
  OBVIOUS
<1>1. ASSUME NEW ip \in BvIPs, VerifyAsync(ip) PROVE BotVerifyInv'
  BY <1>1, BvAskKeeps
<1>2. ASSUME NEW ip \in BvIPs, NEW c \in BvCallers, Verify(c, ip) PROVE BotVerifyInv'
  BY <1>2, BvCallerKeeps
<1>3. ASSUME NEW w \in BvWorkers, workerTake(w) PROVE BotVerifyInv'
  BY <1>3, BvTakeKeeps
<1>4. ASSUME NEW w \in BvWorkers, NEW v \in {"ok", "bad", "transient"}, workerStore(w, v) PROVE BotVerifyInv'
  BY <1>4, BvWorkerKeeps
<1>5. ASSUME NEW c \in BvCallers, NEW v \in {"ok", "bad", "transient"}, verifyReturn(c, v) PROVE BotVerifyInv'
  BY <1>5, BvCallerKeeps
<1>6. CASE bvCleanup
  BY <1>6, BvCleanupKeeps
<1>7. CASE prunePending \/ closeBegin \/ closeEnd \/ bvTick \/ UNCHANGED bvVars
  BY <1>7, BvRestKeeps
<1> QED BY <1>1, <1>2, <1>3, <1>4, <1>5, <1>6, <1>7 DEF BotVerifyNext

\* Every address noted as queued has its job, and a run of failures is as long as it was.
LEMMA BvJudged == BotVerifyInv => BvQueuedIsReal /\ BvForgivenessEnds
<1> SUFFICES ASSUME BotVerifyInv PROVE BvQueuedIsReal /\ BvForgivenessEnds
  OBVIOUS
<1> USE DEF BotVerifyInv
<1>1. BvQueuedIsReal
  <2> SUFFICES ASSUME ~bvClosed
               PROVE  bvQueued = ToSet(bvQueue) \union ({bvLook[w].ip : w \in BvWorkers} \ {""})
    BY DEF BvQueuedIsReal
  <2>1. PICK Q : Q = ToSet(bvQueue)
    OBVIOUS
  <2>2. PICK L : L = {bvLook[w].ip : w \in BvWorkers}
    OBVIOUS
  <2>3. PICK M : M = L \ {""}
    OBVIOUS
  <2>4. \A x \in Q : x \in BvIPs
    <3>1. bvQueue \in Seq(BvIPs)
      BY DEF BvTyped
    <3> QED BY <2>1, <3>1 DEF ToSet
  <2>5. \A x : x \in M <=> x \in BvIPs /\ \E w \in BvWorkers : bvLook[w].ip = x
    <3>1. BvIdle.ip = "" /\ \A j \in BvIPs : j # ""
      BY IdleAsksForNone, Zenon DEF BvIdle
    <3>2. PICK none : none = ""
      OBVIOUS
    <3>3. BvIdle.ip = none /\ \A j \in BvIPs : j # none
      BY <3>1, <3>2, Zenon
    <3>4. M = L \ {none}
      BY <2>3, <3>2, Zenon
    <3>5. \A w \in BvWorkers : bvLook[w].ip = none \/ bvLook[w].ip \in BvIPs
      <4>1. \A w \in BvWorkers : bvLook[w] \in {BvIdle} \cup [ip : BvIPs, at : Nat]
        BY DEF BvTyped, BvLookers
      <4> QED BY <3>3, <4>1
    <3> QED BY <2>2, <3>3, <3>4, <3>5
  <2>6. \A x \in bvQueued : x \in BvIPs
    BY DEF BvTyped
  <2>7. \A j \in BvIPs : j \in bvQueued <=> j \in Q \/ \E w \in BvWorkers : bvLook[w].ip = j
    BY <2>1 DEF BvJobs
  <2>8. bvQueued = Q \cup M
    BY <2>4, <2>5, <2>6, <2>7
  <2> QED BY <2>1, <2>2, <2>3, <2>8, Zenon
<1>2. BvForgivenessEnds
  <2> SUFFICES ASSUME NEW ip \in BvIPs, served(ip)
               PROVE  VerifyBot(ip) = "impersonation" <=> bvCache[ip].v = "bad" \/ bvRun[ip] > BvForgive
    BY DEF BvForgivenessEnds
  <2>1. PICK n \in Nat : n = BvForgive
    BY BvAssumption, Zenon
  <2>2. PICK v \in {"none", "ok", "bad", "transient"}, k \in Nat : v = bvCache[ip].v /\ k = bvCache[ip].run
    BY DEF BvTyped
  <2>3. v # "none"
    BY <2>2 DEF served
  <2>4. bvRun[ip] = IF v = "transient" THEN k ELSE 0
    BY <2>2 DEF BvRuns
  <2>5. VerifyBot(ip) = IF v = "ok" THEN "verified" ELSE IF v = "transient" /\ k <= n THEN "unverified" ELSE "impersonation"
    BY <2>1, <2>2 DEF VerifyBot, forgiven
  <2> QED BY <2>1, <2>2, <2>3, <2>4, <2>5
<1> QED BY <1>1, <1>2

\* A verified entry leaves for another verdict that is positive, or for its age.
LEMMA VerifiedStays ==
  ASSUME BotVerifyInv, BotVerifyNext, NEW ip \in BvIPs,
         bvCache[ip].v = "ok", bvCache'[ip].v = "none", bvNow - bvCache[ip].at <= 2 * BvTTL
  PROVE  \E k \in BvIPs : bvCache'[k].v = "ok" /\ bvCache'[k] # bvCache[k]
<1> USE DEF BotVerifyInv
<1>1. bvCache' # bvCache
  OBVIOUS
<1>2. ASSUME NEW k \in BvIPs, NEW v \in {"ok", "bad", "transient"}, NEW at \in Nat, storeLocked(k, v, at)
      PROVE  bvCache'[k].v = "ok" /\ bvCache'[k] # bvCache[k]
  <2>1. PICK gone \in SUBSET BvIPs : BvStored(k, v, at, gone)
    BY <1>2, BvStoreKeeps
  <2>2. bvCache'[k].v = v
    BY <2>1 DEF BvStored
  <2>3. ip # k /\ ip \in gone
    BY <2>1, <2>2 DEF BvStored
  <2>4. v = "ok" /\ bvCache[k].v # "ok"
    BY <2>1, <2>3 DEF BvStored
  <2> QED BY <2>2, <2>4
<1>3. ASSUME NEW l \in BvLookers, NEW k, k = bvLook[l].ip, bvLook[l] # BvIdle
      PROVE  k \in BvIPs /\ bvLook[l].at \in Nat
  BY <1>3 DEF BvTyped
<1>4. ASSUME NEW w \in BvWorkers, NEW v \in {"ok", "bad", "transient"}, workerStore(w, v)
      PROVE  \E k \in BvIPs : bvCache'[k].v = "ok" /\ bvCache'[k] # bvCache[k]
  <2>1. w \in BvLookers /\ bvLook[w] # BvIdle
    BY <1>4 DEF workerStore, BvLookers
  <2>2. storeLocked(bvLook[w].ip, v, bvLook[w].at)
    BY <1>1, <1>4 DEF workerStore
  <2> QED BY <1>2, <1>3, <2>1, <2>2
<1>5. ASSUME NEW c \in BvCallers, NEW v \in {"ok", "bad", "transient"}, verifyReturn(c, v)
      PROVE  \E k \in BvIPs : bvCache'[k].v = "ok" /\ bvCache'[k] # bvCache[k]
  <2>1. c \in BvLookers /\ bvLook[c] # BvIdle
    BY <1>5 DEF verifyReturn, BvLookers
  <2>2. storeLocked(bvLook[c].ip, v, bvLook[c].at)
    BY <1>1, <1>5 DEF verifyReturn
  <2> QED BY <1>2, <1>3, <2>1, <2>2
<1>6. ~ bvCleanup
  <2> SUFFICES ASSUME bvCleanup PROVE FALSE
    OBVIOUS
  <2>1. bvNow - bvCache[ip].at > 2 * BvTTL
    BY DEF bvCleanup, BvTyped
  <2>2. PICK n \in Nat, a \in Nat, T \in Nat : n = bvNow /\ a = bvCache[ip].at /\ T = BvTTL
    <3>1. BvTTL \in Nat
      BY BvAssumption, Zenon
    <3> QED BY <3>1 DEF BvTyped
  <2> QED BY <2>1, <2>2
<1>7. ASSUME NEW k \in BvIPs, VerifyAsync(k) PROVE FALSE
  BY <1>1, <1>7 DEF VerifyAsync
<1>8. ASSUME NEW k \in BvIPs, NEW c \in BvCallers, Verify(c, k) PROVE FALSE
  BY <1>1, <1>8 DEF Verify
<1>9. ASSUME NEW w \in BvWorkers, workerTake(w) PROVE FALSE
  BY <1>1, <1>9 DEF workerTake
<1>10. ~ (prunePending \/ closeBegin \/ closeEnd \/ bvTick)
  BY <1>1 DEF prunePending, closeBegin, closeEnd, bvTick
<1> QED BY <1>4, <1>5, <1>6, <1>7, <1>8, <1>9, <1>10 DEF BotVerifyNext

\* A window begins when the last one and its cooldown are over.
LEMMA WindowsApart ==
  ASSUME BotVerifyInv, BotVerifyNext, NEW ip \in BvIPs,
         bvGranted[ip] >= 0, bvGranted'[ip] >= 0, bvGranted'[ip] # bvGranted[ip]
  PROVE  bvNow - bvGranted[ip] > BvWindow + BvCooldown
<1> USE DEF BotVerifyInv
<1>1. bvGranted' # bvGranted
  OBVIOUS
<1>2. ASSUME NEW k \in BvIPs, VerifyAsync(k) PROVE bvNow - bvGranted[ip] > BvWindow + BvCooldown
  <2>1. ~bvClosed /\ bvSince[k] < 0 /\ bvGranted' = [bvGranted EXCEPT ![k] = bvNow]
    BY <1>1, <1>2 DEF VerifyAsync
  <2>2. k = ip
    BY <2>1 DEF BvTyped
  <2> QED BY <2>1, <2>2 DEF BvWindows
<1>3. ASSUME NEW w \in BvWorkers, NEW v \in {"ok", "bad", "transient"}, workerStore(w, v) PROVE FALSE
  <2>1. bvGranted' = [bvGranted EXCEPT ![bvLook[w].ip] = -1]
    BY <1>1, <1>3 DEF workerStore
  <2>2. bvGranted'[ip] = -1
    BY <2>1 DEF BvTyped
  <2> QED BY <2>2
<1>4. ASSUME NEW k \in BvIPs, NEW c \in BvCallers, Verify(c, k) PROVE FALSE
  BY <1>1, <1>4 DEF Verify
<1>5. ASSUME NEW w \in BvWorkers, workerTake(w) PROVE FALSE
  BY <1>1, <1>5 DEF workerTake
<1>6. ASSUME NEW c \in BvCallers, NEW v \in {"ok", "bad", "transient"}, verifyReturn(c, v) PROVE FALSE
  BY <1>1, <1>6 DEF verifyReturn
<1>7. ~ (bvCleanup \/ prunePending \/ closeBegin \/ closeEnd \/ bvTick)
  BY <1>1 DEF bvCleanup, prunePending, closeBegin, closeEnd, bvTick
<1> QED BY <1>2, <1>3, <1>4, <1>5, <1>6, <1>7 DEF BotVerifyNext

\* Nothing is stored in a closed verifier.
LEMMA ClosedStays ==
  ASSUME BotVerifyNext, bvClosed PROVE bvCache' = bvCache
BY DEF BotVerifyNext, VerifyAsync, Verify, workerTake, workerStore, verifyReturn, storable, bvCleanup,
       prunePending, closeBegin, closeEnd, bvTick

\* Whoever is accused said what DNS contradicts, or could not be looked up once too often: no queue,
\* eviction, expiry or Close accuses a client, costs a crawler its verdict or leaves an address
\* waiting (VerifyAsync, VerifyBot, storeLocked, worker, prunePending, Close).
THEOREM BotsAreJudgedRight == BotVerifySpec => BotsJudgedRight
<1>1. BotVerifyInit => BotVerifyInv
  BY BvBegins
<1>2. BotVerifyInv /\ [BotVerifyNext]_bvVars => BotVerifyInv'
  BY BvStepKeeps
<1>3. BotVerifyInv => BvQueuedIsReal /\ BvForgivenessEnds
  BY BvJudged
<1>4. BotVerifyInv /\ [BotVerifyNext]_bvVars =>
      [\A ip \in BvIPs :
         (bvCache[ip].v = "ok" /\ bvCache'[ip].v = "none" /\ bvNow - bvCache[ip].at <= 2 * BvTTL)
         => \E k \in BvIPs : bvCache'[k].v = "ok" /\ bvCache'[k] # bvCache[k]]_bvVars
  BY VerifiedStays
<1>5. BotVerifyInv /\ [BotVerifyNext]_bvVars =>
      [\A ip \in BvIPs :
         bvGranted[ip] >= 0 /\ bvGranted'[ip] >= 0 /\ bvGranted'[ip] # bvGranted[ip]
         => bvNow - bvGranted[ip] > BvWindow + BvCooldown]_bvVars
  BY WindowsApart
<1>6. [BotVerifyNext]_bvVars => [bvClosed => bvCache' = bvCache]_bvVars
  BY ClosedStays
<1> QED BY <1>1, <1>2, <1>3, <1>4, <1>5, <1>6, PTL
        DEF BotVerifySpec, BotsJudgedRight, BvVerifiedKept, BvPendingBounded, BvCloseJudgesNobody

-----------------------------------------------------------------------------
(***************************************************************************)
(* The learned patterns: whatever order the keys of a label are stored in, *)
(* a pattern is the operator's exactly when an operator named it, and one  *)
(* that is the operator's is neither relabelled nor evicted.               *)
(***************************************************************************)

\* The tables after each set of keys.
lpStores(after, Keys, label, byUser) ==
  after = [K \in SUBSET Keys |->
             IF K = {} THEN {lpPat} ELSE UNION {lpStoreAll(after[K \ {k}], k, label, byUser) : k \in K}]

LEMMA StoresExist ==
  ASSUME NEW Keys, IsFiniteSet(Keys), NEW label, NEW byUser
  PROVE  \E after : lpStores(after, Keys, label, byUser)
<1> DEFINE small(m) == {K \in SUBSET Keys : Cardinality(K) <= m}
<1> DEFINE next(f, K) ==
      IF K = {} THEN {lpPat} ELSE UNION {lpStoreAll(f[K \ {k}], k, label, byUser) : k \in K}
<1> DEFINE built(m) == \E f : f = [K \in small(m) |-> next(f, K)]
<1> DEFINE Bad == {m \in Nat : ~built(m)}
<1>0. \A K \in SUBSET Keys : IsFiniteSet(K) /\ Cardinality(K) \in Nat
  BY FS_Subset, FS_CardinalityType
<1>9. \A K \in SUBSET Keys : \A k \in K : Cardinality(K \ {k}) = Cardinality(K) - 1
  BY <1>0, FS_RemoveElement
<1>1. Bad = {}
  <2> SUFFICES ASSUME Bad # {} PROVE FALSE
    OBVIOUS
  <2>1. PICK m \in Bad : \A e \in Bad : ~ (<<e, m>> \in OpToRel(<, Nat))
    BY WFMin, NatLessThanWellFounded
  <2>2. CASE m = 0
    <3>1. \A K \in small(0) : K = {}
      <4> SUFFICES ASSUME NEW K \in small(0) PROVE K = {}
        OBVIOUS
      <4>1. IsFiniteSet(K) /\ Cardinality(K) = 0
        BY <1>0
      <4> QED BY <4>1, FS_EmptySet
    <3>2. PICK f : f = [K \in small(0) |-> {lpPat}]
      OBVIOUS
    <3>3. f = [K \in small(0) |-> next(f, K)]
      BY <3>1, <3>2
    <3> QED BY <2>2, <3>3
  <2>3. CASE m # 0
    <3>1. m - 1 \in Nat /\ m \in Nat /\ m - 1 < m
      BY <2>3
    <3>2. built(m - 1)
      <4>1. <<m - 1, m>> \in OpToRel(<, Nat)
        BY <3>1 DEF OpToRel
      <4> QED BY <2>1, <3>1, <4>1
    <3>3. PICK g : g = [K \in small(m - 1) |-> next(g, K)]
      BY <3>2
    <3>4. PICK f : f = [K \in small(m) |-> next(g, K)]
      OBVIOUS
    <3>5. \A K \in small(m - 1) : K \in small(m) /\ f[K] = g[K]
      <4>1. \A K \in small(m - 1) : K \in small(m)
        BY <1>0, <3>1
      <4>2. \A K \in small(m - 1) : g[K] = next(g, K)
        BY <3>3
      <4> HIDE DEF small, next
      <4> QED BY <3>4, <4>1, <4>2
    <3>6. ASSUME NEW K \in small(m) PROVE next(g, K) = next(f, K)
      <4>1. \A k \in K : K \ {k} \in small(m - 1)
        BY <1>0, <1>9, <3>1
      <4>2. \A k \in K : f[K \ {k}] = g[K \ {k}]
        BY <3>5, <4>1
      <4> QED BY <4>2
    <3>7. f = [K \in small(m) |-> next(f, K)]
      <4> HIDE DEF small, next
      <4> QED BY <3>4, <3>6
    <3> QED BY <3>7
  <2> QED BY <2>2, <2>3
<1>2. PICK n \in Nat : n = Cardinality(Keys)
  BY <1>0
<1>3. small(n) = SUBSET Keys
  BY <1>2, FS_Subset
<1>4. built(n)
  BY <1>1
<1> QED BY <1>3, <1>4 DEF lpStores

\* An operator has labelled k before.
LPHadWord(k) == k \in DOMAIN lpPat /\ lpPat[k].user

\* What a table looks like after the keys S of a label.
LPLearned(P, S, label, byUser) ==
  /\ \A k \in DOMAIN P : P[k].user \in BOOLEAN
  /\ \A k : LPHadWord(k) => k \in DOMAIN P /\ P[k].user /\ P[k].label = lpPat[k].label
  /\ \A k \in DOMAIN P : ~LPHadWord(k) =>
       IF byUser /\ k \in S THEN P[k].user /\ P[k].label = label ELSE ~P[k].user

LEMMA OneMoreKey ==
  ASSUME NEW P, NEW S, NEW k, k \notin S, NEW label, NEW byUser \in BOOLEAN,
         LPLearned(P, S, label, byUser), NEW Q \in lpStoreOne(P, k, label, byUser)
  PROVE  LPLearned(Q, S \cup {k}, label, byUser)
<1>1. CASE k \in DOMAIN P
  <2>1. PICK p, u : p = P[k] /\ u = updated(p, label, byUser)
    OBVIOUS
  <2>2. Q = lpPut(P, k, u)
    BY <1>1, <2>1 DEF lpStoreOne
  <2>3. p.user \in BOOLEAN
    BY <1>1, <2>1 DEF LPLearned
  <2>4. /\ u.label = IF byUser /\ ~p.user THEN label ELSE p.label
        /\ u.user = IF byUser /\ ~p.user THEN TRUE ELSE p.user
    BY <2>1 DEF updated, relabelled
  <2>5. DOMAIN Q = DOMAIN P /\ Q[k] = u /\ \A x \in DOMAIN P : x # k => Q[x] = P[x]
    BY <1>1, <2>2 DEF lpPut
  <2>6. CASE LPHadWord(k)
    <3>1. p.user /\ p.label = lpPat[k].label
      BY <2>1, <2>6 DEF LPLearned
    <3>2. u.user = p.user /\ u.label = p.label
      BY <2>4, <3>1
    <3> QED BY <2>3, <2>5, <2>6, <3>1, <3>2 DEF LPLearned
  <2>7. CASE ~LPHadWord(k)
    <3>1. ~p.user
      BY <1>1, <2>1, <2>7 DEF LPLearned
    <3>2. IF byUser THEN u.user /\ u.user = TRUE /\ u.label = label ELSE ~u.user /\ u.user \in BOOLEAN
      BY <2>3, <2>4, <3>1
    <3> QED BY <2>5, <2>7, <3>2 DEF LPLearned
  <2> QED BY <2>6, <2>7
<1>2. CASE k \notin DOMAIN P
  <2>1. PICK new : new = [label |-> label, user |-> byUser, conf |-> initialConfidence(k), seen |-> lpNow]
    OBVIOUS
  <2>2. \/ Q = lpPut(P, k, new)
        \/ Q = P
        \/ \E e \in evictable(P) : Q = lpPut(Restrict(P, DOMAIN P \ {e}), k, new)
    BY <1>2, <2>1 DEF lpStoreOne, inserted
  <2>3. new.label = label /\ new.user = byUser
    BY <2>1
  <2>4. ~LPHadWord(k)
    BY <1>2 DEF LPLearned
  <2>5. CASE Q = P
    BY <1>2, <2>5 DEF LPLearned
  <2>6. CASE Q = lpPut(P, k, new)
    <3>1. DOMAIN Q = DOMAIN P \cup {k} /\ Q[k] = new /\ \A x \in DOMAIN P : Q[x] = P[x]
      BY <1>2, <2>6 DEF lpPut
    <3> QED BY <2>3, <2>4, <3>1 DEF LPLearned
  <2>7. ASSUME NEW e \in evictable(P), Q = lpPut(Restrict(P, DOMAIN P \ {e}), k, new)
        PROVE  LPLearned(Q, S \cup {k}, label, byUser)
    <3>1. /\ DOMAIN Q = (DOMAIN P \ {e}) \cup {k} /\ Q[k] = new
          /\ \A x \in DOMAIN P : x # e => Q[x] = P[x]
      BY <1>2, <2>7 DEF lpPut, Restrict
    <3>2. e \in DOMAIN P /\ ~P[e].user
      BY DEF evictable
    <3>3. ~LPHadWord(e)
      BY <3>2 DEF LPLearned
    <3> QED BY <2>3, <2>4, <3>1, <3>3 DEF LPLearned
  <2> QED BY <2>2, <2>5, <2>6, <2>7
<1> QED BY <1>1, <1>2

\* The keys of a label are at most five.
LEMMA KeysFinite == ASSUME NEW T, NEW byUser PROVE IsFiniteSet(patternKeys(T, byUser))
<1>1. PICK F : F = {{"ua", "asn", "ja4h"}, {"ua", "asn"}, {"ua"}, {"ja4h"}}
                     \cup (IF byUser THEN {{"asn"}} ELSE {})
  OBVIOUS
<1>2. PICK a, b, c, d, e : a = {"ua", "asn", "ja4h"} /\ b = {"ua", "asn"} /\ c = {"ua"} /\ d = {"ja4h"} /\ e = {"asn"}
  OBVIOUS
<1>3. F \subseteq {a} \cup {b} \cup {c} \cup {d} \cup {e}
  BY <1>1, <1>2
<1>4. IsFiniteSet({a} \cup {b} \cup {c} \cup {d} \cup {e})
  BY FS_Singleton, FS_Union
<1>5. IsFiniteSet(F)
  BY <1>3, <1>4, FS_Subset
<1>6. patternKeys(T, byUser) \subseteq F
  <2>1. patternKeys(T, byUser) = (SUBSET T) \cap F
    BY <1>1, Zenon DEF patternKeys
  <2> QED BY <2>1
<1> QED BY <1>5, <1>6, FS_Subset

\* Whatever the order, the table has learned every key.
LEMMA AllKeysLearned ==
  ASSUME \A k \in DOMAIN lpPat : lpPat[k].user \in BOOLEAN,
         NEW T, NEW label, NEW byUser \in BOOLEAN, NEW P \in lpStored(T, label, byUser)
  PROVE  LPLearned(P, patternKeys(T, byUser), label, byUser)
<1>1. PICK Keys : Keys = patternKeys(T, byUser)
  OBVIOUS
<1>2. IsFiniteSet(Keys)
  BY <1>1, KeysFinite
<1>3. PICK after : lpStores(after, Keys, label, byUser) /\ P \in after[Keys]
  <2>1. PICK g : lpStores(g, Keys, label, byUser)
    BY <1>2, StoresExist
  <2> DEFINE is(after) == after = [K \in SUBSET Keys |->
        IF K = {} THEN {lpPat} ELSE UNION {lpStoreAll(after[K \ {k}], k, label, byUser) : k \in K}]
  <2> DEFINE F == CHOOSE after : is(after)
  <2>2. P \in F[Keys]
    BY <1>1 DEF lpStored
  <2>3. is(g)
    BY <2>1 DEF lpStores
  <2> HIDE DEF is
  <2>4. is(F)
    BY <2>3
  <2> HIDE DEF F
  <2> USE DEF is
  <2> QED BY <2>2, <2>4 DEF lpStores
<1>4. after[{}] = {lpPat}
  BY <1>3 DEF lpStores
<1>5. ASSUME NEW K \in SUBSET Keys, K # {}, NEW Q \in after[K]
      PROVE  \E k \in K : \E R \in after[K \ {k}] : Q \in lpStoreOne(R, k, label, byUser)
  <2>1. after[K] = UNION {lpStoreAll(after[K \ {k}], k, label, byUser) : k \in K}
    BY <1>3, <1>5 DEF lpStores
  <2>2. PICK k \in K : Q \in lpStoreAll(after[K \ {k}], k, label, byUser)
    BY <2>1
  <2> QED BY <2>2 DEF lpStoreAll
<1> DEFINE good(K) == \A Q \in after[K] : LPLearned(Q, K, label, byUser)
<1> DEFINE Bad == {m \in Nat : \E K \in SUBSET Keys : Cardinality(K) = m /\ ~good(K)}
<1>6. good({})
  BY <1>4 DEF LPLearned, LPHadWord
<1>7. ASSUME NEW K \in SUBSET Keys, NEW k \in K, good(K \ {k}), NEW R \in after[K \ {k}],
             NEW Q \in lpStoreOne(R, k, label, byUser)
      PROVE  LPLearned(Q, K, label, byUser)
  <2>1. PICK S : S = K \ {k}
    OBVIOUS
  <2>2. LPLearned(R, S, label, byUser) /\ k \notin S /\ S \cup {k} = K
    BY <1>7, <2>1
  <2> QED BY <2>2, OneMoreKey
<1>8. Bad = {}
  <2> SUFFICES ASSUME Bad # {} PROVE FALSE
    OBVIOUS
  <2>1. PICK m \in Bad : \A e \in Bad : ~ (<<e, m>> \in OpToRel(<, Nat))
    <3>1. Bad \subseteq Nat
      OBVIOUS
    <3> QED BY <3>1, WFMin, NatLessThanWellFounded
  <2>2. PICK K \in SUBSET Keys : Cardinality(K) = m /\ ~good(K)
    BY <2>1
  <2>3. PICK Q \in after[K] : ~LPLearned(Q, K, label, byUser)
    BY <2>2
  <2>4. K # {}
    BY <1>6, <2>2
  <2>5. PICK k \in K : \E R \in after[K \ {k}] : Q \in lpStoreOne(R, k, label, byUser)
    BY <1>5, <2>4
  <2>6. PICK R \in after[K \ {k}] : Q \in lpStoreOne(R, k, label, byUser)
    BY <2>5
  <2>7. ~good(K \ {k})
    BY <1>7, <2>3, <2>6
  <2>8. IsFiniteSet(K)
    BY <1>2, FS_Subset
  <2>9. Cardinality(K \ {k}) = m - 1 /\ m \in Nat /\ m - 1 \in Nat
    <3>1. IsFiniteSet(K \ {k}) /\ Cardinality(K \ {k}) = Cardinality(K) - 1
      BY <2>8, FS_RemoveElement
    <3>2. Cardinality(K) \in Nat /\ Cardinality(K \ {k}) \in Nat
      BY <2>8, <3>1, FS_CardinalityType
    <3> QED BY <2>2, <3>1, <3>2
  <2>10. m - 1 \in Bad
    BY <2>7, <2>9
  <2>11. <<m - 1, m>> \in OpToRel(<, Nat)
    BY <2>9 DEF OpToRel
  <2> QED BY <2>1, <2>10, <2>11
<1>9. Cardinality(Keys) \in Nat
  BY <1>2, FS_CardinalityType
<1>10. good(Keys)
  BY <1>8, <1>9
<1> QED BY <1>1, <1>3, <1>10

\* A stored pattern is an operator's exactly when an operator named it, and says what the first said.
LPInv ==
  /\ DOMAIN lpUser = DOMAIN lpPat
  /\ \A k \in DOMAIN lpPat :
       /\ lpPat[k].user \in BOOLEAN
       /\ IF lpPat[k].user THEN lpUser[k] # "none" /\ lpPat[k].label = lpUser[k] ELSE lpUser[k] = "none"

LEMMA LearningKeeps ==
  ASSUME LPInv, NEW T, NEW label, NEW byUser \in BOOLEAN, byUser => label # "none",
         learnPattern(T, label, byUser)
  PROVE  LPInv' /\ \A k \in DOMAIN lpPat : lpPat[k].user => k \in DOMAIN lpPat'
<1>1. PICK P, K :
        /\ P \in lpStored(T, label, byUser)
        /\ K = patternKeys(T, byUser) /\ lpPat' = P /\ lpUser' = userWords(P, K, label, byUser)
  BY DEF learnPattern
<1>2. LPLearned(P, K, label, byUser)
  BY <1>1, AllKeysLearned DEF LPInv
<1>3. DOMAIN lpUser' = DOMAIN P
  BY <1>1 DEF userWords
<1>4. ASSUME NEW k \in DOMAIN P
      PROVE  /\ P[k].user \in BOOLEAN
             /\ IF P[k].user THEN lpUser'[k] # "none" /\ P[k].label = lpUser'[k] ELSE lpUser'[k] = "none"
  <2>1. lpUser'[k] = IF k \in DOMAIN lpUser /\ k \in DOMAIN lpPat /\ lpUser[k] # "none" THEN lpUser[k]
                     ELSE IF byUser /\ k \in K THEN label ELSE "none"
    BY <1>1 DEF userWords
  <2>2. k \in DOMAIN lpUser /\ k \in DOMAIN lpPat /\ lpUser[k] # "none" <=> LPHadWord(k)
    BY DEF LPInv, LPHadWord
  <2>3. P[k].user \in BOOLEAN
    BY <1>2 DEF LPLearned
  <2>4. CASE LPHadWord(k)
    <3>1. lpUser'[k] = lpUser[k] /\ lpUser[k] # "none" /\ lpPat[k].label = lpUser[k]
      BY <2>1, <2>2, <2>4 DEF LPInv, LPHadWord
    <3>2. P[k].user /\ P[k].label = lpPat[k].label
      BY <1>2, <2>4 DEF LPLearned
    <3> QED BY <2>3, <3>1, <3>2
  <2>5. CASE ~LPHadWord(k)
    <3>1. lpUser'[k] = IF byUser /\ k \in K THEN label ELSE "none"
      BY <2>1, <2>2, <2>5
    <3>2. IF byUser /\ k \in K THEN P[k].user /\ P[k].label = label ELSE ~P[k].user
      BY <1>2, <2>5 DEF LPLearned
    <3> QED BY <2>3, <3>1, <3>2
  <2> QED BY <2>4, <2>5
<1>5. LPInv'
  BY <1>1, <1>3, <1>4 DEF LPInv
<1>6. \A k \in DOMAIN lpPat : lpPat[k].user => k \in DOMAIN lpPat'
  BY <1>1, <1>2 DEF LPLearned, LPHadWord
<1> QED BY <1>5, <1>6

LEMMA LPStepKeeps ==
  ASSUME LPInv, [LearnedPatternsNext]_lpVars
  PROVE  /\ LPInv'
         /\ \/ \E k \in DOMAIN lpPat : RemovePattern(k)
            \/ \A k \in DOMAIN lpPat : lpPat[k].user => k \in DOMAIN lpPat'
<1>1. CASE UNCHANGED <<lpPat, lpUser>>
  BY <1>1 DEF LPInv
<1>2. ASSUME NEW k \in DOMAIN lpPat, RemovePattern(k) PROVE LPInv'
  <2>1. /\ lpPat' = Restrict(lpPat, DOMAIN lpPat \ {k})
        /\ lpUser' = Restrict(lpUser, DOMAIN lpUser \ {k})
    BY <1>2 DEF RemovePattern
  <2> QED BY <2>1 DEF LPInv, Restrict
<1>3. ASSUME NEW T, NEW label \in LPLabels, LearnPattern(T, label)
      PROVE  LPInv' /\ \A k \in DOMAIN lpPat : lpPat[k].user => k \in DOMAIN lpPat'
  <2>1. learnPattern(T, label, TRUE)
    BY <1>3 DEF LearnPattern
  <2>2. label # "none"
    BY DEF LPLabels
  <2> QED BY <2>1, <2>2, LearningKeeps
<1>4. CASE FinalizeLearningPattern
  <2>1. learnPattern(lpClean.copy.seen, lpClean.copy.label, FALSE)
    BY <1>4 DEF FinalizeLearningPattern
  <2> QED BY <2>1, LearningKeeps
<1>5. ASSUME NEW ip, \/ \E label \in LPLabels : labelAddress(ip, label)
                     \/ \E trait \in LPTraits : accumulate(ip, trait)
                     \/ removeFromWindow({ip}) \/ copyLabel(ip)
      PROVE  UNCHANGED <<lpPat, lpUser>>
  BY <1>5 DEF labelAddress, accumulate, removeFromWindow, copyLabel
<1>6. CASE collectExpired \/ deleteExpiredLabels \/ lpTick \/ UNCHANGED lpVars
  BY <1>1, <1>6 DEF collectExpired, deleteExpiredLabels, lpTick, lpVars
<1> QED BY <1>1, <1>2, <1>3, <1>4, <1>5, <1>6 DEF LearnedPatternsNext

\* For any addresses, traits, limits and times, and in whatever order the keys of a label are
\* stored: a pattern an operator has labelled keeps the first operator's label, and only its
\* removal takes it out of the table (LearnPatternWithBehavior, evictOldestAutomaticPatternLocked).
THEOREM OperatorHasTheWord == LearnedPatternsSpec => UserHasTheWord
<1>1. LearnedPatternsInit => LPInv
  BY DEF LearnedPatternsInit, LPInv
<1>2. LPInv /\ [LearnedPatternsNext]_lpVars => LPInv'
  BY LPStepKeeps
<1>3. LPInv => LPUserKept
  BY DEF LPInv, LPUserKept
<1>4. LPInv /\ [LearnedPatternsNext]_lpVars =>
        [\/ \E k \in DOMAIN lpPat : RemovePattern(k)
         \/ \A k \in DOMAIN lpPat : lpPat[k].user => k \in DOMAIN lpPat']_lpVars
  BY LPStepKeeps
<1> QED BY <1>1, <1>2, <1>3, <1>4, PTL DEF LearnedPatternsSpec, UserHasTheWord, LPUserLabelsStay

-----------------------------------------------------------------------------
(***************************************************************************)
(* The trackers of requests: a counter is that of its window after every   *)
(* event and cut, and a streak is a walk back through the window.          *)
(***************************************************************************)

LEMMA SmallestOf ==
  ASSUME NEW S \in SUBSET Nat, S # {}
  PROVE  Min(S) \in S /\ \A y \in S : Min(S) <= y
<1>1. PICK d \in S : \A e \in S : d <= e
  BY DSSmallestOf
<1> QED BY <1>1 DEF Min

\* The latest event is always kept.
LEMMA LatestIsKept ==
  ASSUME NEW events, NEW n \in Nat, n > 0, Len(events) = n, DOMAIN events = 1..n,
         events[n].at = htNow, htNow \in Nat, NEW window \in Nat
  PROVE  keptFrom(events, window) \in 1..n
<1>1. PICK K : K = {i \in DOMAIN events : htNow - events[i].at <= window /\ Len(events) - i < HtMaxEvents}
  OBVIOUS
<1>2. HtMaxEvents \in Nat /\ HtMaxEvents > 0
  BY HtAssumption
<1>3. n \in K /\ K \subseteq 1..n /\ K \in SUBSET Nat
  BY <1>1, <1>2
<1>4. Min(K) \in K
  BY <1>3, SmallestOf
<1> QED BY <1>1, <1>3, <1>4 DEF keptFrom

\* A window after an event and the cut: what it holds.
HtMoves(S, e, x, window) ==
  \E n \in Nat, d \in Nat, events \in Seq(S) :
    /\ n = Len(e) /\ d \in 0..n /\ DOMAIN e = 1..n
    /\ events = Append(e, x) /\ Len(events) = n + 1 /\ DOMAIN events = 1..(n + 1)
    /\ events[n + 1] = x /\ \A i \in 1..n : events[i] = e[i]
    /\ keptFrom(events, window) = d + 1

LEMMA WindowMoves ==
  ASSUME NEW S, NEW e \in Seq(S), NEW x \in S, x.at = htNow, htNow \in Nat, NEW window \in Nat
  PROVE  HtMoves(S, e, x, window)
<1>1. PICK n \in Nat : n = Len(e)
  BY LenProperties
<1>2. PICK events \in Seq(S) : events = Append(e, x)
  BY AppendProperties
<1>3. Len(events) = n + 1 /\ events[n + 1] = x /\ \A i \in 1..n : events[i] = e[i]
  BY <1>1, <1>2, AppendProperties
<1>4. DOMAIN e = 1..n /\ DOMAIN events = 1..(n + 1)
  BY <1>1, <1>2, <1>3, LenProperties
<1>5. keptFrom(events, window) \in 1..(n + 1)
  <2>1. n + 1 \in Nat /\ n + 1 > 0 /\ events[n + 1].at = htNow
    BY <1>3
  <2> QED BY <1>3, <1>4, <2>1, LatestIsKept
<1>6. PICK d \in Nat : d \in 0..n /\ keptFrom(events, window) = d + 1
  <2>1. keptFrom(events, window) - 1 \in 0..n
    BY <1>5
  <2> QED BY <1>5, <2>1
<1> QED BY <1>1, <1>2, <1>3, <1>4, <1>6 DEF HtMoves

\* What is kept and what goes.
LEMMA WindowCut ==
  ASSUME NEW S, NEW events \in Seq(S), NEW n \in Nat, Len(events) = n + 1, NEW d \in 0..n
  PROVE  /\ SubSeq(events, d + 1, Len(events)) \in Seq(S)
         /\ Len(SubSeq(events, d + 1, Len(events))) = n + 1 - d
         /\ DOMAIN SubSeq(events, d + 1, Len(events)) = 1..(n + 1 - d)
         /\ \A i \in 1..(n + 1 - d) : SubSeq(events, d + 1, Len(events))[i] = events[i + d]
         /\ Len(SubSeq(events, 1, d)) = d /\ DOMAIN SubSeq(events, 1, d) = 1..d
         /\ \A i \in 1..d : SubSeq(events, 1, d)[i] = events[i]
<1>1. \A i \in 1..(n + 1) : events[i] \in S
  BY ElementOfSeq
<1>2. PICK kept : kept = SubSeq(events, d + 1, n + 1)
  OBVIOUS
<1>3. /\ kept \in Seq(S) /\ Len(kept) = n + 1 - d
      /\ \A i \in 1..(n + 1 - d) : kept[i] = events[i + d]
  <2>1. d + 1 \in Int /\ n + 1 \in Int /\ \A i \in (d + 1)..(n + 1) : events[i] \in S
    BY <1>1
  <2>2. /\ kept \in Seq(S) /\ Len(kept) = IF d + 1 <= n + 1 THEN (n + 1) - (d + 1) + 1 ELSE 0
        /\ \A i \in 1..((n + 1) - (d + 1) + 1) : kept[i] = events[(d + 1) + i - 1]
    BY <1>2, <2>1, SubSeqProperties
  <2>3. (n + 1) - (d + 1) + 1 = n + 1 - d /\ d + 1 <= n + 1
    OBVIOUS
  <2>4. \A i \in 1..(n + 1 - d) : (d + 1) + i - 1 = i + d
    OBVIOUS
  <2> QED BY <2>2, <2>3, <2>4
<1>4. PICK gone : gone = SubSeq(events, 1, d)
  OBVIOUS
<1>5. gone \in Seq(S) /\ Len(gone) = d /\ \A i \in 1..d : gone[i] = events[i]
  <2>1. 1 \in Int /\ d \in Int /\ \A i \in 1..d : events[i] \in S
    BY <1>1
  <2>2. /\ gone \in Seq(S) /\ Len(gone) = IF 1 <= d THEN d - 1 + 1 ELSE 0
        /\ \A i \in 1..(d - 1 + 1) : gone[i] = events[1 + i - 1]
    BY <1>4, <2>1, SubSeqProperties
  <2> QED BY <2>2
<1>6. DOMAIN kept = 1..(n + 1 - d) /\ DOMAIN gone = 1..d
  BY <1>3, <1>5, LenProperties
<1> QED BY <1>2, <1>3, <1>4, <1>5, <1>6

\* The places of s that hold an element of V.
HtMarked(s, V) == {i \in DOMAIN s : s[i] \in V}

\* A count kept beside a window is moved by what comes and what goes.
HtCounted(kept, e, x, gone, V) ==
  Cardinality(HtMarked(kept, V))
    = Cardinality(HtMarked(e, V)) + (IF x \in V THEN 1 ELSE 0) - Cardinality(HtMarked(gone, V))

LEMMA CutKeepsCount ==
  ASSUME NEW S, NEW V \in SUBSET S, NEW e \in Seq(S), NEW x \in S, NEW n \in Nat, n = Len(e), NEW d \in 0..n,
         NEW events \in Seq(S), events = Append(e, x),
         NEW kept, kept = SubSeq(events, d + 1, Len(events)), NEW gone, gone = SubSeq(events, 1, d)
  PROVE  HtCounted(kept, e, x, gone, V)
<1>1. /\ DOMAIN e = 1..n /\ DOMAIN events = 1..(n + 1) /\ Len(events) = n + 1
      /\ events[n + 1] = x /\ \A i \in 1..n : events[i] = e[i]
  BY AppendProperties, LenProperties
<1>2. /\ DOMAIN kept = 1..(n + 1 - d) /\ \A i \in 1..(n + 1 - d) : kept[i] = events[i + d]
      /\ DOMAIN gone = 1..d /\ \A i \in 1..d : gone[i] = events[i]
  <2>1. DOMAIN kept = 1..(n + 1 - d) /\ \A i \in 1..(n + 1 - d) : kept[i] = events[i + d]
    <3>1. Len(events) = n + 1
      BY <1>1
    <3> QED BY <3>1, WindowCut
  <2>2. DOMAIN gone = 1..d /\ \A i \in 1..d : gone[i] = events[i]
    BY <1>1, WindowCut
  <2> QED BY <2>1, <2>2
<1>3. PICK M : M = HtMarked(e, V)
  OBVIOUS
<1>4. PICK M1 : M1 = HtMarked(kept, V)
  OBVIOUS
<1>5. PICK G : G = HtMarked(gone, V)
  OBVIOUS
<1>6. PICK hit \in BOOLEAN : hit <=> x \in V
  OBVIOUS
<1>7. PICK W : W = M \cup (IF hit THEN {n + 1} ELSE {})
  OBVIOUS
<1>8. M \in SUBSET (1..n) /\ \A i \in 1..n : i \in M <=> events[i] \in V
  BY <1>1, <1>3 DEF HtMarked
<1>9. \A i \in 1..(n + 1) : i \in W <=> events[i] \in V
  <2>1. \A i \in 1..n : i # n + 1 /\ i \in 1..(n + 1)
    OBVIOUS
  <2>2. \A i \in 1..(n + 1) : i # n + 1 => i \in 1..n
    OBVIOUS
  <2>3. n + 1 \notin M
    BY <1>8
  <2>4. n + 1 \in W <=> hit
    BY <1>7, <2>3
  <2>5. \A i \in 1..n : i \in W <=> i \in M
    BY <1>7, <2>1
  <2> QED BY <1>1, <1>6, <1>8, <2>2, <2>4, <2>5
<1>10. G = {i \in 1..d : i \in W}
  <2>1. \A i \in 1..d : i \in 1..(n + 1)
    OBVIOUS
  <2>2. \A i : i \in G <=> i \in 1..d /\ events[i] \in V
    BY <1>2, <1>5 DEF HtMarked
  <2> QED BY <1>9, <2>1, <2>2
<1>11. M1 = {i \in 1..(n + 1 - d) : i + d \in W}
  <2>1. \A i \in 1..(n + 1 - d) : i + d \in 1..(n + 1)
    OBVIOUS
  <2>2. \A i : i \in M1 <=> i \in 1..(n + 1 - d) /\ events[i + d] \in V
    BY <1>2, <1>4 DEF HtMarked
  <2> QED BY <1>9, <2>1, <2>2
<1>12. Cardinality(M1) = Cardinality(M) + (IF hit THEN 1 ELSE 0) - Cardinality(G)
  <2>1. IsFiniteSet(M) /\ Cardinality(M) \in Nat
    <3>1. IsFiniteSet(1..n)
      BY FS_Interval
    <3> QED BY <1>8, <3>1, FS_Subset, FS_CardinalityType
  <2>2. IsFiniteSet(W) /\ Cardinality(W) = Cardinality(M) + (IF hit THEN 1 ELSE 0)
    <3>1. CASE hit
      <4>1. n + 1 \notin M /\ W = M \cup {n + 1}
        BY <1>7, <1>8, <3>1
      <4> QED BY <1>7, <2>1, <3>1, <4>1, FS_AddElement
    <3>2. CASE ~hit
      BY <1>7, <2>1, <3>2
    <3> QED BY <3>1, <3>2
  <2>3. PICK B : B = {i \in W : i > d}
    OBVIOUS
  <2>4. Cardinality(M1) = Cardinality(B)
    <3>1. \A i : i \in M1 <=> i \in 1..(n + 1 - d) /\ i + d \in W
      BY <1>11
    <3>2. \A i : i \in B <=> i \in W /\ i > d
      BY <2>3
    <3>3. \A i \in W : i \in 1..(n + 1)
      BY <1>7, <1>8
    <3>4. PICK f : f = [i \in M1 |-> i + d]
      OBVIOUS
    <3>5. f \in Bijection(M1, B)
      <4>1. f \in [M1 -> B]
        <5>1. \A i \in M1 : i + d \in W /\ i + d > d
          BY <3>1
        <5>2. \A i \in M1 : i + d \in B
          BY <3>2, <5>1
        <5> QED BY <3>4, <5>2
      <4>2. \A a, b \in M1 : f[a] = f[b] => a = b
        <5>1. \A a, b \in M1 : a \in Nat /\ b \in Nat
          BY <3>1
        <5>2. \A a, b \in M1 : a + d = b + d => a = b
          BY <5>1
        <5> QED BY <3>4, <5>2
      <4>3. \A y \in B : \E i \in M1 : f[i] = y
        <5> SUFFICES ASSUME NEW y \in B PROVE \E i \in M1 : f[i] = y
          OBVIOUS
        <5>1. y \in W /\ y \in 1..(n + 1) /\ y > d
          BY <3>2, <3>3
        <5>2. y - d \in 1..(n + 1 - d) /\ (y - d) + d = y
          BY <5>1
        <5>3. y - d \in M1
          BY <3>1, <5>1, <5>2
        <5> QED BY <3>4, <5>2, <5>3
      <4> QED BY <4>1, <4>2, <4>3 DEF Bijection, Injection, Surjection, IsInjective
    <3>6. IsFiniteSet(M1)
      <4>1. IsFiniteSet(1..(n + 1 - d))
        BY FS_Interval
      <4> QED BY <3>1, <4>1, FS_Subset
    <3>7. Cardinality(B) = Cardinality(M1)
      BY <3>5, <3>6, FS_Bijection DEF ExistsBijection
    <3> QED BY <3>7
  <2>5. G \cup B = W /\ G \cap B = {} /\ G \subseteq W /\ B \subseteq W
    <3>1. \A i \in W : i \in 1..(n + 1)
      BY <1>7, <1>8
    <3>2. \A i : i \in G <=> i \in W /\ ~(i > d)
      <4>1. \A i \in 1..(n + 1) : ~(i > d) <=> i \in 1..d
        OBVIOUS
      <4>2. \A i \in 1..d : i \in 1..(n + 1)
        OBVIOUS
      <4> QED BY <1>10, <3>1, <4>1, <4>2
    <3>3. \A i : i \in B <=> i \in W /\ i > d
      BY <2>3
    <3> QED BY <3>2, <3>3
  <2>6. IsFiniteSet(G) /\ IsFiniteSet(B)
    BY <2>2, <2>5, FS_Subset
  <2>7. Cardinality(G) \in Nat /\ Cardinality(B) \in Nat
    BY <2>6, FS_CardinalityType
  <2>8. Cardinality(W) = Cardinality(G) + Cardinality(B)
    <3>1. Cardinality(G \cup B) = Cardinality(G) + Cardinality(B) - Cardinality(G \cap B)
      BY <2>6, FS_Union
    <3>2. Cardinality(G \cap B) = 0
      <4>1. Cardinality({}) = 0
        BY FS_EmptySet
      <4> QED BY <2>5, <4>1
    <3>3. Cardinality(W) = Cardinality(G) + Cardinality(B) - 0
      BY <2>5, <3>1, <3>2
    <3> QED BY <2>7, <3>3
  <2>9. PICK u \in Nat : u = IF hit THEN 1 ELSE 0
    OBVIOUS
  <2>10. Cardinality(W) = Cardinality(M) + u
    BY <2>2, <2>9
  <2>11. Cardinality(M) + u = Cardinality(G) + Cardinality(B)
    BY <2>8, <2>10
  <2>12. Cardinality(B) = Cardinality(M) + u - Cardinality(G)
    <3>1. \A a, b, c \in Nat : a + u = c + b => b = a + u - c
      OBVIOUS
    <3>2. Cardinality(M) \in Nat /\ Cardinality(G) \in Nat /\ Cardinality(B) \in Nat
      BY <2>1, <2>7
    <3> QED BY <2>11, <3>1, <3>2, ZenonT(20)
  <2>13. Cardinality(M1) = Cardinality(M) + u - Cardinality(G)
    BY <2>4, <2>12
  <2> QED BY <2>9, <2>13
<1> QED BY <1>3, <1>4, <1>5, <1>6, <1>12 DEF HtCounted

-----------------------------------------------------------------------------
(* The streaks. *)

\* The places that count for a streak of kind k, and how far back i is.
HtParsed(events, k) == {i \in DOMAIN events : ~unparsed(events[i].path, k)}
HtFrom(events, k, i) == {j \in HtParsed(events, k) : j >= i}
HtRank(events, k, i) == Cardinality(HtFrom(events, k, i))

\* A streak of s that ended on last is a walk back through the window.
HtWalk(events, k, s) ==
  \A i \in HtParsed(events, k) : HtRank(events, k, i) <= s =>
    /\ events[i].path.kind = k
    /\ \A j \in HtParsed(events, k) :
         HtRank(events, k, j) <= s /\ j < i /\ (\A m \in HtParsed(events, k) : m <= j \/ m >= i)
           => events[i].path.n = events[j].path.n + 1

HtEnds(events, k, s, last) ==
  \A i \in HtParsed(events, k) :
    s >= 1 /\ (\A m \in HtParsed(events, k) : m <= i) => events[i].path.n = last

LEMMA RankIsPositive ==
  ASSUME NEW S, NEW e \in Seq(S), NEW k, NEW i \in HtParsed(e, k)
  PROVE  /\ i \in Nat /\ IsFiniteSet(HtFrom(e, k, i))
         /\ HtRank(e, k, i) \in Nat /\ HtRank(e, k, i) >= 1
<1>1. PICK n \in Nat : n = Len(e) /\ DOMAIN e = 1..n
  BY LenProperties
<1>2. i \in 1..n /\ HtFrom(e, k, i) \subseteq 1..n
  BY <1>1 DEF HtParsed, HtFrom
<1>3. IsFiniteSet(HtFrom(e, k, i))
  <2>1. IsFiniteSet(1..n)
    BY FS_Interval
  <2> QED BY <1>2, <2>1, FS_Subset
<1>4. i \in HtFrom(e, k, i)
  BY <1>2 DEF HtFrom
<1>5. HtRank(e, k, i) \in Nat
  BY <1>3, FS_CardinalityType DEF HtRank
<1>6. HtRank(e, k, i) # 0
  BY <1>3, <1>4, FS_EmptySet DEF HtRank
<1> QED BY <1>2, <1>3, <1>5, <1>6

\* What an event does to the places and their ranks.
HtAppended(e, x, k, n, events) ==
  /\ \A i : i \in HtParsed(events, k) <=>
             i \in HtParsed(e, k) \/ (i = n + 1 /\ ~unparsed(x.path, k))
  /\ \A i \in HtParsed(e, k) : i \in 1..n /\ events[i] = e[i]
  /\ events[n + 1] = x
  /\ ~unparsed(x.path, k) => HtRank(events, k, n + 1) = 1
  /\ \A i \in HtParsed(e, k) :
       HtRank(events, k, i) = HtRank(e, k, i) + (IF unparsed(x.path, k) THEN 0 ELSE 1)

LEMMA RankAfter ==
  ASSUME NEW S, NEW e \in Seq(S), NEW x \in S, NEW k, NEW n \in Nat, n = Len(e),
         NEW events \in Seq(S), events = Append(e, x)
  PROVE  HtAppended(e, x, k, n, events)
<1>1. /\ DOMAIN e = 1..n /\ DOMAIN events = 1..(n + 1)
      /\ events[n + 1] = x /\ \A i \in 1..n : events[i] = e[i]
  BY AppendProperties, LenProperties
<1>2. \A i : i \in HtParsed(events, k) <=>
             i \in HtParsed(e, k) \/ (i = n + 1 /\ ~unparsed(x.path, k))
  <2>1. \A i : i \in 1..(n + 1) <=> i \in 1..n \/ i = n + 1
    OBVIOUS
  <2>2. n + 1 \notin 1..n
    OBVIOUS
  <2> QED BY <1>1, <2>1, <2>2 DEF HtParsed
<1>3. \A i \in HtParsed(e, k) : i \in 1..n /\ events[i] = e[i]
  BY <1>1 DEF HtParsed
<1>4. ASSUME ~unparsed(x.path, k) PROVE HtRank(events, k, n + 1) = 1
  <2>1. HtFrom(events, k, n + 1) = {n + 1}
    <3>1. \A j \in HtParsed(e, k) : ~(j >= n + 1)
      BY <1>3
    <3>2. n + 1 >= n + 1
      OBVIOUS
    <3> QED BY <1>2, <1>4, <3>1, <3>2 DEF HtFrom
  <2> QED BY <2>1, FS_Singleton DEF HtRank
<1>5. ASSUME NEW i \in HtParsed(e, k)
      PROVE  HtRank(events, k, i) = HtRank(e, k, i) + (IF unparsed(x.path, k) THEN 0 ELSE 1)
  <2>1. i \in 1..n
    BY <1>3
  <2>2. IsFiniteSet(HtFrom(e, k, i)) /\ HtRank(e, k, i) \in Nat
    BY RankIsPositive
  <2>3. CASE unparsed(x.path, k)
    <3>1. HtFrom(events, k, i) = HtFrom(e, k, i)
      BY <1>2, <2>3 DEF HtFrom
    <3> QED BY <2>2, <2>3, <3>1 DEF HtRank
  <2>4. CASE ~unparsed(x.path, k)
    <3>1. n + 1 >= i
      BY <2>1
    <3>2. HtFrom(events, k, i) = HtFrom(e, k, i) \cup {n + 1}
      BY <1>2, <2>4, <3>1 DEF HtFrom
    <3>3. n + 1 \notin HtParsed(e, k)
      BY <1>3
    <3>4. n + 1 \notin HtFrom(e, k, i)
      BY <3>3 DEF HtFrom
    <3> QED BY <2>2, <2>4, <3>2, <3>4, FS_AddElement DEF HtRank
  <2> QED BY <2>3, <2>4
<1> QED BY <1>1, <1>2, <1>3, <1>4, <1>5 DEF HtAppended

\* What a cut does to the places and their ranks.
HtCut(events, k, n, d, kept) ==
  /\ \A i \in HtParsed(kept, k) :
       /\ i \in 1..(n + 1 - d) /\ i + d \in HtParsed(events, k) /\ kept[i] = events[i + d]
       /\ HtRank(kept, k, i) = HtRank(events, k, i + d)
  /\ \A i \in HtParsed(events, k) : i \in 1..(n + 1) /\ (i > d => i - d \in HtParsed(kept, k))

LEMMA RankCut ==
  ASSUME NEW S, NEW events \in Seq(S), NEW k, NEW n \in Nat, Len(events) = n + 1, NEW d \in 0..n,
         NEW kept, kept = SubSeq(events, d + 1, Len(events))
  PROVE  HtCut(events, k, n, d, kept)
<1>1. /\ DOMAIN kept = 1..(n + 1 - d) /\ \A i \in 1..(n + 1 - d) : kept[i] = events[i + d]
  BY WindowCut
<1>2. DOMAIN events = 1..(n + 1)
  BY LenProperties
<1>3. \A i \in 1..(n + 1 - d) : i + d \in 1..(n + 1)
  OBVIOUS
<1>4. \A i \in 1..(n + 1 - d) : i \in HtParsed(kept, k) <=> i + d \in HtParsed(events, k)
  BY <1>1, <1>2, <1>3 DEF HtParsed
<1>5. ASSUME NEW i \in HtParsed(kept, k) PROVE HtRank(kept, k, i) = HtRank(events, k, i + d)
  <2>1. i \in 1..(n + 1 - d)
    BY <1>1 DEF HtParsed
  <2>2. PICK A : A = HtFrom(kept, k, i)
    OBVIOUS
  <2>3. PICK B : B = HtFrom(events, k, i + d)
    OBVIOUS
  <2>4. \A j : j \in A <=> j \in 1..(n + 1 - d) /\ j + d \in HtParsed(events, k) /\ j >= i
    BY <1>1, <1>4, <2>2 DEF HtFrom, HtParsed
  <2>5. \A j : j \in B <=> j \in 1..(n + 1) /\ j \in HtParsed(events, k) /\ j >= i + d
    BY <1>2, <2>3 DEF HtFrom, HtParsed
  <2>6. PICK f : f = [j \in A |-> j + d]
    OBVIOUS
  <2>7. f \in Bijection(A, B)
    <3>1. f \in [A -> B]
      <4>1. \A j \in A : j + d \in 1..(n + 1) /\ j + d >= i + d
        BY <2>1, <2>4
      <4>2. \A j \in A : j + d \in B
        BY <2>4, <2>5, <4>1
      <4> QED BY <2>6, <4>2
    <3>2. \A a, b \in A : f[a] = f[b] => a = b
      <4>1. \A a, b \in A : a \in Nat /\ b \in Nat
        BY <2>4
      <4>2. \A a, b \in A : a + d = b + d => a = b
        BY <4>1
      <4> QED BY <2>6, <4>2
    <3>3. \A y \in B : \E j \in A : f[j] = y
      <4> SUFFICES ASSUME NEW y \in B PROVE \E j \in A : f[j] = y
        OBVIOUS
      <4>1. y \in 1..(n + 1) /\ y \in HtParsed(events, k) /\ y >= i + d
        BY <2>5
      <4>2. y - d \in 1..(n + 1 - d) /\ (y - d) + d = y /\ y - d >= i
        BY <2>1, <4>1
      <4>3. y - d \in A
        BY <2>4, <4>1, <4>2
      <4> QED BY <2>6, <4>2, <4>3
    <3> QED BY <3>1, <3>2, <3>3 DEF Bijection, Injection, Surjection, IsInjective
  <2>8. IsFiniteSet(A)
    <3>1. IsFiniteSet(1..(n + 1 - d))
      BY FS_Interval
    <3> QED BY <2>4, <3>1, FS_Subset
  <2>9. Cardinality(B) = Cardinality(A)
    BY <2>7, <2>8, FS_Bijection DEF ExistsBijection
  <2> QED BY <2>2, <2>3, <2>9 DEF HtRank
<1>6. ASSUME NEW i \in HtParsed(events, k)
      PROVE  i \in 1..(n + 1) /\ (i > d => i - d \in HtParsed(kept, k))
  <2>1. i \in 1..(n + 1)
    BY <1>2 DEF HtParsed
  <2>2. i > d => i - d \in 1..(n + 1 - d) /\ (i - d) + d = i
    BY <2>1
  <2> QED BY <1>4, <2>1, <2>2
<1>7. ASSUME NEW i \in HtParsed(kept, k)
      PROVE  i \in 1..(n + 1 - d) /\ i + d \in HtParsed(events, k) /\ kept[i] = events[i + d]
  <2>1. i \in 1..(n + 1 - d)
    BY <1>1 DEF HtParsed
  <2> QED BY <1>1, <1>4, <2>1
<1> QED BY <1>5, <1>6, <1>7 DEF HtCut

HtStreak(events, k, s, last) ==
  s \in Nat /\ last \in Int /\ HtWalk(events, k, s) /\ HtEnds(events, k, s, last)

\* A streak and where it ended, after the path p.
HtStreakNext(s, last, p, k) ==
  IF unparsed(p, k) THEN s ELSE IF p.kind # k THEN 0
  ELSE IF last # -1 /\ last + 1 = p.n THEN s + 1 ELSE 1

HtLastNext(last, p, k) == IF unparsed(p, k) THEN last ELSE IF p.kind = k THEN p.n ELSE -1

\* One event more.
LEMMA WalkAfter ==
  ASSUME NEW S, NEW e \in Seq(S), NEW x \in S, NEW k \in htKinds, NEW n \in Nat, n = Len(e),
         NEW events \in Seq(S), events = Append(e, x), x.path.n \in Nat,
         NEW s, NEW last, HtStreak(e, k, s, last)
  PROVE  HtStreak(events, k, HtStreakNext(s, last, x.path, k), HtLastNext(last, x.path, k))
<1>11. s \in Nat /\ last \in Int /\ HtWalk(e, k, s) /\ HtEnds(e, k, s, last)
  BY DEF HtStreak
<1>12. PICK s1 : /\ s1 = HtStreakNext(s, last, x.path, k)
                 /\ s1 = IF unparsed(x.path, k) THEN s ELSE IF x.path.kind # k THEN 0
                         ELSE IF last # -1 /\ last + 1 = x.path.n THEN s + 1 ELSE 1
  BY DEF HtStreakNext
<1>13. PICK last1 : /\ last1 = HtLastNext(last, x.path, k)
                    /\ last1 = IF unparsed(x.path, k) THEN last
                               ELSE IF x.path.kind = k THEN x.path.n ELSE -1
  BY DEF HtLastNext
<1> SUFFICES HtStreak(events, k, s1, last1)
  BY <1>12, <1>13
<1>10. HtAppended(e, x, k, n, events)
  BY RankAfter
<1>0. s1 \in Nat /\ last1 \in Int
  BY <1>11, <1>12, <1>13
<1>1. \A i : i \in HtParsed(events, k) <=>
             i \in HtParsed(e, k) \/ (i = n + 1 /\ ~unparsed(x.path, k))
  BY <1>10 DEF HtAppended
<1>2. \A i \in HtParsed(e, k) : i \in 1..n /\ events[i] = e[i]
  BY <1>10 DEF HtAppended
<1>3. events[n + 1] = x
  BY <1>10 DEF HtAppended
<1>4. ~unparsed(x.path, k) => HtRank(events, k, n + 1) = 1
  BY <1>10 DEF HtAppended
<1>5. \A i \in HtParsed(e, k) :
        HtRank(events, k, i) = HtRank(e, k, i) + (IF unparsed(x.path, k) THEN 0 ELSE 1)
  BY <1>10 DEF HtAppended
<1>6. \A i \in HtParsed(e, k) : HtRank(e, k, i) \in Nat /\ HtRank(e, k, i) >= 1
  BY RankIsPositive
<1>7. CASE unparsed(x.path, k)
  <2>1. \A i : i \in HtParsed(events, k) <=> i \in HtParsed(e, k)
    BY <1>1, <1>7
  <2>2. \A i \in HtParsed(e, k) : HtRank(events, k, i) = HtRank(e, k, i)
    BY <1>5, <1>6, <1>7
  <2>3. s1 = s /\ last1 = last
    BY <1>7, <1>12, <1>13
  <2>4. HtWalk(events, k, s1)
    BY <1>2, <1>11, <2>1, <2>2, <2>3 DEF HtWalk
  <2>5. HtEnds(events, k, s1, last1)
    BY <1>2, <1>11, <2>1, <2>3 DEF HtEnds
  <2> QED BY <1>0, <2>4, <2>5 DEF HtStreak
<1>8. CASE ~unparsed(x.path, k) /\ x.path.kind # k
  <2>1. s1 = 0
    BY <1>8, <1>12
  <2>2. \A i \in HtParsed(events, k) : ~(HtRank(events, k, i) <= s1)
    <3>1. \A i \in HtParsed(e, k) : ~(HtRank(events, k, i) <= s1)
      BY <1>5, <1>6, <1>8, <2>1
    <3>2. ~(HtRank(events, k, n + 1) <= s1)
      BY <1>4, <1>8, <2>1
    <3> QED BY <1>1, <3>1, <3>2
  <2>3. HtWalk(events, k, s1)
    BY <2>2 DEF HtWalk
  <2>4. HtEnds(events, k, s1, last1)
    BY <2>1 DEF HtEnds
  <2> QED BY <1>0, <2>3, <2>4 DEF HtStreak
<1>9. CASE ~unparsed(x.path, k) /\ x.path.kind = k
  <2>1. \A i : i \in HtParsed(events, k) <=> i \in HtParsed(e, k) \/ i = n + 1
    BY <1>1, <1>9
  <2>2. \A i \in HtParsed(e, k) : HtRank(events, k, i) = HtRank(e, k, i) + 1 /\ i < n + 1 /\ i \in Nat
    <3>1. \A i \in HtParsed(e, k) : HtRank(events, k, i) = HtRank(e, k, i) + 1
      BY <1>5, <1>9
    <3>2. \A i \in HtParsed(e, k) : i < n + 1 /\ i \in Nat
      BY <1>2
    <3> QED BY <3>1, <3>2
  <2>3. last1 = x.path.n
    BY <1>9, <1>13
  <2>4. HtEnds(events, k, s1, last1)
    <3> SUFFICES ASSUME NEW i \in HtParsed(events, k), \A m \in HtParsed(events, k) : m <= i
                 PROVE  events[i].path.n = last1
      BY DEF HtEnds
    <3>1. n + 1 <= i
      BY <2>1
    <3>2. i \notin HtParsed(e, k)
      BY <2>2, <3>1
    <3> QED BY <1>3, <2>1, <2>3, <3>2
  <2>5. CASE last # -1 /\ last + 1 = x.path.n
    <3>1. s1 = s + 1
      BY <1>9, <1>12, <2>5
    <3>2. \A i \in HtParsed(e, k) : HtRank(events, k, i) <= s1 <=> HtRank(e, k, i) <= s
      BY <1>6, <1>11, <2>2, <3>1
    <3>3. ASSUME NEW i \in HtParsed(events, k), HtRank(events, k, i) <= s1
          PROVE  /\ events[i].path.kind = k
                 /\ \A j \in HtParsed(events, k) :
                      HtRank(events, k, j) <= s1 /\ j < i /\ (\A m \in HtParsed(events, k) : m <= j \/ m >= i)
                        => events[i].path.n = events[j].path.n + 1
      <4>1. CASE i \in HtParsed(e, k)
        <5>1. HtRank(e, k, i) <= s /\ events[i] = e[i]
          BY <1>2, <3>2, <3>3, <4>1
        <5>2. e[i].path.kind = k
          BY <1>11, <4>1, <5>1 DEF HtWalk
        <5>3. ASSUME NEW j \in HtParsed(events, k), HtRank(events, k, j) <= s1, j < i,
                     \A m \in HtParsed(events, k) : m <= j \/ m >= i
              PROVE  events[i].path.n = events[j].path.n + 1
          <6>1. i < n + 1 /\ i \in Nat
            BY <2>2, <4>1
          <6>2. j # n + 1
            BY <5>3, <6>1
          <6>3. j \in HtParsed(e, k)
            BY <2>1, <6>2
          <6>4. HtRank(e, k, j) <= s /\ events[j] = e[j]
            BY <1>2, <3>2, <5>3, <6>3
          <6>5. \A m \in HtParsed(e, k) : m <= j \/ m >= i
            BY <2>1, <5>3
          <6> QED BY <1>11, <4>1, <5>1, <5>3, <6>3, <6>4, <6>5 DEF HtWalk
        <5> QED BY <5>1, <5>2, <5>3
      <4>2. CASE i = n + 1
        <5>1. ASSUME NEW j \in HtParsed(events, k), HtRank(events, k, j) <= s1, j < i,
                     \A m \in HtParsed(events, k) : m <= j \/ m >= i
              PROVE  events[i].path.n = events[j].path.n + 1
          <6>1. j \in HtParsed(e, k)
            BY <2>1, <4>2, <5>1
          <6>2. HtRank(e, k, j) <= s /\ events[j] = e[j]
            BY <1>2, <3>2, <5>1, <6>1
          <6>3. s >= 1
            BY <1>6, <1>11, <6>1, <6>2
          <6>4. \A m \in HtParsed(e, k) : m <= j
            <7> SUFFICES ASSUME NEW m \in HtParsed(e, k) PROVE m <= j
              OBVIOUS
            <7>1. m < n + 1 /\ m \in Nat
              BY <2>2
            <7>2. m <= j \/ m >= i
              BY <2>1, <5>1
            <7> QED BY <4>2, <7>1, <7>2
          <6>5. e[j].path.n = last
            BY <1>11, <6>1, <6>3, <6>4 DEF HtEnds
          <6> QED BY <1>3, <2>5, <4>2, <6>2, <6>5
        <5> QED BY <1>3, <1>9, <4>2, <5>1
      <4> QED BY <2>1, <4>1, <4>2
    <3>4. HtWalk(events, k, s1)
      BY <3>3 DEF HtWalk
    <3> QED BY <1>0, <2>4, <3>4 DEF HtStreak
  <2>6. CASE ~(last # -1 /\ last + 1 = x.path.n)
    <3>1. s1 = 1
      BY <1>9, <1>12, <2>6
    <3>2. \A i \in HtParsed(events, k) : HtRank(events, k, i) <= s1 => i = n + 1
      <4>1. \A i \in HtParsed(e, k) : ~(HtRank(events, k, i) <= s1)
        BY <1>6, <1>11, <2>2, <3>1
      <4> QED BY <2>1, <4>1
    <3>3. HtWalk(events, k, s1)
      <4>1. events[n + 1].path.kind = k
        BY <1>3, <1>9
      <4>2. ~(n + 1 < n + 1)
        OBVIOUS
      <4> QED BY <3>2, <4>1, <4>2 DEF HtWalk
    <3> QED BY <1>0, <2>4, <3>3 DEF HtStreak
  <2> QED BY <2>5, <2>6
<1> QED BY <1>7, <1>8, <1>9

\* The streak is capped, and the first events go.
LEMMA WalkCut ==
  ASSUME NEW S, NEW events \in Seq(S), NEW k, NEW n \in Nat, Len(events) = n + 1, NEW d \in 0..n,
         NEW kept, kept = SubSeq(events, d + 1, Len(events)),
         NEW s \in Nat, NEW s1 \in Nat, s1 <= s, NEW last,
         HtWalk(events, k, s), HtEnds(events, k, s, last)
  PROVE  HtWalk(kept, k, s1) /\ HtEnds(kept, k, s1, last)
<1>6. HtCut(events, k, n, d, kept)
  BY RankCut
<1>1. \A i \in HtParsed(kept, k) :
        /\ i \in 1..(n + 1 - d) /\ i + d \in HtParsed(events, k) /\ kept[i] = events[i + d]
        /\ HtRank(kept, k, i) = HtRank(events, k, i + d)
  BY <1>6 DEF HtCut
<1>2. \A i \in HtParsed(events, k) : i \in 1..(n + 1) /\ (i > d => i - d \in HtParsed(kept, k))
  BY <1>6 DEF HtCut
<1>3. \A i \in HtParsed(events, k) : HtRank(events, k, i) \in Nat
  BY RankIsPositive
<1>4. ASSUME NEW i \in HtParsed(kept, k), HtRank(kept, k, i) <= s1
      PROVE  /\ kept[i].path.kind = k
             /\ \A j \in HtParsed(kept, k) :
                  HtRank(kept, k, j) <= s1 /\ j < i /\ (\A m \in HtParsed(kept, k) : m <= j \/ m >= i)
                    => kept[i].path.n = kept[j].path.n + 1
  <2>1. i + d \in HtParsed(events, k) /\ kept[i] = events[i + d]
    BY <1>1
  <2>2. HtRank(events, k, i + d) <= s
    BY <1>1, <1>3, <1>4, <2>1
  <2>3. events[i + d].path.kind = k
    BY <2>1, <2>2 DEF HtWalk
  <2>4. ASSUME NEW j \in HtParsed(kept, k), HtRank(kept, k, j) <= s1, j < i,
               \A m \in HtParsed(kept, k) : m <= j \/ m >= i
        PROVE  kept[i].path.n = kept[j].path.n + 1
    <3>1. j + d \in HtParsed(events, k) /\ kept[j] = events[j + d]
      BY <1>1
    <3>2. HtRank(events, k, j + d) <= s
      BY <1>1, <1>3, <2>4, <3>1
    <3>3. i \in 1..(n + 1 - d) /\ j \in 1..(n + 1 - d)
      BY <1>1
    <3>4. j + d < i + d
      BY <2>4, <3>3
    <3>5. \A m \in HtParsed(events, k) : m <= j + d \/ m >= i + d
      <4> SUFFICES ASSUME NEW m \in HtParsed(events, k) PROVE m <= j + d \/ m >= i + d
        OBVIOUS
      <4>1. m \in 1..(n + 1)
        BY <1>2
      <4>2. CASE m > d
        <5>1. m - d <= j \/ m - d >= i
          BY <1>2, <2>4, <4>2
        <5> QED BY <3>3, <4>1, <5>1
      <4>3. CASE ~(m > d)
        BY <3>3, <4>1, <4>3
      <4> QED BY <4>2, <4>3
    <3>6. events[i + d].path.n = events[j + d].path.n + 1
      BY <2>1, <2>2, <3>1, <3>2, <3>4, <3>5 DEF HtWalk
    <3> QED BY <2>1, <3>1, <3>6
  <2> QED BY <2>1, <2>3, <2>4
<1>5. ASSUME NEW i \in HtParsed(kept, k), s1 >= 1, \A m \in HtParsed(kept, k) : m <= i
      PROVE  kept[i].path.n = last
  <2>1. i + d \in HtParsed(events, k) /\ kept[i] = events[i + d] /\ i \in 1..(n + 1 - d)
    BY <1>1
  <2>2. \A m \in HtParsed(events, k) : m <= i + d
    <3> SUFFICES ASSUME NEW m \in HtParsed(events, k) PROVE m <= i + d
      OBVIOUS
    <3>1. m \in 1..(n + 1)
      BY <1>2
    <3>2. CASE m > d
      <4>1. m - d <= i
        BY <1>2, <1>5, <3>2
      <4> QED BY <2>1, <3>1, <4>1
    <3>3. CASE ~(m > d)
      BY <2>1, <3>1, <3>3
    <3> QED BY <3>2, <3>3
  <2>3. s >= 1
    BY <1>5
  <2>4. events[i + d].path.n = last
    BY <2>1, <2>2, <2>3 DEF HtEnds
  <2> QED BY <2>1, <2>4
<1> QED BY <1>4, <1>5 DEF HtWalk, HtEnds

-----------------------------------------------------------------------------
(* The inductive invariant. *)

HtEvents == [path : HtPaths, at : Nat]
HtOfPath(q) == {x \in HtEvents : x.path = q}

HtPathOk(w) ==
  /\ w \in [events : Seq(HtEvents), counts : [HtPaths -> Int], total : Int, seen : Nat,
            streak : [htKinds -> Nat], last : [htKinds -> Int], prints : SUBSET HtPrints]
  /\ w.total = Len(w.events)
  /\ \A q \in HtPaths : w.counts[q] = Cardinality(HtMarked(w.events, HtOfPath(q)))
  /\ \A k \in htKinds : HtStreak(w.events, k, w.streak[k], w.last[k])

HtErrEvents == [status : HtStatuses, at : Nat]
HtOfStatus(s) == {x \in HtErrEvents : x.status = s}

HtErrOk(w) ==
  /\ w.events \in Seq(HtErrEvents)
  /\ w.n404 = Cardinality(HtMarked(w.events, HtOfStatus(404)))
  /\ w.n403 = Cardinality(HtMarked(w.events, HtOfStatus(403)))

\* What the throttle forgot is older than the ttl.
HtToldOk(now, quiet, told) ==
  /\ now \in Nat /\ told \in [HtClients -> Int]
  /\ \A c \in DOMAIN quiet : c \in HtClients /\ quiet[c] = told[c] /\ told[c] \in Nat
  /\ \A c \in HtClients : \/ told[c] = -1
                           \/ /\ told[c] \in Nat
                              /\ (c \in DOMAIN quiet \/ now - told[c] > HtIdle)

HtInv ==
  /\ \A c \in DOMAIN htPaths : HtPathOk(htPaths[c])
  /\ \A c \in DOMAIN htErrors : HtErrOk(htErrors[c])
  /\ HtToldOk(htNow, htQuiet, htTold)

LEMMA NothingMarked == \A V : Cardinality(HtMarked(<<>>, V)) = 0
<1>1. \A V : HtMarked(<<>>, V) = {}
  BY DEF HtMarked
<1> QED BY <1>1, FS_EmptySet

LEMMA MarkedIsNat ==
  ASSUME NEW S, NEW e \in Seq(S), NEW V
  PROVE  Cardinality(HtMarked(e, V)) \in Nat
<1>1. PICK n \in Nat : DOMAIN e = 1..n
  BY LenProperties
<1>2. IsFiniteSet(1..n) /\ HtMarked(e, V) \subseteq 1..n
  BY <1>1, FS_Interval DEF HtMarked
<1> QED BY <1>2, FS_Subset, FS_CardinalityType

LEMMA NewPathWindowOk ==
  ASSUME htNow \in Nat
  PROVE  HtPathOk(newPathWindow)
<1>1. \A k : HtParsed(<<>>, k) = {}
  BY DEF HtParsed
<1>2. \A k : HtStreak(<<>>, k, 0, -1)
  BY <1>1 DEF HtWalk, HtEnds, HtStreak
<1>3. <<>> \in Seq(HtEvents) /\ Len(<<>>) = 0
  BY EmptySeq
<1>4. PICK w : w = newPathWindow
  OBVIOUS
<1>5. /\ w.events = <<>> /\ w.total = 0
      /\ \A q \in HtPaths : w.counts[q] = 0
      /\ \A k \in htKinds : w.streak[k] = 0 /\ w.last[k] = -1
  BY <1>4 DEF newPathWindow
<1>6. w \in [events : Seq(HtEvents), counts : [HtPaths -> Int], total : Int, seen : Nat,
             streak : [htKinds -> Nat], last : [htKinds -> Int], prints : SUBSET HtPrints]
  BY <1>3, <1>4 DEF newPathWindow
<1>7. \A q \in HtPaths : w.counts[q] = Cardinality(HtMarked(w.events, HtOfPath(q)))
  BY <1>5, NothingMarked
<1>8. \A k \in htKinds : HtStreak(w.events, k, w.streak[k], w.last[k])
  BY <1>2, <1>5
<1> QED BY <1>3, <1>4, <1>5, <1>6, <1>7, <1>8 DEF HtPathOk

LEMMA CapIsSmaller ==
  ASSUME NEW s \in Nat
  PROVE  Min({s, HtMaxEvents + 1}) \in Nat /\ Min({s, HtMaxEvents + 1}) <= s
<1>1. HtMaxEvents + 1 \in Nat
  BY HtAssumption
<1>2. PICK S \in SUBSET Nat : S = {s, HtMaxEvents + 1} /\ S # {}
  BY <1>1
<1>3. Min(S) \in S /\ \A y \in S : Min(S) <= y
  BY <1>2, SmallestOf
<1> QED BY <1>1, <1>2, <1>3

\* A request of path p: the counters and the streaks are those of its window.
LEMMA PathMoves ==
  ASSUME htNow \in Nat, NEW w, HtPathOk(w), NEW p \in HtPaths
  PROVE  HtPathOk(pathWindowAfter(w, p))
<1> SUFFICES ASSUME
         NEW events, events = Append(w.events, [path |-> p, at |-> htNow]),
         NEW from, from = keptFrom(events, HtWindow),
         NEW gone, gone = SubSeq(events, 1, from - 1),
         NEW counts, counts = countsAfter(w, p, gone),
         NEW total, total = totalAfter(w, gone),
         NEW streak, streak = [k \in htKinds |-> Min({streakAfter(w, p, k), HtMaxEvents + 1})],
         NEW last, last = [k \in htKinds |->
                   IF unparsed(p, k) THEN w.last[k] ELSE IF p.kind = k THEN p.n ELSE -1],
         NEW w1, w1 = [events |-> SubSeq(events, from, Len(events)), seen |-> htNow,
                       counts |-> counts, total |-> total, streak |-> streak, last |-> last,
                       prints |-> w.prints]
             PROVE  HtPathOk(w1)
  BY DEF pathWindowAfter
<1>1. PICK x \in HtEvents : x = [path |-> p, at |-> htNow] /\ x.path = p /\ x.at = htNow
  BY DEF HtEvents
<1>2. PICK e \in Seq(HtEvents) : e = w.events
  BY DEF HtPathOk
<1>3. PICK n \in Nat, d \in Nat :
        /\ n = Len(e) /\ d \in 0..n /\ events \in Seq(HtEvents) /\ events = Append(e, x)
        /\ Len(events) = n + 1 /\ DOMAIN events = 1..(n + 1) /\ from = d + 1
  <2>1. HtWindow \in Nat
    BY HtAssumption
  <2>2. events = Append(e, x)
    BY <1>1, <1>2
  <2>3. HtMoves(HtEvents, e, x, HtWindow)
    BY <1>1, <2>1, WindowMoves
  <2> QED BY <2>2, <2>3 DEF HtMoves
<1>4. PICK kept : kept = SubSeq(events, d + 1, Len(events)) /\ kept = SubSeq(events, from, Len(events))
  BY <1>3
<1>5. gone = SubSeq(events, 1, d)
  BY <1>3
<1>6. kept \in Seq(HtEvents) /\ Len(kept) = n + 1 - d
  BY <1>3, <1>4, WindowCut
<1>7. Len(gone) = d /\ DOMAIN gone = 1..d
  BY <1>3, <1>5, WindowCut
<1>8. \A i \in 1..d : gone[i] \in HtEvents
  <2>1. \A i \in 1..d : gone[i] = events[i]
    BY <1>3, <1>5, WindowCut
  <2>2. \A i \in 1..(n + 1) : events[i] \in HtEvents
    BY <1>3, ElementOfSeq
  <2>3. \A i \in 1..d : i \in 1..(n + 1)
    BY <1>3
  <2> QED BY <2>1, <2>2, <2>3
<1>9. total = Len(kept) /\ total \in Int
  <2>1. w.total = n
    BY <1>2, <1>3 DEF HtPathOk
  <2>2. total = n + 1 - d
    BY <1>7, <2>1 DEF totalAfter
  <2> QED BY <1>6, <2>2
<1>10. \A q \in HtPaths : counts[q] = Cardinality(HtMarked(kept, HtOfPath(q)))
  <2> SUFFICES ASSUME NEW q \in HtPaths
               PROVE  counts[q] = Cardinality(HtMarked(kept, HtOfPath(q)))
    OBVIOUS
  <2>1. PICK V \in SUBSET HtEvents : V = HtOfPath(q)
    BY DEF HtOfPath
  <2>2. Cardinality(HtMarked(kept, V))
           = Cardinality(HtMarked(e, V)) + (IF x \in V THEN 1 ELSE 0) - Cardinality(HtMarked(gone, V))
    <3>1. HtCounted(kept, e, x, gone, V)
      BY <1>3, <1>4, <1>5, CutKeepsCount
    <3> QED BY <3>1 DEF HtCounted
  <2>3. x \in V <=> q = p
    BY <1>1, <2>1 DEF HtOfPath
  <2>4. HtMarked(gone, V) = {i \in DOMAIN gone : gone[i].path = q}
    BY <1>7, <1>8, <2>1 DEF HtMarked, HtOfPath
  <2>5. w.counts[q] = Cardinality(HtMarked(e, V))
    BY <1>2, <2>1 DEF HtPathOk
  <2>6. counts[q] = w.counts[q] + (IF q = p THEN 1 ELSE 0) - Cardinality(HtMarked(gone, V))
    BY <2>4 DEF countsAfter
  <2>7. PICK u \in Nat : u = (IF q = p THEN 1 ELSE 0) /\ u = (IF x \in V THEN 1 ELSE 0)
    BY <2>3
  <2>8. counts[q] = Cardinality(HtMarked(e, V)) + u - Cardinality(HtMarked(gone, V))
    BY <2>5, <2>6, <2>7
  <2>9. Cardinality(HtMarked(kept, V)) = Cardinality(HtMarked(e, V)) + u - Cardinality(HtMarked(gone, V))
    BY <2>2, <2>7
  <2> QED BY <2>1, <2>8, <2>9
<1>11. counts \in [HtPaths -> Int]
  <2>1. counts = [q \in HtPaths |-> counts[q]]
    BY DEF countsAfter
  <2>2. \A q \in HtPaths : counts[q] \in Int
    BY <1>6, <1>10, MarkedIsNat
  <2> QED BY <2>1, <2>2
<1>12. ASSUME NEW k \in htKinds
       PROVE  HtStreak(kept, k, streak[k], last[k])
  <2>1. HtStreak(e, k, w.streak[k], w.last[k])
    BY <1>2 DEF HtPathOk
  <2>2. x.path.n \in Nat
    BY <1>1, HtAssumption
  <2>3. PICK s1 : s1 = HtStreakNext(w.streak[k], w.last[k], x.path, k)
    OBVIOUS
  <2>4. PICK last1 : last1 = HtLastNext(w.last[k], x.path, k)
    OBVIOUS
  <2>5. HtStreak(events, k, s1, last1)
    BY <1>3, <2>1, <2>2, <2>3, <2>4, WalkAfter
  <2>6. s1 = streakAfter(w, p, k) /\ last1 = last[k]
    BY <1>1, <2>3, <2>4 DEF streakAfter, HtStreakNext, HtLastNext
  <2>7. streak[k] = Min({s1, HtMaxEvents + 1})
    BY <2>6
  <2>8. s1 \in Nat /\ last1 \in Int /\ HtWalk(events, k, s1) /\ HtEnds(events, k, s1, last1)
    BY <2>5 DEF HtStreak
  <2>9. streak[k] \in Nat /\ streak[k] <= s1
    BY <2>7, <2>8, CapIsSmaller
  <2>10. HtWalk(kept, k, streak[k]) /\ HtEnds(kept, k, streak[k], last1)
    BY <1>3, <1>4, <2>8, <2>9, WalkCut
  <2> QED BY <2>6, <2>8, <2>9, <2>10 DEF HtStreak
<1>13. streak \in [htKinds -> Nat] /\ last \in [htKinds -> Int]
  BY <1>12 DEF HtStreak
<1>14. PICK v : v = [events |-> kept, counts |-> counts, total |-> total, seen |-> htNow,
                     streak |-> streak, last |-> last, prints |-> w.prints]
  OBVIOUS
<1>15. w.prints \in SUBSET HtPrints /\ w1 = v
  BY <1>4, <1>14 DEF HtPathOk
<1>16. v \in [events : Seq(HtEvents), counts : [HtPaths -> Int], total : Int, seen : Nat,
              streak : [htKinds -> Nat], last : [htKinds -> Int], prints : SUBSET HtPrints]
  BY <1>6, <1>9, <1>11, <1>13, <1>14, <1>15
<1>17. /\ v.events = kept /\ v.total = total /\ v.counts = counts /\ v.streak = streak /\ v.last = last
  BY <1>14
<1> QED BY <1>9, <1>10, <1>12, <1>15, <1>16, <1>17 DEF HtPathOk

LEMMA PrintsMove ==
  ASSUME htNow \in Nat, NEW w, HtPathOk(w), NEW f \in HtPrints,
         NEW w1, w1 = [w EXCEPT !.seen = htNow, !.prints = @ \cup {f}]
  PROVE  HtPathOk(w1)
<1>1. w1 \in [events : Seq(HtEvents), counts : [HtPaths -> Int], total : Int, seen : Nat,
              streak : [htKinds -> Nat], last : [htKinds -> Int], prints : SUBSET HtPrints]
  BY DEF HtPathOk
<1>2. /\ w1.events = w.events /\ w1.total = w.total /\ w1.counts = w.counts
      /\ w1.streak = w.streak /\ w1.last = w.last
  BY DEF HtPathOk
<1> QED BY <1>1, <1>2 DEF HtPathOk

LEMMA PathRequests ==
  ASSUME HtInv, NEW c \in HtClients, NEW p \in HtPaths, updatePathEntropy(c, p)
  PROVE  HtInv'
<1>1. htNow \in Nat
  BY DEF HtInv, HtToldOk
<1>2. PICK w : w = pathWindow(c)
  OBVIOUS
<1>3. HtPathOk(w)
  BY <1>1, <1>2, NewPathWindowOk DEF HtInv, pathWindow
<1>4. PICK w1 : w1 = pathWindowAfter(w, p)
  OBVIOUS
<1>5. HtPathOk(w1)
  BY <1>1, <1>3, <1>4, PathMoves
<1>6. htPaths' = htPut(htPaths, c, w1)
  BY <1>2, <1>4 DEF updatePathEntropy
<1>7. \A d \in DOMAIN htPaths' : HtPathOk(htPaths'[d])
  BY <1>5, <1>6 DEF htPut, HtInv
<1>8. UNCHANGED <<htErrors, htQuiet, htTold, htNow>>
  BY DEF updatePathEntropy
<1> QED BY <1>7, <1>8 DEF HtInv

LEMMA PrintRequests ==
  ASSUME HtInv, NEW c \in HtClients, NEW f \in HtPrints, checkJA4Consistency(c, f)
  PROVE  HtInv'
<1>1. htNow \in Nat
  BY DEF HtInv, HtToldOk
<1>2. PICK w : w = pathWindow(c)
  OBVIOUS
<1>3. HtPathOk(w)
  BY <1>1, <1>2, NewPathWindowOk DEF HtInv, pathWindow
<1>4. PICK w1 : w1 = [w EXCEPT !.seen = htNow, !.prints = @ \cup {f}]
  OBVIOUS
<1>5. HtPathOk(w1)
  BY <1>1, <1>3, <1>4, PrintsMove
<1>6. htPaths' = htPut(htPaths, c, w1)
  BY <1>2, <1>4 DEF checkJA4Consistency
<1>7. \A d \in DOMAIN htPaths' : HtPathOk(htPaths'[d])
  BY <1>5, <1>6 DEF htPut, HtInv
<1>8. UNCHANGED <<htErrors, htQuiet, htTold, htNow>>
  BY DEF checkJA4Consistency
<1> QED BY <1>7, <1>8 DEF HtInv

LEMMA MarkedStatus ==
  ASSUME NEW e, NEW n \in Nat, DOMAIN e = 1..n, \A i \in 1..n : e[i] \in HtErrEvents, NEW s
  PROVE  Cardinality(HtMarked(e, HtOfStatus(s))) = numberOf(e, s)
<1>1. HtMarked(e, HtOfStatus(s)) = {i \in DOMAIN e : e[i].status = s}
  BY DEF HtMarked, HtOfStatus
<1> QED BY <1>1 DEF numberOf

LEMMA ErrorsMove ==
  ASSUME htNow \in Nat, NEW w, HtErrOk(w), NEW status \in HtStatuses
  PROVE  HtErrOk(errorWindowAfter(w, status))
<1>1. PICK all : all = Append(w.events, [status |-> status, at |-> htNow])
  OBVIOUS
<1>2. PICK from : from = keptFrom(all, HtErrWindow)
  OBVIOUS
<1>3. PICK old : old = SubSeq(all, 1, from - 1)
  OBVIOUS
<1>16. PICK w1 : w1 = errorWindowAfter(w, status)
  OBVIOUS
<1>17. w1.events = SubSeq(all, from, Len(all))
  BY <1>1, <1>2, <1>16 DEF errorWindowAfter
<1>18. w1.n404 = w.n404 + (IF status = 404 THEN 1 ELSE 0) - numberOf(old, 404)
  BY <1>1, <1>2, <1>3, <1>16 DEF errorWindowAfter, notFoundAfter
<1>19. w1.n403 = w.n403 + (IF status = 403 THEN 1 ELSE 0) - numberOf(old, 403)
  BY <1>1, <1>2, <1>3, <1>16 DEF errorWindowAfter
<1>4. PICK e \in Seq(HtErrEvents) : e = w.events
  BY DEF HtErrOk
<1>5. PICK x \in HtErrEvents : x = [status |-> status, at |-> htNow] /\ x.status = status /\ x.at = htNow
  <2>1. [status |-> status, at |-> htNow] \in HtErrEvents
    BY DEF HtErrEvents
  <2> QED BY <2>1
<1>6. PICK n \in Nat, d \in Nat, events \in Seq(HtErrEvents) :
        /\ n = Len(e) /\ d \in 0..n /\ events = Append(e, x)
        /\ Len(events) = n + 1 /\ keptFrom(events, HtErrWindow) = d + 1
  <2>1. HtMoves(HtErrEvents, e, x, HtErrWindow)
    BY <1>5, HtAssumption, WindowMoves
  <2> QED BY <2>1 DEF HtMoves
<1>7. PICK kept : kept = SubSeq(events, d + 1, Len(events))
  OBVIOUS
<1>8. PICK gone : gone = SubSeq(events, 1, d)
  OBVIOUS
<1>9. kept \in Seq(HtErrEvents)
  BY <1>6, <1>7, WindowCut
<1>10. \A s : Cardinality(HtMarked(gone, HtOfStatus(s))) = numberOf(gone, s)
  <2>1. DOMAIN gone = 1..d /\ \A i \in 1..d : gone[i] = events[i]
    BY <1>6, <1>8, WindowCut
  <2>2. \A i \in 1..(n + 1) : events[i] \in HtErrEvents
    BY <1>6, ElementOfSeq
  <2>3. \A i \in 1..d : i \in 1..(n + 1)
    BY <1>6
  <2>4. \A i \in 1..d : gone[i] \in HtErrEvents
    BY <2>1, <2>2, <2>3
  <2> QED BY <2>1, <2>4, MarkedStatus
<1>11. ASSUME NEW s
       PROVE  Cardinality(HtMarked(kept, HtOfStatus(s)))
                = Cardinality(HtMarked(e, HtOfStatus(s))) + (IF status = s THEN 1 ELSE 0) - numberOf(gone, s)
  <2>1. PICK V \in SUBSET HtErrEvents : V = HtOfStatus(s)
    BY DEF HtOfStatus
  <2>2. HtCounted(kept, e, x, gone, V)
    BY <1>6, <1>7, <1>8, CutKeepsCount
  <2>3. x \in V <=> status = s
    BY <1>5, <2>1 DEF HtOfStatus
  <2>4. PICK u : u = (IF status = s THEN 1 ELSE 0) /\ u = (IF x \in V THEN 1 ELSE 0)
    BY <2>3
  <2>5. Cardinality(HtMarked(kept, V)) = Cardinality(HtMarked(e, V)) + u - Cardinality(HtMarked(gone, V))
    BY <2>2, <2>4 DEF HtCounted
  <2> QED BY <1>10, <2>1, <2>4, <2>5
<1>12. all = events /\ old = gone /\ SubSeq(all, from, Len(all)) = kept
  <2>1. all = events
    BY <1>1, <1>4, <1>5, <1>6
  <2>2. from = d + 1
    BY <1>2, <1>6, <2>1
  <2>3. from - 1 = d
    BY <2>2
  <2> QED BY <1>3, <1>7, <1>8, <2>1, <2>2, <2>3
<1>13. w1.n404 = Cardinality(HtMarked(kept, HtOfStatus(404)))
  <2>1. Cardinality(HtMarked(kept, HtOfStatus(404)))
          = Cardinality(HtMarked(e, HtOfStatus(404))) + (IF status = 404 THEN 1 ELSE 0) - numberOf(gone, 404)
    BY <1>11
  <2>2. w.n404 = Cardinality(HtMarked(e, HtOfStatus(404)))
    BY <1>4 DEF HtErrOk
  <2>3. w1.n404 = w.n404 + (IF status = 404 THEN 1 ELSE 0) - numberOf(gone, 404)
    BY <1>12, <1>18
  <2> QED BY <2>1, <2>2, <2>3
<1>14. w1.n403 = Cardinality(HtMarked(kept, HtOfStatus(403)))
  <2>1. Cardinality(HtMarked(kept, HtOfStatus(403)))
          = Cardinality(HtMarked(e, HtOfStatus(403))) + (IF status = 403 THEN 1 ELSE 0) - numberOf(gone, 403)
    BY <1>11
  <2>2. w.n403 = Cardinality(HtMarked(e, HtOfStatus(403)))
    BY <1>4 DEF HtErrOk
  <2>3. w1.n403 = w.n403 + (IF status = 403 THEN 1 ELSE 0) - numberOf(gone, 403)
    BY <1>12, <1>19
  <2> QED BY <2>1, <2>2, <2>3
<1>15. w1.events = kept
  BY <1>12, <1>17
<1> QED BY <1>9, <1>13, <1>14, <1>15, <1>16 DEF HtErrOk

LEMMA ErrorRequests ==
  ASSUME HtInv, NEW c \in HtClients, NEW status \in HtStatuses, trackHTTPErrors(c, status)
  PROVE  HtInv'
<1>1. htNow \in Nat
  BY DEF HtInv, HtToldOk
<1>2. PICK w : w = errorWindow(c)
  OBVIOUS
<1>3. HtErrOk(w)
  <2>1. HtErrOk(newErrorWindow)
    <3>1. <<>> \in Seq(HtErrEvents)
      OBVIOUS
    <3> QED BY <3>1, NothingMarked DEF HtErrOk, newErrorWindow
  <2> QED BY <1>2, <2>1 DEF HtInv, errorWindow
<1>4. PICK w1 : w1 = errorWindowAfter(w, status)
  OBVIOUS
<1>5. HtErrOk(w1)
  BY <1>1, <1>3, <1>4, ErrorsMove
<1>6. htErrors' = htPut(htErrors, c, w1)
  BY <1>2, <1>4 DEF trackHTTPErrors
<1>7. \A g \in DOMAIN htErrors' : HtErrOk(htErrors'[g])
  BY <1>5, <1>6 DEF htPut, HtInv
<1>8. UNCHANGED <<htPaths, htQuiet, htTold, htNow>>
  BY DEF trackHTTPErrors
<1> QED BY <1>7, <1>8 DEF HtInv

\* One client's latency anomaly is told.
LEMMA AnomalyTold ==
  ASSUME HtInv, NEW c \in HtClients, shouldEmitLatencyAnomaly(c)
  PROVE  HtInv' /\ \A d \in HtClients :
           (htTold[d]' # htTold[d] /\ htTold[d] # -1) => htTold[d]' - htTold[d] >= HtQuiet
<1>1. HtToldOk(htNow, htQuiet, htTold)
  BY DEF HtInv
<1>2. /\ htQuiet' = htPut(htQuiet, c, htNow) /\ htTold' = [htTold EXCEPT ![c] = htNow]
      /\ UNCHANGED <<htPaths, htErrors, htNow>>
  BY DEF shouldEmitLatencyAnomaly
<1>3. HtToldOk(htNow, htQuiet, htTold)'
  <2>1. htTold' \in [HtClients -> Int] /\ htNow' \in Nat /\ htNow' = htNow /\ htNow \in Nat
    BY <1>1, <1>2 DEF HtToldOk
  <2>2. htTold'[c] = htNow /\ \A d \in HtClients : d # c => htTold'[d] = htTold[d]
    BY <1>1, <1>2 DEF HtToldOk
  <2>3. /\ DOMAIN htQuiet' = DOMAIN htQuiet \cup {c} /\ htQuiet'[c] = htNow
        /\ \A d \in DOMAIN htQuiet : d # c => htQuiet'[d] = htQuiet[d]
    BY <1>2 DEF htPut
  <2>4. \A d \in DOMAIN htQuiet' : d \in HtClients /\ htQuiet'[d] = htTold'[d] /\ htTold'[d] \in Nat
    BY <1>1, <2>1, <2>2, <2>3 DEF HtToldOk
  <2>5. \A d \in HtClients : \/ htTold'[d] = -1
                             \/ /\ htTold'[d] \in Nat
                                /\ (d \in DOMAIN htQuiet' \/ htNow' - htTold'[d] > HtIdle)
    BY <1>1, <2>1, <2>2, <2>3 DEF HtToldOk
  <2> QED BY <2>1, <2>4, <2>5 DEF HtToldOk
<1>4. ASSUME NEW d \in HtClients, htTold[d]' # htTold[d], htTold[d] # -1
      PROVE  htTold[d]' - htTold[d] >= HtQuiet
  <2>1. d = c /\ htTold'[d] = htNow
    BY <1>1, <1>2, <1>4 DEF HtToldOk
  <2>2. htTold[c] \in Nat /\ htNow \in Nat
    BY <1>1, <1>4, <2>1 DEF HtToldOk
  <2>3. HtQuiet \in Nat /\ HtIdle \in Nat /\ HtQuiet <= HtIdle
    BY HtAssumption
  <2>4. CASE c \in DOMAIN htQuiet
    <3>1. htQuiet[c] = htTold[c]
      BY <1>1, <2>4 DEF HtToldOk
    <3>2. ~(htNow - htQuiet[c] < HtQuiet)
      BY <2>4 DEF shouldEmitLatencyAnomaly, throttled
    <3> QED BY <2>1, <2>2, <2>3, <3>1, <3>2
  <2>5. CASE c \notin DOMAIN htQuiet
    <3>1. htNow - htTold[c] > HtIdle
      BY <1>1, <1>4, <2>1, <2>5 DEF HtToldOk
    <3> QED BY <2>1, <2>2, <2>3, <3>1
  <2> QED BY <2>4, <2>5
<1>5. (\A d \in DOMAIN htPaths : HtPathOk(htPaths[d]))' /\ (\A d \in DOMAIN htErrors : HtErrOk(htErrors[d]))'
  BY <1>2 DEF HtInv
<1>6. HtInv'
  BY <1>3, <1>5 DEF HtInv
<1> QED BY <1>4, <1>6

\* The cleanup forgets only what is older than the ttl.
LEMMA CleanupKeepsTrackers ==
  ASSUME HtInv, cleanupTrackingMaps
  PROVE  HtInv'
<1>1. /\ \A c \in DOMAIN htPaths' : c \in DOMAIN htPaths /\ htPaths'[c] = htPaths[c]
      /\ \A c \in DOMAIN htErrors' : c \in DOMAIN htErrors /\ htErrors'[c] = htErrors[c]
  <2>1. PICK K : htPaths' = htOnly(htPaths, K)
    BY DEF cleanupTrackingMaps
  <2>2. PICK L : htErrors' = htOnly(htErrors, L)
    BY DEF cleanupTrackingMaps
  <2> QED BY <2>1, <2>2 DEF htOnly
<1>2. htQuiet' = htOnly(htQuiet, quietKept) /\ UNCHANGED <<htTold, htNow>>
  BY DEF cleanupTrackingMaps
<1>3. HtToldOk(htNow, htQuiet, htTold)
  BY DEF HtInv
<1>4. /\ \A c : c \in DOMAIN htQuiet' <=> c \in DOMAIN htQuiet /\ htNow - htQuiet[c] <= HtIdle
      /\ \A c \in DOMAIN htQuiet' : htQuiet'[c] = htQuiet[c]
  BY <1>2 DEF htOnly, quietKept
<1>5. \A c \in HtClients : \/ htTold[c] = -1
                           \/ /\ htTold[c] \in Nat
                              /\ (c \in DOMAIN htQuiet' \/ htNow - htTold[c] > HtIdle)
  <2> SUFFICES ASSUME NEW c \in HtClients, htTold[c] # -1, c \notin DOMAIN htQuiet'
               PROVE  htTold[c] \in Nat /\ htNow - htTold[c] > HtIdle
    BY <1>3 DEF HtToldOk
  <2>1. htTold[c] \in Nat /\ htNow \in Nat /\ HtIdle \in Nat
    BY <1>3, HtAssumption DEF HtToldOk
  <2>2. CASE c \in DOMAIN htQuiet
    <3>1. htQuiet[c] = htTold[c] /\ ~(htNow - htQuiet[c] <= HtIdle)
      BY <1>3, <1>4, <2>2 DEF HtToldOk
    <3> QED BY <2>1, <3>1
  <2>3. CASE c \notin DOMAIN htQuiet
    BY <1>3, <2>1, <2>3 DEF HtToldOk
  <2> QED BY <2>2, <2>3
<1>6. HtToldOk(htNow, htQuiet, htTold)'
  <2>1. \A c \in DOMAIN htQuiet' : c \in HtClients /\ htQuiet'[c] = htTold[c] /\ htTold[c] \in Nat
    BY <1>3, <1>4 DEF HtToldOk
  <2>2. htNow \in Nat /\ htTold \in [HtClients -> Int]
    BY <1>3 DEF HtToldOk
  <2> QED BY <1>2, <1>5, <2>1, <2>2 DEF HtToldOk
<1> QED BY <1>1, <1>6 DEF HtInv

LEMMA TrackersTick ==
  ASSUME HtInv, htTick
  PROVE  HtInv'
<1>1. HtToldOk(htNow, htQuiet, htTold)
  BY DEF HtInv
<1>2. htNow' = htNow + 1 /\ UNCHANGED <<htPaths, htErrors, htQuiet, htTold>>
  BY DEF htTick
<1>3. HtToldOk(htNow, htQuiet, htTold)'
  <2>1. HtIdle \in Nat
    BY HtAssumption
  <2> QED BY <1>1, <1>2, <2>1 DEF HtToldOk
<1> QED BY <1>2, <1>3 DEF HtInv

LEMMA TrackersStep ==
  ASSUME HtInv, [HTTPTrackingNext]_htVars
  PROVE  HtInv' /\ \A d \in HtClients :
           (htTold[d]' # htTold[d] /\ htTold[d] # -1) => htTold[d]' - htTold[d] >= HtQuiet
<1>1. CASE pathSteps
  <2>1. HtInv' /\ htTold' = htTold
    <3>1. ASSUME NEW c \in HtClients, NEW p \in HtPaths, updatePathEntropy(c, p) PROVE HtInv' /\ htTold' = htTold
      BY <3>1, PathRequests DEF updatePathEntropy
    <3>2. ASSUME NEW c \in HtClients, NEW f \in HtPrints, checkJA4Consistency(c, f) PROVE HtInv' /\ htTold' = htTold
      BY <3>2, PrintRequests DEF checkJA4Consistency
    <3> QED BY <1>1, <3>1, <3>2 DEF pathSteps
  <2> QED BY <2>1
<1>2. CASE errorSteps
  <2>1. PICK c \in HtClients, s \in HtStatuses : trackHTTPErrors(c, s)
    BY <1>2 DEF errorSteps
  <2>2. HtInv' /\ htTold' = htTold
    BY <2>1, ErrorRequests DEF trackHTTPErrors
  <2> QED BY <2>2
<1>3. CASE rateSteps
  <2>1. PICK c \in HtClients : updateHTTPRate(c) \/ shouldEmitLatencyAnomaly(c)
    BY <1>3 DEF rateSteps
  <2>2. CASE updateHTTPRate(c)
    <3>1. UNCHANGED <<htPaths, htErrors, htQuiet, htTold, htNow>>
      BY <2>2 DEF updateHTTPRate
    <3> QED BY <3>1 DEF HtInv
  <2>3. CASE shouldEmitLatencyAnomaly(c)
    BY <2>3, AnomalyTold
  <2> QED BY <2>1, <2>2, <2>3
<1>4. CASE tableSteps
  <2>1. HtInv'
    BY <1>4, CleanupKeepsTrackers, TrackersTick DEF tableSteps
  <2>2. htTold' = htTold
    BY <1>4 DEF tableSteps, cleanupTrackingMaps, htTick
  <2> QED BY <2>1, <2>2
<1>5. CASE UNCHANGED htVars
  BY <1>5 DEF htVars, HtInv
<1> QED BY <1>1, <1>2, <1>3, <1>4, <1>5 DEF HTTPTrackingNext

LEMMA TrackersInitial == HTTPTrackingInit => HtInv
<1> SUFFICES ASSUME HTTPTrackingInit PROVE HtInv
  OBVIOUS
<1>1. DOMAIN htPaths = {} /\ DOMAIN htErrors = {} /\ DOMAIN htQuiet = {}
  BY DEF HTTPTrackingInit, htNone
<1>2. HtToldOk(htNow, htQuiet, htTold)
  BY <1>1 DEF HTTPTrackingInit, HtToldOk
<1> QED BY <1>1, <1>2 DEF HtInv

LEMMA TrackersExactNow == HtInv => HtPathsExact /\ HtStreakReal /\ HtErrorsExact
<1> SUFFICES ASSUME HtInv PROVE HtPathsExact /\ HtStreakReal /\ HtErrorsExact
  OBVIOUS
<1>1. ASSUME NEW s \in Seq(HtEvents), NEW q \in HtPaths
      PROVE  HtMarked(s, HtOfPath(q)) = {i \in DOMAIN s : s[i].path = q}
  <2>1. \A i \in DOMAIN s : s[i] \in HtEvents
    OBVIOUS
  <2> QED BY <2>1 DEF HtMarked, HtOfPath
<1>2. HtPathsExact
  <2> SUFFICES ASSUME NEW c \in DOMAIN htPaths
               PROVE  /\ htPaths[c].total = Len(htPaths[c].events)
                      /\ \A p \in HtPaths : htPaths[c].counts[p]
                           = Cardinality({i \in DOMAIN htPaths[c].events : htPaths[c].events[i].path = p})
    BY DEF HtPathsExact
  <2>1. HtPathOk(htPaths[c])
    BY DEF HtInv
  <2>2. htPaths[c].events \in Seq(HtEvents)
    BY <2>1 DEF HtPathOk
  <2> QED BY <1>1, <2>1, <2>2 DEF HtPathOk
<1>3. HtStreakReal
  <2> SUFFICES ASSUME NEW c \in DOMAIN htPaths, NEW k \in htKinds
               PROVE  LET events == htPaths[c].events
                          parsed == {i \in DOMAIN events : ~unparsed(events[i].path, k)}
                          counted == {i \in parsed :
                                        Cardinality({j \in parsed : j >= i}) <= htPaths[c].streak[k]} IN
                      \A i \in counted :
                        /\ events[i].path.kind = k
                        /\ \A j \in counted :
                             j < i /\ (\A m \in parsed : m <= j \/ m >= i)
                               => events[i].path.n = events[j].path.n + 1
    BY DEF HtStreakReal
  <2>1. PICK events : events = htPaths[c].events
    OBVIOUS
  <2>2. HtWalk(events, k, htPaths[c].streak[k])
    BY <2>1 DEF HtInv, HtPathOk, HtStreak
  <2>3. PICK s : s = htPaths[c].streak[k]
    OBVIOUS
  <2>4. PICK parsed : parsed = {i \in DOMAIN events : ~unparsed(events[i].path, k)}
    OBVIOUS
  <2>5. parsed = HtParsed(events, k) /\ \A j \in parsed : Cardinality({m \in parsed : m >= j}) = HtRank(events, k, j)
    BY <2>4 DEF HtParsed, HtRank, HtFrom
  <2>6. PICK counted : counted = {i \in parsed : Cardinality({j \in parsed : j >= i}) <= s}
    OBVIOUS
  <2>7. \A i \in counted :
          /\ events[i].path.kind = k
          /\ \A j \in counted :
               j < i /\ (\A m \in parsed : m <= j \/ m >= i) => events[i].path.n = events[j].path.n + 1
    BY <2>2, <2>3, <2>5, <2>6 DEF HtWalk
  <2> QED BY <2>1, <2>3, <2>4, <2>6, <2>7
<1>4. HtErrorsExact
  <2> SUFFICES ASSUME NEW c \in DOMAIN htErrors
               PROVE  /\ htErrors[c].n404 = numberOf(htErrors[c].events, 404)
                      /\ htErrors[c].n403 = numberOf(htErrors[c].events, 403)
    BY DEF HtErrorsExact
  <2>1. HtErrOk(htErrors[c])
    BY DEF HtInv
  <2>2. PICK e \in Seq(HtErrEvents) : e = htErrors[c].events
    BY <2>1 DEF HtErrOk
  <2>3. PICK n \in Nat : DOMAIN e = 1..n /\ \A i \in 1..n : e[i] \in HtErrEvents
    BY LenProperties, ElementOfSeq
  <2>4. \A s : Cardinality(HtMarked(e, HtOfStatus(s))) = numberOf(e, s)
    BY <2>3, MarkedStatus
  <2> QED BY <2>1, <2>2, <2>4 DEF HtErrOk
<1> QED BY <1>2, <1>3, <1>4

\* A counter is that of its window, a streak is a walk back through it, and an
\* anomaly is not told again too soon (the trackers of processHTTPRequest).
THEOREM TrackersAreExact == HTTPTrackingSpec => TrackingExact
<1>1. HtInv /\ [HTTPTrackingNext]_htVars =>
        HtInv' /\ [\A c \in HtClients :
          (htTold[c]' # htTold[c] /\ htTold[c] # -1) => htTold[c]' - htTold[c] >= HtQuiet]_htVars
  BY TrackersStep
<1> QED BY <1>1, TrackersInitial, TrackersExactNow, PTL DEF HTTPTrackingSpec, TrackingExact, HtAnomaliesSpaced
=============================================================================
