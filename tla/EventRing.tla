------------------------------- MODULE EventRing -------------------------------
(***************************************************************************)
(* The ring behind an address's event history                              *)
(* (pkg/analyzer/aidetection/ring.go): a buffer that grows up to its limit *)
(* and then overwrites its oldest value in place.  Indices start at 0, as  *)
(* in the code.  The history's lock makes each operation one step.         *)
(***************************************************************************)
EXTENDS Integers

CONSTANTS
  RingValues,
  RingZero,    \* what a cell holds before it is written, and after a drop
  RingLimit,   \* limit
  RingGrowth,  \* minRingGrowth
  RingDrops    \* numbers of events dropped at once

ASSUME RingAssumption ==
  /\ RingLimit \in Nat \ {0} /\ RingGrowth \in Nat \ {0} /\ RingDrops \subseteq Nat

VARIABLES
  ringCap,   \* len(buf)
  ringBuf,   \* buf
  ringHead,  \* head
  ringSize   \* size

ringVars == <<ringCap, ringBuf, ringHead, ringSize>>

EventRingInit ==
  ringCap = 0 /\ ringBuf = [i \in 0..-1 |-> RingZero] /\ ringHead = 0 /\ ringSize = 0

-----------------------------------------------------------------------------
ringMin(a, b) == IF a <= b THEN a ELSE b
ringMax(a, b) == IF a <= b THEN b ELSE a

\* physical(i), for a buffer of the given length.
physical(cap, head, i) == IF head + i >= cap THEN head + i - cap ELSE head + i

\* The capacity grow makes room for.
grownCap == ringMin(ringMax(2 * ringCap, RingGrowth), RingLimit)

\* Mutant: the run is copied as it lies, the wrapped part first.
copyToUnrotated(n) == [i \in 0..(n - 1) |-> IF i < ringSize THEN ringBuf[i] ELSE RingZero]

\* What copyTo leaves in a buffer of n zero cells: the run up to the end of
\* buf, then the run from its start.
copyTo(n) ==
  LET run == ringMin(ringCap - ringHead, ringSize)
  IN [i \in 0..(n - 1) |-> IF i < run THEN ringBuf[ringHead + i]
                           ELSE IF i < ringSize THEN ringBuf[i - run] ELSE RingZero]

\* PushBack at the limit: overwrite the oldest.
pushFull(v) ==
  /\ ringSize = RingLimit
  /\ ringBuf' = [ringBuf EXCEPT ![ringHead] = v]
  /\ ringHead' = physical(ringCap, ringHead, 1)
  /\ UNCHANGED <<ringCap, ringSize>>

\* PushBack into a buffer with no free cell: grow it first.
pushGrow(v) ==
  /\ ringSize # RingLimit /\ ringSize = ringCap
  /\ ringCap' = grownCap
  /\ ringBuf' = [copyTo(grownCap) EXCEPT ![physical(grownCap, 0, ringSize)] = v]
  /\ ringHead' = 0 /\ ringSize' = ringSize + 1

\* PushBack into a free cell.
pushFree(v) ==
  /\ ringSize # RingLimit /\ ringSize # ringCap
  /\ ringBuf' = [ringBuf EXCEPT ![physical(ringCap, ringHead, ringSize)] = v]
  /\ ringSize' = ringSize + 1
  /\ UNCHANGED <<ringCap, ringHead>>

PushBack(v) == pushFull(v) \/ pushGrow(v) \/ pushFree(v)

\* Mutant: a dropped cell keeps its value.
clearedNot(gone, i) == ringBuf[i]

\* DropFront's cell i afterwards.
cleared(gone, i) == IF gone THEN RingZero ELSE ringBuf[i]

\* DropFront: zero the oldest n cells; an empty ring starts over at 0.
DropFront(n) ==
  LET k == ringMin(n, ringSize)
      gone(i) == \E j \in 0..(k - 1) : i = physical(ringCap, ringHead, j)
  IN /\ ringBuf' = [i \in 0..(ringCap - 1) |-> cleared(gone(i), i)]
     /\ ringSize' = ringSize - k
     /\ ringHead' = IF ringSize = k THEN 0 ELSE physical(ringCap, ringHead, k)
     /\ UNCHANGED ringCap

EventRingNext ==
  \/ \E v \in RingValues : PushBack(v)
  \/ \E n \in RingDrops : DropFront(n)

EventRingSpec == EventRingInit /\ [][EventRingNext]_ringVars

-----------------------------------------------------------------------------
(* Properties. *)

\* At(0), At(1), ...: the events, oldest first.
ringSlice == [i \in 1..ringSize |-> ringBuf[physical(ringCap, ringHead, i - 1)]]

\* The ring never outgrows its limit, its head is a cell, and the cells behind
\* the live run hold nothing: a dropped event is not kept alive by the buffer.
RingWellFormed ==
  /\ ringCap \in 0..RingLimit /\ ringSize \in 0..ringCap
  /\ ringHead \in Nat /\ (ringCap = 0 => ringHead = 0) /\ (ringCap > 0 => ringHead < ringCap)
  /\ ringBuf \in [0..(ringCap - 1) -> RingValues \cup {RingZero}]
  /\ \A i \in ringSize..(ringCap - 1) : ringBuf[physical(ringCap, ringHead, i)] = RingZero

Abstract == INSTANCE BoundedQueue
  WITH BQValues <- RingValues, BQLimit <- RingLimit, bqSize <- ringSize, bqItem <- ringSlice

\* The ring, read through At, is a bounded queue: growing, wrapping and
\* overwriting never lose, repeat or reorder an event.
RingIsQueue == Abstract!BQSpec
=============================================================================
