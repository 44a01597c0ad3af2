----------------------------- MODULE BoundedQueue -----------------------------
(***************************************************************************)
(* What a bounded event history promises: the latest BQLimit values, in    *)
(* the order they came, with the oldest given up for a new one and any     *)
(* number of the oldest dropped on request.                                *)
(***************************************************************************)
EXTENDS Integers

CONSTANTS BQValues, BQLimit

VARIABLES
  bqSize,  \* values held
  bqItem   \* bqItem[1] is the oldest

bqVars == <<bqSize, bqItem>>

BQInit == bqSize = 0 /\ bqItem = [i \in 1..0 |-> 0]

BQPush(v) ==
  \/ /\ bqSize < BQLimit
     /\ bqSize' = bqSize + 1
     /\ bqItem' = [i \in 1..(bqSize + 1) |-> IF i = bqSize + 1 THEN v ELSE bqItem[i]]
  \/ /\ bqSize = BQLimit
     /\ bqSize' = bqSize
     /\ bqItem' = [i \in 1..bqSize |-> IF i = bqSize THEN v ELSE bqItem[i + 1]]

BQDrop(n) ==
  /\ bqSize' = bqSize - n
  /\ bqItem' = [i \in 1..(bqSize - n) |-> bqItem[i + n]]

BQNext == (\E v \in BQValues : BQPush(v)) \/ (\E n \in 0..bqSize : BQDrop(n))

BQSpec == BQInit /\ [][BQNext]_bqVars
=============================================================================
