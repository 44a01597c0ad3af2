----------------------------- MODULE OldestSelect -----------------------------
(***************************************************************************)
(* selectOldest (pkg/utils/mapcleaner/cleaner.go): the quickselect that    *)
(* finds the n oldest entries of a full map.  One action per comparison,   *)
(* so that every index it reads is a state; selE[k].age of the code is     *)
(* selE[k], and indices start at 0 as in the code.                         *)
(***************************************************************************)
EXTENDS Integers, FiniteSets

CONSTANTS
  SelLen,     \* len(e)
  SelAges,    \* the ages that occur
  SelBudgets  \* rounds before the fallback to a sort: 4 * bits.Len(len(e))

ASSUME SelAssumption ==
  SelLen \in Nat \ {0} /\ SelAges \subseteq Int /\ SelBudgets \subseteq Nat

SelIdx == 0..(SelLen - 1)

VARIABLES
  selPc,      \* "idle", "loop", "up", "down", "swap", "split", "done"
  selE, selN, \* the arguments e and n
  selLo, selHi, selI, selJ, selPivot, selBudget,
  selGiven    \* history: e as it was passed

selectVars == <<selPc, selE, selN, selLo, selHi, selI, selJ, selPivot, selBudget, selGiven>>

SelectInit ==
  /\ selPc = "idle" /\ selE = [k \in SelIdx |-> 0] /\ selN = 0
  /\ selLo = 0 /\ selHi = SelLen - 1 /\ selI = 0 /\ selJ = 0
  /\ selPivot = 0 /\ selBudget = 0 /\ selGiven = selE

-----------------------------------------------------------------------------
\* RemoveOldestN calls with 0 < n < len(e); the function itself checks again.
selCall(e, n, budget) ==
  /\ selPc = "idle"
  /\ selE' = e /\ selGiven' = e /\ selN' = n /\ selBudget' = budget
  /\ selPc' = IF n <= 0 \/ n >= SelLen THEN "done" ELSE "loop"
  /\ UNCHANGED <<selLo, selHi, selI, selJ, selPivot>>

medianOfThree(a, b, c) ==
  IF a <= b THEN (IF b <= c THEN b ELSE IF a <= c THEN c ELSE a)
  ELSE (IF a <= c THEN a ELSE IF b <= c THEN c ELSE b)

\* The loop's head: done, out of budget, or a new partition round.
selLoop ==
  /\ selPc = "loop"
  /\ \/ /\ selLo >= selHi
        /\ selPc' = "done" /\ UNCHANGED <<selE, selI, selJ, selPivot, selBudget>>
     \/ /\ selLo < selHi /\ selBudget = 0
        /\ \E f \in [selLo..selHi -> selLo..selHi] :
             /\ \A k, m \in selLo..selHi : k # m => f[k] # f[m]
             /\ \A k, m \in selLo..selHi : k <= m => selE[f[k]] <= selE[f[m]]
             /\ selE' = [k \in SelIdx |-> IF k \in selLo..selHi THEN selE[f[k]] ELSE selE[k]]
        /\ selPc' = "done" /\ UNCHANGED <<selI, selJ, selPivot, selBudget>>
     \/ /\ selLo < selHi /\ selBudget # 0
        /\ selBudget' = selBudget - 1
        /\ selPivot' = medianOfThree(selE[selLo], selE[selLo + (selHi - selLo) \div 2], selE[selHi])
        /\ selI' = selLo /\ selJ' = selHi
        /\ selPc' = "up" /\ UNCHANGED selE
  /\ UNCHANGED <<selN, selLo, selHi, selGiven>>

\* for e[i].age < pivot { i++ }
beforePivot(k) == selE[k] < selPivot

selUp ==
  /\ selPc = "up" /\ selI \in SelIdx
  /\ IF beforePivot(selI) THEN selI' = selI + 1 /\ selPc' = "up"
     ELSE selI' = selI /\ selPc' = "down"
  /\ UNCHANGED <<selE, selN, selLo, selHi, selJ, selPivot, selBudget, selGiven>>

\* for e[j].age > pivot { j-- }
selDown ==
  /\ selPc = "down" /\ selJ \in SelIdx
  /\ IF selE[selJ] > selPivot THEN selJ' = selJ - 1 /\ selPc' = "down"
     ELSE selJ' = selJ /\ selPc' = "swap"
  /\ UNCHANGED <<selE, selN, selLo, selHi, selI, selPivot, selBudget, selGiven>>

\* How far i and j move after a swap.
selStep == 1

exchanged(i, j) == [selE EXCEPT ![i] = selE[j], ![j] = selE[i]]

\* Exchange a pair on the wrong sides, and go on while i <= j.
selSwap ==
  /\ selPc = "swap"
  /\ IF selI <= selJ
     THEN /\ selE' = exchanged(selI, selJ)
          /\ selI' = selI + selStep /\ selJ' = selJ - selStep
     ELSE UNCHANGED <<selE, selI, selJ>>
  /\ selPc' = IF selI' <= selJ' THEN "up" ELSE "split"
  /\ UNCHANGED <<selN, selLo, selHi, selPivot, selBudget, selGiven>>

\* Mutant: the boundary is off by one.
goesLeftLate == selN - 1 <= selJ + 1

goesLeft == selN - 1 <= selJ

\* Keep the side that holds position n - 1; between the two, it is in place.
selSplit ==
  /\ selPc = "split"
  /\ \/ /\ goesLeft
        /\ selHi' = selJ /\ selPc' = "loop" /\ UNCHANGED selLo
     \/ /\ ~goesLeft /\ selN - 1 >= selI
        /\ selLo' = selI /\ selPc' = "loop" /\ UNCHANGED selHi
     \/ /\ ~goesLeft /\ selN - 1 < selI
        /\ selPc' = "done" /\ UNCHANGED <<selLo, selHi>>
  /\ UNCHANGED <<selE, selN, selI, selJ, selPivot, selBudget, selGiven>>

SelectNext ==
  \/ \E e \in [SelIdx -> SelAges], n \in 0..SelLen, b \in SelBudgets : selCall(e, n, b)
  \/ selLoop \/ selUp \/ selDown \/ selSwap \/ selSplit

SelectSpec == SelectInit /\ [][SelectNext]_selectVars

\* The function's own steps; it is sequential code.
SelectFairness == WF_selectVars(selLoop \/ selUp \/ selDown \/ selSwap \/ selSplit)

-----------------------------------------------------------------------------
(* Properties. *)

\* The scans have no bounds check: they never leave the array, because an
\* entry on the far side always stops them.
SelectInBounds ==
  /\ selPc = "up" => selI \in SelIdx
  /\ selPc = "down" => selJ \in SelIdx

\* When it returns, no entry kept is older than one evicted.
SelectOldestFirst ==
  selPc = "done" =>
    \A a, b \in SelIdx : a < selN /\ b >= selN => selE[a] <= selE[b]

\* Entries are moved, never lost or duplicated.
SelectPermutes ==
  \A x \in SelAges : Cardinality({k \in SelIdx : selE[k] = x})
                       = Cardinality({k \in SelIdx : selGiven[k] = x})

\* It returns, time and again: partitions that do not shrink are caught by the budget.
SelectReturns == []<>(selPc \in {"idle", "done"})

\* selectOldest partitions the entries by age, moving them only, inside the
\* slice, and returns: partial and total correctness of the quickselect behind
\* RemoveOldestN.
SelectCorrect ==
  /\ [](SelectInBounds /\ SelectOldestFirst /\ SelectPermutes)
  /\ SelectReturns
=============================================================================
