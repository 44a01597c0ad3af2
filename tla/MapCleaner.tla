------------------------------ MODULE MapCleaner ------------------------------
(***************************************************************************)
(* The map bounds that several analyzers share                             *)
(* (pkg/utils/mapcleaner/cleaner.go), as operators on functions.  seen[k]  *)
(* is the time an entry was last seen.  Ties between equally old entries   *)
(* are broken arbitrarily, so an eviction yields a set of results; that    *)
(* the selection behind it returns the oldest is OldestSelect's property.  *)
(***************************************************************************)
EXTENDS Integers, FiniteSets, FiniteSetsExt, Functions

\* RemoveOldestN: every way to drop the n oldest of m.
removeOldestN(m, n, seen) ==
  {Restrict(m, DOMAIN m \ S) :
     S \in {X \in kSubset(Min({n, Cardinality(DOMAIN m)}), DOMAIN m) :
              \A x \in X, y \in DOMAIN m \ X : seen[x] <= seen[y]}}

\* How many entries go: past max, the overflow and max / headroom more.
overflow(size, max, headroom) ==
  IF max <= 0 \/ size <= max THEN 0 ELSE size - max + max \div headroom

\* EnforceMaxSizeBatch.
enforceMaxSizeBatch(m, max, headroom, seen) ==
  removeOldestN(m, overflow(Cardinality(DOMAIN m), max, headroom), seen)

\* RemoveEntriesOlderThan.
removeEntriesOlderThan(m, cutoff, seen) ==
  Restrict(m, {k \in DOMAIN m : seen[k] >= cutoff})
=============================================================================
