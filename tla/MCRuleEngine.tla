----------------------------- MODULE MCRuleEngine -----------------------------
(* RuleEngine for TLC. *)
EXTENDS RuleEngine, TLC

CONSTANTS r4, r6, x4, bodyA, bodyB, zero

\* Bodies are interchangeable.
Symmetry == Permutations(Bodies)
=============================================================================
