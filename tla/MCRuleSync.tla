------------------------------ MODULE MCRuleSync ------------------------------
(* RuleSync for TLC: a PASS rule and a DROP rule of two controllers. *)
EXTENDS RuleSync, TLC

CONSTANTS pass, drop, push1, push2, c1, c2

TwoScopes == (pass :> "a") @@ (drop :> "b")
TwoExpiry == (pass :> 3) @@ (drop :> 3)
OneScope  == drop :> "b"
OneExpiry == drop :> 3

=============================================================================
