----------------------------- MODULE MCBlocksEnd -----------------------------
(***************************************************************************)
(* The two places where blocks must end, for TLC: the block command plane  *)
(* under the kill switch and the collector's block table. They share no    *)
(* state: a behaviour picks one of them (part) and runs it from its own    *)
(* initial states while the others stay as they started, so each is        *)
(* checked on its own and none multiplies the states of another. The       *)
(* fairness is that of each component's module for its part; parts never   *)
(* meet in one behaviour, so a strong condition over several parts is one  *)
(* for each.                                                               *)
(***************************************************************************)
EXTENDS BlockDedup, BlockTable, TLC

CONSTANTS s1, s2, b1, src1, a1, a2, lo, wide, host1, host2, host3

\* BlockTable: a network of two addresses, each address alone, a loopback one.
BaseOf    == (wide :> a1) @@ (host1 :> a1) @@ (host2 :> a2) @@ (host3 :> lo)
HostNetOf == (a1 :> host1) @@ (a2 :> host2) @@ (lo :> host3)
MembersOf == (wide :> {a1, a2}) @@ (host1 :> {a1}) @@ (host2 :> {a2})
             @@ (host3 :> {lo})
JustWide  == [n \in Nets |-> IF n = wide THEN 1 ELSE 0]

------------------------------------------------------------------------------
VARIABLE part   \* the component that runs

blocksEndVars == <<part, dedupVars, tableVars>>

BlocksEndInit ==
  /\ part \in {"drain", "table"}
  /\ BlockDedupInit
  /\ BlockTableInit /\ (part # "table" => kernelAllow = {})

\* The components that do not run stay as they started.
still ==
  /\ UNCHANGED part
  /\ IF part = "drain" THEN TRUE ELSE UNCHANGED dedupVars
  /\ IF part = "table" THEN TRUE ELSE UNCHANGED tableVars

BlocksEndNext ==
  \/ part = "drain" /\ BlockDedupNext /\ still
  \/ part = "table" /\ BlockTableNext /\ still

\* The fairness of each component's own module, for its part.
BlocksEndFairness ==
  /\ \A p \in Procs : WF_dedupVars(part = "drain" /\ DecisionStep(p))
  /\ \A s \in Streams : WF_dedupVars(part = "drain" /\ WorkerStep(s))
  /\ \A x \in Sources, s \in Streams :
        WF_dedupVars(part = "drain" /\ sendBroadcast([src |-> x, to |-> s]))
  /\ WF_tableVars(part = "table" /\ CommandStep)
  /\ WF_tableVars(part = "table" /\ PassStep)
  /\ SF_tableVars(part = "table" /\ deleteExpired)

BlocksEndSpec ==
  BlocksEndInit /\ [][BlocksEndNext]_blocksEndVars /\ BlocksEndFairness
==============================================================================
