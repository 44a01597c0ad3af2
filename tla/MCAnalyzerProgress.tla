------------------------- MODULE MCAnalyzerProgress --------------------------
(***************************************************************************)
(* The analyzer's components that owe progress, for TLC: the decision      *)
(* feed, reputation, the selection behind the map cleaner, adaptive        *)
(* feedback, the detection engine's workers and the revocation of client   *)
(* certificates. They share no state: a behaviour picks one of them (part) *)
(* and runs it from its own initial states while the others stay as they   *)
(* started, so each is checked on its own and none multiplies the states   *)
(* of another. The fairness is that of each component's module for its     *)
(* part; parts never meet in one behaviour, so a strong condition over     *)
(* several parts is one for each.                                          *)
(***************************************************************************)
EXTENDS WatchHub, Reputation, OldestSelect, Feedback, Engine, ClientTrust, TLC

CONSTANTS p1, p2, w1, w2, w

\* Reputation: the fingerprint is in a shard of its own.
ShardOf == [k \in RepBare |-> IF k = "j" THEN 2 ELSE 1]

\* ClientTrust: one client of each authority.
IssuerOf == [c \in CtConns |-> IF c = "k" THEN "A" ELSE "B"]

------------------------------------------------------------------------------
VARIABLE part   \* the component that runs

progressVars == <<part, vars, reputationVars, selectVars, fbVars, engVars,
                  ctVars>>

ProgressInit ==
  /\ part \in {"hub", "reputation", "select", "feedback", "engine", "trust"}
  /\ Init /\ ReputationInit /\ SelectInit /\ ClientTrustInit
  /\ FeedbackInit /\ (part # "feedback" => ~fbPath)
  /\ EngineInit /\ (part # "engine" => \A k \in EngKeys : engRoute[k] = 0)

\* The components that do not run stay as they started.
still ==
  /\ UNCHANGED part
  /\ IF part = "hub" THEN TRUE ELSE UNCHANGED vars
  /\ IF part = "reputation" THEN TRUE ELSE UNCHANGED reputationVars
  /\ IF part = "select" THEN TRUE ELSE UNCHANGED selectVars
  /\ IF part = "feedback" THEN TRUE ELSE UNCHANGED fbVars
  /\ IF part = "engine" THEN TRUE ELSE UNCHANGED engVars
  /\ IF part = "trust" THEN TRUE ELSE UNCHANGED ctVars

ProgressNext ==
  \/ part = "hub" /\ Next /\ still
  \/ part = "reputation" /\ ReputationNext /\ still
  \/ part = "select" /\ SelectNext /\ still
  \/ part = "feedback" /\ FeedbackNext /\ still
  \/ part = "engine" /\ EngineNext /\ still
  \/ part = "trust" /\ ClientTrustNext /\ still

\* The fairness of each component's own module, for its part.
ProgressFairness ==
  /\ \A p \in Publishers : WF_vars(part = "hub" /\ PublisherStep(p))
  /\ \A s \in Subscribers : WF_vars(part = "hub" /\ HandlerStep(s))
  /\ WF_reputationVars(part = "reputation" /\ StartDecay)
  /\ WF_reputationVars(part = "reputation" /\ DecayShard)
  /\ \A x \in RepWorkers :
        WF_reputationVars(part = "reputation" /\ (Penalize(x) \/ PenalizeASN(x)))
  /\ WF_selectVars(part = "select" /\ (selLoop \/ selUp \/ selDown \/ selSwap \/ selSplit))
  /\ WF_fbVars(part = "feedback" /\ fbSavers # <<>> /\ fbSave(1))
  /\ WF_fbVars(part = "feedback" /\ removeSaves)
  /\ WF_fbVars(part = "feedback" /\ cleanupStart)
  /\ WF_fbVars(part = "feedback" /\ cleanupEnd)
  /\ \A s \in EngShards :
        WF_engVars(part = "engine" /\ \E k \in EngKeys : evaluateKey(s, k))
  /\ \A p \in Savers : WF_engVars(part = "engine" /\ stateSaveStep(p))
  /\ WF_engVars(part = "engine" /\ stateSnapshot("stop"))
  /\ WF_engVars(part = "engine" /\ saverExit)
  /\ WF_engVars(part = "engine" /\ stopWait)
  /\ WF_ctVars(part = "trust" /\ (sweepTick \/ sweepCompare \/ sweepClose))
  /\ WF_ctVars(part = "trust" /\ (readSource(sweeper) \/ storeSource(sweeper)))
  /\ \A c \in CtConns :
        WF_ctVars(part = "trust" /\ (readSource(c) \/ storeSource(c)))
  /\ SF_progressVars(\/ part = "engine" /\ (\E s \in EngShards : workerExit(s)) /\ still
                     \/ part = "trust" /\ statSource(sweeper) /\ still)

ProgressSpec ==
  ProgressInit /\ [][ProgressNext]_progressVars /\ ProgressFairness
==============================================================================
