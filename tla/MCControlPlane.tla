---------------------------- MODULE MCControlPlane ----------------------------
(***************************************************************************)
(* Further parts of the control plane, each on its own small instance,     *)
(* checked in one configuration with the fairness of those that owe        *)
(* progress.  They share no state at this level, so the initial state      *)
(* picks the part that moves (focus) and the others stay where they start: *)
(* the reachable states are the sum of the parts, not their product.       *)
(***************************************************************************)
EXTENDS PipelineGraph, DeployLane, ApprovalGate, RunEffects, SerialPipeline,
        RolloutWatch, Triggers, LogPath, AgentDrain, MergeGroups

VARIABLE focus   \* the part that moves

\* Two gates and a deploy or migration over three stages, any needs: lists.
GraphDefinitions ==
    {[jobs |-> {"g1", "g2", "d"}, stages |-> 3, stage |-> st, needs |-> nd,
      gates |-> {"g1", "g2"},
      deploy |-> [j \in {"g1", "g2", "d"} |-> IF j = "d" /\ dep THEN "prod" ELSE NoEnv],
      target |-> [j \in {"g1", "g2", "d"} |-> IF j = "d" THEN "prod" ELSE NoEnv]] :
        st \in [{"g1", "g2", "d"} -> 1..3],
        nd \in [{"g1", "g2", "d"} -> SUBSET {"g1", "g2", "d"}],
        dep \in BOOLEAN}

\* A build, two gates side by side and the deploy they govern.
LanePipeline ==
    LET jobs == {"build", "gA", "gB", "ship"} IN
    [jobs |-> jobs, stages |-> 3,
     stage |-> [j \in jobs |-> CASE j = "build" -> 1 [] j = "ship" -> 3 [] OTHER -> 2],
     needs |-> [j \in jobs |-> {}], gates |-> {"gA", "gB"},
     deploy |-> [j \in jobs |-> IF j = "ship" THEN "prod" ELSE NoEnv],
     target |-> [j \in jobs |-> IF j = "ship" THEN "prod" ELSE NoEnv]]

ApprovalQuorum == [g \in Waiting |-> IF g = 2 THEN 2 ELSE 1]
ApprovalEnvs == [g \in Waiting |-> "prod"]

\* No material filters a commit out.
AllWanted == [r \in 1..MaxPush |-> Materials]

Parts == {"graph", "lane", "approval", "effects", "serial", "rollout", "triggers", "log",
          "drain", "groups"}

vars == <<focus, graphVars, laneVars, approvalVars, effectsVars, serialVars, rolloutVars,
          triggerVars, logVars, drainVars, groupVars>>

Init ==
    /\ focus \in Parts
    /\ GraphInit /\ LaneInit /\ ApprovalInit /\ EffectsInit /\ SerialInit /\ RolloutInit
    /\ TriggersInit /\ LogInit /\ DrainInit /\ GroupInit

Next ==
    /\ UNCHANGED focus
    /\ IF focus = "graph" THEN GraphNext ELSE UNCHANGED graphVars
    /\ IF focus = "lane" THEN LaneNext ELSE UNCHANGED laneVars
    /\ IF focus = "approval" THEN ApprovalNext ELSE UNCHANGED approvalVars
    /\ IF focus = "effects" THEN EffectsNext ELSE UNCHANGED effectsVars
    /\ IF focus = "serial" THEN SerialNext ELSE UNCHANGED serialVars
    /\ IF focus = "rollout" THEN RolloutNext ELSE UNCHANGED rolloutVars
    /\ IF focus = "triggers" THEN TriggersNext ELSE UNCHANGED triggerVars
    /\ IF focus = "log" THEN LogNext ELSE UNCHANGED logVars
    /\ IF focus = "drain" THEN DrainNext ELSE UNCHANGED drainVars
    /\ IF focus = "groups" THEN GroupNext ELSE UNCHANGED groupVars

\* The fairness of each part, as its module states it.
Fairness ==
    /\ WF_approvalVars(focus = "approval" /\ SweepStep)
    /\ \A e \in Held : /\ WF_approvalVars(focus = "approval" /\ FreezeCommit(e))
                      /\ WF_approvalVars(focus = "approval" /\ UnfreezeCommit(e))
    /\ WF_effectsVars(focus = "effects" /\ WorkerStep)
    /\ WF_effectsVars(focus = "effects" /\ LeaseLapses)
    /\ WF_effectsVars(focus = "effects" /\ AgentReturns)
    /\ WF_serialVars(focus = "serial" /\ SerialStep)
    /\ WF_rolloutVars(focus = "rollout" /\ \E w \in Watchers : TickStep(w))
    /\ WF_rolloutVars(focus = "rollout" /\ LeaseRunsOut)
    /\ WF_rolloutVars(focus = "rollout" /\ DeadlinePasses)
    /\ \A p \in Pollers : WF_triggerVars(focus = "triggers" /\ PollStep(p))

Spec == Init /\ [][Next]_vars /\ Fairness

-----------------------------------------------------------------------------
\* Every part's variables keep their types.
TypeOK ==
    /\ LaneTypeOK /\ ApprovalTypeOK /\ EffectsTypeOK /\ SerialTypeOK /\ RolloutTypeOK
    /\ TriggersTypeOK /\ LogTypeOK /\ DrainTypeOK /\ GroupTypeOK

\* Nothing stays abandoned for ever: a gate nobody decides and no freeze holds
\* is expired by the sweep, however many gates that never expire are queued
\* before it and however little one sweep may judge.
AbandonedGatesExpire ==
    []<>(focus = "approval" => \A g \in Waiting : ~Abandoned(g))

\* "Additional runs stay queued until the current one reaches a terminal
\* status, then the next queued one dispatches": every run of a serial pipeline
\* closes, unless an overlap or a rerun made two of them read running.
SerialRunsClose ==
    []<>(focus = "serial" => \A r \in SerialRuns : SerialSettled(r))

\* A gated deploy ends as soon as it waits for nobody or is canceled, whatever
\* watchers crash or lose their lease in the middle of a promotion.
GatedDeployEnds == []<>(focus = "rollout" => DeploySettled)

\* The poller makes up for the push deliveries that were lost and for those whose
\* run creation failed behind the ledger row that makes every redelivery a
\* duplicate: the head of the branch gets its run.
HeadsAreRun ==
    []<>(focus = "triggers" => \A m \in Materials : HeadHasRun(m))
=============================================================================
