------------------------- MODULE ControlPlaneProofs -------------------------
(***************************************************************************)
(* The control plane as one specification: each part takes its own steps   *)
(* in it, so what is proved of a part holds of the whole, for every value  *)
(* of the constants.  The types of the parts are proved here, with the     *)
(* bounds they contain: no channel or queue is filled past its capacity    *)
(* and a sweep of the expirer judges no more gates than its scan cap.  So  *)
(* is what needs the graph of a definition and the rows of a lane at once: *)
(* nothing is deployed before the gates that govern it have passed.        *)
(***************************************************************************)
EXTENDS MCControlPlane, GraphProofs, DeployLaneProofs, AdmissionProofs, OutcomeProofs

-----------------------------------------------------------------------------
(* Lanes                                                                   *)

LaneRest ==
    /\ frozen \subseteq LaneEnvs
    /\ rolled \subseteq LaneRuns \X LaneJobs
    /\ handed \subseteq LaneRuns \X LaneJobs
    /\ reran \subseteq LaneRuns
    /\ laneLeft \in 0..LaneBudget

\* What a step of the lane does to what its invariant does not speak of.
LEMMA LaneRestStep == ASSUME LaneInv, LaneRest, [LaneNext]_laneVars PROVE LaneRest'
<1>1. Spend => laneLeft' \in 0..LaneBudget
  BY LaneAssumption DEF LaneRest, Spend
<1>2. ASSUME NEW r \in LaneRuns, NEW j \in LaneJobs, NEW roll \in BOOLEAN, Rerun(r, j, roll)
      PROVE  LaneRest'
  BY <1>1, <1>2 DEF LaneRest, Rerun
<1>3. ASSUME NEW r \in LaneRuns, NEW j \in LaneJobs,
             RerunLaneJob(r, j) \/ RollbackToRevision(r, j)
      PROVE  LaneRest'
  BY <1>2, <1>3 DEF RerunLaneJob, RollbackToRevision
<1>4. ASSUME NEW e \in LaneEnvs, Freeze(e) \/ Unfreeze(e) PROVE LaneRest'
  BY <1>1, <1>4 DEF LaneRest, Freeze, Unfreeze
<1>5. ASSUME NEW d \in Dispatchers, HandOver(d) PROVE LaneRest'
  <2>1. disp[d].run \in LaneRuns /\ disp[d].job \in LaneJobs
    BY <1>5, ActorShapes, GraphFacts DEF HandOver, Dispatching
  <2> QED BY <1>5, <2>1 DEF LaneRest, HandOver
<1>6. ASSUME UNCHANGED <<frozen, rolled, handed, reran>>, Spend \/ UNCHANGED laneLeft PROVE LaneRest'
  BY <1>1, <1>6 DEF LaneRest
<1>7. ASSUME NEW r \in LaneRuns, NEW j \in LaneJobs,
             \/ ReclaimDeploy(r, j)
             \/ \E out \in {"success", "failed"} : BuildJob(r, j, out) \/ DeployResult(r, j, out)
             \/ \E d \in Dispatchers : BeginDeployGuard(d, r, j)
      PROVE  LaneRest'
  BY <1>6, <1>7 DEF ReclaimDeploy, BuildJob, DeployResult, BeginDeployGuard
<1>8. ASSUME NEW r \in LaneRuns, CreateLaneRun(r) \/ CancelLaneRun(r) PROVE LaneRest'
  BY <1>6, <1>8 DEF CreateLaneRun, CancelLaneRun
<1>9. ASSUME NEW r \in LaneRuns, NEW g \in LaneGates,
             RejectGate(r, g) \/ \E u \in Approvers : ApproveLock(u, r, g)
      PROVE  LaneRest'
  BY <1>6, <1>9 DEF RejectGate, ApproveLock
<1>10. ASSUME NEW u \in Approvers, ApproveDecide(u) \/ ApproveCommit(u) PROVE LaneRest'
  BY <1>6, <1>10 DEF ApproveDecide, ApproveCommit
<1>11. ASSUME NEW d \in Dispatchers,
              AdmitCheck(d) \/ AdmitCommit(d) \/ UndoDispatch(d) \/ DispatcherDies(d)
       PROVE  LaneRest'
  BY <1>6, <1>11 DEF AdmitCheck, AdmitCommit, UndoDispatch, DispatcherDies
<1>12. CASE UNCHANGED laneVars
  BY <1>6, <1>12 DEF laneVars
<1> QED BY <1>3, <1>4, <1>5, <1>7, <1>8, <1>9, <1>10, <1>11, <1>12 DEF LaneNext

\* Rows, markers, locks and budgets of a lane keep their types.
THEOREM LanesAreTyped == LaneSpec => []LaneTypeOK
<1>1. LaneInit => LaneRest
  BY LaneAssumption DEF LaneInit, LaneRest
<1>2. LaneInv /\ LaneRest => LaneTypeOK
  <2> SUFFICES ASSUME LaneInv, LaneRest PROVE LaneTypeOK
    OBVIOUS
  <2>1. \A u \in Approvers : appr[u].pc \in {"idle", "locked", "decided"}
    BY DEF LaneInv, LockTypes, Approving, NoApproval
  <2>2. \A d \in Dispatchers : disp[d].pc \in {"idle", "guarded", "checked", "claimed"}
    BY DEF LaneInv, LockTypes, Dispatching, NoDispatch
  <2> QED BY <2>1, <2>2 DEF LaneInv, RowTypes, LockTypes, Holders, LaneRest, LaneTypeOK
<1>3. LaneInv /\ LaneRest /\ [LaneNext]_laneVars => LaneRest'
  BY LaneRestStep
<1> QED BY <1>1, <1>2, <1>3, LaneInvariant, PTL DEF LaneSpec

\* A governing gate that is reached along needs: has passed, or a closer gate
\* would stand between it and the deploy: take, among the jobs in between that
\* need the gate, one that needs none of the others.
LEMMA GoverningGatePassed ==
    ASSUME LaneInv, OrderInv, NEW r \in LaneRuns \ reran, NEW j \in LaneJobs,
           jobSt[r][j] \in {"running", "stopping", "success"}, j \notin LaneGates,
           NEW g \in GoverningGatesForJob(LaneDef, j)
    PROVE  jobSt[r][g] = "success"
<1> DEFINE D == {k \in LaneJobs \ LaneGates :
                    /\ k = j \/ k \in NeedsClosure(LaneDef, j)
                    /\ jobSt[r][k] \in {"running", "stopping", "success"}
                    /\ g \in NeedsClosure(LaneDef, k)}
<1>1. /\ IsDefinition(LaneDef) /\ Accepted(LaneDef) /\ IsFiniteSet(LaneJobs)
      /\ ValidateNeeds(LaneDef) /\ ValidateNoCycles(LaneDef)
  BY LaneAssumption DEF IsDefinition, Accepted, LaneJobs
<1>2. g \in LaneGates /\ g \in LaneJobs /\ Precedes(LaneDef, g, j)
      /\ \A h \in LaneGates : h # g /\ Precedes(LaneDef, h, j) => ~Precedes(LaneDef, g, h)
  BY DefinitionFacts DEF GoverningGatesForJob, LaneGates
<1>3. \A k \in LaneJobs \ LaneGates :
        jobSt[r][k] \in {"running", "stopping", "success"} => Opened(jobSt[r], k)
  BY DEF OrderInv, RowsOrdered, Ordered, BegunInOrder
<1>4. CASE LaneDef.stage[g] < LaneDef.stage[j]
  BY <1>2, <1>3, <1>4 DEF Opened
<1>5. CASE g \in NeedsClosure(LaneDef, j)
  <2>1. D \in SUBSET LaneJobs /\ D # {}
    BY <1>5
  <2>2. PICK k \in D : LaneDef.needs[k] \cap D = {}
    BY <1>1, <2>1, CycleCheckIsExact DEF LaneJobs
  <2>3. Opened(jobSt[r], k)
    BY <1>3, <2>2
  <2>4. CASE g \in LaneDef.needs[k]
    BY <2>3, <2>4 DEF Opened
  <2>5. ASSUME NEW n \in LaneDef.needs[k], g \in NeedsClosure(LaneDef, n) PROVE FALSE
    <3>1. n \in LaneJobs /\ k \in LaneJobs /\ jobSt[r][n] = "success"
      BY <2>2, <2>3, <2>5, DefinitionFacts DEF Opened
    <3>2. n \in NeedsClosure(LaneDef, k)
      BY <1>1, <3>1, ClosureHasNeeds DEF LaneJobs
    <3>3. n \in NeedsClosure(LaneDef, j)
      BY <1>1, <2>2, <3>1, <3>2, ClosureNests DEF LaneJobs
    <3>4. CASE n \in LaneGates
      <4>1. Precedes(LaneDef, n, j) /\ Precedes(LaneDef, g, n)
        BY <2>5, <3>3 DEF Precedes
      <4>2. n # g
        BY <1>1, <1>2, <2>5 DEF ValidateNoCycles, LaneJobs
      <4> QED BY <1>2, <3>4, <4>1, <4>2
    <3>5. CASE n \notin LaneGates
      BY <2>2, <2>5, <3>1, <3>3, <3>5
    <3> QED BY <3>4, <3>5
  <2>6. g \in LaneDef.needs[k] \/ \E n \in LaneDef.needs[k] : g \in NeedsClosure(LaneDef, n)
    BY <1>1, <2>2, ClosureUnfolds DEF LaneJobs
  <2> QED BY <2>4, <2>5, <2>6
<1> QED BY <1>2, <1>4, <1>5 DEF Precedes

\* Nothing that targets an environment starts before the gates that govern it have
\* passed, for every accepted definition, any number of runs of the lane, approvers
\* and schedulers, unless somebody reran a job of its run.
THEOREM DeploysWaitForGates == LaneSpec => []GatesBeforeDeploys
<1>1. LaneInv /\ OrderInv => GatesBeforeDeploys
  <2> SUFFICES ASSUME LaneInv, OrderInv, NEW r \in LaneRuns \ reran,
                      NEW j \in TargetJobs(LaneDef),
                      jobSt[r][j] \in {"running", "stopping", "success"},
                      NEW g \in Governors[j]
               PROVE  jobSt[r][g] = "success"
    BY DEF GatesBeforeDeploys
  <2>1. j \in LaneJobs /\ g \in GoverningGatesForJob(LaneDef, j)
    BY GraphFacts DEF Governors
  <2>2. j \notin LaneGates
    BY LaneAssumption DEF IsDefinition, GatesTargetNothing, TargetJobs, LaneGates
  <2> QED BY <2>1, <2>2, GoverningGatePassed
<1> QED BY <1>1, LaneInvariant, OrderInvariant, PTL

-----------------------------------------------------------------------------
(* Shutdown and logs                                                       *)

\* The outbound channel is written only where there is room.
LEMMA OutboundFits ==
    ASSUME DrainInv, Len(outbound) <= OutCap, [DrainNext]_drainVars
    PROVE  Len(outbound') <= OutCap
<1>1. outbound \in Seq(Items) /\ OutCap \in Nat
  BY OutCapAssumption DEF DrainInv, DrainTyped
<1>2. ASSUME NEW x, outbound' = Append(outbound, x), HasRoom PROVE Len(outbound') <= OutCap
  BY <1>1, <1>2 DEF HasRoom
<1>3. ASSUME NEW j \in DrainJobs, EnqueueResult(j) PROVE Len(outbound') <= OutCap
  BY <1>2, <1>3 DEF EnqueueResult
<1>4. CASE TakeItem
  BY <1>1, <1>4 DEF TakeItem
<1>5. CASE BeginDrain \/ PushBarrier
  BY <1>2, <1>5 DEF BeginDrain, PushBarrier
<1>6. ASSUME NEW j \in DrainJobs, DispatchJob(j) \/ MakeResult(j) \/ CloseJob(j)
      PROVE  Len(outbound') <= OutCap
  BY <1>6 DEF DispatchJob, MakeResult, CloseJob
<1>7. CASE \/ SendItem \/ MarkSent \/ SenderStops \/ ServerHandles \/ ServerCloses \/ StreamBreaks
           \/ JobsFinished \/ BudgetElapses \/ FlushDeadline \/ ReachLast \/ ReachCutoff
           \/ CancelSuppressed \/ WaitDone \/ SeeEnd \/ GiveUp \/ AbandonSuppress
           \/ AbandonCancel \/ CloseStream \/ UNCHANGED drainVars
  <2>1. UNCHANGED outbound
    BY <1>7 DEF SendItem, MarkSent, SenderStops, ServerHandles, ServerCloses, StreamBreaks,
       JobsFinished, BudgetElapses, FlushDeadline, ReachLast, ReachCutoff, CancelSuppressed,
       WaitDone, SeeEnd, GiveUp, AbandonSuppress, AbandonCancel, CloseStream, drainVars
  <2> QED BY <2>1
<1> QED BY <1>3, <1>4, <1>5, <1>6, <1>7 DEF DrainNext

\* The shutdown keeps its types, and the outbound channel its capacity.
THEOREM DrainsAreTyped == DrainSpec => []DrainTypeOK
<1> DEFINE Fits == Len(outbound) <= OutCap
<1>1. DrainInit => Fits
  BY OutCapAssumption DEF DrainInit
<1>2. DrainInv /\ Fits => DrainTypeOK
  BY DEF DrainInv, DrainTyped, DrainTypeOK
<1>3. DrainInv /\ Fits /\ [DrainNext]_drainVars => Fits'
  BY OutboundFits
<1> HIDE DEF Fits
<1> QED BY <1>1, <1>2, <1>3, DrainInvariant, PTL DEF DrainSpec

LogRest ==
    /\ \A a \in LogAttempts : Len(pipe[a]) <= PipeCap
    /\ gone \subseteq LogAttempts
    /\ arcQueue <= ArchiveCap
    /\ faults \in 0..MaxFaults

\* The batcher's channel and the archiver's queue are filled only up to their
\* capacities: what does not fit is dropped.
LEMMA LogRestStep == ASSUME LogInv, LogRest, [LogNext]_logVars PROVE LogRest'
<1> DEFINE PipesFit == \A a \in LogAttempts : Len(pipe'[a]) <= PipeCap
           FaultsFit == faults' \in 0..MaxFaults
<1>1. /\ lAttempt \in LogAttempts /\ arcQueue \in Nat
      /\ pipe \in [LogAttempts -> Seq(LogLines \cup {Barrier})]
      /\ {PipeCap, ArchiveCap, MaxFaults} \subseteq Nat
  BY LogAssumption DEF LogInv, LogTyped
<1>2. UNCHANGED pipe => PipesFit
  BY DEF LogRest
<1>3. ASSUME NEW x \in LogLines \cup {Barrier},
             pipe' = IF Len(pipe[lAttempt]) < PipeCap
                     THEN [pipe EXCEPT ![lAttempt] = Append(@, x)] ELSE pipe
      PROVE  PipesFit
  BY <1>1, <1>3 DEF LogRest
<1>4. ASSUME NEW a \in LogAttempts, pipe[a] # <<>>, pipe' = [pipe EXCEPT ![a] = Tail(@)]
      PROVE  PipesFit
  BY <1>1, <1>4 DEF LogRest
<1>5. (UNCHANGED faults \/ (faults < MaxFaults /\ faults' = faults + 1)) => FaultsFit
  BY <1>1 DEF LogRest
<1> HIDE DEF PipesFit, FaultsFit
<1>6. ASSUME PipesFit, FaultsFit, gone' \subseteq LogAttempts, arcQueue' <= ArchiveCap
      PROVE  LogRest'
  BY <1>6 DEF LogRest, PipesFit, FaultsFit
<1>7. gone \subseteq LogAttempts /\ arcQueue <= ArchiveCap
  BY DEF LogRest
<1>8. CASE PushLine
  <2>1. [att |-> lAttempt, seq |-> sent + 1] \in LogLines
    BY <1>1, <1>8, LogAssumption DEF PushLine, LogInv, LogTyped, LogLines
  <2>2. PipesFit
    BY <1>3, <1>8, <2>1 DEF PushLine
  <2> QED BY <1>5, <1>6, <1>7, <1>8, <2>2 DEF PushLine, archiveVars
<1>9. CASE FinishJob
  <2>1. PipesFit
    BY <1>3, <1>9 DEF FinishJob
  <2> QED BY <1>5, <1>6, <1>7, <1>9, <2>1 DEF FinishJob, archiveVars
<1>10. CASE NewAttempt
  <2>1. gone' \subseteq LogAttempts
    BY <1>1, <1>7, <1>10 DEF NewAttempt
  <2> QED BY <1>2, <1>5, <1>6, <1>7, <1>10, <2>1 DEF NewAttempt, archiveVars
<1>18. CASE ReviveTail
  <2>1. UNCHANGED <<arcQueue, faults>>
    BY <1>18 DEF ReviveTail, archiveVars
  <2>2. lAttempt + 1 \in LogAttempts /\ gone' \subseteq LogAttempts
    BY <1>1, <1>7, <1>18, LogAssumption DEF ReviveTail, LogAttempts, batcherVars
  <2>3. ASSUME pipe' = [pipe EXCEPT ![lAttempt + 1] = pipe[lAttempt], ![lAttempt] = <<>>]
        PROVE  PipesFit
    <3>1. Len(<<>>) <= PipeCap /\ Len(pipe[lAttempt]) <= PipeCap
      BY <1>1 DEF LogRest
    <3> QED BY <1>1, <2>2, <2>3, <3>1 DEF LogRest, PipesFit
  <2>4. PipesFit
    BY <1>2, <1>18, <2>3 DEF ReviveTail, batcherVars
  <2> QED BY <1>5, <1>6, <1>7, <2>1, <2>2, <2>4
<1>11. ASSUME NEW a \in LogAttempts, BatcherTakesLine(a) PROVE LogRest'
  <2>1. PipesFit
    BY <1>4, <1>11 DEF BatcherTakesLine
  <2> QED BY <1>5, <1>6, <1>7, <1>11, <2>1 DEF BatcherTakesLine, archiveVars
<1>12. ASSUME NEW a \in LogAttempts, BatcherFlushes(a) PROVE LogRest'
  BY <1>2, <1>5, <1>6, <1>7, <1>12 DEF BatcherFlushes, Flush, archiveVars
<1>13. ASSUME NEW a \in LogAttempts, BatcherTakesBarrier(a) PROVE LogRest'
  <2>1. PipesFit
    BY <1>4, <1>13 DEF BatcherTakesBarrier
  <2>2. FaultsFit /\ gone' = gone
    BY <1>5, <1>13 DEF BatcherTakesBarrier, Flush
  <2>3. arcQueue' <= ArchiveCap
    BY <1>1, <1>7, <1>13 DEF BatcherTakesBarrier
  <2> QED BY <1>6, <1>7, <2>1, <2>2, <2>3
<1>14. ASSUME NEW w \in Archivers, ArchiveRead(w) PROVE LogRest'
  <2>1. arcQueue' <= ArchiveCap
    BY <1>1, <1>7, <1>14 DEF ArchiveRead
  <2> QED BY <1>2, <1>5, <1>6, <1>7, <1>14, <2>1 DEF ArchiveRead, batcherVars
<1>15. ASSUME NEW w \in Archivers,
              ArchivePut(w) \/ ArchiveMark(w) \/ ArchiveDelete(w) \/ ArchiveFails(w)
       PROVE  LogRest'
  BY <1>2, <1>5, <1>6, <1>7, <1>15 DEF ArchivePut, ArchiveMark, ArchiveDelete, ArchiveFails,
     batcherVars
<1>16. CASE Resubmit
  <2>1. arcQueue' <= ArchiveCap
    BY <1>1, <1>16 DEF Resubmit
  <2> QED BY <1>2, <1>5, <1>6, <1>7, <1>16, <2>1 DEF Resubmit, batcherVars
<1>17. CASE ListOrphans \/ DeleteOrphans \/ ReadLogs \/ EvictArchive \/ UNCHANGED logVars
  BY <1>2, <1>5, <1>6, <1>7, <1>17 DEF ListOrphans, DeleteOrphans, ReadLogs, EvictArchive,
     batcherVars, archiveVars, logVars
<1> QED BY <1>8, <1>9, <1>10, <1>11, <1>12, <1>13, <1>14, <1>15, <1>16, <1>17,
           <1>18 DEF LogNext

\* The log path keeps its types, and its two queues their capacities.
THEOREM LogsAreTyped == LogSpec => []LogTypeOK
<1>1. LogInit => LogRest
  BY LogAssumption DEF LogInit, LogRest
<1>2. LogInv /\ LogRest => LogTypeOK
  BY LogAssumption DEF LogInv, LogTyped, LogRest, LogTypeOK
<1>3. LogInv /\ LogRest /\ [LogNext]_logVars => LogRest'
  BY LogRestStep
<1> QED BY <1>1, <1>2, <1>3, LogInvariant, PTL DEF LogSpec

-----------------------------------------------------------------------------
(* Effects                                                                 *)

Effect == [required : BOOLEAN, claim : {"none", "live", "lapsed"}, done : BOOLEAN]
EffectsRest ==
    /\ effect \in [Kinds -> Effect]
    /\ pods \subseteq Generations
    /\ linked \in BOOLEAN
    /\ outages \in 0..MaxOutages

\* What a step of the workers, the agent or the run does to the effect columns.
LEMMA EffectRows ==
    ASSUME CleanupInv, EffectsRest, [EffectsNext]_effectsVars
    PROVE  effect' \in [Kinds -> Effect]
<1>1. effect \in [Kinds -> Effect] /\ NoEffect \in Effect
  BY Zenon DEF EffectsRest, Effect, NoEffect
<1>2. ASSUME NEW k \in Kinds, NEW x \in Effect, effect' = [effect EXCEPT ![k] = x]
      PROVE  effect' \in [Kinds -> Effect]
  BY <1>1, <1>2
<1>3. \A k \in Kinds : /\ [effect[k] EXCEPT !.claim = "live"] \in Effect
                       /\ [effect[k] EXCEPT !.claim = "lapsed"] \in Effect
                       /\ \A b \in BOOLEAN : [effect[k] EXCEPT !.done = TRUE, !.required = b] \in Effect
  BY <1>1, Zenon DEF Effect
<1>4. [NoEffect EXCEPT !.required = TRUE] \in Effect
  BY <1>1, Zenon DEF Effect
<1>5. CASE CompleteRun
  BY <1>2, <1>4, <1>5 DEF CompleteRun, Kinds
<1>6. CASE CancelMergeGroup
  BY <1>1, <1>2, <1>6 DEF CancelMergeGroup, Kinds
<1>7. CASE ReviveRun
  BY <1>1, <1>7 DEF ReviveRun
<1>8. ASSUME NEW r \in Replicas, Fire(r) PROVE effect' \in [Kinds -> Effect]
  BY <1>2, <1>3, <1>8 DEF Fire, Claim
<1>9. ASSUME NEW r \in Replicas, MarkDone(r) PROVE effect' \in [Kinds -> Effect]
  <2>1. worker[r].kind \in Kinds
    BY <1>9 DEF MarkDone, CleanupInv, CleanupTypes, Claims
  <2> DEFINE k == worker[r].kind
             b == effect[k].required /\ k # "generic"
  <2>2. \/ effect' = effect
        \/ effect' = [effect EXCEPT ![k].done = TRUE, ![k].required = @ /\ k # "generic"]
    BY <1>9 DEF MarkDone
  <2>3. [effect EXCEPT ![k].done = TRUE, ![k].required = @ /\ k # "generic"]
           = [effect EXCEPT ![k] = [effect[k] EXCEPT !.done = TRUE, !.required = b]]
    BY <1>1, <2>1 DEF Effect
  <2>4. b \in BOOLEAN
    BY Zenon
  <2> DEFINE x == [effect[k] EXCEPT !.done = TRUE, !.required = b]
  <2> HIDE DEF k, b
  <2>5. x \in Effect
    BY <1>3, <2>1, <2>4 DEF k
  <2>6. effect' = effect \/ effect' = [effect EXCEPT ![k] = x]
    BY <2>2, <2>3
  <2> HIDE DEF x
  <2> QED BY <1>1, <1>2, <2>1, <2>5, <2>6 DEF k
<1>10. CASE LeaseLapses
  BY <1>2, <1>3, <1>10 DEF LeaseLapses
<1>11. CASE \/ SupersedeRun \/ AgentDrops \/ AgentReturns \/ EnsureServices
            \/ \E g \in frames : EnqueueCleanup(g)
            \/ SweepBegin \/ SweepEnd \/ UNCHANGED effectsVars
            \/ \E r \in Replicas : ReadGeneration(r) \/ SendCleanup(r) \/ Abandon(r)
  <2>1. UNCHANGED effect
    BY <1>11 DEF SupersedeRun, AgentDrops, AgentReturns, EnsureServices, EnqueueCleanup,
       SweepBegin, SweepEnd, effectsVars, ReadGeneration, SendCleanup, Abandon, runRow
  <2> QED BY <1>1, <2>1
<1> QED BY <1>5, <1>6, <1>7, <1>8, <1>9, <1>10, <1>11 DEF EffectsNext

\* What a step does to the pods, the link and the count of outages.
LEMMA EffectsRestStep ==
    ASSUME CleanupInv, EffectsRest, [EffectsNext]_effectsVars
    PROVE  EffectsRest'
<1>1. effect' \in [Kinds -> Effect]
  BY EffectRows
<1>2. pods' \subseteq Generations
  <2>1. generation \in Generations /\ pods \subseteq Generations
    BY DEF CleanupInv, CleanupTypes, EffectsRest
  <2>2. CASE EnsureServices \/ SweepEnd
    BY <2>1, <2>2 DEF EnsureServices, SweepEnd
  <2>3. CASE ~EnsureServices /\ ~SweepEnd
    <3>1. UNCHANGED pods
      BY <2>3 DEF EffectsNext, CompleteRun, SupersedeRun, CancelMergeGroup, ReviveRun, Fire,
         ReadGeneration, SendCleanup, MarkDone, Abandon, LeaseLapses, AgentDrops, AgentReturns,
         EnqueueCleanup, SweepBegin, agentSide, effectsVars
    <3> QED BY <2>1, <3>1
  <2> QED BY <2>2, <2>3
<1>3. linked' \in BOOLEAN
  <2>1. linked' \in {linked, TRUE, FALSE}
    BY DEF EffectsNext, CompleteRun, SupersedeRun, CancelMergeGroup, ReviveRun, Fire,
       ReadGeneration, SendCleanup, MarkDone, Abandon, LeaseLapses, AgentDrops, AgentReturns,
       EnsureServices, EnqueueCleanup, SweepBegin, SweepEnd, effectsVars
  <2> QED BY <2>1, Zenon DEF EffectsRest
<1>4. outages' \in 0..MaxOutages
  <2>1. outages' = outages \/ (outages < MaxOutages /\ outages' = outages + 1)
    BY DEF EffectsNext, CompleteRun, SupersedeRun, CancelMergeGroup, ReviveRun, Fire,
       ReadGeneration, SendCleanup, MarkDone, Abandon, LeaseLapses, AgentDrops, AgentReturns,
       EnsureServices, EnqueueCleanup, SweepBegin, SweepEnd, effectsVars
  <2> QED BY <2>1, EffectsAssumption DEF EffectsRest
<1> QED BY <1>1, <1>2, <1>3, <1>4 DEF EffectsRest

\* The effect columns, the claims and the pods of a run keep their types.
THEOREM EffectsAreTyped == EffectsSteps => []EffectsTypeOK
<1>1. EffectsInit => EffectsRest
  <2> SUFFICES ASSUME EffectsInit PROVE EffectsRest
    OBVIOUS
  <2>1. effect \in [Kinds -> Effect] /\ linked \in BOOLEAN
    BY Zenon DEF EffectsInit, NoEffect, Effect
  <2>2. pods \subseteq Generations /\ outages \in 0..MaxOutages
    BY EffectsAssumption DEF EffectsInit
  <2> QED BY <2>1, <2>2 DEF EffectsRest
<1>2. CleanupInv /\ EffectsRest => EffectsTypeOK
  <2> SUFFICES ASSUME CleanupInv, EffectsRest PROVE EffectsTypeOK
    OBVIOUS
  <2>1. frames \cup pods \subseteq Generations
    BY DEF CleanupInv, CleanupTypes, EffectsRest
  <2>2. \A r \in Replicas : worker[r] = NoClaim \/ worker[r] \in Claims
    BY DEF CleanupInv, CleanupTypes
  <2> QED BY <2>1, <2>2, Zenon DEF CleanupInv, CleanupTypes, EffectsRest, EffectsTypeOK, Claims, Effect
<1>3. CleanupInv /\ EffectsRest /\ [EffectsNext]_effectsVars => EffectsRest'
  BY EffectsRestStep
<1> QED BY <1>1, <1>2, <1>3, CleanupsAreSpent, PTL DEF EffectsSteps

-----------------------------------------------------------------------------
(* Intake and deploy watches                                               *)

TriggersRest ==
    /\ pollRuns \subseteq PushKeys
    /\ troubles \in 0..MaxTriggerFaults
    /\ \A p \in Pollers : poller[p] # Quiet /\ poller[p].at = "create" =>
          <<poller[p].mat, poller[p].sha>> \in PushKeys

\* A poller creates a run only of a key it has inserted.
LEMMA TriggersRestStep ==
    ASSUME PushInv /\ PollTypes, TriggersRest, [TriggersNext]_triggerVars
    PROVE  TriggersRest'
<1>1. Trouble => troubles' \in 0..MaxTriggerFaults
  BY TriggerAssumption DEF Trouble, TriggersRest
<1>2. ASSUME UNCHANGED <<pollRuns, poller>>, Trouble \/ UNCHANGED troubles PROVE TriggersRest'
  BY <1>1, <1>2 DEF TriggersRest
<1>3. CASE PushCommit \/ UNCHANGED triggerVars
  BY <1>2, <1>3 DEF PushCommit, ledgerVars, triggerVars
<1>4. ASSUME NEW h \in Requests,
             \/ \E rev \in Revisions : DeliverPush(h, rev)
             \/ \E m \in Materials : FanOut(h, m)
             \/ CreatePushRun(h) \/ EndRequest(h)
      PROVE  TriggersRest'
  BY <1>2, <1>4 DEF DeliverPush, FanOut, CreatePushRun, EndRequest, ledgerVars
<1>5. ASSUME NEW p \in Pollers, PollStep(p) PROVE TriggersRest'
  <2>1. Trouble \/ UNCHANGED troubles
    BY <1>5 DEF PollStep, BeginTick, InsertPolled, CreatePollRun, RecordOutcome, EndTick, ResolveHead
  <2>2. troubles' \in 0..MaxTriggerFaults
    BY <1>1, <2>1 DEF TriggersRest
  <2>3. pollRuns' \subseteq PushKeys
    <3>1. CASE CreatePollRun(p)
      BY <3>1 DEF CreatePollRun, Ticking, TriggersRest
    <3>2. CASE ~CreatePollRun(p)
      <4>1. UNCHANGED pollRuns
        BY <1>5, <3>2 DEF PollStep, BeginTick, InsertPolled, RecordOutcome, EndTick,
           ResolveHead, ledgerVars
      <4> QED BY <4>1 DEF TriggersRest
    <3> QED BY <3>1, <3>2
  <2>4. ASSUME NEW q \in Pollers, poller'[q] # Quiet, poller'[q].at = "create"
        PROVE  <<poller'[q].mat, poller'[q].sha>> \in PushKeys
    <3>1. poller \in [Pollers -> NextTick \cup MidTick \cup {Quiet}]
      BY DEF PollTypes
    <3>2. CASE q # p
      <4>1. poller'[q] = poller[q]
        BY <1>5, <3>1, <3>2 DEF PollStep, BeginTick, InsertPolled, CreatePollRun, RecordOutcome,
           EndTick, ResolveHead, ToNext
      <4> QED BY <2>4, <4>1 DEF TriggersRest
    <3>3. CASE q = p
      <4>0. poller'[p] # Quiet /\ poller'[p].at = "create" /\ poller' # ToNext(p)
        BY <2>4, <3>1, <3>3 DEF ToNext, Between
      <4>1. InsertPolled(p)
        <5>1. ~BeginTick(p)
          BY <3>1, <4>0 DEF BeginTick, Between
        <5>2. ~EndTick(p) /\ ~RecordOutcome(p)
          BY <3>1, <4>0 DEF EndTick, RecordOutcome
        <5>3. ASSUME CreatePollRun(p) PROVE FALSE
          <6>1. poller' = [poller EXCEPT ![p].at = "record"] /\ poller[p] \in MidTick
            BY <3>1, <4>0, <5>3 DEF CreatePollRun, Ticking, NextTick
          <6> QED BY <3>1, <4>0, <6>1 DEF MidTick
        <5>4. ASSUME NEW m \in Materials, ResolveHead(p, m) PROVE FALSE
          <6>1. poller'[p].at \in {"record", "insert"}
            BY <3>1, <5>4 DEF ResolveHead
          <6> QED BY <4>0, <6>1
        <5> QED BY <1>5, <5>1, <5>2, <5>3, <5>4 DEF PollStep
      <4>2. <<poller[p].mat, poller[p].sha>> \in PushKeys
        BY <4>1 DEF InsertPolled, Ticking, PollTypes
      <4>3. poller[p] \in MidTick
        BY <3>1, <4>1 DEF InsertPolled, Ticking, NextTick
      <4>4. poller' = [poller EXCEPT ![p].at = "create"]
        BY <4>0, <4>1 DEF InsertPolled, PollSpawns
      <4> QED BY <3>1, <3>3, <4>2, <4>3, <4>4 DEF MidTick
    <3> QED BY <3>2, <3>3
  <2> QED BY <2>2, <2>3, <2>4 DEF TriggersRest
<1> QED BY <1>3, <1>4, <1>5 DEF TriggersNext

\* The ledger, the runs and the poll state keep their types.
THEOREM TriggersAreTyped == TriggersSteps => []TriggersTypeOK
<1> DEFINE Inv == PushInv /\ PollTypes
<1>1. TriggersInit => TriggersRest
  BY TriggerAssumption DEF TriggersInit, TriggersRest
<1>2. Inv /\ TriggersRest => TriggersTypeOK
  <2> SUFFICES ASSUME Inv, TriggersRest PROVE TriggersTypeOK
    OBVIOUS
  <2>1. pushRuns \in [PushKeys -> 0..2]
    BY DEF PushInv, PushTypes
  <2> QED BY <2>1 DEF PushInv, PushTypes, PollTypes, Heads, TriggersRest, TriggersTypeOK
<1>3. Inv /\ TriggersRest /\ [TriggersNext]_triggerVars => TriggersRest'
  BY TriggersRestStep
<1> HIDE DEF Inv
<1> QED BY <1>1, <1>2, <1>3, PushInvariant, PTL DEF TriggersSteps, Inv

\* The canary, the watch row and the rounds of votes keep their types, and the
\* gate of the row is one that was armed.
THEOREM RolloutsAreTyped == RolloutSteps => []RolloutTypeOK
<1>1. RolloutInv => RolloutTypeOK
  <2> SUFFICES ASSUME RolloutInv PROVE RolloutTypeOK
    OBVIOUS
  <2>1. dWatch.gate # NoGate =>
          dWatch.gate \in [id : DOMAIN backing, step : 1..Pauses,
                           decision : {"none", "approved", "rejected"}, actioned : BOOLEAN]
    <3>1. dWatch.gate \in RolloutGates \cup {NoGate}
      BY DEF RolloutInv, RolloutTypes, Rows
    <3>2. dWatch.gate # NoGate => dWatch.gate.id \in DOMAIN backing
      BY DEF RolloutInv, Sound
    <3> QED BY <3>1, <3>2 DEF RolloutGates
  <2>2. \A g \in DOMAIN backing : backing[g] \subseteq GateVoters
    BY DEF RolloutInv, Rounds
  <2> QED BY <2>1, <2>2 DEF RolloutInv, RolloutTypes, Canaries, RolloutTypeOK
<1> QED BY <1>1, RolloutInvariant, PTL

-----------------------------------------------------------------------------
(* Approval gates                                                          *)

\* What a page of the expirer holds: keys of gates, one per gate.
SweepKeys == [since : Nat, id : Waiting]
OnePerGate(L) == \A k, l \in L : k.id = l.id => k = l

\* Keys of distinct gates are ordered by their ranks, so fewer than n keys have
\* a rank below n: a page has at most the number of rows that was asked for.
LEMMA PageIsShort ==
    ASSUME NEW L \in SUBSET SweepKeys, OnePerGate(L), NEW n \in Nat
    PROVE  LET C == {k \in L : Cardinality({l \in L : After(k, l)}) < n}
           IN  IsFiniteSet(C) /\ Cardinality(C) <= n
<1> DEFINE Below(k) == {l \in L : After(k, l)}
           rank == [k \in L |-> Cardinality(Below(k))]
           C == {k \in L : Cardinality(Below(k)) < n}
<1>1. IsFiniteSet(L)
  <2> DEFINE f == [k \in L |-> k.id]
  <2>1. f \in Injection(L, Waiting)
    BY DEF Injection, IsInjective, OnePerGate, SweepKeys
  <2> HIDE DEF f
  <2> QED BY <2>1, FS_Injection, ApprovalAssumption
<1>2. \A k \in L : IsFiniteSet(Below(k)) /\ rank[k] \in Nat
  <2>1. \A k \in L : IsFiniteSet(Below(k))
    BY <1>1, FS_Subset
  <2> QED BY <2>1, FS_CardinalityType
<1>0. \A x \in L : x.since \in Nat /\ x.id \in Nat
  BY ApprovalAssumption DEF SweepKeys
<1>3. ASSUME NEW k \in L, NEW l \in L, After(k, l) PROVE rank[l] < rank[k]
  <2>0. /\ ~After(l, l)
        /\ \A x \in L : After(l, x) => After(k, x)
    BY <1>0, <1>3 DEF After
  <2>1. Below(l) \subseteq Below(k) /\ l \in Below(k) /\ l \notin Below(l)
    BY <2>0, <1>3
  <2> HIDE DEF Below
  <2>2. Cardinality(Below(l)) < Cardinality(Below(k))
    BY <1>2, <2>1, FS_Subset
  <2> QED BY <2>2
<1>4. ASSUME NEW k \in L, NEW l \in L, k # l PROVE After(k, l) \/ After(l, k)
  <2>1. k.id # l.id
    BY <1>4 DEF OnePerGate
  <2> QED BY <1>0, <2>1 DEF After
<1> DEFINE g == [k \in C |-> rank[k]]
<1>5. g \in Injection(C, 0..(n - 1))
  <2>1. g \in [C -> 0..(n - 1)]
    BY <1>2
  <2>2. \A k, l \in C : g[k] = g[l] => k = l
    <3> HIDE DEF rank
    <3> QED BY <1>2, <1>3, <1>4
  <2> HIDE DEF g
  <2> QED BY <2>1, <2>2 DEF Injection, IsInjective
<1>6. IsFiniteSet(0..(n - 1)) /\ Cardinality(0..(n - 1)) = n
  BY FS_Interval
<1> HIDE DEF g, C
<1>7. IsFiniteSet(C) /\ Cardinality(C) <= n
  BY <1>5, <1>6, FS_Injection
<1> QED BY <1>7 DEF C

\* The sweep has at most its scan cap of gates behind and before it.
SweepTyped ==
    /\ sweep \in [on : BOOLEAN, page : SUBSET SweepKeys, judged : Nat]
    /\ IsFiniteSet(sweep.page)
    /\ sweep.judged + Cardinality(sweep.page) <= ScanCap

GateRest ==
    /\ since \in [Waiting -> 1..MaxArms] /\ armed \in 1..MaxArms
    /\ waved \subseteq Waiting /\ aged \subseteq Waiting
    /\ held \subseteq Held /\ floor \subseteq Held
    /\ freezing \in [Held -> {NobodyHolds, "freeze", "unfreeze"}]
    /\ holds \in 0..MaxHolds

\* The steps of people, freezes and time.
LEMMA GateRestStep ==
    ASSUME GateRest, [ApprovalNext]_approvalVars
    PROVE  GateRest'
<1>1. ASSUME NEW g \in Waiting, RearmGate(g) PROVE GateRest'
  BY <1>1, ApprovalAssumption DEF RearmGate, GateRest, holdVars
<1>2. ASSUME NEW g \in Waiting,
             \/ RejectWaiting(g) \/ CancelWaiting(g) \/ WindowElapses(g)
             \/ ApproveAnonymously(g) \/ \E u \in Voters : ApproveGate(u, g)
      PROVE  GateRest'
  BY <1>2 DEF RejectWaiting, CancelWaiting, EndGate, WindowElapses, ApproveAnonymously,
     ApproveGate, GateRest, holdVars
<1>3. ASSUME NEW e \in Held, FreezeLock(e) PROVE GateRest'
  BY <1>3, ApprovalAssumption DEF FreezeLock, GateRest, gateVars
<1>4. ASSUME NEW e \in Held,
             UnfreezeLock(e) \/ FreezeCommit(e) \/ UnfreezeCommit(e) \/ FloorElapses(e)
      PROVE  GateRest'
  BY <1>4 DEF UnfreezeLock, FreezeCommit, UnfreezeCommit, FloorElapses, GateRest, gateVars
<1>5. CASE SweepStep \/ UNCHANGED approvalVars
  BY <1>5 DEF SweepStep, SweepList, SweepEnds, SweepJudge, approvalVars, GateRest, gateVars, holdVars
<1> QED BY <1>1, <1>2, <1>3, <1>4, <1>5 DEF ApprovalNext

\* Sweep reads no more than what its scan cap leaves, and judging a gate takes
\* it off the page.
LEMMA SweepTypedStep ==
    ASSUME GateRest, SweepTyped, [ApprovalNext]_approvalVars
    PROVE  SweepTyped'
<1>0. ScanCap \in Nat
  BY ApprovalAssumption
<1>1. CASE UNCHANGED sweep
  BY <1>1 DEF SweepTyped
<1>2. CASE sweep' = NoSweep
  BY <1>0, <1>2, FS_EmptySet DEF SweepTyped, NoSweep
<1>3. CASE SweepList /\ sweep' # NoSweep
  <2> DEFINE n == ScanCap - sweep.judged
             K == {Key(g, since[g]) : g \in {h \in Waiting : gate[h] = "awaiting"}}
             L == {k \in K : After(k, cursor)}
             C == {k \in L : Cardinality({l \in L : After(k, l)}) < n}
  <2>1. sweep' = [on |-> TRUE, page |-> Candidates(n), judged |-> sweep.judged]
        /\ sweep.judged \in Nat /\ n \in Nat
    BY <1>0, <1>3 DEF SweepList, SweepTyped
  <2>2. L \in SUBSET SweepKeys /\ OnePerGate(L)
    BY DEF Key, SweepKeys, OnePerGate, GateRest
  <2>3. Candidates(n) = C
    BY DEF Candidates
  <2> HIDE DEF n, L
  <2>4. IsFiniteSet(C) /\ Cardinality(C) <= n
    BY <2>1, <2>2, PageIsShort
  <2>5. C \in SUBSET SweepKeys /\ Cardinality(C) \in Nat
    BY <2>2, <2>4, FS_CardinalityType
  <2> HIDE DEF C
  <2> QED BY <1>0, <2>1, <2>3, <2>4, <2>5 DEF SweepTyped, n
<1>4. ASSUME NEW k \in sweep.page, SweepJudge(k) PROVE SweepTyped'
  <2>1. /\ sweep' = [sweep EXCEPT !.page = @ \ {k}, !.judged = @ + 1]
        /\ sweep \in [on : BOOLEAN, page : SUBSET SweepKeys, judged : Nat]
        /\ IsFiniteSet(sweep.page) /\ sweep.judged + Cardinality(sweep.page) <= ScanCap
    BY <1>4 DEF SweepJudge, SweepTyped
  <2>2. IsFiniteSet(sweep.page \ {k}) /\ Cardinality(sweep.page \ {k}) = Cardinality(sweep.page) - 1
    BY <2>1, FS_RemoveElement
  <2>3. Cardinality(sweep.page) \in Nat
    BY <2>1, FS_CardinalityType
  <2>4. sweep' \in [on : BOOLEAN, page : SUBSET SweepKeys, judged : Nat]
        /\ sweep'.page = sweep.page \ {k} /\ sweep'.judged = sweep.judged + 1
    <3>1. sweep' = [on |-> sweep.on, page |-> sweep.page \ {k}, judged |-> sweep.judged + 1]
          /\ sweep.on \in BOOLEAN /\ sweep.page \in SUBSET SweepKeys /\ sweep.judged \in Nat
      BY <2>1
    <3> QED BY <3>1
  <2> QED BY <1>0, <2>1, <2>2, <2>3, <2>4 DEF SweepTyped
<1>5. UNCHANGED sweep \/ sweep' = NoSweep \/ SweepList \/ \E k \in sweep.page : SweepJudge(k)
  BY DEF ApprovalNext, approvalVars, RejectWaiting, CancelWaiting, EndGate, RearmGate, WindowElapses,
     ApproveGate, ApproveAnonymously, FreezeLock, UnfreezeLock, FreezeCommit, UnfreezeCommit,
     FloorElapses, SweepStep,
     SweepEnds, sweepVars
<1> QED BY <1>1, <1>2, <1>3, <1>4, <1>5

\* Gates, freezes and the sweep keep their types, and the sweep its scan cap,
\* however the queue of gates changes under it.
THEOREM ApprovalsAreTyped == ApprovalSteps => []ApprovalTypeOK
<1>1. ApprovalInit => GateRest /\ SweepTyped
  <2> SUFFICES ASSUME ApprovalInit PROVE GateRest /\ SweepTyped
    OBVIOUS
  <2>1. GateRest
    BY ApprovalAssumption DEF ApprovalInit, GateRest
  <2>2. SweepTyped
    BY ApprovalAssumption, FS_EmptySet DEF ApprovalInit, NoSweep, SweepTyped
  <2> QED BY <2>1, <2>2
<1>2. GateRest /\ SweepTyped /\ [ApprovalNext]_approvalVars => GateRest' /\ SweepTyped'
  BY GateRestStep, SweepTypedStep
<1>3. QuorumInv /\ GateRest /\ SweepTyped => ApprovalTypeOK
  <2> SUFFICES ASSUME QuorumInv, GateRest, SweepTyped PROVE ApprovalTypeOK
    OBVIOUS
  <2>1. sweep.judged \in 0..ScanCap
    <3>1. sweep.judged \in Nat /\ Cardinality(sweep.page) \in Nat
      BY FS_CardinalityType DEF SweepTyped
    <3> QED BY <3>1, ApprovalAssumption DEF SweepTyped
  <2> QED BY <2>1 DEF QuorumInv, GateTypes, GateRest, ApprovalTypeOK
<1> QED BY <1>1, <1>2, <1>3, QuorumInvariant, PTL DEF ApprovalSteps

-----------------------------------------------------------------------------
(* The composition                                                         *)

\* A step of the composition is, for every part, a step of that part or none.
LEMMA StepsOfTheParts ==
    ASSUME [Next]_vars
    PROVE  /\ [GraphNext]_graphVars
           /\ [LaneNext]_laneVars
           /\ [LogNext]_logVars
           /\ [DrainNext]_drainVars
           /\ [GroupNext]_groupVars
           /\ [ApprovalNext]_approvalVars
           /\ [EffectsNext]_effectsVars
           /\ [SerialNext]_serialVars
           /\ [RolloutNext]_rolloutVars
           /\ [TriggersNext]_triggerVars
BY DEF Next, vars

\* The composition implements every part: whatever holds of a part's steps holds
\* of it where the parts run side by side.
THEOREM CompositionImplementsParts ==
    Spec => /\ GraphSpec /\ LaneSpec /\ LogSpec /\ DrainSpec /\ GroupSpec
            /\ ApprovalSteps /\ EffectsSteps /\ SerialSteps /\ RolloutSteps /\ TriggersSteps
<1>1. [Next]_vars => [GraphNext]_graphVars
  BY StepsOfTheParts
<1>2. [Next]_vars => [LaneNext]_laneVars
  BY StepsOfTheParts
<1>3. [Next]_vars => [LogNext]_logVars
  BY StepsOfTheParts
<1>4. [Next]_vars => [DrainNext]_drainVars
  BY StepsOfTheParts
<1>5. [Next]_vars => [GroupNext]_groupVars
  BY StepsOfTheParts
<1>6. [Next]_vars => [ApprovalNext]_approvalVars
  BY StepsOfTheParts
<1>7. [Next]_vars => [EffectsNext]_effectsVars
  BY StepsOfTheParts
<1>8. [Next]_vars => [SerialNext]_serialVars
  BY StepsOfTheParts
<1>9. [Next]_vars => [RolloutNext]_rolloutVars
  BY StepsOfTheParts
<1>10. [Next]_vars => [TriggersNext]_triggerVars
  BY StepsOfTheParts
<1>11. Init => /\ GraphInit /\ LaneInit /\ LogInit /\ DrainInit /\ GroupInit
               /\ ApprovalInit /\ EffectsInit /\ SerialInit /\ RolloutInit /\ TriggersInit
  BY DEF Init
<1> QED BY <1>1, <1>2, <1>3, <1>4, <1>5, <1>6, <1>7, <1>8, <1>9, <1>10, <1>11, PTL
        DEF Spec, GraphSpec, LaneSpec, LogSpec, DrainSpec, GroupSpec, ApprovalSteps,
            EffectsSteps, SerialSteps, RolloutSteps, TriggersSteps

\* Every variable of every part keeps its type, the bounded queues their capacities
\* and the sweep its scan cap, for every number of runs, gates, jobs and lines.
THEOREM EverythingIsTyped == Spec => []TypeOK
<1>1. SerialInv => SerialTypeOK
  BY DEF SerialInv, SerialShape
<1>2. GroupInv => GroupTypeOK
  BY DEF GroupInv
<1>3. LaneTypeOK /\ ApprovalTypeOK /\ EffectsTypeOK /\ SerialTypeOK /\ RolloutTypeOK
        /\ TriggersTypeOK /\ LogTypeOK /\ DrainTypeOK /\ GroupTypeOK => TypeOK
  BY DEF TypeOK
<1> QED BY <1>1, <1>2, <1>3, CompositionImplementsParts, LanesAreTyped, ApprovalsAreTyped,
           EffectsAreTyped, SerialInvariant, RolloutsAreTyped, TriggersAreTyped, LogsAreTyped,
           DrainsAreTyped, GroupInvariant, PTL

\* The control plane is safe: definitions order and govern their jobs, supersede
\* markers are those of the current gates, a gate has the votes of its round or was
\* waved through on a server without auth, no two live runs of a serial pipeline are
\* past its gate unless it failed, no push is run twice, logs lose nothing but where
\* two executions share them, agents shut down soundly and destroyed groups stay
\* closed; deploys wait for their gates, are current when handed over, promoted only
\* with approval and never admitted into a freeze, expiry spares what is held, and
\* revived runs keep their pods.
THEOREM ControlPlaneIsSafe ==
    Spec => /\ []GraphSound /\ []MarkersMatchGates /\ []GatesBeforeDeploys
            /\ []QuorumSinceArmed /\ []OneAtATime /\ []PushRunsOnce
            /\ []LogsIntact /\ []ShutdownSound /\ []DestroyedStaysClosed
            /\ NoStaleDeploy /\ FrozenAdmitsNothing /\ ExpirySparesHeld
            /\ RevivedPodsSurvive /\ PromoteIsApproved
<1>1. QuorumInv => QuorumSinceArmed
  BY DEF QuorumInv
<1> QED BY <1>1, CompositionImplementsParts, GraphsAreSound, MarkersAgreeWithGates,
           DeploysWaitForGates, QuorumInvariant, SerialAloneBySteps, PushesRunOnceBySteps,
           LogsAreIntact, ShutdownsAreSound, DestroyedIsFinal, HandedDeploysAreCurrent,
           FreezesAreRespected, ExpiryIsFairBySteps, RevivedKeepPodsBySteps, PromotionsApprovedBySteps, PTL
=============================================================================
