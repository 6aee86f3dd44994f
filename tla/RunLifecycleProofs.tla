------------------------- MODULE RunLifecycleProofs -------------------------
(***************************************************************************)
(* What holds of RunLifecycle for every pipeline, every set of agents and  *)
(* every bound.  The first part is about rows: types, the bound on         *)
(* hand-overs, gates, ownership, final statuses and cancels, and that each *)
(* row implements module JobContract.  The second part is about stages:    *)
(* their order, the verdict, what a closed stage leaves behind, that a run *)
(* cannot wedge and that notifications fit the outcome.                    *)
(*                                                                         *)
(* The second part is stated for a run nobody has rerun yet: a rerun       *)
(* reopens a stage in the past on purpose, and two of these properties are *)
(* then false (run_rerun_tail).                                            *)
(***************************************************************************)
EXTENDS RunLifecycle, TLAPS

\* The types of the rows, of the scheduler's local state and of the rest.
JobRowsOK(js, og, ss, rs) ==
    /\ js \in [Jobs -> JobStatus]
    /\ og \in [Jobs -> Origins]
    /\ ss \in [Stages -> RowStatus]
    /\ rs \in RowStatus

-----------------------------------------------------------------------------
(* The operators of the rollup                                             *)

\* A verdict is a final status of a stage or a run.
LEMMA VerdictType == ASSUME NEW js, NEW J PROVE Verdict(js, J) \in Closed
  BY DEF Verdict, Closed

\* The cascade of results.go maps well-typed rows to well-typed rows.
LEMMA CascadeType ==
    ASSUME NEW js, NEW og, NEW ss, NEW rs, NEW s \in Stages,
           JobRowsOK(js, og, ss, rs)
    PROVE  LET c == Cascade(js, og, ss, rs, s)
           IN JobRowsOK(c.status, c.origin, c.stage, c.run)
<1> DEFINE outcome == Verdict(js, JobsIn(s))
           closed == [ss EXCEPT ![s] = outcome]
           origins == [j \in Jobs |-> IF Cancellable(js, j)
                                      THEN FirstOrigin(og, j, "system") ELSE og[j]]
<1>1. outcome \in RowStatus
  BY VerdictType DEF RowStatus
<1>2. closed \in [Stages -> RowStatus]
  BY <1>1 DEF JobRowsOK
<1>3. CancelQueuedStages(closed) \in [Stages -> RowStatus]
  <2> HIDE DEF closed
  <2> QED BY <1>2 DEF CancelQueuedStages, RowStatus, Closed, Open
<1>4. CancelQueuedJobs(js) \in [Jobs -> JobStatus]
  BY DEF CancelQueuedJobs, JobRowsOK, JobStatus, Finished
<1>5. origins \in [Jobs -> Origins]
  BY DEF JobRowsOK, FirstOrigin, Origins
<1>6. \A J : Verdict(CancelQueuedJobs(js), J) \in RowStatus /\ Verdict(js, J) \in RowStatus
  BY VerdictType DEF RowStatus
<1> HIDE DEF outcome, closed, origins
<1> QED BY <1>2, <1>3, <1>4, <1>5, <1>6 DEF Cascade, JobRowsOK, outcome, closed, origins

\* Finishing one job keeps the rows well typed.
LEMMA FinishType ==
    ASSUME TypeOK, NEW j \in Jobs, NEW st \in JobStatus, NEW o \in Origins,
           FinishAs(j, st, o)
    PROVE  JobRowsOK(status', origin', stage', run')
<1> DEFINE js == [status EXCEPT ![j] = st]
           og == [origin EXCEPT ![j] = o]
<1>1. JobRowsOK(js, og, stage, run)
  BY DEF TypeOK, JobRowsOK
<1>2. StageOf[j] \in Stages
  BY RunAssumption
<1> HIDE DEF js, og
<1>3. LET c == Cascade(js, og, stage, run, StageOf[j])
      IN JobRowsOK(c.status, c.origin, c.stage, c.run)
  BY <1>1, <1>2, CascadeType
<1> QED BY <1>3 DEF FinishAs, js, og

\* The ways a transaction moves one row, each keeping the rows well typed.
LEMMA CompleteType ==
    ASSUME TypeOK, NEW j \in Jobs, NEW out \in {"success", "failed"}, Complete(j, out)
    PROVE  /\ JobRowsOK(status', origin', stage', run')
           /\ UNCHANGED <<agent, attempt, stamp>>
<1> DEFINE st == IF stamp[j] THEN "canceled" ELSE out
<1>1. st \in JobStatus
  BY DEF JobStatus, Finished
<1>2. origin[j] \in Origins
  BY DEF TypeOK
<1>3. FinishAs(j, st, origin[j])
  BY DEF Complete, Finish
<1> HIDE DEF st
<1> QED BY <1>1, <1>2, <1>3, FinishType DEF Complete

\* Finishing a job that keeps its cancel origin keeps the rows well typed.
LEMMA FinishSameOriginType ==
    ASSUME TypeOK, NEW j \in Jobs, NEW st \in JobStatus, Finish(j, st)
    PROVE  JobRowsOK(status', origin', stage', run')
<1>1. origin[j] \in Origins
  BY DEF TypeOK
<1> QED BY <1>1, FinishType DEF Finish

\* Requeueing a job (ReclaimJobForRetry) keeps the rows well typed.
LEMMA RequeueType ==
    ASSUME TypeOK, NEW j \in Jobs, Requeue(j)
    PROVE  /\ JobRowsOK(status', origin', stage', run')
           /\ agent' \in [Jobs -> Agents \cup {NoAgent}]
           /\ attempt' \in [Jobs -> Nat]
           /\ stamp' \in [Jobs -> BOOLEAN]
  BY DEF Requeue, TypeOK, JobRowsOK, JobStatus, Unfinished, Origins

-----------------------------------------------------------------------------
(* Type correctness                                                        *)

Budgets == [rerun : Nat, cancel : Nat, loss : Nat]

\* Spending one of the bounded requests or losses keeps the budget well typed.
LEMMA SpendType ==
    ASSUME NEW b \in Budgets
    PROVE  /\ b.loss > 0 => [b EXCEPT !.loss = @ - 1] \in Budgets
           /\ b.cancel > 0 => [b EXCEPT !.cancel = @ - 1] \in Budgets
           /\ b.rerun > 0 => [b EXCEPT !.rerun = @ - 1] \in Budgets
<1>1. b.loss \in Nat /\ b.cancel \in Nat /\ b.rerun \in Nat
  BY DEF Budgets
<1>2. b.loss > 0 => b.loss - 1 \in Nat
  BY <1>1
<1>3. b.cancel > 0 => b.cancel - 1 \in Nat
  BY <1>1
<1>4. b.rerun > 0 => b.rerun - 1 \in Nat
  BY <1>1
<1> QED BY <1>2, <1>3, <1>4 DEF Budgets

\* TypeOK in three parts: the job, stage and run rows, the scheduler, the rest.
RowsOK ==
    /\ JobRowsOK(status, origin, stage, run)
    /\ agent \in [Jobs -> Agents \cup {NoAgent}]
    /\ attempt \in [Jobs -> Nat]
    /\ stamp \in [Jobs -> BOOLEAN]
RestOK ==
    /\ due \in BOOLEAN
    /\ execs \subseteq Execution
    /\ reap \subseteq Snapshot
    /\ away \subseteq Agents
    /\ watches \subseteq Watch
    /\ deleted \subseteq Watch
    /\ issued \in [Jobs -> Nat]
    /\ rearmed \in [Jobs -> Nat]
    /\ budget \in Budgets

\* The type invariant split into the parts that steps disturb separately.
LEMMA TypeParts == TypeOK <=> RowsOK /\ tick \in Tick /\ RestOK
  BY DEF TypeOK, RowsOK, RestOK, JobRowsOK, Budgets

\* The same split after a step.
LEMMA TypePartsNext == TypeOK' <=> RowsOK' /\ tick' \in Tick /\ RestOK'
  BY DEF TypeOK, RowsOK, RestOK, JobRowsOK, Budgets

\* A freshly inserted run (insertRunRowsTx) is well typed.
LEMMA InitType == Init => TypeOK
<1> SUFFICES ASSUME Init PROVE TypeOK
  OBVIOUS
<1>1. RowsOK
  BY RunAssumption DEF Init, RowsOK, JobRowsOK, JobStatus, Unfinished, Origins,
     RowStatus, Open
<1>2. tick \in Tick
  BY DEF Init, Tick, IdleTick, JobStatus, Unfinished
<1>3. RestOK
  BY RunAssumption DEF Init, RestOK, Budgets
<1> QED BY <1>1, <1>2, <1>3, TypeParts

\* Between two runs, and when it moves on from a candidate, the scheduler's
\* local state is well typed.
LEMMA IdleTickType == IdleTick \in Tick
  BY DEF IdleTick, Tick, JobStatus, Unfinished

\* Moving on to the next candidate of dispatchRun keeps the tick well typed.
LEMMA NextCandidateType ==
    ASSUME TypeOK, NEW j \in Jobs
    PROVE  NextCandidate(j) \in Tick
<1>1. UserOutcome \in Outcomes \cup {NoOutcome}
  BY DEF UserOutcome, TypeOK, Outcomes, Tick
<1> HIDE DEF UserOutcome
<1> QED BY <1>1 DEF NextCandidate, TypeOK, Tick

\* What the loop of dispatchRun does with one candidate keeps the types.
LEMMA ConsiderType ==
    ASSUME TypeOK, NEW j \in Jobs, Consider(j)
    PROVE  TypeOK'
<1>0. RowsOK /\ tick \in Tick /\ RestOK
  BY TypeParts
<1>1. ASSUME NEW st \in {"skipped", "failed"}, CullQueued(j, st) PROVE TypeOK'
  <2>1. st \in JobStatus
    BY DEF JobStatus, Finished
  <2>2. tick' \in Tick
    BY <1>1, NextCandidateType DEF CullQueued
  <2>3. JobRowsOK(status', origin', stage', run')
    BY <1>0, <1>1, <2>1, FinishSameOriginType DEF CullQueued, RowsOK
  <2>4. RowsOK'
    BY <1>0, <1>1, <2>3 DEF CullQueued, RowsOK
  <2>5. RestOK'
    BY <1>0, <1>1 DEF CullQueued, RestOK, deploys
  <2> QED BY <2>2, <2>4, <2>5, TypePartsNext
<1>2. CASE SkipJob(j)
  BY <1>1, <1>2 DEF SkipJob
<1>3. CASE FailJobWithReason(j)
  BY <1>1, <1>3 DEF FailJobWithReason
<1>4. CASE LeaveQueued(j)
  <2>1. tick' \in Tick
    BY <1>0, <1>4, NextCandidateType DEF LeaveQueued, Tick
  <2>2. RowsOK' /\ RestOK'
    BY <1>0, <1>4 DEF LeaveQueued, RowsOK, RestOK, rows, JobRowsOK, deploys
  <2> QED BY <2>1, <2>2, TypePartsNext
<1>5. CASE FailJobWithError(j)
  <2>1. tick' \in Tick
    BY <1>5, NextCandidateType DEF FailJobWithError
  <2>2. RowsOK'
    BY <1>0, <1>5, CompleteType DEF FailJobWithError, RowsOK, rows
  <2>3. RestOK'
    BY <1>0, <1>5 DEF FailJobWithError, RestOK, deploys
  <2> QED BY <2>1, <2>2, <2>3, TypePartsNext
<1>7. CASE StartServerManagedJob(j)
  <2>1. tick' \in Tick
    BY <1>7, NextCandidateType DEF StartServerManagedJob
  <2>2. RowsOK'
    BY <1>0, <1>7 DEF StartServerManagedJob, RowsOK, JobRowsOK, JobStatus, Unfinished, RowStatus,
       Open
  <2>3. watches' \subseteq Watch
    BY <1>0, <1>7 DEF StartServerManagedJob, RowsOK, RestOK, Watch
  <2>4. issued' \in [Jobs -> Nat]
    BY <1>0, <1>7 DEF StartServerManagedJob, RestOK
  <2>5. RestOK'
    BY <1>0, <1>7, <2>3, <2>4 DEF StartServerManagedJob, RestOK
  <2> QED BY <2>1, <2>2, <2>5, TypePartsNext
<1>6. ASSUME NEW a \in Agents, AssignJob(j, a) PROVE TypeOK'
  <2>0. NextCandidate(j) \in Tick
    BY NextCandidateType
  <2>1. tick' \in Tick
    <3>1. attempt[j] \in Nat
      BY <1>0 DEF RowsOK
    <3>2. [NextCandidate(j) EXCEPT !.pc = "claimed", !.job = j, !.agent = a,
                                   !.attempt = attempt[j]] \in Tick
      BY <2>0, <3>1 DEF Tick
    <3> QED BY <1>6, <2>0, <3>2 DEF AssignJob
  <2>2. RowsOK'
    BY <1>0, <1>6 DEF AssignJob, RowsOK, JobRowsOK, JobStatus, Unfinished
  <2>3. RestOK'
    BY <1>0, <1>6 DEF AssignJob, RestOK, deploys
  <2> QED BY <2>1, <2>2, <2>3, TypePartsNext
<1> QED BY <1>2, <1>3, <1>4, <1>5, <1>6, <1>7 DEF Consider

\* The other steps of the scheduler keep the types.
LEMMA SchedulerType ==
    ASSUME TypeOK,
           \/ DrainQueued \/ LoseNotify \/ DispatchList \/ DispatchSnapshot
           \/ DispatchAssignment \/ UnassignJob \/ MarkStageRunning \/ EndTick
           \/ ServerRestart,
           tick.pc \in {"claimed", "sent"} => tick.job \in Jobs /\ tick.agent \in Agents
    PROVE  TypeOK'
<1>0. RowsOK /\ tick \in Tick /\ RestOK
  BY TypeParts
<1>1. CASE DrainQueued \/ LoseNotify
  <2>1. RowsOK' /\ tick' \in Tick
    BY <1>0, <1>1 DEF DrainQueued, LoseNotify, RowsOK, rows, JobRowsOK
  <2>2. RestOK'
    BY <1>0, <1>1, SpendType DEF DrainQueued, LoseNotify, RestOK, deploys
  <2> QED BY <2>1, <2>2, TypePartsNext
<1>2. CASE DispatchList \/ DispatchSnapshot
  <2>1. Dispatchable \subseteq Jobs
    BY DEF Dispatchable
  <2>2. tick' \in Tick
    BY <1>0, <1>2, <2>1, ZenonT(40) DEF DispatchList, DispatchSnapshot, Tick, RowsOK, JobRowsOK
  <2>3. RowsOK' /\ RestOK'
    BY <1>0, <1>2 DEF DispatchList, DispatchSnapshot, RowsOK, RestOK, rows, JobRowsOK, deploys
  <2> QED BY <2>2, <2>3, TypePartsNext
<1>3. CASE DispatchAssignment
  <2>1. tick' \in Tick
    BY <1>0, <1>3 DEF DispatchAssignment, Tick
  <2>2. RowsOK'
    BY <1>0, <1>3 DEF DispatchAssignment, RowsOK, rows, JobRowsOK
  <2>3. tick.job \in Jobs /\ tick.agent \in Agents /\ tick.attempt \in Nat
    BY <1>0, <1>3 DEF DispatchAssignment, Tick
  <2>4. RestOK'
    BY <1>0, <1>3, <2>3 DEF DispatchAssignment, RestOK, Execution, deploys
  <2> QED BY <2>1, <2>2, <2>4, TypePartsNext
<1>4. CASE UnassignJob
  <2>1. tick' \in Tick
    BY <1>0, <1>4 DEF UnassignJob, Tick
  <2>2. tick.job \in Jobs
    BY <1>4 DEF UnassignJob
  <2>3. "canceled" \in JobStatus
    BY DEF JobStatus, Finished
  <2>4. RowsOK'
    BY <1>0, <1>4, <2>2, <2>3, FinishSameOriginType
       DEF UnassignJob, RowsOK, JobRowsOK, JobStatus, Unfinished, Origins
  <2>5. RestOK'
    BY <1>0, <1>4 DEF UnassignJob, RestOK, deploys
  <2> QED BY <2>1, <2>4, <2>5, TypePartsNext
<1>5. CASE MarkStageRunning
  <2>1. tick' \in Tick
    BY <1>0, <1>5 DEF MarkStageRunning, Tick
  <2>2. RowsOK'
    BY <1>0, <1>5 DEF MarkStageRunning, RowsOK, JobRowsOK, RowStatus, Open
  <2>3. RestOK'
    BY <1>0, <1>5 DEF MarkStageRunning, RestOK, deploys
  <2> QED BY <2>1, <2>2, <2>3, TypePartsNext
<1>6. CASE EndTick \/ ServerRestart
  <2>1. tick' \in Tick
    BY <1>6, IdleTickType DEF EndTick, ServerRestart
  <2>2. RowsOK'
    BY <1>0, <1>6 DEF EndTick, ServerRestart, RowsOK, JobRowsOK, rows, RowStatus, Open
  <2>3. due' \in BOOLEAN
    <3>1. CASE EndTick
      BY <1>0, <3>1 DEF EndTick, RestOK
    <3>2. CASE ServerRestart
      <4>1. (run \in Open) \in BOOLEAN
        OBVIOUS
      <4> QED BY <3>2, <4>1 DEF ServerRestart
    <3> QED BY <1>6, <3>1, <3>2
  <2>4. budget' \in Budgets
    BY <1>0, <1>6, SpendType DEF EndTick, ServerRestart, RestOK
  <2>5. RestOK'
    BY <1>0, <1>6, <2>3, <2>4 DEF EndTick, ServerRestart, RestOK, deploys
  <2> QED BY <2>1, <2>2, <2>5, TypePartsNext
<1> QED BY <1>1, <1>2, <1>3, <1>4, <1>5, <1>6

\* A job result, accepted or dropped, keeps the rows well typed.
LEMMA CompleteJobType ==
    ASSUME TypeOK, NEW e \in execs, NEW out \in {"success", "failed"}, CompleteJob(e, out)
    PROVE  RowsOK' /\ due' \in BOOLEAN
<1>0. RowsOK /\ RestOK /\ e.job \in Jobs
  BY TypeParts DEF RestOK, Execution
<1>1. RowsOK'
  BY <1>0, CompleteType DEF CompleteJob, RowsOK, rows
<1>2. due' \in BOOLEAN
  BY <1>0, Zenon DEF CompleteJob, WakeUnlessRunCompletes, RestOK
<1> QED BY <1>1, <1>2

\* Results and disruptions keep the types.
LEMMA ReportType ==
    ASSUME TypeOK, NEW e \in execs,
           \/ \E out \in {"success", "failed"} : JobResult(e, out)
           \/ HandleDisruptedJob(e)
    PROVE  TypeOK'
<1>0. RowsOK /\ tick \in Tick /\ RestOK /\ e.job \in Jobs
  BY TypeParts DEF RestOK, Execution
<1>1. CASE \E out \in {"success", "failed"} : JobResult(e, out)
  <2>1. RowsOK' /\ due' \in BOOLEAN
    BY <1>1, CompleteJobType DEF JobResult
  <2>2. RestOK' /\ tick' \in Tick
    BY <1>0, <1>1, <2>1 DEF JobResult, RestOK, deploys
  <2> QED BY <2>1, <2>2, TypePartsNext
<1>2. CASE HandleDisruptedJob(e)
  <2>1. RowsOK' /\ due' \in BOOLEAN
    <3>1. CASE CompleteJob(e, "failed")
      BY <3>1, CompleteJobType
    <3>2. CASE Requeue(e.job) /\ due' = TRUE
      BY <1>0, <3>2, RequeueType DEF RowsOK
    <3>3. CASE UNCHANGED <<rows, due>>
      BY <1>0, <3>3 DEF RowsOK, JobRowsOK, rows, RestOK
    <3> QED BY <1>2, <3>1, <3>2, <3>3 DEF HandleDisruptedJob
  <2>2. budget' \in Budgets
    BY <1>0, <1>2, SpendType DEF HandleDisruptedJob, RestOK, deploys
  <2>3. RestOK' /\ tick' \in Tick
    BY <1>0, <1>2, <2>1, <2>2 DEF HandleDisruptedJob, RestOK, deploys
  <2> QED BY <2>1, <2>3, TypePartsNext
<1> QED BY <1>1, <1>2

\* Agents that come and go keep the types.
LEMMA PresenceType ==
    ASSUME TypeOK, NEW a \in Agents, AgentLost(a) \/ AgentReturns(a)
    PROVE  TypeOK'
<1>0. RowsOK /\ tick \in Tick /\ RestOK
  BY TypeParts
<1>1. budget' \in Budgets
  BY <1>0, SpendType DEF AgentLost, AgentReturns, RestOK
<1>2. RowsOK' /\ tick' \in Tick
  BY <1>0 DEF AgentLost, AgentReturns, RowsOK, JobRowsOK, rows
<1>3. RestOK'
  BY <1>0, <1>1 DEF AgentLost, AgentReturns, RestOK, deploys
<1> QED BY <1>2, <1>3, TypePartsNext

\* A watch that ends, by a verdict or by hand, keeps the types.
LEMMA WatchType ==
    ASSUME TypeOK, NEW w \in watches,
           LoseDeployWatch(w) \/ \E v \in {"success", "failed"} : FinalizeDeployWatch(w, v)
    PROVE  TypeOK'
<1>0. RowsOK /\ tick \in Tick /\ RestOK /\ w \in Watch /\ w.job \in Jobs
  BY TypeParts, RunAssumption DEF RestOK, Watch
<1>1. CASE LoseDeployWatch(w)
  <2>1. budget' \in Budgets
    BY <1>0, <1>1, SpendType DEF LoseDeployWatch, RestOK
  <2>2. RowsOK' /\ tick' \in Tick
    BY <1>0, <1>1 DEF LoseDeployWatch, RowsOK, JobRowsOK, rows
  <2>3. RestOK'
    BY <1>0, <1>1, <2>1 DEF LoseDeployWatch, RestOK
  <2> QED BY <2>2, <2>3, TypePartsNext
<1>2. ASSUME NEW v \in {"success", "failed"}, FinalizeDeployWatch(w, v) PROVE TypeOK'
  <2>1. RowsOK' /\ due' \in BOOLEAN
    <3>1. CASE Complete(w.job, v) /\ due' = TRUE
      BY <1>0, <3>1, CompleteType DEF RowsOK
    <3>2. CASE UNCHANGED <<rows, due>>
      BY <1>0, <3>2 DEF RowsOK, JobRowsOK, rows, RestOK
    <3> QED BY <1>2, <3>1, <3>2 DEF FinalizeDeployWatch
  <2>2. RestOK' /\ tick' \in Tick
    BY <1>0, <1>2, <2>1 DEF FinalizeDeployWatch, RestOK
  <2> QED BY <2>1, <2>2, TypePartsNext
<1> QED BY <1>1, <1>2

\* The reaper and the register fence keep the types.
LEMMA ReclaimType ==
    ASSUME TypeOK,
           \/ \E j \in Jobs : ReclaimList(j) \/ CancelReclaimed(j)
           \/ \E s \in reap : ReclaimStaleJob(s)
    PROVE  TypeOK'
<1>0. RowsOK /\ tick \in Tick /\ RestOK
  BY TypeParts
<1>1. ASSUME NEW j \in Jobs, ReclaimList(j) PROVE TypeOK'
  <2>1. agent[j] \in Agents \cup {NoAgent} /\ attempt[j] \in Nat
    BY <1>0, <1>1 DEF RowsOK
  <2>2. RestOK'
    BY <1>0, <1>1, <2>1 DEF ReclaimList, RestOK, Snapshot, deploys
  <2>3. RowsOK' /\ tick' \in Tick
    BY <1>0, <1>1 DEF ReclaimList, RowsOK, JobRowsOK, rows
  <2> QED BY <2>2, <2>3, TypePartsNext
<1>2. ASSUME NEW j \in Jobs, CancelReclaimed(j) PROVE TypeOK'
  <2>1. "canceled" \in JobStatus
    BY DEF JobStatus, Finished
  <2>2. RowsOK'
    BY <1>0, <1>2, <2>1, FinishSameOriginType DEF CancelReclaimed, RowsOK
  <2>3. RestOK' /\ tick' \in Tick
    BY <1>0, <1>2 DEF CancelReclaimed, RestOK, deploys
  <2> QED BY <2>2, <2>3, TypePartsNext
<1>3. ASSUME NEW s \in reap, ReclaimStaleJob(s) PROVE TypeOK'
  <2>1. "failed" \in JobStatus /\ s.job \in Jobs
    BY <1>0 DEF JobStatus, Finished, RestOK, Snapshot
  <2>2. RowsOK' /\ due' \in BOOLEAN
    <3>1. CASE Finish(s.job, "failed") /\ UNCHANGED <<agent, attempt, stamp, due>>
      BY <1>0, <2>1, <3>1, FinishSameOriginType DEF RowsOK, RestOK
    <3>2. CASE Requeue(s.job) /\ due' = TRUE
      BY <2>1, <3>2, RequeueType DEF RowsOK
    <3>3. CASE UNCHANGED <<rows, due>>
      BY <1>0, <3>3 DEF RowsOK, JobRowsOK, rows, RestOK
    <3> QED BY <1>3, <3>1, <3>2, <3>3 DEF ReclaimStaleJob
  <2>3. RestOK' /\ tick' \in Tick
    BY <1>0, <1>3, <2>2 DEF ReclaimStaleJob, RestOK, deploys
  <2> QED BY <2>2, <2>3, TypePartsNext
<1> QED BY <1>1, <1>2, <1>3

\* Cancels, decisions and reruns keep the types.
LEMMA RequestType ==
    ASSUME TypeOK,
           \/ \E j \in Jobs : CancelJobRun(j) \/ RerunJob(j)
           \/ \E S \in {UserJobs, Jobs} : CancelOpenRun(S)
           \/ \E g \in Gates, v \in {"success", "failed"} : DecideGate(g, v)
    PROVE  TypeOK'
<1>0. RowsOK /\ tick \in Tick /\ RestOK
  BY TypeParts
<1>1. ASSUME NEW j \in Jobs, CancelJobRun(j) PROVE TypeOK'
  <2>1. "canceled" \in JobStatus /\ FirstOrigin(origin, j, "user_job") \in Origins
    BY <1>0 DEF JobStatus, Finished, FirstOrigin, RowsOK, JobRowsOK, Origins
  <2>2. RowsOK'
    BY <1>0, <1>1, <2>1, FinishType DEF CancelJobRun, RowsOK, JobRowsOK
  <2>3. budget' \in Budgets
    BY <1>0, <1>1, SpendType DEF CancelJobRun, RestOK, deploys
  <2>4. RestOK' /\ tick' \in Tick
    BY <1>0, <1>1, <2>3 DEF CancelJobRun, RestOK, deploys
  <2> QED BY <2>2, <2>4, TypePartsNext
<1>2. ASSUME NEW S \in {UserJobs, Jobs}, CancelOpenRun(S) PROVE TypeOK'
  <2>1. status' \in [Jobs -> JobStatus] /\ stage' \in [Stages -> RowStatus]
        /\ run' \in RowStatus
    BY <1>0, <1>2 DEF CancelOpenRun, CancelQueuedJobs, CancelQueuedStages, RowsOK,
       JobRowsOK, JobStatus, Finished, RowStatus, Closed
  <2>2. origin' \in [Jobs -> Origins]
    BY <1>0, <1>2 DEF CancelOpenRun, FirstOrigin, RowsOK, JobRowsOK, Origins
  <2>3. stamp' \in [Jobs -> BOOLEAN]
    BY <1>0, <1>2, Zenon DEF CancelOpenRun
  <2>4. RowsOK'
    BY <1>0, <1>2, <2>1, <2>2, <2>3 DEF CancelOpenRun, RowsOK, JobRowsOK
  <2>5. budget' \in Budgets
    BY <1>0, <1>2, SpendType DEF CancelOpenRun, RestOK, deploys
  <2>6. RestOK' /\ tick' \in Tick
    BY <1>0, <1>2, <2>5 DEF CancelOpenRun, RestOK, deploys
  <2> QED BY <2>4, <2>6, TypePartsNext
<1>3. ASSUME NEW g \in Gates, NEW v \in {"success", "failed"}, DecideGate(g, v) PROVE TypeOK'
  <2>1. v \in JobStatus /\ g \in Jobs
    BY RunAssumption DEF JobStatus, Finished
  <2>2. RowsOK'
    BY <1>0, <1>3, <2>1, FinishSameOriginType DEF DecideGate, RowsOK
  <2>3. due' \in BOOLEAN
    BY <1>0, <1>3, Zenon DEF DecideGate, RestOK, deploys
  <2>4. RestOK' /\ tick' \in Tick
    BY <1>0, <1>3, <2>3 DEF DecideGate, RestOK, deploys
  <2> QED BY <2>2, <2>4, TypePartsNext
<1>4. ASSUME NEW j \in Jobs, RerunJob(j) PROVE TypeOK'
  <2>1. status' \in [Jobs -> JobStatus] /\ origin' \in [Jobs -> Origins]
        /\ agent' \in [Jobs -> Agents \cup {NoAgent}] /\ attempt' \in [Jobs -> Nat]
    BY <1>0, <1>4 DEF RerunJob, Revived, RowsOK, JobRowsOK, JobStatus, Unfinished, Origins
  <2>2. stage' \in [Stages -> RowStatus] /\ run' \in RowStatus
    BY <1>0, <1>4 DEF RerunJob, Revived, RowsOK, JobRowsOK, RowStatus, Open
  <2>3. stamp' \in [Jobs -> BOOLEAN]
    BY <1>0, <1>4, Zenon DEF RerunJob
  <2>4. rearmed' \in [Jobs -> Nat]
    BY <1>0, <1>4 DEF RerunJob, RestOK, deploys
  <2>5. budget' \in Budgets
    BY <1>0, <1>4, SpendType DEF RerunJob, RestOK, deploys
  <2>6. RowsOK'
    BY <2>1, <2>2, <2>3 DEF RowsOK, JobRowsOK
  <2>7. RestOK' /\ tick' \in Tick
    BY <1>0, <1>4, <2>4, <2>5 DEF RerunJob, RestOK, deploys
  <2> QED BY <2>6, <2>7, TypePartsNext
<1> QED BY <1>1, <1>2, <1>3, <1>4

-----------------------------------------------------------------------------
(* Every step moves every row by a move of JobContract                     *)

\* Finishing job j ends j as asked; any other row stays as it is, or was still
\* queued (or an undecided gate) and is canceled.
LEMMA FinishEffect ==
    ASSUME TypeOK, NEW j \in Jobs, NEW st \in Finished, NEW o, FinishAs(j, st, o)
    PROVE  /\ status'[j] = st
           /\ \A k \in Jobs \ {j} :
                 \/ status'[k] = status[k]
                 \/ status[k] \in {"queued", "awaiting_approval"} /\ status'[k] = "canceled"
<1> DEFINE js == [status EXCEPT ![j] = st]
           og == [origin EXCEPT ![j] = o]
<1>1. status' = js \/ status' = CancelQueuedJobs(js)
  BY DEF FinishAs, Cascade
<1>2. js[j] = st /\ \A k \in Jobs \ {j} : js[k] = status[k]
  BY DEF TypeOK
<1> HIDE DEF js
<1> QED BY <1>1, <1>2 DEF CancelQueuedJobs, Cancellable, Finished

\* The claim mapped to the abstract row.
LEMMA HeldAt ==
    ASSUME NEW k \in Jobs
    PROVE  /\ Held[k] <=> tick.pc = "claimed" /\ tick.job = k
           /\ Held'[k] <=> tick'.pc = "claimed" /\ tick'.job = k
  BY DEF Held

DropsClaims == \A k \in Jobs : Held'[k] => Held[k]

\* A step that leaves the tick alone leaves every claim as it is.
LEMMA DropClaims ==
    ASSUME \/ tick' = tick
           \/ tick'.pc # "claimed"
    PROVE  DropsClaims
  BY HeldAt DEF DropsClaims

\* A step that leaves the columns of job_runs alone.
LEMMA StayMoves ==
    ASSUME UNCHANGED <<status, agent, attempt, stamp, issued, rearmed>>, DropsClaims
    PROVE  Contract!Next
  BY DEF DropsClaims, Contract!Next, Contract!Move, Contract!Stay, Contract!SameOwner,
     Contract!MayDropClaim, Contract!SameCounts

\* A step that finishes job j and rolls up.
LEMMA FinishMoves ==
    ASSUME TypeOK, NEW j \in Jobs, NEW st \in Finished, NEW o, FinishAs(j, st, o),
           UNCHANGED <<agent, attempt, stamp, issued, rearmed>>, DropsClaims,
           status[j] \in Unfinished,
           status[j] = "running" /\ stamp[j] => st = "canceled",
           st = "skipped" => status[j] = "queued"
    PROVE  Contract!Next
<1> SUFFICES ASSUME NEW k \in Jobs PROVE Contract!Move(k)
  BY DEF Contract!Next
<1>1. /\ Contract!SameOwner(k) /\ stamp'[k] = stamp[k]
      /\ Contract!MayDropClaim(k) /\ Contract!SameCounts(k)
  BY DEF DropsClaims, Contract!SameOwner, Contract!MayDropClaim, Contract!SameCounts
<1>2. /\ status'[j] = st
      /\ k # j => \/ status'[k] = status[k]
                  \/ status[k] \in {"queued", "awaiting_approval"} /\ status'[k] = "canceled"
  BY FinishEffect
<1>3. CASE status'[k] = status[k] /\ k # j
  BY <1>1, <1>3 DEF Contract!Move, Contract!Stay
<1>4. CASE k # j /\ status[k] \in {"queued", "awaiting_approval"} /\ status'[k] = "canceled"
  BY <1>1, <1>4 DEF Contract!Move, Contract!End
<1>5. CASE k = j
  BY <1>1, <1>2, <1>5 DEF Contract!Move, Contract!End, Finished, Unfinished
<1> QED BY <1>2, <1>3, <1>4, <1>5

\* A step that requeues job j as its next attempt.
LEMMA RequeueMoves ==
    ASSUME TypeOK, NEW j \in Jobs, Requeue(j), UNCHANGED <<issued, rearmed>>, DropsClaims,
           status[j] = "running", ~stamp[j], j \notin RetryUnsafe, attempt[j] < MaxAttempts
    PROVE  Contract!Next
<1> SUFFICES ASSUME NEW k \in Jobs PROVE Contract!Move(k)
  BY DEF Contract!Next
<1>1. Contract!MayDropClaim(k) /\ Contract!SameCounts(k)
  BY DEF DropsClaims, Contract!MayDropClaim, Contract!SameCounts
<1>2. CASE k = j
  BY <1>1, <1>2 DEF Requeue, TypeOK, Contract!Move, Contract!Retry
<1>3. CASE k # j
  BY <1>1, <1>3 DEF Requeue, TypeOK, Contract!Move, Contract!Stay, Contract!SameOwner
<1> QED BY <1>2, <1>3

ClaimOK == tick.pc \in {"claimed", "sent"} => tick.job \in Jobs /\ tick.agent \in Agents

\* Whatever the loop of dispatchRun does, it does to a candidate.
LEMMA OnlyCandidates == ASSUME NEW j, Consider(j) PROVE Considering(j)
<1>1. CASE SkipJob(j) \/ FailJobWithReason(j) \/ LeaveQueued(j)
  BY <1>1 DEF SkipJob, FailJobWithReason, LeaveQueued
<1>2. CASE FailJobWithError(j)
  BY <1>2 DEF FailJobWithError
<1>3. CASE StartServerManagedJob(j)
  BY <1>3 DEF StartServerManagedJob
<1>4. CASE \E a \in Agents : AssignJob(j, a)
  BY <1>4 DEF AssignJob
<1> QED BY <1>1, <1>2, <1>3, <1>4 DEF Consider

\* The loop of dispatchRun keeps the contract.
LEMMA ConsiderMoves ==
    ASSUME TypeOK, NEW j \in Jobs, Consider(j), Contract!ContractInv
    PROVE  Contract!Next
<1>0. tick.pc = "loop"
  BY OnlyCandidates DEF Considering
<1>1. NextCandidate(j).pc = "loop"
  BY <1>0 DEF NextCandidate, TypeOK, Tick
<1>2. ASSUME NEW st \in {"skipped", "failed"}, CullQueued(j, st) PROVE Contract!Next
  <2>1. DropsClaims
    BY <1>1, <1>2, DropClaims DEF CullQueued
  <2>2. CASE status[j] = "queued" /\ Finish(j, st)
    BY <1>2, <2>1, <2>2, FinishMoves DEF CullQueued, Finish, Finished, Unfinished
  <2>3. CASE UNCHANGED <<status, origin, stage, run>>
    BY <1>2, <2>1, <2>3, StayMoves DEF CullQueued
  <2> QED BY <1>2, <2>2, <2>3 DEF CullQueued
<1>3. CASE SkipJob(j) \/ FailJobWithReason(j)
  BY <1>2, <1>3 DEF SkipJob, FailJobWithReason
<1>4. CASE LeaveQueued(j)
  <2>1. tick'.pc = "loop"
    BY <1>0, <1>1, <1>4 DEF LeaveQueued, TypeOK, Tick
  <2> QED BY <1>4, <2>1, DropClaims, StayMoves DEF LeaveQueued, rows
<1>5. CASE FailJobWithError(j)
  <2>1. DropsClaims
    BY <1>1, <1>5, DropClaims DEF FailJobWithError
  <2>2. CASE status[j] \in {"queued", "running"} /\ Complete(j, "failed")
    <3> DEFINE st == IF stamp[j] THEN "canceled" ELSE "failed"
    <3>1. st \in Finished /\ st # "skipped"
      BY DEF Finished
    <3>2. FinishAs(j, st, origin[j])
      BY <2>2 DEF Complete, Finish
    <3>3. status[j] = "running" /\ stamp[j] => st = "canceled"
      OBVIOUS
    <3>4. status[j] \in Unfinished /\ UNCHANGED <<agent, attempt, stamp, issued, rearmed>>
      BY <1>5, <2>2 DEF FailJobWithError, Complete, Unfinished
    <3> HIDE DEF st
    <3> QED BY <2>1, <3>1, <3>2, <3>3, <3>4, FinishMoves
  <2>3. CASE UNCHANGED rows
    BY <1>5, <2>1, <2>3, StayMoves DEF FailJobWithError, rows
  <2> QED BY <1>5, <2>2, <2>3 DEF FailJobWithError
<1>7. CASE StartServerManagedJob(j)
  <2>1. DropsClaims /\ UNCHANGED <<agent, attempt, stamp, rearmed>>
    BY <1>1, <1>7, DropClaims DEF StartServerManagedJob
  <2>2. CASE UNCHANGED <<status, stage, run, watches, issued>>
    BY <2>1, <2>2, StayMoves
  <2>3. CASE /\ status[j] = "queued"
             /\ status' = [status EXCEPT ![j] = "running"]
             /\ issued' = [issued EXCEPT ![j] = @ + 1]
    <3> SUFFICES ASSUME NEW k \in Jobs PROVE Contract!Move(k)
      BY DEF Contract!Next
    <3>1. Contract!SameOwner(k) /\ Contract!MayDropClaim(k)
      BY <2>1 DEF DropsClaims, Contract!SameOwner, Contract!MayDropClaim
    <3>2. CASE k = j
      BY <1>7, <2>1, <2>3, <3>1, <3>2 DEF StartServerManagedJob, TypeOK, Contract!Move,
         Contract!TakeOver
    <3>3. CASE k # j
      BY <2>1, <2>3, <3>1, <3>3 DEF TypeOK, Contract!Move, Contract!Stay, Contract!SameCounts
    <3> QED BY <3>2, <3>3
  <2> QED BY <1>7, <2>2, <2>3 DEF StartServerManagedJob, Unassigned
<1>6. ASSUME NEW a \in Agents, AssignJob(j, a) PROVE Contract!Next
  <2>1. CASE tick' = NextCandidate(j) /\ UNCHANGED <<status, agent>>
    BY <1>1, <1>6, <2>1, DropClaims, StayMoves DEF AssignJob
  <2>2. CASE /\ status[j] = "queued"
             /\ status' = [status EXCEPT ![j] = "running"]
             /\ agent' = [agent EXCEPT ![j] = a]
             /\ tick' = [NextCandidate(j) EXCEPT !.pc = "claimed", !.job = j,
                                                 !.agent = a, !.attempt = attempt[j]]
    <3> SUFFICES ASSUME NEW k \in Jobs PROVE Contract!Move(k)
      BY DEF Contract!Next
    <3>1. Contract!SameCounts(k) /\ UNCHANGED <<attempt, stamp>>
      BY <1>6 DEF AssignJob, Contract!SameCounts
    <3>2. CASE k = j
      BY <2>2, <3>1, <3>2 DEF TypeOK, Contract!Move, Contract!Claim
    <3>3. CASE k # j
      <4>1. NextCandidate(j) \in Tick
        BY NextCandidateType
      <4>2. tick'.job = j
        BY <2>2, <4>1 DEF Tick
      <4>3. Contract!MayDropClaim(k)
        BY <3>3, <4>2, HeldAt DEF Contract!MayDropClaim
      <4> QED BY <2>2, <3>1, <3>3, <4>3
              DEF TypeOK, Contract!Move, Contract!Stay, Contract!SameOwner
    <3> QED BY <3>2, <3>3
  <2> QED BY <1>6, <2>1, <2>2 DEF AssignJob, Unassigned
<1> QED BY <1>3, <1>4, <1>5, <1>6, <1>7 DEF Consider

\* The rest of dispatchRun, the rollback and a restart keep the contract.
LEMMA SchedulerMoves ==
    ASSUME TypeOK, ClaimOK,
           \/ DrainQueued \/ LoseNotify \/ DispatchList \/ DispatchSnapshot
           \/ DispatchAssignment \/ UnassignJob \/ MarkStageRunning \/ EndTick
           \/ ServerRestart
    PROVE  Contract!Next
<1>1. CASE DrainQueued \/ LoseNotify
  BY <1>1, DropClaims, StayMoves DEF DrainQueued, LoseNotify, rows
<1>2. CASE DispatchList \/ DispatchSnapshot \/ MarkStageRunning
  <2>1. tick' = tick \/ tick'.pc # "claimed"
    BY <1>2, ZenonT(40) DEF DispatchList, DispatchSnapshot, MarkStageRunning, TypeOK, Tick
  <2> QED BY <1>2, <2>1, DropClaims, StayMoves
          DEF DispatchList, DispatchSnapshot, MarkStageRunning, rows
<1>3. CASE EndTick \/ ServerRestart
  <2>1. tick'.pc # "claimed"
    BY <1>3 DEF EndTick, ServerRestart, IdleTick
  <2> QED BY <1>3, <2>1, DropClaims, StayMoves DEF EndTick, ServerRestart, rows
<1>4. CASE DispatchAssignment
  <2> SUFFICES ASSUME NEW k \in Jobs PROVE Contract!Move(k)
    BY DEF Contract!Next
  <2>1. tick'.pc = "sent" /\ tick.pc = "claimed" /\ tick.job \in Jobs
    BY <1>4 DEF DispatchAssignment, TypeOK, Tick, ClaimOK
  <2>2. ~Held'[k]
    BY <2>1, HeldAt
  <2>3. UNCHANGED <<status, agent, attempt, stamp, rearmed>>
    BY <1>4 DEF DispatchAssignment, rows
  <2>4. CASE k = tick.job
    <3>1. Held[k]
      BY <2>1, <2>4, HeldAt
    <3>2. issued'[k] = issued[k] + 1
      BY <1>4, <2>4 DEF DispatchAssignment, TypeOK
    <3> QED BY <2>2, <2>3, <3>1, <3>2 DEF Contract!Move, Contract!HandOver, Contract!SameOwner
  <2>5. CASE k # tick.job
    <3>1. issued'[k] = issued[k]
      BY <1>4, <2>1, <2>5 DEF DispatchAssignment, TypeOK
    <3> QED BY <2>2, <2>3, <3>1 DEF Contract!Move, Contract!Stay, Contract!SameOwner,
            Contract!SameCounts, Contract!MayDropClaim
  <2> QED BY <2>4, <2>5
<1>5. CASE UnassignJob
  <2> DEFINE j == tick.job
  <2>1. tick'.pc = "loop" /\ tick.pc = "claimed" /\ j \in Jobs
    BY <1>5 DEF UnassignJob, TypeOK, Tick, ClaimOK
  <2>2. DropsClaims
    BY <2>1, DropClaims
  <2>3. UNCHANGED <<attempt, issued, rearmed>>
    BY <1>5 DEF UnassignJob
  <2>4. CASE /\ status[j] = "running" /\ stamp[j]
             /\ Finish(j, "canceled") /\ UNCHANGED <<agent, stamp, due>>
    BY <2>1, <2>2, <2>3, <2>4, FinishMoves DEF Finish, Finished, Unfinished
  <2>5. CASE /\ status[j] = "running" /\ ~stamp[j]
             /\ status' = [status EXCEPT ![j] = "queued"]
             /\ agent' = [agent EXCEPT ![j] = NoAgent]
             /\ UNCHANGED stamp
    <3> SUFFICES ASSUME NEW k \in Jobs PROVE Contract!Move(k)
      BY DEF Contract!Next
    <3>1. ~Held'[k] /\ (k = j => Held[k])
      BY <2>1, HeldAt
    <3>2. Contract!SameCounts(k)
      BY <2>3 DEF Contract!SameCounts
    <3>3. CASE k = j
      BY <2>3, <2>5, <3>1, <3>2, <3>3 DEF TypeOK, Contract!Move, Contract!GiveBack
    <3>4. CASE k # j
      BY <2>3, <2>5, <3>1, <3>2, <3>4
         DEF TypeOK, Contract!Move, Contract!Stay, Contract!SameOwner, Contract!MayDropClaim
    <3> QED BY <3>3, <3>4
  <2>6. CASE UNCHANGED <<status, agent, stamp, origin, stage, run, due>>
    BY <2>2, <2>3, <2>6, StayMoves
  <2> QED BY <1>5, <2>4, <2>5, <2>6 DEF UnassignJob
<1> QED BY <1>1, <1>2, <1>3, <1>4, <1>5

\* A result or a give-up that passes the compare-and-set finishes its job; one
\* that does not leaves the row alone.
LEMMA CompleteJobMoves ==
    ASSUME TypeOK, NEW e, e.job \in Jobs, NEW out \in {"success", "failed"},
           CompleteJob(e, out), UNCHANGED <<tick, issued, rearmed>>
    PROVE  Contract!Next
<1>0. DropsClaims
  BY DropClaims
<1>1. CASE status[e.job] \in {"queued", "running"} /\ Complete(e.job, out)
  <2> DEFINE st == IF stamp[e.job] THEN "canceled" ELSE out
  <2>1. st \in Finished /\ st # "skipped"
    BY DEF Finished
  <2>2. FinishAs(e.job, st, origin[e.job])
    BY <1>1 DEF Complete, Finish
  <2>3. status[e.job] = "running" /\ stamp[e.job] => st = "canceled"
    OBVIOUS
  <2>4. status[e.job] \in Unfinished /\ UNCHANGED <<agent, attempt, stamp>>
    BY <1>1 DEF Complete, Unfinished
  <2> HIDE DEF st
  <2> QED BY <1>0, <2>1, <2>2, <2>3, <2>4, FinishMoves
<1>2. CASE UNCHANGED <<rows, due>>
  BY <1>0, <1>2, StayMoves DEF rows
<1> QED BY <1>1, <1>2 DEF CompleteJob

\* Results and disruptions keep the contract.
LEMMA ReportMoves ==
    ASSUME TypeOK, NEW e \in execs,
           \/ \E out \in {"success", "failed"} : JobResult(e, out)
           \/ HandleDisruptedJob(e)
    PROVE  Contract!Next
<1>0. e.job \in Jobs
  BY DEF TypeOK, Execution
<1>1. CASE \E out \in {"success", "failed"} : JobResult(e, out)
  BY <1>0, <1>1, CompleteJobMoves DEF JobResult
<1>2. CASE HandleDisruptedJob(e)
  <2>0. UNCHANGED <<tick, issued, rearmed>> /\ DropsClaims
    BY <1>2, DropClaims DEF HandleDisruptedJob
  <2>1. CASE CompleteJob(e, "failed")
    BY <1>0, <2>0, <2>1, CompleteJobMoves
  <2>2. CASE /\ status[e.job] = "running" /\ e.job \notin RetryUnsafe /\ ~stamp[e.job]
             /\ attempt[e.job] < MaxAttempts /\ Requeue(e.job)
    BY <1>0, <2>0, <2>2, RequeueMoves
  <2>3. CASE UNCHANGED <<rows, due>>
    BY <2>0, <2>3, StayMoves DEF rows
  <2> QED BY <1>2, <2>1, <2>2, <2>3 DEF HandleDisruptedJob
<1> QED BY <1>1, <1>2

\* Agents that come and go and watches that end keep the contract.
LEMMA PresenceMoves ==
    ASSUME TypeOK,
           \/ \E a \in Agents : AgentLost(a) \/ AgentReturns(a)
           \/ \E w \in watches : LoseDeployWatch(w)
           \/ \E w \in watches, v \in {"success", "failed"} : FinalizeDeployWatch(w, v)
    PROVE  Contract!Next
<1>1. CASE \/ \E a \in Agents : AgentLost(a) \/ AgentReturns(a)
           \/ \E w \in watches : LoseDeployWatch(w)
  <2>1. UNCHANGED <<rows, tick, issued, rearmed>>
    BY <1>1 DEF AgentLost, AgentReturns, LoseDeployWatch
  <2> QED BY <2>1, DropClaims, StayMoves DEF rows
<1>2. ASSUME NEW w \in watches, NEW v \in {"success", "failed"}, FinalizeDeployWatch(w, v)
      PROVE  Contract!Next
  <2>0. w.job \in Jobs /\ UNCHANGED <<tick, issued, rearmed>> /\ DropsClaims
    BY <1>2, DropClaims, RunAssumption DEF FinalizeDeployWatch, TypeOK, Watch
  <2>1. CASE UNCHANGED <<rows, due>>
    BY <2>0, <2>1, StayMoves DEF rows
  <2>2. CASE status[w.job] \in {"queued", "running"} /\ Complete(w.job, v)
    <3> DEFINE st == IF stamp[w.job] THEN "canceled" ELSE v
    <3>1. st \in Finished /\ st # "skipped"
      BY DEF Finished
    <3>2. FinishAs(w.job, st, origin[w.job])
      BY <2>2 DEF Complete, Finish
    <3>3. status[w.job] = "running" /\ stamp[w.job] => st = "canceled"
      OBVIOUS
    <3>4. status[w.job] \in Unfinished /\ UNCHANGED <<agent, attempt, stamp>>
      BY <2>2 DEF Complete, Unfinished
    <3> HIDE DEF st
    <3> QED BY <2>0, <3>1, <3>2, <3>3, <3>4, FinishMoves
  <2> QED BY <1>2, <2>1, <2>2 DEF FinalizeDeployWatch
<1> QED BY <1>1, <1>2

\* The reaper and the register fence keep the contract.
LEMMA ReclaimMoves ==
    ASSUME TypeOK,
           \/ \E j \in Jobs : ReclaimList(j) \/ CancelReclaimed(j)
           \/ \E s \in reap : ReclaimStaleJob(s)
    PROVE  Contract!Next
<1>0. UNCHANGED <<tick, issued, rearmed>> /\ DropsClaims
  BY DropClaims DEF ReclaimList, CancelReclaimed, ReclaimStaleJob
<1>1. ASSUME NEW j \in Jobs, ReclaimList(j) PROVE Contract!Next
  BY <1>0, <1>1, StayMoves DEF ReclaimList, rows
<1>2. ASSUME NEW j \in Jobs, CancelReclaimed(j) PROVE Contract!Next
  BY <1>0, <1>2, FinishMoves DEF CancelReclaimed, Finish, Finished, Unfinished
<1>3. ASSUME NEW s \in reap, ReclaimStaleJob(s) PROVE Contract!Next
  <2>0. s.job \in Jobs /\ s.attempt \in Nat
    BY DEF TypeOK, Snapshot
  <2>1. CASE /\ status[s.job] = "running" /\ ~stamp[s.job]
             /\ Finish(s.job, "failed") /\ UNCHANGED <<agent, attempt, stamp, due>>
    BY <1>0, <2>0, <2>1, FinishMoves DEF Finish, Finished, Unfinished
  <2>2. CASE /\ status[s.job] = "running" /\ ~stamp[s.job] /\ s.job \notin RetryUnsafe
             /\ attempt[s.job] = s.attempt /\ ~(s.attempt + 1 > MaxAttempts)
             /\ Requeue(s.job)
    <3>1. attempt[s.job] < MaxAttempts
      BY <2>0, <2>2, RunAssumption
    <3> QED BY <1>0, <2>0, <2>2, <3>1, RequeueMoves
  <2>3. CASE UNCHANGED <<rows, due>>
    BY <1>0, <2>3, StayMoves DEF rows
  <2> QED BY <1>3, <2>1, <2>2, <2>3 DEF ReclaimStaleJob, Owns
<1> QED BY <1>1, <1>2, <1>3

\* Cancels, decisions and reruns keep the contract.
LEMMA RequestMoves ==
    ASSUME TypeOK, Contract!ContractInv,
           \/ \E j \in Jobs : CancelJobRun(j) \/ RerunJob(j)
           \/ \E S \in {UserJobs, Jobs} : CancelOpenRun(S)
           \/ \E g \in Gates, v \in {"success", "failed"} : DecideGate(g, v)
    PROVE  Contract!Next
<1>0. UNCHANGED <<tick, issued>> /\ DropsClaims
  BY DropClaims DEF CancelJobRun, RerunJob, CancelOpenRun, DecideGate
<1>1. ASSUME NEW j \in Jobs, CancelJobRun(j) PROVE Contract!Next
  <2>0. UNCHANGED <<agent, attempt, rearmed>>
    BY <1>1 DEF CancelJobRun
  <2>1. CASE /\ status[j] = "running" /\ stamp' = [stamp EXCEPT ![j] = TRUE]
             /\ UNCHANGED <<status, stage, run, due>>
    <3> SUFFICES ASSUME NEW k \in Jobs PROVE Contract!Move(k)
      BY DEF Contract!Next
    <3>1. Contract!SameOwner(k) /\ Contract!SameCounts(k) /\ Contract!MayDropClaim(k)
      BY <1>0, <2>0 DEF DropsClaims, Contract!SameOwner, Contract!SameCounts, Contract!MayDropClaim
    <3> QED BY <2>1, <3>1 DEF TypeOK, Contract!Move, Contract!Stay, Contract!Stamp
  <2>2. CASE /\ status[j] = "queued" /\ UNCHANGED stamp
             /\ FinishAs(j, "canceled", FirstOrigin(origin, j, "user_job"))
    BY <1>0, <2>0, <2>2, FinishMoves DEF Finished, Unfinished
  <2> QED BY <1>1, <2>1, <2>2 DEF CancelJobRun
<1>2. ASSUME NEW S \in {UserJobs, Jobs}, CancelOpenRun(S) PROVE Contract!Next
  <2> SUFFICES ASSUME NEW k \in Jobs PROVE Contract!Move(k)
    BY DEF Contract!Next
  <2>1. Contract!SameOwner(k) /\ Contract!SameCounts(k) /\ Contract!MayDropClaim(k)
    BY <1>0, <1>2 DEF CancelOpenRun, DropsClaims, Contract!SameOwner, Contract!SameCounts,
       Contract!MayDropClaim
  <2>2. CASE Cancellable(status, k)
    <3>1. status'[k] = "canceled" /\ status[k] \in {"queued", "awaiting_approval"}
      BY <1>2, <2>2 DEF CancelOpenRun, CancelQueuedJobs, Cancellable
    <3>2. stamp'[k] = stamp[k]
      <4>1. stamp' = [i \in Jobs |-> stamp[i] \/ (i \in S /\ status[i] = "running")]
        BY <1>2 DEF CancelOpenRun
      <4>2. status[k] # "running" /\ stamp[k] \in BOOLEAN
        BY <3>1 DEF TypeOK
      <4> QED BY <4>1, <4>2
    <3> QED BY <2>1, <3>1, <3>2 DEF Contract!Move, Contract!End
  <2>3. CASE ~Cancellable(status, k)
    <3>1. status'[k] = status[k]
      BY <1>2, <2>3 DEF CancelOpenRun, CancelQueuedJobs
    <3>2. stamp'[k] = stamp[k] \/ (status[k] = "running" /\ stamp'[k])
      <4>1. stamp' = [i \in Jobs |-> stamp[i] \/ (i \in S /\ status[i] = "running")]
        BY <1>2 DEF CancelOpenRun
      <4>2. stamp[k] \in BOOLEAN
        BY DEF TypeOK
      <4> QED BY <4>1, <4>2
    <3> QED BY <2>1, <3>1, <3>2 DEF Contract!Move, Contract!Stay, Contract!Stamp
  <2> QED BY <2>2, <2>3
<1>3. ASSUME NEW g \in Gates, NEW v \in {"success", "failed"}, DecideGate(g, v)
      PROVE Contract!Next
  <2>1. g \in Jobs /\ v \in Finished /\ v # "skipped"
    BY RunAssumption DEF Finished
  <2> QED BY <1>0, <1>3, <2>1, FinishMoves DEF DecideGate, Finish, Unfinished
<1>4. ASSUME NEW j \in Jobs, RerunJob(j) PROVE Contract!Next
  <2> DEFINE back == {k \in Downstream(j) : status[k] = "canceled" /\ origin[k] # "user_job"}
                     \cup {j}
  <2> SUFFICES ASSUME NEW k \in Jobs PROVE Contract!Move(k)
    BY DEF Contract!Next
  <2>0. Contract!MayDropClaim(k)
    BY <1>0 DEF DropsClaims, Contract!MayDropClaim
  <2>1. /\ status'[k] = IF k \notin back THEN status[k]
                        ELSE IF k \in Gates THEN "awaiting_approval" ELSE "queued"
        /\ agent'[k] = IF k \in back THEN NoAgent ELSE agent[k]
        /\ attempt'[k] = IF k = j THEN attempt[k] + 1 ELSE attempt[k]
        /\ issued'[k] = issued[k]
        /\ rearmed'[k] = IF k \in back THEN rearmed[k] + 1 ELSE rearmed[k]
    BY <1>0, <1>4 DEF RerunJob, Revived, TypeOK
  <2>2. stamp'[k] = (k \notin back /\ stamp[k])
    BY <1>4 DEF RerunJob
  <2>3. CASE k \notin back
    <3>1. stamp'[k] = stamp[k]
      BY <2>2, <2>3 DEF TypeOK
    <3> QED BY <2>0, <2>1, <2>3, <3>1
            DEF Contract!Move, Contract!Stay, Contract!SameOwner, Contract!SameCounts
  <2>4. CASE k \in back
    <3>1. status[k] \in {"success", "failed", "canceled", "skipped"}
      <4>1. CASE k = j
        <5>1. j \notin Gates /\ status[j] \notin {"queued", "running", "awaiting_approval"}
          BY <1>4 DEF RerunJob, Contract!ContractInv, Contract!OnlyGatesWait
        <5> QED BY <4>1, <5>1 DEF TypeOK, JobStatus, Finished, Unfinished
      <4> QED BY <2>4, <4>1
    <3>2. ~stamp'[k]
      BY <2>2, <2>4
    <3> QED BY <2>0, <2>1, <2>4, <3>1, <3>2 DEF Contract!Move, Contract!Rearm, Contract!Fresh
  <2> QED BY <2>3, <2>4
<1> QED BY <1>1, <1>2, <1>3, <1>4

-----------------------------------------------------------------------------
(* The inductive invariant and the theorems                                *)

\* A running row without an agent has had a watch for this very attempt.
Answered ==
    \A j \in Jobs : status[j] = "running" /\ agent[j] = NoAgent =>
        [job |-> j, attempt |-> attempt[j]] \in watches \cup deleted

\* Typed rows, a claim that names a job and an agent, the contract, and a watch
\* behind every native deploy.  The contract's meter is what makes the dispatch
\* bound inductive: a job that is queued or claimed has already used up the
\* hand-over that may follow.
RunInv == TypeOK /\ ClaimOK /\ Contract!ContractInv /\ Answered

\* The run's constants are constants the contract accepts.
LEMMA ConstantsFit == Contract!ContractAssumption
  BY RunAssumption DEF Contract!ContractAssumption

\* Queued rows have no owner by the contract, running ones have one.
LEMMA OwnedIsOwned == RunInv => RunningIsOwned
  BY DEF RunInv, Answered, Contract!ContractInv, Contract!Owned, RunningIsOwned

\* A freshly inserted run is an initial state of the contract.
LEMMA InitRefines == Init => Contract!Init
<1> SUFFICES ASSUME Init PROVE Contract!Init
  OBVIOUS
<1>1. Held = [j \in Jobs |-> FALSE]
  BY DEF Init, IdleTick, Held
<1> QED BY <1>1 DEF Init, Contract!Init, Contract!Fresh

\* A freshly inserted run satisfies the inductive invariant.
LEMMA InitInv == Init => RunInv
<1> SUFFICES ASSUME Init PROVE RunInv
  OBVIOUS
<1>1. ClaimOK
  BY DEF Init, IdleTick, ClaimOK
<1>2. Answered
  BY DEF Init, Answered
<1> QED BY <1>1, <1>2, InitType, InitRefines, ConstantsFit, Contract!ContractInit DEF RunInv

\* Every step of the run is well typed and moves each row by the contract.
LEMMA NextCases ==
    ASSUME RunInv, Next
    PROVE  TypeOK' /\ Contract!Next
<1>0. TypeOK /\ ClaimOK /\ Contract!ContractInv
  BY DEF RunInv
<1>1. CASE \/ DrainQueued \/ LoseNotify \/ DispatchList \/ DispatchSnapshot
           \/ DispatchAssignment \/ UnassignJob \/ MarkStageRunning \/ EndTick
           \/ ServerRestart
  BY <1>0, <1>1, SchedulerType, SchedulerMoves DEF ClaimOK
<1>2. CASE \E j \in Jobs : Consider(j)
  BY <1>0, <1>2, ConsiderType, ConsiderMoves
<1>3. CASE \/ \E e \in execs, out \in {"success", "failed"} : JobResult(e, out)
           \/ \E e \in execs : HandleDisruptedJob(e)
  BY <1>0, <1>3, ReportType, ReportMoves
<1>4. CASE \/ \E j \in Jobs : \/ ReclaimList(j)
                              \/ ReclaimPendingCancel(j)
                              \/ ReclaimAbandonedNativeCancel(j)
           \/ \E s \in reap : ReclaimStaleJob(s)
  <2>1. \/ \E j \in Jobs : ReclaimList(j) \/ CancelReclaimed(j)
        \/ \E s \in reap : ReclaimStaleJob(s)
    BY <1>4 DEF ReclaimPendingCancel, ReclaimAbandonedNativeCancel
  <2> QED BY <1>0, <2>1, ReclaimType, ReclaimMoves
<1>6. CASE \/ \E a \in Agents : AgentLost(a) \/ AgentReturns(a)
           \/ \E w \in watches : LoseDeployWatch(w)
           \/ \E w \in watches, v \in {"success", "failed"} : FinalizeDeployWatch(w, v)
  BY <1>0, <1>6, PresenceType, WatchType, PresenceMoves
<1>5. CASE \/ \E j \in Jobs : CancelJobRun(j) \/ RerunJob(j)
           \/ CancelRun \/ SystemCancelRun
           \/ \E g \in Gates, v \in {"success", "failed"} : DecideGate(g, v)
  <2>1. \/ \E j \in Jobs : CancelJobRun(j) \/ RerunJob(j)
        \/ \E S \in {UserJobs, Jobs} : CancelOpenRun(S)
        \/ \E g \in Gates, v \in {"success", "failed"} : DecideGate(g, v)
    BY <1>5 DEF CancelRun, SystemCancelRun
  <2> QED BY <1>0, <2>1, RequestType, RequestMoves
<1> QED BY <1>1, <1>2, <1>3, <1>4, <1>5, <1>6 DEF Next

\* Only a takeover creates a watch, and only its end removes one; no other step
\* both starts a job and counts it as started.
LEMMA WatchSteps ==
    ASSUME Next
    PROVE  \/ \E j \in Jobs : StartServerManagedJob(j)
           \/ \E w \in watches, v \in {"success", "failed"} : FinalizeDeployWatch(w, v)
           \/ \E w \in watches : LoseDeployWatch(w)
           \/ UNCHANGED deploys /\ (UNCHANGED issued \/ UNCHANGED status)
<1>1. CASE \/ DrainQueued \/ LoseNotify \/ DispatchList \/ DispatchSnapshot
           \/ DispatchAssignment \/ UnassignJob \/ MarkStageRunning \/ EndTick
           \/ ServerRestart
  BY <1>1 DEF DrainQueued, LoseNotify, DispatchList, DispatchSnapshot, DispatchAssignment,
     UnassignJob, MarkStageRunning, EndTick, ServerRestart, rows
<1>2. ASSUME NEW j \in Jobs, Consider(j), ~StartServerManagedJob(j)
      PROVE  UNCHANGED <<watches, deleted, issued>>
  BY <1>2 DEF Consider, SkipJob, FailJobWithReason, CullQueued, LeaveQueued, FailJobWithError,
     AssignJob, deploys
<1>3. CASE \/ \E e \in execs, out \in {"success", "failed"} : JobResult(e, out)
           \/ \E e \in execs : HandleDisruptedJob(e)
           \/ \E a \in Agents : AgentLost(a) \/ AgentReturns(a)
  BY <1>3 DEF JobResult, HandleDisruptedJob, AgentLost, AgentReturns
<1>4. CASE \/ \E j \in Jobs : \/ ReclaimList(j)
                              \/ ReclaimPendingCancel(j)
                              \/ ReclaimAbandonedNativeCancel(j)
           \/ \E s \in reap : ReclaimStaleJob(s)
  BY <1>4 DEF ReclaimList, ReclaimPendingCancel, ReclaimAbandonedNativeCancel, CancelReclaimed,
     ReclaimStaleJob
<1>5. CASE \/ \E j \in Jobs : CancelJobRun(j) \/ RerunJob(j)
           \/ CancelRun \/ SystemCancelRun
           \/ \E g \in Gates, v \in {"success", "failed"} : DecideGate(g, v)
  BY <1>5 DEF CancelJobRun, RerunJob, CancelRun, SystemCancelRun, CancelOpenRun, DecideGate
<1> QED BY <1>1, <1>2, <1>3, <1>4, <1>5 DEF Next, deploys

\* A native deploy keeps its watch until it ends or the watch is deleted.
LEMMA NextAnswered ==
    ASSUME RunInv, Next, Contract!Next
    PROVE  Answered'
<1> SUFFICES ASSUME NEW j \in Jobs, status'[j] = "running", agent'[j] = NoAgent
             PROVE  [job |-> j, attempt |-> attempt'[j]] \in watches' \cup deleted'
  BY DEF Answered
<1> DEFINE Same == status[j] = "running" /\ agent[j] = agent'[j] /\ attempt[j] = attempt'[j]
<1>0. TypeOK /\ Answered
  BY DEF RunInv
<1>1. ASSUME Same, watches \cup deleted \subseteq watches' \cup deleted'
      PROVE  [job |-> j, attempt |-> attempt'[j]] \in watches' \cup deleted'
  BY <1>0, <1>1 DEF Answered
<1>2. ASSUME NEW i \in Jobs, StartServerManagedJob(i)
      PROVE  [job |-> j, attempt |-> attempt'[j]] \in watches' \cup deleted'
  <2>1. UNCHANGED <<agent, attempt, deleted>> /\ watches \subseteq watches'
    BY <1>2 DEF StartServerManagedJob
  <2>2. CASE j = i /\ Unassigned(i)
    BY <1>2, <2>1, <2>2 DEF StartServerManagedJob
  <2>3. CASE j # i \/ ~Unassigned(i)
    <3>1. status[j] = "running"
      BY <1>0, <1>2, <2>3 DEF StartServerManagedJob, TypeOK
    <3> QED BY <1>1, <2>1, <3>1
  <2> QED BY <2>2, <2>3
<1>3. ASSUME NEW w \in watches, NEW v \in {"success", "failed"}, FinalizeDeployWatch(w, v)
      PROVE  [job |-> j, attempt |-> attempt'[j]] \in watches' \cup deleted'
  <2>0. w.job \in Jobs /\ watches' = watches \ {w} /\ deleted' = deleted
    BY <1>0, <1>3, RunAssumption DEF FinalizeDeployWatch, TypeOK, Watch
  <2>1. CASE Complete(w.job, v)
    <3> DEFINE st == IF stamp[w.job] THEN "canceled" ELSE v
    <3>1. st \in Finished
      BY DEF Finished
    <3>2. FinishAs(w.job, st, origin[w.job]) /\ UNCHANGED <<agent, attempt>>
      BY <2>1 DEF Complete, Finish
    <3> HIDE DEF st
    <3>3. j # w.job
      BY <1>0, <2>0, <3>1, <3>2, FinishEffect DEF Finished
    <3>4. status[j] = "running"
      BY <1>0, <2>0, <3>1, <3>2, <3>3, FinishEffect
    <3>5. [job |-> j, attempt |-> attempt[j]] \in watches \cup deleted
      BY <1>0, <3>2, <3>4 DEF Answered
    <3>6. [job |-> j, attempt |-> attempt[j]] # w
      BY <3>3
    <3> QED BY <2>0, <3>2, <3>5, <3>6
  <2>2. CASE /\ UNCHANGED <<rows, due>>
             /\ ~(/\ status[w.job] \in {"queued", "running"}
                  /\ Owns(NoAgent, w.attempt, w.job))
    <3>1. Same
      BY <2>2 DEF rows
    <3>2. [job |-> j, attempt |-> attempt[j]] \in watches \cup deleted
      BY <1>0, <3>1 DEF Answered
    <3>3. [job |-> j, attempt |-> attempt[j]] # w
      BY <2>2, <3>1 DEF Owns
    <3> QED BY <2>0, <3>1, <3>2, <3>3
  <2> QED BY <1>3, <2>1, <2>2 DEF FinalizeDeployWatch
<1>4. ASSUME NEW w \in watches, LoseDeployWatch(w)
      PROVE  [job |-> j, attempt |-> attempt'[j]] \in watches' \cup deleted'
  <2>1. Same /\ watches \cup deleted \subseteq watches' \cup deleted'
    BY <1>4 DEF LoseDeployWatch, rows
  <2> QED BY <1>1, <2>1
<1>5. CASE UNCHANGED deploys /\ (UNCHANGED issued \/ UNCHANGED status)
  <2>1. Contract!Move(j) /\ issued[j] \in Nat
    BY <1>0 DEF Contract!Next, TypeOK
  <2>2. ~Contract!Claim(j)
    BY RunAssumption DEF Contract!Claim
  <2>3. ~Contract!TakeOver(j)
    BY <1>5, <2>1 DEF Contract!TakeOver
  <2>4. Same
    BY <2>1, <2>2, <2>3 DEF Contract!Move, Contract!Stay, Contract!HandOver, Contract!GiveBack,
       Contract!Stamp, Contract!End, Contract!Retry, Contract!Rearm, Contract!Fresh,
       Contract!SameOwner
  <2> QED BY <1>1, <1>5, <2>4 DEF deploys
<1> QED BY <1>2, <1>3, <1>4, <1>5, WatchSteps

\* The claim always names a job and an agent.
LEMMA NextClaim ==
    ASSUME TypeOK, ClaimOK, Next
    PROVE  ClaimOK'
<1>1. CASE UNCHANGED tick
  BY <1>1 DEF ClaimOK
<1>2. CASE tick'.pc \notin {"claimed", "sent"}
  BY <1>2 DEF ClaimOK
<1>3. CASE DispatchAssignment
  BY <1>3 DEF DispatchAssignment, ClaimOK, TypeOK, Tick
<1>4. ASSUME NEW j \in Jobs, NEW a \in Agents, AssignJob(j, a) PROVE ClaimOK'
  <2>1. NextCandidate(j) \in Tick
    BY NextCandidateType
  <2>2. NextCandidate(j).pc = "loop"
    BY <1>4 DEF AssignJob, Considering, NextCandidate, TypeOK, Tick
  <2> HIDE DEF NextCandidate
  <2>3. CASE tick' = NextCandidate(j)
    BY <2>2, <2>3 DEF ClaimOK
  <2>4. CASE tick' = [NextCandidate(j) EXCEPT !.pc = "claimed", !.job = j,
                                              !.agent = a, !.attempt = attempt[j]]
    BY <2>1, <2>4 DEF ClaimOK, Tick
  <2> QED BY <1>4, <2>3, <2>4 DEF AssignJob
<1>5. ASSUME NEW j \in Jobs, tick' = NextCandidate(j), Considering(j) PROVE ClaimOK'
  BY <1>5 DEF Considering, NextCandidate, ClaimOK, TypeOK, Tick
<1>6. CASE \E j \in Jobs : Consider(j)
  <2>1. ASSUME NEW j \in Jobs, LeaveQueued(j), tick' = [tick EXCEPT !.cand = {}] PROVE ClaimOK'
    BY <2>1 DEF LeaveQueued, Considering, ClaimOK, TypeOK, Tick
  <2> QED BY <1>4, <1>5, <1>6, <2>1 DEF Consider, SkipJob, FailJobWithReason, LeaveQueued,
          FailJobWithError, StartServerManagedJob, CullQueued
<1>7. CASE DispatchList \/ DispatchSnapshot \/ UnassignJob \/ MarkStageRunning \/ EndTick
           \/ ServerRestart
  <2>1. CASE DispatchList \/ DispatchSnapshot
    BY <1>1, <1>2, <2>1 DEF DispatchList, DispatchSnapshot, TypeOK, Tick
  <2>2. CASE UnassignJob \/ MarkStageRunning
    <3>1. tick'.pc = "loop"
      BY <2>2 DEF UnassignJob, MarkStageRunning, TypeOK, Tick
    <3> QED BY <1>2, <3>1
  <2>3. CASE EndTick \/ ServerRestart
    BY <1>2, <2>3 DEF EndTick, ServerRestart, IdleTick
  <2> QED BY <1>7, <2>1, <2>2, <2>3
<1>8. CASE \/ DrainQueued \/ LoseNotify
           \/ \E e \in execs, out \in {"success", "failed"} : JobResult(e, out)
           \/ \E e \in execs : HandleDisruptedJob(e)
           \/ \E a \in Agents : AgentLost(a) \/ AgentReturns(a)
           \/ \E w \in watches, v \in {"success", "failed"} : FinalizeDeployWatch(w, v)
           \/ \E w \in watches : LoseDeployWatch(w)
           \/ \E j \in Jobs : \/ ReclaimList(j)
                              \/ ReclaimPendingCancel(j)
                              \/ ReclaimAbandonedNativeCancel(j)
           \/ \E s \in reap : ReclaimStaleJob(s)
           \/ \E j \in Jobs : CancelJobRun(j) \/ RerunJob(j)
           \/ CancelRun \/ SystemCancelRun
           \/ \E g \in Gates, v \in {"success", "failed"} : DecideGate(g, v)
  <2>1. UNCHANGED tick
    BY <1>8 DEF DrainQueued, LoseNotify, JobResult, HandleDisruptedJob, AgentLost, AgentReturns,
       FinalizeDeployWatch, LoseDeployWatch, ReclaimList, ReclaimPendingCancel,
       ReclaimAbandonedNativeCancel, CancelReclaimed, ReclaimStaleJob, CancelJobRun, RerunJob,
       CancelRun, SystemCancelRun, CancelOpenRun, DecideGate
  <2> QED BY <1>1, <2>1
<1> QED BY <1>3, <1>6, <1>7, <1>8 DEF Next

\* A stuttering step keeps the invariant and leaves the abstract row alone.
LEMMA StutterInv == ASSUME RunInv, UNCHANGED vars PROVE RunInv' /\ UNCHANGED Contract!contract
<1>1. Held' = Held
  BY DEF Held, vars
<1>2. UNCHANGED Contract!contract
  BY <1>1 DEF vars, Contract!contract
<1>3. TypeOK' /\ ClaimOK'
  BY DEF RunInv, TypeOK, ClaimOK, vars
<1>4. Contract!ContractInv'
  BY <1>1 DEF RunInv, vars, Contract!ContractInv, Contract!ContractType, Contract!Owned,
     Contract!GatesParked, Contract!OnlyGatesWait, Contract!Metered, Contract!Spent,
     Contract!Granted
<1>5. Answered'
  BY DEF RunInv, Answered, vars
<1> QED BY <1>2, <1>3, <1>4, <1>5 DEF RunInv

\* Every step of the run keeps the inductive invariant.
LEMMA NextInv == ASSUME RunInv, Next PROVE RunInv'
<1>1. TypeOK' /\ Contract!Next
  BY NextCases
<1>2. ClaimOK'
  BY NextClaim DEF RunInv
<1>3. attempt' \in [Jobs -> Nat] /\ issued' \in [Jobs -> Nat] /\ rearmed' \in [Jobs -> Nat]
  BY <1>1 DEF TypeOK
<1>4. Contract!ContractInv'
  BY <1>1, <1>3, ConstantsFit, Contract!ContractStep DEF RunInv
<1>5. Answered'
  BY <1>1, NextAnswered
<1> QED BY <1>1, <1>2, <1>4, <1>5 DEF RunInv

\* The inductive invariant holds in every reachable state of every run.
THEOREM RunInvariant == Spec => []RunInv
<1>1. RunInv /\ [Next]_vars => RunInv'
  BY NextInv, StutterInv
<1> QED BY <1>1, InitInv, PTL DEF Spec

\* The rows, the scheduler's locals and the queues of reports always have the
\* types the schema and the code give them.
THEOREM TypeCorrect == Spec => []TypeOK
<1>1. RunInv => TypeOK
  BY DEF RunInv
<1> QED BY <1>1, RunInvariant, PTL

\* Whatever crashes, retries, late results, cancels and reruns do, no job is
\* started - handed to an agent or taken over - more often than it was asked for
\* plus its allowed retries.
THEOREM DispatchIsBounded == Spec => []DispatchBounded
<1>1. RunInv => DispatchBounded
  <2> SUFFICES ASSUME RunInv, NEW j \in Jobs
               PROVE issued[j] <= 1 + rearmed[j] + AutoRetries(j)
    BY DEF DispatchBounded
  <2>1. /\ issued[j] \in Nat /\ rearmed[j] \in Nat /\ attempt[j] \in Nat /\ MaxAttempts \in Nat
        /\ Contract!Spent(j) <= Contract!Granted(j)
    BY RunAssumption DEF RunInv, TypeOK, Contract!ContractInv, Contract!Metered
  <2> QED BY <2>1 DEF Contract!Spent, Contract!Granted, AutoRetries
<1> QED BY <1>1, RunInvariant, PTL

\* Approval gates are only ever passed by a decision.
THEOREM GatesHold == Spec => []GatesNeverDispatched
<1>1. RunInv => GatesNeverDispatched
  BY DEF RunInv, Contract!ContractInv, Contract!GatesParked, GatesNeverDispatched
<1> QED BY <1>1, RunInvariant, PTL

\* Every running row names the agent that has to answer for it or has had a
\* deploy watch for this attempt, which only a hand removes without ending the
\* job: a takeover, its finalization and the reclaims leave no row in between.
THEOREM RunningHasOwner == Spec => []RunningIsOwned
  BY OwnedIsOwned, RunInvariant, PTL

\* RunLifecycle implements the contract of a job row.
THEOREM RunRefinesContract == Spec => RowContract
<1>1. RunInv /\ [Next]_vars => [Contract!Next]_(Contract!contract)
  BY NextCases, StutterInv
<1> QED BY <1>1, InitRefines, RunInvariant, PTL DEF Spec, RowContract, Contract!Spec

\* A cancel stamped on a running job is never lost.
THEOREM CancelIsHonoured == Spec => CancelHonoured
<1>1. RunInv /\ [Next]_vars =>
        [\A j \in Jobs : (status[j] = "running" /\ stamp[j]) =>
          \/ status'[j] = "running" /\ stamp'[j]
          \/ status'[j] = "canceled"]_vars
  <2> SUFFICES ASSUME RunInv, Next, NEW j \in Jobs, status[j] = "running", stamp[j]
               PROVE \/ status'[j] = "running" /\ stamp'[j]
                     \/ status'[j] = "canceled"
    OBVIOUS
  <2>1. Contract!Move(j)
    BY NextCases DEF Contract!Next
  <2> QED BY <2>1 DEF Contract!Move, Contract!Stay, Contract!Claim, Contract!TakeOver, Contract!HandOver,
          Contract!GiveBack, Contract!Stamp, Contract!End, Contract!Retry, Contract!Rearm
<1> QED BY <1>1, RunInvariant, PTL DEF Spec, CancelHonoured

\* Nothing but a human request reopens a finished job.
THEOREM FinishedStaysFinal == Spec => FinishedIsFinal
<1>1. RunInv /\ [Next]_vars =>
        [\A j \in Jobs : (status[j] \in Finished /\ status'[j] # status[j]) =>
          rearmed'[j] = rearmed[j] + 1]_vars
  <2> SUFFICES ASSUME RunInv, Next, NEW j \in Jobs, status[j] \in Finished,
                      status'[j] # status[j]
               PROVE rearmed'[j] = rearmed[j] + 1
    OBVIOUS
  <2>1. Contract!Move(j)
    BY NextCases DEF Contract!Next
  <2> QED BY <2>1 DEF Contract!Move, Contract!Stay, Contract!Claim, Contract!TakeOver, Contract!HandOver,
          Contract!GiveBack, Contract!Stamp, Contract!End, Contract!Retry, Contract!Rearm,
          Finished
<1> QED BY <1>1, RunInvariant, PTL DEF Spec, FinishedIsFinal

-----------------------------------------------------------------------------
(* Stages of a run                                                         *)

NoRerunYet == budget.rerun = MaxReruns
NoCancelYet == budget.cancel = MaxCancels

\* No gate stands behind another stage.  A gate is parked in awaiting_approval
\* from the start and may be decided before its stage is reached; a rejection
\* then closes stages whose jobs are still on agents (run_early_reject).
GatesFirst == \A g \in Gates, s \in Stages : StageOf[g] <= s

\* Every stage has a job.  The rollup runs on behalf of a job, so nothing would
\* ever close a stage without one; the parser does not ask for this.
NoEmptyStage == Stages # {} /\ \A s \in Stages : JobsIn(s) # {}

\* Every stage ahead of stage s has closed.
AheadClosed(s) == \A t \in Stages : t < s => stage[t] \in Closed

-----------------------------------------------------------------------------
(* The inductive invariants                                                *)

\* Whatever the scheduler is considering, has claimed or has handed over was in
\* turn when it was listed, and closed stages stay closed.
CandidatesInTurn == \A j \in tick.cand : AheadClosed(StageOf[j])
ClaimInTurn == tick.pc \in {"claimed", "sent"} => AheadClosed(StageOf[tick.job])
StartedInTurn ==
    \A j \in Jobs \ Gates :
        status[j] \in {"running", "success", "failed", "skipped"} => AheadClosed(StageOf[j])
RunningInTurn == \A s \in Stages : stage[s] = "running" => AheadClosed(s)
WatchedInTurn == \A w \in watches : AheadClosed(StageOf[w.job])

\* A failed stage leaves nothing to do in the user stages behind it.
FailureCulls ==
    \A s \in Stages, j \in UserJobs :
        (stage[s] = "failed" /\ s < StageOf[j]) => status[j] \in Finished

\* A success in the tick's stale snapshot is still a success.
SnapshotSound == \A k \in Jobs : tick.snap[k] = "success" => status[k] = "success"
NeedsMet(j) == \A k \in Needs[j] : status[k] = "success"
ClaimNeedsMet == tick.pc = "claimed" => NeedsMet(tick.job)

OrderInv ==
    /\ CandidatesInTurn /\ ClaimInTurn /\ StartedInTurn /\ RunningInTurn /\ WatchedInTurn
    /\ FailureCulls /\ SnapshotSound /\ ClaimNeedsMet
    /\ OrderHonoured

\* While the run is open, a closed stage is finished or some user job failed.
UserFailed == \E u \in UserJobs : status[u] = "failed"
ClosedOrFailed ==
    run \in Open => \A j \in Jobs : stage[StageOf[j]] \in Closed =>
                        status[j] \in Finished \/ UserFailed
VerdictInv == ClosedOrFailed /\ RunVerdictSound

\* What a closed stage may still hold: a job its agent was told to stop.
DrainInv ==
    \A j \in Jobs : stage[StageOf[j]] \in Closed =>
        \/ status[j] \in Finished
        \/ stage[StageOf[j]] = "canceled" /\ status[j] = "running" /\ stamp[j]

\* An open run has an open stage, and each of those a job still to finish.
WedgeInv ==
    run \in Open =>
        /\ \E s \in Stages : stage[s] \in Open
        /\ \A s \in Stages : stage[s] \in Open =>
              \E j \in JobsIn(s) : status[j] \in Unfinished

\* Nobody canceled: the cached outcome is final and every notification that
\* was claimed or handed over fits it.
UserDone == \A j \in UserJobs : status[j] \in Finished
OutcomeNow == [failed |-> \E j \in UserJobs : status[j] = "failed",
               canceled |-> \E j \in UserJobs : status[j] = "canceled"]
FitsNow(n) == UserDone /\ NotificationTriggerMatches(Trigger[n], OutcomeNow)
NotifyInv ==
    /\ \A j \in Jobs : ~stamp[j]
    /\ tick.uo # NoOutcome => UserDone /\ tick.uo = OutcomeNow
    /\ tick.pc = "claimed" /\ tick.job \in NotifyJobs => FitsNow(tick.job)
    /\ \A n \in NotifyJobs : issued[n] > 0 => FitsNow(n)

-----------------------------------------------------------------------------
(* Steps as the invariants see them                                        *)

\* The three outcomes of finishing job j with status st: its stage stays as it
\* is, closes, or closes as failed and takes the queued user work with it.
StageStays(j, st) ==
    /\ \A k \in Jobs : status'[k] = IF k = j THEN st ELSE status[k]
    /\ stage' = stage /\ run' = run
    /\ stage[StageOf[j]] \in Open =>
          \E k \in JobsIn(StageOf[j]) : status'[k] \in Unfinished
StageCloses(j, st) ==
    /\ stage[StageOf[j]] \in Open
    /\ \A k \in Jobs : status'[k] = IF k = j THEN st ELSE status[k]
    /\ \A k \in JobsIn(StageOf[j]) : status'[k] \in Finished
    /\ stage'[StageOf[j]] \in {"success", "canceled"}
    /\ \A t \in Stages : t # StageOf[j] => stage'[t] = stage[t]
StageFails(j, st) ==
    /\ stage[StageOf[j]] \in Open
    /\ \A k \in Jobs : status'[k] = IF k = j THEN st
                                    ELSE IF Cancellable(status, k) THEN "canceled"
                                    ELSE status[k]
    /\ \A k \in JobsIn(StageOf[j]) : status'[k] \in Finished
    /\ \E k \in JobsIn(StageOf[j]) : status'[k] = "failed"
    /\ stage'[StageOf[j]] = "failed"
    /\ \A t \in Stages : t # StageOf[j] =>
          stage'[t] = IF stage[t] = "queued" /\ t # NotifyStage THEN "canceled" ELSE stage[t]
RunRollsUp ==
    run' = IF (\A t \in Stages : stage'[t] \notin Open) /\ run \in Open
           THEN Verdict(status', UserJobs) ELSE run

\* The rollup has these three outcomes and no other.
LEMMA FinishCases ==
    ASSUME TypeOK, NEW j \in Jobs, NEW st \in Finished, NEW o, FinishAs(j, st, o)
    PROVE  \/ StageStays(j, st)
           \/ StageCloses(j, st) /\ RunRollsUp
           \/ StageFails(j, st) /\ RunRollsUp
<1> DEFINE s == StageOf[j]
           js == [status EXCEPT ![j] = st]
           og == [origin EXCEPT ![j] = o]
           outcome == Verdict(js, JobsIn(s))
           closed == [stage EXCEPT ![s] = outcome]
<1>0. s \in Stages /\ \A k \in Jobs : js[k] = IF k = j THEN st ELSE status[k]
  BY RunAssumption DEF TypeOK
<1>1. js \in [Jobs -> JobStatus]
  BY DEF TypeOK, JobStatus
<1>2. outcome \in Closed
  BY VerdictType
<1>3. closed[s] = outcome /\ \A t \in Stages : t # s => closed[t] = stage[t]
  BY <1>0 DEF TypeOK
<1>4. /\ status' = Cascade(js, og, stage, run, s).status
      /\ stage' = Cascade(js, og, stage, run, s).stage
      /\ run' = Cascade(js, og, stage, run, s).run
  BY DEF FinishAs
<1>5. StageFinished(js, s) <=> \A k \in JobsIn(s) : js[k] \in Finished
  BY <1>1 DEF StageFinished, JobStatus, JobsIn, Unfinished, Finished
<1> HIDE DEF s, js, og, outcome, closed
<1>6. CASE stage[s] \notin Open \/ ~StageFinished(js, s)
  <2>1. status' = js /\ stage' = stage /\ run' = run
    BY <1>4, <1>6 DEF Cascade
  <2>2. stage[s] \in Open => \E k \in JobsIn(s) : status'[k] \in Unfinished
    BY <1>6, <2>1 DEF StageFinished
  <2> QED BY <1>0, <2>1, <2>2 DEF StageStays, s
<1>7. CASE stage[s] \in Open /\ StageFinished(js, s) /\ outcome # "failed"
  <2>1. status' = js /\ stage' = closed
    BY <1>4, <1>7 DEF Cascade, outcome, closed
  <2>2. RunRollsUp
    BY <1>4, <1>7, <2>1 DEF Cascade, outcome, closed, RunRollsUp
  <2>3. stage'[s] \in {"success", "canceled"}
    BY <1>2, <1>3, <1>7, <2>1 DEF Closed
  <2> QED BY <1>0, <1>3, <1>5, <1>7, <2>1, <2>2, <2>3 DEF StageCloses, s
<1>8. CASE stage[s] \in Open /\ StageFinished(js, s) /\ outcome = "failed"
  <2>1. status' = CancelQueuedJobs(js) /\ stage' = CancelQueuedStages(closed)
    BY <1>4, <1>8 DEF Cascade, outcome, closed
  <2>2. RunRollsUp
    BY <1>4, <1>8, <2>1 DEF Cascade, outcome, closed, RunRollsUp
  <2>3. \E k \in JobsIn(s) : js[k] = "failed"
    BY <1>8 DEF outcome, Verdict
  <2>4. \A k \in Jobs : status'[k] = IF k = j THEN st
                                     ELSE IF Cancellable(status, k) THEN "canceled"
                                     ELSE status[k]
    BY <1>0, <2>1 DEF CancelQueuedJobs, Cancellable, Finished
  <2>5. \A k \in JobsIn(s) : js[k] \in Finished /\ status'[k] = js[k]
    BY <1>0, <1>5, <1>8, <2>1 DEF CancelQueuedJobs, Cancellable, Finished, JobsIn
  <2>6. stage'[s] = "failed"
    BY <1>0, <1>3, <1>8, <2>1 DEF CancelQueuedStages
  <2>7. \A t \in Stages : t # s =>
          stage'[t] = IF stage[t] = "queued" /\ t # NotifyStage THEN "canceled" ELSE stage[t]
    BY <1>3, <2>1 DEF CancelQueuedStages
  <2> QED BY <1>8, <2>2, <2>3, <2>4, <2>5, <2>6, <2>7 DEF StageFails, s
<1> QED BY <1>2, <1>6, <1>7, <1>8

\* The kinds of step, as far as statuses of jobs, stages and the run go.  A job
\* that is not a gate ends other than canceled only when its stage is in turn.
EndStep ==
    \E j \in Jobs, st \in Finished :
        /\ status[j] \in Unfinished /\ UNCHANGED stamp
        /\ j \in Gates \/ st = "canceled" \/ AheadClosed(StageOf[j])
        /\ \/ StageStays(j, st)
           \/ StageCloses(j, st) /\ RunRollsUp
           \/ StageFails(j, st) /\ RunRollsUp
ClaimStep ==
    \E j \in Jobs :
        /\ status[j] = "queued" /\ AheadClosed(StageOf[j]) /\ NeedsMet(j)
        /\ \A k \in Jobs : status'[k] = IF k = j THEN "running" ELSE status[k]
        /\ UNCHANGED <<stage, run, stamp>>
RequeueStep ==
    \E j \in Jobs :
        /\ status[j] = "running" /\ ~stamp[j]
        /\ \A k \in Jobs : /\ status'[k] = IF k = j THEN "queued" ELSE status[k]
                           /\ stamp'[k] => stamp[k]
                           /\ k # j => stamp'[k] = stamp[k]
        /\ UNCHANGED <<stage, run>>
CancelStep ==
    /\ run \in Open /\ run' = "canceled"
    /\ budget'.cancel = budget.cancel - 1
    /\ \A k \in Jobs : /\ status'[k] = IF Cancellable(status, k) THEN "canceled" ELSE status[k]
                       /\ stamp[k] => stamp'[k]
                       /\ k \in UserJobs /\ status[k] = "running" => stamp'[k]
    /\ \A t \in Stages : stage'[t] = IF stage[t] = "queued" /\ t # NotifyStage
                                     THEN "canceled" ELSE stage[t]
TakeOverStep ==
    \E j \in Jobs :
        /\ status[j] = "queued" /\ AheadClosed(StageOf[j]) /\ NeedsMet(j)
        /\ \A k \in Jobs : status'[k] = IF k = j THEN "running" ELSE status[k]
        /\ \A t \in Stages : stage'[t] = IF t = StageOf[j] /\ stage[t] = "queued"
                                         THEN "running" ELSE stage[t]
        /\ run' = IF run = "queued" THEN "running" ELSE run
        /\ UNCHANGED stamp
MarkStep ==
    /\ UNCHANGED <<status, run, stamp>>
    /\ \E s \in Stages :
          /\ AheadClosed(s) /\ stage[s] = "queued" /\ stage'[s] = "running"
          /\ \A t \in Stages : t # s => stage'[t] = stage[t]
StillStep ==
    /\ UNCHANGED <<status, stage>>
    /\ run' = run \/ (run = "queued" /\ run' = "running")
    /\ \A k \in Jobs : stamp[k] => stamp'[k]
    /\ UNCHANGED stamp \/ budget'.cancel = budget.cancel - 1

RowStep ==
    \/ EndStep \/ ClaimStep \/ TakeOverStep \/ RequeueStep \/ CancelStep \/ MarkStep
    \/ StillStep

\* How the scheduler's locals may move in one step.
TickStep ==
    /\ tick'.cand \subseteq tick.cand \/ (tick'.cand = Dispatchable /\ UNCHANGED stage)
    /\ \A k \in Jobs : tick'.snap[k] = "success" =>
          tick.snap[k] = "success" \/ status[k] = "success"
    /\ tick'.pc \in {"claimed", "sent"} =>
          \/ /\ tick.pc \in {"claimed", "sent"} /\ tick'.job = tick.job
             /\ tick'.pc = "claimed" => tick.pc = "claimed"
          \/ tick'.pc = "claimed" /\ tick'.job \in tick.cand /\ Ready(tick'.job)
    /\ \/ tick'.uo \in {tick.uo, NoOutcome}
       \/ (\E n \in NotifyJobs : n \in tick.cand) /\ tick'.uo = UserOutcome
    /\ \A k \in Jobs : issued'[k] # issued[k] =>
          \/ tick.pc = "claimed" /\ k = tick.job
          \/ k \in Native /\ Ready(k)
    /\ \A w \in watches' : w \in watches \/ w.job \in tick.cand

BudgetInv == budget.rerun <= MaxReruns /\ budget.cancel <= MaxCancels

\* Only a rerun or a cancel spends its budget, and no step refills one.
LEMMA BudgetStep ==
    ASSUME TypeOK, BudgetInv, Next
    PROVE  /\ BudgetInv'
           /\ NoRerunYet' => NoRerunYet /\ ~\E j \in Jobs : RerunJob(j)
           /\ NoCancelYet' => NoCancelYet /\ budget'.cancel # budget.cancel - 1
<1>0. budget \in Budgets /\ MaxReruns \in Nat /\ MaxCancels \in Nat
  BY RunAssumption DEF TypeOK, Budgets
<1>1. ASSUME NEW j \in Jobs, RerunJob(j)
      PROVE budget' = [budget EXCEPT !.rerun = @ - 1]
  BY <1>1 DEF RerunJob
<1>2. \/ budget' = budget
      \/ budget' = [budget EXCEPT !.loss = @ - 1]
      \/ budget' = [budget EXCEPT !.cancel = @ - 1]
      \/ budget' = [budget EXCEPT !.rerun = @ - 1]
  <2>1. ASSUME NEW j \in Jobs, Consider(j) PROVE budget' = budget
    <3>1. CASE SkipJob(j) \/ FailJobWithReason(j)
      BY <3>1 DEF SkipJob, FailJobWithReason, CullQueued
    <3>2. CASE LeaveQueued(j) \/ FailJobWithError(j)
      BY <3>2 DEF LeaveQueued, FailJobWithError
    <3>3. CASE StartServerManagedJob(j)
      BY <3>3 DEF StartServerManagedJob
    <3>4. ASSUME NEW a \in Agents, AssignJob(j, a) PROVE budget' = budget
      BY <3>4 DEF AssignJob
    <3> QED BY <2>1, <3>1, <3>2, <3>3, <3>4 DEF Consider
  <2>2. CASE \/ DrainQueued \/ LoseNotify \/ DispatchList \/ DispatchSnapshot
             \/ DispatchAssignment \/ UnassignJob \/ MarkStageRunning \/ EndTick
             \/ ServerRestart
    BY <2>2 DEF DrainQueued, LoseNotify, DispatchList, DispatchSnapshot, DispatchAssignment,
       UnassignJob, MarkStageRunning, EndTick, ServerRestart
  <2>3. CASE ~(\E j \in Jobs : Consider(j)) /\ ~(\E j \in Jobs : RerunJob(j))
    BY <2>2, <2>3 DEF Next, JobResult, HandleDisruptedJob, AgentLost, AgentReturns,
       FinalizeDeployWatch, LoseDeployWatch, ReclaimList, ReclaimPendingCancel,
       ReclaimAbandonedNativeCancel, CancelReclaimed, ReclaimStaleJob, CancelJobRun, CancelRun,
       SystemCancelRun, CancelOpenRun, DecideGate
  <2> QED BY <1>1, <2>1, <2>3
<1> QED BY <1>0, <1>1, <1>2 DEF BudgetInv, NoRerunYet, NoCancelYet, Budgets

\* A candidate the loop finds ready has every job it needs.
LEMMA ReadyNeeds ==
    ASSUME TypeOK, SnapshotSound, NEW j \in Jobs, Ready(j)
    PROVE  NeedsMet(j)
<1>1. Needs[j] \subseteq Jobs
  BY RunAssumption
<1>2. \A k \in Needs[j] : tick.snap[k] \in JobStatus
  BY <1>1 DEF TypeOK, Tick
<1>3. NeedsVerdict(j) = "ok"
  BY DEF Ready
<1>4. \A k \in Needs[j] : tick.snap[k] = "success"
  BY <1>2, <1>3 DEF NeedsVerdict, JobStatus, Finished
<1> QED BY <1>1, <1>4 DEF SnapshotSound, NeedsMet

\* Finishing an unfinished row is an EndStep, if a job that is not a gate ends
\* other than canceled in turn only.
LEMMA EndsIn ==
    ASSUME TypeOK, NEW j \in Jobs, NEW st \in Finished, NEW o, FinishAs(j, st, o),
           status[j] \in Unfinished, UNCHANGED stamp,
           j \in Gates \/ st = "canceled" \/ AheadClosed(StageOf[j])
    PROVE  EndStep
  BY FinishCases DEF EndStep

\* The effect of CompleteJobRun on a row that is queued or running and in turn.
LEMMA CompletesIn ==
    ASSUME TypeOK, NEW j \in Jobs, NEW out \in {"success", "failed"}, Complete(j, out),
           status[j] \in {"queued", "running"}, j \in Gates \/ AheadClosed(StageOf[j])
    PROVE  EndStep
<1> DEFINE st == IF stamp[j] THEN "canceled" ELSE out
<1>1. st \in Finished /\ status[j] \in Unfinished
  BY DEF Finished, Unfinished
<1>2. FinishAs(j, st, origin[j]) /\ UNCHANGED stamp
  BY DEF Complete, Finish
<1> HIDE DEF st
<1> QED BY <1>1, <1>2, EndsIn

\* What an agent reports counts for a running row only: queued rows have no owner.
LEMMA ReportsIn ==
    ASSUME RunInv, StartedInTurn, NEW e \in execs, NEW out \in {"success", "failed"},
           CompleteJob(e, out)
    PROVE  EndStep \/ UNCHANGED rows
<1>0. TypeOK /\ RunningIsOwned /\ e.job \in Jobs /\ e.agent \in Agents
  BY OwnedIsOwned DEF RunInv, TypeOK, Execution
<1>1. CASE UNCHANGED rows
  BY <1>1
<1>2. CASE /\ status[e.job] \in {"queued", "running"} /\ Owns(e.agent, e.attempt, e.job)
           /\ Complete(e.job, out)
  <2>1. status[e.job] = "running"
    BY <1>0, <1>2, RunAssumption DEF Owns, RunningIsOwned
  <2>2. e.job \in Gates \/ AheadClosed(StageOf[e.job])
    BY <1>0, <2>1 DEF StartedInTurn
  <2> QED BY <1>0, <1>2, <2>2, CompletesIn
<1> QED BY <1>1, <1>2 DEF CompleteJob

\* A step that leaves the rows alone.
LEMMA RowsStill == ASSUME UNCHANGED rows PROVE RowStep
<1>1. UNCHANGED <<status, stage, run, stamp>>
  BY DEF rows
<1>2. \A k \in Jobs : stamp[k] => stamp'[k]
  BY <1>1
<1>3. StillStep
  BY <1>1, <1>2 DEF StillStep
<1> QED BY <1>3 DEF RowStep

\* Requeueing a running, unstamped row.
LEMMA RequeuesIn ==
    ASSUME TypeOK, NEW j \in Jobs, Requeue(j), status[j] = "running", ~stamp[j]
    PROVE  RowStep
  BY DEF Requeue, TypeOK, RequeueStep, RowStep

\* Every step but a rerun moves the rows in one of those ways.
LEMMA RowSteps ==
    ASSUME RunInv, OrderInv, Next, ~\E j \in Jobs : RerunJob(j)
    PROVE  RowStep
<1>0. /\ TypeOK /\ ClaimOK /\ RunningIsOwned /\ StartedInTurn /\ CandidatesInTurn
      /\ SnapshotSound /\ ClaimInTurn /\ WatchedInTurn
  BY OwnedIsOwned DEF RunInv, OrderInv
<1>1. CASE \/ DrainQueued \/ LoseNotify \/ DispatchList \/ DispatchSnapshot
           \/ DispatchAssignment \/ ServerRestart
           \/ \E a \in Agents : AgentLost(a) \/ AgentReturns(a)
           \/ \E w \in watches : LoseDeployWatch(w)
           \/ \E j \in Jobs : ReclaimList(j)
  <2>1. UNCHANGED rows
    BY <1>1 DEF DrainQueued, LoseNotify, DispatchList, DispatchSnapshot, DispatchAssignment,
       ServerRestart, AgentLost, AgentReturns, LoseDeployWatch, ReclaimList
  <2> QED BY <2>1, RowsStill
<1>2. ASSUME NEW j \in Jobs, Consider(j) PROVE RowStep
  <2>0. j \in tick.cand /\ AheadClosed(StageOf[j])
    BY <1>0, <1>2, OnlyCandidates DEF Considering, CandidatesInTurn
  <2>1. ASSUME NEW st \in {"skipped", "failed"}, CullQueued(j, st) PROVE RowStep
    <3>1. CASE status[j] = "queued" /\ Finish(j, st)
      <4>1. st \in Finished /\ status[j] \in Unfinished /\ UNCHANGED stamp
        BY <2>1, <3>1 DEF Finished, Unfinished, CullQueued
      <4> QED BY <1>0, <2>0, <3>1, <4>1, EndsIn DEF Finish, RowStep
    <3>2. CASE UNCHANGED <<status, origin, stage, run>>
      BY <2>1, <3>2, RowsStill DEF CullQueued, rows
    <3> QED BY <2>1, <3>1, <3>2 DEF CullQueued
  <2>2. CASE SkipJob(j) \/ FailJobWithReason(j)
    BY <2>1, <2>2 DEF SkipJob, FailJobWithReason
  <2>3. CASE LeaveQueued(j)
    BY <2>3, RowsStill DEF LeaveQueued
  <2>4. CASE FailJobWithError(j)
    BY <1>0, <2>0, <2>4, CompletesIn, RowsStill DEF FailJobWithError, RowStep
  <2>6. CASE StartServerManagedJob(j)
    <3>1. CASE UNCHANGED <<status, stage, run, watches, issued>>
      BY <2>6, <3>1, RowsStill DEF StartServerManagedJob, rows
    <3>2. CASE Unassigned(j)
      <4>1. NeedsMet(j) /\ StageOf[j] \in Stages
        BY <1>0, <2>6, ReadyNeeds, RunAssumption DEF StartServerManagedJob
      <4>2. /\ \A k \in Jobs : status'[k] = IF k = j THEN "running" ELSE status[k]
            /\ status[j] = "queued" /\ UNCHANGED stamp
            /\ run' = IF run = "queued" THEN "running" ELSE run
        BY <1>0, <2>6, <3>2 DEF StartServerManagedJob, Unassigned, TypeOK
      <4>3. \A t \in Stages : stage'[t] = IF t = StageOf[j] /\ stage[t] = "queued"
                                          THEN "running" ELSE stage[t]
        BY <1>0, <2>6, <3>2, <4>1 DEF StartServerManagedJob, TypeOK
      <4>4. TakeOverStep
        BY <2>0, <4>1, <4>2, <4>3 DEF TakeOverStep
      <4> QED BY <4>4 DEF RowStep
    <3> QED BY <2>6, <3>1, <3>2 DEF StartServerManagedJob
  <2>5. ASSUME NEW a \in Agents, AssignJob(j, a) PROVE RowStep
    <3>1. CASE UNCHANGED <<status, agent>>
      BY <2>5, <3>1, RowsStill DEF AssignJob, rows
    <3>2. CASE status[j] = "queued" /\ status' = [status EXCEPT ![j] = "running"]
      <4>1. NeedsMet(j)
        BY <1>0, <2>5, ReadyNeeds DEF AssignJob
      <4>2. ClaimStep
        BY <1>0, <2>0, <2>5, <3>2, <4>1 DEF AssignJob, ClaimStep, TypeOK
      <4> QED BY <4>2 DEF RowStep
    <3> QED BY <2>5, <3>1, <3>2 DEF AssignJob, Unassigned
  <2> QED BY <1>2, <2>2, <2>3, <2>4, <2>5, <2>6 DEF Consider
<1>3. CASE UnassignJob
  <2>0. tick.job \in Jobs /\ tick.pc = "claimed"
    BY <1>0, <1>3 DEF UnassignJob, ClaimOK
  <2>1. CASE status[tick.job] = "running" /\ Finish(tick.job, "canceled") /\ UNCHANGED stamp
    BY <1>0, <2>0, <2>1, EndsIn DEF Finish, Finished, Unfinished, RowStep
  <2>2. CASE /\ status[tick.job] = "running" /\ ~stamp[tick.job]
             /\ status' = [status EXCEPT ![tick.job] = "queued"]
             /\ UNCHANGED <<stamp, stage, run>>
    <3>1. RequeueStep
      BY <1>0, <2>0, <2>2 DEF RequeueStep, TypeOK
    <3> QED BY <3>1 DEF RowStep
  <2>3. CASE UNCHANGED <<status, agent, stamp, origin, stage, run, due>>
    BY <1>3, <2>3, RowsStill DEF UnassignJob, rows
  <2> QED BY <1>3, <2>1, <2>2, <2>3 DEF UnassignJob
<1>4. CASE MarkStageRunning
  <2>0. tick.job \in Jobs /\ StageOf[tick.job] \in Stages /\ AheadClosed(StageOf[tick.job])
    BY <1>0, <1>4, RunAssumption DEF MarkStageRunning, ClaimOK, ClaimInTurn
  <2>1. UNCHANGED <<status, run, stamp, agent, attempt, origin>>
    BY <1>4 DEF MarkStageRunning
  <2>2. CASE stage[StageOf[tick.job]] = "queued"
    <3>1. MarkStep
      BY <1>0, <1>4, <2>0, <2>1, <2>2 DEF MarkStageRunning, MarkStep, TypeOK
    <3> QED BY <3>1 DEF RowStep
  <2>3. CASE stage[StageOf[tick.job]] # "queued"
    BY <1>4, <2>1, <2>3, RowsStill DEF MarkStageRunning, rows
  <2> QED BY <2>2, <2>3
<1>5. CASE EndTick
  <2>1. UNCHANGED <<status, stage, stamp>> /\ (run' = run \/ (run = "queued" /\ run' = "running"))
    BY <1>5 DEF EndTick
  <2>2. \A k \in Jobs : stamp[k] => stamp'[k]
    BY <2>1
  <2>3. StillStep
    BY <2>1, <2>2 DEF StillStep
  <2> QED BY <2>3 DEF RowStep
<1>6. ASSUME NEW e \in execs, NEW out \in {"success", "failed"}, JobResult(e, out)
      PROVE RowStep
  BY <1>0, <1>6, ReportsIn, RowsStill DEF JobResult, RowStep
<1>7. ASSUME NEW e \in execs, HandleDisruptedJob(e) PROVE RowStep
  <2>0. e.job \in Jobs
    BY <1>0 DEF TypeOK, Execution
  <2>1. CASE CompleteJob(e, "failed")
    BY <1>0, <2>1, ReportsIn, RowsStill DEF RowStep
  <2>2. CASE Requeue(e.job) /\ status[e.job] = "running" /\ ~stamp[e.job]
    BY <1>0, <2>0, <2>2, RequeuesIn
  <2>3. CASE UNCHANGED <<rows, due>>
    BY <2>3, RowsStill
  <2> QED BY <1>7, <2>1, <2>2, <2>3 DEF HandleDisruptedJob
<1>8. ASSUME NEW j \in Jobs, ReclaimPendingCancel(j) \/ ReclaimAbandonedNativeCancel(j)
      PROVE  RowStep
  <2>1. CancelReclaimed(j)
    BY <1>8 DEF ReclaimPendingCancel, ReclaimAbandonedNativeCancel
  <2> QED BY <1>0, <2>1, EndsIn DEF CancelReclaimed, Finish, Finished, Unfinished, RowStep
<1>13. ASSUME NEW w \in watches, NEW v \in {"success", "failed"}, FinalizeDeployWatch(w, v)
       PROVE  RowStep
  <2>0. w.job \in Jobs
    BY <1>0, RunAssumption DEF TypeOK, Watch
  <2>1. CASE UNCHANGED <<rows, due>>
    BY <2>1, RowsStill
  <2>2. CASE status[w.job] \in {"queued", "running"} /\ Complete(w.job, v)
    BY <1>0, <2>0, <2>2, CompletesIn DEF WatchedInTurn, RowStep
  <2> QED BY <1>13, <2>1, <2>2 DEF FinalizeDeployWatch
<1>9. ASSUME NEW s \in reap, ReclaimStaleJob(s) PROVE RowStep
  <2>0. s.job \in Jobs
    BY <1>0 DEF TypeOK, Snapshot
  <2>1. CASE status[s.job] = "running" /\ Finish(s.job, "failed") /\ UNCHANGED stamp
    <3>1. s.job \in Gates \/ AheadClosed(StageOf[s.job])
      BY <1>0, <2>0, <2>1 DEF StartedInTurn
    <3> QED BY <1>0, <2>0, <2>1, <3>1, EndsIn DEF Finish, Finished, Unfinished, RowStep
  <2>2. CASE Requeue(s.job) /\ status[s.job] = "running" /\ ~stamp[s.job]
    BY <1>0, <2>0, <2>2, RequeuesIn
  <2>3. CASE UNCHANGED <<rows, due>>
    BY <2>3, RowsStill
  <2> QED BY <1>9, <2>1, <2>2, <2>3 DEF ReclaimStaleJob
<1>10. ASSUME NEW j \in Jobs, CancelJobRun(j) PROVE RowStep
  <2>1. CASE /\ status[j] = "running" /\ stamp' = [stamp EXCEPT ![j] = TRUE]
             /\ UNCHANGED <<status, stage, run>>
    <3>1. \A k \in Jobs : stamp[k] => stamp'[k]
      BY <1>0, <2>1 DEF TypeOK
    <3>2. budget'.cancel = budget.cancel - 1
      BY <1>0, <1>10 DEF CancelJobRun, TypeOK
    <3>3. StillStep
      BY <2>1, <3>1, <3>2 DEF StillStep
    <3> QED BY <3>3 DEF RowStep
  <2>2. CASE /\ status[j] = "queued" /\ UNCHANGED stamp
             /\ FinishAs(j, "canceled", FirstOrigin(origin, j, "user_job"))
    BY <1>0, <2>2, EndsIn DEF Finished, Unfinished, RowStep
  <2> QED BY <1>10, <2>1, <2>2 DEF CancelJobRun
<1>11. ASSUME NEW S \in {UserJobs, Jobs}, CancelOpenRun(S) PROVE RowStep
  <2>1. stamp' = [i \in Jobs |-> stamp[i] \/ (i \in S /\ status[i] = "running")]
    BY <1>11 DEF CancelOpenRun
  <2>2. ASSUME NEW k \in Jobs
        PROVE  /\ stamp[k] => stamp'[k]
               /\ k \in UserJobs /\ status[k] = "running" => stamp'[k]
    BY <2>1 DEF UserJobs
  <2>3. budget'.cancel = budget.cancel - 1
    BY <1>0, <1>11 DEF CancelOpenRun, TypeOK
  <2>4. \A t \in Stages : stage'[t] = IF stage[t] = "queued" /\ t # NotifyStage
                                      THEN "canceled" ELSE stage[t]
    BY <1>11 DEF CancelOpenRun, CancelQueuedStages
  <2>5. \A k \in Jobs : status'[k] = IF Cancellable(status, k) THEN "canceled" ELSE status[k]
    BY <1>11 DEF CancelOpenRun, CancelQueuedJobs
  <2>6. run \in Open /\ run' = "canceled"
    BY <1>11 DEF CancelOpenRun
  <2>7. CancelStep
    BY <2>2, <2>3, <2>4, <2>5, <2>6 DEF CancelStep
  <2> QED BY <2>7 DEF RowStep
<1>12. ASSUME NEW g \in Gates, NEW v \in {"success", "failed"}, DecideGate(g, v) PROVE RowStep
  <2>1. g \in Jobs /\ v \in Finished /\ status[g] \in Unfinished /\ UNCHANGED stamp
    BY <1>12, RunAssumption DEF Finished, Unfinished, DecideGate
  <2> QED BY <1>0, <1>12, <2>1, EndsIn DEF DecideGate, Finish, RowStep
<1> QED BY <1>1, <1>2, <1>3, <1>4, <1>5, <1>6, <1>7, <1>8, <1>9, <1>10, <1>11, <1>12,
           <1>13 DEF Next, CancelRun, SystemCancelRun

\* A takeover is of a candidate, and nothing else adds a watch.
LEMMA NewWatches ==
    ASSUME Next
    PROVE  \A w \in watches' : w \in watches \/ w.job \in tick.cand
<1>1. ASSUME NEW j \in Jobs, StartServerManagedJob(j)
      PROVE  \A w \in watches' : w \in watches \/ w.job \in tick.cand
  BY <1>1 DEF StartServerManagedJob, Considering
<1>2. ASSUME NEW w \in watches, NEW v \in {"success", "failed"},
             FinalizeDeployWatch(w, v) \/ LoseDeployWatch(w)
      PROVE  watches' \subseteq watches
  BY <1>2 DEF FinalizeDeployWatch, LoseDeployWatch
<1> QED BY <1>1, <1>2, WatchSteps DEF deploys

\* Every step moves the scheduler's locals as TickStep says.
LEMMA TickSteps ==
    ASSUME TypeOK, ClaimOK, Next
    PROVE  TickStep
<1>0. /\ tick \in Tick /\ issued \in [Jobs -> Nat]
      /\ \A w \in watches' : w \in watches \/ w.job \in tick.cand
  BY NewWatches DEF TypeOK
<1>1. CASE UNCHANGED <<tick, issued>>
  BY <1>0, <1>1 DEF TickStep
<1>2. CASE tick' = IdleTick /\ UNCHANGED issued
  BY <1>0, <1>2 DEF TickStep, IdleTick
<1>3. CASE DispatchList \/ DispatchSnapshot
  <2>1. CASE DispatchList /\ Dispatchable # {}
    <3>1. /\ tick'.pc = "listed" /\ tick'.cand = Dispatchable /\ tick'.snap = tick.snap
          /\ tick'.uo = tick.uo /\ UNCHANGED <<stage, issued>>
      BY <1>0, <2>1 DEF DispatchList, Tick, rows
    <3> QED BY <1>0, <3>1 DEF TickStep
  <2>2. CASE DispatchSnapshot
    <3>1. /\ tick'.pc = "loop" /\ tick'.cand = tick.cand /\ tick'.snap = status
          /\ tick'.uo = tick.uo /\ UNCHANGED issued
      BY <1>0, <2>2 DEF DispatchSnapshot, Tick
    <3> QED BY <1>0, <3>1 DEF TickStep
  <2> QED BY <1>1, <1>3, <2>1, <2>2 DEF DispatchList
<1>4. ASSUME NEW j \in Jobs, tick' = NextCandidate(j), j \in tick.cand, tick.pc = "loop",
             \A k \in Jobs : issued'[k] # issued[k] => k \in Native /\ Ready(k)
      PROVE  TickStep
  <2>1. /\ tick'.pc = "loop" /\ tick'.cand \subseteq tick.cand /\ tick'.snap = tick.snap
        /\ tick'.uo = IF j \in NotifyJobs THEN UserOutcome ELSE tick.uo
    BY <1>0, <1>4 DEF NextCandidate, Tick
  <2> QED BY <1>0, <1>4, <2>1 DEF TickStep
<1>5. ASSUME NEW j \in Jobs, NEW a \in Agents, AssignJob(j, a) PROVE TickStep
  <2>0. /\ NextCandidate(j) \in Tick /\ j \in tick.cand /\ Ready(j) /\ UNCHANGED issued
        /\ NextCandidate(j).cand \subseteq tick.cand /\ NextCandidate(j).snap = tick.snap
        /\ NextCandidate(j).uo = IF j \in NotifyJobs THEN UserOutcome ELSE tick.uo
        /\ tick.pc = "loop"
    <3>1. NextCandidate(j) \in Tick
      BY NextCandidateType
    <3>2. j \in tick.cand /\ Ready(j) /\ UNCHANGED issued /\ tick.pc = "loop"
      BY <1>5 DEF AssignJob, Considering
    <3> QED BY <1>0, <3>1, <3>2 DEF NextCandidate, Tick
  <2> HIDE DEF NextCandidate
  <2>1. CASE tick' = NextCandidate(j)
    BY <1>4, <2>0, <2>1
  <2>2. CASE tick' = [NextCandidate(j) EXCEPT !.pc = "claimed", !.job = j, !.agent = a,
                                              !.attempt = attempt[j]]
    <3>1. /\ tick'.pc = "claimed" /\ tick'.job = j
          /\ tick'.cand = NextCandidate(j).cand /\ tick'.snap = NextCandidate(j).snap
          /\ tick'.uo = NextCandidate(j).uo
      BY <2>0, <2>2 DEF Tick
    <3> QED BY <1>0, <2>0, <3>1 DEF TickStep
  <2> QED BY <1>5, <2>1, <2>2 DEF AssignJob
<1>6. ASSUME NEW j \in Jobs, Consider(j) PROVE TickStep
  <2>0. j \in tick.cand /\ tick.pc = "loop"
    BY <1>6, OnlyCandidates DEF Considering
  <2>1. CASE SkipJob(j) \/ FailJobWithReason(j) \/ FailJobWithError(j)
    BY <1>4, <2>0, <2>1 DEF SkipJob, FailJobWithReason, FailJobWithError, CullQueued
  <2>2. CASE LeaveQueued(j)
    <3>1. CASE tick' = [tick EXCEPT !.cand = {}]
      <4>1. /\ tick'.cand = {} /\ tick'.pc = tick.pc /\ tick'.snap = tick.snap
            /\ tick'.uo = tick.uo
        BY <1>0, <3>1 DEF Tick
      <4> QED BY <1>0, <2>0, <2>2, <4>1 DEF LeaveQueued, TickStep
    <3> QED BY <1>4, <2>0, <2>2, <3>1 DEF LeaveQueued
  <2>3. CASE StartServerManagedJob(j)
    <3>1. \A k \in Jobs : issued'[k] # issued[k] => k = j /\ j \in Native /\ Ready(j)
      BY <1>0, <2>3 DEF StartServerManagedJob
    <3> QED BY <1>4, <2>0, <2>3, <3>1 DEF StartServerManagedJob
  <2> QED BY <1>5, <1>6, <2>1, <2>2, <2>3 DEF Consider
<1>7. CASE DispatchAssignment
  <2>1. /\ tick.pc = "claimed" /\ tick'.pc = "sent" /\ tick'.cand = tick.cand
        /\ tick'.snap = tick.snap /\ tick'.uo = tick.uo /\ tick'.job = tick.job
        /\ \A k \in Jobs : k # tick.job => issued'[k] = issued[k]
    BY <1>0, <1>7 DEF DispatchAssignment, Tick
  <2> QED BY <1>0, <2>1 DEF TickStep
<1>8. CASE UnassignJob \/ MarkStageRunning
  <2>1. /\ tick'.pc = "loop" /\ tick'.cand = tick.cand /\ tick'.snap = tick.snap
        /\ tick'.uo = tick.uo /\ UNCHANGED issued
    <3>1. CASE UnassignJob
      BY <1>0, <3>1 DEF UnassignJob, Tick
    <3>2. CASE MarkStageRunning
      BY <1>0, <3>2 DEF MarkStageRunning, Tick
    <3> QED BY <1>8, <3>1, <3>2
  <2> QED BY <1>0, <2>1 DEF TickStep
<1>9. CASE EndTick \/ ServerRestart
  BY <1>2, <1>9 DEF EndTick, ServerRestart
<1>10. CASE \/ DrainQueued \/ LoseNotify
            \/ \E e \in execs, out \in {"success", "failed"} : JobResult(e, out)
            \/ \E e \in execs : HandleDisruptedJob(e)
            \/ \E a \in Agents : AgentLost(a) \/ AgentReturns(a)
            \/ \E w \in watches, v \in {"success", "failed"} : FinalizeDeployWatch(w, v)
            \/ \E w \in watches : LoseDeployWatch(w)
            \/ \E j \in Jobs : \/ ReclaimList(j)
                               \/ ReclaimPendingCancel(j)
                               \/ ReclaimAbandonedNativeCancel(j)
            \/ \E s \in reap : ReclaimStaleJob(s)
            \/ \E j \in Jobs : CancelJobRun(j) \/ RerunJob(j)
            \/ CancelRun \/ SystemCancelRun
            \/ \E g \in Gates, v \in {"success", "failed"} : DecideGate(g, v)
  <2>1. UNCHANGED <<tick, issued>>
    BY <1>10 DEF DrainQueued, LoseNotify, JobResult, HandleDisruptedJob, AgentLost, AgentReturns,
       FinalizeDeployWatch, LoseDeployWatch, ReclaimList, ReclaimPendingCancel,
       ReclaimAbandonedNativeCancel, CancelReclaimed, ReclaimStaleJob, CancelJobRun, RerunJob,
       CancelRun, SystemCancelRun, CancelOpenRun, DecideGate
  <2> QED BY <1>1, <2>1
<1> QED BY <1>3, <1>6, <1>7, <1>8, <1>9, <1>10 DEF Next

-----------------------------------------------------------------------------
(* The order of stages and needs                                           *)

ClosedStays == \A s \in Stages : stage[s] \in Closed => stage'[s] = stage[s]
FinishedStays == \A k \in Jobs : status[k] \in Finished => status'[k] = status[k]

\* Closed stages stay closed and finished jobs stay finished.
LEMMA StepKeepsClosed ==
    ASSUME TypeOK, RowStep
    PROVE  ClosedStays /\ FinishedStays
<1>0. \A k \in Jobs : StageOf[k] \in Stages
  BY RunAssumption
<1>1. CASE EndStep
  <2>1. ClosedStays
    BY <1>0, <1>1 DEF EndStep, StageStays, StageCloses, StageFails, ClosedStays, Closed, Open
  <2>2. FinishedStays
    BY <1>1 DEF EndStep, StageStays, StageCloses, StageFails, FinishedStays, Finished,
       Unfinished, Cancellable
  <2> QED BY <2>1, <2>2
<1>2. CASE ClaimStep \/ RequeueStep
  BY <1>2 DEF ClaimStep, RequeueStep, ClosedStays, FinishedStays, Finished
<1>5. CASE TakeOverStep
  BY <1>5 DEF TakeOverStep, ClosedStays, FinishedStays, Finished, Closed
<1>3. CASE CancelStep
  BY <1>3 DEF CancelStep, Cancellable, ClosedStays, FinishedStays, Finished, Closed
<1>4. CASE MarkStep \/ StillStep
  BY <1>4 DEF MarkStep, StillStep, ClosedStays, FinishedStays, Closed
<1> QED BY <1>1, <1>2, <1>3, <1>4, <1>5 DEF RowStep

\* What is in turn stays in turn.
LEMMA AheadStays ==
    ASSUME ClosedStays, NEW s, AheadClosed(s)
    PROVE  AheadClosed(s)'
  BY DEF ClosedStays, AheadClosed

\* A job whose needs are met keeps them met.
LEMMA NeedsStay ==
    ASSUME FinishedStays, NEW j \in Jobs, NeedsMet(j)
    PROVE  NeedsMet(j)'
  BY RunAssumption DEF FinishedStays, NeedsMet, Finished

\* Stage and needs order survive every step of a run nobody reran.
LEMMA OrderStep ==
    ASSUME RunInv, OrderInv, RowStep, TickStep, ClaimOK'
    PROVE  OrderInv'
<1>0. /\ TypeOK /\ ClaimOK /\ ClosedStays /\ FinishedStays /\ OrderInv
      /\ StageBarrier /\ NeedsHonoured /\ \A k \in Jobs : StageOf[k] \in Stages
  BY StepKeepsClosed, RunAssumption DEF RunInv, OrderInv, OrderHonoured
<1>1. CandidatesInTurn'
  <2> SUFFICES ASSUME NEW j \in tick'.cand PROVE AheadClosed(StageOf[j])'
    BY DEF CandidatesInTurn
  <2>1. CASE j \in tick.cand
    BY <1>0, <2>1, AheadStays DEF OrderInv, CandidatesInTurn
  <2>2. CASE j \in Dispatchable /\ UNCHANGED stage
    <3>1. \A t \in Stages : t < StageOf[j] => stage[t] \notin Open
      <4> SUFFICES ASSUME NEW t \in Stages, t < StageOf[j], stage[t] \in Open PROVE FALSE
        OBVIOUS
      <4>1. j \in Jobs /\ StageOf[j] <= t
        BY <2>2 DEF Dispatchable, ActiveStages
      <4>2. t \in Nat /\ StageOf[j] \in Nat
        BY <1>0, <4>1, RunAssumption
      <4> QED BY <4>1, <4>2
    <3>2. \A t \in Stages : stage[t] \in RowStatus
      BY <1>0 DEF TypeOK
    <3> QED BY <2>2, <3>1, <3>2 DEF AheadClosed, RowStatus
  <2> QED BY <2>1, <2>2 DEF TickStep
<1>2. ClaimInTurn'
  <2> SUFFICES ASSUME tick'.pc \in {"claimed", "sent"} PROVE AheadClosed(StageOf[tick.job])'
    BY DEF ClaimInTurn
  <2>1. PICK j \in Jobs : j = tick'.job
    BY DEF ClaimOK
  <2>2. AheadClosed(StageOf[j])
    BY <1>0, <2>1 DEF TickStep, OrderInv, CandidatesInTurn, ClaimInTurn
  <2>3. AheadClosed(StageOf[j])'
    BY <1>0, <2>2, AheadStays
  <2> QED BY <2>1, <2>3
<1>3. StartedInTurn'
  <2> SUFFICES ASSUME NEW j \in Jobs \ Gates,
                      status'[j] \in {"running", "success", "failed", "skipped"}
               PROVE  AheadClosed(StageOf[j])'
    BY DEF StartedInTurn
  <2>1. AheadClosed(StageOf[j])
    <3>1. CASE status[j] = status'[j]
      BY <1>0, <3>1 DEF OrderInv, StartedInTurn
    <3>2. CASE EndStep /\ status[j] # status'[j]
      BY <3>2 DEF EndStep, StageStays, StageCloses, StageFails
    <3>3. CASE (ClaimStep \/ TakeOverStep) /\ status[j] # status'[j]
      BY <3>3 DEF ClaimStep, TakeOverStep
    <3>4. CASE RequeueStep \/ CancelStep \/ MarkStep \/ StillStep
      BY <3>1, <3>4 DEF RequeueStep, CancelStep, MarkStep, StillStep
    <3> QED BY <3>1, <3>2, <3>3, <3>4 DEF RowStep
  <2> QED BY <1>0, <2>1, AheadStays
<1>4. RunningInTurn'
  <2> SUFFICES ASSUME NEW s \in Stages, stage'[s] = "running" PROVE AheadClosed(s)'
    BY DEF RunningInTurn
  <2>1. CASE stage[s] = "running"
    BY <1>0, <2>1, AheadStays DEF OrderInv, RunningInTurn
  <2>2. CASE stage[s] # "running"
    <3>1. MarkStep \/ TakeOverStep
      BY <1>0, <2>2 DEF RowStep, EndStep, StageStays, StageCloses, StageFails, ClaimStep,
         RequeueStep, CancelStep, StillStep
    <3>2. AheadClosed(s)
      BY <2>2, <3>1 DEF MarkStep, TakeOverStep
    <3> QED BY <1>0, <3>2, AheadStays
  <2> QED BY <2>1, <2>2
<1>5. FailureCulls'
  <2> SUFFICES ASSUME NEW s \in Stages, NEW j \in UserJobs, stage'[s] = "failed", s < StageOf[j]
               PROVE  status'[j] \in Finished
    BY DEF FailureCulls
  <2>0. j \in Jobs
    BY DEF UserJobs
  <2>1. CASE stage[s] = "failed"
    BY <1>0, <2>0, <2>1 DEF OrderInv, FailureCulls, FinishedStays
  <2>2. CASE stage[s] # "failed"
    <3>1. PICK i \in Jobs, st \in Finished : StageFails(i, st) /\ s = StageOf[i]
      BY <1>0, <2>2 DEF RowStep, EndStep, StageStays, StageCloses, StageFails, ClaimStep,
         TakeOverStep, RequeueStep, CancelStep, MarkStep, StillStep
    <3>2. stage[s] \in Open
      BY <3>1 DEF StageFails
    <3>3. status[j] # "running"
      BY <1>0, <3>2 DEF StageBarrier, Open
    <3>4. status[j] \in JobStatus
      BY <1>0, <2>0 DEF TypeOK
    <3> QED BY <2>0, <3>1, <3>3, <3>4 DEF StageFails, Cancellable, JobStatus, Unfinished, Finished
  <2> QED BY <2>1, <2>2
<1>6. SnapshotSound'
  BY <1>0 DEF TickStep, OrderInv, SnapshotSound, FinishedStays, Finished
<1>7. ClaimNeedsMet'
  <2> SUFFICES ASSUME tick'.pc = "claimed" PROVE NeedsMet(tick.job)'
    BY DEF ClaimNeedsMet
  <2>1. PICK j \in Jobs : j = tick'.job
    BY DEF ClaimOK
  <2>2. NeedsMet(j)
    BY <1>0, <2>1, ReadyNeeds DEF TickStep, OrderInv, ClaimNeedsMet
  <2>3. NeedsMet(j)'
    BY <1>0, <2>2, NeedsStay
  <2> QED BY <2>1, <2>3 DEF NeedsMet
<1>8. StageBarrier'
  <2> SUFFICES ASSUME NEW j \in UserJobs, status'[j] = "running", NEW s \in Stages,
                      s < StageOf[j]
               PROVE  stage'[s] \in {"success", "canceled"}
    BY DEF StageBarrier
  <2>0. j \in Jobs
    BY DEF UserJobs
  <2>1. CASE status[j] = "running"
    BY <1>0, <2>1 DEF StageBarrier, ClosedStays, Closed
  <2>2. CASE status[j] # "running"
    <3>1. ClaimStep \/ TakeOverStep
      BY <2>0, <2>2 DEF RowStep, EndStep, StageStays, StageCloses, StageFails, Finished,
         RequeueStep, CancelStep, MarkStep, StillStep
    <3>2. stage[s] \in Closed /\ stage'[s] = stage[s] /\ status[j] = "queued"
      BY <1>0, <2>0, <2>2, <3>1 DEF ClaimStep, TakeOverStep, AheadClosed, ClosedStays
    <3>3. stage[s] # "failed"
      BY <1>0, <3>2 DEF OrderInv, FailureCulls, Finished
    <3> QED BY <3>2, <3>3 DEF Closed
  <2> QED BY <2>1, <2>2
<1>9. NeedsHonoured'
  <2> SUFFICES ASSUME NEW j \in Jobs, status'[j] = "running" \/ issued'[j] > 0
               PROVE  NeedsMet(j)'
    BY DEF NeedsHonoured, NeedsMet
  <2>1. CASE status[j] = "running" \/ issued[j] > 0
    BY <1>0, <2>1, NeedsStay DEF NeedsHonoured, NeedsMet
  <2>2. CASE status'[j] = "running" /\ status[j] # "running"
    <3>1. ClaimStep \/ TakeOverStep
      BY <2>2 DEF RowStep, EndStep, StageStays, StageCloses, StageFails, Finished,
         RequeueStep, CancelStep, MarkStep, StillStep
    <3>2. NeedsMet(j)
      BY <2>2, <3>1 DEF ClaimStep, TakeOverStep
    <3> QED BY <1>0, <3>2, NeedsStay
  <2>3. CASE issued'[j] # issued[j]
    <3>1. NeedsMet(j)
      BY <1>0, <2>3, ReadyNeeds DEF TickStep, OrderInv, ClaimNeedsMet
    <3> QED BY <1>0, <3>1, NeedsStay
  <2> QED BY <2>1, <2>2, <2>3
<1>10. WatchedInTurn'
  <2> SUFFICES ASSUME NEW w \in watches' PROVE AheadClosed(StageOf[w.job])'
    BY DEF WatchedInTurn
  <2>1. AheadClosed(StageOf[w.job])
    BY <1>0 DEF TickStep, OrderInv, WatchedInTurn, CandidatesInTurn
  <2> QED BY <1>0, <2>1, AheadStays
<1> QED BY <1>1, <1>2, <1>3, <1>4, <1>5, <1>6, <1>7, <1>8, <1>9, <1>10
        DEF OrderInv, OrderHonoured

\* A freshly inserted run is in order.
LEMMA OrderInit == Init => OrderInv /\ BudgetInv
<1> SUFFICES ASSUME Init PROVE OrderInv /\ BudgetInv
  OBVIOUS
<1>0. \A k \in Jobs : StageOf[k] \in Stages /\ Needs[k] \subseteq Jobs
  BY RunAssumption
<1>1. /\ tick.cand = {} /\ tick.pc = "idle" /\ watches = {} /\ \A k \in Jobs : tick.snap[k] = "queued"
      /\ \A k \in Jobs : status[k] \in {"queued", "awaiting_approval"} /\ issued[k] = 0
      /\ \A s \in Stages : stage[s] = "queued"
  BY DEF Init, IdleTick
<1>2. BudgetInv
  BY RunAssumption DEF Init, BudgetInv
<1> QED BY <1>0, <1>1, <1>2 DEF OrderInv, CandidatesInTurn, ClaimInTurn, StartedInTurn,
        RunningInTurn, WatchedInTurn, FailureCulls, SnapshotSound, ClaimNeedsMet,
        OrderHonoured, StageBarrier, NeedsHonoured, UserJobs

-----------------------------------------------------------------------------
(* The verdict, drained stages, wedged runs and notifications              *)

\* A stage fails in turn, unless a gate of it was rejected ahead of its turn.
LEMMA FailsInTurn ==
    ASSUME OrderInv, NEW i \in Jobs, NEW st \in Finished, StageFails(i, st),
           i \in Gates \/ st = "canceled" \/ AheadClosed(StageOf[i])
    PROVE  AheadClosed(StageOf[i]) \/ \E g \in Gates : StageOf[g] = StageOf[i]
<1>1. PICK k \in JobsIn(StageOf[i]) : status'[k] = "failed"
  BY DEF StageFails
<1>2. k \in Jobs /\ StageOf[k] = StageOf[i]
  BY <1>1 DEF JobsIn
<1>3. CASE k = i
  BY <1>1, <1>3 DEF StageFails
<1>4. CASE k # i
  <2>1. status[k] = "failed"
    BY <1>1, <1>2, <1>4 DEF StageFails
  <2> QED BY <1>2, <2>1 DEF OrderInv, StartedInTurn
<1> QED BY <1>3, <1>4

\* The statuses of a closed stage of an open run, after any step but a cancel.
LEMMA ClosedAfterStep ==
    ASSUME TypeOK, OrderInv, VerdictInv, RowStep, ~CancelStep, run \in Open,
           NEW j \in Jobs, stage'[StageOf[j]] \in Closed
    PROVE  status'[j] \in Finished \/ UserFailed'
<1> DEFINE s == StageOf[j]
<1>0. /\ s \in Stages /\ FinishedStays /\ StageBarrier /\ status[j] \in JobStatus
      /\ stage[s] \in RowStatus
  BY StepKeepsClosed, RunAssumption DEF OrderInv, OrderHonoured, TypeOK
<1>1. CASE stage[s] \in Closed
  BY <1>0, <1>1 DEF VerdictInv, ClosedOrFailed, FinishedStays, UserFailed, UserJobs, Finished
<1>2. CASE stage[s] \notin Closed
  <2>1. PICK i \in Jobs, st \in Finished :
            /\ i \in Gates \/ st = "canceled" \/ AheadClosed(StageOf[i])
            /\ StageCloses(i, st) \/ StageFails(i, st)
    BY <1>0, <1>2 DEF RowStep, EndStep, StageStays, ClaimStep, TakeOverStep, RequeueStep,
       MarkStep, StillStep, Closed
  <2>2. CASE s = StageOf[i]
    BY <2>1, <2>2 DEF StageCloses, StageFails, JobsIn
  <2>3. CASE s # StageOf[i]
    <3>1. StageFails(i, st) /\ stage[s] = "queued" /\ s # NotifyStage /\ stage[StageOf[i]] \in Open
      BY <1>0, <1>2, <2>1, <2>3 DEF StageCloses, StageFails
    <3>2. CASE status[j] # "running"
      <4>1. j \in UserJobs
        BY <3>1 DEF UserJobs
      <4> QED BY <1>0, <3>1, <3>2, <4>1 DEF StageFails, Cancellable, JobStatus, Unfinished, Finished
    <3>3. CASE status[j] = "running"
      <4>1. PICK k \in JobsIn(StageOf[i]) : status'[k] = "failed"
        BY <3>1 DEF StageFails
      <4>2. CASE StageOf[i] # NotifyStage
        BY <4>1, <4>2 DEF JobsIn, UserJobs, UserFailed
      <4>3. CASE StageOf[i] = NotifyStage
        <5>1. AheadClosed(StageOf[i])
          BY <2>1, <3>1, <4>3, FailsInTurn, RunAssumption
        <5>2. s < StageOf[i]
          BY <1>0, <2>3, <4>3, RunAssumption
        <5> QED BY <1>0, <1>2, <5>1, <5>2 DEF AheadClosed
      <4> QED BY <4>2, <4>3
    <3> QED BY <3>2, <3>3
  <2> QED BY <2>2, <2>3
<1> QED BY <1>1, <1>2

\* The run's status moves only when the rollup or a cancel closes it.
LEMMA RunMoves ==
    ASSUME RowStep
    PROVE  \/ run' = run
           \/ run = "queued" /\ run' = "running"
           \/ CancelStep
           \/ /\ run \in Open /\ ~CancelStep
              /\ \A t \in Stages : stage'[t] \notin Open
              /\ run' = Verdict(status', UserJobs)
<1>1. CASE EndStep
  BY <1>1 DEF EndStep, StageStays, RunRollsUp
<1>2. CASE \/ ClaimStep \/ TakeOverStep \/ RequeueStep \/ CancelStep \/ MarkStep
           \/ StillStep
  BY <1>2 DEF ClaimStep, TakeOverStep, RequeueStep, CancelStep, MarkStep, StillStep
<1> QED BY <1>1, <1>2 DEF RowStep

\* The verdict stays sound.
LEMMA VerdictStep ==
    ASSUME TypeOK, TypeOK', OrderInv, VerdictInv, RowStep
    PROVE  VerdictInv'
<1>0. FinishedStays /\ \A j \in UserJobs : j \in Jobs /\ status'[j] \in JobStatus
  BY StepKeepsClosed DEF TypeOK, UserJobs
<1>1. ClosedOrFailed'
  <2> SUFFICES ASSUME run' \in Open, NEW j \in Jobs, stage'[StageOf[j]] \in Closed
               PROVE  status'[j] \in Finished \/ UserFailed'
    BY DEF ClosedOrFailed
  <2>1. Verdict(status', UserJobs) \notin Open
    BY VerdictType DEF Closed, Open
  <2>2. run \in Open /\ ~CancelStep
    BY <2>1, RunMoves DEF CancelStep, Open
  <2> QED BY <2>2, ClosedAfterStep
<1>2. ASSUME run' = "success", NEW j \in UserJobs PROVE status'[j] \in {"success", "skipped"}
  <2>1. CASE run = "success"
    BY <1>0, <1>2, <2>1 DEF VerdictInv, RunVerdictSound, FinishedStays, Finished
  <2>2. CASE run # "success"
    <3>1. /\ run \in Open /\ ~CancelStep /\ Verdict(status', UserJobs) = "success"
          /\ \A t \in Stages : stage'[t] \notin Open
      BY <1>2, <2>2, RunMoves DEF CancelStep
    <3>2. \A k \in UserJobs : status'[k] # "failed" /\ status'[k] # "canceled"
      BY <3>1 DEF Verdict
    <3>3. StageOf[j] \in Stages /\ stage'[StageOf[j]] \in RowStatus
      BY <1>0, RunAssumption DEF TypeOK
    <3>4. stage'[StageOf[j]] \in Closed
      BY <3>1, <3>3 DEF RowStatus
    <3>5. status'[j] \in Finished
      BY <1>0, <3>1, <3>2, <3>4, ClosedAfterStep DEF UserFailed
    <3> QED BY <3>2, <3>5 DEF Finished
  <2> QED BY <2>1, <2>2
<1>3. ASSUME run' = "failed" PROVE \E j \in UserJobs : status'[j] = "failed"
  <2>1. CASE run = "failed"
    BY <1>0, <2>1 DEF VerdictInv, RunVerdictSound, FinishedStays, Finished
  <2>2. CASE run # "failed"
    <3>1. Verdict(status', UserJobs) = "failed"
      BY <1>3, <2>2, RunMoves DEF CancelStep
    <3> QED BY <3>1 DEF Verdict
  <2> QED BY <2>1, <2>2
<1> QED BY <1>1, <1>2, <1>3 DEF VerdictInv, RunVerdictSound

\* Where no gate stands behind a stage, every stage fails in turn.
LEMMA FirstGates ==
    ASSUME GatesFirst, OrderInv, NEW i \in Jobs, NEW st \in Finished, StageFails(i, st),
           i \in Gates \/ st = "canceled" \/ AheadClosed(StageOf[i])
    PROVE  AheadClosed(StageOf[i])
<1>1. \A s \in Stages : s \in Nat
  BY RunAssumption
<1>2. \A g \in Gates : StageOf[g] \in Stages
  BY RunAssumption
<1> QED BY <1>1, <1>2, FailsInTurn DEF GatesFirst, AheadClosed

\* Closed stages stay drained.
LEMMA DrainStep ==
    ASSUME TypeOK, GatesFirst, OrderInv, DrainInv, RowStep
    PROVE  DrainInv'
<1> SUFFICES ASSUME NEW j \in Jobs, stage'[StageOf[j]] \in Closed
             PROVE  \/ status'[j] \in Finished
                    \/ /\ stage'[StageOf[j]] = "canceled"
                       /\ status'[j] = "running" /\ stamp'[j]
  BY DEF DrainInv
<1> DEFINE s == StageOf[j]
<1>0. /\ s \in Stages /\ FinishedStays /\ ClosedStays /\ StageBarrier /\ status[j] \in JobStatus
      /\ stage[s] \in RowStatus
  BY StepKeepsClosed, RunAssumption DEF OrderInv, OrderHonoured, TypeOK
<1>1. CASE stage[s] \in Closed
  <2>1. CASE status[j] \in Finished
    BY <1>0, <2>1 DEF FinishedStays
  <2>2. CASE status[j] \notin Finished
    <3>1. stage'[s] = "canceled" /\ status[j] = "running" /\ stamp[j]
      BY <1>0, <1>1, <2>2 DEF DrainInv, ClosedStays
    <3>2. status'[j] \in Finished \/ status'[j] = "running"
      BY <3>1 DEF RowStep, EndStep, StageStays, StageCloses, StageFails, ClaimStep,
         TakeOverStep, RequeueStep, CancelStep, MarkStep, StillStep, Cancellable
    <3>3. status'[j] = "running" => stamp'[j]
      BY <3>1 DEF RowStep, EndStep, ClaimStep, TakeOverStep, RequeueStep, CancelStep, MarkStep,
         StillStep
    <3> QED BY <3>1, <3>2, <3>3
  <2> QED BY <2>1, <2>2
<1>2. CASE stage[s] \notin Closed /\ CancelStep
  <2>1. stage[s] = "queued" /\ s # NotifyStage /\ stage'[s] = "canceled" /\ j \in UserJobs
    BY <1>0, <1>2 DEF CancelStep, UserJobs
  <2>2. CASE status[j] = "running"
    BY <1>2, <2>1, <2>2 DEF CancelStep, Cancellable
  <2>3. CASE status[j] # "running"
    BY <1>0, <1>2, <2>1, <2>3 DEF CancelStep, Cancellable, JobStatus, Unfinished, Finished
  <2> QED BY <2>2, <2>3
<1>3. CASE stage[s] \notin Closed /\ ~CancelStep
  <2>1. PICK i \in Jobs, st \in Finished :
            /\ i \in Gates \/ st = "canceled" \/ AheadClosed(StageOf[i])
            /\ StageCloses(i, st) \/ StageFails(i, st)
    BY <1>0, <1>3 DEF RowStep, EndStep, StageStays, ClaimStep, TakeOverStep, RequeueStep,
       MarkStep, StillStep, Closed
  <2>2. CASE s = StageOf[i]
    BY <2>1, <2>2 DEF StageCloses, StageFails, JobsIn
  <2>3. CASE s # StageOf[i]
    <3>1. StageFails(i, st) /\ stage[s] = "queued" /\ s # NotifyStage /\ stage[StageOf[i]] \in Open
      BY <1>0, <1>3, <2>1, <2>3 DEF StageCloses, StageFails
    <3>2. StageOf[i] < s
      <4>1. AheadClosed(StageOf[i])
        BY <2>1, <3>1, FirstGates
      <4>2. ~(s < StageOf[i])
        BY <1>0, <1>3, <4>1 DEF AheadClosed
      <4>3. s \in Nat /\ StageOf[i] \in Nat
        BY <1>0, RunAssumption
      <4> QED BY <2>3, <4>2, <4>3
    <3>3. j \in UserJobs /\ StageOf[i] \in Stages
      BY <3>1, RunAssumption DEF UserJobs
    <3>4. status[j] # "running"
      BY <1>0, <3>1, <3>2, <3>3 DEF StageBarrier, Open
    <3> QED BY <1>0, <3>1, <3>3, <3>4 DEF StageFails, Cancellable, JobStatus, Unfinished, Finished
  <2> QED BY <2>2, <2>3
<1> QED BY <1>1, <1>2, <1>3

\* An open run keeps an open stage with a job to finish in it.
LEMMA WedgeStep ==
    ASSUME TypeOK, GatesFirst, OrderInv, WedgeInv, RowStep
    PROVE  WedgeInv'
<1> SUFFICES ASSUME run' \in Open
             PROVE  /\ \E s \in Stages : stage'[s] \in Open
                    /\ \A s \in Stages : stage'[s] \in Open =>
                          \E j \in JobsIn(s) : status'[j] \in Unfinished
  BY DEF WedgeInv, JobsIn
<1>0. /\ run \in Open /\ ~CancelStep /\ ClosedStays
      /\ \A k \in Jobs : StageOf[k] \in Stages
      /\ \A s \in Stages : s \in Nat /\ stage[s] \in RowStatus
  <2>1. Verdict(status', UserJobs) \notin Open
    BY VerdictType DEF Closed, Open
  <2> QED BY <2>1, RunMoves, StepKeepsClosed, RunAssumption DEF CancelStep, Open, TypeOK
<1>1. \E s \in Stages : stage'[s] \in Open
  <2>1. CASE stage' = stage
    BY <1>0, <2>1 DEF WedgeInv
  <2>2. CASE EndStep
    <3>1. Verdict(status', UserJobs) \notin Open
      BY VerdictType DEF Closed, Open
    <3> QED BY <1>0, <2>1, <2>2, <3>1 DEF EndStep, StageStays, RunRollsUp
  <2>3. CASE MarkStep
    BY <2>3 DEF MarkStep, Open
  <2>4. CASE TakeOverStep
    <3>1. PICK s \in Stages : stage[s] \in Open
      BY <1>0 DEF WedgeInv
    <3>2. stage'[s] \in Open
      BY <2>4, <3>1 DEF TakeOverStep, Open
    <3> QED BY <3>2
  <2> QED BY <1>0, <2>1, <2>2, <2>3, <2>4 DEF RowStep, ClaimStep, RequeueStep, StillStep
<1>2. ASSUME NEW s \in Stages, stage'[s] \in Open
      PROVE  \E j \in JobsIn(s) : status'[j] \in Unfinished
  <2>1. stage[s] \in Open
    BY <1>0, <1>2 DEF ClosedStays, RowStatus, Closed, Open
  <2>2. PICK j \in JobsIn(s) : status[j] \in Unfinished
    BY <1>0, <2>1 DEF WedgeInv
  <2>3. j \in Jobs /\ StageOf[j] = s
    BY DEF JobsIn
  <2>4. CASE status'[j] \in Unfinished
    BY <2>4
  <2>5. CASE ClaimStep \/ TakeOverStep \/ RequeueStep \/ MarkStep \/ StillStep
    <3>1. status'[j] \in Unfinished
      BY <2>2, <2>3, <2>5 DEF ClaimStep, TakeOverStep, RequeueStep, MarkStep, StillStep,
         Unfinished
    <3> QED BY <3>1
  <2>6. CASE EndStep
    <3>1. PICK i \in Jobs, st \in Finished :
              /\ i \in Gates \/ st = "canceled" \/ AheadClosed(StageOf[i])
              /\ StageStays(i, st) \/ StageCloses(i, st) \/ StageFails(i, st)
      BY <2>6 DEF EndStep
    <3>2. CASE s = StageOf[i]
      BY <1>2, <2>1, <3>1, <3>2 DEF StageStays, StageCloses, StageFails, Open
    <3>3. CASE s # StageOf[i] /\ ~StageFails(i, st)
      BY <2>2, <2>3, <3>1, <3>3 DEF StageStays, StageCloses
    <3>4. CASE s # StageOf[i] /\ StageFails(i, st)
      <4>1. stage[StageOf[i]] \in Open /\ StageOf[i] \in Stages /\ AheadClosed(StageOf[i])
        BY <1>0, <3>1, <3>4, FirstGates DEF StageFails
      <4>2. StageOf[i] < s
        BY <1>0, <2>1, <3>4, <4>1 DEF AheadClosed, Closed, Open
      <4>3. stage[s] # "running"
        BY <4>1, <4>2 DEF OrderInv, RunningInTurn, AheadClosed, Closed, Open
      <4>4. s = NotifyStage
        BY <1>2, <2>1, <3>4, <4>3 DEF StageFails, Open
      <4>5. status'[j] = status[j]
        BY <2>3, <3>4, <4>4 DEF StageFails, Cancellable, UserJobs
      <4> QED BY <2>2, <4>5
    <3> QED BY <3>2, <3>3, <3>4
  <2> QED BY <1>0, <2>5, <2>6 DEF RowStep
<1> QED BY <1>1, <1>2

\* Once the notification stage is in turn and nothing is canceled, the user
\* jobs have all finished.
LEMMA NotifyTurn ==
    ASSUME DrainInv, \A j \in Jobs : ~stamp[j], AheadClosed(NotifyStage),
           NotifyStage \in Stages
    PROVE  UserDone
<1> SUFFICES ASSUME NEW j \in UserJobs PROVE status[j] \in Finished
  BY DEF UserDone
<1>1. j \in Jobs /\ StageOf[j] \in Stages /\ StageOf[j] # NotifyStage
  BY RunAssumption DEF UserJobs
<1>2. NotifyStage # 0 /\ StageOf[j] \in Nat /\ NotifyStage \in Nat
  BY <1>1, RunAssumption
<1>3. StageOf[j] < NotifyStage
  BY <1>1, <1>2, RunAssumption
<1> QED BY <1>1, <1>3 DEF AheadClosed, DrainInv

\* The outcome of finished user jobs does not change.
LEMMA FitStays ==
    ASSUME FinishedStays, UserDone
    PROVE  UserDone' /\ OutcomeNow' = OutcomeNow
<1>1. \A j \in UserJobs : status'[j] = status[j] /\ status[j] \in Finished
  BY DEF FinishedStays, UserDone, UserJobs
<1>2. UserDone'
  BY <1>1 DEF UserDone
<1>3. /\ (\E j \in UserJobs : status'[j] = "failed") <=> (\E j \in UserJobs : status[j] = "failed")
      /\ (\E j \in UserJobs : status'[j] = "canceled")
           <=> (\E j \in UserJobs : status[j] = "canceled")
  BY <1>1
<1> QED BY <1>2, <1>3 DEF OutcomeNow

\* While nobody cancels, notifications keep fitting the outcome.
LEMMA NotifyStep ==
    ASSUME TypeOK, ClaimOK', OrderInv, DrainInv, NotifyInv, RowStep, TickStep,
           budget'.cancel # budget.cancel - 1
    PROVE  NotifyInv'
<1>0. /\ FinishedStays
      /\ \A n \in NotifyJobs : /\ n \in Jobs \ Native /\ StageOf[n] = NotifyStage
                                /\ StageOf[n] \in Stages
  BY StepKeepsClosed, RunAssumption DEF NotifyJobs, UserJobs
<1>1. \A j \in Jobs : ~stamp'[j]
  <2>1. CASE UNCHANGED stamp
    BY <2>1 DEF NotifyInv
  <2>2. CASE RequeueStep
    BY <2>2 DEF RequeueStep, NotifyInv
  <2> QED BY <2>1, <2>2 DEF RowStep, EndStep, ClaimStep, TakeOverStep, CancelStep, MarkStep,
          StillStep
<1>2. ASSUME NEW n \in NotifyJobs, n \in tick.cand
      PROVE  UserDone /\ UserOutcome = OutcomeNow
  <2>1. UserDone
    BY <1>0, <1>2, NotifyTurn DEF OrderInv, CandidatesInTurn, NotifyInv
  <2> QED BY <2>1 DEF UserOutcome, OutcomeNow, NotifyInv
<1>3. ASSUME tick'.uo # NoOutcome PROVE UserDone' /\ tick'.uo = OutcomeNow'
  <2>1. UserDone /\ tick'.uo = OutcomeNow
    BY <1>2, <1>3 DEF TickStep, NotifyInv
  <2> QED BY <1>0, <2>1, FitStays
<1>4. ASSUME NEW n \in NotifyJobs, FitsNow(n) PROVE FitsNow(n)'
  BY <1>0, <1>4, FitStays DEF FitsNow
<1>5. ASSUME tick'.pc = "claimed", tick'.job \in NotifyJobs PROVE FitsNow(tick.job)'
  <2>1. PICK n \in NotifyJobs : n = tick'.job
    BY <1>5
  <2>2. CASE tick.pc = "claimed" /\ tick.job = n
    BY <1>4, <2>1, <2>2 DEF NotifyInv, FitsNow
  <2>3. CASE n \in tick.cand /\ Ready(n)
    <3>1. NotificationTriggerMatches(Trigger[n], UserOutcome)
      BY <2>3 DEF Ready, TriggerMismatch
    <3>2. FitsNow(n)
      BY <1>2, <2>3, <3>1 DEF FitsNow
    <3>3. FitsNow(n)'
      BY <1>4, <3>2
    <3> QED BY <2>1, <3>3 DEF FitsNow
  <2> QED BY <1>5, <2>1, <2>2, <2>3 DEF TickStep
<1>6. ASSUME NEW n \in NotifyJobs, issued'[n] > 0 PROVE FitsNow(n)'
  <2>1. FitsNow(n)
    BY <1>0, <1>6 DEF TickStep, NotifyInv
  <2> QED BY <1>4, <2>1
<1> QED BY <1>1, <1>3, <1>5, <1>6 DEF NotifyInv

-----------------------------------------------------------------------------
(* The theorems                                                            *)

\* Everything above, under the hypotheses each part needs.
RunOrderInv ==
    /\ RunInv /\ BudgetInv
    /\ NoRerunYet =>
          /\ OrderInv /\ VerdictInv
          /\ GatesFirst => DrainInv
          /\ GatesFirst /\ NoEmptyStage => WedgeInv
          /\ GatesFirst /\ NoCancelYet => NotifyInv

\* A freshly inserted run satisfies it.
LEMMA RunOrderInit == Init => RunOrderInv
<1> SUFFICES ASSUME Init PROVE RunOrderInv
  OBVIOUS
<1>1. /\ run = "queued" /\ \A s \in Stages : stage[s] = "queued"
      /\ \A j \in Jobs : /\ status[j] \in {"queued", "awaiting_approval"}
                         /\ issued[j] = 0 /\ ~stamp[j] /\ StageOf[j] \in Stages
      /\ tick.pc = "idle" /\ tick.uo = NoOutcome
  BY RunAssumption DEF Init, IdleTick
<1>2. VerdictInv /\ DrainInv
  BY <1>1 DEF VerdictInv, ClosedOrFailed, RunVerdictSound, DrainInv, Closed
<1>3. NoEmptyStage => WedgeInv
  BY <1>1 DEF NoEmptyStage, WedgeInv, JobsIn, Open, Unfinished
<1>4. NotifyInv
  BY <1>1 DEF NotifyInv, NotifyJobs
<1> QED BY <1>2, <1>3, <1>4, InitInv, OrderInit DEF RunOrderInv

\* Every step keeps it.
LEMMA RunOrderNext == ASSUME RunOrderInv, Next PROVE RunOrderInv'
<1>0. RunInv /\ BudgetInv /\ TypeOK /\ ClaimOK /\ RunInv' /\ TypeOK' /\ ClaimOK' /\ TickStep
  BY NextInv, TickSteps DEF RunOrderInv, RunInv
<1>1. /\ BudgetInv'
      /\ NoRerunYet' => NoRerunYet /\ ~\E j \in Jobs : RerunJob(j)
      /\ NoCancelYet' => NoCancelYet /\ budget'.cancel # budget.cancel - 1
  BY <1>0, BudgetStep
<1>2. ASSUME NoRerunYet'
      PROVE  /\ OrderInv' /\ VerdictInv'
             /\ GatesFirst => DrainInv'
             /\ GatesFirst /\ NoEmptyStage => WedgeInv'
             /\ GatesFirst /\ NoCancelYet' => NotifyInv'
  <2>1. OrderInv /\ VerdictInv /\ RowStep
    BY <1>0, <1>1, <1>2, RowSteps DEF RunOrderInv
  <2>2. OrderInv' /\ VerdictInv'
    BY <1>0, <2>1, OrderStep, VerdictStep
  <2>3. GatesFirst => DrainInv'
    BY <1>0, <1>1, <1>2, <2>1, DrainStep DEF RunOrderInv
  <2>4. GatesFirst /\ NoEmptyStage => WedgeInv'
    BY <1>0, <1>1, <1>2, <2>1, WedgeStep DEF RunOrderInv
  <2>5. GatesFirst /\ NoCancelYet' => NotifyInv'
    BY <1>0, <1>1, <1>2, <2>1, NotifyStep DEF RunOrderInv
  <2> QED BY <2>2, <2>3, <2>4, <2>5
<1> QED BY <1>0, <1>1, <1>2 DEF RunOrderInv, GatesFirst, NoEmptyStage, JobsIn

\* A stuttering step keeps it.
LEMMA RunOrderStutter == ASSUME RunOrderInv, UNCHANGED vars PROVE RunOrderInv'
<1>1. RunInv'
  BY StutterInv DEF RunOrderInv
<1>2. UNCHANGED <<status, stage, run, stamp, tick, watches, issued, budget>>
  BY DEF vars
<1> QED BY <1>1, <1>2 DEF RunOrderInv, BudgetInv, NoRerunYet, NoCancelYet, OrderInv,
        CandidatesInTurn, ClaimInTurn, StartedInTurn, RunningInTurn, WatchedInTurn, AheadClosed,
        FailureCulls, SnapshotSound, ClaimNeedsMet, NeedsMet, OrderHonoured, StageBarrier, NeedsHonoured,
        VerdictInv, ClosedOrFailed, UserFailed, RunVerdictSound, DrainInv, WedgeInv, NotifyInv,
        UserDone, OutcomeNow, FitsNow, GatesFirst, NoEmptyStage, JobsIn

\* The inductive invariant holds in every reachable state of every run.
THEOREM RunOrderInvariant == Spec => []RunOrderInv
<1>1. RunOrderInv /\ [Next]_vars => RunOrderInv'
  BY RunOrderNext, RunOrderStutter
<1> QED BY <1>1, RunOrderInit, PTL DEF Spec

\* Until somebody asks for a rerun, nothing reaches an agent ahead of a stage or
\* of a job it waits for, although the scheduler decides on stale reads and
\* agents, reaper, users and restarts interleave with it at will.
THEOREM OrderIsHonoured == Spec => [](NoRerunYet => OrderHonoured)
<1>1. RunOrderInv => (NoRerunYet => OrderHonoured)
  BY DEF RunOrderInv, OrderInv
<1> QED BY <1>1, RunOrderInvariant, PTL

\* Until somebody asks for a rerun, a green run has only successful or skipped
\* user jobs and a red one has a failed user job, early gate decisions included.
THEOREM VerdictIsSound == Spec => [](NoRerunYet => RunVerdictSound)
<1>1. RunOrderInv => (NoRerunYet => RunVerdictSound)
  BY DEF RunOrderInv, VerdictInv
<1> QED BY <1>1, RunOrderInvariant, PTL

\* In a pipeline whose gates stand in its first stage, a closed stage has no job
\* left to run; what a cancel left running is stamped and ends canceled.
THEOREM ClosedStagesDrain ==
    GatesFirst => (Spec => [](NoRerunYet => ClosedStageIsDrained))
<1> SUFFICES ASSUME GatesFirst PROVE Spec => [](NoRerunYet => ClosedStageIsDrained)
  OBVIOUS
<1>1. RunOrderInv => (NoRerunYet => ClosedStageIsDrained)
  BY DEF RunOrderInv, DrainInv, ClosedStageIsDrained, Finished
<1> QED BY <1>1, RunOrderInvariant, PTL

\* Such a run, with a job in every stage, is never left open with nothing to do.
THEOREM RunsDoNotWedge ==
    GatesFirst /\ NoEmptyStage => (Spec => [](NoRerunYet => NoWedgedRun))
<1> SUFFICES ASSUME GatesFirst, NoEmptyStage PROVE Spec => [](NoRerunYet => NoWedgedRun)
  OBVIOUS
<1>1. RunOrderInv => (NoRerunYet => NoWedgedRun)
  <2> SUFFICES ASSUME RunOrderInv, NoRerunYet, \A j \in Jobs : status[j] \in Finished
               PROVE  run \in Closed
    BY DEF NoWedgedRun
  <2>1. WedgeInv /\ run \in RowStatus
    BY DEF RunOrderInv, RunInv, TypeOK
  <2>2. run \notin Open
    BY <2>1 DEF WedgeInv, JobsIn, Finished, Unfinished
  <2> QED BY <2>1, <2>2 DEF RowStatus
<1> QED BY <1>1, RunOrderInvariant, PTL

\* And until somebody cancels, every notification it hands to an agent fits how
\* the user stages ended, although the outcome is cached for a whole tick.
THEOREM NotificationsFit ==
    GatesFirst => (Spec => [](NoRerunYet => NotifyFitsOutcome))
<1> SUFFICES ASSUME GatesFirst PROVE Spec => [](NoRerunYet => NotifyFitsOutcome)
  OBVIOUS
<1>1. RunOrderInv => (NoRerunYet => NotifyFitsOutcome)
  BY DEF RunOrderInv, NoCancelYet, NotifyInv, FitsNow, UserDone, OutcomeNow, NotifyFitsOutcome
<1> QED BY <1>1, RunOrderInvariant, PTL
=============================================================================
