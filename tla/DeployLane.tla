------------------------------ MODULE DeployLane ------------------------------
(***************************************************************************)
(* The runs of one supersede lane, from the approval gates to the deploys: *)
(* the gate-pass markers a passed gate leaves, supersede of older pending  *)
(* runs, environment freezes, and the dispatch of a deploy under the lane  *)
(* lock and the freeze lock.                                               *)
(*                                                                         *)
(* A transaction that another actor can observe half-way because only an   *)
(* advisory lock protects it is split at that point: approve (locks taken, *)
(* decided, committed) and dispatch (guarded, freeze checked, claimed).    *)
(*                                                                         *)
(* Abstracted: stage_runs rows (a stage is open while one of its jobs is), *)
(* dispatch and execution of jobs without an environment, and the votes:   *)
(* an approval here is the one that completes the quorum (ApprovalGate).   *)
(***************************************************************************)
EXTENDS GateGraph

CONSTANTS
    LaneRuns,        \* run counters of the lane, oldest first
    LaneDef,         \* the definition all of them were created from
    Approvers,       \* users
    Dispatchers,     \* scheduler replicas
    Nobody,          \* a lock is free
    LaneBudget       \* bound: reruns, cancels, freezes and crashes together

LaneEnvs == {LaneDef.target[j] : j \in TargetJobs(LaneDef)}
LaneJobs == LaneDef.jobs
LaneGates == LaneDef.gates
\* The graph of the definition, once: GovernedEnvs, GovernedFreezeEnvs and
\* GoverningGates of every gate and environment.
Clears == [g \in LaneGates |-> GovernedEnvs(LaneDef, g)]
Thaws == [g \in LaneGates |-> GovernedFreezeEnvs(LaneDef, g)]
Guards == [e \in LaneEnvs |-> GoverningGates(LaneDef, e)]
Governors == [j \in TargetJobs(LaneDef) |-> GoverningGatesForJob(LaneDef, j)]
AfterStage == [s \in 1..LaneDef.stages |-> ReadyGateEnvsAfterStage(LaneDef, s)]
Live == {"queued", "awaiting", "running", "stopping"}
Settled == {"success", "failed", "canceled"}

ASSUME LaneAssumption ==
    /\ LaneRuns \subseteq Nat /\ IsFiniteSet(LaneRuns)
    /\ IsDefinition(LaneDef) /\ Accepted(LaneDef) /\ LaneGates \subseteq LaneJobs
    /\ \A j \in DeployJobs(LaneDef) : LaneDef.target[j] = LaneDef.deploy[j]
    /\ Nobody \notin Approvers \cup Dispatchers /\ Approvers \cap Dispatchers = {}
    /\ LaneBudget \in Nat

VARIABLES
    runSt,     \* runs.status ("active": queued or running; "none": not created)
    jobSt,     \* job_runs.status ("stopping": running, cancel requested)
    marks,     \* run_gate_pass rows, as <<run, environment>>
    frozen,    \* environment_freezes
    laneLock,  \* LaneEnvLockKey holder
    frzLock,   \* ProjectEnvFreezeLockKey holder
    appr,      \* the approve transaction of a user
    disp,      \* the deploy a dispatcher is working on
    rolled,    \* job_runs.deploy_rollback, as <<run, job>>
    handed,    \* deploys an agent received, as <<run, job>>
    reran,     \* history: runs somebody reran a job of
    revived,   \* history: runs revived while the lane lock was held
    laneLeft   \* what is left of LaneBudget

laneVars == <<runSt, jobSt, marks, frozen, laneLock, frzLock,
              appr, disp, rolled, handed, reran, revived, laneLeft>>
lockVars == <<laneLock, frzLock, revived>>
actorVars == <<appr, disp>>

NoApproval == [pc |-> "idle", run |-> 0, gate |-> NoEnv, envs |-> {}]
NoDispatch == [pc |-> "idle", run |-> 0, job |-> NoEnv, roll |-> FALSE]

LaneTypeOK ==
    /\ runSt \in [LaneRuns -> {"none", "active"} \cup Settled]
    /\ jobSt \in [LaneRuns -> [LaneJobs -> Live \cup Settled]]
    /\ marks \subseteq LaneRuns \X LaneEnvs
    /\ frozen \subseteq LaneEnvs
    /\ laneLock \in [LaneEnvs -> Approvers \cup Dispatchers \cup {Nobody}]
    /\ frzLock \in [LaneEnvs -> Approvers \cup Dispatchers \cup {Nobody}]
    /\ \A u \in Approvers : appr[u].pc \in {"idle", "locked", "decided"}
    /\ \A d \in Dispatchers :
           disp[d].pc \in {"idle", "guarded", "checked", "claimed"}
    /\ rolled \subseteq LaneRuns \X LaneJobs
    /\ handed \subseteq LaneRuns \X LaneJobs
    /\ reran \subseteq LaneRuns
    /\ revived \in [LaneEnvs -> SUBSET LaneRuns]
    /\ laneLeft \in 0..LaneBudget

LaneInit ==
    /\ runSt = [r \in LaneRuns |-> "none"]
    /\ jobSt = [r \in LaneRuns |-> [j \in LaneJobs |-> "canceled"]]
    /\ marks = {} /\ frozen = {} /\ rolled = {} /\ handed = {} /\ reran = {}
    /\ laneLock = [e \in LaneEnvs |-> Nobody]
    /\ frzLock = [e \in LaneEnvs |-> Nobody]
    /\ appr = [u \in Approvers |-> NoApproval]
    /\ disp = [d \in Dispatchers |-> NoDispatch]
    /\ revived = [e \in LaneEnvs |-> {}]
    /\ laneLeft = LaneBudget

Spend == laneLeft > 0 /\ laneLeft' = laneLeft - 1

-----------------------------------------------------------------------------
(* Rows: the rollup and the terminalizer of a superseded run               *)

InStage(s) == {j \in LaneJobs : LaneDef.stage[j] = s}

\* CancelQueuedJobsInRun, then StampCancelRequestedAtForRun.
CanceledJobs(js) ==
    [j \in LaneJobs |-> IF js[j] \in {"queued", "awaiting"} THEN "canceled"
                        ELSE IF js[j] = "running" THEN "stopping" ELSE js[j]]

\* Mutant of RollUp: a failed stage leaves the later ones queued.
RollUpKeepsTail(js, rs, s) ==
    LET closed == \A j \in InStage(s) : js[j] \notin Live
        ended == closed /\ rs = "active" /\ \A j \in LaneJobs : js[j] \notin Live
    IN [jobs |-> js,
        run |-> IF ~ended THEN rs
                ELSE IF \E j \in LaneJobs : js[j] = "failed" THEN "failed"
                ELSE IF \E j \in LaneJobs : js[j] = "canceled" THEN "canceled"
                ELSE "success",
        won |-> closed /\ \A j \in InStage(s) : js[j] = "success"]

\* cascadeAfterJobCompletion for the last job of a stage: a failure cancels
\* what is queued or parked, and the run ends with its last job.
RollUp(js, rs, s) ==
    LET closed == \A j \in InStage(s) : js[j] \notin Live
        has(st, J) == \E j \in J : js[j] = st
        jobs == IF closed /\ has("failed", InStage(s))
                THEN [j \in LaneJobs |-> IF js[j] \in {"queued", "awaiting"}
                                         THEN "canceled" ELSE js[j]]
                ELSE js
        ended == closed /\ rs = "active" /\ \A j \in LaneJobs : jobs[j] \notin Live
    IN [jobs |-> jobs,
        run |-> IF ~ended THEN rs
                ELSE IF \E j \in LaneJobs : jobs[j] = "failed" THEN "failed"
                ELSE IF \E j \in LaneJobs : jobs[j] = "canceled" THEN "canceled"
                ELSE "success",
        won |-> closed /\ \A j \in InStage(s) : js[j] = "success"]

\* envSetsIntersect: an empty set means the whole run.
EnvSetsIntersect(A, B) == A = {} \/ B = {} \/ A \cap B # {}

PendingGates(js) == {g \in LaneGates : js[g] = "awaiting"}
\* The gate rows of run r that an approve transaction holds FOR UPDATE.
LockedRows(r) ==
    {appr[u].gate : u \in {w \in Approvers : appr[w].pc = "decided" /\ appr[w].run = r}}

\* supersedeLaneSiblings and the revalidation of supersedeOne: older, active,
\* parked at a gate that clears one of the environments.  A victim whose gate
\* an approve transaction holds runs into the lock timeout and is skipped.
Victims(q, scope) ==
    {v \in LaneRuns :
        /\ scope.ready /\ v < q
        /\ runSt[v] = "active" /\ LockedRows(v) = {}
        /\ PendingGates(jobSt[v]) # {}
        /\ EnvSetsIntersect(scope.envs,
                UNION {Clears[g] : g \in PendingGates(jobSt[v])})}

\* Store run r's rows; any of the victims may be skipped under contention.
Store(r, js, rs, scope) ==
    \E S \in SUBSET Victims(r, scope) :
        /\ runSt' = [q \in LaneRuns |-> IF q = r THEN rs
                                        ELSE IF q \in S THEN "canceled" ELSE runSt[q]]
        /\ jobSt' = [q \in LaneRuns |-> IF q = r THEN js
                                        ELSE IF q \in S THEN CanceledJobs(jobSt[q])
                                        ELSE jobSt[q]]

NoScope == [ready |-> FALSE, envs |-> {}]

\* Finish job j of run r, roll up, and fire supersede (supersedeAfterCascade)
\* when the completed stage made a gate reachable.  Cancelling a gate waits
\* for the approve transaction that holds its row.
Finishes(r, j, st) ==
    LET s == LaneDef.stage[j]
        c == RollUp([jobSt[r] EXCEPT ![j] = st], runSt[r], s)
    IN /\ \A g \in LockedRows(r) \ {j} : c.jobs[g] = jobSt[r][g]
       /\ Store(r, c.jobs, c.run,
                IF c.won THEN AfterStage[s] ELSE NoScope)

-----------------------------------------------------------------------------
(* Runs, builds, users and operators                                       *)

\* insertRunRowsTx with the creation fire of supersede.
CreateLaneRun(r) ==
    /\ runSt[r] = "none"
    /\ \A q \in LaneRuns : q < r => runSt[q] # "none"
    /\ Store(r, [j \in LaneJobs |-> IF j \in LaneGates THEN "awaiting" ELSE "queued"],
             "active", ReadyGateEnvsAtStart(LaneDef))
    /\ UNCHANGED <<marks, frozen, lockVars, actorVars, rolled, reran,
                   handed, laneLeft>>

StageReached(r, j) ==
    /\ \A k \in LaneJobs : LaneDef.stage[k] < LaneDef.stage[j] => jobSt[r][k] \notin Live
    /\ \A k \in LaneDef.needs[j] : jobSt[r][k] = "success"

\* A job without an environment runs to its end.
BuildJob(r, j, out) ==
    /\ runSt[r] # "none"
    /\ jobSt[r][j] = "queued"
    /\ j \notin LaneGates \cup TargetJobs(LaneDef)
    /\ StageReached(r, j)
    /\ Finishes(r, j, out)
    /\ UNCHANGED <<marks, frozen, lockVars, actorVars, rolled, reran,
                   handed, laneLeft>>

\* CancelRun by a user; it waits for a gate row an approval has locked.
CancelLaneRun(r) ==
    /\ runSt[r] = "active" /\ LockedRows(r) = {}
    /\ Spend
    /\ runSt' = [runSt EXCEPT ![r] = "canceled"]
    /\ jobSt' = [jobSt EXCEPT ![r] = CanceledJobs(@)]
    /\ UNCHANGED <<marks, frozen, lockVars, actorVars, rolled, reran, handed>>

Freeze(e) ==
    /\ e \notin frozen
    /\ frzLock[e] = Nobody
    /\ Spend
    /\ frozen' = frozen \cup {e}
    /\ UNCHANGED <<runSt, jobSt, marks, lockVars, actorVars,
                   rolled, reran, handed>>

Unfreeze(e) ==
    /\ e \in frozen
    /\ frzLock[e] = Nobody
    /\ frozen' = frozen \ {e}
    /\ UNCHANGED <<runSt, jobSt, marks, lockVars, actorVars,
                   rolled, reran, handed, laneLeft>>

Later(r, j) == {k \in LaneJobs : LaneDef.stage[k] > LaneDef.stage[j]
                                 /\ jobSt[r][k] = "canceled"}

\* rerunJobTx: queue j again, revive what a system cancel left behind later in
\* the run, arm its gates anew, and drop the markers those gates had earned.
\* deploy_rollback is set for j only; a revived job keeps the flag it has.
Rerun(r, j, roll) ==
    LET G == Later(r, j) \cap LaneGates
        js == [k \in LaneJobs |-> IF k = j \/ k \in Later(r, j) \ G THEN "queued"
                                  ELSE IF k \in G THEN "awaiting" ELSE jobSt[r][k]]
        undone == UNION {Clears[g] : g \in PendingGates(js)}
    IN /\ j \notin LaneGates
       /\ jobSt[r][j] \in Settled /\ runSt[r] # "none"
       /\ Spend
       /\ jobSt' = [jobSt EXCEPT ![r] = js]
       /\ runSt' = [runSt EXCEPT ![r] = "active"]
       /\ marks' = {m \in marks : m[1] # r \/ m[2] \notin undone}
       /\ rolled' = IF roll THEN rolled \cup {<<r, j>>} ELSE rolled \ {<<r, j>>}
       /\ handed' = handed \ {<<r, j>>}
       /\ reran' = reran \cup {r}
       /\ revived' = [e \in LaneEnvs |-> IF laneLock[e] # Nobody
                                         THEN revived[e] \cup {r} ELSE revived[e]]
       /\ UNCHANGED <<frozen, laneLock, frzLock, actorVars>>

RerunLaneJob(r, j) == Rerun(r, j, FALSE)

\* RollbackToRevision: a deploy that succeeded is run again unless its
\* environment is frozen, which is checked under the freeze lock.
RollbackToRevision(r, j) ==
    /\ j \in DeployJobs(LaneDef) /\ jobSt[r][j] = "success"
    /\ frzLock[LaneDef.deploy[j]] = Nobody
    /\ LaneDef.deploy[j] \notin frozen
    /\ Rerun(r, j, TRUE)

-----------------------------------------------------------------------------
(* decideGate                                                              *)

Unlock(lock, who) == [e \in LaneEnvs |-> IF lock[e] = who THEN Nobody ELSE lock[e]]
Release(who) ==
    /\ laneLock' = Unlock(laneLock, who)
    /\ frzLock' = Unlock(frzLock, who)
    /\ revived' = [e \in LaneEnvs |-> IF laneLock[e] = who THEN {} ELSE revived[e]]

LaneEnvsOf(g) == Clears[g]

\* The unlocked read of the gate, then lockApprovalEnvs: lane locks of the
\* deploys the gate clears, freeze locks of everything it clears.
ApproveLock(u, r, g) ==
    LET F == Thaws[g]
    IN /\ appr[u].pc = "idle"
       /\ runSt[r] # "none" /\ jobSt[r][g] = "awaiting"
       /\ \A e \in LaneEnvsOf(g) : laneLock[e] = Nobody
       /\ \A e \in F : frzLock[e] = Nobody
       /\ laneLock' = [e \in LaneEnvs |-> IF e \in LaneEnvsOf(g) THEN u ELSE laneLock[e]]
       /\ frzLock' = [e \in LaneEnvs |-> IF e \in F THEN u ELSE frzLock[e]]
       /\ appr' = [appr EXCEPT ![u] = [pc |-> "locked", run |-> r, gate |-> g, envs |-> {}]]
       /\ UNCHANGED <<runSt, jobSt, marks, frozen, disp, rolled, reran,
                      handed, revived, laneLeft>>

\* Mutant of Cleared: one passed governing gate is enough.
ClearedByAny(r, g) == Clears[g]

\* writeGatePassMarkers: the environments whose governing gates have now all
\* passed, as read at this point of the transaction.
Cleared(r, g) ==
    {e \in Clears[g] :
        \A h \in Guards[e] \ {g} : jobSt[r][h] = "success"}

\* Revalidation under the row lock and the freeze check.
ApproveDecide(u) ==
    LET r == appr[u].run
        g == appr[u].gate
        refused == \/ jobSt[r][g] # "awaiting"
                   \/ Thaws[g] \cap frozen # {}
    IN /\ appr[u].pc = "locked"
       /\ g \notin LockedRows(r)
       /\ \/ /\ refused
             /\ appr' = [appr EXCEPT ![u] = NoApproval]
             /\ Release(u)
          \/ /\ ~refused
             /\ appr' = [appr EXCEPT ![u].pc = "decided", ![u].envs = Cleared(r, g)]
             /\ UNCHANGED lockVars
       /\ UNCHANGED <<runSt, jobSt, marks, frozen, disp, rolled, reran, handed, laneLeft>>

\* The flip, the markers, the rollup and the supersede fire become visible.
ApproveCommit(u) ==
    LET r == appr[u].run
        g == appr[u].gate
    IN /\ appr[u].pc = "decided"
       /\ marks' = marks \cup ({r} \X appr[u].envs)
       /\ Finishes(r, g, "success")
       /\ appr' = [appr EXCEPT ![u] = NoApproval]
       /\ Release(u)
       /\ UNCHANGED <<frozen, disp, rolled, reran, handed, laneLeft>>

\* A rejection needs neither lock nor quorum and works in a frozen environment.
RejectGate(r, g) ==
    /\ runSt[r] # "none" /\ jobSt[r][g] = "awaiting"
    /\ g \notin LockedRows(r)
    /\ Finishes(r, g, "failed")
    /\ UNCHANGED <<marks, frozen, lockVars, actorVars, rolled, reran,
                   handed, laneLeft>>

-----------------------------------------------------------------------------
(* Dispatch of a job that targets an environment                           *)

\* Mutant of NewerGatePass: only the runs that are still active count.
NewerGatePassActive(r, e) ==
    \E q \in LaneRuns : q > r /\ <<q, e>> \in marks /\ runSt[q] = "active"

\* newerGatePassExists
NewerGatePass(r, e) ==
    \E q \in LaneRuns : q > r /\ <<q, e>> \in marks /\ runSt[q] # "canceled"

\* A ready job that targets an environment, up to the outcome of
\* beginDeployGuard.  The freeze pre-scan before it saves work and fails open,
\* so it constrains nothing.  A rollback and a migration pass unguarded;
\* otherwise the lane lock is tried, and kept only if no newer run was cleared
\* (busy or blocked leaves the job queued for a later tick).
BeginDeployGuard(d, r, j) ==
    LET e == LaneDef.target[j]
        roll == <<r, j>> \in rolled
        guarded == j \in DeployJobs(LaneDef) /\ ~roll
    IN /\ disp[d].pc = "idle"
       /\ runSt[r] # "none" /\ jobSt[r][j] = "queued"
       /\ j \in TargetJobs(LaneDef) /\ StageReached(r, j)
       /\ guarded => laneLock[e] = Nobody /\ ~NewerGatePass(r, e)
       /\ laneLock' = IF guarded THEN [laneLock EXCEPT ![e] = d] ELSE laneLock
       /\ disp' = [disp EXCEPT ![d] = [pc |-> "guarded", run |-> r, job |-> j,
                                       roll |-> roll]]
       /\ UNCHANGED <<runSt, jobSt, marks, frozen, frzLock, appr,
                      rolled, reran, handed, revived, laneLeft>>

\* Mutant of AdmitCheck: the admission trusts the pre-scan.
AdmitUnchecked(d) ==
    /\ disp[d].pc = "guarded"
    /\ disp' = [disp EXCEPT ![d].pc = "checked"]
    /\ UNCHANGED <<runSt, jobSt, marks, frozen, lockVars, appr,
                   rolled, reran, handed, laneLeft>>

\* admitJobIfEnvNotFrozen: the freeze lock and the freeze re-read under it.
AdmitCheck(d) ==
    LET e == LaneDef.target[disp[d].job]
    IN /\ disp[d].pc = "guarded"
       /\ frzLock[e] = Nobody
       /\ \/ /\ e \in frozen
             /\ disp' = [disp EXCEPT ![d] = NoDispatch]
             /\ Release(d)
          \/ /\ e \notin frozen
             /\ disp' = [disp EXCEPT ![d].pc = "checked"]
             /\ frzLock' = [frzLock EXCEPT ![e] = d]
             /\ UNCHANGED <<laneLock, revived>>
       /\ UNCHANGED <<runSt, jobSt, marks, frozen, appr, rolled, reran,
                      handed, laneLeft>>

\* The compare-and-set of AssignJob, won or lost, and the commit.
AdmitCommit(d) ==
    LET r == disp[d].run
        j == disp[d].job
    IN /\ disp[d].pc = "checked"
       /\ \/ /\ jobSt[r][j] = "queued"
             /\ jobSt' = [jobSt EXCEPT ![r][j] = "running"]
             /\ disp' = [disp EXCEPT ![d].pc = "claimed"]
             /\ frzLock' = Unlock(frzLock, d)
             /\ UNCHANGED <<laneLock, revived>>
          \/ /\ jobSt[r][j] # "queued"
             /\ disp' = [disp EXCEPT ![d] = NoDispatch]
             /\ Release(d)
             /\ UNCHANGED jobSt
       /\ UNCHANGED <<runSt, marks, frozen, appr, rolled, reran, handed,
                      laneLeft>>

\* createDeployRevision and DispatchAssignment, then the lane lock is dropped.
HandOver(d) ==
    /\ disp[d].pc = "claimed"
    /\ handed' = handed \cup {<<disp[d].run, disp[d].job>>}
    /\ disp' = [disp EXCEPT ![d] = NoDispatch]
    /\ Release(d)
    /\ UNCHANGED <<runSt, jobSt, marks, frozen, appr, rolled, reran, laneLeft>>

\* The row goes back to queued, or ends canceled when a cancel is pending.
PutBack(r, j) ==
    \/ /\ jobSt[r][j] = "running"
       /\ jobSt' = [jobSt EXCEPT ![r][j] = "queued"]
       /\ UNCHANGED runSt
    \/ jobSt[r][j] = "stopping" /\ Finishes(r, j, "canceled")

\* rollbackUndispatchedAssignment: no revision or no session.
UndoDispatch(d) ==
    /\ disp[d].pc = "claimed"
    /\ PutBack(disp[d].run, disp[d].job)
    /\ disp' = [disp EXCEPT ![d] = NoDispatch]
    /\ Release(d)
    /\ UNCHANGED <<marks, frozen, appr, rolled, reran, handed, laneLeft>>

\* The replica dies: its connections close and its locks with them.
DispatcherDies(d) ==
    /\ disp[d].pc # "idle"
    /\ Spend
    /\ disp' = [disp EXCEPT ![d] = NoDispatch]
    /\ Release(d)
    /\ UNCHANGED <<runSt, jobSt, marks, frozen, appr, rolled, reran, handed>>

\* The reaper requeues a claim whose agent never received it.
ReclaimDeploy(r, j) ==
    /\ j \in TargetJobs(LaneDef) /\ runSt[r] # "none"
    /\ <<r, j>> \notin handed
    /\ ~\E d \in Dispatchers : disp[d].pc = "claimed" /\ disp[d].run = r
                               /\ disp[d].job = j
    /\ PutBack(r, j)
    /\ UNCHANGED <<marks, frozen, lockVars, actorVars, rolled, reran,
                   handed, laneLeft>>

\* The agent's result; a requested cancel wins.
DeployResult(r, j, out) ==
    /\ <<r, j>> \in handed
    /\ jobSt[r][j] \in {"running", "stopping"}
    /\ Finishes(r, j, IF jobSt[r][j] = "stopping" THEN "canceled" ELSE out)
    /\ UNCHANGED <<marks, frozen, lockVars, actorVars, rolled, reran,
                   handed, laneLeft>>

LaneNext ==
    \/ \E r \in LaneRuns :
        \/ CreateLaneRun(r) \/ CancelLaneRun(r)
        \/ \E j \in LaneJobs :
            \/ RerunLaneJob(r, j) \/ RollbackToRevision(r, j) \/ ReclaimDeploy(r, j)
            \/ \E out \in {"success", "failed"} : BuildJob(r, j, out) \/ DeployResult(r, j, out)
            \/ \E d \in Dispatchers : BeginDeployGuard(d, r, j)
        \/ \E g \in LaneGates :
            \/ RejectGate(r, g)
            \/ \E u \in Approvers : ApproveLock(u, r, g)
    \/ \E u \in Approvers : ApproveDecide(u) \/ ApproveCommit(u)
    \/ \E e \in LaneEnvs : Freeze(e) \/ Unfreeze(e)
    \/ \E d \in Dispatchers :
        \/ AdmitCheck(d) \/ AdmitCommit(d)
        \/ HandOver(d) \/ UndoDispatch(d) \/ DispatcherDies(d)

LaneSpec == LaneInit /\ [][LaneNext]_laneVars

-----------------------------------------------------------------------------
(* Properties                                                              *)

\* Whatever is cleared is marked, exactly: an environment has a gate-pass row
\* for a run iff all the gates governing it have passed, also when the gates
\* of one environment are approved concurrently or re-armed by a rerun.
MarkersMatchGates ==
    \A r \in LaneRuns : runSt[r] # "none" =>
        \A j \in DeployJobs(LaneDef) :
            LET G == Guards[LaneDef.deploy[j]]
            IN G # {} => (<<r, LaneDef.deploy[j]>> \in marks
                            <=> \A g \in G : jobSt[r][g] = "success")

\* The backstop of #97: when a deploy is handed to an agent no newer run that
\* counts has been cleared for its environment, however approvals, supersede
\* and cancels interleave with the dispatch.  A rollback is exempt, and so is
\* a newer run that a rerun revived while the lane lock was already held:
\* RerunJob does not take that lock.
NoStaleDeploy ==
    [][\A d \in Dispatchers :
          disp[d].pc = "claimed" /\ <<disp[d].run, disp[d].job>> \in handed' \ handed
          /\ ~disp[d].roll /\ disp[d].job \in DeployJobs(LaneDef) =>
            LET e == LaneDef.deploy[disp[d].job]
            IN \A q \in LaneRuns : q > disp[d].run /\ <<q, e>> \in marks =>
                    runSt[q] = "canceled" \/ q \in revived[e]]_laneVars

\* While an environment is frozen nothing that targets it is admitted and no
\* gate that clears it passes: the freeze takes effect at once for every
\* transaction that had not committed.
FrozenAdmitsNothing ==
    [][\A r \in LaneRuns, j \in LaneJobs :
          /\ jobSt[r][j] = "queued" /\ jobSt'[r][j] = "running"
             => LaneDef.target[j] \notin frozen
          /\ jobSt[r][j] = "awaiting" /\ jobSt'[r][j] = "success"
             => Thaws[j] \cap frozen = {}]_laneVars

\* Nothing that targets an environment starts before every gate that governs
\* it has passed: gates rejected, canceled, superseded or approved early, stages
\* closed in any order and claims put back leave no way around a gate.  Somebody
\* who reruns a job queues it whatever became of the gates before it: such a run
\* is exempt.
GatesBeforeDeploys ==
    \A r \in LaneRuns \ reran, j \in TargetJobs(LaneDef) :
        jobSt[r][j] \in {"running", "stopping", "success"} =>
            \A g \in Governors[j] : jobSt[r][g] = "success"
=============================================================================
