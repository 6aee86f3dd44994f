---------------------------- MODULE RunLifecycle ----------------------------
(***************************************************************************)
(* One pipeline run inside the control plane: its job_runs, stage_runs and *)
(* runs rows, and every transaction that moves them.                       *)
(*                                                                         *)
(* Three kinds of actor interleave on these rows.  The scheduler walks     *)
(* dispatchRun one statement at a time and works from reads that are stale *)
(* by the time it acts on them.  Agents report results for the assignments *)
(* they accepted, possibly long after the row moved on.  A native deploy   *)
(* has no agent: the server takes the job over and a deploy watch answers  *)
(* for it.  The reaper, the register fence, users, the approval expirer    *)
(* and lane supersede run transactions of their own at any moment.  A      *)
(* transaction is one step; everything between two transactions may be     *)
(* interleaved.                                                            *)
(*                                                                         *)
(* Abstracted here: agent sessions and heartbeats (module AgentSessions;   *)
(* what is left of them is whether an agent is away), the serial gate      *)
(* (module SerialPipeline), the rollout behind a watch (RolloutWatch),     *)
(* environment freezes, payloads (logs, artifacts, outputs).               *)
(***************************************************************************)
EXTENDS Integers, FiniteSets

CONSTANTS
    Stages,        \* stage ordinals of the run
    NotifyStage,   \* ordinal of the synthetic _notifications stage (0: none)
    Jobs,          \* job_runs of the run
    StageOf,       \* the stage of a job
    Needs,         \* the jobs a job lists under needs:
    Trigger,       \* the on: trigger of a notification job
    Gates,         \* the approval-gate jobs
    RetryUnsafe,   \* jobs whose target environment forbids an automatic retry
    Native,        \* deploy jobs of environments that may have a registered target
    Agents,        \* agent ids
    NoAgent,       \* agent_id IS NULL
    NoJob,         \* no job is being dispatched
    MaxAttempts,   \* cap of automatic retries (reaper, fence, disruption)
    MaxReruns,     \* bound: RerunJob requests
    MaxCancels,    \* bound: cancel requests (job, run, expiry, supersede)
    MaxReclaims,   \* bound: reclaim snapshots held at the same time
    MaxLosses      \* bound: executions lost or disrupted by the platform

Unfinished == {"queued", "running", "awaiting_approval"}
Finished == {"success", "failed", "canceled", "skipped"}
JobStatus == Unfinished \cup Finished
Open == {"queued", "running"}
Closed == {"success", "failed", "canceled"}
RowStatus == Open \cup Closed
\* cancel_origin as RerunJob tells origins apart: a deliberate single-job cancel
\* (user_job) against every other one (user_run, dependency, supersede,
\* merge_group, approval expiry), which it may revive.
Origins == {"none", "user_job", "system"}
Triggers == {"always", "failure", "canceled", "success"}

\* What needsSatisfied may read of an upstream is a status; a notification
\* reads the aggregate [failed, canceled] of the user stages.
Outcomes == [failed : BOOLEAN, canceled : BOOLEAN]
NoOutcome == [failed |-> FALSE, canceled |-> FALSE, unread |-> TRUE]

Execution == [job : Jobs, agent : Agents, attempt : Nat]
Snapshot == [job : Jobs, agent : Agents \cup {NoAgent}, attempt : Nat]
Watch == [job : Native, attempt : Nat]

ASSUME RunAssumption ==
    /\ Stages \subseteq Nat \ {0} /\ IsFiniteSet(Stages)
    /\ NotifyStage \in Stages \cup {0}
    /\ NotifyStage = 0 \/ \A s \in Stages : s <= NotifyStage
    /\ StageOf \in [Jobs -> Stages]
    /\ Needs \in [Jobs -> SUBSET Jobs]
    /\ Trigger \in [Jobs -> Triggers]
    /\ Gates \subseteq Jobs
    /\ RetryUnsafe \subseteq Jobs
    /\ Native \subseteq Jobs \ Gates
    /\ \A j \in Gates \cup Native : StageOf[j] # NotifyStage
    /\ NoAgent \notin Agents
    /\ NoJob \notin Jobs
    /\ {MaxAttempts, MaxReruns, MaxCancels, MaxReclaims, MaxLosses} \subseteq Nat

VARIABLES
    status,    \* job_runs.status
    agent,     \* job_runs.agent_id
    attempt,   \* job_runs.attempt
    stamp,     \* job_runs.cancel_requested_at IS NOT NULL
    origin,    \* job_runs.cancel_origin
    stage,     \* stage_runs.status
    run,       \* runs.status
    due,       \* the run is in the scheduler's work list (NOTIFY or drain)
    tick,      \* the local state of the scheduler inside dispatchRun
    execs,     \* assignments accepted by an agent session, not yet answered
    reap,      \* (job, agent, attempt) snapshots held by a reclaimer
    away,      \* agents without a session: offline, or silent for too long
    watches,   \* deploy_watches, by the job and attempt of their revision
    deleted,   \* history: watches that vanished by hand
    issued,    \* history: times a job was handed to an agent or taken over
    rearmed,   \* history: human requests that queued a job again
    budget     \* requests and losses left to happen

rows == <<status, agent, attempt, stamp, origin, stage, run>>
deploys == <<watches, deleted>>
vars == <<status, agent, attempt, stamp, origin, stage, run, due, tick,
          execs, reap, away, watches, deleted, issued, rearmed, budget>>

JobsIn(s) == {j \in Jobs : StageOf[j] = s}
UserJobs == {j \in Jobs : StageOf[j] # NotifyStage}
NotifyJobs == Jobs \ UserJobs
Downstream(j) == {k \in Jobs : StageOf[k] > StageOf[j]}

\* The locals of dispatchRun: the candidates not yet considered, the attempts
\* the list returned, the status snapshot, the cached user outcome, the claim
\* in hand and whether anything was handed over in this tick.
Tick == [pc : {"idle", "listed", "loop", "claimed", "sent"},
         cand : SUBSET Jobs, seen : [Jobs -> Nat],
         snap : [Jobs -> JobStatus], uo : Outcomes \cup {NoOutcome},
         job : Jobs \cup {NoJob}, agent : Agents \cup {NoAgent},
         attempt : Nat, sent : BOOLEAN]
IdleTick ==
    [pc |-> "idle", cand |-> {}, seen |-> [j \in Jobs |-> 0],
     snap |-> [j \in Jobs |-> "queued"], uo |-> NoOutcome,
     job |-> NoJob, agent |-> NoAgent, attempt |-> 0, sent |-> FALSE]

TypeOK ==
    /\ status \in [Jobs -> JobStatus]
    /\ agent \in [Jobs -> Agents \cup {NoAgent}]
    /\ attempt \in [Jobs -> Nat]
    /\ stamp \in [Jobs -> BOOLEAN]
    /\ origin \in [Jobs -> Origins]
    /\ stage \in [Stages -> RowStatus]
    /\ run \in RowStatus
    /\ due \in BOOLEAN
    /\ tick \in Tick
    /\ execs \subseteq Execution
    /\ reap \subseteq Snapshot
    /\ away \subseteq Agents
    /\ watches \subseteq Watch
    /\ deleted \subseteq Watch
    /\ issued \in [Jobs -> Nat]
    /\ rearmed \in [Jobs -> Nat]
    /\ budget \in [rerun : Nat, cancel : Nat, loss : Nat]

\* insertRunRowsTx: every stage and job is inserted queued, gates are parked
\* in awaiting_approval, and the run is announced on the run_queued channel.
Init ==
    /\ status = [j \in Jobs |->
                    IF j \in Gates THEN "awaiting_approval" ELSE "queued"]
    /\ agent = [j \in Jobs |-> NoAgent]
    /\ attempt = [j \in Jobs |-> 0]
    /\ stamp = [j \in Jobs |-> FALSE]
    /\ origin = [j \in Jobs |-> "none"]
    /\ stage = [s \in Stages |-> "queued"]
    /\ run = "queued"
    /\ due = TRUE
    /\ tick = IdleTick
    /\ execs = {}
    /\ reap = {}
    /\ away = {}
    /\ watches = {}
    /\ deleted = {}
    /\ issued = [j \in Jobs |-> 0]
    /\ rearmed = [j \in Jobs |-> 0]
    /\ budget = [rerun |-> MaxReruns, cancel |-> MaxCancels, loss |-> MaxLosses]

-----------------------------------------------------------------------------
(* The stage and run rollup shared by every transaction that finishes a job *)

\* Mutant of StageFinished: only what is running holds a stage open.
StageIdle(js, s) == \A j \in JobsIn(s) : js[j] # "running"

StageFinished(js, s) == \A j \in JobsIn(s) : js[j] \notin Unfinished

\* Mutant of Verdict: a stage of skipped jobs counts as skipped.
VerdictSkipped(js, J) ==
    IF \E j \in J : js[j] = "failed" THEN "failed"
    ELSE IF \E j \in J : js[j] = "canceled" THEN "canceled"
    ELSE IF \A j \in J : js[j] = "skipped" THEN "skipped"
    ELSE "success"

\* Mutant of Verdict: canceled jobs do not count.
VerdictIgnoresCanceled(js, J) ==
    IF \E j \in J : js[j] = "failed" THEN "failed" ELSE "success"

Verdict(js, J) ==
    IF \E j \in J : js[j] = "failed" THEN "failed"
    ELSE IF \E j \in J : js[j] = "canceled" THEN "canceled"
    ELSE "success"

\* Mutant of CancelQueuedStages: a failure leaves the later stages queued.
KeepQueuedStages(ss) == ss

\* CancelQueuedStagesInRun / CancelQueuedJobsInRun: both leave the
\* notification stage alone, and neither touches what is running.
CancelQueuedStages(ss) ==
    [s \in Stages |-> IF ss[s] = "queued" /\ s # NotifyStage
                      THEN "canceled" ELSE ss[s]]
Cancellable(js, j) == j \in UserJobs /\ js[j] \in {"queued", "awaiting_approval"}
CancelQueuedJobs(js) ==
    [j \in Jobs |-> IF Cancellable(js, j) THEN "canceled" ELSE js[j]]
FirstOrigin(og, j, o) == IF og[j] = "none" THEN o ELSE og[j]

\* cascadeAfterJobCompletion, with the rows as the calling transaction left
\* them: close stage s once its last job finished, cancel the queued user work
\* when it failed, and close the run when no stage is open any more.
Cascade(js, og, ss, rs, s) ==
    IF ss[s] \notin Open \/ ~StageFinished(js, s)
    THEN [status |-> js, origin |-> og, stage |-> ss, run |-> rs]
    ELSE LET outcome == Verdict(js, JobsIn(s))
             fail    == outcome = "failed"
             closed  == [ss EXCEPT ![s] = outcome]
             stages  == IF fail THEN CancelQueuedStages(closed) ELSE closed
             jobs    == IF fail THEN CancelQueuedJobs(js) ELSE js
             origins == IF fail
                        THEN [j \in Jobs |-> IF Cancellable(js, j)
                                             THEN FirstOrigin(og, j, "system")
                                             ELSE og[j]]
                        ELSE og
             done    == \A t \in Stages : stages[t] \notin Open
         IN [status |-> jobs, origin |-> origins, stage |-> stages,
             run |-> IF done /\ rs \in Open
                     THEN Verdict(jobs, UserJobs) ELSE rs]

\* Finish job j with status st and origin o and roll the stage and the run up,
\* in one transaction.  The other columns are the caller's.
FinishAs(j, st, o) ==
    LET c == Cascade([status EXCEPT ![j] = st], [origin EXCEPT ![j] = o],
                     stage, run, StageOf[j])
    IN /\ status' = c.status
       /\ origin' = c.origin
       /\ stage' = c.stage
       /\ run' = c.run

Finish(j, st) == FinishAs(j, st, origin[j])
RunCompletes == run \in Open /\ run' \notin Open

\* Mutant of Complete: the report wins over a cancel.
CompleteAsReported(j, out) == Finish(j, out) /\ UNCHANGED <<agent, attempt, stamp>>

\* The effect of CompleteJobRun: a stamped row ends canceled whatever the
\* caller reports.
Complete(j, out) ==
    /\ Finish(j, IF stamp[j] THEN "canceled" ELSE out)
    /\ UNCHANGED <<agent, attempt, stamp>>

\* Mutant of Owns: the attempt is not compared.
OwnsByAgent(a, n, j) == agent[j] = a

\* The (agent_id, attempt) snapshot every compare-and-set carries.
Owns(a, n, j) == agent[j] = a /\ attempt[j] = n

\* Mutant of Requeue: the attempt is not counted.
RequeueSameAttempt(j) ==
    /\ status' = [status EXCEPT ![j] = "queued"]
    /\ agent' = [agent EXCEPT ![j] = NoAgent]
    /\ stamp' = [stamp EXCEPT ![j] = FALSE]
    /\ origin' = [origin EXCEPT ![j] = "none"]
    /\ UNCHANGED <<attempt, stage, run>>

\* ReclaimJobForRetry: back to queued as the next attempt, nothing kept.
Requeue(j) ==
    /\ status' = [status EXCEPT ![j] = "queued"]
    /\ agent' = [agent EXCEPT ![j] = NoAgent]
    /\ attempt' = [attempt EXCEPT ![j] = @ + 1]
    /\ stamp' = [stamp EXCEPT ![j] = FALSE]
    /\ origin' = [origin EXCEPT ![j] = "none"]
    /\ UNCHANGED <<stage, run>>

-----------------------------------------------------------------------------
(* The scheduler: the loop of Run and the body of dispatchRun              *)

\* The tick, the prime on startup and an agent coming online list the open
\* runs; the run may close before dispatchRun reaches it.
DrainQueued ==
    /\ run \in Open
    /\ ~due
    /\ due' = TRUE
    /\ UNCHANGED <<rows, tick, execs, reap, away, deploys, issued, rearmed, budget>>

\* A run_queued notification is dropped (full channel, LISTEN connection lost).
LoseNotify ==
    /\ due
    /\ budget.loss > 0
    /\ due' = FALSE
    /\ budget' = [budget EXCEPT !.loss = @ - 1]
    /\ UNCHANGED <<rows, tick, execs, reap, away, deploys, issued, rearmed>>

ActiveStages == {s \in Stages : stage[s] \in Open}
\* Mutant of Dispatchable: any open stage will do, not only the first.
DispatchableAnyStage ==
    {j \in Jobs : /\ status[j] = "queued" /\ agent[j] = NoAgent /\ j \notin Gates
                  /\ StageOf[j] \in ActiveStages}

Dispatchable ==
    {j \in Jobs : /\ status[j] = "queued" /\ agent[j] = NoAgent /\ j \notin Gates
                  /\ StageOf[j] \in ActiveStages
                  /\ \A s \in ActiveStages : StageOf[j] <= s}

\* ListDispatchableJobs.  Nothing asks whether the run itself is still open.
DispatchList ==
    /\ tick.pc = "idle"
    /\ due
    /\ due' = FALSE
    /\ tick' = IF Dispatchable = {} THEN tick
               ELSE [tick EXCEPT !.pc = "listed", !.cand = Dispatchable,
                                 !.seen = attempt]
    /\ UNCHANGED <<rows, execs, reap, away, deploys, issued, rearmed, budget>>

\* ListJobStatusForRun: the statuses the needs gate consults all tick long.
DispatchSnapshot ==
    /\ tick.pc = "listed"
    /\ tick' = [tick EXCEPT !.pc = "loop", !.snap = status]
    /\ UNCHANGED <<rows, due, execs, reap, away, deploys, issued, rearmed, budget>>

\* Mutant of UserOutcome: failures are not counted.
UserOutcomeNoFailures ==
    IF tick.uo # NoOutcome THEN tick.uo
    ELSE [failed |-> FALSE, canceled |-> \E j \in UserJobs : status[j] = "canceled"]

\* GetRunUserStageOutcome, read once per tick and then cached.
UserOutcome ==
    IF tick.uo # NoOutcome THEN tick.uo
    ELSE [failed |-> \E j \in UserJobs : status[j] = "failed",
          canceled |-> \E j \in UserJobs : status[j] = "canceled"]

NotificationTriggerMatches(on, o) ==
    \/ on = "always"
    \/ on = "failure" /\ o.failed
    \/ on = "canceled" /\ o.canceled
    \/ on = "success" /\ ~o.failed /\ ~o.canceled

TriggerMismatch(j) ==
    j \in NotifyJobs /\ ~NotificationTriggerMatches(Trigger[j], UserOutcome)

\* needsSatisfied: a failed upstream dominates, then an unfinished one, then
\* a canceled or skipped one.
NeedsVerdict(j) ==
    LET up(S) == \E k \in Needs[j] : tick.snap[k] \in S
    IN IF up({"failed"}) THEN "fail"
       ELSE IF up(Unfinished) THEN "wait"
       ELSE IF up({"canceled", "skipped"}) THEN "skip"
       ELSE "ok"

Ready(j) == ~TriggerMismatch(j) /\ NeedsVerdict(j) = "ok"

\* The loop moves on from j, with the user outcome cached if j asked for it.
NextCandidate(j) ==
    [tick EXCEPT !.cand = @ \ {j},
                 !.uo = IF j \in NotifyJobs THEN UserOutcome ELSE @]
Considering(j) == tick.pc = "loop" /\ j \in tick.cand

\* Mutant of CullQueued: the row is finished without the rollup.
CullQueuedNoCascade(j, st) ==
    /\ tick' = NextCandidate(j)
    /\ status' = [status EXCEPT ![j] = IF @ = "queued" THEN st ELSE @]
    /\ UNCHANGED <<origin, stage, run, agent, attempt, stamp, due, execs, reap, away, deploys,
                   issued, rearmed, budget>>

\* SkipJob and FailJobWithReason act only on a row that is still queued.
CullQueued(j, st) ==
    /\ tick' = NextCandidate(j)
    /\ \/ /\ status[j] = "queued"
          /\ Finish(j, st)
       \/ /\ status[j] # "queued"
          /\ UNCHANGED <<status, origin, stage, run>>
    /\ UNCHANGED <<agent, attempt, stamp, due, execs, reap, away, deploys, issued, rearmed, budget>>

SkipJob(j) ==
    /\ Considering(j)
    /\ \/ TriggerMismatch(j)
       \/ NeedsVerdict(j) = "skip"
    /\ CullQueued(j, "skipped")

FailJobWithReason(j) ==
    /\ Considering(j)
    /\ ~TriggerMismatch(j)
    /\ NeedsVerdict(j) = "fail"
    /\ CullQueued(j, "failed")

\* Needs not settled yet, no idle agent, a freeze, a busy deploy lane or a
\* native takeover that has to wait: the job stays queued.  A materials error
\* abandons the rest of the loop.
LeaveQueued(j) ==
    /\ Considering(j)
    /\ ~TriggerMismatch(j)
    /\ NeedsVerdict(j) \in {"wait", "ok"}
    /\ \/ tick' = NextCandidate(j)
       \/ NeedsVerdict(j) = "ok" /\ tick' = [tick EXCEPT !.cand = {}]
    /\ UNCHANGED <<rows, due, execs, reap, away, deploys, issued, rearmed, budget>>

\* failJobWithError: secrets, artifacts, profile, tokens or cluster cannot be
\* resolved.  CompleteJob with a NULL agent and the attempt the list returned.
FailJobWithError(j) ==
    /\ Considering(j)
    /\ Ready(j)
    /\ tick' = NextCandidate(j)
    /\ \/ /\ status[j] \in {"queued", "running"} /\ Owns(NoAgent, tick.seen[j], j)
          /\ Complete(j, "failed")
       \/ /\ ~(status[j] \in {"queued", "running"} /\ Owns(NoAgent, tick.seen[j], j))
          /\ UNCHANGED rows
    /\ UNCHANGED <<due, execs, reap, away, deploys, issued, rearmed, budget>>

Unassigned(j) == status[j] = "queued" /\ agent[j] = NoAgent

\* Mutant of StartServerManagedJob: the watch is left for a later transaction.
StartUnwatched(j) ==
    /\ Considering(j)
    /\ Ready(j)
    /\ j \in Native
    /\ Unassigned(j)
    /\ status' = [status EXCEPT ![j] = "running"]
    /\ issued' = [issued EXCEPT ![j] = @ + 1]
    /\ tick' = NextCandidate(j)
    /\ UNCHANGED <<agent, attempt, stamp, origin, stage, run, due, execs, reap, away, deploys,
                   rearmed, budget>>

\* tryNativeDeploy: a deploy with a registered target gets no agent.  One
\* transaction flips the row, stage and run and creates the watch that answers
\* for the job; a row that moved on meanwhile is left alone.  Without a target
\* the job goes the way of AssignJob.
StartServerManagedJob(j) ==
    LET s == StageOf[j]
    IN /\ Considering(j)
       /\ Ready(j)
       /\ j \in Native
       /\ tick' = NextCandidate(j)
       /\ \/ /\ Unassigned(j)
             /\ status' = [status EXCEPT ![j] = "running"]
             /\ stage' = IF stage[s] = "queued" THEN [stage EXCEPT ![s] = "running"]
                         ELSE stage
             /\ run' = IF run = "queued" THEN "running" ELSE run
             /\ watches' = watches \cup {[job |-> j, attempt |-> attempt[j]]}
             /\ issued' = [issued EXCEPT ![j] = @ + 1]
          \/ /\ ~Unassigned(j)
             /\ UNCHANGED <<status, stage, run, watches, issued>>
       /\ UNCHANGED <<agent, attempt, stamp, origin, due, execs, reap, away, deleted,
                      rearmed, budget>>

\* AssignJob to an idle agent a, claimed or lost to whoever moved the row
\* meanwhile.
AssignJob(j, a) ==
    /\ Considering(j)
    /\ Ready(j)
    /\ a \notin away
    /\ \/ /\ Unassigned(j)
          /\ status' = [status EXCEPT ![j] = "running"]
          /\ agent' = [agent EXCEPT ![j] = a]
          /\ tick' = [NextCandidate(j) EXCEPT !.pc = "claimed", !.job = j,
                                              !.agent = a, !.attempt = attempt[j]]
       \/ /\ ~Unassigned(j)
          /\ tick' = NextCandidate(j)
          /\ UNCHANGED <<status, agent>>
    /\ UNCHANGED <<attempt, stamp, origin, stage, run, due, execs, reap, away, deploys,
                   issued, rearmed, budget>>

\* DispatchAssignment hands the claimed job to the agent's session.
DispatchAssignment ==
    /\ tick.pc = "claimed"
    /\ tick.agent \notin away
    /\ tick' = [tick EXCEPT !.pc = "sent"]
    /\ execs' = execs \cup {[job |-> tick.job, agent |-> tick.agent,
                             attempt |-> tick.attempt]}
    /\ issued' = [issued EXCEPT ![tick.job] = @ + 1]
    /\ UNCHANGED <<rows, due, reap, away, deploys, rearmed, budget>>

\* rollbackUndispatchedAssignment: the session vanished or is busy.  UnassignJob
\* undoes exactly the claim of this tick; a cancel stamped in between wins.
UnassignJob ==
    LET j == tick.job
        claim == status[j] = "running" /\ Owns(tick.agent, tick.attempt, j)
    IN /\ tick.pc = "claimed"
       /\ tick' = [tick EXCEPT !.pc = "loop", !.job = NoJob, !.agent = NoAgent,
                               !.attempt = 0]
       /\ \/ /\ claim /\ stamp[j]
             /\ Finish(j, "canceled")
             /\ UNCHANGED <<agent, stamp, due>>
          \/ /\ claim /\ ~stamp[j]
             /\ status' = [status EXCEPT ![j] = "queued"]
             /\ agent' = [agent EXCEPT ![j] = NoAgent]
             /\ origin' = [origin EXCEPT ![j] = "none"]
             /\ due' = TRUE
             /\ UNCHANGED <<stamp, stage, run>>
          \/ /\ ~claim
             /\ UNCHANGED <<status, agent, stamp, origin, stage, run, due>>
       /\ UNCHANGED <<attempt, execs, reap, away, deploys, issued, rearmed, budget>>

MarkStageRunning ==
    LET s == StageOf[tick.job]
    IN /\ tick.pc = "sent"
       /\ stage' = IF stage[s] = "queued" THEN [stage EXCEPT ![s] = "running"]
                   ELSE stage
       /\ tick' = [tick EXCEPT !.pc = "loop", !.job = NoJob, !.agent = NoAgent,
                               !.attempt = 0, !.sent = TRUE]
       /\ UNCHANGED <<status, agent, attempt, stamp, origin, run, due, execs,
                      reap, away, deploys, issued, rearmed, budget>>

\* The end of dispatchRun: MarkRunRunning if this tick dispatched anything.
EndTick ==
    /\ tick.pc = "loop"
    /\ tick.cand = {}
    /\ run' = IF tick.sent /\ run = "queued" THEN "running" ELSE run
    /\ tick' = IdleTick
    /\ UNCHANGED <<status, agent, attempt, stamp, origin, stage, due, execs,
                   reap, away, deploys, issued, rearmed, budget>>

\* The control plane dies and comes back: the tick, the reclaim snapshots and
\* the agent streams (with the jobs behind them) are gone, the rows are not.
\* Run primes the work list with every open run; every agent has to register.
ServerRestart ==
    /\ budget.loss > 0
    /\ budget' = [budget EXCEPT !.loss = @ - 1]
    /\ tick' = IdleTick
    /\ due' = (run \in Open)
    /\ execs' = {}
    /\ reap' = {}
    /\ away' = Agents
    /\ UNCHANGED <<rows, deploys, issued, rearmed>>

-----------------------------------------------------------------------------
(* Agents: results, disruptions and silence                                *)

\* afterJobCompletion wakes the scheduler unless this completion ended the run.
WakeUnlessRunCompletes == due' = (due \/ ~RunCompletes)

\* Mutant of CompleteJob: the status is not part of the compare-and-set.
CompleteJobAnyStatus(e, out) ==
    \/ /\ Owns(e.agent, e.attempt, e.job)
       /\ Complete(e.job, out)
       /\ WakeUnlessRunCompletes
    \/ /\ ~Owns(e.agent, e.attempt, e.job)
       /\ UNCHANGED <<rows, due>>

\* CompleteJob on behalf of execution e, dropped when the row moved on.
CompleteJob(e, out) ==
    \/ /\ status[e.job] \in {"queued", "running"} /\ Owns(e.agent, e.attempt, e.job)
       /\ Complete(e.job, out)
       /\ WakeUnlessRunCompletes
    \/ /\ ~(status[e.job] \in {"queued", "running"} /\ Owns(e.agent, e.attempt, e.job))
       /\ UNCHANGED <<rows, due>>

JobResult(e, out) ==
    /\ e \in execs
    /\ execs' = execs \ {e}
    /\ CompleteJob(e, out)
    /\ UNCHANGED <<tick, reap, away, deploys, issued, rearmed, budget>>

\* HandleDisruptedJob: the platform took the task's pod away.
HandleDisruptedJob(e) ==
    LET j == e.job
        retry == ~(j \in RetryUnsafe) /\ ~stamp[j] /\ attempt[j] < MaxAttempts
                 /\ Owns(e.agent, e.attempt, j)
    IN /\ e \in execs
       /\ budget.loss > 0
       /\ budget' = [budget EXCEPT !.loss = @ - 1]
       /\ execs' = execs \ {e}
       /\ \/ /\ status[j] = "running" /\ retry
             /\ Requeue(j)
             /\ due' = TRUE
          \/ /\ status[j] = "running" /\ ~retry
             /\ CompleteJob(e, "failed")
          \/ /\ status[j] # "running"
             /\ UNCHANGED <<rows, due>>
       /\ UNCHANGED <<tick, reap, away, deploys, issued, rearmed>>

\* The agent process dies with its jobs; nothing will be reported for them.
AgentLost(a) ==
    /\ a \notin away
    /\ budget.loss > 0
    /\ budget' = [budget EXCEPT !.loss = @ - 1]
    /\ away' = away \cup {a}
    /\ execs' = {e \in execs : e.agent # a}
    /\ UNCHANGED <<rows, due, tick, reap, deploys, issued, rearmed>>

\* Register: a new process answers for the agent, and knows none of its jobs.
AgentReturns(a) ==
    /\ a \in away
    /\ away' = away \ {a}
    /\ UNCHANGED <<rows, due, tick, execs, reap, deploys, issued, rearmed, budget>>

-----------------------------------------------------------------------------
(* Deploy watches: a native deploy is the server's until its watch ends     *)

\* FinalizeDeployWatch: the watcher reached a verdict, at the latest when the
\* deadline passed.  Job, cascade and the end of the watch are one transaction;
\* a row that moved on loses its watch only.
FinalizeDeployWatch(w, verdict) ==
    LET cas == status[w.job] \in {"queued", "running"} /\ Owns(NoAgent, w.attempt, w.job)
    IN /\ w \in watches
       /\ watches' = watches \ {w}
       /\ \/ /\ cas
             /\ Complete(w.job, verdict)
             /\ due' = TRUE
          \/ /\ ~cas
             /\ UNCHANGED <<rows, due>>
       /\ UNCHANGED <<tick, execs, reap, away, deleted, issued, rearmed, budget>>

\* Somebody deletes the row of a watch by hand; its job is left without one.
LoseDeployWatch(w) ==
    /\ w \in watches
    /\ budget.loss > 0
    /\ budget' = [budget EXCEPT !.loss = @ - 1]
    /\ watches' = watches \ {w}
    /\ deleted' = deleted \cup {w}
    /\ UNCHANGED <<rows, due, tick, execs, reap, away, issued, rearmed>>

Watched(j) == \E w \in watches : w.job = j

-----------------------------------------------------------------------------
(* Reclaimers: the reaper and the register fence                           *)

\* ListStaleRunningJobs / ListRunningJobsForAgent.  Staleness is a timeout, so
\* the verdict may be wrong: the agent may still be working and report later.
\* A job with a watch is the watcher's.
ReclaimList(j) ==
    LET s == [job |-> j, agent |-> agent[j], attempt |-> attempt[j]]
    IN /\ status[j] = "running"
       /\ ~stamp[j]
       /\ ~Watched(j)
       /\ s \notin reap
       /\ Cardinality(reap) < MaxReclaims
       /\ reap' = reap \cup {s}
       /\ UNCHANGED <<rows, due, tick, execs, away, deploys, issued, rearmed, budget>>

\* One listed row: requeueStaleJob, or failJobIfStale for a retry-unsafe job
\* and at the cap.  Both compare the snapshot and refuse a stamped row.
ReclaimStaleJob(s) ==
    LET j == s.job
        cas == status[j] = "running" /\ ~stamp[j] /\ Owns(s.agent, s.attempt, j)
        giveUp == j \in RetryUnsafe \/ s.attempt + 1 > MaxAttempts
    IN /\ s \in reap
       /\ reap' = reap \ {s}
       /\ \/ /\ cas /\ giveUp
             /\ Finish(j, "failed")
             /\ UNCHANGED <<agent, attempt, stamp, due>>
          \/ /\ cas /\ ~giveUp
             /\ Requeue(j)
             /\ due' = TRUE
          \/ /\ ~cas
             /\ UNCHANGED <<rows, due>>
       /\ UNCHANGED <<tick, execs, away, deploys, issued, rearmed, budget>>

CancelReclaimed(j) ==
    /\ status[j] = "running"
    /\ stamp[j]
    /\ Finish(j, "canceled")
    /\ due' = TRUE
    /\ UNCHANGED <<agent, attempt, stamp, tick, execs, reap, away, deploys, issued, rearmed,
                   budget>>

\* ReclaimPendingCancelsForOfflineAgent: a stamped job of an agent that is
\* offline or was not heard of for the grace period, rightly or not.
ReclaimPendingCancel(j) == agent[j] # NoAgent /\ CancelReclaimed(j)

\* ReclaimAbandonedNativeCancels: a stamped native deploy whose watch vanished.
ReclaimAbandonedNativeCancel(j) == agent[j] = NoAgent /\ ~Watched(j) /\ CancelReclaimed(j)

-----------------------------------------------------------------------------
(* Users, approvals and lane automation                                    *)

\* CancelJobRun: a running job is only stamped, a queued one ends here.
CancelJobRun(j) ==
    /\ budget.cancel > 0
    /\ budget' = [budget EXCEPT !.cancel = @ - 1]
    /\ \/ /\ status[j] = "running"
          /\ stamp' = [stamp EXCEPT ![j] = TRUE]
          /\ origin' = [origin EXCEPT ![j] = FirstOrigin(origin, j, "user_job")]
          /\ UNCHANGED <<status, stage, run, due>>
       \/ /\ status[j] = "queued"
          /\ FinishAs(j, "canceled", FirstOrigin(origin, j, "user_job"))
          /\ due' = TRUE
          /\ UNCHANGED stamp
    /\ UNCHANGED <<agent, attempt, tick, execs, reap, away, deploys, issued, rearmed>>

\* The rows a run-wide cancel leaves: queued user work ends, the running jobs
\* in S are stamped for their agents to stop, the run closes.  No rollup.
CancelOpenRun(S) ==
    LET hit == {j \in Jobs : Cancellable(status, j) \/ (j \in S /\ status[j] = "running")}
    IN /\ run \in Open
       /\ budget.cancel > 0
       /\ budget' = [budget EXCEPT !.cancel = @ - 1]
       /\ status' = CancelQueuedJobs(status)
       /\ stamp' = [j \in Jobs |-> stamp[j] \/ (j \in S /\ status[j] = "running")]
       /\ origin' = [j \in Jobs |-> IF j \in hit THEN FirstOrigin(origin, j, "system")
                                    ELSE origin[j]]
       /\ stage' = CancelQueuedStages(stage)
       /\ run' = "canceled"
       /\ UNCHANGED <<agent, attempt, due, tick, execs, reap, away, deploys, issued, rearmed>>

\* CancelRun (and the destroyed merge group): notifications are left alone.
CancelRun == CancelOpenRun(UserJobs)

\* ExpireApprovalGate and supersedeOne: the run sits at an undecided gate; every
\* running job is stamped, notifications included.
SystemCancelRun ==
    /\ \E g \in Gates : status[g] = "awaiting_approval"
    /\ CancelOpenRun(Jobs)

\* decideGate once the quorum is reached (success) or on a rejection (failed).
DecideGate(g, verdict) ==
    /\ status[g] = "awaiting_approval"
    /\ Finish(g, verdict)
    /\ due' = (due \/ (stage'[StageOf[g]] # stage[StageOf[g]] /\ ~RunCompletes))
    /\ UNCHANGED <<agent, attempt, stamp, tick, execs, reap, away, deploys, issued, rearmed, budget>>

\* Mutant of Revived: a gate comes back like any other job.
RevivedQueued(k) == "queued"

\* How a rerun brings a row back.
Revived(k) == IF k \in Gates THEN "awaiting_approval" ELSE "queued"

\* rerunJobTx: job j is queued again as the next attempt, its stage and run are
\* reopened, and the downstream rows the system canceled come back - jobs as
\* queued under their old attempt, gates as awaiting_approval.
RerunJob(j) ==
    LET revived == {k \in Downstream(j) : status[k] = "canceled" /\ origin[k] # "user_job"}
        back == revived \cup {j}
        js == [k \in Jobs |-> IF k \in back THEN Revived(k) ELSE status[k]]
        gotJob(s) == \E k \in JobsIn(s) : js[k] \in {"queued", "awaiting_approval"}
    IN /\ budget.rerun > 0
       /\ budget' = [budget EXCEPT !.rerun = @ - 1]
       /\ j \notin Gates
       /\ status[j] \notin {"queued", "running"}
       /\ status' = js
       /\ agent' = [k \in Jobs |-> IF k \in back THEN NoAgent ELSE agent[k]]
       /\ attempt' = [attempt EXCEPT ![j] = @ + 1]
       /\ stamp' = [k \in Jobs |-> k \notin back /\ stamp[k]]
       /\ origin' = [k \in Jobs |-> IF k \in back THEN "none" ELSE origin[k]]
       /\ stage' = [s \in Stages |->
                      IF s = StageOf[j] /\ stage[s] \in Closed THEN "running"
                      ELSE IF s > StageOf[j] /\ stage[s] = "canceled" /\ gotJob(s)
                           THEN "queued" ELSE stage[s]]
       /\ run' = IF run \in Closed THEN "running" ELSE run
       /\ due' = TRUE
       /\ rearmed' = [k \in Jobs |-> rearmed[k] + (IF k \in back THEN 1 ELSE 0)]
       /\ UNCHANGED <<tick, execs, reap, away, deploys, issued>>

-----------------------------------------------------------------------------
Consider(j) ==
    \/ SkipJob(j)
    \/ FailJobWithReason(j)
    \/ LeaveQueued(j)
    \/ FailJobWithError(j)
    \/ StartServerManagedJob(j)
    \/ \E a \in Agents : AssignJob(j, a)

Next ==
    \/ DrainQueued
    \/ LoseNotify
    \/ DispatchList
    \/ DispatchSnapshot
    \/ \E j \in Jobs : Consider(j)
    \/ DispatchAssignment
    \/ UnassignJob
    \/ MarkStageRunning
    \/ EndTick
    \/ ServerRestart
    \/ \E e \in execs, out \in {"success", "failed"} : JobResult(e, out)
    \/ \E e \in execs : HandleDisruptedJob(e)
    \/ \E a \in Agents : AgentLost(a) \/ AgentReturns(a)
    \/ \E w \in watches, v \in {"success", "failed"} : FinalizeDeployWatch(w, v)
    \/ \E w \in watches : LoseDeployWatch(w)
    \/ \E j \in Jobs : \/ ReclaimList(j)
                       \/ ReclaimPendingCancel(j)
                       \/ ReclaimAbandonedNativeCancel(j)
    \/ \E s \in reap : ReclaimStaleJob(s)
    \/ \E j \in Jobs : CancelJobRun(j) \/ RerunJob(j)
    \/ CancelRun
    \/ SystemCancelRun
    \/ \E g \in Gates, v \in {"success", "failed"} : DecideGate(g, v)

Spec == Init /\ [][Next]_vars

\* A running row neither a live assignment nor a watch answers for: what
\* staleness and the register fence detect.
Abandoned(j) ==
    /\ status[j] = "running"
    /\ ~Watched(j)
    /\ ~(tick.pc = "claimed" /\ tick.job = j)
    /\ [job |-> j, agent |-> agent[j], attempt |-> attempt[j]] \notin execs

\* The loop of the scheduler: the ticker, and dispatchRun to its end.
SchedulerStep ==
    \/ DrainQueued
    \/ DispatchList
    \/ DispatchSnapshot
    \/ \E j \in Jobs : Consider(j)
    \/ DispatchAssignment
    \/ UnassignJob
    \/ MarkStageRunning
    \/ EndTick

\* The reaper's sweep: stale jobs, and pending cancels of agents that are away
\* and of native deploys.  The query of the former passes over an agent that
\* came back.
ReaperStep ==
    \/ \E j \in Jobs : Abandoned(j) /\ ReclaimList(j)
    \/ \E j \in Jobs : Abandoned(j) /\ agent[j] \in away /\ ReclaimPendingCancel(j)
    \/ \E j \in Native : ReclaimAbandonedNativeCancel(j)
    \/ \E s \in reap : ReclaimStaleJob(s)

\* Scheduler, reaper and watcher are loops on timers and never stop stepping,
\* and a watch has a deadline; agents come back, an idle matching one keeps
\* turning up and does not refuse every hand-over; agents that live answer for
\* their jobs.  Nothing is assumed of humans.
Fairness ==
    /\ WF_vars(SchedulerStep)
    /\ SF_vars(\E j \in Jobs : \/ \E a \in Agents : AssignJob(j, a)
                               \/ StartServerManagedJob(j))
    /\ SF_vars(DispatchAssignment)
    /\ WF_vars(\E e \in execs, out \in {"success", "failed"} : JobResult(e, out))
    /\ WF_vars(ReaperStep)
    /\ WF_vars(\E w \in watches, v \in {"success", "failed"} : FinalizeDeployWatch(w, v))
    /\ \A a \in Agents : WF_vars(AgentReturns(a))

FairSpec == Spec /\ Fairness

-----------------------------------------------------------------------------
(* Properties                                                              *)

\* Every row of the run keeps the abstract contract of a job row: a job is held
\* between the scheduler's claim and the hand-over of that claim.
Held == [j \in Jobs |-> tick.pc = "claimed" /\ tick.job = j]
Contract == INSTANCE JobContract WITH held <- Held
RowContract == Contract!Spec

AutoRetries(j) == IF j \in RetryUnsafe THEN 0 ELSE MaxAttempts

\* A job is handed to an agent or taken over by the server at most once per
\* human request plus the automatic retries it is allowed, and a retry-unsafe
\* job (a deploy) is never started again without one - whatever the
\* interleaving of dispatch, rollback, crash, late results, disruption, watch,
\* reaper, cancel and rerun.
DispatchBounded == \A j \in Jobs : issued[j] <= 1 + rearmed[j] + AutoRetries(j)

\* An approval gate is never queued, never assigned and never handed to an
\* agent, not even when a rerun revives it: only a decision passes it.
GatesNeverDispatched ==
    \A g \in Gates : /\ issued[g] = 0
                     /\ agent[g] = NoAgent
                     /\ status[g] \notin {"queued", "running", "skipped"}

\* A cancel stamped on a running job wins every later race: the row stays
\* stamped and leaves running only as canceled, never requeued, never failed
\* and never success.
CancelHonoured ==
    [][\A j \in Jobs : (status[j] = "running" /\ stamp[j]) =>
          \/ status'[j] = "running" /\ stamp'[j]
          \/ status'[j] = "canceled"]_vars

\* A finished job is reopened by a human request only: no late result, stale
\* reclaim snapshot, rollback or cascade moves a row out of a final status.
FinishedIsFinal ==
    [][\A j \in Jobs : (status[j] \in Finished /\ status'[j] # status[j]) =>
          rearmed'[j] = rearmed[j] + 1]_vars

\* A running job always has an owner somebody can ask: an agent id, by which
\* the register fence and the cancel replay select rows, or the deploy watch of
\* this attempt, unless that was deleted by hand.  Reclaims, revivals under an
\* old attempt and late verdicts never leave a running row with neither.
RunningIsOwned ==
    \A j \in Jobs : /\ status[j] = "running" /\ agent[j] = NoAgent =>
                          [job |-> j, attempt |-> attempt[j]] \in watches \cup deleted
                    /\ status[j] = "queued" => agent[j] = NoAgent /\ ~stamp[j]

\* (No reruns.)  A user job is on an agent only while every earlier stage is
\* closed and none of them failed.
StageBarrier ==
    \A j \in UserJobs : status[j] = "running" =>
        \A s \in Stages : s < StageOf[j] => stage[s] \in {"success", "canceled"}

\* A job nobody asked to rerun (attempt 0: it is here from the start or came
\* back with a revived tail) is not on an agent past a failed stage.
RevivedTailIsCulled ==
    \A j \in UserJobs : (status[j] = "running" /\ attempt[j] = 0) =>
        \A s \in Stages : s < StageOf[j] => stage[s] # "failed"

\* (No reruns.)  A job only ever runs after every job it needs succeeded, even
\* though the scheduler decides on a snapshot taken earlier in the tick.
NeedsHonoured ==
    \A j \in Jobs : (status[j] = "running" \/ issued[j] > 0) =>
        \A k \in Needs[j] : status[k] = "success"

\* Both orders: nothing reaches an agent ahead of a stage or of a job it waits
\* for, whatever is canceled, lost or reclaimed meanwhile.
OrderHonoured == StageBarrier /\ NeedsHonoured

\* (No reruns.)  A stage that closed by rollup has no job left to run, and no
\* queued job hides behind any closed stage.
ClosedStageIsDrained ==
    \A j \in Jobs : stage[StageOf[j]] \in Closed =>
        /\ status[j] \notin {"queued", "awaiting_approval"}
        /\ stage[StageOf[j]] \in {"success", "failed"} => status[j] \in Finished

\* (No reruns.)  When every job has finished the run has closed: nothing is
\* left that could close it later.
NoWedgedRun == (\A j \in Jobs : status[j] \in Finished) => run \in Closed

\* The verdict of a run agrees with its user jobs, whatever the notifications
\* did: green only if every user job succeeded or was skipped, red only if one
\* failed.
RunVerdictSound ==
    /\ run = "success" => \A j \in UserJobs : status[j] \in {"success", "skipped"}
    /\ run = "failed" => \E j \in UserJobs : status[j] = "failed"

\* (No reruns.)  Every notification handed to an agent fits how the user
\* stages ended, as long as nobody cancels: a run cancel closes a stage whose
\* job is still being stopped, and notifications then go out beside it.
NotifyFitsOutcome ==
    budget.cancel = MaxCancels =>
    \A n \in NotifyJobs : issued[n] > 0 =>
        /\ \A j \in UserJobs : status[j] \in Finished
        /\ NotificationTriggerMatches(Trigger[n],
               [failed |-> \E j \in UserJobs : status[j] = "failed",
                canceled |-> \E j \in UserJobs : status[j] = "canceled"])

\* A job canceled while it ran, abandoned by an agent that is back: the reaper
\* leaves it to the cancel replay, which the new process ignores.
LostCancel ==
    \E j \in Jobs : Abandoned(j) /\ stamp[j] /\ agent[j] \in Agents \ away

\* Every run without a gate closes, whatever agents crash, get disrupted or
\* answer late, whichever watch vanishes, and whenever it is canceled: no job is
\* forgotten in running, queued or behind its needs, but for a canceled job that
\* its returned agent keeps for ever.
RunCloses == <>(run \in Closed) \/ <>[]LostCancel

\* Notifications are not stranded by a run cancel: each of them is dispatched
\* and finishes, or is skipped.
NotificationsDrain ==
    (run = "canceled") ~> (\A n \in NotifyJobs : status[n] \in Finished)
====
