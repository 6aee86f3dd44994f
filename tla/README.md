# gocdnext: a TLA+ verification project

gocdnext is a CI/CD server. A control plane written in Go (`server/`) keeps pipelines, runs, stages
and jobs in PostgreSQL; agents (`agent/`) register over gRPC, hold one stream each and execute jobs;
humans start, approve, cancel and rerun. This directory models the part that decides *what runs when,
who owns it and how it ends*, checks it with TLC on small instances, and proves what matters most for
every instance with TLAPS.

## Inventory

| Component | State | Operations | What is hard about it | What makes it correct |
|---|---|---|---|---|
| Run rollup (`store/results.go`) | `job_runs`, `stage_runs`, `runs` | CompleteJob, SkipJob, FailJobWithReason, cascade | several callers finish jobs of one stage at once | stages close drained, the verdict agrees with the jobs, no run is wedged |
| Scheduler (`scheduler/scheduler.go`, `store/dispatch.go`) | work list, locals of `dispatchRun` | list, snapshot, cull, claim, hand over, roll back, mark | acts on reads that are stale by then; a claim without a hand-over | stage and needs order, bounded hand-overs, no lost claim |
| Serial gate (`scheduler.go`, `concurrency: serial`) | status of the pipeline's runs | gate, dispatch, mark running | check then act on several replicas; reruns | one run at a time, the queue moves |
| Reaper and register fence (`scheduler/reaper.go`, `store/sweeper.go`) | listed snapshots | list, reclaim, fence, sweep cancels | staleness is a guess | compare-and-set against the snapshot, cap, cancels win |
| Disruption engine (`store/disruption.go`) | none | requeue or finish | two paths to one cap | deploys are not repeated |
| Sessions and Register (`grpcsrv/sessions.go`, `agent_service.go`) | `latestByAg`, sessions, `agents` row | Register, CreateSession, Connect, fence, offline | three stores without a transaction | a session implies an online row, slots balance |
| Result handler (`grpcsrv/connect.go`) | per-session assignments | result, heartbeat, draining | seconds pass between check and write | a result closes only its own claim |
| Agent client (`agent/internal/rpc`) | jobs in flight, outbound queue | assign, cancel, drain, exit | dies at any point; a shutdown races its own results | jobs of a dead process settle, an aborted job is never reported |
| Cancel and rerun (`store/runs_actions.go`) | cancel stamp, origin | CancelRun, CancelJobRun, RerunJob | races everything above | a cancel is never lost, final is final |
| Definitions (`pkg/parser`, `pkg/domain/gategraph.go`) | none | validate needs, governing gates, ready scope | stages and needs are two orders | an accepted run gets through, no gate is jumped |
| Approvals (`store/approvals.go`, `approval_expiry.go`) | votes, gate rows, cursor | vote, decide, re-arm, expire | decided, frozen, re-armed while the sweep looks | quorum of this arming; expiry only of the abandoned, and of all of them |
| Lanes (`store/supersede.go`, `gatepass.go`, `deployments.go`) | gate-pass markers, lane locks | approve, supersede, guard, hand over | an older deploy overtaking a newer one | no stale deploy, markers match gates, gates before deploys |
| Freezes (`store/environment_freeze*.go`) | freeze rows, freeze locks, unfreeze floor | freeze, unfreeze, admit | a freeze between check and commit | a frozen environment admits nothing |
| Terminal effects (`run_terminal_effects.go`, `supersede_effects.go`, `merge_group_cancel_effects.go`) | claim, lease, done | claim, do, mark, replay | replicas die holding claims; a rerun revives the run | done in the end, and never to the pods of a revived run |
| Native deploys (`deploysvc`, `deploy/decide.go`, `store/rollout_gate*.go`) | watch row, lease, gate votes | claim, observe, arm, vote, promote, finalise | the patch is outside every transaction | only approved pauses are promoted, every deploy ends |
| Logs (`grpcsrv/log_batcher.go`, `logarchive`, `retention/archive_reconcile.go`) | queues, `log_lines`, archive pointer, cache | push, flush, archive, reconcile, read | three stores, new attempts of one job | no stored line is lost, reads show this attempt |
| Triggers (`webhook`, `polling`) | `modifications`, poll state | deliver, fan out, poll | duplicates, losses, half-done deliveries | one run per delivery of a push, the head is built |
| Merge groups (`webhook/merge_group.go`, `store/merge_group*.go`) | runs, tombstone | checks requested, destroyed | events out of order | nothing open once destroyed |
| Fan-out, cron, pull requests, config sync, checks, API, engines, CLI, web | - | - | I/O and data | not modelled |

The components meet in the database rows and in the session store. A transaction is atomic; the
scheduler, the reaper, `Register`, `Connect`, the result handler, the watchers, the sweeps and the
webhooks are sequences of transactions and outside calls, and anything may happen between two of them.

## Modules

| Module | Role |
|---|---|
| `RunLifecycle` | one run: its rows and every transaction that moves them |
| `JobContract` | abstract specification of one `job_runs` row, with its invariant and two lemmas |
| `RunLifecycleProofs` | proofs about `RunLifecycle`, its rows (types, owners, hand-overs, the contract) and its stages (order, verdict, draining, no wedge, notifications) |
| `AgentSessions` | agent processes, sessions, the `agents` row and the rows handed out through them |
| `AgentProofs` | proofs about `AgentSessions`: types, capacity, current results, online sessions |
| `AgentDrain` | the shutdown of one agent process |
| `GateGraph` | operators on a pipeline definition: validation, governing gates, ready scope |
| `PipelineGraph` | executes accepted definitions as the reference `GateGraph` is compared with |
| `GraphProofs` | proofs about `GateGraph` and `PipelineGraph`: needs closure, cycle check, governing gates, ready scope |
| `DeployLane` (on `GateGraph`) | the runs of a supersede lane: approvals, markers, freezes, deploys |
| `DeployLaneProofs` | proofs about `DeployLane`: markers, stale deploys, freezes, the order of gates and jobs |
| `ApprovalGate` | votes, re-arming and expiry of gates under freezes |
| `SerialPipeline` | the runs of a serial pipeline under several schedulers |
| `RunEffects` | effects of an ended run, across replicas, revivals and the agent's cleanup |
| `RolloutWatch` | one gated canary and its watchers |
| `LogPath` | the lines of one job from the stream to the archive and back |
| `Triggers` | push deliveries and the poller of one branch |
| `MergeGroups` | one entry of the merge queue |
| `AdmissionProofs` | proofs about what is let in: `MergeGroups`, `Triggers`, `SerialPipeline`, `ApprovalGate`, `RolloutWatch` |
| `OutcomeProofs` | proofs about `RunEffects`, `LogPath` and `AgentDrain` |
| `MCRunLifecycle`, `MCAgentSessions`, `MCSessionsLive`, `MCControlPlane` | instances for TLC |
| `ControlPlaneProofs` | proofs about `MCControlPlane`: its parts, their types, gates before deploys, all safety properties together |

`MCControlPlane` holds ten modules at once. They share no state at their level of abstraction, so the
initial state picks the part that moves (`focus`) and the others stay where they start: the reachable
states are the sum of the parts and each property speaks of its own variables. A liveness property of a
part is stated `[]<>(focus = part => good)`; fairness is each module's own, guarded by `focus`.
`MCSessionsLive` similarly starts in one of two settings of `AgentSessions`.

### RunLifecycle

Variables are columns (`status`, `agent`, `attempt`, `stamp`, `origin` of `job_runs`, `stage`, `run`),
the scheduler's work list (`due`) and locals (`tick`), the assignments agents still have to answer for
(`execs`) and the snapshots reclaimers hold (`reap`). `issued` and `rearmed` are history variables.
`DispatchList`, `DispatchSnapshot`, `Consider`, `DispatchAssignment`/`UnassignJob`, `MarkStageRunning`
and `EndTick` are `dispatchRun` cut at its database calls, so every other action can run in between.
`Cascade` is `cascadeAfterJobCompletion`; it is a function of the rows because its callers have changed
them in the same transaction. All origins other than a user's cancel of one job are one value: `RerunJob`
only tells these two apart. Where the serial gate, a freeze, a missing agent or the guard of a native deploy
holds a job back, `LeaveQueued` does; what they promise is checked in modules of their own.

A deploy with a registered target (`Native`) is the server's: `StartServerManagedJob` takes the row with no
agent and creates its watch (`watches`) in one transaction, and `FinalizeDeployWatch` ends job, cascade and
watch in another. A `Native` job may also go to an agent: the target is looked up on every tick. While a
watch exists the reaper passes over its job (`Watched`); when somebody deletes the watch by hand
(`LoseDeployWatch`, remembered in `deleted`) the job is the reaper's again, or, if it is stamped,
`ReclaimAbandonedNativeCancel`'s. `away` holds the agents without a live process: `AgentLost` takes one away
with its executions, `AgentReturns` is its next `Register`, and `ReclaimPendingCancel`, whose query wants the
agent offline or late, is due for certain only while the agent is away.

### JobContract and the refinement

A row may stay, be claimed, handed over, taken over by the server, given back, stamped, ended, retried or
rearmed; a step moves every row by one of these. `RowContract` says that `RunLifecycle` does nothing else:
the abstract `held` is "the scheduler holds an unsent claim for this job".

### AgentSessions

A process registers once and has one stream; when it breaks the process exits and a supervisor starts
the next one (`client.go`, `Run`). Process and session therefore share an index, and `pc` follows them
through `Register`, `Connect` and the deferred close. `closer` and `serial` are history variables: the
claim a result came from, and how many claims there were; `muted` remembers the claim whose hand-over was
answered as a duplicate (`recordDuplicate`), which sends nothing. Results pass through `ReceiveResult`,
`RecheckRevoked`, `CommitResult` and `ReleaseSlot`, because the code checks, waits for the object store,
checks again, writes and only then releases. `Expire` is the staleness window passing: for free when no
process is left, out of the budget `MaxStale` when the agent is alive and only late. Tags, payloads and
the other frames are left out; a run's stages and needs are `RunLifecycle`'s.

### AgentDrain

Jobs, send loop, receive loop and the draining goroutine share the outbound FIFO, the running map and the
suppression set. The send loop is cut between taking an item, sending it and marking it sent; the
job's goroutine between making its result, queueing it and leaving the map. The server handles what was
sent in order and answers a half-close with an end of file behind the last message. The two deadlines
(`BudgetElapses`, `FlushDeadline`) may pass at any moment.

### GateGraph and PipelineGraph

`GateGraph` is `gategraph.go` and the `needs:` part of the parser as functions of a definition. The run of
`PipelineGraph` finishes one ready job at a time and compares: an accepted definition never gets stuck, a
deploy that is reached has every governing gate behind it and no other gate is before it, and the gates
reported ready are the frontier of the execution.

### DeployLane

Runs of a lane with the jobs of one definition. An approval and a dispatch are split where only an
advisory lock protects them: locks taken, decided, committed; guarded, freeze checked, claimed, handed
over. `marks` is `run_gate_pass`. `RerunLaneJob` takes no lane lock, as in the code; `revived` remembers
the runs it revived while somebody held the lock, and `NoStaleDeploy` excuses exactly those. `reran`
remembers the runs somebody reran a job of: `rerunJobTx` queues a job whatever became of the gates before
it, so `GatesBeforeDeploys` speaks of the other runs.

### ApprovalGate

A gate stands for the run it blocks. Time is reduced to what the code compares: the order of arming, whether
a window has elapsed since a gate was armed (`aged`) and since its environment was unfrozen (`floor`). With
`AuthDisabled` requests carry no user: `decideGate` then stores no vote and one call passes the gate whatever
its quorum (`ApproveAnonymously`, remembered in `waved`); `QuorumSinceArmed` names that case and is the plain
quorum where auth is on. The sweep lists a page behind its cursor and judges it candidate by candidate, each
in a transaction that tries the freeze lock and compares the arming it saw.

### SerialPipeline

`dispatchRun` of a serial pipeline as gate, claim and mark, on several replicas. A tick may be cut short
between claim and mark, by a crash or a failing update, and then a job is out behind a run that reads queued
(`CutTickShort`, `Unmarked`). A cancel, which stands for a supersede and a destroyed merge group too, ends
the run at once and leaves its jobs `stopping` on their agents. `overlapped` remembers that two replicas
passed the gate together or a gate query failed, `reopened` that a rerun reopened a run beside an open one;
`OneAtATime` and `SerialRunsClose` say what holds without them. A canceled run does not count for
`OneAtATime`: its status is terminal, so the next run dispatches while its job may still be stopping. The
comment at `pkg/domain/pipeline.go:130-132` promises both "at most one run executes at a time" and that the
next one goes once the current one "reaches a terminal status"; the code keeps the second.

### RunEffects

One run through its lives (`service_generation`). Three kinds of effects with their claims; a worker
fires, reads the generation, sends the cleanup frame and marks. On the agent, cleanup frames of a run
coalesce and the sweep deletes pods up to a generation. `RevivedPodsSurvive` is an action property: no
step takes the pods of the current generation from an active run.

### RolloutWatch

A watcher works on the row it read with its claim; every write is fenced on the claim, the patch of the
canary is not. Health is drawn at each observation. `Outsiders` lets somebody else promote the canary.

### LogPath

A line is an execution and a number. Each execution has its session's batcher; the archive request follows
the lines through the same channel (`Barrier`). Archive key and cache are per job. A new execution begins by
rerun or reclaim, which clear rows and pointer (`NewAttempt`), or by the revival of a canceled job behind a
rerun, which keeps both (`ReviveTail`). `crossed`, `clobbered`, `keyed` and `carried` remember the four
situations in which the code does lose lines or show old ones: an execution begun under the archiver, two
workers of which one failed to stamp, one key written for two executions, and a revival that left an archive
pointer or lines behind.

### Triggers and MergeGroups

A push delivery inserts the modification and creates the run in two transactions, per material, and only
if the insert was its own; the poller uses the same steps and creates the run in any case. The provider
delivers late, twice or never. In `MergeGroups` the modification and the run are one transaction under
the lock of the entry, and so are tombstone and cancel.

## Runs

Deadlock is not checked: a run that has closed, an agent that stays away and a branch without commits may
stop.

| Run | Shows | Bounds |
|---|---|---|
| `run_ship` | stage and needs order, drained stages, sound verdicts, fitting notifications, no wedge, every run closes | 3 stages, 4 jobs, a deploy on an agent or native, 1 agent, 1 cancel, 1 loss, 1 reclaim; fairness |
| `run_release` | contract, dispatch bound, owners, gates, cancels, final statuses | build, gate, retry-unsafe deploy, native or not; 1 rerun, cancel, loss, reclaim |
| `sess_restart` | results are current, slots balance | 2 processes, overlapping, 1 late agent, 1 rerun |
| `sess_live` | jobs settle, a session implies an online row, cancels settle, slots return | capacity 2; 2 processes in turn, 2 claims, 1 loss; or 1 process, 3 claims, 1 cancel, rerun, revival, loss; fairness |
| `control_plane` | the properties of the parts below | per part, fairness |
| `run_early_reject` (violation) | rejecting a gate early wedges the run | *gated*, nothing else goes wrong |
| `run_rerun_tail` (violation) | a revived tail runs past a failed stage | *chain*, 1 rerun |
| `run_cancel_notify` (violation) | a run cancel strands notifications | *ship*, 1 cancel, fairness |
| `sess_cancel_restart` (violation) | a pending cancel is lost when the agent restarts | 2 processes in turn, 1 cancel, fairness |
| `sess_fenced` (violation) | a fenced live agent never comes back | 1 process, 1 late heartbeat, fairness |
| `serial_wedge` (violation) | two running runs of a serial pipeline wait for each other | 3 runs, 1 scheduler, 1 rerun, fairness |
| `rollout_repromote` (violation) | a repeated promotion leaves an unapproved pause | 2 pauses, 2 watchers, 1 mishap |

The parts of `control_plane`:

| Part | Properties | Bounds |
|---|---|---|
| graph | `GraphSound` | every definition of two gates and a deploy or migration over three stages, any needs |
| lane | `MarkersMatchGates`, `GatesBeforeDeploys`, `NoStaleDeploy`, `FrozenAdmitsNothing` | 2 runs; build, 2 gates, deploy; 2 approvers, 1 dispatcher, 1 freeze, cancel, rerun or rollback |
| approval | `QuorumSinceArmed`, `ExpirySparesHeld`, `AbandonedGatesExpire` | 2 gates, one that never expires; quorum 2; users and requests without one; 2 armings, 1 freeze, 1 candidate per sweep |
| effects | `RevivedPodsSurvive`, `EffectsCompleted` | 2 replicas, 1 revival, 1 crash or disconnect |
| serial | `OneAtATime`, `SerialRunsClose` | 2 runs of 2 stages, 2 schedulers, 1 rerun, 1 cancel, 1 failing query or tick cut short |
| rollout | `PromoteIsApproved`, `GatedDeployEnds` | 2 pauses, 2 watchers, quorum 2, 1 mishap |
| triggers | `PushRunsOnce`, `HeadsAreRun` | 2 commits, 2 requests, 1 poller, 1 fault |
| log | `LogsIntact` | 2 executions of 2 lines, a channel of 2, a submit queue of 1, 1 archiver, 1 fault |
| drain | `ShutdownSound` | 2 jobs, an outbound queue of 1 |
| groups | `DestroyedStaysClosed` | 2 pipelines, 2 deliveries, 1 fault |

One agent is enough for `RunLifecycle`: agents only appear in comparisons with the snapshot, and the
dangerous case is the *same* agent holding an old and a new attempt. One request or failure of a kind already
meets every step of the others; two stages with a barrier, a needs edge inside a stage and a notification
stage exercise each branch of the cascade. With one job and capacity one (`sess_restart`) a leaked or doubled
slot shows at once; capacity two (`sess_live`) lets a job be claimed again while the slot of its last
execution is still counted, which is where a dispatch is taken for a duplicate. Two processes are needed for
a successor, and a third adds only a longer chain. Queues of one are full after one item, which is the case
that blocks. Two replicas, watchers or requests are what a lease, a lock or a unique key tells apart.
Constants named `Max...`, `...Cap` and `LaneBudget` are the bounds; `MaxClaims` ends a session run after two
to four claims of its one job. With one poller two replicas do not poll against each other. With one archiver
two workers do not race for a stamp in the run. The proofs are not bound by any of this: they hold for any
number of archivers, jobs, replicas, watchers and for queues of any length.

Where a property is checked in a restricted setting, the restriction is part of what was learned:

* `OrderHonoured`, `ClosedStageIsDrained`, `NoWedgedRun`, `RunVerdictSound` and `NotifyFitsOutcome` are
  about runs without reruns: a rerun reopens one job and leaves what was built on it. `NotifyFitsOutcome`
  holds as long as nobody cancels: a run cancel can let a notification be judged while a job still runs.
* `RunCloses` has one way out, `LostCancel`: a canceled job whose agent died and was back before the reaper
  looked. The reaper's query passes over it and the replayed cancel is ignored (`sess_cancel_restart`).
* `RunningIsOwned` allows a running row with neither agent nor watch only where the watch was deleted by hand.
* `JobsSettle` and `CancelSettles` leave out a claim that no agent was sent because its hand-over passed for a
  duplicate (`Muted`).
* `JobsSettle` and `SessionImpliesOnline` are checked where Register calls of one agent id do not
  overlap. If they do (`Overlap = TRUE`), a session can be superseded after the other call's reclaim, and
  its job stays running on an agent that looks healthy; an older stream's offline mark can also hit a
  session that was published later.
* `SingleSlotReturns` and `CancelSettles` are checked with one process that is never wrongly taken for
  stale. A result whose row moved on frees nothing, so a wrong verdict on a canceled job, or a restart
  between claim and hand-over, costs the session a slot for the rest of its life.
* `ResultIsCurrent` is checked without revivals, which keep the attempt of the row.
* `GatesBeforeDeploys` is about runs nobody reran. A rerun of a deploy behind a gate that was canceled or
  rejected starts it: the gate's stage is settled, and only re-armed gates are waited for.
* `NoStaleDeploy`, `OneAtATime`, `SerialRunsClose` and `LogsIntact` name their exceptions through the
  history variables described above; `DestroyedStaysClosed` is about runs nobody reruns.

## Fairness

`RunLifecycle`: the scheduler loop, the reaper and the result handler run on timers and streams and are
weakly fair. Starting some job and handing over a claim are strongly fair: idle agents come and go,
so each is enabled again and again rather than for ever, and the assumption is that a matching agent
turns up and does not refuse every time. A live execution is answered; an abandoned one is noticed by the
reaper, whose staleness window passes. A pending cancel is reclaimed for certain only while its agent is
away, since `ReclaimPendingCancelsForOfflineAgent` skips a healthy one; an agent that is away comes back. A
watch is finalised, at the latest on its deadline. Humans are not assumed to do anything.

`AgentSessions`: handlers, pump, heartbeat and reaper are weakly fair, a live job finishes, a process
that is shutting down exits, and the staleness window of an agent without a process passes. Processes are
not assumed to start, and `AssignJob` is not assumed to happen.

`ApprovalGate`: the sweep ticks, a transaction that holds a freeze lock commits. `RunEffects`: the workers
tick, leases lapse, the agent reconnects. `SerialPipeline`: the schedulers tick and jobs end.
`RolloutWatch`: the watchers tick, leases and deadlines run out; nobody is assumed to vote. `Triggers`: the
poller ticks; nothing is assumed of the provider or of a request. All are tickers of the server
(`Run` loops) or clocks. Progress is stated as `[]<>`: the good state is reached again and again, whatever
people do in between.

## Proofs

Every theorem is about the specification TLC runs, for every value of the constants its `ASSUME` admits.
Each safety property of a passing run, invariant or action property, is proved.

### Rows of a run (`RunLifecycleProofs`, with `JobContract`)

* `TypeCorrect`, `RunningHasOwner`, `GatesHold` and `DispatchIsBounded` (invariants);
* `CancelIsHonoured` and `FinishedStaysFinal` (action properties);
* `RunRefinesContract`: `Spec => RowContract`.

`DispatchBounded` is not inductive: it says nothing of a claim that is about to be handed over or of a queued
row that will be claimed. `JobContract!Metered` counts both (`Spent`) against what the attempts and requests
so far allow (`Granted`), and needs `GatesParked`, `OnlyGatesWait` and `Owned` beside it; this is
`ContractInv`. `RunInv` adds types, that a claim names a job and an agent, and `Answered`: a running row
without an agent has, or had until somebody deleted it, a watch of this very attempt. That one is carried by
the reaper's and the cancel sweep's guards, by `FinalizeDeployWatch` ending row and watch together, and by
the queued row that a takeover needs. `JobContract` proves that each move keeps `ContractInv`;
`RunLifecycleProofs` proves, action by action, that a step is typed (`...Type` lemmas) and moves each row by
the contract (`...Moves` lemmas). So the meter is argued about once, for nine moves, and not for some thirty
actions. Types and the contract are proved together because a reclaim snapshot is only well typed if running
rows have an agent.

### Stages of a run (`RunLifecycleProofs`, second half)

`OrderIsHonoured`, `VerdictIsSound`, `ClosedStagesDrain`, `RunsDoNotWedge`, `NotificationsFit`.

A scheduler tick decides on what it read some transactions ago. What makes that safe is that closed stages
stay closed and successful needs stay successful while nobody reruns: `OrderInv` says so of every candidate
of the tick (`CandidatesInTurn`), of its claim, of its snapshot of needs, of what has started and of every
watch, which may outlive its row (`WatchedInTurn`).
`VerdictInv` adds that behind a closed stage of an open run everything is finished or some user job
failed, so the stage that closes last computes the right verdict. `DrainInv` names the one thing a closed
stage may still hold, a stamped job of a canceled stage; `WedgeInv` says that an open run has an open stage
and each open stage a job to finish; `NotifyInv` that the outcome a tick has cached is final. The cascade
is reduced once to three outcomes (`StageStays` and its siblings) and each invariant is proved against
these and not against the cascade.

The hypotheses are part of the statements:

* `NoRerunYet`: as in the runs, a rerun reopens the past (`run_rerun_tail`).
* `GatesFirst` (draining, wedging, notifications): a gate behind the first stage can be rejected before its
  stage is reached, which closes stages with jobs still on agents (`run_early_reject`). The attempt to prove
  `NoWedgedRun` without it fails exactly there.
* `NoEmptyStage` (wedging): the rollup runs on behalf of a job, so nothing closes a stage without jobs, and
  the parser accepts such a stage (`pkg/parser/parse.go`). This came out of the proof.

### Sessions (`AgentProofs`)

`SessionsAreTyped`, `CapacityIsRespected`, `ResultsAreCurrent`, `SessionsAreOnline`.

An assignment that a session let go of is in one place: the queue to the agent, the process, the stream
back or the handler of its result. `SessionInv` follows that one copy (`QueuedOnce`, `OneCopy`, `HandedOnce`)
and says that the session still counts it (`CopiesHeld`, `SlotsCount`, `ClaimHasSlot`), so slots are the
cardinality of the assignments. `ResultIsCurrent` then needs that an attempt is handed out at most once,
which is true until a canceled row is revived with the attempt it had (`NoRevivalYet`; see Findings for
what happens then). `SessionsAreOnline` holds where Register calls of one agent do not overlap
(`Overlap = FALSE`): the newest session then has the newest generation, and the offline mark of an older
stream, which is compared with the generation, misses.

### Definitions (`GraphProofs`)

`GraphsAreSound` (invariant), and about the operators `ClosureIsReachability`, `CycleCheckIsExact`.

These are inductions over the needs of a definition, and the prover cannot instantiate an induction theorem.
They are done with sets instead: a family of subsets of a finite set has a minimal member
(`MinimalSubset`, from the library's well-founded orders), and so has a set of numbers (`LeastNatural`).
`transitivelyNeeds` collects needs until nothing is added; as each round before the last adds a job, as many
rounds as there are jobs are enough, so what it returns contains the needs of its members
(`ClosureIsClosed`) and is the least such set (`ClosureIsLeast`). An accepted definition then has, in
every set of jobs, one that needs none of the others: the one with the smallest closure. That is
what keeps an execution moving (`AcceptedNeverStuck`), and the converse shows that the cycle check refuses
nothing it need not. Stages and needs together are a strict order (`PrecedesIsStrictOrder`), a last gate
of a set stands above each of its members (`LastAbove`), and so shadowed gates are covered.

### Lanes (`DeployLaneProofs`, `ControlPlaneProofs`)

`MarkersAgreeWithGates`, `DeploysWaitForGates` (invariants), `HandedDeploysAreCurrent`,
`FreezesAreRespected` (action properties). `LaneInv` says who holds which advisory lock in which step, and
which of the facts read before the lock still stand: an approval that decided still finds its gate awaiting
(`DecisionsStand`, `OneDecision`), a dispatch past its guard still finds no newer marker unless a rerun
revived a run beside it (`GuardsHold`), one past its freeze check still finds the environment open
(`ChecksHold`).

For `GatesBeforeDeploys` it is not enough that started jobs have their gates: a queued job could be let go
by a stage that settled without its gate passing. `OrderInv` adds that no job waits behind a canceled gate,
and none behind a rejected one unless its stage still has a live job (`NoneBehind`), and that a dispatch
between guard and claim has what its job needs (`DispatchOpened`). The last step is about the graph: a gate
may be approved before what it needs, so a started job knows only its direct needs. Among the jobs between
the gate and the deploy that have started, take one that needs none of the others; it lists the gate, or
lists another gate which stands closer, and then the first one does not govern the deploy
(`GoverningGatePassed`). This is where `governingGatesForJob` must keep the closest gate.

### Votes (`AdmissionProofs`)

`QuorumsAreOfThisRound`, `ExpiryIsFair`, `PromotionsAreApproved`. Votes are stored by job and outlive a
round, so `QuorumInv` says that the stored votes are those of this arming, and that only a server without
auth has a gate that passed without them. A watcher promotes on a copy of
the row that may be stale: `RolloutInv` says that what a copy carries, a gate with a decision, was endorsed
by enough voters of that very gate, and that endorsements are never taken back (`EndorsementStays`).

### Intake (`AdmissionProofs`)

`DestroyedIsFinal`, `PushesRunOnce`, `SerialRunsAlone`. For pushes, a key in `modifications` is a permit
that one request took (`Permits`): whoever is creating the run is alone. For a serial pipeline `SerialInv`
says, as long as no two schedulers passed the gate together, that only one run is inside the gate and that a
live run with a job out is visible to every gate query, or inside the tick that will mark it, or was left
unmarked by a tick cut short.

### Outcomes (`OutcomeProofs`)

* `RevivedRunsKeepTheirPods`: a generation number travels from the row into a claim, a frame, the agent's
  queue and a sweep, and each copy may outlive the ending it was read from. `CleanupInv` says that every copy
  is spent, below the generation of a run that is alive (`CleanupsAreSpent`).
* `LogsAreIntact`: the archive request follows the lines through their channel, so an attempt whose request
  was taken has none left to flush (`BarriersLast`); an archive written from a drained attempt is complete,
  and rows are missing only where a stamped archive has them (`ArchiveComplete`). The stale pointer of a
  revived job breaks the last part, and the invariant says so by `carried`.
* `ShutdownsAreSound`: each job makes one result, which is in one place (`OneResult`); results behind the
  cutoff are of suppressed jobs only, nothing stands behind the last barrier, and no other result is
  lost before the drain is given up (`Verdicts`, `BehindBarriers`, `Accounted`).

### The composition (`ControlPlaneProofs`)

`CompositionImplementsParts`, `EverythingIsTyped`, `ControlPlaneIsSafe`. A step of `MCControlPlane` is, for
every part, a step of that part or none; so the invariants of the parts are invariants of the composition,
and the last theorem states the safety properties of the `control_plane` run together. To
that end each invariant is proved from the steps of its part alone (`ApprovalSteps`, `TriggersSteps` and
their siblings), without its fairness. `TypeOK` adds what those invariants leave out, and two bounds that
take an argument: a channel is written only where there is room, and a sweep of the expirer judges at most
its scan cap. A page holds the first `n` gates behind the cursor; keys of gates are totally ordered, so their
ranks differ and at most `n` of them are below `n` (`PageIsShort`), and what was judged and what is left on
the page never exceed the cap (`SweepTyped`).

### Assumptions

The `ASSUME`s are well-formedness of the constants and what the code ensures: notification jobs stand in
the last stage (it is appended by the server), the target of a deploy job is its deploy environment
(`pkg/domain/pipeline.go`), a definition has finitely many jobs in declared stages and its gates declare
neither `deploy:` nor `environment:` (`IsDefinition`, from the parser), every gate is armed at least once
(`MaxArms > 0`), and model values such as `None`,
`NoGate` or `NoLines` differ from what they stand beside. `AgentSessions` assumes finitely many jobs, because
slots are counted.

`AuthDisabled` is a constant and not assumed either way: with `FALSE` the exception of `QuorumSinceArmed` is
empty.

The proofs also changed two definitions. `AgentDrain!TakeItem` was a `CASE` whose guards overlapped, so
TLC's choice of the first was not what the formula said; it is an `IF` now. `AgentSessions!ReplayCancels`
took pending cancels in one fixed order; the query has no `ORDER BY`, so any order is possible.

### Only model-checked

* Liveness (`RunCloses`, `JobsSettle` and the other `[]<>` properties): it rests on fairness and
  ENABLED, which the prover does not do.
* The violation runs, whose properties are false.

No module uses a recursive operator; the needs closure is a recursive function.

## Findings

Seven runs show the code doing something else than a comment or document says; `PROJECT.json` quotes the
lines: an early rejection wedges the run; a revived tail is not culled; a run cancel strands
notifications; a replayed cancel does not end the job after a restart; a fenced agent does not come back;
a rerun beside an open run stops a serial pipeline; a repeated promotion is not idempotent.

Three more came out of widening the models. No run is about them; a property names each as its exception:

* A revived job keeps its attempt. Claimed again by the session that still holds the entry of its canceled
  execution, it is taken for a duplicate (`sessions.go:658-662`): nothing is sent and the row stays running on
  an agent that heartbeats and never got it (`muted` in `AgentSessions`).
* A revived job also keeps its archive pointer and lines. The reconcile pass then takes the new execution's
  lines for leftovers of the old archive and deletes them (`carried` in `LogPath`).
* A canceled run of a serial pipeline makes room while its job still runs (`stopping` in `SerialPipeline`).

Modelling also showed exposures no run is about; they are listed under `hazards` with a note: a failed
push delivery is answered with an error so that the provider retries, but the retry is a duplicate; the
poller and cron can create two runs of one trigger; downstream fan-out is not retried; a rerun ignores the
lane lock and the merge group's tombstone; the archiver and its cache do not know attempts. A revival keeps
the attempt of the row: with a cancel, a revival and a restart of the agent (`MaxCancels`, `MaxRevivals` and
`MaxStale` of `SessRestart.cfg` at 1) TLC finds `ResultIsCurrent` violated, when a result handler past its
revoked check commits after the row was canceled, revived and claimed again by the same agent.

## Plan

1. Done: the modules above.
2. Done: the safety properties of the runs, proved, with the graph of a definition and the composition.
3. Next proofs: what an exception costs (the properties that hold after a rerun, a revival or an overlap).
4. Models: cron and pull requests beside `Triggers`, fan-out to downstream pipelines, rollback of native
   deploys, the execution of one job on the agent.

## Not modelled

* Fan-out to downstream pipelines: one find-then-insert behind a committed stage. What can go wrong is a
  missing or doubled call, visible in the code without a state space.
* Cron, tags and pull requests: the same two steps as in `Triggers`, with other keys.
* Signatures, parsing, config sync, secrets, OIDC, artifacts, caches, analytics, the HTTP API: translation
  and storage of data, without protocol state shared with the above.
* The checks reporter and notifications: best-effort calls whose result decides nothing.
* Engines: pods and processes; their outcomes (done, canceled, disrupted) are inputs of the models.
* Generated code (`proto/gen`, `db/*.sql.go`), the CLI, the web UI, plugins and charts. Together with the
  parts above this is most of the repository's lines, which is why the share of lines the models stand
  for is small while the share of the scheduling core is large.
