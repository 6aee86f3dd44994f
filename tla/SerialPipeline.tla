---------------------------- MODULE SerialPipeline ----------------------------
(***************************************************************************)
(* concurrency: serial.  A scheduler that considers a run of a serial      *)
(* pipeline looks for another run of it that reads running and, if there   *)
(* is one, leaves this run for a later tick.  The gate is asked on every   *)
(* tick, also for a run that is already running and waits to have its next *)
(* stage dispatched, and a queued run only reads running at the end of the *)
(* tick that dispatched its first job.                                     *)
(*                                                                         *)
(* Several situations break the scheme, and the model keeps them all: a    *)
(* rerun reopens a finished run while another one is running, two replicas *)
(* are inside dispatchRun at once or the gate's query fails, the tick that *)
(* sent a job out never marks its run, and a cancel (of a user, of a newer *)
(* run that supersedes it or of a destroyed merge group) ends the run at   *)
(* once while its job is still on the agent.  The histories reopened and   *)
(* overlapped remember the first two, Unmarked and the job's own state     *)
(* tell the others.  A rerun is asked for a job whose earlier stages ran.  *)
(***************************************************************************)
EXTENDS Integers, FiniteSets

CONSTANTS
    SerialRuns,       \* runs of one serial pipeline
    LastStage,        \* each has stages 1..LastStage, of one job each
    Schedulers,       \* replicas
    MaxReopens,       \* bound: reruns of a job
    MaxSerialCancels, \* bound: runs canceled or superseded
    MaxSerialFaults,  \* bound: gate queries that fail, ticks cut short
    NoRun             \* a scheduler that considers no run

ASSUME SerialAssumption ==
    /\ LastStage \in Nat \ {0}
    /\ {MaxReopens, MaxSerialCancels, MaxSerialFaults} \subseteq Nat
    /\ NoRun \notin SerialRuns

VARIABLES
    sRun,        \* runs.status: queued, running, finished or canceled
    sJob,        \* per stage its job: queued, out (on an agent), stopping (on an
                 \* agent and stamped), closed or dropped (canceled)
    tick,        \* per scheduler: the run and stage it dispatches, and how far it is
    overlapped,  \* history: two runs were past the gate at once, or its query failed
    reopened,    \* history: a run was reopened while another was running
    reopens,     \* reruns so far
    cancels,     \* cancels so far
    serialFaults \* faults so far

serialVars == <<sRun, sJob, tick, overlapped, reopened, reopens, cancels, serialFaults>>

Stages == 1..LastStage
Idle == [run |-> NoRun, stage |-> 1, at |-> "idle"]

SerialInit ==
    /\ sRun = [r \in SerialRuns |-> "queued"]
    /\ sJob = [r \in SerialRuns |-> [k \in Stages |-> "queued"]]
    /\ tick = [s \in Schedulers |-> Idle]
    /\ overlapped = FALSE
    /\ reopened = FALSE
    /\ reopens = 0
    /\ cancels = 0
    /\ serialFaults = 0

SerialBusyAnyOpen(r) == \E o \in SerialRuns \ {r} : sRun[o] \in {"queued", "running"}

SerialBusyNever(r) == FALSE

\* OtherRunningRunForPipeline
SerialBusy(r) == \E o \in SerialRuns \ {r} : sRun[o] = "running"

\* ListDispatchableJobs: the queued job of the lowest stage that is not done.
Dispatchable(r, k) ==
    /\ sRun[r] \in {"queued", "running"} /\ sJob[r][k] = "queued"
    /\ \A e \in 1..(k - 1) : sJob[r][e] \in {"closed", "dropped"}

\* dispatchRun up to the gate: a busy pipeline ends the tick for this run, as
\* does a run without a queued job.
PassSerialGate(s, r) ==
    /\ tick[s] = Idle
    /\ ~SerialBusy(r)
    /\ \E k \in Stages : /\ Dispatchable(r, k)
                         /\ tick' = [tick EXCEPT ![s] = [run |-> r, stage |-> k, at |-> "gated"]]
    /\ overlapped' = (overlapped \/ \E o \in Schedulers : tick[o].run \notin {NoRun, r})
    /\ UNCHANGED <<sRun, sJob, reopened, reopens, cancels, serialFaults>>

\* When the gate's query fails the run goes on as if the pipeline were free.
PassFailedGate(s, r) ==
    /\ serialFaults < MaxSerialFaults
    /\ tick[s] = Idle
    /\ \E k \in Stages : /\ Dispatchable(r, k)
                         /\ tick' = [tick EXCEPT ![s] = [run |-> r, stage |-> k, at |-> "gated"]]
    /\ overlapped' = TRUE
    /\ serialFaults' = serialFaults + 1
    /\ UNCHANGED <<sRun, sJob, reopened, reopens, cancels>>

\* AssignJob takes the row only while it is queued.
AssignSerialJob(s) ==
    LET t == tick[s]
    IN /\ t.at = "gated"
       /\ IF sJob[t.run][t.stage] = "queued"
          THEN /\ sJob' = [sJob EXCEPT ![t.run][t.stage] = "out"]
               /\ tick' = [tick EXCEPT ![s].at = "assigned"]
          ELSE /\ tick' = [tick EXCEPT ![s] = Idle]
               /\ UNCHANGED sJob
       /\ UNCHANGED <<sRun, overlapped, reopened, reopens, cancels, serialFaults>>

\* MarkRunRunningIfQueued, at the end of a tick that dispatched something.
MarkRunRunning(s) ==
    /\ tick[s].at = "assigned"
    /\ sRun' = [sRun EXCEPT ![tick[s].run] = IF @ = "queued" THEN "running" ELSE @]
    /\ tick' = [tick EXCEPT ![s] = Idle]
    /\ UNCHANGED <<sJob, overlapped, reopened, reopens, cancels, serialFaults>>

\* The scheduler dies inside the tick, or MarkRunRunning fails, which is only
\* logged: the job may be out and the run still read queued.
CutTickShort(s) ==
    /\ serialFaults < MaxSerialFaults
    /\ tick[s] # Idle
    /\ tick' = [tick EXCEPT ![s] = Idle]
    /\ serialFaults' = serialFaults + 1
    /\ UNCHANGED <<sRun, sJob, overlapped, reopened, reopens, cancels>>

\* The jobs of run r with that of stage k ended and, if it failed, every queued
\* one canceled.  The result of a stamped job reads canceled.
Ended(r, k, st) ==
    [e \in Stages |->
        IF e = k THEN IF sJob[r][k] = "stopping" THEN "dropped" ELSE "closed"
        ELSE IF sJob[r][k] = "out" /\ st = "failed" /\ sJob[r][e] = "queued" THEN "dropped"
        ELSE sJob[r][e]]

\* The agent's result closes the stage; when nothing of an open run is left the
\* run closes.  An agent can be quicker than the rest of the tick.
EndSerialJob(r, k, st) ==
    LET jobs == Ended(r, k, st)
    IN /\ sJob[r][k] \in {"out", "stopping"}
       /\ sJob' = [sJob EXCEPT ![r] = jobs]
       /\ sRun' = [sRun EXCEPT ![r] =
             IF @ \in {"queued", "running"} /\ \A e \in Stages : jobs[e] \in {"closed", "dropped"}
             THEN "finished" ELSE @]
       /\ UNCHANGED <<tick, overlapped, reopened, reopens, cancels, serialFaults>>

\* CancelRun, supersede and a destroyed merge group: queued jobs end, running
\* ones are stamped and stay, and the run reads canceled at once.
CancelSerialRun(r) ==
    /\ cancels < MaxSerialCancels
    /\ sRun[r] \in {"queued", "running"}
    /\ sRun' = [sRun EXCEPT ![r] = "canceled"]
    /\ sJob' = [sJob EXCEPT ![r] = [k \in Stages |->
                   CASE sJob[r][k] = "queued" -> "dropped"
                     [] sJob[r][k] = "out" -> "stopping"
                     [] OTHER -> sJob[r][k]]]
    /\ cancels' = cancels + 1
    /\ UNCHANGED <<tick, overlapped, reopened, reopens, serialFaults>>

\* RerunJob: the job and the canceled ones after it are queued again, and a run
\* that had ended reads running, whatever else runs.
ReopenRun(r, k) ==
    LET ended == sRun[r] \in {"finished", "canceled"}
    IN /\ reopens < MaxReopens
       /\ sJob[r][k] \in {"closed", "dropped"} /\ \A e \in 1..(k - 1) : sJob[r][e] = "closed"
       /\ sRun' = [sRun EXCEPT ![r] = IF ended THEN "running" ELSE @]
       /\ sJob' = [sJob EXCEPT ![r] = [e \in Stages |->
                      IF e = k \/ (e > k /\ sJob[r][e] = "dropped") THEN "queued" ELSE sJob[r][e]]]
       /\ reopened' = (reopened \/ (ended /\ (SerialBusy(r) \/ \E s \in Schedulers : tick[s] # Idle)))
       /\ reopens' = reopens + 1
       /\ UNCHANGED <<tick, overlapped, cancels, serialFaults>>

SerialNext ==
    \/ \E s \in Schedulers : \/ \E r \in SerialRuns : PassSerialGate(s, r) \/ PassFailedGate(s, r)
                             \/ AssignSerialJob(s) \/ MarkRunRunning(s) \/ CutTickShort(s)
    \/ \E r \in SerialRuns :
        \/ CancelSerialRun(r)
        \/ \E k \in Stages : \/ ReopenRun(r, k)
                             \/ \E st \in {"success", "failed"} : EndSerialJob(r, k, st)

\* The tick reconsiders every open run, and agents return results.
SerialStep ==
    \/ \E s \in Schedulers : \/ \E r \in SerialRuns : PassSerialGate(s, r)
                             \/ AssignSerialJob(s) \/ MarkRunRunning(s)
    \/ \E r \in SerialRuns, k \in Stages, st \in {"success", "failed"} : EndSerialJob(r, k, st)

SerialSpec == SerialInit /\ [][SerialNext]_serialVars /\ WF_serialVars(SerialStep)

-----------------------------------------------------------------------------
SerialTypeOK ==
    /\ sRun \in [SerialRuns -> {"queued", "running", "finished", "canceled"}]
    /\ sJob \in [SerialRuns -> [Stages -> {"queued", "out", "stopping", "closed", "dropped"}]]
    /\ tick \in [Schedulers -> [run : SerialRuns \cup {NoRun}, stage : Stages,
                                at : {"idle", "gated", "assigned"}]]
    /\ overlapped \in BOOLEAN /\ reopened \in BOOLEAN /\ reopens \in 0..MaxReopens
    /\ cancels \in 0..MaxSerialCancels /\ serialFaults \in 0..MaxSerialFaults

\* A job of the run is on an agent, and nobody asked to stop it.
Executing(r) == \E k \in Stages : sJob[r][k] = "out"

\* The run reads queued and the tick that could have marked it is gone.
Unmarked(r) ==
    /\ sRun[r] = "queued"
    /\ \A s \in Schedulers : ~(tick[s].run = r /\ tick[s].at = "assigned")

(***************************************************************************)
(* "At most one run executes at a time" (domain.ConcurrencySerial): two    *)
(* runs execute at once only when the tick of one of them was cut short    *)
(* before it marked the run, or after two replicas were past the gate      *)
(* together or a gate query failed.  A run that was canceled no longer     *)
(* counts, although its job may take long to stop; a rerun alone does not  *)
(* cause it, whatever run it reopens.                                      *)
(***************************************************************************)
OneAtATime ==
    \/ \A r, q \in SerialRuns :
          Executing(r) /\ Executing(q) => r = q \/ Unmarked(r) \/ Unmarked(q)
    \/ overlapped

(***************************************************************************)
(* "Additional runs stay queued until the current one reaches a terminal   *)
(* status, then the next queued one dispatches": a run that is open closes *)
(* in the end, unless two runs came to read running together, by an        *)
(* overlap or by a rerun beside an open run.  They then wait for each      *)
(* other at the gate for ever.                                             *)
(***************************************************************************)
SerialSettled(r) == sRun[r] \in {"finished", "canceled"} \/ overlapped \/ reopened

(***************************************************************************)
(* The same sentence taken at its word: a queued run of a serial pipeline  *)
(* dispatches in the end.  It does not hold, with one scheduler and no     *)
(* failure: a job of a finished run is rerun while the next run is         *)
(* between two stages, both read running, each holds the other back at     *)
(* the gate, and the queue behind them never moves.                        *)
(***************************************************************************)
QueuedRunDispatches ==
    \A r \in SerialRuns : sRun[r] = "queued" ~> \E k \in Stages : sJob[r][k] = "out"
=============================================================================
