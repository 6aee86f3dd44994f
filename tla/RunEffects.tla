------------------------------ MODULE RunEffects ------------------------------
(***************************************************************************)
(* What happens outside the database after a run ended: the effects that a *)
(* scheduler replica claims under a lease, does, and marks done, replayed  *)
(* on the tick until they are; and the destructive one of them, tearing    *)
(* down the run's service pods, racing a rerun that revives the run.       *)
(*                                                                         *)
(* One run is followed through its lives.  Its service_generation counts   *)
(* the lives, each pod carries the generation it was started under.  The   *)
(* three kinds of effects are the three ways a run ends: completed or      *)
(* canceled ("generic"), superseded by a newer run of its lane, or         *)
(* canceled because its merge group was destroyed.                         *)
(***************************************************************************)
EXTENDS Integers, FiniteSets

CONSTANTS
    Replicas,     \* the servers running the effect workers
    MaxLives,     \* bound: highest service_generation
    MaxOutages,   \* bound: replica crashes and agent disconnects, together
    NoClaim       \* an idle worker

ASSUME EffectsAssumption == MaxLives \in Nat /\ MaxOutages \in Nat

Larger(a, b) == IF a > b THEN a ELSE b

Kinds == {"generic", "superseded", "destroyed"}
Generations == 0..MaxLives

VARIABLES
    ended,        \* how the run ended, or "active"
    generation,   \* runs.service_generation
    effect,       \* per kind: required, claim (none, live or lapsed), done
    worker,       \* per replica: the effects it holds, or NoClaim
    frames,       \* cleanup frames on their way to the agent
    linked,       \* the agent has a session
    pods,         \* generations with service pods alive
    cleanup,      \* the agent's cleanup entry of this run
    outages       \* outages so far

runRow == <<ended, generation, effect>>
agentSide == <<pods, cleanup>>
effectsVars == <<ended, generation, effect, worker, frames, linked,
                 pods, cleanup, outages>>

NoEffect == [required |-> FALSE, claim |-> "none", done |-> FALSE]
NoCleanup == [pending |-> FALSE, max |-> 0, processed |-> -1, sweeping |-> FALSE, sweep |-> 0]

EffectsInit ==
    /\ ended = "active"
    /\ generation = 0
    /\ effect = [k \in Kinds |-> NoEffect]
    /\ worker = [r \in Replicas |-> NoClaim]
    /\ frames = {}
    /\ linked = TRUE
    /\ pods = {}
    /\ cleanup = NoCleanup
    /\ outages = 0

(***************************************************************************)
(* The run row: it ends in one of three ways, and a rerun revives it.      *)
(***************************************************************************)

\* CompleteRun and CancelActiveRun ask for the generic effects; the result
\* handler, the cancel endpoint and the expirer also try a cleanup of their
\* own, once, with the generation the ending transaction read.
CompleteRun ==
    /\ ended = "active"
    /\ ended' = "generic"
    /\ effect' = [effect EXCEPT !["generic"] = [NoEffect EXCEPT !.required = TRUE]]
    /\ frames' \in {frames, frames \cup {generation}}
    /\ UNCHANGED <<generation, worker, linked, agentSide, outages>>

\* SupersedeRun stamps superseded_by; the effect columns are left as they are.
SupersedeRun ==
    /\ ended = "active"
    /\ ended' = "superseded"
    /\ UNCHANGED <<generation, effect, worker, frames, linked, agentSide, outages>>

\* CancelMergeGroupRuns clears its own effect columns as it ends the run.
CancelMergeGroup ==
    /\ ended = "active"
    /\ ended' = "destroyed"
    /\ effect' = [effect EXCEPT !["destroyed"] = NoEffect]
    /\ UNCHANGED <<generation, worker, frames, linked, agentSide, outages>>

ReviveRunSameGeneration ==
    /\ ended # "active" /\ generation < MaxLives
    /\ ended' = "active"
    /\ effect' = [k \in Kinds |-> NoEffect]
    /\ UNCHANGED <<generation, worker, frames, linked, agentSide, outages>>

\* Only a terminal run is revived, and only then is the generation bumped.
ReviveRun ==
    /\ ended # "active" /\ generation < MaxLives
    /\ ended' = "active"
    /\ effect' = [k \in Kinds |-> NoEffect]
    /\ generation' = generation + 1
    /\ UNCHANGED <<worker, frames, linked, agentSide, outages>>

(***************************************************************************)
(* The effect workers.                                                     *)
(***************************************************************************)

\* The row still stands for an ending of this kind with its effects undone.
Outstanding(k) ==
    /\ ended = k
    /\ k = "generic" => effect[k].required
    /\ ~effect[k].done

ClaimableOnce(k) == Outstanding(k) /\ effect[k].claim = "none"

Claimable(k) == Outstanding(k) /\ effect[k].claim # "live"

\* The claim: one UPDATE under the row lock, returning the generation.  The
\* supersede and merge group workers read their generation later.
Claim(r, k) ==
    /\ worker[r] = NoClaim
    /\ Claimable(k)
    /\ effect' = [effect EXCEPT ![k].claim = "live"]
    /\ worker' = [worker EXCEPT ![r] =
                    [kind |-> k, gen |-> generation, at |-> IF k = "generic" THEN "send" ELSE "read"]]

\* A replica fires on the run's NOTIFY or, when that was lost (the listener's
\* buffer was full, nobody listened), on the tick that lists what is pending.
Fire(r) ==
    /\ \E k \in Kinds : Claim(r, k)
    /\ UNCHANGED <<ended, generation, frames, linked, agentSide, outages>>

\* One row answers both "still superseded?" and "which generation?".
EndedGeneration(k) == IF ended = k /\ (k = "destroyed" => ~effect[k].done)
                      THEN {generation} ELSE {}

ReadGeneration(r) ==
    /\ worker[r] # NoClaim /\ worker[r].at = "read"
    /\ worker' = [worker EXCEPT ![r] =
          IF EndedGeneration(worker[r].kind) = {}
          THEN [@ EXCEPT !.at = "mark"]
          ELSE [@ EXCEPT !.at = "send", !.gen = CHOOSE g \in EndedGeneration(worker[r].kind) : TRUE]]
    /\ UNCHANGED <<runRow, frames, linked, agentSide, outages>>

\* The cleanup goes to every agent of the run and every connected cluster
\* agent; reaching one is enough.  With no session the effects stay undone.
SendCleanup(r) ==
    /\ worker[r] # NoClaim /\ worker[r].at = "send"
    /\ IF linked
       THEN /\ frames' = frames \cup {worker[r].gen}
            /\ worker' = [worker EXCEPT ![r].at = "mark"]
       ELSE /\ worker' = [worker EXCEPT ![r] = NoClaim]
            /\ UNCHANGED frames
    /\ UNCHANGED <<runRow, linked, agentSide, outages>>

\* The generic UPDATE is guarded by the generation of the claim; the other
\* two only by the kind of ending.
MayMark(k, g) ==
    /\ ended = k
    /\ k = "generic" => g = generation /\ effect[k].required /\ effect[k].claim # "none"
                        /\ ~effect[k].done

MarkDone(r) ==
    /\ worker[r] # NoClaim /\ worker[r].at = "mark"
    /\ LET k == worker[r].kind IN
       effect' = IF MayMark(k, worker[r].gen)
                 THEN [effect EXCEPT ![k].done = TRUE,
                                     ![k].required = @ /\ k # "generic"]
                 ELSE effect
    /\ worker' = [worker EXCEPT ![r] = NoClaim]
    /\ UNCHANGED <<ended, generation, frames, linked, agentSide, outages>>

\* A database error anywhere in a worker: it gives up and keeps the claim.
Abandon(r) ==
    /\ outages < MaxOutages
    /\ worker[r] # NoClaim
    /\ worker' = [worker EXCEPT ![r] = NoClaim]
    /\ outages' = outages + 1
    /\ UNCHANGED <<runRow, frames, linked, agentSide>>

\* supersedeEffectsLease passes, whether or not the claimer is still at work.
LeaseLapses ==
    /\ \E k \in Kinds : /\ effect[k].claim = "live"
                        /\ effect' = [effect EXCEPT ![k].claim = "lapsed"]
    /\ UNCHANGED <<ended, generation, worker, frames, linked, agentSide, outages>>

(***************************************************************************)
(* The agent: jobs start service pods, the cleanup queue tears them down.  *)
(***************************************************************************)

\* A session that drops takes the frames it buffered with it.
AgentDrops ==
    /\ linked /\ outages < MaxOutages
    /\ linked' = FALSE
    /\ frames' = {}
    /\ outages' = outages + 1
    /\ UNCHANGED <<runRow, worker, agentSide>>

AgentReturns ==
    /\ ~linked
    /\ linked' = TRUE
    /\ UNCHANGED <<runRow, worker, frames, agentSide, outages>>

\* A job of this life, or one still winding down after it, starts its services
\* under the generation it was assigned with.  (A job of an earlier life only
\* adds pods of an older generation, which no property here tells apart.)
EnsureServices ==
    /\ pods' = pods \cup {generation}
    /\ UNCHANGED <<runRow, worker, frames, linked, cleanup, outages>>

\* A run has one queue entry; a frame that meets it raises its generation.
Coalesced(g) == [cleanup EXCEPT !.max = Larger(@, g)]

EnqueueCleanup(g) ==
    /\ g \in frames
    /\ frames' = frames \ {g}
    /\ IF cleanup.pending
       THEN cleanup' = Coalesced(g)
       ELSE \/ cleanup' = [NoCleanup EXCEPT !.pending = TRUE, !.max = g]
            \/ UNCHANGED cleanup   \* the queue is full of other runs
    /\ UNCHANGED <<runRow, worker, linked, pods, outages>>

\* runCleanup reads the generation under the lock and sweeps without it, until
\* a pass finds nothing higher to do.
SweepBegin ==
    /\ cleanup.pending /\ ~cleanup.sweeping
    /\ cleanup' = IF cleanup.max <= cleanup.processed
                  THEN NoCleanup
                  ELSE [cleanup EXCEPT !.sweeping = TRUE, !.sweep = cleanup.max]
    /\ UNCHANGED <<runRow, worker, frames, linked, pods, outages>>

\* Pods of the sweep's generation and older are deleted; an error ends it.
SweepEnd ==
    /\ cleanup.sweeping
    /\ \/ /\ pods' = {p \in pods : p > cleanup.sweep}
          /\ cleanup' = [cleanup EXCEPT !.sweeping = FALSE, !.processed = cleanup.sweep]
       \/ /\ pods' \in SUBSET pods /\ {p \in pods : p > cleanup.sweep} \subseteq pods'
          /\ cleanup' = NoCleanup
    /\ UNCHANGED <<runRow, worker, frames, linked, outages>>

EffectsNext ==
    \/ CompleteRun \/ SupersedeRun \/ CancelMergeGroup \/ ReviveRun
    \/ \E r \in Replicas : \/ Fire(r) \/ ReadGeneration(r) \/ SendCleanup(r)
                           \/ MarkDone(r) \/ Abandon(r)
    \/ LeaseLapses
    \/ AgentDrops \/ AgentReturns
    \/ EnsureServices
    \/ \E g \in frames : EnqueueCleanup(g)
    \/ SweepBegin \/ SweepEnd

\* The steps whose fairness the scheduler's loop and the clock justify.
WorkerStep == \E r \in Replicas : Fire(r) \/ ReadGeneration(r) \/ SendCleanup(r) \/ MarkDone(r)

EffectsFairness ==
    /\ WF_effectsVars(WorkerStep)
    /\ WF_effectsVars(LeaseLapses)
    /\ WF_effectsVars(AgentReturns)

EffectsSpec == EffectsInit /\ [][EffectsNext]_effectsVars /\ EffectsFairness

-----------------------------------------------------------------------------
EffectsTypeOK ==
    /\ ended \in Kinds \cup {"active"}
    /\ generation \in Generations
    /\ effect \in [Kinds -> [required : BOOLEAN, claim : {"none", "live", "lapsed"}, done : BOOLEAN]]
    /\ \A r \in Replicas : worker[r] = NoClaim \/
         worker[r] \in [kind : Kinds, gen : Generations, at : {"read", "send", "mark"}]
    /\ frames \cup pods \subseteq Generations
    /\ linked \in BOOLEAN
    /\ outages \in 0..MaxOutages

(***************************************************************************)
(* A cleanup never deletes the pods of a run that is alive: however long a *)
(* frame, a claim or an agent's queue entry outlives the ending it belongs *)
(* to, the revived run's pods carry a higher generation                    *)
(* (cleanupSupersededServices, CleanupRunServices).                        *)
(***************************************************************************)
RevivedPodsSurvive ==
    [][ended = "active" /\ generation \in pods => generation \in pods']_effectsVars

(***************************************************************************)
(* Whatever replica dies holding a claim, and whether or not the NOTIFY    *)
(* was lost, the effects of a run that stays ended are done in the end.    *)
(***************************************************************************)
EffectsCompleted ==
    []<>(\A k \in Kinds : ended = k => effect[k].done)
=============================================================================
