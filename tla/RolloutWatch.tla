----------------------------- MODULE RolloutWatch -----------------------------
(***************************************************************************)
(* One native deploy of a gated, rollout-aware target: a canary that stops *)
(* at indefinite pauses, the deploy_watches row, the watchers of several   *)
(* replicas that claim it under a lease, and the people who vote on the    *)
(* gate of each pause.                                                     *)
(*                                                                         *)
(* A watcher works on the row it read when it claimed the watch.  Every    *)
(* write is fenced on the claim, but the patch of the canary is not: it    *)
(* lies between a renewed lease and the mark that it was done.  Health of  *)
(* the application is drawn anew at every observation, and the debounce of *)
(* a degraded one is part of that draw.                                    *)
(***************************************************************************)
EXTENDS Integers, Sequences, FiniteSets

CONSTANTS
    Pauses,      \* indefinite pauses of the canary; past them it is fully promoted
    Watchers,    \* deploy watchers, one per replica
    GateVoters,  \* people who may vote
    GateQuorum,  \* approvals a gate needs
    MaxMishaps,  \* bound: ticks that outlast their lease, failing calls, crashing
                 \* watchers, promotions by somebody else
    Outsiders,   \* does anybody else promote the canary?
    NoWatcher, NoGate

ASSUME RolloutAssumption ==
    /\ {Pauses, GateQuorum} \subseteq Nat \ {0}
    /\ MaxMishaps \in Nat /\ Outsiders \in BOOLEAN
    /\ NoWatcher \notin Watchers
    /\ NoGate \notin [id : Nat, step : Nat, decision : {"none", "approved", "rejected"},
                       actioned : BOOLEAN]

VARIABLES
    canary,     \* external: the Rollout's step, whether it is paused there, aborted
    dWatch,     \* the deploy_watches row: its gate, and whether a cancel's abort was issued
    dClaim,     \* the watcher whose claim_id the row carries
    leased,     \* claimed_at is within the lease
    late,       \* the deadline has passed
    dCancel,    \* cancel_requested_at of the deploy's job_run
    dResult,    \* the revision's status
    gateVotes,  \* job_run_approvals of the deploy's job_run
    watcher,    \* per watcher: how far, the row it claimed, what it decided
    backing,    \* history: who approved looking at which gate
    mishaps     \* so far

rolloutVars == <<canary, dWatch, dClaim, leased, late, dCancel, dResult, gateVotes, watcher,
                 backing, mishaps>>

FullyPromoted(c) == c.step = Pauses + 1 /\ ~c.aborted

Off == [at |-> "off"]

RolloutInit ==
    /\ canary = [step |-> 1, paused |-> FALSE, aborted |-> FALSE]
    /\ dWatch = [gate |-> NoGate, abortActioned |-> FALSE] /\ dClaim = NoWatcher
    /\ leased = FALSE /\ late = FALSE /\ dCancel = FALSE
    /\ dResult = "in_progress"
    /\ gateVotes = {}
    /\ watcher = [w \in Watchers |-> Off]
    /\ backing = <<>> /\ mishaps = 0

AwaitingHuman(row) == row.gate # NoGate /\ row.gate.decision = "none"

Claimed(w) == dResult = "in_progress" /\ dClaim = w

(***************************************************************************)
(* The canary and the clock.                                               *)
(***************************************************************************)
PatchPromote(c) == IF c.paused THEN [c EXCEPT !.step = @ + 1, !.paused = FALSE] ELSE c

PatchAbort(c) == [c EXCEPT !.aborted = TRUE, !.paused = FALSE]

CanaryPauses ==
    /\ canary.step <= Pauses /\ ~canary.paused /\ ~canary.aborted
    /\ canary' = [canary EXCEPT !.paused = TRUE]
    /\ UNCHANGED <<dWatch, dClaim, leased, late, dCancel, dResult, gateVotes, watcher,
                   backing, mishaps>>

PromotedOutside ==
    /\ Outsiders /\ mishaps < MaxMishaps /\ canary.paused
    /\ canary' = PatchPromote(canary)
    /\ mishaps' = mishaps + 1
    /\ UNCHANGED <<dWatch, dClaim, leased, late, dCancel, dResult, gateVotes, watcher,
                   backing>>

\* The time a gate waits for people is added to the deadline when it is decided
\* or cleared, so waiting does not use it up.
DeadlinePasses ==
    /\ dResult = "in_progress" /\ ~late /\ ~AwaitingHuman(dWatch)
    /\ late' = TRUE
    /\ UNCHANGED <<canary, dWatch, dClaim, leased, dCancel, dResult, gateVotes, watcher,
                   backing, mishaps>>

RequestDeployCancel ==
    /\ dResult = "in_progress" /\ ~dCancel
    /\ dCancel' = TRUE
    /\ UNCHANGED <<canary, dWatch, dClaim, leased, late, dResult, gateVotes, watcher,
                   backing, mishaps>>

(***************************************************************************)
(* DecideRolloutGate: a vote names the gate it was cast on.                *)
(***************************************************************************)
VoteOpenAnyGate(u, g) == AwaitingHuman(dWatch) /\ \A v \in gateVotes : v.who # u

VoteOpen(u, g) ==
    /\ AwaitingHuman(dWatch) /\ dWatch.gate.id = g
    /\ \A v \in gateVotes : v.who # u

\* One rejection decides; an approval does when it completes the quorum.
DecisionOf(votes, says) ==
    IF says = "rejected" THEN "rejected"
    ELSE IF Cardinality({v \in votes : v.says = "approved"}) >= GateQuorum THEN "approved"
    ELSE "none"

Vote(u, g, says) ==
    /\ VoteOpen(u, g)
    /\ gateVotes' = gateVotes \cup {[who |-> u, says |-> says]}
    /\ backing' = IF says = "approved" THEN [backing EXCEPT ![g] = @ \cup {u}] ELSE backing
    /\ dWatch' = [dWatch EXCEPT !.gate.decision = DecisionOf(gateVotes', says)]
    /\ UNCHANGED <<canary, dClaim, leased, late, dCancel, dResult, watcher,
                   mishaps>>

(***************************************************************************)
(* A watcher's tick: claim, look and decide, then one effect.              *)
(***************************************************************************)
WatchClaimableOnce == dClaim = NoWatcher

\* ClaimDeployWatches: never claimed, or claimed longer ago than the lease.
WatchClaimable == ~leased

ClaimWatch(w) ==
    /\ watcher[w] = Off
    /\ dResult = "in_progress" /\ WatchClaimable
    /\ dClaim' = w
    /\ leased' = TRUE
    /\ watcher' = [watcher EXCEPT ![w] = [at |-> "claimed", row |-> dWatch]]
    /\ UNCHANGED <<canary, dWatch, late, dCancel, dResult, gateVotes, backing, mishaps>>

\* A finished tick lets its lease run out; an unfinished one may be overtaken.
LeaseRunsOut ==
    /\ leased
    /\ leased' = FALSE
    /\ IF dClaim # NoWatcher /\ watcher[dClaim] # Off
       THEN mishaps < MaxMishaps /\ mishaps' = mishaps + 1
       ELSE UNCHANGED mishaps
    /\ UNCHANGED <<canary, dWatch, dClaim, late, dCancel, dResult, gateVotes, watcher,
                   backing>>

PausedAtArmedStep(obs, row) ==
    obs.seen /\ canary.paused /\ canary.step = row.gate.step

ObservedAborted(obs) == obs.seen /\ canary.aborted

\* Decide, top wins.  obs: seen says whether the rollout could be observed, app
\* what its application reads like, canceled what the cancel read returned.
Decide(obs, row) ==
    CASE obs.canceled ->
            IF ~row.abortActioned
            THEN IF row.gate # NoGate \/ obs.seen THEN "cancel_abort"
                 ELSE IF late THEN "finalize_failed" ELSE "continue"
            ELSE IF ObservedAborted(obs) \/ late THEN "finalize_failed" ELSE "continue"
      [] ~obs.canceled /\ row.gate # NoGate /\ row.gate.decision = "rejected" ->
            IF ~row.gate.actioned /\ ~ObservedAborted(obs) THEN "abort"
            ELSE IF ObservedAborted(obs) \/ late THEN "finalize_failed" ELSE "continue"
      [] OTHER ->
         IF ObservedAborted(obs) \/ (late /\ ~AwaitingHuman(row)) THEN "finalize_failed"
         ELSE IF ~obs.seen THEN "continue"
         ELSE IF row.gate # NoGate /\ row.gate.decision = "approved"
         THEN IF ~row.gate.actioned THEN "promote"
              ELSE IF PausedAtArmedStep(obs, row) THEN "continue" ELSE "clear_gate"
         ELSE IF row.gate = NoGate /\ canary.paused THEN "arm_gate"
         ELSE IF AwaitingHuman(row) /\ ~PausedAtArmedStep(obs, row) THEN "clear_gate"
         ELSE IF obs.app = "converged" /\ FullyPromoted(canary) THEN "finalize_success"
         ELSE IF obs.app = "failed" THEN "finalize_failed" ELSE "continue"

Observations ==
    [seen : BOOLEAN, app : {"converged", "progressing", "failed"}, canceled : BOOLEAN]

\* processWatch up to the verdict: renew, read the cancel, observe, decide.  An
\* abort that was issued for a cancel keeps the cancel in force when the read
\* fails.
Look(w) ==
    /\ watcher[w].at = "claimed"
    /\ IF ~Claimed(w)
       THEN watcher' = [watcher EXCEPT ![w] = Off] /\ UNCHANGED <<leased, mishaps>>
       ELSE LET row == watcher[w].row IN
            \E obs \in Observations :
              LET verdict == Decide(obs, row)
                  misread == obs.canceled # (dCancel \/ row.abortActioned)
              IN
              /\ obs.canceled => dCancel \/ row.abortActioned
              /\ misread => ~row.abortActioned
              /\ obs.app # "progressing" => obs.seen
              /\ IF ~obs.seen \/ misread
                 THEN mishaps < MaxMishaps /\ mishaps' = mishaps + 1
                 ELSE UNCHANGED mishaps
              /\ watcher' = [watcher EXCEPT ![w] =
                    IF verdict = "continue" THEN Off
                    ELSE [at |-> "decided", verdict |-> verdict,
                          on |-> CASE verdict = "promote" -> row.gate
                                   [] verdict = "arm_gate" -> canary.step
                                   [] OTHER -> NoGate]]
              /\ leased' = TRUE
    /\ UNCHANGED <<canary, dWatch, dClaim, late, dCancel, dResult, gateVotes, backing>>

\* ArmRolloutGate and ClearRolloutGate are fenced on the claim alone: what has
\* become of the gate since the claim is overwritten.
ClearedVotes == {}

WriteRow(w) ==
    LET v == watcher[w].verdict
        arms == v = "arm_gate" /\ dWatch.gate = NoGate
        clears == v = "clear_gate" /\ dWatch.gate # NoGate
    IN
    /\ dWatch' = CASE arms -> [dWatch EXCEPT !.gate =
                                 [id |-> Len(backing) + 1, step |-> watcher[w].on,
                                  decision |-> "none", actioned |-> FALSE]]
                   [] clears -> [dWatch EXCEPT !.gate = NoGate]
                   [] OTHER -> dWatch
    /\ backing' = IF arms THEN Append(backing, {}) ELSE backing
    /\ gateVotes' = IF clears THEN ClearedVotes ELSE gateVotes

ApplyToRow(w) ==
    /\ watcher[w].at = "decided"
    /\ watcher[w].verdict \in {"arm_gate", "clear_gate"}
    /\ watcher' = [watcher EXCEPT ![w] = Off]
    /\ IF Claimed(w) THEN WriteRow(w) ELSE UNCHANGED <<dWatch, backing, gateVotes>>
    /\ UNCHANGED <<canary, dClaim, leased, late, dCancel, dResult,
                   mishaps>>

\* FinalizeDeployWatch; the job row's status wins, so a canceled job is canceled.
FinalizeWatch(w) ==
    /\ watcher[w].at = "decided"
    /\ watcher[w].verdict \in {"finalize_success", "finalize_failed"}
    /\ watcher' = [watcher EXCEPT ![w] = Off]
    /\ dResult' = IF ~Claimed(w) THEN dResult
                  ELSE IF dCancel THEN "canceled"
                  ELSE IF watcher[w].verdict = "finalize_success" THEN "success" ELSE "failed"
    /\ UNCHANGED <<canary, dWatch, dClaim, leased, late, dCancel, gateVotes, backing, mishaps>>

\* actuateGate and abortForCancel: renew, patch the canary, mark it done.
RenewForPatch(w) ==
    /\ watcher[w].at = "decided"
    /\ watcher[w].verdict \in {"promote", "abort", "cancel_abort"}
    /\ IF Claimed(w)
       THEN watcher' = [watcher EXCEPT ![w].at = "patching"] /\ leased' = TRUE
       ELSE watcher' = [watcher EXCEPT ![w] = Off] /\ UNCHANGED leased
    /\ UNCHANGED <<canary, dWatch, dClaim, late, dCancel, dResult, gateVotes, backing, mishaps>>

PatchCanary(w) ==
    /\ watcher[w].at = "patching"
    /\ canary' = IF watcher[w].verdict = "promote" THEN PatchPromote(canary) ELSE PatchAbort(canary)
    /\ watcher' = [watcher EXCEPT ![w].at = "marking"]
    /\ UNCHANGED <<dWatch, dClaim, leased, late, dCancel, dResult, gateVotes, backing, mishaps>>

\* MarkGateActioned, or MarkRolloutAbortActioned, which also disarms the gate.
MarkPatched(w) ==
    /\ watcher[w].at = "marking"
    /\ watcher' = [watcher EXCEPT ![w] = Off]
    /\ IF ~Claimed(w)
       THEN UNCHANGED <<dWatch, gateVotes>>
       ELSE IF watcher[w].verdict = "cancel_abort"
       THEN /\ dWatch' = [dWatch EXCEPT !.abortActioned = TRUE, !.gate = NoGate]
            /\ gateVotes' = {}
       ELSE /\ dWatch' = IF dWatch.gate = NoGate THEN dWatch
                         ELSE [dWatch EXCEPT !.gate.actioned = TRUE]
            /\ UNCHANGED gateVotes
    /\ UNCHANGED <<canary, dClaim, leased, late, dCancel, dResult, backing, mishaps>>

\* A failing call ends the tick where it stands, as does a crash.
TickBreaksOff(w) ==
    /\ watcher[w] # Off /\ mishaps < MaxMishaps
    /\ mishaps' = mishaps + 1
    /\ watcher' = [watcher EXCEPT ![w] = Off]
    /\ UNCHANGED <<canary, dWatch, dClaim, leased, late, dCancel, dResult, gateVotes,
                   backing>>

TickStep(w) ==
    \/ ClaimWatch(w) \/ Look(w) \/ ApplyToRow(w) \/ FinalizeWatch(w)
    \/ RenewForPatch(w) \/ PatchCanary(w) \/ MarkPatched(w)

RolloutNext ==
    \/ CanaryPauses \/ PromotedOutside \/ DeadlinePasses \/ RequestDeployCancel
    \/ \E u \in GateVoters, g \in DOMAIN backing, says \in {"approved", "rejected"} : Vote(u, g, says)
    \/ LeaseRunsOut
    \/ \E w \in Watchers : TickStep(w) \/ TickBreaksOff(w)

\* Tickers keep ticking, leases and deadlines run out.
RolloutFairness ==
    /\ WF_rolloutVars(\E w \in Watchers : TickStep(w))
    /\ WF_rolloutVars(LeaseRunsOut)
    /\ WF_rolloutVars(DeadlinePasses)

RolloutSpec == RolloutInit /\ [][RolloutNext]_rolloutVars /\ RolloutFairness

-----------------------------------------------------------------------------
RolloutTypeOK ==
    /\ canary \in [step : 1..(Pauses + 1), paused : BOOLEAN, aborted : BOOLEAN]
    /\ dWatch.gate = NoGate \/
         dWatch.gate \in [id : DOMAIN backing, step : 1..Pauses,
                          decision : {"none", "approved", "rejected"}, actioned : BOOLEAN]
    /\ dClaim \in Watchers \cup {NoWatcher}
    /\ dResult \in {"in_progress", "success", "failed", "canceled"}
    /\ \A g \in DOMAIN backing : backing[g] \subseteq GateVoters

(***************************************************************************)
(* A watcher that moves the canary off the pause its gate was armed at has *)
(* the approvals of enough people who were looking at this very gate, not  *)
(* at the gate of an earlier pause (DecideRolloutGate's gate id, and the   *)
(* votes deleted when a gate is cleared).                                  *)
(***************************************************************************)
PromoteIsApproved ==
    [][\A w \in Watchers :
          /\ watcher[w].at = "patching" /\ watcher[w].verdict = "promote"
          /\ canary'.step > canary.step
          /\ canary.step = watcher[w].on.step
          => Cardinality(backing[watcher[w].on.id]) >= GateQuorum]_rolloutVars

(***************************************************************************)
(* Taken at its word, "Promote/Abort are idempotent [...] another replica  *)
(* re-actuates safely" (actuateGate): a watcher never moves the canary off *)
(* a pause whose gate was not approved.  It does: a promotion that is      *)
(* repeated because its mark was lost finds the canary at the next pause.  *)
(***************************************************************************)
OnlyApprovedPausesLeft ==
    [][\A w \in Watchers :
          /\ watcher[w].at = "patching" /\ watcher[w].verdict = "promote"
          /\ canary'.step > canary.step
          => canary.step = watcher[w].on.step]_rolloutVars

(***************************************************************************)
(* A deploy ends, whatever watchers crash or lose their lease, as soon as  *)
(* it waits for nobody or is canceled.                                     *)
(***************************************************************************)
DeploySettled == dResult # "in_progress" \/ (AwaitingHuman(dWatch) /\ ~dCancel)
=============================================================================
