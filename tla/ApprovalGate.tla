----------------------------- MODULE ApprovalGate -----------------------------
(***************************************************************************)
(* Approval gates waiting for people: quorum votes, decisions, re-arming   *)
(* by a rerun, and the expirer that cancels the run behind an abandoned    *)
(* gate unless an environment freeze holds it.                             *)
(*                                                                         *)
(* Each gate stands for the run it blocks.  Time is abstracted to what the *)
(* code compares: the order in which gates were armed (awaiting_since),    *)
(* whether a gate's window has elapsed since, and whether a window has     *)
(* elapsed since its environment was last unfrozen (the epoch floor).      *)
(***************************************************************************)
EXTENDS Integers, FiniteSets

CONSTANTS
    Waiting,       \* the gates, as integers: the job_run ids
    Voters,        \* users
    Required,      \* approval_required
    AuthDisabled,  \* some replica runs, or ran, without auth: requests with no user
    NeverExpires,  \* gates with timeout: never
    EnvOf,         \* the environment a gate governs
    MaxArms,       \* bound: times a gate is armed, over all gates
    MaxHolds,      \* bound: freezes
    ScanCap,       \* candidates one sweep judges (page size and scan cap)
    NobodyHolds    \* the freeze lock is free

Held == {EnvOf[g] : g \in Waiting}

ASSUME ApprovalAssumption ==
    /\ Waiting \subseteq Nat /\ IsFiniteSet(Waiting)
    /\ Required \in [Waiting -> Nat \ {0}]
    /\ NeverExpires \subseteq Waiting
    /\ AuthDisabled \in BOOLEAN
    /\ {MaxArms, MaxHolds, ScanCap} \subseteq Nat /\ ScanCap > 0 /\ MaxArms > 0

VARIABLES
    gate,     \* job_runs.status of the gate
    since,    \* awaiting_since, as the rank of the arming
    ballots,  \* job_run_approvals with decision approved
    backers,  \* history: who approved since the gate was last armed
    waved,    \* history: gates a request without a user passed
    aged,     \* gates whose window elapsed since they were armed
    held,     \* frozen environments
    floor,    \* environments unfrozen less than a window ago
    freezing, \* the freeze or unfreeze transaction holding an environment's lock
    sweep,    \* the sweep in progress: candidates read and not judged, judged count
    cursor,   \* the keyset position carried across sweeps
    armed,    \* armings so far
    holds     \* freezes so far

gateVars == <<gate, since, ballots, backers, waved, aged>>
holdVars == <<held, floor, freezing, holds>>
sweepVars == <<sweep, cursor>>
approvalVars == <<gate, since, ballots, backers, waved, aged, held, floor, freezing,
                  sweep, cursor, armed, holds>>

NoSweep == [on |-> FALSE, page |-> {}, judged |-> 0]
Start == [since |-> 0, id |-> 0]
Key(g, s) == [since |-> s, id |-> g]
After(a, b) == a.since > b.since \/ (a.since = b.since /\ a.id > b.id)

ApprovalInit ==
    /\ gate = [g \in Waiting |-> "awaiting"]
    /\ since = [g \in Waiting |-> 1]
    /\ ballots = [g \in Waiting |-> {}]
    /\ backers = [g \in Waiting |-> {}]
    /\ waved = {} /\ aged = {} /\ held = {} /\ floor = {}
    /\ freezing = [e \in Held |-> NobodyHolds]
    /\ sweep = NoSweep /\ cursor = Start
    /\ armed = 1 /\ holds = 0

-----------------------------------------------------------------------------
(* People                                                                  *)

\* What any approval needs: a pending gate and an environment nobody has frozen
\* or is freezing.
Decidable(g) ==
    /\ gate[g] = "awaiting"
    /\ freezing[EnvOf[g]] = NobodyHolds
    /\ EnvOf[g] \notin held

\* decideGate, approved, by a user: the vote is idempotent per user, and the
\* gate flips when the quorum is reached.
ApproveGate(u, g) ==
    LET v == ballots[g] \cup {u}
    IN /\ Decidable(g)
       /\ ballots' = [ballots EXCEPT ![g] = v]
       /\ backers' = [backers EXCEPT ![g] = @ \cup {u}]
       /\ gate' = [gate EXCEPT ![g] = IF Cardinality(v) >= Required[g]
                                      THEN "success" ELSE @]
       /\ UNCHANGED <<since, waved, aged, holdVars, sweepVars, armed>>

\* decideGate, approved, without a user: no vote is stored and the one call
\* flips the gate, whatever quorum it asks for.
ApproveAnonymously(g) ==
    /\ AuthDisabled
    /\ Decidable(g)
    /\ gate' = [gate EXCEPT ![g] = "success"]
    /\ waved' = waved \cup {g}
    /\ UNCHANGED <<since, ballots, backers, aged, holdVars, sweepVars, armed>>

\* One rejection fails the gate; CancelRun or supersede cancels it.
EndGate(g, st) ==
    /\ gate[g] = "awaiting"
    /\ gate' = [gate EXCEPT ![g] = st]
    /\ UNCHANGED <<since, ballots, backers, waved, aged, holdVars, sweepVars, armed>>
RejectWaiting(g) == EndGate(g, "failed")
CancelWaiting(g) == EndGate(g, "canceled")

\* Mutant of RearmGate: the votes of the canceled round are kept.
RearmKeepsVotes(g) ==
    /\ gate[g] = "canceled" /\ armed < MaxArms
    /\ armed' = armed + 1
    /\ gate' = [gate EXCEPT ![g] = "awaiting"]
    /\ since' = [since EXCEPT ![g] = armed + 1]
    /\ backers' = [backers EXCEPT ![g] = {}]
    /\ aged' = aged \ {g}
    /\ UNCHANGED <<ballots, waved, holdVars, sweepVars>>

\* rerunJobTx re-arms a canceled gate downstream of the job it queues: a fresh
\* awaiting_since, the decision cleared and the votes deleted.
RearmGate(g) ==
    /\ gate[g] = "canceled" /\ armed < MaxArms
    /\ armed' = armed + 1
    /\ gate' = [gate EXCEPT ![g] = "awaiting"]
    /\ since' = [since EXCEPT ![g] = armed + 1]
    /\ ballots' = [ballots EXCEPT ![g] = {}]
    /\ backers' = [backers EXCEPT ![g] = {}]
    /\ aged' = aged \ {g}
    /\ UNCHANGED <<waved, holdVars, sweepVars>>

-----------------------------------------------------------------------------
(* Freezes and time                                                        *)

\* FreezeEnvironment and UnfreezeEnvironment: the lock, then the row and, for
\* an unfreeze that lifted something, the epoch floor.
FreezeLock(e) ==
    /\ freezing[e] = NobodyHolds
    /\ holds < MaxHolds
    /\ holds' = holds + 1
    /\ freezing' = [freezing EXCEPT ![e] = "freeze"]
    /\ UNCHANGED <<gateVars, held, floor, sweepVars, armed>>
UnfreezeLock(e) ==
    /\ freezing[e] = NobodyHolds /\ e \in held
    /\ freezing' = [freezing EXCEPT ![e] = "unfreeze"]
    /\ UNCHANGED <<gateVars, held, floor, holds, sweepVars, armed>>
FreezeCommit(e) ==
    /\ freezing[e] = "freeze"
    /\ held' = held \cup {e}
    /\ freezing' = [freezing EXCEPT ![e] = NobodyHolds]
    /\ UNCHANGED <<gateVars, floor, holds, sweepVars, armed>>

UnfreezeCommit(e) ==
    /\ freezing[e] = "unfreeze"
    /\ held' = held \ {e}
    /\ floor' = floor \cup {e}
    /\ freezing' = [freezing EXCEPT ![e] = NobodyHolds]
    /\ UNCHANGED <<gateVars, holds, sweepVars, armed>>

\* A window passes since the gate was armed, or since the last unfreeze.
WindowElapses(g) ==
    /\ gate[g] = "awaiting" /\ g \notin aged
    /\ aged' = aged \cup {g}
    /\ UNCHANGED <<gate, since, ballots, backers, waved, holdVars, sweepVars, armed>>
FloorElapses(e) ==
    /\ e \in floor
    /\ floor' = floor \ {e}
    /\ UNCHANGED <<gateVars, held, freezing, holds, sweepVars, armed>>

-----------------------------------------------------------------------------
(* The expirer                                                             *)

\* ListPendingApprovalGates after the cursor, oldest first, at most n.
Candidates(n) ==
    LET K == {Key(g, since[g]) : g \in {h \in Waiting : gate[h] = "awaiting"}}
        L == {k \in K : After(k, cursor)}
    IN {k \in L : Cardinality({l \in L : After(k, l)}) < n}

\* Mutant of SweepList: the cursor stays at the end of the queue.
SweepListNoWrap ==
    /\ sweep.page = {}
    /\ sweep.judged < ScanCap
    /\ sweep' = IF Candidates(ScanCap) = {} THEN NoSweep
                ELSE [on |-> TRUE, page |-> Candidates(ScanCap - sweep.judged),
                      judged |-> sweep.judged]
    /\ UNCHANGED <<gateVars, holdVars, cursor, armed>>

\* Sweep reads a page; an empty one rewinds the cursor and ends the sweep.
SweepList ==
    /\ sweep.page = {}
    /\ sweep.judged < ScanCap
    /\ \/ /\ Candidates(ScanCap) = {}
          /\ cursor' = Start
          /\ sweep' = NoSweep
       \/ /\ Candidates(ScanCap) # {}
          /\ sweep' = [on |-> TRUE, page |-> Candidates(ScanCap - sweep.judged),
                       judged |-> sweep.judged]
          /\ UNCHANGED cursor
    /\ UNCHANGED <<gateVars, holdVars, armed>>

\* The scan cap ends the sweep with the cursor where it stopped.
SweepEnds ==
    /\ sweep.on /\ sweep.page = {} /\ sweep.judged >= ScanCap
    /\ sweep' = NoSweep
    /\ UNCHANGED <<gateVars, holdVars, cursor, armed>>

\* Mutant of Expirable: the candidate's awaiting_since is not compared.
ExpirableAnyArming(k) ==
    /\ freezing[EnvOf[k.id]] = NobodyHolds
    /\ EnvOf[k.id] \notin held
    /\ EnvOf[k.id] \notin floor
    /\ gate[k.id] = "awaiting"

\* ExpireApprovalGate: the try-lock, the freeze check, the floor, and the stamp
\* guarded by the awaiting_since the scan saw; each miss leaves the gate alone.
Expirable(k) ==
    /\ freezing[EnvOf[k.id]] = NobodyHolds
    /\ EnvOf[k.id] \notin held
    /\ EnvOf[k.id] \notin floor
    /\ gate[k.id] = "awaiting" /\ since[k.id] = k.since

\* The next candidate of the page: a gate without a window, or one whose
\* window has not elapsed when the sweep reaches it, is passed over.  The age
\* is computed from the candidate's awaiting_since, not from the row.
SweepJudge(k) ==
    LET elapsed == k.id \in aged \/ since[k.id] # k.since
    IN /\ k \in sweep.page /\ \A l \in sweep.page \ {k} : After(l, k)
       /\ cursor' = k
       /\ sweep' = [sweep EXCEPT !.page = @ \ {k}, !.judged = @ + 1]
       /\ gate' = IF k.id \notin NeverExpires /\ elapsed /\ Expirable(k)
                  THEN [gate EXCEPT ![k.id] = "canceled"] ELSE gate
       /\ UNCHANGED <<since, ballots, backers, waved, aged, holdVars, armed>>

SweepStep == SweepList \/ SweepEnds \/ \E k \in sweep.page : SweepJudge(k)

ApprovalNext ==
    \/ \E g \in Waiting :
        \/ RejectWaiting(g) \/ CancelWaiting(g) \/ RearmGate(g) \/ WindowElapses(g)
        \/ ApproveAnonymously(g)
        \/ \E u \in Voters : ApproveGate(u, g)
    \/ \E e \in Held :
        \/ FreezeLock(e) \/ UnfreezeLock(e) \/ FreezeCommit(e) \/ UnfreezeCommit(e)
        \/ FloorElapses(e)
    \/ SweepStep

\* The expirer's goroutine sweeps on a ticker, and a transaction that holds an
\* environment's lock commits; people, freezes and the clock owe nothing.
ApprovalFairness ==
    /\ WF_approvalVars(SweepStep)
    /\ \A e \in Held : WF_approvalVars(FreezeCommit(e)) /\ WF_approvalVars(UnfreezeCommit(e))

ApprovalSpec == ApprovalInit /\ [][ApprovalNext]_approvalVars /\ ApprovalFairness

-----------------------------------------------------------------------------
(* Properties                                                              *)

ApprovalTypeOK ==
    /\ gate \in [Waiting -> {"awaiting", "success", "failed", "canceled"}]
    /\ since \in [Waiting -> 1..MaxArms]
    /\ ballots \in [Waiting -> SUBSET Voters]
    /\ backers \in [Waiting -> SUBSET Voters]
    /\ waved \subseteq Waiting /\ aged \subseteq Waiting
    /\ held \subseteq Held /\ floor \subseteq Held
    /\ freezing \in [Held -> {NobodyHolds, "freeze", "unfreeze"}]
    /\ sweep.judged \in 0..ScanCap
    /\ armed \in 1..MaxArms /\ holds \in 0..MaxHolds

\* A gate passes only on a full quorum of distinct users who voted since it
\* was last armed; votes from before a cancel and rerun do not count.  The one
\* exception is a server without auth, where a request that carries no user
\* passes any gate at once.
QuorumSinceArmed ==
    \A g \in Waiting : gate[g] = "success" =>
        \/ Cardinality(backers[g]) >= Required[g]
        \/ AuthDisabled /\ g \in waved

\* The expirer cancels only what is abandoned: a gate with a window that has
\* fully elapsed in this arming and since its environment was last unfrozen,
\* whose environment is not frozen and not being frozen or unfrozen.
ExpirySparesHeld ==
    [][\A g \in Waiting :
          gate[g] = "awaiting" /\ gate'[g] = "canceled" /\ sweep' # sweep =>
            /\ g \in aged /\ g \notin NeverExpires
            /\ EnvOf[g] \notin held \cup floor
            /\ freezing[EnvOf[g]] = NobodyHolds]_approvalVars

\* A gate nobody decided, past its age, that no freeze holds and no configuration
\* keeps: the sweep owes it an expiry.
Abandoned(g) ==
    /\ gate[g] = "awaiting" /\ g \in aged /\ g \notin NeverExpires
    /\ EnvOf[g] \notin held \cup floor
=============================================================================
