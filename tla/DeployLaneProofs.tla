--------------------------- MODULE DeployLaneProofs ---------------------------
(***************************************************************************)
(* Proofs about the deploys of a supersede lane.  Four things hold         *)
(* whatever runs, people, dispatchers, gates and environments there are: a *)
(* frozen environment admits nothing, the gate-pass markers are exactly    *)
(* what the gates say, a deploy that is handed over is not stale, and a    *)
(* job starts only behind the gates of earlier stages and what it needs.   *)
(*                                                                         *)
(* The first three rest on who holds which advisory lock.  An approval     *)
(* holds the locks of everything its gate clears from its unlocked read    *)
(* on, and the gate's row once it has decided; a dispatch holds the lane   *)
(* lock from its guard to the hand-over and the freeze lock from its check *)
(* to the claim.                                                           *)
(***************************************************************************)
EXTENDS DeployLane, TLAPS

Approving ==
    [pc : {"locked", "decided"}, run : LaneRuns, gate : LaneGates, envs : SUBSET LaneEnvs]
Dispatching ==
    [pc : {"guarded", "checked", "claimed"}, run : LaneRuns, job : TargetJobs(LaneDef),
     roll : BOOLEAN]
Holders == Approvers \cup Dispatchers \cup {Nobody}

RowTypes ==
    /\ runSt \in [LaneRuns -> {"none", "active"} \cup Settled]
    /\ jobSt \in [LaneRuns -> [LaneJobs -> Live \cup Settled]]

\* A gate is never queued and never runs.
GatesPark == \A r \in LaneRuns, g \in LaneGates : jobSt[r][g] \in {"awaiting"} \cup Settled

\* Before a run is created it has no rows to speak of.
NotCreated ==
    \A r \in LaneRuns : runSt[r] = "none" => \A j \in LaneJobs : jobSt[r][j] = "canceled"

LockTypes ==
    /\ marks \subseteq LaneRuns \X LaneEnvs
    /\ laneLock \in [LaneEnvs -> Holders]
    /\ frzLock \in [LaneEnvs -> Holders]
    /\ revived \in [LaneEnvs -> SUBSET LaneRuns]
    /\ appr \in [Approvers -> Approving \cup {NoApproval}]
    /\ disp \in [Dispatchers -> Dispatching \cup {NoDispatch}]

\* What an approval holds, and what it read that it will act on.
ApprovalHolds(u) ==
    /\ \A e \in Clears[appr[u].gate] : laneLock[e] = u
    /\ \A e \in Thaws[appr[u].gate] : frzLock[e] = u
    /\ runSt[appr[u].run] # "none"
DecisionStands(u) ==
    /\ jobSt[appr[u].run][appr[u].gate] = "awaiting"
    /\ Thaws[appr[u].gate] \cap frozen = {}
    /\ appr[u].envs = Cleared(appr[u].run, appr[u].gate)

ApprovalsHold == \A u \in Approvers : appr[u].pc # "idle" => ApprovalHolds(u)
DecisionsStand == \A u \in Approvers : appr[u].pc = "decided" => DecisionStands(u)
OneDecision ==
    \A u, w \in Approvers :
        /\ appr[u].pc = "decided" /\ appr[w].pc = "decided"
        /\ appr[u].run = appr[w].run /\ appr[u].gate = appr[w].gate
        => u = w

\* What a dispatch holds, and what its guard saw that still counts.
Guarded(d) == disp[d].pc # "idle" /\ disp[d].job \in DeployJobs(LaneDef) /\ ~disp[d].roll
Outdates(q, e) == <<q, e>> \in marks /\ runSt[q] # "canceled" /\ q \notin revived[e]

GuardHolds(d) ==
    /\ laneLock[LaneDef.target[disp[d].job]] = d
    /\ \A q \in LaneRuns : q > disp[d].run => ~Outdates(q, LaneDef.target[disp[d].job])
GuardsHold == \A d \in Dispatchers : Guarded(d) => GuardHolds(d)
ChecksHold ==
    \A d \in Dispatchers : disp[d].pc = "checked" =>
        /\ frzLock[LaneDef.target[disp[d].job]] = d
        /\ LaneDef.target[disp[d].job] \notin frozen

\* Markers belong to runs that exist, and agree with the gates.
MarksExist == \A r \in LaneRuns, e \in LaneEnvs : <<r, e>> \in marks => runSt[r] # "none"
MarksAgree ==
    \A r \in LaneRuns, e \in LaneEnvs :
        runSt[r] # "none" /\ Guards[e] # {} =>
            (<<r, e>> \in marks <=> \A g \in Guards[e] : jobSt[r][g] = "success")

LaneInv ==
    /\ RowTypes /\ GatesPark /\ NotCreated /\ LockTypes
    /\ ApprovalsHold /\ DecisionsStand /\ OneDecision
    /\ GuardsHold /\ ChecksHold
    /\ MarksExist /\ MarksAgree

-----------------------------------------------------------------------------
(* The graph of the definition                                             *)

\* A gate clears the environments it guards, and guards those it clears.
LEMMA GraphFacts ==
    /\ \A g \in LaneGates : Clears[g] \subseteq LaneEnvs /\ Thaws[g] \subseteq LaneEnvs
    /\ \A e \in LaneEnvs : Guards[e] \subseteq LaneGates
    /\ \A e \in LaneEnvs, g \in LaneGates : e \in Clears[g] <=> g \in Guards[e]
    /\ \A j \in TargetJobs(LaneDef) : j \in LaneJobs /\ LaneDef.target[j] \in LaneEnvs
    /\ \A j \in DeployJobs(LaneDef) : j \in TargetJobs(LaneDef)
                                      /\ LaneDef.target[j] = LaneDef.deploy[j]
<1>1. \A j \in DeployJobs(LaneDef) : j \in TargetJobs(LaneDef) /\ LaneDef.target[j] = LaneDef.deploy[j]
  BY LaneAssumption DEF DeployJobs, TargetJobs
<1>2. \A j \in TargetJobs(LaneDef) : j \in LaneJobs /\ LaneDef.target[j] \in LaneEnvs
  BY DEF TargetJobs, LaneEnvs, LaneJobs
<1>3. \A d : GoverningGatesForJob(LaneDef, d) \subseteq LaneGates
  BY DEF GoverningGatesForJob, LaneGates
<1>4. \A g \in LaneGates : Clears[g] \subseteq LaneEnvs
  BY <1>1, <1>2 DEF Clears, GovernedEnvs
<1>5. \A g \in LaneGates : Thaws[g] \subseteq LaneEnvs
  BY <1>2 DEF Thaws, GovernedFreezeEnvs
<1>6. \A e \in LaneEnvs : Guards[e] \subseteq LaneGates
  BY <1>3 DEF Guards, GoverningGates
<1>7. \A e \in LaneEnvs, g \in LaneGates : e \in Clears[g] <=> g \in Guards[e]
  BY DEF Guards, GoverningGates, Clears, GovernedEnvs
<1> QED BY <1>1, <1>2, <1>4, <1>5, <1>6, <1>7

-----------------------------------------------------------------------------
(* What a step may do to the rows, apart from passing a gate               *)

RunsKept ==
    \A q \in LaneRuns : /\ runSt'[q] = "none" => runSt[q] = "none" /\ jobSt'[q] = jobSt[q]
                        /\ runSt[q] = "canceled" => runSt'[q] = "canceled"
NoPass ==
    \A q \in LaneRuns, g \in LaneGates :
        runSt[q] # "none" => (jobSt'[q][g] = "success" <=> jobSt[q][g] = "success")
FreshRuns ==
    \A q \in LaneRuns, g \in LaneGates :
        runSt[q] = "none" /\ runSt'[q] # "none" => jobSt'[q][g] # "success"
KeepsLocked == \A q \in LaneRuns : \A g \in LockedRows(q) : jobSt'[q][g] = jobSt[q][g]

RowMove == RowTypes' /\ GatesPark' /\ RunsKept /\ NoPass /\ FreshRuns /\ KeepsLocked

\* Rows that are left alone.
LEMMA RowsStill ==
    ASSUME LaneInv, UNCHANGED <<runSt, jobSt>>
    PROVE  RowMove
BY DEF LaneInv, RowMove, RowTypes, GatesPark, RunsKept, NoPass, FreshRuns, KeepsLocked

\* The terminalizer of a superseded or canceled run: no gate it touches passes.
LEMMA CanceledRows ==
    ASSUME NEW js \in [LaneJobs -> Live \cup Settled]
    PROVE  /\ CanceledJobs(js) \in [LaneJobs -> Live \cup Settled]
           /\ \A g \in LaneJobs : js[g] \in {"awaiting"} \cup Settled =>
                 CanceledJobs(js)[g] \in {"awaiting"} \cup Settled
           /\ \A k \in LaneJobs : /\ CanceledJobs(js)[k] = "success" <=> js[k] = "success"
                                  /\ CanceledJobs(js)[k] # "running"
BY DEF CanceledJobs, Live, Settled

\* The rows after Store: the run itself, and victims that were active and whose
\* gates nobody holds.
LEMMA StoreRows ==
    ASSUME LaneInv, NEW r \in LaneRuns, NEW js \in [LaneJobs -> Live \cup Settled],
           NEW rs \in {"none", "active"} \cup Settled, NEW scope, Store(r, js, rs, scope),
           \A g \in LaneGates : js[g] \in {"awaiting"} \cup Settled
    PROVE  /\ RowTypes' /\ GatesPark'
           /\ runSt'[r] = rs /\ jobSt'[r] = js
           /\ \A q \in LaneRuns \ {r} :
                \/ runSt'[q] = runSt[q] /\ jobSt'[q] = jobSt[q]
                \/ /\ runSt[q] = "active" /\ runSt'[q] = "canceled" /\ LockedRows(q) = {}
                   /\ jobSt'[q] = CanceledJobs(jobSt[q])
<1>1. PICK S \in SUBSET Victims(r, scope) :
        /\ runSt' = [q \in LaneRuns |-> IF q = r THEN rs
                                        ELSE IF q \in S THEN "canceled" ELSE runSt[q]]
        /\ jobSt' = [q \in LaneRuns |-> IF q = r THEN js
                                        ELSE IF q \in S THEN CanceledJobs(jobSt[q])
                                        ELSE jobSt[q]]
  BY DEF Store
<1>2. \A q \in S : runSt[q] = "active" /\ LockedRows(q) = {}
  BY DEF Victims
<1>3. \A q \in LaneRuns : jobSt[q] \in [LaneJobs -> Live \cup Settled]
                          /\ runSt[q] \in {"none", "active"} \cup Settled
  BY DEF LaneInv, RowTypes
<1>4. \A q \in LaneRuns : CanceledJobs(jobSt[q]) \in [LaneJobs -> Live \cup Settled]
  BY <1>3, CanceledRows
<1>5. RowTypes'
  <2>1. runSt' \in [LaneRuns -> {"none", "active"} \cup Settled]
    BY <1>1, <1>3 DEF Settled
  <2>2. jobSt' \in [LaneRuns -> [LaneJobs -> Live \cup Settled]]
    BY <1>1, <1>3, <1>4
  <2> QED BY <2>1, <2>2 DEF RowTypes
<1>6. \A q \in LaneRuns, g \in LaneGates : CanceledJobs(jobSt[q])[g] \in {"awaiting"} \cup Settled
  BY <1>3, CanceledRows, LaneAssumption DEF LaneInv, GatesPark
<1>7. GatesPark'
  BY <1>1, <1>6 DEF LaneInv, GatesPark
<1> QED BY <1>1, <1>2, <1>5, <1>7

\* What a rollup c of the rows js of a run rs may do.
RollUpFits(js, rs, c) ==
    /\ c.jobs \in [LaneJobs -> Live \cup Settled]
    /\ \A j \in LaneJobs : \/ c.jobs[j] = js[j]
                           \/ js[j] \in {"queued", "awaiting"} /\ c.jobs[j] = "canceled"
    /\ c.run \in {"none", "active"} \cup Settled
    /\ rs # "active" => c.run = rs
    /\ c.run = "none" => rs = "none"

\* RollUp keeps what is settled and cancels what waits.
LEMMA RollUpRows ==
    ASSUME NEW js \in [LaneJobs -> Live \cup Settled], NEW rs \in {"none", "active"} \cup Settled,
           NEW s
    PROVE  RollUpFits(js, rs, RollUp(js, rs, s))
<1> DEFINE c == RollUp(js, rs, s)
           swept == [j \in LaneJobs |-> IF js[j] \in {"queued", "awaiting"} THEN "canceled" ELSE js[j]]
<1>1. c.jobs = js \/ c.jobs = swept
  BY DEF RollUp
<1>2. swept \in [LaneJobs -> Live \cup Settled]
  BY DEF Settled
<1>3. c.run \in {rs, "failed", "canceled", "success"} /\ (rs # "active" => c.run = rs)
  BY DEF RollUp
<1> HIDE DEF c
<1>4. \A j \in LaneJobs : \/ c.jobs[j] = js[j]
                          \/ js[j] \in {"queued", "awaiting"} /\ c.jobs[j] = "canceled"
  BY <1>1
<1>5. c.jobs \in [LaneJobs -> Live \cup Settled]
  BY <1>1, <1>2
<1>6. c.run \in {"none", "active"} \cup Settled /\ (c.run = "none" => rs = "none")
  BY <1>3 DEF Settled
<1>7. RollUpFits(js, rs, c)
  BY <1>3, <1>4, <1>5, <1>6 DEF RollUpFits
<1> QED BY <1>7 DEF c

\* The end of job j of run r: apart from that row no job passes and no job
\* starts, and a gate row that an approval holds is left alone.
LEMMA FinishRows ==
    ASSUME LaneInv, NEW r \in LaneRuns, NEW j \in LaneJobs, NEW st \in Settled,
           runSt[r] # "none", Finishes(r, j, st)
    PROVE  /\ RowTypes' /\ GatesPark' /\ RunsKept
           /\ \A q \in LaneRuns : runSt'[q] # "none" => runSt[q] # "none"
           /\ jobSt'[r][j] = st
           /\ \A q \in LaneRuns, k \in LaneJobs : q # r \/ k # j =>
                /\ jobSt'[q][k] = "success" <=> jobSt[q][k] = "success"
                /\ jobSt'[q][k] = "running" => jobSt[q][k] = "running"
           /\ \A q \in LaneRuns : \A g \in LockedRows(q) :
                q # r \/ g # j => jobSt'[q][g] = jobSt[q][g]
<1> DEFINE js == [jobSt[r] EXCEPT ![j] = st]
           s == LaneDef.stage[j]
           c == RollUp(js, runSt[r], s)
           scope == IF c.won THEN AfterStage[s] ELSE NoScope
<1>1. /\ \A g \in LockedRows(r) \ {j} : c.jobs[g] = jobSt[r][g]
      /\ Store(r, c.jobs, c.run, scope)
  BY DEF Finishes
<1>2. js \in [LaneJobs -> Live \cup Settled] /\ runSt[r] \in {"none", "active"} \cup Settled
      /\ js[j] = st /\ \A k \in LaneJobs \ {j} : js[k] = jobSt[r][k]
  BY DEF LaneInv, RowTypes
<1> HIDE DEF js, s, scope
<1>3. RollUpFits(js, runSt[r], c)
  BY <1>2, RollUpRows
<1> HIDE DEF c
<1>4. \A g \in LaneGates : c.jobs[g] \in {"awaiting"} \cup Settled
  BY <1>2, <1>3, LaneAssumption DEF LaneInv, GatesPark, Settled, RollUpFits
<1>5. /\ RowTypes' /\ GatesPark'
      /\ runSt'[r] = c.run /\ jobSt'[r] = c.jobs
      /\ \A q \in LaneRuns \ {r} :
           \/ runSt'[q] = runSt[q] /\ jobSt'[q] = jobSt[q]
           \/ /\ runSt[q] = "active" /\ runSt'[q] = "canceled" /\ LockedRows(q) = {}
              /\ jobSt'[q] = CanceledJobs(jobSt[q])
  BY <1>1, <1>3, <1>4, StoreRows DEF RollUpFits
<1>6. RunsKept /\ \A q \in LaneRuns : runSt'[q] # "none" => runSt[q] # "none"
  BY <1>3, <1>5 DEF RunsKept, RollUpFits
<1>7. jobSt'[r][j] = st
  BY <1>2, <1>3, <1>5 DEF Settled, RollUpFits
<1>8. ASSUME NEW q \in LaneRuns, NEW k \in LaneJobs, q # r \/ k # j
      PROVE  /\ jobSt'[q][k] = "success" <=> jobSt[q][k] = "success"
             /\ jobSt'[q][k] = "running" => jobSt[q][k] = "running"
  <2>1. CASE q = r
    BY <1>2, <1>3, <1>5, <1>8, <2>1 DEF RollUpFits
  <2>2. CASE q # r
    <3>1. jobSt[q] \in [LaneJobs -> Live \cup Settled]
      BY DEF LaneInv, RowTypes
    <3> QED BY <1>5, <2>2, <3>1, CanceledRows
  <2> QED BY <2>1, <2>2
<1>9. \A q \in LaneRuns : \A g \in LockedRows(q) : q # r \/ g # j => jobSt'[q][g] = jobSt[q][g]
  BY <1>1, <1>5
<1> QED BY <1>5, <1>6, <1>7, <1>8, <1>9

\* The row a decided approval holds is a gate of its run, and is awaiting.
LEMMA LockedAreAwaiting ==
    ASSUME LaneInv, NEW q \in LaneRuns, NEW g \in LockedRows(q)
    PROVE  g \in LaneGates /\ jobSt[q][g] = "awaiting"
<1>1. PICK u \in Approvers : appr[u].pc = "decided" /\ appr[u].run = q /\ appr[u].gate = g
  BY DEF LockedRows
<1>2. appr[u] \in Approving
  BY <1>1 DEF LaneInv, LockTypes, NoApproval
<1> QED BY <1>1, <1>2 DEF LaneInv, DecisionsStand, DecisionStands, Approving

\* A job that ends other than by passing a gate nobody has decided.
LEMMA FinishMoves ==
    ASSUME LaneInv, NEW r \in LaneRuns, NEW j \in LaneJobs, NEW st \in Settled,
           runSt[r] # "none", Finishes(r, j, st), j \notin LockedRows(r),
           j \in LaneGates => st # "success" /\ jobSt[r][j] # "success"
    PROVE  RowMove
<1>1. NoPass
  BY FinishRows, LaneAssumption DEF NoPass
<1>2. FreshRuns
  BY FinishRows DEF FreshRuns
<1>3. KeepsLocked
  BY FinishRows DEF KeepsLocked
<1> QED BY <1>1, <1>2, <1>3, FinishRows DEF RowMove

\* A job that goes back to the queue, or ends canceled.
LEMMA PutBackMoves ==
    ASSUME LaneInv, NEW r \in LaneRuns, NEW j \in LaneJobs, runSt[r] # "none", PutBack(r, j)
    PROVE  RowMove
<1>1. j \notin LaneGates /\ j \notin LockedRows(r)
  <2>1. jobSt[r][j] \in {"running", "stopping"}
    BY DEF PutBack
  <2>2. j \notin LaneGates
    BY <2>1 DEF LaneInv, GatesPark, Settled
  <2> QED BY <2>2, LockedAreAwaiting
<1>2. CASE jobSt[r][j] = "stopping" /\ Finishes(r, j, "canceled")
  BY <1>1, <1>2, FinishMoves DEF Settled
<1>3. CASE jobSt' = [jobSt EXCEPT ![r][j] = "queued"] /\ UNCHANGED runSt
  <2>1. /\ RowTypes' /\ \A q \in LaneRuns, g \in LaneGates : jobSt'[q][g] = jobSt[q][g]
        /\ \A q \in LaneRuns : q # r => jobSt'[q] = jobSt[q]
    BY <1>1, <1>3, LaneAssumption DEF LaneInv, RowTypes, Live
  <2>2. KeepsLocked
    BY <2>1, LockedAreAwaiting DEF KeepsLocked
  <2> QED BY <1>3, <2>1, <2>2 DEF RowMove, LaneInv, GatesPark, RunsKept, NoPass, FreshRuns
<1> QED BY <1>2, <1>3 DEF PutBack

\* A run is created with every gate armed.
LEMMA CreateMoves ==
    ASSUME LaneInv, NEW r \in LaneRuns, CreateLaneRun(r)
    PROVE  RowMove
<1> DEFINE js == [j \in LaneJobs |-> IF j \in LaneGates THEN "awaiting" ELSE "queued"]
           scope == ReadyGateEnvsAtStart(LaneDef)
<1>1. runSt[r] = "none" /\ Store(r, js, "active", scope)
  BY DEF CreateLaneRun
<1>2. js \in [LaneJobs -> Live \cup Settled] /\ \A g \in LaneGates : js[g] = "awaiting"
  BY LaneAssumption DEF Live
<1> HIDE DEF js, scope
<1>3. /\ RowTypes' /\ GatesPark'
      /\ runSt'[r] = "active" /\ jobSt'[r] = js
      /\ \A q \in LaneRuns \ {r} :
           \/ runSt'[q] = runSt[q] /\ jobSt'[q] = jobSt[q]
           \/ /\ runSt[q] = "active" /\ runSt'[q] = "canceled" /\ LockedRows(q) = {}
              /\ jobSt'[q] = CanceledJobs(jobSt[q])
  BY <1>1, <1>2, StoreRows
<1>4. RunsKept
  BY <1>1, <1>3 DEF RunsKept
<1>5. NoPass
  <2> SUFFICES ASSUME NEW q \in LaneRuns, NEW g \in LaneGates, runSt[q] # "none"
               PROVE  jobSt'[q][g] = "success" <=> jobSt[q][g] = "success"
    BY DEF NoPass
  <2>1. q # r /\ g \in LaneJobs /\ jobSt[q] \in [LaneJobs -> Live \cup Settled]
    BY <1>1, LaneAssumption DEF LaneInv, RowTypes
  <2> QED BY <1>3, <2>1, CanceledRows
<1>6. FreshRuns
  BY <1>2, <1>3 DEF FreshRuns
<1>7. LockedRows(r) = {}
  <2>1. ASSUME NEW u \in Approvers, appr[u].pc = "decided", appr[u].run = r PROVE FALSE
    BY <1>1, <2>1 DEF LaneInv, ApprovalsHold, ApprovalHolds
  <2> QED BY <2>1 DEF LockedRows
<1>8. KeepsLocked
  BY <1>3, <1>7 DEF KeepsLocked
<1> QED BY <1>3, <1>4, <1>5, <1>6, <1>8 DEF RowMove

\* A user cancels a run none of whose gates is held.
LEMMA CancelMoves ==
    ASSUME LaneInv, NEW r \in LaneRuns, CancelLaneRun(r)
    PROVE  RowMove
<1>1. /\ runSt' = [runSt EXCEPT ![r] = "canceled"] /\ runSt[r] = "active" /\ LockedRows(r) = {}
      /\ jobSt' = [jobSt EXCEPT ![r] = CanceledJobs(jobSt[r])]
  BY DEF CancelLaneRun
<1>2. jobSt[r] \in [LaneJobs -> Live \cup Settled]
  BY DEF LaneInv, RowTypes
<1>3. RowTypes' /\ GatesPark'
  <2>1. CanceledJobs(jobSt[r]) \in [LaneJobs -> Live \cup Settled]
        /\ \A g \in LaneGates : CanceledJobs(jobSt[r])[g] \in {"awaiting"} \cup Settled
    BY <1>2, CanceledRows, LaneAssumption DEF LaneInv, GatesPark
  <2>2. RowTypes'
    BY <1>1, <2>1 DEF LaneInv, RowTypes, Settled
  <2>3. GatesPark'
    BY <1>1, <2>1 DEF LaneInv, RowTypes, GatesPark
  <2> QED BY <2>2, <2>3
<1>4. \A q \in LaneRuns : \/ q = r /\ runSt'[q] = "canceled" /\ jobSt'[q] = CanceledJobs(jobSt[q])
                          \/ q # r /\ runSt'[q] = runSt[q] /\ jobSt'[q] = jobSt[q]
  BY <1>1 DEF LaneInv, RowTypes
<1>5. RunsKept /\ FreshRuns /\ KeepsLocked
  BY <1>1, <1>4 DEF RunsKept, FreshRuns, KeepsLocked
<1>6. NoPass
  BY <1>2, <1>4, CanceledRows, LaneAssumption DEF NoPass
<1> QED BY <1>3, <1>5, <1>6 DEF RowMove

-----------------------------------------------------------------------------
(* What a step may do to the locks, apart from taking one                  *)

\* Every actor other than x stops, or goes on and keeps what it holds.
ShedBut(x) ==
    /\ LockTypes'
    /\ \A u \in Approvers \ {x} :
        \/ appr'[u] = NoApproval
        \/ /\ appr'[u] = appr[u]
           /\ \A e \in LaneEnvs : /\ laneLock[e] = u => laneLock'[e] = u
                                  /\ frzLock[e] = u => frzLock'[e] = u
    /\ \A d \in Dispatchers \ {x} :
        \/ disp'[d] = NoDispatch
        \/ /\ disp'[d] = disp[d]
           /\ \A e \in LaneEnvs :
                 /\ laneLock[e] = d => laneLock'[e] = d /\ revived[e] \subseteq revived'[e]
                 /\ frzLock[e] = d => frzLock'[e] = d
Shed == ShedBut(Nobody)

\* What the invariant asks of actor x alone.
CheckHolds(d) ==
    frzLock[LaneDef.target[disp[d].job]] = d /\ LaneDef.target[disp[d].job] \notin frozen
OwnHolds(x) ==
    /\ x \in Approvers => /\ appr[x].pc # "idle" => ApprovalHolds(x)
                          /\ appr[x].pc = "decided" => DecisionStands(x)
    /\ x \in Dispatchers => /\ Guarded(x) => GuardHolds(x)
                            /\ disp[x].pc = "checked" => CheckHolds(x)

\* What an actor is while it is at work.
LEMMA ActorShapes ==
    ASSUME LaneInv
    PROVE  /\ \A u \in Approvers : appr[u].pc # "idle" => appr[u] \in Approving
           /\ \A d \in Dispatchers : disp[d].pc # "idle" => disp[d] \in Dispatching
           /\ NoApproval.pc = "idle" /\ NoDispatch.pc = "idle"
BY DEF LaneInv, LockTypes, NoApproval, NoDispatch

\* Nobody moved.
LEMMA StillSheds ==
    ASSUME LaneInv, UNCHANGED <<marks, laneLock, frzLock, revived, appr, disp>>
    PROVE  Shed
<1>1. LockTypes'
  BY DEF LaneInv, LockTypes
<1> QED BY <1>1 DEF Shed, ShedBut

\* Release of the locks of one actor, who stops: nobody else holds them.
LEMMA ReleaseTypes ==
    ASSUME LaneInv, NEW who \in Approvers \cup Dispatchers, Release(who)
    PROVE  /\ laneLock' \in [LaneEnvs -> Holders] /\ frzLock' \in [LaneEnvs -> Holders]
           /\ revived' \in [LaneEnvs -> SUBSET LaneRuns]
           /\ \A o \in (Approvers \cup Dispatchers) \ {who} : \A e \in LaneEnvs :
                /\ laneLock[e] = o => laneLock'[e] = o /\ revived'[e] = revived[e]
                /\ frzLock[e] = o => frzLock'[e] = o
<1>1. laneLock' \in [LaneEnvs -> Holders] /\ frzLock' \in [LaneEnvs -> Holders]
  BY DEF Release, Unlock, LaneInv, LockTypes, Holders
<1>2. revived' \in [LaneEnvs -> SUBSET LaneRuns]
  BY DEF Release, LaneInv, LockTypes
<1> QED BY <1>1, <1>2 DEF Release, Unlock

\* An approval that ends.
LEMMA ApproverSheds ==
    ASSUME LaneInv, NEW u \in Approvers, appr' = [appr EXCEPT ![u] = NoApproval], Release(u),
           UNCHANGED disp, marks' \subseteq LaneRuns \X LaneEnvs
    PROVE  Shed
<1>1. LockTypes'
  BY ReleaseTypes DEF LaneInv, LockTypes
<1>2. \A w \in Approvers : appr'[w] = NoApproval \/ (w # u /\ appr'[w] = appr[w])
  BY DEF LaneInv, LockTypes
<1>3. \A d \in Dispatchers : d # u /\ disp'[d] = disp[d]
  BY LaneAssumption
<1>4. \A o \in (Approvers \cup Dispatchers) \ {u} : \A e \in LaneEnvs :
        /\ laneLock[e] = o => laneLock'[e] = o /\ revived'[e] = revived[e]
        /\ frzLock[e] = o => frzLock'[e] = o
  BY ReleaseTypes
<1> QED BY <1>1, <1>2, <1>3, <1>4 DEF Shed, ShedBut

\* A dispatch that ends.
LEMMA DispatcherSheds ==
    ASSUME LaneInv, NEW d \in Dispatchers, disp' = [disp EXCEPT ![d] = NoDispatch], Release(d),
           UNCHANGED <<appr, marks>>
    PROVE  Shed
<1>1. LockTypes'
  BY ReleaseTypes DEF LaneInv, LockTypes
<1>2. \A o \in Dispatchers : disp'[o] = NoDispatch \/ (o # d /\ disp'[o] = disp[o])
  BY DEF LaneInv, LockTypes
<1>3. \A u \in Approvers : u # d /\ appr'[u] = appr[u]
  BY LaneAssumption
<1>4. \A o \in (Approvers \cup Dispatchers) \ {d} : \A e \in LaneEnvs :
        /\ laneLock[e] = o => laneLock'[e] = o /\ revived'[e] = revived[e]
        /\ frzLock[e] = o => frzLock'[e] = o
  BY ReleaseTypes
<1> QED BY <1>1, <1>2, <1>3, <1>4 DEF Shed, ShedBut

\* Those who go on still hold what they held.
LEMMA ShedKeepsHolds ==
    ASSUME LaneInv, NEW x, ShedBut(x), OwnHolds(x)',
           \A q \in LaneRuns : runSt'[q] = "none" => runSt[q] = "none"
    PROVE  ApprovalsHold'
<1> SUFFICES ASSUME NEW u \in Approvers, appr'[u].pc # "idle" PROVE ApprovalHolds(u)'
  BY DEF ApprovalsHold
<1>1. CASE u = x
  BY <1>1 DEF OwnHolds
<1>2. CASE u # x
  <2>1. appr'[u] = appr[u] /\ \A e \in LaneEnvs : /\ laneLock[e] = u => laneLock'[e] = u
                                                  /\ frzLock[e] = u => frzLock'[e] = u
    BY <1>2, ActorShapes DEF ShedBut
  <2>2. appr[u] \in Approving /\ ApprovalHolds(u)
    BY <2>1, ActorShapes DEF LaneInv, ApprovalsHold
  <2>3. appr[u].gate \in LaneGates /\ appr[u].run \in LaneRuns
    BY <2>2 DEF Approving
  <2> QED BY <2>1, <2>2, <2>3, GraphFacts DEF ApprovalHolds
<1> QED BY <1>1, <1>2

\* A row has one decider, unless a second one decides.
LEMMA ShedKeepsOneDecision ==
    ASSUME LaneInv, NEW x, ShedBut(x), x \in Approvers => appr'[x].pc # "decided"
    PROVE  OneDecision'
<1>1. \A u \in Approvers : appr'[u].pc = "decided" => appr'[u] = appr[u]
  BY ActorShapes DEF ShedBut
<1> QED BY <1>1 DEF OneDecision, LaneInv

FreezesWait == \A e \in LaneEnvs : e \in frozen' => e \in frozen \/ frzLock[e] = Nobody

\* No freeze gets in while the freeze lock is held.
LEMMA ShedKeepsChecks ==
    ASSUME LaneInv, NEW x, ShedBut(x), OwnHolds(x)', FreezesWait
    PROVE  ChecksHold'
<1> SUFFICES ASSUME NEW d \in Dispatchers, disp'[d].pc = "checked" PROVE CheckHolds(d)'
  BY DEF ChecksHold, CheckHolds
<1>0. CASE d = x
  BY <1>0 DEF OwnHolds
<1>1. CASE d # x
  <2>1. disp'[d] = disp[d] /\ \A e \in LaneEnvs : frzLock[e] = d => frzLock'[e] = d
    BY <1>1, ActorShapes DEF ShedBut
  <2>2. disp[d].job \in TargetJobs(LaneDef)
    BY <2>1, ActorShapes DEF Dispatching
  <2>3. frzLock[LaneDef.target[disp[d].job]] = d /\ LaneDef.target[disp[d].job] \notin frozen
    BY <2>1 DEF LaneInv, ChecksHold
  <2> QED BY <2>1, <2>2, <2>3, GraphFacts, LaneAssumption DEF FreezesWait, CheckHolds
<1> QED BY <1>0, <1>1

\* A step that marks nothing in an environment outdates no dispatch to it.
LEMMA ShedKeepsGuards ==
    ASSUME LaneInv, NEW x, ShedBut(x), OwnHolds(x)',
           \A e \in LaneEnvs, q \in LaneRuns :
               laneLock[e] \in Dispatchers /\ revived[e] \subseteq revived'[e] /\ Outdates(q, e)'
               => Outdates(q, e)
    PROVE  GuardsHold'
<1> SUFFICES ASSUME NEW d \in Dispatchers, Guarded(d)' PROVE GuardHolds(d)'
  BY DEF GuardsHold
<1>0. CASE d = x
  BY <1>0 DEF OwnHolds
<1>1. CASE d # x
  <2>1. disp'[d] = disp[d] /\ \A e \in LaneEnvs :
            laneLock[e] = d => laneLock'[e] = d /\ revived[e] \subseteq revived'[e]
    BY <1>1, ActorShapes DEF ShedBut, Guarded
  <2>2. Guarded(d) /\ disp[d].job \in TargetJobs(LaneDef)
    BY <2>1, ActorShapes DEF Guarded, Dispatching
  <2> DEFINE e == LaneDef.target[disp[d].job]
  <2>3. laneLock[e] = d /\ \A q \in LaneRuns : q > disp[d].run => ~Outdates(q, e)
    BY <2>2 DEF LaneInv, GuardsHold, GuardHolds
  <2>4. e \in LaneEnvs /\ LaneDef.target[disp'[d].job] = e
    BY <2>1, <2>2, GraphFacts
  <2> QED BY <2>1, <2>3, <2>4 DEF GuardHolds, Outdates
<1> QED BY <1>0, <1>1

\* What an approval decided on stays as it read it: its gate's row and the
\* gates that guard the same environments, in the rows of its run.
ReadsStand(w) ==
    /\ jobSt'[appr[w].run][appr[w].gate] = "awaiting"
    /\ \A e \in Clears[appr[w].gate] : \A h \in Guards[e] \ {appr[w].gate} :
          jobSt'[appr[w].run][h] = "success" <=> jobSt[appr[w].run][h] = "success"

\* The decisions of those who go on stand.
LEMMA ShedKeepsDecisions ==
    ASSUME LaneInv, NEW x, ShedBut(x), OwnHolds(x)', FreezesWait,
           \A w \in Approvers : appr[w].pc = "decided" /\ appr'[w] = appr[w] => ReadsStand(w)
    PROVE  DecisionsStand'
<1> SUFFICES ASSUME NEW w \in Approvers, appr'[w].pc = "decided" PROVE DecisionStands(w)'
  BY DEF DecisionsStand
<1>0. CASE w = x
  BY <1>0 DEF OwnHolds
<1>1. CASE w # x
  <2>1. appr'[w] = appr[w]
    BY <1>1, ActorShapes DEF ShedBut
  <2>2. appr[w] \in Approving /\ DecisionStands(w) /\ ApprovalHolds(w) /\ ReadsStand(w)
    BY <2>1, ActorShapes DEF LaneInv, DecisionsStand, ApprovalsHold
  <2>3. appr[w].gate \in LaneGates /\ appr[w].run \in LaneRuns
    BY <2>2 DEF Approving
  <2>4. Thaws[appr[w].gate] \cap frozen' = {}
    BY <2>2, <2>3, GraphFacts, LaneAssumption DEF FreezesWait, DecisionStands, ApprovalHolds
  <2>5. Cleared(appr[w].run, appr[w].gate)' = Cleared(appr[w].run, appr[w].gate)
    BY <2>1, <2>2 DEF Cleared, ReadsStand
  <2> QED BY <2>1, <2>2, <2>4, <2>5 DEF DecisionStands, ReadsStand
<1> QED BY <1>0, <1>1

\* A row move leaves every decision's reads as they were.
LEMMA MovesKeepReads ==
    ASSUME LaneInv, RowMove, NEW w \in Approvers, appr[w].pc = "decided"
    PROVE  ReadsStand(w)
<1>1. appr[w] \in Approving /\ DecisionStands(w) /\ ApprovalHolds(w)
  BY ActorShapes DEF LaneInv, DecisionsStand, ApprovalsHold
<1>2. appr[w].gate \in LaneGates /\ appr[w].run \in LaneRuns /\ appr[w].gate \in LockedRows(appr[w].run)
  BY <1>1 DEF Approving, LockedRows
<1>3. jobSt'[appr[w].run][appr[w].gate] = "awaiting"
  BY <1>1, <1>2 DEF RowMove, KeepsLocked, DecisionStands
<1>4. ASSUME NEW e \in Clears[appr[w].gate], NEW h \in Guards[e]
      PROVE  jobSt'[appr[w].run][h] = "success" <=> jobSt[appr[w].run][h] = "success"
  <2>1. h \in LaneGates
    BY <1>2, GraphFacts
  <2> QED BY <1>1, <1>2, <2>1 DEF RowMove, NoPass, ApprovalHolds
<1> QED BY <1>3, <1>4 DEF ReadsStand

\* Markers and gates move together: neither.
LEMMA MovesKeepMarks ==
    ASSUME LaneInv, RowMove, UNCHANGED marks
    PROVE  MarksExist' /\ MarksAgree'
<1>1. MarksExist'
  BY DEF LaneInv, MarksExist, RowMove, RunsKept
<1>2. ASSUME NEW r \in LaneRuns, NEW e \in LaneEnvs, runSt'[r] # "none", Guards[e] # {}
      PROVE  <<r, e>> \in marks' <=> \A g \in Guards[e] : jobSt'[r][g] = "success"
  <2>1. \A g \in Guards[e] : g \in LaneGates
    BY GraphFacts
  <2>2. CASE runSt[r] = "none"
    <3>1. <<r, e>> \notin marks
      BY <2>2 DEF LaneInv, MarksExist
    <3>2. \A g \in Guards[e] : jobSt'[r][g] # "success"
      BY <1>2, <2>1, <2>2 DEF RowMove, FreshRuns
    <3> QED BY <1>2, <3>1, <3>2
  <2>3. CASE runSt[r] # "none"
    <3>1. \A g \in Guards[e] : jobSt'[r][g] = "success" <=> jobSt[r][g] = "success"
      BY <2>1, <2>3 DEF RowMove, NoPass
    <3> QED BY <1>2, <2>3, <3>1 DEF LaneInv, MarksAgree
  <2> QED BY <2>2, <2>3
<1> QED BY <1>1, <1>2 DEF MarksAgree

\* A turn of actor x that passes no gate and marks nothing.
LEMMA TurnStep ==
    ASSUME LaneInv, RowMove, NEW x, ShedBut(x), OwnHolds(x)', OneDecision', UNCHANGED marks,
           FreezesWait
    PROVE  LaneInv'
<1>1. ApprovalsHold'
  BY ShedKeepsHolds DEF RowMove, RunsKept
<1>2. DecisionsStand'
  BY ShedKeepsDecisions, MovesKeepReads
<1>3. ChecksHold'
  BY ShedKeepsChecks
<1>4. ASSUME NEW e \in LaneEnvs, NEW q \in LaneRuns, laneLock[e] \in Dispatchers,
             revived[e] \subseteq revived'[e], Outdates(q, e)'
      PROVE  Outdates(q, e)
  <2>1. <<q, e>> \in marks /\ runSt[q] # "canceled"
    BY <1>4 DEF Outdates, RowMove, RunsKept
  <2>2. q \notin revived'[e]
    BY <1>4 DEF Outdates
  <2> QED BY <1>4, <2>1, <2>2 DEF Outdates
<1>5. GuardsHold'
  BY <1>4, ShedKeepsGuards
<1>6. MarksExist' /\ MarksAgree'
  BY MovesKeepMarks
<1>7. NotCreated'
  BY DEF LaneInv, NotCreated, RowMove, RunsKept
<1> QED BY <1>1, <1>2, <1>3, <1>5, <1>6, <1>7 DEF LaneInv, RowMove, ShedBut

\* The steps that take no lock, pass no gate and mark nothing.
LEMMA PlainStep ==
    ASSUME LaneInv, RowMove, Shed, UNCHANGED marks, FreezesWait
    PROVE  LaneInv'
<1>1. OwnHolds(Nobody)' /\ Nobody \notin Approvers
  BY LaneAssumption DEF OwnHolds
<1>2. OneDecision'
  BY <1>1, ShedKeepsOneDecision DEF Shed
<1> QED BY <1>1, <1>2, TurnStep DEF Shed

\* The rows of runs: creation, cancel, builds, rejections, results, requeues.
LEMMA RowActions ==
    ASSUME LaneInv, NEW r \in LaneRuns,
           \/ CreateLaneRun(r) \/ CancelLaneRun(r)
           \/ \E j \in LaneJobs : \/ ReclaimDeploy(r, j)
                                  \/ \E out \in {"success", "failed"} :
                                        BuildJob(r, j, out) \/ DeployResult(r, j, out)
           \/ \E g \in LaneGates : RejectGate(r, g)
    PROVE  LaneInv'
<1>1. UNCHANGED <<marks, frozen, laneLock, frzLock, revived, appr, disp>>
  BY DEF CreateLaneRun, CancelLaneRun, ReclaimDeploy, BuildJob, DeployResult, RejectGate,
     lockVars, actorVars
<1>2. Shed /\ FreezesWait
  BY <1>1, StillSheds DEF FreezesWait
<1>3. ASSUME NEW j \in LaneJobs, ReclaimDeploy(r, j) PROVE RowMove
  BY <1>3, PutBackMoves DEF ReclaimDeploy
<1>4. ASSUME NEW j \in LaneJobs, NEW out \in {"success", "failed"}, BuildJob(r, j, out)
      PROVE  RowMove
  <2>1. j \notin LaneGates /\ j \notin LockedRows(r)
    BY <1>4, LockedAreAwaiting DEF BuildJob
  <2> QED BY <1>4, <2>1, FinishMoves DEF BuildJob, Settled
<1>5. ASSUME NEW j \in LaneJobs, NEW out \in {"success", "failed"}, DeployResult(r, j, out)
      PROVE  RowMove
  <2>0. runSt[r] # "none"
    BY <1>5 DEF DeployResult, LaneInv, NotCreated
  <2>1. j \notin LaneGates
    BY <1>5 DEF DeployResult, LaneInv, GatesPark, Settled
  <2>2. j \notin LockedRows(r)
    BY <2>1, LockedAreAwaiting
  <2> QED BY <1>5, <2>0, <2>1, <2>2, FinishMoves DEF DeployResult, Settled
<1>6. ASSUME NEW g \in LaneGates, RejectGate(r, g) PROVE RowMove
  <2>1. g \in LaneJobs
    BY LaneAssumption
  <2> QED BY <1>6, <2>1, FinishMoves DEF RejectGate, Settled
<1>7. RowMove
  BY <1>3, <1>4, <1>5, <1>6, CreateMoves, CancelMoves
<1> QED BY <1>1, <1>2, <1>7, PlainStep

\* Freezes, the end of a dispatch, and the steps of other parts.
LEMMA PlainActions ==
    ASSUME LaneInv,
           \/ \E e \in LaneEnvs : Freeze(e) \/ Unfreeze(e)
           \/ \E d \in Dispatchers : HandOver(d) \/ UndoDispatch(d) \/ DispatcherDies(d)
           \/ UNCHANGED laneVars
    PROVE  LaneInv'
<1>1. ASSUME NEW e \in LaneEnvs, Freeze(e) \/ Unfreeze(e) PROVE LaneInv'
  <2>1. UNCHANGED <<runSt, jobSt, marks, laneLock, frzLock, revived, appr, disp>> /\ FreezesWait
    BY <1>1 DEF Freeze, Unfreeze, lockVars, actorVars, FreezesWait
  <2> QED BY <2>1, StillSheds, RowsStill, PlainStep
<1>2. ASSUME NEW d \in Dispatchers, HandOver(d) \/ UndoDispatch(d) \/ DispatcherDies(d)
      PROVE  LaneInv'
  <2>1. UNCHANGED <<marks, frozen, appr>> /\ disp' = [disp EXCEPT ![d] = NoDispatch] /\ Release(d)
    BY <1>2 DEF HandOver, UndoDispatch, DispatcherDies
  <2>2. Shed /\ FreezesWait
    BY <2>1, DispatcherSheds DEF FreezesWait
  <2>3. RowMove
    <3>1. CASE UndoDispatch(d)
      <4>1. disp[d] \in Dispatching
        BY <3>1, ActorShapes DEF UndoDispatch
      <4>2. disp[d].run \in LaneRuns /\ disp[d].job \in LaneJobs
        BY <4>1, GraphFacts DEF Dispatching
      <4>3. PutBack(disp[d].run, disp[d].job)
        BY <3>1 DEF UndoDispatch
      <4>4. runSt[disp[d].run] # "none"
        BY <4>2, <4>3 DEF PutBack, LaneInv, NotCreated
      <4> QED BY <4>2, <4>3, <4>4, PutBackMoves
    <3>2. CASE HandOver(d) \/ DispatcherDies(d)
      BY <3>2, RowsStill DEF HandOver, DispatcherDies
    <3> QED BY <1>2, <3>1, <3>2
  <2> QED BY <2>1, <2>2, <2>3, PlainStep
<1>3. CASE UNCHANGED laneVars
  <2>1. UNCHANGED <<runSt, jobSt, marks, laneLock, frzLock, revived, appr, disp>> /\ FreezesWait
    BY <1>3 DEF laneVars, FreezesWait
  <2> QED BY <2>1, StillSheds, RowsStill, PlainStep
<1> QED BY <1>1, <1>2, <1>3

\* Taking locks that are free takes them from nobody.
LEMMA LocksTaken ==
    ASSUME LaneInv, NEW x \in Approvers \cup Dispatchers, LockTypes', UNCHANGED revived,
           \A u \in Approvers \ {x} : appr'[u] = appr[u],
           \A d \in Dispatchers \ {x} : disp'[d] = disp[d],
           \A e \in LaneEnvs : laneLock'[e] = laneLock[e] \/ laneLock[e] \in {x, Nobody},
           \A e \in LaneEnvs : frzLock'[e] = frzLock[e] \/ frzLock[e] \in {x, Nobody}
    PROVE  ShedBut(x)
<1>1. \A o \in (Approvers \cup Dispatchers) \ {x} : \A e \in LaneEnvs :
        /\ laneLock[e] = o => laneLock'[e] = o
        /\ frzLock[e] = o => frzLock'[e] = o
  BY LaneAssumption
<1> QED BY <1>1 DEF ShedBut

\* The locks of an approval, taken together while all are free.
LEMMA ApproveLockKeeps ==
    ASSUME LaneInv, NEW u \in Approvers, NEW r \in LaneRuns, NEW g \in LaneGates,
           ApproveLock(u, r, g)
    PROVE  LaneInv'
<1> DEFINE a == [pc |-> "locked", run |-> r, gate |-> g, envs |-> {}]
<1>1. /\ appr' = [appr EXCEPT ![u] = a] /\ runSt[r] # "none"
      /\ UNCHANGED <<runSt, jobSt, marks, frozen, disp, revived>>
  BY DEF ApproveLock
<1>2. /\ laneLock' = [e \in LaneEnvs |-> IF e \in Clears[g] THEN u ELSE laneLock[e]]
      /\ \A e \in Clears[g] : laneLock[e] = Nobody
  BY DEF ApproveLock, LaneEnvsOf
<1>3. /\ frzLock' = [e \in LaneEnvs |-> IF e \in Thaws[g] THEN u ELSE frzLock[e]]
      /\ \A e \in Thaws[g] : frzLock[e] = Nobody
  BY DEF ApproveLock
<1>4. a \in Approving /\ a.pc = "locked" /\ a.gate = g /\ a.run = r
  BY DEF Approving
<1> HIDE DEF a
<1>5. appr'[u] = a /\ \A w \in Approvers \ {u} : appr'[w] = appr[w]
  BY <1>1 DEF LaneInv, LockTypes
<1>6. LockTypes'
  <2>1. laneLock' \in [LaneEnvs -> Holders] /\ frzLock' \in [LaneEnvs -> Holders]
    BY <1>2, <1>3 DEF LaneInv, LockTypes, Holders
  <2>2. appr' \in [Approvers -> Approving \cup {NoApproval}]
    BY <1>1, <1>4 DEF LaneInv, LockTypes
  <2> QED BY <1>1, <2>1, <2>2 DEF LaneInv, LockTypes
<1>7. ShedBut(u)
  BY <1>1, <1>2, <1>3, <1>5, <1>6, LocksTaken
<1>8. ApprovalHolds(u)'
  BY <1>1, <1>2, <1>3, <1>4, <1>5, GraphFacts DEF ApprovalHolds
<1>9. OwnHolds(u)'
  BY <1>4, <1>5, <1>8, LaneAssumption DEF OwnHolds
<1>10. OneDecision'
  BY <1>4, <1>5, <1>7, ShedKeepsOneDecision
<1>11. RowMove /\ FreezesWait
  BY <1>1, RowsStill DEF FreezesWait
<1> QED BY <1>1, <1>7, <1>9, <1>10, <1>11, TurnStep

\* The decision of an approval is made on the row, under its lock.
LEMMA ApproveDecideKeeps ==
    ASSUME LaneInv, NEW u \in Approvers, ApproveDecide(u)
    PROVE  LaneInv'
<1> DEFINE r == appr[u].run
           g == appr[u].gate
           refused == jobSt[r][g] # "awaiting" \/ Thaws[g] \cap frozen # {}
<1>1. appr[u] \in Approving /\ appr[u].pc = "locked" /\ g \notin LockedRows(r)
      /\ UNCHANGED <<runSt, jobSt, marks, frozen, disp>>
  BY ActorShapes DEF ApproveDecide
<1>2. r \in LaneRuns /\ g \in LaneGates /\ ApprovalHolds(u)
  BY <1>1 DEF Approving, LaneInv, ApprovalsHold
<1>3. RowMove /\ FreezesWait
  BY <1>1, RowsStill DEF FreezesWait
<1>4. CASE refused
  <2>1. appr' = [appr EXCEPT ![u] = NoApproval] /\ Release(u)
    BY <1>4 DEF ApproveDecide
  <2>2. marks' \subseteq LaneRuns \X LaneEnvs
    BY <1>1 DEF LaneInv, LockTypes
  <2>3. Shed
    BY <1>1, <2>1, <2>2, ApproverSheds
  <2> QED BY <1>1, <1>3, <2>3, PlainStep
<1>5. CASE ~refused
  <2> DEFINE a == [appr[u] EXCEPT !.pc = "decided", !.envs = Cleared(r, g)]
  <2>1. appr' = [appr EXCEPT ![u] = a] /\ UNCHANGED <<laneLock, frzLock, revived>>
    BY <1>5 DEF ApproveDecide, lockVars
  <2>2. Cleared(r, g) \in SUBSET LaneEnvs
    BY <1>2, GraphFacts DEF Cleared
  <2>3. a \in Approving /\ a.pc = "decided" /\ a.run = r /\ a.gate = g /\ a.envs = Cleared(r, g)
    BY <1>1, <2>2 DEF Approving
  <2> HIDE DEF a
  <2>4. appr'[u] = a /\ \A w \in Approvers \ {u} : appr'[w] = appr[w]
    BY <2>1 DEF LaneInv, LockTypes
  <2>5. LockTypes'
    BY <1>1, <2>1, <2>3 DEF LaneInv, LockTypes
  <2>6. ShedBut(u)
    BY <1>1, <2>1, <2>4, <2>5, LocksTaken
  <2>7. ApprovalHolds(u)'
    BY <1>1, <1>2, <2>1, <2>3, <2>4 DEF ApprovalHolds
  <2>8. DecisionStands(u)'
    <3>1. Cleared(r, g) = {e \in Clears[g] : \A h \in Guards[e] \ {g} : jobSt'[r][h] = "success"}
      BY <1>1 DEF Cleared
    <3> QED BY <1>1, <1>5, <2>3, <2>4, <3>1 DEF DecisionStands, Cleared
  <2>9. OwnHolds(u)'
    BY <2>7, <2>8, LaneAssumption DEF OwnHolds
  <2>10. OneDecision'
    <3>1. \A w \in Approvers \ {u} : appr[w].pc = "decided" => appr[w].run # r \/ appr[w].gate # g
      BY <1>1 DEF LockedRows
    <3> QED BY <2>3, <2>4, <3>1 DEF OneDecision, LaneInv
  <2> QED BY <1>1, <1>3, <2>6, <2>9, <2>10, TurnStep
<1> QED BY <1>4, <1>5

\* A gate passes: what it marks is what it cleared when it decided, because the
\* lane locks kept every other gate of those environments where it was.
LEMMA ApproveCommitKeeps ==
    ASSUME LaneInv, NEW u \in Approvers, ApproveCommit(u)
    PROVE  LaneInv'
<1> DEFINE r == appr[u].run
           g == appr[u].gate
<1>1. /\ appr[u].pc = "decided" /\ marks' = marks \cup ({r} \X appr[u].envs)
      /\ Finishes(r, g, "success") /\ appr' = [appr EXCEPT ![u] = NoApproval] /\ Release(u)
      /\ UNCHANGED <<frozen, disp>>
  BY DEF ApproveCommit
<1>2. appr[u] \in Approving /\ ApprovalHolds(u) /\ DecisionStands(u)
  BY <1>1, ActorShapes DEF LaneInv, ApprovalsHold, DecisionsStand
<1>3. /\ r \in LaneRuns /\ g \in LaneGates /\ g \in LaneJobs /\ appr[u].envs \subseteq LaneEnvs
      /\ runSt[r] # "none"
  BY <1>2, LaneAssumption DEF Approving, ApprovalHolds
<1> HIDE DEF r, g
<1>4. /\ RowTypes' /\ GatesPark' /\ RunsKept
      /\ \A q \in LaneRuns : runSt'[q] # "none" => runSt[q] # "none"
      /\ jobSt'[r][g] = "success"
      /\ \A q \in LaneRuns, k \in LaneJobs : q # r \/ k # g =>
           (jobSt'[q][k] = "success" <=> jobSt[q][k] = "success")
      /\ \A q \in LaneRuns : \A h \in LockedRows(q) : q # r \/ h # g => jobSt'[q][h] = jobSt[q][h]
  BY <1>1, <1>3, FinishRows DEF Settled
<1>5. marks' \subseteq LaneRuns \X LaneEnvs
  BY <1>1, <1>3 DEF LaneInv, LockTypes
<1>6. Shed
  BY <1>1, <1>5, ApproverSheds
<1>7. OwnHolds(Nobody)' /\ Nobody \notin Approvers /\ FreezesWait
  BY <1>1, LaneAssumption DEF OwnHolds, FreezesWait
<1>8. ApprovalsHold' /\ OneDecision' /\ ChecksHold'
  BY <1>4, <1>6, <1>7, ShedKeepsHolds, ShedKeepsOneDecision, ShedKeepsChecks DEF Shed, RunsKept
<1>9. ASSUME NEW w \in Approvers, appr[w].pc = "decided", appr'[w] = appr[w] PROVE ReadsStand(w)
  <2>1. w # u
    BY <1>1, <1>9, ActorShapes DEF LaneInv, LockTypes
  <2>2. appr[w] \in Approving /\ DecisionStands(w) /\ ApprovalHolds(w)
    BY <1>9, ActorShapes DEF LaneInv, DecisionsStand, ApprovalsHold
  <2>3. /\ appr[w].gate \in LaneGates /\ appr[w].run \in LaneRuns
        /\ appr[w].gate \in LockedRows(appr[w].run)
    BY <1>9, <2>2 DEF Approving, LockedRows
  <2>4. appr[w].run # r \/ appr[w].gate # g
    BY <1>1, <1>9, <2>1 DEF LaneInv, OneDecision, r, g
  <2>5. jobSt'[appr[w].run][appr[w].gate] = "awaiting"
    BY <1>4, <2>2, <2>3, <2>4 DEF DecisionStands
  <2>6. ASSUME NEW e \in Clears[appr[w].gate], NEW h \in Guards[e]
        PROVE  jobSt'[appr[w].run][h] = "success" <=> jobSt[appr[w].run][h] = "success"
    <3>1. e \in LaneEnvs /\ h \in LaneGates /\ h \in LaneJobs
      BY <2>3, GraphFacts, LaneAssumption
    <3>2. laneLock[e] = w
      BY <2>2 DEF ApprovalHolds
    <3>3. h # g
      BY <1>2, <2>1, <3>1, <3>2, GraphFacts DEF ApprovalHolds, g
    <3> QED BY <1>4, <2>3, <3>1, <3>3
  <2> QED BY <2>5, <2>6 DEF ReadsStand
<1>10. DecisionsStand'
  BY <1>6, <1>7, <1>9, ShedKeepsDecisions DEF Shed
<1>11. \A e \in appr[u].envs : e \in Clears[g] /\ laneLock[e] = u
  BY <1>2 DEF DecisionStands, Cleared, ApprovalHolds, g
<1>12. ASSUME NEW e \in LaneEnvs, NEW q \in LaneRuns, laneLock[e] \in Dispatchers,
              revived[e] \subseteq revived'[e], Outdates(q, e)'
       PROVE  Outdates(q, e)
  <2>1. e \notin appr[u].envs
    BY <1>11, <1>12, LaneAssumption
  <2>2. <<q, e>> \in marks
    BY <1>1, <1>12, <2>1 DEF Outdates
  <2>3. runSt[q] # "canceled" /\ q \notin revived[e]
    BY <1>4, <1>12 DEF Outdates, RunsKept
  <2> QED BY <2>2, <2>3 DEF Outdates
<1>13. GuardsHold'
  BY <1>6, <1>7, <1>12, ShedKeepsGuards DEF Shed
<1>14. MarksExist'
  BY <1>1, <1>3, <1>4 DEF LaneInv, MarksExist, RunsKept
<1>15. ASSUME NEW q \in LaneRuns, NEW e \in LaneEnvs, runSt'[q] # "none", Guards[e] # {}
       PROVE  <<q, e>> \in marks' <=> \A h \in Guards[e] : jobSt'[q][h] = "success"
  <2>0. /\ \A h \in Guards[e] : h \in LaneGates /\ h \in LaneJobs
        /\ runSt[q] # "none"
        /\ <<q, e>> \in marks <=> \A h \in Guards[e] : jobSt[q][h] = "success"
    BY <1>4, <1>15, GraphFacts, LaneAssumption DEF LaneInv, MarksAgree
  <2>1. CASE q = r /\ g \in Guards[e]
    <3>1. e \in Clears[g]
      BY <1>3, <2>1, GraphFacts
    <3>2. jobSt[r][g] = "awaiting" /\ appr[u].envs = Cleared(r, g)
      BY <1>2 DEF DecisionStands, r, g
    <3>3. <<q, e>> \notin marks
      BY <2>0, <2>1, <3>2
    <3>4. <<q, e>> \in marks' <=> e \in Cleared(r, g)
      BY <1>1, <2>1, <3>2, <3>3
    <3>5. e \in Cleared(r, g) <=> \A h \in Guards[e] \ {g} : jobSt[r][h] = "success"
      BY <3>1 DEF Cleared
    <3>6. \A h \in Guards[e] \ {g} : jobSt'[r][h] = "success" <=> jobSt[r][h] = "success"
      BY <1>3, <1>4, <2>0
    <3> QED BY <1>4, <2>1, <3>4, <3>5, <3>6
  <2>2. CASE q # r \/ g \notin Guards[e]
    <3>1. <<q, e>> \in marks' <=> <<q, e>> \in marks
      BY <1>1, <1>3, <1>11, <2>2, GraphFacts
    <3>2. \A h \in Guards[e] : jobSt'[q][h] = "success" <=> jobSt[q][h] = "success"
      BY <1>4, <2>0, <2>2
    <3> QED BY <2>0, <3>1, <3>2
  <2> QED BY <2>1, <2>2
<1>16. MarksAgree'
  BY <1>15 DEF MarksAgree
<1>17. NotCreated'
  BY <1>4 DEF LaneInv, NotCreated, RunsKept
<1> QED BY <1>4, <1>6, <1>8, <1>10, <1>13, <1>14, <1>16, <1>17 DEF LaneInv, Shed, ShedBut

\* A rerun: it may revive a canceled run, which a dispatch that holds the lane
\* lock does not see, and it drops the markers of the gates it arms again.
LEMMA RerunKeeps ==
    ASSUME LaneInv, NEW r \in LaneRuns, NEW j \in LaneJobs, NEW roll, Rerun(r, j, roll)
    PROVE  LaneInv'
<1> DEFINE G == Later(r, j) \cap LaneGates
           js == [k \in LaneJobs |-> IF k = j \/ k \in Later(r, j) \ G THEN "queued"
                                     ELSE IF k \in G THEN "awaiting" ELSE jobSt[r][k]]
           undone == UNION {Clears[g] : g \in PendingGates(js)}
<1>1. /\ j \notin LaneGates /\ runSt[r] # "none" /\ jobSt' = [jobSt EXCEPT ![r] = js]
      /\ runSt' = [runSt EXCEPT ![r] = "active"]
      /\ marks' = {m \in marks : m[1] # r \/ m[2] \notin undone}
      /\ revived' = [e \in LaneEnvs |-> IF laneLock[e] # Nobody THEN revived[e] \cup {r} ELSE revived[e]]
      /\ UNCHANGED <<frozen, laneLock, frzLock, appr, disp>>
  BY DEF Rerun, actorVars
<1>2. js \in [LaneJobs -> Live \cup Settled]
  BY DEF LaneInv, RowTypes, Live
<1>3. \A g \in LaneGates : js[g] = jobSt[r][g] \/ (jobSt[r][g] = "canceled" /\ js[g] = "awaiting")
  BY <1>1, LaneAssumption DEF Later
<1> HIDE DEF js, G
<1>4. RowTypes' /\ jobSt'[r] = js /\ runSt'[r] = "active"
      /\ \A q \in LaneRuns : q # r => jobSt'[q] = jobSt[q] /\ runSt'[q] = runSt[q]
  BY <1>1, <1>2 DEF LaneInv, RowTypes
<1>5. \A q \in LaneRuns, g \in LaneGates :
         \/ jobSt'[q][g] = jobSt[q][g]
         \/ jobSt[q][g] = "canceled" /\ jobSt'[q][g] = "awaiting"
  BY <1>3, <1>4
<1>6. GatesPark' /\ NotCreated'
  BY <1>4, <1>5 DEF LaneInv, GatesPark, NotCreated
<1>7. LockTypes' /\ marks' \subseteq marks
  BY <1>1 DEF LaneInv, LockTypes
<1>8. Shed
  BY <1>1, <1>7 DEF Shed, ShedBut
<1>9. OwnHolds(Nobody)' /\ Nobody \notin Approvers /\ FreezesWait
  BY <1>1, LaneAssumption DEF OwnHolds, FreezesWait
<1>10. ApprovalsHold' /\ OneDecision' /\ ChecksHold'
  BY <1>4, <1>8, <1>9, ShedKeepsHolds, ShedKeepsOneDecision, ShedKeepsChecks DEF Shed
<1>11. ASSUME NEW w \in Approvers, appr[w].pc = "decided" PROVE ReadsStand(w)
  <2>1. appr[w] \in Approving /\ DecisionStands(w)
    BY <1>11, ActorShapes DEF LaneInv, DecisionsStand
  <2>2. appr[w].gate \in LaneGates /\ appr[w].run \in LaneRuns
    BY <2>1 DEF Approving
  <2>3. \A e \in Clears[appr[w].gate] : \A h \in Guards[e] : h \in LaneGates
    BY <2>2, GraphFacts
  <2> QED BY <1>5, <2>1, <2>2, <2>3 DEF ReadsStand, DecisionStands
<1>12. DecisionsStand'
  BY <1>8, <1>9, <1>11, ShedKeepsDecisions DEF Shed
<1>13. ASSUME NEW e \in LaneEnvs, NEW q \in LaneRuns, laneLock[e] \in Dispatchers,
              revived[e] \subseteq revived'[e], Outdates(q, e)'
       PROVE  Outdates(q, e)
  <2>1. r \in revived'[e]
    BY <1>1, <1>13, LaneAssumption
  <2>2. q # r /\ <<q, e>> \in marks
    BY <1>7, <1>13, <2>1 DEF Outdates
  <2> QED BY <1>4, <1>13, <2>2 DEF Outdates
<1>14. GuardsHold'
  BY <1>8, <1>9, <1>13, ShedKeepsGuards DEF Shed
<1>15. MarksExist'
  BY <1>4, <1>7 DEF LaneInv, MarksExist
<1>16. ASSUME NEW q \in LaneRuns, NEW e \in LaneEnvs, runSt'[q] # "none", Guards[e] # {}
       PROVE  <<q, e>> \in marks' <=> \A h \in Guards[e] : jobSt'[q][h] = "success"
  <2>1. /\ \A h \in Guards[e] : h \in LaneGates
        /\ runSt[q] # "none"
        /\ <<q, e>> \in marks <=> \A h \in Guards[e] : jobSt[q][h] = "success"
    BY <1>1, <1>4, <1>16, GraphFacts DEF LaneInv, MarksAgree
  <2>2. \A h \in Guards[e] : jobSt'[q][h] = "success" <=> jobSt[q][h] = "success"
    BY <1>5, <2>1
  <2>3. CASE q = r /\ e \in undone
    <3>1. PICK g \in PendingGates(js) : e \in Clears[g]
      BY <2>3
    <3>2. g \in LaneGates /\ js[g] = "awaiting" /\ g \in Guards[e]
      BY <1>16, <3>1, GraphFacts DEF PendingGates
    <3> QED BY <1>1, <1>4, <2>3, <3>2
  <2>4. CASE ~(q = r /\ e \in undone)
    <3>1. <<q, e>> \in marks' <=> <<q, e>> \in marks
      BY <1>1, <2>4
    <3> QED BY <2>1, <2>2, <3>1
  <2> QED BY <2>3, <2>4
<1>17. MarksAgree'
  BY <1>16 DEF MarksAgree
<1> QED BY <1>4, <1>6, <1>7, <1>10, <1>12, <1>14, <1>15, <1>17 DEF LaneInv

\* The guard takes a free lane lock and sees no newer pass, or needs none.
LEMMA BeginDeployGuardKeeps ==
    ASSUME LaneInv, NEW d \in Dispatchers, NEW r \in LaneRuns, NEW j \in LaneJobs,
           BeginDeployGuard(d, r, j)
    PROVE  LaneInv'
<1> DEFINE e == LaneDef.target[j]
           roll == <<r, j>> \in rolled
           guarded == j \in DeployJobs(LaneDef) /\ ~roll
           a == [pc |-> "guarded", run |-> r, job |-> j, roll |-> roll]
<1>1. /\ disp' = [disp EXCEPT ![d] = a] /\ j \in TargetJobs(LaneDef)
      /\ guarded => laneLock[e] = Nobody /\ ~NewerGatePass(r, e)
      /\ laneLock' = IF guarded THEN [laneLock EXCEPT ![e] = d] ELSE laneLock
      /\ UNCHANGED <<runSt, jobSt, marks, frozen, frzLock, appr, revived>>
  BY DEF BeginDeployGuard
<1>2. a \in Dispatching /\ a.pc = "guarded" /\ a.run = r /\ a.job = j /\ a.roll = roll
  BY <1>1 DEF Dispatching
<1>3. e \in LaneEnvs
  BY <1>1, GraphFacts
<1> HIDE DEF a, e, roll
<1>4. disp'[d] = a /\ \A o \in Dispatchers \ {d} : disp'[o] = disp[o]
  BY <1>1 DEF LaneInv, LockTypes
<1>5. LockTypes'
  <2>1. laneLock' \in [LaneEnvs -> Holders]
    BY <1>1 DEF LaneInv, LockTypes, Holders
  <2>2. disp' \in [Dispatchers -> Dispatching \cup {NoDispatch}]
    BY <1>1, <1>2 DEF LaneInv, LockTypes
  <2> QED BY <1>1, <2>1, <2>2 DEF LaneInv, LockTypes
<1>6. \A x \in LaneEnvs : laneLock'[x] = laneLock[x] \/ laneLock[x] \in {d, Nobody}
  BY <1>1 DEF LaneInv, LockTypes
<1>7. ShedBut(d)
  BY <1>1, <1>4, <1>5, <1>6, LocksTaken
<1>8. Guarded(d)' => GuardHolds(d)'
  <2> SUFFICES ASSUME Guarded(d)' PROVE GuardHolds(d)'
    OBVIOUS
  <2>1. guarded /\ disp'[d].job = j /\ disp'[d].run = r
    BY <1>2, <1>4 DEF Guarded
  <2>2. laneLock'[e] = d
    BY <1>1, <1>3, <2>1 DEF LaneInv, LockTypes
  <2>3. \A q \in LaneRuns : q > r => ~(<<q, e>> \in marks /\ runSt[q] # "canceled")
    BY <1>1, <2>1 DEF NewerGatePass
  <2> QED BY <1>1, <2>1, <2>2, <2>3 DEF GuardHolds, Outdates, e
<1>9. OwnHolds(d)'
  BY <1>2, <1>4, <1>8, LaneAssumption DEF OwnHolds
<1>10. OneDecision'
  BY <1>7, ShedKeepsOneDecision, LaneAssumption
<1>11. RowMove /\ FreezesWait
  BY <1>1, RowsStill DEF FreezesWait
<1> QED BY <1>1, <1>7, <1>9, <1>10, <1>11, TurnStep

\* A dispatch that moves on to "checked" or "claimed" keeps its lane lock.
LEMMA AdvanceKeeps ==
    ASSUME LaneInv, NEW d \in Dispatchers, NEW pc \in {"checked", "claimed"},
           disp[d].pc # "idle", disp' = [disp EXCEPT ![d].pc = pc], RowMove,
           frzLock' \in [LaneEnvs -> Holders],
           \A e \in LaneEnvs : frzLock'[e] = frzLock[e] \/ frzLock[e] \in {d, Nobody},
           pc = "checked" => frzLock'[LaneDef.target[disp[d].job]] = d
                             /\ LaneDef.target[disp[d].job] \notin frozen,
           UNCHANGED <<runSt, marks, frozen, laneLock, revived, appr>>
    PROVE  LaneInv'
<1> DEFINE a == [disp[d] EXCEPT !.pc = pc]
<1>1. disp[d] \in Dispatching
  BY ActorShapes
<1>2. /\ a \in Dispatching /\ a.pc = pc /\ a.run = disp[d].run /\ a.job = disp[d].job
      /\ a.roll = disp[d].roll
  BY <1>1 DEF Dispatching
<1>3. disp' = [disp EXCEPT ![d] = a]
  OBVIOUS
<1> HIDE DEF a
<1>4. disp'[d] = a /\ \A o \in Dispatchers \ {d} : disp'[o] = disp[o]
  BY <1>3 DEF LaneInv, LockTypes
<1>5. LockTypes'
  BY <1>2, <1>3 DEF LaneInv, LockTypes
<1>6. ShedBut(d)
  BY <1>4, <1>5, LocksTaken
<1>7. Guarded(d)' => GuardHolds(d)'
  <2>1. Guarded(d)' => Guarded(d)
    BY <1>2, <1>4 DEF Guarded
  <2> QED BY <1>2, <1>4, <2>1 DEF LaneInv, GuardsHold, GuardHolds, Outdates
<1>8. disp'[d].pc = "checked" => CheckHolds(d)'
  BY <1>2, <1>4 DEF CheckHolds
<1>9. OwnHolds(d)'
  BY <1>7, <1>8, LaneAssumption DEF OwnHolds
<1>10. OneDecision'
  BY <1>6, ShedKeepsOneDecision, LaneAssumption
<1> QED BY <1>6, <1>9, <1>10, TurnStep DEF FreezesWait

\* The freeze is read again under the freeze lock.
LEMMA AdmitCheckKeeps ==
    ASSUME LaneInv, NEW d \in Dispatchers, AdmitCheck(d)
    PROVE  LaneInv'
<1> DEFINE e == LaneDef.target[disp[d].job]
<1>1. /\ disp[d].pc = "guarded" /\ frzLock[e] = Nobody
      /\ UNCHANGED <<runSt, jobSt, marks, frozen, appr>>
  BY DEF AdmitCheck
<1>2. disp[d] \in Dispatching
  BY <1>1, ActorShapes
<1>3. e \in LaneEnvs
  BY <1>2, GraphFacts DEF Dispatching
<1>4. RowMove
  BY <1>1, RowsStill
<1>5. CASE disp' = [disp EXCEPT ![d] = NoDispatch] /\ Release(d)
  BY <1>1, <1>4, <1>5, DispatcherSheds, PlainStep DEF FreezesWait
<1>6. CASE /\ e \notin frozen /\ disp' = [disp EXCEPT ![d].pc = "checked"]
           /\ frzLock' = [frzLock EXCEPT ![e] = d] /\ UNCHANGED <<laneLock, revived>>
  <2>1. frzLock' \in [LaneEnvs -> Holders] /\ frzLock'[e] = d
        /\ \A x \in LaneEnvs : frzLock'[x] = frzLock[x] \/ frzLock[x] \in {d, Nobody}
    BY <1>1, <1>3, <1>6 DEF LaneInv, LockTypes, Holders
  <2> QED BY <1>1, <1>4, <1>6, <2>1, AdvanceKeeps
<1> QED BY <1>5, <1>6 DEF AdmitCheck

\* The claim of a queued row, or the end of a dispatch that lost it.
LEMMA AdmitCommitKeeps ==
    ASSUME LaneInv, NEW d \in Dispatchers, AdmitCommit(d)
    PROVE  LaneInv'
<1> DEFINE r == disp[d].run
           j == disp[d].job
<1>1. disp[d].pc = "checked" /\ UNCHANGED <<runSt, marks, frozen, appr>>
  BY DEF AdmitCommit
<1>2. disp[d] \in Dispatching
  BY <1>1, ActorShapes
<1>3. r \in LaneRuns /\ j \in LaneJobs
  BY <1>2, GraphFacts DEF Dispatching
<1>4. CASE disp' = [disp EXCEPT ![d] = NoDispatch] /\ Release(d) /\ UNCHANGED jobSt
  BY <1>1, <1>4, RowsStill, DispatcherSheds, PlainStep DEF FreezesWait
<1>5. CASE /\ jobSt[r][j] = "queued" /\ jobSt' = [jobSt EXCEPT ![r][j] = "running"]
           /\ disp' = [disp EXCEPT ![d].pc = "claimed"] /\ frzLock' = Unlock(frzLock, d)
           /\ UNCHANGED <<laneLock, revived>>
  <2>1. j \notin LaneGates
    BY <1>3, <1>5 DEF LaneInv, GatesPark, Settled
  <2> HIDE DEF r, j
  <2>2. /\ RowTypes' /\ \A q \in LaneRuns, g \in LaneGates : jobSt'[q][g] = jobSt[q][g]
        /\ \A q \in LaneRuns : q # r => jobSt'[q] = jobSt[q]
    BY <1>1, <1>3, <1>5, <2>1, LaneAssumption DEF LaneInv, RowTypes, Live
  <2>3. KeepsLocked
    BY <2>2, LockedAreAwaiting DEF KeepsLocked
  <2>4. runSt[r] # "none"
    BY <1>3, <1>5 DEF LaneInv, NotCreated
  <2>5. RowMove
    BY <1>1, <2>2, <2>3, <2>4 DEF RowMove, LaneInv, GatesPark, RunsKept, NoPass, FreshRuns
  <2>6. frzLock' \in [LaneEnvs -> Holders]
        /\ \A x \in LaneEnvs : frzLock'[x] = frzLock[x] \/ frzLock[x] \in {d, Nobody}
    BY <1>5 DEF LaneInv, LockTypes, Holders, Unlock
  <2> QED BY <1>1, <1>5, <2>5, <2>6, AdvanceKeeps
<1> QED BY <1>4, <1>5 DEF AdmitCommit

\* No run exists, nobody holds a lock.
LEMMA LaneInitHolds == LaneInit => LaneInv
<1> SUFFICES ASSUME LaneInit PROVE LaneInv
  OBVIOUS
<1>1. RowTypes /\ GatesPark /\ NotCreated
  BY LaneAssumption DEF LaneInit, RowTypes, GatesPark, NotCreated, Settled
<1>2. LockTypes
  BY DEF LaneInit, LockTypes, Holders
<1>3. /\ \A u \in Approvers : appr[u].pc = "idle"
      /\ \A d \in Dispatchers : disp[d].pc = "idle"
  BY DEF LaneInit, NoApproval, NoDispatch
<1>4. ApprovalsHold /\ DecisionsStand /\ OneDecision /\ GuardsHold /\ ChecksHold
  BY <1>3 DEF ApprovalsHold, DecisionsStand, OneDecision, GuardsHold, Guarded, ChecksHold
<1>5. MarksExist /\ MarksAgree
  BY DEF LaneInit, MarksExist, MarksAgree
<1> QED BY <1>1, <1>2, <1>4, <1>5 DEF LaneInv

\* Every step of the lane keeps who holds what.
LEMMA LaneNextKeeps == LaneInv /\ [LaneNext]_laneVars => LaneInv'
<1> SUFFICES ASSUME LaneInv, [LaneNext]_laneVars PROVE LaneInv'
  OBVIOUS
<1>1. ASSUME NEW r \in LaneRuns, NEW j \in LaneJobs, RerunLaneJob(r, j) \/ RollbackToRevision(r, j)
      PROVE  LaneInv'
  BY <1>1, RerunKeeps DEF RerunLaneJob, RollbackToRevision
<1> QED BY <1>1, RowActions, PlainActions, ApproveLockKeeps, ApproveDecideKeeps, ApproveCommitKeeps,
           BeginDeployGuardKeeps, AdmitCheckKeeps, AdmitCommitKeeps DEF LaneNext

-----------------------------------------------------------------------------
(* What the locks are for                                                  *)

\* The locks of lockApprovalEnvs, beginDeployGuard and
\* admitJobIfEnvNotFrozen are held for as long as what was read under them is
\* used, in a lane of any size.
THEOREM LaneInvariant == LaneSpec => []LaneInv
BY LaneInitHolds, LaneNextKeeps, PTL DEF LaneSpec

\* An environment has a gate-pass row for a run exactly when every gate that
\* governs it has passed, also when its gates are approved concurrently:
\* writeGatePassMarkers decides on what the lane lock keeps still.
THEOREM MarkersAgreeWithGates == LaneSpec => []MarkersMatchGates
<1>1. LaneInv => MarkersMatchGates
  BY GraphFacts DEF LaneInv, MarksAgree, MarkersMatchGates
<1> QED BY <1>1, LaneInvariant, PTL

\* The backstop of beginDeployGuard: at the hand-over of a deploy no newer run
\* that counts has been cleared, but for one revived behind the lock's back.
THEOREM HandedDeploysAreCurrent == LaneSpec => NoStaleDeploy
<1> DEFINE Fresh ==
      \A d \in Dispatchers :
          disp[d].pc = "claimed" /\ <<disp[d].run, disp[d].job>> \in handed' \ handed
          /\ ~disp[d].roll /\ disp[d].job \in DeployJobs(LaneDef) =>
            LET e == LaneDef.deploy[disp[d].job]
            IN \A q \in LaneRuns : q > disp[d].run /\ <<q, e>> \in marks =>
                    runSt[q] = "canceled" \/ q \in revived[e]
<1>1. LaneInv => Fresh
  BY GraphFacts DEF LaneInv, GuardsHold, GuardHolds, Guarded, Outdates
<1>2. [][Fresh]_laneVars <=> NoStaleDeploy
  BY PTL DEF NoStaleDeploy
<1> HIDE DEF Fresh
<1> QED BY <1>1, <1>2, LaneInvariant, PTL

-----------------------------------------------------------------------------
(* A freeze takes effect at once                                           *)

\* No job starts from the queue and no gate passes.
NothingAdmitted ==
    \A q \in LaneRuns, k \in LaneJobs :
        /\ jobSt'[q][k] = "running" => jobSt[q][k] # "queued"
        /\ jobSt'[q][k] = "success" => jobSt[q][k] # "awaiting"

\* The end of a job that is not a gate that passes.
LEMMA FinishAdmitsNothing ==
    ASSUME LaneInv, NEW r \in LaneRuns, NEW j \in LaneJobs, NEW st \in Settled,
           Finishes(r, j, st), st # "success" \/ jobSt[r][j] # "awaiting", runSt[r] # "none"
    PROVE  NothingAdmitted
<1>1. st # "running"
  BY DEF Settled
<1> QED BY <1>1, FinishRows DEF NothingAdmitted

\* Neither the creation of a run, with its supersede fire, nor a cancel, nor a
\* rerun starts a job or passes a gate.
LEMMA RunActionsAdmitNothing ==
    ASSUME LaneInv, NEW r \in LaneRuns,
           \/ CreateLaneRun(r) \/ CancelLaneRun(r)
           \/ \E j \in LaneJobs, roll \in BOOLEAN : Rerun(r, j, roll)
    PROVE  NothingAdmitted
<1>0. \A q \in LaneRuns : jobSt[q] \in [LaneJobs -> Live \cup Settled]
  BY DEF LaneInv, RowTypes
<1>1. CASE CreateLaneRun(r)
  <2> DEFINE js == [j \in LaneJobs |-> IF j \in LaneGates THEN "awaiting" ELSE "queued"]
             scope == ReadyGateEnvsAtStart(LaneDef)
  <2>1. Store(r, js, "active", scope)
    BY <1>1 DEF CreateLaneRun
  <2>2. js \in [LaneJobs -> Live \cup Settled] /\ (\A g \in LaneGates : js[g] = "awaiting")
        /\ \A k \in LaneJobs : js[k] \notin {"running", "success"}
    BY LaneAssumption DEF Live
  <2> HIDE DEF js, scope
  <2>3. /\ jobSt'[r] = js
        /\ \A q \in LaneRuns \ {r} : jobSt'[q] = jobSt[q] \/ jobSt'[q] = CanceledJobs(jobSt[q])
    BY <2>1, <2>2, StoreRows
  <2> QED BY <1>0, <2>2, <2>3, CanceledRows DEF NothingAdmitted
<1>2. CASE CancelLaneRun(r)
  <2>1. \A q \in LaneRuns : jobSt'[q] = jobSt[q] \/ jobSt'[q] = CanceledJobs(jobSt[q])
    BY <1>2 DEF CancelLaneRun, LaneInv, RowTypes
  <2> QED BY <1>0, <2>1, CanceledRows DEF NothingAdmitted
<1>3. ASSUME NEW j \in LaneJobs, NEW roll \in BOOLEAN, Rerun(r, j, roll) PROVE NothingAdmitted
  <2> DEFINE G == Later(r, j) \cap LaneGates
             js == [k \in LaneJobs |-> IF k = j \/ k \in Later(r, j) \ G THEN "queued"
                                       ELSE IF k \in G THEN "awaiting" ELSE jobSt[r][k]]
  <2>1. jobSt' = [jobSt EXCEPT ![r] = js]
    BY <1>3 DEF Rerun
  <2>2. \A k \in LaneJobs : js[k] \in {"queued", "awaiting", jobSt[r][k]}
    OBVIOUS
  <2> HIDE DEF js
  <2>3. \A q \in LaneRuns : jobSt'[q] = jobSt[q] \/ (q = r /\ jobSt'[q] = js)
    BY <2>1 DEF LaneInv, RowTypes
  <2> QED BY <2>2, <2>3 DEF NothingAdmitted
<1> QED BY <1>1, <1>2, <1>3

\* Nor does a job that goes back to the queue.
LEMMA PutBackAdmitsNothing ==
    ASSUME LaneInv, NEW r \in LaneRuns, NEW j \in LaneJobs, PutBack(r, j)
    PROVE  NothingAdmitted
<1>1. runSt[r] # "none"
  BY DEF PutBack, LaneInv, NotCreated
<1>2. CASE Finishes(r, j, "canceled")
  BY <1>1, <1>2, FinishAdmitsNothing DEF Settled
<1>3. CASE jobSt' = [jobSt EXCEPT ![r][j] = "queued"]
  BY <1>3 DEF LaneInv, RowTypes, NothingAdmitted
<1> QED BY <1>2, <1>3 DEF PutBack

\* Whatever is admitted, and whatever gate passes, is not frozen at that moment.
FrozenStep ==
    \A r \in LaneRuns, j \in LaneJobs :
        /\ jobSt[r][j] = "queued" /\ jobSt'[r][j] = "running" => LaneDef.target[j] \notin frozen
        /\ jobSt[r][j] = "awaiting" /\ jobSt'[r][j] = "success" => Thaws[j] \cap frozen = {}

\* The claim of AssignJob is made under the freeze lock.
LEMMA ClaimIsNotFrozen ==
    ASSUME LaneInv, NEW d \in Dispatchers, AdmitCommit(d)
    PROVE  FrozenStep
<1>1. disp[d].pc = "checked" /\ disp[d] \in Dispatching
  BY ActorShapes DEF AdmitCommit
<1>2. LaneDef.target[disp[d].job] \notin frozen
  BY <1>1 DEF LaneInv, ChecksHold
<1>3. disp[d].run \in LaneRuns /\ disp[d].job \in LaneJobs
  BY <1>1, GraphFacts DEF Dispatching
<1>4. \A q \in LaneRuns, k \in LaneJobs :
        \/ jobSt'[q][k] = jobSt[q][k]
        \/ q = disp[d].run /\ k = disp[d].job /\ jobSt'[q][k] = "running"
  BY <1>3 DEF AdmitCommit, LaneInv, RowTypes
<1> QED BY <1>2, <1>4 DEF FrozenStep

\* The flip of a gate is made under the freeze locks of what it clears.
LEMMA PassIsNotFrozen ==
    ASSUME LaneInv, NEW u \in Approvers, ApproveCommit(u)
    PROVE  FrozenStep
<1>1. /\ appr[u].pc = "decided" /\ appr[u] \in Approving /\ DecisionStands(u)
      /\ ApprovalHolds(u) /\ Finishes(appr[u].run, appr[u].gate, "success")
  BY ActorShapes DEF ApproveCommit, LaneInv, DecisionsStand, ApprovalsHold
<1>2. /\ appr[u].run \in LaneRuns /\ appr[u].gate \in LaneJobs
      /\ runSt[appr[u].run] # "none" /\ Thaws[appr[u].gate] \cap frozen = {}
  BY <1>1, LaneAssumption DEF Approving, ApprovalHolds, DecisionStands
<1>3. /\ jobSt'[appr[u].run][appr[u].gate] = "success"
      /\ \A q \in LaneRuns, k \in LaneJobs : q # appr[u].run \/ k # appr[u].gate =>
           /\ jobSt'[q][k] = "success" <=> jobSt[q][k] = "success"
           /\ jobSt'[q][k] = "running" => jobSt[q][k] = "running"
  BY <1>1, <1>2, FinishRows DEF Settled
<1> QED BY <1>2, <1>3 DEF FrozenStep

\* Every step of the lane respects the freezes.
LEMMA NextRespectsFreezes == LaneInv /\ LaneNext => FrozenStep
<1> SUFFICES ASSUME LaneInv, LaneNext PROVE FrozenStep
  OBVIOUS
<1>0. NothingAdmitted => FrozenStep
  BY DEF NothingAdmitted, FrozenStep
<1>1. ASSUME NEW r \in LaneRuns, CreateLaneRun(r) \/ CancelLaneRun(r) PROVE FrozenStep
  BY <1>0, <1>1, RunActionsAdmitNothing
<1>2. ASSUME NEW r \in LaneRuns, NEW j \in LaneJobs, RerunLaneJob(r, j) \/ RollbackToRevision(r, j)
      PROVE  FrozenStep
  BY <1>0, <1>2, RunActionsAdmitNothing DEF RerunLaneJob, RollbackToRevision
<1>3. ASSUME NEW r \in LaneRuns, NEW j \in LaneJobs, ReclaimDeploy(r, j) PROVE FrozenStep
  BY <1>0, <1>3, PutBackAdmitsNothing DEF ReclaimDeploy
<1>4. ASSUME NEW r \in LaneRuns, NEW j \in LaneJobs, NEW out \in {"success", "failed"},
             BuildJob(r, j, out)
      PROVE  FrozenStep
  BY <1>0, <1>4, FinishAdmitsNothing DEF BuildJob, Settled
<1>5. ASSUME NEW r \in LaneRuns, NEW j \in LaneJobs, NEW out \in {"success", "failed"},
             DeployResult(r, j, out)
      PROVE  FrozenStep
  <2>1. runSt[r] # "none" /\ jobSt[r][j] # "awaiting"
    BY <1>5 DEF DeployResult, LaneInv, NotCreated
  <2> QED BY <1>0, <1>5, <2>1, FinishAdmitsNothing DEF DeployResult, Settled
<1>6. ASSUME NEW r \in LaneRuns, NEW g \in LaneGates, RejectGate(r, g) PROVE FrozenStep
  BY <1>0, <1>6, FinishAdmitsNothing, LaneAssumption DEF RejectGate, Settled
<1>7. ASSUME NEW d \in Dispatchers, UndoDispatch(d) PROVE FrozenStep
  <2>1. disp[d] \in Dispatching /\ PutBack(disp[d].run, disp[d].job)
    BY <1>7, ActorShapes DEF UndoDispatch
  <2>2. disp[d].run \in LaneRuns /\ disp[d].job \in LaneJobs
    BY <2>1, GraphFacts DEF Dispatching
  <2> QED BY <1>0, <2>1, <2>2, PutBackAdmitsNothing
<1>8. UNCHANGED jobSt => FrozenStep
  BY DEF FrozenStep
<1>9. ASSUME NEW r \in LaneRuns, NEW j \in LaneJobs, NEW d \in Dispatchers,
             BeginDeployGuard(d, r, j)
      PROVE  FrozenStep
  BY <1>8, <1>9 DEF BeginDeployGuard
<1>10. ASSUME NEW u \in Approvers, ApproveDecide(u) \/ \E r \in LaneRuns, g \in LaneGates : ApproveLock(u, r, g)
       PROVE  FrozenStep
  BY <1>8, <1>10 DEF ApproveDecide, ApproveLock
<1>11. ASSUME NEW e \in LaneEnvs, Freeze(e) \/ Unfreeze(e) PROVE FrozenStep
  BY <1>8, <1>11 DEF Freeze, Unfreeze
<1>12. ASSUME NEW d \in Dispatchers, AdmitCheck(d) \/ HandOver(d) \/ DispatcherDies(d)
       PROVE  FrozenStep
  BY <1>8, <1>12 DEF AdmitCheck, HandOver, DispatcherDies
<1> QED BY <1>1, <1>2, <1>3, <1>4, <1>5, <1>6, <1>7, <1>9, <1>10, <1>11, <1>12,
           ClaimIsNotFrozen, PassIsNotFrozen DEF LaneNext

\* While an environment is frozen nothing that targets it is admitted and no
\* gate that clears it passes: admitJobIfEnvNotFrozen and decideGate both act
\* under the freeze lock that FreezeEnvironment waits for.
THEOREM FreezesAreRespected == LaneSpec => FrozenAdmitsNothing
<1>1. LaneInv /\ [LaneNext]_laneVars => [FrozenStep]_laneVars
  BY NextRespectsFreezes
<1>2. [][FrozenStep]_laneVars <=> FrozenAdmitsNothing
  BY PTL DEF FrozenAdmitsNothing, FrozenStep
<1> QED BY <1>1, <1>2, LaneInvariant, PTL DEF LaneSpec

-----------------------------------------------------------------------------
(* Gates come first                                                        *)

\* What a job finds when it starts: the gates of the stages before it and the
\* jobs it needs have passed.
Opened(js, j) ==
    /\ \A g \in LaneGates : LaneDef.stage[g] < LaneDef.stage[j] => js[g] = "success"
    /\ \A n \in LaneDef.needs[j] : js[n] = "success"
BegunInOrder(js) ==
    \A j \in LaneJobs \ LaneGates : js[j] \in {"running", "stopping", "success"} => Opened(js, j)

\* Nothing waits behind a canceled gate, nor behind a rejected one once its stage
\* is settled.
NoneBehind(js) ==
    \A g \in LaneGates, j \in LaneJobs :
        LaneDef.stage[g] < LaneDef.stage[j] /\ js[j] \in {"queued", "awaiting"} =>
            /\ js[g] # "canceled"
            /\ js[g] = "failed" => \E k \in InStage(LaneDef.stage[g]) : js[k] \in Live
Ordered(js) == BegunInOrder(js) /\ NoneBehind(js)

RowsOrdered == \A r \in LaneRuns \ reran : Ordered(jobSt[r])
DispatchOpened ==
    \A d \in Dispatchers : disp[d].pc # "idle" /\ disp[d].run \notin reran =>
        Opened(jobSt[disp[d].run], disp[d].job)
OrderInv == RowsOrdered /\ DispatchOpened

\* Rows ks may follow js: what has passed stays passed.
KeepsPassed(js, ks) == \A j \in LaneJobs : js[j] = "success" => ks[j] = "success"

\* The jobs of a stage, and the jobs a job lists, are jobs of the definition.
LEMMA DefinitionFacts ==
    /\ \A j \in LaneJobs : LaneDef.stage[j] \in Int /\ LaneDef.needs[j] \subseteq LaneJobs
    /\ LaneGates \subseteq LaneJobs
BY LaneAssumption DEF IsDefinition, Accepted, ValidateNeeds, LaneJobs

\* What was open to a job stays open while passed jobs stay passed.
LEMMA OpenedStays ==
    ASSUME NEW js, NEW ks, KeepsPassed(js, ks), NEW j \in LaneJobs, Opened(js, j)
    PROVE  Opened(ks, j)
BY DefinitionFacts DEF Opened, KeepsPassed

\* Canceling everything that waits leaves no job behind a gate.
LEMMA SweptIsOrdered ==
    ASSUME NEW js, NEW ks, Ordered(js), KeepsPassed(js, ks),
           \A j \in LaneJobs : ks[j] \notin {"queued", "awaiting"},
           \A j \in LaneJobs \ LaneGates : ks[j] \in {"running", "stopping", "success"} =>
               js[j] \in {"running", "stopping", "success"} \/ Opened(js, j)
    PROVE  Ordered(ks)
<1>1. BegunInOrder(ks)
  BY OpenedStays DEF Ordered, BegunInOrder
<1>2. NoneBehind(ks)
  BY DEF NoneBehind
<1> QED BY <1>1, <1>2 DEF Ordered

\* CancelRun and supersede.
LEMMA CancelIsOrdered ==
    ASSUME NEW js \in [LaneJobs -> Live \cup Settled], Ordered(js)
    PROVE  Ordered(CanceledJobs(js)) /\ KeepsPassed(js, CanceledJobs(js))
<1> DEFINE ks == CanceledJobs(js)
<1>1. \A j \in LaneJobs : /\ ks[j] \notin {"queued", "awaiting"}
                          /\ js[j] = "success" => ks[j] = "success"
                          /\ ks[j] \in {"running", "stopping", "success"} =>
                                js[j] \in {"running", "stopping", "success"}
  BY DEF CanceledJobs, Live, Settled
<1> HIDE DEF ks
<1>2. KeepsPassed(js, ks)
  BY <1>1 DEF KeepsPassed
<1>3. Ordered(ks)
  BY <1>1, <1>2, SweptIsOrdered
<1> QED BY <1>2, <1>3 DEF ks

\* The end of a job that was open to it: a stage with a rejected gate takes what
\* waits down with it when it closes, and until then holds it back.
LEMMA RollUpIsOrdered ==
    ASSUME NEW js \in [LaneJobs -> Live \cup Settled], Ordered(js), NEW k \in LaneJobs,
           js[k] \in Live, NEW st \in Settled, NEW rs,
           k \in LaneGates => st # "canceled",
           k \notin LaneGates /\ st = "success" => Opened(js, k)
    PROVE  LET c == RollUp([js EXCEPT ![k] = st], rs, LaneDef.stage[k])
           IN  Ordered(c.jobs) /\ KeepsPassed(js, c.jobs)
<1> DEFINE es == [js EXCEPT ![k] = st]
           s == LaneDef.stage[k]
           ks == RollUp(es, rs, s).jobs
           closed == \A j \in InStage(s) : es[j] \notin Live
           lost == \E j \in InStage(s) : es[j] = "failed"
           swept == [j \in LaneJobs |-> IF es[j] \in {"queued", "awaiting"} THEN "canceled" ELSE es[j]]
<1>1. es[k] = st /\ (\A j \in LaneJobs \ {k} : es[j] = js[j]) /\ js[k] # "success"
  BY DEF Live
<1>2. ks = IF closed /\ lost THEN swept ELSE es
  BY DEF RollUp
<1>3. KeepsPassed(js, es)
  BY <1>1 DEF KeepsPassed
<1>4. \A j \in LaneJobs \ LaneGates : es[j] \in {"running", "stopping", "success"} =>
        js[j] \in {"running", "stopping", "success"} \/ Opened(js, j)
  BY <1>1 DEF Settled
<1>5. ASSUME closed /\ lost PROVE Ordered(ks) /\ KeepsPassed(js, ks)
  <2>0. ks = swept
    BY <1>2, <1>5
  <2>1. \A j \in LaneJobs : /\ swept[j] \notin {"queued", "awaiting"}
                            /\ es[j] = "success" => swept[j] = "success"
                            /\ swept[j] \in {"running", "stopping", "success"} => swept[j] = es[j]
    OBVIOUS
  <2> HIDE DEF swept, es, ks
  <2>2. KeepsPassed(js, swept)
    BY <1>3, <2>1 DEF KeepsPassed
  <2>3. Ordered(swept)
    BY <1>4, <2>1, <2>2, SweptIsOrdered
  <2> QED BY <2>0, <2>2, <2>3
<1>6. ASSUME ~(closed /\ lost) PROVE Ordered(ks) /\ KeepsPassed(js, ks)
  <2>0. ks = es
    BY <1>2, <1>6
  <2>1. BegunInOrder(es)
    <3> HIDE DEF es
    <3> QED BY <1>3, <1>4, OpenedStays DEF Ordered, BegunInOrder
  <2>2. ASSUME NEW g \in LaneGates, NEW j \in LaneJobs,
               LaneDef.stage[g] < LaneDef.stage[j], es[j] \in {"queued", "awaiting"}
        PROVE  /\ es[g] # "canceled"
               /\ es[g] = "failed" => \E i \in InStage(LaneDef.stage[g]) : es[i] \in Live
    <3>1. g \in LaneJobs /\ js[j] = es[j]
      BY <1>1, <2>2, DefinitionFacts DEF Settled
    <3>2. /\ js[g] # "canceled"
          /\ js[g] = "failed" => \E i \in InStage(LaneDef.stage[g]) : js[i] \in Live
      BY <2>2, <3>1 DEF Ordered, NoneBehind
    <3>3. es[g] # "canceled"
      BY <1>1, <3>1, <3>2
    <3>4. ASSUME es[g] = "failed" PROVE \E i \in InStage(LaneDef.stage[g]) : es[i] \in Live
      <4>1. CASE LaneDef.stage[g] = s
        <5>1. lost
          BY <3>1, <3>4, <4>1 DEF InStage
        <5> HIDE DEF es
        <5> QED BY <1>6, <4>1, <5>1
      <4>2. CASE LaneDef.stage[g] # s
        <5>1. js[g] = "failed"
          BY <1>1, <3>1, <3>4, <4>2
        <5>2. PICK i \in InStage(LaneDef.stage[g]) : js[i] \in Live
          BY <3>2, <5>1
        <5>3. i \in LaneJobs /\ i # k
          BY <4>2, <5>2 DEF InStage
        <5> QED BY <1>1, <5>2, <5>3
      <4> QED BY <4>1, <4>2
    <3> QED BY <3>3, <3>4
  <2> HIDE DEF es, ks
  <2>3. NoneBehind(es)
    BY <2>2 DEF NoneBehind
  <2> QED BY <1>3, <2>0, <2>1, <2>3 DEF Ordered
<1> QED BY <1>5, <1>6

\* A step's rows and dispatches, for the runs nobody reran.
RowsFollow == \A q \in LaneRuns \ reran' : Ordered(jobSt'[q]) /\ KeepsPassed(jobSt[q], jobSt'[q])
DispatchFollows ==
    \A d \in Dispatchers : disp'[d].pc # "idle" =>
        \/ disp[d].pc # "idle" /\ disp'[d].run = disp[d].run /\ disp'[d].job = disp[d].job
        \/ disp'[d].run \notin reran => Opened(jobSt[disp'[d].run], disp'[d].job)

\* Such steps keep the order.
LEMMA FollowingKeepsOrder ==
    ASSUME LaneInv, LaneInv', OrderInv, RowsFollow, DispatchFollows, reran \subseteq reran'
    PROVE  OrderInv'
<1>1. RowsOrdered'
  BY DEF RowsFollow, RowsOrdered
<1>2. ASSUME NEW d \in Dispatchers, disp'[d].pc # "idle", disp'[d].run \notin reran'
      PROVE  Opened(jobSt'[disp'[d].run], disp'[d].job)
  <2>1. disp'[d] \in Dispatching
    BY <1>2 DEF LaneInv, LockTypes, NoDispatch
  <2>2. disp'[d].run \in LaneRuns /\ disp'[d].job \in LaneJobs
    BY <2>1, GraphFacts DEF Dispatching
  <2>3. Opened(jobSt[disp'[d].run], disp'[d].job)
    BY <1>2 DEF DispatchFollows, OrderInv, DispatchOpened
  <2> QED BY <1>2, <2>2, <2>3, OpenedStays DEF RowsFollow
<1>3. DispatchOpened'
  BY <1>2 DEF DispatchOpened
<1> QED BY <1>1, <1>3 DEF OrderInv

\* Rows that are left alone.
LEMMA StillFollows ==
    ASSUME OrderInv, UNCHANGED <<jobSt, reran>>
    PROVE  RowsFollow
BY DEF RowsFollow, OrderInv, RowsOrdered, KeepsPassed

\* Store: the run itself, and victims, which are canceled.
LEMMA StoreFollows ==
    ASSUME LaneInv, OrderInv, UNCHANGED reran, NEW r \in LaneRuns, NEW js, NEW rs, NEW scope,
           Store(r, js, rs, scope),
           r \notin reran => Ordered(js) /\ KeepsPassed(jobSt[r], js)
    PROVE  RowsFollow
<1>1. PICK S \in SUBSET Victims(r, scope) :
        jobSt' = [q \in LaneRuns |-> IF q = r THEN js
                                     ELSE IF q \in S THEN CanceledJobs(jobSt[q])
                                     ELSE jobSt[q]]
  BY DEF Store
<1>2. ASSUME NEW q \in LaneRuns \ reran
      PROVE  /\ Ordered(jobSt[q]) /\ KeepsPassed(jobSt[q], jobSt[q])
             /\ Ordered(CanceledJobs(jobSt[q])) /\ KeepsPassed(jobSt[q], CanceledJobs(jobSt[q]))
  <2>1. jobSt[q] \in [LaneJobs -> Live \cup Settled] /\ Ordered(jobSt[q])
    BY DEF LaneInv, RowTypes, OrderInv, RowsOrdered
  <2> QED BY <2>1, CancelIsOrdered DEF KeepsPassed
<1>3. ASSUME NEW q \in LaneRuns \ reran
      PROVE  Ordered(jobSt'[q]) /\ KeepsPassed(jobSt[q], jobSt'[q])
  <2>1. \/ jobSt'[q] = js /\ q = r
        \/ jobSt'[q] = CanceledJobs(jobSt[q])
        \/ jobSt'[q] = jobSt[q]
    BY <1>1
  <2> QED BY <1>2, <2>1
<1> QED BY <1>3 DEF RowsFollow

\* The end of a live job.
LEMMA FinishFollows ==
    ASSUME LaneInv, OrderInv, UNCHANGED reran, NEW r \in LaneRuns, NEW j \in LaneJobs,
           NEW st \in Settled, Finishes(r, j, st), jobSt[r][j] \in Live,
           j \in LaneGates => st # "canceled",
           r \notin reran /\ j \notin LaneGates /\ st = "success" => Opened(jobSt[r], j)
    PROVE  RowsFollow
<1> DEFINE c == RollUp([jobSt[r] EXCEPT ![j] = st], runSt[r], LaneDef.stage[j])
           scope == IF c.won THEN AfterStage[LaneDef.stage[j]] ELSE NoScope
<1>1. Store(r, c.jobs, c.run, scope)
  BY DEF Finishes
<1>2. ASSUME r \notin reran PROVE Ordered(c.jobs) /\ KeepsPassed(jobSt[r], c.jobs)
  <2>1. jobSt[r] \in [LaneJobs -> Live \cup Settled] /\ Ordered(jobSt[r])
    BY <1>2 DEF LaneInv, RowTypes, OrderInv, RowsOrdered
  <2> QED BY <1>2, <2>1, RollUpIsOrdered
<1> HIDE DEF c, scope
<1> QED BY <1>1, <1>2, StoreFollows

\* A job that runs is no gate, and was open when it started.
LEMMA RunningIsOpened ==
    ASSUME LaneInv, OrderInv, NEW r \in LaneRuns, NEW j \in LaneJobs,
           jobSt[r][j] \in {"running", "stopping"}
    PROVE  j \notin LaneGates /\ (r \notin reran => Opened(jobSt[r], j))
<1>1. j \notin LaneGates
  BY DEF LaneInv, GatesPark, Settled
<1> QED BY <1>1 DEF OrderInv, RowsOrdered, Ordered, BegunInOrder

\* StageReached: no stage before it is open, so no gate there was rejected or
\* canceled, or the job would not be queued.
LEMMA ReachedIsOpened ==
    ASSUME LaneInv, OrderInv, NEW r \in LaneRuns \ reran, NEW j \in LaneJobs,
           jobSt[r][j] = "queued", StageReached(r, j)
    PROVE  Opened(jobSt[r], j)
<1>1. NoneBehind(jobSt[r]) /\ jobSt[r] \in [LaneJobs -> Live \cup Settled]
  BY DEF OrderInv, RowsOrdered, Ordered, LaneInv, RowTypes
<1>2. ASSUME NEW g \in LaneGates, LaneDef.stage[g] < LaneDef.stage[j] PROVE jobSt[r][g] = "success"
  <2>1. g \in LaneJobs
    BY DefinitionFacts
  <2>2. \A k \in InStage(LaneDef.stage[g]) : jobSt[r][k] \notin Live
    BY <1>2 DEF StageReached, InStage
  <2>3. jobSt[r][g] # "canceled" /\ jobSt[r][g] # "failed"
    BY <1>1, <1>2, <2>2 DEF NoneBehind
  <2>4. jobSt[r][g] \in Settled
    BY <1>1, <1>2, <2>1 DEF StageReached
  <2> QED BY <2>3, <2>4 DEF Settled
<1> QED BY <1>2 DEF Opened, StageReached

\* A job that goes back to the queue had the gates before it behind it.
LEMMA PutBackFollows ==
    ASSUME LaneInv, OrderInv, UNCHANGED reran, NEW r \in LaneRuns, NEW j \in LaneJobs,
           PutBack(r, j)
    PROVE  RowsFollow
<1>0. jobSt[r][j] \in {"running", "stopping"}
  BY DEF PutBack
<1>1. j \notin LaneGates /\ (r \notin reran => Opened(jobSt[r], j))
  BY <1>0, RunningIsOpened
<1>2. CASE jobSt[r][j] = "stopping" /\ Finishes(r, j, "canceled")
  BY <1>1, <1>2, FinishFollows DEF Settled, Live
<1>3. CASE jobSt[r][j] = "running" /\ jobSt' = [jobSt EXCEPT ![r][j] = "queued"]
  <2>1. /\ \A q \in LaneRuns \ {r} : jobSt'[q] = jobSt[q]
        /\ jobSt'[r][j] = "queued" /\ \A k \in LaneJobs \ {j} : jobSt'[r][k] = jobSt[r][k]
    BY <1>3 DEF LaneInv, RowTypes
  <2>2. ASSUME NEW q \in LaneRuns \ reran PROVE KeepsPassed(jobSt[q], jobSt'[q])
    BY <1>3, <2>1 DEF KeepsPassed
  <2>3. ASSUME r \notin reran PROVE Ordered(jobSt'[r])
    <3> DEFINE js == jobSt[r]
               ks == jobSt'[r]
    <3>1. Ordered(js) /\ KeepsPassed(js, ks)
      BY <2>2, <2>3 DEF OrderInv, RowsOrdered
    <3>2. BegunInOrder(ks)
      BY <2>1, <3>1, OpenedStays DEF Ordered, BegunInOrder
    <3>3. ASSUME NEW g \in LaneGates, NEW i \in LaneJobs,
                 LaneDef.stage[g] < LaneDef.stage[i], ks[i] \in {"queued", "awaiting"}
          PROVE  /\ ks[g] # "canceled"
                 /\ ks[g] = "failed" => \E k \in InStage(LaneDef.stage[g]) : ks[k] \in Live
      <4>1. ks[g] = js[g] /\ g # j
        BY <1>1, <2>1, DefinitionFacts
      <4>2. CASE i = j
        BY <1>1, <2>3, <3>3, <4>1, <4>2 DEF Opened
      <4>3. CASE i # j
        <5>1. js[i] \in {"queued", "awaiting"}
          BY <2>1, <3>3, <4>3
        <5>2. /\ js[g] # "canceled"
              /\ js[g] = "failed" => \E k \in InStage(LaneDef.stage[g]) : js[k] \in Live
          BY <3>1, <3>3, <5>1 DEF Ordered, NoneBehind
        <5>3. \A k \in InStage(LaneDef.stage[g]) : js[k] \in Live => ks[k] \in Live
          BY <2>1 DEF InStage, Live
        <5> QED BY <4>1, <5>2, <5>3
      <4> QED BY <4>2, <4>3
    <3> HIDE DEF ks
    <3>4. NoneBehind(ks)
      BY <3>3 DEF NoneBehind
    <3> QED BY <3>2, <3>4 DEF Ordered, ks
  <2> QED BY <2>1, <2>2, <2>3 DEF RowsFollow, OrderInv, RowsOrdered
<1> QED BY <1>2, <1>3 DEF PutBack

\* A run starts with nothing begun and no gate decided.
LEMMA CreateFollows ==
    ASSUME LaneInv, OrderInv, NEW r \in LaneRuns, CreateLaneRun(r)
    PROVE  RowsFollow
<1> DEFINE js == [j \in LaneJobs |-> IF j \in LaneGates THEN "awaiting" ELSE "queued"]
           scope == ReadyGateEnvsAtStart(LaneDef)
<1>1. Store(r, js, "active", scope) /\ runSt[r] = "none" /\ UNCHANGED reran
  BY DEF CreateLaneRun
<1>2. \A j \in LaneJobs : js[j] \in {"awaiting", "queued"}
  OBVIOUS
<1> HIDE DEF js, scope
<1>3. BegunInOrder(js) /\ NoneBehind(js)
  BY <1>2, DefinitionFacts DEF BegunInOrder, NoneBehind
<1>4. KeepsPassed(jobSt[r], js)
  BY <1>1 DEF LaneInv, NotCreated, KeepsPassed
<1> QED BY <1>1, <1>3, <1>4, StoreFollows DEF Ordered

\* CancelRun.
LEMMA CancelFollows ==
    ASSUME LaneInv, OrderInv, NEW r \in LaneRuns, CancelLaneRun(r)
    PROVE  RowsFollow
<1>1. jobSt' = [jobSt EXCEPT ![r] = CanceledJobs(jobSt[r])] /\ UNCHANGED reran
  BY DEF CancelLaneRun
<1>2. ASSUME NEW q \in LaneRuns \ reran
      PROVE  Ordered(jobSt'[q]) /\ KeepsPassed(jobSt[q], jobSt'[q])
  <2>1. jobSt[q] \in [LaneJobs -> Live \cup Settled] /\ Ordered(jobSt[q])
    BY DEF LaneInv, RowTypes, OrderInv, RowsOrdered
  <2>2. Ordered(CanceledJobs(jobSt[q])) /\ KeepsPassed(jobSt[q], CanceledJobs(jobSt[q]))
    BY <2>1, CancelIsOrdered
  <2>3. jobSt'[q] = CanceledJobs(jobSt[q]) \/ jobSt'[q] = jobSt[q]
    BY <1>1 DEF LaneInv, RowTypes
  <2> QED BY <2>1, <2>2, <2>3 DEF KeepsPassed
<1> QED BY <1>1, <1>2 DEF RowsFollow

\* A rerun changes no other run, and puts its own among those somebody reran.
LEMMA RerunFollows ==
    ASSUME LaneInv, OrderInv, NEW r \in LaneRuns, NEW j \in LaneJobs, NEW roll, Rerun(r, j, roll)
    PROVE  RowsFollow /\ DispatchFollows /\ reran \subseteq reran'
<1>1. /\ \A q \in LaneRuns \ {r} : jobSt'[q] = jobSt[q]
      /\ reran' = reran \cup {r} /\ UNCHANGED disp
  BY DEF Rerun, actorVars, LaneInv, RowTypes
<1>2. RowsFollow
  BY <1>1 DEF RowsFollow, OrderInv, RowsOrdered, KeepsPassed
<1> QED BY <1>1, <1>2 DEF DispatchFollows

\* Results, decisions and claims that are put back.
LEMMA EndingFollows ==
    ASSUME LaneInv, OrderInv,
           \/ \E r \in LaneRuns, j \in LaneJobs :
                \/ ReclaimDeploy(r, j)
                \/ \E out \in {"success", "failed"} : BuildJob(r, j, out) \/ DeployResult(r, j, out)
           \/ \E r \in LaneRuns, g \in LaneGates : RejectGate(r, g)
           \/ \E u \in Approvers : ApproveCommit(u)
           \/ \E d \in Dispatchers : UndoDispatch(d)
    PROVE  RowsFollow
<1>1. ASSUME NEW r \in LaneRuns, NEW j \in LaneJobs, ReclaimDeploy(r, j) PROVE RowsFollow
  BY <1>1, PutBackFollows DEF ReclaimDeploy
<1>2. ASSUME NEW r \in LaneRuns, NEW j \in LaneJobs, NEW out \in {"success", "failed"},
             BuildJob(r, j, out)
      PROVE  RowsFollow
  <2>1. jobSt[r][j] = "queued" /\ StageReached(r, j) /\ Finishes(r, j, out) /\ UNCHANGED reran
    BY <1>2 DEF BuildJob
  <2>2. r \notin reran => Opened(jobSt[r], j)
    BY <2>1, ReachedIsOpened
  <2> QED BY <2>1, <2>2, FinishFollows DEF Settled, Live
<1>3. ASSUME NEW r \in LaneRuns, NEW j \in LaneJobs, NEW out \in {"success", "failed"},
             DeployResult(r, j, out)
      PROVE  RowsFollow
  <2> DEFINE st == IF jobSt[r][j] = "stopping" THEN "canceled" ELSE out
  <2>1. jobSt[r][j] \in {"running", "stopping"} /\ Finishes(r, j, st) /\ UNCHANGED reran
    BY <1>3 DEF DeployResult
  <2>2. j \notin LaneGates /\ (r \notin reran => Opened(jobSt[r], j))
    BY <2>1, RunningIsOpened
  <2>3. st \in Settled
    BY DEF Settled
  <2> HIDE DEF st
  <2> QED BY <2>1, <2>2, <2>3, FinishFollows DEF Live
<1>4. ASSUME NEW r \in LaneRuns, NEW g \in LaneGates, RejectGate(r, g) PROVE RowsFollow
  <2>1. jobSt[r][g] = "awaiting" /\ Finishes(r, g, "failed") /\ UNCHANGED reran
    BY <1>4 DEF RejectGate
  <2> QED BY <2>1, FinishFollows, DefinitionFacts DEF Settled, Live
<1>5. ASSUME NEW u \in Approvers, ApproveCommit(u) PROVE RowsFollow
  <2>1. appr[u].pc = "decided" /\ Finishes(appr[u].run, appr[u].gate, "success") /\ UNCHANGED reran
    BY <1>5 DEF ApproveCommit
  <2>2. appr[u].run \in LaneRuns /\ appr[u].gate \in LaneGates
    BY <2>1, ActorShapes DEF Approving
  <2>3. jobSt[appr[u].run][appr[u].gate] = "awaiting"
    BY <2>1 DEF LaneInv, DecisionsStand, DecisionStands
  <2> QED BY <2>1, <2>2, <2>3, FinishFollows, DefinitionFacts DEF Settled, Live
<1>6. ASSUME NEW d \in Dispatchers, UndoDispatch(d) PROVE RowsFollow
  <2>1. disp[d].pc = "claimed" /\ PutBack(disp[d].run, disp[d].job) /\ UNCHANGED reran
    BY <1>6 DEF UndoDispatch
  <2>2. disp[d].run \in LaneRuns /\ disp[d].job \in LaneJobs
    BY <2>1, ActorShapes, GraphFacts DEF Dispatching
  <2> QED BY <2>1, <2>2, PutBackFollows
<1> QED BY <1>1, <1>2, <1>3, <1>4, <1>5, <1>6

\* The claim of a row that was open to its dispatcher when it passed the guard.
LEMMA ClaimFollows ==
    ASSUME LaneInv, OrderInv, NEW d \in Dispatchers, AdmitCommit(d)
    PROVE  RowsFollow
<1> DEFINE r == disp[d].run
           j == disp[d].job
<1>1. disp[d].pc = "checked" /\ UNCHANGED reran
      /\ (UNCHANGED jobSt \/ jobSt' = [jobSt EXCEPT ![r][j] = "running"])
  BY DEF AdmitCommit
<1>2. r \in LaneRuns /\ j \in LaneJobs
  BY <1>1, ActorShapes, GraphFacts DEF Dispatching
<1>3. r \notin reran => Opened(jobSt[r], j)
  BY <1>1 DEF OrderInv, DispatchOpened
<1> HIDE DEF r, j
<1>4. CASE UNCHANGED jobSt
  BY <1>1, <1>4, StillFollows
<1>5. CASE jobSt[r][j] = "queued" /\ jobSt' = [jobSt EXCEPT ![r][j] = "running"]
  <2>1. /\ \A q \in LaneRuns \ {r} : jobSt'[q] = jobSt[q]
        /\ jobSt'[r][j] = "running" /\ \A k \in LaneJobs \ {j} : jobSt'[r][k] = jobSt[r][k]
    BY <1>2, <1>5 DEF LaneInv, RowTypes
  <2>2. ASSUME NEW q \in LaneRuns \ reran PROVE KeepsPassed(jobSt[q], jobSt'[q])
    BY <1>5, <2>1 DEF KeepsPassed
  <2>3. ASSUME r \notin reran PROVE Ordered(jobSt'[r])
    <3>1. Ordered(jobSt[r]) /\ KeepsPassed(jobSt[r], jobSt'[r])
      BY <1>2, <2>2, <2>3 DEF OrderInv, RowsOrdered
    <3>2. BegunInOrder(jobSt'[r])
      BY <1>3, <2>1, <2>3, <3>1, OpenedStays DEF Ordered, BegunInOrder
    <3>3. j \notin LaneGates
      BY <1>2, <1>5 DEF LaneInv, GatesPark, Settled
    <3>4. \A g \in LaneGates : jobSt'[r][g] = jobSt[r][g]
      BY <2>1, <3>3, DefinitionFacts
    <3>5. \A k \in LaneJobs : /\ jobSt'[r][k] \in {"queued", "awaiting"} => jobSt'[r][k] = jobSt[r][k]
                              /\ jobSt[r][k] \in Live => jobSt'[r][k] \in Live
      BY <2>1 DEF Live
    <3>6. NoneBehind(jobSt'[r])
      <4>1. NoneBehind(jobSt[r])
        BY <3>1 DEF Ordered
      <4>2. \A g \in LaneGates : InStage(LaneDef.stage[g]) \subseteq LaneJobs
        BY DEF InStage
      <4> QED BY <3>4, <3>5, <4>1, <4>2 DEF NoneBehind
    <3> QED BY <3>2, <3>6 DEF Ordered
  <2> QED BY <1>1, <2>1, <2>2, <2>3 DEF RowsFollow, OrderInv, RowsOrdered
<1> QED BY <1>4, <1>5 DEF AdmitCommit, r, j

\* What a step does to the dispatchers: each keeps its job, ends, or has passed
\* the guard with a job that was open to it.
LEMMA DispatchersFollow ==
    ASSUME LaneInv, OrderInv,
           \/ \E d \in Dispatchers : \/ AdmitCheck(d) \/ AdmitCommit(d) \/ HandOver(d)
                                     \/ UndoDispatch(d) \/ DispatcherDies(d)
                                     \/ \E r \in LaneRuns, j \in LaneJobs : BeginDeployGuard(d, r, j)
    PROVE  DispatchFollows
<1>1. disp \in [Dispatchers -> Dispatching \cup {NoDispatch}]
  BY DEF LaneInv, LockTypes
<1>2. ASSUME NEW d \in Dispatchers, disp' = [disp EXCEPT ![d] = NoDispatch] PROVE DispatchFollows
  BY <1>1, <1>2 DEF DispatchFollows, NoDispatch
<1>3. ASSUME NEW d \in Dispatchers, NEW pc, disp[d].pc # "idle", disp' = [disp EXCEPT ![d].pc = pc]
      PROVE  DispatchFollows
  <2>1. disp[d] \in Dispatching
    BY <1>3, ActorShapes
  <2>2. disp'[d].run = disp[d].run /\ disp'[d].job = disp[d].job
        /\ \A x \in Dispatchers \ {d} : disp'[x] = disp[x]
    BY <1>1, <1>3, <2>1 DEF Dispatching
  <2> QED BY <1>3, <2>2 DEF DispatchFollows
<1>4. ASSUME NEW d \in Dispatchers, NEW r \in LaneRuns, NEW j \in LaneJobs, BeginDeployGuard(d, r, j)
      PROVE  DispatchFollows
  <2>1. jobSt[r][j] = "queued" /\ StageReached(r, j)
        /\ disp' = [disp EXCEPT ![d] = [pc |-> "guarded", run |-> r, job |-> j,
                                        roll |-> <<r, j>> \in rolled]]
    BY <1>4 DEF BeginDeployGuard
  <2>2. r \notin reran => Opened(jobSt[r], j)
    BY <2>1, ReachedIsOpened
  <2>3. disp'[d].run = r /\ disp'[d].job = j /\ \A x \in Dispatchers \ {d} : disp'[x] = disp[x]
    BY <1>1, <2>1
  <2> QED BY <2>2, <2>3 DEF DispatchFollows
<1>5. ASSUME NEW d \in Dispatchers, AdmitCheck(d) \/ AdmitCommit(d) PROVE DispatchFollows
  BY <1>2, <1>3, <1>5 DEF AdmitCheck, AdmitCommit
<1>6. ASSUME NEW d \in Dispatchers, HandOver(d) \/ UndoDispatch(d) \/ DispatcherDies(d)
      PROVE  DispatchFollows
  BY <1>2, <1>6 DEF HandOver, UndoDispatch, DispatcherDies
<1> QED BY <1>4, <1>5, <1>6

\* Every step of the lane keeps the order of gates and jobs.
LEMMA OrderStep ==
    ASSUME LaneInv, LaneInv', OrderInv, [LaneNext]_laneVars
    PROVE  OrderInv'
<1>0. ASSUME UNCHANGED disp PROVE DispatchFollows
  BY <1>0 DEF DispatchFollows
<1>1. ASSUME NEW r \in LaneRuns, CreateLaneRun(r) \/ CancelLaneRun(r) PROVE OrderInv'
  <2>1. UNCHANGED <<disp, reran>>
    BY <1>1 DEF CreateLaneRun, CancelLaneRun, actorVars
  <2> QED BY <1>0, <1>1, <2>1, CreateFollows, CancelFollows, FollowingKeepsOrder
<1>2. ASSUME NEW r \in LaneRuns, NEW j \in LaneJobs, RerunLaneJob(r, j) \/ RollbackToRevision(r, j)
      PROVE  OrderInv'
  <2>1. PICK roll \in BOOLEAN : Rerun(r, j, roll)
    BY <1>2 DEF RerunLaneJob, RollbackToRevision
  <2> QED BY <2>1, RerunFollows, FollowingKeepsOrder
<1>3. ASSUME NEW r \in LaneRuns, NEW j \in LaneJobs,
             \/ ReclaimDeploy(r, j)
             \/ \E out \in {"success", "failed"} : BuildJob(r, j, out) \/ DeployResult(r, j, out)
      PROVE  OrderInv'
  <2>1. UNCHANGED <<disp, reran>>
    BY <1>3 DEF ReclaimDeploy, BuildJob, DeployResult, actorVars
  <2> QED BY <1>0, <1>3, <2>1, EndingFollows, FollowingKeepsOrder
<1>4. ASSUME NEW r \in LaneRuns, NEW g \in LaneGates, RejectGate(r, g) PROVE OrderInv'
  <2>1. UNCHANGED <<disp, reran>>
    BY <1>4 DEF RejectGate, actorVars
  <2> QED BY <1>0, <1>4, <2>1, EndingFollows, FollowingKeepsOrder
<1>5. ASSUME NEW u \in Approvers, ApproveCommit(u) PROVE OrderInv'
  <2>1. UNCHANGED <<disp, reran>>
    BY <1>5 DEF ApproveCommit
  <2> QED BY <1>0, <1>5, <2>1, EndingFollows, FollowingKeepsOrder
<1>6. ASSUME NEW d \in Dispatchers, UndoDispatch(d) PROVE OrderInv'
  <2>1. UNCHANGED reran
    BY <1>6 DEF UndoDispatch
  <2> QED BY <1>6, <2>1, EndingFollows, DispatchersFollow, FollowingKeepsOrder
<1>7. ASSUME NEW d \in Dispatchers, AdmitCommit(d) PROVE OrderInv'
  <2>1. UNCHANGED reran
    BY <1>7 DEF AdmitCommit
  <2> QED BY <1>7, <2>1, ClaimFollows, DispatchersFollow, FollowingKeepsOrder
<1>8. ASSUME NEW d \in Dispatchers,
             \/ AdmitCheck(d) \/ HandOver(d) \/ DispatcherDies(d)
             \/ \E r \in LaneRuns, j \in LaneJobs : BeginDeployGuard(d, r, j)
      PROVE  OrderInv'
  <2>1. UNCHANGED <<jobSt, reran>>
    BY <1>8 DEF AdmitCheck, HandOver, DispatcherDies, BeginDeployGuard
  <2> QED BY <1>8, <2>1, StillFollows, DispatchersFollow, FollowingKeepsOrder
<1>9. ASSUME \/ \E e \in LaneEnvs : Freeze(e) \/ Unfreeze(e)
             \/ \E u \in Approvers : \/ ApproveDecide(u)
                                     \/ \E r \in LaneRuns, g \in LaneGates : ApproveLock(u, r, g)
             \/ UNCHANGED laneVars
      PROVE  OrderInv'
  <2>1. UNCHANGED <<jobSt, disp, reran>>
    BY <1>9 DEF Freeze, Unfreeze, ApproveDecide, ApproveLock, actorVars, laneVars
  <2> QED BY <1>0, <2>1, StillFollows, FollowingKeepsOrder
<1> QED BY <1>1, <1>2, <1>3, <1>4, <1>5, <1>6, <1>7, <1>8, <1>9 DEF LaneNext

\* In a run nobody reran every job that has started found the gates of earlier
\* stages and the jobs it needs passed, and no job waits behind a gate that was
\* canceled or whose rejection has closed its stage.
THEOREM OrderInvariant == LaneSpec => []OrderInv
<1>1. LaneInit => OrderInv
  <2> SUFFICES ASSUME LaneInit PROVE OrderInv
    OBVIOUS
  <2>1. RowsOrdered
    BY DefinitionFacts DEF LaneInit, RowsOrdered, Ordered, BegunInOrder, NoneBehind
  <2>2. DispatchOpened
    BY DEF LaneInit, NoDispatch, DispatchOpened
  <2> QED BY <2>1, <2>2 DEF OrderInv
<1>2. LaneInv /\ LaneInv' /\ OrderInv /\ [LaneNext]_laneVars => OrderInv'
  BY OrderStep
<1> QED BY <1>1, <1>2, LaneInvariant, PTL DEF LaneSpec
=============================================================================
