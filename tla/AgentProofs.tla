----------------------------- MODULE AgentProofs -----------------------------
(***************************************************************************)
(* Proofs about agent sessions, for any processes, agents, jobs, capacity  *)
(* and queue length: the state is well typed, a session never holds more   *)
(* jobs than it has slots, a row is closed only by the result of its       *)
(* latest claim, and a session in the store means an agent that is online. *)
(*                                                                         *)
(* An assignment that was queued for a session lives on in one place: the  *)
(* queue, the process, the stream back, or the handler of its result.  The *)
(* invariant follows that one copy.                                        *)
(***************************************************************************)
EXTENDS AgentSessions, FiniteSetTheorems, TLAPS

Statuses == {"queued", "running", "finished", "canceled"}
Rows == [status : Statuses, agent : Agents \cup {None}, attempt : Nat, stamp : BOOLEAN]
AgentRows == [online : BOOLEAN, gen : Nat, fresh : BOOLEAN]
Sessions == [gen : Nat, revoked : BOOLEAN, superseded : BOOLEAN, draining : BOOLEAN,
             slots : Nat, assigned : [Jobs -> Nat \cup {None}]]
Outgoing == [kind : {"assign", "cancel"}, job : Jobs, serial : Nat]
Works == [job : Jobs, serial : Nat]
Results == [job : Jobs, serial : Nat, kind : Kinds]
Handling == [job : Jobs, serial : Nat, kind : Kinds, attempt : Nat,
             step : {"reconcile", "write", "release"}]
Listed == [job : Jobs, agent : Agents, attempt : Nat, gen : Nat]
Budgets == [claim : Nat, cancel : Nat, rerun : Nat, revive : Nat, stale : Nat, loss : Nat]

RowsTyped ==
    /\ row \in [Jobs -> Rows] /\ serial \in [Jobs -> Nat] /\ closer \in [Jobs -> Nat]
    /\ \A j \in Jobs : row[j].status = "running" => row[j].agent \in Agents
AgentsTyped == db \in [Agents -> AgentRows] /\ latest \in [Agents -> Procs \cup {None}]
SessionsTyped == sess \in [Procs -> Sessions] /\ pc \in [Procs -> Steps]
QueuesTyped ==
    /\ out \in [Procs -> Seq(Outgoing)]
    /\ \A i \in Procs : Len(out[i]) <= SendBuffer
ProcessesTyped ==
    /\ alive \in [Procs -> BOOLEAN] /\ quits \in [Procs -> BOOLEAN]
    /\ work \in [Procs -> SUBSET Works] /\ inbox \in [Procs -> SUBSET Results]
    /\ handler \in [Procs -> {None} \cup Handling]
RequestsTyped ==
    /\ todo \in [Procs -> SUBSET Snapshot] /\ claim \in {None} \cup Snapshot
    /\ sweep \in [rows : SUBSET Listed, fence : SUBSET [agent : Agents, gen : Nat]]
    /\ frames \subseteq [job : Jobs, agent : Agents]
    /\ budget \in Budgets /\ budget.revive <= MaxRevivals
    /\ muted \in [Jobs -> Nat]

\* The session an agent has is in the store.
StoreAgrees ==
    \A a \in Agents : latest[a] # None => AgentOf[latest[a]] = a /\ InStore(latest[a])

\* A slot is an assignment; before a session is published it has none and was
\* not revoked, and while a claim is on its way its agent's session has one free.
Held(i) == {j \in Jobs : sess[i].assigned[j] # None}
SlotsCount == \A i \in Procs : sess[i].slots = Cardinality(Held(i)) /\ sess[i].slots <= Capacity
Unpublished == {"new", "revoked", "reclaiming", "online"}
FreshIsEmpty ==
    \A i \in Procs : pc[i] \in Unpublished => sess[i].slots = 0 /\ ~sess[i].revoked
ClaimHasSlot ==
    claim # None /\ latest[claim.agent] # None => sess[latest[claim.agent]].slots < Capacity

\* The result being handled is of the assignment the session has.
HandlerHolds ==
    \A i \in Procs : handler[i] # None => sess[i].assigned[handler[i].job] = handler[i].attempt

\* The copies of assignments that session i let go of.
OutCopies(q) == {[at |-> "out", job |-> q[n].job, serial |-> q[n].serial] :
                    n \in {m \in 1..Len(q) : q[m].kind = "assign"}}
WorkCopies(W) == {[at |-> "work", job |-> x.job, serial |-> x.serial] : x \in W}
ResultCopies(F) == {[at |-> f.kind, job |-> f.job, serial |-> f.serial] : f \in F}
HandlerCopies(h) == IF h = None THEN {}
                    ELSE {[at |-> "handler", job |-> h.job, serial |-> h.serial]}
Copies(i) == OutCopies(out[i]) \cup WorkCopies(work[i]) \cup ResultCopies(inbox[i])
             \cup HandlerCopies(handler[i])

QueuedOnce ==
    \A i \in Procs : \A n, m \in 1..Len(out[i]) :
        out[i][n].kind = "assign" /\ out[i][m].kind = "assign" /\ out[i][n].job = out[i][m].job
        => n = m
OneCopy == \A i \in Procs : \A t, u \in Copies(i) : t.job = u.job => t = u
CopiesHeld == \A i \in Procs : \A t \in Copies(i) : sess[i].assigned[t.job] # None

\* Until a canceled row is revived under the attempt it had, an attempt is
\* handed out at most once.
NoRevivalYet == budget.revive = MaxRevivals
AttemptsPast ==
    \A i \in Procs, j \in Jobs : sess[i].assigned[j] # None =>
        /\ sess[i].assigned[j] <= row[j].attempt
        /\ sess[i].assigned[j] = row[j].attempt => row[j].status # "queued"
ClaimIsNew ==
    claim # None =>
        /\ claim.attempt <= row[claim.job].attempt
        /\ claim.attempt = row[claim.job].attempt =>
             /\ row[claim.job].status # "queued"
             /\ \A i \in Procs : sess[i].assigned[claim.job] # claim.attempt
CopiesCurrent ==
    \A i \in Procs : \A t \in Copies(i) :
        sess[i].assigned[t.job] = row[t.job].attempt => t.serial = serial[t.job]
HandedOnce == NoRevivalYet => AttemptsPast /\ ClaimIsNew /\ CopiesCurrent /\ ResultIsCurrent

\* One Register at a time, which starts with no session in the store.
Registering(i) == pc[i] = "online" \/ (pc[i] \in {"revoked", "reclaiming"} /\ alive[i])
OneRegister ==
    /\ \A i, k \in Procs :
          Registering(i) /\ Registering(k) /\ AgentOf[i] = AgentOf[k] => i = k
    /\ \A i \in Procs : Registering(i) => latest[AgentOf[i]] = None
Generations ==
    /\ \A i \in Procs : sess[i].gen <= db[AgentOf[i]].gen
    /\ \A i, k \in Procs : AgentOf[i] = AgentOf[k] /\ sess[i].gen = sess[k].gen =>
                               i = k \/ sess[i].gen = 0
NewestIsOnline ==
    \A i \in Procs : pc[i] = "online" \/ latest[AgentOf[i]] = i =>
        /\ db[AgentOf[i]].online
        /\ sess[i].gen = db[AgentOf[i]].gen /\ sess[i].gen > 0
OnlineInv == ~Overlap => OneRegister /\ Generations /\ NewestIsOnline

Typed ==
    /\ RowsTyped /\ AgentsTyped /\ SessionsTyped /\ QueuesTyped
    /\ ProcessesTyped /\ RequestsTyped
SessionInv ==
    /\ Typed
    /\ StoreAgrees /\ SlotsCount /\ FreshIsEmpty /\ ClaimHasSlot /\ HandlerHolds
    /\ QueuedOnce /\ OneCopy /\ CopiesHeld /\ HandedOnce
    /\ OnlineInv

-----------------------------------------------------------------------------
(* Which steps touch what                                                  *)

\* The steps that write job rows.
LEMMA WhoWritesRows ==
    ASSUME Next
    PROVE  \/ UNCHANGED <<row, serial, closer>>
           \/ \E i \in Procs : CommitResult(i) \/ \E s \in todo[i] : ReclaimAgentJob(i, s)
           \/ \E j \in Jobs, a \in Agents : AssignJob(j, a)
           \/ UnassignJob
           \/ \E j \in Jobs : ReclaimPendingCancel(j) \/ CancelJobRun(j) \/ RerunJob(j)
           \/ \E s \in sweep.rows : ReclaimStaleJob(s)
<1>1. ASSUME NEW i \in Procs, Register(i)
      PROVE  UNCHANGED <<row, serial, closer>> \/ \E s \in todo[i] : ReclaimAgentJob(i, s)
  BY <1>1 DEF Register, db_rows, RevokeForAgent, ListRunningJobsForAgent, MarkAgentOnline,
     CreateSession, ReplayCancels
<1>2. ASSUME NEW i \in Procs, Connect(i) PROVE UNCHANGED <<row, serial, closer>>
  BY <1>2 DEF Connect, db_rows, ClaimConnect, MarkReady, StreamEnds, CheckSuperseded,
     MarkAgentOffline
<1>3. ASSUME NEW i \in Procs, HandleResult(i)
      PROVE  UNCHANGED <<row, serial, closer>> \/ CommitResult(i)
  BY <1>3 DEF HandleResult, db_rows, ReceiveResult, RecheckRevoked, ReleaseSlot
<1>4. ASSUME NEW i \in Procs,
             \/ Receive(i) \/ Quit(i) \/ ReceiveDraining(i) \/ Exit(i) \/ Heartbeat(i)
             \/ \E x \in work[i], kind \in {"done", "disrupted"} : FinishWork(i, x, kind)
      PROVE  UNCHANGED <<row, serial, closer>>
  BY <1>4 DEF db_rows, Receive, Quit, ReceiveDraining, Exit, Heartbeat, FinishWork
<1>5. ASSUME \/ \E a \in Agents : Expire(a)
             \/ \E c \in frames : SendCancel(c)
             \/ ServerCrash
             \/ DispatchAssignment
             \/ ListStaleRunningJobs
             \/ \E t \in sweep.fence : FenceStaleSession(t)
      PROVE  UNCHANGED <<row, serial, closer>>
  BY <1>5 DEF db_rows, Expire, SendCancel, ServerCrash, DispatchAssignment, ListStaleRunningJobs,
     FenceStaleSession
<1> QED BY <1>1, <1>2, <1>3, <1>4, <1>5 DEF Next, Sweep, Dispatch

\* The steps that write the agents table.
LEMMA WhoWritesAgents ==
    ASSUME Next
    PROVE  \/ UNCHANGED db
           \/ \E i \in Procs : MarkAgentOnline(i) \/ MarkAgentOffline(i) \/ Heartbeat(i)
           \/ \E a \in Agents : Expire(a)
<1>1. ASSUME NEW i \in Procs, Register(i) PROVE UNCHANGED db \/ MarkAgentOnline(i)
  BY <1>1 DEF Register, RevokeForAgent, ListRunningJobsForAgent, ReclaimAgentJob, CreateSession,
     ReplayCancels
<1>2. ASSUME NEW i \in Procs, Connect(i) PROVE UNCHANGED db \/ MarkAgentOffline(i)
  BY <1>2 DEF Connect, ClaimConnect, MarkReady, StreamEnds, CheckSuperseded
<1>3. ASSUME NEW i \in Procs,
             \/ HandleResult(i) \/ Receive(i) \/ Quit(i) \/ ReceiveDraining(i) \/ Exit(i)
             \/ \E x \in work[i], kind \in {"done", "disrupted"} : FinishWork(i, x, kind)
      PROVE  UNCHANGED db
  BY <1>3 DEF HandleResult, Receive, Quit, ReceiveDraining, Exit, FinishWork, ReceiveResult,
     RecheckRevoked, CommitResult, ReleaseSlot
<1>4. Sweep \/ Dispatch \/ ServerCrash => UNCHANGED db
  BY DEF Sweep, Dispatch, ReclaimPendingCancel, ListStaleRunningJobs, ReclaimStaleJob,
     FenceStaleSession, DispatchAssignment, UnassignJob, ServerCrash
<1>5. ASSUME \/ \E j \in Jobs, a \in Agents : AssignJob(j, a)
             \/ \E j \in Jobs : CancelJobRun(j) \/ RerunJob(j)
             \/ \E c \in frames : SendCancel(c)
      PROVE  UNCHANGED db
  BY <1>5 DEF AssignJob, CancelJobRun, RerunJob, SendCancel
<1> QED BY <1>1, <1>2, <1>3, <1>4, <1>5 DEF Next

\* The steps that move a session or take one in or out of the store.
LEMMA WhoMovesSessions ==
    ASSUME Next
    PROVE  \/ UNCHANGED <<latest, sess, pc>>
           \/ \E i \in Procs : \/ Register(i) \/ Connect(i) \/ ReceiveDraining(i) \/ ReleaseSlot(i)
           \/ DispatchAssignment
           \/ \E t \in sweep.fence : FenceStaleSession(t)
           \/ ServerCrash
BY ZenonT(40) DEF Next, HandleResult, Sweep, Dispatch, db_rows, server, process, AssignJob, UnassignJob,
   Receive, FinishWork, Quit, Exit, Heartbeat, Expire, ReceiveResult, CommitResult,
   RecheckRevoked, ReclaimPendingCancel, ListStaleRunningJobs, ReclaimStaleJob,
   CancelJobRun, SendCancel, RerunJob

\* The steps that touch the copies of an assignment.
LEMMA WhoMovesCopies ==
    ASSUME Next
    PROVE  \/ UNCHANGED <<out, work, inbox, handler>>
           \/ \E i \in Procs : \/ ReplayCancels(i) \/ MarkReady(i) \/ StreamEnds(i)
                               \/ Receive(i) \/ Exit(i) \/ HandleResult(i)
                               \/ \E x \in work[i], kind \in {"done", "disrupted"} : FinishWork(i, x, kind)
           \/ DispatchAssignment
           \/ \E c \in frames : SendCancel(c)
           \/ ServerCrash
BY ZenonT(40) DEF Next, Register, Connect, Sweep, Dispatch, db_rows, server, process,
   RevokeForAgent, ListRunningJobsForAgent, ReclaimAgentJob, MarkAgentOnline, CreateSession,
   ClaimConnect, CheckSuperseded, MarkAgentOffline, AssignJob, UnassignJob,
   Quit, ReceiveDraining, Heartbeat, Expire,
   ReclaimPendingCancel, ListStaleRunningJobs, ReclaimStaleJob,
   FenceStaleSession, CancelJobRun, RerunJob

-----------------------------------------------------------------------------
(* Rows                                                                    *)

\* What a row is.
LEMMA RowShape ==
    ASSUME RowsTyped, NEW j \in Jobs
    PROVE  /\ row[j] \in Rows /\ row[j].status \in Statuses /\ row[j].attempt \in Nat
           /\ row[j].agent \in Agents \cup {None} /\ row[j].stamp \in BOOLEAN
           /\ serial[j] \in Nat /\ closer[j] \in Nat
BY DEF RowsTyped, Rows

\* One row is written.
LEMMA PutRow ==
    ASSUME RowsTyped, NEW j \in Jobs, NEW v \in Rows, v.status = "running" => v.agent \in Agents,
           row' = [row EXCEPT ![j] = v], serial' \in [Jobs -> Nat], closer' \in [Jobs -> Nat]
    PROVE  RowsTyped' /\ row'[j] = v /\ \A k \in Jobs \ {j} : row'[k] = row[k]
BY DEF RowsTyped

\* The retry of a row takes the next attempt, or the row ends.
LEMMA ReclaimedRow ==
    ASSUME NEW r \in Rows
    PROVE  /\ Reclaimed(r) \in Rows /\ Reclaimed(r).status # "running"
           /\ Reclaimed(r).attempt >= r.attempt
           /\ Reclaimed(r).status = "queued" => Reclaimed(r).attempt > r.attempt
<1>1. r.attempt \in Nat
  BY DEF Rows
<1>2. CASE r.attempt + 1 > MaxAttempts
  <2>1. Reclaimed(r) = [r EXCEPT !.status = "finished"]
    BY <1>2 DEF Reclaimed
  <2> QED BY <1>1, <2>1 DEF Rows, Statuses
<1>3. CASE ~(r.attempt + 1 > MaxAttempts)
  <2> DEFINE v == [r EXCEPT !.status = "queued", !.agent = None, !.attempt = @ + 1]
  <2>1. Reclaimed(r) = v
    BY <1>3 DEF Reclaimed
  <2>2. r.attempt + 1 \in Nat
    BY <1>1
  <2>3. v \in Rows
    BY <2>2 DEF Rows, Statuses
  <2>4. v.status = "queued" /\ v.attempt = r.attempt + 1
    BY DEF Rows
  <2> HIDE DEF v
  <2> QED BY <1>1, <2>1, <2>3, <2>4
<1> QED BY <1>2, <1>3

\* The result of a job ends its row, or retries it.
LEMMA CommittedRow ==
    ASSUME NEW r \in Rows, NEW kind
    PROVE  /\ Committed(r, kind) \in Rows /\ Committed(r, kind).status # "running"
           /\ Committed(r, kind).attempt >= r.attempt
           /\ Committed(r, kind).status = "queued" => Committed(r, kind).attempt > r.attempt
<1>1. Committed(r, kind) \in {[r EXCEPT !.status = "canceled"], [r EXCEPT !.status = "finished"],
                              Reclaimed(r)}
  BY DEF Committed
<1>2. \A st \in {"canceled", "finished"} :
        LET v == [r EXCEPT !.status = st]
        IN v \in Rows /\ v.status = st /\ v.attempt = r.attempt /\ v.attempt \in Nat
  BY DEF Rows, Statuses
<1> QED BY <1>1, <1>2, ReclaimedRow DEF Rows

\* No row goes back to the queue under the attempt it has.
RowsForward ==
    \A j \in Jobs :
        /\ row'[j].attempt >= row[j].attempt
        /\ row'[j].status = "queued" /\ row'[j].attempt = row[j].attempt => row[j].status = "queued"

\* A row that is written so goes forward.
LEMMA PutRowForward ==
    ASSUME RowsTyped, NEW j \in Jobs, NEW v \in Rows, row' = [row EXCEPT ![j] = v],
           v.attempt >= row[j].attempt,
           v.status = "queued" => v.attempt > row[j].attempt
    PROVE  RowsForward
<1>1. row'[j] = v /\ \A k \in Jobs \ {j} : row'[k] = row[k]
  BY DEF RowsTyped
<1>2. \A k \in Jobs : row[k].attempt \in Nat
  BY RowShape
<1> QED BY <1>1, <1>2 DEF RowsForward, Rows

\* requeueStaleJob and failJobIfStale.
LEMMA ReclaimRows ==
    ASSUME RowsTyped, NEW s, s.job \in Jobs, Reclaim(s)
    PROVE  RowsTyped' /\ RowsForward /\ UNCHANGED <<serial, closer>>
<1>1. UNCHANGED <<serial, closer>>
  BY DEF Reclaim
<1>2. CASE UNCHANGED row
  BY <1>1, <1>2, RowShape DEF RowsTyped, RowsForward
<1>3. CASE row' = [row EXCEPT ![s.job] = Reclaimed(row[s.job])]
  <2>1. serial' \in [Jobs -> Nat] /\ closer' \in [Jobs -> Nat]
    BY <1>1 DEF RowsTyped
  <2>2. RowsTyped'
    BY <1>3, <2>1, RowShape, ReclaimedRow, PutRow
  <2>3. RowsForward
    BY <1>3, RowShape, ReclaimedRow, PutRowForward
  <2> QED BY <1>1, <2>2, <2>3
<1> QED BY <1>2, <1>3 DEF Reclaim

\* The steps that write rows other than a claim, its undoing and a result.
LEMMA PlainRowWrites ==
    ASSUME Typed,
           \/ UNCHANGED <<row, serial, closer>>
           \/ \E i \in Procs : \E s \in todo[i] : ReclaimAgentJob(i, s)
           \/ \E j \in Jobs : ReclaimPendingCancel(j) \/ CancelJobRun(j) \/ RerunJob(j)
           \/ \E s \in sweep.rows : ReclaimStaleJob(s)
    PROVE  /\ RowsTyped' /\ UNCHANGED <<serial, closer>>
           /\ budget'.revive = budget.revive => RowsForward
<1>0. RowsTyped /\ serial \in [Jobs -> Nat] /\ closer \in [Jobs -> Nat] /\ budget \in Budgets
  BY DEF Typed, RowsTyped, RequestsTyped
<1>1. CASE UNCHANGED <<row, serial, closer>>
  BY <1>0, <1>1, RowShape DEF RowsTyped, RowsForward
<1>2. ASSUME NEW i \in Procs, NEW s \in todo[i], ReclaimAgentJob(i, s)
      PROVE  RowsTyped' /\ RowsForward /\ UNCHANGED <<serial, closer>>
  <2>1. s.job \in Jobs
    BY <1>2 DEF Typed, RequestsTyped, Snapshot
  <2> QED BY <1>0, <1>2, <2>1, ReclaimRows DEF ReclaimAgentJob
<1>3. ASSUME NEW s \in sweep.rows, ReclaimStaleJob(s)
      PROVE  RowsTyped' /\ RowsForward /\ UNCHANGED <<serial, closer>>
  <2>1. s.job \in Jobs
    BY <1>3 DEF Typed, RequestsTyped, Listed
  <2> QED BY <1>0, <1>3, <2>1, ReclaimRows DEF ReclaimStaleJob
<1>4. ASSUME NEW j \in Jobs, ReclaimPendingCancel(j)
      PROVE  RowsTyped' /\ RowsForward /\ UNCHANGED <<serial, closer>>
  <2> DEFINE v == [row[j] EXCEPT !.status = "canceled"]
  <2>1. row' = [row EXCEPT ![j] = v] /\ UNCHANGED <<serial, closer>>
    BY <1>4 DEF ReclaimPendingCancel
  <2>2. v \in Rows /\ v.status = "canceled" /\ v.attempt >= row[j].attempt
    BY <1>0, RowShape DEF Rows, Statuses
  <2> HIDE DEF v
  <2>3. RowsTyped'
    BY <1>0, <2>1, <2>2, PutRow
  <2>4. RowsForward
    BY <1>0, <2>1, <2>2, PutRowForward
  <2> QED BY <2>1, <2>3, <2>4
<1>5. ASSUME NEW j \in Jobs, CancelJobRun(j)
      PROVE  RowsTyped' /\ RowsForward /\ UNCHANGED <<serial, closer>>
  <2>0. UNCHANGED <<serial, closer>>
    BY <1>5 DEF CancelJobRun
  <2>1. CASE row[j].status = "running" /\ row' = [row EXCEPT ![j].stamp = TRUE]
    <3> DEFINE v == [row[j] EXCEPT !.stamp = TRUE]
    <3>1. row' = [row EXCEPT ![j] = v]
      BY <2>1
    <3>2. row[j] \in Rows
      BY <1>0, RowShape
    <3>3. v \in Rows
      BY <3>2 DEF Rows
    <3>4. v.status = row[j].status /\ v.attempt = row[j].attempt /\ v.agent = row[j].agent
      BY <3>2 DEF Rows
    <3>5. v.status = "running" /\ v.attempt >= row[j].attempt /\ v.agent \in Agents
      BY <1>0, <2>1, <3>4, RowShape DEF RowsTyped
    <3> HIDE DEF v
    <3>6. RowsTyped'
      BY <1>0, <2>0, <3>1, <3>3, <3>5, PutRow
    <3>7. RowsForward
      BY <1>0, <3>1, <3>3, <3>5, PutRowForward
    <3> QED BY <2>0, <3>6, <3>7
  <2>2. CASE row' = [row EXCEPT ![j].status = "canceled"]
    <3> DEFINE v == [row[j] EXCEPT !.status = "canceled"]
    <3>1. row' = [row EXCEPT ![j] = v]
      BY <2>2
    <3>2. v \in Rows /\ v.status = "canceled" /\ v.attempt >= row[j].attempt
      BY <1>0, RowShape DEF Rows, Statuses
    <3> HIDE DEF v
    <3>3. RowsTyped'
      BY <1>0, <2>0, <3>1, <3>2, PutRow
    <3>4. RowsForward
      BY <1>0, <3>1, <3>2, PutRowForward
    <3> QED BY <2>0, <3>3, <3>4
  <2> QED BY <1>5, <2>1, <2>2 DEF CancelJobRun
<1>6. ASSUME NEW j \in Jobs, RerunJob(j)
      PROVE  /\ RowsTyped' /\ UNCHANGED <<serial, closer>>
             /\ budget'.revive = budget.revive => RowsForward
  <2>0. UNCHANGED <<serial, closer>> /\ row[j].attempt \in Nat
    BY <1>0, <1>6, RowShape DEF RerunJob
  <2> DEFINE v(n) == [status |-> "queued", agent |-> None, attempt |-> n, stamp |-> FALSE]
  <2>1. \A n \in Nat : v(n) \in Rows /\ v(n).status = "queued" /\ v(n).attempt = n
    BY DEF Rows, Statuses
  <2>2. \/ row' = [row EXCEPT ![j] = v(row[j].attempt + 1)]
        \/ /\ row' = [row EXCEPT ![j] = v(row[j].attempt)]
           /\ budget' = [budget EXCEPT !.revive = @ - 1]
    BY <1>6 DEF RerunJob
  <2> HIDE DEF v
  <2>3. RowsTyped'
    BY <1>0, <2>0, <2>1, <2>2, PutRow
  <2>4. CASE row' = [row EXCEPT ![j] = v(row[j].attempt + 1)]
    <3>1. LET w == v(row[j].attempt + 1)
          IN w \in Rows /\ w.attempt >= row[j].attempt /\ w.attempt > row[j].attempt
      BY <2>0, <2>1
    <3>2. RowsForward
      BY <1>0, <2>4, <3>1, PutRowForward
    <3> QED BY <2>0, <2>3, <3>2
  <2>5. CASE budget' = [budget EXCEPT !.revive = @ - 1]
    BY <1>0, <2>0, <2>3, <2>5 DEF Budgets
  <2> QED BY <2>2, <2>4, <2>5
<1> QED BY <1>1, <1>2, <1>3, <1>4, <1>5, <1>6

\* AssignJob claims a queued row.
LEMMA ClaimRows ==
    ASSUME Typed, NEW j \in Jobs, NEW a \in Agents, AssignJob(j, a)
    PROVE  /\ RowsTyped'
           /\ row'[j].status = "running" /\ row'[j].attempt = row[j].attempt
           /\ \A k \in Jobs \ {j} : row'[k] = row[k] /\ serial'[k] = serial[k] /\ closer'[k] = closer[k]
           /\ closer'[j] = 0
<1>0. RowsTyped
  BY DEF Typed
<1> DEFINE v == [row[j] EXCEPT !.status = "running", !.agent = a]
<1>1. /\ row' = [row EXCEPT ![j] = v] /\ serial' = [serial EXCEPT ![j] = @ + 1]
      /\ closer' = [closer EXCEPT ![j] = 0]
  BY DEF AssignJob
<1>2. row[j] \in Rows
  BY <1>0, RowShape
<1>3. v \in Rows
  BY <1>2 DEF Rows, Statuses
<1>4. v.status = "running" /\ v.attempt = row[j].attempt /\ v.agent = a
  BY <1>2 DEF Rows
<1> HIDE DEF v
<1>5. /\ serial' \in [Jobs -> Nat] /\ closer' \in [Jobs -> Nat] /\ closer'[j] = 0
      /\ \A k \in Jobs \ {j} : serial'[k] = serial[k] /\ closer'[k] = closer[k]
  BY <1>0, <1>1 DEF RowsTyped
<1> QED BY <1>0, <1>1, <1>3, <1>4, <1>5, PutRow, ZenonT(40)

\* rollbackUndispatchedAssignment: back to the queue under the attempt claimed,
\* or canceled.
LEMMA UnassignRows ==
    ASSUME Typed, UnassignJob
    PROVE  /\ RowsTyped' /\ UNCHANGED <<serial, closer>>
           /\ claim \in Snapshot /\ claim' = None
           /\ \A k \in Jobs : row'[k].attempt = row[k].attempt
           /\ \A k \in Jobs : row'[k].status = "queued" =>
                 \/ row[k].status = "queued"
                 \/ k = claim.job /\ row[k].attempt = claim.attempt
<1>0. RowsTyped /\ claim \in Snapshot /\ claim' = None /\ UNCHANGED <<serial, closer>>
  BY DEF Typed, RequestsTyped, UnassignJob
<1> DEFINE j == claim.job
           ended == [row[j] EXCEPT !.status = "canceled"]
           requeued == [row[j] EXCEPT !.status = "queued", !.agent = None]
<1>1. j \in Jobs /\ serial' \in [Jobs -> Nat] /\ closer' \in [Jobs -> Nat]
  BY <1>0 DEF Snapshot, RowsTyped
<1>2. \/ UNCHANGED row
      \/ row' = [row EXCEPT ![j] = ended]
      \/ row' = [row EXCEPT ![j] = requeued] /\ row[j].attempt = claim.attempt
  BY DEF UnassignJob, Matches
<1>3. row[j] \in Rows
  BY <1>0, <1>1, RowShape
<1>4. ended \in Rows /\ requeued \in Rows
  BY <1>3 DEF Rows, Statuses
<1>5. /\ ended.status = "canceled" /\ ended.attempt = row[j].attempt
      /\ requeued.status = "queued" /\ requeued.attempt = row[j].attempt
  BY <1>3 DEF Rows
<1> HIDE DEF j, ended, requeued
<1>6. CASE UNCHANGED row
  BY <1>0, <1>6 DEF RowsTyped
<1>7. CASE row' = [row EXCEPT ![j] = ended]
  BY <1>0, <1>1, <1>4, <1>5, <1>7, PutRow
<1>8. CASE row' = [row EXCEPT ![j] = requeued] /\ row[j].attempt = claim.attempt
  BY <1>0, <1>1, <1>4, <1>5, <1>8, PutRow DEF j
<1> QED BY <1>2, <1>6, <1>7, <1>8

\* CompleteJob and HandleDisruptedJob, behind their compare-and-set.
LEMMA CommitRows ==
    ASSUME Typed, NEW i \in Procs, CommitResult(i)
    PROVE  /\ RowsTyped' /\ RowsForward /\ UNCHANGED serial
           /\ handler[i] \in Handling
           /\ \/ UNCHANGED closer
              \/ /\ StillHeld(i, handler[i])
                 /\ closer' = [closer EXCEPT ![handler[i].job] = handler[i].serial]
<1>0. RowsTyped /\ handler[i] \in Handling /\ UNCHANGED serial
  BY DEF Typed, ProcessesTyped, CommitResult
<1> DEFINE h == handler[i]
           v == Committed(row[h.job], h.kind)
<1>1. h.job \in Jobs /\ h.serial \in Nat /\ serial' \in [Jobs -> Nat]
  BY <1>0 DEF Handling, RowsTyped
<1>2. CASE UNCHANGED <<row, closer>>
  BY <1>0, <1>2, RowShape DEF RowsTyped, RowsForward
<1>3. CASE /\ StillHeld(i, h) /\ row' = [row EXCEPT ![h.job] = v]
           /\ closer' = [closer EXCEPT ![h.job] = h.serial]
  <2>1. row[h.job] \in Rows
    BY <1>0, <1>1, RowShape
  <2>2. /\ v \in Rows /\ v.status # "running" /\ v.attempt >= row[h.job].attempt
        /\ v.status = "queued" => v.attempt > row[h.job].attempt
    BY <2>1, CommittedRow
  <2> HIDE DEF v
  <2>3. closer' \in [Jobs -> Nat]
    BY <1>0, <1>1, <1>3 DEF RowsTyped
  <2>4. RowsTyped'
    BY <1>0, <1>1, <1>3, <2>2, <2>3, PutRow
  <2>5. RowsForward
    BY <1>0, <1>1, <1>3, <2>2, PutRowForward
  <2> QED BY <1>0, <1>3, <2>4, <2>5
<1> QED BY <1>2, <1>3 DEF CommitResult

\* Rows stay well typed.
LEMMA RowsStayTyped ==
    ASSUME Typed, Next
    PROVE  RowsTyped'
BY WhoWritesRows, PlainRowWrites, ClaimRows, UnassignRows, CommitRows

-----------------------------------------------------------------------------
(* Agents and sessions                                                     *)

\* The agents table stays well typed.
LEMMA AgentRowsStayTyped ==
    ASSUME Typed, Next
    PROVE  db' \in [Agents -> AgentRows]
<1>0. db \in [Agents -> AgentRows]
  BY DEF Typed, AgentsTyped
<1>1. CASE UNCHANGED db
  BY <1>0, <1>1
<1>2. ASSUME NEW i \in Procs, MarkAgentOnline(i) PROVE db' \in [Agents -> AgentRows]
  <2>1. AgentOf[i] \in Agents /\ db[AgentOf[i]].gen + 1 \in Nat
    BY <1>0, SessionAssumption DEF AgentRows
  <2> DEFINE v == [online |-> TRUE, gen |-> db[AgentOf[i]].gen + 1, fresh |-> TRUE]
  <2>2. v \in AgentRows
    BY <2>1 DEF AgentRows
  <2>3. db' = [db EXCEPT ![AgentOf[i]] = v]
    BY <1>2 DEF MarkAgentOnline
  <2> HIDE DEF v
  <2> QED BY <1>0, <2>1, <2>2, <2>3
<1>3. ASSUME NEW i \in Procs, MarkAgentOffline(i) PROVE db' \in [Agents -> AgentRows]
  <2> DEFINE a == AgentOf[i]
             b == db[a].online /\ db[a].gen # sess[i].gen
  <2>1. a \in Agents /\ db[a] \in AgentRows
    BY <1>0, SessionAssumption
  <2>2. db' = [db EXCEPT ![a] = [db[a] EXCEPT !.online = b]]
    BY <1>3 DEF MarkAgentOffline
  <2>3. b \in BOOLEAN
    OBVIOUS
  <2> HIDE DEF b, a
  <2>4. [db[a] EXCEPT !.online = b] \in AgentRows
    BY <2>1, <2>3 DEF AgentRows
  <2> QED BY <1>0, <2>1, <2>2, <2>4
<1>4. ASSUME NEW a \in Agents, NEW b \in BOOLEAN, db' = [db EXCEPT ![a].fresh = b]
      PROVE  db' \in [Agents -> AgentRows]
  <2>1. [db[a] EXCEPT !.fresh = b] \in AgentRows
    BY <1>0 DEF AgentRows
  <2> QED BY <1>0, <1>4, <2>1
<1>5. ASSUME NEW i \in Procs, Heartbeat(i) PROVE db' \in [Agents -> AgentRows]
  BY <1>4, <1>5, SessionAssumption DEF Heartbeat
<1>6. ASSUME NEW a \in Agents, Expire(a) PROVE db' \in [Agents -> AgentRows]
  BY <1>4, <1>6 DEF Expire
<1> QED BY <1>1, <1>2, <1>3, <1>5, <1>6, WhoWritesAgents

\* What a session is.
LEMMA SessionShape ==
    ASSUME SessionsTyped, NEW i \in Procs
    PROVE  /\ sess[i] \in Sessions /\ sess[i].gen \in Nat /\ sess[i].slots \in Nat
           /\ sess[i].assigned \in [Jobs -> Nat \cup {None}]
BY DEF SessionsTyped, Sessions

\* The session v after its flags were set: what it holds is as it was.
Reflagged(v, w) ==
    w \in Sessions /\ w.slots = v.slots /\ w.assigned = v.assigned /\ w.gen = v.gen

\* Revoke and the superseded mark.
LEMMA RevokedSession ==
    ASSUME NEW v \in Sessions, NEW sup
    PROVE  LET w == [v EXCEPT !.revoked = TRUE, !.superseded = @ \/ sup]
           IN Reflagged(v, w)
<1> DEFINE w == [v EXCEPT !.revoked = TRUE, !.superseded = @ \/ sup]
<1>1. (v.superseded \/ sup) \in BOOLEAN
  OBVIOUS
<1>2. w \in Sessions
  BY <1>1 DEF Sessions
<1>3. w.slots = v.slots /\ w.assigned = v.assigned /\ w.gen = v.gen
  BY DEF Sessions
<1> HIDE DEF w
<1>4. Reflagged(v, w)
  BY <1>2, <1>3 DEF Reflagged
<1> QED BY <1>4 DEF w

\* Every session keeps what it holds.
Reflags == sess' \in [Procs -> Sessions] /\ \A k \in Procs : Reflagged(sess[k], sess'[k])

\* RevokeForAgent and the fence of the reaper.
LEMMA RevokeFacts ==
    ASSUME SessionsTyped, AgentsTyped, NEW a \in Agents, NEW sup, RevokeCurrent(a, sup)
    PROVE  /\ Reflags /\ latest' \in [Agents -> Procs \cup {None}]
           /\ latest'[a] = None /\ \A b \in Agents \ {a} : latest'[b] = latest[b]
           /\ \A k \in Procs : k # latest[a] => sess'[k] = sess[k]
<1> DEFINE w(k) == [sess[k] EXCEPT !.revoked = TRUE, !.superseded = @ \/ sup]
<1>1. /\ sess' = [k \in Procs |-> IF k = latest[a] /\ InStore(k) THEN w(k) ELSE sess[k]]
      /\ latest' = [latest EXCEPT ![a] = None]
  BY DEF RevokeCurrent
<1>2. \A k \in Procs : sess[k] \in Sessions /\ Reflagged(sess[k], w(k)) /\ Reflagged(sess[k], sess[k])
  BY SessionShape, RevokedSession, ZenonT(40) DEF Reflagged
<1>3. \A k \in Procs : w(k) \in Sessions
  BY <1>2 DEF Reflagged
<1> HIDE DEF w
<1>4. Reflags
  BY <1>1, <1>2, <1>3 DEF Reflags
<1>5. /\ latest' \in [Agents -> Procs \cup {None}]
      /\ latest'[a] = None /\ \A b \in Agents \ {a} : latest'[b] = latest[b]
  BY <1>1 DEF AgentsTyped
<1> QED BY <1>1, <1>4, <1>5

\* CreateSession revokes in the same way, and publishes.
LEMMA CreateFacts ==
    ASSUME SessionsTyped, AgentsTyped, NEW i \in Procs, CreateSession(i)
    PROVE  /\ Reflags /\ latest' \in [Agents -> Procs \cup {None}]
           /\ latest'[AgentOf[i]] = i
           /\ \A b \in Agents \ {AgentOf[i]} : latest'[b] = latest[b]
           /\ \A k \in Procs : k # latest[AgentOf[i]] => sess'[k] = sess[k]
<1> DEFINE w(k) == [sess[k] EXCEPT !.revoked = TRUE, !.superseded = TRUE]
           a == AgentOf[i]
<1>1. /\ sess' = [k \in Procs |-> IF k = latest[a] /\ InStore(k) THEN w(k) ELSE sess[k]]
      /\ latest' = [latest EXCEPT ![a] = i]
  BY DEF CreateSession
<1>2. \A k \in Procs : sess[k] \in Sessions /\ Reflagged(sess[k], sess[k])
  BY SessionShape DEF Reflagged
<1>3. \A k \in Procs : w(k) \in Sessions
  BY <1>2 DEF Sessions
<1>4. \A k \in Procs : w(k).slots = sess[k].slots /\ w(k).assigned = sess[k].assigned
                       /\ w(k).gen = sess[k].gen
  BY <1>2 DEF Sessions
<1> HIDE DEF w
<1>5. Reflags
  BY <1>1, <1>2, <1>3, <1>4 DEF Reflags, Reflagged
<1>6. AgentOf[i] \in Agents
  BY SessionAssumption
<1>7. /\ latest' \in [Agents -> Procs \cup {None}]
      /\ latest'[a] = i /\ \A b \in Agents \ {a} : latest'[b] = latest[b]
  BY <1>1, <1>6 DEF AgentsTyped
<1> QED BY <1>1, <1>5, <1>7

\* The deferred Revoke of a stream that ends.
LEMMA StreamEndFacts ==
    ASSUME SessionsTyped, AgentsTyped, NEW i \in Procs, StreamEnds(i)
    PROVE  /\ Reflags /\ latest' \in [Agents -> Procs \cup {None}]
           /\ \A b \in Agents : latest'[b] = latest[b] \/ (latest[b] = i /\ latest'[b] = None)
           /\ latest'[AgentOf[i]] # i
           /\ \A k \in Procs \ {i} : sess'[k] = sess[k]
<1> DEFINE w == [sess[i] EXCEPT !.revoked = TRUE]
           a == AgentOf[i]
<1>1. /\ sess' = [sess EXCEPT ![i] = w]
      /\ latest' = [latest EXCEPT ![a] = IF latest[a] = i THEN None ELSE latest[a]]
  BY DEF StreamEnds
<1>2. \A k \in Procs : sess[k] \in Sessions /\ Reflagged(sess[k], sess[k])
  BY SessionShape DEF Reflagged
<1>3. w \in Sessions
  BY <1>2 DEF Sessions
<1>4. w.slots = sess[i].slots /\ w.assigned = sess[i].assigned /\ w.gen = sess[i].gen
  BY <1>2 DEF Sessions
<1> HIDE DEF w
<1>5. \A k \in Procs : sess'[k] = IF k = i THEN w ELSE sess[k]
  BY <1>1 DEF SessionsTyped
<1>6. Reflags
  BY <1>1, <1>2, <1>3, <1>4, <1>5 DEF Reflags, Reflagged, SessionsTyped
<1>7. AgentOf[i] \in Agents /\ None # i
  BY SessionAssumption
<1>8. /\ latest' \in [Agents -> Procs \cup {None}]
      /\ \A b \in Agents : latest'[b] = IF b = a /\ latest[b] = i THEN None ELSE latest[b]
  BY <1>1, <1>7 DEF AgentsTyped
<1> QED BY <1>5, <1>6, <1>7, <1>8

\* The generation MarkAgentOnline hands out.
LEMMA OnlineFacts ==
    ASSUME SessionsTyped, AgentsTyped, NEW i \in Procs, MarkAgentOnline(i)
    PROVE  /\ sess' \in [Procs -> Sessions]
           /\ sess'[i].slots = sess[i].slots /\ sess'[i].assigned = sess[i].assigned
           /\ sess'[i].gen = db[AgentOf[i]].gen + 1 /\ sess'[i].revoked = sess[i].revoked
           /\ \A k \in Procs \ {i} : sess'[k] = sess[k]
<1> DEFINE n == db[AgentOf[i]].gen + 1
           w == [sess[i] EXCEPT !.gen = n]
<1>1. sess' = [sess EXCEPT ![i] = w]
  BY DEF MarkAgentOnline
<1>2. n \in Nat /\ sess[i] \in Sessions
  BY SessionShape, SessionAssumption DEF AgentsTyped, AgentRows
<1> HIDE DEF n
<1>3. w \in Sessions
  BY <1>2 DEF Sessions
<1>4. /\ w.slots = sess[i].slots /\ w.assigned = sess[i].assigned /\ w.gen = n
      /\ w.revoked = sess[i].revoked
  BY <1>2 DEF Sessions
<1> HIDE DEF w
<1>5. \A k \in Procs : sess'[k] = IF k = i THEN w ELSE sess[k]
  BY <1>1 DEF SessionsTyped
<1> QED BY <1>1, <1>3, <1>4, <1>5 DEF SessionsTyped, n

\* The draining mark.
LEMMA DrainingFacts ==
    ASSUME SessionsTyped, NEW i \in Procs, ReceiveDraining(i)
    PROVE  Reflags /\ \A k \in Procs : sess'[k].revoked = sess[k].revoked
<1> DEFINE w == [sess[i] EXCEPT !.draining = TRUE]
<1>1. sess' = [sess EXCEPT ![i] = w]
  BY DEF ReceiveDraining
<1>2. \A k \in Procs : sess[k] \in Sessions /\ Reflagged(sess[k], sess[k])
  BY SessionShape DEF Reflagged
<1>3. w \in Sessions
  BY <1>2 DEF Sessions
<1>4. /\ w.slots = sess[i].slots /\ w.assigned = sess[i].assigned /\ w.gen = sess[i].gen
      /\ w.revoked = sess[i].revoked
  BY <1>2 DEF Sessions
<1> HIDE DEF w
<1>5. \A k \in Procs : sess'[k] = IF k = i THEN w ELSE sess[k]
  BY <1>1 DEF SessionsTyped
<1> QED BY <1>1, <1>2, <1>3, <1>4, <1>5 DEF Reflags, Reflagged, SessionsTyped

\* DispatchAssignment takes a slot, or finds the assignment it already has.
LEMMA DispatchFacts ==
    ASSUME Typed, StoreAgrees, DispatchAssignment
    PROVE  LET i == latest[claim.agent]
               j == claim.job
           IN /\ claim \in Snapshot /\ claim' = None /\ i \in Procs /\ j \in Jobs
              /\ sess' \in [Procs -> Sessions]
              /\ \A k \in Procs \ {i} : sess'[k] = sess[k]
              /\ sess'[i].gen = sess[i].gen /\ sess'[i].revoked = sess[i].revoked
              /\ \/ UNCHANGED <<sess, out>>
                 \/ /\ sess[i].assigned[j] = None /\ Len(out[i]) < SendBuffer
                    /\ sess'[i].slots = sess[i].slots + 1
                    /\ sess'[i].assigned = [sess[i].assigned EXCEPT ![j] = claim.attempt]
                    /\ out' = Queued(i, [kind |-> "assign", job |-> j, serial |-> serial[j]])
<1> DEFINE i == latest[claim.agent]
           j == claim.job
           A == [sess[i].assigned EXCEPT ![j] = claim.attempt]
           w == [sess[i] EXCEPT !.assigned[j] = claim.attempt, !.slots = @ + 1]
<1>1. claim \in Snapshot /\ claim' = None /\ i # None /\ Accepts(i)
  BY DEF Typed, RequestsTyped, DispatchAssignment, Accepts
<1>2. claim.agent \in Agents /\ j \in Jobs /\ claim.attempt \in Nat
  BY <1>1 DEF Snapshot
<1>3. i \in Procs /\ SessionsTyped
  BY <1>1, <1>2 DEF Typed, AgentsTyped
<1>4. sess[i] \in Sessions /\ sess[i].slots + 1 \in Nat /\ A \in [Jobs -> Nat \cup {None}]
  BY <1>2, <1>3, SessionShape
<1>5. w = [sess[i] EXCEPT !.assigned = A, !.slots = sess[i].slots + 1]
  BY <1>4 DEF Sessions
<1>6. CASE UNCHANGED <<out, sess>>
  BY <1>1, <1>2, <1>3, <1>6 DEF SessionsTyped
<1>7. CASE /\ sess[i].assigned[j] = None
           /\ out' = Queued(i, [kind |-> "assign", job |-> j, serial |-> serial[j]])
           /\ sess' = [sess EXCEPT ![i].assigned[j] = claim.attempt, ![i].slots = @ + 1]
  <2>1. sess' = [sess EXCEPT ![i] = w]
    BY <1>3, <1>4, <1>7 DEF SessionsTyped
  <2> HIDE DEF i, j, A, w
  <2>2. w \in Sessions
    BY <1>4, <1>5 DEF Sessions
  <2>3. /\ w.slots = sess[i].slots + 1 /\ w.assigned = A /\ w.gen = sess[i].gen
        /\ w.revoked = sess[i].revoked
    BY <1>4, <1>5 DEF Sessions
  <2>4. sess' \in [Procs -> Sessions] /\ \A k \in Procs : sess'[k] = IF k = i THEN w ELSE sess[k]
    BY <1>3, <2>1, <2>2 DEF SessionsTyped
  <2>5. Len(out[i]) < SendBuffer
    BY <1>1, <1>2, <1>7, SessionAssumption DEF Accepts, j
  <2> QED BY <1>1, <1>2, <1>3, <1>7, <2>3, <2>4, <2>5 DEF i, j, A
<1> QED BY <1>6, <1>7 DEF DispatchAssignment

\* A handled result belongs to an assignment that takes a slot.
LEMMA HandledIsHeld ==
    ASSUME SessionInv, NEW i \in Procs, handler[i] # None
    PROVE  /\ handler[i] \in Handling /\ handler[i].job \in Held(i)
           /\ sess[i].slots > 0 /\ IsFiniteSet(Held(i))
<1>1. handler[i] \in Handling
  BY DEF SessionInv, Typed, ProcessesTyped
<1>2. handler[i].job \in Jobs /\ handler[i].attempt # None
  BY <1>1, SessionAssumption DEF Handling
<1>3. handler[i].job \in Held(i)
  BY <1>2 DEF SessionInv, HandlerHolds, Held
<1>4. IsFiniteSet(Held(i))
  BY SessionAssumption, FS_Subset DEF Held
<1>5. Cardinality(Held(i)) # 0 /\ Cardinality(Held(i)) \in Nat
  BY <1>3, <1>4, FS_EmptySet, FS_CardinalityType
<1> QED BY <1>1, <1>3, <1>4, <1>5 DEF SessionInv, SlotsCount

\* ClearAssignment and DecRunning give that slot back.
LEMMA ReleaseFacts ==
    ASSUME SessionInv, NEW i \in Procs, ReleaseSlot(i)
    PROVE  LET j == handler[i].job
           IN /\ sess' \in [Procs -> Sessions]
              /\ \A k \in Procs \ {i} : sess'[k] = sess[k]
              /\ sess'[i].gen = sess[i].gen /\ sess'[i].revoked = sess[i].revoked
              /\ sess'[i].slots = sess[i].slots - 1
              /\ sess'[i].assigned = [sess[i].assigned EXCEPT ![j] = None]
<1> DEFINE j == handler[i].job
           A == [sess[i].assigned EXCEPT ![j] = None]
           w == [sess[i] EXCEPT !.assigned[j] = None, !.slots = @ - 1]
<1>1. handler[i] # None /\ sess' = [sess EXCEPT ![i].assigned[j] = None, ![i].slots = @ - 1]
  BY DEF ReleaseSlot
<1>2. j \in Jobs /\ sess[i].slots > 0 /\ SessionsTyped
  BY <1>1, HandledIsHeld DEF Held, SessionInv, Typed
<1>3. sess[i] \in Sessions /\ sess[i].slots - 1 \in Nat /\ A \in [Jobs -> Nat \cup {None}]
  BY <1>2, SessionShape
<1>4. w = [sess[i] EXCEPT !.assigned = A, !.slots = sess[i].slots - 1]
  BY <1>3 DEF Sessions
<1>5. sess' = [sess EXCEPT ![i] = w]
  BY <1>1, <1>2, <1>3 DEF SessionsTyped
<1> HIDE DEF j, A, w
<1>6. w \in Sessions
  BY <1>3, <1>4 DEF Sessions
<1>7. /\ w.slots = sess[i].slots - 1 /\ w.assigned = A /\ w.gen = sess[i].gen
      /\ w.revoked = sess[i].revoked
  BY <1>3, <1>4 DEF Sessions
<1>8. sess' \in [Procs -> Sessions] /\ \A k \in Procs : sess'[k] = IF k = i THEN w ELSE sess[k]
  BY <1>2, <1>5, <1>6 DEF SessionsTyped
<1> QED BY <1>7, <1>8 DEF A, j

\* Every session keeps its slots and assignments.
KeepsSlots ==
    /\ sess' \in [Procs -> Sessions]
    /\ \A k \in Procs : sess'[k].slots = sess[k].slots /\ sess'[k].assigned = sess[k].assigned

\* Only DispatchAssignment and the release of a slot change what is held.
LEMMA WhoMovesSlots ==
    ASSUME SessionInv, Next
    PROVE  KeepsSlots \/ DispatchAssignment \/ \E i \in Procs : ReleaseSlot(i)
<1>0. SessionsTyped /\ AgentsTyped /\ Typed
  BY DEF SessionInv, Typed
<1>1. Reflags => KeepsSlots
  BY DEF Reflags, Reflagged, KeepsSlots
<1>2. UNCHANGED sess => KeepsSlots
  BY <1>0 DEF SessionsTyped, KeepsSlots
<1>3. ASSUME NEW i \in Procs, Register(i) PROVE KeepsSlots
  <2>0. AgentOf[i] \in Agents
    BY SessionAssumption
  <2>1. CASE RevokeForAgent(i)
    BY <1>0, <1>1, <2>0, <2>1, RevokeFacts DEF RevokeForAgent
  <2>2. CASE MarkAgentOnline(i)
    BY <1>0, <2>2, OnlineFacts DEF KeepsSlots
  <2>3. CASE CreateSession(i)
    BY <1>0, <1>1, <2>3, CreateFacts
  <2>4. CASE \/ ListRunningJobsForAgent(i) \/ ReplayCancels(i)
             \/ \E s \in todo[i] : ReclaimAgentJob(i, s)
    BY <1>2, <2>4 DEF ListRunningJobsForAgent, ReplayCancels, ReclaimAgentJob
  <2> QED BY <1>3, <2>1, <2>2, <2>3, <2>4 DEF Register
<1>4. ASSUME NEW i \in Procs, Connect(i) PROVE KeepsSlots
  <2>1. CASE StreamEnds(i)
    BY <1>0, <1>1, <2>1, StreamEndFacts
  <2>2. CASE ClaimConnect(i) \/ MarkReady(i) \/ CheckSuperseded(i) \/ MarkAgentOffline(i)
    BY <1>2, <2>2 DEF ClaimConnect, MarkReady, CheckSuperseded, MarkAgentOffline
  <2> QED BY <1>4, <2>1, <2>2 DEF Connect
<1>5. ASSUME NEW i \in Procs, ReceiveDraining(i) PROVE KeepsSlots
  BY <1>0, <1>1, <1>5, DrainingFacts
<1>6. ASSUME NEW t \in sweep.fence, FenceStaleSession(t) PROVE KeepsSlots
  <2>1. t.agent \in Agents
    BY <1>0 DEF Typed, RequestsTyped
  <2>2. UNCHANGED sess \/ RevokeCurrent(t.agent, FALSE)
    BY <1>6 DEF FenceStaleSession
  <2> QED BY <1>0, <1>1, <1>2, <2>1, <2>2, RevokeFacts
<1>7. ServerCrash => UNCHANGED sess
  BY DEF ServerCrash
<1> QED BY <1>2, <1>3, <1>4, <1>5, <1>6, <1>7, WhoMovesSessions

\* Sessions stay well typed.
LEMMA SessionsStayTyped ==
    ASSUME SessionInv, Next
    PROVE  SessionsTyped'
<1>0. SessionsTyped /\ Typed /\ StoreAgrees
  BY DEF SessionInv, Typed
<1>1. sess' \in [Procs -> Sessions]
  BY <1>0, WhoMovesSlots, DispatchFacts, ReleaseFacts DEF KeepsSlots
<1>2. pc' \in [Procs -> Steps]
  <2>0. pc \in [Procs -> Steps]
    BY <1>0 DEF SessionsTyped
  <2>1. ASSUME NEW i \in Procs, NEW st \in Steps, pc' = [pc EXCEPT ![i] = st]
        PROVE  pc' \in [Procs -> Steps]
    BY <2>0, <2>1
  <2>2. ASSUME NEW i \in Procs, Register(i) PROVE pc' \in [Procs -> Steps]
    BY <2>0, <2>1, <2>2 DEF Register, RevokeForAgent, ListRunningJobsForAgent, ReclaimAgentJob,
       MarkAgentOnline, CreateSession, ReplayCancels, Steps
  <2>3. ASSUME NEW i \in Procs, Connect(i) PROVE pc' \in [Procs -> Steps]
    <3>1. \E st \in Steps : pc' = [pc EXCEPT ![i] = st]
      BY <2>3 DEF Connect, ClaimConnect, MarkReady, StreamEnds, CheckSuperseded, MarkAgentOffline,
         Steps
    <3> QED BY <2>1, <3>1
  <2>4. ASSUME NEW i \in Procs, ReceiveDraining(i) \/ ReleaseSlot(i) PROVE pc' \in [Procs -> Steps]
    BY <2>0, <2>4 DEF ReceiveDraining, ReleaseSlot
  <2>5. DispatchAssignment \/ (\E t \in sweep.fence : FenceStaleSession(t)) => UNCHANGED pc
    BY DEF DispatchAssignment, FenceStaleSession
  <2>6. ServerCrash => pc' \in [Procs -> Steps]
    BY DEF ServerCrash, Steps
  <2> QED BY <2>0, <2>2, <2>3, <2>4, <2>5, <2>6, WhoMovesSessions
<1> QED BY <1>1, <1>2 DEF SessionsTyped

\* The store's index stays well typed.
LEMMA AgentsStayTyped ==
    ASSUME SessionInv, Next
    PROVE  AgentsTyped'
<1>0. SessionsTyped /\ AgentsTyped /\ Typed /\ latest \in [Agents -> Procs \cup {None}]
  BY DEF SessionInv, Typed, AgentsTyped
<1>1. ASSUME NEW i \in Procs, Register(i) PROVE latest' \in [Agents -> Procs \cup {None}]
  <2>1. CASE RevokeForAgent(i)
    <3>1. AgentOf[i] \in Agents /\ RevokeCurrent(AgentOf[i], TRUE)
      BY <2>1, SessionAssumption DEF RevokeForAgent
    <3> QED BY <1>0, <3>1, RevokeFacts
  <2>2. CASE CreateSession(i)
    BY <1>0, <2>2, CreateFacts
  <2>3. CASE \/ ListRunningJobsForAgent(i) \/ ReplayCancels(i) \/ MarkAgentOnline(i)
             \/ \E s \in todo[i] : ReclaimAgentJob(i, s)
    BY <1>0, <2>3 DEF ListRunningJobsForAgent, ReplayCancels, ReclaimAgentJob, MarkAgentOnline
  <2> QED BY <1>1, <2>1, <2>2, <2>3 DEF Register
<1>2. ASSUME NEW i \in Procs, Connect(i) PROVE latest' \in [Agents -> Procs \cup {None}]
  <2>1. CASE StreamEnds(i)
    BY <1>0, <2>1, StreamEndFacts
  <2>2. CASE ClaimConnect(i) \/ MarkReady(i) \/ CheckSuperseded(i) \/ MarkAgentOffline(i)
    BY <1>0, <2>2 DEF ClaimConnect, MarkReady, CheckSuperseded, MarkAgentOffline
  <2> QED BY <1>2, <2>1, <2>2 DEF Connect
<1>3. ASSUME NEW t \in sweep.fence, FenceStaleSession(t)
      PROVE  latest' \in [Agents -> Procs \cup {None}]
  <2>1. t.agent \in Agents
    BY <1>0 DEF Typed, RequestsTyped
  <2>2. UNCHANGED latest \/ RevokeCurrent(t.agent, FALSE)
    BY <1>3 DEF FenceStaleSession
  <2> QED BY <1>0, <2>1, <2>2, RevokeFacts
<1>4. DispatchAssignment \/ (\E i \in Procs : ReceiveDraining(i) \/ ReleaseSlot(i)) => UNCHANGED latest
  BY DEF DispatchAssignment, ReceiveDraining, ReleaseSlot
<1>5. ServerCrash => latest' \in [Agents -> Procs \cup {None}]
  BY DEF ServerCrash
<1>6. latest' \in [Agents -> Procs \cup {None}]
  BY <1>0, <1>1, <1>2, <1>3, <1>4, <1>5, WhoMovesSessions
<1> QED BY <1>0, <1>6, AgentRowsStayTyped DEF AgentsTyped

-----------------------------------------------------------------------------
(* Send queues                                                             *)

\* The session k got cancel frames behind what it had queued.
CancelsQueued(k) ==
    /\ out' \in [Procs -> Seq(Outgoing)]
    /\ \A i \in Procs \ {k} : out'[i] = out[i]
    /\ Len(out'[k]) >= Len(out[k]) /\ Len(out'[k]) <= SendBuffer
    /\ \A n \in 1..Len(out'[k]) :
          IF n <= Len(out[k]) THEN out'[k][n] = out[k][n] ELSE out'[k][n].kind = "cancel"

\* A queue is a sequence of frames that is not too long.
LEMMA QueueShape ==
    ASSUME Typed, NEW i \in Procs
    PROVE  /\ out[i] \in Seq(Outgoing) /\ Len(out[i]) \in Nat /\ Len(out[i]) <= SendBuffer
           /\ \A n \in 1..Len(out[i]) : out[i][n] \in Outgoing
BY DEF Typed, QueuesTyped

\* The frame a cancel request leaves with the session.
LEMMA SendCancelFacts ==
    ASSUME Typed, NEW c \in frames, SendCancel(c)
    PROVE  UNCHANGED out \/ \E k \in Procs : CancelsQueued(k)
<1> DEFINE i == latest[c.agent]
           f == [kind |-> "cancel", job |-> c.job, serial |-> 0]
<1>0. c.agent \in Agents /\ c.job \in Jobs
  BY DEF Typed, RequestsTyped
<1>1. f \in Outgoing /\ f.kind = "cancel"
  BY <1>0 DEF Outgoing
<1>2. CASE CanQueue(i) /\ out' = Queued(i, f)
  <2>1. i \in Procs
    BY <1>0, <1>2 DEF CanQueue, Typed, AgentsTyped
  <2>2. Len(out[i]) < SendBuffer /\ out' = [out EXCEPT ![i] = Append(out[i], f)]
    BY <1>2 DEF CanQueue, Queued
  <2> HIDE DEF i, f
  <2>3. /\ Append(out[i], f) \in Seq(Outgoing) /\ Len(Append(out[i], f)) = Len(out[i]) + 1
        /\ \A n \in 1..Len(out[i]) : Append(out[i], f)[n] = out[i][n]
        /\ Append(out[i], f)[Len(out[i]) + 1] = f
    BY <1>1, <2>1, QueueShape
  <2>4. out' \in [Procs -> Seq(Outgoing)] /\ out'[i] = Append(out[i], f)
        /\ \A k \in Procs \ {i} : out'[k] = out[k]
    BY <2>1, <2>2, <2>3 DEF Typed, QueuesTyped
  <2>5. SendBuffer \in Nat /\ Len(out[i]) \in Nat
    BY <2>1, QueueShape, SessionAssumption
  <2>6. CancelsQueued(i)
    BY <1>1, <2>2, <2>3, <2>4, <2>5 DEF CancelsQueued
  <2> QED BY <2>1, <2>6
<1> QED BY <1>2 DEF SendCancel

\* The cancels that Register replays.
LEMMA ReplayFacts ==
    ASSUME Typed, NEW i \in Procs, ReplayCancels(i)
    PROVE  UNCHANGED out \/ \E k \in Procs : CancelsQueued(k)
<1> DEFINE k == latest[AgentOf[i]]
           pending == PendingCancels(AgentOf[i])
           room == IF k # None /\ InStore(k) THEN SendBuffer - Len(out[k]) ELSE 0
           n == IF room < Cardinality(pending) THEN room ELSE Cardinality(pending)
           c(p) == [x \in 1..n |-> [kind |-> "cancel", job |-> p[x], serial |-> 0]]
<1>1. SUFFICES ASSUME room > 0, NEW p \in [1..n -> pending],
                      out' = [out EXCEPT ![k] = out[k] \o c(p)]
               PROVE  CancelsQueued(k) /\ k \in Procs
  BY DEF ReplayCancels
<1>2. AgentOf[i] \in Agents /\ k \in Procs \cup {None}
  BY SessionAssumption DEF Typed, AgentsTyped
<1>3. k # None /\ room = SendBuffer - Len(out[k])
  <2>1. CASE k # None /\ InStore(k)
    BY ONLY <2>1
  <2>2. CASE ~(k # None /\ InStore(k))
    <3>1. room = 0
      BY ONLY <2>2
    <3> HIDE DEF room
    <3> QED BY ONLY <1>1, <3>1
  <2> QED BY <2>1, <2>2
<1>4. k \in Procs /\ SendBuffer \in Nat
  BY <1>2, <1>3, SessionAssumption
<1>5. pending \subseteq Jobs /\ Cardinality(pending) \in Nat
  BY SessionAssumption, FS_Subset, FS_CardinalityType DEF PendingCancels
<1>6. out[k] \in Seq(Outgoing) /\ Len(out[k]) \in Nat
  BY <1>4, QueueShape
<1>7. n \in Nat /\ n <= SendBuffer - Len(out[k])
  <2>1. room > 0 /\ room = SendBuffer - Len(out[k])
    BY <1>1, <1>3
  <2> HIDE DEF room
  <2> QED BY <1>4, <1>5, <1>6, <2>1
<1>8. \A x \in 1..n : c(p)[x] \in Outgoing /\ c(p)[x].kind = "cancel"
  BY <1>1, <1>5 DEF Outgoing
<1> HIDE DEF k, pending, room, n
<1>9. c(p) \in Seq(Outgoing) /\ Len(c(p)) = n
  BY <1>7, <1>8
<1> HIDE DEF c
<1>10. /\ out[k] \o c(p) \in Seq(Outgoing) /\ Len(out[k] \o c(p)) = Len(out[k]) + n
       /\ \A x \in 1..Len(out[k]) : (out[k] \o c(p))[x] = out[k][x]
       /\ \A x \in Len(out[k]) + 1..Len(out[k]) + n : (out[k] \o c(p))[x] = c(p)[x - Len(out[k])]
  BY <1>6, <1>7, <1>9, SMTT(30)
<1>11. /\ out' \in [Procs -> Seq(Outgoing)] /\ out'[k] = out[k] \o c(p)
       /\ \A m \in Procs \ {k} : out'[m] = out[m]
  BY <1>1, <1>4, <1>10 DEF Typed, QueuesTyped
<1>12. \A x \in Len(out[k]) + 1..Len(out[k]) + n : out'[k][x].kind = "cancel"
  <2> SUFFICES ASSUME NEW x \in Len(out[k]) + 1..Len(out[k]) + n PROVE out'[k][x].kind = "cancel"
    OBVIOUS
  <2>1. x - Len(out[k]) \in 1..n
    BY <1>6, <1>7
  <2> QED BY <1>8, <1>10, <1>11, <2>1
<1>13. Len(out'[k]) = Len(out[k]) + n /\ Len(out'[k]) >= Len(out[k]) /\ Len(out'[k]) <= SendBuffer
  BY <1>4, <1>6, <1>7, <1>10, <1>11
<1>14. \A x \in 1..Len(out'[k]) :
          IF x <= Len(out[k]) THEN out'[k][x] = out[k][x] ELSE out'[k][x].kind = "cancel"
  BY <1>6, <1>7, <1>10, <1>11, <1>12, <1>13
<1> QED BY <1>4, <1>11, <1>13, <1>14 DEF CancelsQueued

\* The frame the pump writes next.
LEMMA ReceiveFacts ==
    ASSUME Typed, NEW i \in Procs, Receive(i)
    PROVE  /\ out' \in [Procs -> Seq(Outgoing)] /\ \A k \in Procs \ {i} : out'[k] = out[k]
           /\ Len(out[i]) >= 1 /\ Len(out'[i]) = Len(out[i]) - 1
           /\ \A n \in 1..Len(out'[i]) : n + 1 \in 1..Len(out[i]) /\ out'[i][n] = out[i][n + 1]
           /\ Head(out[i]) = out[i][1] /\ out[i][1] \in Outgoing
<1>1. out[i] \in Seq(Outgoing) /\ out[i] # <<>> /\ out' = [out EXCEPT ![i] = Tail(out[i])]
  BY QueueShape DEF Receive
<1>2. /\ Tail(out[i]) \in Seq(Outgoing) /\ Len(out[i]) >= 1 /\ Len(Tail(out[i])) = Len(out[i]) - 1
      /\ \A n \in 1..Len(Tail(out[i])) : n + 1 \in 1..Len(out[i]) /\ Tail(out[i])[n] = out[i][n + 1]
      /\ Head(out[i]) = out[i][1] /\ out[i][1] \in Outgoing
  BY <1>1
<1>3. /\ out' \in [Procs -> Seq(Outgoing)] /\ \A k \in Procs \ {i} : out'[k] = out[k]
      /\ out'[i] = Tail(out[i])
  BY <1>1, <1>2 DEF Typed, QueuesTyped
<1> QED BY <1>2, <1>3

\* The assignment DispatchAssignment queues.
LEMMA QueueAssignFacts ==
    ASSUME Typed, NEW i \in Procs, NEW j \in Jobs, Len(out[i]) < SendBuffer,
           out' = Queued(i, [kind |-> "assign", job |-> j, serial |-> serial[j]])
    PROVE  /\ out' \in [Procs -> Seq(Outgoing)] /\ \A k \in Procs \ {i} : out'[k] = out[k]
           /\ Len(out'[i]) = Len(out[i]) + 1 /\ Len(out'[i]) <= SendBuffer
           /\ \A n \in 1..Len(out[i]) : out'[i][n] = out[i][n]
           /\ out'[i][Len(out[i]) + 1] = [kind |-> "assign", job |-> j, serial |-> serial[j]]
<1> DEFINE f == [kind |-> "assign", job |-> j, serial |-> serial[j]]
<1>1. f \in Outgoing
  BY DEF Outgoing, Typed, RowsTyped
<1>2. out' = [out EXCEPT ![i] = Append(out[i], f)]
  BY DEF Queued
<1> HIDE DEF f
<1>3. out[i] \in Seq(Outgoing) /\ Len(out[i]) \in Nat /\ SendBuffer \in Nat
  BY QueueShape, SessionAssumption
<1>4. /\ Append(out[i], f) \in Seq(Outgoing) /\ Len(Append(out[i], f)) = Len(out[i]) + 1
      /\ \A n \in 1..Len(out[i]) : Append(out[i], f)[n] = out[i][n]
      /\ Append(out[i], f)[Len(out[i]) + 1] = f
  BY <1>1, <1>3
<1>5. /\ out' \in [Procs -> Seq(Outgoing)] /\ \A k \in Procs \ {i} : out'[k] = out[k]
      /\ out'[i] = Append(out[i], f)
  BY <1>2, <1>4 DEF Typed, QueuesTyped
<1> QED BY <1>3, <1>4, <1>5 DEF f

\* Queues stay well typed and bounded.
LEMMA QueuesStayTyped ==
    ASSUME SessionInv, Next
    PROVE  QueuesTyped'
<1>0. Typed /\ StoreAgrees /\ QueuesTyped /\ SendBuffer \in Nat
  BY SessionAssumption DEF SessionInv, Typed
<1>1. UNCHANGED out => QueuesTyped'
  BY <1>0 DEF QueuesTyped
<1>2. ASSUME NEW k \in Procs, CancelsQueued(k) PROVE QueuesTyped'
  BY <1>0, <1>2 DEF CancelsQueued, QueuesTyped
<1>3. ASSUME NEW i \in Procs, ReplayCancels(i) PROVE QueuesTyped'
  BY <1>0, <1>1, <1>2, <1>3, ReplayFacts
<1>4. ASSUME NEW c \in frames, SendCancel(c) PROVE QueuesTyped'
  BY <1>0, <1>1, <1>2, <1>4, SendCancelFacts
<1>5. ASSUME NEW i \in Procs, Receive(i) PROVE QueuesTyped'
  <2>1. /\ out' \in [Procs -> Seq(Outgoing)] /\ \A k \in Procs \ {i} : out'[k] = out[k]
        /\ Len(out'[i]) = Len(out[i]) - 1
    BY <1>0, <1>5, ReceiveFacts
  <2>2. \A k \in Procs : Len(out[k]) \in Nat /\ Len(out[k]) <= SendBuffer
    BY <1>0, QueueShape
  <2>3. \A k \in Procs : Len(out'[k]) <= SendBuffer
    BY <1>0, <2>1, <2>2
  <2> QED BY <2>1, <2>3 DEF QueuesTyped
<1>6. CASE DispatchAssignment
  <2> DEFINE i == latest[claim.agent]
             j == claim.job
  <2>1. \/ UNCHANGED out
        \/ /\ i \in Procs /\ j \in Jobs /\ Len(out[i]) < SendBuffer
           /\ out' = Queued(i, [kind |-> "assign", job |-> j, serial |-> serial[j]])
    BY <1>0, <1>6, DispatchFacts
  <2> HIDE DEF i, j
  <2>2. CASE UNCHANGED out
    BY <1>1, <2>2
  <2>3. CASE /\ i \in Procs /\ j \in Jobs /\ Len(out[i]) < SendBuffer
             /\ out' = Queued(i, [kind |-> "assign", job |-> j, serial |-> serial[j]])
    <3>1. /\ out' \in [Procs -> Seq(Outgoing)] /\ \A k \in Procs \ {i} : out'[k] = out[k]
          /\ Len(out'[i]) <= SendBuffer
      BY <1>0, <2>3, QueueAssignFacts
    <3> QED BY <1>0, <3>1 DEF QueuesTyped
  <2> QED BY <2>1, <2>2, <2>3
<1>7. CASE ServerCrash
  <2>1. out' = [k \in Procs |-> <<>>]
    BY <1>7 DEF ServerCrash
  <2> QED BY <1>0, <2>1 DEF QueuesTyped
<1>8. ASSUME NEW i \in Procs,
             \/ MarkReady(i) \/ StreamEnds(i) \/ Exit(i) \/ HandleResult(i)
             \/ \E x \in work[i], kind \in {"done", "disrupted"} : FinishWork(i, x, kind)
      PROVE  UNCHANGED out
  BY <1>8 DEF MarkReady, StreamEnds, Exit, HandleResult, ReceiveResult, RecheckRevoked, CommitResult,
     ReleaseSlot, FinishWork, server
<1> QED BY <1>1, <1>3, <1>4, <1>5, <1>6, <1>7, <1>8, WhoMovesCopies

-----------------------------------------------------------------------------
(* Processes and handlers                                                  *)

\* What a process holds and what is under way from it.
LEMMA ProcessShape ==
    ASSUME Typed, NEW i \in Procs
    PROVE  /\ work[i] \subseteq Works /\ inbox[i] \subseteq Results
           /\ handler[i] \in {None} \cup Handling
           /\ work \in [Procs -> SUBSET Works] /\ inbox \in [Procs -> SUBSET Results]
           /\ handler \in [Procs -> {None} \cup Handling]
BY DEF Typed, ProcessesTyped

\* A result is written for each job that a cancel frame stops.
CanceledResults(X) == {[job |-> x.job, serial |-> x.serial, kind |-> "canceled"] : x \in X}

\* What the process does with the frame.
LEMMA ReceiveEffects ==
    ASSUME Typed, NEW i \in Procs, Receive(i)
    PROVE  LET f == out[i][1]
               runs == {x \in work[i] : x.job = f.job}
           IN /\ work' \in [Procs -> SUBSET Works] /\ inbox' \in [Procs -> SUBSET Results]
              /\ \A k \in Procs \ {i} : work'[k] = work[k] /\ inbox'[k] = inbox[k]
              /\ UNCHANGED handler
              /\ \/ /\ f.kind = "assign" /\ inbox'[i] = inbox[i]
                    /\ \/ work'[i] = work[i]
                       \/ work'[i] = work[i] \cup {[job |-> f.job, serial |-> f.serial]}
                 \/ /\ f.kind # "assign" /\ work'[i] = work[i] \ runs
                    /\ inbox'[i] = inbox[i] \cup CanceledResults(runs)
<1> DEFINE f == out[i][1]
           runs == {x \in work[i] : x.job = f.job}
<1>1. f = Head(out[i]) /\ f \in Outgoing
  BY ReceiveFacts
<1>2. [job |-> f.job, serial |-> f.serial] \in Works /\ CanceledResults(runs) \subseteq Results
  BY <1>1, ProcessShape DEF Works, Outgoing, Results, CanceledResults, Kinds
<1>3. CASE f.kind = "assign" /\ UNCHANGED <<inbox, handler, work>>
  BY <1>3, ProcessShape
<1>4. CASE /\ f.kind = "assign" /\ UNCHANGED <<inbox, handler>>
           /\ work' = [work EXCEPT ![i] = @ \cup {[job |-> f.job, serial |-> f.serial]}]
  <2> HIDE DEF f
  <2> QED BY <1>2, <1>4, ProcessShape DEF f
<1>5. CASE /\ f.kind # "assign" /\ UNCHANGED handler
           /\ work' = [work EXCEPT ![i] = @ \ runs]
           /\ inbox' = [inbox EXCEPT ![i] = @ \cup CanceledResults(runs)]
  <2>1. work[i] \ runs \subseteq Works /\ inbox[i] \cup CanceledResults(runs) \subseteq Results
    BY <1>2, ProcessShape
  <2> HIDE DEF runs, f
  <2>2. work' \in [Procs -> SUBSET Works] /\ inbox' \in [Procs -> SUBSET Results]
    BY <1>5, <2>1, ProcessShape
  <2>3. /\ \A k \in Procs \ {i} : work'[k] = work[k] /\ inbox'[k] = inbox[k]
        /\ work'[i] = work[i] \ runs /\ inbox'[i] = inbox[i] \cup CanceledResults(runs)
    BY <1>5, ProcessShape
  <2> QED BY <1>5, <2>2, <2>3 DEF runs, f
<1> QED BY <1>1, <1>3, <1>4, <1>5 DEF Receive, CanceledResults

\* A job that ends leaves a result on the stream.
LEMMA FinishEffects ==
    ASSUME Typed, NEW i \in Procs, NEW x \in work[i], NEW kind \in {"done", "disrupted"},
           FinishWork(i, x, kind)
    PROVE  /\ work' \in [Procs -> SUBSET Works] /\ inbox' \in [Procs -> SUBSET Results]
           /\ \A k \in Procs \ {i} : work'[k] = work[k] /\ inbox'[k] = inbox[k]
           /\ UNCHANGED <<out, handler>> /\ x \in Works
           /\ work'[i] = work[i] \ {x}
           /\ inbox'[i] = inbox[i] \cup {[job |-> x.job, serial |-> x.serial, kind |-> kind]}
<1> DEFINE f == [job |-> x.job, serial |-> x.serial, kind |-> kind]
<1>1. x \in Works /\ f \in Results
  BY ProcessShape DEF Works, Results, Kinds
<1>2. work' = [work EXCEPT ![i] = @ \ {x}] /\ inbox' = [inbox EXCEPT ![i] = @ \cup {f}]
  BY DEF FinishWork
<1>3. UNCHANGED <<out, handler>>
  BY DEF FinishWork, server
<1> HIDE DEF f
<1>4. work' \in [Procs -> SUBSET Works] /\ inbox' \in [Procs -> SUBSET Results]
  BY <1>1, <1>2, ProcessShape
<1>5. /\ \A k \in Procs \ {i} : work'[k] = work[k] /\ inbox'[k] = inbox[k]
      /\ work'[i] = work[i] \ {x} /\ inbox'[i] = inbox[i] \cup {f}
  BY <1>2, ProcessShape
<1> QED BY <1>1, <1>3, <1>4, <1>5 DEF f

\* handleJobResult takes a result off the stream.
LEMMA ResultEffects ==
    ASSUME Typed, NEW i \in Procs, NEW f \in inbox[i], ReceiveResult(i, f)
    PROVE  LET h == [job |-> f.job, serial |-> f.serial, kind |-> f.kind,
                     attempt |-> sess[i].assigned[f.job], step |-> "reconcile"]
           IN /\ inbox' \in [Procs -> SUBSET Results] /\ handler' \in [Procs -> {None} \cup Handling]
              /\ \A k \in Procs \ {i} : inbox'[k] = inbox[k] /\ handler'[k] = handler[k]
              /\ UNCHANGED <<out, work, sess>> /\ f \in Results /\ handler[i] = None
              /\ inbox'[i] = inbox[i] \ {f}
              /\ handler'[i] = None \/ (handler'[i] = h /\ h \in Handling)
<1> DEFINE h == [job |-> f.job, serial |-> f.serial, kind |-> f.kind,
                 attempt |-> sess[i].assigned[f.job], step |-> "reconcile"]
<1>1. f \in Results /\ inbox' = [inbox EXCEPT ![i] = @ \ {f}] /\ handler[i] = None
      /\ UNCHANGED <<out, work, sess>>
  BY ProcessShape DEF ReceiveResult
<1>2. UNCHANGED handler \/ (sess[i].assigned[f.job] # None /\ handler' = [handler EXCEPT ![i] = h])
  BY DEF ReceiveResult
<1>3. sess[i].assigned[f.job] \in Nat \cup {None}
  BY <1>1, SessionShape DEF Typed, Results
<1>4. sess[i].assigned[f.job] # None => h \in Handling
  BY <1>1, <1>3 DEF Handling, Results
<1> HIDE DEF h
<1>5. inbox' \in [Procs -> SUBSET Results] /\ handler' \in [Procs -> {None} \cup Handling]
  BY <1>1, <1>2, <1>4, ProcessShape
<1>6. /\ \A k \in Procs \ {i} : inbox'[k] = inbox[k] /\ handler'[k] = handler[k]
      /\ inbox'[i] = inbox[i] \ {f}
      /\ handler'[i] = None \/ (handler'[i] = h /\ h \in Handling)
  BY <1>1, <1>2, <1>4, ProcessShape
<1> QED BY <1>1, <1>5, <1>6 DEF h

\* The handler moves on with its result, or is done with it.
LEMMA HandlerEffects ==
    ASSUME Typed, NEW i \in Procs, RecheckRevoked(i) \/ CommitResult(i) \/ ReleaseSlot(i)
    PROVE  /\ handler' \in [Procs -> {None} \cup Handling]
           /\ \A k \in Procs \ {i} : handler'[k] = handler[k]
           /\ UNCHANGED <<out, work, inbox>>
           /\ \/ handler'[i] = None
              \/ /\ handler[i] \in Handling /\ handler'[i] \in Handling
                 /\ handler'[i].job = handler[i].job /\ handler'[i].serial = handler[i].serial
                 /\ handler'[i].attempt = handler[i].attempt
<1> DEFINE h == handler[i]
           w(st) == [h EXCEPT !.step = st]
<1>0. UNCHANGED <<out, work, inbox>> /\ h \in Handling
  BY ProcessShape DEF RecheckRevoked, CommitResult, ReleaseSlot, process
<1>1. \/ handler' = [handler EXCEPT ![i] = None]
      \/ \E st \in {"write", "release"} : handler' = [handler EXCEPT ![i] = w(st)]
  BY DEF RecheckRevoked, CommitResult, ReleaseSlot
<1>2. \A st \in {"write", "release"} :
         /\ w(st) \in Handling /\ w(st).job = h.job /\ w(st).serial = h.serial
         /\ w(st).attempt = h.attempt
  BY <1>0 DEF Handling
<1> HIDE DEF w
<1> QED BY <1>0, <1>1, <1>2, ProcessShape

\* The steps that start or end a process.
LEMMA WhoEndsProcesses ==
    ASSUME Next
    PROVE  \/ UNCHANGED <<alive, quits>>
           \/ \E i \in Procs : RevokeForAgent(i) \/ ClaimConnect(i) \/ MarkReady(i) \/ Exit(i) \/ Quit(i)
           \/ ServerCrash
<1>1. ASSUME NEW i \in Procs, Register(i) PROVE UNCHANGED <<alive, quits>> \/ RevokeForAgent(i)
  BY <1>1 DEF Register, process, ListRunningJobsForAgent, ReclaimAgentJob, MarkAgentOnline,
     CreateSession, ReplayCancels
<1>2. ASSUME NEW i \in Procs, Connect(i)
      PROVE  UNCHANGED <<alive, quits>> \/ ClaimConnect(i) \/ MarkReady(i)
  BY <1>2 DEF Connect, process, StreamEnds, CheckSuperseded, MarkAgentOffline
<1>3. ASSUME NEW i \in Procs, HandleResult(i) PROVE UNCHANGED <<alive, quits>>
  BY <1>3 DEF HandleResult, process, ReceiveResult, RecheckRevoked, CommitResult, ReleaseSlot
<1>4. ASSUME NEW i \in Procs,
             \/ Receive(i) \/ ReceiveDraining(i) \/ Heartbeat(i)
             \/ \E x \in work[i], kind \in {"done", "disrupted"} : FinishWork(i, x, kind)
      PROVE  UNCHANGED <<alive, quits>>
  BY <1>4 DEF Receive, ReceiveDraining, Heartbeat, FinishWork, process
<1>5. Sweep \/ Dispatch => UNCHANGED <<alive, quits>>
  BY DEF Sweep, Dispatch, process, ReclaimPendingCancel, ListStaleRunningJobs, ReclaimStaleJob,
     FenceStaleSession, DispatchAssignment, UnassignJob
<1>6. ASSUME \/ \E a \in Agents : Expire(a)
             \/ \E j \in Jobs, a \in Agents : AssignJob(j, a)
             \/ \E j \in Jobs : CancelJobRun(j) \/ RerunJob(j)
             \/ \E c \in frames : SendCancel(c)
      PROVE  UNCHANGED <<alive, quits>>
  BY <1>6 DEF Expire, AssignJob, CancelJobRun, RerunJob, SendCancel, process
<1> QED BY <1>1, <1>2, <1>3, <1>4, <1>5, <1>6 DEF Next

\* A process that ends takes its jobs with it; other steps of Connect leave
\* them alone.
LEMMA EndEffects ==
    ASSUME Typed, NEW i \in Procs, MarkReady(i) \/ Exit(i)
    PROVE  /\ work' \in [Procs -> SUBSET Works] /\ UNCHANGED <<out, inbox, handler>>
           /\ \A k \in Procs : work'[k] \subseteq work[k]
<1>1. UNCHANGED work \/ work' = [work EXCEPT ![i] = {}]
  BY DEF MarkReady, Exit
<1>2. UNCHANGED <<out, inbox, handler>>
  BY DEF MarkReady, Exit, server
<1> QED BY <1>1, <1>2, ProcessShape

\* Processes stay well typed.
LEMMA ProcessesStayTyped ==
    ASSUME SessionInv, Next
    PROVE  ProcessesTyped'
<1>0. Typed /\ alive \in [Procs -> BOOLEAN] /\ quits \in [Procs -> BOOLEAN]
  BY DEF SessionInv, Typed, ProcessesTyped
<1>1. alive' \in [Procs -> BOOLEAN] /\ quits' \in [Procs -> BOOLEAN]
  <2>1. ASSUME NEW i \in Procs, RevokeForAgent(i) \/ ClaimConnect(i) \/ MarkReady(i) \/ Exit(i)
        PROVE  alive' \in [Procs -> BOOLEAN] /\ quits' \in [Procs -> BOOLEAN]
    <3>1. /\ \/ UNCHANGED alive
             \/ \E b \in BOOLEAN : alive' = [alive EXCEPT ![i] = b]
          /\ UNCHANGED quits
      BY <2>1 DEF RevokeForAgent, ClaimConnect, MarkReady, Exit
    <3> QED BY <1>0, <3>1
  <2>2. ASSUME NEW i \in Procs, Quit(i)
        PROVE  alive' \in [Procs -> BOOLEAN] /\ quits' \in [Procs -> BOOLEAN]
    BY <1>0, <2>2 DEF Quit
  <2>3. ServerCrash => alive' \in [Procs -> BOOLEAN] /\ UNCHANGED quits
    BY DEF ServerCrash
  <2> QED BY <1>0, <2>1, <2>2, <2>3, WhoEndsProcesses
<1> DEFINE Ok == /\ work' \in [Procs -> SUBSET Works] /\ inbox' \in [Procs -> SUBSET Results]
                 /\ handler' \in [Procs -> {None} \cup Handling]
<1>2. /\ work \in [Procs -> SUBSET Works] /\ inbox \in [Procs -> SUBSET Results]
      /\ handler \in [Procs -> {None} \cup Handling]
  BY <1>0 DEF Typed, ProcessesTyped
<1>3. Ok
  <2>1. UNCHANGED <<work, inbox, handler>> => Ok
    BY <1>2
  <2>2. ASSUME NEW i \in Procs, ReplayCancels(i) PROVE UNCHANGED <<work, inbox, handler>>
    BY <2>2 DEF ReplayCancels, process
  <2>3. ASSUME NEW i \in Procs, MarkReady(i) \/ Exit(i) PROVE Ok
    BY <1>0, <1>2, <2>3, EndEffects
  <2>4. ASSUME NEW i \in Procs, StreamEnds(i) PROVE Ok
    BY <1>2, <2>4 DEF StreamEnds
  <2>5. ASSUME NEW i \in Procs, Receive(i) PROVE Ok
    <3>1. /\ work' \in [Procs -> SUBSET Works] /\ inbox' \in [Procs -> SUBSET Results]
          /\ UNCHANGED handler
      BY <1>0, <2>5, ReceiveEffects
    <3> QED BY <1>2, <3>1
  <2>6. ASSUME NEW i \in Procs, NEW x \in work[i], NEW kind \in {"done", "disrupted"},
               FinishWork(i, x, kind)
        PROVE  Ok
    BY <1>0, <1>2, <2>6, FinishEffects
  <2>7. ASSUME NEW i \in Procs, NEW f \in inbox[i], ReceiveResult(i, f) PROVE Ok
    BY <1>0, <1>2, <2>7, ResultEffects
  <2>8. ASSUME NEW i \in Procs, RecheckRevoked(i) \/ CommitResult(i) \/ ReleaseSlot(i) PROVE Ok
    BY <1>0, <1>2, <2>8, HandlerEffects
  <2>9. CASE DispatchAssignment \/ \E c \in frames : SendCancel(c)
    BY <2>1, <2>9 DEF DispatchAssignment, SendCancel, process
  <2>10. CASE ServerCrash
    BY <2>10 DEF ServerCrash
  <2> HIDE DEF Ok
  <2> QED BY <2>1, <2>2, <2>3, <2>4, <2>5, <2>6, <2>7, <2>8, <2>9, <2>10, WhoMovesCopies
          DEF HandleResult
<1> QED BY <1>1, <1>3 DEF ProcessesTyped

-----------------------------------------------------------------------------
(* Requests under way                                                      *)

\* The steps that touch the lists, claims and requests under way.
LEMMA WhoMovesRequests ==
    ASSUME Next
    PROVE  /\ \/ UNCHANGED todo
              \/ \E i \in Procs : \/ ListRunningJobsForAgent(i)
                                  \/ \E s \in todo[i] : ReclaimAgentJob(i, s)
              \/ ServerCrash
           /\ \/ UNCHANGED claim \/ claim' = None
              \/ \E j \in Jobs, a \in Agents : AssignJob(j, a)
           /\ \/ UNCHANGED sweep
              \/ ListStaleRunningJobs
              \/ \E s \in sweep.rows : ReclaimStaleJob(s)
              \/ \E t \in sweep.fence : FenceStaleSession(t)
              \/ ServerCrash
           /\ \/ frames' \subseteq frames
              \/ \E j \in Jobs : CancelJobRun(j)
<1> DEFINE Rest == UNCHANGED <<todo, claim, sweep, frames>>
           Goal == /\ \/ UNCHANGED todo
                      \/ \E i \in Procs : \/ ListRunningJobsForAgent(i)
                                          \/ \E s \in todo[i] : ReclaimAgentJob(i, s)
                      \/ ServerCrash
                   /\ \/ UNCHANGED claim \/ claim' = None
                      \/ \E j \in Jobs, a \in Agents : AssignJob(j, a)
                   /\ \/ UNCHANGED sweep
                      \/ ListStaleRunningJobs
                      \/ \E s \in sweep.rows : ReclaimStaleJob(s)
                      \/ \E t \in sweep.fence : FenceStaleSession(t)
                      \/ ServerCrash
                   /\ \/ frames' \subseteq frames
                      \/ \E j \in Jobs : CancelJobRun(j)
<1>0. Rest => Goal
  OBVIOUS
<1>1. ASSUME NEW i \in Procs, Register(i) PROVE Goal
  <2>1. CASE ListRunningJobsForAgent(i) \/ \E s \in todo[i] : ReclaimAgentJob(i, s)
    BY <2>1 DEF ListRunningJobsForAgent, ReclaimAgentJob
  <2>2. CASE RevokeForAgent(i) \/ MarkAgentOnline(i) \/ CreateSession(i) \/ ReplayCancels(i)
    BY <2>2 DEF RevokeForAgent, MarkAgentOnline, CreateSession, ReplayCancels
  <2> HIDE DEF Goal
  <2> QED BY <1>1, <2>1, <2>2 DEF Register
<1>2. ASSUME NEW i \in Procs, Connect(i) PROVE Rest
  BY <1>2 DEF Connect, ClaimConnect, MarkReady, StreamEnds, CheckSuperseded, MarkAgentOffline
<1>3. ASSUME NEW i \in Procs, HandleResult(i) PROVE Rest
  BY <1>3 DEF HandleResult, ReceiveResult, RecheckRevoked, CommitResult, ReleaseSlot
<1>4. ASSUME NEW i \in Procs,
             \/ Receive(i) \/ Quit(i) \/ ReceiveDraining(i) \/ Exit(i) \/ Heartbeat(i)
             \/ \E x \in work[i], kind \in {"done", "disrupted"} : FinishWork(i, x, kind)
      PROVE  Rest
  BY <1>4 DEF Receive, Quit, ReceiveDraining, Exit, Heartbeat, FinishWork, server
<1>5. (\E a \in Agents : Expire(a)) \/ (\E j \in Jobs : RerunJob(j) \/ ReclaimPendingCancel(j)) => Rest
  BY DEF Expire, RerunJob, ReclaimPendingCancel, server
<1>6. ASSUME NEW j \in Jobs, NEW a \in Agents, AssignJob(j, a) PROVE Goal
  BY <1>6 DEF AssignJob
<1>7. Dispatch => Goal
  BY DEF Dispatch, DispatchAssignment, UnassignJob
<1>8. ASSUME \/ ListStaleRunningJobs
             \/ \E s \in sweep.rows : ReclaimStaleJob(s)
             \/ \E t \in sweep.fence : FenceStaleSession(t)
      PROVE  Goal
  <2>1. UNCHANGED <<todo, claim, frames>>
    BY <1>8 DEF ListStaleRunningJobs, ReclaimStaleJob, FenceStaleSession
  <2> QED BY <1>8, <2>1
<1>9. ASSUME NEW j \in Jobs, CancelJobRun(j) PROVE Goal
  BY <1>9 DEF CancelJobRun
<1>10. ASSUME NEW c \in frames, SendCancel(c) PROVE Goal
  BY <1>10 DEF SendCancel
<1>11. ServerCrash => Goal
  BY DEF ServerCrash
<1> HIDE DEF Goal, Rest
<1>12. Goal
  BY <1>0, <1>1, <1>2, <1>3, <1>4, <1>5, <1>6, <1>7, <1>8, <1>9, <1>10, <1>11 DEF Next, Sweep
<1> QED BY <1>12 DEF Goal

\* What is left of the budgets is counted down.
LEMMA BudgetsStayTyped ==
    ASSUME Typed, Next
    PROVE  /\ budget' \in Budgets
           /\ budget'.revive <= budget.revive
<1> DEFINE Goal == budget' \in Budgets /\ budget'.revive <= budget.revive
<1>0. budget \in Budgets
  BY DEF Typed, RequestsTyped
<1>1. UNCHANGED budget => Goal
  BY <1>0 DEF Budgets
<1>2. \/ budget' = [budget EXCEPT !.claim = @ - 1] /\ budget.claim > 0
      \/ budget' = [budget EXCEPT !.cancel = @ - 1] /\ budget.cancel > 0
      \/ budget' = [budget EXCEPT !.rerun = @ - 1] /\ budget.rerun > 0
      \/ budget' = [budget EXCEPT !.revive = @ - 1] /\ budget.revive > 0
      \/ budget' = [budget EXCEPT !.stale = @ - 1] /\ budget.stale > 0
      \/ budget' = [budget EXCEPT !.loss = @ - 1] /\ budget.loss > 0
      => Goal
  BY <1>0 DEF Budgets
<1>3. ASSUME NEW i \in Procs, Register(i) PROVE UNCHANGED budget
  BY <1>3 DEF Register, RevokeForAgent, ListRunningJobsForAgent, ReclaimAgentJob, MarkAgentOnline,
     CreateSession, ReplayCancels
<1>4. ASSUME NEW i \in Procs, Connect(i) PROVE UNCHANGED budget
  BY <1>4 DEF Connect, ClaimConnect, MarkReady, StreamEnds, CheckSuperseded, MarkAgentOffline
<1>5. ASSUME NEW i \in Procs, HandleResult(i) PROVE UNCHANGED budget
  BY <1>5 DEF HandleResult, ReceiveResult, RecheckRevoked, CommitResult, ReleaseSlot
<1>6. ASSUME NEW i \in Procs,
             Receive(i) \/ Quit(i) \/ ReceiveDraining(i) \/ Exit(i) \/ Heartbeat(i)
      PROVE  UNCHANGED budget
  BY <1>6 DEF Receive, Quit, ReceiveDraining, Exit, Heartbeat
<1>7. Sweep \/ Dispatch => UNCHANGED budget
  BY DEF Sweep, Dispatch, ReclaimPendingCancel, ListStaleRunningJobs, ReclaimStaleJob,
     FenceStaleSession, DispatchAssignment, UnassignJob
<1>8. ASSUME NEW j \in Jobs, NEW a \in Agents, AssignJob(j, a) PROVE Goal
  BY <1>2, <1>8 DEF AssignJob
<1>a. ASSUME NEW c \in frames, SendCancel(c) PROVE UNCHANGED budget
  BY <1>a DEF SendCancel
<1>9. ASSUME NEW i \in Procs, NEW x \in work[i], NEW kind, FinishWork(i, x, kind) PROVE Goal
  BY <1>1, <1>2, <1>9 DEF FinishWork
<1>10. ASSUME NEW a \in Agents, Expire(a) PROVE Goal
  BY <1>1, <1>2, <1>10 DEF Expire
<1>11. ASSUME NEW j \in Jobs, CancelJobRun(j) \/ RerunJob(j) PROVE Goal
  BY <1>2, <1>11 DEF CancelJobRun, RerunJob
<1>12. ServerCrash => Goal
  BY <1>2 DEF ServerCrash
<1> HIDE DEF Goal
<1>13. Goal
  BY <1>1, <1>3, <1>4, <1>5, <1>6, <1>7, <1>8, <1>9, <1>10, <1>11, <1>12, <1>a DEF Next
<1> QED BY <1>13 DEF Goal

\* Only a dispatch that is taken for a duplicate is remembered as such.
LEMMA MutedStaysTyped ==
    ASSUME Typed, Next
    PROVE  muted' \in [Jobs -> Nat]
<1>0. muted \in [Jobs -> Nat] /\ serial \in [Jobs -> Nat] /\ claim \in {None} \cup Snapshot
  BY DEF Typed, RequestsTyped, RowsTyped
<1>1. ASSUME NEW i \in Procs, Register(i) PROVE UNCHANGED muted
  BY <1>1 DEF Register, db_rows, RevokeForAgent, ListRunningJobsForAgent, ReclaimAgentJob, Reclaim,
     MarkAgentOnline, CreateSession, ReplayCancels
<1>2. ASSUME NEW i \in Procs, Connect(i) PROVE UNCHANGED muted
  BY <1>2 DEF Connect, db_rows, ClaimConnect, MarkReady, StreamEnds, CheckSuperseded,
     MarkAgentOffline
<1>3. ASSUME NEW i \in Procs, HandleResult(i) PROVE UNCHANGED muted
  BY <1>3 DEF HandleResult, db_rows, ReceiveResult, RecheckRevoked, CommitResult, ReleaseSlot
<1>4. ASSUME NEW i \in Procs,
             \/ Receive(i) \/ Quit(i) \/ ReceiveDraining(i) \/ Exit(i) \/ Heartbeat(i)
             \/ \E x \in work[i], kind \in {"done", "disrupted"} : FinishWork(i, x, kind)
      PROVE  UNCHANGED muted
  BY <1>4 DEF db_rows, Receive, Quit, ReceiveDraining, Exit, Heartbeat, FinishWork
<1>5. Sweep => UNCHANGED muted
  BY DEF Sweep, db_rows, ReclaimPendingCancel, ListStaleRunningJobs, ReclaimStaleJob, Reclaim,
     FenceStaleSession
<1>6. ASSUME NEW j \in Jobs, CancelJobRun(j) \/ RerunJob(j) \/ \E a \in Agents : AssignJob(j, a)
      PROVE  UNCHANGED muted
  BY <1>6 DEF CancelJobRun, RerunJob, AssignJob
<1>7. ASSUME \/ \E a \in Agents : Expire(a)
             \/ \E c \in frames : SendCancel(c)
             \/ ServerCrash \/ UnassignJob
      PROVE  UNCHANGED muted
  BY <1>7 DEF db_rows, Expire, SendCancel, ServerCrash, UnassignJob
<1>8. DispatchAssignment => muted' \in [Jobs -> Nat]
  <2> SUFFICES ASSUME DispatchAssignment PROVE muted' \in [Jobs -> Nat]
    OBVIOUS
  <2>1. claim.job \in Jobs
    BY <1>0 DEF DispatchAssignment, Snapshot
  <2>2. muted' = muted \/ muted' = [muted EXCEPT ![claim.job] = serial[claim.job]]
    BY DEF DispatchAssignment
  <2> QED BY <1>0, <2>1, <2>2
<1> QED BY <1>0, <1>1, <1>2, <1>3, <1>4, <1>5, <1>6, <1>7, <1>8 DEF Next, Dispatch

\* Requests under way stay well typed.
LEMMA RequestsStayTyped ==
    ASSUME SessionInv, Next
    PROVE  RequestsTyped'
<1>0. /\ Typed /\ RowsTyped /\ todo \in [Procs -> SUBSET Snapshot] /\ claim \in {None} \cup Snapshot
      /\ sweep \in [rows : SUBSET Listed, fence : SUBSET [agent : Agents, gen : Nat]]
      /\ frames \subseteq [job : Jobs, agent : Agents] /\ db \in [Agents -> AgentRows]
  BY DEF SessionInv, Typed, RequestsTyped, AgentsTyped
<1>1. todo' \in [Procs -> SUBSET Snapshot]
  <2>1. ASSUME NEW i \in Procs, ListRunningJobsForAgent(i) PROVE todo' \in [Procs -> SUBSET Snapshot]
    <3> DEFINE S == {s \in {[job |-> j, agent |-> AgentOf[i], attempt |-> row[j].attempt] : j \in Jobs} :
                       Reclaimable(s)}
    <3>1. todo' = [todo EXCEPT ![i] = S]
      BY <2>1 DEF ListRunningJobsForAgent
    <3>2. S \subseteq Snapshot
      BY <1>0, RowShape, SessionAssumption DEF Snapshot
    <3> HIDE DEF S
    <3> QED BY <1>0, <3>1, <3>2
  <2>2. ASSUME NEW i \in Procs, NEW s \in todo[i], ReclaimAgentJob(i, s)
        PROVE  todo' \in [Procs -> SUBSET Snapshot]
    BY <1>0, <2>2 DEF ReclaimAgentJob
  <2>3. ServerCrash => todo' \in [Procs -> SUBSET Snapshot]
    BY DEF ServerCrash
  <2> QED BY <1>0, <2>1, <2>2, <2>3, WhoMovesRequests
<1>2. claim' \in {None} \cup Snapshot
  <2>1. ASSUME NEW j \in Jobs, NEW a \in Agents, AssignJob(j, a) PROVE claim' \in Snapshot
    BY <1>0, <2>1, RowShape DEF AssignJob, Snapshot
  <2> QED BY <1>0, <2>1, WhoMovesRequests
<1>3. sweep' \in [rows : SUBSET Listed, fence : SUBSET [agent : Agents, gen : Nat]]
  <2>1. CASE ListStaleRunningJobs
    <3> DEFINE found == {j \in Jobs : row[j].status = "running" /\ ~row[j].stamp /\ Stale(row[j].agent)}
               R == {[job |-> j, agent |-> row[j].agent, attempt |-> row[j].attempt,
                      gen |-> db[row[j].agent].gen] : j \in found}
    <3>1. sweep' = [sweep EXCEPT !.rows = R]
      BY <2>1 DEF ListStaleRunningJobs
    <3>2. ASSUME NEW j \in found
          PROVE  [job |-> j, agent |-> row[j].agent, attempt |-> row[j].attempt,
                  gen |-> db[row[j].agent].gen] \in Listed
      <4>1. row[j].agent \in Agents /\ row[j].attempt \in Nat
        BY <1>0, RowShape DEF RowsTyped
      <4>2. db[row[j].agent].gen \in Nat
        BY <1>0, <4>1 DEF AgentRows
      <4> QED BY <4>1, <4>2 DEF Listed
    <3>3. R \in SUBSET Listed
      BY <3>2
    <3> HIDE DEF R
    <3> QED BY <1>0, <3>1, <3>3
  <2>2. ASSUME NEW s \in sweep.rows, ReclaimStaleJob(s)
        PROVE  sweep' \in [rows : SUBSET Listed, fence : SUBSET [agent : Agents, gen : Nat]]
    <3>1. [agent |-> s.agent, gen |-> s.gen] \in [agent : Agents, gen : Nat]
      BY <1>0 DEF Listed
    <3> QED BY <1>0, <2>2, <3>1 DEF ReclaimStaleJob
  <2>3. ASSUME NEW t \in sweep.fence, FenceStaleSession(t)
        PROVE  sweep' \in [rows : SUBSET Listed, fence : SUBSET [agent : Agents, gen : Nat]]
    <3>1. sweep' = [sweep EXCEPT !.fence = sweep.fence \ {t}]
      BY <2>3 DEF FenceStaleSession
    <3> QED BY <1>0, <3>1
  <2>4. CASE ServerCrash
    BY <2>4 DEF ServerCrash
  <2> QED BY <1>0, <2>1, <2>2, <2>3, <2>4, WhoMovesRequests
<1>4. frames' \subseteq [job : Jobs, agent : Agents]
  <2>1. ASSUME NEW j \in Jobs, CancelJobRun(j) PROVE frames' \subseteq [job : Jobs, agent : Agents]
    BY <1>0, <2>1 DEF CancelJobRun, RowsTyped
  <2> QED BY <1>0, <2>1, WhoMovesRequests
<1>5. budget' \in Budgets /\ budget'.revive <= MaxRevivals
  <2>1. /\ budget \in Budgets /\ budget.revive <= MaxRevivals /\ budget' \in Budgets
        /\ budget'.revive <= budget.revive /\ MaxRevivals \in Nat
    BY <1>0, BudgetsStayTyped, SessionAssumption DEF Typed, RequestsTyped
  <2>2. budget.revive \in Nat /\ budget'.revive \in Nat
    BY <2>1 DEF Budgets
  <2> QED BY <2>1, <2>2
<1> QED BY <1>0, <1>1, <1>2, <1>3, <1>4, <1>5, MutedStaysTyped DEF RequestsTyped

\* The type half of the invariant is preserved.
LEMMA TypedStays ==
    ASSUME SessionInv, Next
    PROVE  Typed'
<1>1. Typed
  BY DEF SessionInv
<1> QED BY <1>1, RowsStayTyped, AgentsStayTyped, SessionsStayTyped, QueuesStayTyped,
        ProcessesStayTyped, RequestsStayTyped DEF Typed

-----------------------------------------------------------------------------
(* The store                                                               *)

\* A session leaves the index of the store, stays, or takes its place.
Stays(a) ==
    /\ latest'[a] = latest[a]
    /\ latest[a] # None => pc'[latest[a]] \in Published
                           /\ sess'[latest[a]].revoked = sess[latest[a]].revoked
LatestMoves == \A a \in Agents : latest'[a] = None \/ Stays(a)

\* What the store says of the session of an agent.
LEMMA StoreShape ==
    ASSUME SessionInv, NEW a \in Agents, latest[a] # None
    PROVE  /\ latest[a] \in Procs /\ AgentOf[latest[a]] = a
           /\ pc[latest[a]] \in Published /\ ~sess[latest[a]].revoked
           /\ \A b \in Agents \ {a} : latest[b] # latest[a]
BY DEF SessionInv, Typed, AgentsTyped, StoreAgrees, InStore

\* Only CreateSession puts a session into the store.
LEMMA StoreMoves ==
    ASSUME SessionInv, Next
    PROVE  LatestMoves \/ \E i \in Procs : CreateSession(i)
<1>0. SessionsTyped /\ AgentsTyped /\ Typed /\ pc \in [Procs -> Steps]
  BY DEF SessionInv, Typed, SessionsTyped
<1>1. UNCHANGED <<latest, sess, pc>> => LatestMoves
  BY StoreShape DEF LatestMoves, Stays
<1>2. ASSUME NEW i \in Procs, NEW st, pc' = [pc EXCEPT ![i] = st],
             \A a \in Agents : latest[a] = i => st \in Published,
             \A a \in Agents : \/ latest'[a] = None
                               \/ latest'[a] = latest[a] /\ sess'[latest[a]].revoked = sess[latest[a]].revoked
      PROVE  LatestMoves
  BY <1>0, <1>2, StoreShape DEF LatestMoves, Stays
<1>3. ASSUME NEW i \in Procs, NEW st, pc' = [pc EXCEPT ![i] = st], UNCHANGED <<latest, sess>>,
             pc[i] \notin Published \/ st \in Published
      PROVE  LatestMoves
  <2>1. \A a \in Agents : latest[a] = i => st \in Published
    BY <1>3, StoreShape, SessionAssumption
  <2>2. \A a \in Agents : latest'[a] = latest[a] /\ sess'[latest[a]].revoked = sess[latest[a]].revoked
    BY <1>3
  <2> QED BY <1>2, <1>3, <2>1, <2>2
<1>4. ASSUME NEW i \in Procs, Register(i), ~CreateSession(i) PROVE LatestMoves
  <2>1. CASE RevokeForAgent(i)
    <3>1. /\ AgentOf[i] \in Agents /\ RevokeCurrent(AgentOf[i], TRUE)
          /\ pc' = [pc EXCEPT ![i] = "revoked"] /\ pc[i] = "new"
      BY <2>1, SessionAssumption DEF RevokeForAgent
    <3>2. /\ latest'[AgentOf[i]] = None /\ \A b \in Agents \ {AgentOf[i]} : latest'[b] = latest[b]
          /\ \A k \in Procs : k # latest[AgentOf[i]] => sess'[k] = sess[k]
      BY <1>0, <3>1, RevokeFacts
    <3>3. \A a \in Agents : latest[a] # i
      BY <3>1, StoreShape, SessionAssumption DEF Published
    <3>4. ASSUME NEW a \in Agents
          PROVE  \/ latest'[a] = None
                 \/ latest'[a] = latest[a] /\ sess'[latest[a]].revoked = sess[latest[a]].revoked
      BY <3>1, <3>2, StoreShape
    <3> QED BY <1>2, <3>1, <3>3, <3>4
  <2>2. CASE ListRunningJobsForAgent(i)
    BY <1>3, <2>2 DEF ListRunningJobsForAgent, Published
  <2>3. CASE \E s \in todo[i] : ReclaimAgentJob(i, s)
    BY <1>1, <2>3 DEF ReclaimAgentJob
  <2>4. CASE MarkAgentOnline(i)
    <3>1. /\ pc' = [pc EXCEPT ![i] = "online"] /\ pc[i] = "reclaiming" /\ UNCHANGED latest
          /\ \A k \in Procs : sess'[k].revoked = sess[k].revoked
      BY <1>0, <2>4, OnlineFacts DEF MarkAgentOnline
    <3>2. \A a \in Agents : latest[a] # i
      BY <3>1, StoreShape, SessionAssumption DEF Published
    <3>3. ASSUME NEW a \in Agents
          PROVE  \/ latest'[a] = None
                 \/ latest'[a] = latest[a] /\ sess'[latest[a]].revoked = sess[latest[a]].revoked
      BY <3>1, StoreShape
    <3> QED BY <1>2, <3>1, <3>2, <3>3
  <2>5. CASE ReplayCancels(i)
    BY <1>3, <2>5 DEF ReplayCancels, Published
  <2> QED BY <1>4, <2>1, <2>2, <2>3, <2>4, <2>5 DEF Register
<1>5. ASSUME NEW i \in Procs, Connect(i) PROVE LatestMoves
  <2>1. CASE ClaimConnect(i)
    <3>1. UNCHANGED <<latest, sess>>
      BY <2>1 DEF ClaimConnect
    <3>2. CASE pc' = [pc EXCEPT ![i] = "connecting"]
      BY <1>3, <3>1, <3>2 DEF Published
    <3>3. CASE pc' = [pc EXCEPT ![i] = "done"] /\ ~(InStore(i) /\ latest[AgentOf[i]] = i)
      <4>1. \A a \in Agents : latest[a] # i
        BY <3>3, StoreShape, SessionAssumption DEF InStore
      <4> QED BY <1>2, <3>1, <3>3, <4>1
    <3> QED BY <2>1, <3>2, <3>3 DEF ClaimConnect
  <2>2. CASE MarkReady(i)
    <3>1. UNCHANGED <<latest, sess>>
      BY <2>2 DEF MarkReady
    <3>2. CASE pc' = [pc EXCEPT ![i] = "ready"]
      BY <1>3, <3>1, <3>2 DEF Published
    <3>3. CASE pc' = [pc EXCEPT ![i] = "done"] /\ ~InStore(i)
      <4>1. \A a \in Agents : latest[a] # i
        BY <3>3, StoreShape, SessionAssumption DEF InStore
      <4> QED BY <1>2, <3>1, <3>3, <4>1
    <3> QED BY <2>2, <3>2, <3>3 DEF MarkReady
  <2>3. CASE StreamEnds(i)
    <3>1. pc' = [pc EXCEPT ![i] = "closing"]
      BY <2>3 DEF StreamEnds
    <3>2. /\ \A b \in Agents : latest'[b] = latest[b] \/ (latest[b] = i /\ latest'[b] = None)
          /\ latest'[AgentOf[i]] # i
          /\ \A k \in Procs \ {i} : sess'[k] = sess[k]
      BY <1>0, <2>3, StreamEndFacts
    <3>3. ASSUME NEW a \in Agents PROVE latest'[a] = None \/ Stays(a)
      <4>1. CASE latest[a] = None
        BY <3>2, <4>1, SessionAssumption
      <4>2. CASE latest[a] # None /\ latest[a] # i
        BY <1>0, <3>1, <3>2, <4>2, StoreShape DEF Stays
      <4>3. CASE latest[a] = i
        <5>1. AgentOf[i] = a
          BY <4>3, StoreShape, SessionAssumption
        <5> QED BY <3>2, <4>3, <5>1
      <4> QED BY <4>1, <4>2, <4>3
    <3> QED BY <3>3 DEF LatestMoves
  <2>4. CASE CheckSuperseded(i) \/ MarkAgentOffline(i)
    BY <1>3, <2>4 DEF CheckSuperseded, MarkAgentOffline, Published
  <2> QED BY <1>5, <2>1, <2>2, <2>3, <2>4 DEF Connect
<1>6. ASSUME NEW i \in Procs, ReceiveDraining(i) PROVE LatestMoves
  <2>1. UNCHANGED <<latest, pc>> /\ \A k \in Procs : sess'[k].revoked = sess[k].revoked
    BY <1>0, <1>6, DrainingFacts DEF ReceiveDraining
  <2> QED BY <2>1, StoreShape DEF LatestMoves, Stays
<1>7. ASSUME NEW i \in Procs, ReleaseSlot(i) PROVE LatestMoves
  <2>1. UNCHANGED <<latest, pc>> /\ \A k \in Procs : sess'[k].revoked = sess[k].revoked
    BY <1>7, ReleaseFacts DEF ReleaseSlot
  <2> QED BY <2>1, StoreShape DEF LatestMoves, Stays
<1>8. CASE DispatchAssignment
  <2>1. UNCHANGED <<latest, pc>> /\ \A k \in Procs : sess'[k].revoked = sess[k].revoked
    <3>1. StoreAgrees
      BY DEF SessionInv
    <3> QED BY <1>0, <1>8, <3>1, DispatchFacts DEF DispatchAssignment
  <2> QED BY <2>1, StoreShape DEF LatestMoves, Stays
<1>9. ASSUME NEW t \in sweep.fence, FenceStaleSession(t) PROVE LatestMoves
  <2>1. UNCHANGED pc /\ (UNCHANGED <<sess, latest>> \/ RevokeCurrent(t.agent, FALSE))
    BY <1>9 DEF FenceStaleSession
  <2>2. CASE UNCHANGED <<sess, latest>>
    BY <1>1, <2>1, <2>2
  <2>3. CASE RevokeCurrent(t.agent, FALSE)
    <3>1. t.agent \in Agents
      BY <1>0 DEF Typed, RequestsTyped
    <3>2. /\ latest'[t.agent] = None /\ \A b \in Agents \ {t.agent} : latest'[b] = latest[b]
          /\ \A k \in Procs : k # latest[t.agent] => sess'[k] = sess[k]
      BY <1>0, <2>3, <3>1, RevokeFacts
    <3> QED BY <2>1, <3>1, <3>2, StoreShape DEF LatestMoves, Stays
  <2> QED BY <2>1, <2>2, <2>3
<1>10. ServerCrash => LatestMoves
  BY DEF ServerCrash, LatestMoves
<1> QED BY <1>1, <1>4, <1>5, <1>6, <1>7, <1>8, <1>9, <1>10, WhoMovesSessions

\* Index and sessions keep agreeing.
LEMMA StoreStays ==
    ASSUME SessionInv, Next
    PROVE  StoreAgrees'
<1>1. CASE LatestMoves
  BY <1>1, StoreShape DEF LatestMoves, Stays, StoreAgrees, InStore
<1>2. ASSUME NEW i \in Procs, CreateSession(i) PROVE StoreAgrees'
  <2> DEFINE a == AgentOf[i]
  <2>0. /\ SessionsTyped /\ AgentsTyped /\ pc \in [Procs -> Steps] /\ a \in Agents /\ i # None
        /\ pc[i] = "online" /\ pc' = [pc EXCEPT ![i] = "published"]
    BY <1>2, SessionAssumption DEF SessionInv, Typed, SessionsTyped, CreateSession
  <2>1. /\ latest'[a] = i /\ \A b \in Agents \ {a} : latest'[b] = latest[b]
        /\ \A k \in Procs : k # latest[a] => sess'[k] = sess[k]
    BY <1>2, <2>0, CreateFacts
  <2>2. \A b \in Agents : latest[b] # i
    BY <2>0, StoreShape DEF Published
  <2>3. ~sess'[i].revoked
    BY <2>0, <2>1, <2>2 DEF SessionInv, FreshIsEmpty, Unpublished
  <2>4. ASSUME NEW b \in Agents, latest'[b] # None
        PROVE  /\ AgentOf[latest'[b]] = b
               /\ pc'[latest'[b]] \in Published /\ ~sess'[latest'[b]].revoked
    <3>1. CASE b = a
      BY <2>0, <2>1, <2>3, <3>1 DEF Published
    <3>2. CASE b # a
      BY <2>0, <2>1, <2>2, <2>4, <3>2, StoreShape
    <3> QED BY <3>1, <3>2
  <2> QED BY <2>4 DEF StoreAgrees, InStore
<1> QED BY <1>1, <1>2, StoreMoves

-----------------------------------------------------------------------------
(* Slots                                                                   *)

\* A session has as many slots taken as assignments, and not too many.
LEMMA SlotsStay ==
    ASSUME SessionInv, Next
    PROVE  SlotsCount'
<1>0. /\ Typed /\ StoreAgrees /\ SlotsCount /\ SessionsTyped /\ Capacity \in Nat
      /\ \A i \in Procs : IsFiniteSet(Held(i))
  BY SessionAssumption, FS_Subset DEF SessionInv, Typed, Held
<1>1. CASE KeepsSlots
  BY <1>0, <1>1 DEF KeepsSlots, SlotsCount, Held
<1>2. CASE DispatchAssignment
  <2>1. PICK i \in Procs, j \in Jobs :
        /\ claim \in Snapshot /\ i = latest[claim.agent] /\ j = claim.job
        /\ \A k \in Procs \ {i} : sess'[k] = sess[k]
        /\ \/ UNCHANGED sess
           \/ /\ sess[i].assigned[j] = None /\ sess'[i].slots = sess[i].slots + 1
              /\ sess'[i].assigned = [sess[i].assigned EXCEPT ![j] = claim.attempt]
    BY <1>0, <1>2, DispatchFacts
  <2>2. CASE UNCHANGED sess
    BY <1>0, <2>2 DEF SlotsCount, Held
  <2>3. CASE /\ sess[i].assigned[j] = None /\ sess'[i].slots = sess[i].slots + 1
             /\ sess'[i].assigned = [sess[i].assigned EXCEPT ![j] = claim.attempt]
    <3>0. claim.attempt # None /\ claim # None /\ i # None
      BY <2>1, <1>2, SessionAssumption DEF Snapshot, DispatchAssignment
    <3>1. sess[i].assigned \in [Jobs -> Nat \cup {None}] /\ sess[i].slots \in Nat
      BY <1>0, <2>1, SessionShape
    <3>2. sess[i].slots < Capacity
      BY <2>1, <3>0 DEF SessionInv, ClaimHasSlot
    <3>3. Held(i)' = Held(i) \cup {j} /\ j \notin Held(i)
      BY <2>1, <2>3, <3>0, <3>1 DEF Held
    <3>4. Cardinality(Held(i)') = Cardinality(Held(i)) + 1
      BY <1>0, <2>1, <3>3, FS_AddElement, ZenonT(40)
    <3>5. \A k \in Procs \ {i} : Held(k)' = Held(k)
      BY <2>1 DEF Held
    <3>6. \A k \in Procs : sess'[k].slots = Cardinality(Held(k)') /\ sess'[k].slots <= Capacity
      BY <1>0, <2>1, <2>3, <3>1, <3>2, <3>4, <3>5 DEF SlotsCount
    <3> QED BY <3>6 DEF SlotsCount
  <2> QED BY <2>1, <2>2, <2>3
<1>3. ASSUME NEW i \in Procs, ReleaseSlot(i) PROVE SlotsCount'
  <2> DEFINE j == handler[i].job
  <2>0. handler[i] # None
    BY <1>3 DEF ReleaseSlot
  <2>1. j \in Held(i) /\ sess[i].slots > 0
    BY <2>0, HandledIsHeld
  <2>2. /\ \A k \in Procs \ {i} : sess'[k] = sess[k] /\ sess'[i].slots = sess[i].slots - 1
        /\ sess'[i].slots = sess[i].slots - 1
        /\ sess'[i].assigned = [sess[i].assigned EXCEPT ![j] = None]
    BY <1>3, ReleaseFacts
  <2>3. sess[i].assigned \in [Jobs -> Nat \cup {None}] /\ sess[i].slots \in Nat
    BY <1>0, SessionShape
  <2> HIDE DEF j
  <2>4. Held(i)' = Held(i) \ {j}
    BY <2>1, <2>2, <2>3 DEF Held
  <2>5. Cardinality(Held(i)') = Cardinality(Held(i)) - 1
    BY <1>0, <2>1, <2>4, FS_RemoveElement
  <2>6. \A k \in Procs \ {i} : Held(k)' = Held(k)
    BY <2>2 DEF Held
  <2>7. \A k \in Procs : sess'[k].slots = Cardinality(Held(k)') /\ sess'[k].slots <= Capacity
    BY <1>0, <2>2, <2>3, <2>5, <2>6 DEF SlotsCount
  <2> QED BY <2>7 DEF SlotsCount
<1> QED BY <1>1, <1>2, <1>3, WhoMovesSlots

\* Nobody goes back before the publication of its session.
LEMMA FreshWasFresh ==
    ASSUME SessionInv, Next, NEW k \in Procs, pc'[k] \in Unpublished
    PROVE  pc[k] \in Unpublished
<1>0. pc \in [Procs -> Steps]
  BY DEF SessionInv, Typed, SessionsTyped
<1>1. ASSUME NEW i \in Procs, Register(i) PROVE pc[k] \in Unpublished
  BY <1>0, <1>1 DEF Register, RevokeForAgent, ListRunningJobsForAgent, ReclaimAgentJob,
     MarkAgentOnline, CreateSession, ReplayCancels, Unpublished
<1>2. ASSUME NEW i \in Procs, Connect(i) PROVE pc[k] \in Unpublished
  <2>1. \E st \in Steps \ Unpublished : pc' = [pc EXCEPT ![i] = st]
    BY <1>2 DEF Connect, ClaimConnect, MarkReady, StreamEnds, CheckSuperseded, MarkAgentOffline,
       Steps, Unpublished
  <2> QED BY <1>0, <2>1
<1>3. ASSUME \/ \E i \in Procs : ReceiveDraining(i) \/ ReleaseSlot(i)
             \/ DispatchAssignment
             \/ \E t \in sweep.fence : FenceStaleSession(t)
      PROVE  UNCHANGED pc
  BY <1>3 DEF ReceiveDraining, ReleaseSlot, DispatchAssignment, FenceStaleSession
<1>4. ServerCrash => pc[k] \in Unpublished
  BY DEF ServerCrash, Unpublished
<1> QED BY <1>1, <1>2, <1>3, <1>4, WhoMovesSessions

\* Only sessions of the store, or whose stream ends, are revoked.
LEMMA RevokedFromStore ==
    ASSUME SessionInv, Next, NEW k \in Procs, pc[k] \in Unpublished
    PROVE  sess'[k].revoked = sess[k].revoked
<1>0. /\ SessionsTyped /\ AgentsTyped /\ Typed /\ StoreAgrees
      /\ \A a \in Agents : latest[a] # k
  BY StoreShape, SessionAssumption DEF SessionInv, Typed, Published, Unpublished
<1>1. ASSUME NEW i \in Procs, Register(i) PROVE sess'[k].revoked = sess[k].revoked
  <2>0. AgentOf[i] \in Agents
    BY SessionAssumption
  <2>1. CASE RevokeForAgent(i)
    <3>1. RevokeCurrent(AgentOf[i], TRUE)
      BY <2>1 DEF RevokeForAgent
    <3> QED BY <1>0, <2>0, <3>1, RevokeFacts
  <2>2. CASE MarkAgentOnline(i)
    BY <1>0, <2>2, OnlineFacts
  <2>3. CASE CreateSession(i)
    BY <1>0, <2>0, <2>3, CreateFacts
  <2>4. CASE \/ ListRunningJobsForAgent(i) \/ ReplayCancels(i)
             \/ \E s \in todo[i] : ReclaimAgentJob(i, s)
    BY <2>4 DEF ListRunningJobsForAgent, ReplayCancels, ReclaimAgentJob
  <2> QED BY <1>1, <2>1, <2>2, <2>3, <2>4 DEF Register
<1>2. ASSUME NEW i \in Procs, Connect(i) PROVE sess'[k].revoked = sess[k].revoked
  <2>1. CASE StreamEnds(i)
    <3>1. k # i
      BY <2>1 DEF StreamEnds, Unpublished
    <3> QED BY <1>0, <2>1, <3>1, StreamEndFacts
  <2>2. CASE ClaimConnect(i) \/ MarkReady(i) \/ CheckSuperseded(i) \/ MarkAgentOffline(i)
    BY <2>2 DEF ClaimConnect, MarkReady, CheckSuperseded, MarkAgentOffline
  <2> QED BY <1>2, <2>1, <2>2 DEF Connect
<1>3. ASSUME NEW i \in Procs, ReceiveDraining(i) PROVE sess'[k].revoked = sess[k].revoked
  BY <1>0, <1>3, DrainingFacts
<1>4. ASSUME NEW i \in Procs, ReleaseSlot(i) PROVE sess'[k].revoked = sess[k].revoked
  BY <1>4, ReleaseFacts
<1>5. CASE DispatchAssignment
  BY <1>0, <1>5, DispatchFacts
<1>6. ASSUME NEW t \in sweep.fence, FenceStaleSession(t) PROVE sess'[k].revoked = sess[k].revoked
  <2>1. t.agent \in Agents
    BY <1>0 DEF Typed, RequestsTyped
  <2>2. UNCHANGED sess \/ RevokeCurrent(t.agent, FALSE)
    BY <1>6 DEF FenceStaleSession
  <2> QED BY <1>0, <2>1, <2>2, RevokeFacts
<1>7. ServerCrash => UNCHANGED sess
  BY DEF ServerCrash
<1> QED BY <1>1, <1>2, <1>3, <1>4, <1>5, <1>6, <1>7, WhoMovesSessions

\* A session that is not published yet stays empty.
LEMMA FreshStays ==
    ASSUME SessionInv, Next
    PROVE  FreshIsEmpty'
<1> SUFFICES ASSUME NEW k \in Procs, pc'[k] \in Unpublished
             PROVE  sess'[k].slots = 0 /\ ~sess'[k].revoked
  BY DEF FreshIsEmpty
<1>1. pc[k] \in Unpublished /\ sess[k].slots = 0 /\ ~sess[k].revoked
  BY FreshWasFresh DEF SessionInv, FreshIsEmpty
<1>2. ~sess'[k].revoked
  BY <1>1, RevokedFromStore
<1>3. CASE KeepsSlots
  BY <1>1, <1>2, <1>3 DEF KeepsSlots
<1>4. CASE DispatchAssignment
  <2>1. /\ claim \in Snapshot /\ latest[claim.agent] \in Procs
        /\ \A i \in Procs \ {latest[claim.agent]} : sess'[i] = sess[i]
    BY <1>4, DispatchFacts DEF SessionInv
  <2>2. claim.agent \in Agents /\ latest[claim.agent] # None
    BY <2>1, SessionAssumption DEF Snapshot
  <2>3. latest[claim.agent] # k
    BY <1>1, <2>2, StoreShape DEF Published, Unpublished
  <2> QED BY <1>1, <1>2, <2>1, <2>3
<1>5. ASSUME NEW i \in Procs, ReleaseSlot(i) PROVE sess'[k].slots = 0
  <2>1. handler[i] # None
    BY <1>5 DEF ReleaseSlot
  <2>2. k # i
    BY <1>1, <2>1, HandledIsHeld
  <2> QED BY <1>1, <1>5, <2>2, ReleaseFacts
<1> QED BY <1>2, <1>3, <1>4, <1>5, WhoMovesSlots

\* The claim's session keeps a slot for it.
LEMMA ClaimStays ==
    ASSUME SessionInv, Next
    PROVE  ClaimHasSlot'
<1>0. /\ Typed /\ StoreAgrees /\ SessionsTyped /\ AgentsTyped /\ Capacity \in Nat /\ Capacity > 0
      /\ claim \in {None} \cup Snapshot
  BY SessionAssumption DEF SessionInv, Typed, RequestsTyped
<1>1. ASSUME NEW j \in Jobs, NEW a \in Agents, AssignJob(j, a) PROVE ClaimHasSlot'
  <2>1. /\ claim' = [job |-> j, agent |-> a, attempt |-> row[j].attempt] /\ Idle(latest[a])
        /\ UNCHANGED <<latest, sess>>
    BY <1>1 DEF AssignJob
  <2>2. claim'.agent = a
    BY <2>1
  <2> QED BY <2>1, <2>2 DEF ClaimHasSlot, Idle
<1>2. CASE claim' = None
  BY <1>2 DEF ClaimHasSlot
<1>3. CASE claim' = claim /\ claim # None
  <2> DEFINE a == claim.agent
  <2>0. a \in Agents
    BY <1>0, <1>3 DEF Snapshot
  <2>1. \A k \in Procs : sess'[k].slots <= sess[k].slots
    <3>0. \A k \in Procs : sess[k].slots \in Nat
      BY <1>0, SessionShape
    <3>1. CASE KeepsSlots
      BY <3>0, <3>1 DEF KeepsSlots
    <3>2. ASSUME NEW i \in Procs, ReleaseSlot(i) PROVE \A k \in Procs : sess'[k].slots <= sess[k].slots
      <4>1. (\A k \in Procs \ {i} : sess'[k] = sess[k]) /\ sess'[i].slots = sess[i].slots - 1
        BY <3>2, ReleaseFacts
      <4>2. \A k \in Procs : sess'[k].slots = sess[k].slots \/ sess'[k].slots = sess[k].slots - 1
        BY <4>1
      <4> QED BY <3>0, <4>2
    <3>3. ~DispatchAssignment
      BY <1>3 DEF DispatchAssignment
    <3> QED BY <3>1, <3>2, <3>3, WhoMovesSlots
  <2>2. CASE LatestMoves
    <3> SUFFICES ASSUME latest'[a] # None PROVE sess'[latest'[a]].slots < Capacity
      BY <1>3 DEF ClaimHasSlot
    <3>1. latest'[a] = latest[a] /\ latest[a] \in Procs /\ sess[latest[a]].slots < Capacity
      BY <1>3, <2>0, <2>2, StoreShape DEF LatestMoves, Stays, SessionInv, ClaimHasSlot
    <3>2. sess'[latest[a]] \in Sessions /\ sess[latest[a]].slots \in Nat
      BY <1>0, <3>1, SessionsStayTyped, SessionShape DEF SessionsTyped
    <3>3. sess'[latest[a]].slots \in Nat
      BY <3>2 DEF Sessions
    <3> HIDE DEF a
    <3> QED BY <1>0, <2>1, <3>1, <3>2, <3>3
  <2>3. ASSUME NEW i \in Procs, CreateSession(i) PROVE ClaimHasSlot'
    <3> SUFFICES ASSUME latest'[a] # None PROVE sess'[latest'[a]].slots < Capacity
      BY <1>3 DEF ClaimHasSlot
    <3>1. Reflags /\ latest'[AgentOf[i]] = i
          /\ \A b \in Agents \ {AgentOf[i]} : latest'[b] = latest[b]
      BY <1>0, <2>3, CreateFacts
    <3>2. sess[i].slots = 0
      BY <2>3 DEF SessionInv, FreshIsEmpty, CreateSession, Unpublished
    <3>3. \A k \in Procs : sess'[k].slots = sess[k].slots
      BY <3>1 DEF Reflags, Reflagged
    <3>4. CASE a = AgentOf[i]
      BY <1>0, <3>1, <3>2, <3>3, <3>4
    <3>5. CASE a # AgentOf[i]
      <4>1. latest'[a] = latest[a] /\ latest[a] \in Procs /\ sess[latest[a]].slots < Capacity
        BY <1>3, <2>0, <3>1, <3>5, StoreShape DEF SessionInv, ClaimHasSlot
      <4> QED BY <3>3, <4>1
    <3> QED BY <3>4, <3>5
  <2> QED BY <2>2, <2>3, StoreMoves
<1> QED BY <1>1, <1>2, <1>3, WhoMovesRequests

\* The handler keeps to the assignment its result is of.
LEMMA HandlerStays ==
    ASSUME SessionInv, Next
    PROVE  HandlerHolds'
<1>0. Typed /\ StoreAgrees /\ HandlerHolds /\ SessionsTyped
  BY DEF SessionInv, Typed
<1>1. \A i \in Procs : sess[i].assigned \in [Jobs -> Nat \cup {None}]
  BY <1>0, SessionShape
<1>2. ASSUME UNCHANGED handler PROVE HandlerHolds'
  <2>1. CASE KeepsSlots
    BY <1>0, <1>2, <2>1 DEF KeepsSlots, HandlerHolds
  <2>2. CASE DispatchAssignment
    <3> DEFINE i == latest[claim.agent]
               j == claim.job
    <3>1. /\ i \in Procs /\ j \in Jobs
          /\ \A k \in Procs \ {i} : sess'[k] = sess[k]
          /\ \/ UNCHANGED sess
             \/ /\ sess[i].assigned[j] = None
                /\ sess'[i].assigned = [sess[i].assigned EXCEPT ![j] = claim.attempt]
      BY <1>0, <2>2, DispatchFacts
    <3> HIDE DEF i, j
    <3>2. ASSUME NEW k \in Procs, handler[k] # None
          PROVE  sess'[k].assigned[handler[k].job] = handler[k].attempt
      <4>1. handler[k].job \in Held(k) /\ sess[k].assigned[handler[k].job] = handler[k].attempt
        BY <1>0, <3>2, HandledIsHeld DEF HandlerHolds
      <4>2. handler[k].job \in Jobs /\ sess[k].assigned[handler[k].job] # None
        BY <4>1 DEF Held
      <4> QED BY <1>1, <3>1, <4>1, <4>2
    <3> QED BY <1>2, <3>2 DEF HandlerHolds
  <2>3. ASSUME NEW i \in Procs, ReleaseSlot(i) PROVE HandlerHolds'
    <3>1. handler[i] # None /\ handler' = [handler EXCEPT ![i] = None] /\ i \in Procs
      BY <2>3 DEF ReleaseSlot
    <3> QED BY <1>0, <1>2, <3>1 DEF Typed, ProcessesTyped
  <2> QED BY <2>1, <2>2, <2>3, WhoMovesSlots
<1>3. ASSUME NEW i \in Procs, NEW f \in inbox[i], ReceiveResult(i, f) PROVE HandlerHolds'
  <2>1. /\ \A k \in Procs \ {i} : handler'[k] = handler[k]
        /\ UNCHANGED sess
        /\ \/ handler'[i] = None
           \/ handler'[i] = [job |-> f.job, serial |-> f.serial, kind |-> f.kind,
                             attempt |-> sess[i].assigned[f.job], step |-> "reconcile"]
    BY <1>0, <1>3, ResultEffects
  <2> QED BY <1>0, <2>1 DEF HandlerHolds
<1>4. ASSUME NEW i \in Procs, RecheckRevoked(i) \/ CommitResult(i) PROVE HandlerHolds'
  <2>1. UNCHANGED sess
    BY <1>4 DEF RecheckRevoked, CommitResult
  <2>2. /\ \A k \in Procs \ {i} : handler'[k] = handler[k]
        /\ \/ handler'[i] = None
           \/ /\ handler[i] # None
              /\ handler'[i].job = handler[i].job /\ handler'[i].attempt = handler[i].attempt
    <3>1. handler[i] # None
      BY <1>4 DEF RecheckRevoked, CommitResult
    <3> QED BY <1>0, <1>4, <3>1, HandlerEffects
  <2> QED BY <1>0, <2>1, <2>2 DEF HandlerHolds
<1>5. ASSUME NEW i \in Procs, ReleaseSlot(i) PROVE HandlerHolds'
  <2>1. \A k \in Procs \ {i} : sess'[k] = sess[k]
    BY <1>5, ReleaseFacts
  <2>2. handler' = [handler EXCEPT ![i] = None]
    BY <1>5 DEF ReleaseSlot
  <2> QED BY <1>0, <2>1, <2>2 DEF HandlerHolds, Typed, ProcessesTyped
<1>6. ServerCrash => HandlerHolds'
  BY DEF ServerCrash, HandlerHolds
<1>7. ASSUME NEW i \in Procs,
             \/ ReplayCancels(i) \/ MarkReady(i) \/ StreamEnds(i) \/ Receive(i) \/ Exit(i)
             \/ \E x \in work[i], kind \in {"done", "disrupted"} : FinishWork(i, x, kind)
      PROVE  UNCHANGED handler
  BY <1>7 DEF ReplayCancels, MarkReady, StreamEnds, Receive, Exit, FinishWork, server
<1>8. DispatchAssignment \/ (\E c \in frames : SendCancel(c)) => UNCHANGED handler
  BY DEF DispatchAssignment, SendCancel
<1> QED BY <1>2, <1>3, <1>4, <1>5, <1>6, <1>7, <1>8, WhoMovesCopies DEF HandleResult

-----------------------------------------------------------------------------
(* The one copy of an assignment                                           *)

\* The copies a session has after a step, part by part.
LEMMA CopiesNext ==
    ASSUME NEW k \in Procs
    PROVE  Copies(k)' = OutCopies(out'[k]) \cup WorkCopies(work'[k]) \cup ResultCopies(inbox'[k])
                        \cup HandlerCopies(handler'[k])
BY DEF Copies, OutCopies, WorkCopies, ResultCopies, HandlerCopies

\* Copies in different places are different.
LEMMA PlacesDiffer ==
    ASSUME Typed, NEW k \in Procs
    PROVE  /\ \A t \in OutCopies(out[k]) : t.at = "out"
           /\ \A t \in WorkCopies(work[k]) : t.at = "work"
           /\ \A t \in ResultCopies(inbox[k]) : t.at \in Kinds
           /\ \A t \in HandlerCopies(handler[k]) : t.at = "handler"
BY ProcessShape DEF OutCopies, WorkCopies, ResultCopies, HandlerCopies, Results

\* Work that leaves the process takes its copy along.
LEMMA LessWork ==
    ASSUME NEW W \in SUBSET Works, NEW x \in W
    PROVE  /\ WorkCopies(W \ {x}) \subseteq
                WorkCopies(W) \ {[at |-> "work", job |-> x.job, serial |-> x.serial]}
           /\ [at |-> "work", job |-> x.job, serial |-> x.serial] \in WorkCopies(W)
<1>1. ASSUME NEW y \in W \ {x}
      PROVE  [at |-> "work", job |-> y.job, serial |-> y.serial]
               # [at |-> "work", job |-> x.job, serial |-> x.serial]
  BY <1>1 DEF Works
<1> QED BY <1>1 DEF WorkCopies

\* A result that is taken off the stream takes its copy along.
LEMMA LessResults ==
    ASSUME NEW F \in SUBSET Results, NEW f \in F
    PROVE  /\ ResultCopies(F \ {f}) \subseteq
                ResultCopies(F) \ {[at |-> f.kind, job |-> f.job, serial |-> f.serial]}
           /\ [at |-> f.kind, job |-> f.job, serial |-> f.serial] \in ResultCopies(F)
<1>1. ASSUME NEW g \in F \ {f}
      PROVE  [at |-> g.kind, job |-> g.job, serial |-> g.serial]
               # [at |-> f.kind, job |-> f.job, serial |-> f.serial]
  BY <1>1 DEF Results
<1> QED BY <1>1 DEF ResultCopies

\* Subsets have fewer copies.
LEMMA CopiesMonotone ==
    ASSUME NEW V, NEW W, V \subseteq W
    PROVE  WorkCopies(V) \subseteq WorkCopies(W) /\ ResultCopies(V) \subseteq ResultCopies(W)
BY DEF WorkCopies, ResultCopies

\* Cancel frames are no copies.
LEMMA CancelsAreNoCopies ==
    ASSUME Typed, NEW k \in Procs, CancelsQueued(k), NEW i \in Procs
    PROVE  /\ OutCopies(out'[i]) \subseteq OutCopies(out[i])
           /\ \A n \in 1..Len(out'[i]) : out'[i][n].kind = "assign" =>
                 n \in 1..Len(out[i]) /\ out'[i][n] = out[i][n]
<1>1. CASE i # k
  BY <1>1 DEF CancelsQueued
<1>2. CASE i = k
  <2>0. Len(out[k]) \in Nat /\ Len(out'[k]) \in Nat
    BY QueueShape DEF CancelsQueued
  <2>1. \A n \in 1..Len(out'[i]) : out'[i][n].kind = "assign" =>
           n \in 1..Len(out[i]) /\ out'[i][n] = out[i][n]
    BY <1>2, <2>0 DEF CancelsQueued
  <2> QED BY <2>1 DEF OutCopies
<1> QED BY <1>1, <1>2

\* What the pump writes leaves the queue, and is not in it twice.
LEMMA PumpedCopies ==
    ASSUME SessionInv, NEW i \in Procs, Receive(i)
    PROVE  LET f == out[i][1]
               t == [at |-> "out", job |-> f.job, serial |-> f.serial]
           IN /\ OutCopies(out'[i]) \subseteq OutCopies(out[i])
              /\ f.kind = "assign" => t \in OutCopies(out[i]) /\ t \notin OutCopies(out'[i])
<1> DEFINE f == out[i][1]
           t == [at |-> "out", job |-> f.job, serial |-> f.serial]
<1>0. /\ Typed /\ Len(out[i]) >= 1 /\ Len(out[i]) \in Nat /\ Len(out'[i]) = Len(out[i]) - 1
      /\ \A n \in 1..Len(out'[i]) : n + 1 \in 1..Len(out[i]) /\ out'[i][n] = out[i][n + 1]
  BY ReceiveFacts, QueueShape DEF SessionInv
<1>1. OutCopies(out'[i]) \subseteq OutCopies(out[i])
  BY <1>0 DEF OutCopies
<1>2. ASSUME f.kind = "assign" PROVE t \in OutCopies(out[i]) /\ t \notin OutCopies(out'[i])
  <2>1. t \in OutCopies(out[i])
    <3>1. 1 \in {m \in 1..Len(out[i]) : out[i][m].kind = "assign"}
      BY <1>0, <1>2
    <3> QED BY <3>1 DEF OutCopies
  <2>2. ASSUME NEW n \in 1..Len(out'[i]), out'[i][n].kind = "assign", out'[i][n].job = f.job
        PROVE  FALSE
    <3>1. /\ n + 1 \in 1..Len(out[i]) /\ 1 \in 1..Len(out[i])
          /\ out[i][n + 1].kind = "assign" /\ out[i][n + 1].job = out[i][1].job
      BY <1>0, <2>2
    <3>2. n + 1 = 1
      BY <1>2, <3>1 DEF SessionInv, QueuedOnce
    <3> QED BY <1>0, <3>2
  <2>3. \A u \in OutCopies(out'[i]) : u.job # f.job
    <3> HIDE DEF f
    <3> QED BY <2>2 DEF OutCopies
  <2>4. t.job = f.job
    OBVIOUS
  <2> HIDE DEF t, f
  <2> QED BY <2>1, <2>3, <2>4
<1> QED BY <1>1, <1>2

\* A copy of session k changes its place.
Moved(k) ==
    \E t \in Copies(k), place \in {"work", "handler"} \cup Kinds :
        Copies(k)' \subseteq (Copies(k) \ {t})
                             \cup {[at |-> place, job |-> t.job, serial |-> t.serial]}

\* A job that ends moves its copy from the process to the stream.
LEMMA WorkToResult ==
    ASSUME Typed, Typed', NEW i \in Procs, NEW x \in work[i], NEW kind \in Kinds,
           OutCopies(out'[i]) \subseteq OutCopies(out[i]), UNCHANGED handler,
           work'[i] = work[i] \ {x},
           inbox'[i] = inbox[i] \cup {[job |-> x.job, serial |-> x.serial, kind |-> kind]}
    PROVE  Moved(i)
<1> DEFINE t == [at |-> "work", job |-> x.job, serial |-> x.serial]
           u == [at |-> kind, job |-> t.job, serial |-> t.serial]
<1>1. WorkCopies(work'[i]) \subseteq WorkCopies(work[i]) \ {t} /\ t \in WorkCopies(work[i])
  BY LessWork, ProcessShape
<1>2. ResultCopies(inbox'[i]) \subseteq ResultCopies(inbox[i]) \cup {u}
  BY DEF ResultCopies
<1>3. t.at = "work" /\ \A k \in Kinds : k # "work"
  BY DEF Kinds
<1>4. t \notin OutCopies(out[i]) /\ t \notin ResultCopies(inbox[i]) /\ t \notin HandlerCopies(handler[i])
  <2> HIDE DEF t, u
  <2> QED BY <1>3, PlacesDiffer
<1>5. handler'[i] = handler[i]
  OBVIOUS
<1> HIDE DEF t
<1>6. Copies(i)' \subseteq (Copies(i) \ {t}) \cup {u} /\ t \in Copies(i)
  <2> HIDE DEF u
  <2> QED BY <1>1, <1>2, <1>4, <1>5, CopiesNext DEF Copies
<1> QED BY <1>6 DEF Moved

\* Copies are dropped or moved, except that DispatchAssignment makes one.
LEMMA CopyMoves ==
    ASSUME SessionInv, Next, ~DispatchAssignment, NEW k \in Procs
    PROVE  Copies(k)' \subseteq Copies(k) \/ Moved(k)
<1> DEFINE Goal == Copies(k)' \subseteq Copies(k) \/ Moved(k)
<1>0. Typed /\ Typed'
  BY TypedStays DEF SessionInv
<1>1. ASSUME /\ OutCopies(out'[k]) \subseteq OutCopies(out[k])
             /\ work'[k] \subseteq work[k] /\ inbox'[k] \subseteq inbox[k]
             /\ HandlerCopies(handler'[k]) \subseteq HandlerCopies(handler[k])
      PROVE  Goal
  <2>1. /\ WorkCopies(work'[k]) \subseteq WorkCopies(work[k])
        /\ ResultCopies(inbox'[k]) \subseteq ResultCopies(inbox[k])
    BY <1>1, CopiesMonotone
  <2> QED BY <1>1, <2>1, CopiesNext DEF Copies
<1>2. UNCHANGED <<out, work, inbox, handler>> => Goal
  BY <1>1
<1>3. ASSUME UNCHANGED <<work, inbox, handler>>, UNCHANGED out \/ \E i \in Procs : CancelsQueued(i)
      PROVE  Goal
  BY <1>0, <1>1, <1>3, CancelsAreNoCopies
<1>4. ASSUME NEW i \in Procs, ReplayCancels(i) PROVE Goal
  <2>1. UNCHANGED <<work, inbox, handler>>
    BY <1>4 DEF ReplayCancels, process
  <2> QED BY <1>0, <1>3, <1>4, <2>1, ReplayFacts
<1>5. ASSUME NEW c \in frames, SendCancel(c) PROVE Goal
  <2>1. UNCHANGED <<work, inbox, handler>>
    BY <1>5 DEF SendCancel, process
  <2> QED BY <1>0, <1>3, <1>5, <2>1, SendCancelFacts
<1>6. ASSUME NEW i \in Procs, MarkReady(i) \/ Exit(i) PROVE Goal
  BY <1>0, <1>1, <1>6, EndEffects
<1>7. ASSUME NEW i \in Procs, StreamEnds(i) PROVE Goal
  <2>1. UNCHANGED <<out, work, handler>> /\ inbox' = [inbox EXCEPT ![i] = {}]
    BY <1>7 DEF StreamEnds
  <2>2. inbox'[k] \subseteq inbox[k]
    BY <1>0, <2>1, ProcessShape
  <2> QED BY <1>1, <2>1, <2>2
<1>8. ASSUME NEW i \in Procs, Receive(i) PROVE Goal
  <2> DEFINE f == out[i][1]
             runs == {x \in work[i] : x.job = f.job}
  <2>1. /\ \A m \in Procs \ {i} : out'[m] = out[m] /\ work'[m] = work[m] /\ inbox'[m] = inbox[m]
        /\ UNCHANGED handler
    BY <1>0, <1>8, ReceiveFacts, ReceiveEffects
  <2>2. CASE k # i
    BY <1>1, <2>1, <2>2
  <2>3. CASE k = i
    <3>1. OutCopies(out'[i]) \subseteq OutCopies(out[i])
      BY <1>8, PumpedCopies
    <3>2. CASE f.kind = "assign"
      <4> DEFINE t == [at |-> "out", job |-> f.job, serial |-> f.serial]
                 u == [at |-> "work", job |-> f.job, serial |-> f.serial]
      <4>1. t \in OutCopies(out[i]) /\ t \notin OutCopies(out'[i])
        BY <1>8, <3>2, PumpedCopies
      <4>2. /\ inbox'[i] = inbox[i]
            /\ work'[i] \subseteq work[i] \cup {[job |-> f.job, serial |-> f.serial]}
        BY <1>0, <1>8, <3>2, ReceiveEffects
      <4>3. WorkCopies(work'[i]) \subseteq WorkCopies(work[i]) \cup {u}
        BY <4>2 DEF WorkCopies
      <4>4. t.at = "out" /\ t.job = f.job /\ t.serial = f.serial
        OBVIOUS
      <4>5. u = [at |-> "work", job |-> t.job, serial |-> t.serial]
        OBVIOUS
      <4> HIDE DEF t, u
      <4>6. /\ t \notin WorkCopies(work[i]) /\ t \notin ResultCopies(inbox[i])
            /\ t \notin HandlerCopies(handler[i])
        BY <1>0, <4>4, PlacesDiffer DEF Kinds
      <4>7. Copies(i)' \subseteq (Copies(i) \ {t}) \cup {u} /\ t \in Copies(i)
        BY <2>1, <3>1, <4>1, <4>2, <4>3, <4>6, CopiesNext DEF Copies
      <4>8. Moved(i)
        BY <4>5, <4>7 DEF Moved
      <4> QED BY <2>3, <4>8
    <3>3. CASE f.kind # "assign"
      <4>1. work'[i] = work[i] \ runs /\ inbox'[i] = inbox[i] \cup CanceledResults(runs)
        BY <1>0, <1>8, <3>3, ReceiveEffects
      <4>2. CASE runs = {}
        <5>1. inbox'[i] = inbox[i] /\ work'[i] = work[i]
          BY <4>1, <4>2 DEF CanceledResults
        <5> QED BY <1>1, <2>1, <2>3, <3>1, <5>1
      <4>3. ASSUME NEW x \in runs PROVE Moved(i)
        <5>1. ASSUME NEW y \in runs PROVE y = x
          <6> DEFINE c(z) == [at |-> "work", job |-> z.job, serial |-> z.serial]
          <6>1. c(x) \in Copies(i) /\ c(y) \in Copies(i) /\ c(x).job = c(y).job
            BY <4>3, <5>1 DEF Copies, WorkCopies
          <6>2. c(x) = c(y)
            <7> HIDE DEF c
            <7> QED BY <6>1 DEF SessionInv, OneCopy
          <6>3. x \in Works /\ y \in Works /\ x.job = y.job /\ x.serial = y.serial
            BY <1>0, <4>3, <5>1, <6>2, ProcessShape
          <6> QED BY <6>3 DEF Works
        <5>2. runs = {x}
          BY <4>3, <5>1
        <5>3. CanceledResults(runs) = {[job |-> x.job, serial |-> x.serial, kind |-> "canceled"]}
          BY <5>2 DEF CanceledResults
        <5>4. /\ x \in work[i] /\ work'[i] = work[i] \ {x} /\ "canceled" \in Kinds
              /\ inbox'[i] = inbox[i] \cup {[job |-> x.job, serial |-> x.serial, kind |-> "canceled"]}
          BY <4>1, <4>3, <5>2, <5>3 DEF Kinds
        <5> HIDE DEF runs, f
        <5> QED BY <1>0, <2>1, <3>1, <5>4, WorkToResult
      <4> QED BY <2>3, <4>2, <4>3
    <3> QED BY <3>2, <3>3
  <2> QED BY <2>2, <2>3
<1>9. ASSUME NEW i \in Procs, NEW x \in work[i], NEW kind \in {"done", "disrupted"},
             FinishWork(i, x, kind)
      PROVE  Goal
  <2>1. /\ \A m \in Procs \ {i} : work'[m] = work[m] /\ inbox'[m] = inbox[m]
        /\ UNCHANGED <<out, handler>> /\ work'[i] = work[i] \ {x}
        /\ inbox'[i] = inbox[i] \cup {[job |-> x.job, serial |-> x.serial, kind |-> kind]}
    BY <1>0, <1>9, FinishEffects
  <2>2. CASE k # i
    BY <1>1, <2>1, <2>2
  <2>3. CASE k = i
    <3>1. kind \in Kinds
      BY DEF Kinds
    <3>2. Moved(i)
      BY <1>0, <2>1, <3>1, WorkToResult
    <3> QED BY <2>3, <3>2
  <2> QED BY <2>2, <2>3
<1>10. ASSUME NEW i \in Procs, NEW f \in inbox[i], ReceiveResult(i, f) PROVE Goal
  <2> DEFINE h == [job |-> f.job, serial |-> f.serial, kind |-> f.kind,
                   attempt |-> sess[i].assigned[f.job], step |-> "reconcile"]
  <2>1. /\ \A m \in Procs \ {i} : inbox'[m] = inbox[m] /\ handler'[m] = handler[m]
        /\ UNCHANGED <<out, work>> /\ f \in Results /\ handler[i] = None
        /\ inbox'[i] = inbox[i] \ {f} /\ inbox[i] \subseteq Results
        /\ handler'[i] = None \/ handler'[i] = h
    BY <1>0, <1>10, ResultEffects, ProcessShape
  <2>2. CASE k # i
    BY <1>1, <2>1, <2>2
  <2>3. CASE k = i
    <3> DEFINE t == [at |-> f.kind, job |-> f.job, serial |-> f.serial]
               u == [at |-> "handler", job |-> f.job, serial |-> f.serial]
    <3>1. /\ ResultCopies(inbox'[i]) \subseteq ResultCopies(inbox[i]) \ {t}
          /\ t \in ResultCopies(inbox[i])
      BY <2>1, LessResults
    <3>2. HandlerCopies(handler'[i]) \subseteq {u}
      BY <2>1 DEF HandlerCopies
    <3>3. t.at \in Kinds
      BY <2>1 DEF Results
    <3>4. u = [at |-> "handler", job |-> t.job, serial |-> t.serial]
      OBVIOUS
    <3> HIDE DEF t, u, h
    <3>5. t \notin OutCopies(out[i]) /\ t \notin WorkCopies(work[i]) /\ t \notin HandlerCopies(handler[i])
      BY <1>0, <3>3, PlacesDiffer DEF Kinds
    <3>6. Copies(i)' \subseteq (Copies(i) \ {t}) \cup {u} /\ t \in Copies(i)
      BY <2>1, <3>1, <3>2, <3>5, CopiesNext DEF Copies
    <3>7. Moved(i)
      BY <3>4, <3>6 DEF Moved
    <3> QED BY <2>3, <3>7
  <2> QED BY <2>2, <2>3
<1>11. ASSUME NEW i \in Procs, RecheckRevoked(i) \/ CommitResult(i) \/ ReleaseSlot(i) PROVE Goal
  <2>1. UNCHANGED <<out, work, inbox>> /\ handler[i] # None
    BY <1>0, <1>11, HandlerEffects DEF RecheckRevoked, CommitResult, ReleaseSlot
  <2>2. /\ \A m \in Procs \ {i} : handler'[m] = handler[m]
        /\ \/ handler'[i] = None
           \/ handler'[i].job = handler[i].job /\ handler'[i].serial = handler[i].serial
    BY <1>0, <1>11, HandlerEffects
  <2>3. HandlerCopies(handler'[k]) \subseteq HandlerCopies(handler[k])
    BY <2>1, <2>2 DEF HandlerCopies
  <2> QED BY <1>1, <2>1, <2>3
<1>12. ASSUME ServerCrash PROVE Goal
  <2>1. out'[k] = <<>> /\ work'[k] = {} /\ inbox'[k] = {} /\ handler'[k] = None
    BY <1>12 DEF ServerCrash
  <2>2. OutCopies(out'[k]) = {} /\ HandlerCopies(handler'[k]) = {}
    BY <2>1 DEF OutCopies, HandlerCopies
  <2> QED BY <1>1, <2>1, <2>2
<1> HIDE DEF Goal
<1>13. Goal
  BY <1>2, <1>4, <1>5, <1>6, <1>7, <1>8, <1>9, <1>10, <1>11, <1>12, WhoMovesCopies DEF HandleResult
<1> QED BY <1>13 DEF Goal

\* The copy DispatchAssignment makes, for a job the session had no copy of.
LEMMA NewCopy ==
    ASSUME SessionInv, DispatchAssignment
    PROVE  \/ UNCHANGED sess /\ UNCHANGED out /\ \A k \in Procs : Copies(k)' = Copies(k)
           \/ \E i \in Procs :
                 LET u == [at |-> "out", job |-> claim.job, serial |-> serial[claim.job]]
                 IN /\ claim.job \in Jobs /\ claim.attempt \in Nat
                    /\ \A k \in Procs \ {i} : Copies(k)' = Copies(k) /\ sess'[k] = sess[k]
                    /\ sess[i].assigned[claim.job] = None
                    /\ sess'[i].assigned = [sess[i].assigned EXCEPT ![claim.job] = claim.attempt]
                    /\ Copies(i)' \subseteq Copies(i) \cup {u}
                    /\ \A t \in Copies(i) : t.job # claim.job
<1>0. Typed /\ StoreAgrees /\ UNCHANGED <<work, inbox, handler>>
  BY DEF SessionInv, DispatchAssignment, process
<1>1. UNCHANGED <<sess, out>> => \A k \in Procs : Copies(k)' = Copies(k)
  BY <1>0, CopiesNext DEF Copies
<1>2. PICK i \in Procs, j \in Jobs :
        /\ j = claim.job /\ claim.attempt \in Nat /\ \A k \in Procs \ {i} : sess'[k] = sess[k]
        /\ \/ UNCHANGED <<sess, out>>
           \/ /\ sess[i].assigned[j] = None /\ Len(out[i]) < SendBuffer
              /\ sess'[i].assigned = [sess[i].assigned EXCEPT ![j] = claim.attempt]
              /\ out' = Queued(i, [kind |-> "assign", job |-> j, serial |-> serial[j]])
  BY <1>0, DispatchFacts DEF Snapshot
<1>3. CASE UNCHANGED <<sess, out>>
  BY <1>1, <1>3
<1>4. CASE /\ sess[i].assigned[j] = None /\ Len(out[i]) < SendBuffer
           /\ sess'[i].assigned = [sess[i].assigned EXCEPT ![j] = claim.attempt]
           /\ out' = Queued(i, [kind |-> "assign", job |-> j, serial |-> serial[j]])
  <2> DEFINE u == [at |-> "out", job |-> j, serial |-> serial[j]]
  <2>1. /\ \A k \in Procs \ {i} : out'[k] = out[k]
        /\ Len(out'[i]) = Len(out[i]) + 1
        /\ \A n \in 1..Len(out[i]) : out'[i][n] = out[i][n]
        /\ out'[i][Len(out[i]) + 1] = [kind |-> "assign", job |-> j, serial |-> serial[j]]
    BY <1>0, <1>4, QueueAssignFacts
  <2>2. \A k \in Procs \ {i} : Copies(k)' = Copies(k)
    BY <1>0, <2>1, CopiesNext DEF Copies
  <2>3. OutCopies(out'[i]) \subseteq OutCopies(out[i]) \cup {u}
    <3>1. Len(out[i]) \in Nat
      BY <1>0, QueueShape
    <3>2. \A n \in 1..Len(out'[i]) : n \in 1..Len(out[i]) \/ n = Len(out[i]) + 1
      BY <2>1, <3>1
    <3> QED BY <2>1, <3>2 DEF OutCopies
  <2>4. Copies(i)' \subseteq Copies(i) \cup {u}
    <3> HIDE DEF u
    <3> QED BY <1>0, <2>3, CopiesNext DEF Copies
  <2>5. \A t \in Copies(i) : t.job # j
    BY <1>4 DEF SessionInv, CopiesHeld
  <2> QED BY <1>2, <1>4, <2>2, <2>4, <2>5
<1> QED BY <1>2, <1>3, <1>4

\* The queue has no two assignments of a job.
LEMMA QueuedOnceStays ==
    ASSUME SessionInv, Next
    PROVE  QueuedOnce'
<1> DEFINE Dup(q, n, m) == q[n].kind = "assign" /\ q[m].kind = "assign" /\ q[n].job = q[m].job
<1>0. /\ Typed /\ StoreAgrees
      /\ \A k \in Procs : \A n, m \in 1..Len(out[k]) : Dup(out[k], n, m) => n = m
  BY DEF SessionInv, QueuedOnce
<1>1. (\A k \in Procs : \A n, m \in 1..Len(out'[k]) : Dup(out'[k], n, m) => n = m) => QueuedOnce'
  BY DEF QueuedOnce
<1>2. UNCHANGED out => QueuedOnce'
  BY <1>0, <1>1
<1>3. ASSUME NEW i \in Procs, CancelsQueued(i) PROVE QueuedOnce'
  BY <1>0, <1>1, <1>3, CancelsAreNoCopies, SMTT(30)
<1>4. ASSUME NEW i \in Procs, ReplayCancels(i) PROVE QueuedOnce'
  BY <1>0, <1>2, <1>3, <1>4, ReplayFacts
<1>5. ASSUME NEW c \in frames, SendCancel(c) PROVE QueuedOnce'
  BY <1>0, <1>2, <1>3, <1>5, SendCancelFacts
<1>6. ASSUME NEW i \in Procs, Receive(i) PROVE QueuedOnce'
  <2>1. /\ \A k \in Procs \ {i} : out'[k] = out[k]
        /\ \A n \in 1..Len(out'[i]) : n + 1 \in 1..Len(out[i]) /\ out'[i][n] = out[i][n + 1]
    BY <1>0, <1>6, ReceiveFacts
  <2>2. ASSUME NEW n \in 1..Len(out'[i]), NEW m \in 1..Len(out'[i]), Dup(out'[i], n, m)
        PROVE  n = m
    <3>1. n + 1 \in 1..Len(out[i]) /\ m + 1 \in 1..Len(out[i]) /\ Dup(out[i], n + 1, m + 1)
      BY <2>1, <2>2
    <3>2. n + 1 = m + 1
      <4> HIDE DEF Dup
      <4> QED BY <1>0, <3>1
    <3> QED BY <3>2
  <2> QED BY <1>0, <1>1, <2>1, <2>2
<1>7. CASE DispatchAssignment
  <2>1. PICK i \in Procs, j \in Jobs :
          \/ UNCHANGED out
          \/ /\ sess[i].assigned[j] = None /\ Len(out[i]) < SendBuffer
             /\ out' = Queued(i, [kind |-> "assign", job |-> j, serial |-> serial[j]])
    BY <1>0, <1>7, DispatchFacts
  <2>2. CASE /\ sess[i].assigned[j] = None /\ Len(out[i]) < SendBuffer
             /\ out' = Queued(i, [kind |-> "assign", job |-> j, serial |-> serial[j]])
    <3>1. /\ \A k \in Procs \ {i} : out'[k] = out[k]
          /\ Len(out'[i]) = Len(out[i]) + 1
          /\ \A n \in 1..Len(out[i]) : out'[i][n] = out[i][n]
          /\ out'[i][Len(out[i]) + 1] = [kind |-> "assign", job |-> j, serial |-> serial[j]]
      BY <1>0, <2>2, QueueAssignFacts
    <3>2. ASSUME NEW n \in 1..Len(out[i]), out[i][n].kind = "assign" PROVE out[i][n].job # j
      <4>1. [at |-> "out", job |-> out[i][n].job, serial |-> out[i][n].serial] \in Copies(i)
        BY <3>2 DEF Copies, OutCopies
      <4> QED BY <2>2, <4>1 DEF SessionInv, CopiesHeld
    <3>3. Len(out[i]) \in Nat
      BY <1>0, QueueShape
    <3>4. \A n \in 1..Len(out'[i]) : n \in 1..Len(out[i]) \/ n = Len(out[i]) + 1
      BY <3>1, <3>3
    <3>5. out'[i][Len(out[i]) + 1].job = j
      BY <3>1
    <3>6. ASSUME NEW n \in 1..Len(out'[i]), NEW m \in 1..Len(out'[i]), Dup(out'[i], n, m)
          PROVE  n = m
      BY <1>0, <3>1, <3>2, <3>4, <3>5, <3>6, SMTT(30)
    <3> QED BY <1>0, <1>1, <3>1, <3>6, SMTT(30)
  <2> QED BY <1>2, <2>1, <2>2
<1>8. CASE ServerCrash
  <2>1. \A k \in Procs : out'[k] = <<>>
    BY <1>8 DEF ServerCrash
  <2>2. \A k \in Procs : 1..Len(out'[k]) = {}
    BY <2>1
  <2> QED BY <1>1, <2>2
<1>9. ASSUME NEW i \in Procs,
             \/ MarkReady(i) \/ StreamEnds(i) \/ Exit(i) \/ HandleResult(i)
             \/ \E x \in work[i], kind \in {"done", "disrupted"} : FinishWork(i, x, kind)
      PROVE  UNCHANGED out
  BY <1>9 DEF MarkReady, StreamEnds, Exit, HandleResult, ReceiveResult, RecheckRevoked, CommitResult,
     ReleaseSlot, FinishWork, server
<1> QED BY <1>2, <1>4, <1>5, <1>6, <1>7, <1>8, <1>9, WhoMovesCopies

\* A job has one copy at a session.
LEMMA OneCopyStays ==
    ASSUME SessionInv, Next
    PROVE  OneCopy'
<1>0. \A k \in Procs : \A t, u \in Copies(k) : t.job = u.job => t = u
  BY DEF SessionInv, OneCopy
<1>1. ASSUME NEW k \in Procs, NEW t \in Copies(k)', NEW u \in Copies(k)', t.job = u.job
      PROVE  t = u
  <2>1. CASE Copies(k)' \subseteq Copies(k)
    BY <1>0, <1>1, <2>1
  <2>2. CASE Moved(k)
    <3>1. PICK v \in Copies(k), place \in {"work", "handler"} \cup Kinds :
            Copies(k)' \subseteq (Copies(k) \ {v})
                                 \cup {[at |-> place, job |-> v.job, serial |-> v.serial]}
      BY <2>2 DEF Moved
    <3> DEFINE w == [at |-> place, job |-> v.job, serial |-> v.serial]
    <3>2. w.job = v.job /\ Copies(k)' \subseteq (Copies(k) \ {v}) \cup {w}
      BY <3>1
    <3> HIDE DEF w
    <3> QED BY <1>0, <1>1, <3>2
  <2>3. CASE DispatchAssignment
    <3>1. CASE Copies(k)' = Copies(k)
      BY <1>0, <1>1, <3>1
    <3>2. CASE Copies(k)' # Copies(k)
      <4> DEFINE w == [at |-> "out", job |-> claim.job, serial |-> serial[claim.job]]
      <4>1. Copies(k)' \subseteq Copies(k) \cup {w} /\ (\A v \in Copies(k) : v.job # claim.job)
        BY <2>3, <3>2, NewCopy
      <4>2. w.job = claim.job
        OBVIOUS
      <4> HIDE DEF w
      <4> QED BY <1>0, <1>1, <4>1, <4>2
    <3> QED BY <3>1, <3>2
  <2> QED BY <2>1, <2>2, <2>3, CopyMoves
<1> QED BY <1>1 DEF OneCopy

\* Every copy has an ancestor, except the one DispatchAssignment makes.
LEMMA CopyAncestor ==
    ASSUME SessionInv, Next, NEW k \in Procs, NEW u \in Copies(k)'
    PROVE  \/ \E t \in Copies(k) : t.job = u.job /\ t.serial = u.serial
           \/ /\ DispatchAssignment /\ u.job = claim.job /\ u.serial = serial[claim.job]
              /\ claim.job \in Jobs /\ claim.attempt \in Nat
              /\ sess'[k].assigned = [sess[k].assigned EXCEPT ![claim.job] = claim.attempt]
<1>1. CASE Copies(k)' \subseteq Copies(k)
  BY <1>1
<1>2. CASE Moved(k)
  BY <1>2 DEF Moved
<1>3. CASE DispatchAssignment
  <2>1. CASE Copies(k)' = Copies(k)
    BY <2>1
  <2>2. CASE Copies(k)' # Copies(k)
    <3> DEFINE w == [at |-> "out", job |-> claim.job, serial |-> serial[claim.job]]
    <3>1. /\ Copies(k)' \subseteq Copies(k) \cup {w} /\ claim.job \in Jobs /\ claim.attempt \in Nat
          /\ sess'[k].assigned = [sess[k].assigned EXCEPT ![claim.job] = claim.attempt]
      BY <1>3, <2>2, NewCopy
    <3>2. w.job = claim.job /\ w.serial = serial[claim.job]
      OBVIOUS
    <3> HIDE DEF w
    <3> QED BY <1>3, <3>1, <3>2
  <2> QED BY <2>1, <2>2
<1> QED BY <1>1, <1>2, <1>3, CopyMoves

\* What the session records of a job while a copy of it is about.
LEMMA CopyKeepsAssigned ==
    ASSUME SessionInv, Next, NEW k \in Procs, NEW t \in Copies(k),
           NEW u \in Copies(k)', t.job = u.job
    PROVE  sess'[k].assigned[t.job] = sess[k].assigned[t.job] /\ t.job \in Jobs
<1>0. Typed /\ SessionsTyped /\ sess[k].assigned \in [Jobs -> Nat \cup {None}]
  BY SessionShape DEF SessionInv, Typed
<1>1. t.job \in Jobs /\ sess[k].assigned[t.job] # None
  <2>1. sess[k].assigned[t.job] # None
    BY DEF SessionInv, CopiesHeld
  <2>2. t.job \in Jobs
    <3>1. \A c \in OutCopies(out[k]) : c.job \in Jobs
      <4>1. \A n \in 1..Len(out[k]) : out[k][n].job \in Jobs
        BY <1>0, QueueShape DEF Outgoing
      <4> QED BY <4>1 DEF OutCopies
    <3>2. \A c \in WorkCopies(work[k]) : c.job \in Jobs
      <4>1. \A x \in work[k] : x.job \in Jobs
        BY <1>0, ProcessShape DEF Works
      <4> QED BY <4>1 DEF WorkCopies
    <3>3. \A c \in ResultCopies(inbox[k]) : c.job \in Jobs
      <4>1. \A f \in inbox[k] : f.job \in Jobs
        BY <1>0, ProcessShape DEF Results
      <4> QED BY <4>1 DEF ResultCopies
    <3>4. \A c \in HandlerCopies(handler[k]) : c.job \in Jobs
      <4>1. handler[k] # None => handler[k].job \in Jobs
        BY <1>0, ProcessShape DEF Handling
      <4> QED BY <4>1 DEF HandlerCopies
    <3> QED BY <3>1, <3>2, <3>3, <3>4 DEF Copies
  <2> QED BY <2>1, <2>2
<1>2. CASE KeepsSlots
  BY <1>1, <1>2 DEF KeepsSlots
<1>3. CASE DispatchAssignment
  <2>1. CASE sess'[k] = sess[k]
    BY <1>1, <2>1
  <2>2. CASE sess'[k] # sess[k]
    <3>1. /\ sess[k].assigned[claim.job] = None
          /\ sess'[k].assigned = [sess[k].assigned EXCEPT ![claim.job] = claim.attempt]
      BY <1>3, <2>2, NewCopy
    <3> QED BY <1>0, <1>1, <3>1
  <2> QED BY <2>1, <2>2
<1>4. ASSUME NEW i \in Procs, ReleaseSlot(i)
      PROVE  sess'[k].assigned[t.job] = sess[k].assigned[t.job]
  <2>1. /\ \A m \in Procs \ {i} : sess'[m] = sess[m]
        /\ sess'[i].assigned = [sess[i].assigned EXCEPT ![handler[i].job] = None]
    BY <1>4, ReleaseFacts
  <2>2. CASE k # i
    BY <2>1, <2>2
  <2>3. CASE k = i
    <3> DEFINE w == [at |-> "handler", job |-> handler[i].job, serial |-> handler[i].serial]
    <3>1. UNCHANGED <<out, work, inbox>> /\ handler[i] # None /\ handler'[i] = None
      BY <1>0, <1>4 DEF ReleaseSlot, process, Typed, ProcessesTyped
    <3>2. Copies(i)' = OutCopies(out[i]) \cup WorkCopies(work[i]) \cup ResultCopies(inbox[i])
      BY <3>1, CopiesNext DEF HandlerCopies
    <3>3. u \in Copies(i) /\ u.at # "handler"
      BY <1>0, <2>3, <3>2, PlacesDiffer DEF Copies, Kinds
    <3>4. w \in Copies(i) /\ w.at = "handler" /\ w.job = handler[i].job
      BY <3>1 DEF Copies, HandlerCopies
    <3> HIDE DEF w
    <3>5. u.job # handler[i].job
      BY <3>3, <3>4 DEF SessionInv, OneCopy
    <3> QED BY <1>0, <1>1, <2>1, <2>3, <3>5
  <2> QED BY <2>2, <2>3
<1> QED BY <1>1, <1>2, <1>3, <1>4, WhoMovesSlots

\* A copy is of an assignment the session has.
LEMMA CopiesHeldStays ==
    ASSUME SessionInv, Next
    PROVE  CopiesHeld'
<1>1. ASSUME NEW k \in Procs, NEW u \in Copies(k)' PROVE sess'[k].assigned[u.job] # None
  <2>1. ASSUME NEW t \in Copies(k), t.job = u.job PROVE sess'[k].assigned[u.job] # None
    <3>1. sess'[k].assigned[t.job] = sess[k].assigned[t.job] /\ sess[k].assigned[t.job] # None
      BY <2>1, CopyKeepsAssigned DEF SessionInv, CopiesHeld
    <3> QED BY <2>1, <3>1
  <2>2. CASE /\ u.job = claim.job /\ claim.job \in Jobs /\ claim.attempt \in Nat
             /\ sess'[k].assigned = [sess[k].assigned EXCEPT ![claim.job] = claim.attempt]
    <3>1. sess[k].assigned \in [Jobs -> Nat \cup {None}]
      BY SessionShape DEF SessionInv, Typed
    <3> QED BY <2>2, <3>1, SessionAssumption
  <2> QED BY <2>1, <2>2, CopyAncestor
<1> QED BY <1>1 DEF CopiesHeld

-----------------------------------------------------------------------------
(* Each attempt is handed out once                                         *)

\* The revivals that were left are still left.
LEMMA RevivalsLeft ==
    ASSUME SessionInv, Next, NoRevivalYet'
    PROVE  NoRevivalYet /\ budget'.revive = budget.revive
<1>1. /\ budget \in Budgets /\ budget.revive <= MaxRevivals /\ budget' \in Budgets
      /\ budget'.revive <= budget.revive /\ MaxRevivals \in Nat
  BY BudgetsStayTyped, SessionAssumption DEF SessionInv, Typed, RequestsTyped
<1>2. budget.revive \in Nat /\ budget'.revive \in Nat /\ budget'.revive = MaxRevivals
  BY <1>1 DEF Budgets, NoRevivalYet
<1>3. budget.revive = MaxRevivals
  BY <1>1, <1>2
<1> QED BY <1>2, <1>3 DEF NoRevivalYet

\* Assignments are dropped, except that DispatchAssignment makes one of the
\* claim.
LEMMA AssignedMoves ==
    ASSUME SessionInv, Next, NEW i \in Procs, NEW j \in Jobs
    PROVE  \/ sess'[i].assigned[j] \in {None, sess[i].assigned[j]}
           \/ /\ DispatchAssignment /\ claim \in Snapshot /\ j = claim.job
              /\ sess'[i].assigned[j] = claim.attempt
<1>0. Typed /\ StoreAgrees /\ sess[i].assigned \in [Jobs -> Nat \cup {None}]
  BY SessionShape DEF SessionInv, Typed
<1>1. CASE KeepsSlots
  BY <1>1 DEF KeepsSlots
<1>2. CASE DispatchAssignment
  <2>1. claim \in Snapshot
    BY <1>0, <1>2, DispatchFacts
  <2>2. CASE sess'[i] = sess[i]
    BY <2>2
  <2>3. CASE sess'[i] # sess[i]
    <3>1. sess'[i].assigned = [sess[i].assigned EXCEPT ![claim.job] = claim.attempt]
      BY <1>2, <2>3, NewCopy
    <3> QED BY <1>0, <1>2, <2>1, <3>1
  <2> QED BY <2>2, <2>3
<1>3. ASSUME NEW k \in Procs, ReleaseSlot(k)
      PROVE  sess'[i].assigned[j] \in {None, sess[i].assigned[j]}
  <2>1. /\ \A m \in Procs \ {k} : sess'[m] = sess[m]
        /\ sess'[k].assigned = [sess[k].assigned EXCEPT ![handler[k].job] = None]
    BY <1>3, ReleaseFacts
  <2> QED BY <1>0, <2>1
<1> QED BY <1>1, <1>2, <1>3, WhoMovesSlots

\* The numbers that are compared.
LEMMA HandedShape ==
    ASSUME SessionInv, Next
    PROVE  /\ \A j \in Jobs : row[j].attempt \in Nat /\ row'[j].attempt \in Nat
           /\ \A i \in Procs, j \in Jobs : sess[i].assigned[j] \in Nat \cup {None}
           /\ claim # None => claim.job \in Jobs /\ claim.attempt \in Nat
           /\ None \notin Nat
<1>1. \A j \in Jobs : row[j].attempt \in Nat
  BY RowShape DEF SessionInv, Typed
<1>2. \A j \in Jobs : row'[j].attempt \in Nat
  BY TypedStays DEF Typed, RowsTyped, Rows
<1>3. \A i \in Procs, j \in Jobs : sess[i].assigned[j] \in Nat \cup {None}
  BY SessionShape DEF SessionInv, Typed
<1>4. claim # None => claim.job \in Jobs /\ claim.attempt \in Nat
  BY DEF SessionInv, Typed, RequestsTyped, Snapshot
<1> QED BY <1>1, <1>2, <1>3, <1>4, SessionAssumption

\* The steps under which rows go forward keep attempts handed out once.
LEMMA ForwardHanded ==
    ASSUME SessionInv, Next, HandedOnce, NoRevivalYet, RowsForward, UNCHANGED serial,
           UNCHANGED claim \/ claim' = None,
           DispatchAssignment => UNCHANGED row
    PROVE  AttemptsPast' /\ ClaimIsNew' /\ CopiesCurrent'
<1>0. AttemptsPast /\ ClaimIsNew /\ CopiesCurrent
  BY DEF HandedOnce
<1>1. /\ \A j \in Jobs : row[j].attempt \in Nat /\ row'[j].attempt \in Nat
      /\ \A i \in Procs, j \in Jobs : sess[i].assigned[j] \in Nat \cup {None}
      /\ claim # None => claim.job \in Jobs /\ claim.attempt \in Nat
      /\ None \notin Nat
  BY HandedShape
<1>2. ASSUME NEW j \in Jobs, NEW n \in Nat, n <= row[j].attempt,
             n = row[j].attempt => row[j].status # "queued"
      PROVE  /\ n <= row'[j].attempt
             /\ n = row'[j].attempt => row'[j].status # "queued" /\ n = row[j].attempt
  BY <1>1, <1>2 DEF RowsForward
<1>3. ASSUME NEW i \in Procs, NEW j \in Jobs, sess'[i].assigned[j] # None
      PROVE  /\ sess'[i].assigned[j] <= row'[j].attempt
             /\ sess'[i].assigned[j] = row'[j].attempt => row'[j].status # "queued"
  <2>1. CASE sess'[i].assigned[j] = sess[i].assigned[j]
    BY <1>0, <1>1, <1>2, <1>3, <2>1 DEF AttemptsPast
  <2>2. CASE DispatchAssignment /\ claim \in Snapshot /\ j = claim.job /\ sess'[i].assigned[j] = claim.attempt
    <3>1. claim # None
      BY <2>2 DEF DispatchAssignment
    <3>2. claim.attempt \in Nat /\ claim.attempt <= row[j].attempt
          /\ (claim.attempt = row[j].attempt => row[j].status # "queued")
      BY <1>0, <1>1, <2>2, <3>1 DEF ClaimIsNew
    <3> QED BY <1>2, <2>2, <3>2
  <2> QED BY <1>3, <2>1, <2>2, AssignedMoves
<1>4. ASSUME claim' # None
      PROVE  /\ claim'.attempt <= row'[claim'.job].attempt
             /\ claim'.attempt = row'[claim'.job].attempt =>
                  /\ row'[claim'.job].status # "queued"
                  /\ \A i \in Procs : sess'[i].assigned[claim'.job] # claim'.attempt
  <2>1. claim' = claim /\ claim # None /\ ~DispatchAssignment
    BY <1>4 DEF DispatchAssignment
  <2> DEFINE j == claim.job
             n == claim.attempt
  <2>2. /\ j \in Jobs /\ n \in Nat /\ n <= row[j].attempt
        /\ n = row[j].attempt => row[j].status # "queued" /\ \A i \in Procs : sess[i].assigned[j] # n
    BY <1>0, <1>1, <2>1 DEF ClaimIsNew
  <2>3. \A i \in Procs : sess'[i].assigned[j] \in {None, sess[i].assigned[j]}
    BY <2>1, <2>2, AssignedMoves
  <2> HIDE DEF j, n
  <2>4. n <= row'[j].attempt /\ (n = row'[j].attempt => row'[j].status # "queued" /\ n = row[j].attempt)
    BY <1>2, <2>2
  <2>5. n = row'[j].attempt => \A i \in Procs : sess'[i].assigned[j] # n
    BY <1>1, <2>2, <2>3, <2>4
  <2> QED BY <2>1, <2>4, <2>5 DEF j, n
<1>5. ASSUME NEW i \in Procs, NEW u \in Copies(i)', sess'[i].assigned[u.job] = row'[u.job].attempt
      PROVE  u.serial = serial'[u.job]
  <2>1. ASSUME NEW t \in Copies(i), t.job = u.job, t.serial = u.serial PROVE u.serial = serial'[u.job]
    <3>1. sess'[i].assigned[t.job] = sess[i].assigned[t.job] /\ t.job \in Jobs
          /\ sess[i].assigned[t.job] # None
      BY <2>1, CopyKeepsAssigned DEF SessionInv, CopiesHeld
    <3>2. sess[i].assigned[t.job] = row[t.job].attempt
      BY <1>0, <1>1, <1>2, <1>5, <2>1, <3>1 DEF AttemptsPast
    <3>3. t.serial = serial[t.job]
      BY <1>0, <3>2 DEF CopiesCurrent
    <3> QED BY <2>1, <3>3
  <2> QED BY <2>1, CopyAncestor
<1> QED BY <1>3, <1>4, <1>5 DEF AttemptsPast, ClaimIsNew, CopiesCurrent

\* Attempts are handed out once, and results close the claim they are of.
LEMMA HandedStays ==
    ASSUME SessionInv, Next
    PROVE  HandedOnce'
<1> SUFFICES ASSUME NoRevivalYet'
             PROVE  AttemptsPast' /\ ClaimIsNew' /\ CopiesCurrent' /\ ResultIsCurrent'
  BY DEF HandedOnce
<1>0. Typed /\ NoRevivalYet /\ budget'.revive = budget.revive /\ HandedOnce
  BY RevivalsLeft DEF SessionInv
<1>1. AttemptsPast /\ ClaimIsNew /\ CopiesCurrent /\ ResultIsCurrent
  BY <1>0 DEF HandedOnce
<1>2. /\ \A j \in Jobs : row[j].attempt \in Nat /\ row'[j].attempt \in Nat
      /\ \A i \in Procs, j \in Jobs : sess[i].assigned[j] \in Nat \cup {None}
      /\ claim # None => claim.job \in Jobs /\ claim.attempt \in Nat
      /\ None \notin Nat
  BY HandedShape
<1>3. CASE \/ UNCHANGED <<row, serial, closer>>
           \/ \E i \in Procs : \E s \in todo[i] : ReclaimAgentJob(i, s)
           \/ \E j \in Jobs : ReclaimPendingCancel(j) \/ CancelJobRun(j) \/ RerunJob(j)
           \/ \E s \in sweep.rows : ReclaimStaleJob(s)
  <2>1. RowsForward /\ UNCHANGED <<serial, closer>>
    BY <1>0, <1>3, PlainRowWrites
  <2>2. UNCHANGED claim \/ claim' = None
    <3>1. ASSUME NEW j \in Jobs, NEW a \in Agents, AssignJob(j, a) PROVE FALSE
      <4>1. serial' = [serial EXCEPT ![j] = @ + 1] /\ serial \in [Jobs -> Nat]
        BY <1>0, <3>1 DEF AssignJob, Typed, RowsTyped
      <4>2. serial[j] \in Nat /\ serial'[j] = serial[j] + 1 /\ serial'[j] = serial[j]
        BY <2>1, <4>1
      <4> QED BY <4>2
    <3> QED BY <3>1, WhoMovesRequests
  <2>3. DispatchAssignment => UNCHANGED row
    BY DEF DispatchAssignment, db_rows
  <2>4. ResultIsCurrent'
    BY <1>1, <2>1 DEF ResultIsCurrent
  <2> QED BY <1>0, <2>1, <2>2, <2>3, <2>4, ForwardHanded
<1>4. ASSUME NEW i \in Procs, CommitResult(i)
      PROVE  AttemptsPast' /\ ClaimIsNew' /\ CopiesCurrent' /\ ResultIsCurrent'
  <2>1. /\ RowsForward /\ UNCHANGED serial /\ handler[i] \in Handling
        /\ \/ UNCHANGED closer
           \/ /\ StillHeld(i, handler[i])
              /\ closer' = [closer EXCEPT ![handler[i].job] = handler[i].serial]
    BY <1>0, <1>4, CommitRows
  <2>2. UNCHANGED claim /\ ~DispatchAssignment /\ handler[i] # None
    BY <1>4 DEF CommitResult, DispatchAssignment
  <2>3. ASSUME StillHeld(i, handler[i]) PROVE handler[i].serial = serial[handler[i].job]
    <3> DEFINE t == [at |-> "handler", job |-> handler[i].job, serial |-> handler[i].serial]
    <3>1. sess[i].assigned[handler[i].job] = row[handler[i].job].attempt
      BY <2>2, <2>3 DEF SessionInv, HandlerHolds, StillHeld
    <3>2. t \in Copies(i) /\ t.job = handler[i].job /\ t.serial = handler[i].serial
      BY <2>2 DEF Copies, HandlerCopies
    <3> HIDE DEF t
    <3>3. t.serial = serial[t.job]
      BY <1>1, <3>1, <3>2 DEF CopiesCurrent
    <3> QED BY <3>2, <3>3
  <2>4. closer \in [Jobs -> Nat]
    BY <1>0 DEF Typed, RowsTyped
  <2>5. ResultIsCurrent'
    <3>1. CASE UNCHANGED closer
      BY <1>1, <2>1, <3>1 DEF ResultIsCurrent
    <3>2. CASE /\ StillHeld(i, handler[i])
               /\ closer' = [closer EXCEPT ![handler[i].job] = handler[i].serial]
      BY <1>1, <2>1, <2>3, <2>4, <3>2 DEF ResultIsCurrent
    <3> QED BY <2>1, <3>1, <3>2
  <2> QED BY <1>0, <2>1, <2>2, <2>5, ForwardHanded
<1>5. ASSUME NEW j \in Jobs, NEW a \in Agents, AssignJob(j, a)
      PROVE  AttemptsPast' /\ ClaimIsNew' /\ CopiesCurrent' /\ ResultIsCurrent'
  <2>1. /\ row'[j].status = "running" /\ row'[j].attempt = row[j].attempt
        /\ \A k \in Jobs \ {j} : row'[k] = row[k] /\ serial'[k] = serial[k] /\ closer'[k] = closer[k]
        /\ closer'[j] = 0
    BY <1>0, <1>5, ClaimRows
  <2>2. /\ claim = None /\ row[j].status = "queued" /\ UNCHANGED sess
        /\ claim' = [job |-> j, agent |-> a, attempt |-> row[j].attempt]
    BY <1>5 DEF AssignJob
  <2>3. \A i \in Procs : sess[i].assigned[j] # row[j].attempt
    BY <1>1, <1>2, <2>2 DEF AttemptsPast
  <2>4. AttemptsPast'
    BY <1>1, <2>1, <2>2 DEF AttemptsPast
  <2>5. claim'.job = j /\ claim'.attempt = row[j].attempt
    BY <2>2
  <2>6. ClaimIsNew'
    BY <1>2, <2>1, <2>2, <2>3, <2>5 DEF ClaimIsNew
  <2>7. CopiesCurrent'
    <3>1. ASSUME NEW i \in Procs, NEW u \in Copies(i)', sess'[i].assigned[u.job] = row'[u.job].attempt
          PROVE  u.serial = serial'[u.job]
      <4>1. PICK t \in Copies(i) : t.job = u.job /\ t.serial = u.serial
        BY <2>2, CopyAncestor DEF DispatchAssignment
      <4>2. t.job \in Jobs
        BY <4>1, CopyKeepsAssigned
      <4>3. t.job # j
        BY <2>1, <2>2, <2>3, <3>1, <4>1
      <4>4. t.serial = serial[t.job]
        BY <1>1, <2>1, <2>2, <3>1, <4>1, <4>2, <4>3 DEF CopiesCurrent
      <4> QED BY <2>1, <4>1, <4>2, <4>3, <4>4
    <3> QED BY <3>1 DEF CopiesCurrent
  <2>8. ResultIsCurrent'
    BY <1>1, <2>1 DEF ResultIsCurrent
  <2> QED BY <2>4, <2>6, <2>7, <2>8
<1>6. ASSUME UnassignJob
      PROVE  AttemptsPast' /\ ClaimIsNew' /\ CopiesCurrent' /\ ResultIsCurrent'
  <2>1. /\ UNCHANGED <<serial, closer>> /\ claim' = None
        /\ \A k \in Jobs : row'[k].attempt = row[k].attempt
        /\ \A k \in Jobs : row'[k].status = "queued" =>
              \/ row[k].status = "queued"
              \/ k = claim.job /\ row[k].attempt = claim.attempt
    BY <1>0, <1>6, UnassignRows
  <2>2. claim # None /\ UNCHANGED <<sess, out, work, inbox, handler>>
    BY <1>6 DEF UnassignJob, process
  <2>3. AttemptsPast'
    BY <1>1, <1>2, <2>1, <2>2 DEF AttemptsPast, ClaimIsNew
  <2>4. ClaimIsNew'
    BY <2>1 DEF ClaimIsNew
  <2>5. CopiesCurrent'
    <3>1. ASSUME NEW i \in Procs, NEW u \in Copies(i)', sess'[i].assigned[u.job] = row'[u.job].attempt
          PROVE  u.serial = serial'[u.job]
      <4>1. u \in Copies(i)
        BY <2>2, CopiesNext DEF Copies
      <4>2. u.job \in Jobs
        BY <4>1, CopyKeepsAssigned
      <4> QED BY <1>1, <2>1, <2>2, <3>1, <4>1, <4>2 DEF CopiesCurrent
    <3> QED BY <3>1 DEF CopiesCurrent
  <2>6. ResultIsCurrent'
    BY <1>1, <2>1 DEF ResultIsCurrent
  <2> QED BY <2>3, <2>4, <2>5, <2>6
<1> QED BY <1>3, <1>4, <1>5, <1>6, WhoWritesRows

-----------------------------------------------------------------------------
(* Generations, and who is online                                          *)

\* Only MarkAgentOnline hands out a generation.
LEMMA GenMoves ==
    ASSUME SessionInv, Next
    PROVE  \/ \A k \in Procs : sess'[k].gen = sess[k].gen
           \/ \E i \in Procs : MarkAgentOnline(i)
<1> DEFINE Same == \A k \in Procs : sess'[k].gen = sess[k].gen
<1>0. SessionsTyped /\ AgentsTyped /\ Typed /\ StoreAgrees
  BY DEF SessionInv, Typed
<1>1. Reflags => Same
  BY DEF Reflags, Reflagged
<1>2. UNCHANGED sess => Same
  OBVIOUS
<1>3. ASSUME NEW i \in Procs, Register(i), ~MarkAgentOnline(i) PROVE Same
  <2>0. AgentOf[i] \in Agents
    BY SessionAssumption
  <2>1. CASE RevokeForAgent(i)
    <3>1. RevokeCurrent(AgentOf[i], TRUE)
      BY <2>1 DEF RevokeForAgent
    <3> QED BY <1>0, <1>1, <2>0, <3>1, RevokeFacts
  <2>2. CASE CreateSession(i)
    BY <1>0, <1>1, <2>2, CreateFacts
  <2>3. CASE \/ ListRunningJobsForAgent(i) \/ ReplayCancels(i)
             \/ \E s \in todo[i] : ReclaimAgentJob(i, s)
    BY <1>2, <2>3 DEF ListRunningJobsForAgent, ReplayCancels, ReclaimAgentJob
  <2> QED BY <1>3, <2>1, <2>2, <2>3 DEF Register
<1>4. ASSUME NEW i \in Procs, Connect(i) PROVE Same
  <2>1. CASE StreamEnds(i)
    BY <1>0, <1>1, <2>1, StreamEndFacts
  <2>2. CASE ClaimConnect(i) \/ MarkReady(i) \/ CheckSuperseded(i) \/ MarkAgentOffline(i)
    BY <1>2, <2>2 DEF ClaimConnect, MarkReady, CheckSuperseded, MarkAgentOffline
  <2> QED BY <1>4, <2>1, <2>2 DEF Connect
<1>5. ASSUME NEW i \in Procs, ReceiveDraining(i) PROVE Same
  BY <1>0, <1>1, <1>5, DrainingFacts
<1>6. ASSUME NEW i \in Procs, ReleaseSlot(i) PROVE Same
  <2>1. (\A k \in Procs \ {i} : sess'[k] = sess[k]) /\ sess'[i].gen = sess[i].gen
    BY <1>6, ReleaseFacts
  <2> QED BY <2>1
<1>7. ASSUME DispatchAssignment PROVE Same
  <2>1. PICK i \in Procs : (\A k \in Procs \ {i} : sess'[k] = sess[k]) /\ sess'[i].gen = sess[i].gen
    BY <1>0, <1>7, DispatchFacts
  <2> QED BY <2>1
<1>8. ASSUME NEW t \in sweep.fence, FenceStaleSession(t) PROVE Same
  <2>1. t.agent \in Agents
    BY <1>0 DEF Typed, RequestsTyped
  <2>2. UNCHANGED sess \/ RevokeCurrent(t.agent, FALSE)
    BY <1>8 DEF FenceStaleSession
  <2> QED BY <1>0, <1>1, <1>2, <2>1, <2>2, RevokeFacts
<1>9. ServerCrash => UNCHANGED sess
  BY DEF ServerCrash
<1> HIDE DEF Same
<1>10. Same \/ \E i \in Procs : MarkAgentOnline(i)
  BY <1>2, <1>3, <1>4, <1>5, <1>6, <1>7, <1>8, <1>9, WhoMovesSessions
<1> QED BY <1>10 DEF Same

\* MarkAgentOffline spares an agent of another generation; heartbeats and their
\* absence leave generation and online mark alone.
LEMMA OnlineMoves ==
    ASSUME SessionInv, Next, \A i \in Procs : ~MarkAgentOnline(i)
    PROVE  /\ \A a \in Agents : db'[a].gen = db[a].gen
           /\ \A a \in Agents : db[a].online /\ ~db'[a].online =>
                 \E i \in Procs : pc[i] = "offlining" /\ AgentOf[i] = a /\ sess[i].gen = db[a].gen
<1>0. db \in [Agents -> AgentRows]
  BY DEF SessionInv, Typed, AgentsTyped
<1>1. CASE UNCHANGED db
  BY <1>1
<1>2. ASSUME NEW a \in Agents, NEW b, db' = [db EXCEPT ![a].fresh = b]
      PROVE  \A c \in Agents : db'[c].gen = db[c].gen /\ db'[c].online = db[c].online
  BY <1>0, <1>2 DEF AgentRows
<1>3. ASSUME NEW i \in Procs, Heartbeat(i)
      PROVE  \A c \in Agents : db'[c].gen = db[c].gen /\ db'[c].online = db[c].online
  BY <1>2, <1>3, SessionAssumption DEF Heartbeat
<1>4. ASSUME NEW a \in Agents, Expire(a)
      PROVE  \A c \in Agents : db'[c].gen = db[c].gen /\ db'[c].online = db[c].online
  BY <1>2, <1>4 DEF Expire
<1>5. ASSUME NEW i \in Procs, MarkAgentOffline(i)
      PROVE  /\ \A a \in Agents : db'[a].gen = db[a].gen
             /\ \A a \in Agents : db[a].online /\ ~db'[a].online =>
                   pc[i] = "offlining" /\ AgentOf[i] = a /\ sess[i].gen = db[a].gen
  <2> DEFINE a == AgentOf[i]
             b == db[a].online /\ db[a].gen # sess[i].gen
             w == [db[a] EXCEPT !.online = b]
  <2>1. a \in Agents /\ db[a] \in AgentRows
    BY <1>0, SessionAssumption
  <2>2. pc[i] = "offlining" /\ db' = [db EXCEPT ![a] = w]
    BY <1>5 DEF MarkAgentOffline
  <2>3. w.gen = db[a].gen /\ w.online = b
    <3> HIDE DEF b, a
    <3> QED BY <2>1 DEF AgentRows
  <2> HIDE DEF w
  <2>4. db'[a] = w /\ \A c \in Agents \ {a} : db'[c] = db[c]
    BY <1>0, <2>1, <2>2
  <2>5. \A c \in Agents : db'[c].gen = db[c].gen
    <3> HIDE DEF a, b
    <3> QED BY <2>3, <2>4
  <2>6. ASSUME NEW c \in Agents, db[c].online, ~db'[c].online
        PROVE  AgentOf[i] = c /\ sess[i].gen = db[c].gen
    BY <2>3, <2>4, <2>6
  <2> QED BY <2>2, <2>5, <2>6
<1> QED BY <1>1, <1>3, <1>4, <1>5, WhoWritesAgents

\* What MarkAgentOnline writes.
LEMMA OnlineRow ==
    ASSUME SessionInv, NEW i \in Procs, MarkAgentOnline(i)
    PROVE  /\ pc[i] = "reclaiming" /\ alive[i]
           /\ db'[AgentOf[i]].online /\ db'[AgentOf[i]].gen = db[AgentOf[i]].gen + 1
           /\ \A b \in Agents \ {AgentOf[i]} : db'[b] = db[b]
           /\ sess'[i].gen = db[AgentOf[i]].gen + 1
           /\ \A k \in Procs \ {i} : sess'[k] = sess[k]
           /\ UNCHANGED latest /\ pc' = [pc EXCEPT ![i] = "online"]
<1>0. SessionsTyped /\ AgentsTyped /\ AgentOf[i] \in Agents /\ db \in [Agents -> AgentRows]
  BY SessionAssumption DEF SessionInv, Typed, AgentsTyped
<1>1. /\ pc[i] = "reclaiming" /\ alive[i] /\ UNCHANGED latest /\ pc' = [pc EXCEPT ![i] = "online"]
      /\ db' = [db EXCEPT ![AgentOf[i]] = [online |-> TRUE, gen |-> db[AgentOf[i]].gen + 1, fresh |-> TRUE]]
  BY DEF MarkAgentOnline
<1>2. /\ db'[AgentOf[i]] = [online |-> TRUE, gen |-> db[AgentOf[i]].gen + 1, fresh |-> TRUE]
      /\ \A b \in Agents \ {AgentOf[i]} : db'[b] = db[b]
  BY <1>0, <1>1
<1>3. db'[AgentOf[i]].online /\ db'[AgentOf[i]].gen = db[AgentOf[i]].gen + 1
  BY <1>2
<1>4. sess'[i].gen = db[AgentOf[i]].gen + 1 /\ \A k \in Procs \ {i} : sess'[k] = sess[k]
  BY <1>0, OnlineFacts
<1> QED BY <1>1, <1>2, <1>3, <1>4

\* Who is registering was registering, or has just started.
LEMMA RegisterMoves ==
    ASSUME SessionInv, Next, NEW k \in Procs, Registering(k)'
    PROVE  Registering(k) \/ RevokeForAgent(k)
<1>0. pc \in [Procs -> Steps] /\ alive \in [Procs -> BOOLEAN]
  BY DEF SessionInv, Typed, SessionsTyped, ProcessesTyped
<1>1. \/ pc'[k] = "online"
      \/ pc'[k] \in {"revoked", "reclaiming"} /\ alive'[k]
  BY DEF Registering
<1>2. ASSUME ~RevokeForAgent(k), alive'[k] PROVE alive[k]
  <2>1. ASSUME NEW i \in Procs, RevokeForAgent(i) \/ ClaimConnect(i) \/ MarkReady(i) \/ Exit(i) \/ Quit(i)
        PROVE  alive[k]
    <3>1. CASE RevokeForAgent(i)
      BY <1>0, <1>2, <3>1 DEF RevokeForAgent
    <3>2. CASE ClaimConnect(i) \/ MarkReady(i) \/ Exit(i) \/ Quit(i)
      <4>1. UNCHANGED alive \/ alive' = [alive EXCEPT ![i] = FALSE]
        BY <3>2 DEF ClaimConnect, MarkReady, Exit, Quit
      <4> QED BY <1>0, <1>2, <4>1
    <3> QED BY <2>1, <3>1, <3>2
  <2>2. ServerCrash => ~alive'[k]
    BY DEF ServerCrash
  <2> QED BY <1>2, <2>1, <2>2, WhoEndsProcesses
<1>3. CASE pc'[k] = pc[k]
  BY <1>1, <1>2, <1>3 DEF Registering
<1>4. ASSUME NEW i \in Procs, Register(i), pc'[k] # pc[k] PROVE Registering(k) \/ RevokeForAgent(k)
  <2>1. \A st : pc' = [pc EXCEPT ![i] = st] => k = i /\ pc'[k] = st
    BY <1>0, <1>4
  <2>2. CASE RevokeForAgent(i)
    BY <2>1, <2>2 DEF RevokeForAgent
  <2>3. CASE ListRunningJobsForAgent(i) \/ MarkAgentOnline(i)
    BY <2>1, <2>3 DEF ListRunningJobsForAgent, MarkAgentOnline, Registering
  <2>4. CASE CreateSession(i) \/ ReplayCancels(i)
    <3>1. \E st \in {"published", "registered"} : pc' = [pc EXCEPT ![i] = st]
      BY <2>4 DEF CreateSession, ReplayCancels
    <3> QED BY <1>1, <2>1, <3>1
  <2>5. CASE \E s \in todo[i] : ReclaimAgentJob(i, s)
    BY <1>4, <2>5 DEF ReclaimAgentJob
  <2> QED BY <1>4, <2>2, <2>3, <2>4, <2>5 DEF Register
<1>5. ASSUME NEW i \in Procs, Connect(i) PROVE pc'[k] = pc[k]
  <2>1. \E st \in Steps \ Unpublished : pc' = [pc EXCEPT ![i] = st]
    BY <1>5 DEF Connect, ClaimConnect, MarkReady, StreamEnds, CheckSuperseded, MarkAgentOffline,
       Steps, Unpublished
  <2> QED BY <1>0, <1>1, <2>1 DEF Unpublished
<1>6. ASSUME \/ \E i \in Procs : ReceiveDraining(i) \/ ReleaseSlot(i)
             \/ DispatchAssignment
             \/ \E t \in sweep.fence : FenceStaleSession(t)
      PROVE  UNCHANGED pc
  BY <1>6 DEF ReceiveDraining, ReleaseSlot, DispatchAssignment, FenceStaleSession
<1>7. ~ServerCrash
  BY <1>1 DEF ServerCrash
<1> QED BY <1>3, <1>4, <1>5, <1>6, <1>7, WhoMovesSessions

\* With one process per agent at a time, registrations of an agent follow each
\* other, generations are unique, and the newest one is the agent's.
LEMMA OnlineStays ==
    ASSUME SessionInv, Next
    PROVE  OnlineInv'
<1> SUFFICES ASSUME ~Overlap PROVE OneRegister' /\ Generations' /\ NewestIsOnline'
  BY DEF OnlineInv
<1>0. /\ OneRegister /\ Generations /\ NewestIsOnline
      /\ \A i \in Procs : AgentOf[i] \in Agents /\ i # None
  BY SessionAssumption DEF SessionInv, OnlineInv
<1>1. /\ \A a \in Agents : db[a].gen \in Nat /\ latest[a] \in Procs \cup {None}
      /\ \A i \in Procs : sess[i].gen \in Nat
      /\ pc \in [Procs -> Steps]
  BY SessionShape DEF SessionInv, Typed, AgentsTyped, AgentRows, SessionsTyped
<1>2. ASSUME NEW i \in Procs, RevokeForAgent(i)
      PROVE  /\ latest'[AgentOf[i]] = None
             /\ \A k \in Procs : AgentOf[k] = AgentOf[i] => ~Registering(k)
  <2>1. /\ SessionsTyped /\ AgentsTyped /\ RevokeCurrent(AgentOf[i], TRUE)
        /\ \A k \in Procs : AgentOf[k] = AgentOf[i] => ~alive[k] /\ pc[k] \notin {"online", "published"}
    BY <1>2 DEF SessionInv, Typed, RevokeForAgent
  <2>2. latest'[AgentOf[i]] = None
    BY <1>0, <2>1, RevokeFacts
  <2> QED BY <2>1, <2>2 DEF Registering
<1>3. OneRegister'
  <2>1. ASSUME NEW i \in Procs, NEW k \in Procs, Registering(i)', Registering(k)',
               AgentOf[i] = AgentOf[k]
        PROVE  i = k
    <3>1. (Registering(i) \/ RevokeForAgent(i)) /\ (Registering(k) \/ RevokeForAgent(k))
      BY <2>1, RegisterMoves
    <3>2. ASSUME RevokeForAgent(i), RevokeForAgent(k) PROVE i = k
      <4>1. pc' = [pc EXCEPT ![i] = "revoked"] /\ pc' = [pc EXCEPT ![k] = "revoked"] /\ pc[i] = "new"
        BY <3>2 DEF RevokeForAgent
      <4> QED BY <1>1, <4>1
    <3> QED BY <1>0, <1>2, <2>1, <3>1, <3>2 DEF OneRegister
  <2>2. ASSUME NEW i \in Procs, Registering(i)' PROVE latest'[AgentOf[i]] = None
    <3>1. CASE RevokeForAgent(i)
      BY <1>2, <3>1
    <3>2. CASE Registering(i)
      <4>1. latest[AgentOf[i]] = None
        BY <1>0, <3>2 DEF OneRegister
      <4>2. CASE LatestMoves
        BY <1>0, <4>1, <4>2 DEF LatestMoves, Stays
      <4>3. ASSUME NEW m \in Procs, CreateSession(m) PROVE latest'[AgentOf[i]] = None
        <5>1. pc[m] = "online" /\ pc'[m] = "published" /\ SessionsTyped /\ AgentsTyped
          BY <1>1, <4>3 DEF CreateSession, SessionInv, Typed
        <5>2. Registering(m) /\ m # i
          BY <2>2, <5>1 DEF Registering
        <5>3. AgentOf[m] # AgentOf[i]
          BY <1>0, <3>2, <5>2 DEF OneRegister
        <5> QED BY <1>0, <4>1, <4>3, <5>1, <5>3, CreateFacts
      <4> QED BY <4>2, <4>3, StoreMoves
    <3> QED BY <2>2, <3>1, <3>2, RegisterMoves
  <2> QED BY <2>1, <2>2 DEF OneRegister
<1>4. Generations'
  <2>1. CASE \A i \in Procs : ~MarkAgentOnline(i)
    <3>1. (\A k \in Procs : sess'[k].gen = sess[k].gen) /\ \A a \in Agents : db'[a].gen = db[a].gen
      BY <2>1, GenMoves, OnlineMoves
    <3> QED BY <1>0, <3>1 DEF Generations
  <2>2. ASSUME NEW i \in Procs, MarkAgentOnline(i) PROVE Generations'
    <3>1. /\ db'[AgentOf[i]].gen = db[AgentOf[i]].gen + 1
          /\ \A b \in Agents \ {AgentOf[i]} : db'[b] = db[b]
          /\ sess'[i].gen = db[AgentOf[i]].gen + 1
          /\ \A k \in Procs \ {i} : sess'[k] = sess[k]
      BY <2>2, OnlineRow
    <3>2. ASSUME NEW k \in Procs PROVE sess'[k].gen <= db'[AgentOf[k]].gen
      BY <1>0, <1>1, <3>1 DEF Generations
    <3>3. ASSUME NEW k \in Procs, k # i, AgentOf[k] = AgentOf[i] PROVE sess'[k].gen # sess'[i].gen
      BY <1>0, <1>1, <3>1, <3>3 DEF Generations
    <3>4. ASSUME NEW k \in Procs, NEW m \in Procs, AgentOf[k] = AgentOf[m],
                 sess'[k].gen = sess'[m].gen
          PROVE  k = m \/ sess'[k].gen = 0
      BY <1>0, <3>1, <3>3, <3>4 DEF Generations
    <3> QED BY <3>2, <3>4 DEF Generations
  <2> QED BY <2>1, <2>2
<1>5. NewestIsOnline'
  <2> SUFFICES ASSUME NEW i \in Procs, pc'[i] = "online" \/ latest'[AgentOf[i]] = i
               PROVE  /\ db'[AgentOf[i]].online
                      /\ sess'[i].gen = db'[AgentOf[i]].gen /\ sess'[i].gen > 0
    BY DEF NewestIsOnline
  <2>1. CASE MarkAgentOnline(i)
    BY <1>0, <1>1, <2>1, OnlineRow
  <2>2. CASE ~MarkAgentOnline(i)
    <3>1. pc[i] = "online" \/ latest[AgentOf[i]] = i
      <4>1. ASSUME pc'[i] = "online" PROVE pc[i] = "online"
        <5>2. CASE pc'[i] = pc[i]
          BY <4>1, <5>2
        <5>3. ASSUME NEW m \in Procs, Register(m), pc'[i] # pc[i] PROVE FALSE
          <6>1. \A st : pc' = [pc EXCEPT ![m] = st] => i = m /\ st = "online"
            BY <1>1, <4>1, <5>3
          <6>2. CASE RevokeForAgent(m) \/ ListRunningJobsForAgent(m) \/ CreateSession(m) \/ ReplayCancels(m)
            <7>1. \E st \in {"revoked", "reclaiming", "published", "registered"} :
                     pc' = [pc EXCEPT ![m] = st]
              BY <6>2 DEF RevokeForAgent, ListRunningJobsForAgent, CreateSession, ReplayCancels
            <7> QED BY <6>1, <7>1
          <6>3. CASE MarkAgentOnline(m)
            BY <2>2, <6>1, <6>3 DEF MarkAgentOnline
          <6>4. CASE \E s \in todo[m] : ReclaimAgentJob(m, s)
            BY <5>3, <6>4 DEF ReclaimAgentJob
          <6> QED BY <5>3, <6>2, <6>3, <6>4 DEF Register
        <5>4. ASSUME NEW m \in Procs, Connect(m) PROVE pc'[i] = pc[i]
          <6>1. \E st \in Steps \ Unpublished : pc' = [pc EXCEPT ![m] = st]
            BY <5>4 DEF Connect, ClaimConnect, MarkReady, StreamEnds, CheckSuperseded,
               MarkAgentOffline, Steps, Unpublished
          <6> QED BY <1>1, <4>1, <6>1 DEF Unpublished
        <5>5. ASSUME \/ \E m \in Procs : ReceiveDraining(m) \/ ReleaseSlot(m)
                     \/ DispatchAssignment
                     \/ \E t \in sweep.fence : FenceStaleSession(t)
              PROVE  UNCHANGED pc
          BY <5>5 DEF ReceiveDraining, ReleaseSlot, DispatchAssignment, FenceStaleSession
        <5>6. ~ServerCrash
          BY <4>1 DEF ServerCrash
        <5> QED BY <5>2, <5>3, <5>4, <5>5, <5>6, WhoMovesSessions
      <4>2. ASSUME latest'[AgentOf[i]] = i PROVE pc[i] = "online" \/ latest[AgentOf[i]] = i
        <5>1. CASE LatestMoves
          BY <1>0, <4>2, <5>1 DEF LatestMoves, Stays
        <5>2. ASSUME NEW m \in Procs, CreateSession(m)
              PROVE  pc[i] = "online" \/ latest[AgentOf[i]] = i
          <6>1. pc[m] = "online" /\ SessionsTyped /\ AgentsTyped
            BY <5>2 DEF CreateSession, SessionInv, Typed
          <6> QED BY <1>0, <4>2, <5>2, <6>1, CreateFacts
        <5> QED BY <5>1, <5>2, StoreMoves
      <4> QED BY <4>1, <4>2
    <3>2. db[AgentOf[i]].online /\ sess[i].gen = db[AgentOf[i]].gen /\ sess[i].gen > 0
      BY <1>0, <3>1 DEF NewestIsOnline
    <3>3. CASE \A m \in Procs : ~MarkAgentOnline(m)
      <4>1. sess'[i].gen = sess[i].gen /\ db'[AgentOf[i]].gen = db[AgentOf[i]].gen
        BY <1>0, <3>3, GenMoves, OnlineMoves
      <4>2. ASSUME ~db'[AgentOf[i]].online PROVE FALSE
        <5>1. PICK k \in Procs : /\ pc[k] = "offlining" /\ AgentOf[k] = AgentOf[i]
                                 /\ sess[k].gen = db[AgentOf[i]].gen
          BY <1>0, <3>2, <3>3, <4>2, OnlineMoves
        <5>2. k = i
          BY <1>0, <1>1, <3>2, <5>1 DEF Generations
        <5>3. pc[i] # "offlining"
          BY <1>0, <3>1, StoreShape DEF Published
        <5> QED BY <5>1, <5>2, <5>3
      <4> QED BY <3>2, <4>1, <4>2
    <3>4. ASSUME NEW m \in Procs, MarkAgentOnline(m)
          PROVE  /\ db'[AgentOf[i]].online
                 /\ sess'[i].gen = db'[AgentOf[i]].gen /\ sess'[i].gen > 0
      <4>1. /\ Registering(m) /\ m # i
            /\ \A b \in Agents \ {AgentOf[m]} : db'[b] = db[b]
            /\ \A k \in Procs \ {m} : sess'[k] = sess[k]
        BY <2>2, <3>4, OnlineRow DEF Registering
      <4>2. AgentOf[m] # AgentOf[i]
        <5>1. CASE pc[i] = "online"
          BY <1>0, <4>1, <5>1 DEF OneRegister, Registering
        <5>2. CASE latest[AgentOf[i]] = i
          BY <1>0, <4>1, <5>2 DEF OneRegister
        <5> QED BY <3>1, <5>1, <5>2
      <4> QED BY <1>0, <3>2, <4>1, <4>2
    <3> QED BY <3>3, <3>4
  <2> QED BY <2>1, <2>2
<1> QED BY <1>3, <1>4, <1>5

-----------------------------------------------------------------------------
(* The theorems                                                            *)

\* A fresh server with no process yet satisfies the invariant.
LEMMA SessionInvInit ==
    ASSUME Init
    PROVE  SessionInv
<1>0. Start(Procs, [claim |-> MaxClaims, cancel |-> MaxCancels, rerun |-> MaxReruns,
                    revive |-> MaxRevivals, stale |-> MaxStale, loss |-> MaxLosses])
  BY DEF Init
<1>1. RowsTyped
  BY <1>0 DEF Start, RowsTyped, Rows, Statuses
<1>2. AgentsTyped
  BY <1>0 DEF Start, AgentsTyped, AgentRows
<1>3. SessionsTyped
  <2>1. EmptySession \in Sessions
    BY DEF EmptySession, Sessions
  <2> QED BY <1>0, <2>1 DEF Start, SessionsTyped, Steps
<1>4. \A i \in Procs : out[i] = <<>> /\ Len(out[i]) = 0 /\ 1..Len(out[i]) = {}
  BY <1>0 DEF Start
<1>5. QueuesTyped
  BY <1>0, <1>4, SessionAssumption DEF Start, QueuesTyped
<1>6. ProcessesTyped
  BY <1>0 DEF Start, ProcessesTyped
<1>7. RequestsTyped
  BY <1>0, SessionAssumption DEF Start, RequestsTyped, Budgets
<1>8. \A i \in Procs : /\ sess[i] = EmptySession /\ work[i] = {} /\ inbox[i] = {}
                       /\ handler[i] = None /\ pc[i] = "new"
  BY <1>0 DEF Start
<1>9. \A i \in Procs : /\ sess[i].slots = 0 /\ sess[i].gen = 0 /\ ~sess[i].revoked
                       /\ \A j \in Jobs : sess[i].assigned[j] = None
  BY <1>8 DEF EmptySession
<1>10. \A i \in Procs : Copies(i) = {} /\ Held(i) = {}
  BY <1>4, <1>8, <1>9 DEF Copies, OutCopies, WorkCopies, ResultCopies, HandlerCopies, Held
<1>11. (\A a \in Agents : latest[a] = None) /\ claim = None
  BY <1>0 DEF Start
<1>12. StoreAgrees /\ FreshIsEmpty /\ ClaimHasSlot /\ HandlerHolds
  BY <1>8, <1>9, <1>11 DEF StoreAgrees, FreshIsEmpty, ClaimHasSlot, HandlerHolds
<1>13. SlotsCount
  BY <1>9, <1>10, FS_EmptySet, SessionAssumption DEF SlotsCount
<1>14. QueuedOnce /\ OneCopy /\ CopiesHeld
  BY <1>4, <1>10 DEF QueuedOnce, OneCopy, CopiesHeld
<1>15. AttemptsPast /\ ClaimIsNew /\ CopiesCurrent
  BY <1>9, <1>10, <1>11 DEF AttemptsPast, ClaimIsNew, CopiesCurrent
<1>16. ResultIsCurrent
  BY <1>0 DEF Start, ResultIsCurrent
<1>17. OnlineInv
  <2>1. \A i \in Procs : AgentOf[i] \in Agents /\ i # None
    BY SessionAssumption
  <2>2. \A a \in Agents : db[a].gen = 0
    BY <1>0 DEF Start
  <2> QED BY <1>8, <1>9, <1>11, <2>1, <2>2 DEF OnlineInv, OneRegister, Registering, Generations,
          NewestIsOnline
<1> QED BY <1>1, <1>2, <1>3, <1>5, <1>6, <1>7, <1>12, <1>13, <1>14, <1>15, <1>16, <1>17
        DEF SessionInv, Typed, HandedOnce

\* Every step of a process, a handler, the scheduler or the reaper keeps it.
LEMMA SessionInvStep ==
    ASSUME SessionInv, Next
    PROVE  SessionInv'
BY TypedStays, StoreStays, SlotsStay, FreshStays, ClaimStays, HandlerStays, QueuedOnceStays,
   OneCopyStays, CopiesHeldStays, HandedStays, OnlineStays DEF SessionInv

\* So does a step of something else.
LEMMA SessionInvStutter ==
    ASSUME SessionInv, UNCHANGED vars
    PROVE  SessionInv'
<1>1. Typed' /\ StoreAgrees' /\ FreshIsEmpty' /\ ClaimHasSlot' /\ HandlerHolds'
  BY DEF SessionInv, vars, Typed, RowsTyped, AgentsTyped, SessionsTyped, QueuesTyped,
     ProcessesTyped, RequestsTyped, StoreAgrees, InStore, FreshIsEmpty, ClaimHasSlot, HandlerHolds
<1>2. \A k \in Procs : Copies(k)' = Copies(k) /\ Held(k)' = Held(k)
  BY CopiesNext DEF vars, Copies, Held
<1>3. SlotsCount' /\ QueuedOnce' /\ OneCopy' /\ CopiesHeld'
  BY <1>2 DEF SessionInv, vars, SlotsCount, QueuedOnce, OneCopy, CopiesHeld
<1>4. HandedOnce'
  BY <1>2 DEF SessionInv, vars, HandedOnce, NoRevivalYet, AttemptsPast, ClaimIsNew, CopiesCurrent,
     ResultIsCurrent
<1>5. OnlineInv'
  BY DEF SessionInv, vars, OnlineInv, OneRegister, Registering, Generations, NewestIsOnline
<1> QED BY <1>1, <1>3, <1>4, <1>5 DEF SessionInv

\* The inductive invariant holds in every reachable state, for any number of
\* processes, agents and jobs and any interleaving of Register, Connect, the
\* result handlers, the scheduler, the reaper and a crash of the server.
THEOREM SessionInvariant == Spec => []SessionInv
<1>1. Init => SessionInv
  BY SessionInvInit
<1>2. SessionInv /\ [Next]_vars => SessionInv'
  BY SessionInvStep, SessionInvStutter
<1> QED BY <1>1, <1>2, PTL DEF Spec

\* Rows, sessions, queues and everything under way are well typed; in
\* particular DecRunning never counts a session's slots below zero.
THEOREM SessionsAreTyped == Spec => []TypeOK
<1>1. SessionInv => TypeOK
  <2> SUFFICES ASSUME Typed PROVE TypeOK
    BY DEF SessionInv
  <2>1. /\ row \in [Jobs -> Rows] /\ serial \in [Jobs -> Nat] /\ closer \in [Jobs -> Nat]
        /\ db \in [Agents -> AgentRows] /\ latest \in [Agents -> Procs \cup {None}]
        /\ sess \in [Procs -> Sessions] /\ pc \in [Procs -> Steps]
    BY DEF Typed, RowsTyped, AgentsTyped, SessionsTyped
  <2>2. \A i \in Procs : \A n \in 1..Len(out[i]) : out[i][n] \in Outgoing
    BY QueueShape
  <2>3. /\ alive \in [Procs -> BOOLEAN] /\ quits \in [Procs -> BOOLEAN]
        /\ work \in [Procs -> SUBSET Works] /\ inbox \in [Procs -> SUBSET Results]
        /\ \A i \in Procs : handler[i] \in {None} \cup Handling
    BY DEF Typed, ProcessesTyped
  <2>4. /\ todo \in [Procs -> SUBSET Snapshot] /\ claim \in {None} \cup Snapshot
        /\ sweep \in [rows : SUBSET Listed, fence : SUBSET [agent : Agents, gen : Nat]]
        /\ frames \subseteq [job : Jobs, agent : Agents] /\ budget \in Budgets
        /\ muted \in [Jobs -> Nat]
    BY DEF Typed, RequestsTyped
  <2> QED BY <2>1, <2>2, <2>3, <2>4 DEF TypeOK, Rows, Statuses, AgentRows, Sessions, Outgoing,
          Works, Results, Handling, Listed, Budgets
<1> QED BY <1>1, SessionInvariant, PTL

\* A session never holds, and its process never executes, more jobs than its
\* capacity: the slot counter of the session store is the number of its
\* assignments, and an assignment is executed at most once at a time.
THEOREM CapacityIsRespected == Spec => []CapacityRespected
<1>1. ASSUME SessionInv PROVE CapacityRespected
  <2> SUFFICES ASSUME NEW i \in Procs
               PROVE  /\ sess[i].slots = Cardinality({j \in Jobs : sess[i].assigned[j] # None})
                      /\ sess[i].slots \in 0..Capacity
                      /\ Cardinality(work[i]) <= Capacity
    BY DEF CapacityRespected
  <2>0. Typed /\ Capacity \in Nat /\ sess[i].slots \in Nat
    BY <1>1, SessionAssumption, SessionShape DEF SessionInv, Typed
  <2>1. sess[i].slots = Cardinality(Held(i)) /\ sess[i].slots <= Capacity
    BY <1>1 DEF SessionInv, SlotsCount
  <2>2. IsFiniteSet(Held(i))
    BY SessionAssumption, FS_Subset DEF Held
  <2> DEFINE f == [x \in work[i] |-> x.job]
             c(x) == [at |-> "work", job |-> x.job, serial |-> x.serial]
  <2>3. \A x \in work[i] : x \in Works /\ c(x) \in Copies(i) /\ c(x).job = x.job
    BY <2>0, ProcessShape DEF Copies, WorkCopies
  <2>4. \A x \in work[i] : x.job \in Held(i)
    <3> SUFFICES ASSUME NEW x \in work[i] PROVE x.job \in Held(i)
      OBVIOUS
    <3>1. x.job \in Jobs
      BY <2>3 DEF Works
    <3>2. sess[i].assigned[c(x).job] # None
      <4> HIDE DEF c
      <4> QED BY <1>1, <2>3 DEF SessionInv, CopiesHeld
    <3> QED BY <3>1, <3>2 DEF Held
  <2>5. \A x, y \in work[i] : x.job = y.job => x = y
    <3> SUFFICES ASSUME NEW x \in work[i], NEW y \in work[i], x.job = y.job PROVE x = y
      OBVIOUS
    <3>1. c(x) = c(y)
      <4> HIDE DEF c
      <4> QED BY <1>1, <2>3 DEF SessionInv, OneCopy
    <3>2. x \in Works /\ y \in Works /\ x.serial = y.serial
      BY <2>3, <3>1
    <3> QED BY <3>2 DEF Works
  <2>6. f \in Injection(work[i], Held(i))
    BY <2>4, <2>5 DEF Injection, IsInjective
  <2>7. Cardinality(work[i]) <= Cardinality(Held(i)) /\ IsFiniteSet(work[i])
    BY <2>2, <2>6, FS_Injection
  <2>8. Cardinality(work[i]) \in Nat /\ Cardinality(Held(i)) \in Nat
    BY <2>2, <2>7, FS_CardinalityType
  <2> QED BY <2>0, <2>1, <2>7, <2>8 DEF Held
<1> QED BY <1>1, SessionInvariant, PTL

\* Until a canceled row is revived under the attempt it had, the result that
\* closes a row is the result of its latest claim: the session checks and the
\* (agent, attempt) compare-and-set drop every other.
THEOREM ResultsAreCurrent == Spec => [](NoRevivalYet => ResultIsCurrent)
<1>1. SessionInv => (NoRevivalYet => ResultIsCurrent)
  BY DEF SessionInv, HandedOnce
<1> QED BY <1>1, SessionInvariant, PTL

\* When processes and Register calls of one agent id do not overlap, an agent
\* that has a session in the store is marked online: the generation check of
\* MarkAgentOffline keeps an old stream from undoing a newer Register.
THEOREM SessionsAreOnline == Overlap = FALSE => (Spec => []SessionImpliesOnline)
<1>1. Overlap = FALSE /\ SessionInv => SessionImpliesOnline
  <2> SUFFICES ASSUME Overlap = FALSE, SessionInv, NEW a \in Agents, latest[a] # None
               PROVE  db[a].online
    BY DEF SessionImpliesOnline
  <2>1. latest[a] \in Procs /\ AgentOf[latest[a]] = a
    BY StoreShape
  <2> QED BY <2>1 DEF SessionInv, OnlineInv, NewestIsOnline
<1>2. CASE Overlap = FALSE
  <2>1. SessionInv => SessionImpliesOnline
    BY <1>1, <1>2
  <2>2. Spec => []SessionImpliesOnline
    BY <2>1, SessionInvariant, PTL
  <2> QED BY <2>2
<1> QED BY <1>2
=============================================================================
