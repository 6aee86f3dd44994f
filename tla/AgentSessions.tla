--------------------------- MODULE AgentSessions ---------------------------
(***************************************************************************)
(* Agent processes, the sessions the control plane keeps for them, and the *)
(* job rows handed out through those sessions.                             *)
(*                                                                         *)
(* A process registers once and holds one stream; when the stream breaks   *)
(* it exits and a supervisor starts another process under the same agent   *)
(* id.  So a process and its session share the index i.  The server finds  *)
(* out late, or wrongly: heartbeats go missing, streams stay half open,    *)
(* the reaper revokes sessions of agents that are still alive, and a new   *)
(* process registers while the old stream's handler is still unwinding.    *)
(* The in-memory session store, the agents row and the job rows are three  *)
(* places that have to agree, with no transaction across them.             *)
(*                                                                         *)
(* Abstracted here: stages, needs and runs (module RunLifecycle), several  *)
(* jobs' materials and payloads, tags, log and test-result frames.         *)
(***************************************************************************)
EXTENDS Integers, Sequences, FiniteSets

CONSTANTS
    Procs,        \* agent processes in the order they are started: 1..N
    AgentOf,      \* the agent id a process registers as
    Agents,       \* agent ids
    Jobs,         \* job_runs
    Capacity,     \* declared capacity of a session
    SendBuffer,   \* length of a session's send queue (defaultSendBuffer)
    MaxAttempts,  \* cap of automatic retries
    Overlap,      \* may processes, or Register calls, of one agent id overlap?
    MaxClaims,    \* bound: claims; a dispatch that is refused may be tried for ever
    MaxCancels,   \* bound: cancel requests
    MaxReruns,    \* bound: reruns of a finished job
    MaxRevivals,  \* bound: revivals of a canceled job by a rerun upstream
    MaxStale,     \* bound: heartbeat timeouts of an agent that is alive
    MaxLosses,    \* bound: disruptions and server crashes
    None          \* no agent, no session, no claim, no assignment

ASSUME SessionAssumption ==
    /\ Procs \subseteq Nat \ {0} /\ IsFiniteSet(Procs)
    /\ AgentOf \in [Procs -> Agents] /\ IsFiniteSet(Jobs)
    /\ {Capacity, SendBuffer} \subseteq Nat \ {0}
    /\ {MaxAttempts, MaxClaims, MaxCancels, MaxReruns, MaxRevivals, MaxStale, MaxLosses} \subseteq Nat
    /\ Overlap \in BOOLEAN
    /\ None \notin Agents \cup Procs \cup Nat

VARIABLES
    row,      \* job_runs: [status, agent, attempt, stamp]
    serial,   \* history: how many times a row was claimed
    closer,   \* history: the claim whose result closed the row
    muted,    \* history: the claim whose dispatch was taken for a duplicate
    db,       \* agents: [online, gen, fresh]; fresh: last_seen_at not yet stale
    latest,   \* SessionStore.latestByAg
    sess,     \* Session: [gen, revoked, superseded, draining, slots, assigned]
    pc,       \* how far Register and Connect got with a process
    todo,     \* rows Register listed and has not reclaimed yet
    out,      \* the session's send queue
    alive,    \* the process lives
    quits,    \* the process is shutting down and takes no assignments
    work,     \* jobs executing inside the process
    inbox,    \* result frames on the stream towards the server
    handler,  \* the result handleJobResult is working on
    claim,    \* the scheduler's claim between AssignJob and DispatchAssignment
    sweep,    \* the reaper: [rows, fence], listed rows and sessions to fence
    frames,   \* CancelJob frames a cancel handler still has to send
    budget    \* requests and failures left to happen

db_rows == <<row, serial, closer, muted>>
server == <<latest, sess, pc, todo, out, handler, claim, sweep, frames>>
process == <<alive, quits, work, inbox>>
vars == <<row, serial, closer, muted, db, latest, sess, pc, todo, out, alive, quits,
          work, inbox, handler, claim, sweep, frames, budget>>

Kinds == {"done", "canceled", "disrupted"}
Snapshot == [job : Jobs, agent : Agents, attempt : Nat]

\* registered means published in the store; ready means schedulable.
Steps == {"new", "revoked", "reclaiming", "online", "published", "registered",
          "connecting", "ready", "closing", "offlining", "done"}
Published == {"published", "registered", "connecting", "ready"}

EmptySession == [gen |-> 0, revoked |-> FALSE, superseded |-> FALSE, draining |-> FALSE,
                 slots |-> 0, assigned |-> [j \in Jobs |-> None]]

TypeOK ==
    /\ row \in [Jobs -> [status : {"queued", "running", "finished", "canceled"},
                         agent : Agents \cup {None}, attempt : Nat, stamp : BOOLEAN]]
    /\ serial \in [Jobs -> Nat]
    /\ closer \in [Jobs -> Nat]
    /\ muted \in [Jobs -> Nat]
    /\ db \in [Agents -> [online : BOOLEAN, gen : Nat, fresh : BOOLEAN]]
    /\ latest \in [Agents -> Procs \cup {None}]
    /\ sess \in [Procs -> [gen : Nat, revoked : BOOLEAN, superseded : BOOLEAN,
                           draining : BOOLEAN, slots : Nat,
                           assigned : [Jobs -> Nat \cup {None}]]]
    /\ pc \in [Procs -> Steps]
    /\ todo \in [Procs -> SUBSET Snapshot]
    /\ \A i \in Procs : \A n \in 1..Len(out[i]) :
           out[i][n] \in [kind : {"assign", "cancel"}, job : Jobs, serial : Nat]
    /\ alive \in [Procs -> BOOLEAN]
    /\ quits \in [Procs -> BOOLEAN]
    /\ work \in [Procs -> SUBSET [job : Jobs, serial : Nat]]
    /\ inbox \in [Procs -> SUBSET [job : Jobs, serial : Nat, kind : Kinds]]
    /\ \A i \in Procs : handler[i] \in {None} \cup
           [job : Jobs, serial : Nat, kind : Kinds, attempt : Nat,
            step : {"reconcile", "write", "release"}]
    /\ claim \in {None} \cup Snapshot
    /\ sweep \in [rows : SUBSET [job : Jobs, agent : Agents, attempt : Nat, gen : Nat],
                  fence : SUBSET [agent : Agents, gen : Nat]]
    /\ frames \subseteq [job : Jobs, agent : Agents]
    /\ budget \in [claim : Nat, cancel : Nat, rerun : Nat, revive : Nat, stale : Nat, loss : Nat]

\* A fresh server and an idle job; the processes in P are those that may start,
\* b bounds what may happen to them.
Start(P, b) ==
    /\ row = [j \in Jobs |-> [status |-> "queued", agent |-> None, attempt |-> 0,
                              stamp |-> FALSE]]
    /\ serial = [j \in Jobs |-> 0]
    /\ closer = [j \in Jobs |-> 0]
    /\ muted = [j \in Jobs |-> 0]
    /\ db = [a \in Agents |-> [online |-> FALSE, gen |-> 0, fresh |-> FALSE]]
    /\ latest = [a \in Agents |-> None]
    /\ sess = [i \in Procs |-> EmptySession]
    /\ pc = [i \in Procs |-> IF i \in P THEN "new" ELSE "done"]
    /\ todo = [i \in Procs |-> {}]
    /\ out = [i \in Procs |-> <<>>]
    /\ alive = [i \in Procs |-> FALSE]
    /\ quits = [i \in Procs |-> FALSE]
    /\ work = [i \in Procs |-> {}]
    /\ inbox = [i \in Procs |-> {}]
    /\ handler = [i \in Procs |-> None]
    /\ claim = None
    /\ sweep = [rows |-> {}, fence |-> {}]
    /\ frames = {}
    /\ budget = b

Init == Start(Procs, [claim |-> MaxClaims, cancel |-> MaxCancels, rerun |-> MaxReruns,
                      revive |-> MaxRevivals, stale |-> MaxStale, loss |-> MaxLosses])

-----------------------------------------------------------------------------
(* The session store and the row updates the handlers share                *)

\* In byID: published and not yet dropped by Revoke.
InStore(i) == pc[i] \in Published /\ ~sess[i].revoked

\* Revoke the session an agent currently has, if any.  Only a successor's
\* Register marks it superseded.
RevokeCurrent(a, superseded) ==
    /\ sess' = [i \in Procs |->
                  IF i = latest[a] /\ InStore(i)
                  THEN [sess[i] EXCEPT !.revoked = TRUE, !.superseded = @ \/ superseded]
                  ELSE sess[i]]
    /\ latest' = [latest EXCEPT ![a] = None]

\* Mutant of Stale: an agent that stopped reporting is not stale.
OfflineOnly(a) == ~db[a].online

Stale(a) == ~db[a].online \/ ~db[a].fresh
Matches(s) == row[s.job].agent = s.agent /\ row[s.job].attempt = s.attempt

\* requeueStaleJob below the cap, failJobIfStale at it; a row that moved on or
\* was canceled is left alone.
Reclaimable(s) == row[s.job].status = "running" /\ ~row[s.job].stamp /\ Matches(s)
Reclaimed(r) ==
    IF r.attempt + 1 > MaxAttempts THEN [r EXCEPT !.status = "finished"]
    ELSE [r EXCEPT !.status = "queued", !.agent = None, !.attempt = @ + 1]
Reclaim(s) ==
    /\ row' = IF Reclaimable(s) THEN [row EXCEPT ![s.job] = Reclaimed(@)] ELSE row
    /\ UNCHANGED <<serial, closer, muted>>

\* A frame joins the send queue of the session the agent has now, if there is
\* one and its queue has room.
CanQueue(i) == i # None /\ InStore(i) /\ Len(out[i]) < SendBuffer
Queued(i, f) == [out EXCEPT ![i] = Append(@, f)]

-----------------------------------------------------------------------------
(* Register and Connect                                                    *)

\* A process starts and calls Register; RevokeForAgent comes first.
RevokeForAgent(i) ==
    /\ pc[i] = "new"
    /\ \A k \in Procs : k < i => pc[k] # "new"
    /\ Overlap \/ \A k \in Procs : AgentOf[k] = AgentOf[i] =>
                      ~alive[k] /\ pc[k] \notin {"online", "published"}
    /\ alive' = [alive EXCEPT ![i] = TRUE]
    /\ pc' = [pc EXCEPT ![i] = "revoked"]
    /\ RevokeCurrent(AgentOf[i], TRUE)
    /\ UNCHANGED <<db_rows, db, todo, out, quits, work, inbox, handler, claim, sweep,
                   frames, budget>>

\* Mutant of ListRunningJobsForAgent: Register takes no rows back.
ListNothing(i) ==
    /\ pc[i] = "revoked"
    /\ alive[i]
    /\ pc' = [pc EXCEPT ![i] = "reclaiming"]
    /\ UNCHANGED <<db_rows, db, latest, sess, todo, out, process, handler, claim, sweep,
                   frames, budget>>

\* ReclaimAgentJobs: list the agent's running rows, then one transaction each.
ListRunningJobsForAgent(i) ==
    /\ pc[i] = "revoked"
    /\ alive[i]
    /\ pc' = [pc EXCEPT ![i] = "reclaiming"]
    /\ todo' = [todo EXCEPT ![i] =
                  {s \in {[job |-> j, agent |-> AgentOf[i], attempt |-> row[j].attempt] : j \in Jobs} :
                      Reclaimable(s)}]
    /\ UNCHANGED <<db_rows, db, latest, sess, out, process, handler, claim, sweep,
                   frames, budget>>

ReclaimAgentJob(i, s) ==
    /\ pc[i] = "reclaiming"
    /\ alive[i]
    /\ s \in todo[i]
    /\ todo' = [todo EXCEPT ![i] = @ \ {s}]
    /\ Reclaim(s)
    /\ UNCHANGED <<db, latest, sess, pc, out, process, handler, claim, sweep, frames,
                   budget>>

MarkAgentOnline(i) ==
    LET a == AgentOf[i]
    IN /\ pc[i] = "reclaiming"
       /\ alive[i]
       /\ todo[i] = {}
       /\ pc' = [pc EXCEPT ![i] = "online"]
       /\ db' = [db EXCEPT ![a] = [online |-> TRUE, gen |-> @.gen + 1, fresh |-> TRUE]]
       /\ sess' = [sess EXCEPT ![i].gen = db[a].gen + 1]
       /\ UNCHANGED <<db_rows, latest, todo, out, process, handler, claim, sweep, frames,
                      budget>>

\* CreateSession publishes the session and supersedes whatever is there.
CreateSession(i) ==
    LET a == AgentOf[i]
    IN /\ pc[i] = "online"
       /\ pc' = [pc EXCEPT ![i] = "published"]
       /\ sess' = [k \in Procs |->
                     IF k = latest[a] /\ InStore(k)
                     THEN [sess[k] EXCEPT !.revoked = TRUE, !.superseded = TRUE]
                     ELSE sess[k]]
       /\ latest' = [latest EXCEPT ![a] = i]
       /\ UNCHANGED <<db_rows, db, todo, out, process, handler, claim, sweep, frames,
                      budget>>

\* Register's last step replays the cancels that are stamped on the agent's
\* running rows, in any order, as far as the queue has room.
PendingCancels(a) == {j \in Jobs : row[j].status = "running" /\ row[j].stamp /\ row[j].agent = a}
ReplayCancels(i) ==
    LET k == latest[AgentOf[i]]
        pending == PendingCancels(AgentOf[i])
        room == IF k # None /\ InStore(k) THEN SendBuffer - Len(out[k]) ELSE 0
        n == IF room < Cardinality(pending) THEN room ELSE Cardinality(pending)
    IN /\ pc[i] = "published"
       /\ pc' = [pc EXCEPT ![i] = "registered"]
       /\ \/ /\ room = 0 \/ ~alive[i]
             /\ UNCHANGED out
          \/ /\ room > 0 /\ alive[i]
             /\ \E p \in [1..n -> pending] :
                   /\ \A x, y \in 1..n : p[x] = p[y] => x = y
                   /\ out' = [out EXCEPT ![k] = @ \o
                                [x \in 1..n |-> [kind |-> "cancel", job |-> p[x], serial |-> 0]]]
       /\ UNCHANGED <<db_rows, db, latest, sess, todo, process, handler, claim, sweep,
                      frames, budget>>

\* Connect: claim the session, start the pump, then become schedulable.  A
\* session that was revoked meanwhile ends the process instead.
ClaimConnect(i) ==
    /\ pc[i] = "registered"
    /\ alive[i]
    /\ \/ /\ InStore(i) /\ latest[AgentOf[i]] = i
          /\ pc' = [pc EXCEPT ![i] = "connecting"]
          /\ UNCHANGED alive
       \/ /\ ~(InStore(i) /\ latest[AgentOf[i]] = i)
          /\ pc' = [pc EXCEPT ![i] = "done"]
          /\ alive' = [alive EXCEPT ![i] = FALSE]
    /\ UNCHANGED <<db_rows, db, latest, sess, todo, out, quits, work, inbox, handler,
                   claim, sweep, frames, budget>>

MarkReady(i) ==
    /\ pc[i] = "connecting"
    /\ \/ /\ InStore(i)
          /\ pc' = [pc EXCEPT ![i] = "ready"]
          /\ UNCHANGED <<alive, work>>
       \/ /\ ~InStore(i)
          /\ pc' = [pc EXCEPT ![i] = "done"]
          /\ alive' = [alive EXCEPT ![i] = FALSE]
          /\ work' = [work EXCEPT ![i] = {}]
    /\ UNCHANGED <<db_rows, db, latest, sess, todo, out, quits, inbox, handler,
                   claim, sweep, frames, budget>>

\* The stream of a dead process ends: the deferred Revoke.
StreamEnds(i) ==
    /\ pc[i] = "ready"
    /\ ~alive[i]
    /\ handler[i] = None
    /\ pc' = [pc EXCEPT ![i] = "closing"]
    /\ sess' = [sess EXCEPT ![i].revoked = TRUE]
    /\ latest' = [latest EXCEPT ![AgentOf[i]] = IF @ = i THEN None ELSE @]
    /\ inbox' = [inbox EXCEPT ![i] = {}]
    /\ UNCHANGED <<db_rows, db, todo, out, alive, quits, work, handler, claim, sweep,
                   frames, budget>>

\* The rest of the defer decides whether to mark the agent offline ...
CheckSuperseded(i) ==
    /\ pc[i] = "closing"
    /\ pc' = [pc EXCEPT ![i] = IF sess[i].superseded \/ latest[AgentOf[i]] \notin {None, i}
                               THEN "done" ELSE "offlining"]
    /\ UNCHANGED <<db_rows, db, latest, sess, todo, out, process, handler, claim, sweep,
                   frames, budget>>

\* Mutant of MarkAgentOffline: no generation check.
MarkAgentOfflineAlways(i) ==
    /\ pc[i] = "offlining"
    /\ pc' = [pc EXCEPT ![i] = "done"]
    /\ db' = [db EXCEPT ![AgentOf[i]].online = FALSE]
    /\ UNCHANGED <<db_rows, latest, sess, todo, out, process, handler, claim, sweep,
                   frames, budget>>

\* ... and does so only if nobody registered since this session did.
MarkAgentOffline(i) ==
    /\ pc[i] = "offlining"
    /\ pc' = [pc EXCEPT ![i] = "done"]
    /\ db' = [db EXCEPT ![AgentOf[i]].online = @ /\ db[AgentOf[i]].gen # sess[i].gen]
    /\ UNCHANGED <<db_rows, latest, sess, todo, out, process, handler, claim, sweep,
                   frames, budget>>

-----------------------------------------------------------------------------
(* The scheduler: claim a row, hand it to the session, undo what fails     *)

Idle(i) ==
    /\ InStore(i) /\ pc[i] = "ready"
    /\ ~sess[i].draining
    /\ sess[i].slots < Capacity

\* FindIdleWithTags and AssignJob.
AssignJob(j, a) ==
    /\ claim = None
    /\ latest[a] # None /\ Idle(latest[a])
    /\ row[j].status = "queued" /\ row[j].agent = None
    /\ budget.claim > 0
    /\ budget' = [budget EXCEPT !.claim = @ - 1]
    /\ row' = [row EXCEPT ![j].status = "running", ![j].agent = a]
    /\ serial' = [serial EXCEPT ![j] = @ + 1]
    /\ closer' = [closer EXCEPT ![j] = 0]
    /\ claim' = [job |-> j, agent |-> a, attempt |-> row[j].attempt]
    /\ UNCHANGED <<muted, db, latest, sess, pc, todo, out, process, handler, sweep, frames>>

\* DispatchAssignment accepts the claim: the session records it and queues the
\* assignment.  An assignment it already holds is taken for a duplicate, and
\* nothing is sent.
Accepts(i) ==
    /\ i # None /\ InStore(i) /\ pc[i] = "ready" /\ ~sess[i].draining
    /\ \/ sess[i].assigned[claim.job] = claim.attempt
       \/ sess[i].assigned[claim.job] = None /\ Len(out[i]) < SendBuffer

DispatchAssignment ==
    LET i == latest[claim.agent]
        j == claim.job
    IN /\ claim # None
       /\ Accepts(i)
       /\ claim' = None
       /\ \/ /\ sess[i].assigned[j] = None
             /\ out' = Queued(i, [kind |-> "assign", job |-> j, serial |-> serial[j]])
             /\ sess' = [sess EXCEPT ![i].assigned[j] = claim.attempt, ![i].slots = @ + 1]
             /\ UNCHANGED muted
          \/ /\ sess[i].assigned[j] # None
             /\ muted' = [muted EXCEPT ![j] = serial[j]]
             /\ UNCHANGED <<out, sess>>
       /\ UNCHANGED <<row, serial, closer, db, latest, pc, todo, process, handler, sweep, frames,
                      budget>>

\* No session, not ready, draining, another attempt on it, or a full queue:
\* rollbackUndispatchedAssignment undoes the claim if it is still there.
UnassignJob ==
    LET j == claim.job
    IN /\ claim # None
       /\ ~Accepts(latest[claim.agent])
       /\ claim' = None
       /\ row' = IF row[j].status = "running" /\ Matches(claim)
                 THEN [row EXCEPT ![j] = IF @.stamp THEN [@ EXCEPT !.status = "canceled"]
                                         ELSE [@ EXCEPT !.status = "queued", !.agent = None]]
                 ELSE row
       /\ UNCHANGED <<serial, closer, muted, db, latest, sess, pc, todo, out, process, handler,
                      sweep, frames, budget>>

-----------------------------------------------------------------------------
(* The agent process                                                       *)

\* The pump writes what is queued, even after the queue was closed by Revoke.
\* The process starts an assignment unless it is shutting down or runs the job
\* already, and stops a job it runs when told to cancel it.
Receive(i) ==
    LET f == Head(out[i])
        runs == {x \in work[i] : x.job = f.job}
    IN /\ pc[i] \in {"connecting", "ready"}
       /\ out[i] # <<>>
       /\ out' = [out EXCEPT ![i] = Tail(@)]
       /\ IF f.kind = "assign"
          THEN /\ work' = IF alive[i] /\ ~quits[i] /\ runs = {}
                          THEN [work EXCEPT ![i] = @ \cup {[job |-> f.job, serial |-> f.serial]}]
                          ELSE work
               /\ UNCHANGED inbox
          ELSE /\ work' = [work EXCEPT ![i] = @ \ runs]
               /\ inbox' = [inbox EXCEPT ![i] = @ \cup
                              {[job |-> x.job, serial |-> x.serial, kind |-> "canceled"] : x \in runs}]
       /\ UNCHANGED <<db_rows, db, latest, sess, pc, todo, alive, quits, handler, claim,
                      sweep, frames, budget>>

\* A job ends by itself, or the platform takes its pod away.
FinishWork(i, x, kind) ==
    /\ x \in work[i]
    /\ work' = [work EXCEPT ![i] = @ \ {x}]
    /\ inbox' = [inbox EXCEPT ![i] = @ \cup {[job |-> x.job, serial |-> x.serial, kind |-> kind]}]
    /\ \/ kind = "done" /\ UNCHANGED budget
       \/ /\ kind = "disrupted" /\ budget.loss > 0
          /\ budget' = [budget EXCEPT !.loss = @ - 1]
    /\ UNCHANGED <<db_rows, db, server, alive, quits>>

\* Shutdown: the process stops taking assignments and says so (Draining frame),
\* then exits.  It may also just die; either way its jobs die with it.
Quit(i) ==
    /\ alive[i] /\ pc[i] = "ready" /\ ~quits[i]
    /\ quits' = [quits EXCEPT ![i] = TRUE]
    /\ UNCHANGED <<db_rows, db, server, alive, work, inbox, budget>>

ReceiveDraining(i) ==
    /\ pc[i] = "ready" /\ quits[i] /\ ~sess[i].draining /\ handler[i] = None
    /\ sess' = [sess EXCEPT ![i].draining = TRUE]
    /\ UNCHANGED <<db_rows, db, latest, pc, todo, out, process, handler, claim, sweep,
                   frames, budget>>

Exit(i) ==
    /\ alive[i]
    /\ alive' = [alive EXCEPT ![i] = FALSE]
    /\ work' = [work EXCEPT ![i] = {}]
    /\ UNCHANGED <<db_rows, db, server, quits, inbox, budget>>

\* UpdateAgentLastSeen.  Any stream of the agent counts, revoked or not.
Heartbeat(i) ==
    /\ alive[i] /\ pc[i] = "ready" /\ handler[i] = None
    /\ ~db[AgentOf[i]].fresh
    /\ db' = [db EXCEPT ![AgentOf[i]].fresh = TRUE]
    /\ UNCHANGED <<db_rows, server, process, budget>>

\* The staleness window passes without a heartbeat: nobody is left to send one,
\* or heartbeats were delayed.
Silent(a) == \A i \in Procs : AgentOf[i] = a => ~alive[i]
Expire(a) ==
    /\ db[a].fresh
    /\ db' = [db EXCEPT ![a].fresh = FALSE]
    /\ \/ Silent(a) /\ UNCHANGED budget
       \/ /\ budget.stale > 0
          /\ budget' = [budget EXCEPT !.stale = @ - 1]
    /\ UNCHANGED <<db_rows, server, process>>

-----------------------------------------------------------------------------
(* handleJobResult: check, reconcile, compare-and-set, release             *)

ReceiveResult(i, f) ==
    LET n == sess[i].assigned[f.job]
    IN /\ pc[i] = "ready" /\ handler[i] = None
       /\ f \in inbox[i]
       /\ inbox' = [inbox EXCEPT ![i] = @ \ {f}]
       /\ handler' = IF sess[i].revoked \/ n = None THEN handler
                     ELSE [handler EXCEPT ![i] = [job |-> f.job, serial |-> f.serial,
                              kind |-> f.kind, attempt |-> n, step |-> "reconcile"]]
       /\ UNCHANGED <<db_rows, db, latest, sess, pc, todo, out, alive, quits, work, claim,
                      sweep, frames, budget>>

\* Artifacts were confirmed; the revoked flag is read once more, except for a
\* disrupted job, which skips both.
RecheckRevoked(i) ==
    LET h == handler[i]
    IN /\ h # None /\ h.step = "reconcile"
       /\ handler' = [handler EXCEPT ![i] =
                        IF sess[i].revoked /\ h.kind # "disrupted" THEN None
                        ELSE [h EXCEPT !.step = "write"]]
       /\ UNCHANGED <<db_rows, db, latest, sess, pc, todo, out, process, claim, sweep,
                      frames, budget>>

\* Mutant of StillHeld: the compare-and-set forgets the attempt.
StillHeldByAgent(i, h) ==
    row[h.job].status = "running" /\ row[h.job].agent = AgentOf[i]

\* The (agent, attempt) compare-and-set of CompleteJob and HandleDisruptedJob.
StillHeld(i, h) ==
    row[h.job].status = "running" /\ row[h.job].agent = AgentOf[i]
        /\ row[h.job].attempt = h.attempt

Committed(r, kind) ==
    IF r.stamp \/ kind = "canceled" THEN [r EXCEPT !.status = "canceled"]
    ELSE IF kind = "disrupted" THEN Reclaimed(r)
    ELSE [r EXCEPT !.status = "finished"]

\* A snapshot that moved on drops the result, and the slot stays taken.
CommitResult(i) ==
    LET h == handler[i]
    IN /\ h # None /\ h.step = "write"
       /\ \/ /\ StillHeld(i, h)
             /\ handler' = [handler EXCEPT ![i].step = "release"]
             /\ row' = [row EXCEPT ![h.job] = Committed(@, h.kind)]
             /\ closer' = [closer EXCEPT ![h.job] = h.serial]
          \/ /\ ~StillHeld(i, h)
             /\ handler' = [handler EXCEPT ![i] = None]
             /\ UNCHANGED <<row, closer>>
       /\ UNCHANGED <<serial, muted, db, latest, sess, pc, todo, out, process, claim, sweep,
                      frames, budget>>

\* Mutant of ReleaseSlot: the slot is given back to the session the agent has
\* now, which may be a successor that never held it.
ReleaseSlotOfLatest(i) ==
    LET h == handler[i]
    IN /\ h # None /\ h.step = "release"
       /\ handler' = [handler EXCEPT ![i] = None]
       /\ sess' = [k \in Procs |->
                     [sess[k] EXCEPT !.assigned[h.job] = IF k = i THEN None ELSE @,
                                     !.slots = IF k = latest[AgentOf[i]] THEN @ - 1 ELSE @]]
       /\ UNCHANGED <<db_rows, db, latest, pc, todo, out, process, claim, sweep, frames,
                      budget>>

\* Mutant of ReleaseSlot: the assignment is not cleared.
ReleaseSlotKeepsEntry(i) ==
    /\ handler[i] # None /\ handler[i].step = "release"
    /\ handler' = [handler EXCEPT ![i] = None]
    /\ sess' = [sess EXCEPT ![i].slots = @ - 1]
    /\ UNCHANGED <<db_rows, db, latest, pc, todo, out, process, claim, sweep, frames,
                   budget>>

\* ClearAssignment and DecRunning, on the session that accepted the job.
ReleaseSlot(i) ==
    LET h == handler[i]
    IN /\ h # None /\ h.step = "release"
       /\ handler' = [handler EXCEPT ![i] = None]
       /\ sess' = [sess EXCEPT ![i].assigned[h.job] = None, ![i].slots = @ - 1]
       /\ UNCHANGED <<db_rows, db, latest, pc, todo, out, process, claim, sweep, frames,
                      budget>>

-----------------------------------------------------------------------------
(* The reaper: Sweep                                                       *)

\* Phase 0, one stamped row of an offline or stale agent.  No session is fenced.
ReclaimPendingCancel(j) ==
    /\ sweep = [rows |-> {}, fence |-> {}]
    /\ row[j].status = "running" /\ row[j].stamp /\ Stale(row[j].agent)
    /\ row' = [row EXCEPT ![j].status = "canceled"]
    /\ UNCHANGED <<serial, closer, muted, db, server, process, budget>>

\* Phase 1: list the rows of stale agents with the generation seen, then one
\* transaction each.
ListStaleRunningJobs ==
    LET found == {j \in Jobs : row[j].status = "running" /\ ~row[j].stamp /\ Stale(row[j].agent)}
    IN /\ sweep = [rows |-> {}, fence |-> {}]
       /\ found # {}
       /\ sweep' = [sweep EXCEPT !.rows =
                      {[job |-> j, agent |-> row[j].agent, attempt |-> row[j].attempt,
                        gen |-> db[row[j].agent].gen] : j \in found}]
       /\ UNCHANGED <<db_rows, db, latest, sess, pc, todo, out, process, handler, claim,
                      frames, budget>>

ReclaimStaleJob(s) ==
    /\ s \in sweep.rows
    /\ sweep' = [rows |-> sweep.rows \ {s},
                 fence |-> sweep.fence \cup (IF Reclaimable(s)
                                             THEN {[agent |-> s.agent, gen |-> s.gen]} ELSE {})]
    /\ Reclaim(s)
    /\ UNCHANGED <<db, latest, sess, pc, todo, out, process, handler, claim, frames, budget>>

\* Phase 2: fence the sessions behind the reclaimed rows, unless the agent has
\* registered again since phase 1.
FenceStaleSession(t) ==
    LET i == latest[t.agent]
    IN /\ sweep.rows = {}
       /\ t \in sweep.fence
       /\ sweep' = [sweep EXCEPT !.fence = @ \ {t}]
       /\ IF i # None /\ InStore(i) /\ sess[i].gen = t.gen
          THEN RevokeCurrent(t.agent, FALSE)
          ELSE UNCHANGED <<sess, latest>>
       /\ UNCHANGED <<db_rows, db, pc, todo, out, process, handler, claim, frames, budget>>

-----------------------------------------------------------------------------
(* Requests, and a crash of the server                                     *)

\* CancelJobRun stamps a running row and then sends a frame; a queued row ends.
CancelJobRun(j) ==
    /\ budget.cancel > 0
    /\ budget' = [budget EXCEPT !.cancel = @ - 1]
    /\ \/ /\ row[j].status = "running"
          /\ row' = [row EXCEPT ![j].stamp = TRUE]
          /\ frames' = frames \cup {[job |-> j, agent |-> row[j].agent]}
       \/ /\ row[j].status = "queued"
          /\ row' = [row EXCEPT ![j].status = "canceled"]
          /\ UNCHANGED frames
    /\ UNCHANGED <<serial, closer, muted, db, latest, sess, pc, todo, out, process, handler, claim,
                   sweep>>

SendCancel(c) ==
    LET i == latest[c.agent]
    IN /\ c \in frames
       /\ frames' = frames \ {c}
       /\ out' = IF CanQueue(i) THEN Queued(i, [kind |-> "cancel", job |-> c.job, serial |-> 0])
                 ELSE out
       /\ UNCHANGED <<db_rows, db, latest, sess, pc, todo, process, handler, claim, sweep,
                      budget>>

\* A rerun takes the next attempt.  A canceled row that is revived because
\* something upstream is rerun keeps its attempt.
RerunJob(j) ==
    /\ row[j].status \in {"finished", "canceled"}
    /\ \/ /\ budget.rerun > 0
          /\ budget' = [budget EXCEPT !.rerun = @ - 1]
          /\ row' = [row EXCEPT ![j] = [status |-> "queued", agent |-> None,
                                        attempt |-> @.attempt + 1, stamp |-> FALSE]]
       \/ /\ row[j].status = "canceled"
          /\ budget.revive > 0
          /\ budget' = [budget EXCEPT !.revive = @ - 1]
          /\ row' = [row EXCEPT ![j] = [status |-> "queued", agent |-> None,
                                        attempt |-> @.attempt, stamp |-> FALSE]]
    /\ UNCHANGED <<serial, closer, muted, db, server, process>>

\* Every session, stream and handler is gone; the processes behind them exit.
ServerCrash ==
    /\ budget.loss > 0
    /\ budget' = [budget EXCEPT !.loss = @ - 1]
    /\ latest' = [a \in Agents |-> None]
    /\ pc' = [i \in Procs |-> IF pc[i] = "new" THEN "new" ELSE "done"]
    /\ alive' = [i \in Procs |-> FALSE]
    /\ work' = [i \in Procs |-> {}]
    /\ inbox' = [i \in Procs |-> {}]
    /\ out' = [i \in Procs |-> <<>>]
    /\ todo' = [i \in Procs |-> {}]
    /\ handler' = [i \in Procs |-> None]
    /\ claim' = None
    /\ sweep' = [rows |-> {}, fence |-> {}]
    /\ frames' = {}
    /\ UNCHANGED <<db_rows, db, sess, quits>>

-----------------------------------------------------------------------------
Register(i) ==
    \/ RevokeForAgent(i)
    \/ ListRunningJobsForAgent(i)
    \/ \E s \in todo[i] : ReclaimAgentJob(i, s)
    \/ MarkAgentOnline(i)
    \/ CreateSession(i)
    \/ ReplayCancels(i)

Connect(i) ==
    \/ ClaimConnect(i)
    \/ MarkReady(i)
    \/ StreamEnds(i)
    \/ CheckSuperseded(i)
    \/ MarkAgentOffline(i)

HandleResult(i) ==
    \/ \E f \in inbox[i] : ReceiveResult(i, f)
    \/ RecheckRevoked(i)
    \/ CommitResult(i)
    \/ ReleaseSlot(i)

Sweep ==
    \/ \E j \in Jobs : ReclaimPendingCancel(j)
    \/ ListStaleRunningJobs
    \/ \E s \in sweep.rows : ReclaimStaleJob(s)
    \/ \E t \in sweep.fence : FenceStaleSession(t)

Dispatch == DispatchAssignment \/ UnassignJob

Next ==
    \/ \E i \in Procs : \/ Register(i) \/ Connect(i) \/ HandleResult(i)
                        \/ Receive(i) \/ Quit(i) \/ ReceiveDraining(i) \/ Exit(i)
                        \/ Heartbeat(i)
                        \/ \E x \in work[i], kind \in {"done", "disrupted"} : FinishWork(i, x, kind)
    \/ \E a \in Agents : Expire(a)
    \/ \E j \in Jobs, a \in Agents : AssignJob(j, a)
    \/ Dispatch
    \/ Sweep
    \/ \E j \in Jobs : CancelJobRun(j) \/ RerunJob(j)
    \/ \E c \in frames : SendCancel(c)
    \/ ServerCrash

Spec == Init /\ [][Next]_vars

\* Handlers, loops and live processes keep going; nothing forces a process to
\* start, a scheduler tick to find a row, an operator to act or a failure to
\* happen.  The reaper ticks, and a process that shuts down does exit.
Fairness ==
    /\ \A i \in Procs :
          /\ WF_vars(pc[i] # "new" /\ Register(i))
          /\ WF_vars(Connect(i))
          /\ WF_vars(HandleResult(i))
          /\ WF_vars(Receive(i))
          /\ WF_vars(ReceiveDraining(i))
          /\ WF_vars(Heartbeat(i))
          /\ WF_vars(quits[i] /\ Exit(i))
          /\ WF_vars(\E x \in work[i] : FinishWork(i, x, "done"))
    /\ \A a \in Agents : WF_vars(Silent(a) /\ Expire(a))
    /\ WF_vars(Dispatch)
    /\ WF_vars(Sweep)
    /\ WF_vars(\E c \in frames : SendCancel(c))

FairSpec == Spec /\ Fairness

-----------------------------------------------------------------------------
(* Properties                                                              *)

\* The agents row never reads offline while the store has a session for the
\* agent: the deferred MarkAgentOffline of an old stream cannot undo a newer
\* Register, whatever order the two unwind in.  Reapers treat an offline agent
\* as dead at once, so the opposite would take its jobs away from a healthy one.
SessionImpliesOnline ==
    \A a \in Agents : latest[a] # None => db[a].online

\* A session counts one slot per assignment it holds, never more than it has
\* capacity for, and its process never executes more than it was counted for.
CapacityRespected ==
    \A i \in Procs :
        /\ sess[i].slots = Cardinality({j \in Jobs : sess[i].assigned[j] # None})
        /\ sess[i].slots \in 0..Capacity
        /\ Cardinality(work[i]) <= Capacity

\* A row that a result closed was closed by the result of its latest claim.  A
\* result that outlived its claim (reclaimed, rerun, reassigned, to the same
\* agent even) is dropped by the session checks or the compare-and-set.
ResultIsCurrent ==
    \A j \in Jobs : closer[j] \in {0, serial[j]}

\* The job is on an agent that was never sent it: the revival of a canceled job
\* kept its attempt, and the session still held the canceled execution.
Muted(j) == row[j].status = "running" /\ muted[j] = serial[j]

\* Every claimed job leaves the running state, or its cancel is requested, or
\* its dispatch was taken for a duplicate: whoever holds it finishes it, or a
\* restart or the reaper takes it back.
JobsSettle ==
    \A j \in Jobs : []<>(row[j].status # "running" \/ row[j].stamp \/ Muted(j))

\* A cancel that was accepted for a running job ends it, unless no agent was
\* sent the job.
CancelSettles ==
    \A j \in Jobs : []<>(~(row[j].status = "running" /\ row[j].stamp) \/ Muted(j))

\* A session's slot is held for a job that moved on without it.
Leaked(i, j) ==
    /\ InStore(i) /\ pc[i] = "ready"
    /\ sess[i].assigned[j] # None
    /\ \/ row[j].status # "running"
       \/ row[j].agent # AgentOf[i]
       \/ row[j].attempt # sess[i].assigned[j]

\* A live session gets its slot back once the job it was for has moved on.
SlotReturns ==
    \A i \in Procs, j \in Jobs : []<>~Leaked(i, j)

\* A live process on an open stream whose session the store has dropped and
\* nobody replaced: it heartbeats, and nothing can be scheduled on it.
Orphaned(i) ==
    /\ alive[i] /\ pc[i] = "ready" /\ ~quits[i]
    /\ sess[i].revoked /\ latest[AgentOf[i]] = None
    /\ db[AgentOf[i]].online

\* An agent whose session was fenced does not stay listed as online with no
\* session: its row goes offline or it registers again.
FencedAgentReturns ==
    \A i \in Procs : []<>~Orphaned(i)
====
