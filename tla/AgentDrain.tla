------------------------------ MODULE AgentDrain ------------------------------
(***************************************************************************)
(* The shutdown of an agent process: src/agent/internal/rpc/drain.go with   *)
(* the send and receive loops of client.go.                                *)
(*                                                                         *)
(* The jobs, the send loop, the receive loop and the draining goroutine    *)
(* share a FIFO of outbound messages, the set of running jobs and the set  *)
(* of suppressed jobs.  Drain first waits for the jobs; when its budget    *)
(* runs out it stops the queue at a barrier, suppresses the jobs whose     *)
(* result is not on the wire, cancels them and flushes the rest behind a   *)
(* second barrier.  The server answers the half-close with an end of file  *)
(* once it has handled everything before it.                               *)
(***************************************************************************)
EXTENDS Naturals, Sequences, FiniteSets

CONSTANTS DrainJobs,   \* job ids an assignment may name
          OutCap       \* capacity of the outbound channel (4096 in the code)

ASSUME OutCapAssumption == OutCap \in Nat \ {0}

VARIABLES
    jobAt,       \* per job: unassigned, running, made (past the check of sendOutbound), sent_off, closed, gone, dropped
    aborted,     \* jobs whose context the drain has canceled
    made,        \* per job: what its result says
    terminalSent,\* jobs whose result went out on the stream
    outbound,    \* the FIFO: results, the draining frame, barriers
    sender,      \* the send loop: what it holds and where it is
    wire,        \* results sent and not yet handled by the server
    handled,     \* results the server has handled
    suppressed,  \* the published suppression set
    draining,    \* the flag dispatchJob reads under jobsMu
    drain,       \* the draining goroutine
    candidates,  \* its snapshot of the running jobs
    flushLate,   \* flushCtx is done
    streamDone,  \* streamCtx is done
    recvEnd,     \* how the receive loop ended
    outcome      \* DrainOutcome

drainVars == <<jobAt, aborted, made, terminalSent, outbound, sender, wire, handled, suppressed,
               draining, drain, candidates, flushLate, streamDone, recvEnd, outcome>>
jobSide == <<jobAt, aborted, made>>
senderSide == <<terminalSent, sender, wire>>
drainSide == <<suppressed, draining, drain, candidates, flushLate, outcome>>

Running == {j \in DrainJobs : jobAt[j] \in {"running", "made", "sent_off", "closed"}}
Taken == {j \in DrainJobs : jobAt[j] \notin {"unassigned", "dropped"}}

Result(j) == [kind |-> "result", job |-> j]
Frame(k) == [kind |-> k]
Looping == [at |-> "loop"]
NotEnded == [ended |-> FALSE, clean |-> FALSE, running |-> {}, flushTimedOut |-> FALSE]

DrainInit ==
    /\ jobAt = [j \in DrainJobs |-> "unassigned"]
    /\ aborted = {} /\ terminalSent = {} /\ suppressed = {} /\ candidates = {}
    /\ made = [j \in DrainJobs |-> "nothing"]
    /\ outbound = <<>> /\ wire = <<>> /\ handled = {}
    /\ sender = Looping
    /\ draining = FALSE /\ drain = "serving"
    /\ flushLate = FALSE /\ streamDone = FALSE /\ recvEnd = "none"
    /\ outcome = NotEnded

(***************************************************************************)
(* Jobs.                                                                   *)
(***************************************************************************)

DispatchAllowed(j) == ~draining

\* dispatchJob, called by the receive loop.
DispatchJob(j) ==
    /\ jobAt[j] = "unassigned" /\ recvEnd = "none"
    /\ jobAt' = [jobAt EXCEPT ![j] = IF DispatchAllowed(j) THEN "running" ELSE "dropped"]
    /\ UNCHANGED <<aborted, made, senderSide, outbound, handled, drainSide, streamDone, recvEnd>>

\* Execute reaches its end and calls sendOutbound, whose first check drops the
\* result of a suppressed job.
MakeResult(j) ==
    /\ jobAt[j] = "running"
    /\ made' = [made EXCEPT ![j] = IF j \in aborted \/ streamDone THEN "aborted" ELSE "own"]
    /\ jobAt' = [jobAt EXCEPT ![j] = IF j \in suppressed THEN "sent_off" ELSE "made"]
    /\ UNCHANGED <<aborted, senderSide, outbound, handled, drainSide, streamDone, recvEnd>>

AnyRoom == TRUE

HasRoom == Len(outbound) < OutCap

\* The rest of sendOutbound blocks on a full channel until the stream is done.
EnqueueResult(j) ==
    /\ jobAt[j] = "made"
    /\ \/ HasRoom /\ outbound' = Append(outbound, Result(j))
       \/ streamDone /\ UNCHANGED outbound
    /\ jobAt' = [jobAt EXCEPT ![j] = "sent_off"]
    /\ UNCHANGED <<aborted, made, senderSide, handled, drainSide, streamDone, recvEnd>>

\* The deferred end of the job's goroutine: done is closed, then the job leaves
\* the running map and the wait group.
CloseJob(j) ==
    /\ \/ jobAt[j] = "sent_off" /\ jobAt' = [jobAt EXCEPT ![j] = "closed"]
       \/ jobAt[j] = "closed" /\ jobAt' = [jobAt EXCEPT ![j] = "gone"]
    /\ UNCHANGED <<aborted, made, senderSide, outbound, handled, drainSide, streamDone, recvEnd>>

(***************************************************************************)
(* The send loop and the server.                                           *)
(***************************************************************************)

\* The check before the send is as important as the one at the queue: a result
\* may have been queued behind the cutoff before its job was suppressed.
SendsUnsuppressed(item) == TRUE

Sends(item) == item.kind = "result" => item.job \notin suppressed

TakeItem ==
    /\ sender = Looping /\ outbound # <<>>
    /\ outbound' = Tail(outbound)
    /\ sender' = LET item == Head(outbound) IN
                 IF item.kind \in {"cutoff", "final"} THEN [at |-> "barrier", item |-> item]
                 ELSE IF Sends(item) THEN [at |-> "sending", item |-> item] ELSE Looping
    /\ UNCHANGED <<jobSide, terminalSent, wire, handled, drainSide, streamDone, recvEnd>>

\* stream.Send, which fails once the stream is done, and the terminalSent mark.
SendItem ==
    /\ sender.at = "sending"
    /\ IF streamDone
       THEN sender' = [at |-> "closed"] /\ UNCHANGED wire
       ELSE /\ wire' = IF sender.item.kind = "result" THEN Append(wire, sender.item.job) ELSE wire
            /\ sender' = [sender EXCEPT !.at = "marking"]
    /\ UNCHANGED <<jobSide, terminalSent, outbound, handled, drainSide, streamDone, recvEnd>>

MarkSent ==
    /\ sender.at = "marking"
    /\ terminalSent' = IF sender.item.kind = "result" THEN terminalSent \cup {sender.item.job}
                       ELSE terminalSent
    /\ sender' = Looping
    /\ UNCHANGED <<jobSide, wire, outbound, handled, drainSide, streamDone, recvEnd>>

\* ctx.Done in the loop or at a barrier: CloseSend and return.
SenderStops ==
    /\ streamDone /\ sender.at \in {"loop", "barrier"}
    /\ sender' = [at |-> "closed"]
    /\ UNCHANGED <<jobSide, terminalSent, wire, outbound, handled, drainSide, streamDone, recvEnd>>

ServerHandles ==
    /\ wire # <<>>
    /\ handled' = handled \cup {Head(wire)}
    /\ wire' = Tail(wire)
    /\ UNCHANGED <<jobSide, terminalSent, sender, outbound, drainSide, streamDone, recvEnd>>

\* The server's Recv returns io.EOF behind the last message: Connect returns
\* nil, the receive loop reads it and cancels the stream.
ServerCloses ==
    /\ sender.at = "closed" /\ wire = <<>> /\ ~streamDone /\ recvEnd = "none"
    /\ recvEnd' = "eof" /\ streamDone' = TRUE
    /\ UNCHANGED <<jobSide, senderSide, outbound, handled, drainSide>>

\* The connection breaks, and what is on the wire may be lost with it.
StreamBreaks ==
    /\ recvEnd = "none"
    /\ recvEnd' = "error" /\ streamDone' = TRUE
    /\ wire' \in {wire, <<>>}
    /\ UNCHANGED <<jobSide, terminalSent, sender, outbound, handled, drainSide>>

(***************************************************************************)
(* The draining goroutine.                                                 *)
(***************************************************************************)
Goto(pc) == drain' = pc

\* drain: the flag is up before anything else; the draining frame is tried and
\* given up when the channel stays full.
BeginDrain ==
    /\ drain = "serving" /\ Goto("waiting")
    /\ draining' = TRUE
    /\ \/ HasRoom /\ outbound' = Append(outbound, Frame("draining"))
       \/ (~HasRoom \/ streamDone) /\ UNCHANGED outbound
    /\ UNCHANGED <<jobSide, senderSide, handled, suppressed, candidates, flushLate, outcome,
                   streamDone, recvEnd>>

\* waitJobs returns true, or its budget elapses and drainTimeout takes its
\* snapshot of the running jobs.
JobsFinished ==
    /\ drain = "waiting" /\ Running = {} /\ Goto("clean_push")
    /\ UNCHANGED <<jobSide, senderSide, outbound, handled, suppressed, draining, candidates,
                   flushLate, outcome, streamDone, recvEnd>>

BudgetElapses ==
    /\ drain = "waiting" /\ Goto("cutoff_push")
    /\ candidates' = Running
    /\ UNCHANGED <<jobSide, senderSide, outbound, handled, suppressed, draining, flushLate, outcome,
                   streamDone, recvEnd>>

FlushDeadline ==
    /\ drain \notin {"serving", "waiting", "ended"} /\ ~flushLate
    /\ flushLate' = TRUE
    /\ UNCHANGED <<jobSide, senderSide, outbound, handled, suppressed, draining, drain, candidates,
                   outcome, streamDone, recvEnd>>

EndDrain(o) == Goto("ended") /\ outcome' = [o EXCEPT !.ended = TRUE]

\* enqueueBarrier, first half: the barrier goes into the channel.
PushBarrier ==
    /\ HasRoom
    /\ \/ drain = "clean_push" /\ Goto("clean_reach") /\ outbound' = Append(outbound, Frame("final"))
       \/ drain = "cutoff_push" /\ Goto("cutoff_reach") /\ outbound' = Append(outbound, Frame("cutoff"))
       \/ drain = "final_push" /\ Goto("final_reach") /\ outbound' = Append(outbound, Frame("final"))
    /\ UNCHANGED <<jobSide, senderSide, handled, suppressed, draining, candidates, flushLate,
                   outcome, streamDone, recvEnd>>

\* Second half, for the last barrier: it is reached and released, and the send
\* loop closes its side of the stream.
ReachLast ==
    /\ sender.at = "barrier" /\ sender.item.kind = "final"
    /\ \/ drain = "clean_reach" /\ Goto("clean_eof")
       \/ drain = "final_reach" /\ Goto("final_eof")
    /\ sender' = [at |-> "closed"]
    /\ UNCHANGED <<jobSide, terminalSent, wire, outbound, handled, suppressed, draining,
                   candidates, flushLate, outcome, streamDone, recvEnd>>

\* The send loop waits at the cutoff while the suppression set is published.
ToSuppress == candidates \ terminalSent

ReachCutoff ==
    /\ drain = "cutoff_reach" /\ sender.at = "barrier" /\ sender.item.kind = "cutoff"
    /\ Goto("cancel")
    /\ suppressed' = ToSuppress
    /\ sender' = Looping
    /\ UNCHANGED <<jobSide, terminalSent, wire, outbound, handled, draining, candidates,
                   flushLate, outcome, streamDone, recvEnd>>

CancelSuppressed ==
    /\ drain = "cancel" /\ Goto("wait_done")
    /\ aborted' = aborted \cup suppressed
    /\ UNCHANGED <<jobAt, made, senderSide, outbound, handled, suppressed, draining, candidates,
                   flushLate, outcome, streamDone, recvEnd>>

\* waitDone: every candidate has closed its channel, or the deadline is hit.
WaitDone ==
    /\ drain = "wait_done" /\ Goto("final_push")
    /\ flushLate \/ \A j \in candidates : jobAt[j] \in {"closed", "gone"}
    /\ UNCHANGED <<jobSide, senderSide, outbound, handled, suppressed, draining, candidates,
                   flushLate, outcome, streamDone, recvEnd>>

\* The end of the receive loop, as flushClean and drainTimeout take it.
EndsClean == recvEnd = "eof"

SeeEnd ==
    /\ recvEnd # "none"
    /\ \/ /\ drain = "clean_eof"
          /\ EndDrain(IF EndsClean THEN [NotEnded EXCEPT !.clean = TRUE]
                    ELSE [NotEnded EXCEPT !.flushTimedOut = TRUE])
       \/ /\ drain = "final_eof"
          /\ IF recvEnd = "eof" THEN EndDrain([NotEnded EXCEPT !.running = suppressed])
             ELSE Goto("abandon") /\ UNCHANGED outcome
    /\ UNCHANGED <<jobSide, senderSide, outbound, handled, suppressed, draining, candidates,
                   flushLate, streamDone, recvEnd>>

\* A barrier or the end of file is not reached before the deadline or the end
\* of the stream.
GiveUp ==
    /\ flushLate \/ (streamDone /\ drain \notin {"clean_eof", "final_eof"})
    /\ \/ /\ drain \in {"clean_push", "clean_reach", "clean_eof"}
          /\ EndDrain([NotEnded EXCEPT !.flushTimedOut = TRUE])
       \/ /\ drain \in {"cutoff_push", "cutoff_reach", "final_push", "final_reach", "final_eof"}
          /\ Goto("abandon") /\ UNCHANGED outcome
    /\ UNCHANGED <<jobSide, senderSide, outbound, handled, suppressed, draining, candidates,
                   flushLate, streamDone, recvEnd>>

\* abandonAll publishes the set, then cancels.
AbandonSuppress ==
    /\ drain = "abandon" /\ Goto("abandon_cancel")
    /\ suppressed' = candidates \cup Running
    /\ UNCHANGED <<jobSide, senderSide, outbound, handled, draining, candidates, flushLate,
                   outcome, streamDone, recvEnd>>

AbandonCancel ==
    /\ drain = "abandon_cancel"
    /\ aborted' = aborted \cup suppressed
    /\ EndDrain([NotEnded EXCEPT !.running = suppressed, !.flushTimedOut = TRUE])
    /\ UNCHANGED <<jobAt, made, senderSide, outbound, handled, suppressed, draining, candidates,
                   flushLate, streamDone, recvEnd>>

\* runStream cancels the stream as soon as drain has returned.
CloseStream ==
    /\ drain = "ended" /\ ~streamDone
    /\ streamDone' = TRUE
    /\ recvEnd' = IF recvEnd = "none" THEN "error" ELSE recvEnd
    /\ UNCHANGED <<jobSide, senderSide, outbound, handled, drainSide>>

DrainNext ==
    \/ \E j \in DrainJobs : DispatchJob(j) \/ MakeResult(j) \/ EnqueueResult(j) \/ CloseJob(j)
    \/ TakeItem \/ SendItem \/ MarkSent \/ SenderStops
    \/ ServerHandles \/ ServerCloses \/ StreamBreaks
    \/ BeginDrain \/ JobsFinished \/ BudgetElapses \/ FlushDeadline
    \/ PushBarrier \/ ReachLast \/ ReachCutoff \/ CancelSuppressed \/ WaitDone
    \/ SeeEnd \/ GiveUp \/ AbandonSuppress \/ AbandonCancel \/ CloseStream

DrainSpec == DrainInit /\ [][DrainNext]_drainVars

-----------------------------------------------------------------------------
DrainTypeOK ==
    /\ jobAt \in [DrainJobs -> {"unassigned", "dropped", "running", "made", "sent_off",
                                "closed", "gone"}]
    /\ made \in [DrainJobs -> {"nothing", "own", "aborted"}]
    /\ aborted \subseteq DrainJobs /\ terminalSent \subseteq DrainJobs
    /\ suppressed \subseteq DrainJobs /\ candidates \subseteq DrainJobs
    /\ handled \subseteq DrainJobs
    /\ Len(outbound) <= OutCap
    /\ recvEnd \in {"none", "eof", "error"}

\* A job the drain aborts is never reported: the result its canceled context
\* produces must not reach the server, which would take a job that is to be
\* requeued for one that failed.
AbortNeverReported == \A j \in handled : made[j] = "own"

\* A shutdown the server answered with an end of file accounts for every job
\* the agent took: the clean one had each result handled, the late one had each
\* job either handled or abandoned to the reaper, and none both.
ShutdownAccounts ==
    outcome.ended /\ ~outcome.flushTimedOut =>
        /\ outcome.clean => outcome.running = {}
        /\ handled \cap outcome.running = {}
        /\ Taken = handled \cup outcome.running

\* Together: what the server learns of a shutdown is right and complete.
ShutdownSound == AbortNeverReported /\ ShutdownAccounts
=============================================================================
