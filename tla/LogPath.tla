------------------------------- MODULE LogPath -------------------------------
(***************************************************************************)
(* The logs of one job_run: pushed by the agent's stream into the batcher  *)
(* of its session, flushed into log_lines under the snapshot check,        *)
(* archived to one blob per job_run after the result, read back from       *)
(* either, and cleared when the job is run again.                          *)
(*                                                                         *)
(* Attempts are numbered by execution: a rerun and a reclaim raise         *)
(* job_runs.attempt, the revival of a canceled tail does not, and still    *)
(* the lines of the two executions are different rows (log_lines is keyed  *)
(* by their time as well).  A line is the execution that produced it and   *)
(* its sequence number.  The archive key names the job_run.  Two races of  *)
(* the archiver with a new attempt follow from that, and a third from two  *)
(* workers on one job; the histories crossed and clobbered remember when   *)
(* they happened, and carried remembers what a revived job still had of    *)
(* its earlier execution, so the properties say what holds otherwise.      *)
(***************************************************************************)
EXTENDS Integers, Sequences, FiniteSets

CONSTANTS
    MaxAttempt,   \* bound: executions of the job
    MaxSeq,       \* bound: lines per attempt
    PipeCap,      \* the batcher's channel
    ArchiveCap,   \* the archiver's queue
    Archivers,    \* its workers
    MaxFaults,    \* bound: failing database or blob store calls
    NoLines       \* no blob, nothing cached

ASSUME LogAssumption ==
    /\ {MaxAttempt, MaxSeq, PipeCap, ArchiveCap} \subseteq Nat \ {0}
    /\ MaxFaults \in Nat
    /\ \A ls \in SUBSET [att : 1..MaxAttempt, seq : 1..MaxSeq] : NoLines # ls

LogAttempts == 1..MaxAttempt
LogLines == [att : LogAttempts, seq : 1..MaxSeq]
Barrier == [att |-> 0, seq |-> 0]

VARIABLES
    lAttempt,   \* the execution job_runs.attempt and agent_id stand for
    lStatus,    \* running or terminal
    sent,       \* lines the current attempt produced
    pipe,       \* per attempt: its session's batcher channel
    batch,      \* per attempt: the batch being filled
    gone,       \* attempts whose batcher discards: their session was superseded
    lineRows,   \* log_lines of the job
    persisted,  \* history: lines of this attempt that reached log_lines
    uri,        \* logs_archive_uri is set
    blob,       \* the object under the job's key
    lineCache,  \* the decoded archive under that key
    arcQueue,   \* submits of this job in the archiver's queue
    archiver,   \* per worker: its step and the lines it read
    orphan,     \* the reconcile pass listed this job's rows as orphans
    staleRead,  \* history: a reader was shown a line of another attempt
    crossed,    \* history: a new attempt began with an archive or the orphan pass pending
    keyed,      \* history: the attempts whose lines the key was written with
    clobbered,  \* history: a failed stamp deleted the blob of another worker's archive
    carried,    \* history: what a revival left of the earlier execution
    faults

rowVars == <<lAttempt, lStatus, sent>>
batcherVars == <<pipe, batch, gone>>
archiveVars == <<arcQueue, archiver, orphan>>
logHistory == <<staleRead, crossed, keyed, clobbered, carried>>
logVars == <<lAttempt, lStatus, sent, pipe, batch, gone, lineRows, persisted, uri, blob, lineCache,
             arcQueue, archiver, orphan, staleRead, crossed, keyed, clobbered, carried, faults>>

ArcIdle == [at |-> "idle", lines |-> {}]

LogInit ==
    /\ lAttempt = 1 /\ lStatus = "running" /\ sent = 0
    /\ pipe = [a \in LogAttempts |-> <<>>]
    /\ batch = [a \in LogAttempts |-> {}]
    /\ gone = {}
    /\ lineRows = {} /\ persisted = {}
    /\ uri = FALSE /\ blob = NoLines /\ lineCache = NoLines
    /\ arcQueue = 0
    /\ archiver = [w \in Archivers |-> ArcIdle]
    /\ orphan = FALSE
    /\ staleRead = FALSE /\ crossed = FALSE /\ keyed = {} /\ clobbered = FALSE
    /\ carried = {}
    /\ faults = 0

(***************************************************************************)
(* The stream and its batcher.                                             *)
(***************************************************************************)

\* Push: a full channel, or the byte cap, drops the line after a short wait.
PushLine ==
    /\ lStatus = "running" /\ sent < MaxSeq
    /\ sent' = sent + 1
    /\ pipe' = IF Len(pipe[lAttempt]) < PipeCap
               THEN [pipe EXCEPT ![lAttempt] = Append(@, [att |-> lAttempt, seq |-> sent + 1])]
               ELSE pipe
    /\ UNCHANGED <<lAttempt, lStatus, batch, gone, lineRows, persisted, uri, blob, lineCache,
                   archiveVars, logHistory, faults>>

\* The result: the archive request rides the same channel as the lines.
FinishJob ==
    /\ lStatus = "running"
    /\ lStatus' = "terminal"
    /\ pipe' = IF Len(pipe[lAttempt]) < PipeCap
               THEN [pipe EXCEPT ![lAttempt] = Append(@, Barrier)] ELSE pipe
    /\ UNCHANGED <<lAttempt, sent, batch, gone, lineRows, persisted, uri, blob, lineCache,
                   archiveVars, logHistory, faults>>

\* BulkInsertLogLinesForJob: nothing, unless the row still has the agent and the
\* attempt the batch was produced under.
Inserted(a, ls) == IF a = lAttempt THEN ls ELSE {}

\* flush(): the batch is inserted, or dropped because the session was
\* superseded, because the snapshot is stale or because the database failed.
Flush(a) ==
    /\ batch' = [batch EXCEPT ![a] = {}]
    /\ \/ /\ LET in == IF a \in gone THEN {} ELSE Inserted(a, batch[a])
             IN  lineRows' = lineRows \cup in /\ persisted' = persisted \cup in
          /\ UNCHANGED faults
       \/ /\ faults < MaxFaults /\ batch[a] # {}
          /\ faults' = faults + 1
          /\ UNCHANGED <<lineRows, persisted>>

BatcherTakesLine(a) ==
    /\ pipe[a] # <<>> /\ Head(pipe[a]) # Barrier
    /\ pipe' = [pipe EXCEPT ![a] = Tail(@)]
    /\ batch' = [batch EXCEPT ![a] = @ \cup {Head(pipe[a])}]
    /\ UNCHANGED <<rowVars, gone, lineRows, persisted, uri, blob, lineCache, archiveVars, logHistory, faults>>

\* The ticker, or a batch that is full.
BatcherFlushes(a) ==
    /\ batch[a] # {}
    /\ Flush(a)
    /\ UNCHANGED <<rowVars, pipe, gone, uri, blob, lineCache, archiveVars, logHistory>>

\* The barrier flushes first and then submits; Submit drops on a full queue.
BatcherTakesBarrier(a) ==
    /\ pipe[a] # <<>> /\ Head(pipe[a]) = Barrier
    /\ pipe' = [pipe EXCEPT ![a] = Tail(@)]
    /\ Flush(a)
    /\ arcQueue' = IF a \notin gone /\ arcQueue < ArchiveCap THEN arcQueue + 1 ELSE arcQueue
    /\ UNCHANGED <<rowVars, gone, uri, blob, lineCache, archiver, orphan, logHistory>>

(***************************************************************************)
(* A new attempt: RerunJob on a finished row, ReclaimJobForRetry on a      *)
(* running one.  Both clear log_lines and the archive pointer.             *)
(***************************************************************************)
KeptPointer == uri

NewPointer == FALSE

\* An archive of this job is asked for, queued or under way.
ArchivePending ==
    \/ \E a \in LogAttempts : \E i \in DOMAIN pipe[a] : pipe[a][i] = Barrier
    \/ arcQueue > 0
    \/ \E w \in Archivers : archiver[w] # ArcIdle

NewAttempt ==
    /\ lAttempt < MaxAttempt
    /\ lAttempt' = lAttempt + 1
    /\ lStatus' = "running" /\ sent' = 0
    /\ lineRows' = {} /\ persisted' = {}
    /\ uri' = NewPointer
    /\ gone' \in {gone, gone \cup {lAttempt}}
    /\ crossed' = (crossed \/ orphan \/ ArchivePending)
    /\ UNCHANGED <<pipe, batch, blob, lineCache, archiveVars, staleRead, keyed, clobbered, carried, faults>>

(***************************************************************************)
(* RerunJob upstream of this job: a row that was canceled in its execution *)
(* is queued again and handed out.  The attempt and the log_lines stay, as *)
(* does the archive pointer, unless a first hand-out failed (UnassignJob). *)
(* On the session that had it before, the batcher goes on with what it     *)
(* still holds; another agent, or a later session of the same, finds the   *)
(* row no longer accepting the old batches.                                *)
(***************************************************************************)
LeftBehind ==
    (IF uri THEN {"archive"} ELSE {})
    \cup (IF lineRows \cup persisted # {} \/ pipe[lAttempt] # <<>> \/ batch[lAttempt] # {}
          THEN {"lines"} ELSE {})

ReviveTail ==
    /\ lStatus = "terminal" /\ lAttempt < MaxAttempt
    /\ lAttempt' = lAttempt + 1
    /\ lStatus' = "running" /\ sent' = 0
    /\ \/ gone' = gone \cup {lAttempt} /\ UNCHANGED <<pipe, batch>>
       \/ UNCHANGED batcherVars
       \/ /\ lAttempt \notin gone /\ UNCHANGED gone
          /\ pipe' = [pipe EXCEPT ![lAttempt + 1] = pipe[lAttempt], ![lAttempt] = <<>>]
          /\ batch' = [batch EXCEPT ![lAttempt + 1] = batch[lAttempt], ![lAttempt] = {}]
    /\ crossed' = (crossed \/ orphan \/ ArchivePending)
    /\ carried' = carried \cup LeftBehind
    /\ uri' \in {uri, NewPointer}
    /\ UNCHANGED <<lineRows, persisted, blob, lineCache, archiveVars, staleRead, keyed, clobbered, faults>>

(***************************************************************************)
(* The archiver: read, upload, stamp, delete.                              *)
(***************************************************************************)
ArchiveRead(w) ==
    /\ archiver[w] = ArcIdle /\ arcQueue > 0
    /\ arcQueue' = arcQueue - 1
    /\ archiver' = [archiver EXCEPT ![w] = IF lineRows = {} THEN ArcIdle
                                           ELSE [at |-> "put", lines |-> lineRows]]
    /\ UNCHANGED <<rowVars, batcherVars, lineRows, persisted, uri, blob, lineCache, orphan, logHistory, faults>>

ArchivePut(w) ==
    /\ archiver[w].at = "put"
    /\ blob' = archiver[w].lines
    /\ keyed' = keyed \cup {l.att : l \in archiver[w].lines}
    /\ archiver' = [archiver EXCEPT ![w].at = "mark"]
    /\ UNCHANGED <<rowVars, batcherVars, lineRows, persisted, uri, lineCache, arcQueue, orphan,
                   staleRead, crossed, clobbered, carried, faults>>

\* MarkJobLogsArchived has no attempt in its WHERE; when it fails the blob is
\* deleted again.
ArchiveMark(w) ==
    /\ archiver[w].at = "mark"
    /\ \/ /\ uri' = TRUE
          /\ archiver' = [archiver EXCEPT ![w].at = "delete"]
          /\ UNCHANGED <<blob, clobbered, faults>>
       \/ /\ faults < MaxFaults
          /\ faults' = faults + 1
          /\ blob' = NoLines
          /\ clobbered' = (clobbered \/ uri \/ \E o \in Archivers \ {w} : archiver[o].at = "mark")
          /\ archiver' = [archiver EXCEPT ![w] = ArcIdle]
          /\ UNCHANGED uri
    /\ UNCHANGED <<rowVars, batcherVars, lineRows, persisted, lineCache, arcQueue, orphan,
                   staleRead, crossed, keyed, carried>>

\* DeleteLogLinesByJob; a failure leaves the rows to the orphan pass.
ArchiveDelete(w) ==
    /\ archiver[w].at = "delete"
    /\ archiver' = [archiver EXCEPT ![w] = ArcIdle]
    /\ \/ lineRows' = {} /\ UNCHANGED faults
       \/ faults < MaxFaults /\ faults' = faults + 1 /\ UNCHANGED lineRows
    /\ UNCHANGED <<rowVars, batcherVars, persisted, uri, blob, lineCache, arcQueue, orphan, logHistory>>

\* A failing read or upload leaves everything as it was.
ArchiveFails(w) ==
    /\ archiver[w].at = "put" /\ faults < MaxFaults
    /\ archiver' = [archiver EXCEPT ![w] = ArcIdle]
    /\ faults' = faults + 1
    /\ UNCHANGED <<rowVars, batcherVars, lineRows, persisted, uri, blob, lineCache, arcQueue, orphan, logHistory>>

(***************************************************************************)
(* The retention sweeper's reconcile pass, and readers.                    *)
(***************************************************************************)

\* The grace is far longer than a flush: by then the batcher is drained.
Resubmit ==
    /\ ~uri /\ lStatus = "terminal"
    /\ pipe[lAttempt] = <<>> /\ batch[lAttempt] = {}
    /\ arcQueue < ArchiveCap
    /\ arcQueue' = arcQueue + 1
    /\ UNCHANGED <<rowVars, batcherVars, lineRows, persisted, uri, blob, lineCache, archiver, orphan, logHistory, faults>>

ListOrphans ==
    /\ uri /\ lineRows # {} /\ ~orphan
    /\ orphan' = TRUE
    /\ UNCHANGED <<rowVars, batcherVars, lineRows, persisted, uri, blob, lineCache, arcQueue, archiver, logHistory, faults>>

DeleteOrphans ==
    /\ orphan
    /\ orphan' = FALSE
    /\ lineRows' = {}
    /\ UNCHANGED <<rowVars, batcherVars, persisted, uri, blob, lineCache, arcQueue, archiver, logHistory, faults>>

Shown == IF ~uri THEN lineRows
         ELSE IF lineCache # NoLines THEN lineCache
         ELSE IF blob # NoLines THEN blob ELSE {}

\* A read of an archived job fills the cache; nothing ever invalidates it.
ReadLogs ==
    /\ staleRead' = (staleRead \/ \E l \in Shown : l.att # lAttempt)
    /\ lineCache' = IF uri /\ lineCache = NoLines THEN blob ELSE lineCache
    /\ UNCHANGED <<rowVars, batcherVars, lineRows, persisted, uri, blob, archiveVars,
                   crossed, keyed, clobbered, carried, faults>>

\* The least recently used archive makes room for another job's.
EvictArchive ==
    /\ lineCache # NoLines
    /\ lineCache' = NoLines
    /\ UNCHANGED <<rowVars, batcherVars, lineRows, persisted, uri, blob, archiveVars, logHistory, faults>>

LogNext ==
    \/ PushLine \/ FinishJob \/ NewAttempt \/ ReviveTail
    \/ \E a \in LogAttempts : BatcherTakesLine(a) \/ BatcherFlushes(a) \/ BatcherTakesBarrier(a)
    \/ \E w \in Archivers : \/ ArchiveRead(w) \/ ArchivePut(w) \/ ArchiveMark(w)
                            \/ ArchiveDelete(w) \/ ArchiveFails(w)
    \/ Resubmit \/ ListOrphans \/ DeleteOrphans \/ ReadLogs \/ EvictArchive

LogSpec == LogInit /\ [][LogNext]_logVars

-----------------------------------------------------------------------------
LogTypeOK ==
    /\ lAttempt \in LogAttempts /\ lStatus \in {"running", "terminal"} /\ sent \in 0..MaxSeq
    /\ \A a \in LogAttempts : /\ Len(pipe[a]) <= PipeCap
                              /\ batch[a] \subseteq LogLines
    /\ gone \subseteq LogAttempts
    /\ lineRows \subseteq LogLines /\ persisted \subseteq LogLines
    /\ blob = NoLines \/ blob \subseteq LogLines
    /\ arcQueue \in 0..ArchiveCap /\ faults \in 0..MaxFaults
    /\ carried \subseteq {"archive", "lines"}

(***************************************************************************)
(* No line that reached log_lines is lost: it is there or in the stamped   *)
(* archive.  In particular the archive of a finished job has its last      *)
(* lines (the barrier behind them), and a job revived before it was        *)
(* archived keeps the lines of both executions.  Excepted are a new        *)
(* execution begun while the job was being archived, whose rows the old    *)
(* archive's deletion takes along, a job revived beside its stamped        *)
(* archive, and two workers of which one failed to stamp.                  *)
(***************************************************************************)
NoLineLost ==
    \/ persisted \subseteq lineRows \cup (IF uri /\ blob # NoLines THEN blob ELSE {})
    \/ crossed \/ clobbered \/ "archive" \in carried

(***************************************************************************)
(* A reader is shown another execution's lines only when the one archive   *)
(* key of the job was written for two (the cache keeps the first), when    *)
(* one began under the archiver, or when the job was revived with lines of *)
(* its earlier execution.  Clearing pointer and rows in RerunJob and       *)
(* ReclaimJobForRetry covers the rest.                                     *)
(***************************************************************************)
ReadsShowThisAttempt == staleRead => Cardinality(keyed) > 1 \/ crossed \/ carried # {}

\* Both, which the archiver, the reconcile pass, the readers and a new attempt
\* can only break together.
LogsIntact == NoLineLost /\ ReadsShowThisAttempt
=============================================================================
