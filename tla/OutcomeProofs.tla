---------------------------- MODULE OutcomeProofs ----------------------------
(***************************************************************************)
(* What becomes of a job and of a run: its logs, the results of an agent   *)
(* that shuts down, and the effects of an ended run.  Each part has an     *)
(* inductive invariant about things on their way.                          *)
(***************************************************************************)
EXTENDS RunEffects, LogPath, AgentDrain, FiniteSetTheorems, TLAPS

\* A sequence with one more element.
LEMMA Appended ==
    ASSUME NEW S, NEW s \in Seq(S), NEW e \in S
    PROVE  /\ Append(s, e) \in Seq(S) /\ Len(s) \in Nat /\ Len(Append(s, e)) = Len(s) + 1
           /\ \A n \in 1..Len(s) : Append(s, e)[n] = s[n]
           /\ Append(s, e)[Len(s) + 1] = e
  OBVIOUS

\* A sequence without its head.
LEMMA Tailed ==
    ASSUME NEW S, NEW s \in Seq(S), s # <<>>
    PROVE  /\ Tail(s) \in Seq(S) /\ Len(s) \in Nat /\ Len(s) >= 1 /\ Len(Tail(s)) = Len(s) - 1
           /\ \A n \in 1..Len(Tail(s)) : n + 1 \in 1..Len(s) /\ Tail(s)[n] = s[n + 1]
           /\ Head(s) = s[1] /\ s[1] \in S
  OBVIOUS

(***************************************************************************)
(* RunEffects: a cleanup never reaches the pods of a live run.  A          *)
(* generation number travels from the run's row into a claim, from there   *)
(* into a frame, into the agent's queue entry and into a sweep, and each   *)
(* of those may outlive the ending it was read from.  The inductive        *)
(* invariant says that every copy on its way is spent: at most the row's   *)
(* generation, and below it while the run is alive.                        *)
(***************************************************************************)
Spent(g) == g <= generation /\ (ended = "active" => g < generation)

Claims == [kind : Kinds, gen : Generations, at : {"read", "send", "mark"}]
Entries == [pending : BOOLEAN, max : Generations, processed : Int, sweeping : BOOLEAN,
            sweep : Generations]

CleanupTypes ==
    /\ ended \in Kinds \cup {"active"}
    /\ generation \in Generations
    /\ worker \in [Replicas -> Claims \cup {NoClaim}]
    /\ frames \subseteq Generations
    /\ cleanup \in Entries

ClaimsSpent ==
    \A r \in Replicas : worker[r] # NoClaim /\ worker[r].at = "send" => Spent(worker[r].gen)
FramesSpent == \A g \in frames : Spent(g)
EntrySpent ==
    /\ cleanup.pending => Spent(cleanup.max)
    /\ cleanup.sweeping => cleanup.pending /\ Spent(cleanup.sweep)

CleanupInv == CleanupTypes /\ ClaimsSpent /\ FramesSpent /\ EntrySpent

\* The start of a server: no copy of a generation is on its way.
LEMMA CleanupInit == EffectsInit => CleanupInv
<1> SUFFICES ASSUME EffectsInit PROVE CleanupInv
  OBVIOUS
<1>1. 0 \in Generations
  BY EffectsAssumption DEF Generations
<1>2. NoCleanup \in Entries
  BY <1>1 DEF NoCleanup, Entries
<1>3. CleanupTypes
  BY <1>1, <1>2 DEF EffectsInit, CleanupTypes
<1>4. ClaimsSpent /\ FramesSpent /\ EntrySpent
  BY DEF EffectsInit, ClaimsSpent, FramesSpent, EntrySpent, NoCleanup
<1> QED BY <1>3, <1>4 DEF CleanupInv

\* The endings of a run: a spent generation stays spent, the row's own becomes so.
LEMMA EndingKeepsSpent ==
    ASSUME CleanupInv, CompleteRun \/ SupersedeRun \/ CancelMergeGroup
    PROVE  CleanupInv'
<1>1. generation' = generation /\ ended' \in Kinds /\ UNCHANGED <<worker, cleanup>>
      /\ frames' \subseteq frames \cup {generation}
  BY DEF CompleteRun, SupersedeRun, CancelMergeGroup, agentSide, Kinds
<1>2. generation \in Int /\ "active" \notin Kinds
  BY DEF CleanupInv, CleanupTypes, Generations, Kinds
<1>3. CleanupTypes'
  BY <1>1 DEF CleanupInv, CleanupTypes
<1>4. (ClaimsSpent /\ FramesSpent /\ EntrySpent)'
  BY <1>1, <1>2 DEF CleanupInv, ClaimsSpent, FramesSpent, EntrySpent, Spent
<1> QED BY <1>3, <1>4 DEF CleanupInv

\* A rerun moves the row's generation past every copy that is on its way.
LEMMA ReviveOutruns ==
    ASSUME CleanupInv, ReviveRun
    PROVE  CleanupInv'
<1>1. generation' = generation + 1 /\ generation' \in Generations /\ ended' = "active"
      /\ UNCHANGED <<worker, frames, cleanup>>
  BY EffectsAssumption DEF ReviveRun, agentSide, CleanupInv, CleanupTypes, Generations
<1>2. CleanupTypes'
  BY <1>1 DEF CleanupInv, CleanupTypes
<1>3. \A g \in Generations : Spent(g) => Spent(g)'
  BY <1>1 DEF Spent, Generations, CleanupInv, CleanupTypes
<1>4. ClaimsSpent' /\ FramesSpent'
  BY <1>1, <1>3 DEF CleanupInv, CleanupTypes, ClaimsSpent, FramesSpent, Claims
<1>5. EntrySpent'
  BY <1>1, <1>3 DEF CleanupInv, CleanupTypes, EntrySpent, Entries
<1> QED BY <1>2, <1>4, <1>5 DEF CleanupInv

\* The workers read a generation only off a row that has ended.
LEMMA WorkersKeepSpent ==
    ASSUME CleanupInv, NEW r \in Replicas,
           Fire(r) \/ ReadGeneration(r) \/ SendCleanup(r) \/ MarkDone(r) \/ Abandon(r)
    PROVE  CleanupInv'
<1>0. generation \in Int /\ "active" \notin Kinds /\ worker[r] \in Claims \cup {NoClaim}
  BY DEF CleanupInv, CleanupTypes, Generations, Kinds
<1>1. UNCHANGED <<ended, generation, cleanup>>
  BY DEF Fire, ReadGeneration, SendCleanup, MarkDone, Abandon, agentSide, runRow
<1>2. EntrySpent'
  BY <1>1 DEF CleanupInv, EntrySpent, Spent
<1>3. ASSUME NEW c \in Claims \cup {NoClaim}, worker' = [worker EXCEPT ![r] = c],
             c # NoClaim /\ c.at = "send" => Spent(c.gen)
      PROVE  ClaimsSpent' /\ worker' \in [Replicas -> Claims \cup {NoClaim}]
  BY <1>1, <1>3 DEF CleanupInv, CleanupTypes, ClaimsSpent, Spent
<1>4. ASSUME UNCHANGED frames PROVE FramesSpent' /\ frames' \subseteq Generations
  BY <1>1, <1>4 DEF CleanupInv, CleanupTypes, FramesSpent, Spent
<1> DEFINE Kept == ClaimsSpent' /\ worker' \in [Replicas -> Claims \cup {NoClaim}]
                   /\ FramesSpent' /\ frames' \subseteq Generations
<1>5. ASSUME Fire(r) PROVE Kept
  <2>1. PICK k \in Kinds : Claim(r, k)
    BY <1>5 DEF Fire
  <2> DEFINE c == [kind |-> k, gen |-> generation, at |-> IF k = "generic" THEN "send" ELSE "read"]
  <2>2. c \in Claims /\ c.gen = generation
    BY DEF Claims, CleanupInv, CleanupTypes
  <2>3. ended = k /\ worker' = [worker EXCEPT ![r] = c]
    BY <2>1 DEF Claim, Claimable, Outstanding
  <2>4. Spent(c.gen)
    BY <1>0, <2>2, <2>3 DEF Spent
  <2>5. UNCHANGED frames
    BY <1>5 DEF Fire
  <2> HIDE DEF c
  <2> QED BY <1>3, <1>4, <2>2, <2>3, <2>4, <2>5
<1>6. ASSUME ReadGeneration(r) PROVE Kept
  <2>1. worker[r] \in Claims /\ UNCHANGED frames
    BY <1>0, <1>6 DEF ReadGeneration
  <2>2. CASE EndedGeneration(worker[r].kind) = {}
    <3> DEFINE c == [worker[r] EXCEPT !.at = "mark"]
    <3>1. worker' = [worker EXCEPT ![r] = c]
      BY <1>6, <2>2 DEF ReadGeneration
    <3>2. c \in Claims /\ c.at # "send"
      BY <2>1 DEF Claims
    <3> HIDE DEF c
    <3> QED BY <1>3, <1>4, <2>1, <3>1, <3>2
  <2>3. CASE EndedGeneration(worker[r].kind) # {}
    <3> DEFINE c == [worker[r] EXCEPT !.at = "send", !.gen = generation]
    <3>1. EndedGeneration(worker[r].kind) = {generation} /\ ended = worker[r].kind
      BY <2>3 DEF EndedGeneration
    <3>2. worker' = [worker EXCEPT ![r] = c]
      BY <1>6, <2>3, <3>1 DEF ReadGeneration
    <3>3. c \in Claims /\ c.gen = generation
      BY <2>1 DEF Claims, CleanupInv, CleanupTypes
    <3>4. Spent(c.gen)
      BY <1>0, <2>1, <3>1, <3>3 DEF Spent, Claims
    <3> HIDE DEF c
    <3> QED BY <1>3, <1>4, <2>1, <3>2, <3>3, <3>4
  <2> QED BY <2>2, <2>3
<1>7. ASSUME SendCleanup(r) PROVE Kept
  <2>1. worker[r] \in Claims /\ Spent(worker[r].gen)
    BY <1>0, <1>7 DEF SendCleanup, CleanupInv, ClaimsSpent
  <2>2. CASE linked
    <3> DEFINE c == [worker[r] EXCEPT !.at = "mark"]
    <3>1. worker' = [worker EXCEPT ![r] = c] /\ frames' = frames \cup {worker[r].gen}
      BY <1>7, <2>2 DEF SendCleanup
    <3>2. c \in Claims /\ c.at # "send"
      BY <2>1 DEF Claims
    <3>3. FramesSpent' /\ frames' \subseteq Generations
      BY <1>1, <2>1, <3>1 DEF CleanupInv, CleanupTypes, FramesSpent, Spent, Claims
    <3> HIDE DEF c
    <3> QED BY <1>3, <3>1, <3>2, <3>3
  <2>3. CASE ~linked
    BY <1>3, <1>4, <1>7, <2>3 DEF SendCleanup
  <2> QED BY <2>2, <2>3
<1>8. ASSUME MarkDone(r) \/ Abandon(r) PROVE Kept
  BY <1>3, <1>4, <1>8 DEF MarkDone, Abandon
<1>9. Kept
  BY <1>5, <1>6, <1>7, <1>8
<1> QED BY <1>1, <1>2, <1>9 DEF CleanupInv, CleanupTypes

\* The agent's entry only ever holds generations that came in a frame.
LEMMA EntryKeepsSpent ==
    ASSUME CleanupInv,
           (\E g \in frames : EnqueueCleanup(g)) \/ SweepBegin \/ SweepEnd
    PROVE  CleanupInv'
<1>0. 0 \in Generations /\ cleanup \in Entries /\ NoCleanup \in Entries
  BY EffectsAssumption DEF CleanupInv, CleanupTypes, NoCleanup, Entries, Generations
<1>1. UNCHANGED <<ended, generation, worker>> /\ frames' \subseteq frames
  BY DEF EnqueueCleanup, SweepBegin, SweepEnd, runRow
<1>2. ClaimsSpent' /\ FramesSpent' /\ frames' \subseteq Generations
  BY <1>1 DEF CleanupInv, CleanupTypes, ClaimsSpent, FramesSpent, Spent
<1>3. ASSUME cleanup' = NoCleanup PROVE cleanup' \in Entries /\ EntrySpent'
  BY <1>0, <1>3 DEF EntrySpent, NoCleanup
<1>4. ASSUME NEW g \in frames, EnqueueCleanup(g) PROVE cleanup' \in Entries /\ EntrySpent'
  <2>1. g \in Generations /\ Spent(g)
    BY DEF CleanupInv, CleanupTypes, FramesSpent
  <2>2. CASE cleanup.pending
    <3>1. cleanup' = [cleanup EXCEPT !.max = Larger(cleanup.max, g)]
      BY <1>4, <2>2 DEF EnqueueCleanup, Coalesced
    <3>2. Larger(cleanup.max, g) \in {cleanup.max, g}
      BY DEF Larger
    <3>3. cleanup' \in Entries
      BY <1>0, <2>1, <3>1, <3>2 DEF Entries
    <3>4. cleanup'.max \in {cleanup.max, g} /\ cleanup'.pending = cleanup.pending
          /\ cleanup'.sweeping = cleanup.sweeping /\ cleanup'.sweep = cleanup.sweep
      BY <1>0, <3>1, <3>2 DEF Entries
    <3>5. EntrySpent'
      BY <1>1, <2>1, <2>2, <3>4 DEF CleanupInv, EntrySpent, Spent
    <3> QED BY <3>3, <3>5
  <2>3. CASE cleanup' = [NoCleanup EXCEPT !.pending = TRUE, !.max = g]
    <3>1. cleanup' \in Entries
      BY <1>0, <2>1, <2>3 DEF Entries, NoCleanup
    <3>2. cleanup'.max = g /\ cleanup'.sweeping = FALSE
      BY <2>3 DEF NoCleanup
    <3>3. EntrySpent'
      BY <1>1, <2>1, <3>2 DEF EntrySpent, Spent
    <3> QED BY <3>1, <3>3
  <2>4. CASE UNCHANGED cleanup
    BY <1>0, <1>1, <2>4 DEF CleanupInv, EntrySpent, Spent
  <2> QED BY <1>4, <2>2, <2>3, <2>4 DEF EnqueueCleanup
<1>5. ASSUME SweepBegin PROVE cleanup' \in Entries /\ EntrySpent'
  <2>1. CASE cleanup' = [cleanup EXCEPT !.sweeping = TRUE, !.sweep = cleanup.max]
    <3>1. cleanup' \in Entries
      BY <1>0, <2>1 DEF Entries
    <3>2. cleanup'.pending = cleanup.pending /\ cleanup'.max = cleanup.max
          /\ cleanup'.sweep = cleanup.max
      BY <1>0, <2>1 DEF Entries
    <3>3. EntrySpent'
      BY <1>1, <1>5, <3>2 DEF SweepBegin, CleanupInv, EntrySpent, Spent
    <3> QED BY <3>1, <3>3
  <2> QED BY <1>3, <1>5, <2>1 DEF SweepBegin
<1>6. ASSUME SweepEnd PROVE cleanup' \in Entries /\ EntrySpent'
  <2>1. CASE cleanup' = [cleanup EXCEPT !.sweeping = FALSE, !.processed = cleanup.sweep]
    <3>1. cleanup.sweep \in Int
      BY <1>0 DEF Entries, Generations
    <3>2. cleanup' \in Entries
      BY <1>0, <2>1, <3>1 DEF Entries
    <3>3. cleanup'.pending = cleanup.pending /\ cleanup'.max = cleanup.max
          /\ cleanup'.sweeping = FALSE
      BY <1>0, <2>1 DEF Entries
    <3>4. EntrySpent'
      BY <1>1, <3>3 DEF CleanupInv, EntrySpent, Spent
    <3> QED BY <3>2, <3>4
  <2> QED BY <1>3, <1>6, <2>1 DEF SweepEnd
<1>7. cleanup' \in Entries /\ EntrySpent'
  BY <1>4, <1>5, <1>6
<1> QED BY <1>1, <1>2, <1>7 DEF CleanupInv, CleanupTypes

\* The leases, the agent's session and its jobs touch no copy of a generation,
\* except that a session that drops loses its frames.
LEMMA OthersKeepSpent ==
    ASSUME CleanupInv, LeaseLapses \/ AgentDrops \/ AgentReturns \/ EnsureServices
                       \/ UNCHANGED effectsVars
    PROVE  CleanupInv'
<1>1. UNCHANGED <<ended, generation, worker, cleanup>> /\ frames' \subseteq frames
  BY DEF LeaseLapses, AgentDrops, AgentReturns, EnsureServices, effectsVars, runRow, agentSide
<1> QED BY <1>1 DEF CleanupInv, CleanupTypes, ClaimsSpent, FramesSpent, EntrySpent, Spent

\* The steps of the effects, without fairness.
EffectsSteps == EffectsInit /\ [][EffectsNext]_effectsVars

\* The invariant of the cleanup path: whatever copy of a generation is on its
\* way, in a claim, a frame or the agent's queue, it is spent.
THEOREM CleanupsAreSpent == EffectsSteps => []CleanupInv
<1>1. CleanupInv /\ [EffectsNext]_effectsVars => CleanupInv'
  BY EndingKeepsSpent, ReviveOutruns, WorkersKeepSpent, EntryKeepsSpent, OthersKeepSpent
     DEF EffectsNext
<1> QED BY <1>1, CleanupInit, PTL DEF EffectsSteps

\* What a cleanup may delete, from the steps alone.
LEMMA RevivedKeepPodsBySteps == EffectsSteps => RevivedPodsSurvive
<1> DEFINE Kept == ended = "active" /\ generation \in pods => generation \in pods'
<1>1. CleanupInv /\ [EffectsNext]_effectsVars => [Kept]_effectsVars
  <2> SUFFICES ASSUME CleanupInv, EffectsNext, ended = "active", generation \in pods
               PROVE  generation \in pods'
    OBVIOUS
  <2>1. CASE SweepEnd
    <3>1. generation > cleanup.sweep
      BY <2>1 DEF SweepEnd, CleanupInv, CleanupTypes, EntrySpent, Spent, Entries, Generations
    <3> QED BY <2>1, <3>1 DEF SweepEnd
  <2>2. CASE EnsureServices
    BY <2>2 DEF EnsureServices
  <2>3. CASE ~SweepEnd /\ ~EnsureServices
    <3>1. UNCHANGED pods
      BY <2>3 DEF EffectsNext, CompleteRun, SupersedeRun, CancelMergeGroup, ReviveRun, Fire,
         ReadGeneration, SendCleanup, MarkDone, Abandon, LeaseLapses, AgentDrops, AgentReturns,
         EnqueueCleanup, SweepBegin, agentSide
    <3> QED BY <3>1
  <2> QED BY <2>1, <2>2, <2>3
<1> QED BY <1>1, CleanupsAreSpent, PTL DEF EffectsSteps, RevivedPodsSurvive

\* No step deletes the pods of the current generation of a run that is alive
\* (cleanupSupersededServices and CleanupRunServices), for any number of
\* replicas, lives, outages and frames in flight.
THEOREM RevivedRunsKeepTheirPods == EffectsSpec => RevivedPodsSurvive
BY RevivedKeepPodsBySteps, PTL DEF EffectsSpec, EffectsSteps

(***************************************************************************)
(* LogPath: no line is lost, none of another attempt is shown.  The        *)
(* invariant follows an archive from its request to the deletion of the    *)
(* rows: a request waits behind the last line of its attempt, so from      *)
(* there on nothing is inserted, what a worker read is all there is, and   *)
(* rows go missing only where a stamped blob has them.  A new execution    *)
(* begun in between breaks this, which is what crossed remembers, and one  *)
(* revived beside a stamped archive, which carried does.                   *)
(***************************************************************************)
LogTyped ==
    /\ lAttempt \in LogAttempts /\ lStatus \in {"running", "terminal"} /\ sent \in 0..MaxSeq
    /\ pipe \in [LogAttempts -> Seq(LogLines \cup {Barrier})]
    /\ batch \in [LogAttempts -> SUBSET LogLines]
    /\ lineRows \in SUBSET LogLines /\ persisted \in SUBSET LogLines
    /\ uri \in BOOLEAN /\ orphan \in BOOLEAN /\ staleRead \in BOOLEAN
    /\ crossed \in BOOLEAN /\ clobbered \in BOOLEAN
    /\ blob = NoLines \/ blob \in SUBSET LogLines
    /\ lineCache = NoLines \/ lineCache \in SUBSET LogLines
    /\ arcQueue \in Nat
    /\ archiver \in [Archivers -> [at : {"idle", "put", "mark", "delete"}, lines : SUBSET LogLines]]
    /\ \A w \in Archivers : archiver[w].at = "idle" => archiver[w] = ArcIdle
    /\ keyed \in SUBSET LogAttempts
    /\ carried \in SUBSET {"archive", "lines"}

\* Every line is where its own execution put it, and the rows are of this one,
\* unless a revival left some of the one before.
OwnLines ==
    carried = {} =>
        /\ \A a \in LogAttempts :
              /\ \A i \in 1..Len(pipe[a]) : pipe[a][i] # Barrier => pipe[a][i].att = a
              /\ \A l \in batch[a] : l.att = a
        /\ \A l \in lineRows \cup persisted : l.att = lAttempt

\* The batcher of this attempt has nothing left and will get nothing.
Drained == lStatus = "terminal" /\ pipe[lAttempt] = <<>> /\ batch[lAttempt] = {}

\* No execution began under an archive of the one before.
Undisturbed == ~crossed /\ "archive" \notin carried

\* A barrier is the last thing its attempt queued, and whatever was asked for
\* behind one finds the attempt drained.
BarriersLast ==
    Undisturbed =>
        /\ \A a \in LogAttempts : \A i \in 1..Len(pipe[a]) :
              pipe[a][i] = Barrier => a = lAttempt /\ i = Len(pipe[a]) /\ lStatus = "terminal"
        /\ uri \/ arcQueue > 0 \/ orphan \/ (\E w \in Archivers : archiver[w].at # "idle") => Drained

\* An archive in the making holds all there is, and rows are only missing
\* where a stamped archive has them.
ArchiveComplete ==
    Undisturbed =>
        /\ \A w \in Archivers : archiver[w].at # "idle" =>
              /\ archiver[w].lines = persisted /\ persisted # {}
              /\ archiver[w].at = "delete" => uri
              /\ archiver[w].at = "mark" /\ ~clobbered => blob = persisted
        /\ lineRows = persisted \/ (lineRows = {} /\ uri)
        /\ orphan => uri
        /\ uri /\ ~clobbered => blob = persisted

\* keyed covers what the key and its cache hold, and a stamp is of this attempt.
KeysKnown ==
    /\ blob # NoLines => \A l \in blob : l.att \in keyed
    /\ lineCache # NoLines => \A l \in lineCache : l.att \in keyed
    /\ \A w \in Archivers : archiver[w].at \in {"mark", "delete"} =>
          \A l \in archiver[w].lines : l.att \in keyed
    /\ ~crossed /\ carried = {} /\ uri => lAttempt \in keyed
    /\ staleRead => crossed \/ carried # {} \/ \E a, b \in keyed : a # b

LogInv == LogTyped /\ OwnLines /\ BarriersLast /\ ArchiveComplete /\ KeysKnown


\* A job that has just been handed out.
LEMMA LogStarts == LogInit => LogInv
<1> SUFFICES ASSUME LogInit PROVE LogInv
  OBVIOUS
<1>1. 1 \in LogAttempts /\ 0 \in 0..MaxSeq
  BY LogAssumption DEF LogAttempts
<1>2. <<>> \in Seq(LogLines \cup {Barrier}) /\ Len(<<>>) = 0
  OBVIOUS
<1>3. LogTyped
  BY <1>1, <1>2 DEF LogInit, LogTyped, ArcIdle
<1>4. OwnLines
  BY <1>2 DEF LogInit, OwnLines
<1>5. BarriersLast
  BY <1>2 DEF LogInit, BarriersLast, Undisturbed, ArcIdle
<1>6. ArchiveComplete /\ KeysKnown
  BY DEF LogInit, ArchiveComplete, Undisturbed, KeysKnown, ArcIdle
<1> QED BY <1>3, <1>4, <1>5, <1>6 DEF LogInv

\* A line that is pushed belongs to a running attempt: no archive is pending.
LEMMA PushLineKeeps == ASSUME LogInv, PushLine PROVE LogInv'
<1> USE DEF LogInv, Undisturbed
<1>1. LogTyped'
  <2>1. [att |-> lAttempt, seq |-> sent + 1] \in LogLines /\ sent' \in 0..MaxSeq
    BY LogAssumption DEF PushLine, LogTyped, LogLines
  <2>2. pipe' \in [LogAttempts -> Seq(LogLines \cup {Barrier})]
    <3>1. pipe[lAttempt] \in Seq(LogLines \cup {Barrier})
      BY DEF LogTyped
    <3>2. Append(pipe[lAttempt], [att |-> lAttempt, seq |-> sent + 1]) \in Seq(LogLines \cup {Barrier})
      BY <3>1, <2>1, Appended
    <3> QED BY <3>2 DEF PushLine, LogTyped
  <2> QED BY <2>1, <2>2 DEF PushLine, LogTyped, archiveVars, logHistory
<1>2. OwnLines'
  BY DEF PushLine, archiveVars, logHistory, OwnLines, LogTyped
<1>3. BarriersLast'
  <2>1. SUFFICES ASSUME Undisturbed' PROVE BarriersLast'
    BY DEF BarriersLast
  <2>2. Undisturbed /\ lStatus = "running"
    BY <2>1 DEF PushLine, logHistory
  <2>3. \A a \in LogAttempts : \A i \in 1..Len(pipe[a]) : pipe[a][i] # Barrier
    BY <2>2 DEF BarriersLast
  <2>4. [att |-> lAttempt, seq |-> sent + 1] # Barrier
    BY DEF LogTyped, LogAttempts, Barrier
  <2>5. \A a \in LogAttempts : \A i \in 1..Len(pipe'[a]) : pipe'[a][i] # Barrier
    <3> SUFFICES ASSUME NEW a \in LogAttempts, NEW i \in 1..Len(pipe'[a]) PROVE pipe'[a][i] # Barrier
      OBVIOUS
    <3>1. CASE pipe'[a] = pipe[a]
      BY <3>1, <2>3
    <3>2. CASE pipe'[a] = Append(pipe[a], [att |-> lAttempt, seq |-> sent + 1])
      <4>1. /\ pipe[a] \in Seq(LogLines \cup {Barrier})
            /\ [att |-> lAttempt, seq |-> sent + 1] \in LogLines \cup {Barrier}
        BY LogAssumption DEF LogTyped, PushLine, LogLines
      <4> QED BY <4>1, <3>2, <2>3, <2>4, Appended
    <3> QED BY <3>1, <3>2 DEF PushLine, LogTyped
  <2>6. ~(uri \/ arcQueue > 0 \/ orphan \/ \E w \in Archivers : archiver[w].at # "idle")
    BY <2>2 DEF BarriersLast, Drained
  <2> QED BY <2>5, <2>6 DEF PushLine, BarriersLast, archiveVars
<1>4. ArchiveComplete'
  BY DEF PushLine, archiveVars, logHistory, ArchiveComplete, LogTyped, ArcIdle
<1>5. KeysKnown'
  BY DEF PushLine, archiveVars, logHistory, KeysKnown, LogTyped, ArcIdle
<1> QED BY <1>1, <1>2, <1>3, <1>4, <1>5 DEF LogInv

\* The result puts the barrier behind the lines of its attempt.
LEMMA FinishJobKeeps == ASSUME LogInv, FinishJob PROVE LogInv'
<1> USE DEF LogInv, Undisturbed
<1>1. LogTyped'
  BY DEF FinishJob, archiveVars, logHistory, LogTyped, ArcIdle, LogLines
<1>2. OwnLines'
  BY DEF FinishJob, archiveVars, logHistory, OwnLines, LogTyped
<1>3. BarriersLast'
  BY DEF FinishJob, archiveVars, logHistory, BarriersLast, Drained, LogTyped, ArcIdle
<1>4. ArchiveComplete'
  BY DEF FinishJob, archiveVars, logHistory, ArchiveComplete, LogTyped, ArcIdle
<1>5. KeysKnown'
  BY DEF FinishJob, archiveVars, logHistory, KeysKnown, LogTyped, ArcIdle
<1> QED BY <1>1, <1>2, <1>3, <1>4, <1>5 DEF LogInv

\* A new attempt clears the rows and the pointer; unless it crosses an archive,
\* no copy of the old attempt's lines is on its way.
LEMMA NewAttemptKeeps == ASSUME LogInv, NewAttempt PROVE LogInv'
<1> USE DEF LogInv, Undisturbed
<1>a. /\ uri' = FALSE /\ lineRows' = {} /\ persisted' = {}
      /\ crossed' = (crossed \/ orphan \/ ArchivePending)
      /\ UNCHANGED <<pipe, batch, blob, lineCache, arcQueue, archiver, orphan, staleRead, keyed, clobbered, carried>>
  BY DEF NewAttempt, NewPointer, archiveVars
<1>b. lAttempt' \in LogAttempts
  BY LogAssumption DEF NewAttempt, LogTyped, LogAttempts
<1>c. ~crossed' =>
         /\ ~orphan' /\ ~(arcQueue' > 0)
         /\ \A w \in Archivers : archiver'[w].at = "idle"
         /\ \A a \in LogAttempts : \A i \in 1..Len(pipe'[a]) : pipe'[a][i] # Barrier
  <2>1. \A a \in LogAttempts : DOMAIN pipe[a] = 1..Len(pipe[a])
    BY DEF LogTyped
  <2>2. ~crossed' => ~orphan /\ ~ArchivePending
    BY <1>a
  <2>3. ~ArchivePending =>
           /\ ~(arcQueue > 0)
           /\ \A w \in Archivers : archiver[w].at = "idle"
           /\ \A a \in LogAttempts : \A i \in 1..Len(pipe[a]) : pipe[a][i] # Barrier
    BY <2>1 DEF ArchivePending, ArcIdle
  <2> QED BY <2>2, <2>3, <1>a
<1>1. LogTyped'
  <2>1. crossed' \in BOOLEAN /\ sent' \in 0..MaxSeq
    BY <1>a, LogAssumption DEF NewAttempt, ArchivePending
  <2> QED BY <2>1, <1>a, <1>b DEF NewAttempt, LogTyped
<1>2. OwnLines'
  BY <1>a DEF OwnLines
<1>3. BarriersLast'
  BY <1>a, <1>c DEF BarriersLast
<1>4. ArchiveComplete'
  BY <1>a, <1>c DEF ArchiveComplete
<1>5. KeysKnown'
  BY <1>a DEF KeysKnown
<1> QED BY <1>1, <1>2, <1>3, <1>4, <1>5 DEF LogInv

\* A revival keeps rows and pointer.  Unless it crosses an archive or finds one
\* stamped, all the rows there are stay, and none of them is on its way.
LEMMA ReviveTailKeeps == ASSUME LogInv, ReviveTail PROVE LogInv'
<1> USE DEF LogInv, Undisturbed
<1>a. /\ lAttempt \in LogAttempts /\ lAttempt' = lAttempt + 1 /\ lAttempt' \in LogAttempts
      /\ lStatus' = "running" /\ sent' = 0 /\ (uri' = uri \/ uri' = FALSE)
      /\ crossed' = (crossed \/ orphan \/ ArchivePending)
      /\ carried' = carried \cup LeftBehind
      /\ UNCHANGED <<lineRows, persisted, blob, lineCache, arcQueue, archiver, orphan, staleRead, keyed, clobbered>>
  <2>1. /\ lAttempt < MaxAttempt /\ lAttempt' = lAttempt + 1
        /\ lStatus' = "running" /\ sent' = 0 /\ (uri' = uri \/ uri' = FALSE)
        /\ crossed' = (crossed \/ orphan \/ ArchivePending)
        /\ carried' = carried \cup LeftBehind
    BY DEF ReviveTail, NewPointer
  <2>2. UNCHANGED <<lineRows, persisted, blob, lineCache, arcQueue, archiver, orphan, staleRead, keyed, clobbered>>
    BY DEF ReviveTail, archiveVars
  <2>3. lAttempt \in LogAttempts /\ lAttempt + 1 \in LogAttempts
    BY <2>1, LogAssumption DEF LogTyped, LogAttempts
  <2> QED BY <2>1, <2>2, <2>3
<1>b. \/ UNCHANGED <<pipe, batch>>
      \/ /\ pipe' = [pipe EXCEPT ![lAttempt + 1] = pipe[lAttempt], ![lAttempt] = <<>>]
         /\ batch' = [batch EXCEPT ![lAttempt + 1] = batch[lAttempt], ![lAttempt] = {}]
  BY DEF ReviveTail, batcherVars
<1>c. \A a \in LogAttempts : /\ pipe'[a] = <<>> \/ \E b \in LogAttempts : pipe'[a] = pipe[b]
                             /\ batch'[a] = {} \/ \E b \in LogAttempts : batch'[a] = batch[b]
  BY <1>a, <1>b DEF LogTyped
<1>d. ~crossed' =>
         /\ ~crossed /\ ~orphan' /\ ~(arcQueue' > 0)
         /\ \A w \in Archivers : archiver'[w].at = "idle"
         /\ \A a \in LogAttempts : \A i \in 1..Len(pipe[a]) : pipe[a][i] # Barrier
  <2>1. \A a \in LogAttempts : DOMAIN pipe[a] = 1..Len(pipe[a])
    BY DEF LogTyped
  <2>2. ~crossed' => ~crossed /\ ~orphan /\ ~ArchivePending
    BY <1>a
  <2>3. ~ArchivePending =>
           /\ ~(arcQueue > 0)
           /\ \A w \in Archivers : archiver[w].at = "idle"
           /\ \A a \in LogAttempts : \A i \in 1..Len(pipe[a]) : pipe[a][i] # Barrier
    BY <2>1 DEF ArchivePending, ArcIdle
  <2> QED BY <2>2, <2>3, <1>a
<1>e. ~crossed' => \A a \in LogAttempts : \A i \in 1..Len(pipe'[a]) : pipe'[a][i] # Barrier
  <2> SUFFICES ASSUME ~crossed', NEW a \in LogAttempts, NEW i \in 1..Len(pipe'[a])
               PROVE  pipe'[a][i] # Barrier
    OBVIOUS
  <2>1. PICK b \in LogAttempts : pipe'[a] = pipe[b]
    <3>1. CASE pipe'[a] = <<>>
      <4>1. Len(<<>>) = 0
        OBVIOUS
      <4> QED BY <3>1, <4>1
    <3> QED BY <3>1, <1>c
  <2> QED BY <2>1, <1>d
<1>f. Undisturbed' => Undisturbed /\ ~uri /\ ~uri'
  BY <1>a, <1>d DEF LeftBehind, LogTyped
<1>1. LogTyped'
  <2>0. crossed' \in BOOLEAN
    BY <1>a
  <2>1. crossed' \in BOOLEAN /\ sent' \in 0..MaxSeq /\ uri' \in BOOLEAN
    <3>1. uri \in BOOLEAN
      BY DEF LogTyped
    <3>2. 0 \in 0..MaxSeq
      BY LogAssumption
    <3> QED BY <1>a, <2>0, <3>1, <3>2
  <2>2. carried' \in SUBSET {"archive", "lines"}
    BY <1>a DEF LogTyped, LeftBehind
  <2>3. pipe' \in [LogAttempts -> Seq(LogLines \cup {Barrier})]
    <3>1. <<>> \in Seq(LogLines \cup {Barrier})
      OBVIOUS
    <3>2. pipe[lAttempt] \in Seq(LogLines \cup {Barrier})
      BY <1>a DEF LogTyped
    <3> QED BY <3>1, <3>2, <1>a, <1>b DEF LogTyped
  <2>4. batch' \in [LogAttempts -> SUBSET LogLines]
    BY <1>a, <1>b DEF LogTyped
  <2> QED BY <2>1, <2>2, <2>3, <2>4, <1>a DEF LogTyped
<1>2. OwnLines'
  <2>1. SUFFICES ASSUME carried' = {} PROVE OwnLines'
    BY DEF OwnLines
  <2>2. /\ carried = {} /\ lineRows = {} /\ persisted = {}
        /\ pipe[lAttempt] = <<>> /\ batch[lAttempt] = {}
    BY <1>a, <2>1 DEF LeftBehind
  <2>3. \A a \in LogAttempts : /\ pipe'[a] = <<>> \/ pipe'[a] = pipe[a]
                               /\ batch'[a] = {} \/ batch'[a] = batch[a]
    BY <2>2, <1>a, <1>b DEF LogTyped
  <2>4. \A a \in LogAttempts : \A i \in 1..Len(pipe'[a]) : pipe'[a][i] # Barrier => pipe'[a][i].att = a
    <3> SUFFICES ASSUME NEW a \in LogAttempts, NEW i \in 1..Len(pipe'[a]), pipe'[a][i] # Barrier
                 PROVE  pipe'[a][i].att = a
      OBVIOUS
    <3>1. CASE pipe'[a] = <<>>
      <4>1. Len(<<>>) = 0
        OBVIOUS
      <4> QED BY <3>1, <4>1
    <3>2. CASE pipe'[a] = pipe[a]
      BY <3>2, <2>2 DEF OwnLines
    <3> QED BY <3>1, <3>2, <2>3
  <2>5. \A a \in LogAttempts : \A l \in batch'[a] : l.att = a
    BY <2>2, <2>3 DEF OwnLines
  <2> QED BY <2>4, <2>5, <2>2, <1>a DEF OwnLines
<1>3. BarriersLast'
  BY <1>d, <1>e, <1>f DEF BarriersLast
<1>4. ArchiveComplete'
  <2> SUFFICES ASSUME Undisturbed' PROVE ArchiveComplete'
    BY DEF ArchiveComplete
  <2>1. lineRows' = persisted'
    BY <1>f, <1>a DEF ArchiveComplete
  <2> QED BY <2>1, <1>a, <1>d, <1>f DEF ArchiveComplete
<1>5. KeysKnown'
  <2>1. ~crossed' /\ carried' = {} => ~uri'
    BY <1>f
  <2>2. crossed => crossed'
    BY <1>a
  <2>3. carried # {} => carried' # {}
    BY <1>a
  <2> QED BY <1>a, <2>1, <2>2, <2>3 DEF KeysKnown
<1> QED BY <1>1, <1>2, <1>3, <1>4, <1>5 DEF LogInv

\* The reconcile pass asks for an archive only of a drained attempt.
LEMMA ResubmitKeeps == ASSUME LogInv, Resubmit PROVE LogInv'
<1> USE DEF LogInv, Undisturbed
<1>1. LogTyped'
  BY DEF Resubmit, rowVars, batcherVars, logHistory, LogTyped, ArcIdle, LogLines
<1>2. OwnLines'
  BY DEF Resubmit, rowVars, batcherVars, logHistory, OwnLines, LogTyped
<1>3. BarriersLast'
  BY DEF Resubmit, rowVars, batcherVars, logHistory, BarriersLast, Drained, LogTyped, ArcIdle
<1>4. ArchiveComplete'
  BY DEF Resubmit, rowVars, batcherVars, logHistory, ArchiveComplete, LogTyped, ArcIdle
<1>5. KeysKnown'
  BY DEF Resubmit, rowVars, batcherVars, logHistory, KeysKnown, LogTyped, ArcIdle
<1> QED BY <1>1, <1>2, <1>3, <1>4, <1>5 DEF LogInv

\* Rows of an archived job are listed.
LEMMA ListOrphansKeeps == ASSUME LogInv, ListOrphans PROVE LogInv'
<1> USE DEF LogInv, Undisturbed
<1>1. LogTyped'
  BY DEF ListOrphans, rowVars, batcherVars, logHistory, LogTyped, ArcIdle, LogLines
<1>2. OwnLines'
  BY DEF ListOrphans, rowVars, batcherVars, logHistory, OwnLines, LogTyped
<1>3. BarriersLast'
  BY DEF ListOrphans, rowVars, batcherVars, logHistory, BarriersLast, Drained, LogTyped, ArcIdle
<1>4. ArchiveComplete'
  BY DEF ListOrphans, rowVars, batcherVars, logHistory, ArchiveComplete, LogTyped, ArcIdle
<1>5. KeysKnown'
  BY DEF ListOrphans, rowVars, batcherVars, logHistory, KeysKnown, LogTyped, ArcIdle
<1> QED BY <1>1, <1>2, <1>3, <1>4, <1>5 DEF LogInv

\* Listed rows are deleted: the stamped archive has them.
LEMMA DeleteOrphansKeeps == ASSUME LogInv, DeleteOrphans PROVE LogInv'
<1> USE DEF LogInv, Undisturbed
<1>1. LogTyped'
  BY DEF DeleteOrphans, rowVars, batcherVars, logHistory, LogTyped, ArcIdle, LogLines
<1>2. OwnLines'
  BY DEF DeleteOrphans, rowVars, batcherVars, logHistory, OwnLines, LogTyped
<1>3. BarriersLast'
  BY DEF DeleteOrphans, rowVars, batcherVars, logHistory, BarriersLast, Drained, LogTyped, ArcIdle
<1>4. ArchiveComplete'
  BY DEF DeleteOrphans, rowVars, batcherVars, logHistory, ArchiveComplete, LogTyped, ArcIdle
<1>5. KeysKnown'
  BY DEF DeleteOrphans, rowVars, batcherVars, logHistory, KeysKnown, LogTyped, ArcIdle
<1> QED BY <1>1, <1>2, <1>3, <1>4, <1>5 DEF LogInv

\* A read shows another attempt's line only if the key has two attempts.
LEMMA ReadLogsKeeps == ASSUME LogInv, ReadLogs PROVE LogInv'
<1> USE DEF LogInv, Undisturbed
<1>1. LogTyped'
  BY DEF ReadLogs, Shown, rowVars, batcherVars, archiveVars, LogTyped, ArcIdle, LogLines
<1>2. OwnLines'
  BY DEF ReadLogs, Shown, rowVars, batcherVars, archiveVars, OwnLines, LogTyped
<1>3. BarriersLast'
  BY DEF ReadLogs, Shown, rowVars, batcherVars, archiveVars, BarriersLast, Drained, LogTyped, ArcIdle
<1>4. ArchiveComplete'
  BY DEF ReadLogs, Shown, rowVars, batcherVars, archiveVars, ArchiveComplete, LogTyped, ArcIdle
<1>5. KeysKnown'
  <2>1. UNCHANGED <<lAttempt, uri, blob, archiver, crossed, keyed, carried>>
    BY DEF ReadLogs, rowVars, archiveVars
  <2>2. lineCache' # NoLines => \A l \in lineCache' : l.att \in keyed
    BY DEF ReadLogs, KeysKnown
  <2>3. ASSUME ~crossed, carried = {}, NEW l \in Shown, l.att # lAttempt PROVE \E a, b \in keyed : a # b
    <3>1. uri
      BY <2>3 DEF Shown, OwnLines
    <3>2. l.att \in keyed
      BY <2>3, <3>1 DEF Shown, KeysKnown
    <3>3. lAttempt \in keyed
      BY <2>3, <3>1 DEF KeysKnown
    <3> QED BY <2>3, <3>2, <3>3
  <2>4. staleRead' => crossed \/ carried # {} \/ \E a, b \in keyed : a # b
    BY <2>3 DEF ReadLogs, KeysKnown
  <2> QED BY <2>1, <2>2, <2>4 DEF KeysKnown
<1> QED BY <1>1, <1>2, <1>3, <1>4, <1>5 DEF LogInv

\* The cache forgets.
LEMMA EvictArchiveKeeps == ASSUME LogInv, EvictArchive PROVE LogInv'
<1> USE DEF LogInv, Undisturbed
<1>1. LogTyped'
  BY DEF EvictArchive, rowVars, batcherVars, archiveVars, logHistory, LogTyped, ArcIdle, LogLines
<1>2. OwnLines'
  BY DEF EvictArchive, rowVars, batcherVars, archiveVars, logHistory, OwnLines, LogTyped
<1>3. BarriersLast'
  BY DEF EvictArchive, rowVars, batcherVars, archiveVars, logHistory, BarriersLast, Drained,
     LogTyped, ArcIdle
<1>4. ArchiveComplete'
  BY DEF EvictArchive, rowVars, batcherVars, archiveVars, logHistory, ArchiveComplete, LogTyped, ArcIdle
<1>5. KeysKnown'
  BY DEF EvictArchive, rowVars, batcherVars, archiveVars, logHistory, KeysKnown, LogTyped, ArcIdle
<1> QED BY <1>1, <1>2, <1>3, <1>4, <1>5 DEF LogInv

\* A line moves from the channel into the batch.
LEMMA BatcherTakesLineKeeps == ASSUME LogInv, NEW a \in LogAttempts, BatcherTakesLine(a) PROVE LogInv'
<1> USE DEF LogInv, Undisturbed
<1>1. LogTyped'
  BY DEF BatcherTakesLine, rowVars, archiveVars, logHistory, LogTyped, ArcIdle, LogLines
<1>2. OwnLines'
  BY DEF BatcherTakesLine, rowVars, archiveVars, logHistory, OwnLines, LogTyped
<1>3. BarriersLast'
  BY DEF BatcherTakesLine, rowVars, archiveVars, logHistory, BarriersLast, Drained, LogTyped, ArcIdle
<1>4. ArchiveComplete'
  BY DEF BatcherTakesLine, rowVars, archiveVars, logHistory, ArchiveComplete, LogTyped, ArcIdle
<1>5. KeysKnown'
  BY DEF BatcherTakesLine, rowVars, archiveVars, logHistory, KeysKnown, LogTyped, ArcIdle
<1> QED BY <1>1, <1>2, <1>3, <1>4, <1>5 DEF LogInv

\* A flush inserts only while nothing is archived yet.
LEMMA BatcherFlushesKeeps == ASSUME LogInv, NEW a \in LogAttempts, BatcherFlushes(a) PROVE LogInv'
<1> USE DEF LogInv, Undisturbed
<1>a. UNCHANGED <<lAttempt, lStatus, gone, uri, blob, lineCache, archiver, orphan, staleRead,
                  crossed, keyed, clobbered, carried>>
  BY DEF BatcherFlushes, rowVars, archiveVars, logHistory
<1>b. Undisturbed /\ ~Drained =>
         ~uri /\ ~orphan /\ (\A w \in Archivers : archiver[w].at = "idle") /\ lineRows = persisted
  BY DEF BarriersLast, ArchiveComplete, LogTyped
<1>c. \/ lineRows' = lineRows /\ persisted' = persisted
      \/ a = lAttempt /\ lineRows' = lineRows \cup batch[a] /\ persisted' = persisted \cup batch[a]
  BY DEF BatcherFlushes, Flush, Inserted
<1>d. a = lAttempt => ~Drained
  BY DEF BatcherFlushes, Drained
<1>1. LogTyped'
  BY DEF BatcherFlushes, Flush, Inserted, rowVars, archiveVars, logHistory, LogTyped, ArcIdle, LogLines
<1>2. OwnLines'
  BY DEF BatcherFlushes, Flush, Inserted, rowVars, archiveVars, logHistory, OwnLines, LogTyped
<1>3. BarriersLast'
  BY DEF BatcherFlushes, Flush, Inserted, rowVars, archiveVars, logHistory, BarriersLast, Drained,
     LogTyped, ArcIdle
<1>4. ArchiveComplete'
  <2>1. CASE lineRows' = lineRows /\ persisted' = persisted
    BY <2>1, <1>a DEF ArchiveComplete
  <2>2. CASE a = lAttempt /\ lineRows' = lineRows \cup batch[a] /\ persisted' = persisted \cup batch[a]
    BY <2>2, <1>a, <1>b, <1>d DEF ArchiveComplete
  <2> QED BY <2>1, <2>2, <1>c
<1>5. KeysKnown'
  BY DEF BatcherFlushes, Flush, Inserted, rowVars, archiveVars, logHistory, KeysKnown, LogTyped, ArcIdle
<1> QED BY <1>1, <1>2, <1>3, <1>4, <1>5 DEF LogInv

\* The barrier is the last item: flushed behind it, the attempt is drained.
LEMMA BatcherTakesBarrierKeeps == ASSUME LogInv, NEW a \in LogAttempts, BatcherTakesBarrier(a) PROVE LogInv'
<1> USE DEF LogInv, Undisturbed
<1>a. UNCHANGED <<lAttempt, lStatus, gone, uri, blob, lineCache, archiver, orphan, staleRead,
                  crossed, keyed, clobbered, carried>>
  BY DEF BatcherTakesBarrier, rowVars, logHistory
<1>b. Undisturbed /\ ~Drained =>
         ~uri /\ ~orphan /\ (\A w \in Archivers : archiver[w].at = "idle") /\ lineRows = persisted
  BY DEF BarriersLast, ArchiveComplete, LogTyped
<1>c. \/ lineRows' = lineRows /\ persisted' = persisted
      \/ a = lAttempt /\ lineRows' = lineRows \cup batch[a] /\ persisted' = persisted \cup batch[a]
  BY DEF BatcherTakesBarrier, Flush, Inserted
<1>d. a = lAttempt => ~Drained
  BY DEF BatcherTakesBarrier, Drained
<1>1. LogTyped'
  BY DEF BatcherTakesBarrier, Flush, Inserted, rowVars, logHistory, LogTyped, ArcIdle, LogLines
<1>2. OwnLines'
  BY DEF BatcherTakesBarrier, Flush, Inserted, rowVars, logHistory, OwnLines, LogTyped
<1>3. BarriersLast'
  BY DEF BatcherTakesBarrier, Flush, Inserted, rowVars, logHistory, BarriersLast, Drained, LogTyped,
     ArcIdle
<1>4. ArchiveComplete'
  <2>1. CASE lineRows' = lineRows /\ persisted' = persisted
    BY <2>1, <1>a DEF ArchiveComplete
  <2>2. CASE a = lAttempt /\ lineRows' = lineRows \cup batch[a] /\ persisted' = persisted \cup batch[a]
    BY <2>2, <1>a, <1>b, <1>d DEF ArchiveComplete
  <2> QED BY <2>1, <2>2, <1>c
<1>5. KeysKnown'
  BY DEF BatcherTakesBarrier, Flush, Inserted, rowVars, logHistory, KeysKnown, LogTyped, ArcIdle
<1> QED BY <1>1, <1>2, <1>3, <1>4, <1>5 DEF LogInv

\* A worker reads all rows there are.
LEMMA ArchiveReadKeeps == ASSUME LogInv, NEW w \in Archivers, ArchiveRead(w) PROVE LogInv'
<1> USE DEF LogInv, Undisturbed
<1>1. LogTyped'
  <2>1. [at |-> "put", lines |-> lineRows] \in [at : {"idle", "put", "mark", "delete"}, lines : SUBSET LogLines]
        /\ ArcIdle \in [at : {"idle", "put", "mark", "delete"}, lines : SUBSET LogLines]
    BY DEF LogTyped, ArcIdle
  <2>2. \/ archiver' = [archiver EXCEPT ![w] = ArcIdle]
        \/ archiver' = [archiver EXCEPT ![w] = [at |-> "put", lines |-> lineRows]]
    BY DEF ArchiveRead
  <2>3. archiver' \in [Archivers -> [at : {"idle", "put", "mark", "delete"}, lines : SUBSET LogLines]]
    BY <2>1, <2>2 DEF LogTyped
  <2>4. \A v \in Archivers : archiver'[v].at = "idle" => archiver'[v] = ArcIdle
    <3> SUFFICES ASSUME NEW v \in Archivers, archiver'[v].at = "idle"
                 PROVE archiver'[v] = ArcIdle
      OBVIOUS
    <3>1. DOMAIN archiver = Archivers /\ (archiver[v].at = "idle" => archiver[v] = ArcIdle)
      BY DEF LogTyped
    <3>2. CASE v # w
      BY <3>1, <3>2, <2>2
    <3>3. CASE v = w
      BY <3>1, <3>3, <2>2
    <3> QED BY <3>2, <3>3
  <2>5. arcQueue' \in Nat
    BY DEF ArchiveRead, LogTyped
  <2> QED BY <2>3, <2>4, <2>5 DEF ArchiveRead, LogTyped, rowVars, batcherVars, logHistory
<1>2. OwnLines'
  BY DEF ArchiveRead, rowVars, batcherVars, logHistory, OwnLines, LogTyped
<1>3. BarriersLast'
  BY DEF ArchiveRead, rowVars, batcherVars, logHistory, BarriersLast, Drained, LogTyped, ArcIdle
<1>4. ArchiveComplete'
  BY DEF ArchiveRead, rowVars, batcherVars, logHistory, ArchiveComplete, LogTyped, ArcIdle
<1>5. KeysKnown'
  BY DEF ArchiveRead, rowVars, batcherVars, logHistory, KeysKnown, LogTyped, ArcIdle
<1> QED BY <1>1, <1>2, <1>3, <1>4, <1>5 DEF LogInv

\* The upload is what was read.
LEMMA ArchivePutKeeps == ASSUME LogInv, NEW w \in Archivers, ArchivePut(w) PROVE LogInv'
<1> USE DEF LogInv, Undisturbed
<1>1. LogTyped'
  <2>1. archiver[w] \in [at : {"idle", "put", "mark", "delete"}, lines : SUBSET LogLines]
    BY DEF LogTyped
  <2>2. /\ archiver' \in [Archivers -> [at : {"idle", "put", "mark", "delete"}, lines : SUBSET LogLines]]
        /\ \A v \in Archivers : archiver'[v].at = "idle" => archiver'[v] = ArcIdle
    BY <2>1 DEF ArchivePut, LogTyped
  <2>3. keyed' \in SUBSET LogAttempts /\ blob' \in SUBSET LogLines
    BY <2>1 DEF ArchivePut, LogTyped, LogLines
  <2> QED BY <2>2, <2>3 DEF ArchivePut, LogTyped, rowVars, batcherVars
<1>2. OwnLines'
  BY DEF ArchivePut, rowVars, batcherVars, OwnLines, LogTyped
<1>3. BarriersLast'
  BY DEF ArchivePut, rowVars, batcherVars, BarriersLast, Drained, LogTyped, ArcIdle
<1>4. ArchiveComplete'
  BY DEF ArchivePut, rowVars, batcherVars, ArchiveComplete, LogTyped, ArcIdle
<1>5. KeysKnown'
  BY DEF ArchivePut, rowVars, batcherVars, KeysKnown, LogTyped, ArcIdle
<1> QED BY <1>1, <1>2, <1>3, <1>4, <1>5 DEF LogInv

\* The stamp publishes a complete archive, or its failure deletes one.
LEMMA ArchiveMarkKeeps == ASSUME LogInv, NEW w \in Archivers, ArchiveMark(w) PROVE LogInv'
<1> USE DEF LogInv, Undisturbed
<1>a. UNCHANGED <<lAttempt, lStatus, sent, pipe, batch, gone, lineRows, persisted, lineCache, arcQueue,
                  orphan, staleRead, crossed, keyed, carried>>
  BY DEF ArchiveMark, rowVars, batcherVars
<1>b. /\ archiver[w].at = "mark" /\ archiver[w].lines \in SUBSET LogLines
      /\ archiver[w] = [at |-> "mark", lines |-> archiver[w].lines]
  BY DEF ArchiveMark, LogTyped
<1>c. \/ /\ archiver' = [archiver EXCEPT ![w] = [at |-> "delete", lines |-> archiver[w].lines]]
         /\ uri' = TRUE /\ blob' = blob /\ clobbered' = clobbered
      \/ /\ archiver' = [archiver EXCEPT ![w] = ArcIdle]
         /\ uri' = uri /\ blob' = NoLines
         /\ clobbered' = (clobbered \/ uri \/ \E o \in Archivers \ {w} : archiver[o].at = "mark")
  BY <1>b DEF ArchiveMark
<1>d. \A v \in Archivers : v # w => archiver'[v] = archiver[v]
  BY <1>c DEF LogTyped
<1>e. archiver'[w] = [at |-> "delete", lines |-> archiver[w].lines] \/ archiver'[w] = ArcIdle
  BY <1>c DEF LogTyped
<1>1. LogTyped'
  <2>1. /\ [at |-> "delete", lines |-> archiver[w].lines]
              \in [at : {"idle", "put", "mark", "delete"}, lines : SUBSET LogLines]
        /\ ArcIdle \in [at : {"idle", "put", "mark", "delete"}, lines : SUBSET LogLines]
    BY <1>b DEF ArcIdle
  <2>2. archiver' \in [Archivers -> [at : {"idle", "put", "mark", "delete"}, lines : SUBSET LogLines]]
    BY <2>1, <1>c DEF LogTyped
  <2>3. \A v \in Archivers : archiver'[v].at = "idle" => archiver'[v] = ArcIdle
    BY <1>d, <1>e DEF LogTyped
  <2>4. uri' \in BOOLEAN /\ clobbered' \in BOOLEAN /\ (blob' = NoLines \/ blob' \in SUBSET LogLines)
    BY <1>c DEF LogTyped
  <2> QED BY <2>2, <2>3, <2>4, <1>a DEF LogTyped
<1>2. OwnLines'
  BY DEF ArchiveMark, rowVars, batcherVars, OwnLines, LogTyped
<1>3. BarriersLast'
  BY DEF ArchiveMark, rowVars, batcherVars, BarriersLast, Drained, LogTyped, ArcIdle
<1>4. ArchiveComplete'
  <2> SUFFICES ASSUME Undisturbed PROVE ArchiveComplete'
    BY <1>a DEF ArchiveComplete
  <2>1. CASE /\ archiver' = [archiver EXCEPT ![w] = [at |-> "delete", lines |-> archiver[w].lines]]
             /\ uri' = TRUE /\ blob' = blob /\ clobbered' = clobbered
    <3>1. archiver'[w] = [at |-> "delete", lines |-> archiver[w].lines]
      BY <2>1 DEF LogTyped
    <3> QED BY <2>1, <3>1, <1>a, <1>b, <1>d DEF ArchiveComplete
  <2>2. CASE /\ archiver' = [archiver EXCEPT ![w] = ArcIdle]
             /\ uri' = uri /\ blob' = NoLines
             /\ clobbered' = (clobbered \/ uri \/ \E o \in Archivers \ {w} : archiver[o].at = "mark")
    <3>1. archiver'[w].at = "idle"
      BY <2>2 DEF LogTyped, ArcIdle
    <3>2. ~clobbered' => ~uri /\ \A v \in Archivers : v # w => archiver[v].at # "mark"
      BY <2>2
    <3> QED BY <2>2, <3>1, <3>2, <1>a, <1>d DEF ArchiveComplete
  <2> QED BY <2>1, <2>2, <1>c
<1>5. KeysKnown'
  <2>1. blob' # NoLines => \A l \in blob' : l.att \in keyed
    BY <1>c DEF KeysKnown
  <2>2. \A v \in Archivers : archiver'[v].at \in {"mark", "delete"} =>
           \A l \in archiver'[v].lines : l.att \in keyed
    BY <1>b, <1>d, <1>e DEF KeysKnown, ArcIdle
  <2>3. ~crossed /\ carried = {} => lAttempt \in keyed
    <3> SUFFICES ASSUME ~crossed, carried = {} PROVE lAttempt \in keyed
      OBVIOUS
    <3>1. PICK l \in archiver[w].lines : l \in persisted
      BY <1>b DEF ArchiveComplete
    <3> QED BY <3>1, <1>b DEF KeysKnown, OwnLines
  <2> QED BY <2>1, <2>2, <2>3, <1>a DEF KeysKnown
<1> QED BY <1>1, <1>2, <1>3, <1>4, <1>5 DEF LogInv

\* Rows are deleted behind the stamp.
LEMMA ArchiveDeleteKeeps == ASSUME LogInv, NEW w \in Archivers, ArchiveDelete(w) PROVE LogInv'
<1> USE DEF LogInv, Undisturbed
<1>1. LogTyped'
  BY DEF ArchiveDelete, rowVars, batcherVars, logHistory, LogTyped, ArcIdle, LogLines
<1>2. OwnLines'
  BY DEF ArchiveDelete, rowVars, batcherVars, logHistory, OwnLines, LogTyped
<1>3. BarriersLast'
  BY DEF ArchiveDelete, rowVars, batcherVars, logHistory, BarriersLast, Drained, LogTyped, ArcIdle
<1>4. ArchiveComplete'
  BY DEF ArchiveDelete, rowVars, batcherVars, logHistory, ArchiveComplete, LogTyped, ArcIdle
<1>5. KeysKnown'
  BY DEF ArchiveDelete, rowVars, batcherVars, logHistory, KeysKnown, LogTyped, ArcIdle
<1> QED BY <1>1, <1>2, <1>3, <1>4, <1>5 DEF LogInv

\* A failed upload changes nothing.
LEMMA ArchiveFailsKeeps == ASSUME LogInv, NEW w \in Archivers, ArchiveFails(w) PROVE LogInv'
<1> USE DEF LogInv, Undisturbed
<1>1. LogTyped'
  BY DEF ArchiveFails, rowVars, batcherVars, logHistory, LogTyped, ArcIdle, LogLines
<1>2. OwnLines'
  BY DEF ArchiveFails, rowVars, batcherVars, logHistory, OwnLines, LogTyped
<1>3. BarriersLast'
  BY DEF ArchiveFails, rowVars, batcherVars, logHistory, BarriersLast, Drained, LogTyped, ArcIdle
<1>4. ArchiveComplete'
  BY DEF ArchiveFails, rowVars, batcherVars, logHistory, ArchiveComplete, LogTyped, ArcIdle
<1>5. KeysKnown'
  BY DEF ArchiveFails, rowVars, batcherVars, logHistory, KeysKnown, LogTyped, ArcIdle
<1> QED BY <1>1, <1>2, <1>3, <1>4, <1>5 DEF LogInv

\* LogInv is inductive.
LEMMA LogStep == ASSUME LogInv, [LogNext]_logVars PROVE LogInv'
<1>1. CASE PushLine \/ FinishJob \/ NewAttempt \/ ReviveTail
  BY <1>1, PushLineKeeps, FinishJobKeeps, NewAttemptKeeps, ReviveTailKeeps
<1>2. CASE \E a \in LogAttempts : BatcherTakesLine(a) \/ BatcherFlushes(a) \/ BatcherTakesBarrier(a)
  BY <1>2, BatcherTakesLineKeeps, BatcherFlushesKeeps, BatcherTakesBarrierKeeps
<1>3. CASE \E w \in Archivers : \/ ArchiveRead(w) \/ ArchivePut(w) \/ ArchiveMark(w)
                                \/ ArchiveDelete(w) \/ ArchiveFails(w)
  BY <1>3, ArchiveReadKeeps, ArchivePutKeeps, ArchiveMarkKeeps, ArchiveDeleteKeeps, ArchiveFailsKeeps
<1>4. CASE Resubmit \/ ListOrphans \/ DeleteOrphans \/ ReadLogs \/ EvictArchive
  BY <1>4, ResubmitKeeps, ListOrphansKeeps, DeleteOrphansKeeps, ReadLogsKeeps, EvictArchiveKeeps
<1>5. CASE UNCHANGED logVars
  BY <1>5 DEF logVars, LogInv, LogTyped, OwnLines, BarriersLast, ArchiveComplete, KeysKnown, Drained,
     Undisturbed
<1> QED BY <1>1, <1>2, <1>3, <1>4, <1>5 DEF LogNext

\* The invariant in every reachable state.
THEOREM LogInvariant == LogSpec => []LogInv
<1> QED BY LogStarts, LogStep, PTL DEF LogSpec

\* LogsIntact: outside the crossings its histories name, a line that reached
\* log_lines stays readable, and a reader sees the lines of this attempt, for any
\* number of attempts, lines, workers and failures and any size of the queues.
THEOREM LogsAreIntact == LogSpec => []LogsIntact
<1>1. LogInv => NoLineLost
  <2> SUFFICES ASSUME LogInv, ~crossed, ~clobbered, "archive" \notin carried, ~(persisted \subseteq lineRows)
               PROVE  persisted \subseteq lineRows \cup (IF uri /\ blob # NoLines THEN blob ELSE {})
    BY DEF NoLineLost
  <2>1. uri /\ blob = persisted
    BY DEF LogInv, ArchiveComplete, Undisturbed
  <2>2. blob # NoLines
    BY <2>1, LogAssumption DEF LogInv, LogTyped, LogLines, LogAttempts
  <2> QED BY <2>1, <2>2
<1>2. LogInv => ReadsShowThisAttempt
  <2> SUFFICES ASSUME LogInv, NEW a \in keyed, NEW b \in keyed, a # b
               PROVE  Cardinality(keyed) > 1
    BY DEF LogInv, KeysKnown, ReadsShowThisAttempt
  <2>1. IsFiniteSet(keyed)
    <3>1. IsFiniteSet(LogAttempts)
      BY LogAssumption, FS_Interval DEF LogAttempts
    <3> QED BY <3>1, FS_Subset DEF LogInv, LogTyped
  <2>2. IsFiniteSet({a, b}) /\ Cardinality({a, b}) = 2
    <3>1. IsFiniteSet({a}) /\ Cardinality({a}) = 1
      BY FS_Singleton
    <3>2. IsFiniteSet({a} \cup {b}) /\ Cardinality({a} \cup {b}) = Cardinality({a}) + 1
      BY <3>1, FS_AddElement
    <3>3. {a} \cup {b} = {a, b}
      OBVIOUS
    <3> QED BY <3>1, <3>2, <3>3
  <2>3. {a, b} \subseteq keyed /\ Cardinality({a, b}) <= Cardinality(keyed) /\ Cardinality(keyed) \in Nat
    BY <2>1, FS_Subset, FS_CardinalityType
  <2> QED BY <2>2, <2>3
<1> QED BY <1>1, <1>2, LogInvariant, PTL DEF LogsIntact

(***************************************************************************)
(* AgentDrain: a shutdown tells the server the truth.  A result exists     *)
(* once: in the channel, with the send loop, on the wire or handled.       *)
(* Barriers are ordered with the results in one channel, so whatever is    *)
(* behind the cutoff belongs to a job of the snapshot and is suppressed,   *)
(* and nothing that counts is behind the last one.  An end of file then    *)
(* finds each job the agent took either handled or suppressed.             *)
(***************************************************************************)
Items == [kind : {"result"}, job : DrainJobs] \cup [kind : {"draining", "cutoff", "final"}]
Phases == {"serving", "waiting", "clean_push", "clean_reach", "clean_eof", "cutoff_push",
           "cutoff_reach", "cancel", "wait_done", "final_push", "final_reach", "final_eof",
           "abandon", "abandon_cancel", "ended"}

\* Where a result can be between its job and the server.
Queued(j) == \E i \in 1..Len(outbound) : outbound[i] = Result(j)
Holds(at, j) == sender.at = at /\ sender.item = Result(j)
OnWire(j) == \E i \in 1..Len(wire) : wire[i] = j
Reached(j) == OnWire(j) \/ j \in handled
Over(j) == jobAt[j] \in {"sent_off", "closed", "gone"}

DrainTyped ==
    /\ jobAt \in [DrainJobs -> {"unassigned", "dropped", "running", "made", "sent_off",
                                "closed", "gone"}]
    /\ made \in [DrainJobs -> {"nothing", "own", "aborted"}]
    /\ aborted \in SUBSET DrainJobs /\ terminalSent \in SUBSET DrainJobs
    /\ suppressed \in SUBSET DrainJobs /\ candidates \in SUBSET DrainJobs
    /\ handled \in SUBSET DrainJobs
    /\ outbound \in Seq(Items) /\ wire \in Seq(DrainJobs)
    /\ \/ sender \in [at : {"loop", "closed"}]
       \/ sender \in [at : {"sending", "marking"}, item : Items]
       \/ sender \in [at : {"barrier"}, item : [kind : {"cutoff", "final"}]]
    /\ draining \in BOOLEAN /\ flushLate \in BOOLEAN /\ streamDone \in BOOLEAN
    /\ drain \in Phases /\ recvEnd \in {"none", "eof", "error"}
    /\ outcome \in [ended : BOOLEAN, clean : BOOLEAN, running : SUBSET DrainJobs,
                    flushTimedOut : BOOLEAN]

\* How the two loops end: an end of file finds the send loop closed and nothing
\* on the wire, and only the last barrier closes it on a stream that is open.
LoopsEnd ==
    /\ streamDone <=> recvEnd # "none"
    /\ recvEnd = "eof" => sender.at = "closed" /\ wire = <<>>
    /\ sender.at = "closed" /\ recvEnd # "error" =>
          drain \in {"clean_eof", "final_eof", "abandon", "abandon_cancel", "ended"}

\* A result exists once: in the queue, with the send loop or beyond it.
OneResult ==
    /\ \A i, k \in 1..Len(outbound) : \A j \in DrainJobs :
          outbound[i] = Result(j) /\ outbound[k] = Result(j) => i = k
    /\ \A j \in DrainJobs :
          /\ Queued(j) => /\ Over(j) /\ j \notin terminalSent
                          /\ ~Holds("sending", j) /\ ~Holds("marking", j) /\ ~Reached(j)
          /\ Holds("sending", j) => Over(j) /\ ~Reached(j) /\ j \notin terminalSent
          /\ Holds("marking", j) => Over(j) /\ (recvEnd # "error" => Reached(j))
          /\ Reached(j) => Over(j) /\ (j \in terminalSent \/ Holds("marking", j))
          /\ j \in terminalSent => Over(j) /\ (recvEnd # "error" => Reached(j))

\* What a result says, and that an aborted one is held back.
Verdicts ==
    /\ aborted \subseteq suppressed
    /\ \A j \in DrainJobs :
          /\ jobAt[j] = "made" \/ Over(j) => made[j] # "nothing"
          /\ made[j] = "aborted" => j \in suppressed \/ streamDone
          /\ Holds("sending", j) => made[j] = "own" \/ streamDone
          /\ Reached(j) => made[j] = "own"

\* No result is lost before the drain is given up: a suppressed one is dropped,
\* every other is on its way.
Accounted ==
    recvEnd # "error" /\ drain \notin {"abandon", "abandon_cancel", "ended"} =>
        \A j \in DrainJobs : Over(j) =>
            j \in suppressed \/ Queued(j) \/ Holds("sending", j) \/ Reached(j)

\* The phases of the draining goroutine.
BeforeCutoff == {"serving", "waiting", "clean_push", "clean_reach", "clean_eof", "cutoff_push"}
CleanPhases == {"clean_push", "clean_reach", "clean_eof"}
FinalPhases == {"cancel", "wait_done", "final_push", "final_reach", "final_eof"}

PhasesSound ==
    /\ draining <=> drain # "serving"
    /\ candidates \subseteq Taken /\ suppressed \subseteq Taken
    /\ drain \in BeforeCutoff \cup {"cutoff_reach"} => suppressed = {}
    /\ drain \in BeforeCutoff =>
          /\ \A i \in 1..Len(outbound) : outbound[i].kind # "cutoff"
          /\ sender.at = "barrier" => sender.item.kind # "cutoff"
    /\ drain \in {"serving", "waiting", "clean_push"} =>
          /\ \A i \in 1..Len(outbound) : outbound[i].kind # "final"
          /\ sender.at # "barrier"
    /\ drain \in CleanPhases => Running = {}
    /\ drain \in {"cutoff_push", "cutoff_reach"} \cup FinalPhases => Running \subseteq candidates
    /\ drain \in FinalPhases \cup {"abandon"} => suppressed \subseteq candidates

\* Behind a barrier: nothing behind the last one, only snapshotted jobs behind
\* the cutoff, and only suppressed ones once it is passed.
BehindBarriers ==
    /\ drain = "clean_reach" =>
          /\ \A i, k \in 1..Len(outbound) :
                i < k /\ outbound[i].kind = "final" => outbound[k].kind # "result"
          /\ sender.at = "barrier" => \A k \in 1..Len(outbound) : outbound[k].kind # "result"
    /\ drain = "clean_eof" => \A k \in 1..Len(outbound) : outbound[k].kind # "result"
    /\ drain = "cutoff_reach" =>
          /\ \A i, k \in 1..Len(outbound) :
                i < k /\ outbound[i].kind = "cutoff" /\ outbound[k].kind = "result" =>
                    outbound[k].job \in candidates
          /\ sender.at = "barrier" /\ sender.item.kind = "cutoff" =>
                \A k \in 1..Len(outbound) : outbound[k].kind = "result" =>
                    outbound[k].job \in candidates
    /\ drain \in FinalPhases =>
          /\ \A k \in 1..Len(outbound) : outbound[k].kind = "result" =>
                outbound[k].job \in suppressed
          /\ candidates \subseteq suppressed \cup terminalSent
          /\ \A j \in suppressed : /\ j \notin terminalSent /\ ~Reached(j)
                                   /\ ~Holds("sending", j) /\ ~Holds("marking", j)

\* A shutdown that ended well stays accounted for.
EndedWell ==
    /\ outcome.ended <=> drain = "ended"
    /\ outcome.ended /\ ~outcome.flushTimedOut =>
          /\ recvEnd = "eof"
          /\ outcome.clean => outcome.running = {}
          /\ handled \cap outcome.running = {}
          /\ Taken = handled \cup outcome.running

DrainInv == DrainTyped /\ LoopsEnd /\ OneResult /\ Verdicts /\ Accounted /\ PhasesSound
            /\ BehindBarriers /\ EndedWell

\* Results and frames are items, told apart by their kind.
LEMMA ItemShape ==
    /\ \A j : Result(j).kind = "result" /\ Result(j).job = j
    /\ \A j \in DrainJobs : Result(j) \in Items
    /\ \A i, k : Result(i) = Result(k) => i = k
    /\ \A k \in {"draining", "cutoff", "final"} : Frame(k) \in Items /\ Frame(k).kind = k
    /\ \A t \in Items : \/ t.kind = "result" /\ t.job \in DrainJobs /\ t = Result(t.job)
                        \/ t.kind \in {"draining", "cutoff", "final"}
  BY DEF Result, Frame, Items

\* An agent that serves has nothing under way.
LEMMA DrainStarts == DrainInit => DrainInv
<1> SUFFICES ASSUME DrainInit PROVE DrainInv
  OBVIOUS
<1>1. outbound = <<>> /\ wire = <<>> /\ Len(outbound) = 0 /\ Len(wire) = 0
  BY DEF DrainInit
<1>2. <<>> \in Seq(Items) /\ <<>> \in Seq(DrainJobs)
  OBVIOUS
<1>3. DrainTyped
  BY <1>1, <1>2 DEF DrainInit, DrainTyped, Looping, NotEnded, Phases
<1>4. LoopsEnd
  BY DEF DrainInit, LoopsEnd, Looping
<1>5. OneResult /\ Verdicts /\ Accounted
  BY <1>1 DEF DrainInit, OneResult, Verdicts, Accounted, Queued, Holds, Reached, OnWire, Over, Looping
<1>6. PhasesSound
  BY <1>1 DEF DrainInit, PhasesSound, Running, Taken, BeforeCutoff, CleanPhases, FinalPhases, Looping
<1>7. BehindBarriers /\ EndedWell
  BY <1>1 DEF DrainInit, BehindBarriers, EndedWell, FinalPhases, NotEnded
<1> QED BY <1>3, <1>4, <1>5, <1>6, <1>7 DEF DrainInv

\* A result is queued once, or dropped with a stream that is done; behind the
\* cutoff only a suppressed job can still do either.
LEMMA EnqueueResultKeeps == ASSUME DrainInv, NEW x \in DrainJobs, EnqueueResult(x) PROVE DrainInv'
<1> USE DEF DrainInv
<1>a. /\ x \in Running /\ ~Over(x) /\ ~Queued(x) /\ ~Reached(x) /\ x \notin terminalSent
      /\ ~Holds("sending", x) /\ ~Holds("marking", x)
  BY DEF EnqueueResult, OneResult, Over, Running
<1>b. /\ jobAt' = [jobAt EXCEPT ![x] = "sent_off"]
      /\ UNCHANGED <<aborted, made, terminalSent, sender, wire, handled, suppressed, draining, drain,
                     candidates, flushLate, outcome, streamDone, recvEnd>>
  BY DEF EnqueueResult, senderSide, drainSide
<1>c. /\ \A j \in DrainJobs : Over(j)' <=> Over(j) \/ j = x
      /\ \A j \in DrainJobs : Reached(j)' <=> Reached(j)
      /\ \A j \in DrainJobs : Holds("sending", j)' <=> Holds("sending", j)
      /\ \A j \in DrainJobs : Holds("marking", j)' <=> Holds("marking", j)
      /\ Running' = Running /\ Taken' = Taken
  BY <1>a, <1>b DEF DrainTyped, Over, Reached, OnWire, Holds, Running, Taken
<1>d. \/ streamDone /\ outbound' = outbound
      \/ outbound' = Append(outbound, Result(x))
  BY DEF EnqueueResult
<1>e. outbound \in Seq(Items) /\ Result(x) \in Items
  BY ItemShape DEF DrainTyped
<1>f. /\ outbound' \in Seq(Items) /\ Len(outbound) \in Nat /\ Len(outbound') \in Nat
      /\ Len(outbound') \in {Len(outbound), Len(outbound) + 1}
      /\ \A n \in 1..Len(outbound) : n \in 1..Len(outbound') /\ outbound'[n] = outbound[n]
      /\ \A n \in 1..Len(outbound') :
            n \in 1..Len(outbound) \/ (n = Len(outbound) + 1 /\ outbound'[n] = Result(x))
  BY <1>d, <1>e, Appended
<1>g. \A j \in DrainJobs : (Queued(j) => Queued(j)') /\ (Queued(j)' => Queued(j) \/ j = x)
  BY <1>f, ItemShape DEF Queued
<1>h. ~streamDone => Queued(x)'
  <2>1. SUFFICES ASSUME ~streamDone PROVE Queued(x)'
    OBVIOUS
  <2>2. outbound' = Append(outbound, Result(x))
    BY <1>d, <2>1
  <2> QED BY <2>2, <1>e, Appended DEF Queued
<1>1. DrainTyped'
  BY <1>b, <1>f DEF DrainTyped
<1>2. LoopsEnd'
  BY <1>b DEF LoopsEnd
<1>3. OneResult'
  <2>1. \A j \in DrainJobs : \A n \in 1..Len(outbound) : outbound[n] = Result(j) => j # x
    BY <1>a DEF Queued
  <2>2. \A i, k \in 1..Len(outbound') : \A j \in DrainJobs :
          outbound'[i] = Result(j) /\ outbound'[k] = Result(j) => i = k
    BY <2>1, <1>f, ItemShape DEF OneResult
  <2>3. \A j \in DrainJobs :
          /\ Queued(j)' => /\ Over(j)' /\ j \notin terminalSent'
                           /\ ~Holds("sending", j)' /\ ~Holds("marking", j)' /\ ~Reached(j)'
          /\ Holds("sending", j)' => Over(j)' /\ ~Reached(j)' /\ j \notin terminalSent'
          /\ Holds("marking", j)' => Over(j)' /\ (recvEnd' # "error" => Reached(j)')
          /\ Reached(j)' => Over(j)' /\ (j \in terminalSent' \/ Holds("marking", j)')
          /\ j \in terminalSent' => Over(j)' /\ (recvEnd' # "error" => Reached(j)')
    BY <1>a, <1>b, <1>c, <1>g DEF OneResult
  <2> QED BY <2>2, <2>3 DEF OneResult
<1>4. Verdicts'
  BY <1>a, <1>b, <1>c DEF Verdicts, EnqueueResult, DrainTyped
<1>5. Accounted'
  <2> SUFFICES ASSUME recvEnd # "error", drain \notin {"abandon", "abandon_cancel", "ended"},
                       NEW j \in DrainJobs, Over(j)'
                PROVE  (j \in suppressed \/ Queued(j) \/ Holds("sending", j) \/ Reached(j))'
    BY <1>b DEF Accounted
  <2>1. CASE j # x
    BY <2>1, <1>b, <1>c, <1>g DEF Accounted
  <2>2. CASE j = x /\ ~streamDone
    BY <2>2, <1>h
  <2>3. CASE j = x /\ streamDone
    <3>1. drain \in {"clean_eof", "final_eof"}
      BY <2>3 DEF LoopsEnd, DrainTyped
    <3>2. drain = "final_eof" /\ x \in candidates
      BY <3>1, <1>a DEF PhasesSound, CleanPhases, FinalPhases
    <3>3. x \in suppressed
      BY <3>2, <1>a DEF BehindBarriers, FinalPhases
    <3> QED BY <3>3, <2>3, <1>b
  <2> QED BY <2>1, <2>2, <2>3
<1>6. PhasesSound'
  <2>1. \A n \in 1..Len(outbound') : n \in 1..Len(outbound) \/ outbound'[n].kind = "result"
    BY <1>f, ItemShape
  <2> QED BY <2>1, <1>b, <1>c, <1>f DEF PhasesSound
<1>7. BehindBarriers'
  <2>1. /\ drain \in CleanPhases => FALSE
        /\ drain \in {"cutoff_push", "cutoff_reach"} \cup FinalPhases => x \in candidates
        /\ drain \in FinalPhases => x \in suppressed
    BY <1>a DEF PhasesSound, BehindBarriers, FinalPhases
  <2>2. \A n \in 1..Len(outbound') :
           \/ n \in 1..Len(outbound)
           \/ n = Len(outbound) + 1 /\ outbound'[n].kind = "result" /\ outbound'[n].job = x
    BY <1>f, ItemShape
  <2>3. drain \in FinalPhases =>
          \A j \in suppressed' : /\ j \notin terminalSent' /\ ~Reached(j)'
                                  /\ ~Holds("sending", j)' /\ ~Holds("marking", j)'
    BY <1>b, <1>c DEF BehindBarriers, DrainTyped
  <2> QED BY <2>1, <2>2, <2>3, <1>b, <1>f DEF BehindBarriers, CleanPhases
<1>8. EndedWell'
  BY <1>b, <1>c DEF EndedWell
<1> QED BY <1>1, <1>2, <1>3, <1>4, <1>5, <1>6, <1>7, <1>8 DEF DrainInv

\* A job is taken only before the drain begins.
LEMMA DispatchJobKeeps == ASSUME DrainInv, NEW x \in DrainJobs, DispatchJob(x) PROVE DrainInv'
<1> USE DEF DrainInv
<1>1. DrainTyped'
  BY DEF DispatchJob, DispatchAllowed, senderSide, drainSide, DrainTyped, Phases
<1>2. LoopsEnd'
  BY DEF DispatchJob, DispatchAllowed, senderSide, drainSide, LoopsEnd
<1>3. OneResult'
  BY DEF DispatchJob, DispatchAllowed, senderSide, drainSide, OneResult, Queued, Holds, Reached,
     OnWire, Over
<1>4. Verdicts'
  BY DEF DispatchJob, DispatchAllowed, senderSide, drainSide, DrainTyped, Verdicts, Holds, Reached,
     OnWire, Over
<1>5. Accounted'
  BY DEF DispatchJob, DispatchAllowed, senderSide, drainSide, Accounted, Queued, Holds, Reached,
     OnWire, Over
<1>6. PhasesSound'
  BY DEF DispatchJob, DispatchAllowed, senderSide, drainSide, PhasesSound, Running, Taken,
     BeforeCutoff, CleanPhases, FinalPhases
<1>7. BehindBarriers'
  BY DEF DispatchJob, DispatchAllowed, senderSide, drainSide, BehindBarriers, Holds, Reached,
     OnWire, FinalPhases
<1>8. EndedWell'
  BY DEF DispatchJob, DispatchAllowed, senderSide, drainSide, DrainTyped, LoopsEnd, EndedWell, Taken
<1> QED BY <1>1, <1>2, <1>3, <1>4, <1>5, <1>6, <1>7, <1>8 DEF DrainInv

\* The verdict of a job: aborted only if the drain or the stream ended it.
LEMMA MakeResultKeeps == ASSUME DrainInv, NEW x \in DrainJobs, MakeResult(x) PROVE DrainInv'
<1> USE DEF DrainInv
<1>1. DrainTyped'
  BY DEF MakeResult, senderSide, drainSide, DrainTyped, Phases
<1>2. LoopsEnd'
  BY DEF MakeResult, senderSide, drainSide, LoopsEnd
<1>3. OneResult'
  BY DEF MakeResult, senderSide, drainSide, OneResult, Queued, Holds, Reached, OnWire, Over
<1>4. Verdicts'
  <2>1. ~Reached(x) /\ ~Holds("sending", x)
    BY DEF MakeResult, OneResult, Over
  <2>2. \A j \in DrainJobs : (Reached(j)' <=> Reached(j)) /\ (Holds("sending", j)' <=> Holds("sending", j))
    BY DEF MakeResult, senderSide, Reached, OnWire, Holds
  <2>3. made'[x] # "nothing" /\ (made'[x] = "aborted" => x \in suppressed \/ streamDone)
    BY DEF MakeResult, DrainTyped, Verdicts
  <2>4. \A j \in DrainJobs : j # x => made'[j] = made[j] /\ jobAt'[j] = jobAt[j]
    BY DEF MakeResult, DrainTyped
  <2> QED BY <2>1, <2>2, <2>3, <2>4 DEF Verdicts, Over, MakeResult, drainSide
<1>5. Accounted'
  BY DEF MakeResult, senderSide, drainSide, Accounted, Queued, Holds, Reached, OnWire, Over
<1>6. PhasesSound'
  BY DEF MakeResult, senderSide, drainSide, PhasesSound, Running, Taken, BeforeCutoff, CleanPhases,
     FinalPhases
<1>7. BehindBarriers'
  BY DEF MakeResult, senderSide, drainSide, BehindBarriers, Holds, Reached, OnWire, FinalPhases
<1>8. EndedWell'
  BY DEF MakeResult, senderSide, drainSide, DrainTyped, LoopsEnd, EndedWell, Taken
<1> QED BY <1>1, <1>2, <1>3, <1>4, <1>5, <1>6, <1>7, <1>8 DEF DrainInv

\* The goroutine of a job ends.
LEMMA CloseJobKeeps == ASSUME DrainInv, NEW x \in DrainJobs, CloseJob(x) PROVE DrainInv'
<1> USE DEF DrainInv
<1>a. UNCHANGED <<aborted, made, outbound, terminalSent, sender, wire, handled, suppressed, draining,
                  drain, candidates, flushLate, outcome, streamDone, recvEnd>>
  BY DEF CloseJob, senderSide, drainSide
<1>b. /\ Over(x) /\ jobAt'[x] \in {"closed", "gone"}
      /\ jobAt' = [jobAt EXCEPT ![x] = jobAt'[x]]
  BY DEF CloseJob, Over, DrainTyped
<1>c. /\ \A j \in DrainJobs : Over(j)' <=> Over(j)
      /\ \A j \in DrainJobs : jobAt'[j] = "made" <=> jobAt[j] = "made"
      /\ Running' \subseteq Running /\ Taken' = Taken
  <2>1. \A j \in DrainJobs : j # x => jobAt'[j] = jobAt[j]
    BY <1>b DEF DrainTyped
  <2>2. jobAt[x] \in {"sent_off", "closed", "gone"} /\ jobAt'[x] \in {"closed", "gone"}
    BY <1>b DEF Over
  <2>3. \A j \in DrainJobs : (Over(j)' <=> Over(j)) /\ (jobAt'[j] = "made" <=> jobAt[j] = "made")
    BY <2>1, <2>2 DEF Over
  <2>4. jobAt[x] # "gone"
    BY DEF CloseJob
  <2>5. Running' \subseteq Running
    BY <2>1, <2>2, <2>4 DEF Running
  <2>6. Taken' = Taken
    BY <2>1, <2>2 DEF Taken
  <2> QED BY <2>3, <2>5, <2>6
<1>1. DrainTyped'
  BY <1>a, <1>b DEF DrainTyped
<1>2. LoopsEnd'
  BY <1>a DEF LoopsEnd
<1>3. OneResult'
  BY <1>a, <1>c DEF OneResult, Queued, Holds, Reached, OnWire
<1>4. Verdicts'
  BY <1>a, <1>c DEF Verdicts, Holds, Reached, OnWire
<1>5. Accounted'
  BY <1>a, <1>c DEF Accounted, Queued, Holds, Reached, OnWire
<1>6. PhasesSound'
  BY <1>a, <1>c DEF PhasesSound, CleanPhases
<1>7. BehindBarriers'
  BY <1>a DEF BehindBarriers, Holds, Reached, OnWire
<1>8. EndedWell'
  BY <1>a, <1>c DEF EndedWell
<1> QED BY <1>1, <1>2, <1>3, <1>4, <1>5, <1>6, <1>7, <1>8 DEF DrainInv

\* The send loop takes an item: a barrier, a result to send or one to drop.
LEMMA TakeItemKeeps == ASSUME DrainInv, TakeItem PROVE DrainInv'
<1> USE DEF DrainInv
<1> DEFINE h == Head(outbound)
<1>a. /\ sender = Looping /\ outbound # <<>> /\ outbound' = Tail(outbound)
      /\ UNCHANGED <<jobAt, aborted, made, terminalSent, wire, handled, suppressed, draining, drain,
                     candidates, flushLate, outcome, streamDone, recvEnd>>
  BY DEF TakeItem, jobSide, drainSide
<1>b. /\ outbound' \in Seq(Items) /\ Len(outbound) \in Nat /\ Len(outbound) >= 1
      /\ Len(outbound') = Len(outbound) - 1
      /\ \A n \in 1..Len(outbound') : n + 1 \in 1..Len(outbound) /\ outbound'[n] = outbound[n + 1]
      /\ h = outbound[1] /\ h \in Items
  BY <1>a, Tailed DEF DrainTyped
<1>c. \/ h.kind \in {"cutoff", "final"} /\ sender' = [at |-> "barrier", item |-> h]
      \/ h.kind = "draining" /\ sender' = [at |-> "sending", item |-> h]
      \/ h.kind = "result" /\ h.job \notin suppressed /\ sender' = [at |-> "sending", item |-> h]
      \/ h.kind = "result" /\ h.job \in suppressed /\ sender' = Looping
  <2>1. h.kind \in {"result", "draining", "cutoff", "final"}
    BY <1>b, ItemShape
  <2>2. sender' = IF h.kind \in {"cutoff", "final"} THEN [at |-> "barrier", item |-> h]
                  ELSE IF h.kind = "result" => h.job \notin suppressed
                       THEN [at |-> "sending", item |-> h] ELSE Looping
    BY DEF TakeItem, Sends
  <2>3. CASE h.kind \in {"cutoff", "final"}
    BY <2>2, <2>3
  <2>4. CASE h.kind = "draining"
    BY <2>2, <2>4
  <2>5. CASE h.kind = "result"
    BY <2>2, <2>5
  <2> QED BY <2>1, <2>3, <2>4, <2>5
<1>d. \A j \in DrainJobs : /\ Over(j)' <=> Over(j)
                           /\ Reached(j)' <=> Reached(j)
                           /\ ~Holds("sending", j) /\ ~Holds("marking", j) /\ ~Holds("marking", j)'
  BY <1>a, <1>c DEF Over, Reached, OnWire, Holds, Looping
<1>e. \A j \in DrainJobs : Holds("sending", j)' <=> h = Result(j) /\ j \notin suppressed
  BY <1>b, <1>c, ItemShape DEF Holds, Looping
<1>f. \A j \in DrainJobs : h = Result(j) => Queued(j)
  BY <1>b DEF Queued
<1>g. \A j \in DrainJobs : Queued(j)' => Queued(j) /\ h # Result(j)
  <2> SUFFICES ASSUME NEW j \in DrainJobs, Queued(j)' PROVE Queued(j) /\ h # Result(j)
    OBVIOUS
  <2>1. PICK n \in 1..Len(outbound') : outbound'[n] = Result(j)
    BY DEF Queued
  <2>2. n + 1 \in 1..Len(outbound) /\ outbound[n + 1] = Result(j) /\ 1 \in 1..Len(outbound) /\ n + 1 # 1
    BY <2>1, <1>b
  <2> QED BY <2>2, <1>b DEF Queued, OneResult
<1>h. \A j \in DrainJobs : Queued(j) => Queued(j)' \/ h = Result(j)
  <2> SUFFICES ASSUME NEW j \in DrainJobs, Queued(j), h # Result(j) PROVE Queued(j)'
    OBVIOUS
  <2>1. PICK n \in 1..Len(outbound) : outbound[n] = Result(j)
    BY DEF Queued
  <2>2. n - 1 \in 1..Len(outbound') /\ outbound'[n - 1] = Result(j)
    BY <2>1, <1>b
  <2> QED BY <2>2 DEF Queued
<1>i. Running' = Running /\ Taken' = Taken
  BY <1>a DEF Running, Taken
<1> HIDE DEF h
<1>1. DrainTyped'
  BY <1>a, <1>b, <1>c DEF DrainTyped, Looping, Items
<1>2. LoopsEnd'
  BY <1>a, <1>c DEF LoopsEnd, Looping
<1>3. OneResult'
  <2>1. \A i, k \in 1..Len(outbound') : \A j \in DrainJobs :
          outbound'[i] = Result(j) /\ outbound'[k] = Result(j) => i = k
    <3> SUFFICES ASSUME NEW i \in 1..Len(outbound'), NEW k \in 1..Len(outbound'), NEW j \in DrainJobs,
                        outbound'[i] = Result(j), outbound'[k] = Result(j)
                 PROVE  i = k
      OBVIOUS
    <3>1. i + 1 = k + 1
      BY <1>b, SMTT(30) DEF OneResult
    <3> QED BY <3>1
  <2>2. \A j \in DrainJobs :
          /\ Queued(j)' => /\ Over(j)' /\ j \notin terminalSent'
                           /\ ~Holds("sending", j)' /\ ~Holds("marking", j)' /\ ~Reached(j)'
          /\ Holds("sending", j)' => Over(j)' /\ ~Reached(j)' /\ j \notin terminalSent'
          /\ Holds("marking", j)' => Over(j)' /\ (recvEnd' # "error" => Reached(j)')
          /\ Reached(j)' => Over(j)' /\ (j \in terminalSent' \/ Holds("marking", j)')
          /\ j \in terminalSent' => Over(j)' /\ (recvEnd' # "error" => Reached(j)')
    BY <1>a, <1>d, <1>e, <1>f, <1>g DEF OneResult
  <2> QED BY <2>1, <2>2 DEF OneResult
<1>4. Verdicts'
  <2>1. \A j \in DrainJobs : Holds("sending", j)' => made[j] = "own" \/ streamDone
    BY <1>e, <1>f DEF Verdicts, OneResult, DrainTyped
  <2> QED BY <2>1, <1>a, <1>d DEF Verdicts
<1>5. Accounted'
  BY <1>a, <1>d, <1>e, <1>f, <1>h DEF Accounted
<1>6. PhasesSound'
  BY <1>a, <1>b, <1>c, <1>i DEF PhasesSound, Looping, BeforeCutoff
<1>7. BehindBarriers'
  <2>1. drain = "clean_reach" =>
          /\ \A i, k \in 1..Len(outbound') :
                i < k /\ outbound'[i].kind = "final" => outbound'[k].kind # "result"
          /\ sender'.at = "barrier" => \A k \in 1..Len(outbound') : outbound'[k].kind # "result"
    <3> SUFFICES ASSUME drain = "clean_reach"
                 PROVE  /\ \A i, k \in 1..Len(outbound') :
                              i < k /\ outbound'[i].kind = "final" => outbound'[k].kind # "result"
                        /\ sender'.at = "barrier" => \A k \in 1..Len(outbound') : outbound'[k].kind # "result"
      OBVIOUS
    <3>1. \A i, k \in 1..Len(outbound) : i < k /\ outbound[i].kind = "final" => outbound[k].kind # "result"
      BY DEF BehindBarriers
    <3>2. h.kind # "cutoff"
      BY <1>b DEF PhasesSound, BeforeCutoff
    <3>3. \A i, k \in 1..Len(outbound') :
                i < k /\ outbound'[i].kind = "final" => outbound'[k].kind # "result"
      <4> SUFFICES ASSUME NEW i \in 1..Len(outbound'), NEW k \in 1..Len(outbound'), i < k,
                          outbound'[i].kind = "final"
                   PROVE  outbound'[k].kind # "result"
        OBVIOUS
      <4>1. /\ i + 1 \in 1..Len(outbound) /\ k + 1 \in 1..Len(outbound) /\ i + 1 < k + 1
            /\ outbound'[i] = outbound[i + 1] /\ outbound'[k] = outbound[k + 1]
        BY <1>b
      <4> QED BY <3>1, <4>1
    <3>4. ASSUME sender'.at = "barrier", NEW k \in 1..Len(outbound') PROVE outbound'[k].kind # "result"
      <4>1. outbound[1].kind = "final"
        BY <3>4, <3>2, <1>b, <1>c DEF Looping
      <4>2. k + 1 \in 1..Len(outbound) /\ 1 \in 1..Len(outbound) /\ 1 < k + 1 /\ outbound'[k] = outbound[k + 1]
        BY <1>b
      <4> QED BY <4>1, <4>2, <3>1
    <3> QED BY <3>3, <3>4
  <2>2. drain = "cutoff_reach" =>
          /\ \A i, k \in 1..Len(outbound') :
                i < k /\ outbound'[i].kind = "cutoff" /\ outbound'[k].kind = "result" =>
                    outbound'[k].job \in candidates
          /\ sender'.at = "barrier" /\ sender'.item.kind = "cutoff" =>
                \A k \in 1..Len(outbound') : outbound'[k].kind = "result" =>
                    outbound'[k].job \in candidates
    <3> SUFFICES ASSUME drain = "cutoff_reach"
                 PROVE  /\ \A i, k \in 1..Len(outbound') :
                              i < k /\ outbound'[i].kind = "cutoff" /\ outbound'[k].kind = "result" =>
                                  outbound'[k].job \in candidates
                        /\ sender'.at = "barrier" /\ sender'.item.kind = "cutoff" =>
                              \A k \in 1..Len(outbound') : outbound'[k].kind = "result" =>
                                  outbound'[k].job \in candidates
      OBVIOUS
    <3>1. \A i, k \in 1..Len(outbound) :
             i < k /\ outbound[i].kind = "cutoff" /\ outbound[k].kind = "result" =>
                 outbound[k].job \in candidates
      BY DEF BehindBarriers
    <3>2. \A i, k \in 1..Len(outbound') :
             i < k /\ outbound'[i].kind = "cutoff" /\ outbound'[k].kind = "result" =>
                 outbound'[k].job \in candidates
      BY <3>1, <1>b
    <3>3. ASSUME sender'.at = "barrier", sender'.item.kind = "cutoff",
                 NEW k \in 1..Len(outbound'), outbound'[k].kind = "result"
          PROVE  outbound'[k].job \in candidates
      <4>1. outbound[1].kind = "cutoff"
        BY <3>3, <1>b, <1>c DEF Looping
      <4>2. k + 1 \in 1..Len(outbound) /\ 1 \in 1..Len(outbound) /\ 1 < k + 1 /\ outbound'[k] = outbound[k + 1]
        BY <1>b
      <4> QED BY <4>1, <4>2, <3>1, <3>3
    <3> QED BY <3>2, <3>3
  <2>3. drain \in FinalPhases =>
          /\ \A k \in 1..Len(outbound') : outbound'[k].kind = "result" =>
                outbound'[k].job \in suppressed
          /\ \A j \in suppressed : ~Reached(j)' /\ ~Holds("sending", j)' /\ ~Holds("marking", j)'
    BY <1>b, <1>d, <1>e, SMTT(30) DEF BehindBarriers, DrainTyped
  <2>4. drain = "clean_eof" => \A k \in 1..Len(outbound') : outbound'[k].kind # "result"
    BY <1>b DEF BehindBarriers
  <2> QED BY <2>1, <2>2, <2>3, <2>4, <1>a DEF BehindBarriers
<1>8. EndedWell'
  BY <1>a, <1>i DEF EndedWell
<1> QED BY <1>1, <1>2, <1>3, <1>4, <1>5, <1>6, <1>7, <1>8 DEF DrainInv

\* A sent result is on the wire, unless the stream is done.
LEMMA SendItemKeeps == ASSUME DrainInv, SendItem PROVE DrainInv'
<1> USE DEF DrainInv
<1>a. /\ sender.at = "sending"
      /\ UNCHANGED <<jobAt, aborted, made, terminalSent, outbound, handled, suppressed, draining, drain,
                     candidates, flushLate, outcome, streamDone, recvEnd>>
  BY DEF SendItem, jobSide, drainSide
<1>b. sender.item \in Items /\ sender = [at |-> "sending", item |-> sender.item]
  BY <1>a DEF DrainTyped
<1>c. \/ streamDone /\ sender' = [at |-> "closed"] /\ wire' = wire
      \/ /\ ~streamDone /\ sender' = [at |-> "marking", item |-> sender.item]
         /\ wire' = IF sender.item.kind = "result" THEN Append(wire, sender.item.job) ELSE wire
  BY <1>b DEF SendItem
<1>d. /\ wire' \in Seq(DrainJobs) /\ Len(wire) \in Nat
      /\ \A n \in 1..Len(wire) : n \in 1..Len(wire') /\ wire'[n] = wire[n]
      /\ \A n \in 1..Len(wire') : n \in 1..Len(wire) \/ Holds("sending", wire'[n])
      /\ ~streamDone => \A j \in DrainJobs : Holds("sending", j) => \E n \in 1..Len(wire') : wire'[n] = j
  <2>1. CASE wire' = wire /\ (streamDone \/ sender.item.kind # "result")
    BY <2>1, ItemShape DEF DrainTyped, Holds
  <2>2. CASE /\ sender.item.kind = "result" /\ wire' = Append(wire, sender.item.job)
    <3>1. sender.item.job \in DrainJobs /\ sender.item = Result(sender.item.job) /\ wire \in Seq(DrainJobs)
      BY <1>b, <2>2, ItemShape DEF DrainTyped
    <3> QED BY <3>1, <2>2, <1>a, Appended, ItemShape DEF Holds
  <2> QED BY <1>c, <2>1, <2>2
<1>e. \A j \in DrainJobs : /\ Over(j)' <=> Over(j)
                           /\ Queued(j)' <=> Queued(j)
                           /\ Reached(j)' => Reached(j) \/ Holds("sending", j)
                           /\ Reached(j) => Reached(j)'
                           /\ ~streamDone /\ Holds("sending", j) => Reached(j)'
  BY <1>a, <1>d DEF Over, Queued, Reached, OnWire
<1>f. \A j \in DrainJobs : /\ ~Holds("sending", j)' /\ ~Holds("marking", j)
                           /\ Holds("marking", j)' <=> Holds("sending", j) /\ ~streamDone
  BY <1>a, <1>c DEF Holds
<1>g. streamDone => recvEnd = "error" /\ wire' = wire
  BY <1>a, <1>c DEF LoopsEnd, DrainTyped
<1>h. streamDone => \A j \in DrainJobs : Reached(j)' <=> Reached(j)
  BY <1>a, <1>g DEF Reached, OnWire
<1>i. Running' = Running /\ Taken' = Taken
  BY <1>a DEF Running, Taken
<1>1. DrainTyped'
  BY <1>a, <1>b, <1>c, <1>d DEF DrainTyped
<1>2. LoopsEnd'
  BY <1>a, <1>c, <1>g DEF LoopsEnd
<1>3. OneResult'
  <2>1. \A i, k \in 1..Len(outbound') : \A j \in DrainJobs :
          outbound'[i] = Result(j) /\ outbound'[k] = Result(j) => i = k
    BY <1>a DEF OneResult
  <2>2. \A j \in DrainJobs :
          /\ Queued(j)' => /\ Over(j)' /\ j \notin terminalSent'
                           /\ ~Holds("sending", j)' /\ ~Holds("marking", j)' /\ ~Reached(j)'
          /\ Holds("sending", j)' => Over(j)' /\ ~Reached(j)' /\ j \notin terminalSent'
          /\ Holds("marking", j)' => Over(j)' /\ (recvEnd' # "error" => Reached(j)')
          /\ Reached(j)' => Over(j)' /\ (j \in terminalSent' \/ Holds("marking", j)')
          /\ j \in terminalSent' => Over(j)' /\ (recvEnd' # "error" => Reached(j)')
    BY <1>a, <1>e, <1>f, <1>g, <1>h DEF OneResult
  <2> QED BY <2>1, <2>2 DEF OneResult
<1>4. Verdicts'
  BY <1>a, <1>e, <1>f, <1>h DEF Verdicts, DrainTyped
<1>5. Accounted'
  BY <1>a, <1>e, <1>f, <1>g DEF Accounted
<1>6. PhasesSound'
  BY <1>a, <1>c, <1>i DEF PhasesSound
<1>7. BehindBarriers'
  <2>1. sender'.at # "barrier"
    BY <1>c
  <2>2. drain \in FinalPhases =>
          \A j \in suppressed' : /\ j \notin terminalSent' /\ ~Reached(j)'
                                  /\ ~Holds("sending", j)' /\ ~Holds("marking", j)'
    BY <1>a, <1>e, <1>f DEF BehindBarriers, DrainTyped
  <2> QED BY <2>1, <2>2, <1>a DEF BehindBarriers
<1>8. EndedWell'
  BY <1>a, <1>i DEF EndedWell
<1> QED BY <1>1, <1>2, <1>3, <1>4, <1>5, <1>6, <1>7, <1>8 DEF DrainInv

\* The result is marked as sent.
LEMMA MarkSentKeeps == ASSUME DrainInv, MarkSent PROVE DrainInv'
<1> USE DEF DrainInv
<1>a. /\ sender.at = "marking" /\ sender' = Looping
      /\ UNCHANGED <<jobAt, aborted, made, wire, outbound, handled, suppressed, draining, drain,
                     candidates, flushLate, outcome, streamDone, recvEnd>>
  BY DEF MarkSent, jobSide, drainSide
<1>b. sender.item \in Items
  BY <1>a DEF DrainTyped
<1>c. \A j \in DrainJobs : j \in terminalSent' <=> j \in terminalSent \/ Holds("marking", j)
  BY <1>a, <1>b, ItemShape DEF MarkSent, Holds
<1>d. terminalSent' \in SUBSET DrainJobs
  BY <1>b, ItemShape DEF MarkSent, DrainTyped
<1>e. \A j \in DrainJobs : /\ Over(j)' <=> Over(j)
                           /\ Queued(j)' <=> Queued(j)
                           /\ Reached(j)' <=> Reached(j)
                           /\ ~Holds("sending", j)' /\ ~Holds("marking", j)' /\ ~Holds("sending", j)
  BY <1>a DEF Over, Queued, Reached, OnWire, Holds, Looping
<1>f. Running' = Running /\ Taken' = Taken
  BY <1>a DEF Running, Taken
<1>1. DrainTyped'
  BY <1>a, <1>d DEF DrainTyped, Looping
<1>2. LoopsEnd'
  BY <1>a DEF LoopsEnd, Looping
<1>3. OneResult'
  <2>1. \A i, k \in 1..Len(outbound') : \A j \in DrainJobs :
          outbound'[i] = Result(j) /\ outbound'[k] = Result(j) => i = k
    BY <1>a DEF OneResult
  <2>2. \A j \in DrainJobs :
          /\ Queued(j)' => /\ Over(j)' /\ j \notin terminalSent'
                           /\ ~Holds("sending", j)' /\ ~Holds("marking", j)' /\ ~Reached(j)'
          /\ Holds("sending", j)' => Over(j)' /\ ~Reached(j)' /\ j \notin terminalSent'
          /\ Holds("marking", j)' => Over(j)' /\ (recvEnd' # "error" => Reached(j)')
          /\ Reached(j)' => Over(j)' /\ (j \in terminalSent' \/ Holds("marking", j)')
          /\ j \in terminalSent' => Over(j)' /\ (recvEnd' # "error" => Reached(j)')
    BY <1>a, <1>c, <1>e DEF OneResult
  <2> QED BY <2>1, <2>2 DEF OneResult
<1>4. Verdicts'
  BY <1>a, <1>e DEF Verdicts
<1>5. Accounted'
  BY <1>a, <1>e DEF Accounted
<1>6. PhasesSound'
  BY <1>a, <1>f DEF PhasesSound, Looping
<1>7. BehindBarriers'
  <2>1. drain \in FinalPhases =>
          /\ candidates' \subseteq suppressed' \cup terminalSent'
          /\ \A j \in suppressed' : /\ j \notin terminalSent' /\ ~Reached(j)'
                                  /\ ~Holds("sending", j)' /\ ~Holds("marking", j)'
    BY <1>a, <1>c, <1>e DEF BehindBarriers, DrainTyped
  <2> QED BY <2>1, <1>a DEF BehindBarriers, Looping
<1>8. EndedWell'
  BY <1>a, <1>f DEF EndedWell
<1> QED BY <1>1, <1>2, <1>3, <1>4, <1>5, <1>6, <1>7, <1>8 DEF DrainInv

\* The send loop stops with the stream.
LEMMA SenderStopsKeeps == ASSUME DrainInv, SenderStops PROVE DrainInv'
<1> USE DEF DrainInv
<1>1. DrainTyped'
  BY DEF SenderStops, jobSide, drainSide, DrainTyped, Phases
<1>2. LoopsEnd'
  BY DEF SenderStops, LoopsEnd, DrainTyped, drainSide
<1>3. OneResult'
  BY DEF SenderStops, jobSide, drainSide, OneResult, Queued, Holds, Reached, OnWire, Over
<1>4. Verdicts'
  BY DEF SenderStops, jobSide, drainSide, DrainTyped, Verdicts, Holds, Reached, OnWire, Over
<1>5. Accounted'
  BY DEF SenderStops, jobSide, drainSide, Accounted, Queued, Holds, Reached, OnWire, Over
<1>6. PhasesSound'
  BY DEF SenderStops, jobSide, drainSide, PhasesSound, Running, Taken, BeforeCutoff, CleanPhases,
     FinalPhases
<1>7. BehindBarriers'
  BY DEF SenderStops, jobSide, drainSide, BehindBarriers, Holds, Reached, OnWire, FinalPhases
<1>8. EndedWell'
  BY DEF SenderStops, jobSide, drainSide, DrainTyped, LoopsEnd, EndedWell, Taken
<1> QED BY <1>1, <1>2, <1>3, <1>4, <1>5, <1>6, <1>7, <1>8 DEF DrainInv

\* The server handles the oldest result on the wire.
LEMMA ServerHandlesKeeps == ASSUME DrainInv, ServerHandles PROVE DrainInv'
<1> USE DEF DrainInv
<1>a. /\ wire # <<>> /\ wire' = Tail(wire) /\ handled' = handled \cup {Head(wire)}
      /\ UNCHANGED <<jobAt, aborted, made, terminalSent, sender, outbound, suppressed, draining, drain,
                     candidates, flushLate, outcome, streamDone, recvEnd>>
  BY DEF ServerHandles, jobSide, drainSide
<1>b. /\ wire' \in Seq(DrainJobs) /\ Len(wire) \in Nat /\ Len(wire) >= 1 /\ Len(wire') = Len(wire) - 1
      /\ \A n \in 1..Len(wire') : n + 1 \in 1..Len(wire) /\ wire'[n] = wire[n + 1]
      /\ Head(wire) = wire[1] /\ wire[1] \in DrainJobs
  BY <1>a, Tailed DEF DrainTyped
<1>c. \A j \in DrainJobs : Reached(j)' <=> Reached(j)
  <2>1. ASSUME NEW j \in DrainJobs, Reached(j) PROVE Reached(j)'
    <3>1. CASE j \in handled \cup {wire[1]}
      BY <3>1, <1>a, <1>b DEF Reached
    <3>2. CASE j \notin handled \cup {wire[1]}
      <4>1. PICK n \in 1..Len(wire) : wire[n] = j
        BY <2>1, <3>2 DEF Reached, OnWire
      <4>2. n - 1 \in 1..Len(wire') /\ wire'[n - 1] = j
        BY <4>1, <3>2, <1>b
      <4> QED BY <4>2 DEF Reached, OnWire
    <3> QED BY <3>1, <3>2
  <2>2. ASSUME NEW j \in DrainJobs, Reached(j)' PROVE Reached(j)
    <3>1. j \in handled \/ j = wire[1] \/ \E n \in 1..Len(wire') : wire[n + 1] = j
      BY <2>2, <1>a, <1>b DEF Reached, OnWire
    <3>2. 1 \in 1..Len(wire) /\ \A n \in 1..Len(wire') : n + 1 \in 1..Len(wire)
      BY <1>b
    <3> QED BY <3>1, <3>2 DEF Reached, OnWire
  <2> QED BY <2>1, <2>2
<1>d. \A j \in DrainJobs : /\ Over(j)' <=> Over(j)
                           /\ Queued(j)' <=> Queued(j)
                           /\ Holds("sending", j)' <=> Holds("sending", j)
                           /\ Holds("marking", j)' <=> Holds("marking", j)
  BY <1>a DEF Over, Queued, Holds
<1>e. Running' = Running /\ Taken' = Taken
  BY <1>a DEF Running, Taken
<1>1. DrainTyped'
  BY <1>a, <1>b DEF DrainTyped
<1>2. LoopsEnd'
  BY <1>a DEF LoopsEnd
<1>3. OneResult'
  <2>1. \A i, k \in 1..Len(outbound') : \A j \in DrainJobs :
          outbound'[i] = Result(j) /\ outbound'[k] = Result(j) => i = k
    BY <1>a DEF OneResult
  <2>2. \A j \in DrainJobs :
          /\ Queued(j)' => /\ Over(j)' /\ j \notin terminalSent'
                           /\ ~Holds("sending", j)' /\ ~Holds("marking", j)' /\ ~Reached(j)'
          /\ Holds("sending", j)' => Over(j)' /\ ~Reached(j)' /\ j \notin terminalSent'
          /\ Holds("marking", j)' => Over(j)' /\ (recvEnd' # "error" => Reached(j)')
          /\ Reached(j)' => Over(j)' /\ (j \in terminalSent' \/ Holds("marking", j)')
          /\ j \in terminalSent' => Over(j)' /\ (recvEnd' # "error" => Reached(j)')
    BY <1>a, <1>c, <1>d DEF OneResult
  <2> QED BY <2>1, <2>2 DEF OneResult
<1>4. Verdicts'
  BY <1>a, <1>c, <1>d DEF Verdicts
<1>5. Accounted'
  BY <1>a, <1>c, <1>d DEF Accounted
<1>6. PhasesSound'
  BY <1>a, <1>e DEF PhasesSound
<1>7. BehindBarriers'
  BY <1>a, <1>c, <1>d DEF BehindBarriers, DrainTyped
<1>8. EndedWell'
  BY <1>a, <1>e DEF EndedWell, LoopsEnd
<1> QED BY <1>1, <1>2, <1>3, <1>4, <1>5, <1>6, <1>7, <1>8 DEF DrainInv

\* The end of file comes behind everything that was sent.
LEMMA ServerClosesKeeps == ASSUME DrainInv, ServerCloses PROVE DrainInv'
<1> USE DEF DrainInv
<1>1. DrainTyped'
  BY DEF ServerCloses, jobSide, senderSide, drainSide, DrainTyped, Phases
<1>2. LoopsEnd'
  BY DEF ServerCloses, jobSide, senderSide, drainSide, LoopsEnd
<1>3. OneResult'
  BY DEF ServerCloses, jobSide, senderSide, drainSide, OneResult, Queued, Holds, Reached, OnWire, Over
<1>4. Verdicts'
  BY DEF ServerCloses, jobSide, senderSide, drainSide, DrainTyped, Verdicts, Holds, Reached, OnWire,
     Over
<1>5. Accounted'
  BY DEF ServerCloses, jobSide, senderSide, drainSide, Accounted, Queued, Holds, Reached, OnWire, Over
<1>6. PhasesSound'
  BY DEF ServerCloses, jobSide, senderSide, drainSide, PhasesSound, Running, Taken, BeforeCutoff,
     CleanPhases, FinalPhases
<1>7. BehindBarriers'
  BY DEF ServerCloses, jobSide, senderSide, drainSide, BehindBarriers, Holds, Reached, OnWire,
     FinalPhases
<1>8. EndedWell'
  BY DEF ServerCloses, jobSide, senderSide, drainSide, DrainTyped, LoopsEnd, EndedWell, Taken
<1> QED BY <1>1, <1>2, <1>3, <1>4, <1>5, <1>6, <1>7, <1>8 DEF DrainInv

\* The connection breaks and may lose what is on the wire.
LEMMA StreamBreaksKeeps == ASSUME DrainInv, StreamBreaks PROVE DrainInv'
<1> USE DEF DrainInv
<1>a. /\ recvEnd = "none" /\ recvEnd' = "error" /\ streamDone' = TRUE /\ wire' \in {wire, <<>>}
      /\ UNCHANGED <<jobAt, aborted, made, terminalSent, sender, outbound, handled, suppressed, draining,
                     drain, candidates, flushLate, outcome>>
  BY DEF StreamBreaks, jobSide, drainSide
<1>b. wire' \in Seq(DrainJobs)
  <2>1. <<>> \in Seq(DrainJobs)
    OBVIOUS
  <2> QED BY <2>1, <1>a DEF DrainTyped
<1>c. \A j \in DrainJobs : Reached(j)' => Reached(j)
  BY <1>a DEF Reached, OnWire
<1>d. \A j \in DrainJobs : /\ Over(j)' <=> Over(j)
                           /\ Queued(j)' <=> Queued(j)
                           /\ Holds("sending", j)' <=> Holds("sending", j)
                           /\ Holds("marking", j)' <=> Holds("marking", j)
  BY <1>a DEF Over, Queued, Holds
<1>1. DrainTyped'
  BY <1>a, <1>b DEF DrainTyped
<1>2. LoopsEnd'
  BY DEF StreamBreaks, jobSide, drainSide, LoopsEnd
<1>3. OneResult'
  BY <1>a, <1>c, <1>d DEF OneResult
<1>4. Verdicts'
  BY <1>a, <1>c, <1>d DEF Verdicts
<1>5. Accounted'
  BY DEF StreamBreaks, jobSide, drainSide, Accounted, Queued, Holds, Reached, OnWire, Over
<1>6. PhasesSound'
  BY DEF StreamBreaks, jobSide, drainSide, PhasesSound, Running, Taken, BeforeCutoff, CleanPhases,
     FinalPhases
<1>7. BehindBarriers'
  BY <1>a, <1>c, <1>d DEF BehindBarriers, DrainTyped
<1>8. EndedWell'
  BY DEF StreamBreaks, jobSide, drainSide, DrainTyped, LoopsEnd, EndedWell, Taken
<1> QED BY <1>1, <1>2, <1>3, <1>4, <1>5, <1>6, <1>7, <1>8 DEF DrainInv

\* A frame at the end of the queue leaves the results where they are.
LEMMA FrameQueued ==
    ASSUME DrainTyped, NEW f \in {"draining", "cutoff", "final"},
           outbound' = Append(outbound, Frame(f))
    PROVE  /\ outbound' \in Seq(Items) /\ Len(outbound) \in Nat /\ Len(outbound') = Len(outbound) + 1
           /\ \A n \in 1..Len(outbound) : n \in 1..Len(outbound') /\ outbound'[n] = outbound[n]
           /\ \A n \in 1..Len(outbound') :
                 n \in 1..Len(outbound) \/ (n = Len(outbound) + 1 /\ outbound'[n].kind = f)
           /\ \A j \in DrainJobs : Queued(j)' <=> Queued(j)
           /\ OneResult => \A i, k \in 1..Len(outbound') : \A j \in DrainJobs :
                 outbound'[i] = Result(j) /\ outbound'[k] = Result(j) => i = k
<1>1. outbound \in Seq(Items) /\ Frame(f) \in Items /\ Frame(f).kind = f
  BY ItemShape DEF DrainTyped
<1>2. /\ outbound' \in Seq(Items) /\ Len(outbound) \in Nat /\ Len(outbound') = Len(outbound) + 1
      /\ \A n \in 1..Len(outbound) : n \in 1..Len(outbound') /\ outbound'[n] = outbound[n]
      /\ \A n \in 1..Len(outbound') :
            n \in 1..Len(outbound) \/ (n = Len(outbound) + 1 /\ outbound'[n].kind = f)
  BY <1>1, Appended
<1>3. \A n \in 1..Len(outbound') : \A j \in DrainJobs : outbound'[n] = Result(j) => n \in 1..Len(outbound)
  BY <1>2, ItemShape
<1>4. \A j \in DrainJobs : Queued(j)' <=> Queued(j)
  BY <1>2, <1>3 DEF Queued
<1>5. OneResult => \A i, k \in 1..Len(outbound') : \A j \in DrainJobs :
                 outbound'[i] = Result(j) /\ outbound'[k] = Result(j) => i = k
  BY <1>2, <1>3 DEF OneResult
<1> QED BY <1>2, <1>4, <1>5

\* The drain begins.
LEMMA BeginDrainKeeps == ASSUME DrainInv, BeginDrain PROVE DrainInv'
<1> USE DEF DrainInv
<1>a. /\ drain = "serving" /\ drain' = "waiting" /\ draining' = TRUE
      /\ UNCHANGED <<jobAt, aborted, made, terminalSent, sender, wire, handled, suppressed, candidates,
                     flushLate, outcome, streamDone, recvEnd>>
  BY DEF BeginDrain, jobSide, senderSide, Goto
<1>b. /\ outbound' \in Seq(Items)
      /\ \A n \in 1..Len(outbound') :
            (n \in 1..Len(outbound) /\ outbound'[n] = outbound[n]) \/ outbound'[n].kind = "draining"
      /\ \A j \in DrainJobs : Queued(j)' <=> Queued(j)
      /\ \A i, k \in 1..Len(outbound') : \A j \in DrainJobs :
            outbound'[i] = Result(j) /\ outbound'[k] = Result(j) => i = k
  <2>1. CASE outbound' = outbound
    BY <2>1 DEF DrainTyped, Queued, OneResult
  <2>2. CASE outbound' = Append(outbound, Frame("draining"))
    BY <2>2, FrameQueued
  <2> QED BY <2>1, <2>2 DEF BeginDrain
<1>c. \A j \in DrainJobs : /\ Over(j)' <=> Over(j)
                           /\ Reached(j)' <=> Reached(j)
                           /\ Holds("sending", j)' <=> Holds("sending", j)
                           /\ Holds("marking", j)' <=> Holds("marking", j)
  BY <1>a DEF Over, Reached, OnWire, Holds
<1>d. Running' = Running /\ Taken' = Taken
  BY <1>a DEF Running, Taken
<1>1. DrainTyped'
  BY <1>a, <1>b DEF DrainTyped, Phases
<1>2. LoopsEnd'
  BY <1>a DEF LoopsEnd
<1>3. OneResult'
  BY <1>a, <1>b, <1>c DEF OneResult
<1>4. Verdicts'
  BY <1>a, <1>c DEF Verdicts
<1>5. Accounted'
  BY <1>a, <1>b, <1>c DEF Accounted
<1>6. PhasesSound'
  BY <1>a, <1>b, <1>d DEF PhasesSound, BeforeCutoff, CleanPhases, FinalPhases
<1>7. BehindBarriers'
  BY <1>a DEF BehindBarriers, FinalPhases
<1>8. EndedWell'
  BY <1>a, <1>d DEF EndedWell
<1> QED BY <1>1, <1>2, <1>3, <1>4, <1>5, <1>6, <1>7, <1>8 DEF DrainInv

\* A barrier goes behind every result queued so far.
LEMMA PushBarrierKeeps == ASSUME DrainInv, PushBarrier PROVE DrainInv'
<1> USE DEF DrainInv
<1>a. /\ UNCHANGED <<jobAt, aborted, made, terminalSent, sender, wire, handled, suppressed, draining,
                     candidates, flushLate, outcome, streamDone, recvEnd>>
  BY DEF PushBarrier, jobSide, senderSide
<1>e. PICK f \in {"cutoff", "final"} :
         /\ outbound' = Append(outbound, Frame(f))
         /\ \/ drain = "clean_push" /\ drain' = "clean_reach" /\ f = "final"
            \/ drain = "cutoff_push" /\ drain' = "cutoff_reach" /\ f = "cutoff"
            \/ drain = "final_push" /\ drain' = "final_reach" /\ f = "final"
  BY DEF PushBarrier, Goto
<1>b. /\ outbound' \in Seq(Items) /\ Len(outbound) \in Nat /\ Len(outbound') = Len(outbound) + 1
      /\ \A n \in 1..Len(outbound) : n \in 1..Len(outbound') /\ outbound'[n] = outbound[n]
      /\ \A n \in 1..Len(outbound') :
            n \in 1..Len(outbound) \/ (n = Len(outbound) + 1 /\ outbound'[n].kind = f)
      /\ \A j \in DrainJobs : Queued(j)' <=> Queued(j)
      /\ \A i, k \in 1..Len(outbound') : \A j \in DrainJobs :
            outbound'[i] = Result(j) /\ outbound'[k] = Result(j) => i = k
  BY <1>e, FrameQueued
<1>c. \A j \in DrainJobs : /\ Over(j)' <=> Over(j)
                           /\ Reached(j)' <=> Reached(j)
                           /\ Holds("sending", j)' <=> Holds("sending", j)
                           /\ Holds("marking", j)' <=> Holds("marking", j)
  BY <1>a DEF Over, Reached, OnWire, Holds
<1>d. Running' = Running /\ Taken' = Taken
  BY <1>a DEF Running, Taken
<1>1. DrainTyped'
  BY <1>a, <1>b, <1>e DEF DrainTyped, Phases
<1>2. LoopsEnd'
  BY <1>a, <1>e DEF LoopsEnd
<1>3. OneResult'
  BY <1>a, <1>b, <1>c DEF OneResult
<1>4. Verdicts'
  BY <1>a, <1>c DEF Verdicts
<1>5. Accounted'
  BY <1>a, <1>b, <1>c, <1>e DEF Accounted
<1>6. PhasesSound'
  <2>1. CASE drain = "clean_push"
    BY <2>1, <1>a, <1>b, <1>d, <1>e DEF PhasesSound, BeforeCutoff, CleanPhases, FinalPhases
  <2>2. CASE drain = "cutoff_push" \/ drain = "final_push"
    BY <2>2, <1>a, <1>d, <1>e DEF PhasesSound, BeforeCutoff, CleanPhases, FinalPhases
  <2> QED BY <2>1, <2>2, <1>e
<1>7. BehindBarriers'
  <2>1. CASE drain = "clean_push"
    <3>1. drain' = "clean_reach" /\ f = "final" /\ sender'.at # "barrier"
          /\ \A n \in 1..Len(outbound) : outbound[n].kind # "final"
      BY <2>1, <1>a, <1>e DEF PhasesSound
    <3>2. \A i, k \in 1..Len(outbound') :
             i < k /\ outbound'[i].kind = "final" => outbound'[k].kind # "result"
      BY <3>1, <1>b
    <3> QED BY <3>1, <3>2 DEF BehindBarriers, FinalPhases
  <2>2. CASE drain = "cutoff_push"
    <3>1. drain' = "cutoff_reach" /\ f = "cutoff"
          /\ (sender'.at = "barrier" => sender'.item.kind # "cutoff")
          /\ \A n \in 1..Len(outbound) : outbound[n].kind # "cutoff"
      BY <2>2, <1>a, <1>e DEF PhasesSound, BeforeCutoff
    <3>2. \A i, k \in 1..Len(outbound') :
             i < k /\ outbound'[i].kind = "cutoff" => outbound'[k].kind # "result"
      BY <3>1, <1>b
    <3> QED BY <3>1, <3>2 DEF BehindBarriers, FinalPhases
  <2>3. CASE drain = "final_push"
    <3>1. drain' = "final_reach" /\ f = "final" /\ drain \in FinalPhases
      BY <2>3, <1>e DEF FinalPhases
    <3>2. \A n \in 1..Len(outbound') :
             (n \in 1..Len(outbound) /\ outbound'[n] = outbound[n]) \/ outbound'[n].kind = "final"
      BY <3>1, <1>b
    <3> QED BY <3>1, <3>2, <1>a, <1>c DEF BehindBarriers, DrainTyped
  <2> QED BY <2>1, <2>2, <2>3, <1>e
<1>8. EndedWell'
  BY <1>a, <1>d, <1>e DEF EndedWell
<1> QED BY <1>1, <1>2, <1>3, <1>4, <1>5, <1>6, <1>7, <1>8 DEF DrainInv

\* The last barrier closes the send loop.
LEMMA ReachLastKeeps == ASSUME DrainInv, ReachLast PROVE DrainInv'
<1> USE DEF DrainInv
<1>1. DrainTyped'
  BY DEF ReachLast, jobSide, Goto, DrainTyped, Phases
<1>2. LoopsEnd'
  BY DEF ReachLast, jobSide, Goto, LoopsEnd
<1>3. OneResult'
  BY DEF ReachLast, jobSide, Goto, OneResult, Queued, Holds, Reached, OnWire, Over
<1>4. Verdicts'
  BY DEF ReachLast, jobSide, Goto, DrainTyped, Verdicts, Holds, Reached, OnWire, Over
<1>5. Accounted'
  BY DEF ReachLast, jobSide, Goto, Accounted, Queued, Holds, Reached, OnWire, Over
<1>6. PhasesSound'
  BY DEF ReachLast, jobSide, Goto, PhasesSound, Running, Taken, BeforeCutoff, CleanPhases, FinalPhases
<1>7. BehindBarriers'
  BY DEF ReachLast, jobSide, Goto, BehindBarriers, Holds, Reached, OnWire, FinalPhases
<1>8. EndedWell'
  BY DEF ReachLast, jobSide, Goto, DrainTyped, LoopsEnd, EndedWell, Taken
<1> QED BY <1>1, <1>2, <1>3, <1>4, <1>5, <1>6, <1>7, <1>8 DEF DrainInv

\* At the cutoff exactly the snapshotted jobs without a sent result are suppressed.
LEMMA ReachCutoffKeeps == ASSUME DrainInv, ReachCutoff PROVE DrainInv'
<1> USE DEF DrainInv
<1>a. /\ drain = "cutoff_reach" /\ sender.at = "barrier" /\ sender.item.kind = "cutoff"
      /\ drain' = "cancel" /\ suppressed' = candidates \ terminalSent /\ sender' = Looping
      /\ UNCHANGED <<jobAt, aborted, made, terminalSent, wire, outbound, handled, draining, candidates,
                     flushLate, outcome, streamDone, recvEnd>>
  BY DEF ReachCutoff, ToSuppress, Goto, jobSide
<1>b. suppressed = {} /\ aborted = {}
  BY <1>a DEF PhasesSound, Verdicts
<1>c. \A j \in DrainJobs : /\ Over(j)' <=> Over(j)
                           /\ Queued(j)' <=> Queued(j)
                           /\ Reached(j)' <=> Reached(j)
                           /\ ~Holds("sending", j)' /\ ~Holds("marking", j)'
                           /\ ~Holds("sending", j) /\ ~Holds("marking", j)
  BY <1>a DEF Over, Queued, Reached, OnWire, Holds, Looping
<1>d. Running' = Running /\ Taken' = Taken
  BY <1>a DEF Running, Taken
<1>1. DrainTyped'
  BY <1>a DEF DrainTyped, Phases, Looping
<1>2. LoopsEnd'
  BY <1>a DEF LoopsEnd, Looping
<1>3. OneResult'
  BY <1>a, <1>c DEF OneResult
<1>4. Verdicts'
  BY <1>a, <1>b, <1>c DEF Verdicts
<1>5. Accounted'
  BY <1>a, <1>b, <1>c DEF Accounted
<1>6. PhasesSound'
  BY <1>a, <1>d DEF PhasesSound, BeforeCutoff, CleanPhases, FinalPhases
<1>7. BehindBarriers'
  <2>1. \A k \in 1..Len(outbound) : outbound[k].kind = "result" =>
          /\ outbound[k].job \in candidates /\ outbound[k].job \in DrainJobs
          /\ outbound[k] = Result(outbound[k].job)
    BY <1>a, ItemShape, SMTT(30) DEF BehindBarriers, DrainTyped
  <2>2. \A k \in 1..Len(outbound) : outbound[k].kind = "result" => outbound[k].job \notin terminalSent
    BY <2>1 DEF OneResult, Queued
  <2>3. \A j \in candidates \ terminalSent : ~Reached(j)'
    BY <1>c DEF OneResult, DrainTyped
  <2> QED BY <2>1, <2>2, <2>3, <1>a, <1>c DEF BehindBarriers, FinalPhases, DrainTyped
<1>8. EndedWell'
  BY <1>a, <1>d DEF EndedWell
<1> QED BY <1>1, <1>2, <1>3, <1>4, <1>5, <1>6, <1>7, <1>8 DEF DrainInv

\* The waits, deadlines and cancels of the draining goroutine.
LEMMA WaitingKeeps ==
    ASSUME DrainInv,
           JobsFinished \/ BudgetElapses \/ FlushDeadline \/ CancelSuppressed \/ WaitDone \/ GiveUp
           \/ AbandonCancel \/ CloseStream
    PROVE  DrainInv'
<1> USE DEF DrainInv
<1>1. DrainTyped'
  <2>1. CASE JobsFinished \/ FlushDeadline \/ WaitDone
    BY <2>1, ZenonT(40) DEF DrainTyped, Phases, JobsFinished, FlushDeadline, WaitDone, jobSide, senderSide, Goto
  <2>4. CASE BudgetElapses
    BY <2>4 DEF DrainTyped, Phases, Running, BudgetElapses, jobSide, senderSide, Goto
  <2>5. CASE CancelSuppressed
    BY <2>5 DEF DrainTyped, Phases, CancelSuppressed, senderSide, Goto
  <2>6. CASE CloseStream
    BY <2>6 DEF DrainTyped, CloseStream, jobSide, senderSide, drainSide
  <2>2. CASE GiveUp
    BY <2>2 DEF DrainTyped, Phases, GiveUp, Goto, EndDrain, NotEnded, jobSide, senderSide
  <2>3. CASE AbandonCancel
    BY <2>3 DEF DrainTyped, Phases, AbandonCancel, Goto, EndDrain, NotEnded, senderSide
  <2> QED BY <2>1, <2>2, <2>3, <2>4, <2>5, <2>6
<1>2. LoopsEnd'
  BY DEF JobsFinished, BudgetElapses, FlushDeadline, CancelSuppressed, WaitDone, GiveUp,
     AbandonCancel, CloseStream, jobSide, senderSide, drainSide, Goto, EndDrain, NotEnded, LoopsEnd
<1>3. OneResult'
  BY DEF JobsFinished, BudgetElapses, FlushDeadline, CancelSuppressed, WaitDone, GiveUp,
     AbandonCancel, CloseStream, jobSide, senderSide, drainSide, Goto, EndDrain, NotEnded,
     OneResult, Queued, Holds, Reached, OnWire, Over
<1>4. Verdicts'
  BY DEF JobsFinished, BudgetElapses, FlushDeadline, CancelSuppressed, WaitDone, GiveUp,
     AbandonCancel, CloseStream, jobSide, senderSide, drainSide, Goto, EndDrain, NotEnded,
     DrainTyped, Verdicts, Holds, Reached, OnWire, Over
<1>5. Accounted'
  BY DEF JobsFinished, BudgetElapses, FlushDeadline, CancelSuppressed, WaitDone, GiveUp,
     AbandonCancel, CloseStream, jobSide, senderSide, drainSide, Goto, EndDrain, NotEnded,
     Accounted, Queued, Holds, Reached, OnWire, Over
<1>6. PhasesSound'
  BY DEF JobsFinished, BudgetElapses, FlushDeadline, CancelSuppressed, WaitDone, GiveUp,
     AbandonCancel, CloseStream, jobSide, senderSide, drainSide, Goto, EndDrain, NotEnded,
     PhasesSound, Running, Taken, BeforeCutoff, CleanPhases, FinalPhases
<1>7. BehindBarriers'
  BY DEF JobsFinished, BudgetElapses, FlushDeadline, CancelSuppressed, WaitDone, GiveUp,
     AbandonCancel, CloseStream, jobSide, senderSide, drainSide, Goto, EndDrain, NotEnded,
     BehindBarriers, Holds, Reached, OnWire, FinalPhases
<1>8. EndedWell'
  BY DEF JobsFinished, BudgetElapses, FlushDeadline, CancelSuppressed, WaitDone, GiveUp,
     AbandonCancel, CloseStream, jobSide, senderSide, drainSide, Goto, EndDrain, NotEnded,
     DrainTyped, LoopsEnd, EndedWell, Taken
<1> QED BY <1>1, <1>2, <1>3, <1>4, <1>5, <1>6, <1>7, <1>8 DEF DrainInv

\* The end of file completes the account: whoever is not suppressed was handled.
LEMMA SeeEndKeeps == ASSUME DrainInv, SeeEnd PROVE DrainInv'
<1> USE DEF DrainInv
<1>1. DrainTyped'
  BY ZenonT(40) DEF SeeEnd, jobSide, senderSide, Goto, EndDrain, NotEnded, EndsClean, DrainTyped, Phases
<1>2. LoopsEnd'
  BY DEF SeeEnd, jobSide, senderSide, Goto, EndDrain, NotEnded, EndsClean, LoopsEnd
<1>3. OneResult'
  BY DEF SeeEnd, jobSide, senderSide, Goto, EndDrain, NotEnded, EndsClean, OneResult, Queued, Holds,
     Reached, OnWire, Over
<1>4. Verdicts'
  BY DEF SeeEnd, jobSide, senderSide, Goto, EndDrain, NotEnded, EndsClean, DrainTyped, Verdicts,
     Holds, Reached, OnWire, Over
<1>5. Accounted'
  BY DEF SeeEnd, jobSide, senderSide, Goto, EndDrain, NotEnded, EndsClean, Accounted, Queued, Holds,
     Reached, OnWire, Over
<1>6. PhasesSound'
  BY DEF SeeEnd, jobSide, senderSide, Goto, EndDrain, NotEnded, EndsClean, PhasesSound, Running,
     Taken, BeforeCutoff, CleanPhases, FinalPhases
<1>7. BehindBarriers'
  BY DEF SeeEnd, jobSide, senderSide, Goto, EndDrain, NotEnded, EndsClean, BehindBarriers, Holds,
     Reached, OnWire, FinalPhases
<1>8. EndedWell'
  <2> USE DEF SeeEnd, Goto, EndDrain, EndsClean
  <2>1. outcome \in [ended : BOOLEAN, clean : BOOLEAN, running : SUBSET DrainJobs, flushTimedOut : BOOLEAN]
        /\ Taken' = Taken /\ UNCHANGED <<handled, suppressed, recvEnd>> /\ ~outcome.ended
    BY DEF DrainTyped, Taken, jobSide, EndedWell
  <2>2. recvEnd = "eof" => \A j \in DrainJobs : ~Holds("sending", j) /\ (Reached(j) <=> j \in handled)
    BY DEF LoopsEnd, DrainTyped, Holds, Reached, OnWire
  <2>3. handled \subseteq Taken
    BY DEF OneResult, Reached, Over, Taken, DrainTyped
  <2>4. CASE recvEnd # "eof"
    BY <2>4, <2>1 DEF EndedWell, NotEnded
  <2>5. CASE recvEnd = "eof" /\ drain = "clean_eof"
    <3>1. \A j \in Taken : Over(j)
      BY <2>5 DEF PhasesSound, CleanPhases, Taken, Running, Over, DrainTyped
    <3>2. \A j \in DrainJobs : ~Queued(j)
      BY <2>5, ItemShape DEF BehindBarriers, Queued
    <3>3. Taken \subseteq handled
      BY <3>1, <3>2, <2>2, <2>5 DEF Accounted, PhasesSound, BeforeCutoff, Taken
    <3>4. outcome' = [ended |-> TRUE, clean |-> TRUE, running |-> {}, flushTimedOut |-> FALSE]
      BY <2>5 DEF NotEnded
    <3> QED BY <3>3, <3>4, <2>1, <2>3, <2>5 DEF EndedWell
  <2>6. CASE recvEnd = "eof" /\ drain = "final_eof"
    <3>1. \A j \in DrainJobs : Queued(j) => j \in suppressed
      BY <2>6, ItemShape DEF BehindBarriers, Queued, FinalPhases
    <3>2. \A j \in Taken : j \in Running \/ Over(j)
      BY DEF Taken, Running, Over, DrainTyped
    <3>3. \A j \in Running : j \in suppressed \/ j \in handled
      BY <2>2, <2>6 DEF PhasesSound, BehindBarriers, FinalPhases, OneResult, Running
    <3>4. Taken \subseteq handled \cup suppressed
      BY <3>1, <3>2, <3>3, <2>2, <2>6 DEF Accounted, Taken
    <3>5. suppressed \subseteq Taken /\ handled \cap suppressed = {}
      BY <2>2, <2>6 DEF PhasesSound, BehindBarriers, FinalPhases, DrainTyped
    <3>6. outcome' = [ended |-> TRUE, clean |-> FALSE, running |-> suppressed, flushTimedOut |-> FALSE]
      BY <2>6 DEF NotEnded
    <3> QED BY <3>4, <3>5, <3>6, <2>1, <2>3, <2>6 DEF EndedWell
  <2> QED BY <2>4, <2>5, <2>6
<1> QED BY <1>1, <1>2, <1>3, <1>4, <1>5, <1>6, <1>7, <1>8 DEF DrainInv

\* abandonAll only adds to the suppressed.
LEMMA AbandonSuppressKeeps == ASSUME DrainInv, AbandonSuppress PROVE DrainInv'
<1> USE DEF DrainInv
<1>1. DrainTyped'
  BY DEF AbandonSuppress, jobSide, senderSide, Goto, DrainTyped, Phases, Running
<1>2. LoopsEnd'
  BY DEF AbandonSuppress, jobSide, senderSide, Goto, LoopsEnd
<1>3. OneResult'
  BY DEF AbandonSuppress, jobSide, senderSide, Goto, OneResult, Queued, Holds, Reached, OnWire, Over
<1>4. Verdicts'
  <2>1. suppressed \subseteq suppressed'
    BY DEF AbandonSuppress, PhasesSound
  <2> QED BY <2>1 DEF AbandonSuppress, Verdicts, jobSide, senderSide, Holds, Reached, OnWire, Over
<1>5. Accounted'
  BY DEF AbandonSuppress, jobSide, senderSide, Goto, Accounted, Queued, Holds, Reached, OnWire, Over
<1>6. PhasesSound'
  BY DEF AbandonSuppress, jobSide, senderSide, Goto, PhasesSound, Running, Taken, BeforeCutoff,
     CleanPhases, FinalPhases
<1>7. BehindBarriers'
  BY DEF AbandonSuppress, jobSide, senderSide, Goto, BehindBarriers, Holds, Reached, OnWire, FinalPhases
<1>8. EndedWell'
  BY DEF AbandonSuppress, jobSide, senderSide, Goto, DrainTyped, LoopsEnd, EndedWell, Taken
<1> QED BY <1>1, <1>2, <1>3, <1>4, <1>5, <1>6, <1>7, <1>8 DEF DrainInv

\* DrainInv is inductive.
LEMMA DrainStep == ASSUME DrainInv, [DrainNext]_drainVars PROVE DrainInv'
<1>1. CASE \E j \in DrainJobs : DispatchJob(j) \/ MakeResult(j) \/ EnqueueResult(j) \/ CloseJob(j)
  BY <1>1, DispatchJobKeeps, MakeResultKeeps, EnqueueResultKeeps, CloseJobKeeps
<1>2. CASE TakeItem \/ SendItem \/ MarkSent \/ SenderStops
  BY <1>2, TakeItemKeeps, SendItemKeeps, MarkSentKeeps, SenderStopsKeeps
<1>3. CASE ServerHandles \/ ServerCloses \/ StreamBreaks
  BY <1>3, ServerHandlesKeeps, ServerClosesKeeps, StreamBreaksKeeps
<1>4. CASE BeginDrain \/ PushBarrier \/ ReachLast \/ ReachCutoff \/ SeeEnd \/ AbandonSuppress
  BY <1>4, BeginDrainKeeps, PushBarrierKeeps, ReachLastKeeps, ReachCutoffKeeps, SeeEndKeeps,
     AbandonSuppressKeeps
<1>5. CASE JobsFinished \/ BudgetElapses \/ FlushDeadline \/ CancelSuppressed \/ WaitDone \/ GiveUp
           \/ AbandonCancel \/ CloseStream
  BY <1>5, WaitingKeeps
<1>6. CASE UNCHANGED drainVars
  BY <1>6 DEF drainVars, DrainInv, DrainTyped, LoopsEnd, OneResult, Verdicts, Accounted, PhasesSound,
              BehindBarriers, EndedWell, Queued, Holds, Reached, OnWire, Over, Running, Taken
<1> QED BY <1>1, <1>2, <1>3, <1>4, <1>5, <1>6 DEF DrainNext

\* The invariant in every reachable state.
THEOREM DrainInvariant == DrainSpec => []DrainInv
<1> QED BY DrainStarts, DrainStep, PTL DEF DrainSpec

\* ShutdownSound: the server never handles the result of a job the drain aborted,
\* and a shutdown it answered accounts for every job the agent took, for any set
\* of jobs and any capacity of the outbound channel.
THEOREM ShutdownsAreSound == DrainSpec => []ShutdownSound
<1>1. DrainInv => ShutdownSound
  BY DEF DrainInv, DrainTyped, EndedWell, Verdicts, Reached, ShutdownSound, AbortNeverReported,
     ShutdownAccounts
<1> QED BY <1>1, DrainInvariant, PTL
=============================================================================
