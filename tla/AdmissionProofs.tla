--------------------------- MODULE AdmissionProofs ---------------------------
(***************************************************************************)
(* What lets a run in and lets it pass, for every number of replicas,      *)
(* requests, pipelines, runs, voters and watchers: merge groups, pushes    *)
(* and the poller, the gate of a serial pipeline, and the two places where *)
(* people vote, the approval gates of a pipeline and the gates a canary    *)
(* stops at.  Votes are stored by job_run and outlive a round: a rerun     *)
(* re-arms a gate, a watcher clears it and arms the next.  What is proved  *)
(* is that a decision rests on enough people who voted in this round.      *)
(***************************************************************************)
EXTENDS MergeGroups, Triggers, SerialPipeline, ApprovalGate, RolloutWatch,
        FiniteSetTheorems, TLAPS

-----------------------------------------------------------------------------
(* Merge groups                                                            *)

GroupInv == GroupTypeOK /\ DestroyedStaysClosed

\* Canceling the open runs and writing the tombstone keeps the invariant.
LEMMA CancelOpenInv ==
    ASSUME GroupInv, CancelOpen
    PROVE  /\ groupRun' \in [Listeners -> {"none", "open", "finished", "canceled"}]
           /\ tombstone' \in BOOLEAN /\ DestroyedStaysClosed'
<1>1. groupRun' \in [Listeners -> {"none", "open", "finished", "canceled"}]
  BY DEF GroupInv, GroupTypeOK, CancelOpen
<1>2. \A m \in Listeners : groupRun'[m] # "open"
  BY DEF GroupInv, GroupTypeOK, CancelOpen
<1>3. tombstone' = TRUE
  BY DEF CancelOpen
<1> QED BY <1>1, <1>2, <1>3 DEF DestroyedStaysClosed

\* Every delivery and the destroyed event keep types and tombstone.
THEOREM GroupInvariant == GroupSpec => []GroupInv
<1>1. GroupInit => GroupInv
  <2> SUFFICES ASSUME GroupInit PROVE GroupInv
    OBVIOUS
  <2>1. groupRun \in [Listeners -> {"none", "open", "finished", "canceled"}]
    BY DEF GroupInit
  <2>2. tombstone = FALSE /\ groupFaults \in 0..MaxGroupFaults
    BY MergeGroupAssumption DEF GroupInit
  <2> QED BY <2>1, <2>2 DEF GroupInv, GroupTypeOK, DestroyedStaysClosed
<1>2. GroupInv /\ [GroupNext]_groupVars => GroupInv'
  <2> SUFFICES ASSUME GroupInv, [GroupNext]_groupVars PROVE GroupInv'
    OBVIOUS
  <2>0. GroupFault => groupFaults' \in 0..MaxGroupFaults
    BY MergeGroupAssumption DEF GroupInv, GroupTypeOK, GroupFault
  <2>1. CASE DestroyGroup
    BY <2>1, CancelOpenInv DEF DestroyGroup, GroupInv, GroupTypeOK
  <2>2. ASSUME NEW h \in Deliveries, RequestChecks(h) \/ LoseDelivery(h) PROVE GroupInv'
    BY <2>0, <2>2 DEF RequestChecks, LoseDelivery, GroupInv, GroupTypeOK, DestroyedStaysClosed
  <2>3. ASSUME NEW h \in Deliveries, EndChecks(h) PROVE GroupInv'
    <3>1. CASE CancelOpen /\ UNCHANGED groupFaults
      BY <3>1, CancelOpenInv DEF GroupInv, GroupTypeOK
    <3>2. CASE UNCHANGED <<groupRun, tombstone>> /\ (GroupFault \/ UNCHANGED groupFaults)
      BY <2>0, <3>2 DEF GroupInv, GroupTypeOK, DestroyedStaysClosed
    <3> QED BY <2>3, <3>1, <3>2 DEF EndChecks
  <2>4. ASSUME NEW h \in Deliveries, NEW m \in Listeners, CreateGroupRun(h, m) PROVE GroupInv'
    BY <2>0, <2>4 DEF CreateGroupRun, GroupGone, GroupInv, GroupTypeOK, DestroyedStaysClosed
  <2>5. ASSUME NEW m \in Listeners, FinishGroupRun(m) PROVE GroupInv'
    BY <2>5 DEF FinishGroupRun, GroupInv, GroupTypeOK, DestroyedStaysClosed
  <2>6. CASE UNCHANGED groupVars
    BY <2>6 DEF groupVars, GroupInv, GroupTypeOK, DestroyedStaysClosed
  <2> QED BY <2>1, <2>2, <2>3, <2>4, <2>5, <2>6 DEF GroupNext
<1> QED BY <1>1, <1>2, PTL DEF GroupSpec

\* However the destroyed event interleaves with the fan-outs of any number of
\* deliveries, no run of the group is open once its tombstone is there.
THEOREM DestroyedIsFinal == GroupSpec => []DestroyedStaysClosed
<1>1. GroupInv => DestroyedStaysClosed
  BY DEF GroupInv
<1> QED BY <1>1, GroupInvariant, PTL

-----------------------------------------------------------------------------
(* Pushes                                                                  *)

RequestState == [rev : Revisions, left : SUBSET Materials, at : Materials \cup {"insert"}]

\* Request h inserted the modification of key k and is about to create its run.
Creating(h, k) ==
    request[h] # Quiet /\ request[h].at \in Materials /\ k = <<request[h].at, request[h].rev>>

\* The key in modifications is a permit: it is taken before the run is created,
\* by one request only, and is spent by the time the run is there.
PushTypes ==
    /\ modifications \subseteq PushKeys
    /\ pushRuns \in [PushKeys -> 0..1]
    /\ request \in [Requests -> RequestState \cup {Quiet}]
Permits ==
    /\ \A k \in PushKeys : pushRuns[k] = 1 => k \in modifications
    /\ \A k \in PushKeys, h \in Requests : Creating(h, k) => k \in modifications /\ pushRuns[k] = 0
    /\ \A k \in PushKeys, h, i \in Requests : Creating(h, k) /\ Creating(i, k) => h = i
PushInv == PushTypes /\ Permits

\* A request that only drops work or ends is creating nothing new.
LEMMA PermitsKept ==
    ASSUME PushInv, PushTypes', pushRuns' = pushRuns, modifications \subseteq modifications',
           \A h \in Requests, k \in PushKeys : Creating(h, k)' => Creating(h, k)
    PROVE  PushInv'
<1>1. \A k \in PushKeys : pushRuns'[k] = 1 => k \in modifications'
  BY DEF PushInv, Permits
<1>2. \A k \in PushKeys, h \in Requests :
         Creating(h, k)' => k \in modifications' /\ pushRuns'[k] = 0
  BY DEF PushInv, Permits
<1>3. \A k \in PushKeys, h, i \in Requests : Creating(h, k)' /\ Creating(i, k)' => h = i
  BY DEF PushInv, Permits
<1> QED BY <1>1, <1>2, <1>3 DEF PushInv, Permits

\* Steps that leave the requests alone.
LEMMA OthersKeepPermits ==
    ASSUME PushInv, UNCHANGED <<request, pushRuns>>, modifications \subseteq modifications',
           modifications' \subseteq PushKeys
    PROVE  PushInv'
<1>1. PushTypes'
  BY DEF PushInv, PushTypes
<1>2. \A h \in Requests, k \in PushKeys : Creating(h, k)' => Creating(h, k)
  BY DEF Creating
<1> QED BY <1>1, <1>2, PermitsKept

\* A delivery arrives or ends.
LEMMA RequestKeepsPermits ==
    ASSUME PushInv, NEW h \in Requests,
           EndRequest(h) \/ \E rev \in Revisions : DeliverPush(h, rev)
    PROVE  PushInv'
<1>0. request \in [Requests -> RequestState \cup {Quiet}]
  BY DEF PushInv, PushTypes
<1>1. UNCHANGED <<pushRuns, modifications>>
  BY DEF EndRequest, DeliverPush, ledgerVars
<1>2. request'[h] = Quiet \/ (request'[h] \in RequestState /\ request'[h].at = "insert")
  BY <1>0, TriggerAssumption DEF EndRequest, DeliverPush, RequestState, Revisions
<1>3. request' = [request EXCEPT ![h] = request'[h]]
  BY <1>0 DEF EndRequest, DeliverPush
<1>4. request' \in [Requests -> RequestState \cup {Quiet}]
  BY <1>0, <1>2, <1>3
<1>5. PushTypes'
  BY <1>1, <1>4 DEF PushInv, PushTypes
<1>6. \A i \in Requests, k \in PushKeys : Creating(i, k)' => Creating(i, k)
  <2> SUFFICES ASSUME NEW i \in Requests, NEW k \in PushKeys, Creating(i, k)'
               PROVE  Creating(i, k)
    OBVIOUS
  <2>1. i # h
    BY <1>2, TriggerAssumption DEF Creating
  <2>2. request'[i] = request[i]
    BY <1>0, <1>3, <2>1
  <2> QED BY <2>2 DEF Creating
<1> QED BY <1>1, <1>5, <1>6, PermitsKept

\* One round of fanOutMaterials: the permit is taken only if nobody has it.
LEMMA FanOutKeepsPermits ==
    ASSUME PushInv, NEW h \in Requests, NEW m \in Materials, FanOut(h, m)
    PROVE  PushInv'
<1> DEFINE key == <<m, request[h].rev>>
<1>0. /\ request \in [Requests -> RequestState \cup {Quiet}] /\ request[h] \in RequestState
      /\ request[h].at = "insert" /\ UNCHANGED pushRuns /\ key \in PushKeys
  BY DEF PushInv, PushTypes, FanOut, RequestState, PushKeys
<1>1. CASE /\ modifications' = modifications \cup {key} /\ key \notin modifications
           /\ request' = [request EXCEPT ![h].at = m]
  <2>1. request'[h] = [request[h] EXCEPT !.at = m]
    BY <1>0, <1>1
  <2>2. request'[h] \in RequestState /\ request'[h].at = m /\ request'[h].rev = request[h].rev
    BY <1>0, <2>1 DEF RequestState
  <2>3. \A i \in Requests : i # h => request'[i] = request[i]
    BY <1>0, <1>1
  <2>4. request' \in [Requests -> RequestState \cup {Quiet}]
    BY <1>0, <1>1, <2>2
  <2>5. PushTypes'
    BY <1>0, <1>1, <2>4 DEF PushInv, PushTypes
  <2>6. \A k \in PushKeys : Creating(h, k)' => k = key
    BY <2>2 DEF Creating
  <2>7. \A i \in Requests, k \in PushKeys : i # h /\ Creating(i, k)' => Creating(i, k) /\ k # key
    BY <1>1, <2>3 DEF Creating, PushInv, Permits
  <2>8. pushRuns[key] = 0
    BY <1>0, <1>1 DEF PushInv, PushTypes, Permits
  <2>9. \A k \in PushKeys : pushRuns'[k] = 1 => k \in modifications'
    BY <1>0, <1>1 DEF PushInv, Permits
  <2>10. \A k \in PushKeys, i \in Requests :
            Creating(i, k)' => k \in modifications' /\ pushRuns'[k] = 0
    BY <1>0, <1>1, <2>6, <2>7, <2>8 DEF PushInv, Permits
  <2>11. \A k \in PushKeys, i, o \in Requests : Creating(i, k)' /\ Creating(o, k)' => i = o
    BY <2>6, <2>7 DEF PushInv, Permits
  <2> QED BY <2>5, <2>9, <2>10, <2>11 DEF PushInv, Permits
<1>2. CASE /\ modifications \subseteq modifications' /\ modifications' \subseteq PushKeys
           /\ request' = [request EXCEPT ![h].left = @ \ {m}]
  <2>1. request'[h] = [request[h] EXCEPT !.left = @ \ {m}]
    BY <1>0, <1>2
  <2>2. request'[h] \in RequestState /\ request'[h].at = "insert"
    BY <1>0, <2>1 DEF RequestState
  <2>3. \A i \in Requests : i # h => request'[i] = request[i]
    BY <1>0, <1>2
  <2>4. request' \in [Requests -> RequestState \cup {Quiet}]
    BY <1>0, <1>2, <2>2
  <2>5. PushTypes'
    BY <1>0, <1>2, <2>4 DEF PushInv, PushTypes
  <2>6. \A i \in Requests, k \in PushKeys : Creating(i, k)' => Creating(i, k)
    BY <2>2, <2>3, TriggerAssumption DEF Creating
  <2> QED BY <1>0, <1>2, <2>5, <2>6, PermitsKept
<1> QED
  <2>1. modifications \cup {key} \subseteq PushKeys
    BY <1>0 DEF PushInv, PushTypes
  <2> QED BY <1>1, <1>2, <2>1 DEF FanOut, DeliverySpawns

\* The run is created once: the request gives its permit up with it.
LEMMA CreateKeepsPermits ==
    ASSUME PushInv, NEW h \in Requests, CreatePushRun(h)
    PROVE  PushInv'
<1> DEFINE m == request[h].at
           key == <<m, request[h].rev>>
<1>0. /\ request \in [Requests -> RequestState \cup {Quiet}] /\ request[h] \in RequestState
      /\ m \in Materials /\ UNCHANGED modifications /\ key \in PushKeys
      /\ pushRuns \in [PushKeys -> 0..1] /\ Creating(h, key)
  BY DEF PushInv, PushTypes, CreatePushRun, RequestState, PushKeys, Creating
<1>1. request'[h] = [request[h] EXCEPT !.at = "insert", !.left = @ \ {m}]
  BY <1>0 DEF CreatePushRun
<1>2. request'[h] \in RequestState /\ request'[h].at = "insert"
  BY <1>0, <1>1 DEF RequestState
<1>3. \A i \in Requests : i # h => request'[i] = request[i]
  BY <1>0 DEF CreatePushRun
<1>4. request' \in [Requests -> RequestState \cup {Quiet}]
  BY <1>0, <1>2 DEF CreatePushRun
<1>5. \A i \in Requests, k \in PushKeys : Creating(i, k)' => Creating(i, k) /\ i # h
  BY <1>2, <1>3, TriggerAssumption DEF Creating
<1>6. CASE UNCHANGED pushRuns
  <2>1. PushTypes'
    BY <1>0, <1>4, <1>6 DEF PushInv, PushTypes
  <2> QED BY <1>0, <1>5, <1>6, <2>1, PermitsKept
<1>7. CASE pushRuns' = [pushRuns EXCEPT ![key] = IF @ < 2 THEN @ + 1 ELSE @]
  <2>1. pushRuns[key] = 0
    BY <1>0 DEF PushInv, Permits
  <2>2. pushRuns'[key] = 1 /\ \A k \in PushKeys : k # key => pushRuns'[k] = pushRuns[k]
    BY <1>0, <1>7, <2>1
  <2>3. pushRuns' \in [PushKeys -> 0..1]
    BY <1>0, <1>7, <2>1
  <2>4. PushTypes'
    BY <1>0, <1>4, <2>3 DEF PushInv, PushTypes
  <2>5. \A i \in Requests, k \in PushKeys : Creating(i, k)' => k # key
    BY <1>0, <1>5 DEF PushInv, Permits
  <2>6. \A k \in PushKeys : pushRuns'[k] = 1 => k \in modifications'
    BY <1>0, <2>2 DEF PushInv, Permits
  <2>7. \A k \in PushKeys, i \in Requests :
           Creating(i, k)' => k \in modifications' /\ pushRuns'[k] = 0
    BY <1>0, <1>5, <2>2, <2>5 DEF PushInv, Permits
  <2>8. \A k \in PushKeys, i, o \in Requests : Creating(i, k)' /\ Creating(o, k)' => i = o
    BY <1>5 DEF PushInv, Permits
  <2> QED BY <2>4, <2>6, <2>7, <2>8 DEF PushInv, Permits
<1> QED BY <1>6, <1>7 DEF CreatePushRun

\* The poller shares the ledger and nothing else with the deliveries, and its
\* keys are keys of the branch.
Heads == 0..MaxPush
NextTick == [at : {"next"}, left : SUBSET Materials, snap : [Materials -> Heads]]
MidTick == [at : {"insert", "create", "record"}, mat : Materials, sha : Heads,
            snap : [Materials -> Heads], left : SUBSET Materials]
PollTypes ==
    /\ branchHead \in Heads
    /\ lastHead \in [Materials -> Heads]
    /\ poller \in [Pollers -> NextTick \cup MidTick \cup {Quiet}]
    /\ \A p \in Pollers : poller[p] # Quiet /\ poller[p].at = "insert" =>
          <<poller[p].mat, poller[p].sha>> \in PushKeys

\* A step of ticker p that leaves it in a proper place of its tick.
LEMMA PollerMoves ==
    ASSUME PollTypes, NEW p \in Pollers, UNCHANGED branchHead, lastHead' \in [Materials -> Heads],
           NEW next \in NextTick \cup MidTick \cup {Quiet},
           next # Quiet /\ next.at = "insert" => <<next.mat, next.sha>> \in PushKeys,
           poller' = [poller EXCEPT ![p] = next]
    PROVE  PollTypes'
  BY DEF PollTypes

\* Every step of a ticker is such a step.
LEMMA PollKeepsTypes ==
    ASSUME PollTypes, NEW p \in Pollers, PollStep(p)
    PROVE  PollTypes'
<1>0. poller[p] \in NextTick \cup MidTick \cup {Quiet} /\ UNCHANGED branchHead
  BY DEF PollTypes, PollStep, BeginTick, InsertPolled, CreatePollRun, RecordOutcome, EndTick,
     ResolveHead
<1>1. CASE BeginTick(p)
  <2>1. Between(Materials, lastHead) \in NextTick
    BY DEF PollTypes, Between, NextTick
  <2>2. Between(Materials, lastHead).at # "insert"
    BY DEF Between
  <2>3. lastHead' \in [Materials -> Heads] /\ poller' = [poller EXCEPT ![p] = Between(Materials, lastHead)]
    BY <1>1 DEF BeginTick, PollTypes
  <2> HIDE DEF Between
  <2> QED BY <1>0, <2>1, <2>2, <2>3, PollerMoves
<1>2. ASSUME NEW m \in Materials, ResolveHead(p, m) PROVE PollTypes'
  <2> DEFINE go(at, sha) == [at |-> at, mat |-> m, sha |-> sha, snap |-> poller[p].snap,
                             left |-> poller[p].left \ {m}]
  <2>1. poller[p] \in NextTick
    BY <1>0, <1>2 DEF ResolveHead, Ticking, NextTick, MidTick
  <2>2. /\ go("record", poller[p].snap[m]) \in MidTick
        /\ go("record", poller[p].snap[m]).at = "record"
    BY <2>1 DEF NextTick, MidTick
  <2>3. branchHead # 0 => /\ go("insert", branchHead) \in MidTick
                          /\ <<m, branchHead>> \in PushKeys
    BY <2>1, TriggerAssumption DEF PollTypes, NextTick, MidTick, PushKeys, Revisions, Heads
  <2>4. lastHead' \in [Materials -> Heads]
    BY <1>2 DEF ResolveHead, PollTypes
  <2>5. CASE poller' = [poller EXCEPT ![p] = go("record", poller[p].snap[m])]
    <3> HIDE DEF go
    <3> QED BY <1>0, <2>2, <2>4, <2>5, PollerMoves
  <2>6. CASE branchHead # 0 /\ poller' = [poller EXCEPT ![p] = go("insert", branchHead)]
    <3>1. go("insert", branchHead).mat = m /\ go("insert", branchHead).sha = branchHead
      OBVIOUS
    <3> HIDE DEF go
    <3> QED BY <1>0, <2>3, <2>4, <2>6, <3>1, PollerMoves
  <2> QED BY <1>2, <2>5, <2>6 DEF ResolveHead
<1>3. CASE InsertPolled(p) \/ CreatePollRun(p) \/ RecordOutcome(p)
  <2>1. poller[p] \in MidTick
    BY <1>0, <1>3 DEF InsertPolled, CreatePollRun, RecordOutcome, Ticking, NextTick, MidTick
  <2>2. lastHead' \in [Materials -> Heads]
    BY <1>3, <2>1 DEF InsertPolled, CreatePollRun, RecordOutcome, PollTypes, MidTick
  <2>3. Between(poller[p].left, poller[p].snap) \in NextTick
    BY <2>1 DEF MidTick, Between, NextTick
  <2>4. Between(poller[p].left, poller[p].snap).at # "insert"
    BY DEF Between
  <2>5. CASE poller' = ToNext(p)
    <3>1. poller' = [poller EXCEPT ![p] = Between(poller[p].left, poller[p].snap)]
      BY <2>5 DEF ToNext
    <3> HIDE DEF Between
    <3> QED BY <1>0, <2>2, <2>3, <2>4, <3>1, PollerMoves
  <2>6. ASSUME NEW at \in {"create", "record"}, poller' = [poller EXCEPT ![p].at = at]
        PROVE  PollTypes'
    <3>1. [poller[p] EXCEPT !.at = at] \in MidTick /\ [poller[p] EXCEPT !.at = at].at = at
      BY <2>1 DEF MidTick
    <3>2. poller' = [poller EXCEPT ![p] = [poller[p] EXCEPT !.at = at]]
      BY <2>6 DEF PollTypes
    <3> QED BY <1>0, <2>2, <3>1, <3>2, PollerMoves
  <2> QED BY <1>3, <2>5, <2>6 DEF InsertPolled, CreatePollRun, RecordOutcome
<1>4. CASE EndTick(p)
  <2>1. lastHead' \in [Materials -> Heads] /\ poller' = [poller EXCEPT ![p] = Quiet]
    BY <1>4 DEF EndTick, PollTypes
  <2> QED BY <1>0, <2>1, PollerMoves
<1> QED BY <1>1, <1>2, <1>3, <1>4 DEF PollStep

\* The steps of the triggers, without the fairness that safety does not need.
TriggersSteps == TriggersInit /\ [][TriggersNext]_triggerVars

\* Every request and every tick keeps types and permits.
THEOREM PushInvariant == TriggersSteps => [](PushInv /\ PollTypes)
<1> DEFINE Inv == PushInv /\ PollTypes
<1>1. TriggersInit => Inv
  <2> SUFFICES ASSUME TriggersInit PROVE Inv
    OBVIOUS
  <2>1. PushTypes
    BY DEF TriggersInit, PushTypes
  <2>2. Permits
    BY DEF TriggersInit, Permits, Creating
  <2>3. branchHead \in 0..MaxPush
    BY TriggerAssumption DEF TriggersInit
  <2>4. PollTypes
    BY <2>3 DEF TriggersInit, PollTypes, Heads
  <2> QED BY <2>1, <2>2, <2>4 DEF PushInv
<1>2. Inv /\ [TriggersNext]_triggerVars => Inv'
  <2> SUFFICES ASSUME Inv, [TriggersNext]_triggerVars PROVE Inv'
    OBVIOUS
  <2>1. CASE PushCommit
    <3>1. PushInv'
      BY <2>1, OthersKeepPermits DEF PushCommit, ledgerVars, PushInv, PushTypes
    <3>2. PollTypes'
      BY <2>1, TriggerAssumption DEF PushCommit, PollTypes, Heads
    <3> QED BY <3>1, <3>2
  <2>2. ASSUME NEW h \in Requests,
               \/ \E rev \in Revisions : DeliverPush(h, rev)
               \/ \E m \in Materials : FanOut(h, m)
               \/ CreatePushRun(h) \/ EndRequest(h)
        PROVE  Inv'
    <3>1. PushInv'
      BY <2>2, RequestKeepsPermits, FanOutKeepsPermits, CreateKeepsPermits
    <3>2. UNCHANGED <<branchHead, lastHead, poller>>
      BY <2>2 DEF DeliverPush, FanOut, CreatePushRun, EndRequest
    <3> QED BY <3>1, <3>2 DEF PollTypes
  <2>3. ASSUME NEW p \in Pollers, PollStep(p) PROVE Inv'
    <3>1. UNCHANGED <<branchHead, request, pushRuns>>
      BY <2>3 DEF PollStep, BeginTick, InsertPolled, CreatePollRun, RecordOutcome, EndTick,
         ResolveHead, ledgerVars
    <3>2. modifications \subseteq modifications' /\ modifications' \subseteq PushKeys
      <4>1. modifications \subseteq PushKeys
        BY DEF PushInv, PushTypes
      <4>2. CASE InsertPolled(p)
        BY <4>1, <4>2 DEF InsertPolled, Ticking, PollTypes
      <4>3. CASE UNCHANGED modifications
        BY <4>1, <4>3
      <4> QED BY <2>3, <4>2, <4>3 DEF PollStep, BeginTick, CreatePollRun, RecordOutcome, EndTick,
              ResolveHead, ledgerVars
    <3>3. PushInv'
      BY <3>1, <3>2, OthersKeepPermits
    <3>4. PollTypes'
      BY <2>3, PollKeepsTypes
    <3> QED BY <3>3, <3>4
  <2>4. CASE UNCHANGED triggerVars
    <3>1. PushInv'
      BY <2>4, OthersKeepPermits DEF triggerVars, PushInv, PushTypes
    <3> QED BY <2>4, <3>1 DEF triggerVars, PollTypes
  <2> QED BY <2>1, <2>2, <2>3, <2>4 DEF TriggersNext
<1> QED BY <1>1, <1>2, PTL DEF TriggersSteps

\* The same from the steps alone.
LEMMA PushesRunOnceBySteps == TriggersSteps => []PushRunsOnce
<1>1. PushInv /\ PollTypes => PushRunsOnce
  BY DEF PushInv, PushTypes, PushRunsOnce
<1> QED BY <1>1, PushInvariant, PTL

\* A push is at most one webhook run per material, however many replicas handle
\* however many deliveries of it, while pollers insert the same keys.
THEOREM PushesRunOnce == TriggersSpec => []PushRunsOnce
BY PushesRunOnceBySteps, PTL DEF TriggersSpec, TriggersSteps

-----------------------------------------------------------------------------
(* The gate of a serial pipeline                                           *)

\* While no two runs were past the gate at once, at most one run is past it;
\* a run that executes beside it, or beside another, lost the tick that would
\* have marked it.
SameRunInside ==
    \A s, o \in Schedulers : tick[s] # Idle /\ tick[o] # Idle => tick[s].run = tick[o].run
InsideAlone ==
    \A s \in Schedulers, r \in SerialRuns :
        tick[s] # Idle /\ Executing(r) => r = tick[s].run \/ Unmarked(r)
OneOut ==
    \A r, q \in SerialRuns :
        Executing(r) /\ Executing(q) => r = q \/ Unmarked(r) \/ Unmarked(q)
LiveIsOpen ==
    \A r \in SerialRuns, k \in Stages :
        sJob[r][k] \in {"queued", "out"} => sRun[r] \in {"queued", "running"}
TickNames ==
    \A s \in Schedulers : tick[s] = Idle
        \/ (tick[s].run \in SerialRuns /\ tick[s].at \in {"gated", "assigned"})

SerialShape == SerialTypeOK /\ TickNames /\ LiveIsOpen
GateHolds == SameRunInside /\ InsideAlone /\ OneOut

SerialInv ==
    /\ SerialShape
    /\ ~overlapped => GateHolds

\* Bounded counters step inside their bounds.
LEMMA SerialCounts ==
    ASSUME SerialTypeOK
    PROVE  /\ reopens < MaxReopens => reopens + 1 \in 0..MaxReopens
           /\ cancels < MaxSerialCancels => cancels + 1 \in 0..MaxSerialCancels
           /\ serialFaults < MaxSerialFaults => serialFaults + 1 \in 0..MaxSerialFaults
BY SerialAssumption DEF SerialTypeOK

\* A scheduler enters dispatchRun, or is thrown out of it: the rows stay.
LEMMA TickKeepsShape ==
    ASSUME SerialShape, NEW s \in Schedulers,
           \/ \E r \in SerialRuns : PassSerialGate(s, r) \/ PassFailedGate(s, r)
           \/ CutTickShort(s)
    PROVE  SerialShape'
<1>1. UNCHANGED <<sRun, sJob, reopened, reopens, cancels>>
  BY DEF PassSerialGate, PassFailedGate, CutTickShort
<1>2. serialFaults' \in 0..MaxSerialFaults
  BY SerialCounts DEF SerialShape, SerialTypeOK, PassSerialGate, PassFailedGate, CutTickShort
<1>3. overlapped' \in BOOLEAN
  BY DEF SerialShape, SerialTypeOK, PassSerialGate, PassFailedGate, CutTickShort
<1>4. \/ tick' = [tick EXCEPT ![s] = Idle]
      \/ \E r \in SerialRuns, k \in Stages :
            tick' = [tick EXCEPT ![s] = [run |-> r, stage |-> k, at |-> "gated"]]
  BY DEF PassSerialGate, PassFailedGate, CutTickShort
<1>5. 1 \in Stages
  BY SerialAssumption DEF Stages
<1>6. tick' \in [Schedulers -> [run : SerialRuns \cup {NoRun}, stage : Stages,
                                at : {"idle", "gated", "assigned"}]]
  BY <1>4, <1>5 DEF SerialShape, SerialTypeOK, Idle
<1>7. TickNames'
  BY <1>4 DEF SerialShape, SerialTypeOK, TickNames
<1>8. LiveIsOpen'
  BY <1>1 DEF SerialShape, LiveIsOpen
<1> QED BY <1>1, <1>2, <1>3, <1>6, <1>7, <1>8 DEF SerialShape, SerialTypeOK

\* A job that goes out was queued, in a run that is open.
LEMMA AssignKeepsShape ==
    ASSUME SerialShape, NEW s \in Schedulers, AssignSerialJob(s)
    PROVE  SerialShape'
<1>1. tick[s].run \in SerialRuns /\ tick[s].stage \in Stages /\ tick[s].at = "gated"
  BY DEF SerialShape, SerialTypeOK, TickNames, AssignSerialJob, Idle
<1>2. UNCHANGED <<sRun, overlapped, reopened, reopens, cancels, serialFaults>>
  BY DEF AssignSerialJob
<1>3. 1 \in Stages
  BY SerialAssumption DEF Stages
<1>4. CASE /\ sJob[tick[s].run][tick[s].stage] = "queued"
           /\ sJob' = [sJob EXCEPT ![tick[s].run][tick[s].stage] = "out"]
           /\ tick' = [tick EXCEPT ![s].at = "assigned"]
  <2>1. SerialTypeOK'
    BY <1>1, <1>2, <1>4 DEF SerialShape, SerialTypeOK
  <2>2. TickNames'
    BY <1>1, <1>4 DEF SerialShape, SerialTypeOK, TickNames
  <2>3. LiveIsOpen'
    BY <1>1, <1>2, <1>4 DEF SerialShape, SerialTypeOK, LiveIsOpen
  <2> QED BY <2>1, <2>2, <2>3 DEF SerialShape
<1>5. CASE tick' = [tick EXCEPT ![s] = Idle] /\ UNCHANGED sJob
  <2>1. SerialTypeOK'
    BY <1>2, <1>3, <1>5 DEF SerialShape, SerialTypeOK, Idle
  <2>2. TickNames' /\ LiveIsOpen'
    BY <1>2, <1>5 DEF SerialShape, SerialTypeOK, TickNames, LiveIsOpen
  <2> QED BY <2>1, <2>2 DEF SerialShape
<1> QED BY <1>4, <1>5 DEF AssignSerialJob

\* Marking a run does not close it.
LEMMA MarkKeepsShape ==
    ASSUME SerialShape, NEW s \in Schedulers, MarkRunRunning(s)
    PROVE  SerialShape'
<1>1. tick[s].run \in SerialRuns
  BY DEF SerialShape, TickNames, MarkRunRunning, Idle
<1>2. 1 \in Stages
  BY SerialAssumption DEF Stages
<1>3. SerialTypeOK'
  BY <1>1, <1>2 DEF SerialShape, SerialTypeOK, MarkRunRunning, Idle
<1>4. TickNames' /\ LiveIsOpen'
  BY <1>1 DEF SerialShape, SerialTypeOK, MarkRunRunning, TickNames, LiveIsOpen
<1> QED BY <1>3, <1>4 DEF SerialShape

\* A run closes when none of its jobs is queued or out.
LEMMA EndKeepsShape ==
    ASSUME SerialShape, NEW r \in SerialRuns, NEW k \in Stages,
           NEW st \in {"success", "failed"}, EndSerialJob(r, k, st)
    PROVE  SerialShape'
<1> DEFINE jobs == Ended(r, k, st)
<1>1. jobs \in [Stages -> {"queued", "out", "stopping", "closed", "dropped"}]
  BY DEF Ended, SerialShape, SerialTypeOK
<1>2. /\ sJob' = [sJob EXCEPT ![r] = jobs]
      /\ sRun' = [sRun EXCEPT ![r] =
            IF sRun[r] \in {"queued", "running"} /\ \A e \in Stages : jobs[e] \in {"closed", "dropped"}
            THEN "finished" ELSE sRun[r]]
      /\ UNCHANGED <<tick, overlapped, reopened, reopens, cancels, serialFaults>>
  BY DEF EndSerialJob
<1>3. \A e \in Stages : jobs[e] \in {"queued", "out"} => sJob[r][e] \in {"queued", "out"}
  BY DEF Ended
<1> HIDE DEF jobs
<1>4. SerialTypeOK'
  BY <1>1, <1>2 DEF SerialShape, SerialTypeOK
<1>5. TickNames'
  BY <1>2 DEF SerialShape, TickNames
<1>6. LiveIsOpen'
  BY <1>1, <1>2, <1>3 DEF SerialShape, SerialTypeOK, LiveIsOpen
<1> QED BY <1>4, <1>5, <1>6 DEF SerialShape

\* A cancel leaves nothing queued and nothing out that is not being stopped.
LEMMA CancelKeepsShape ==
    ASSUME SerialShape, NEW r \in SerialRuns, CancelSerialRun(r)
    PROVE  SerialShape'
<1> DEFINE jobs == [k \in Stages |-> CASE sJob[r][k] = "queued" -> "dropped"
                                       [] sJob[r][k] = "out" -> "stopping"
                                       [] OTHER -> sJob[r][k]]
<1>1. /\ jobs \in [Stages -> {"queued", "out", "stopping", "closed", "dropped"}]
      /\ \A k \in Stages : jobs[k] \notin {"queued", "out"}
  BY DEF SerialShape, SerialTypeOK
<1>2. /\ sJob' = [sJob EXCEPT ![r] = jobs]
      /\ sRun' = [sRun EXCEPT ![r] = "canceled"]
      /\ UNCHANGED <<tick, overlapped, reopened, reopens, serialFaults>>
  BY DEF CancelSerialRun
<1>3. cancels' \in 0..MaxSerialCancels
  BY SerialCounts DEF CancelSerialRun, SerialShape
<1> HIDE DEF jobs
<1>4. SerialTypeOK'
  BY <1>1, <1>2, <1>3 DEF SerialShape, SerialTypeOK
<1>5. TickNames' /\ LiveIsOpen'
  BY <1>1, <1>2 DEF SerialShape, SerialTypeOK, TickNames, LiveIsOpen
<1> QED BY <1>4, <1>5 DEF SerialShape

\* A rerun opens the run whose jobs it queues.
LEMMA ReopenKeepsShape ==
    ASSUME SerialShape, NEW r \in SerialRuns, NEW k \in Stages, ReopenRun(r, k)
    PROVE  SerialShape'
<1> DEFINE jobs == [e \in Stages |-> IF e = k \/ (e > k /\ sJob[r][e] = "dropped")
                                     THEN "queued" ELSE sJob[r][e]]
<1>1. jobs \in [Stages -> {"queued", "out", "stopping", "closed", "dropped"}]
  BY DEF SerialShape, SerialTypeOK
<1>2. /\ sJob' = [sJob EXCEPT ![r] = jobs]
      /\ sRun' = [sRun EXCEPT ![r] = IF sRun[r] \in {"finished", "canceled"} THEN "running" ELSE sRun[r]]
      /\ UNCHANGED <<tick, overlapped, cancels, serialFaults>>
  BY DEF ReopenRun
<1>3. reopens' \in 0..MaxReopens
  BY SerialCounts DEF ReopenRun, SerialShape
<1>4. reopened' \in BOOLEAN
  BY DEF ReopenRun, SerialShape, SerialTypeOK
<1> HIDE DEF jobs
<1>5. SerialTypeOK'
  BY <1>1, <1>2, <1>3, <1>4 DEF SerialShape, SerialTypeOK
<1>6. TickNames' /\ LiveIsOpen'
  BY <1>1, <1>2 DEF SerialShape, SerialTypeOK, TickNames, LiveIsOpen
<1> QED BY <1>5, <1>6 DEF SerialShape

\* A gate that finds no other run running, while nobody is past it for another
\* run, admits a run beside which whatever executes is unmarked: it reads
\* queued, and no tick of it is inside.
LEMMA GateAdmitsOne ==
    ASSUME SerialShape, GateHolds,
           NEW s \in Schedulers, NEW r \in SerialRuns, PassSerialGate(s, r), ~overlapped'
    PROVE  GateHolds'
<1>1. \A o \in Schedulers : tick[o] = Idle \/ tick[o].run = r
  BY SerialAssumption DEF PassSerialGate, SerialShape, TickNames
<1>2. PICK k \in Stages : tick' = [tick EXCEPT ![s] = [run |-> r, stage |-> k, at |-> "gated"]]
  BY DEF PassSerialGate
<1>3. UNCHANGED <<sRun, sJob>> /\ tick[s] = Idle
  BY DEF PassSerialGate
<1>4. tick'[s].run = r /\ tick'[s].at = "gated" /\ \A o \in Schedulers \ {s} : tick'[o] = tick[o]
  BY <1>2 DEF SerialShape, SerialTypeOK
<1>5. SameRunInside'
  BY <1>1, <1>4 DEF SameRunInside
<1>6. \A q \in SerialRuns : Executing(q)' = Executing(q)
  BY <1>3 DEF Executing
<1>7. \A q \in SerialRuns : Unmarked(q) => Unmarked(q)'
  BY <1>3, <1>4 DEF Unmarked
<1>8. \A q \in SerialRuns : Executing(q) /\ q # r => Unmarked(q)
  BY <1>1, SerialAssumption DEF PassSerialGate, SerialBusy, SerialShape, LiveIsOpen, Executing,
     Unmarked, Idle
<1>9. InsideAlone' /\ OneOut'
  BY <1>1, <1>4, <1>6, <1>7, <1>8 DEF InsideAlone, OneOut
<1> QED BY <1>5, <1>9 DEF GateHolds

\* A job goes out for the one run that is inside.
LEMMA AssignKeepsGate ==
    ASSUME SerialShape, GateHolds, NEW s \in Schedulers, AssignSerialJob(s)
    PROVE  GateHolds'
<1> DEFINE r == tick[s].run
<1>1. r \in SerialRuns /\ tick[s].stage \in Stages /\ tick[s].at = "gated" /\ tick[s] # Idle
  BY DEF SerialShape, SerialTypeOK, TickNames, AssignSerialJob, Idle
<1>2. UNCHANGED sRun /\ \A o \in Schedulers \ {s} : tick'[o] = tick[o]
  BY DEF AssignSerialJob, SerialShape, SerialTypeOK
<1>3. \/ tick'[s] = Idle /\ UNCHANGED sJob
      \/ /\ tick'[s].run = r /\ tick'[s].at = "assigned"
         /\ sJob' = [sJob EXCEPT ![r][tick[s].stage] = "out"]
  BY DEF AssignSerialJob, SerialShape, SerialTypeOK
<1> HIDE DEF r
<1>4. \A q \in SerialRuns : Executing(q)' => q = r \/ Executing(q)
  BY <1>1, <1>3 DEF SerialShape, SerialTypeOK, Executing
<1>5. \A q \in SerialRuns : Executing(q) => q = r \/ Unmarked(q)
  BY <1>1 DEF InsideAlone, GateHolds, r
<1>6. \A q \in SerialRuns : q # r /\ Unmarked(q) => Unmarked(q)'
  <2>1. tick'[s].at # "assigned" \/ tick'[s].run = r
    BY <1>3 DEF Idle
  <2> QED BY <1>2, <2>1 DEF Unmarked
<1>7. SameRunInside'
  BY <1>1, <1>2, <1>3 DEF SameRunInside, GateHolds, r
<1>8. \A o \in Schedulers : tick'[o] # Idle => tick'[o].run = r
  BY <1>1, <1>2, <1>3 DEF SameRunInside, GateHolds, r
<1>9. InsideAlone' /\ OneOut'
  BY <1>4, <1>5, <1>6, <1>8 DEF InsideAlone, OneOut
<1> QED BY <1>7, <1>9 DEF GateHolds

\* The tick ends when the run whose job it sent out reads running.
LEMMA MarkKeepsGate ==
    ASSUME SerialShape, GateHolds, NEW s \in Schedulers, MarkRunRunning(s)
    PROVE  GateHolds'
<1>1. tick[s].run \in SerialRuns /\ tick[s].at = "assigned" /\ tick[s] # Idle
  BY DEF SerialShape, TickNames, MarkRunRunning, Idle
<1>2. tick'[s] = Idle /\ UNCHANGED sJob /\ \A o \in Schedulers \ {s} : tick'[o] = tick[o]
  BY DEF MarkRunRunning, SerialShape, SerialTypeOK
<1>3. \A q \in SerialRuns \ {tick[s].run} : sRun'[q] = sRun[q]
  BY DEF MarkRunRunning, SerialShape, SerialTypeOK
<1>4. \A q \in SerialRuns : Unmarked(q) => Unmarked(q)'
  <2> SUFFICES ASSUME NEW q \in SerialRuns, Unmarked(q) PROVE Unmarked(q)'
    OBVIOUS
  <2>1. q # tick[s].run
    BY <1>1 DEF Unmarked
  <2>2. tick'[s].at # "assigned"
    BY <1>2 DEF Idle
  <2> QED BY <1>2, <1>3, <2>1, <2>2 DEF Unmarked
<1>5. \A q \in SerialRuns : Executing(q)' = Executing(q)
  BY <1>2 DEF Executing
<1>6. SameRunInside' /\ InsideAlone' /\ OneOut'
  BY <1>2, <1>4, <1>5 DEF SameRunInside, InsideAlone, OneOut, GateHolds
<1> QED BY <1>6 DEF GateHolds

\* A tick that is cut short leaves its run unmarked, if it executes and was not
\* running before; nothing else comes to execute.
LEMMA CutKeepsGate ==
    ASSUME SerialShape, GateHolds, NEW s \in Schedulers, CutTickShort(s)
    PROVE  GateHolds'
<1>1. tick'[s] = Idle /\ \A o \in Schedulers \ {s} : tick'[o] = tick[o]
  BY DEF CutTickShort, SerialShape, SerialTypeOK
<1>2. UNCHANGED <<sRun, sJob>>
  BY DEF CutTickShort
<1>3. \A q \in SerialRuns : Unmarked(q) => Unmarked(q)'
  BY <1>1, <1>2 DEF Unmarked, Idle
<1>4. \A q \in SerialRuns : Executing(q)' = Executing(q)
  BY <1>2 DEF Executing
<1>5. SameRunInside' /\ InsideAlone' /\ OneOut'
  BY <1>1, <1>3, <1>4 DEF SameRunInside, InsideAlone, OneOut, GateHolds
<1> QED BY <1>5 DEF GateHolds

\* A result, a cancel and a rerun send nothing out, and what goes on executing
\* reads as before.
LEMMA EndsKeepGate ==
    ASSUME SerialShape, GateHolds, UNCHANGED tick,
           \A q \in SerialRuns : Executing(q)' => Executing(q) /\ sRun'[q] = sRun[q]
    PROVE  GateHolds'
<1>1. \A q \in SerialRuns : Executing(q)' /\ Unmarked(q) => Unmarked(q)'
  BY DEF Unmarked
<1>2. SameRunInside' /\ InsideAlone' /\ OneOut'
  BY <1>1 DEF GateHolds, SameRunInside, InsideAlone, OneOut
<1> QED BY <1>2 DEF GateHolds

\* Which steps EndsKeepGate speaks of.
LEMMA EndsSendNothing ==
    ASSUME SerialShape, NEW r \in SerialRuns,
           \/ CancelSerialRun(r)
           \/ \E k \in Stages : \/ ReopenRun(r, k)
                                \/ \E st \in {"success", "failed"} : EndSerialJob(r, k, st)
    PROVE  /\ UNCHANGED tick
           /\ \A q \in SerialRuns : Executing(q)' => Executing(q) /\ sRun'[q] = sRun[q]
<1>1. CASE CancelSerialRun(r)
  <2>1. \A k \in Stages : sJob'[r][k] # "out"
    BY <1>1 DEF CancelSerialRun, SerialShape, SerialTypeOK
  <2>2. \A q \in SerialRuns \ {r} : sJob'[q] = sJob[q] /\ sRun'[q] = sRun[q]
    BY <1>1 DEF CancelSerialRun, SerialShape, SerialTypeOK
  <2> QED BY <1>1, <2>1, <2>2 DEF CancelSerialRun, Executing
<1>2. ASSUME NEW k \in Stages, ReopenRun(r, k)
      PROVE  /\ UNCHANGED tick
             /\ \A q \in SerialRuns : Executing(q)' => Executing(q) /\ sRun'[q] = sRun[q]
  <2>1. \A q \in SerialRuns \ {r} : sJob'[q] = sJob[q] /\ sRun'[q] = sRun[q]
    BY <1>2 DEF ReopenRun, SerialShape, SerialTypeOK
  <2>2. \A e \in Stages : sJob'[r][e] = "out" => sJob[r][e] = "out"
    BY <1>2 DEF ReopenRun, SerialShape, SerialTypeOK
  <2>3. sRun[r] \in {"queued", "running"} => sRun'[r] = sRun[r]
    BY <1>2 DEF ReopenRun, SerialShape, SerialTypeOK
  <2>4. UNCHANGED tick
    BY <1>2 DEF ReopenRun
  <2> QED BY <2>1, <2>2, <2>3, <2>4 DEF Executing, SerialShape, LiveIsOpen
<1>3. ASSUME NEW k \in Stages, NEW st \in {"success", "failed"}, EndSerialJob(r, k, st)
      PROVE  /\ UNCHANGED tick
             /\ \A q \in SerialRuns : Executing(q)' => Executing(q) /\ sRun'[q] = sRun[q]
  <2> DEFINE jobs == Ended(r, k, st)
  <2>1. sJob'[r] = jobs /\ \A q \in SerialRuns \ {r} : sJob'[q] = sJob[q] /\ sRun'[q] = sRun[q]
    BY <1>3 DEF EndSerialJob, SerialShape, SerialTypeOK
  <2>2. \A e \in Stages : jobs[e] = "out" => sJob[r][e] = "out"
    BY DEF Ended
  <2>3. (\E e \in Stages : jobs[e] = "out") => sRun'[r] = sRun[r]
    BY <1>3 DEF EndSerialJob, SerialShape, SerialTypeOK
  <2>4. UNCHANGED tick
    BY <1>3 DEF EndSerialJob
  <2> HIDE DEF jobs
  <2> QED BY <2>1, <2>2, <2>3, <2>4 DEF Executing
<1> QED BY <1>1, <1>2, <1>3

\* The steps of a serial pipeline, without fairness.
SerialSteps == SerialInit /\ [][SerialNext]_serialVars

\* Every step of a serial pipeline keeps SerialInv.
THEOREM SerialInvariant == SerialSteps => []SerialInv
<1>1. SerialInit => SerialInv
  <2> SUFFICES ASSUME SerialInit PROVE SerialInv
    OBVIOUS
  <2>1. SerialTypeOK
    <3>1. 1 \in Stages
      BY SerialAssumption DEF Stages
    <3>2. tick \in [Schedulers -> [run : SerialRuns \cup {NoRun}, stage : Stages,
                                   at : {"idle", "gated", "assigned"}]]
      BY <3>1 DEF SerialInit, Idle
    <3>3. overlapped \in BOOLEAN /\ reopened \in BOOLEAN
      BY Zenon DEF SerialInit
    <3>4. /\ sRun \in [SerialRuns -> {"queued", "running", "finished", "canceled"}]
          /\ sJob \in [SerialRuns -> [Stages -> {"queued", "out", "stopping", "closed", "dropped"}]]
      BY DEF SerialInit
    <3>5. /\ reopens \in 0..MaxReopens /\ cancels \in 0..MaxSerialCancels
          /\ serialFaults \in 0..MaxSerialFaults
      BY SerialAssumption DEF SerialInit
    <3> QED BY <3>2, <3>3, <3>4, <3>5, Zenon DEF SerialTypeOK
  <2>2. TickNames /\ LiveIsOpen
    BY DEF SerialInit, TickNames, LiveIsOpen
  <2>3. \A s \in Schedulers : tick[s] = Idle
    BY DEF SerialInit
  <2>4. \A r \in SerialRuns : ~Executing(r)
    BY DEF SerialInit, Executing
  <2>5. GateHolds
    BY <2>3, <2>4 DEF GateHolds, SameRunInside, InsideAlone, OneOut
  <2> QED BY <2>1, <2>2, <2>5 DEF SerialInv, SerialShape
<1>2. SerialInv /\ [SerialNext]_serialVars => SerialInv'
  <2> SUFFICES ASSUME SerialInv, [SerialNext]_serialVars PROVE SerialInv'
    OBVIOUS
  <2>1. ASSUME NEW s \in Schedulers, NEW r \in SerialRuns, PassSerialGate(s, r) PROVE SerialInv'
    <3>1. SerialShape'
      BY <2>1, TickKeepsShape DEF SerialInv
    <3>2. overlapped => overlapped'
      BY <2>1 DEF PassSerialGate
    <3> QED BY <2>1, <3>1, <3>2, GateAdmitsOne DEF SerialInv
  <2>2. ASSUME NEW s \in Schedulers, NEW r \in SerialRuns, PassFailedGate(s, r) PROVE SerialInv'
    <3>1. SerialShape'
      BY <2>2, TickKeepsShape DEF SerialInv
    <3>2. overlapped' = TRUE
      BY <2>2 DEF PassFailedGate
    <3> QED BY <3>1, <3>2 DEF SerialInv
  <2>3. ASSUME NEW s \in Schedulers, AssignSerialJob(s) PROVE SerialInv'
    <3>1. overlapped' = overlapped
      BY <2>3 DEF AssignSerialJob
    <3> QED BY <2>3, <3>1, AssignKeepsShape, AssignKeepsGate DEF SerialInv
  <2>4. ASSUME NEW s \in Schedulers, MarkRunRunning(s) PROVE SerialInv'
    <3>1. overlapped' = overlapped
      BY <2>4 DEF MarkRunRunning
    <3> QED BY <2>4, <3>1, MarkKeepsShape, MarkKeepsGate DEF SerialInv
  <2>5. ASSUME NEW s \in Schedulers, CutTickShort(s) PROVE SerialInv'
    <3>1. overlapped' = overlapped
      BY <2>5 DEF CutTickShort
    <3> QED BY <2>5, <3>1, TickKeepsShape, CutKeepsGate DEF SerialInv
  <2>6. ASSUME NEW r \in SerialRuns,
               \/ CancelSerialRun(r)
               \/ \E k \in Stages : \/ ReopenRun(r, k)
                                    \/ \E st \in {"success", "failed"} : EndSerialJob(r, k, st)
        PROVE  SerialInv'
    <3>1. SerialShape'
      BY <2>6, CancelKeepsShape, ReopenKeepsShape, EndKeepsShape DEF SerialInv
    <3>2. overlapped' = overlapped
      BY <2>6 DEF CancelSerialRun, ReopenRun, EndSerialJob
    <3>3. GateHolds => GateHolds'
      BY <2>6, EndsSendNothing, EndsKeepGate DEF SerialInv
    <3> QED BY <3>1, <3>2, <3>3 DEF SerialInv
  <2>7. CASE UNCHANGED serialVars
    <3>1. UNCHANGED <<sRun, sJob, tick, overlapped, reopened, reopens, cancels, serialFaults>>
      BY <2>7 DEF serialVars
    <3>2. SerialShape'
      BY <3>1 DEF SerialInv, SerialShape, SerialTypeOK, TickNames, LiveIsOpen
    <3>3. \A q \in SerialRuns : Executing(q)' = Executing(q)
      BY <3>1 DEF Executing
    <3>4. GateHolds => GateHolds'
      BY <3>1, <3>3, EndsKeepGate DEF SerialInv
    <3> QED BY <3>1, <3>2, <3>4 DEF SerialInv
  <2> QED BY <2>1, <2>2, <2>3, <2>4, <2>5, <2>6, <2>7 DEF SerialNext
<1> QED BY <1>1, <1>2, PTL DEF SerialSteps

\* The same from the steps alone.
LEMMA SerialAloneBySteps == SerialSteps => []OneAtATime
<1>1. SerialInv => OneAtATime
  BY DEF SerialInv, GateHolds, OneOut, OneAtATime
<1> QED BY <1>1, SerialInvariant, PTL

\* domain.ConcurrencySerial, "at most one run executes at a time", for any
\* number of runs, stages, replicas, reruns, cancels and faults: two runs execute
\* at once only when one lost the tick that marks it, or after two replicas were
\* past the gate together or a gate query failed.
THEOREM SerialRunsAlone == SerialSpec => []OneAtATime
BY SerialAloneBySteps, PTL DEF SerialSpec, SerialSteps


-----------------------------------------------------------------------------
(* Approval gates                                                          *)

GateTypes ==
    /\ gate \in [Waiting -> {"awaiting", "success", "failed", "canceled"}]
    /\ ballots \in [Waiting -> SUBSET Voters]
    /\ backers \in [Waiting -> SUBSET Voters]

\* The stored votes are those of this round: nothing else was ever kept.
VotesOfThisRound == ballots = backers

QuorumInv == GateTypes /\ VotesOfThisRound /\ QuorumSinceArmed

\* An approval counts the stored votes and itself; the gate it flips has them.
LEMMA ApproveKeepsQuorum ==
    ASSUME QuorumInv, NEW g \in Waiting, NEW u \in Voters, ApproveGate(u, g)
    PROVE  QuorumInv'
<1> DEFINE v == ballots[g] \cup {u}
<1>1. ballots' = [ballots EXCEPT ![g] = v] /\ backers' = [backers EXCEPT ![g] = v]
  BY DEF ApproveGate, QuorumInv, VotesOfThisRound, GateTypes
<1>2. v \in SUBSET Voters
  BY DEF QuorumInv, GateTypes
<1>3. gate' = [gate EXCEPT ![g] = IF Cardinality(v) >= Required[g] THEN "success" ELSE gate[g]]
      /\ gate[g] = "awaiting"
  BY DEF ApproveGate, Decidable
<1>0. UNCHANGED waved
  BY DEF ApproveGate
<1> HIDE DEF v
<1>4. GateTypes'
  BY <1>1, <1>2, <1>3 DEF QuorumInv, GateTypes
<1>5. VotesOfThisRound'
  BY <1>1 DEF QuorumInv, VotesOfThisRound
<1>6. ASSUME NEW h \in Waiting, gate'[h] = "success"
      PROVE  \/ Cardinality(backers'[h]) >= Required[h]
             \/ AuthDisabled /\ h \in waved'
  <2>1. CASE h = g
    BY <1>1, <1>3, <1>6, <2>1 DEF QuorumInv, GateTypes
  <2>2. CASE h # g
    <3>1. gate[h] = "success" /\ backers'[h] = backers[h]
      BY <1>1, <1>3, <1>6, <2>2 DEF QuorumInv, GateTypes
    <3> QED BY <1>0, <3>1 DEF QuorumInv, QuorumSinceArmed
  <2> QED BY <2>1, <2>2
<1> QED BY <1>4, <1>5, <1>6 DEF QuorumInv, QuorumSinceArmed

\* A request without a user passes the gate and nothing else.
LEMMA AnonymousKeepsQuorum ==
    ASSUME QuorumInv, NEW g \in Waiting, ApproveAnonymously(g)
    PROVE  QuorumInv'
<1>1. GateTypes' /\ VotesOfThisRound'
  BY DEF QuorumInv, GateTypes, VotesOfThisRound, ApproveAnonymously
<1>2. AuthDisabled /\ waved' = waved \cup {g} /\ UNCHANGED backers
  BY DEF ApproveAnonymously
<1>3. \A h \in Waiting \ {g} : gate'[h] = gate[h]
  BY DEF QuorumInv, GateTypes, ApproveAnonymously
<1> QED BY <1>1, <1>2, <1>3 DEF QuorumInv, QuorumSinceArmed

\* A re-armed gate starts from no vote at all.
LEMMA RearmKeepsQuorum ==
    ASSUME QuorumInv, NEW g \in Waiting, RearmGate(g)
    PROVE  QuorumInv'
<1>1. GateTypes'
  BY DEF QuorumInv, GateTypes, RearmGate
<1>2. VotesOfThisRound'
  BY DEF QuorumInv, VotesOfThisRound, RearmGate
<1>3. \A h \in Waiting : gate'[h] = "success" => gate[h] = "success" /\ backers'[h] = backers[h]
  BY DEF QuorumInv, GateTypes, RearmGate
<1>4. UNCHANGED waved
  BY DEF RearmGate
<1> QED BY <1>1, <1>2, <1>3, <1>4 DEF QuorumInv, QuorumSinceArmed

\* No other step touches a vote or opens a gate.
LEMMA OthersKeepQuorum ==
    ASSUME QuorumInv, UNCHANGED <<ballots, backers, waved>>,
           \/ UNCHANGED gate
           \/ \E g \in Waiting, st \in {"failed", "canceled"} : gate' = [gate EXCEPT ![g] = st]
           \/ \E k \in sweep.page : gate' = [gate EXCEPT ![k.id] = "canceled"]
    PROVE  QuorumInv'
<1>1. GateTypes'
  BY DEF QuorumInv, GateTypes
<1>2. \A h \in Waiting : gate'[h] = "success" => gate[h] = "success"
  BY DEF QuorumInv, GateTypes
<1> QED BY <1>1, <1>2 DEF QuorumInv, QuorumSinceArmed, VotesOfThisRound

\* The steps of the approval gates, without fairness.
ApprovalSteps == ApprovalInit /\ [][ApprovalNext]_approvalVars

\* The votes behind a gate, as an invariant of the approval gates.
THEOREM QuorumInvariant == ApprovalSteps => []QuorumInv
<1>1. ApprovalInit => QuorumInv
  <2> SUFFICES ASSUME ApprovalInit PROVE QuorumInv
    OBVIOUS
  <2>1. /\ gate = [g \in Waiting |-> "awaiting"]
        /\ ballots = [g \in Waiting |-> {}]
        /\ backers = [g \in Waiting |-> {}]
    BY DEF ApprovalInit
  <2> QED BY <2>1 DEF QuorumInv, GateTypes, VotesOfThisRound, QuorumSinceArmed
<1>2. QuorumInv /\ [ApprovalNext]_approvalVars => QuorumInv'
  <2> SUFFICES ASSUME QuorumInv, [ApprovalNext]_approvalVars PROVE QuorumInv'
    OBVIOUS
  <2>1. ASSUME NEW g \in Waiting, RejectWaiting(g) \/ CancelWaiting(g) \/ WindowElapses(g)
        PROVE  QuorumInv'
    BY <2>1, OthersKeepQuorum DEF RejectWaiting, CancelWaiting, EndGate, WindowElapses
  <2>2. ASSUME NEW e \in Held, \/ FreezeLock(e) \/ UnfreezeLock(e) \/ FreezeCommit(e)
                               \/ UnfreezeCommit(e) \/ FloorElapses(e)
        PROVE  QuorumInv'
    BY <2>2, OthersKeepQuorum DEF FreezeLock, UnfreezeLock, FreezeCommit, UnfreezeCommit,
       FloorElapses, gateVars
  <2>3. CASE SweepStep
    <3>1. UNCHANGED <<ballots, backers, waved>>
      <4>1. CASE SweepList
        BY <4>1 DEF SweepList, gateVars
      <4>2. CASE SweepEnds
        BY <4>2 DEF SweepEnds, gateVars
      <4>3. ASSUME NEW k \in sweep.page, SweepJudge(k) PROVE UNCHANGED <<ballots, backers, waved>>
        BY <4>3 DEF SweepJudge
      <4> QED BY <2>3, <4>1, <4>2, <4>3 DEF SweepStep
    <3>2. \/ UNCHANGED gate
          \/ \E k \in sweep.page : gate' = [gate EXCEPT ![k.id] = "canceled"]
      <4>1. CASE SweepList \/ SweepEnds
        BY <4>1 DEF SweepList, SweepEnds, gateVars
      <4>2. ASSUME NEW k \in sweep.page, SweepJudge(k)
            PROVE  UNCHANGED gate \/ gate' = [gate EXCEPT ![k.id] = "canceled"]
        BY <4>2 DEF SweepJudge
      <4> QED BY <2>3, <4>1, <4>2 DEF SweepStep
    <3> QED BY <3>1, <3>2, OthersKeepQuorum
  <2>4. CASE UNCHANGED approvalVars
    BY <2>4, OthersKeepQuorum DEF approvalVars
  <2> QED BY <2>1, <2>2, <2>3, <2>4, ApproveKeepsQuorum, AnonymousKeepsQuorum,
            RearmKeepsQuorum DEF ApprovalNext
<1> QED BY <1>1, <1>2, PTL DEF ApprovalSteps

\* A gate passes only on a full quorum of distinct users who voted since it was
\* last armed (decideGate, rerunJobTx), or, where auth is disabled, on a request
\* without a user: whatever gates, people, reruns, freezes and sweeps there are.
\* With auth on the second case is empty.
THEOREM QuorumsAreOfThisRound == ApprovalSpec => []QuorumSinceArmed
<1>1. QuorumInv => QuorumSinceArmed
  BY DEF QuorumInv
<1> QED BY <1>1, QuorumInvariant, PTL DEF ApprovalSpec, ApprovalSteps

\* What the expirer may cancel, from the steps alone.
LEMMA ExpiryIsFairBySteps == ApprovalSteps => ExpirySparesHeld
<1> DEFINE Spared ==
      \A g \in Waiting :
          gate[g] = "awaiting" /\ gate'[g] = "canceled" /\ sweep' # sweep =>
            /\ g \in aged /\ g \notin NeverExpires
            /\ EnvOf[g] \notin held \cup floor
            /\ freezing[EnvOf[g]] = NobodyHolds
<1>1. QuorumInv /\ [ApprovalNext]_approvalVars => [Spared]_approvalVars
  <2> SUFFICES ASSUME QuorumInv, ApprovalNext, NEW g \in Waiting,
                      gate[g] = "awaiting", gate'[g] = "canceled", sweep' # sweep
               PROVE  /\ g \in aged /\ g \notin NeverExpires
                      /\ EnvOf[g] \notin held \cup floor
                      /\ freezing[EnvOf[g]] = NobodyHolds
    OBVIOUS
  <2>1. SweepStep
    BY DEF ApprovalNext, RejectWaiting, CancelWaiting, EndGate, RearmGate, WindowElapses,
       ApproveGate, ApproveAnonymously, FreezeLock, UnfreezeLock, FreezeCommit, UnfreezeCommit, FloorElapses, sweepVars
  <2>2. PICK k \in sweep.page : SweepJudge(k)
    BY <2>1 DEF SweepStep, SweepList, SweepEnds, gateVars
  <2>3. k.id = g /\ k.id \notin NeverExpires /\ (k.id \in aged \/ since[k.id] # k.since)
        /\ Expirable(k)
    BY <2>2 DEF SweepJudge, QuorumInv, GateTypes
  <2> QED BY <2>3 DEF Expirable
<1> QED BY <1>1, QuorumInvariant, PTL DEF ApprovalSteps, ExpirySparesHeld

\* The expirer cancels only what is abandoned (Sweep, ExpireApprovalGate): the
\* candidate may be stale, and the guards of the stamp make up for it.
THEOREM ExpiryIsFair == ApprovalSpec => ExpirySparesHeld
BY ExpiryIsFairBySteps, PTL DEF ApprovalSpec, ApprovalSteps

-----------------------------------------------------------------------------
(* The gates of a canary                                                   *)

\* A set of people decides when it holds a quorum; a gate read earlier stays
\* decided, because the voters of a round are only ever added to.
Endorsed(b, i) == i \in DOMAIN b /\ Cardinality(b[i]) >= GateQuorum

RolloutGates ==
    [id : Nat, step : 1..Pauses, decision : {"none", "approved", "rejected"}, actioned : BOOLEAN]
Rows == [gate : RolloutGates \cup {NoGate}, abortActioned : BOOLEAN]
WatchVerdicts == {"cancel_abort", "finalize_failed", "finalize_success", "continue", "abort",
             "promote", "arm_gate", "clear_gate"}
Deciding == [at : {"decided", "patching", "marking"}, verdict : WatchVerdicts,
             on : RolloutGates \cup (1..Pauses) \cup {NoGate}]
WatcherStates == {Off} \cup [at : {"claimed"}, row : Rows] \cup Deciding

\* A gate as it was read: it was armed, and approved only by enough people.
Sound(b, g) ==
    g # NoGate => g.id \in DOMAIN b /\ (g.decision = "approved" => Endorsed(b, g.id))

\* What a watcher carries away from the row it claimed.
Backed(b, x) ==
    /\ x.at = "claimed" => Sound(b, x.row.gate)
    /\ x.at \in {"decided", "patching", "marking"} =>
         /\ x.verdict = "promote" => x.on \in RolloutGates /\ Endorsed(b, x.on.id)
         /\ x.verdict = "arm_gate" => x.on \in 1..Pauses

Canaries == [step : 1..(Pauses + 1), paused : BOOLEAN, aborted : BOOLEAN]

RolloutTypes ==
    /\ canary \in Canaries
    /\ canary.paused => canary.step <= Pauses
    /\ dWatch \in Rows
    /\ dClaim \in Watchers \cup {NoWatcher}
    /\ dResult \in {"in_progress", "success", "failed", "canceled"}
    /\ watcher \in [Watchers -> WatcherStates]

Rounds ==
    /\ backing \in Seq(SUBSET GateVoters)
    /\ \A g \in DOMAIN backing : IsFiniteSet(backing[g])

Approval(u) == [who |-> u, says |-> "approved"]
Approvals == {v \in gateVotes : v.says = "approved"}

\* The approvals in the table are those of the armed gate, one per person.
VotesOfThisGate ==
    IF dWatch.gate = NoGate THEN gateVotes = {}
    ELSE Approvals = {Approval(u) : u \in backing[dWatch.gate.id]}

RolloutInv ==
    /\ RolloutTypes /\ Rounds
    /\ Sound(backing, dWatch.gate) /\ VotesOfThisGate
    /\ \A w \in Watchers : Backed(backing, watcher[w])

\* Voters are only added: what was endorsed stays endorsed.
LEMMA EndorsementStays ==
    ASSUME Rounds, Rounds', DOMAIN backing \subseteq DOMAIN backing',
           \A i \in DOMAIN backing : backing[i] \subseteq backing'[i]
    PROVE  /\ \A i : Endorsed(backing, i) => Endorsed(backing', i)
           /\ \A g : Sound(backing, g) => Sound(backing', g)
           /\ \A x : Backed(backing, x) => Backed(backing', x)
<1>1. ASSUME NEW i, Endorsed(backing, i) PROVE Endorsed(backing', i)
  <2>1. i \in DOMAIN backing /\ i \in DOMAIN backing' /\ IsFiniteSet(backing'[i])
        /\ backing[i] \subseteq backing'[i]
    BY <1>1 DEF Endorsed, Rounds
  <2>2. IsFiniteSet(backing[i]) /\ Cardinality(backing[i]) <= Cardinality(backing'[i])
    BY <2>1, FS_Subset
  <2>3. Cardinality(backing[i]) \in Nat /\ Cardinality(backing'[i]) \in Nat
    BY <2>1, <2>2, FS_CardinalityType
  <2>4. GateQuorum \in Nat
    BY RolloutAssumption
  <2> QED BY <1>1, <2>1, <2>2, <2>3, <2>4 DEF Endorsed
<1>2. ASSUME NEW g, Sound(backing, g) PROVE Sound(backing', g)
  BY <1>1, <1>2 DEF Sound
<1>3. ASSUME NEW x, Backed(backing, x) PROVE Backed(backing', x)
  BY <1>1, <1>2, <1>3 DEF Backed
<1> QED BY <1>1, <1>2, <1>3

\* A quorum of approvals in the table is a quorum of people on this gate.
LEMMA CountedOnce ==
    ASSUME NEW S, IsFiniteSet(S)
    PROVE  /\ Cardinality({Approval(u) : u \in S}) <= Cardinality(S)
           /\ Cardinality({Approval(u) : u \in S}) \in Nat /\ Cardinality(S) \in Nat
<1> DEFINE T == {Approval(u) : u \in S}
           f == [u \in S |-> Approval(u)]
<1>1. f \in Surjection(S, T)
  BY DEF Surjection
<1> HIDE DEF f
<1>2. IsFiniteSet(T) /\ Cardinality(T) <= Cardinality(S)
  BY <1>1, FS_Surjection
<1> QED BY <1>2, FS_CardinalityType

\* Decide promotes only a gate that read approved, and arms only at a pause.
LEMMA DecideSays ==
    ASSUME NEW obs \in Observations, NEW row \in Rows
    PROVE  /\ Decide(obs, row) \in WatchVerdicts
           /\ Decide(obs, row) = "promote" => row.gate # NoGate /\ row.gate.decision = "approved"
           /\ Decide(obs, row) = "arm_gate" => canary.paused
<1>1. obs.canceled \in BOOLEAN
  BY DEF Observations
<1>2. CASE obs.canceled
  BY <1>2 DEF Decide, WatchVerdicts
<1>3. CASE ~obs.canceled /\ row.gate # NoGate /\ row.gate.decision = "rejected"
  BY <1>3 DEF Decide, WatchVerdicts
<1>4. CASE ~obs.canceled /\ ~(row.gate # NoGate /\ row.gate.decision = "rejected")
  BY <1>4 DEF Decide, WatchVerdicts
<1> QED BY <1>1, <1>2, <1>3, <1>4

\* The frame of a tick: one watcher moves, and what it carries is backed.
LEMMA WatcherMoves ==
    ASSUME RolloutInv, NEW w \in Watchers, NEW x \in WatcherStates,
           watcher' = [watcher EXCEPT ![w] = x], Backed(backing, x), UNCHANGED backing
    PROVE  /\ watcher' \in [Watchers -> WatcherStates]
           /\ \A o \in Watchers : Backed(backing', watcher'[o])
<1>1. watcher' \in [Watchers -> WatcherStates]
  BY DEF RolloutInv, RolloutTypes
<1>2. ASSUME NEW o \in Watchers PROVE Backed(backing, watcher'[o])
  <2>1. CASE o = w
    BY <2>1 DEF RolloutInv, RolloutTypes
  <2>2. CASE o # w
    <3>1. watcher'[o] = watcher[o]
      BY <2>2 DEF RolloutInv, RolloutTypes
    <3> QED BY <3>1 DEF RolloutInv
  <2> QED BY <2>1, <2>2
<1> QED BY <1>1, <1>2

\* What a watcher is while it decides, and what it is when it stops.
LEMMA WatcherShapes ==
    ASSUME RolloutInv, NEW w \in Watchers
    PROVE  /\ Off \in WatcherStates /\ Backed(backing, Off)
           /\ watcher[w].at = "claimed" => watcher[w].row \in Rows
                                           /\ Sound(backing, watcher[w].row.gate)
           /\ watcher[w].at \in {"decided", "patching", "marking"} => watcher[w] \in Deciding
<1>1. watcher[w] \in WatcherStates /\ Backed(backing, watcher[w])
  BY DEF RolloutInv, RolloutTypes
<1>2. Off.at = "off"
  BY DEF Off
<1>3. watcher[w].at = "claimed" => watcher[w].row \in Rows
  BY <1>1, <1>2 DEF WatcherStates, Deciding
<1>4. watcher[w].at \in {"decided", "patching", "marking"} => watcher[w] \in Deciding
  BY <1>1, <1>2 DEF WatcherStates
<1>5. Off \in WatcherStates /\ Backed(backing, Off)
  BY <1>2 DEF WatcherStates, Backed
<1> QED BY <1>1, <1>3, <1>4, <1>5 DEF Backed

\* A step that leaves the row, the votes and the rounds as they are.
LEMMA RowUntouched ==
    ASSUME RolloutInv, UNCHANGED <<dWatch, gateVotes, backing>>, RolloutTypes',
           \A o \in Watchers : Backed(backing', watcher'[o])
    PROVE  RolloutInv'
BY DEF RolloutInv, Rounds, VotesOfThisGate, Approvals

\* Both patches leave a canary that is paused at one of its pauses, or not at all.
LEMMA PatchesFit ==
    ASSUME NEW c \in Canaries, c.paused => c.step <= Pauses
    PROVE  /\ PatchPromote(c) \in Canaries /\ ~PatchPromote(c).paused
           /\ PatchAbort(c) \in Canaries /\ ~PatchAbort(c).paused
<1>1. c.step \in 1..(Pauses + 1) /\ Pauses \in Nat /\ c.paused \in BOOLEAN
  BY RolloutAssumption DEF Canaries
<1>2. CASE c.paused
  <2>1. c.step + 1 \in 1..(Pauses + 1)
    BY <1>1, <1>2
  <2>2. PatchPromote(c) = [c EXCEPT !.step = c.step + 1, !.paused = FALSE]
    BY <1>2 DEF PatchPromote
  <2>3. PatchPromote(c) \in Canaries /\ PatchPromote(c).paused = FALSE
    BY <2>1, <2>2 DEF Canaries
  <2> QED BY <2>3 DEF PatchAbort, Canaries
<1>3. CASE ~c.paused
  BY <1>3 DEF PatchPromote, PatchAbort, Canaries
<1> QED BY <1>2, <1>3

\* The canary, the clock and the leases.
LEMMA WorldKeepsRounds ==
    ASSUME RolloutInv,
           CanaryPauses \/ PromotedOutside \/ DeadlinePasses \/ RequestDeployCancel \/ LeaseRunsOut
           \/ UNCHANGED rolloutVars
    PROVE  RolloutInv'
<1>1. UNCHANGED <<dWatch, gateVotes, backing, dClaim, dResult, watcher>>
  BY DEF CanaryPauses, PromotedOutside, DeadlinePasses, RequestDeployCancel, LeaseRunsOut,
     rolloutVars
<1>2. canary' \in Canaries /\ (canary'.paused => canary'.step <= Pauses)
  <2>1. CASE UNCHANGED canary
    BY <2>1 DEF RolloutInv, RolloutTypes
  <2>2. CASE CanaryPauses
    BY <2>2 DEF CanaryPauses, RolloutInv, RolloutTypes, Canaries
  <2>3. CASE PromotedOutside
    BY <2>3, PatchesFit DEF PromotedOutside, RolloutInv, RolloutTypes
  <2> QED BY <2>1, <2>2, <2>3 DEF DeadlinePasses, RequestDeployCancel, LeaseRunsOut, rolloutVars
<1>3. RolloutTypes' /\ \A o \in Watchers : Backed(backing', watcher'[o])
  BY <1>1, <1>2 DEF RolloutInv, RolloutTypes
<1> QED BY <1>1, <1>3, RowUntouched

\* A vote: a person who has not voted joins the voters of the armed gate, and
\* the decision it may bring counts exactly those.
LEMMA VoteKeepsRounds ==
    ASSUME RolloutInv, NEW u \in GateVoters, NEW g \in DOMAIN backing,
           NEW says \in {"approved", "rejected"}, Vote(u, g, says)
    PROVE  RolloutInv'
<1>1. dWatch \in Rows /\ dWatch.gate # NoGate /\ dWatch.gate \in RolloutGates /\ dWatch.gate.id = g
  BY DEF Vote, VoteOpen, AwaitingHuman, RolloutInv, RolloutTypes, Rows
<1> DEFINE d == DecisionOf(gateVotes', says)
           new == [dWatch.gate EXCEPT !.decision = d]
<1>2. d \in {"none", "approved", "rejected"}
  BY DEF DecisionOf
<1>3. new \in RolloutGates /\ new.id = g /\ new.decision = d /\ new # NoGate
  <2>1. new \in RolloutGates /\ new.id = g /\ new.decision = d
    BY <1>1, <1>2 DEF RolloutGates
  <2>2. RolloutGates \subseteq [id : Nat, step : Nat, decision : {"none", "approved", "rejected"},
                                actioned : BOOLEAN]
    BY RolloutAssumption DEF RolloutGates
  <2> QED BY <2>1, <2>2, RolloutAssumption
<1>4. dWatch' = [dWatch EXCEPT !.gate = new]
  BY DEF Vote
<1>5. dWatch' \in Rows /\ dWatch'.gate = new
  BY <1>1, <1>3, <1>4 DEF Rows
<1> HIDE DEF new, d
<1>6. UNCHANGED <<canary, dClaim, dResult, watcher>>
  BY DEF Vote
<1>7. RolloutTypes'
  BY <1>5, <1>6 DEF RolloutInv, RolloutTypes
<1> DEFINE more == IF says = "approved" THEN backing[g] \cup {u} ELSE backing[g]
<1>8. backing' = [backing EXCEPT ![g] = more]
  <2>1. backing \in Seq(SUBSET GateVoters)
    BY DEF RolloutInv, Rounds
  <2>2. CASE says = "approved"
    BY <2>2 DEF Vote
  <2>3. CASE says # "approved"
    <3>1. backing = [backing EXCEPT ![g] = backing[g]]
      BY <2>1
    <3> QED BY <2>3, <3>1 DEF Vote
  <2> QED BY <2>2, <2>3
<1>9. more \in SUBSET GateVoters /\ backing[g] \subseteq more /\ IsFiniteSet(more)
  <2>1. backing[g] \in SUBSET GateVoters /\ IsFiniteSet(backing[g])
    BY DEF RolloutInv, Rounds
  <2> QED BY <2>1, FS_AddElement
<1> HIDE DEF more
<1>10. Rounds' /\ DOMAIN backing' = DOMAIN backing
       /\ \A i \in DOMAIN backing : backing[i] \subseteq backing'[i]
  <2>1. backing \in Seq(SUBSET GateVoters)
    BY DEF RolloutInv, Rounds
  <2>2. backing' \in Seq(SUBSET GateVoters) /\ DOMAIN backing' = DOMAIN backing
    BY <1>8, <1>9, <2>1
  <2>3. \A i \in DOMAIN backing : backing'[i] = IF i = g THEN more ELSE backing[i]
    BY <1>8, <2>1
  <2> QED BY <1>9, <2>2, <2>3 DEF RolloutInv, Rounds
<1>11. \A w \in Watchers : Backed(backing', watcher'[w])
  BY <1>6, <1>10, EndorsementStays DEF RolloutInv
<1>12. Approvals' = {Approval(v) : v \in backing'[g]}
  <2>1. Approvals = {Approval(v) : v \in backing[g]}
    BY <1>1 DEF RolloutInv, VotesOfThisGate
  <2>2. gateVotes' = gateVotes \cup {[who |-> u, says |-> says]}
    BY DEF Vote
  <2>3. backing'[g] = more
    BY <1>8 DEF RolloutInv, Rounds
  <2>4. CASE says = "approved"
    <3>1. Approvals' = Approvals \cup {Approval(u)}
      BY <2>2, <2>4 DEF Approvals, Approval
    <3>2. backing'[g] = backing[g] \cup {u}
      BY <2>3, <2>4 DEF more
    <3> QED BY <2>1, <3>1, <3>2
  <2>5. CASE says = "rejected"
    <3>1. Approvals' = Approvals
      BY <2>2, <2>5 DEF Approvals
    <3>2. backing'[g] = backing[g]
      BY <2>3, <2>5 DEF more
    <3> QED BY <2>1, <3>1, <3>2
  <2> QED BY <2>4, <2>5
<1>13. VotesOfThisGate'
  BY <1>3, <1>5, <1>12 DEF VotesOfThisGate
<1>14. Sound(backing', dWatch'.gate)
  <2>1. ASSUME d = "approved" PROVE Endorsed(backing', g)
    <3>1. Cardinality(Approvals') >= GateQuorum
      BY <2>1 DEF d, DecisionOf, Approvals
    <3>2. IsFiniteSet(backing'[g]) /\ g \in DOMAIN backing'
      BY <1>10 DEF Rounds
    <3>3. /\ Cardinality(Approvals') <= Cardinality(backing'[g])
          /\ Cardinality(Approvals') \in Nat /\ Cardinality(backing'[g]) \in Nat
      BY <1>12, <3>2, CountedOnce
    <3> QED BY <3>1, <3>2, <3>3, RolloutAssumption DEF Endorsed
  <2> QED BY <1>3, <1>5, <1>10, <2>1 DEF Sound
<1> QED BY <1>7, <1>10, <1>11, <1>13, <1>14 DEF RolloutInv

\* A tick that ends in Off, and one that moves on with the same verdict.
LEMMA StopsOrGoesOn ==
    ASSUME RolloutInv, NEW w \in Watchers, UNCHANGED backing,
           \/ watcher' = [watcher EXCEPT ![w] = Off]
           \/ /\ watcher[w].at \in {"decided", "patching", "marking"}
              /\ \E at \in {"decided", "patching", "marking"} : watcher' = [watcher EXCEPT ![w].at = at]
    PROVE  /\ watcher' \in [Watchers -> WatcherStates]
           /\ \A o \in Watchers : Backed(backing', watcher'[o])
<1>1. CASE watcher' = [watcher EXCEPT ![w] = Off]
  BY <1>1, WatcherShapes, WatcherMoves
<1>2. ASSUME watcher[w].at \in {"decided", "patching", "marking"},
             NEW at \in {"decided", "patching", "marking"}, watcher' = [watcher EXCEPT ![w].at = at]
      PROVE  /\ watcher' \in [Watchers -> WatcherStates]
             /\ \A o \in Watchers : Backed(backing', watcher'[o])
  <2> DEFINE x == [watcher[w] EXCEPT !.at = at]
  <2>1. watcher[w] \in Deciding
    BY <1>2, WatcherShapes
  <2>2. x \in Deciding /\ x.at = at /\ x.verdict = watcher[w].verdict /\ x.on = watcher[w].on
    BY <2>1 DEF Deciding
  <2>3. Backed(backing, watcher[w])
    BY DEF RolloutInv
  <2> HIDE DEF x
  <2>4. x \in WatcherStates /\ Backed(backing, x)
    BY <1>2, <2>2, <2>3 DEF WatcherStates, Backed
  <2>5. watcher' = [watcher EXCEPT ![w] = x]
    BY <1>2 DEF x
  <2> QED BY <2>4, <2>5, WatcherMoves
<1> QED BY <1>1, <1>2

\* Claiming copies the row; looking turns the copy into a verdict.
LEMMA LookKeepsRounds ==
    ASSUME RolloutInv, NEW w \in Watchers, ClaimWatch(w) \/ Look(w)
    PROVE  RolloutInv'
<1>1. UNCHANGED <<canary, dWatch, dResult, gateVotes, backing>>
  BY DEF ClaimWatch, Look
<1>2. dClaim' \in Watchers \cup {NoWatcher}
  BY DEF ClaimWatch, Look, RolloutInv, RolloutTypes
<1>3. watcher' \in [Watchers -> WatcherStates] /\ \A o \in Watchers : Backed(backing', watcher'[o])
  <2>1. CASE ClaimWatch(w)
    <3> DEFINE x == [at |-> "claimed", row |-> dWatch]
    <3>1. x \in WatcherStates
      BY DEF WatcherStates, RolloutInv, RolloutTypes
    <3>2. Backed(backing, x)
      BY DEF RolloutInv, Backed
    <3>3. watcher' = [watcher EXCEPT ![w] = x]
      BY <2>1 DEF ClaimWatch
    <3> HIDE DEF x
    <3> QED BY <1>1, <3>1, <3>2, <3>3, WatcherMoves
  <2>2. CASE Look(w)
    <3>1. CASE ~Claimed(w)
      BY <1>1, <2>2, <3>1, StopsOrGoesOn DEF Look
    <3>2. CASE Claimed(w)
      <4> DEFINE row == watcher[w].row
      <4>1. row \in Rows /\ Sound(backing, row.gate)
        BY <2>2, WatcherShapes DEF Look
      <4> DEFINE x(verdict) == [at |-> "decided", verdict |-> verdict,
                                on |-> CASE verdict = "promote" -> row.gate
                                         [] verdict = "arm_gate" -> canary.step
                                         [] OTHER -> NoGate]
      <4>2. PICK obs \in Observations :
              watcher' = [watcher EXCEPT ![w] = IF Decide(obs, row) = "continue" THEN Off
                                                ELSE x(Decide(obs, row))]
        BY <2>2, <3>2 DEF Look
      <4> DEFINE v == Decide(obs, row)
      <4>3. /\ v \in WatchVerdicts
            /\ v = "promote" => row.gate # NoGate /\ row.gate.decision = "approved"
            /\ v = "arm_gate" => canary.paused
        BY <4>1, DecideSays
      <4>4. watcher' = [watcher EXCEPT ![w] = IF v = "continue" THEN Off ELSE x(v)]
        BY <4>2
      <4> HIDE DEF v
      <4>5. v = "arm_gate" => canary.step \in 1..Pauses
        BY <4>3, RolloutAssumption DEF RolloutInv, RolloutTypes, Canaries
      <4>6. v = "promote" => row.gate \in RolloutGates /\ Endorsed(backing, row.gate.id)
        BY <4>1, <4>3 DEF Rows, Sound
      <4>7. x(v) \in Deciding
        <5>1. x(v).on \in RolloutGates \cup (1..Pauses) \cup {NoGate}
          BY <4>5, <4>6
        <5> QED BY <4>3, <5>1 DEF Deciding
      <4>8. Backed(backing, x(v))
        <5>1. x(v).at = "decided" /\ x(v).verdict = v
          OBVIOUS
        <5>2. CASE v = "promote"
          <6>1. x(v).on = row.gate
            BY <5>2
          <6> HIDE DEF x
          <6> QED BY <4>6, <5>1, <5>2, <6>1 DEF Backed
        <5>3. CASE v = "arm_gate"
          <6>1. x(v).on = canary.step
            BY <5>3
          <6> HIDE DEF x
          <6> QED BY <4>5, <5>1, <5>3, <6>1 DEF Backed
        <5>4. CASE v \notin {"promote", "arm_gate"}
          <6> HIDE DEF x
          <6> QED BY <5>1, <5>4 DEF Backed
        <5> QED BY <5>2, <5>3, <5>4
      <4> HIDE DEF x
      <4>9. CASE v = "continue"
        BY <1>1, <4>4, <4>9, StopsOrGoesOn
      <4>10. CASE v # "continue"
        <5>1. x(v) \in WatcherStates
          BY <4>7 DEF WatcherStates
        <5> QED BY <1>1, <4>4, <4>8, <4>10, <5>1, WatcherMoves
      <4> QED BY <4>9, <4>10
    <3> QED BY <3>1, <3>2
  <2> QED BY <2>1, <2>2
<1>4. RolloutTypes'
  BY <1>1, <1>2, <1>3 DEF RolloutInv, RolloutTypes
<1> QED BY <1>1, <1>3, <1>4, RowUntouched

\* The steps of a tick that leave the row alone; only they touch the canary.
LEMMA PatchKeepsRounds ==
    ASSUME RolloutInv, NEW w \in Watchers,
           FinalizeWatch(w) \/ RenewForPatch(w) \/ PatchCanary(w) \/ TickBreaksOff(w)
    PROVE  RolloutInv'
<1>1. UNCHANGED <<dWatch, gateVotes, backing, dClaim>>
  BY DEF FinalizeWatch, RenewForPatch, PatchCanary, TickBreaksOff
<1>2. watcher' \in [Watchers -> WatcherStates] /\ \A o \in Watchers : Backed(backing', watcher'[o])
  BY <1>1, StopsOrGoesOn DEF FinalizeWatch, RenewForPatch, PatchCanary, TickBreaksOff
<1>3. canary' \in Canaries /\ (canary'.paused => canary'.step <= Pauses)
  <2>1. CASE UNCHANGED canary
    BY <2>1 DEF RolloutInv, RolloutTypes
  <2>2. CASE PatchCanary(w)
    BY <2>2, PatchesFit DEF PatchCanary, RolloutInv, RolloutTypes
  <2> QED BY <2>1, <2>2 DEF FinalizeWatch, RenewForPatch, TickBreaksOff
<1>4. dResult' \in {"in_progress", "success", "failed", "canceled"}
  BY DEF FinalizeWatch, RenewForPatch, PatchCanary, TickBreaksOff, RolloutInv, RolloutTypes
<1>5. RolloutTypes'
  BY <1>1, <1>2, <1>3, <1>4 DEF RolloutInv, RolloutTypes
<1> QED BY <1>1, <1>2, <1>5, RowUntouched

\* A gate that is disarmed takes its votes with it.
LEMMA DisarmKeepsRounds ==
    ASSUME RolloutInv, UNCHANGED backing, RolloutTypes',
           \A o \in Watchers : Backed(backing', watcher'[o]),
           dWatch'.gate = NoGate, gateVotes' = {}
    PROVE  RolloutInv'
BY DEF RolloutInv, Rounds, VotesOfThisGate, Sound

\* Arming opens a round nobody has voted in; its number is new.
LEMMA ArmKeepsRounds ==
    ASSUME RolloutInv, NEW w \in Watchers, ApplyToRow(w), Claimed(w),
           watcher[w].verdict = "arm_gate", dWatch.gate = NoGate
    PROVE  RolloutInv'
<1> DEFINE n == Len(backing) + 1
           new == [id |-> n, step |-> watcher[w].on, decision |-> "none", actioned |-> FALSE]
<1>1. dWatch' = [dWatch EXCEPT !.gate = new] /\ backing' = Append(backing, {})
      /\ gateVotes' = gateVotes /\ watcher' = [watcher EXCEPT ![w] = Off]
      /\ UNCHANGED <<canary, dClaim, dResult>>
  BY DEF ApplyToRow, WriteRow
<1>2. watcher[w].on \in 1..Pauses
  BY DEF ApplyToRow, RolloutInv, Backed
<1>3. backing \in Seq(SUBSET GateVoters) /\ n \in Nat
  BY DEF RolloutInv, Rounds
<1>4. new \in RolloutGates /\ new.id = n /\ new.decision = "none"
  BY <1>2, <1>3 DEF RolloutGates
<1> HIDE DEF new
<1>5. dWatch' \in Rows /\ dWatch'.gate = new
  BY <1>1, <1>4 DEF RolloutInv, RolloutTypes, Rows
<1>6. /\ backing' \in Seq(SUBSET GateVoters)
      /\ DOMAIN backing' = DOMAIN backing \cup {n} /\ n \notin DOMAIN backing
      /\ backing'[n] = {} /\ \A i \in DOMAIN backing : backing'[i] = backing[i]
  BY <1>1, <1>3
<1> HIDE DEF n
<1>7. Rounds'
  BY <1>6, FS_EmptySet DEF Rounds, RolloutInv
<1>8. /\ \A g : Sound(backing, g) => Sound(backing', g)
      /\ \A x : Backed(backing, x) => Backed(backing', x)
  BY <1>6, <1>7, EndorsementStays DEF RolloutInv
<1>9. \A o \in Watchers : watcher'[o] = Off \/ watcher'[o] = watcher[o]
  BY <1>1 DEF RolloutInv, RolloutTypes
<1>10. \A o \in Watchers : Backed(backing', watcher'[o])
  BY <1>8, <1>9, WatcherShapes DEF RolloutInv
<1>11. RolloutTypes'
  <2>1. watcher' \in [Watchers -> WatcherStates]
    BY <1>1, WatcherShapes DEF RolloutInv, RolloutTypes
  <2> QED BY <1>1, <1>5, <2>1 DEF RolloutInv, RolloutTypes
<1>12. Sound(backing', dWatch'.gate)
  BY <1>4, <1>5, <1>6 DEF Sound
<1>13. gateVotes' = {} /\ Approvals' = {}
  BY <1>1 DEF RolloutInv, VotesOfThisGate, Approvals
<1>14. VotesOfThisGate'
  <2>1. Approvals' = {Approval(u) : u \in backing'[n]}
    BY <1>6, <1>13
  <2> QED BY <1>4, <1>5, <1>13, <2>1 DEF VotesOfThisGate
<1> QED BY <1>7, <1>10, <1>11, <1>12, <1>14 DEF RolloutInv

\* The writes of a tick to the row, fenced on its claim.
LEMMA WritesKeepRounds ==
    ASSUME RolloutInv, NEW w \in Watchers, ApplyToRow(w) \/ MarkPatched(w)
    PROVE  RolloutInv'
<1>1. UNCHANGED <<canary, dClaim, dResult>> /\ watcher' = [watcher EXCEPT ![w] = Off]
  BY DEF ApplyToRow, MarkPatched
<1>2. dWatch \in Rows
  BY DEF RolloutInv, RolloutTypes
<1>3. ASSUME UNCHANGED backing
      PROVE  watcher' \in [Watchers -> WatcherStates]
             /\ \A o \in Watchers : Backed(backing', watcher'[o])
  BY <1>1, <1>3, StopsOrGoesOn
<1>4. ASSUME UNCHANGED <<backing, gateVotes>>, dWatch' = dWatch PROVE RolloutInv'
  <2>1. RolloutTypes'
    BY <1>1, <1>3, <1>4 DEF RolloutInv, RolloutTypes
  <2> QED BY <1>3, <1>4, <2>1, RowUntouched
<1>5. ASSUME UNCHANGED backing, dWatch' \in Rows, dWatch'.gate = NoGate, gateVotes' = {}
      PROVE  RolloutInv'
  <2>1. RolloutTypes'
    BY <1>1, <1>3, <1>5 DEF RolloutInv, RolloutTypes
  <2> QED BY <1>3, <1>5, <2>1, DisarmKeepsRounds
<1>6. CASE ApplyToRow(w)
  <2>1. CASE ~Claimed(w)
    BY <1>4, <1>6, <2>1 DEF ApplyToRow
  <2>2. CASE Claimed(w) /\ watcher[w].verdict = "arm_gate" /\ dWatch.gate = NoGate
    BY <1>6, <2>2, ArmKeepsRounds
  <2>3. CASE Claimed(w) /\ watcher[w].verdict = "clear_gate" /\ dWatch.gate # NoGate
    <3>1. dWatch' = [dWatch EXCEPT !.gate = NoGate] /\ UNCHANGED backing /\ gateVotes' = {}
      BY <1>6, <2>3 DEF ApplyToRow, WriteRow, ClearedVotes
    <3>2. dWatch' \in Rows /\ dWatch'.gate = NoGate
      BY <1>2, <3>1 DEF Rows
    <3> QED BY <1>5, <3>1, <3>2
  <2>4. CASE Claimed(w) /\ ~(watcher[w].verdict = "arm_gate" /\ dWatch.gate = NoGate)
             /\ ~(watcher[w].verdict = "clear_gate" /\ dWatch.gate # NoGate)
    <3>1. UNCHANGED <<backing, gateVotes, dWatch>>
      BY <1>6, <2>4 DEF ApplyToRow, WriteRow
    <3> QED BY <1>4, <3>1
  <2> QED BY <2>1, <2>2, <2>3, <2>4
<1>7. CASE MarkPatched(w)
  <2>0. UNCHANGED backing
    BY <1>7 DEF MarkPatched
  <2>1. CASE ~Claimed(w)
    BY <1>4, <1>7, <2>0, <2>1 DEF MarkPatched
  <2>2. CASE Claimed(w) /\ watcher[w].verdict = "cancel_abort"
    <3>1. dWatch' = [dWatch EXCEPT !.abortActioned = TRUE, !.gate = NoGate] /\ gateVotes' = {}
      BY <1>7, <2>2 DEF MarkPatched
    <3>2. dWatch' \in Rows /\ dWatch'.gate = NoGate
      BY <1>2, <3>1 DEF Rows
    <3> QED BY <1>5, <2>0, <3>1, <3>2
  <2>3. CASE Claimed(w) /\ watcher[w].verdict # "cancel_abort" /\ dWatch.gate = NoGate
    BY <1>4, <1>7, <2>0, <2>3 DEF MarkPatched
  <2>4. CASE Claimed(w) /\ watcher[w].verdict # "cancel_abort" /\ dWatch.gate # NoGate
    <3> DEFINE new == [dWatch.gate EXCEPT !.actioned = TRUE]
    <3>1. dWatch' = [dWatch EXCEPT !.gate = new] /\ gateVotes' = gateVotes
      BY <1>7, <2>4 DEF MarkPatched
    <3>2. dWatch.gate \in RolloutGates
      BY <1>2, <2>4 DEF Rows
    <3>3. new \in RolloutGates /\ new.id = dWatch.gate.id /\ new.decision = dWatch.gate.decision
      BY <3>2 DEF RolloutGates
    <3> HIDE DEF new
    <3>4. dWatch' \in Rows /\ dWatch'.gate = new
      BY <1>2, <3>1, <3>3 DEF Rows
    <3>5. RolloutTypes'
      BY <1>1, <1>3, <2>0, <3>4 DEF RolloutInv, RolloutTypes
    <3>6. Sound(backing', dWatch'.gate)
      BY <2>0, <2>4, <3>3, <3>4 DEF RolloutInv, Sound
    <3>7. new # NoGate
      <4>1. RolloutGates \subseteq [id : Nat, step : Nat,
                                    decision : {"none", "approved", "rejected"}, actioned : BOOLEAN]
        BY RolloutAssumption DEF RolloutGates
      <4> QED BY <3>3, <4>1, RolloutAssumption
    <3>8. VotesOfThisGate' /\ Rounds'
      BY <2>0, <2>4, <3>1, <3>3, <3>4, <3>7 DEF RolloutInv, VotesOfThisGate, Approvals, Rounds
    <3> QED BY <1>3, <2>0, <3>5, <3>6, <3>8 DEF RolloutInv
  <2> QED BY <2>1, <2>2, <2>3, <2>4
<1> QED BY <1>6, <1>7

\* The steps of the watchers, without fairness.
RolloutSteps == RolloutInit /\ [][RolloutNext]_rolloutVars

\* The votes behind a canary's gates, as an invariant of the deploy watch.
THEOREM RolloutInvariant == RolloutSteps => []RolloutInv
<1>1. RolloutInit => RolloutInv
  <2> SUFFICES ASSUME RolloutInit PROVE RolloutInv
    OBVIOUS
  <2>1. canary \in Canaries /\ (canary.paused => canary.step <= Pauses)
    BY RolloutAssumption DEF RolloutInit, Canaries
  <2>2. dWatch \in Rows /\ dWatch.gate = NoGate
    BY DEF RolloutInit, Rows
  <2>3. watcher \in [Watchers -> WatcherStates] /\ \A w \in Watchers : Backed(backing, watcher[w])
    BY DEF RolloutInit, WatcherStates, Backed, Off
  <2>4. Rounds /\ gateVotes = {}
    BY DEF RolloutInit, Rounds
  <2>5. RolloutTypes
    BY <2>1, <2>2, <2>3 DEF RolloutInit, RolloutTypes
  <2> QED BY <2>2, <2>3, <2>4, <2>5 DEF RolloutInv, Sound, VotesOfThisGate
<1>2. RolloutInv /\ [RolloutNext]_rolloutVars => RolloutInv'
  BY WorldKeepsRounds, VoteKeepsRounds, LookKeepsRounds, PatchKeepsRounds, WritesKeepRounds
     DEF RolloutNext, TickStep
<1> QED BY <1>1, <1>2, PTL DEF RolloutSteps

\* What a promotion rests on, from the steps alone.
LEMMA PromotionsApprovedBySteps == RolloutSteps => PromoteIsApproved
<1> DEFINE Approved ==
      \A w \in Watchers :
          /\ watcher[w].at = "patching" /\ watcher[w].verdict = "promote"
          /\ canary'.step > canary.step
          /\ canary.step = watcher[w].on.step
          => Cardinality(backing[watcher[w].on.id]) >= GateQuorum
<1>1. RolloutInv => Approved
  BY DEF RolloutInv, Backed, Endorsed
<1> QED BY <1>1, RolloutInvariant, PTL DEF PromoteIsApproved

\* A watcher that moves the canary off the pause its gate was armed at has the
\* approvals of enough people who were looking at this very gate (DecideRolloutGate,
\* actuateGate), whatever watchers crash, overtake each other or repeat a patch.
THEOREM PromotionsAreApproved == RolloutSpec => PromoteIsApproved
BY PromotionsApprovedBySteps, PTL DEF RolloutSpec, RolloutSteps
==============================================================================
