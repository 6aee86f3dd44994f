------------------------------- MODULE Triggers -------------------------------
(***************************************************************************)
(* What starts runs of a branch from outside: webhook deliveries of pushes *)
(* and the poller.  They meet in the modifications table, whose unique key *)
(* (material, revision, branch) is the only thing two of them share.       *)
(*                                                                         *)
(* A push delivery inserts the modification and creates the run in two     *)
(* transactions, and creates it only when the insert was its own.  The     *)
(* poller uses the same two steps and creates the run in any case.  The    *)
(* provider delivers in any order, late, twice or never.                   *)
(***************************************************************************)
EXTENDS Naturals, FiniteSets

CONSTANTS
    Materials,        \* git materials of the branch, one per pipeline
    MaxPush,          \* bound: commits pushed to the branch
    Wanted,           \* per commit: the materials its event and path filters keep
    Requests,         \* webhook requests that may be in progress at a time
    Pollers,          \* poll tickers, one per server replica
    MaxTriggerFaults, \* bound: failing statements, lost servers
    Quiet             \* no request, no tick

ASSUME TriggerAssumption ==
    /\ MaxPush \in Nat /\ MaxTriggerFaults \in Nat
    /\ Wanted \in [1..MaxPush -> SUBSET Materials]
    /\ "insert" \notin Materials

Revisions == 1..MaxPush
PushKeys == Materials \X Revisions

VARIABLES
    branchHead,    \* the branch as the provider has it, 0 when empty
    modifications, \* the ledger, for this branch
    pushRuns,      \* runs with cause webhook, counted up to two
    pollRuns,      \* keys of the runs with cause poll
    request,       \* per request: Quiet, or what it has left to do
    lastHead,      \* material_poll_state.last_head_sha, 0 for NULL
    poller,        \* per ticker: Quiet, or where its tick is
    troubles

ledgerVars == <<modifications, pushRuns, pollRuns>>
triggerVars == <<branchHead, modifications, pushRuns, pollRuns, request, lastHead, poller,
                 troubles>>

TriggersInit ==
    /\ branchHead = 0
    /\ modifications = {}
    /\ pushRuns = [k \in PushKeys |-> 0]
    /\ pollRuns = {}
    /\ request = [h \in Requests |-> Quiet]
    /\ lastHead = [m \in Materials |-> 0]
    /\ poller = [p \in Pollers |-> Quiet]
    /\ troubles = 0

Trouble == troubles < MaxTriggerFaults /\ troubles' = troubles + 1

PushCommit ==
    /\ branchHead < MaxPush
    /\ branchHead' = branchHead + 1
    /\ UNCHANGED <<ledgerVars, request, lastHead, poller, troubles>>

(***************************************************************************)
(* Push deliveries.                                                        *)
(***************************************************************************)

\* HandleGitHub up to the fan-out: the materials that survive the filters.
\* Which commit the delivery is about is the provider's choice.
DeliverPush(h, rev) ==
    /\ request[h] = Quiet /\ rev <= branchHead
    /\ Wanted[rev] # {}
    /\ request' = [request EXCEPT ![h] = [rev |-> rev, left |-> Wanted[rev],
                                          at |-> "insert"]]
    /\ UNCHANGED <<branchHead, ledgerVars, lastHead, poller, troubles>>

SpawnsAnyway(created) == TRUE

\* fanOutMaterials: a modification that was there is a run somebody else owns.
DeliverySpawns(created) == created

\* One round of the loop of fanOutMaterials over material m.
FanOut(h, m) ==
    LET key == <<m, request[h].rev>>
        skip == [request EXCEPT ![h].left = @ \ {m}]
    IN /\ request[h] # Quiet /\ m \in request[h].left
       /\ request[h].at = "insert"
       /\ \/ /\ modifications' = modifications \cup {key}
             /\ request' = IF DeliverySpawns(key \notin modifications)
                           THEN [request EXCEPT ![h].at = m] ELSE skip
             /\ UNCHANGED troubles
          \/ Trouble /\ request' = skip /\ UNCHANGED modifications
       /\ UNCHANGED <<branchHead, pushRuns, pollRuns, lastHead, poller>>

\* CreateRunFromModification, which may also lose the race for the pipeline's
\* next counter; the modification stays either way.
CreatePushRun(h) ==
    LET m == request[h].at
        key == <<m, request[h].rev>>
    IN /\ request[h] # Quiet /\ m \in Materials
       /\ request' = [request EXCEPT ![h].at = "insert", ![h].left = @ \ {m}]
       /\ \/ /\ pushRuns' = [pushRuns EXCEPT ![key] = IF @ < 2 THEN @ + 1 ELSE @]
             /\ UNCHANGED troubles
          \/ Trouble /\ UNCHANGED pushRuns
       /\ UNCHANGED <<branchHead, modifications, pollRuns, lastHead, poller>>

\* The request is answered, or its server goes away in the middle of it.
EndRequest(h) ==
    /\ request[h] # Quiet
    /\ \/ request[h].left = {} /\ UNCHANGED troubles
       \/ Trouble
    /\ request' = [request EXCEPT ![h] = Quiet]
    /\ UNCHANGED <<branchHead, ledgerVars, lastHead, poller>>

(***************************************************************************)
(* The poller.  A tick lists the materials with their poll state and goes  *)
(* through them one by one.                                                *)
(* A tick stands for one at which every material is due.                   *)
(***************************************************************************)
Between(left, snap) == [at |-> "next", left |-> left, snap |-> snap]

BeginTick(p) ==
    /\ poller[p] = Quiet
    /\ poller' = [poller EXCEPT ![p] = Between(Materials, lastHead)]
    /\ UNCHANGED <<branchHead, ledgerVars, request, lastHead, troubles>>

Ticking(p, at) == poller[p] # Quiet /\ poller[p].at = at
ToNext(p) == [poller EXCEPT ![p] = Between(poller[p].left, poller[p].snap)]

\* pollOne asks the provider for HEAD and compares it with the listed state;
\* when the provider fails the listed state is what it will record.
ResolveHead(p, m) ==
    /\ Ticking(p, "next") /\ m \in poller[p].left
    /\ LET go(at, sha) == [at |-> at, mat |-> m, sha |-> sha, snap |-> poller[p].snap,
                           left |-> poller[p].left \ {m}]
       IN \/ /\ poller' = [poller EXCEPT ![p] =
                    IF branchHead = 0 \/ branchHead = poller[p].snap[m]
                    THEN go("record", poller[p].snap[m]) ELSE go("insert", branchHead)]
             /\ UNCHANGED troubles
          \/ Trouble /\ poller' = [poller EXCEPT ![p] = go("record", poller[p].snap[m])]
    /\ UNCHANGED <<branchHead, ledgerVars, request, lastHead>>

PollSpawnsOwn(created) == created

\* Whether or not the modification was there.
PollSpawns(created) == TRUE

InsertPolled(p) ==
    LET key == <<poller[p].mat, poller[p].sha>>
    IN /\ Ticking(p, "insert")
       /\ \/ /\ modifications' = modifications \cup {key}
             /\ poller' = [poller EXCEPT ![p].at = IF PollSpawns(key \notin modifications)
                                                   THEN "create" ELSE "record"]
             /\ UNCHANGED troubles
          \/ Trouble /\ poller' = ToNext(p) /\ UNCHANGED modifications
       /\ UNCHANGED <<branchHead, pushRuns, pollRuns, request, lastHead>>

CreatePollRun(p) ==
    /\ Ticking(p, "create")
    /\ \/ /\ pollRuns' = pollRuns \cup {<<poller[p].mat, poller[p].sha>>}
          /\ poller' = [poller EXCEPT ![p].at = "record"]
          /\ UNCHANGED troubles
       \/ Trouble /\ poller' = ToNext(p) /\ UNCHANGED pollRuns
    /\ UNCHANGED <<branchHead, modifications, pushRuns, request, lastHead>>

\* recordOutcome: an upsert of whatever head the tick has, NULL (0) when none
\* is known yet; a failure is logged.
RecordOutcome(p) ==
    /\ Ticking(p, "record")
    /\ poller' = ToNext(p)
    /\ \/ lastHead' = [lastHead EXCEPT ![poller[p].mat] = poller[p].sha] /\ UNCHANGED troubles
       \/ Trouble /\ UNCHANGED lastHead
    /\ UNCHANGED <<branchHead, ledgerVars, request>>

\* The tick is over, or its server goes away.
EndTick(p) ==
    /\ poller[p] # Quiet
    /\ \/ poller[p].at = "next" /\ poller[p].left = {} /\ UNCHANGED troubles
       \/ Trouble
    /\ poller' = [poller EXCEPT ![p] = Quiet]
    /\ UNCHANGED <<branchHead, ledgerVars, request, lastHead>>

PollStep(p) ==
    \/ BeginTick(p) \/ InsertPolled(p) \/ CreatePollRun(p) \/ RecordOutcome(p) \/ EndTick(p)
    \/ \E m \in Materials : ResolveHead(p, m)

TriggersNext ==
    \/ PushCommit
    \/ \E h \in Requests :
          \/ \E rev \in Revisions : DeliverPush(h, rev)
          \/ \E m \in Materials : FanOut(h, m)
          \/ CreatePushRun(h) \/ EndRequest(h)
    \/ \E p \in Pollers : PollStep(p)

\* The tickers keep ticking.  Nothing is asked of the provider.
TriggersFairness == \A p \in Pollers : WF_triggerVars(PollStep(p))

TriggersSpec == TriggersInit /\ [][TriggersNext]_triggerVars /\ TriggersFairness

-----------------------------------------------------------------------------
TriggersTypeOK ==
    /\ branchHead \in 0..MaxPush
    /\ modifications \subseteq PushKeys /\ pollRuns \subseteq PushKeys
    /\ pushRuns \in [PushKeys -> 0..2]
    /\ lastHead \in [Materials -> 0..MaxPush]
    /\ troubles \in 0..MaxTriggerFaults

\* However often and however concurrently a push is delivered, a material gets
\* at most one run of it from the webhook (fanOutMaterials and the unique key).
PushRunsOnce == \A k \in PushKeys : pushRuns[k] <= 1

\* Some run was created for the head of the branch.
HeadHasRun(m) ==
    \/ branchHead = 0
    \/ <<m, branchHead>> \in pollRuns
    \/ pushRuns[<<m, branchHead>>] > 0
=============================================================================
