----------------------------- MODULE MergeGroups -----------------------------
(***************************************************************************)
(* One entry of GitHub's merge queue: checks_requested starts a run in     *)
(* every pipeline that listens, destroyed cancels them.  GitHub delivers   *)
(* both in any order, late and more than once.                             *)
(*                                                                         *)
(* A pipeline's modification and run are one transaction, and so are the   *)
(* tombstone and the cancel of the open runs; both take the advisory lock  *)
(* of the entry (fingerprint, head sha), so each is one step here.  The    *)
(* pending checks dispatchMergeGroup posts behind its fan-out change       *)
(* nothing on the server and are left out.                                 *)
(***************************************************************************)
EXTENDS Naturals, FiniteSets

CONSTANTS
    Listeners,        \* pipelines with a material that listens to merge groups
    Deliveries,       \* requests that may be in progress at a time
    MaxGroupFaults,   \* bound: failing transactions, lost servers
    NoDelivery

ASSUME MergeGroupAssumption == MaxGroupFaults \in Nat

VARIABLES
    groupRun,     \* per pipeline: its run of the group
    tombstone,    \* the merge_group_destroyed row is there
    checking,     \* per request: NoDelivery, or how far dispatchMergeGroup is
    groupFaults

groupVars == <<groupRun, tombstone, checking, groupFaults>>

GroupInit ==
    /\ groupRun = [m \in Listeners |-> "none"]
    /\ tombstone = FALSE
    /\ checking = [h \in Deliveries |-> NoDelivery]
    /\ groupFaults = 0

GroupFault == groupFaults < MaxGroupFaults /\ groupFaults' = groupFaults + 1

\* dispatchMergeGroup up to the fan-out: the tombstone is looked up once without
\* the lock.
RequestChecks(h) ==
    /\ checking[h] = NoDelivery /\ ~tombstone
    /\ checking' = [checking EXCEPT ![h] = [left |-> Listeners, raced |-> FALSE]]
    /\ UNCHANGED <<groupRun, tombstone, groupFaults>>

LookedUpBefore == FALSE

\* mergeGroupDestroyedQ inside the transaction, behind the lock.
GroupGone == tombstone

\* CreateOrFindMergeGroupRun for one pipeline: a replay finds the run there is.
CreateGroupRun(h, m) ==
    /\ checking[h] # NoDelivery /\ m \in checking[h].left
    /\ \/ /\ GroupGone
          /\ checking' = [checking EXCEPT ![h].left = @ \ {m}, ![h].raced = TRUE]
          /\ UNCHANGED <<groupRun, groupFaults>>
       \/ /\ ~GroupGone
          /\ groupRun' = IF groupRun[m] = "none" THEN [groupRun EXCEPT ![m] = "open"] ELSE groupRun
          /\ checking' = [checking EXCEPT ![h].left = @ \ {m}]
          /\ UNCHANGED groupFaults
       \/ /\ GroupFault
          /\ checking' = [checking EXCEPT ![h].left = @ \ {m}]
          /\ UNCHANGED groupRun
    /\ UNCHANGED tombstone

\* CancelMergeGroupRuns: the tombstone and every open run, in one transaction.
CancelOpen ==
    /\ groupRun' = [m \in Listeners |-> IF groupRun[m] = "open" THEN "canceled" ELSE groupRun[m]]
    /\ tombstone' = TRUE

\* A fan-out that met the tombstone cancels what it had created before.
EndChecks(h) ==
    /\ checking[h] # NoDelivery /\ checking[h].left = {}
    /\ checking' = [checking EXCEPT ![h] = NoDelivery]
    /\ \/ checking[h].raced /\ CancelOpen /\ UNCHANGED groupFaults
       \/ checking[h].raced /\ GroupFault /\ UNCHANGED <<groupRun, tombstone>>
       \/ ~checking[h].raced /\ UNCHANGED <<groupRun, tombstone, groupFaults>>

\* The server goes away in the middle of a request.
LoseDelivery(h) ==
    /\ checking[h] # NoDelivery
    /\ GroupFault
    /\ checking' = [checking EXCEPT ![h] = NoDelivery]
    /\ UNCHANGED <<groupRun, tombstone>>

\* The destroyed event.
DestroyGroup ==
    /\ CancelOpen
    /\ UNCHANGED <<checking, groupFaults>>

FinishGroupRun(m) ==
    /\ groupRun[m] = "open"
    /\ groupRun' = [groupRun EXCEPT ![m] = "finished"]
    /\ UNCHANGED <<tombstone, checking, groupFaults>>

GroupNext ==
    \/ DestroyGroup
    \/ \E h \in Deliveries :
          \/ RequestChecks(h) \/ EndChecks(h) \/ LoseDelivery(h)
          \/ \E m \in Listeners : CreateGroupRun(h, m)
    \/ \E m \in Listeners : FinishGroupRun(m)

GroupSpec == GroupInit /\ [][GroupNext]_groupVars

-----------------------------------------------------------------------------
GroupTypeOK ==
    /\ groupRun \in [Listeners -> {"none", "open", "finished", "canceled"}]
    /\ tombstone \in BOOLEAN
    /\ groupFaults \in 0..MaxGroupFaults

(***************************************************************************)
(* Once a merge group is destroyed none of its runs is open, also when the *)
(* event overtakes checks_requested, lands in the middle of its fan-out or *)
(* meets a second delivery of it (CreateOrFindMergeGroupRun and            *)
(* CancelMergeGroupRuns).  A run that somebody reruns afterwards is        *)
(* outside of this module.                                                 *)
(***************************************************************************)
DestroyedStaysClosed == tombstone => \A m \in Listeners : groupRun[m] # "open"
=============================================================================
