---------------------------- MODULE JobContract ----------------------------
(***************************************************************************)
(* What one row of job_runs promises to everybody who looks at it, with    *)
(* the scheduler, agents, reaper, users, stages and runs left out: the     *)
(* moves its owner columns may make, whoever makes them.  The rows of a    *)
(* run move together (a cascade cancels many, a rerun revives many), so a  *)
(* step moves every row by one of the moves below.                         *)
(***************************************************************************)
EXTENDS Integers, TLAPS

CONSTANTS Jobs, Gates, RetryUnsafe, Native, Agents, NoAgent, MaxAttempts

\* What the proofs need of the constants.
ContractAssumption ==
    /\ Gates \subseteq Jobs /\ Native \cap Gates = {}
    /\ NoAgent \notin Agents /\ MaxAttempts \in Nat

VARIABLES
    status, agent, attempt, stamp,   \* the columns of job_runs
    held,      \* the row is claimed and the claim not yet handed over
    issued,    \* times the job was handed to an agent or taken over
    rearmed    \* human requests that queued the job again

contract == <<status, agent, attempt, stamp, held, issued, rearmed>>

Fresh(j) == IF j \in Gates THEN "awaiting_approval" ELSE "queued"

Init ==
    /\ status = [j \in Jobs |-> Fresh(j)]
    /\ agent = [j \in Jobs |-> NoAgent]
    /\ attempt = [j \in Jobs |-> 0]
    /\ stamp = [j \in Jobs |-> FALSE]
    /\ held = [j \in Jobs |-> FALSE]
    /\ issued = [j \in Jobs |-> 0]
    /\ rearmed = [j \in Jobs |-> 0]

\* A claim that is not handed over may be forgotten (the server crashes).
MayDropClaim(j) == held'[j] => held[j]
SameOwner(j) == agent'[j] = agent[j] /\ attempt'[j] = attempt[j]
SameCounts(j) == issued'[j] = issued[j] /\ rearmed'[j] = rearmed[j]

Stay(j) ==
    /\ status'[j] = status[j] /\ SameOwner(j) /\ stamp'[j] = stamp[j]
    /\ MayDropClaim(j) /\ SameCounts(j)

\* queued -> running, for one agent, under the attempt the row already has.
Claim(j) ==
    /\ status[j] = "queued" /\ status'[j] = "running"
    /\ agent'[j] \in Agents /\ attempt'[j] = attempt[j]
    /\ stamp'[j] = stamp[j] /\ SameCounts(j)

\* queued -> running without an agent: the server drives a native deploy itself.
TakeOver(j) ==
    /\ j \in Native
    /\ status[j] = "queued" /\ status'[j] = "running"
    /\ SameOwner(j) /\ stamp'[j] = stamp[j] /\ MayDropClaim(j)
    /\ issued'[j] = issued[j] + 1 /\ rearmed'[j] = rearmed[j]

\* The claim leaves for the agent, once.  The row may have moved on by then.
HandOver(j) ==
    /\ held[j] /\ ~held'[j]
    /\ status'[j] = status[j] /\ SameOwner(j) /\ stamp'[j] = stamp[j]
    /\ issued'[j] = issued[j] + 1 /\ rearmed'[j] = rearmed[j]

\* A claim nobody took is undone, unless the job was canceled meanwhile.
GiveBack(j) ==
    /\ held[j] /\ ~held'[j]
    /\ status[j] = "running" /\ ~stamp[j] /\ status'[j] = "queued"
    /\ agent'[j] = NoAgent /\ attempt'[j] = attempt[j] /\ stamp'[j] = stamp[j]
    /\ SameCounts(j)

Stamp(j) ==
    /\ status[j] = "running" /\ status'[j] = "running" /\ stamp'[j]
    /\ SameOwner(j) /\ MayDropClaim(j) /\ SameCounts(j)

\* A stamped running job ends canceled; only a queued job is skipped; a gate
\* is decided or canceled.
End(j) ==
    /\ status[j] \in {"queued", "running", "awaiting_approval"}
    /\ status'[j] \in {"success", "failed", "canceled", "skipped"}
    /\ status[j] = "running" /\ stamp[j] => status'[j] = "canceled"
    /\ status'[j] = "skipped" => status[j] = "queued"
    /\ SameOwner(j) /\ stamp'[j] = stamp[j] /\ MayDropClaim(j) /\ SameCounts(j)

\* An automatic retry: never of a canceled or retry-unsafe job, never past the cap.
Retry(j) ==
    /\ status[j] = "running" /\ ~stamp[j] /\ status'[j] = "queued"
    /\ j \notin RetryUnsafe /\ attempt[j] < MaxAttempts
    /\ agent'[j] = NoAgent /\ attempt'[j] = attempt[j] + 1 /\ ~stamp'[j]
    /\ MayDropClaim(j) /\ SameCounts(j)

\* A human request brings a finished row back.
Rearm(j) ==
    /\ status[j] \in {"success", "failed", "canceled", "skipped"}
    /\ status'[j] = Fresh(j)
    /\ agent'[j] = NoAgent /\ attempt'[j] \in {attempt[j], attempt[j] + 1} /\ ~stamp'[j]
    /\ MayDropClaim(j) /\ issued'[j] = issued[j] /\ rearmed'[j] = rearmed[j] + 1

Move(j) ==
    \/ Stay(j) \/ Claim(j) \/ TakeOver(j) \/ HandOver(j) \/ GiveBack(j)
    \/ Stamp(j) \/ End(j) \/ Retry(j) \/ Rearm(j)

Next == \A j \in Jobs : Move(j)

Spec == Init /\ [][Next]_contract

-----------------------------------------------------------------------------
(* What the moves add up to                                                *)

ContractType ==
    /\ attempt \in [Jobs -> Nat]
    /\ issued \in [Jobs -> Nat]
    /\ rearmed \in [Jobs -> Nat]

Owned ==
    \A j \in Jobs : /\ status[j] = "running" => agent[j] \in Agents \/ j \in Native
                    /\ status[j] = "queued" => agent[j] = NoAgent /\ ~stamp[j]

GatesParked ==
    \A g \in Gates : /\ status[g] \notin {"queued", "running", "skipped"}
                     /\ agent[g] = NoAgent /\ issued[g] = 0 /\ ~held[g]

OnlyGatesWait == \A j \in Jobs \ Gates : status[j] # "awaiting_approval"

\* What the row has been handed out for, what it may be handed out for next,
\* and what has been granted so far.
Spent(j) == issued[j] + (IF held[j] THEN 1 ELSE 0)
                      + (IF status[j] = "queued" THEN 1 ELSE 0)
Granted(j) == 1 + rearmed[j] + (IF j \in RetryUnsafe THEN 0
                                ELSE IF attempt[j] < MaxAttempts THEN attempt[j]
                                ELSE MaxAttempts)
Metered == \A j \in Jobs : Spent(j) <= Granted(j)

ContractInv == ContractType /\ Owned /\ GatesParked /\ OnlyGatesWait /\ Metered

-----------------------------------------------------------------------------
\* A freshly inserted row satisfies the contract invariant.
LEMMA ContractInit == ASSUME ContractAssumption, Init PROVE ContractInv
<1>1. ContractType
  BY DEF Init, ContractType
<1>2. Owned /\ GatesParked /\ OnlyGatesWait
  BY DEF ContractAssumption, Init, Owned, GatesParked, OnlyGatesWait, Fresh
<1>3. Metered
  <2> SUFFICES ASSUME NEW j \in Jobs PROVE Spent(j) <= Granted(j)
    BY DEF Metered
  <2>1. issued[j] = 0 /\ rearmed[j] = 0 /\ attempt[j] = 0 /\ ~held[j]
    BY DEF Init
  <2> QED BY <2>1 DEF ContractAssumption, Spent, Granted
<1> QED BY <1>1, <1>2, <1>3 DEF ContractInv

\* Every move of the contract keeps its invariant.
LEMMA ContractStep == ASSUME ContractAssumption, ContractInv, Next,
     attempt' \in [Jobs -> Nat], issued' \in [Jobs -> Nat], rearmed' \in [Jobs -> Nat]
     PROVE ContractInv'
<1>1. ContractType'
  BY DEF ContractType
<1>2. Owned'
  <2> SUFFICES ASSUME NEW j \in Jobs
      PROVE /\ status'[j] = "running" => agent'[j] \in Agents \/ j \in Native
            /\ status'[j] = "queued" => agent'[j] = NoAgent /\ ~stamp'[j]
    BY DEF Owned
  <2>1. Move(j)
    BY DEF Next
  <2> QED BY <2>1 DEF ContractAssumption, ContractInv, Owned, GatesParked, Move, Stay, Claim, TakeOver,
          HandOver, GiveBack, Stamp, End, Retry, Rearm, SameOwner, SameCounts, Fresh
<1>3. GatesParked'
  <2> SUFFICES ASSUME NEW g \in Gates
      PROVE /\ status'[g] \notin {"queued", "running", "skipped"}
            /\ agent'[g] = NoAgent /\ issued'[g] = 0 /\ ~held'[g]
    BY DEF GatesParked
  <2>1. Move(g)
    BY DEF Next, ContractAssumption
  <2> QED BY <2>1 DEF ContractAssumption, ContractInv, GatesParked, Move, Stay, Claim, TakeOver,
          HandOver, GiveBack, Stamp, End, Retry, Rearm, SameOwner, SameCounts, Fresh, MayDropClaim
<1>4. Metered'
  <2> SUFFICES ASSUME NEW j \in Jobs PROVE (Spent(j) <= Granted(j))'
    BY DEF Metered
  <2>1. Move(j)
    BY DEF Next
  <2>2. /\ attempt[j] \in Nat /\ issued[j] \in Nat /\ rearmed[j] \in Nat
        /\ attempt'[j] \in Nat /\ issued'[j] \in Nat /\ rearmed'[j] \in Nat
        /\ MaxAttempts \in Nat /\ Spent(j) <= Granted(j)
    BY DEF ContractInv, ContractType, Metered, ContractAssumption
  <2>3. CASE Stay(j) \/ Claim(j) \/ TakeOver(j) \/ HandOver(j) \/ GiveBack(j) \/ Stamp(j) \/ End(j)
    BY <2>2, <2>3 DEF Stay, Claim, TakeOver, HandOver, GiveBack, Stamp, End, SameOwner, SameCounts,
       MayDropClaim, Spent, Granted
  <2>4. CASE Retry(j)
    BY <2>2, <2>4 DEF Retry, SameCounts, MayDropClaim, Spent, Granted
  <2>5. CASE Rearm(j)
    BY <2>2, <2>5 DEF Rearm, MayDropClaim, Spent, Granted, Fresh
  <2> QED BY <2>1, <2>3, <2>4, <2>5 DEF Move
<1>5. OnlyGatesWait'
  <2> SUFFICES ASSUME NEW j \in Jobs \ Gates PROVE status'[j] # "awaiting_approval"
    BY DEF OnlyGatesWait
  <2>1. Move(j) /\ status[j] # "awaiting_approval"
    BY DEF Next, ContractInv, OnlyGatesWait
  <2> QED BY <2>1 DEF Move, Stay, Claim, TakeOver, HandOver, GiveBack, Stamp, End, Retry, Rearm, Fresh
<1> QED BY <1>1, <1>2, <1>3, <1>4, <1>5 DEF ContractInv
====
