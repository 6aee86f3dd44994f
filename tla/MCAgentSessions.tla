-------------------------- MODULE MCAgentSessions --------------------------
(***************************************************************************)
(* Small instances of AgentSessions for TLC: one agent id and one to three *)
(* processes that run under it one after the other, or, where Overlap is   *)
(* TRUE, at the same time.                                                 *)
(***************************************************************************)
EXTENDS AgentSessions

OneProc == 1..1
TwoProcs == 1..2

\* Every process registers as the one agent there is.
SameAgent == [i \in Procs |-> CHOOSE a \in Agents : TRUE]
====
