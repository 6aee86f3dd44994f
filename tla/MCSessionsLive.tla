--------------------------- MODULE MCSessionsLive ---------------------------
(***************************************************************************)
(* Two settings of AgentSessions whose progress is checked together: two   *)
(* processes one after the other with a loss, and one process with a       *)
(* cancel, a rerun, a revival and a loss.  The initial state picks one.    *)
(* Sessions have room for two jobs, so that a job can be dispatched again  *)
(* before the slot of its last execution is free.                          *)
(***************************************************************************)
EXTENDS MCAgentSessions

InTurn == [claim |-> 2, cancel |-> 0, rerun |-> 0, revive |-> 0, stale |-> 0, loss |-> 1]
Single == [claim |-> 3, cancel |-> 1, rerun |-> 1, revive |-> 1, stale |-> 0, loss |-> 1]

LiveInit == Start(Procs, InTurn) \/ Start({1}, Single)

LiveSpec == LiveInit /\ [][Next]_vars /\ Fairness

-----------------------------------------------------------------------------
\* Where one process serves from the start to the end, a live session gets its
\* slot back once the job it was for has moved on (AgentSessions!SlotReturns).
SingleSlotReturns ==
    (pc = [i \in Procs |-> IF i = 1 THEN "new" ELSE "done"]) => SlotReturns
=============================================================================
