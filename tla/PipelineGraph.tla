---------------------------- MODULE PipelineGraph ----------------------------
(***************************************************************************)
(* A run of a definition the parser accepted, one finished job at a time:  *)
(* what the operators of GateGraph compute from the definition alone is    *)
(* compared with what this execution shows.                                *)
(***************************************************************************)
EXTENDS GateGraph

CONSTANTS
    Definitions,   \* the definitions offered to the parser
    NoDefinition   \* nothing was accepted yet

ASSUME GraphAssumption ==
    /\ \A p \in Definitions : IsDefinition(p)
    /\ NoDefinition \notin Definitions

VARIABLES
    def,      \* the accepted definition
    passed    \* the jobs of its run that finished with success

graphVars == <<def, passed>>

GraphInit == def = NoDefinition /\ passed = {}

ParsePipeline(p) ==
    /\ Accepted(p)
    /\ def' = p
    /\ passed' = {}

\* What may finish next: the first stage that is not done, needs satisfied.
Reachable ==
    {j \in def.jobs \ passed :
        /\ \A k \in def.jobs : def.stage[k] < def.stage[j] => k \in passed
        /\ def.needs[j] \subseteq passed}

PassJob(j) ==
    /\ def # NoDefinition
    /\ j \in Reachable
    /\ passed' = passed \cup {j}
    /\ UNCHANGED def

\* The finished run makes room for another definition.
RetireDefinition ==
    /\ def # NoDefinition
    /\ passed = def.jobs
    /\ def' = NoDefinition
    /\ passed' = {}

GraphNext ==
    \/ def = NoDefinition /\ \E p \in Definitions : ParsePipeline(p)
    \/ def # NoDefinition /\ \E j \in def.jobs : PassJob(j)
    \/ RetireDefinition

GraphSpec == GraphInit /\ [][GraphNext]_graphVars

-----------------------------------------------------------------------------
(* Properties                                                              *)

\* A definition validateNeeds and validateNoCycles accepted never leaves the
\* dispatcher with unfinished jobs none of which may run.
AcceptedNeverStuck == def # NoDefinition /\ passed # def.jobs => Reachable # {}

\* Shadowing loses nothing: every gate a deploy or migration waits for either
\* governs it or must pass before a gate that does, so clearing the governing
\* gates in order clears them all.
GoverningGatesCover ==
    def # NoDefinition =>
        \A d \in TargetJobs(def) : \A g \in def.gates :
            Precedes(def, g, d) =>
                \E h \in GoverningGatesForJob(def, d) : h = g \/ Precedes(def, g, h)

\* At a stage boundary the scope computed from the definition is the one the
\* execution shows: the environments cleared by the gates that may now be
\* decided, which no finished gate clears instead.
ReadyScopeIsFrontier ==
    def # NoDefinition =>
        \A k \in 1..(def.stages - 1) :
            passed = {j \in def.jobs : def.stage[j] <= k} =>
                LET G == {g \in Reachable \cap def.gates : def.stage[g] = k + 1}
                IN ReadyGateEnvsAfterStage(def, k).envs = UNION {GovernedEnvs(def, g) : g \in G}

\* The three together: what the parser and the lane compute from a definition
\* is what its execution shows.
GraphSound == AcceptedNeverStuck /\ GoverningGatesCover /\ ReadyScopeIsFrontier
=============================================================================
