------------------------------ MODULE GateGraph ------------------------------
(***************************************************************************)
(* The pipeline definition as a graph: which needs: lists the parser       *)
(* accepts, and which approval gates govern a deploy to which environment. *)
(*                                                                         *)
(* A definition is a record                                                *)
(*   jobs    its job names             stages  the number of stages        *)
(*   stage   the ordinal of a job      needs   the jobs it lists           *)
(*   gates   the jobs with approval:                                       *)
(*   deploy  job -> deploy.environment or NoEnv                            *)
(*   target  job -> TargetEnvironment (deploy: or environment:) or NoEnv   *)
(* Every operator is a function of the definition; PipelineGraph executes  *)
(* accepted definitions as the reference they are compared with.           *)
(***************************************************************************)
EXTENDS Integers, FiniteSets

CONSTANT NoEnv   \* a job that targets no environment

\* toJob refuses a gate that declares deploy: or environment:.
GatesTargetNothing(p) == \A g \in p.gates : p.deploy[g] = NoEnv /\ p.target[g] = NoEnv

\* What the parser builds from a file: finitely many jobs, each in a declared
\* stage.
IsDefinition(p) ==
    /\ IsFiniteSet(p.jobs) /\ p.gates \subseteq p.jobs /\ GatesTargetNothing(p)
    /\ p.stages \in Nat /\ p.stage \in [p.jobs -> 1..p.stages]

-----------------------------------------------------------------------------
(* The must-pass-before order                                              *)

\* transitivelyNeeds: everything reachable from j along needs:, by the number
\* of jobs in between.
NeedsWithin(p, j) ==
    LET reach[n \in Nat] ==
            IF n = 0 THEN p.needs[j]
            ELSE reach[n - 1] \cup UNION {p.needs[k] : k \in reach[n - 1] \cap p.jobs}
    IN reach

NeedsClosure(p, j) == NeedsWithin(p, j)[Cardinality(p.jobs)]

Precedes(p, a, b) == p.stage[a] < p.stage[b] \/ a \in NeedsClosure(p, b)

\* Mutant of GoverningGatesForJob: the farthest gate is kept, not the closest.
GoverningGatesFarthest(p, d) ==
    LET waits == {g \in p.gates : Precedes(p, g, d)}
    IN {g \in waits : \A h \in waits \ {g} : ~Precedes(p, h, g)}

\* governingGatesForJob: the gates d waits for that no closer one shadows.
GoverningGatesForJob(p, d) ==
    LET waits == {g \in p.gates : Precedes(p, g, d)}
    IN {g \in waits : \A h \in waits \ {g} : ~Precedes(p, g, h)}

DeployJobs(p) == {d \in p.jobs : p.deploy[d] # NoEnv}
TargetJobs(p) == {d \in p.jobs : p.target[d] # NoEnv}

\* The environments whose deploys (GovernedEnvs) or whose deploys and
\* migrations (GovernedFreezeEnvs) gate g clears.
GovernedEnvs(p, g) ==
    {p.deploy[d] : d \in {e \in DeployJobs(p) : g \in GoverningGatesForJob(p, e)}}
GovernedFreezeEnvs(p, g) ==
    {p.target[d] : d \in {e \in TargetJobs(p) : g \in GoverningGatesForJob(p, e)}}

\* The gates a run must pass before it is cleared to deploy to env.
GoverningGates(p, env) ==
    UNION {GoverningGatesForJob(p, d) : d \in {e \in DeployJobs(p) : p.deploy[e] = env}}

HasGovernedDeploy(p) == DeployJobs(p) # {}

\* Every direct need of g lies in a stage that is finished.
GateNeedsSatisfied(p, g, done) ==
    \A n \in p.needs[g] : n \in p.jobs /\ p.stage[n] <= done

\* What the supersede fire of a newly ready set of gates is about: the deploys
\* they clear.  A gate that clears none fires only in a pipeline that deploys
\* nothing, and then for the whole run.
ReadyScope(p, G) ==
    LET envs == UNION {GovernedEnvs(p, g) : g \in G}
    IN [ready |-> G # {} /\ (envs # {} \/ ~HasGovernedDeploy(p)), envs |-> envs]

ReadyGateEnvsAtStart(p) ==
    ReadyScope(p, {g \in p.gates : p.stages > 0 /\ p.stage[g] = 1 /\ p.needs[g] = {}})

ReadyGateEnvsAfterStage(p, done) ==
    IF done + 1 <= 1 \/ done + 1 > p.stages
    THEN [ready |-> FALSE, envs |-> {}]
    ELSE ReadyScope(p, {g \in p.gates : p.stage[g] = done + 1
                                        /\ GateNeedsSatisfied(p, g, done)})

-----------------------------------------------------------------------------
(* What the parser accepts                                                 *)

\* validateNeeds: no self-reference, no unknown job, no later stage.
ValidateNeeds(p) ==
    \A j \in p.jobs : \A n \in p.needs[j] :
        n # j /\ n \in p.jobs /\ p.stage[n] <= p.stage[j]

ValidateNoCycles(p) == \A j \in p.jobs : j \notin NeedsClosure(p, j)

Accepted(p) == ValidateNeeds(p) /\ ValidateNoCycles(p)
=============================================================================
