--------------------------- MODULE MCRunLifecycle ---------------------------
(* Small pipelines for TLC.  Stage ordinals are 1, 2, ...; a pipeline with   *)
(* notifications has them in the last one.                                  *)
EXTENDS RunLifecycle

\* build and test (needs build), then deploy (retry-unsafe), then a notification.
ShipJobs == {"build", "test", "deploy", "notify"}
ShipStages == 1..3
ShipStageOf == [j \in ShipJobs |-> CASE j \in {"build", "test"} -> 1
                                      [] j = "deploy" -> 2 [] OTHER -> 3]
ShipNeeds == [j \in ShipJobs |-> IF j = "test" THEN {"build"} ELSE {}]
ShipTrigger == [j \in ShipJobs |-> "success"]
ShipUnsafe == {"deploy"}

\* build, then an approval gate, then a retry-unsafe deploy.
ReleaseJobs == {"build", "approve", "deploy"}
ReleaseStages == 1..3
ReleaseStageOf == [j \in ReleaseJobs |-> CASE j = "build" -> 1
                                            [] j = "approve" -> 2 [] OTHER -> 3]
NoNeeds == [j \in Jobs |-> {}]
AnyTrigger == [j \in Jobs |-> "always"]

\* build and test (needs build), with an approval gate one stage later.
GatedStages == 1..2
GatedJobs == {"build", "test", "approve"}
GatedStageOf == [j \in GatedJobs |-> IF j = "approve" THEN 2 ELSE 1]
GatedNeeds == [j \in GatedJobs |-> IF j = "test" THEN {"build"} ELSE {}]

\* One job per stage.
ChainJobs == {"build", "test", "deploy"}
ChainStageOf == [j \in ChainJobs |-> CASE j = "build" -> 1 [] j = "test" -> 2 [] OTHER -> 3]
====
