--------------------------- MODULE MCOrchestrator ---------------------------
(***************************************************************************)
(* Plans and profiles for model-checking Orchestrator.  Each configuration *)
(* picks the plans that make its question interesting.                     *)
(***************************************************************************)
EXTENDS Orchestrator

Step(role, deps) == [role |-> role, profile |-> role, deps |-> deps]
Unknown(deps) == [role |-> "worker", profile |-> "nobody", deps |-> deps]

Pipeline == <<Step("worker", <<>>), Step("worker", <<1>>)>>
Pair == <<Step("worker", <<>>), Step("worker", <<>>)>>
Join == <<Step("worker", <<>>), Step("worker", <<>>), Step("worker", <<1, 2>>)>>
Fork == <<Step("worker", <<>>), Step("worker", <<1>>), Step("worker", <<1>>)>>
Review == <<Step("worker", <<>>), Step("reviewer", <<1>>)>>
Beside == <<Step("worker", <<>>), Step("worker", <<>>), Step("reviewer", <<1>>)>>
Unstaffed == <<Unknown(<<>>), Step("worker", <<1>>)>>

MCProfileNames == Roles \cup {"nobody"}
MCProfiles == {"planner", "worker", "reviewer"}

FaultPlans == {Pair, Pipeline}
CleanPlans == {Join, Fork, Beside, Unstaffed}
LivePlans == {Pipeline, Review}
=============================================================================
