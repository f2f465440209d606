----------------------------- MODULE MCRecovery -----------------------------
(***************************************************************************)
(* Plans and profiles for model-checking Recovery.                         *)
(***************************************************************************)
EXTENDS Recovery

Step(role, deps) == [role |-> role, profile |-> role, deps |-> deps]

MCProfileNames == Roles
MCProfiles == Roles

ShortPlans == {<<Step("worker", <<>>), Step("worker", <<1>>)>>}
=============================================================================
