------------------------------ MODULE MCPlanRun ------------------------------
(* Instances of PlanRun for TLC. *)
EXTENDS PlanRun

(* Steps a and c have tools; a revision may keep, drop, add or reorder steps. *)
MCPlans == {<<"a", "b">>, <<"b">>, <<"c", "a">>}
MCTools == {"a", "c"}
MCDirectives == {"fail", "replan", "repair", "other"}
MCModes == {"replan", "fail", "legacy_replan", "legacy_fail"}

MCOnePlan == {<<"b">>}
MCReplan == {"replan"}
=============================================================================
