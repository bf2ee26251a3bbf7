----------------------------- MODULE MCRunBinding -----------------------------
(***************************************************************************)
(* One run of RunBinding's world: two sessions, two versions of the agent, *)
(* two engines and two settings of the limits to resume it with.           *)
(***************************************************************************)
EXTENDS RunBinding

CONSTANTS v1, v2, onPlan, onStandard

MCConfig(s, d, e, l) == [spec |-> s, def |-> d, engine |-> e, limits |-> l]
MCConfigs == {MCConfig(v1, v1, onPlan, 1), MCConfig(v1, v1, onPlan, 2),
              MCConfig(v2, v2, onPlan, 1), MCConfig(v1, Nothing, onStandard, 1)}
=============================================================================
