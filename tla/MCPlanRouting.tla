---------------------------- MODULE MCPlanRouting ----------------------------
(* Three tasks in two phases; the second in name belongs to the later phase. *)
EXTENDS PlanRouting

MCPhaseOf == <<1, 2, 1>>
=============================================================================
