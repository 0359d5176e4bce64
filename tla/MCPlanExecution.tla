-------------------------- MODULE MCPlanExecution --------------------------
(* A plan that scales, and one that scales after a restart although it is  *)
(* listed before it.                                                       *)
EXTENDS PlanExecution, TLC

Independent == [s \in Step |-> {}]

MCOnePlan == {[list |-> <<1>>, depends |-> Independent]}

MCPlan ==
  MCOnePlan \union {[list |-> <<1, 2>>, depends |-> [Independent EXCEPT ![1] = {2}]]}

Symmetry == Permutations(Worker)
=============================================================================
