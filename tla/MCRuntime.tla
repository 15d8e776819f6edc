----------------------------- MODULE MCRuntime -----------------------------
(***************************************************************************)
(* PipelineRuntime on the plans the planner makes of the default static    *)
(* schedules.                                                              *)
(***************************************************************************)
EXTENDS PipelineRuntime, ExecutionPlanner

CONSTANTS Schedule,     \* the name of a static schedule
          EvalIters     \* the iterations that evaluate

MCPipeline == StaticPipeline(Schedule, NumDev, NumMb)
MCPlan == ExecutionPlan(MCPipeline)
MCProgram == LET plan == MCPlan IN plan
MCMode == [i \in 1 .. MaxIter |-> IF i \in EvalIters THEN "eval" ELSE "train"]
=============================================================================
