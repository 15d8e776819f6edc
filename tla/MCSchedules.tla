---------------------------- MODULE MCSchedules -----------------------------
(***************************************************************************)
(* PipelineRuntime on more of the default static schedules, one after the  *)
(* other: 1F1B with an evaluation between two training iterations, 1F1B on *)
(* four ranks, where all process groups are in use and ranks run far apart,*)
(* ZBH1 with its weight gradients lagging behind, Interleaved1F1B without  *)
(* overlapped reductions, and ZBV at the largest size its receives are in  *)
(* order.                                                                  *)
(***************************************************************************)
EXTENDS ExecutionPlanner, FiniteSets

CONSTANTS Program1F1B, Program1F1BWide, ProgramZBH1, ProgramInterleaved, ProgramZBV   \* the plans

VARIABLES schedule, iteration, pc, chan, send_reqs, recv_reqs, input_tensors,
          output_tensors, output_tensor_grads, input_tensor_grads,
          wgrad_blocks, no_sync, main_grad, reductions, grad_reduce_handle

Plan1F1B == ExecutionPlan(StaticPipeline("1F1B", 2, 4))
Plan1F1BWide == ExecutionPlan(StaticPipeline("1F1B", 4, 3))
PlanZBH1 == ExecutionPlan(StaticPipeline("ZBH1", 2, 4))
PlanInterleaved == ExecutionPlan(StaticPipeline("Interleaved1F1B", 2, 4))
PlanZBV == ExecutionPlan(StaticPipeline("ZBV", 2, 2))

MC1F1B == LET plan == Plan1F1B IN plan
MC1F1BWide == LET plan == Plan1F1BWide IN plan
MCZBH1 == LET plan == PlanZBH1 IN plan
MCInterleaved == LET plan == PlanInterleaved IN plan
MCZBV == LET plan == PlanZBV IN plan

OneFOneBRun == INSTANCE PipelineRuntime WITH
    NumDev <- 2, NumMb <- 4, NumChunks <- 1, Template <- "loop", Program <- Program1F1B,
    MaxIter <- 3, Mode <- <<"train", "eval", "train">>, EvalMb <- 2, OverlapGradReduce <- TRUE
WideRun == INSTANCE PipelineRuntime WITH
    NumDev <- 4, NumMb <- 3, NumChunks <- 1, Template <- "loop", Program <- Program1F1BWide,
    MaxIter <- 1, Mode <- <<"train">>, EvalMb <- 3, OverlapGradReduce <- TRUE
ZBH1Run == INSTANCE PipelineRuntime WITH
    NumDev <- 2, NumMb <- 4, NumChunks <- 1, Template <- "loop", Program <- ProgramZBH1,
    MaxIter <- 2, Mode <- <<"train", "train">>, EvalMb <- 2, OverlapGradReduce <- TRUE
InterleavedRun == INSTANCE PipelineRuntime WITH
    NumDev <- 2, NumMb <- 4, NumChunks <- 2, Template <- "loop", Program <- ProgramInterleaved,
    MaxIter <- 2, Mode <- <<"train", "train">>, EvalMb <- 2, OverlapGradReduce <- FALSE
ZBVRun == INSTANCE PipelineRuntime WITH
    NumDev <- 2, NumMb <- 2, NumChunks <- 2, Template <- "wave", Program <- ProgramZBV,
    MaxIter <- 2, Mode <- <<"train", "train">>, EvalMb <- 2, OverlapGradReduce <- TRUE

vars == <<schedule, iteration, pc, chan, send_reqs, recv_reqs, input_tensors,
          output_tensors, output_tensor_grads, input_tensor_grads,
          wgrad_blocks, no_sync, main_grad, reductions, grad_reduce_handle>>

Init == \/ schedule = "1F1B" /\ OneFOneBRun!Init
        \/ schedule = "1F1B wide" /\ WideRun!Init
        \/ schedule = "ZBH1" /\ ZBH1Run!Init
        \/ schedule = "Interleaved1F1B" /\ InterleavedRun!Init
        \/ schedule = "ZBV" /\ ZBVRun!Init

Finished == \/ schedule = "1F1B" /\ OneFOneBRun!Finished
            \/ schedule = "1F1B wide" /\ WideRun!Finished
            \/ schedule = "ZBH1" /\ ZBH1Run!Finished
            \/ schedule = "Interleaved1F1B" /\ InterleavedRun!Finished
            \/ schedule = "ZBV" /\ ZBVRun!Finished

Step(d) ==
    /\ UNCHANGED schedule
    /\ \/ schedule = "1F1B" /\ d < 2 /\ OneFOneBRun!Step(d)
       \/ schedule = "1F1B wide" /\ WideRun!Step(d)
       \/ schedule = "ZBH1" /\ d < 2 /\ ZBH1Run!Step(d)
       \/ schedule = "Interleaved1F1B" /\ d < 2 /\ InterleavedRun!Step(d)
       \/ schedule = "ZBV" /\ d < 2 /\ ZBVRun!Step(d)

Next == (\E d \in 0 .. 3 : Step(d)) \/ (Finished /\ UNCHANGED vars)

Spec == Init /\ [][Next]_vars /\ \A d \in 0 .. 3 : WF_vars(Step(d))

-----------------------------------------------------------------------------
RightTensors ==
    CASE schedule = "1F1B" -> OneFOneBRun!RightTensors
      [] schedule = "1F1B wide" -> WideRun!RightTensors
      [] schedule = "ZBH1" -> ZBH1Run!RightTensors
      [] schedule = "Interleaved1F1B" -> InterleavedRun!RightTensors
      [] schedule = "ZBV" -> ZBVRun!RightTensors

ReducedOnce ==
    CASE schedule = "1F1B" -> OneFOneBRun!ReducedOnce
      [] schedule = "1F1B wide" -> WideRun!ReducedOnce
      [] schedule = "ZBH1" -> ZBH1Run!ReducedOnce
      [] schedule = "Interleaved1F1B" -> InterleavedRun!ReducedOnce
      [] schedule = "ZBV" -> ZBVRun!ReducedOnce

\* PipelineRuntime's RightTensors and ReducedOnce for all schedules: no buffer
\* ever holds the activation or gradient of another microbatch, chunk or
\* iteration, and gradients are reduced once, in the three ways a reduction
\* can start: by the last backward (1F1B), by the last W task (ZBH1, ZBV),
\* when the iteration is finalized (Interleaved1F1B).
TensorsAndGradients == RightTensors /\ ReducedOnce

\* PipelineRuntime's ActivationBound, for the schedules it is about.
ActivationBound ==
    CASE schedule = "1F1B" -> OneFOneBRun!ActivationBound
      [] schedule = "1F1B wide" -> WideRun!ActivationBound
      [] schedule = "ZBH1" -> ZBH1Run!ActivationBound
      [] OTHER -> TRUE

\* Every rank of every schedule gets through all its iterations.
Completes == <>Finished
=============================================================================
