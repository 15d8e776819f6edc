------------------------- MODULE PipelineDataflow --------------------------
(***************************************************************************)
(* What pipeline-parallel execution promises, without ranks, plans or      *)
(* messages: the tasks of an iteration run in any order that respects the  *)
(* data flow of the model, and a stage takes up an iteration only with the *)
(* weights that the previous iterations left it.                           *)
(*                                                                         *)
(* A task is [iter, type, mb, stage]: the forward, backward or weight-     *)
(* gradient step of a microbatch on a stage.  Stages are 0 .. NumStages-1. *)
(***************************************************************************)
EXTENDS Integers

CONSTANTS
    NumStages, NumMb, MaxIter,
    Training(_),    \* iteration i trains
    EvalMb,         \* microbatches of an evaluation iteration
    Split(_)        \* the weight gradients of stage s are tasks of their own

VARIABLE done       \* the tasks that have been computed

TaskOf(i, type, mb, s) == [iter |-> i, type |-> type, mb |-> mb, stage |-> s]

TasksOfStage(i, s) ==
    {TaskOf(i, "F", mb, s) :
        mb \in 0 .. (IF Training(i) THEN NumMb ELSE EvalMb) - 1}
    \cup IF ~Training(i) THEN {}
         ELSE {TaskOf(i, type, mb, s) :
                  type \in IF Split(s) THEN {"B", "W"} ELSE {"B"},
                  mb \in 0 .. NumMb - 1}

\* The tasks whose results t uses.
Inputs(t) ==
    LET of(type, s) == TaskOf(t.iter, type, t.mb, s)
    IN  CASE t.type = "F" -> IF t.stage = 0 THEN {} ELSE {of("F", t.stage - 1)}
          [] t.type = "B" -> {of("F", t.stage)} \cup
                 IF t.stage = NumStages - 1 THEN {} ELSE {of("B", t.stage + 1)}
          [] t.type = "W" -> {of("B", t.stage)}

Earlier(t) == UNION {TasksOfStage(i, t.stage) : i \in 1 .. t.iter - 1}

Ready(t) == Inputs(t) \cup Earlier(t) \subseteq done

Init == done = {}

Compute(t) ==
    /\ t \notin done
    /\ Ready(t)
    /\ done' = done \cup {t}

Next == \E i \in 1 .. MaxIter, s \in 0 .. NumStages - 1 :
            \E t \in TasksOfStage(i, s) : Compute(t)

Spec == Init /\ [][Next]_done /\ WF_done(Next)
=============================================================================
