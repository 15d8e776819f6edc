--------------------------- MODULE ScheduleHandoff --------------------------
(***************************************************************************)
(* How a new schedule reaches every rank in the middle of training: the    *)
(* profile written by the ranks and concluded by rank 0, the update at the *)
(* start of forward_backward_func, the schedule rank 0 solves and passes   *)
(* on in a file, and the barriers between (pp_scheduler.py,                *)
(* experiment_manager.py, and the loop of training.py around them).        *)
(*                                                                         *)
(* A rank stands at one place (pc) of the code.  The places in Sites are   *)
(* barriers of all ranks.  Those in Failures are exceptions: the rank      *)
(* stops there, and the launcher ends the job at some time (Aborted).      *)
(* Forwards and backwards of an iteration are one step (Run).              *)
(***************************************************************************)
EXTENDS Integers, Sequences, FiniteSetsExt

CONSTANTS
    NumStages,        \* pipeline_model_parallel_size
    NumReplicas,      \* data_parallel_size, with one rank per stage in each
    Configs,          \* the command lines
    EvalCalls         \* eval_iters: calls of an evaluation

ASSUME WorldAssumption ==
    NumStages \in Nat \ {0} /\ NumReplicas \in Nat \ {0} /\ EvalCalls \in Nat \ {0}

\* A delay is a latency and a bandwidth; of a delay only the name matters.  The
\* other names are those of schedules made for none.
Delay == STRING \ {"initial", "none", "dynamic_mb"}
ConfigType ==
    [schedule : {"static", "subud", "ud", "dynamic_mb"}, prefetch : BOOLEAN, dump : BOOLEAN,
     profile_iter : Nat, test_start_iter : Int, test_iters : Nat \ {0}, delays : Seq(Delay),
     train_iters : Nat, eval_interval : Nat, left : SUBSET STRING]

ASSUME ConfigsAssumption == Configs \subseteq ConfigType

VARIABLES
    args,             \* the command line
    pc,               \* per rank: place in the code
    arrived,          \* per rank: barriers it has come to
    cur_iter,         \* per rank: args.curr_iteration
    evals,            \* per rank: calls of this iteration's evaluation, 0 in training
    generated,        \* per rank: _dynamic_schedule_generated is set
    pp_schedule,      \* per rank: CDCPPScheduler.pp_schedule
    plan,             \* per rank: the schedule pp_execution_plan is made from
    profile_result,   \* per rank: ExperimentManager.profile_result
    file,             \* the schedule files by name
    solved,           \* how many schedules rank 0 has solved
    profiles,         \* <pp_rank>.json: the call that wrote it
    total             \* total.json: the calls whose profiles it has

local == <<generated, pp_schedule, plan, profile_result>>
disk == <<file, solved, profiles, total>>
vars == <<args, pc, arrived, cur_iter, evals, local, disk>>

Rank == 0 .. NumStages * NumReplicas - 1
Stage == 0 .. NumStages - 1
StageOfRank(r) == r \div NumReplicas            \* order "tp-cp-ep-dp-pp"
LogsProfile(r) == r % NumReplicas = 0           \* cdc_log_profile: tp_rank = dp_rank = 0

\* A call of forward_backward_func.
Call(r) == <<cur_iter[r], evals[r]>>
None == <<>>                                    \* of a profile: none yet

\* A schedule: the delay it is made for and which solution it is; 0 where
\* every rank computes the same by itself, -1 in a file of an earlier job.
ScheduleFor(delay, solution) == [for |-> delay, solution |-> solution]
Absent == [state |-> "absent"]
InitialSchedule == ScheduleFor("initial", 0)

Sites == {"deleted", "generated", "updated", "profiled", "concluded", "evaluate", "interval", "exit"}
After == [deleted |-> "solve", generated |-> "replan", updated |-> "run", profiled |-> "conclude",
          concluded |-> "read", evaluate |-> "call", interval |-> "next", exit |-> "done"]
Failures == {"test_not_started", "no_solution", "partial_read", "unbound_name"}

-----------------------------------------------------------------------------
(* ExperimentManager.                                                      *)

Experiment == args.delays # <<>>
TestStart == Max({args.test_start_iter, args.profile_iter + 1})
LastIter == (IF Experiment THEN TestStart + Len(args.delays) * args.test_iters
             ELSE args.train_iters) - 1

\* Fault: the last delay is never reached.
UpdateIters_NotLast == {TestStart + i * args.test_iters : i \in 0 .. Len(args.delays) - 2}
\* need_schedule_update_in_current_iter
UpdateIters == {TestStart + i * args.test_iters : i \in 0 .. Len(args.delays) - 1}

\* get_injected_latency_bandwidth_delay_as_F_stage
Injected(iter) ==
    IF Experiment THEN args.delays[Min({(iter - TestStart) \div args.test_iters, Len(args.delays) - 1}) + 1]
    ELSE "none"

TestNotStarted(r) == Experiment /\ cur_iter[r] < TestStart

NeedsUpdate(r) ==
    \/ Experiment /\ cur_iter[r] \in UpdateIters
    \/ ~Experiment /\ args.schedule # "static" /\ cur_iter[r] > args.profile_iter /\ ~generated[r]

-----------------------------------------------------------------------------
(* Moving from place to place.                                             *)

GoTo(r, place) ==
    /\ pc' = [pc EXCEPT ![r] = place]
    /\ arrived' = [arrived EXCEPT ![r] = @ + IF place \in Sites THEN 1 ELSE 0]

\* dist.barrier() returns once every rank has come to as many barriers.
Leave(r) ==
    /\ pc[r] \in Sites
    /\ \A q \in Rank : arrived[q] >= arrived[r]
    /\ GoTo(r, After[pc[r]])
    /\ UNCHANGED <<args, cur_iter, evals, local, disk>>

-----------------------------------------------------------------------------
(* update_schedule_with_latency_bandwidth.                                 *)

\* Nothing to do, before the profile is there and between updates.
StayWithSchedule(r) ==
    /\ pc[r] = "call"
    /\ profile_result[r] = None \/ ~(TestNotStarted(r) \/ NeedsUpdate(r))
    /\ GoTo(r, "run")
    /\ UNCHANGED <<args, cur_iter, evals, local, disk>>

\* The delay is asked for, and asserts that the test has started, before it
\* is known whether the schedule needs an update.
FailTooEarly(r) ==
    /\ pc[r] = "call" /\ profile_result[r] # None
    /\ TestNotStarted(r)
    /\ GoTo(r, "test_not_started")
    /\ UNCHANGED <<args, cur_iter, evals, local, disk>>

MayUpdate(r) ==
    /\ pc[r] = "call" /\ profile_result[r] # None
    /\ ~TestNotStarted(r) /\ NeedsUpdate(r)
    /\ generated' = [generated EXCEPT ![r] = @ \/ ~Experiment]
    /\ UNCHANGED <<args, cur_iter, evals, plan, profile_result, solved, profiles, total>>

\* A static schedule, or the heuristic of subparts, is made on every rank.
UpdateLocally(r) ==
    /\ args.schedule \in {"static", "subud"}
    /\ MayUpdate(r)
    /\ pp_schedule' = [pp_schedule EXCEPT ![r] = ScheduleFor(Injected(cur_iter[r]), 0)]
    /\ GoTo(r, IF args.schedule = "static" THEN "replan" ELSE "generated")
    /\ UNCHANGED file

\* ud (wave) and dynamic_mb are solved by rank 0.  The name of the file holds
\* the delay for ud only.
FileName(r) == IF args.schedule = "ud" THEN Injected(cur_iter[r]) ELSE "dynamic_mb"

\* Fault: nothing is deleted.
Deleted_Kept(r) == file
\* Fault: deleted before the first update only.
Deleted_OnlyOnce(r) == IF r = 0 /\ solved = 0 THEN [file EXCEPT ![FileName(r)] = Absent] ELSE file
Deleted(r) == IF r = 0 THEN [file EXCEPT ![FileName(r)] = Absent] ELSE file

\* Fault: only rank 0 comes to the barrier after the deletion.
DeleteSite_RankZero(r) == IF r = 0 THEN "deleted" ELSE "solve"
DeleteSite(r) == "deleted"

UpdateBySolver(r) ==
    /\ args.schedule \in {"ud", "dynamic_mb"}
    /\ MayUpdate(r)
    /\ IF args.schedule = "ud" THEN file' = file /\ GoTo(r, "solve")
       ELSE file' = Deleted(r) /\ GoTo(r, DeleteSite(r))
    /\ UNCHANGED pp_schedule

-----------------------------------------------------------------------------
(* CDCDynamicScheduleGenerator.generate_schedule_from_profile.             *)

Takes(r, schedule) == pp_schedule' = [pp_schedule EXCEPT ![r] = schedule]
InFile(r) == file[FileName(r)]

\* Rank 0 takes a schedule of ud for these delays that is there already.
Reuse(r) ==
    /\ r = 0 /\ pc[r] = "solve" /\ args.schedule = "ud"
    /\ InFile(r) # Absent
    /\ Takes(r, InFile(r).schedule)
    /\ GoTo(r, "generated")
    /\ UNCHANGED <<args, cur_iter, evals, generated, plan, profile_result, disk>>

\* Rank 0 solves and opens the file, which is there from now on ...
OpenFile(r) ==
    /\ r = 0 /\ pc[r] = "solve"
    /\ args.schedule = "dynamic_mb" \/ InFile(r) = Absent
    /\ solved' = solved + 1
    /\ Takes(r, ScheduleFor(Injected(cur_iter[r]), solved + 1))
    /\ file' = [file EXCEPT ![FileName(r)] = [state |-> "open"]]
    /\ GoTo(r, "write")
    /\ UNCHANGED <<args, cur_iter, evals, generated, plan, profile_result, profiles, total>>

\* ... or finds no solution ...
FindNoSolution(r) ==
    /\ r = 0 /\ pc[r] = "solve"
    /\ args.schedule = "dynamic_mb" \/ InFile(r) = Absent
    /\ GoTo(r, "no_solution")
    /\ UNCHANGED <<args, cur_iter, evals, local, disk>>

\* ... then writes and closes it.  What it reads back for itself is the same.
WriteFile(r) ==
    /\ pc[r] = "write"
    /\ file' = [file EXCEPT ![FileName(r)] = [state |-> "whole", schedule |-> pp_schedule[r]]]
    /\ GoTo(r, "generated")
    /\ UNCHANGED <<args, cur_iter, evals, local, solved, profiles, total>>

\* The other ranks load the file as soon as it exists.
LoadFile(r) ==
    /\ r # 0 /\ pc[r] = "solve"
    /\ \/ /\ InFile(r).state = "whole"
          /\ Takes(r, InFile(r).schedule)
          /\ GoTo(r, "generated")
       \/ /\ InFile(r).state = "open"
          /\ GoTo(r, "partial_read")
          /\ UNCHANGED pp_schedule
    /\ UNCHANGED <<args, cur_iter, evals, generated, plan, profile_result, disk>>

\* Back in the update: the new plan.  Without --enable_prefetch_opt a static
\* schedule keeps the old one.  Rank 0 dumps it under a name made of the
\* delay, a variable that only an experiment has bound.
Replan(r) ==
    /\ pc[r] = "replan"
    /\ LET replans == args.schedule # "static" \/ args.prefetch
       IN  /\ plan' = IF replans THEN [plan EXCEPT ![r] = pp_schedule[r]] ELSE plan
           /\ GoTo(r, IF replans /\ args.dump /\ r = 0 /\ ~Experiment THEN "unbound_name" ELSE "updated")
    /\ UNCHANGED <<args, cur_iter, evals, generated, pp_schedule, profile_result, disk>>

-----------------------------------------------------------------------------
(* The rest of forward_backward_func.                                      *)

Run(r) ==
    /\ pc[r] = "run"
    /\ GoTo(r, IF cur_iter[r] = args.profile_iter THEN "profile" ELSE "end")
    /\ UNCHANGED <<args, cur_iter, evals, local, disk>>

\* Fault: rank 0 does not wait for the profiles of the others.
ProfileSite_NotZero(r) == IF r = 0 THEN "conclude" ELSE "profiled"
\* Fault: only the ranks that write come to that barrier.
ProfileSite_OnlyWriters(r) == IF LogsProfile(r) THEN "profiled" ELSE "conclude"
ProfileSite(r) == "profiled"

\* Every stage's profile is written by one rank, opened and closed in one step.
WriteProfile(r) ==
    /\ pc[r] = "profile"
    /\ profiles' = IF LogsProfile(r) THEN [profiles EXCEPT ![StageOfRank(r)] = Call(r)] ELSE profiles
    /\ GoTo(r, ProfileSite(r))
    /\ UNCHANGED <<args, cur_iter, evals, local, file, solved, total>>

Conclude(r) ==
    /\ pc[r] = "conclude"
    /\ total' = IF r = 0 THEN profiles ELSE total
    /\ GoTo(r, "concluded")
    /\ UNCHANGED <<args, cur_iter, evals, local, file, solved, profiles>>

\* read_profile_result and CDCDynamicScheduleGenerator.initialize
ReadTotal(r) ==
    /\ pc[r] = "read" /\ total # None
    /\ profile_result' = [profile_result EXCEPT ![r] = total]
    /\ GoTo(r, "end")
    /\ UNCHANGED <<args, cur_iter, evals, generated, pp_schedule, plan, disk>>

-----------------------------------------------------------------------------
(* The training loop.  An evaluation follows training calls of its         *)
(* interval and leaves args.curr_iteration as it is.                       *)

EvaluationDue(r) == args.eval_interval > 0 /\ (cur_iter[r] + 1) % args.eval_interval = 0

EndCall(r) ==
    /\ pc[r] = "end"
    /\ \/ evals[r] = 0 /\ ~EvaluationDue(r) /\ evals' = evals /\ GoTo(r, "next")
       \/ evals[r] = 0 /\ EvaluationDue(r) /\ evals' = [evals EXCEPT ![r] = 1] /\ GoTo(r, "evaluate")
       \/ evals[r] \in 1 .. EvalCalls - 1 /\ evals' = [evals EXCEPT ![r] = @ + 1] /\ GoTo(r, "call")
       \/ evals[r] = EvalCalls /\ evals' = [evals EXCEPT ![r] = 0] /\ GoTo(r, "interval")
    /\ UNCHANGED <<args, cur_iter, local, disk>>

NextIteration(r) ==
    /\ pc[r] = "next"
    /\ IF cur_iter[r] = LastIter
       THEN cur_iter' = cur_iter /\ GoTo(r, IF Experiment THEN "exit" ELSE "done")
       ELSE cur_iter' = [cur_iter EXCEPT ![r] = @ + 1] /\ GoTo(r, "call")
    /\ UNCHANGED <<args, evals, local, disk>>

-----------------------------------------------------------------------------
Failed(r) == pc[r] \in Failures
Aborted == (\E r \in Rank : Failed(r)) /\ UNCHANGED vars
Terminated == (\A r \in Rank : pc[r] = "done") /\ UNCHANGED vars

\* A file an earlier job left is whole.  Its schedule of ud for a delay is for
\* that delay.
Leftover(name) ==
    [state |-> "whole", schedule |-> ScheduleFor(IF name = "dynamic_mb" THEN "none" ELSE name, -1)]

Init ==
    /\ args \in Configs
    /\ pc = [r \in Rank |-> "call"]
    /\ arrived = [r \in Rank |-> 0]
    /\ cur_iter = [r \in Rank |-> 0]
    /\ evals = [r \in Rank |-> 0]
    /\ generated = [r \in Rank |-> FALSE]
    /\ pp_schedule = [r \in Rank |-> InitialSchedule]
    /\ plan = [r \in Rank |-> InitialSchedule]
    /\ profile_result = [r \in Rank |-> None]
    /\ LET names == {"dynamic_mb", "none"} \cup {args.delays[i] : i \in DOMAIN args.delays}
       IN  file = [n \in names |-> IF n \in args.left THEN Leftover(n) ELSE Absent]
    /\ solved = 0
    /\ profiles = [s \in Stage |-> None]
    /\ total = None

Step(r) ==
    \/ Leave(r)
    \/ StayWithSchedule(r) \/ FailTooEarly(r) \/ UpdateLocally(r) \/ UpdateBySolver(r)
    \/ Reuse(r) \/ OpenFile(r) \/ FindNoSolution(r) \/ WriteFile(r) \/ LoadFile(r)
    \/ Replan(r) \/ Run(r)
    \/ WriteProfile(r) \/ Conclude(r) \/ ReadTotal(r)
    \/ EndCall(r) \/ NextIteration(r)

Next == Aborted \/ Terminated \/ \E r \in Rank : Step(r)

Spec == Init /\ [][Next]_vars /\ \A r \in Rank : WF_vars(Step(r))

-----------------------------------------------------------------------------
(* Properties.                                                             *)

\* Ranks that run the same call run it by the same schedule: the four channels
\* of the dispatcher rely on nothing else.
SamePlan ==
    \A a, b \in Rank : pc[a] = "run" /\ pc[b] = "run" /\ Call(a) = Call(b) => plan[a] = plan[b]

\* Ranks that wait at the same barrier by count wait at the same place of the
\* code, in the same call: no barrier of one meets another barrier of another.
BarriersLineUp ==
    \A a, b \in Rank :
        pc[a] \in Sites /\ pc[b] \in Sites /\ arrived[a] = arrived[b]
            => pc[a] = pc[b] /\ Call(a) = Call(b)

\* No rank uses a dynamic_mb schedule an earlier job left ("ensures
\* non-rank-0 workers never read a leftover file from a prior run").
NoStaleFile ==
    args.schedule = "dynamic_mb" => \A r \in Rank : pp_schedule[r].solution # -1

\* In every call of a test a rank runs by a schedule made for the delay of that
\* part of the test, and after the profile by one made since.
PlanIsCurrent ==
    args.schedule # "static" \/ args.prefetch =>
        \A r \in Rank : pc[r] = "run" =>
            /\ \A i \in DOMAIN args.delays :
                  cur_iter[r] - TestStart \in (i - 1) * args.test_iters .. i * args.test_iters - 1
                      => plan[r].for = args.delays[i]
            /\ (~Experiment /\ args.schedule # "static" /\ cur_iter[r] > args.profile_iter)
                   => plan[r].for = "none"

\* The profile a rank goes by has every stage's part, all of the same call,
\* although evaluations write and conclude it again.
ProfileReadWhole ==
    \A r \in Rank : profile_result[r] # None =>
        \A s \in Stage : profile_result[r][s] # None /\ profile_result[r][s] = profile_result[r][0]

\* Every rank gets to the end unless some rank fails: no rank waits for ever
\* at a barrier, or for a file, that another rank never gets to.
Completes == <>((\A r \in Rank : pc[r] = "done") \/ \E r \in Rank : Failed(r))

\* "Non-rank-0: wait for rank 0 to save the schedule": no rank loads a file
\* that is still being written.
ReadsWhole == \A r \in Rank : pc[r] # "partial_read"
=============================================================================
