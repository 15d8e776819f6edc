----------------------------- MODULE MCHandoff ------------------------------
(***************************************************************************)
(* ScheduleHandoff for command lines of each kind.                         *)
(***************************************************************************)
EXTENDS ScheduleHandoff

\* Profile in iteration 1, test from iteration 2 on, two iterations per delay.
Static == [schedule |-> "static", prefetch |-> TRUE, dump |-> FALSE,
           profile_iter |-> 1, test_start_iter |-> 0, test_iters |-> 2,
           delays |-> <<>>, train_iters |-> 4, eval_interval |-> 0, left |-> {}]
Test == [Static EXCEPT !.delays = <<"slow", "fast">>]
Solved == [Static EXCEPT !.schedule = "dynamic_mb", !.left = {"dynamic_mb"}]

MCConfigs == {
    Static,
    \* an evaluation in the iteration of an update
    [Test EXCEPT !.eval_interval = 3, !.dump = TRUE],
    \* an evaluation in the iteration of the profile, which fails
    [Test EXCEPT !.eval_interval = 2],
    [Test EXCEPT !.prefetch = FALSE],
    [Test EXCEPT !.schedule = "subud", !.delays = <<"slow", "fast", "slow">>, !.test_iters = 1],
    \* one schedule is reused from the job before, one from earlier in this job
    [Test EXCEPT !.schedule = "ud", !.delays = <<"slow", "fast", "slow">>, !.test_iters = 1,
                 !.left = {"fast"}],
    \* an evaluation in the iteration of the profile
    [Solved EXCEPT !.eval_interval = 2],
    [Solved EXCEPT !.delays = <<"slow", "fast">>, !.eval_interval = 3],
    [Solved EXCEPT !.dump = TRUE]}

MCSolvedConfigs == {Solved}
=============================================================================
