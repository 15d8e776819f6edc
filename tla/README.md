# A TLA+ development for heteropipe

heteropipe is a fork of Megatron-LM for training across data centres. Its own core is
`megatron/core/pipeline_parallel/cdc_scheduler/` ("CDC" below): it plans, before training, what every
pipeline rank executes, and replaces Megatron's pipeline loop by a dispatcher that follows such a plan.
Around it stand the parts of Megatron a long run depends on: the buckets that reduce gradients and gather
parameters while other work runs, and the checkpoints a job that was killed goes on from. This directory
models these in TLA+, checks them with TLC on small instances and proves the central facts for every
size with TLAPS.

## 1. Inventory

Paths are relative to `src/megatron/core/` (`training/`: to `src/megatron/`); `CDC/` is
`pipeline_parallel/cdc_scheduler/`.

| Component | Code | State it keeps | Operations | Status |
|---|---|---|---|---|
| Static schedules | `CDC/pp_generator/pipeline.py` | `device_scheduled_tasks`: per device a list of `TaskNode`s (F, B or W of a microbatch on a chunk) | `schedule` of GPipe, 1F1B, ZBH1, Interleaved1F1B, ZBV; `_resolve_batch_dependency` | modelled (`PipelineSchedules`) |
| ZBV heuristic | `CDC/pp_generator/zbv_heuristic.py` | counts, times, memory, bubbles and pending W of each stage | `try_v_schedule`, `get_v_schedule` | modelled (`ZBVHeuristic`) |
| Simulated timing | `pipeline.py` `solve_dependencies` | start and completion time of each task | device 0's first task, then the devices in turn | modelled (`ExecutionPlanner`) |
| Execution planner | `CDC/execution_planner.py` | per rank a list of `ComputeTask`s with pre- and post-events | `generate_execution_plan` | modelled (`ExecutionPlanner`) |
| Runtime dispatcher | `CDC/pp_scheduler.py` `CDCPPScheduler` | four dictionaries of requests, four of tensors, no_sync contexts, the position in the plan | `schedule_comm_event`, `schedule_compute_task`, `deallocate_tensor_in_dicts`, `forward_backward_func`, `clean_up` | modelled for static plans (`PipelineRuntime`) |
| Weight-gradient store | `CDC/wgrad_store.py` | queue of blocks of deferred weight-gradient work | `finish_collection_wgrad_block`, `compute_wgrad_block`, `compute_wgrad_subblock` | blocks (`PipelineRuntime`), subblocks (`WgradStore`) |
| Data-parallel buckets | `distributed/`, `optimizer/distrib_optimizer.py` 1737-1839 | per bucket group: gradient and gather handles, ready parameters, last-microbatch and dispatched flags; the buffers they read and write later | hooks before modules and after gradients, `start_/finish_grad_sync`, `start_/finish_param_sync`, `no_sync`, `zero_grad_buffer`, `step_with_ready_grads` | modelled (`GradientBuckets`); one group per chunk in `PipelineRuntime` |
| Dynamic microbatch iterator | `pp_scheduler.py` 160-407 | position in a stream of equal batches, batches or pieces held back | `__next__`, `_ensure_base_pulled`, `_refill`, `_refill_legacy` | modelled (`MicrobatchIterator`) |
| Dynamic schedule generation | `pp_scheduler.py` 434-1506, `pp_generator/auto_schedule.py` 543-577 | profile, system configuration | integerise costs, call a solver, redistribute microbatch sizes | sizes (`MicrobatchIterator`) and hand-off (`ScheduleHandoff`); costs not |
| Schedule hand-off | `pp_scheduler.py` 1828-1981, 2838-2964 | schedule, plan, profile; files shared by all ranks | profile, conclude, update, solve, load | modelled (`ScheduleHandoff`) |
| Experiment manager | `experiment_manager.py` | iterations of profile, test and updates; the profile read | `need_schedule_update_in_current_iter`, `get_injected_...`, `read_profile_result` | modelled, without logging (`ScheduleHandoff`) |
| Bandwidth delay model | `CDC/pp_generator/util.py` | the intervals each link is occupied in | `simulate_link_occupancy` of one transfer | modelled (`BandwidthDelay`) |
| Latency injection | `pp_scheduler.py` 3058-3228 | | delays on the GPU | changes no order: not modelled |
| Sub-pipelines | `CDC/pp_generator/heuristic_ud_subschedule.py`, `subpipeline.py` | per device: ready nodes, nodes done, memory in use; link occupancy | greedy search, `merge_subparts`, dependencies, timing | modelled (`UDSubSchedule`, `ExecutionPlanner`) |
| Solver-based schedules | `auto_schedule.py`, `auto_cp_schedule.py` | a model for an external solver | `schedule` | out of reach: what comes back is the solver's |
| Affine profiler | `affine_profiler.py` | measurements | fits lines | out of reach: numeric |
| Extra process groups | `parallel_state.py` 757-788, 1793-1838 | four communicators | creation, warm-up | taken as created |
| Checkpoints and restart | `training/checkpointing.py`, `dist_checkpointing/`, `num_microbatches_calculator.py` | directories and trackers on disk, the queue of unfinished saves, the queue of writers' results | save, background write, finalize, clean up, load, resume | modelled for `torch_dist` checkpoints (`Checkpointing`) |
| Training loop | `training/training.py` | iteration, consumed samples, number of microbatches | iterate, save when due, exit, evaluate | the order of these (`Checkpointing`, `GradientBuckets`, `ScheduleHandoff`) |
| Models, tensor parallelism, data, tools | the rest of `src/` | layers, optimizers, datasets | | not modelled |

**Interactions.** A schedule is timed, the planner turns it into one plan per rank, and each rank, a
process of its own, walks through its plan once per iteration. Ranks share nothing but messages: the
dispatcher uses four process groups, chosen by the parity of the rank, as four untagged FIFO channels
(`parallel_state.get_pipeline_extra_*_group`). Within a rank, backwards leave weight-gradient work in the
store and W tasks take it out; the last microbatch's task starts the data-parallel reduction of a chunk,
through a hook or directly, and the end of the iteration finishes it.

The planner runs again in the middle of training: ranks write profiles, rank 0 concludes them, every rank
decides by the iteration whether to update, rank 0 solves and passes the schedule on in a file, and
from then on each rank that reads data cuts its own copy of the stream into the new sizes. What holds this
together is files, barriers and the same arithmetic on every rank.

Within a data-parallel group, replicas run the same program on their own and meet only in collectives. A collective
that is launched reads and writes its buffer some time later, while the replica goes on: what keeps a
module from reading a parameter before it has been gathered, or a reduction from summing an unfinished gradient,
are the handles and flags of the bucket groups, set and tested by hooks that the order of the model's modules
calls. Between jobs the only state is the checkpoint directory: the tracker names a checkpoint, the next job
takes its iteration and its count of consumed samples, and from the count the batch size and the place in the data.

**What is hard.** Nothing in a message says what it is: that a rank receives the right tensor depends on
two plans, made of simulated times, agreeing about an order. The `irecv` is deferred to the wait, so the order
of the waits matters, not that of the posts. Ranks run arbitrarily far apart, and an iteration ends
without waiting for sends. An evaluation skips operations on both sides of every channel, each rank for
itself. Weight gradients are taken from the store by order, not by name. Who starts a reduction, and
when, depends on overlap, on whether weight gradients are split off and on the context in force. The
schedules are index arithmetic, and one of them a greedy search under assertions. A file exists before it is
complete, and may be left from before; barriers lie on paths that depend on rank, schedule and iteration. A gather is dispatched
by one hook for the next one, in an order fixed by registration, and consumed in the order of use. A save is done by processes that
outlive the iteration, reports through a queue shared with the next save, and can be killed between any two of its files; the
cleanup of one save runs beside the writers of another. Each of these is an
entry of `hazards` in `PROJECT.json`, with the properties that watch it.

**What makes each part correct.**

* schedules: every task exactly once, one at a time, no more activations held than intended;
* plans: per channel, posts and waits agree with the sends of the neighbour in number, kind and order;
* dispatcher: every receive gets its own message, every buffer holds the data of its key and iteration,
  nothing leaks into the next iteration, released memory stays released, every rank finishes;
* weight gradients and reductions: each block is applied by its own W task, and each chunk is reduced
  exactly once, with all contributions in;
* iterator: a microbatch is the same samples on every rank, and iterations take exactly their batches;
* hand-off: ranks that run the same call run it by the same schedule, made for the delay in force, and
  meet at the same barriers;
* subparts: each block's subparts in order, within the memory searched for, and no weight gradient left over;
* timing: a link carries one transfer at a time;
* buckets: a module reads parameters that took every update, the optimizer steps on gradients reduced once and
  completely, no assertion of the bookkeeping fails and no collective hangs;
* checkpoints: the tracker names a complete checkpoint and never an older one, a job finds what it can load, and trains
  on the samples of a job that was never interrupted;
* as a whole: a step computes a task whose inputs have been computed (`PipelineDataflow`).

## 2. Modules

| Module | Models | Notes |
|---|---|---|
| `PlanMatching` | placement of stages; when two plans agree on a channel | used by planner, runtime and proofs |
| `PipelineSchedules` | GPipe, 1F1B, ZBH1, Interleaved1F1B; direction of transfers | operators: device -> sequence of tasks |
| `ZBVHeuristic` | the ZBV search | a state record and folds; `ok` stands for "no assertion failed" |
| `BandwidthDelay` | a transfer on a link that is in use | operator on the list of busy intervals; used by the two below |
| `UDSubSchedule` | the search for a schedule of subblocks, the merge of subparts | a state record and folds, as in `ZBVHeuristic` |
| `ExecutionPlanner` | dependencies, times, events, also of subparts and of two data centres sharing a link | `ExecutionPlan(pipeline)`: rank -> sequence of operations |
| `WgradStore` | the store when W tasks take parts of a block | operators: the store after the first k tasks of a device |
| `PipelineDataflow` | the abstract specification: tasks in any order the data flow allows | implemented by `PipelineRuntime` |
| `PipelineRuntime` | the dispatcher on all ranks | variables and actions below |
| `MicrobatchIterator` | the redistribution of sizes; the wrapper of the data iterator on several readers | a sample is its number in the stream |
| `ScheduleHandoff` | profile, update, files, barriers, the loop of training and evaluation | a rank is at a place of the code; iterations are one step |
| `GradientBuckets` | bucket groups, hooks and collectives of data-parallel replicas | a replica's operations are a sequence made from the model and the schedule |
| `BucketPrograms` | when the sequence of a replica is in order: the hypothesis of the proofs about the buckets | statements about one sequence; `MCBuckets` evaluates them |
| `Checkpointing` | saves, background writers, finalization, cleanup, kills, restarts, the growing batch | ranks in lock step, writers not |
| `MCRuntime`, `MCSchedules`, `MCPlans`, `MCMicrobatches`, `MCHandoff`, `MCBuckets`, `MCCheckpoints` | instances for TLC | plans of the planner as `Program`; `MCSchedules` runs five instances of `PipelineRuntime`, `schedule` says which; size vectors; command lines; models and layers |
| `PipelineRuntime_proofs` | type correctness; delivery on the channels | TLAPS |
| `PipelineTensors_proofs` | every buffer holds the tensor of its key | TLAPS |
| `PipelineTasks_proofs` | weight-gradient blocks and reductions; the refinement of `PipelineDataflow`, its safety part | TLAPS |
| `GradientBuckets_proofs` | parameters are current, gradients reduced once, collectives awaited, no assertion fails | TLAPS |
| `Checkpointing_proofs` | a resumed job trains on the same samples; nothing beyond the last iteration | TLAPS |
| `CheckpointTracker_proofs` | what the trackers name is whole, is found, and never goes back | TLAPS |
| `ScheduleHandoff_proofs` | the five invariants of the hand-off | TLAPS |
| `MicrobatchIterator_proofs` | what readers get, and how far they read | TLAPS |

**The plan as a sequence.** For each compute task the planner's pre-events, `COMPUTE`, the post-events
and `DEALLOCATE` (the pass of `forward_backward_func` after every task) follow each other. A step of a rank
runs one of them.

**State of `PipelineRuntime` and the code.**

| Variable | Code |
|---|---|
| `iteration`, `pc` | how often `forward_backward_func` has been called; the place in the loop over `pp_execution_plan_cur_device` (0: between iterations) |
| `chan` | messages in flight: a group of `get_pipeline_extra_*_group` from one rank to another |
| `send_reqs`, `recv_reqs` | keys of `send_next_reqs`/`send_prev_reqs`; of `recv_next_reqs`/`recv_prev_reqs` while they hold the deferred closure |
| `input_tensors`, `output_tensors`, `output_tensor_grads`, `input_tensor_grads` | the dictionaries of the same names, keyed by microbatch and chunk; an entry is absent, None, an uninitialised buffer, a certain activation or gradient, or garbage |
| `wgrad_blocks` | `WGradStore.wgrad_blocks` |
| `no_sync` | `no_sync_context[chunk]` is entered |
| `main_grad`, `reductions`, `grad_reduce_handle` | the contributions in the chunk's gradient; what each reduction of this iteration covered; a reduction is outstanding |

| Action | Code |
|---|---|
| `LocalCopy`, `PostSend`, `PostRecv`, `WaitRecv` | branches of `schedule_comm_event`, with the look-up and allocation of both buffers that precedes them |
| `ForwardStep`, `BackwardStep`, `WGradStep` | branches of `schedule_compute_task`, with `backward_step`'s results, the release of tensors, the store and the gradient hooks |
| `Deallocate` | `deallocate_tensor_in_dicts` |
| `Skip` | what `schedule_event` and the guards of `schedule_compute_task` pass over in an evaluation |
| `StartIteration`, `FinishIteration` | the two ends of `forward_backward_func`, with `zero_grad_buffer` before and `finalize_model_grads`, `clean_up` after |

**`MicrobatchIterator` and the code.** `base_iterator` is how many batches a reader has taken from its
iterator, `base_cache`, `chunks` and `non_data_stage` are the wrapper's fields of those names (all dropped by
`Wrap`, which makes a new one), `got` what the forwards of this iteration got. `NextLazily` is `__next__`, `NextFromChunks`
`__next__` under `CDC_DISABLE_OPT2`, with either refill; `NextOfBase` a forward of an iteration with equal
sizes. Readers share no state: what ties them together is that their streams are the same. Middle
stages, whose iterator yields None, are readers without data. `Solutions` is what the solver returns, after `round`. `CumSum` holds the running
sums of the sizes as a recursive function, which can be proved about.

**`ScheduleHandoff` and the code.** `pc` is a rank's place: `call` to `replan` in
`update_schedule_with_latency_bandwidth` and what it calls, `run` to `read` in the rest of
`forward_backward_func`, `end` and `next` in the training loop; a place in `Sites` is a barrier, and `arrived`
counts the barriers a rank has come to, since that is all `dist.barrier` goes by. `pp_schedule`, `plan`,
`profile_result` and `generated` are attributes of a rank, `file`, `profiles` and `total` files in the
shared experiment directory. A file is open from `open` to the end of its `with` block; profile files are
written in one step, since a barrier lies between each and its readers (`ProfileReadWhole` breaks without it). A
schedule is what it was made for and by which solution. An exception stops a rank at a place in `Failures`;
the others go on to the next barrier until the launcher ends the job (`Aborted`). Nothing but barriers and files
ties ranks together here, so ranks run further apart than their messages let them.

**`GradientBuckets` and the code.** `Program(c, iter)` is what `train_step` makes a replica do in an
iteration: `zero_grad_buffer`, the forwards with a hook before each module (`hook`, then `use`), the backwards with a hook after each
gradient (`backward`), split weight gradients (`wgrad`, `start`), `finish_grad_sync`, the optimizer, gathers, and the uses without
hooks (evaluation, checkpoint). An operation is one step, or two where the code launches and then waits. In `groups`, `gather` and
`sync` are `param_gather_handle` (with `async_op`, and of a synchronous gather), `dispatched` is `param_gather_dispatched`, `reduce`
`grad_reduce_handle`, `ready` `params_with_grad`, `last` `is_last_microbatch`. `launched` and `executed` are the process
group: collectives run in the order they were launched in, each when all replicas have launched it. `held` is the parameter
buffer (per shard, how many updates it took), `grads` the gradient buffer, `sums` what each reduction read. A failing
assertion ends the replica (`failed`). `skipped` is the set of iterations whose update is skipped for an infinite gradient, the same on
all replicas (the code reduces the flag).

**`Checkpointing` and the code.** `job` is the main processes of all ranks, which collectives keep together; `job.todo` is the
code still ahead of them in this iteration, one entry per step between which a kill makes a difference. `calls` is
`AsyncCallsQueue.async_calls`, `running` the ranks whose writers of that save have not ended, `results` the
`_results_queue` each rank's process shares among saves, `removing` the directories of cleanup threads. `disk` is what survives: per
directory the files with the start of the job that wrote them, and the consumed samples in the checkpoint's
arguments; per kind the tracker. `Crash` may come between any two steps and may leave a truncated file
(`LeftBehind`). `poll` and `flush` are the two calls of `maybe_finalize_async_save`, without and with `blocking`. `ran` is
history: every iteration that ran in any start, with the samples consumed before it and its number of microbatches. A
failing load, save or writer ends the job as an exception does.

**Subparts, links, stores.** `UDSubSchedule` is run by `MCPlans` on profiled systems and its result goes through the same
planner as the static schedules. `StoreAfter` folds the store over a device's tasks: units of a block as the code
counts them, including the count of line 111 that takes the whole list for what the block added.

**Abstractions.** A tensor is what it is of: kind, iteration, microbatch, stage. `backward` and `forward`
give the right tensor from the right inputs and `Garbage` from any other. A rank's CPU and default stream
are one thread: `handle.wait()` holds up the stream and with it all later operations. Sends never block
(they are asynchronous) and the message is captured when posted: no operation writes a sent buffer
again. A send is complete when its message has been taken, which is the only reading of
`is_completed()` that needs no assumption on buffering. A missing dictionary entry, an empty store or a failing
assertion disables the action: the rank is stuck, and `Completes` and the deadlock check report it.
There are no bounds inside the actions of `PipelineRuntime`; the one bound is `MaxIter`, the number of iterations
(`ScheduleHandoff`: `EvalCalls`, and the iterations of the command line; `GradientBuckets`: `Iterations`; `Checkpointing`: `MaxCrashes`,
`MaxSignals` and `MaxStarts`, all per command line, in the guards of `Crash`, `Train` and `Start`).
`Terminated` is the stuttering of a finished training, so deadlock stays checked in the runs of the pipeline.
`buckets` and `checkpoints` stop when done, failed or out of starts and do not check it: `Completes` and `Saved` say
that they stop only at the right place.
`iter` and `at` in a message are history: no guard reads them except `SendCompleted`, which uses them to
tell whether that very send is still in flight.

**Faults.** Definitions whose comment says "Fault" are variants of the next definition with a plausible
mistake; `mutants` in `PROJECT.json` names for each property of a run the one that breaks it.

## 3. Runs

`tlc -workers 2 -config <cfg> <module>`; most end within a minute, all within five.

| Run | Instance | Shows |
|---|---|---|
| `zbv` | ZBV, 2 ranks x 2 microbatches, 2 chunks; train - evaluate 1 microbatch - train; overlap | all safety properties of the dispatcher, and the refinement. Two ranks are enough for both directions, two chunks for local copies and a store they share, three iterations for leftovers across both kinds of change |
| `schedules` | 1F1B, 2 x 4, train - evaluate 2 - train; 1F1B, 4 x 3; ZBH1, 2 x 4, 2 iterations; Interleaved1F1B, 2 x 4, 2 chunks, no overlap, 2 iterations; ZBV, 2 x 2, 2 iterations | buffers, reductions and termination for the schedules: warm-up, steady phase, drain, W tasks lagging behind; four distinct groups and an activation bound that differs by rank; the wrap-around from the last rank to the first; the three ways a reduction starts. 4 x 4 would add no phase, only states |
| `plans` | all five static schedules, 2 and 4 devices, up to 8 microbatches (ZBV: 4); 196 systems for the subblock search (2 x 4 in 1 to 3 subparts, 4 x 4 in 2; equal and unequal devices, backwards that free memory or not, memory for one microbatch or more, links from instant to slower than a block); Interleaved1F1B over two data centres | one state per schedule, size, rank and direction: the plans themselves, with their timing, memory and store. Sizes an assertion of the schedule rejects are left out (`Configs`); systems whose backward adds memory as well (hazard at `heuristic_ud_subschedule.py:147`) |
| `microbatches` | 2 readers; 3 microbatches, batches of 2 samples; 2 iterations | every vector of sizes up to 4 whose sum the solver has off by at most 2, each reader on any of three code paths, with or without data, in order or with the last microbatch first; planned sizes from iteration 1 or 2. Microbatches that end inside, at the end of and beyond a batch all occur |
| `handoff` | 2 stages x 2 replicas; 9 command lines | static (with and without new plans), subparts, ud (one file of an earlier job, one reused), dynamic_mb (a stale file; once, and for two delays); evaluations of two calls in the iterations of the profile and of an update; a failing dump and a solver that finds nothing. Two replicas give ranks that write no profile |
| `buckets` | 2 replicas, 2 iterations, 7 combinations of three models (a tied embedding; a layer with fused layer norms; one bucket) with schedules (one and two microbatches, warm-up, split weight gradients) and settings (overlap, gather, evaluation); any iteration skipped | hooks, handles and collectives; groups of one and two parameters, a parameter used twice, a bucket order unlike the order of use. Two replicas give all orders of launching and executing, the second iteration what the first left |
| `checkpoints` | 2 ranks, 11 command lines of 3 to 5 iterations: synchronous and asynchronous, persistent and non-persistent, an exit, a batch that doubles off and right after a save; up to 2 kills, 1 signal, 6 starts; failing synchronous writes | every place a kill can fall, twice, including in the load or save of the restart; two overlapping saves, and three with a cleanup thread (without kills). Six starts are enough for two kills, a signal and the exits of a command line |
| `handoff_partial_read` | dynamic_mb, 2 ranks | finding 3 |
| `checkpoints_async_failure` | 2 ranks, an asynchronous save in each of 2 iterations, writes may fail | finding 4 |
| `buckets_use_order` | 2 replicas, a layer with layer norms of their own | finding 5 |
| `zbv_4_microbatches` | ZBV, 2 x 4 | finding 1 |
| `zbh1_no_overlap` | ZBH1, 2 x 4, no overlap | finding 2 |

Properties, by what they are about:

* delivery: `ReceivesOwn`, `NoLeftover`, and over plans `ReceivesInSendOrder` (`PostsInSendOrder`, `WaitsInSendOrder`), `EventsInOrder`;
* buffers: `RightTensors`, `ReleasedStayReleased`, `ActivationBound`;
* gradients: `WgradBlockIsOwn`, `ReductionsCoverAll`, `ReducedOnce`; buffers and reductions for all schedules: `TensorsAndGradients`;
* schedules and their timing: `EveryTaskOnce`, `OneAtATime`, `WithinMemory`, `WgradsComputed`;
* buckets: `UsesCurrent`, `ReducesAll`, `NothingOutstanding`, `AssertionsHold`, `Completes` of `GradientBuckets`;
* checkpoints: `TrackerComplete`, `SameSamples`, `LoadsUnlessHit`, `NeverBack`, `Saved`, and `MarkedIsComplete`, which fails;
* data: `SizesFit`, `TokensMeetLabels`, `StreamInStep`, `PullsOnlyNeeded`;
* hand-off: `SamePlan`, `PlanIsCurrent`, `NoStaleFile`, `ProfileReadWhole`, `BarriersLineUp`, and
  `Completes` of `ScheduleHandoff` (every rank is done, or some rank has failed);
* the whole: `DataflowSpec` (refinement of `PipelineDataflow`, safety and liveness), `Completes`.

**Fairness.** In `PipelineRuntime` and in `ScheduleHandoff`, `WF_vars(Step(d))` for each rank: a rank is a process that keeps running, and a receive
whose message has been sent completes. Nothing is assumed about the order in which ranks run. An enabled
step of a rank stays enabled until it is taken (only its owner removes messages from a channel it receives
from; a barrier all ranks have come to stays open, and a file all but rank 0 wait for is deleted only before they
do), so weak fairness is enough. `MCSchedules` has the same fairness for the ranks of the schedule it runs.

In `GradientBuckets`, `WF_vars(ReplicaStep(r))` for each replica and `WF_vars(Execute)`: replicas are processes, and a collective that
all have launched is done by the network. In `Checkpointing`, `WF_vars(JobStep)` and `WF_vars(Writers)` (the processes run),
and `WF_vars(Start)`: whoever runs the job starts it again, as a launcher with restarts does. None for kills, signals or
cleanup threads, which may never come. `Saved` exempts a job that once ended in the middle of a save: its directory is left nonempty, and
`serialization.py:342` refuses to write it again, in every later start.

## 4. Findings

1. **ZBV and the deferred receive** (run `zbv_4_microbatches`). The planner sorts the posted receives of
   a channel by send time (`execution_planner.py:181`), which `PostsInSendOrder` confirms for all five
   schedules. The dispatcher posts the `irecv` only at the WAIT (`pp_scheduler.py:2229`), and for ZBV with
   2 ranks and 4 microbatches the waits of a rank do not follow the order of its neighbour's sends: it takes the
   message of another task. At 2 x 2 the orders agree (run `zbv`). The other static schedules wait in
   send order at every size of `plans`.
2. **Two reductions without overlap** (run `zbh1_no_overlap`). The W task of the last microbatch calls
   `start_grad_sync` (`pp_scheduler.py:2507-2511`) whether or not reductions overlap; without overlap
   that call reduces at once, and `finish_grad_sync` reduces again (`param_and_grad_buffer.py:292-296`).

3. **A file that exists is taken for complete** (run `handoff_partial_read`). Ranks other than 0 load the
   schedule file as soon as it exists (`pp_scheduler.py:1201`, for ud and wave 722 and 803), which is from
   `open` on, not from the end of the write: a rank whose poll falls in between fails in `json.load`.
   Short, but nothing excludes it.
4. **One queue for the results of all saves** (run `checkpoints_async_failure`). `serialization.py:309-311` says that `metadata.json`
   "is written only if the checkpoint is complete". The writers of overlapping saves put their results into one queue per process
   (`filesystem_async.py:27-35`), and a finalization takes its head (303). If the second save's writers end first and the
   first save's fail, the first, incomplete directory is marked complete and named in the tracker.
5. **The next gather, twice** (run `buckets_use_order`). `param_and_grad_buffer.py:221` dispatches the next group's gather without asking
   whether it was dispatched before. The next group is the next in the order of registration; hooks run in the
   order of use. Where the two differ by a whole bucket (`linear_proj` is registered before `linear_qkv` and used after
   it) the assertion of line 167 fails in the first iteration. With fused layer norms the orders agree well enough
   (run `buckets` has that layer).

Seen while reading: `pp_scheduler.py:1834` asks for the delay before 1839 looks whether it is needed, so a test that starts later than
the profile iteration + 1, or an evaluation right after it, fails the assertion of `experiment_manager.py:120` (no comment says
otherwise; run `handoff` allows for it); `pp_scheduler.py:1965` reads a name only experiments bind, on rank 0, before a barrier of all
(`unbound_name` in `ScheduleHandoff`); a job resumed after its profile iteration never updates its schedule;
`pp_scheduler.py:231` says a stage without data refuses to pull more, but each later call that needs more batches
pulls one more None; `reset_for_next_iteration` has no caller; `wgrad_store.py:111` computes a range from
a list already extended (`TakeUnits`; it does no harm for the plans of `WgradsComputed`). `experiment_manager.py:97` waits for a file that a barrier already
guarantees (`ProfileReadWhole`).

## 5. Proofs

`tlapm M.tla` for each module M whose name ends in `_proofs`; `CheckpointTracker_proofs`, `GradientBuckets_proofs`, `ScheduleHandoff_proofs` and
`MicrobatchIterator_proofs` take some minutes. The three about the dispatcher extend one another: Runtime, Tensors, Tasks.

**Assumptions on the constants.** `SizeAssumption` (sizes are natural numbers, the number of ranks is even
and positive: the group getters assert it) and `PlanAssumption` (plans are sequences of operations; a local copy names a
chunk). Both are in `PipelineRuntime` and TLC evaluates them in every run of `MCRuntime`.
The proofs about checkpoints use of `ConfigsAssumption` of `Checkpointing` that a command line is of its type and, for `TypeCorrect`, that the batch only
grows (`num_microbatches_calculator.py:413` asserts it), and `StartsAssumption` (a bound on the starts is a number). Those about the buckets use
`ConfigsAssumption` of `GradientBuckets`: there are replicas and iterations, groups are numbered from 1, one group without overlap, gathers overlap only where
reductions do (`arguments.py` checks it), and weight gradients are split off only where reductions overlap (the other case is finding 2).
The proofs about the hand-off use `WorldAssumption` (some stage, some replica, some call of an evaluation) and
`ConfigsAssumption` of `ScheduleHandoff`: the command line is of its type, with a profile iteration, and a delay is not called what the model
calls a schedule made for no delay. A negative profile iteration, which turns profiles and updates off, is outside.
Those about the iterator use `SizesAssumption` of `MicrobatchIterator`: some microbatch and some sample in it, as many sizes as microbatches, orders
of forwards that name microbatches, and None not a batch.

**`TypeCorrect`: `Spec => []TypeOK`.** `TypeOK` is inductive. One lemma per action; the facts about `Act`,
`Grad` and `GetOrSet` that all of them need come first.

**`DeliversOwn`: `Spec => []ReceivesOwn`, and `LeavesNothing`: `Spec => []NoLeftover`, assuming
`PlansMatch`.** `PlansMatch` says that for each rank and direction the sends of the rank's plan
and the waits of its neighbour's plan pair off one to one, in the same order, with matching task type,
microbatch and stage. It is an assumption of the theorems, not of the module: it holds for the plans of 1F1B,
GPipe, ZBH1 and Interleaved1F1B (`WaitsInSendOrder` in run `plans`) and fails for larger ZBV plans
(finding 1), where the conclusion fails as well. The theorems reduce a statement about all
interleavings of all ranks over all iterations, with evaluations of any size in between, to a statement about
two sequences.

Neither property is inductive: that the head of a channel is the right message depends on all that was
sent and taken before. The invariant `Delivery` says of each channel, from sender s to receiver r:

* `WasSent` - each message in flight was sent by an operation of s that s has passed and an evaluation
  does not skip, and holds its iteration and place;
* `InOrder` - messages are in the order of iteration and place;
* `NotReceived` - the wait that matches a message in flight is one r has not passed;
* `NoneLost` - a send that s has passed and whose matching wait r has not passed is in flight;
* `NoneInvented` - a wait that r has passed belongs to a send that s has passed.

A send appends at the end, and the order of s's plan gives `InOrder`; a wait takes the head, and
`HeadIsOwn` shows that the head is the match: the match is in flight or not yet sent, and any message
before it would have its wait earlier in r's plan, so passed. The groups matter too: `Channels`
shows that the channel of a send is the channel of exactly one (rank, direction) and of the opposite
receive, which is where the even number of ranks is used. `SameEffect` shows that an evaluation skips a
send exactly when it skips its wait. At the end of an iteration all of a rank's waits are passed, so
`NotReceived` gives `NoLeftover`.

**What the order of one plan adds: `PlansInOrder`.** The following theorems on the dispatcher assume, all but one besides `PlansMatch`, that each rank's plan is in order
by itself (`PlanInOrder` in `PlanMatching`): every task of every key once; a task after those whose results it uses, or after their
delivery; a send after its task, a gradient sent at most once; a local copy from the previous stage, an activation before its backward; no event of a
forward after its backward; the W tasks in the order of the backwards; the last microbatch of a chunk last. All are statements about one sequence. Run
`plans` checks them (`EventsInOrder`) for every plan of whole blocks it makes, larger than any the other runs can execute. A plan in a wave
has two chunks, as all that the code makes (`LastStage` assumes it). Together with `WaitsInSendOrder` the theorems turn what is cheap to check of a plan
into a statement about all its executions.

**`BuffersHoldTheirOwn`** (`RightTensors`) **and `NothingTakenAgain`** (the action property `ReleasedStayReleased`). A buffer is right
because of what was run on its key, so `TensorInv` ties its contents to that (`RanOne`: an operation for the key has been run in this iteration):

* `ActsInv` - once delivered, or computed, an activation is there until its backward; only a backward leaves None;
* `GradsInv` - the same of gradients; that of an input is there from its backward until it has been sent;
* `SendsInv` - only what was posted in this iteration has a send request, so `Deallocate` drops no gradient before its send;
* `MessagesInv` - a message holds the result of the task it was sent for.

`EventStep` does the buffers of all communication events at once, since every event allocates both. `WaitRecv` is where `Delivery` comes
in: the head of the channel is the match of the wait, so `MessagesInv` says what lands in the buffer. `FinishIteration` drops everything, and nothing
has been run.

**`HoldsOnlyWarmUp`** (`ActivationBound`) assumes `PlansInOrder` and, instead of `PlansMatch`, `PlansAlternate`: one chunk, and on rank d the forward of a microbatch
comes after the backward of the one `NumDev - d` before it (`Alternates`, which `EventsInOrder` includes for 1F1B and ZBH1). The invariant `HeldInv` says
that an activation is in its buffer only between the forward and the backward of its key: no event brings one back, and `clean_up` keeps none. So two that are held
are less than `NumDev - d` apart (`HeldClose`), and there are no more than that of such numbers (`Close`). For other schedules the bound does not hold.

**`OwnBlockIsOldest`** (`WgradBlockIsOwn`), **`ReducedWhole`** (`ReductionsCoverAll`), **`ReducedExactlyOnce`** (`ReducedOnce`). `StoreInv`: the blocks
in the store are those of the backwards run whose W tasks have not been, in the order of the backwards; so the head belongs to the next W
task (`HeadIsOwnBlock`), although the store is asked without a key. `GradInv`: a chunk's gradient holds exactly what its tasks have added, nothing is reduced before the last
microbatch's final task, and from then on its reduction covers all. `ReducedExactlyOnce` assumes `ReducesOnce`: overlapped reductions, or no rank splits
weight gradients off. The rest is finding 2, where the property fails.

**`ImplementsDataflow`: `Spec => Dataflow!Init /\ [][Dataflow!Next]_Computed`**, the safety part of `DataflowSpec`. `InComputed` turns the mapping
`Computed` into the tasks at places passed; a step adds its task if it is a compute task that is not skipped (`ComputedAdvance`), or nothing.
The task is one of the data flow (`TaskIsThere`); new, on all ranks, because no two (rank, chunk) have one stage (`StageOnce`, the injectivity
of the placements) (`TaskIsNew`); its inputs have been computed (`InputsThere`), on this rank by the order of the plan, on another because what was delivered was sent
(`NoneInvented`) and what is sent was computed before; and all tasks of its stage in earlier iterations have been (`EarlierThere`).

TLC checked each of these invariants on plans of 1F1B, ZBH1, Interleaved1F1B and ZBV with evaluations before the proof.

**`TrainsOnSameSamples`: `Spec => []SameSamples`.** For every set of command lines and of ranks, whatever writes
fail, and for any bounds on kills, signals and starts. `SameSamples` is not inductive: what a start resumes from is
on disk, written by an earlier start, and read after a kill at any step. The invariant `IInv` says

* `DirsInv` - a directory with a whole `common.pt` keeps in its arguments the number of samples that an uninterrupted job
  has consumed before its iteration (`Reached`). A kill inside the write leaves the file cut short, and a load refuses it;
* `JobInv` - a job that runs and is not about to load has consumed that number before `job.iter`;
* of `job.todo`: a `common.pt` still to be written is of the current iteration (`Steps`), so a save never stores the samples
  of one iteration under another's name; and an iteration is trained with the number of microbatches its samples call
  for, or after a `Rampup` still to come (`TrainReady`), although a load, an iteration and a save may lie in between.

The key lemma is `ReachedOnce`: if every iteration that ran is reached, and runs of one iteration are equal, then
the number of samples before an iteration is unique. So a start that resumes from an old checkpoint repeats iterations
with the same samples and adds nothing new to `ran` until it has caught up. There is one lemma per action; the facts
about sequences of steps come first. The finalization of an asynchronous save puts its steps in front of whatever is
left to do, which is why the invariant speaks of every step left and not of the first.

**`TypeCorrect`** (`TypeOK` of `Checkpointing`) adds `Bounds` to `IInv`: a "train" is left to do only while the job is unfinished, and every step left, call, directory
and tracker is of an iteration up to `train_iters`. So no start trains, saves or names an iteration beyond the last, whatever checkpoint it resumed
from. A finalization takes a result off a queue only if there is one (`filesystem_async.py:303` raises otherwise). TLC checked `Bounds` on run `checkpoints` before the proof.

**`TrackerNamesComplete`, `StartsFindCheckpoints`, `TrackerNeverGoesBack`** (`TrackerComplete`, `LoadsUnlessHit` and the
action property `NeverBack`), for every set of command lines and of ranks, any bounds on kills, signals and starts, and any failures of
synchronous writes, assuming `"async" \notin WritesFail`: no background write fails. The run
`checkpoints` has the same restriction; `checkpoints_async_failure` (finding 4) shows what goes wrong without it. A background write whose
directory is gone still fails.

None is inductive. The invariant `TInv` follows a save from its directory to the tracker:

* `TodoInv` - the steps left come in their order (`Chained`): each step of a save right after the one before it, on the same checkpoint;
  `StepOf` says of which iteration it is. With asynchronous saves nothing but a finalization writes the tracker, one at a time (`OneTracker`);
* `HeadInv` - the directory of the first of these steps holds the files that the steps before it write, of this start of the job
  (`Holds`, `FilesBefore`); at `common` it is empty;
* `CallsInv` - that of a call in the queue holds `common.pt` and the shards of the writers that ended;
* `FilesInv` - the files of a persistent directory are all of one start;
* `OrderInv` - tracker, finalizations left, calls in the queue and current iteration are in the order of their iterations. The end of a job drops
  what is not finalized, and a load starts from an iteration not before the tracker's;
* `NpInv` - unless a start ended in the middle of a save, the newest non-persistent directory is being written, or it is whole and the tracker
  names it; a cleanup only ever removes older ones (`RemovingInv`).

A non-persistent directory may be removed at any time once there is a newer one, so the first three parts speak of the directories that
are kept (`Kept`): the persistent ones and the newest other one. This is why the tracker of the non-persistent ones may for a moment name
a directory that is gone: `LoadsUnlessHit` is proved for the moment of the load, `TrackerComplete` always.
TLC checked `TInv` on run `checkpoints` before the proof.

**The five invariants of `ScheduleHandoff`**: `BarriersMeet`, `ProfilesAreWhole`, `RanksAgree`, `NoFileOfEarlierJob`,
`PlansFollowTheTest`, for any number of stages and replicas and every set of command lines. None is inductive: each says where two
ranks are, and what keeps them there is barriers that only count.

The barriers of a job are known from its command line: `Barriers` holds the iteration, call and place of each, and `Before` orders
the positions of ranks and barriers alike. The base invariant, `PlacesInv`, says that

* `AtPlace` - a rank is at a place its call has: an updating place in a call that updates (`Updates`), and so on; whether
  it has a profile and has made its only schedule (`generated`) follows from its position (`NeedsUpdateWhenDue` needs this);
* `Counted` - `arrived` is the number of barriers up to the rank's position, so equal counts mean equal barriers;
* `InStep` - no rank is past a barrier that another has not come to.

`Moves` is what all steps share: a step brings its rank to the next barrier at most. There is a lemma for each action that it
does; `MovesCount` and `MovesInStep` then give `Counted` and `InStep` at once. `InCall` turns `InStep` around: while a rank is between two barriers,
where can the others be? On this base stand

* `ProfileInv` - between the barriers of a profile the files are those of the call; what is concluded or read is of one call;
* `FileInv`, `NewInv` - a schedule file is open only while rank 0 writes it; ranks with the new schedule of one call have the same. A rank that loads finds the others
  that have it still at the barrier after (`TakenBefore`), with the contents of the file; a file of dynamic_mb that can be
  loaded is the one rank 0 has just written (`LoadedFromZero`), because rank 0 deleted it behind a barrier (`NoneTakesAtDeletion`);
* `StaleInv` - a file of an earlier job is there only until rank 0 comes to its first deletion;
* `PlanInv` - ranks that have come to the same updates have the same plan; `CurrentInv` - a plan is for its rank's iteration, unless the update is
  still to be done. A rank with its update to do is at most one barrier behind.

TLC checked the conjunction on run `handoff` before the proof.

**`TokensMeetLabelsHolds`, `StreamInStepHolds`, `PullsOnlyNeededHolds`** (`TokensMeetLabels`, `StreamInStep`, `PullsOnlyNeeded`), for any number of
readers, microbatches, samples and iterations, any orders of forwards and any mix of code paths. The hypothesis `SolutionsFit` says that each
solution of the solver is turned into as many positive sizes as there are microbatches, which sum up to an iteration (`Fit`). Run `microbatches` shows it for its solutions
(`SizesFit`); it fails for a solution that is off by more than the ten rounds of corrections that `get_microbatch_sizes` allows, where it
gives up ("safety").

The first half is about data. A batch is a run of consecutive samples (`Run`), so slicing and concatenating are arithmetic on where runs start and
end. `PiecesJoin` is the central lemma: the pieces of the bases from the first to the last that a microbatch needs, the first from its start, the last to its
end, concatenate to the run from start to end; `DivBounds` says where both lie. The three implementations come down to it
(`CutOutJoins`, `CutByRefillJoins`) or to one slice of everything (`CutByLegacyJoins`). Running sums and concatenation are
recursive functions, and what they compute is proved by induction over sets of naturals (`Induction`, from `WFMin` and
`NatLessThanWellFounded`).

The second half is the invariant `Inv`: of each reader (`ReaderOK`) that the batches it got are right, and how far it is, which
depends on its path:

* `EqualOK` - equal sizes: one base per forward, in order;
* `LazyOK` - the cache is the bases of the iteration up to the last that a microbatch so far needed, no further;
* `ChunksOK` - nothing is taken and cut, or everything.

`TokensMeetLabels` needs the position in the stream at the start of the iteration, and this is where the lemma `InStep` comes in: a reader that has got all
microbatches has taken exactly the bases of the iteration, on each path, because the last microbatch ends with the last base. TLC found `Inv` to hold
on run `microbatches` before the proof.

**`ParametersCurrent`** (`UsesCurrent`), **`GradientsReduced`** (`ReducesAll`), **`CollectivesAwaited`** (`NothingOutstanding`), **`NoAssertionFails`**
(`AssertionsHold`) and **`TypeCorrect`** of `GradientBuckets`, for any number of replicas and iterations, any models and groupings of their
parameters, any skipped updates, with gathers and reductions that overlap or not. The hypothesis `ProgramsInOrder` (`BucketPrograms`) is about the sequence of
one replica: gradients are zeroed first and the step comes after the end of the reductions (`Phases`); `no_sync` is left once, before the last microbatch's
backwards (`SyncsOnce`, `BackwardsOnce`); every microbatch adds to every gradient (`AllContribute`); a split schedule starts each
reduction once, after all weight gradients (`Starts`); groups are first used in the order in which `finish_param_sync` dispatches their gathers
(`HooksInOrder`); a use comes after a hook or a gather (`GatheredFirst`, `Gathers`). TLC evaluates it in run `buckets` (`MCInOrder`), for
more models, microbatches, warm-ups and evaluations than the run executes. It fails for the model of `buckets_use_order`, by `HooksInOrder`, and there the code
fails too (finding 5). It is a hypothesis, not a lemma, because `Program` is made by `FlattenSeq` and `SetToSortSeq`: what they compute for every model
takes an induction over data.

None of the four is inductive. The invariant `Inv` says what the bookkeeping of a replica is at its place in the program (`State`), group by group:

* `RegisterOK` - `is_last_microbatch` is unset exactly while `no_sync` is entered, and `params_with_grad` are the parameters whose
  backward of the last microbatch has been run;
* `ReduceOK`, `SyncOK`, `GatherOK` - when a handle may be there, and when it must: that of a reduction from the group's last gradient (or the start by a split
  schedule) to its `finish`; that of a gather from the hook of the group before to its own; `param_gather_dispatched` from then to the end of
  the reductions, or from the gather forced before an evaluation on (`Ahead`);
* `HandlesOK`, `PendingOK` - the handles are exactly the collectives a replica has launched and that have not executed, or are not yet waited
  for. This turns "no handle is there" into "all of it has executed";
* `SumsOK`, `GradsOK` - an executed reduction read every microbatch of every replica; a gradient holds as many as the program has added;
* `HeldOK` - a replica's own shard took every update; the others' as well wherever the parameters are gathered (`IsCurrent`).

What a reduction or a gather reads is on all replicas, so they must be compared: `AtSameReduction` says that all have got equally many reductions of each
group. A reduction executes for all at once, and a replica cannot come to the end of its iteration without its own, so no replica zeroes, updates or
steps ahead of what another's collective still has to read: this is where overlapped communication could go wrong, and no test of
one replica would show it. There is a lemma for each operation; `Execute` has one for gathers and one for reductions. TLC checked `Inv` on run `buckets` before the proof.

**Only model-checked.** The properties of plans and schedules for the sizes of `plans`, the hypotheses `PlansMatch`,
`PlansInOrder` and `PlansAlternate` among them; `SizesFit`, the hypothesis `SolutionsFit`; the hypothesis `ProgramsInOrder`;
`TensorsAndGradients` and `ActivationBound` of `MCSchedules`, which state for all schedules together what is proved of one
(`PipelineRuntime`'s). Out of the prover's reach: `Completes`, `Saved` and the liveness part of
`DataflowSpec` (fairness, ENABLED), and what the folds of the two searches, of `SolveDependencies`, of `Redistribute` and of `StoreAfter`
compute: the induction theorems on folds take operators as parameters. (Of recursive functions with a simple invariant it can be
proved, as in the iterator.)

## 6. Not modelled

* **Solver-based schedulers, cost integerisation, affine profiler**: what they yield is an external solver's or a measurement's.
  Their results go through the planner and the hand-off, which are modelled.
* **Latency injection**: delays on the GPU; they change when a step runs, never the order of a rank's steps.
* **Creation and warm-up of the extra process groups**: start-up code without a state after it. `SendGroup` and
  `RecvGroup` are the groups as created.
* **In the dispatcher**: subblock tasks (their plans and their store are checked in `plans`), profiling, microbatches of different sizes, and the
  flags at the boundary of data centres, which pick an implementation of the same transfer.
* **In the buckets**: `align_param_gather` and `overlap_param_gather_with_optimizer_step` (for the stock interleaved schedule), buffers of experts
  (a second set of groups with another process group), groups of fp8 parameters (buckets merged into one group).
* **In the checkpoints**: legacy and local checkpoints, release checkpoints and finetuning, what the tensors are and how they are
  sharded, `decrease_batch_size_if_needed`, `exit_duration_in_mins`. A removal of a directory is one step.
* **The stock pipeline schedules** (`schedules.py`), which the dispatcher replaces; models, tensor and expert parallelism, datasets,
  inference and tools: sequential numeric code, or code the fork does not run.

## 7. Plan

Done: the modules of section 2 and their runs; all safety properties of the dispatcher proved, and the safety
part of its refinement; the safety properties of the buckets and of the checkpoints; the invariants of the hand-off and of the iterator. Left:

1. `WaitsMatch`, `PlanInOrder` and `Alternates` for one-chunk schedules of any size, by induction as in the iterator.
2. `ProgramsInOrder` for models given as sequences of layers, with `Program` written as a recursive function.
3. Subblock tasks in the dispatcher.
