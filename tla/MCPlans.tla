------------------------------ MODULE MCPlans ------------------------------
(***************************************************************************)
(* The plans the planner makes of the default static schedules, of the     *)
(* subblock schedules for a range of profiled systems, and of interleaved  *)
(* schedules over two data centres: one state per schedule, size, rank and *)
(* direction.                                                              *)
(***************************************************************************)
EXTENDS ExecutionPlanner, WgradStore

CONSTANTS Schedules,    \* names of static schedules
          Devices,      \* pipeline sizes
          MaxMb,        \* bound on the microbatches: from one per device up
          ZBVMaxMb,     \* the same for ZBV, whose search is costly
          Units,        \* weight-gradient units of a block
          Planned       \* what the planner makes of each configuration

VARIABLES planned, rank, towards

Sizes == {z \in Devices \X (1 .. MaxMb) : z[2] >= z[1]}

\* The sizes the schedules accept: 1F1B and ZBH1 assert, and Interleaved1F1B's
\* arithmetic supposes, that the devices divide the microbatches; the latter
\* also asserts that there are enough for the warm-up of device 0.
Configs ==
    {c \in Schedules \X Sizes :
        LET D == c[2][1]  N == c[2][2]
        IN  /\ c[1] \in {"1F1B", "ZBH1", "Interleaved1F1B"} => N % D = 0
            /\ c[1] = "Interleaved1F1B" => 2 * (D - 1) + D <= 2 * N
            /\ c[1] = "ZBV" => N <= ZBVMaxMb}

\* Profiled systems for the subblock schedule: devices of equal and of unequal
\* speed, backwards that free some memory or none, memory for one microbatch or
\* more, links from instant to slower than a block.
Fast == [F |-> 12, B |-> 12, W |-> 12]
Slow == [F |-> 24, B |-> 36, W |-> 18]
UDSystems ==
    LET system(D, N, parts, cost, mem, room, alpha, beta) ==
            [D |-> D, N |-> N, parts |-> parts, cost |-> cost,
             mem |-> [d \in 0 .. D-1 |-> mem], limit |-> [d \in 0 .. D-1 |-> room],
             alpha |-> [l \in Links(D) |-> alpha], beta |-> [l \in Links(D) |-> beta]]
        releasing == [F |-> 12, B |-> -6, W |-> -6]
        keeping == [F |-> 12, B |-> 0, W |-> -12]
    IN  {system(2, 4, parts, cost, mem, room, alpha, beta) :
            parts \in {1, 2, 3}, cost \in [0 .. 1 -> {Fast, Slow}],
            mem \in {releasing, keeping}, room \in {12, 30}, alpha \in {0, 9}, beta \in {0, 15}}
        \cup {system(4, 4, 2, [d \in 0 .. 3 |-> IF d = 1 THEN Slow ELSE Fast],
                     releasing, room, 9, beta) : room \in {24, 42}, beta \in {6, 27}}

\* Two data centres of two devices, one of them slow: transfers over the link
\* between them are simulated in another order than they are sent.
TwoCentres(p) ==
    [p EXCEPT !.two_dc = TRUE,
              !.cost[2] = [F |-> 37, B |-> 50, W |-> 0],
              !.alpha = [l \in Links(4) |-> IF (l[1] < 2) = (l[2] < 2) THEN 0 ELSE 3],
              !.beta = [l \in Links(4) |-> IF (l[1] < 2) = (l[2] < 2) THEN 0 ELSE 9]]

\* A configuration with its pipeline, the simulated timing and the plans.
MCPlanned ==
    LET of(name, p, N) ==
            LET with(w) == [schedule |-> name, D |-> p.D, N |-> N, pipeline |-> p,
                            times |-> w.tasks, busy |-> w.busy, plans |-> PlanFor(p, w.tasks)]
            IN  Once(with, Timing(p))
        plan(name, pipeline, N) == Once(LAMBDA p : of(name, p, N), pipeline)
    IN  {plan(c[1], StaticPipeline(c[1], c[2][1], c[2][2]), c[2][2]) : c \in Configs}
        \cup {plan("subud", SubPipelineOf(g), g.N) : g \in UDSystems}
        \cup {plan("TwoDC", TwoCentres(StaticPipeline("Interleaved1F1B", 4, N)), N) : N \in {8, 12}}

Times == planned.times
Plans == planned.plans
Template == planned.pipeline.template

Init == /\ planned \in Planned
        /\ rank \in 0 .. planned.D - 1
        /\ towards \in Dir
Next == UNCHANGED <<planned, rank, towards>>
Spec == Init /\ [][Next]_<<planned, rank, towards>>

PostsInSendOrder == PostsMatch(Template, planned.D, Plans, rank, towards)

\* The planner does not ensure it for ZBV.
WaitsInSendOrder ==
    planned.schedule # "ZBV" => WaitsMatch(Template, planned.D, Plans, rank, towards)

\* Every receive is posted for exactly one send of the neighbour, and the
\* receives of a channel are posted in the order of its sends ("sort the
\* tasks by send time, to avoid deadlock in each of four channels"); they are
\* also waited for in that order, which is what a runtime that posts them
\* only at the wait depends on.
ReceivesInSendOrder == PostsInSendOrder /\ WaitsInSendOrder

\* A receive is posted before it is waited for.  The plan of a rank that runs
\* whole blocks is in order by itself: every task once and after the tasks and
\* deliveries it uses, a result sent or copied once it is computed and no
\* activation asked for after its release, weight gradients in the order of
\* the backwards, and each chunk's gradient finished by its last microbatch.
\* 1F1B and ZBH1 hold no more microbatches than the warm-up runs ahead and one.
Before(plan, a, b) ==
    \A q \in PlacesOf(plan, b) : \E p \in 1 .. q - 1 :
        /\ plan[p].op = a
        /\ <<plan[p].type, plan[p].mb, plan[p].chunk>> = <<plan[q].type, plan[q].mb, plan[q].chunk>>
EventsInOrder ==
    LET p == planned.pipeline
    IN  /\ Before(Plans[rank], PostRecvOp(towards), WaitRecvOp(towards))
        /\ p.parts = 1 => PlanInOrder(Template, planned.D, p.C, planned.N, rank, Plans[rank])
        /\ planned.schedule \in {"1F1B", "ZBH1"} =>
              Alternates(Plans[rank], planned.N, planned.D - rank)

\* A device runs every forward and backward of its chunks exactly once, and
\* either every weight gradient or, where they are not split off, none; the
\* subparts of a block in order and a weight gradient after its backward.  The
\* greedy searches for ZBV and subblock schedules come to an end without
\* failing an assertion or leaving a node out, and merge_subparts moves no
\* subpart past one it depends on.
EveryTaskOnce ==
    LET p == planned.pipeline
        tasks == p.sched[rank]
        types == IF planned.schedule \in {"ZBH1", "ZBV", "subud"} THEN {"F", "B", "W"}
                 ELSE {"F", "B"}
        of(type, mb, chunk) ==
            SelectSeq(tasks, LAMBDA n : n.type = type /\ n.mb = mb /\ n.chunk = chunk)
        whole(q) == /\ q # <<>> /\ q[1].from = 0 /\ Last(q).to = p.parts
                    /\ \A k \in 1 .. Len(q) - 1 : q[k].to = q[k + 1].from
    IN  /\ \A type \in types, mb \in 0 .. planned.N - 1, chunk \in 0 .. p.C - 1 :
              whole(of(type, mb, chunk))
        /\ \A i \in DOMAIN tasks :
              /\ tasks[i].type \in types
              /\ tasks[i].type = "W" =>
                    \E j \in 1 .. i - 1 : /\ tasks[j].type = "B" /\ tasks[j].to = p.parts
                                          /\ tasks[j].mb = tasks[i].mb
                                          /\ tasks[j].chunk = tasks[i].chunk

\* In the simulated timing a device runs its tasks one after the other, though
\* ZBH1's first backward does not name the task before it on the device, and a
\* link carries one transfer at a time, also where the wrap-around of an
\* interleaved schedule shares the link between two data centres ("the time
\* range in link_occupancy is sorted").
OneAtATime ==
    /\ \A i \in 1 .. Len(Times[rank]) - 1 : Times[rank][i].end <= Times[rank][i + 1].start
    /\ \A l \in DOMAIN planned.busy : \A k \in 1 .. Len(planned.busy[l]) - 1 :
          planned.busy[l][k].to <= planned.busy[l][k + 1].from

\* The memory a device has in use after each of its tasks stays within the
\* limit the schedule was searched for, also once weight gradients have been
\* moved and subparts merged.
WithinMemory ==
    LET p == planned.pipeline
        change(n) == (p.mem[rank][n.type] \div p.parts) * (n.to - n.from)
        used(k) == FoldLeft(LAMBDA sum, n : sum + change(n), 0, SubSeq(p.sched[rank], 1, k))
    IN  planned.schedule \in {"ZBV", "subud"} =>
            \A k \in DOMAIN p.sched[rank] : used(k) <= p.limit[rank]

\* When the last W task of a microbatch is done, no weight gradient of it or of
\* an earlier one is left in the store, for any number of units in a block: so
\* none is left when the last one starts the gradient reduction.
WgradsComputed ==
    LET p == planned.pipeline
        tasks == p.sched[rank]
    IN  planned.schedule \in {"ZBH1", "subud"} =>
            \A i \in DOMAIN tasks, units \in Units :
                tasks[i].type = "W" /\ tasks[i].to = p.parts =>
                    \A k \in DOMAIN StoreAfter(tasks, i, p.parts, units) :
                        StoreAfter(tasks, i, p.parts, units)[k].mb > tasks[i].mb
=============================================================================
