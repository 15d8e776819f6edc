------------------------- MODULE ExecutionPlanner --------------------------
(***************************************************************************)
(* From a schedule to what every rank executes: the simulated start and    *)
(* completion times (Pipeline.solve_dependencies) and the communication    *)
(* events the ExecutionPlanner puts around the compute tasks.              *)
(*                                                                         *)
(* A pipeline p is a record                                                *)
(*   template  "loop" or "wave"                                            *)
(*   D, C      devices, chunks per device                                  *)
(*   parts     subparts of a block (1 unless the schedule is "subud")      *)
(*   sched     the schedule (see PipelineSchedules)                        *)
(*   cost      by device, time of a task of each type F, B, W              *)
(*   alpha     by link, latency of a transfer                              *)
(*   beta      by link, the time a transfer occupies it (0 in the default  *)
(*             static configurations)                                      *)
(*   two_dc    the devices are split over two data centres                 *)
(* A task is named by its place <<d, i>>: the i-th task of device d.       *)
(***************************************************************************)
EXTENDS UDSubSchedule

Node(p, t) == p.sched[t[1]][t[2]]

StageIn(p, t) == StageOf(p.template, p.D, t[1], Node(p, t).chunk)

FinalStage(p) == p.C * p.D - 1

Places(p) == UNION {{d} \X DOMAIN p.sched[d] : d \in 0 .. p.D-1}

\* _resolve_batch_dependency links the tasks of a microbatch: its forwards
\* through the stages in order, then its backwards through them in reverse.
\* Subparts of a block that are separate tasks follow one another.  W tasks
\* are not linked.
IsPrevMbTask(p, s, t) ==
    LET a == Node(p, s)  b == Node(p, t)
        stage == StageIn(p, s)
        nextBlock == CASE a.type = "F" /\ b.type = "F" -> StageIn(p, t) = stage + 1
                       [] a.type = "B" /\ b.type = "B" -> StageIn(p, t) = stage - 1
                       [] a.type = "F" /\ b.type = "B" ->
                             stage = FinalStage(p) /\ StageIn(p, t) = FinalStage(p)
                       [] OTHER -> FALSE
        sameBlock == a.type = b.type /\ a.type # "W" /\ StageIn(p, t) = stage
    IN  /\ a.mb = b.mb
        /\ \/ sameBlock /\ b.from = a.to
           \/ nextBlock /\ a.to = p.parts /\ b.from = 0

\* The pipeline with the prev_microbatch_task and the next_microbatch_task of
\* every task, as sets: empty for None.
ResolveBatchDependency(p) ==
    LET places == Places(p)
        linked(prev, next) ==
            [f \in DOMAIN p \cup {"prev", "next"} |->
                CASE f = "prev" -> prev [] f = "next" -> next [] OTHER -> p[f]]
        prev == [t \in places |-> {s \in places : IsPrevMbTask(p, s, t)}]
        next(of) == [s \in places |-> {t \in places : s \in of[t]}]
    IN  Once(LAMBDA of : linked(of, next(of)), prev)

PrevMbTask(p, t) == p.prev[t]
NextMbTask(p, t) == p.next[t]

-----------------------------------------------------------------------------
(* Times.  solve_dependencies visits the devices round-robin and times the *)
(* next task of a device once its predecessors are timed.                  *)

\* When the task before task i of d on the device ends.
DeviceFree(p, time, d, i) == IF p.sched[d][i].linked THEN time[d][i - 1].end ELSE 0

\* _get_execution_time.
ExecutionTime(p, d, n) == (p.cost[d][n.type] \div p.parts) * (n.to - n.from)

\* The link a transfer occupies.  With the devices split over two data centres
\* the two ends of a loop share the link between the centres.
LinkFor(p, d, e) ==
    LET half == p.D \div 2
    IN  CASE p.two_dc /\ p.C > 1 /\ d = 0 /\ e = p.D - 1 -> <<half - 1, half>>
          [] p.two_dc /\ p.C > 1 /\ d = p.D - 1 /\ e = 0 -> <<half, half - 1>>
          [] OTHER -> <<d, e>>

\* One visit to device d; in w, `tasks` maps a device to the [start, end] of
\* the tasks timed so far and `busy` a link to the intervals it is occupied in.
TimeNextTask(p, w, d) ==
    LET time   == w.tasks
        i      == Len(time[d]) + 1
        n      == p.sched[d][i]
        solved == i <= Len(p.sched[d])
                    /\ \A s \in PrevMbTask(p, <<d, i>>) : s[2] <= Len(time[s[1]])
        ended(s) == time[s[1]][s[2]].end
        remote == {s \in PrevMbTask(p, <<d, i>>) : s[1] # d}
        sent(s) == Transfer(w.busy[LinkFor(p, s[1], d)], ended(s), p.beta[<<s[1], d>>])
        onMb   == {ended(s) : s \in PrevMbTask(p, <<d, i>>) \ remote}
                    \cup {ended(s) + p.alpha[<<s[1], d>>] + sent(s).takes : s \in remote}
        start  == Max({DeviceFree(p, time, d, i)} \cup onMb)
        links  == {LinkFor(p, s[1], d) : s \in remote}
    IN  IF solved
        THEN [tasks |-> [time EXCEPT ![d] = Append(@, [start |-> start,
                             end |-> start + ExecutionTime(p, d, n)])],
              busy |-> [l \in DOMAIN w.busy |->
                           IF l \in links THEN sent(CHOOSE s \in remote : TRUE).occupied
                           ELSE w.busy[l]]]
        ELSE w

\* The first task of device 0 is timed before the rounds; then the devices are
\* visited in turn, from 0 to D-1, until every task is timed, which takes at
\* most D rounds over the devices for each task of a device.
Timing(p) ==
    LET none  == [tasks |-> [d \in 0 .. p.D-1 |-> <<>>], busy |-> [l \in Links(p.D) |-> <<>>]]
        turns == [j \in 1 .. p.D * p.D |-> (j - 1) % p.D]
        done(w) == \A d \in 0 .. p.D-1 : Len(w.tasks[d]) = Len(p.sched[d])
        round(w, k) == IF done(w) THEN w
                       ELSE Fold(LAMBDA now, d : TimeNextTask(p, now, d), w, turns)
    IN  Fold(round, TimeNextTask(p, none, 0), Up(1, Max({Len(p.sched[d]) : d \in 0 .. p.D-1})))

SolveDependencies(p) == Timing(p).tasks

-----------------------------------------------------------------------------
(* Events.                                                                 *)

EventOf(op, type, mb, chunk, from) ==
    [op |-> op, type |-> type, mb |-> mb, chunk |-> chunk, from |-> from]

\* +1, -1 or 0 as is_send_to_next_rank, for the transfer s -> t.
Direction(p, s, t) ==
    SendToNextRank(p.template, Node(p, s).type, Node(p, s).chunk, s[1], t[1])

LocalCopyEvents(p, t) ==
    LET n    == Node(p, t)
        here == {s \in PrevMbTask(p, t) :
                    s[1] = t[1] /\ Node(p, s).type = n.type /\ Node(p, s).to = p.parts}
    IN  SetToSeq({EventOf("LOCAL_COPY", n.type, n.mb, n.chunk, Node(p, s).chunk) : s \in here})

\* The input of t comes from the previous rank (dir = 1) or from the next rank
\* (dir = -1).
Receives(p, t, dir) == \E s \in PrevMbTask(p, t) : Direction(p, s, t) = dir

Post(p, t) ==
    LET n  == Node(p, t)
        to == {Direction(p, t, s) : s \in NextMbTask(p, t)} \ {0}
    IN  SetToSeq({EventOf(IF dir = 1 THEN "POST_SEND_NEXT" ELSE "POST_SEND_PREV",
                          n.type, n.mb, n.chunk, -1) : dir \in to})

\* When the data that task i of d receives is ready at its sender.
SentAt(p, time, d, i) ==
    LET s == CHOOSE s \in PrevMbTask(p, <<d, i>>) : TRUE IN time[s[1]][s[2]].end

\* Fault: the search starts at the last task of the device.
PostedBefore_FromLast(p, time, d, i) ==
    Max({j \in DOMAIN time[d] : \/ time[d][j].start <= SentAt(p, time, d, i)
                                \/ ~p.sched[d][j].linked})

\* The receive of task i is posted before task j: j is found by walking back
\* from i along prev_device_task until a task starts no later than the send.
PostedBefore(p, time, d, i) ==
    Max({j \in 1 .. i : \/ time[d][j].start <= SentAt(p, time, d, i)
                        \/ ~p.sched[d][j].linked})

PostRecvs(p, time, d, j, dir) ==
    LET posted == {i \in DOMAIN p.sched[d] :
                      Receives(p, <<d, i>>, dir) /\ PostedBefore(p, time, d, i) = j}
        sent(i) == SentAt(p, time, d, i)
        order  == SetToSortSeq(posted, LAMBDA a, b : \/ sent(a) < sent(b)
                                                     \/ sent(a) = sent(b) /\ a < b)
    IN  [k \in DOMAIN order |->
            LET n == p.sched[d][order[k]]
            IN  EventOf(IF dir = 1 THEN "POST_RECV_PREV" ELSE "POST_RECV_NEXT",
                        n.type, n.mb, n.chunk, -1)]

WaitRecvEvents(p, t) ==
    LET n == Node(p, t)
        wait(op, dir) == IF Receives(p, t, dir)
                         THEN <<EventOf(op, n.type, n.mb, n.chunk, -1)>> ELSE <<>>
    IN  wait("WAIT_RECV_PREV", 1) \o wait("WAIT_RECV_NEXT", -1)

Pre(p, time, t) ==
    LocalCopyEvents(p, t) \o PostRecvs(p, time, t[1], t[2], 1)
        \o PostRecvs(p, time, t[1], t[2], -1) \o WaitRecvEvents(p, t)

-----------------------------------------------------------------------------
(* What device d runs in one iteration: for every task its pre-events, the *)
(* compute step, its post-events and the deallocation pass that follows.   *)

PlanFor(p, time) ==
    LET step(op, n) == <<EventOf(op, n.type, n.mb, n.chunk, -1)>>
        task(t) == Pre(p, time, t) \o step("COMPUTE", Node(p, t))
                      \o Post(p, t) \o step("DEALLOCATE", Node(p, t))
    IN  [d \in 0 .. p.D-1 |-> FlattenSeq([i \in DOMAIN p.sched[d] |-> task(<<d, i>>)])]

ExecutionPlan(pipeline) ==
    Once(LAMBDA p : Once(LAMBDA time : PlanFor(p, time), SolveDependencies(p)), pipeline)

-----------------------------------------------------------------------------
(* get_default_static_schedule: each schedule with its template and costs. *)

StaticPipeline(name, D, N) ==
    LET pipeline(template, C, sched, f, b, w) == Once(ResolveBatchDependency,
            [template |-> template, D |-> D, C |-> C, parts |-> 1, sched |-> sched,
             cost |-> [d \in 0 .. D-1 |-> [F |-> f, B |-> b, W |-> w]],
             alpha |-> [l \in Links(D) |-> 0], beta |-> [l \in Links(D) |-> 0],
             two_dc |-> FALSE,
             mem |-> [d \in 0 .. D-1 |-> [F |-> 2, B |-> -1, W |-> -1]],
             limit |-> [d \in 0 .. D-1 |-> D * 4]])
    IN  CASE name = "1F1B"  -> pipeline("loop", 1, OneFOneB(D, N), 20, 40, 0)
          [] name = "GPipe" -> pipeline("loop", 1, GPipe(D, N), 20, 40, 0)
          [] name = "ZBH1"  -> pipeline("loop", 1, ZBH1(D, N), 10, 10, 10)
          [] name = "ZBV"   -> pipeline("wave", 2, ZBV(D, N), 10, 10, 10)
          [] name = "Interleaved1F1B" ->
                pipeline("loop", 2, Interleaved1F1B(D, N, 2), 10, 20, 0)

\* The pipeline of the subblock schedule for a profiled system g.
SubPipelineOf(g) == Once(ResolveBatchDependency,
    [template |-> "loop", D |-> g.D, C |-> 1, parts |-> g.parts,
     sched |-> Once(LAMBDA s : UDTasks(g, s), Search(g)),
     cost |-> g.cost, alpha |-> g.alpha, beta |-> g.beta, two_dc |-> FALSE,
     mem |-> g.mem, limit |-> g.limit])
=============================================================================
