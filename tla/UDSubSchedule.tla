--------------------------- MODULE UDSubSchedule ----------------------------
(***************************************************************************)
(* The greedy search for a schedule of subblocks                           *)
(* (pp_generator/heuristic_ud_subschedule.py), run by every rank after the *)
(* profile iteration when dynamic_schedule is "subud".  One chunk per      *)
(* device; every F, B and W block is cut into `parts` subparts.            *)
(*                                                                         *)
(* g is the profiled system (a SystemConfig made integer):                 *)
(*   D, N, parts   devices, microbatches, subparts of a block              *)
(*   cost, mem     by device and type of block: time, change of memory     *)
(*   limit         by device: the memory it may use                        *)
(*   alpha, beta   by link <<d, e>>: latency and time on the link          *)
(* s is the state of the search:                                           *)
(*   dev    by device, [ready, done, mem, last]: the nodes that may be     *)
(*          scheduled, those that are, the memory in use and the type of   *)
(*          the last F or B block that is complete                         *)
(*   busy   by link, the intervals it is occupied in                       *)
(* A node is one subpart, `from` .. from + 1, of a block; `at` is when its *)
(* input is there.                                                         *)
(***************************************************************************)
EXTENDS ZBVHeuristic, BandwidthDelay

Links(D) == (0 .. D-1) \X (0 .. D-1)

SubNode(type, mb, from, at) == [type |-> type, mb |-> mb, from |-> from, to |-> from + 1, at |-> at]

EndTime(v) == IF v.done = <<>> THEN 0 ELSE Last(v.done).end

\* Fault: the memory in use is not counted.
Fits_Alone(g, d, v, type) == g.mem[d][type] \div g.parts <= g.limit[d]

\* F_mem_allowed, B_mem_allowed.
Fits(g, d, v, type) == v.mem + (g.mem[d][type] \div g.parts) <= g.limit[d]

\* tear_down_phase: the last forward of the device is scheduled.
TearDown(g, v) ==
    \E k \in DOMAIN v.done :
        v.done[k].type = "F" /\ v.done[k].mb = g.N - 1 /\ v.done[k].to = g.parts

\* node_priority, the ratios of the last case with their denominators cleared.
Priority(g, d, v) ==
    LET rank(f, b, w) == [F |-> f, B |-> b, W |-> w]
        F == Fits(g, d, v, "F")
        B == Fits(g, d, v, "B")
    IN  CASE ~F /\ ~B -> rank(0, 1, 2)
          [] (F \/ B) /\ TearDown(g, v) -> rank(0, 2, 1)
          [] B /\ v.last = "F" /\ ~TearDown(g, v) -> rank(1, 2, 0)
          [] F /\ ~B /\ v.last = "F" /\ ~TearDown(g, v) -> rank(1, 0, 2)
          [] F /\ v.last = "B" /\ ~TearDown(g, v) -> rank(2, 1, 0)
          [] B /\ ~F /\ v.last = "B" /\ ~TearDown(g, v) ->
                rank(0, -g.mem[d].B * g.cost[d].W, -g.mem[d].W * g.cost[d].B)

\* The nodes to choose from: those that fit and whose input is there; if there
\* are none, the one that fits whose input is there first.
Candidates(g, d, v) ==
    LET fits == {i \in DOMAIN v.ready : Fits(g, d, v, v.ready[i].type)}
        now  == {i \in fits : v.ready[i].at <= EndTime(v)}
        soonest == {i \in fits : \A j \in fits :
                       \/ v.ready[i].at < v.ready[j].at
                       \/ v.ready[i].at = v.ready[j].at /\ i <= j}
    IN  IF now # {} THEN now ELSE soonest

\* _next_to_schedule: by priority, then the lower microbatch, then the node
\* that came first.  Empty for None.
NextToSchedule(g, d, v) ==
    LET cand == Candidates(g, d, v)
        prio == Priority(g, d, v)
        key(i) == prio[v.ready[i].type]
        before(i, j) == \/ key(i) > key(j)
                        \/ key(i) = key(j) /\ v.ready[i].mb < v.ready[j].mb
                        \/ key(i) = key(j) /\ v.ready[i].mb = v.ready[j].mb /\ i <= j
    IN  {i \in cand : \A j \in cand : before(i, j)}

\* When the next node of a device starts, as a set: empty for infinity.
NextTime(g, d, v) == {Max({v.ready[i].at, EndTime(v)}) : i \in NextToSchedule(g, d, v)}

-----------------------------------------------------------------------------

\* schedule_node: node i of the device is scheduled, and the next subpart of
\* its block becomes schedulable.
ScheduleNode(g, d, v, i) ==
    LET n == v.ready[i]
        whole == n.to = g.parts
        end == Max({n.at, EndTime(v)}) + (g.cost[d][n.type] \div g.parts)
        rest == IF whole THEN <<>> ELSE <<SubNode(n.type, n.mb, n.to, n.at)>>
    IN  [ready |-> RemoveAt(v.ready, i) \o rest,
         done |-> Append(v.done, [type |-> n.type, mb |-> n.mb, from |-> n.from,
                                  to |-> n.to, end |-> end]),
         mem |-> v.mem + (g.mem[d][n.type] \div g.parts),
         last |-> IF whole /\ n.type # "W" THEN n.type ELSE v.last]

\* _get_next_block.
NextBlock(g, d, type) ==
    CASE type = "F" /\ d < g.D - 1 -> {<<d + 1, "F">>}
      [] type = "F" /\ d = g.D - 1 -> {<<d, "B">>}
      [] type = "B" /\ d > 0 -> {<<d - 1, "B">>}
      [] OTHER -> {}

AddReady(s, d, n) == [s EXCEPT !.dev[d].ready = Append(@, n)]

\* The next block of the microbatch becomes schedulable on its device, when
\* its input has crossed the link.
SendOn(g, s, d, n, e, type) ==
    LET sent == Transfer(s.busy[<<d, e>>], n.end, g.beta[<<d, e>>])
    IN  IF e = d THEN AddReady(s, d, SubNode(type, n.mb, 0, 0))
        ELSE AddReady([s EXCEPT !.busy[<<d, e>>] = sent.occupied], e,
                      SubNode(type, n.mb, 0, n.end + sent.takes + g.alpha[<<d, e>>]))

\* What follows the last subpart of a block: after a backward its weight
\* gradient, and then the next block.
Follow(g, s, d) ==
    LET n == Last(s.dev[d].done)
        withW == IF n.type = "B" THEN AddReady(s, d, SubNode("W", n.mb, 0, 0)) ELSE s
        next == NextBlock(g, d, n.type)
    IN  IF n.to # g.parts THEN s
        ELSE IF next = {} THEN withW
        ELSE LET x == CHOOSE x \in next : TRUE IN SendOn(g, withW, d, n, x[1], x[2])

\* One turn of schedule(): the device that can start first, of equals the
\* first, schedules its next node.
ScheduleOne(g, s) ==
    LET time == [d \in 0 .. g.D-1 |-> NextTime(g, d, s.dev[d])]
        open == {d \in 0 .. g.D-1 : time[d] # {}}
        first == {d \in open : \A e \in open :
                     \/ Max(time[d]) < Max(time[e])
                     \/ Max(time[d]) = Max(time[e]) /\ d <= e}
    IN  IF open = {} THEN s
        ELSE LET d == CHOOSE d \in first : TRUE
                 i == CHOOSE i \in NextToSchedule(g, d, s.dev[d]) : TRUE
             IN  Once(LAMBDA t : Follow(g, t, d),
                      [s EXCEPT !.dev[d] = ScheduleNode(g, d, @, i)])

InitialSearch(g) ==
    [dev |-> [d \in 0 .. g.D-1 |->
                 [ready |-> IF d # 0 THEN <<>>
                            ELSE [k \in 1 .. g.N |-> SubNode("F", k - 1, 0, 0)],
                  done |-> <<>>, mem |-> 0, last |-> "F"]],
     busy |-> [l \in Links(g.D) |-> <<>>]]

\* Every turn schedules one of the D * N * 3 * parts subparts or changes nothing.
Search(g) == Fold(LAMBDA s, k : ScheduleOne(g, s), InitialSearch(g), Up(1, g.D * g.N * 3 * g.parts))

-----------------------------------------------------------------------------
(* merge_subparts.                                                         *)

\* Fault: a weight gradient passes the ends of blocks too.
FrontOf_PastBlocks(g, out) ==
    Max({0} \cup {k \in DOMAIN out : out[k].type = "W"}) + 1

\* A weight gradient goes to the front, until the end of a block or another
\* weight gradient.
FrontOf(g, out) ==
    Max({0} \cup {k \in DOMAIN out : out[k].type = "W" \/ out[k].to = g.parts}) + 1

MoveToFront(g, out, n) ==
    IF n.type = "W" THEN InsertAt(out, FrontOf(g, out), n) ELSE Append(out, n)

\* Subparts of a block that follow one another become one.
Merge(g, out, n) ==
    IF /\ out # <<>>
       /\ Last(out).to # g.parts
       /\ Last(out).mb = n.mb /\ Last(out).type = n.type
    THEN [out EXCEPT ![Len(out)].to = n.to]
    ELSE Append(out, n)

MergeSubparts(g, done) ==
    LET moved == Fold(LAMBDA out, n : MoveToFront(g, out, n), <<>>, done)
    IN  Fold(LAMBDA out, n : Merge(g, out, n), <<>>, moved)

\* The tasks of every device (DynZBUDSubPipeline.schedule).
UDTasks(g, s) ==
    LET task(n) == [NodeOf(n.type, n.mb, 0, TRUE) EXCEPT !.from = n.from, !.to = n.to]
        tasks(done) == Unlinked([k \in DOMAIN done |-> task(done[k])])
    IN  [d \in 0 .. g.D-1 |-> Once(tasks, MergeSubparts(g, s.dev[d].done))]
=============================================================================
