---------------------------- MODULE ZBVHeuristic ----------------------------
(***************************************************************************)
(* The greedy search for a ZBV schedule (pp_generator/zbv_heuristic.py).   *)
(* Two chunks per stage; a microbatch goes down the stages through chunk 0 *)
(* and back up through chunk 1, then the same way with its backwards.      *)
(*                                                                         *)
(* g is the graph and the parameters of one try:                           *)
(*   n_stage, n_micro, c_cost, max_mem, fill_f, fill_b, approved_bubble,   *)
(*   cost, mem   by category 0 (F), 1 (B), 2 (W)                           *)
(* s is the state of the try:                                              *)
(*   end_time    by node <<cat, chunk, stage, micro>>, -1 until it is put  *)
(*   count       by stage, of the nodes put by <<cat, chunk>>              *)
(*   cur_time, mem, stage_bubble, pending_w, schedule   by stage           *)
(*   ok          no assertion has failed                                   *)
(***************************************************************************)
EXTENDS PipelineSchedules, FiniteSetsExt

\* op(v).  TLC passes arguments by name and tabulates a function when it is
\* compared: written so, v and the result are evaluated once.
Once(op(_), v) == CHOOSE y \in {op(x) : x \in {v}} : y = y

Fold(step(_, _), s, seq) ==
    FoldLeft(LAMBDA now, x : Once(LAMBDA t : step(t, x), now), s, seq)

Stages(g) == 0 .. g.n_stage - 1
Up(from, to) == [k \in 1 .. to - from + 1 |-> from + k - 1]
Down(from, to) == [k \in 1 .. from - to + 1 |-> from - k + 1]

\* A while loop.  Every turn of one puts a node of some stage or, in
\* WarmUpLevel, changes the chunk; MaxTurns is more than any takes.
MaxTurns(g) == 2 * g.n_micro + 1
While(g, test(_), body(_), s) ==
    Fold(LAMBDA now, k : IF test(now) THEN body(now) ELSE now, s, Up(1, MaxTurns(g)))

\* The same step on the neighbouring stage that a node takes its input from.
FromNode(g, s, cat, chunk, i) ==
    LET at(stage) == {<<cat, chunk, stage, s.count[i][<<cat, chunk>>]>>}
    IN  CASE cat < 2 /\ chunk = 1 /\ i < g.n_stage - 1 -> at(i + 1)
          [] cat < 2 /\ chunk = 0 /\ i > 0 -> at(i - 1)
          [] OTHER -> {}

\* The step of the same microbatch that precedes it on the stage.
OwnPredecessor(cat, chunk, i, n) ==
    CASE cat = 2 -> {<<1, chunk, i, n>>}
      [] chunk = 1 -> {<<cat, 0, i, n>>}
      [] cat = 1 -> {<<0, 1, i, n>>}
      [] OTHER -> {}

Put(g, s, cat, chunk, i) ==
    LET n == s.count[i][<<cat, chunk>>]
        from == FromNode(g, s, cat, chunk, i)
        ok == /\ n < g.n_micro
              /\ s.mem[i] + g.mem[cat] <= g.max_mem
              /\ \A t \in from \cup OwnPredecessor(cat, chunk, i, n) : s.end_time[t] >= 0
        noBubble == s.cur_time[i] + g.cost[cat]
        end == Max({noBubble} \cup {s.end_time[t] + g.c_cost + g.cost[cat] : t \in from})
    IN  IF ~s.ok \/ ~ok THEN [s EXCEPT !.ok = FALSE]
        ELSE [s EXCEPT
                !.end_time[<<cat, chunk, i, n>>] = end,
                !.cur_time[i] = end,
                !.mem[i] = @ + g.mem[cat],
                !.stage_bubble[i] = @ + IF s.count[i][<<0, 0>>] > 0 THEN end - noBubble ELSE 0,
                !.schedule[i] = Append(@, <<cat, chunk, n>>),
                !.pending_w[i] = IF cat = 1 THEN Append(@, chunk) ELSE @,
                !.count[i][<<cat, chunk>>] = @ + 1]

PutW(g, s, i) ==
    IF s.pending_w[i] = <<>> THEN [s EXCEPT !.ok = FALSE]
    ELSE Put(g, [s EXCEPT !.pending_w[i] = Tail(@)], 2, Head(s.pending_w[i]), i)

\* get_max_stage_bubble(i)
MaxStageBubble(g, s, i) ==
    Max({0} \cup {s.stage_bubble[j] : j \in Stages(g)}
            \cup {Max({g.approved_bubble[j] : j \in Stages(g)}) - g.approved_bubble[i]})

-----------------------------------------------------------------------------
(* The warm-up: forwards only.                                             *)

WarmUpFirst(g, s0) ==
    LET placeF(s, i) ==
            LET tmp == s.end_time[<<0, 1, i + 1, 0>>] + g.c_cost
                room(t) == /\ t.ok
                           /\ t.mem[i] + g.mem[0] * (2 + i * 2) <= g.max_mem
                           /\ t.cur_time[i] + g.cost[0] <= tmp
                           /\ t.count[i][<<0, 0>>] < g.n_micro
                more(t) == Fold(LAMBDA u, j : Put(g, u, 0, 0, j), t, Up(0, i))
            IN  Put(g, IF i = g.n_stage - 1 THEN s ELSE While(g, room, more, s), 0, 1, i)
        first == Fold(LAMBDA s, i : Put(g, s, 0, 0, i), s0, Up(0, g.n_stage - 1))
    IN  Fold(placeF, first, Down(g.n_stage - 1, 0))

\* Stages level with their predecessor; the chunk alternates (iter_chunk_).
WarmUpLevel(g, s0) ==
    LET count(s, i) == s.count[i][<<0, 0>>] + s.count[i][<<0, 1>>]
        level(w, i) ==
            LET behind(v) ==
                    /\ v.s.ok
                    /\ \/ count(v.s, i) < count(v.s, i - 1)
                       \/ /\ v.s.count[i][<<0, 1>>] <= v.s.count[i - 1][<<0, 1>>]
                          /\ v.s.count[i - 1][<<0, 1>>] < g.n_micro
                put(v, t, j) == IF t.count[j][<<0, v.chunk>>] < g.n_micro
                                THEN Put(g, t, 0, v.chunk, j) ELSE t
                next(v) == [s |-> Fold(LAMBDA t, j : put(v, t, j), v.s, Down(g.n_stage - 1, i)),
                            chunk |-> 1 - v.chunk]
            IN  While(g, behind, next, w)
    IN  Fold(level, [s |-> s0, chunk |-> 0], Up(1, g.n_stage - 1)).s

-----------------------------------------------------------------------------
(* The rounds: a backward and then a forward on every stage.               *)

\* Pending weight gradients fill the time until the input of the next step
\* is there, and one more goes in if waiting would grow the bubble.  Without
\* an input the code reads end_time[-1]: that of the last node.
FillBubble(g, s0, cat, chunk, i, fill) ==
    LET from == FromNode(g, s0, cat, chunk, i)
        input == CHOOSE t \in IF from # {} THEN from
                              ELSE {<<2, 1, g.n_stage - 1, g.n_micro - 1>>} : TRUE
        idle(s) == /\ s.ok /\ s.pending_w[i] # <<>> /\ from # {}
                   /\ s.end_time[input] + g.c_cost >= s.cur_time[i] + g.cost[2]
        s1 == While(g, idle, LAMBDA s : PutW(g, s, i), s0)
        wide(s) == /\ s.pending_w[i] # <<>>
                   /\ s.end_time[input] + g.c_cost - s.cur_time[i]
                         > MaxStageBubble(g, s, i) - s.stage_bubble[i]
    IN  Once(LAMBDA s : IF wide(s) /\ fill THEN PutW(g, s, i) ELSE s, s1)

MakeRoom(g, s, cat, i) ==
    While(g, LAMBDA t : t.ok /\ t.mem[i] + g.mem[cat] > g.max_mem, LAMBDA t : PutW(g, t, i), s)

\* The stages whose next backward is of chunk 1.
B1Ranks(g, s) ==
    {i \in Stages(g) :
        LET n == s.count[i][<<1, 0>>]  m == s.count[i][<<1, 1>>]
        IN  /\ m < n
            /\ i = g.n_stage - 1 \/ s.end_time[<<1, 1, i + 1, m>>] >= 0 \/ n >= g.n_micro}

PutB(g, s, chunk, i) ==
    Put(g, FillBubble(g, s, 1, chunk, i, chunk = 1 \/ g.fill_b), 1, chunk, i)

\* The chunk whose forward stage i can put next; none if the set is empty.
PutItem(g, s, i) ==
    LET n0 == s.count[i][<<0, 0>>]  n1 == s.count[i][<<0, 1>>]
    IN  CASE n1 >= g.n_micro -> {}
          [] n1 >= n0 -> {0}
          [] i = g.n_stage - 1 -> {1}
          [] s.end_time[<<0, 1, i + 1, n1>>] >= 0 -> {1}
          [] n0 < g.n_micro /\ (i = 0 \/ s.end_time[<<0, 0, i - 1, n0>>] >= 0) -> {0}
          [] OTHER -> {}

PutF(g, s, chunk, i) ==
    Put(g, FillBubble(g, MakeRoom(g, s, 0, i), 0, chunk, i, g.fill_f), 0, chunk, i)

Round(g, s0) ==
    LET b1 == B1Ranks(g, s0)
        order == SelectSeq(Down(g.n_stage - 1, 0), LAMBDA i : i \in b1)
                 \o SelectSeq(Up(0, g.n_stage - 1), LAMBDA i : i \notin b1)
        backward(s, i) == IF s.ok THEN PutB(g, s, IF i \in b1 THEN 1 ELSE 0, i) ELSE s
        forward(s, i) == IF s.ok /\ PutItem(g, s, i) # {}
                         THEN PutF(g, s, CHOOSE c \in PutItem(g, s, i) : TRUE, i) ELSE s
    IN  Fold(forward, Fold(backward, s0, order), Up(0, g.n_stage - 1))

-----------------------------------------------------------------------------

InitialTry(g) ==
    [end_time |-> [t \in (0 .. 2) \X {0, 1} \X Stages(g) \X (0 .. g.n_micro - 1) |-> -1],
     count |-> [i \in Stages(g) |-> [c \in (0 .. 2) \X {0, 1} |-> 0]],
     cur_time |-> [i \in Stages(g) |-> 0],
     mem |-> [i \in Stages(g) |-> 0],
     stage_bubble |-> [i \in Stages(g) |-> 0],
     pending_w |-> [i \in Stages(g) |-> <<>>],
     schedule |-> [i \in Stages(g) |-> <<>>],
     ok |-> TRUE]

Try(g) ==
    LET room(s, i) == MakeRoom(g, s, 1, i)
        round(s, k) == Once(LAMBDA t : Round(g, t), Fold(room, s, Up(0, g.n_stage - 1)))
        drain(s, i) == While(g, LAMBDA t : t.ok /\ t.pending_w[i] # <<>>,
                             LAMBDA t : PutW(g, t, i), s)
        warm == WarmUpLevel(g, WarmUpFirst(g, InitialTry(g)))
    IN  Fold(drain, Fold(round, warm, Up(1, 2 * g.n_micro)), Up(0, g.n_stage - 1))

Bubble(g, s) == Max({0} \cup {s.stage_bubble[i] : i \in Stages(g)})

\* A try is repeated with its own bubbles approved as long as that makes the
\* largest bubble smaller.
TryVSchedule(g) ==
    LET again(s) == Try([g EXCEPT !.approved_bubble = s.stage_bubble])
        turn(w) == Once(LAMBDA t : IF Bubble(g, t) < Bubble(g, w.s)
                                   THEN [s |-> t, more |-> TRUE]
                                   ELSE [s |-> w.s, more |-> FALSE], again(w.s))
    IN  While(g, LAMBDA w : w.more, turn, [s |-> Try(g), more |-> TRUE]).s

\* get_v_schedule: the best of the four ways to fill, the first of equals.
GetVSchedule(g0) ==
    LET tries == << <<TRUE, TRUE>>, <<TRUE, FALSE>>, <<FALSE, TRUE>>, <<FALSE, FALSE>> >>
        try(x) == TryVSchedule([g0 EXCEPT !.fill_b = x[1], !.fill_f = x[2]])
        best(s, x) == Once(LAMBDA t : IF Bubble(g0, t) < Bubble(g0, s) THEN t ELSE s, try(x))
    IN  Fold(best, try(tries[1]), Tail(tries))

\* The graph of a pipeline of D stages and N microbatches with the default
\* ZBV configuration.
ZBVGraph(D, N) ==
    [n_stage |-> D, n_micro |-> N, c_cost |-> 0, max_mem |-> D * 4,
     cost |-> [c \in 0 .. 2 |-> 10], mem |-> [c \in 0 .. 2 |-> IF c = 0 THEN 2 ELSE -1],
     fill_f |-> TRUE, fill_b |-> TRUE, approved_bubble |-> [i \in 0 .. D-1 |-> -1]]

\* The chunk a backward or weight gradient is of counts from the other end.
ZBV(D, N) ==
    LET node(t) == NodeOf(<<"F", "B", "W">>[t[1] + 1], t[3],
                          IF t[1] = 0 THEN t[2] ELSE 1 - t[2], TRUE)
        toTasks(s) == [d \in 0 .. D-1 |->
                          Unlinked([k \in DOMAIN s.schedule[d] |-> node(s.schedule[d][k])])]
    IN  Once(toTasks, GetVSchedule(ZBVGraph(D, N)))
=============================================================================
