------------------------- MODULE PipelineSchedules -------------------------
(***************************************************************************)
(* The static pipeline schedules of pp_generator/pipeline.py: for every    *)
(* device, the order in which it runs its compute tasks.                   *)
(*                                                                         *)
(* A schedule is a function from devices 0 .. D-1 to sequences of tasks.   *)
(* A task is a forward (F), backward (B) or weight-gradient (W) step of a  *)
(* microbatch on a model chunk; `linked` says whether its TaskNode carries *)
(* a prev_device_task (TRUE for all but the first task of a device and,    *)
(* in ZBH1, the first backward).  `from` and `to` bound the subparts of the *)
(* block it computes.                                                      *)
(*                                                                         *)
(* D is the number of devices, N of microbatches, C of chunks per device.  *)
(***************************************************************************)
EXTENDS PlanMatching, SequencesExt

\* A whole block: the subparts 0 .. 1 of one.
NodeOf(type, mb, chunk, linked) ==
    [type |-> type, mb |-> mb, chunk |-> chunk, linked |-> linked, from |-> 0, to |-> 1]

\* The tasks of one type for the microbatches from .. to, in that order.
Run(type, from, to) ==
    [i \in 1 .. (to - from + 1) |-> NodeOf(type, from + i - 1, 0, TRUE)]

\* The first task of a device has no predecessor on the device.
Unlinked(tasks) == [tasks EXCEPT ![1].linked = FALSE]

-----------------------------------------------------------------------------
(* One chunk per device: GPipe, 1F1B, ZBH1.                                *)

GPipe(D, N) ==
    [d \in 0 .. D-1 |-> Unlinked(Run("F", 0, N-1) \o Run("B", 0, N-1))]

\* Faults: one forward too many ahead; the last backwards newest first.
Ahead_OneMore(D, d) == D - d
Drain_NewestFirst(ahead, N) == Reverse(Run("B", N - ahead, N - 1))

\* The forwards device d runs ahead of its first backward, and the backwards
\* that are left over for the end.
Ahead(D, d) == D - d - 1
Drain(ahead, N) == Run("B", N - ahead, N - 1)

\* Device d runs some forwards ahead, then alternates, then drains.
OneFOneB(D, N) ==
    [d \in 0 .. D-1 |->
        LET ahead  == Ahead(D, d)
            steady == [i \in 1 .. (N - ahead) |->
                          <<NodeOf("F", ahead + i - 1, 0, TRUE),
                            NodeOf("B", i - 1, 0, TRUE)>>]
        IN  Unlinked(Run("F", 0, ahead - 1) \o FlattenSeq(steady)
                        \o Drain(ahead, N))]

\* As 1F1B, with the weight gradients d microbatches behind the backwards.
ZBH1(D, N) ==
    [d \in 0 .. D-1 |->
        LET ahead  == Ahead(D, d)
            rest   == N - ahead
            steady == [i \in 1 .. rest |->
                          <<NodeOf("F", ahead + i - 1, 0, TRUE),
                            NodeOf("B", i - 1, 0, i > 1)>>
                          \o IF i - 1 >= d THEN Run("W", i - 1 - d, i - 1 - d) ELSE <<>>]
            drain  == [i \in 1 .. ahead |->
                          <<NodeOf("B", rest + i - 1, 0, TRUE)>>
                          \o IF rest - d + i - 1 < N
                             THEN Run("W", rest - d + i - 1, rest - d + i - 1) ELSE <<>>]
        IN  Unlinked(Run("F", 0, ahead - 1) \o FlattenSeq(steady)
                        \o FlattenSeq(drain) \o Run("W", N - d, N - 1))]

-----------------------------------------------------------------------------
(* C chunks per device, visited in a loop: Interleaved1F1B.  The k-th      *)
(* forward of a device takes D microbatches through a chunk before it      *)
(* moves to the next chunk; the k-th backward goes through the chunks in   *)
(* reverse.                                                                *)

Interleaved1F1B(D, N, C) ==
    LET mb(k)    == ((k \div (C * D)) * D) + (k % D)
        chunk(k) == (k % (C * D)) \div D
        fw(k)    == NodeOf("F", mb(k), chunk(k), TRUE)
        bw(k)    == NodeOf("B", mb(k), C - 1 - chunk(k), TRUE)
    IN  [d \in 0 .. D-1 |->
            LET ahead == 2 * (D - d - 1) + (C - 1) * D
                total == C * N
            IN  Unlinked([i \in 1 .. ahead |-> fw(i - 1)]
                  \o FlattenSeq([i \in 1 .. (total - ahead) |->
                                    <<fw(ahead + i - 1), bw(i - 1)>>])
                  \o [i \in 1 .. ahead |-> bw(total - ahead + i - 1)])]

-----------------------------------------------------------------------------
(* The direction of a transfer.                                            *)

\* is_send_to_next_rank: 0 on the same device, 1 for the pair of groups
\* send_next/recv_prev, -1 for send_prev/recv_next.
SendToNextRank(template, type, chunk, src, dst) ==
    IF src = dst THEN 0
    ELSE LET up == IF template = "wave" /\ chunk % 2 = 1 THEN "B" ELSE "F"
         IN  IF type = up THEN 1 ELSE -1
=============================================================================
