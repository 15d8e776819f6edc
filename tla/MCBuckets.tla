----------------------------- MODULE MCBuckets ------------------------------
(* Small models and schedules for GradientBuckets. *)
EXTENDS BucketPrograms

Task(type, mb) == [type |-> type, mb |-> mb]

NoPipeline(n) == [k \in 1 .. 2 * n |-> Task(IF k % 2 = 1 THEN "F" ELSE "B", (k + 1) \div 2)]
Warmup == <<Task("F", 1), Task("F", 2), Task("B", 1), Task("B", 2)>>
Split == <<Task("F", 1), Task("B", 1), Task("F", 2), Task("B", 2), Task("W", 1), Task("W", 2)>>

\* Three modules, the last used with a parameter of the first (a tied
\* embedding), in buckets filled from the last parameter on.
Tied == [modules |-> << <<1>>, <<2, 3>>, <<4, 1>> >>, group |-> <<3, 2, 2, 1>>]

\* A layer of two fused modules: the linear_proj (1) of the attention is
\* registered before its layer norm (2) and linear_qkv (3), and used after them;
\* then another layer norm (4), linear_fc1 (5) and linear_fc2 (6).  Every
\* weight ends a bucket.
Fused == [modules |-> << <<2, 3>>, <<1>>, <<4, 5>>, <<6>> >>, group |-> <<4, 4, 3, 3, 2, 1>>]

\* The same layer with layer norms (1, 4) that are modules of their own:
\* linear_proj (2) has a bucket for itself.
Unfused == [modules |-> << <<1>>, <<3>>, <<2>>, <<4>>, <<5>>, <<6>> >>, group |-> <<5, 4, 3, 3, 2, 1>>]

One == [modules |-> << <<1>>, <<2>> >>, group |-> <<1, 1>>]

With(model, tasks, overlap, gather, split, eval) ==
    [modules |-> model.modules, group |-> model.group, tasks |-> tasks,
     overlap |-> overlap, gather |-> gather, split |-> split, eval |-> eval]

MCConfigs ==
    { With(Tied, Warmup, TRUE, TRUE, FALSE, {1}),
      With(Tied, NoPipeline(1), TRUE, TRUE, FALSE, {}),
      With(Tied, Split, TRUE, TRUE, TRUE, {}),
      With(Fused, NoPipeline(2), TRUE, TRUE, FALSE, {1}),
      With(Fused, Split, TRUE, FALSE, TRUE, {}),
      With(Tied, Warmup, TRUE, FALSE, FALSE, {}),
      With(One, NoPipeline(2), FALSE, FALSE, FALSE, {}) }

MCUnfused == { With(Unfused, NoPipeline(2), TRUE, TRUE, FALSE, {}) }

\* The programs of these and of more models and schedules are in order, as the
\* theorems assume; those of MCUnfused are not.
InOrderConfigs ==
    MCConfigs
    \cup { With(model, tasks, TRUE, gather, FALSE, eval) :
              model \in {Tied, Fused, One}, tasks \in {NoPipeline(1), NoPipeline(3), Warmup},
              gather \in BOOLEAN, eval \in SUBSET (1 .. Iterations) }
    \cup { With(model, Split, TRUE, gather, TRUE, eval) :
              model \in {Tied, Fused, One}, gather \in BOOLEAN, eval \in SUBSET (1 .. Iterations) }
    \cup { With(One, tasks, FALSE, FALSE, FALSE, eval) :
              tasks \in {NoPipeline(1), NoPipeline(3), Warmup}, eval \in SUBSET (1 .. Iterations) }

ASSUME MCInOrder ==
    /\ \A c \in InOrderConfigs, i \in 1 .. Iterations : ProgramInOrder(c, i, Program(c, i))
    /\ \A c \in MCUnfused : ~HooksInOrder(c, Program(c, 1))
=============================================================================
