--------------------------- MODULE BucketPrograms ---------------------------
(***************************************************************************)
(* When the program of a replica is in order: what the theorems about the  *)
(* buckets need of a model, of its grouping into buckets and of a schedule.*)
(* These are statements about one sequence, without any interleaving.      *)
(***************************************************************************)
EXTENDS GradientBuckets

Places(P, op, a) == {q \in DOMAIN P : P[q] = Op(op, a)}
PlacesOfOp(P, ops) == {q \in DOMAIN P : P[q].op \in ops}

\* What adds to the gradient of a parameter.
Contributes(c) == IF c.split THEN "wgrad" ELSE "backward"

\* The operations there are, on groups and parameters of the model.
Typed(c, P) ==
    /\ Len(P) \in Nat \ {0} /\ DOMAIN P = 1 .. Len(P)
    /\ \A q \in DOMAIN P :
        \/ P[q] = Op("zero", 0) \/ P[q] = Op("step", 0)
        \/ \E op \in {"hook", "start", "finish", "gather", "force"} : \E g \in GroupsOf(c) : P[q] = Op(op, g)
        \/ \E op \in {"backward", "wgrad"} : \E p \in ParamsOf(c) : P[q] = Op(op, p)
        \/ \E S \in SUBSET GroupsOf(c) : P[q] = Op("use", S)
        \/ \E b \in BOOLEAN : P[q] = Op("sync", b)

\* Gradients are zeroed first; then forward and backward passes, the end of the
\* reductions, one step of the optimizer, gathers.
Phases(P) ==
    /\ \A q \in DOMAIN P : P[q].op = "zero" <=> q = 1
    /\ \A q \in PlacesOfOp(P, {"finish"}) :
          /\ \A b \in PlacesOfOp(P, {"sync", "hook", "backward", "wgrad", "start"}) : b < q
          /\ \A s \in PlacesOfOp(P, {"step"}) : q < s
    /\ \E s \in DOMAIN P : Places(P, "step", 0) = {s}
    /\ \A q \in PlacesOfOp(P, {"gather", "force"}), s \in PlacesOfOp(P, {"step"}) : s < q

\* The no_sync context is left once, and was entered before all backward
\* passes but those of the last microbatch.
SyncsOnce(P) ==
    /\ \E y \in DOMAIN P : Places(P, "sync", TRUE) = {y}
    /\ \A q \in Places(P, "sync", FALSE), y \in Places(P, "sync", TRUE) : q < y
    /\ \A b \in PlacesOfOp(P, {"backward"}), y \in Places(P, "sync", TRUE) :
          b < y => \E q \in Places(P, "sync", FALSE) : q < b

\* The last microbatch has one backward pass of each parameter.
BackwardsOnce(c, P) ==
    \A p \in ParamsOf(c), y \in Places(P, "sync", TRUE) :
        \E b \in DOMAIN P : {q \in Places(P, "backward", p) : y < q} = {b}

\* Every microbatch adds to every gradient.
AllContribute(c, P) ==
    \A p \in ParamsOf(c) : Cardinality(Places(P, Contributes(c), p)) = NumMicrobatches(c)

\* With split weight gradients the schedule starts each reduction once, after
\* the last of them.
Starts(c, P) ==
    IF c.split
    THEN \A g \in GroupsOf(c) : \E s \in DOMAIN P :
            Places(P, "start", g) = {s} /\ \A q \in PlacesOfOp(P, {"wgrad"}) : q < s
    ELSE PlacesOfOp(P, {"start", "wgrad"}) = {}

FinishesOnce(c, P) == \A g \in GroupsOf(c) : \E q \in DOMAIN P : Places(P, "finish", g) = {q}

\* Every group is used, before the last backward pass begins, and first used in
\* the order in which finish_param_sync dispatches the gathers, the reverse of
\* the buckets'. Where it is not, the code fails: finding of run
\* buckets_use_order.
HooksInOrder(c, P) ==
    IF c.gather
    THEN \A g \in GroupsOf(c) :
        /\ \E h \in Places(P, "hook", g) :
              /\ \A q \in PlacesOfOp(P, {"backward", "wgrad", "start"}) : h < q
              /\ \A y \in Places(P, "sync", TRUE) : h < y
        /\ g - 1 \in GroupsOf(c) =>
              \A q \in Places(P, "hook", g - 1) : \E h \in Places(P, "hook", g) : h < q
    ELSE PlacesOfOp(P, {"hook"}) = {}

\* A use comes after a hook or a gather of what it uses.
GatheredFirst(c, P) ==
    \A u \in PlacesOfOp(P, {"use"}) : \A g \in P[u].args :
        IF c.gather
        THEN \/ \E h \in Places(P, "hook", g) : h < u /\ \A q \in PlacesOfOp(P, {"finish"}) : u < q
             \/ \E f \in Places(P, "force", g) : f < u
        ELSE \/ \A s \in PlacesOfOp(P, {"step"}) : u < s
             \/ \E f \in Places(P, "gather", g) : f < u

\* The iteration ends without the hooks.
Forced(c, i) == i \in c.eval \/ i = Iterations

\* What is gathered after the step.
Gathers(c, i, P) ==
    /\ c.gather => PlacesOfOp(P, {"gather"}) = {}
    /\ ~c.gather => PlacesOfOp(P, {"force"}) = {} /\ \A g \in GroupsOf(c) : Places(P, "gather", g) # {}
    /\ c.gather /\ Forced(c, i) => \A g \in GroupsOf(c) : Places(P, "force", g) # {}
    /\ c.gather /\ ~Forced(c, i) => PlacesOfOp(P, {"force"}) = {}

ProgramInOrder(c, i, P) ==
    /\ Typed(c, P) /\ Phases(P) /\ SyncsOnce(P) /\ BackwardsOnce(c, P) /\ AllContribute(c, P)
    /\ Starts(c, P) /\ FinishesOnce(c, P) /\ HooksInOrder(c, P) /\ GatheredFirst(c, P)
    /\ Gathers(c, i, P) /\ P[Len(P)].op \notin (IF i = Iterations THEN {"step"} ELSE {})

ProgramsInOrder ==
    \A c \in Configs, i \in 1 .. Iterations : ProgramInOrder(c, i, Programs[c][i])
=============================================================================
