--------------------------- MODULE GradientBuckets --------------------------
(***************************************************************************)
(* The buckets of the data-parallel wrapper with the distributed optimizer *)
(* (distributed_data_parallel.py, param_and_grad_buffer.py): the gradients *)
(* of a bucket group are reduce-scattered when the last microbatch made    *)
(* them all, each replica updates its own shard of the parameters, and the *)
(* parameters are gathered again, before evaluation and checkpoints or,    *)
(* overlapped with the next forward pass, by hooks that run before each    *)
(* module.                                                                 *)
(*                                                                         *)
(* A replica runs its iteration's operations one after the other.  The     *)
(* collectives it launches execute later, in the order of launching, when  *)
(* all replicas have launched them, and read and write the buffers then.   *)
(*                                                                         *)
(* A value of the parameters is the number of updates it took; a gradient  *)
(* is the number of microbatches in it.                                    *)
(***************************************************************************)
EXTENDS Integers, Sequences, FiniteSets, SequencesExt

CONSTANTS Replicas,   \* data-parallel ranks
          Iterations, \* training iterations
          Configs     \* models and settings

\* modules: the modules in the order the forward pass runs them, each the
\* sequence of its parameters; group: the bucket group of each parameter, groups
\* numbered in the order of their buckets; tasks: what the schedule runs for
\* the microbatches 1, 2, ...; overlap, gather, split: overlap_grad_reduce,
\* overlap_param_gather and the scheduler's wgrad_split; eval: the
\* iterations followed by an evaluation or a checkpoint.
VARIABLES config,   \* the model and its settings
          skipped,  \* iterations whose update is skipped for an infinite gradient
          pc,       \* replica -> its iteration and its operation in it
          groups,   \* replica -> group -> the bookkeeping of the bucket group
          held,     \* replica -> group -> shard -> the value in the parameter buffer
          grads,    \* replica -> parameter -> microbatches in its gradient
          sums,     \* replica -> group -> the reductions of this iteration
          launched, \* replica -> the collectives launched
          executed  \* number of collectives executed
vars == <<config, skipped, pc, groups, held, grads, sums, launched, executed>>

ParamsOf(c) == DOMAIN c.group
GroupsOf(c) == {c.group[p] : p \in ParamsOf(c)}
Members(c, g) == {p \in ParamsOf(c) : c.group[p] = g}
Microbatches(c) == {c.tasks[t].mb : t \in DOMAIN c.tasks}
NumMicrobatches(c) == Cardinality(Microbatches(c))
InOrder(S) == SetToSortSeq(S, <)

ASSUME ConfigsAssumption ==
    /\ Replicas # {} /\ Iterations \in Nat \ {0}
    /\ \A c \in Configs :
        /\ c.gather => c.overlap    \* checked by arguments.py
        /\ c.split => c.overlap     \* without: finding of run zbh1_no_overlap
        /\ ~c.overlap => \A p \in ParamsOf(c) : c.group[p] = 1
        /\ IsFiniteSet(GroupsOf(c)) /\ GroupsOf(c) = 1 .. Cardinality(GroupsOf(c))

-----------------------------------------------------------------------------
(* What a replica does in an iteration.                                    *)

Op(op, args) == [op |-> op, args |-> args]
ForEach(op, args) == [k \in DOMAIN args |-> Op(op, args[k])]

ForwardOps(c) ==
    FlattenSeq([k \in DOMAIN c.modules |->
        (IF c.gather
         THEN [j \in DOMAIN c.modules[k] |-> Op("hook", c.group[c.modules[k][j]])]
         ELSE <<>>)
        \o <<Op("use", {c.group[c.modules[k][j]] : j \in DOMAIN c.modules[k]})>>])

\* The backward pass completes the gradient of a parameter after all its uses.
BackwardOrder(c) ==
    LET uses == FlattenSeq(c.modules)
        First(p) == CHOOSE k \in DOMAIN uses : uses[k] = p /\ \A j \in 1 .. k - 1 : uses[j] # p
    IN SetToSortSeq(ParamsOf(c), LAMBDA p, q : First(p) > First(q))

\* The backward pass that leaves the no_sync context.
SyncFrom(c) == NumMicrobatches(c)

\* The weight gradients that are followed by the start of the reductions.
StartsAfter(c) == NumMicrobatches(c)

TaskOps(c, task) ==
    CASE task.type = "F" -> ForwardOps(c)
      [] task.type = "B" -> (IF task.mb = SyncFrom(c) THEN <<Op("sync", TRUE)>> ELSE <<>>)
                            \o ForEach("backward", BackwardOrder(c))
      [] task.type = "W" -> ForEach("wgrad", BackwardOrder(c))
                            \o (IF task.mb = StartsAfter(c) THEN ForEach("start", InOrder(GroupsOf(c))) ELSE <<>>)

AllGroups(op, c) == ForEach(op, InOrder(GroupsOf(c)))

\* disable_forward_pre_hook, then what is done without the hooks.
WithoutHooks(c) == (IF c.gather THEN AllGroups("force", c) ELSE <<>>) \o <<Op("use", GroupsOf(c))>>

Program(c, iter) ==
    <<Op("zero", 0)>> \o (IF NumMicrobatches(c) > 1 THEN <<Op("sync", FALSE)>> ELSE <<>>)
    \o FlattenSeq([t \in DOMAIN c.tasks |-> TaskOps(c, c.tasks[t])])
    \o AllGroups("finish", c) \o <<Op("step", 0)>>
    \o (IF c.gather THEN <<>> ELSE AllGroups("gather", c))
    \o (IF iter \in c.eval \/ iter = Iterations THEN WithoutHooks(c) ELSE <<>>)

Programs == [c \in Configs |-> [iter \in 1 .. Iterations |-> Program(c, iter)]]

At(r) == Programs[config][pc[r].iter][pc[r].k]
Running(r) == pc[r].state = "running"
Doing(r, op) == Running(r) /\ At(r).op = op
Arg(r) == At(r).args

Moved(r) ==
    IF pc[r].k < Len(Programs[config][pc[r].iter]) THEN [pc EXCEPT ![r].k = @ + 1]
    ELSE IF pc[r].iter < Iterations THEN [pc EXCEPT ![r].iter = @ + 1, ![r].k = 1]
    ELSE [pc EXCEPT ![r].state = "done"]

Done(r) == pc' = Moved(r)

\* An assertion of the code does not hold.
Fails(r) ==
    /\ pc' = [pc EXCEPT ![r].state = "failed"]
    /\ UNCHANGED <<config, skipped, groups, held, grads, sums, launched, executed>>

-----------------------------------------------------------------------------
(* Parameters.                                                             *)

\* The position of a collective among those launched is its handle; 0 is None.
Launch(r, kind, g) == launched' = [launched EXCEPT ![r] = Append(@, <<kind, g>>)]
Handle(r) == Len(launched[r]) + 1

\* Fault: nothing waits.
Over_Unawaited(handle) == TRUE

\* wait
Over(handle) == handle <= executed

\* start_param_sync, from a hook: "assert self.param_gather_handle is None".
HookStart(r) ==
    LET g == Arg(r) IN
    /\ Doing(r, "hook") /\ ~groups[r][g].dispatched
    /\ IF groups[r][g].gather # 0 THEN Fails(r)
       ELSE /\ Launch(r, "gather", g)
            /\ groups' = [groups EXCEPT ![r][g].gather = Handle(r), ![r][g].dispatched = TRUE]
            /\ UNCHANGED <<config, skipped, pc, held, grads, sums, executed>>

\* Fault: the last group to be gathered is followed by the first.
NextGroup_Around(c, g) == IF g > 1 THEN {g - 1} ELSE {Cardinality(GroupsOf(c))}

\* next_param_gather_bucket_group
NextGroup(c, g) == IF g > 1 THEN {g - 1} ELSE {}

\* The hook waits for the gather and dispatches the next one, under the same
\* assertion.
HookWait(r) ==
    LET g == Arg(r)  next == NextGroup(config, g) IN
    /\ Doing(r, "hook") /\ groups[r][g].dispatched
    /\ groups[r][g].gather # 0 /\ Over(groups[r][g].gather)
    /\ IF \E n \in next : groups[r][n].gather # 0 THEN Fails(r)
       ELSE /\ launched' = [launched EXCEPT ![r] = @ \o SetToSeq({<<"gather", n>> : n \in next})]
            /\ groups' = [groups EXCEPT ![r] = [n \in DOMAIN @ |->
                    IF n \in next THEN [@[n] EXCEPT !.gather = Handle(r), !.dispatched = TRUE]
                    ELSE IF n = g THEN [@[n] EXCEPT !.gather = 0]
                    ELSE @[n]]]
            /\ Done(r)
            /\ UNCHANGED <<config, skipped, held, grads, sums, executed>>

HookPasses(r) ==
    /\ Doing(r, "hook") /\ groups[r][Arg(r)].dispatched /\ groups[r][Arg(r)].gather = 0
    /\ Done(r)
    /\ UNCHANGED <<config, skipped, groups, held, grads, sums, launched, executed>>

\* The module computes with its parameters.
Use(r) ==
    /\ Doing(r, "use")
    /\ Done(r)
    /\ UNCHANGED <<config, skipped, groups, held, grads, sums, launched, executed>>

\* A synchronous gather: launched, then waited for.
SyncStart(r) ==
    LET g == Arg(r) IN
    /\ Doing(r, "force") \/ (Doing(r, "gather") /\ pc[r].iter \notin skipped)
    /\ groups[r][g].gather = 0 /\ groups[r][g].sync = 0
    /\ Launch(r, "gather", g)
    /\ groups' = [groups EXCEPT ![r][g].sync = Handle(r), ![r][g].dispatched = TRUE]
    /\ UNCHANGED <<config, skipped, pc, held, grads, sums, executed>>

Gathered(group) == [group EXCEPT !.sync = 0, !.gather = 0]

\* It ends; a gather that was under way is all that force_sync waits for.
SyncEnd(r) ==
    LET group == groups[r][Arg(r)] IN
    /\ Doing(r, "force") \/ Doing(r, "gather")
    /\ \/ group.sync # 0 /\ Over(group.sync)
       \/ group.gather # 0 /\ Over(group.gather)
    /\ groups' = [groups EXCEPT ![r][Arg(r)] = Gathered(@)]
    /\ Done(r)
    /\ UNCHANGED <<config, skipped, held, grads, sums, launched, executed>>

\* No gather where the optimizer made no step.
GatherSkipped(r) ==
    /\ Doing(r, "gather") /\ pc[r].iter \in skipped
    /\ Done(r)
    /\ UNCHANGED <<config, skipped, groups, held, grads, sums, launched, executed>>

-----------------------------------------------------------------------------
(* Gradients.                                                              *)

\* Fault: the parameters whose gradients are ready are kept.
Reset_Kept(group) == [group EXCEPT !.last = TRUE]

\* reset
Reset(group) == [group EXCEPT !.ready = {}, !.last = TRUE]

\* Fault: the buffer keeps the gradients of the last iteration.
Zeroed_Kept(buffer) == buffer

Zeroed(buffer) == [p \in DOMAIN buffer |-> 0]

\* zero_grad_buffer
Zero(r) ==
    /\ Doing(r, "zero")
    /\ grads' = [grads EXCEPT ![r] = Zeroed(@)]
    /\ sums' = [sums EXCEPT ![r] = [g \in DOMAIN @ |-> <<>>]]
    /\ groups' = [groups EXCEPT ![r] = [g \in DOMAIN @ |-> Reset(@[g])]]
    /\ Done(r)
    /\ UNCHANGED <<config, skipped, held, launched, executed>>

\* Entering and leaving no_sync.
SetSync(r) ==
    /\ Doing(r, "sync")
    /\ groups' = [groups EXCEPT ![r] = [g \in DOMAIN @ |-> [@[g] EXCEPT !.last = Arg(r)]]]
    /\ Done(r)
    /\ UNCHANGED <<config, skipped, held, grads, sums, launched, executed>>

\* Fault: the gradients are counted against all parameters of the model.
AllReady_OfModel(c, g, ready) == ready = ParamsOf(c)

AllReady(c, g, ready) == ready = Members(c, g)

\* The backward pass accumulates the gradient of a parameter and, in the last
\* microbatch, registers it; with split weight gradients the accumulation
\* comes later.
Backward(r) ==
    LET p == Arg(r)
        g == config.group[p]
        group == groups[r][g]
        ready == IF config.overlap /\ group.last THEN group.ready \cup {p} ELSE group.ready
        starts == config.overlap /\ group.last /\ ~config.split /\ AllReady(config, g, ready)
    IN /\ Doing(r, "backward")
       /\ IF (config.overlap /\ group.last /\ p \in group.ready) \/ (starts /\ group.reduce # 0)
          THEN Fails(r)
          ELSE /\ IF config.split THEN UNCHANGED grads ELSE grads' = [grads EXCEPT ![r][p] = @ + 1]
               /\ IF starts THEN Launch(r, "reduce", g) ELSE UNCHANGED launched
               /\ groups' = [groups EXCEPT
                    ![r][g].ready = ready,
                    ![r][g].reduce = IF starts THEN Handle(r) ELSE @]
               /\ Done(r)
               /\ UNCHANGED <<config, skipped, held, sums, executed>>

\* A weight gradient computed apart from the backward pass.
WeightGradient(r) ==
    /\ Doing(r, "wgrad")
    /\ grads' = [grads EXCEPT ![r][Arg(r)] = @ + 1]
    /\ Done(r)
    /\ UNCHANGED <<config, skipped, groups, held, sums, launched, executed>>

\* The scheduler starts the reductions after the last of them.
StartGradSync(r) ==
    /\ Doing(r, "start")
    /\ IF groups[r][Arg(r)].reduce # 0 THEN Fails(r)
       ELSE /\ Launch(r, "reduce", Arg(r))
            /\ groups' = [groups EXCEPT ![r][Arg(r)].reduce = Handle(r)]
            /\ Done(r)
            /\ UNCHANGED <<config, skipped, held, grads, sums, executed>>

\* finish_grad_sync without overlap is a synchronous reduction.
FinishStarts(r) ==
    /\ Doing(r, "finish") /\ ~config.overlap /\ groups[r][Arg(r)].reduce = 0
    /\ Launch(r, "reduce", Arg(r))
    /\ groups' = [groups EXCEPT ![r][Arg(r)].reduce = Handle(r)]
    /\ UNCHANGED <<config, skipped, pc, held, grads, sums, executed>>

\* Fault: the parameters still count as gathered.
Finished_Dispatched(group) == [group EXCEPT !.reduce = 0]

\* After finish_grad_sync the parameters are to be gathered again.
Finished(group) == [group EXCEPT !.reduce = 0, !.dispatched = FALSE]

\* It waits for the reduction: "Communication call has not been issued for
\* this bucket" if there is none.
FinishGradSync(r) ==
    LET reduce == groups[r][Arg(r)].reduce IN
    /\ Doing(r, "finish")
    /\ config.overlap \/ reduce # 0
    /\ Over(reduce)
    /\ IF reduce = 0 THEN Fails(r)
       ELSE /\ groups' = [groups EXCEPT ![r][Arg(r)] = Finished(@)]
            /\ Done(r)
            /\ UNCHANGED <<config, skipped, held, grads, sums, launched, executed>>

\* The optimizer updates the replica's own shards.
Updated(r, shards) == [g \in DOMAIN shards |-> [shards[g] EXCEPT ![r] = @ + 1]]

Step(r) ==
    /\ Doing(r, "step")
    /\ held' = IF pc[r].iter \in skipped THEN held ELSE [held EXCEPT ![r] = Updated(r, @)]
    /\ Done(r)
    /\ UNCHANGED <<config, skipped, groups, grads, sums, launched, executed>>

-----------------------------------------------------------------------------
\* A collective executes when all replicas have launched the same one.
Execute ==
    LET n == executed + 1 IN
    /\ \A r \in Replicas : n <= Len(launched[r])
    /\ \A r, s \in Replicas : launched[r][n] = launched[s][n]
    /\ LET c == launched[CHOOSE r \in Replicas : TRUE][n]
           g == c[2]
       IN IF c[1] = "gather"
          THEN /\ held' = [r \in Replicas |-> [held[r] EXCEPT ![g] = [s \in Replicas |-> held[s][g][s]]]]
               /\ UNCHANGED sums
          ELSE /\ sums' = [r \in Replicas |-> [sums[r] EXCEPT ![g] =
                    Append(@, [s \in Replicas |-> [p \in Members(config, g) |-> grads[s][p]]])]]
               /\ UNCHANGED held
    /\ executed' = n
    /\ UNCHANGED <<config, skipped, pc, groups, grads, launched>>

Init ==
    /\ config \in Configs
    /\ skipped \in SUBSET (1 .. Iterations)
    /\ pc = [r \in Replicas |-> [state |-> "running", iter |-> 1, k |-> 1]]
    /\ groups = [r \in Replicas |-> [g \in GroupsOf(config) |->
            [dispatched |-> FALSE, gather |-> 0, sync |-> 0, reduce |-> 0, ready |-> {}, last |-> TRUE]]]
    /\ held = [r \in Replicas |-> [g \in GroupsOf(config) |-> [s \in Replicas |-> 0]]]
    /\ grads = [r \in Replicas |-> [p \in ParamsOf(config) |-> 0]]
    /\ sums = [r \in Replicas |-> [g \in GroupsOf(config) |-> <<>>]]
    /\ launched = [r \in Replicas |-> <<>>]
    /\ executed = 0

ReplicaStep(r) ==
    \/ HookStart(r) \/ HookWait(r) \/ HookPasses(r) \/ Use(r)
    \/ SyncStart(r) \/ SyncEnd(r) \/ GatherSkipped(r)
    \/ Zero(r) \/ SetSync(r) \/ Backward(r) \/ WeightGradient(r) \/ StartGradSync(r)
    \/ FinishStarts(r) \/ FinishGradSync(r) \/ Step(r)

Next == Execute \/ \E r \in Replicas : ReplicaStep(r)

\* The replicas run and the network makes progress.
Fairness == WF_vars(Execute) /\ \A r \in Replicas : WF_vars(ReplicaStep(r))

Spec == Init /\ [][Next]_vars /\ Fairness

-----------------------------------------------------------------------------
(* Properties.                                                             *)

\* The variables have their types.
TypeOK ==
    /\ config \in Configs /\ skipped \subseteq 1 .. Iterations
    /\ \A r \in Replicas :
        /\ pc[r].state \in {"running", "done", "failed"}
        /\ pc[r].iter \in 1 .. Iterations /\ pc[r].k \in DOMAIN Programs[config][pc[r].iter]
        /\ \A g \in GroupsOf(config) :
            /\ groups[r][g] \in [dispatched : BOOLEAN, last : BOOLEAN,
                                 gather : 0 .. Len(launched[r]), sync : 0 .. Len(launched[r]),
                                 reduce : 0 .. Len(launched[r]), ready : SUBSET Members(config, g)]
            /\ held[r][g] \in [Replicas -> 0 .. Iterations]
        /\ \A p \in ParamsOf(config) : grads[r][p] \in 0 .. NumMicrobatches(config)
        /\ executed <= Len(launched[r])

\* The updates a replica has made.
Updates(r) ==
    Cardinality({i \in 1 .. Iterations \ skipped :
        \/ i < pc[r].iter
        \/ i = pc[r].iter /\ \E k \in 1 .. pc[r].k - 1 : Programs[config][i][k].op = "step"})

\* A module, an evaluation or a checkpoint only ever sees parameters all of
\* whose shards took every update, and no more.
UsesCurrent ==
    \A r \in Replicas : Doing(r, "use") =>
        \A g \in Arg(r) : \A s \in Replicas : held[r][g][s] = Updates(r)

\* The optimizer steps on gradients reduced exactly once, after every replica
\* accumulated every microbatch in every parameter.
ReducesAll ==
    \A r \in Replicas : Doing(r, "step") =>
        \A g \in GroupsOf(config) :
            sums[r][g] = <<[s \in Replicas |-> [p \in Members(config, g) |-> NumMicrobatches(config)]]>>

\* No gather and no reduction outlives its iteration.
NothingOutstanding ==
    \A r \in Replicas : (Doing(r, "zero") \/ pc[r].state = "done") =>
        \A g \in GroupsOf(config) :
            groups[r][g].gather = 0 /\ groups[r][g].sync = 0 /\ groups[r][g].reduce = 0

\* The assertions of the bucket groups hold: a handle is None when a call is
\* dispatched, a gradient is set once, a reduction was issued when it is
\* waited for.
AssertionsHold == \A r \in Replicas : pc[r].state # "failed"

\* Every replica gets through its iterations: the collectives are launched in
\* the same order everywhere, and all of them.
Completes == <>(\A r \in Replicas : pc[r].state = "done")
=============================================================================
