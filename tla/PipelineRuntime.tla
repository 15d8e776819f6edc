-------------------------- MODULE PipelineRuntime --------------------------
(***************************************************************************)
(* The per-rank dispatcher of CDCPPScheduler (cdc_scheduler/               *)
(* pp_scheduler.py): NumDev pipeline ranks walk through their execution    *)
(* plans, exchange activations and gradients over four untagged            *)
(* point-to-point channels, collect weight-gradient blocks and start the   *)
(* data-parallel gradient reduction, iteration after iteration.            *)
(*                                                                         *)
(* A step of a rank is one operation of its plan: a communication event, a *)
(* compute task or the deallocation pass after a task.  A rank's CPU and   *)
(* its default CUDA stream are one thread here: handle.wait() holds up the *)
(* stream, and everything that comes after it in the plan, until the       *)
(* message is there.  A message is captured when its send is posted, since *)
(* no operation writes a buffer again once it has been sent.               *)
(*                                                                         *)
(* Program[d] is the plan of rank d, as ExecutionPlanner builds it:        *)
(* records [op, type, mb, chunk, from].  Mode[i] says whether iteration i  *)
(* trains or evaluates (forward_only); an evaluation runs EvalMb           *)
(* microbatches.                                                           *)
(***************************************************************************)
EXTENDS PlanMatching, FiniteSets

CONSTANTS
    NumDev,             \* pipeline parallel size
    NumMb,              \* microbatches per iteration
    NumChunks,          \* model chunks per rank
    Template,           \* "loop" or "wave", see PipelineSchedules
    Program,            \* Program[d] : the sequence of operations of rank d
    MaxIter,            \* bound on the iterations explored
    Mode,               \* Mode[i] \in {"train", "eval"}
    EvalMb,             \* microbatches of an evaluation iteration
    OverlapGradReduce   \* --overlap-grad-reduce

Rank  == 0 .. NumDev - 1
Mb    == 0 .. NumMb - 1
Chunk == 0 .. NumChunks - 1
Key   == Mb \X Chunk

\* get_pipeline_extra_*_group: "pipeline parallel size should be even".
ASSUME SizeAssumption ==
    /\ NumDev \in Nat /\ NumDev > 0 /\ NumDev % 2 = 0
    /\ NumMb \in Nat /\ NumChunks \in Nat
    /\ MaxIter \in Nat /\ EvalMb \in 0 .. NumMb
    /\ OverlapGradReduce \in BOOLEAN

Ops == {"LOCAL_COPY", "POST_SEND_NEXT", "POST_SEND_PREV", "POST_RECV_NEXT",
        "POST_RECV_PREV", "WAIT_RECV_NEXT", "WAIT_RECV_PREV", "COMPUTE", "DEALLOCATE"}

Operation == [op : Ops, type : {"F", "B", "W"}, mb : Mb, chunk : Chunk,
              from : Chunk \cup {-1}]

ASSUME PlanAssumption ==
    /\ Program \in [Rank -> Seq(Operation)]
    /\ \A d \in Rank : \A p \in DOMAIN Program[d] :
          Program[d][p].op = "LOCAL_COPY" => Program[d][p].from \in Chunk
    /\ Mode \in [1 .. MaxIter -> {"train", "eval"}]
    /\ Template \in {"loop", "wave"}

VARIABLES
    iteration,            \* iteration[d]: the iteration rank d runs or will start
    pc,                   \* 0 between iterations, else the next operation
    chan,                 \* chan[g]: the messages in flight on a channel
    send_reqs,            \* keys of send_next_reqs and send_prev_reqs
    recv_reqs,            \* keys whose irecv is posted but still deferred
    input_tensors, output_tensors, output_tensor_grads, input_tensor_grads,
    wgrad_blocks,         \* WGradStore.wgrad_blocks
    no_sync,              \* no_sync[d][c]: inside the no_sync context of chunk c
    main_grad,            \* contributions accumulated in the chunk's gradient
    reductions,           \* what each reduction started on the chunk covered
    grad_reduce_handle    \* a reduction is outstanding

tensors == <<input_tensors, output_tensors, output_tensor_grads, input_tensor_grads>>
grads   == <<no_sync, main_grad, reductions, grad_reduce_handle>>
vars    == <<iteration, pc, chan, send_reqs, recv_reqs, tensors, wgrad_blocks, grads>>

-----------------------------------------------------------------------------
(* Stages, neighbours and channels.                                        *)

Peer(d, dir) == PeerOf(NumDev, d, dir)

\* Fault: the groups of the receives from the next rank are swapped.
RecvGroup_Swapped(d, dir) ==
    IF dir = "next" THEN IF d % 2 = 0 THEN 3 ELSE 1
                    ELSE IF d % 2 = 0 THEN 2 ELSE 0

\* A channel is one process group used from src to dst.
SendGroup(d, dir) ==
    IF dir = "next" THEN IF d % 2 = 0 THEN 0 ELSE 2
                    ELSE IF d % 2 = 0 THEN 3 ELSE 1
RecvGroup(d, dir) ==
    IF dir = "next" THEN IF d % 2 = 0 THEN 1 ELSE 3
                    ELSE IF d % 2 = 0 THEN 2 ELSE 0

SendChannel(d, dir) == <<SendGroup(d, dir), d, Peer(d, dir)>>
RecvChannel(d, dir) == <<RecvGroup(d, dir), Peer(d, dir), d>>
Channel == (0 .. 3) \X Rank \X Rank

Stage(d, c) == StageOf(Template, NumDev, d, c)
NumStages == NumChunks * NumDev
FirstStage(d, c) == d = 0 /\ c = 0
LastStage(d, c) ==
    /\ d = IF Template = "wave" THEN 0 ELSE NumDev - 1
    /\ c = NumChunks - 1

-----------------------------------------------------------------------------
(* Tensors.  What a buffer holds: "absent" (no dictionary entry), "none"   *)
(* (the entry is None), "empty" (torch.empty), an activation or a gradient *)
(* of some iteration, microbatch and stage, or garbage computed from       *)
(* anything but the right inputs.                                          *)

Tensor == [kind : {"absent", "none", "empty", "act", "grad", "garbage"},
           iter : 0 .. MaxIter, mb : Mb \cup {0}, stage : Int]
Bare(kind) == [kind |-> kind, iter |-> 0, mb |-> 0, stage |-> 0]
Absent == Bare("absent")
None == Bare("none")
Empty == Bare("empty")
Garbage == Bare("garbage")
Act(i, mb, s) == [kind |-> "act", iter |-> i, mb |-> mb, stage |-> s]
Grad(i, mb, s) == [kind |-> "grad", iter |-> i, mb |-> mb, stage |-> s]

\* get_or_set_pp_io_tensor: a missing or None entry is allocated.
GetOrSet(t) == IF t \in {Absent, None} THEN Empty ELSE t

\* A message is its data; iter and at say where it was sent, which no
\* receiver can see.
Message == [iter : 1 .. MaxIter, at : Nat, data : Tensor]
Request == Dir \X Mb \X Chunk \X {"F", "B", "W"}
Block == [mb : Mb, chunk : Chunk, right : BOOLEAN]
Contribution == {"B", "W"} \X Mb

-----------------------------------------------------------------------------
(* The operation a rank is at.                                             *)

Running(d) == iteration[d] <= MaxIter /\ pc[d] \in 1 .. Len(Program[d])
Op(d) == Program[d][pc[d]]
OpKey(d) == <<Op(d).mb, Op(d).chunk>>
Training(d) == Mode[iteration[d]] = "train"

\* Faults: an evaluation runs the forwards of all microbatches, or sends all.
Effective_AllForwards(i, o) == Mode[i] = "train" \/ o.type = "F"
Effective_AllSends(i, o) ==
    \/ Mode[i] = "train"
    \/ o.type = "F" /\ (o.mb < EvalMb \/ o.op \in {"POST_SEND_NEXT", "POST_SEND_PREV"})

\* In an evaluation only the forwards of the first EvalMb microbatches run.
Effective(i, o) == Mode[i] = "train" \/ (o.type = "F" /\ o.mb < EvalMb)

At(d, op) == /\ Running(d)
             /\ Op(d).op = op
             /\ Effective(iteration[d], Op(d))

Advance(d) == pc' = [pc EXCEPT ![d] = @ + 1] /\ iteration' = iteration

\* wgrad_split: the rank's plan has weight-gradient tasks.
WgradSplit(d) == \E i \in DOMAIN Program[d] : Program[d][i].type = "W"

\* Fault: the requests of a forward and its backward share a key.
RequestOf_NoType(d, dir) == <<dir, Op(d).mb, Op(d).chunk>>

RequestOf(d, dir) == <<dir, Op(d).mb, Op(d).chunk, Op(d).type>>

-----------------------------------------------------------------------------
(* Communication events (schedule_comm_event).  Every event first looks up *)
(* a send buffer and a receive buffer for its key and allocates those that *)
(* are missing: for a forward the output and input tensor, for a backward  *)
(* the input and output gradient.                                          *)

Allocated(dict, d) == [dict EXCEPT ![d][OpKey(d)] = GetOrSet(@)]

\* Fault: the buffers of a forward whatever the task.
Buffers_OfForward(d, received) ==
    /\ output_tensors' = Allocated(output_tensors, d)
    /\ input_tensors' = [input_tensors EXCEPT ![d][OpKey(d)] = received]
    /\ UNCHANGED <<output_tensor_grads, input_tensor_grads>>

\* `received` is what the receive buffer holds afterwards.
Buffers(d, received) ==
    IF Op(d).type = "F"
    THEN /\ output_tensors' = Allocated(output_tensors, d)
         /\ input_tensors' = [input_tensors EXCEPT ![d][OpKey(d)] = received]
         /\ UNCHANGED <<output_tensor_grads, input_tensor_grads>>
    ELSE /\ input_tensor_grads' = Allocated(input_tensor_grads, d)
         /\ output_tensor_grads' = [output_tensor_grads EXCEPT ![d][OpKey(d)] = received]
         /\ UNCHANGED <<input_tensors, output_tensors>>

SendBuffer(d, key) ==
    IF Op(d).type = "F" THEN output_tensors[d][key] ELSE input_tensor_grads[d][key]
RecvBuffer(d) ==
    GetOrSet(IF Op(d).type = "F" THEN input_tensors[d][OpKey(d)]
                                 ELSE output_tensor_grads[d][OpKey(d)])

\* From the output of chunk `from` to the input of this chunk, same rank.
LocalCopy(d) ==
    LET source == SendBuffer(d, <<Op(d).mb, Op(d).from>>)
    IN  /\ At(d, "LOCAL_COPY")
        /\ source \notin {Absent, None}
        /\ Buffers(d, source)
        /\ Advance(d)
        /\ UNCHANGED <<chan, send_reqs, recv_reqs, wgrad_blocks, grads>>

PostSend(d, dir) ==
    LET msg == [iter |-> iteration[d], at |-> pc[d], data |-> GetOrSet(SendBuffer(d, OpKey(d)))]
    IN  /\ At(d, PostSendOp(dir))
        /\ chan' = [chan EXCEPT ![SendChannel(d, dir)] = Append(@, msg)]
        /\ send_reqs' = [send_reqs EXCEPT ![d] = @ \cup {RequestOf(d, dir)}]
        /\ Buffers(d, RecvBuffer(d))
        /\ Advance(d)
        /\ UNCHANGED <<recv_reqs, wgrad_blocks, grads>>

\* The irecv is not posted yet: it is kept as a closure until the WAIT.
PostRecv(d, dir) ==
    /\ At(d, PostRecvOp(dir))
    /\ recv_reqs' = [recv_reqs EXCEPT ![d] = @ \cup {RequestOf(d, dir)}]
    /\ Buffers(d, RecvBuffer(d))
    /\ Advance(d)
    /\ UNCHANGED <<chan, send_reqs, wgrad_blocks, grads>>

\* The closure is called and waited for: it takes the oldest message of the
\* channel, whatever it holds.  Without a request the lookup raises KeyError.
WaitRecv(d, dir) ==
    LET c == RecvChannel(d, dir)
    IN  /\ At(d, WaitRecvOp(dir))
        /\ RequestOf(d, dir) \in recv_reqs[d]
        /\ chan[c] # <<>>
        /\ chan' = [chan EXCEPT ![c] = Tail(@)]
        /\ recv_reqs' = [recv_reqs EXCEPT ![d] = @ \ {RequestOf(d, dir)}]
        /\ Buffers(d, Head(chan[c]).data)
        /\ Advance(d)
        /\ UNCHANGED <<send_reqs, wgrad_blocks, grads>>

-----------------------------------------------------------------------------
(* Compute tasks (schedule_compute_task).                                  *)

ForwardStep(d) ==
    LET i == iteration[d]  k == OpKey(d)  s == Stage(d, k[2])
        first == FirstStage(d, k[2])
        right == first \/ input_tensors[d][k] = Act(i, k[1], s - 1)
    IN  /\ At(d, "COMPUTE") /\ Op(d).type = "F"
        /\ first \/ input_tensors[d][k] # Absent
        /\ output_tensors' = [output_tensors EXCEPT ![d][k] =
                                 IF right THEN Act(i, k[1], s) ELSE Garbage]
        /\ Advance(d)
        /\ UNCHANGED <<chan, send_reqs, recv_reqs, input_tensors, output_tensor_grads,
                       input_tensor_grads, wgrad_blocks, grads>>

\* Fault: off by one.
IsLastMicrobatch_OneEarly(d) ==
    /\ Op(d).mb = NumMb - 2
    /\ Op(d).type = IF WgradSplit(d) THEN "W" ELSE "B"

\* _is_last_microbatch_for_model_chunk, for the task rank d is at.
IsLastMicrobatch(d) ==
    /\ Op(d).mb = NumMb - 1
    /\ Op(d).type = IF WgradSplit(d) THEN "W" ELSE "B"

\* Fault: the store is a stack.
FinishCollection_Stack(d, block) == <<block>> \o wgrad_blocks[d]

\* finish_collection_wgrad_block: the store is a queue.
FinishCollection(d, block) == Append(wgrad_blocks[d], block)

\* start_grad_sync on a chunk: reduce what its gradient holds now.
StartGradSync(d, c, held) ==
    /\ ~grad_reduce_handle[d][c]
    /\ reductions' = [reductions EXCEPT ![d][c] = Append(@, held)]
    /\ grad_reduce_handle' = [grad_reduce_handle EXCEPT ![d][c] = OverlapGradReduce]

\* The backward of the last microbatch leaves the no_sync context, so that
\* the gradient hooks (register_grad_ready) start the reduction, unless weight
\* gradients are split off; afterwards the context is entered again.
BackwardStep(d) ==
    LET i == iteration[d]  k == OpKey(d)  c == k[2]  s == Stage(d, c)
        first == FirstStage(d, c)
        last  == LastStage(d, c)
        right == /\ output_tensors[d][k] = Act(i, k[1], s)
                 /\ first \/ input_tensors[d][k] = Act(i, k[1], s - 1)
                 /\ last \/ output_tensor_grads[d][k] = Grad(i, k[1], s + 1)
        split == WgradSplit(d)
        added == {<<part, k[1]>> : part \in IF split THEN {"B"} ELSE {"B", "W"}}
        held  == main_grad[d][c] \cup IF right THEN added ELSE {}
        synced == ~no_sync[d][c] \/ IsLastMicrobatch(d)
    IN  /\ At(d, "COMPUTE") /\ Op(d).type = "B"
        /\ input_tensors[d][k] # Absent /\ output_tensors[d][k] # Absent
        /\ last \/ output_tensor_grads[d][k] # Absent
        /\ input_tensors' = [input_tensors EXCEPT ![d][k] = None]
        /\ output_tensors' = [output_tensors EXCEPT ![d][k] = None]
        /\ output_tensor_grads' = [output_tensor_grads EXCEPT ![d][k] = None]
        /\ input_tensor_grads' = [input_tensor_grads EXCEPT ![d][k] =
               IF first THEN None ELSE IF right THEN Grad(i, k[1], s) ELSE Garbage]
        /\ wgrad_blocks' = IF split
               THEN [wgrad_blocks EXCEPT ![d] =
                        FinishCollection(d, [mb |-> k[1], chunk |-> c, right |-> right])]
               ELSE wgrad_blocks
        /\ main_grad' = [main_grad EXCEPT ![d][c] = held]
        /\ IF OverlapGradReduce /\ ~split /\ synced
           THEN StartGradSync(d, c, held)
           ELSE UNCHANGED <<reductions, grad_reduce_handle>>
        /\ no_sync' = [no_sync EXCEPT ![d][c] = TRUE]
        /\ Advance(d)
        /\ UNCHANGED <<chan, send_reqs, recv_reqs>>

\* compute_wgrad_block takes the oldest block, whichever task it belongs to;
\* the W task of the last microbatch then starts the chunk's reduction.
WGradStep(d) ==
    LET k == OpKey(d)  b == Head(wgrad_blocks[d])
        held == main_grad[d][b.chunk] \cup IF b.right THEN {<<"W", b.mb>>} ELSE {}
        grad == [main_grad EXCEPT ![d][b.chunk] = held]
    IN  /\ At(d, "COMPUTE") /\ Op(d).type = "W"
        /\ wgrad_blocks[d] # <<>>
        /\ wgrad_blocks' = [wgrad_blocks EXCEPT ![d] = Tail(@)]
        /\ main_grad' = grad
        /\ IF IsLastMicrobatch(d) THEN StartGradSync(d, k[2], grad[d][k[2]])
                                  ELSE UNCHANGED <<reductions, grad_reduce_handle>>
        /\ Advance(d)
        /\ UNCHANGED <<chan, send_reqs, recv_reqs, tensors, no_sync>>

-----------------------------------------------------------------------------
(* After every task, deallocate_tensor_in_dicts drops the input gradients  *)
(* whose send has completed: the receiver has taken the message.           *)

SendCompleted(d, r) ==
    LET c == chan[SendChannel(d, r[1])]
        sent(m) == Program[d][m.at]
    IN  \A j \in DOMAIN c :
            c[j].iter = iteration[d] =>
                <<r[2], r[3], r[4]>> # <<sent(c[j]).mb, sent(c[j]).chunk, sent(c[j]).type>>

Deallocate(d) ==
    LET sent == {<<r[2], r[3]>> : r \in {q \in send_reqs[d] : q[4] = "B" /\ SendCompleted(d, q)}}
    IN  /\ Running(d) /\ Op(d).op = "DEALLOCATE"
        /\ input_tensor_grads' = [input_tensor_grads EXCEPT ![d] =
               [k \in Key |-> IF k \in sent THEN None ELSE @[k]]]
        /\ Advance(d)
        /\ UNCHANGED <<chan, send_reqs, recv_reqs, input_tensors, output_tensors,
                       output_tensor_grads, wgrad_blocks, grads>>

\* An operation that an evaluation passes over.
Skip(d) ==
    /\ Running(d) /\ Op(d).op # "DEALLOCATE" /\ ~Effective(iteration[d], Op(d))
    /\ Advance(d)
    /\ UNCHANGED <<chan, send_reqs, recv_reqs, tensors, wgrad_blocks, grads>>

-----------------------------------------------------------------------------
(* Iterations.                                                             *)

NoTensors == [k \in Key |-> Absent]

\* zero_grad_buffer by the training loop, then setup_grad_sync and
\* disable_grad_sync for every chunk.
StartIteration(d) ==
    /\ pc[d] = 0 /\ iteration[d] <= MaxIter
    /\ pc' = [pc EXCEPT ![d] = 1]
    /\ no_sync' = [no_sync EXCEPT ![d] = [c \in Chunk |-> TRUE]]
    /\ IF Training(d)
       THEN /\ main_grad' = [main_grad EXCEPT ![d] = [c \in Chunk |-> {}]]
            /\ reductions' = [reductions EXCEPT ![d] = [c \in Chunk |-> <<>>]]
       ELSE UNCHANGED <<main_grad, reductions>>
    /\ UNCHANGED <<iteration, chan, send_reqs, recv_reqs, tensors, wgrad_blocks, grad_reduce_handle>>

\* Fault: finishing never starts a reduction.
FinishGradSync_NeverStarts(d) ==
    /\ reductions' = reductions
    /\ grad_reduce_handle' = [grad_reduce_handle EXCEPT ![d] = [c \in Chunk |-> FALSE]]

\* Fault: whatever has been started, finishing starts a reduction.
FinishGradSync_Again(d) ==
    /\ OverlapGradReduce => \A c \in Chunk : grad_reduce_handle[d][c]
    /\ reductions' = [reductions EXCEPT ![d] = [c \in Chunk |-> Append(@[c], main_grad[d][c])]]
    /\ grad_reduce_handle' = [grad_reduce_handle EXCEPT ![d] = [c \in Chunk |-> FALSE]]

\* finish_grad_sync on every chunk: an overlapped reduction must have been
\* started; any other is started, and done, here.
FinishGradSync(d) ==
    /\ OverlapGradReduce => \A c \in Chunk : grad_reduce_handle[d][c]
    /\ reductions' = IF OverlapGradReduce THEN reductions
          ELSE [reductions EXCEPT ![d] = [c \in Chunk |-> Append(@[c], main_grad[d][c])]]
    /\ grad_reduce_handle' = [grad_reduce_handle EXCEPT ![d] = [c \in Chunk |-> FALSE]]

\* Fault: the tensors are kept.
CleanUp_KeepsTensors(d) ==
    /\ send_reqs' = [send_reqs EXCEPT ![d] = {}]
    /\ recv_reqs' = [recv_reqs EXCEPT ![d] = {}]
    /\ UNCHANGED tensors

\* clean_up drops all requests and tensors and waits for no send.
CleanUp(d) ==
    /\ send_reqs' = [send_reqs EXCEPT ![d] = {}]
    /\ recv_reqs' = [recv_reqs EXCEPT ![d] = {}]
    /\ input_tensors' = [input_tensors EXCEPT ![d] = NoTensors]
    /\ output_tensors' = [output_tensors EXCEPT ![d] = NoTensors]
    /\ output_tensor_grads' = [output_tensor_grads EXCEPT ![d] = NoTensors]
    /\ input_tensor_grads' = [input_tensor_grads EXCEPT ![d] = NoTensors]

\* The end of forward_backward_func: the store must be empty, the no_sync
\* contexts are left, and a training iteration finalizes its gradients.
FinishIteration(d) ==
    /\ iteration[d] <= MaxIter /\ pc[d] = Len(Program[d]) + 1
    /\ wgrad_blocks[d] = <<>>
    /\ no_sync' = [no_sync EXCEPT ![d] = [c \in Chunk |-> FALSE]]
    /\ IF Training(d) THEN FinishGradSync(d) ELSE UNCHANGED <<reductions, grad_reduce_handle>>
    /\ CleanUp(d)
    /\ iteration' = [iteration EXCEPT ![d] = @ + 1]
    /\ pc' = [pc EXCEPT ![d] = 0]
    /\ UNCHANGED <<chan, wgrad_blocks, main_grad>>

-----------------------------------------------------------------------------

Init ==
    /\ iteration = [d \in Rank |-> 1]
    /\ pc = [d \in Rank |-> 0]
    /\ chan = [c \in Channel |-> <<>>]
    /\ send_reqs = [d \in Rank |-> {}]
    /\ recv_reqs = [d \in Rank |-> {}]
    /\ input_tensors = [d \in Rank |-> NoTensors]
    /\ output_tensors = [d \in Rank |-> NoTensors]
    /\ output_tensor_grads = [d \in Rank |-> NoTensors]
    /\ input_tensor_grads = [d \in Rank |-> NoTensors]
    /\ wgrad_blocks = [d \in Rank |-> <<>>]
    /\ no_sync = [d \in Rank |-> [c \in Chunk |-> FALSE]]
    /\ main_grad = [d \in Rank |-> [c \in Chunk |-> {}]]
    /\ reductions = [d \in Rank |-> [c \in Chunk |-> <<>>]]
    /\ grad_reduce_handle = [d \in Rank |-> [c \in Chunk |-> FALSE]]

Step(d) ==
    \/ LocalCopy(d)
    \/ \E dir \in Dir : PostSend(d, dir) \/ PostRecv(d, dir) \/ WaitRecv(d, dir)
    \/ ForwardStep(d) \/ BackwardStep(d) \/ WGradStep(d)
    \/ Deallocate(d) \/ Skip(d)
    \/ StartIteration(d) \/ FinishIteration(d)

Finished == \A d \in Rank : iteration[d] > MaxIter

\* Training has come to its end.
Terminated == Finished /\ UNCHANGED vars

Next == (\E d \in Rank : Step(d)) \/ Terminated

\* Every rank is a process that keeps running.
Fairness == \A d \in Rank : WF_vars(Step(d))

Spec == Init /\ [][Next]_vars /\ Fairness

-----------------------------------------------------------------------------
(* Properties.                                                             *)

\* Type correctness of the dispatcher's state.
TypeOK ==
    /\ iteration \in [Rank -> 1 .. MaxIter + 1]
    /\ pc \in [Rank -> Nat]
    /\ \A d \in Rank : pc[d] <= Len(Program[d]) + 1
    /\ chan \in [Channel -> Seq(Message)]
    /\ send_reqs \in [Rank -> SUBSET Request]
    /\ recv_reqs \in [Rank -> SUBSET Request]
    /\ input_tensors \in [Rank -> [Key -> Tensor]]
    /\ output_tensors \in [Rank -> [Key -> Tensor]]
    /\ output_tensor_grads \in [Rank -> [Key -> Tensor]]
    /\ input_tensor_grads \in [Rank -> [Key -> Tensor]]
    /\ wgrad_blocks \in [Rank -> Seq(Block)]
    /\ no_sync \in [Rank -> [Chunk -> BOOLEAN]]
    /\ main_grad \in [Rank -> [Chunk -> SUBSET Contribution]]
    /\ reductions \in [Rank -> [Chunk -> Seq(SUBSET Contribution)]]
    /\ grad_reduce_handle \in [Rank -> [Chunk -> BOOLEAN]]

\* A buffer that holds data holds the data of its key, of the iteration the
\* rank is in: no transfer, local copy or earlier iteration ever leaves the
\* activation or gradient of another microbatch, chunk or iteration in it.
Holds(t, right) == t.kind \in {"act", "grad", "garbage"} => t = right
RightTensors ==
    \A d \in Rank, k \in Key :
        LET s == Stage(d, k[2])
        IN  /\ Holds(input_tensors[d][k], Act(iteration[d], k[1], s - 1))
            /\ Holds(output_tensors[d][k], Act(iteration[d], k[1], s))
            /\ Holds(output_tensor_grads[d][k], Grad(iteration[d], k[1], s + 1))
            /\ Holds(input_tensor_grads[d][k], Grad(iteration[d], k[1], s))

\* The oldest message of the channel a rank is about to receive from is the
\* one it waits for: of the same iteration, task type and microbatch, from the
\* neighbouring stage.  The channel carries no tags and the receive is posted
\* only when it is waited for, so nothing but the order of events ensures it.
ReceivesOwn ==
    \A d \in Rank, dir \in Dir :
        LET c == chan[RecvChannel(d, dir)]
            sender == Peer(d, dir)
        IN  (At(d, WaitRecvOp(dir)) /\ c # <<>>)
               => /\ c[1].iter = iteration[d]
                  /\ Carries(Template, NumDev, sender, Program[sender][c[1].at], d, Op(d))

\* A data-parallel reduction covers the finished gradient of its chunk: every
\* microbatch's contribution, deferred weight gradients included, was added
\* before it started.
ReductionsCoverAll ==
    \A d \in Rank, c \in Chunk :
        \A j \in DOMAIN reductions[d][c] : reductions[d][c][j] = Contribution

\* Between two iterations the gradients of the training iteration just run
\* have been reduced exactly once.
ReducedOnce ==
    \A d \in Rank, c \in Chunk :
        /\ Len(reductions[d][c]) <= 1
        /\ (pc[d] = 0 /\ iteration[d] > 1 /\ Mode[iteration[d] - 1] = "train")
              => Len(reductions[d][c]) = 1

\* The deferred weight-gradient block a W task takes from the store is the
\* one its own backward left there, although the store is asked by order and
\* not by microbatch.
WgradBlockIsOwn ==
    \A d \in Rank :
        (Running(d) /\ Training(d) /\ Op(d).op = "COMPUTE" /\ Op(d).type = "W")
           => /\ wgrad_blocks[d] # <<>>
              /\ <<Head(wgrad_blocks[d]).mb, Head(wgrad_blocks[d]).chunk>> = OpKey(d)

\* A message in flight belongs to the iteration its receiver is in or to a
\* later one: clean_up, which does not wait for any send, never leaves one
\* behind for the next iteration to receive.
NoLeftover ==
    \A d \in Rank, dir \in Dir :
        LET c == chan[RecvChannel(d, dir)]
        IN  \A j \in DOMAIN c : c[j].iter >= iteration[d]

\* Once a backward has released the input and output of a microbatch, no
\* later event of the iteration allocates them again.
ReleasedStayReleased ==
    [][\A d \in Rank, k \in Key :
          /\ input_tensors[d][k] = None => input_tensors'[d][k] \in {None, Absent}
          /\ output_tensors[d][k] = None => output_tensors'[d][k] \in {None, Absent}]_vars

\* No more microbatches are held between forward and backward than the
\* warm-up of a one-forward-one-backward schedule runs ahead: NumDev - d on
\* rank d.
ActivationBound ==
    \A d \in Rank : (iteration[d] <= MaxIter /\ Training(d)) =>
        Cardinality({k \in Key : output_tensors[d][k].kind = "act"}) <= NumDev - d

\* The runtime implements the data flow of the model: mapped to the tasks its
\* ranks have been through, a step computes one task that is ready or none.
ComputedIn(d, i, upto) ==
    {[iter |-> i, type |-> Program[d][p].type, mb |-> Program[d][p].mb,
      stage |-> Stage(d, Program[d][p].chunk)] :
        p \in {q \in 1 .. upto : Program[d][q].op = "COMPUTE" /\ Effective(i, Program[d][q])}}

Computed ==
    UNION {ComputedIn(d, iteration[d], IF iteration[d] <= MaxIter THEN pc[d] - 1 ELSE 0)
             \cup UNION {ComputedIn(d, i, Len(Program[d])) : i \in 1 .. iteration[d] - 1} :
           d \in Rank}

Trains(i) == Mode[i] = "train"
SplitsStage(s) == \E d \in Rank, c \in Chunk : Stage(d, c) = s /\ WgradSplit(d)

Dataflow == INSTANCE PipelineDataflow WITH
    Training <- Trains, Split <- SplitsStage, done <- Computed

DataflowSpec == Dataflow!Spec

\* Every rank gets through all its iterations: no receive waits for ever, no
\* lookup fails and no assertion stops a rank.
Completes == <>Finished
=============================================================================
