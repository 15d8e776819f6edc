----------------------- MODULE PipelineRuntime_proofs -----------------------
(***************************************************************************)
(* Proofs about the dispatcher for every pipeline size, number of          *)
(* microbatches and chunks, every plan and every sequence of training and  *)
(* evaluation iterations: its state keeps its type, and the untagged       *)
(* channels deliver the right messages if the plans of neighbouring ranks  *)
(* agree (WaitsMatch).                                                     *)
(***************************************************************************)
EXTENDS PipelineRuntime, TLAPS

-----------------------------------------------------------------------------
(* The types of what the actions compute with.                             *)

LEMMA ConstantTypes ==
    /\ NumDev \in Nat /\ NumDev > 0 /\ NumDev % 2 = 0
    /\ NumMb \in Nat /\ NumChunks \in Nat /\ MaxIter \in Nat
    /\ OverlapGradReduce \in BOOLEAN
    /\ Program \in [Rank -> Seq(Operation)]
BY SizeAssumption, PlanAssumption

LEMMA TensorTypes ==
    /\ Absent \in Tensor /\ None \in Tensor /\ Empty \in Tensor /\ Garbage \in Tensor
    /\ \A i \in 0 .. MaxIter, mb \in Mb, s \in Int :
          Act(i, mb, s) \in Tensor /\ Grad(i, mb, s) \in Tensor
    /\ \A t \in Tensor : GetOrSet(t) \in Tensor
BY ConstantTypes DEF Tensor, Absent, None, Empty, Garbage, Bare, Act, Grad, GetOrSet, Mb

LEMMA StageType ==
    ASSUME NEW d \in Rank, NEW c \in Chunk
    PROVE  Stage(d, c) \in Int
BY ConstantTypes DEF Stage, StageOf, Rank, Chunk

LEMMA ChannelTypes ==
    ASSUME NEW d \in Rank, NEW dir \in Dir
    PROVE  /\ Peer(d, dir) \in Rank
           /\ SendChannel(d, dir) \in Channel
           /\ RecvChannel(d, dir) \in Channel
<1>1. Peer(d, dir) \in Rank
  BY ConstantTypes DEF Peer, PeerOf, Rank
<1>2. SendGroup(d, dir) \in 0 .. 3 /\ RecvGroup(d, dir) \in 0 .. 3
  BY DEF SendGroup, RecvGroup
<1> QED
  BY <1>1, <1>2 DEF SendChannel, RecvChannel, Channel

\* What a rank that is running is at.
LEMMA OpType ==
    ASSUME TypeOK, NEW d \in Rank, Running(d)
    PROVE  /\ Op(d) \in Operation
           /\ Op(d).op = "LOCAL_COPY" => Op(d).from \in Chunk
           /\ OpKey(d) \in Key
           /\ iteration[d] \in 1 .. MaxIter
           /\ pc[d] \in 1 .. Len(Program[d])
<1>1. pc[d] \in 1 .. Len(Program[d]) /\ Program[d] \in Seq(Operation)
  BY ConstantTypes DEF Running
<1>2. Op(d) \in Operation
  BY <1>1 DEF Op
<1>3. Op(d).op = "LOCAL_COPY" => Op(d).from \in Chunk
  BY <1>1, PlanAssumption DEF Op
<1>4. OpKey(d) \in Key
  BY <1>2 DEF OpKey, Key, Operation
<1>5. iteration[d] \in 1 .. MaxIter
  BY ConstantTypes DEF Running, TypeOK
<1> QED
  BY <1>1, <1>2, <1>3, <1>4, <1>5

-----------------------------------------------------------------------------
(* Type correctness.                                                       *)

LEMMA NoTensorsType == NoTensors \in [Key -> Tensor]
BY TensorTypes DEF NoTensors

LEMMA TypeInit == Init => TypeOK
<1> SUFFICES ASSUME Init PROVE TypeOK
  OBVIOUS
<1>1. \A d \in Rank : Program[d] \in Seq(Operation) /\ Len(Program[d]) \in Nat
  BY ConstantTypes
<1>2. /\ iteration \in [Rank -> 1 .. MaxIter + 1]
      /\ pc \in [Rank -> Nat] /\ \A d \in Rank : pc[d] <= Len(Program[d]) + 1
  BY ConstantTypes, <1>1 DEF Init
<1>3. chan \in [Channel -> Seq(Message)]
  BY DEF Init
<1>4. /\ input_tensors \in [Rank -> [Key -> Tensor]]
      /\ output_tensors \in [Rank -> [Key -> Tensor]]
      /\ output_tensor_grads \in [Rank -> [Key -> Tensor]]
      /\ input_tensor_grads \in [Rank -> [Key -> Tensor]]
  BY NoTensorsType DEF Init
<1>5. /\ send_reqs \in [Rank -> SUBSET Request]
      /\ recv_reqs \in [Rank -> SUBSET Request]
      /\ wgrad_blocks \in [Rank -> Seq(Block)]
  BY DEF Init
<1>6. /\ no_sync \in [Rank -> [Chunk -> BOOLEAN]]
      /\ main_grad \in [Rank -> [Chunk -> SUBSET Contribution]]
      /\ reductions \in [Rank -> [Chunk -> Seq(SUBSET Contribution)]]
      /\ grad_reduce_handle \in [Rank -> [Chunk -> BOOLEAN]]
  BY DEF Init
<1> QED
  BY <1>2, <1>3, <1>4, <1>5, <1>6 DEF TypeOK

\* Advancing to the next operation keeps the position in range.
LEMMA AdvanceType ==
    ASSUME TypeOK, NEW d \in Rank, Running(d), Advance(d)
    PROVE  /\ iteration' \in [Rank -> 1 .. MaxIter + 1]
           /\ pc' \in [Rank -> Nat]
           /\ \A e \in Rank : pc'[e] <= Len(Program[e]) + 1
<1>1. \A e \in Rank : Len(Program[e]) \in Nat
  BY ConstantTypes
<1>2. pc[d] \in 1 .. Len(Program[d])
  BY OpType
<1> QED
  BY <1>1, <1>2 DEF TypeOK, Advance

\* The buffers of a communication event hold tensors.
LEMMA BuffersType ==
    ASSUME TypeOK, NEW d \in Rank, Running(d), NEW t \in Tensor, Buffers(d, t)
    PROVE  /\ input_tensors' \in [Rank -> [Key -> Tensor]]
           /\ output_tensors' \in [Rank -> [Key -> Tensor]]
           /\ output_tensor_grads' \in [Rank -> [Key -> Tensor]]
           /\ input_tensor_grads' \in [Rank -> [Key -> Tensor]]
<1>1. OpKey(d) \in Key
  BY OpType
<1>2. /\ Allocated(output_tensors, d) \in [Rank -> [Key -> Tensor]]
      /\ Allocated(input_tensor_grads, d) \in [Rank -> [Key -> Tensor]]
  BY <1>1, TensorTypes DEF TypeOK, Allocated
<1>3. /\ input_tensors \in [Rank -> [Key -> Tensor]]
      /\ output_tensors \in [Rank -> [Key -> Tensor]]
      /\ output_tensor_grads \in [Rank -> [Key -> Tensor]]
      /\ input_tensor_grads \in [Rank -> [Key -> Tensor]]
  BY DEF TypeOK
<1>4. \A dict \in [Rank -> [Key -> Tensor]] :
        [dict EXCEPT ![d][OpKey(d)] = t] \in [Rank -> [Key -> Tensor]]
  BY <1>1
<1>5. CASE Op(d).type = "F"
  <2>1. output_tensors' = Allocated(output_tensors, d)
    BY <1>5 DEF Buffers
  <2>2. input_tensors' = [input_tensors EXCEPT ![d][OpKey(d)] = t]
    BY <1>5 DEF Buffers
  <2>3. output_tensor_grads' = output_tensor_grads /\ input_tensor_grads' = input_tensor_grads
    BY <1>5 DEF Buffers
  <2> QED
    BY <1>2, <1>3, <1>4, <2>1, <2>2, <2>3
<1>6. CASE Op(d).type # "F"
  <2>1. input_tensor_grads' = Allocated(input_tensor_grads, d)
    BY <1>6 DEF Buffers
  <2>2. output_tensor_grads' = [output_tensor_grads EXCEPT ![d][OpKey(d)] = t]
    BY <1>6 DEF Buffers
  <2>3. input_tensors' = input_tensors /\ output_tensors' = output_tensors
    BY <1>6 DEF Buffers
  <2> QED
    BY <1>2, <1>3, <1>4, <2>1, <2>2, <2>3
<1> QED
  BY <1>5, <1>6

LEMMA BufferType ==
    ASSUME TypeOK, NEW d \in Rank, Running(d)
    PROVE  /\ RecvBuffer(d) \in Tensor
           /\ \A key \in Key : SendBuffer(d, key) \in Tensor
BY OpType, TensorTypes DEF TypeOK, RecvBuffer, SendBuffer

LEMMA RequestType ==
    ASSUME TypeOK, NEW d \in Rank, NEW dir \in Dir, Running(d)
    PROVE  RequestOf(d, dir) \in Request
BY OpType DEF RequestOf, Request, Operation

\* One lemma per action: it keeps the types.
LEMMA LocalCopyType ==
    ASSUME TypeOK, NEW d \in Rank, LocalCopy(d)
    PROVE  TypeOK'
<1> DEFINE source == SendBuffer(d, <<Op(d).mb, Op(d).from>>)
<1>1. Running(d) /\ Op(d).op = "LOCAL_COPY" /\ Buffers(d, source) /\ Advance(d)
  BY DEF LocalCopy, At
<1>2. <<Op(d).mb, Op(d).from>> \in Key
  BY <1>1, OpType DEF Key, Operation
<1>3. source \in Tensor
  BY <1>1, <1>2, BufferType
<1>4. UNCHANGED <<chan, send_reqs, recv_reqs, wgrad_blocks, grads>>
  BY DEF LocalCopy
<1> HIDE DEF source
<1> QED
  BY <1>1, <1>3, <1>4, AdvanceType, BuffersType DEF TypeOK, grads

LEMMA PostSendType ==
    ASSUME TypeOK, NEW d \in Rank, NEW dir \in Dir, PostSend(d, dir)
    PROVE  TypeOK'
<1> DEFINE msg == [iter |-> iteration[d], at |-> pc[d],
                   data |-> GetOrSet(SendBuffer(d, OpKey(d)))]
<1>1. Running(d) /\ Buffers(d, RecvBuffer(d)) /\ Advance(d)
  BY DEF PostSend, At
<1>2. msg \in Message
  BY <1>1, OpType, BufferType, TensorTypes DEF Message, TypeOK
<1>3. chan' = [chan EXCEPT ![SendChannel(d, dir)] = Append(@, msg)]
  BY DEF PostSend
<1>4. chan' \in [Channel -> Seq(Message)]
  <2> HIDE DEF msg
  <2> QED
    BY <1>2, <1>3, ChannelTypes DEF TypeOK
<1>5. send_reqs' \in [Rank -> SUBSET Request]
  BY <1>1, RequestType DEF PostSend, TypeOK
<1>6. UNCHANGED <<recv_reqs, wgrad_blocks, grads>>
  BY DEF PostSend
<1>7. RecvBuffer(d) \in Tensor
  BY <1>1, BufferType
<1> QED
  BY <1>1, <1>4, <1>5, <1>6, <1>7, AdvanceType, BuffersType DEF TypeOK, grads

LEMMA PostRecvType ==
    ASSUME TypeOK, NEW d \in Rank, NEW dir \in Dir, PostRecv(d, dir)
    PROVE  TypeOK'
<1>1. Running(d) /\ Buffers(d, RecvBuffer(d)) /\ Advance(d)
  BY DEF PostRecv, At
<1>2. recv_reqs' \in [Rank -> SUBSET Request]
  BY <1>1, RequestType DEF PostRecv, TypeOK
<1>3. UNCHANGED <<chan, send_reqs, wgrad_blocks, grads>>
  BY DEF PostRecv
<1>4. RecvBuffer(d) \in Tensor
  BY <1>1, BufferType
<1> QED
  BY <1>1, <1>2, <1>3, <1>4, AdvanceType, BuffersType DEF TypeOK, grads

LEMMA WaitRecvType ==
    ASSUME TypeOK, NEW d \in Rank, NEW dir \in Dir, WaitRecv(d, dir)
    PROVE  TypeOK'
<1> DEFINE c == RecvChannel(d, dir)
<1>1. Running(d) /\ chan[c] # <<>> /\ Buffers(d, Head(chan[c]).data) /\ Advance(d)
  BY DEF WaitRecv, At
<1>2. chan[c] \in Seq(Message)
  BY ChannelTypes DEF TypeOK
<1>3. Head(chan[c]).data \in Tensor
  <2>1. Head(chan[c]) \in Message
    BY <1>1, <1>2
  <2> QED
    BY <2>1 DEF Message
<1>4. Tail(chan[c]) \in Seq(Message)
  BY <1>1, <1>2
<1>5. chan' \in [Channel -> Seq(Message)]
  BY <1>4, ChannelTypes DEF WaitRecv, TypeOK
<1>6. recv_reqs' \in [Rank -> SUBSET Request]
  BY DEF WaitRecv, TypeOK
<1>7. UNCHANGED <<send_reqs, wgrad_blocks, grads>>
  BY DEF WaitRecv
<1> QED
  BY <1>1, <1>3, <1>5, <1>6, <1>7, AdvanceType, BuffersType DEF TypeOK, grads

LEMMA ForwardStepType ==
    ASSUME TypeOK, NEW d \in Rank, ForwardStep(d)
    PROVE  TypeOK'
<1> DEFINE k == OpKey(d)
           right == \/ FirstStage(d, k[2])
                    \/ input_tensors[d][k] = Act(iteration[d], k[1], Stage(d, k[2]) - 1)
           out == IF right THEN Act(iteration[d], k[1], Stage(d, k[2])) ELSE Garbage
<1>1. Running(d) /\ Advance(d)
  BY DEF ForwardStep, At
<1>2. k \in Key /\ k[1] \in Mb /\ k[2] \in Chunk /\ iteration[d] \in 0 .. MaxIter
  BY <1>1, OpType, ConstantTypes DEF Key
<1>3. out \in Tensor
  BY <1>2, StageType, TensorTypes
<1>4. output_tensors' = [output_tensors EXCEPT ![d][k] = out]
  BY DEF ForwardStep
<1> HIDE DEF out, k
<1>5. output_tensors' \in [Rank -> [Key -> Tensor]]
  BY <1>2, <1>3, <1>4 DEF TypeOK
<1>6. UNCHANGED <<chan, send_reqs, recv_reqs, input_tensors, output_tensor_grads,
                  input_tensor_grads, wgrad_blocks, grads>>
  BY DEF ForwardStep
<1> QED
  BY <1>1, <1>5, <1>6, AdvanceType DEF TypeOK, grads

\* Starting a reduction of what a chunk's gradient holds.
LEMMA StartGradSyncType ==
    ASSUME TypeOK, NEW d \in Rank, NEW c \in Chunk, NEW held \in SUBSET Contribution,
           StartGradSync(d, c, held) \/ UNCHANGED <<reductions, grad_reduce_handle>>
    PROVE  /\ reductions' \in [Rank -> [Chunk -> Seq(SUBSET Contribution)]]
           /\ grad_reduce_handle' \in [Rank -> [Chunk -> BOOLEAN]]
<1>1. /\ reductions \in [Rank -> [Chunk -> Seq(SUBSET Contribution)]]
      /\ grad_reduce_handle \in [Rank -> [Chunk -> BOOLEAN]]
  BY DEF TypeOK
<1>2. CASE UNCHANGED <<reductions, grad_reduce_handle>>
  BY <1>1, <1>2
<1>3. CASE StartGradSync(d, c, held)
  <2>1. reductions[d][c] \in Seq(SUBSET Contribution)
    BY <1>1
  <2>2. Append(reductions[d][c], held) \in Seq(SUBSET Contribution)
    BY <2>1
  <2>3. reductions' \in [Rank -> [Chunk -> Seq(SUBSET Contribution)]]
    BY <1>1, <1>3, <2>2 DEF StartGradSync
  <2>4. grad_reduce_handle' \in [Rank -> [Chunk -> BOOLEAN]]
    BY <1>1, <1>3, ConstantTypes DEF StartGradSync
  <2> QED
    BY <2>3, <2>4
<1> QED
  BY <1>2, <1>3

LEMMA DeallocateType ==
    ASSUME TypeOK, NEW d \in Rank, Deallocate(d)
    PROVE  TypeOK'
<1> DEFINE sent == {<<r[2], r[3]>> : r \in {q \in send_reqs[d] : q[4] = "B" /\ SendCompleted(d, q)}}
           kept == [k \in Key |-> IF k \in sent THEN None ELSE input_tensor_grads[d][k]]
<1>1. Running(d) /\ Advance(d)
  BY DEF Deallocate
<1>2. kept \in [Key -> Tensor]
  <2> HIDE DEF sent
  <2> QED
    BY TensorTypes DEF TypeOK
<1>3. input_tensor_grads' = [input_tensor_grads EXCEPT ![d] = kept]
  BY DEF Deallocate
<1>4. input_tensor_grads' \in [Rank -> [Key -> Tensor]]
  <2> HIDE DEF kept
  <2> QED
    BY <1>2, <1>3 DEF TypeOK
<1>5. UNCHANGED <<chan, send_reqs, recv_reqs, input_tensors, output_tensors,
                  output_tensor_grads, wgrad_blocks, grads>>
  BY DEF Deallocate
<1> QED
  BY <1>1, <1>4, <1>5, AdvanceType DEF TypeOK, grads

LEMMA SkipType ==
    ASSUME TypeOK, NEW d \in Rank, Skip(d)
    PROVE  TypeOK'
<1>1. Running(d) /\ Advance(d)
  BY DEF Skip
<1>2. UNCHANGED <<chan, send_reqs, recv_reqs, tensors, wgrad_blocks, grads>>
  BY DEF Skip
<1> QED
  BY <1>1, <1>2, AdvanceType DEF TypeOK, tensors, grads

LEMMA BackwardStepType ==
    ASSUME TypeOK, NEW d \in Rank, BackwardStep(d)
    PROVE  TypeOK'
<1> DEFINE k == OpKey(d)
           c == k[2]
           s == Stage(d, c)
           i == iteration[d]
           right == /\ output_tensors[d][k] = Act(i, k[1], s)
                    /\ FirstStage(d, c) \/ input_tensors[d][k] = Act(i, k[1], s - 1)
                    /\ LastStage(d, c) \/ output_tensor_grads[d][k] = Grad(i, k[1], s + 1)
           grad == IF FirstStage(d, c) THEN None ELSE IF right THEN Grad(i, k[1], s) ELSE Garbage
           added == {<<part, k[1]>> : part \in IF WgradSplit(d) THEN {"B"} ELSE {"B", "W"}}
           held == main_grad[d][c] \cup IF right THEN added ELSE {}
           block == [mb |-> k[1], chunk |-> c, right |-> right]
<1>1. Running(d) /\ Advance(d)
  BY DEF BackwardStep, At
<1>2. k \in Key /\ k[1] \in Mb /\ c \in Chunk /\ i \in 0 .. MaxIter
  BY <1>1, OpType, ConstantTypes DEF Key
<1>3. grad \in Tensor
  BY <1>2, StageType, TensorTypes
<1>4. held \in SUBSET Contribution
  <2>1. added \in SUBSET Contribution
    BY <1>2 DEF Contribution
  <2> HIDE DEF k, c, added, right
  <2> QED
    BY <1>2, <2>1 DEF TypeOK
<1>5. block \in Block
  <2>1. right \in BOOLEAN
    OBVIOUS
  <2> HIDE DEF k, c, right
  <2> QED
    BY <1>2, <2>1 DEF Block
<1>6. /\ input_tensors' = [input_tensors EXCEPT ![d][k] = None]
      /\ output_tensors' = [output_tensors EXCEPT ![d][k] = None]
      /\ output_tensor_grads' = [output_tensor_grads EXCEPT ![d][k] = None]
      /\ input_tensor_grads' = [input_tensor_grads EXCEPT ![d][k] = grad]
  BY DEF BackwardStep
<1>7. wgrad_blocks' = IF WgradSplit(d) THEN [wgrad_blocks EXCEPT ![d] = FinishCollection(d, block)]
                                       ELSE wgrad_blocks
  BY DEF BackwardStep
<1>8. main_grad' = [main_grad EXCEPT ![d][c] = held] /\ no_sync' = [no_sync EXCEPT ![d][c] = TRUE]
  BY DEF BackwardStep
<1>9. StartGradSync(d, c, held) \/ UNCHANGED <<reductions, grad_reduce_handle>>
  BY DEF BackwardStep
<1>10. UNCHANGED <<chan, send_reqs, recv_reqs>>
  BY DEF BackwardStep
<1> HIDE DEF k, c, i, grad, held, block
<1>11. \A dict \in [Rank -> [Key -> Tensor]], t \in Tensor :
         [dict EXCEPT ![d][k] = t] \in [Rank -> [Key -> Tensor]]
  BY <1>2
<1>12. /\ input_tensors' \in [Rank -> [Key -> Tensor]]
       /\ output_tensors' \in [Rank -> [Key -> Tensor]]
       /\ output_tensor_grads' \in [Rank -> [Key -> Tensor]]
       /\ input_tensor_grads' \in [Rank -> [Key -> Tensor]]
  BY <1>3, <1>6, <1>11, TensorTypes DEF TypeOK
<1>13. wgrad_blocks' \in [Rank -> Seq(Block)]
  BY <1>5, <1>7 DEF FinishCollection, TypeOK
<1>14. main_grad' \in [Rank -> [Chunk -> SUBSET Contribution]] /\ no_sync' \in [Rank -> [Chunk -> BOOLEAN]]
  BY <1>2, <1>4, <1>8 DEF TypeOK
<1>15. /\ reductions' \in [Rank -> [Chunk -> Seq(SUBSET Contribution)]]
       /\ grad_reduce_handle' \in [Rank -> [Chunk -> BOOLEAN]]
  BY <1>2, <1>4, <1>9, StartGradSyncType
<1> QED
  BY <1>1, <1>10, <1>12, <1>13, <1>14, <1>15, AdvanceType DEF TypeOK

LEMMA WGradStepType ==
    ASSUME TypeOK, NEW d \in Rank, WGradStep(d)
    PROVE  TypeOK'
<1> DEFINE b == Head(wgrad_blocks[d])
           held == main_grad[d][b.chunk] \cup IF b.right THEN {<<"W", b.mb>>} ELSE {}
           grad == [main_grad EXCEPT ![d][b.chunk] = held]
           c == OpKey(d)[2]
<1>1. Running(d) /\ Advance(d) /\ wgrad_blocks[d] # <<>>
  BY DEF WGradStep, At
<1>2. c \in Chunk
  BY <1>1, OpType DEF Key
<1>3. wgrad_blocks[d] \in Seq(Block)
  BY DEF TypeOK
<1>4. b \in Block /\ Tail(wgrad_blocks[d]) \in Seq(Block)
  BY <1>1, <1>3
<1>5. b.mb \in Mb /\ b.chunk \in Chunk
  BY <1>4 DEF Block
<1>6. held \in SUBSET Contribution
  <2> HIDE DEF b
  <2> QED
    BY <1>5 DEF TypeOK, Contribution
<1>7. /\ wgrad_blocks' = [wgrad_blocks EXCEPT ![d] = Tail(@)]
      /\ main_grad' = grad
      /\ StartGradSync(d, c, grad[d][c]) \/ UNCHANGED <<reductions, grad_reduce_handle>>
      /\ UNCHANGED <<chan, send_reqs, recv_reqs, tensors, no_sync>>
  BY DEF WGradStep
<1>8. grad \in [Rank -> [Chunk -> SUBSET Contribution]]
  <2> HIDE DEF b, held
  <2> QED
    BY <1>5, <1>6 DEF TypeOK
<1> HIDE DEF b, held, grad, c
<1>9. grad[d][c] \in SUBSET Contribution
  BY <1>2, <1>8
<1>10. /\ reductions' \in [Rank -> [Chunk -> Seq(SUBSET Contribution)]]
       /\ grad_reduce_handle' \in [Rank -> [Chunk -> BOOLEAN]]
  BY <1>2, <1>7, <1>9, StartGradSyncType
<1>11. wgrad_blocks' \in [Rank -> Seq(Block)]
  BY <1>4, <1>7 DEF TypeOK
<1> QED
  BY <1>1, <1>7, <1>8, <1>10, <1>11, AdvanceType DEF TypeOK, tensors

LEMMA StartIterationType ==
    ASSUME TypeOK, NEW d \in Rank, StartIteration(d)
    PROVE  TypeOK'
<1>1. \A e \in Rank : Len(Program[e]) \in Nat
  BY ConstantTypes
<1>2. pc' \in [Rank -> Nat] /\ \A e \in Rank : pc'[e] <= Len(Program[e]) + 1
  BY <1>1 DEF StartIteration, TypeOK
<1>3. no_sync' \in [Rank -> [Chunk -> BOOLEAN]]
  BY DEF StartIteration, TypeOK
<1>4. /\ main_grad' \in [Rank -> [Chunk -> SUBSET Contribution]]
      /\ reductions' \in [Rank -> [Chunk -> Seq(SUBSET Contribution)]]
  <2>1. CASE Training(d)
    <3>1. /\ main_grad' = [main_grad EXCEPT ![d] = [c \in Chunk |-> {}]]
          /\ reductions' = [reductions EXCEPT ![d] = [c \in Chunk |-> <<>>]]
      BY <2>1 DEF StartIteration
    <3>2. [c \in Chunk |-> <<>>] \in [Chunk -> Seq(SUBSET Contribution)]
      OBVIOUS
    <3> QED
      BY <3>1, <3>2 DEF TypeOK
  <2>2. CASE ~Training(d)
    BY <2>2 DEF StartIteration, TypeOK
  <2> QED
    BY <2>1, <2>2
<1>5. UNCHANGED <<iteration, chan, send_reqs, recv_reqs, tensors, wgrad_blocks, grad_reduce_handle>>
  BY DEF StartIteration
<1> QED
  BY <1>2, <1>3, <1>4, <1>5 DEF TypeOK, tensors

LEMMA FinishGradSyncType ==
    ASSUME TypeOK, NEW d \in Rank,
           FinishGradSync(d) \/ UNCHANGED <<reductions, grad_reduce_handle>>
    PROVE  /\ reductions' \in [Rank -> [Chunk -> Seq(SUBSET Contribution)]]
           /\ grad_reduce_handle' \in [Rank -> [Chunk -> BOOLEAN]]
<1>1. /\ reductions \in [Rank -> [Chunk -> Seq(SUBSET Contribution)]]
      /\ grad_reduce_handle \in [Rank -> [Chunk -> BOOLEAN]]
  BY DEF TypeOK
<1> DEFINE more == [c \in Chunk |-> Append(reductions[d][c], main_grad[d][c])]
<1>2. more \in [Chunk -> Seq(SUBSET Contribution)]
  <2> SUFFICES ASSUME NEW c \in Chunk
               PROVE  Append(reductions[d][c], main_grad[d][c]) \in Seq(SUBSET Contribution)
    OBVIOUS
  <2>1. reductions[d][c] \in Seq(SUBSET Contribution) /\ main_grad[d][c] \in SUBSET Contribution
    BY DEF TypeOK
  <2> QED
    BY <2>1
<1>3. CASE UNCHANGED <<reductions, grad_reduce_handle>>
  BY <1>1, <1>3
<1>4. CASE FinishGradSync(d)
  <2>1. reductions' = IF OverlapGradReduce THEN reductions ELSE [reductions EXCEPT ![d] = more]
    BY <1>4 DEF FinishGradSync
  <2>2. grad_reduce_handle' = [grad_reduce_handle EXCEPT ![d] = [c \in Chunk |-> FALSE]]
    BY <1>4 DEF FinishGradSync
  <2> HIDE DEF more
  <2> QED
    BY <1>1, <1>2, <2>1, <2>2
<1> QED
  BY <1>3, <1>4

LEMMA FinishIterationType ==
    ASSUME TypeOK, NEW d \in Rank, FinishIteration(d)
    PROVE  TypeOK'
<1>1. \A e \in Rank : Len(Program[e]) \in Nat
  BY ConstantTypes
<1>2. /\ iteration' \in [Rank -> 1 .. MaxIter + 1]
      /\ pc' \in [Rank -> Nat] /\ \A e \in Rank : pc'[e] <= Len(Program[e]) + 1
  BY <1>1, ConstantTypes DEF FinishIteration, TypeOK
<1>3. no_sync' \in [Rank -> [Chunk -> BOOLEAN]]
  BY DEF FinishIteration, TypeOK
<1>4. CleanUp(d)
  BY DEF FinishIteration
<1>5. /\ input_tensors' \in [Rank -> [Key -> Tensor]]
      /\ output_tensors' \in [Rank -> [Key -> Tensor]]
      /\ output_tensor_grads' \in [Rank -> [Key -> Tensor]]
      /\ input_tensor_grads' \in [Rank -> [Key -> Tensor]]
  BY <1>4, NoTensorsType DEF CleanUp, TypeOK
<1>6. send_reqs' \in [Rank -> SUBSET Request] /\ recv_reqs' \in [Rank -> SUBSET Request]
  BY <1>4 DEF CleanUp, TypeOK
<1>7. FinishGradSync(d) \/ UNCHANGED <<reductions, grad_reduce_handle>>
  BY DEF FinishIteration
<1>8. UNCHANGED <<chan, wgrad_blocks, main_grad>>
  BY DEF FinishIteration
<1> QED
  BY <1>2, <1>3, <1>5, <1>6, <1>7, <1>8, FinishGradSyncType DEF TypeOK

LEMMA TypeStep == TypeOK /\ [Next]_vars => TypeOK'
<1> SUFFICES ASSUME TypeOK, [Next]_vars PROVE TypeOK'
  OBVIOUS
<1>1. CASE UNCHANGED vars
  BY <1>1 DEF TypeOK, vars, tensors, grads
<1>2. ASSUME NEW d \in Rank, Step(d) PROVE TypeOK'
  BY <1>2, LocalCopyType, PostSendType, PostRecvType, WaitRecvType, ForwardStepType,
     BackwardStepType, WGradStepType, DeallocateType, SkipType, StartIterationType,
     FinishIterationType DEF Step
<1> QED
  BY <1>1, <1>2 DEF Next, Terminated

\* Whatever the plans, the dispatcher's state keeps its type: positions stay
\* within the plans, buffers hold tensors, the channels carry messages that
\* were sent in some iteration, and the gradients hold contributions of tasks.
THEOREM TypeCorrect == Spec => []TypeOK
BY TypeInit, TypeStep, PTL DEF Spec

-----------------------------------------------------------------------------
(* Delivery.  Every receive takes the message it waits for and no message  *)
(* outlives its iteration.  A link is named by its receiver: rank e        *)
(* receives from its neighbour in direction dir, over the channel          *)
(* RecvChannel(e, dir).                                                    *)

\* The plans agree on every channel.
PlansMatch == \A d \in Rank, dir \in Dir : WaitsMatch(Template, NumDev, Program, d, dir)

-----------------------------------------------------------------------------
(* Links.                                                                  *)

\* The sends of the neighbour towards e, e's waits for them, and the pairs
\* <<send, wait>> of which one carries what the other waits for.
Sends(e, dir) == PlacesOf(Program[Peer(e, dir)], PostSendOp(Opposite(dir)))
Waits(e, dir) == PlacesOf(Program[e], WaitRecvOp(dir))
Pairs(e, dir) ==
    {x \in Sends(e, dir) \X Waits(e, dir) :
        Carries(Template, NumDev, Peer(e, dir), Program[Peer(e, dir)][x[1]], e, Program[e][x[2]])}

LEMMA Remainder ==
    ASSUME NEW n \in Nat, NEW r \in 0 .. n - 1
    PROVE  r % n = r /\ (r + n) % n = r
<1>1. n > 0
  OBVIOUS
<1>2. r % n = r
  BY <1>1
<1>3. (r + n) % n = r
  BY <1>1
<1> QED
  BY <1>2, <1>3

LEMMA Neighbours ==
    ASSUME NEW e \in Rank, NEW dir \in Dir
    PROVE  /\ Peer(e, dir) \in Rank /\ Opposite(dir) \in Dir
           /\ Opposite(Opposite(dir)) = dir
           /\ Peer(e, dir) % 2 # e % 2
           /\ Peer(Peer(e, dir), Opposite(dir)) = e
<1>1. NumDev \in Nat /\ NumDev > 1 /\ NumDev % 2 = 0
  BY ConstantTypes
<1>2. ASSUME NEW d \in Rank
      PROVE  Peer(d, "next") = IF d = NumDev - 1 THEN 0 ELSE d + 1
  <2>1. CASE d = NumDev - 1
    <3>1. (0 + NumDev) % NumDev = 0
      BY <1>1, Remainder
    <3> QED
      BY <1>1, <2>1, <3>1 DEF Peer, PeerOf
  <2>2. CASE d # NumDev - 1
    <3>1. d + 1 \in 0 .. NumDev - 1
      BY <1>1, <2>2 DEF Rank
    <3>2. (d + 1) % NumDev = d + 1
      BY <1>1, <3>1, Remainder
    <3> QED
      BY <2>2, <3>2 DEF Peer, PeerOf
  <2> QED
    BY <2>1, <2>2
<1>3. ASSUME NEW d \in Rank
      PROVE  Peer(d, "prev") = IF d = 0 THEN NumDev - 1 ELSE d - 1
  <2>1. CASE d = 0
    <3>1. NumDev - 1 \in 0 .. NumDev - 1
      BY <1>1
    <3>2. (NumDev - 1) % NumDev = NumDev - 1
      BY <1>1, <3>1, Remainder
    <3>3. d - 1 + NumDev = NumDev - 1
      BY <1>1, <2>1
    <3> QED
      BY <2>1, <3>2, <3>3 DEF Peer, PeerOf
  <2>2. CASE d # 0
    <3>1. d - 1 \in 0 .. NumDev - 1
      BY <1>1, <2>2 DEF Rank
    <3>2. ((d - 1) + NumDev) % NumDev = d - 1
      BY <1>1, <3>1, Remainder
    <3> QED
      BY <2>2, <3>2 DEF Peer, PeerOf
  <2> QED
    BY <2>1, <2>2
<1>4. Peer(e, dir) \in Rank
  BY ChannelTypes
<1>5. Opposite("next") = "prev" /\ Opposite("prev") = "next"
  BY DEF Opposite
<1>6. CASE dir = "next"
  <2>1. Peer(e, dir) = IF e = NumDev - 1 THEN 0 ELSE e + 1
    BY <1>2, <1>6
  <2>2. Peer(Peer(e, dir), "prev") = IF Peer(e, dir) = 0 THEN NumDev - 1 ELSE Peer(e, dir) - 1
    BY <1>3, <1>4
  <2>3. Peer(Peer(e, dir), "prev") = e
    BY <1>1, <2>1, <2>2 DEF Rank
  <2>4. Peer(e, dir) % 2 # e % 2
    BY <1>1, <2>1 DEF Rank
  <2> QED
    BY <1>4, <1>5, <1>6, <2>3, <2>4 DEF Dir
<1>7. CASE dir = "prev"
  <2>1. Peer(e, dir) = IF e = 0 THEN NumDev - 1 ELSE e - 1
    BY <1>3, <1>7
  <2>2. Peer(Peer(e, dir), "next") = IF Peer(e, dir) = NumDev - 1 THEN 0 ELSE Peer(e, dir) + 1
    BY <1>2, <1>4
  <2>3. Peer(Peer(e, dir), "next") = e
    BY <1>1, <2>1, <2>2 DEF Rank
  <2>4. Peer(e, dir) % 2 # e % 2
    BY <1>1, <2>1 DEF Rank
  <2> QED
    BY <1>4, <1>5, <1>7, <2>3, <2>4 DEF Dir
<1> QED
  BY <1>6, <1>7 DEF Dir

\* A channel is used by one link: one neighbour sends on it, one receives.
LEMMA Channels ==
    ASSUME NEW e \in Rank, NEW dir \in Dir, NEW x \in Rank, NEW dx \in Dir
    PROVE  /\ RecvChannel(e, dir) \in Channel
           /\ SendChannel(x, dx) = RecvChannel(e, dir) <=> (x = Peer(e, dir) /\ dx = Opposite(dir))
           /\ RecvChannel(x, dx) = RecvChannel(e, dir) <=> (x = e /\ dx = dir)
<1>1. RecvChannel(e, dir) \in Channel
  BY ChannelTypes
<1>2. RecvChannel(x, dx) = RecvChannel(e, dir) <=> (x = e /\ dx = dir)
  BY DEF RecvChannel, RecvGroup, Dir
<1>3. SendGroup(Peer(e, dir), dx) = RecvGroup(e, dir) <=> dx = Opposite(dir)
  <2>1. Peer(e, dir) % 2 # e % 2 /\ Peer(e, dir) % 2 \in 0 .. 1 /\ e % 2 \in 0 .. 1
    BY Neighbours DEF Rank
  <2> QED
    BY <2>1 DEF SendGroup, RecvGroup, Opposite, Dir
<1>4. ASSUME x = Peer(e, dir), dx = Opposite(dir)
      PROVE  SendChannel(x, dx) = RecvChannel(e, dir)
  BY <1>3, <1>4, Neighbours DEF SendChannel, RecvChannel
<1>5. ASSUME SendChannel(x, dx) = RecvChannel(e, dir)
      PROVE  x = Peer(e, dir) /\ dx = Opposite(dir)
  BY <1>3, <1>5 DEF SendChannel, RecvChannel
<1> QED
  BY <1>1, <1>2, <1>4, <1>5

\* What agreeing plans say of a link.
LEMMA Matching ==
    ASSUME PlansMatch, NEW e \in Rank, NEW dir \in Dir
    PROVE  /\ \A p \in Sends(e, dir) : \E q \in Waits(e, dir) : <<p, q>> \in Pairs(e, dir)
           /\ \A q \in Waits(e, dir) : \E p \in Sends(e, dir) : <<p, q>> \in Pairs(e, dir)
           /\ \A x, y \in Pairs(e, dir) : x[1] < y[1] <=> x[2] < y[2]
<1> DEFINE d == Peer(e, dir)
           match(p, q) == Carries(Template, NumDev, d, Program[d][p], e, Program[e][q])
<1>1. d \in Rank /\ Opposite(dir) \in Dir /\ Opposite(Opposite(dir)) = dir
      /\ PeerOf(NumDev, d, Opposite(dir)) = e
  BY Neighbours DEF Peer
<1>2. MatchedOn(Template, NumDev, Program, d, Opposite(dir), WaitRecvOp(dir))
  BY <1>1 DEF PlansMatch, WaitsMatch
<1>3. /\ \A p \in Sends(e, dir) : \E q \in Waits(e, dir) : match(p, q)
      /\ \A q \in Waits(e, dir) : \E p \in Sends(e, dir) : match(p, q)
      /\ \A p1, p2 \in Sends(e, dir), q1, q2 \in Waits(e, dir) :
            match(p1, q1) /\ match(p2, q2) => (p1 < p2 <=> q1 < q2)
  BY <1>1, <1>2 DEF MatchedOn, Sends, Waits
<1>4. \A p \in Sends(e, dir), q \in Waits(e, dir) : <<p, q>> \in Pairs(e, dir) <=> match(p, q)
  BY DEF Pairs
<1>5. \A x \in Pairs(e, dir) :
         x[1] \in Sends(e, dir) /\ x[2] \in Waits(e, dir) /\ match(x[1], x[2])
  BY DEF Pairs
<1> HIDE DEF match, d
<1>6. \A p \in Sends(e, dir) : \E q \in Waits(e, dir) : <<p, q>> \in Pairs(e, dir)
  BY <1>3, <1>4
<1>7. \A q \in Waits(e, dir) : \E p \in Sends(e, dir) : <<p, q>> \in Pairs(e, dir)
  BY <1>3, <1>4
<1>8. ASSUME NEW x \in Pairs(e, dir), NEW y \in Pairs(e, dir)
      PROVE  x[1] < y[1] <=> x[2] < y[2]
  <2> DEFINE p1 == x[1]  q1 == x[2]  p2 == y[1]  q2 == y[2]
  <2>1. /\ p1 \in Sends(e, dir) /\ q1 \in Waits(e, dir) /\ match(p1, q1)
        /\ p2 \in Sends(e, dir) /\ q2 \in Waits(e, dir) /\ match(p2, q2)
    BY <1>5
  <2> HIDE DEF p1, q1, p2, q2
  <2>2. p1 < p2 <=> q1 < q2
    BY <1>3, <2>1
  <2> QED
    BY <2>2 DEF p1, q1, p2, q2
<1> QED
  BY <1>6, <1>7, <1>8

\* Places are positions in a plan.
LEMMA PlaceTypes ==
    ASSUME NEW e \in Rank, NEW dir \in Dir
    PROVE  /\ Sends(e, dir) \subseteq DOMAIN Program[Peer(e, dir)]
           /\ Waits(e, dir) \subseteq DOMAIN Program[e]
           /\ \A d \in Rank : DOMAIN Program[d] = 1 .. Len(Program[d]) /\ Len(Program[d]) \in Nat
           /\ \A x \in Pairs(e, dir) : x[1] \in Sends(e, dir) /\ x[2] \in Waits(e, dir)
<1>1. \A d \in Rank : Program[d] \in Seq(Operation)
  BY ConstantTypes
<1>2. \A d \in Rank : DOMAIN Program[d] = 1 .. Len(Program[d]) /\ Len(Program[d]) \in Nat
  BY <1>1
<1> QED
  BY <1>2 DEF Sends, Waits, PlacesOf, Pairs

\* The two sides of a pair run in the same iterations.
LEMMA SameEffect ==
    ASSUME NEW e \in Rank, NEW dir \in Dir, NEW x \in Pairs(e, dir), NEW i
    PROVE  Effective(i, Program[Peer(e, dir)][x[1]]) <=> Effective(i, Program[e][x[2]])
<1>1. /\ Program[Peer(e, dir)][x[1]].op = PostSendOp(Opposite(dir))
      /\ Program[e][x[2]].op = WaitRecvOp(dir)
      /\ Program[Peer(e, dir)][x[1]].type = Program[e][x[2]].type
      /\ Program[Peer(e, dir)][x[1]].mb = Program[e][x[2]].mb
  BY DEF Pairs, Carries, Sends, Waits, PlacesOf
<1> QED
  BY <1>1 DEF Effective

-----------------------------------------------------------------------------
(* How far a rank is: the operations <<iteration, place>> it has been      *)
(* through.                                                                *)

Earlier(i, p, j, q) == i < j \/ (i = j /\ p < q)

Passed(d) == {y \in (1 .. MaxIter) \X DOMAIN Program[d] : Earlier(y[1], y[2], iteration[d], pc[d])}

LEMMA PassedAdvance ==
    ASSUME TypeOK, NEW x \in Rank, Running(x), Advance(x), NEW d \in Rank
    PROVE  Passed(d)' = IF d = x THEN Passed(d) \cup {<<iteration[x], pc[x]>>} ELSE Passed(d)
<1>1. iteration[x] \in 1 .. MaxIter /\ pc[x] \in DOMAIN Program[x]
  BY OpType, ConstantTypes
<1>2. iteration' = iteration /\ pc'[x] = pc[x] + 1 /\ (d # x => pc'[d] = pc[d])
  BY DEF Advance, TypeOK
<1>3. CASE d # x
  BY <1>2, <1>3 DEF Passed
<1>4. CASE d = x
  <2>1. \A y \in (1 .. MaxIter) \X DOMAIN Program[x] :
           Earlier(y[1], y[2], iteration[x], pc[x] + 1)
              <=> Earlier(y[1], y[2], iteration[x], pc[x]) \/ y = <<iteration[x], pc[x]>>
    <3>1. DOMAIN Program[x] \subseteq Int
      BY ConstantTypes
    <3> QED
      BY <1>1, <3>1 DEF Earlier
  <2> QED
    BY <1>1, <1>2, <1>4, <2>1 DEF Passed
<1> QED
  BY <1>3, <1>4

LEMMA PassedIteration ==
    ASSUME TypeOK, NEW x \in Rank, StartIteration(x) \/ FinishIteration(x), NEW d \in Rank
    PROVE  Passed(d)' = Passed(d)
<1>1. iteration \in [Rank -> Int] /\ pc \in [Rank -> Int]
  BY ConstantTypes DEF TypeOK
<1>2. DOMAIN Program[d] = 1 .. Len(Program[d]) /\ Len(Program[d]) \in Nat
  BY ConstantTypes
<1>3. CASE StartIteration(x)
  <2>1. iteration'[d] = iteration[d] /\ (pc'[d] = pc[d] \/ (pc[d] = 0 /\ pc'[d] = 1))
    BY <1>1, <1>3 DEF StartIteration
  <2> QED
    BY <1>1, <1>2, <2>1 DEF Passed, Earlier
<1>4. CASE FinishIteration(x)
  <2>1. \/ iteration'[d] = iteration[d] /\ pc'[d] = pc[d]
        \/ /\ iteration'[d] = iteration[d] + 1
           /\ pc[d] = Len(Program[d]) + 1 /\ pc'[d] = 0
    BY <1>1, <1>4 DEF FinishIteration
  <2> QED
    BY <1>1, <1>2, <2>1 DEF Passed, Earlier
<1> QED
  BY <1>3, <1>4

-----------------------------------------------------------------------------
(* The invariant of a link: its channel holds exactly what the neighbour   *)
(* has sent and e has not yet received, in the order it was sent.          *)

InTransit(e, dir) == chan[RecvChannel(e, dir)]

\* What is in the channel was sent.
WasSent(e, dir) ==
    LET c == InTransit(e, dir)
    IN  \A j \in DOMAIN c :
           /\ <<c[j].iter, c[j].at>> \in Passed(Peer(e, dir))
           /\ c[j].at \in Sends(e, dir)
           /\ Effective(c[j].iter, Program[Peer(e, dir)][c[j].at])

InOrder(e, dir) ==
    LET c == InTransit(e, dir)
    IN  \A j, k \in DOMAIN c : j < k => Earlier(c[j].iter, c[j].at, c[k].iter, c[k].at)

\* What is in the channel has not been received.
NotReceived(e, dir) ==
    LET c == InTransit(e, dir)
    IN  \A j \in DOMAIN c, x \in Pairs(e, dir) :
           x[1] = c[j].at => <<c[j].iter, x[2]>> \notin Passed(e)

\* What was sent and not received is in the channel.
NoneLost(e, dir) ==
    LET c == InTransit(e, dir)
    IN  \A i \in 1 .. MaxIter, x \in Pairs(e, dir) :
           /\ Effective(i, Program[e][x[2]])
           /\ <<i, x[1]>> \in Passed(Peer(e, dir))
           /\ <<i, x[2]>> \notin Passed(e)
           => \E j \in DOMAIN c : c[j].iter = i /\ c[j].at = x[1]

\* What was received was sent.
NoneInvented(e, dir) ==
    \A i \in 1 .. MaxIter, x \in Pairs(e, dir) :
        Effective(i, Program[e][x[2]]) /\ <<i, x[2]>> \in Passed(e)
            => <<i, x[1]>> \in Passed(Peer(e, dir))

LinkInv(e, dir) ==
    /\ WasSent(e, dir)
    /\ InOrder(e, dir)
    /\ NotReceived(e, dir)
    /\ NoneLost(e, dir)
    /\ NoneInvented(e, dir)

Delivery == \A e \in Rank, dir \in Dir : LinkInv(e, dir)

LEMMA DeliveryInit == Init => Delivery
<1> SUFFICES ASSUME Init, NEW e \in Rank, NEW dir \in Dir PROVE LinkInv(e, dir)
  BY DEF Delivery
<1>1. InTransit(e, dir) = <<>>
  BY ChannelTypes DEF Init, InTransit
<1>2. \A d \in Rank : Passed(d) = {}
  BY PlaceTypes DEF Init, Passed, Earlier
<1>3. Peer(e, dir) \in Rank
  BY Neighbours
<1> QED
  BY <1>1, <1>2, <1>3 DEF LinkInv, WasSent, InOrder, NotReceived, NoneLost, NoneInvented

\* A step that leaves the channel alone and moves no rank past a send or a
\* wait of the link that takes effect.
LEMMA QuietStep ==
    ASSUME NEW e \in Rank, NEW dir \in Dir, LinkInv(e, dir),
           InTransit(e, dir)' = InTransit(e, dir),
           NEW A, NEW B,
           Passed(Peer(e, dir))' = Passed(Peer(e, dir)) \cup A,
           Passed(e)' = Passed(e) \cup B,
           \A y \in A : ~(y[2] \in Sends(e, dir) /\ Effective(y[1], Program[Peer(e, dir)][y[2]])),
           \A y \in B : ~(y[2] \in Waits(e, dir) /\ Effective(y[1], Program[e][y[2]]))
    PROVE  LinkInv(e, dir)'
<1> DEFINE d == Peer(e, dir)
           c == InTransit(e, dir)
<1>1. /\ \A x \in Pairs(e, dir) : x[1] \in Sends(e, dir) /\ x[2] \in Waits(e, dir)
      /\ \A i : \A x \in Pairs(e, dir) :
            Effective(i, Program[d][x[1]]) <=> Effective(i, Program[e][x[2]])
  BY PlaceTypes, SameEffect
<1>2. WasSent(e, dir)'
  BY DEF LinkInv, WasSent
<1>3. InOrder(e, dir)'
  BY DEF LinkInv, InOrder
<1>4. NotReceived(e, dir)'
  <2> SUFFICES ASSUME NEW j \in DOMAIN c, NEW x \in Pairs(e, dir), x[1] = c[j].at
               PROVE  <<c[j].iter, x[2]>> \notin Passed(e)'
    BY DEF NotReceived
  <2>1. <<c[j].iter, x[2]>> \notin Passed(e)
    BY DEF LinkInv, NotReceived
  <2>2. Effective(c[j].iter, Program[e][x[2]]) /\ x[2] \in Waits(e, dir)
    BY <1>1 DEF LinkInv, WasSent
  <2> QED
    BY <2>1, <2>2
<1>5. NoneLost(e, dir)'
  <2> SUFFICES ASSUME NEW i \in 1 .. MaxIter, NEW x \in Pairs(e, dir),
                      Effective(i, Program[e][x[2]]),
                      <<i, x[1]>> \in Passed(d)', <<i, x[2]>> \notin Passed(e)'
               PROVE  \E j \in DOMAIN c : c[j].iter = i /\ c[j].at = x[1]
    BY DEF NoneLost
  <2>1. <<i, x[1]>> \in Passed(d) /\ <<i, x[2]>> \notin Passed(e)
    BY <1>1
  <2> QED
    BY <2>1 DEF LinkInv, NoneLost
<1>6. NoneInvented(e, dir)'
  <2> SUFFICES ASSUME NEW i \in 1 .. MaxIter, NEW x \in Pairs(e, dir),
                      Effective(i, Program[e][x[2]]), <<i, x[2]>> \in Passed(e)'
               PROVE  <<i, x[1]>> \in Passed(d)'
    BY DEF NoneInvented
  <2>1. <<i, x[2]>> \in Passed(e)
    BY <1>1
  <2> QED
    BY <2>1 DEF LinkInv, NoneInvented
<1> QED
  BY <1>2, <1>3, <1>4, <1>5, <1>6 DEF LinkInv

\* The neighbour sends: the message goes to the end of the channel.
LEMMA SendStep ==
    ASSUME TypeOK, NEW e \in Rank, NEW dir \in Dir, LinkInv(e, dir),
           NEW i \in 1 .. MaxIter, NEW p \in Sends(e, dir),
           i = iteration[Peer(e, dir)], p = pc[Peer(e, dir)],
           Effective(i, Program[Peer(e, dir)][p]),
           NEW msg, msg.iter = i, msg.at = p,
           InTransit(e, dir)' = Append(InTransit(e, dir), msg),
           Passed(Peer(e, dir))' = Passed(Peer(e, dir)) \cup {<<i, p>>},
           Passed(e)' = Passed(e)
    PROVE  LinkInv(e, dir)'
<1> DEFINE d == Peer(e, dir)
           c == InTransit(e, dir)
           last == Len(c) + 1
<1>1. /\ c \in Seq(Message) /\ Len(c) \in Nat /\ DOMAIN c = 1 .. Len(c)
  <2>1. c \in Seq(Message)
    BY ChannelTypes DEF TypeOK, InTransit
  <2> QED
    BY <2>1
<1>2. /\ DOMAIN c' = 1 .. last /\ c'[last] = msg
      /\ \A j \in 1 .. Len(c) : c'[j] = c[j]
  BY <1>1
<1>3. p \in Int /\ <<i, p>> \notin Passed(d)
  BY PlaceTypes, Neighbours DEF Passed, Earlier
<1>4. \A j \in DOMAIN c : Earlier(c[j].iter, c[j].at, i, p)
  BY DEF LinkInv, WasSent, Passed
<1>5. WasSent(e, dir)'
  BY <1>1, <1>2 DEF LinkInv, WasSent
<1>6. InOrder(e, dir)'
  <2> SUFFICES ASSUME NEW j \in 1 .. last, NEW k \in 1 .. last, j < k
               PROVE  Earlier(c'[j].iter, c'[j].at, c'[k].iter, c'[k].at)
    BY <1>2 DEF InOrder
  <2>1. j \in 1 .. Len(c)
    BY <1>1
  <2>2. CASE k = last
    BY <1>1, <1>2, <1>4, <2>1, <2>2
  <2>3. CASE k # last
    <3>1. k \in 1 .. Len(c)
      BY <1>1, <2>3
    <3> QED
      BY <1>1, <1>2, <2>1, <3>1 DEF LinkInv, InOrder
  <2> QED
    BY <2>2, <2>3
<1>7. NotReceived(e, dir)'
  <2> SUFFICES ASSUME NEW j \in 1 .. last, NEW x \in Pairs(e, dir), x[1] = c'[j].at
               PROVE  <<c'[j].iter, x[2]>> \notin Passed(e)
    BY <1>2 DEF NotReceived
  <2>1. CASE j = last
    <3>1. x[1] = p /\ c'[j].iter = i
      BY <1>2, <2>1
    <3>2. Effective(i, Program[e][x[2]])
      BY <3>1, SameEffect
    <3> QED
      BY <1>3, <3>1, <3>2 DEF LinkInv, NoneInvented
  <2>2. CASE j # last
    <3>1. j \in 1 .. Len(c)
      BY <1>1, <2>2
    <3> QED
      BY <1>1, <1>2, <3>1 DEF LinkInv, NotReceived
  <2> QED
    BY <2>1, <2>2
<1>8. NoneLost(e, dir)'
  <2> SUFFICES ASSUME NEW k \in 1 .. MaxIter, NEW x \in Pairs(e, dir),
                      Effective(k, Program[e][x[2]]),
                      <<k, x[1]>> \in Passed(d)', <<k, x[2]>> \notin Passed(e)
               PROVE  \E j \in 1 .. last : c'[j].iter = k /\ c'[j].at = x[1]
    BY <1>2 DEF NoneLost
  <2>1. CASE <<k, x[1]>> \in Passed(d)
    <3>1. PICK j \in DOMAIN c : c[j].iter = k /\ c[j].at = x[1]
      BY <2>1 DEF LinkInv, NoneLost
    <3>2. j \in 1 .. last /\ c'[j] = c[j]
      BY <1>1, <1>2
    <3> QED
      BY <3>1, <3>2
  <2>2. CASE <<k, x[1]>> \notin Passed(d)
    <3>1. k = i /\ x[1] = p
      BY <2>2
    <3>2. last \in 1 .. last
      BY <1>1
    <3> QED
      BY <1>2, <3>1, <3>2
  <2> QED
    BY <2>1, <2>2
<1>9. NoneInvented(e, dir)'
  BY DEF LinkInv, NoneInvented
<1> QED
  BY <1>5, <1>6, <1>7, <1>8, <1>9 DEF LinkInv

\* The message at the head of the channel is the one e waits for.
LEMMA HeadIsOwn ==
    ASSUME TypeOK, PlansMatch, NEW e \in Rank, NEW dir \in Dir, LinkInv(e, dir),
           NEW i \in 1 .. MaxIter, NEW q \in Waits(e, dir),
           i = iteration[e], q = pc[e], Effective(i, Program[e][q]),
           InTransit(e, dir) # <<>>
    PROVE  /\ InTransit(e, dir)[1].iter = i
           /\ <<InTransit(e, dir)[1].at, q>> \in Pairs(e, dir)
<1> DEFINE d == Peer(e, dir)
           c == InTransit(e, dir)
           k == c[1].iter
           s == c[1].at
<1>1. /\ c \in Seq(Message) /\ Len(c) \in Nat /\ DOMAIN c = 1 .. Len(c) /\ 1 \in DOMAIN c
  BY ChannelTypes DEF TypeOK, InTransit
<1>2. k \in 1 .. MaxIter /\ s \in Sends(e, dir) /\ <<k, s>> \in Passed(d)
  BY <1>1 DEF LinkInv, WasSent, Passed
<1>3. PICK r \in Waits(e, dir) : <<s, r>> \in Pairs(e, dir)
  BY <1>2, Matching
<1>4. PICK p \in Sends(e, dir) : <<p, q>> \in Pairs(e, dir)
  BY Matching
<1>5. p \in Int /\ q \in Int /\ r \in Int /\ s \in Int
  BY <1>2, PlaceTypes, Neighbours
<1>6. (s < p <=> r < q) /\ (p < s <=> q < r)
  <2>1. \A x, y \in Pairs(e, dir) : x[1] < y[1] <=> x[2] < y[2]
    BY Matching
  <2>2. <<s, r>>[1] < <<p, q>>[1] <=> <<s, r>>[2] < <<p, q>>[2]
    BY <1>3, <1>4, <2>1
  <2>3. <<p, q>>[1] < <<s, r>>[1] <=> <<p, q>>[2] < <<s, r>>[2]
    BY <1>3, <1>4, <2>1
  <2> QED
    BY <2>2, <2>3
<1>7. ~Earlier(k, r, i, q)
  <2>1. <<k, r>> \notin Passed(e)
    BY <1>1, <1>3 DEF LinkInv, NotReceived
  <2> QED
    BY <1>2, <2>1, PlaceTypes DEF Passed
<1>8. ~Earlier(i, p, k, s)
  <2> SUFFICES ASSUME Earlier(i, p, k, s) PROVE FALSE
    OBVIOUS
  <2>1. <<i, p>> \in Passed(d)
    <3>1. Earlier(k, s, iteration[d], pc[d]) /\ p \in DOMAIN Program[d]
      BY <1>2, PlaceTypes DEF Passed
    <3>2. iteration[d] \in Int /\ pc[d] \in Int
      BY Neighbours, ConstantTypes DEF TypeOK
    <3>3. Earlier(i, p, iteration[d], pc[d])
      BY <1>2, <1>5, <3>1, <3>2 DEF Earlier
    <3> QED
      BY <3>1, <3>3 DEF Passed
  <2>2. <<i, q>> \notin Passed(e)
    BY <1>5 DEF Passed, Earlier
  <2>3. PICK j \in DOMAIN c : c[j].iter = i /\ c[j].at = p
    BY <1>4, <2>1, <2>2 DEF LinkInv, NoneLost
  <2>4. j = 1 \/ Earlier(k, s, i, p)
    BY <1>1, <2>3 DEF LinkInv, InOrder
  <2> QED
    BY <1>2, <1>5, <2>3, <2>4 DEF Earlier
<1>9. k = i /\ r = q
  BY <1>2, <1>5, <1>6, <1>7, <1>8 DEF Earlier
<1> QED
  BY <1>3, <1>9

\* e receives: the head of the channel is taken.
LEMMA ReceiveStep ==
    ASSUME TypeOK, PlansMatch, NEW e \in Rank, NEW dir \in Dir, LinkInv(e, dir),
           NEW i \in 1 .. MaxIter, NEW q \in Waits(e, dir),
           i = iteration[e], q = pc[e], Effective(i, Program[e][q]),
           InTransit(e, dir) # <<>>,
           InTransit(e, dir)' = Tail(InTransit(e, dir)),
           Passed(Peer(e, dir))' = Passed(Peer(e, dir)),
           Passed(e)' = Passed(e) \cup {<<i, q>>}
    PROVE  LinkInv(e, dir)'
<1> DEFINE d == Peer(e, dir)
           c == InTransit(e, dir)
           p == c[1].at
<1>1. c \in Seq(Message)
  BY ChannelTypes DEF TypeOK, InTransit
<1>2. /\ Len(c) \in Nat /\ Len(c) > 0 /\ DOMAIN c = 1 .. Len(c)
      /\ DOMAIN c' = 1 .. Len(c) - 1
      /\ \A j \in 1 .. Len(c) - 1 : c'[j] = c[j + 1]
  BY <1>1
<1>3. c[1].iter = i /\ <<p, q>> \in Pairs(e, dir)
  BY HeadIsOwn
<1>4. \A x \in Pairs(e, dir) : x[2] = q <=> x[1] = p
  <2> SUFFICES ASSUME NEW x \in Pairs(e, dir) PROVE x[2] = q <=> x[1] = p
    OBVIOUS
  <2>1. x[1] \in Int /\ x[2] \in Int /\ p \in Int /\ q \in Int
    BY <1>3, PlaceTypes, Neighbours
  <2>2. /\ x[1] < <<p, q>>[1] <=> x[2] < <<p, q>>[2]
        /\ <<p, q>>[1] < x[1] <=> <<p, q>>[2] < x[2]
    BY <1>3, Matching
  <2> QED
    BY <2>1, <2>2
<1>5. WasSent(e, dir)'
  BY <1>2 DEF LinkInv, WasSent
<1>6. InOrder(e, dir)'
  BY <1>2 DEF LinkInv, InOrder
<1>7. NotReceived(e, dir)'
  <2> SUFFICES ASSUME NEW j \in 1 .. Len(c) - 1, NEW x \in Pairs(e, dir), x[1] = c'[j].at
               PROVE  <<c'[j].iter, x[2]>> \notin Passed(e)'
    BY <1>2 DEF NotReceived
  <2>1. j + 1 \in DOMAIN c /\ 1 \in DOMAIN c /\ 1 < j + 1 /\ c'[j] = c[j + 1]
    BY <1>2
  <2>2. <<c'[j].iter, x[2]>> \notin Passed(e)
    BY <2>1 DEF LinkInv, NotReceived
  <2>3. Earlier(i, p, c'[j].iter, x[1])
    BY <1>3, <2>1 DEF LinkInv, InOrder
  <2>4. ~(c'[j].iter = i /\ x[1] = p)
    BY <1>3, <2>3, PlaceTypes, Neighbours DEF Earlier
  <2> QED
    BY <1>4, <2>2, <2>4
<1>8. NoneLost(e, dir)'
  <2> SUFFICES ASSUME NEW k \in 1 .. MaxIter, NEW x \in Pairs(e, dir),
                      Effective(k, Program[e][x[2]]),
                      <<k, x[1]>> \in Passed(d)', <<k, x[2]>> \notin Passed(e)'
               PROVE  \E j \in DOMAIN c' : c'[j].iter = k /\ c'[j].at = x[1]
    BY DEF NoneLost
  <2>1. <<k, x[1]>> \in Passed(d) /\ <<k, x[2]>> \notin Passed(e) /\ ~(k = i /\ x[2] = q)
    OBVIOUS
  <2>2. PICK j \in DOMAIN c : c[j].iter = k /\ c[j].at = x[1]
    BY <2>1 DEF LinkInv, NoneLost
  <2>3. j # 1
    BY <1>3, <1>4, <2>1, <2>2
  <2>4. j - 1 \in 1 .. Len(c) - 1 /\ c'[j - 1] = c[j]
    BY <1>2, <2>3
  <2> QED
    BY <1>2, <2>2, <2>4
<1>9. NoneInvented(e, dir)'
  <2> SUFFICES ASSUME NEW k \in 1 .. MaxIter, NEW x \in Pairs(e, dir),
                      Effective(k, Program[e][x[2]]), <<k, x[2]>> \in Passed(e)'
               PROVE  <<k, x[1]>> \in Passed(d)
    BY DEF NoneInvented
  <2>1. CASE <<k, x[2]>> \in Passed(e)
    BY <2>1 DEF LinkInv, NoneInvented
  <2>2. CASE k = i /\ x[2] = q
    <3>1. x[1] = p /\ 1 \in DOMAIN c
      BY <1>2, <1>4, <2>2
    <3>2. <<c[1].iter, c[1].at>> \in Passed(d)
      BY <3>1 DEF LinkInv, WasSent
    <3> QED
      BY <1>3, <2>2, <3>1, <3>2
  <2> QED
    BY <2>1, <2>2
<1> QED
  BY <1>5, <1>6, <1>7, <1>8, <1>9 DEF LinkInv

-----------------------------------------------------------------------------
(* Every step keeps the invariant of every link.                           *)

\* A rank moves past an operation that neither sends on the link nor receives
\* from it.
LEMMA PassingStep ==
    ASSUME TypeOK, NEW e \in Rank, NEW dir \in Dir, LinkInv(e, dir),
           NEW x \in Rank, Running(x), Advance(x),
           InTransit(e, dir)' = InTransit(e, dir),
           x = Peer(e, dir) => ~(pc[x] \in Sends(e, dir) /\ Effective(iteration[x], Op(x))),
           x = e => ~(pc[x] \in Waits(e, dir) /\ Effective(iteration[x], Op(x)))
    PROVE  LinkInv(e, dir)'
<1> DEFINE d == Peer(e, dir)
           past(y) == IF y = x THEN {<<iteration[x], pc[x]>>} ELSE {}
<1>1. d \in Rank
  BY Neighbours
<1>2. Passed(d)' = Passed(d) \cup past(d) /\ Passed(e)' = Passed(e) \cup past(e)
  BY <1>1, PassedAdvance
<1>3. \A y \in past(d) : ~(y[2] \in Sends(e, dir) /\ Effective(y[1], Program[d][y[2]]))
  BY DEF Op
<1>4. \A y \in past(e) : ~(y[2] \in Waits(e, dir) /\ Effective(y[1], Program[e][y[2]]))
  BY DEF Op
<1> HIDE DEF past
<1> QED
  BY <1>2, <1>3, <1>4, QuietStep

LEMMA DeliverySend ==
    ASSUME TypeOK, NEW e \in Rank, NEW dir \in Dir, LinkInv(e, dir),
           NEW x \in Rank, NEW dx \in Dir, PostSend(x, dx)
    PROVE  LinkInv(e, dir)'
<1> DEFINE msg == [iter |-> iteration[x], at |-> pc[x],
                   data |-> GetOrSet(SendBuffer(x, OpKey(x)))]
<1>1. /\ Running(x) /\ Advance(x) /\ Op(x).op = PostSendOp(dx)
      /\ Effective(iteration[x], Op(x))
      /\ chan' = [chan EXCEPT ![SendChannel(x, dx)] = Append(@, msg)]
  BY DEF PostSend, At
<1>2. RecvChannel(e, dir) \in Channel /\ DOMAIN chan = Channel
  BY Channels DEF TypeOK
<1>3. /\ iteration[x] \in 1 .. MaxIter /\ pc[x] \in DOMAIN Program[x]
      /\ Op(x) = Program[x][pc[x]]
  BY <1>1, OpType, ConstantTypes DEF Op
<1>4. Peer(e, dir) \in Rank /\ Peer(e, dir) # e
  BY Neighbours
<1>5. CASE x = Peer(e, dir) /\ dx = Opposite(dir)
  <2>1. InTransit(e, dir)' = Append(InTransit(e, dir), msg)
    BY <1>1, <1>2, <1>5, Channels DEF InTransit
  <2>2. pc[x] \in Sends(e, dir)
    BY <1>1, <1>3, <1>5 DEF Sends, PlacesOf
  <2>3. /\ Passed(x)' = Passed(x) \cup {<<iteration[x], pc[x]>>}
        /\ Passed(e)' = Passed(e)
    BY <1>1, <1>4, <1>5, PassedAdvance
  <2>4. msg.iter = iteration[x] /\ msg.at = pc[x]
    OBVIOUS
  <2> HIDE DEF msg
  <2> QED
    BY <1>1, <1>3, <1>5, <2>1, <2>2, <2>3, <2>4, SendStep
<1>6. CASE ~(x = Peer(e, dir) /\ dx = Opposite(dir))
  <2>1. InTransit(e, dir)' = InTransit(e, dir)
    BY <1>1, <1>2, <1>6, Channels DEF InTransit
  <2>2. x = Peer(e, dir) => pc[x] \notin Sends(e, dir)
    BY <1>1, <1>3, <1>6 DEF Sends, PlacesOf, PostSendOp, Opposite, Dir
  <2>3. x = e => pc[x] \notin Waits(e, dir)
    BY <1>1, <1>3 DEF Waits, PlacesOf, PostSendOp, WaitRecvOp
  <2> QED
    BY <1>1, <2>1, <2>2, <2>3, PassingStep
<1> QED
  BY <1>5, <1>6

LEMMA DeliveryReceive ==
    ASSUME TypeOK, PlansMatch, NEW e \in Rank, NEW dir \in Dir, LinkInv(e, dir),
           NEW x \in Rank, NEW dx \in Dir, WaitRecv(x, dx)
    PROVE  LinkInv(e, dir)'
<1>1. /\ Running(x) /\ Advance(x) /\ Op(x).op = WaitRecvOp(dx)
      /\ Effective(iteration[x], Op(x))
      /\ chan[RecvChannel(x, dx)] # <<>>
      /\ chan' = [chan EXCEPT ![RecvChannel(x, dx)] = Tail(chan[RecvChannel(x, dx)])]
  BY DEF WaitRecv, At
<1>2. RecvChannel(e, dir) \in Channel /\ DOMAIN chan = Channel
  BY Channels DEF TypeOK
<1>3. /\ iteration[x] \in 1 .. MaxIter /\ pc[x] \in DOMAIN Program[x]
      /\ Op(x) = Program[x][pc[x]]
  BY <1>1, OpType, ConstantTypes DEF Op
<1>4. Peer(e, dir) \in Rank /\ Peer(e, dir) # e
  BY Neighbours
<1>5. CASE x = e /\ dx = dir
  <2>1. InTransit(e, dir)' = Tail(InTransit(e, dir)) /\ InTransit(e, dir) # <<>>
    BY <1>1, <1>2, <1>5 DEF InTransit
  <2>2. pc[e] \in Waits(e, dir)
    BY <1>1, <1>3, <1>5 DEF Waits, PlacesOf
  <2>3. /\ Passed(e)' = Passed(e) \cup {<<iteration[e], pc[e]>>}
        /\ Passed(Peer(e, dir))' = Passed(Peer(e, dir))
    BY <1>1, <1>4, <1>5, PassedAdvance
  <2> QED
    BY <1>1, <1>3, <1>5, <2>1, <2>2, <2>3, ReceiveStep
<1>6. CASE ~(x = e /\ dx = dir)
  <2>1. InTransit(e, dir)' = InTransit(e, dir)
    BY <1>1, <1>2, <1>6, Channels DEF InTransit
  <2>2. x = Peer(e, dir) => pc[x] \notin Sends(e, dir)
    BY <1>1, <1>3 DEF Sends, PlacesOf, PostSendOp, WaitRecvOp
  <2>3. x = e => pc[x] \notin Waits(e, dir)
    BY <1>1, <1>3, <1>6 DEF Waits, PlacesOf, WaitRecvOp, Dir
  <2> QED
    BY <1>1, <2>1, <2>2, <2>3, PassingStep
<1> QED
  BY <1>5, <1>6

\* The steps that touch no channel.
Silent(x) ==
    \/ LocalCopy(x) \/ \E dx \in Dir : PostRecv(x, dx)
    \/ ForwardStep(x) \/ BackwardStep(x) \/ WGradStep(x)
    \/ Deallocate(x) \/ Skip(x)

LEMMA DeliverySilent ==
    ASSUME TypeOK, NEW e \in Rank, NEW dir \in Dir, LinkInv(e, dir),
           NEW x \in Rank, Silent(x)
    PROVE  LinkInv(e, dir)'
<1>1. Running(x) /\ Advance(x) /\ chan' = chan
  BY DEF Silent, LocalCopy, PostRecv, ForwardStep, BackwardStep, WGradStep, Deallocate, Skip, At
<1>2. \/ Op(x).op \in {"LOCAL_COPY", "POST_RECV_NEXT", "POST_RECV_PREV", "COMPUTE", "DEALLOCATE"}
      \/ ~Effective(iteration[x], Op(x))
  BY DEF Silent, LocalCopy, PostRecv, ForwardStep, BackwardStep, WGradStep, Deallocate, Skip, At,
         PostRecvOp
<1>3. /\ x = Peer(e, dir) => ~(pc[x] \in Sends(e, dir) /\ Effective(iteration[x], Op(x)))
      /\ x = e => ~(pc[x] \in Waits(e, dir) /\ Effective(iteration[x], Op(x)))
  BY <1>2 DEF Op, Sends, Waits, PlacesOf, PostSendOp, WaitRecvOp
<1> QED
  BY <1>1, <1>3, PassingStep DEF InTransit

\* A step that moves no rank past an operation.
LEMMA StillStep ==
    ASSUME NEW e \in Rank, NEW dir \in Dir, LinkInv(e, dir),
           InTransit(e, dir)' = InTransit(e, dir),
           Passed(Peer(e, dir))' = Passed(Peer(e, dir)), Passed(e)' = Passed(e)
    PROVE  LinkInv(e, dir)'
<1> DEFINE nothing == {}
<1>1. \A y \in nothing : FALSE
  OBVIOUS
<1>2. \A S : S = S \cup nothing
  OBVIOUS
<1> HIDE DEF nothing
<1> QED
  BY <1>1, <1>2, QuietStep

LEMMA DeliveryIteration ==
    ASSUME TypeOK, NEW e \in Rank, NEW dir \in Dir, LinkInv(e, dir),
           NEW x \in Rank, StartIteration(x) \/ FinishIteration(x)
    PROVE  LinkInv(e, dir)'
<1>1. InTransit(e, dir)' = InTransit(e, dir)
  BY DEF StartIteration, FinishIteration, InTransit
<1>2. Passed(Peer(e, dir))' = Passed(Peer(e, dir)) /\ Passed(e)' = Passed(e)
  BY PassedIteration, Neighbours
<1> QED
  BY <1>1, <1>2, StillStep

LEMMA DeliveryStep == TypeOK /\ PlansMatch /\ Delivery /\ [Next]_vars => Delivery'
<1> SUFFICES ASSUME TypeOK, PlansMatch, Delivery, [Next]_vars,
                    NEW e \in Rank, NEW dir \in Dir
             PROVE  LinkInv(e, dir)'
  BY DEF Delivery
<1>1. LinkInv(e, dir)
  BY DEF Delivery
<1>2. CASE UNCHANGED vars
  <2>1. InTransit(e, dir)' = InTransit(e, dir)
    BY <1>2 DEF vars, InTransit
  <2>2. Passed(Peer(e, dir))' = Passed(Peer(e, dir)) /\ Passed(e)' = Passed(e)
    BY <1>2 DEF vars, Passed
  <2> QED
    BY <1>1, <2>1, <2>2, StillStep
<1>3. ASSUME NEW x \in Rank, Step(x) PROVE LinkInv(e, dir)'
  <2>1. \/ Silent(x) \/ StartIteration(x) \/ FinishIteration(x)
        \/ \E dx \in Dir : PostSend(x, dx) \/ WaitRecv(x, dx)
    BY <1>3 DEF Step, Silent
  <2> QED
    BY <1>1, <2>1, DeliverySilent, DeliveryIteration, DeliverySend, DeliveryReceive
<1> QED
  BY <1>2, <1>3 DEF Next, Terminated

-----------------------------------------------------------------------------
(* The theorems.                                                           *)

LEMMA DeliveryInvariant ==
    ASSUME PlansMatch
    PROVE  Spec => [](TypeOK /\ Delivery)
<1>1. Init => TypeOK /\ Delivery
  BY TypeInit, DeliveryInit
<1>2. TypeOK /\ Delivery /\ [Next]_vars => (TypeOK /\ Delivery)'
  BY TypeStep, DeliveryStep
<1> QED
  BY <1>1, <1>2, PTL DEF Spec

\* ReceivesOwn follows: the message at the head of a channel is the one its
\* receiver waits for.
LEMMA DeliveryReceivesOwn == TypeOK /\ PlansMatch /\ Delivery => ReceivesOwn
<1> SUFFICES ASSUME TypeOK, PlansMatch, Delivery, NEW e \in Rank, NEW dir \in Dir,
                    At(e, WaitRecvOp(dir)), InTransit(e, dir) # <<>>
             PROVE  /\ InTransit(e, dir)[1].iter = iteration[e]
                    /\ Carries(Template, NumDev, Peer(e, dir),
                               Program[Peer(e, dir)][InTransit(e, dir)[1].at], e, Op(e))
  BY DEF ReceivesOwn, InTransit
<1>1. /\ iteration[e] \in 1 .. MaxIter /\ pc[e] \in Waits(e, dir)
      /\ Effective(iteration[e], Program[e][pc[e]]) /\ Op(e) = Program[e][pc[e]]
  BY OpType, ConstantTypes DEF At, Op, Waits, PlacesOf
<1>2. LinkInv(e, dir)
  BY DEF Delivery
<1>3. /\ InTransit(e, dir)[1].iter = iteration[e]
      /\ <<InTransit(e, dir)[1].at, pc[e]>> \in Pairs(e, dir)
  BY <1>1, <1>2, HeadIsOwn
<1> QED
  BY <1>1, <1>3 DEF Pairs

\* NoLeftover follows: a message in a channel has not been received, so its
\* receiver has not finished the message's iteration.
LEMMA DeliveryNoLeftover == TypeOK /\ PlansMatch /\ Delivery => NoLeftover
<1> SUFFICES ASSUME TypeOK, PlansMatch, Delivery, NEW e \in Rank, NEW dir \in Dir,
                    NEW j \in DOMAIN InTransit(e, dir)
             PROVE  InTransit(e, dir)[j].iter >= iteration[e]
  BY DEF NoLeftover, InTransit
<1> DEFINE m == InTransit(e, dir)[j]
<1>1. LinkInv(e, dir)
  BY DEF Delivery
<1>2. m.iter \in 1 .. MaxIter /\ m.at \in Sends(e, dir)
  BY <1>1 DEF LinkInv, WasSent, Passed
<1>3. PICK q \in Waits(e, dir) : <<m.at, q>> \in Pairs(e, dir)
  BY <1>2, Matching
<1>4. <<m.iter, q>> \notin Passed(e)
  BY <1>1, <1>3 DEF LinkInv, NotReceived
<1>5. ~(m.iter < iteration[e])
  BY <1>2, <1>4, PlaceTypes DEF Passed, Earlier
<1>6. iteration[e] \in Int
  BY ConstantTypes DEF TypeOK
<1> QED
  BY <1>2, <1>5, <1>6

\* If the plans of neighbouring ranks agree, every receive takes the message
\* of its own iteration, task type, microbatch and stage, although the
\* channels carry no tags and receives are posted only when waited for.
THEOREM DeliversOwn ==
    ASSUME PlansMatch
    PROVE  Spec => []ReceivesOwn
BY DeliveryInvariant, DeliveryReceivesOwn, PTL

\* If the plans agree, no message is left over from an iteration its receiver
\* has finished, although clean_up waits for no send and drains no channel.
THEOREM LeavesNothing ==
    ASSUME PlansMatch
    PROVE  Spec => []NoLeftover
BY DeliveryInvariant, DeliveryNoLeftover, PTL
=============================================================================
