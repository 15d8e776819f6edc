------------------------ MODULE PipelineTasks_proofs ------------------------
(***************************************************************************)
(* What the tasks of a plan do to the gradients, and that they are tasks   *)
(* of the data flow, under the hypotheses of PipelineTensors_proofs: a W   *)
(* task takes the block that its own backward left in the store, a         *)
(* data-parallel reduction covers the whole gradient of its chunk, once,   *)
(* and a step of the ranks computes one task of PipelineDataflow that is   *)
(* ready, or none (the safety part of the refinement).                     *)
(***************************************************************************)
EXTENDS PipelineTensors_proofs

-----------------------------------------------------------------------------
(* Tasks of the backward pass.                                             *)

\* The task that finishes a microbatch's part of a gradient.
FinalType(d) == IF WgradSplit(d) THEN "W" ELSE "B"

LEMMA OnlyPlace ==
    ASSUME PlansInOrder, NEW d \in Rank, NEW type \in {"F", "B", FinalType(d)}, NEW k \in Key
    PROVE  \E p \in DOMAIN Program[d] : TaskPlaces(Program[d], type, k) = {p}
<1>1. type \in TaskTypes(Program[d])
  BY DEF TaskTypes, FinalType, WgradSplit
<1> QED
  BY <1>1, Ordered DEF TasksOnce

\* At a task it has not been run before; a backward or weight gradient trains,
\* and only plans with weight gradients of their own have such tasks.
LEMMA AtTask ==
    ASSUME TypeOK, PlansInOrder, NEW x \in Rank, Coming(x), Op(x).op = "COMPUTE"
    PROVE  /\ Op(x).type \in {"F", "B", FinalType(x)}
           /\ TaskPlaces(Program[x], Op(x).type, OpKey(x)) = {pc[x]}
           /\ ~RanTask(x, Op(x).type, OpKey(x))
           /\ Op(x).type # "F" => Training(x)
           /\ Op(x).type = "W" => WgradSplit(x)
<1>1. /\ pc[x] \in TaskPlaces(Program[x], Op(x).type, OpKey(x)) /\ OpKey(x) \in Key
      /\ pc[x] \in DOMAIN Program[x] /\ Op(x) = Program[x][pc[x]] /\ pc[x] \in Int
  BY OpPlace DEF TaskPlaces, Coming
<1>2. Op(x).type \in {"F", "B", "W"}
  BY OpType DEF Coming, Operation
<1>3. Op(x).type = "W" => WgradSplit(x)
  BY <1>1 DEF WgradSplit
<1>4. Op(x).type \in {"F", "B", FinalType(x)}
  BY <1>2, <1>3 DEF FinalType
<1>5. TaskPlaces(Program[x], Op(x).type, OpKey(x)) = {pc[x]}
  BY <1>1, <1>4, OnlyPlace
<1>6. ~RanTask(x, Op(x).type, OpKey(x))
  BY <1>1, <1>5, NotRunAfter DEF RanTask, TaskPlaces
<1>7. Op(x).type # "F" => Training(x)
  BY DEF Coming, Effective, Training
<1> QED
  BY <1>3, <1>4, <1>5, <1>6, <1>7

-----------------------------------------------------------------------------
(* The store.                                                              *)

KeyOf(b) == <<b.mb, b.chunk>>

\* The store holds, in the order of their backwards, the blocks whose weight
\* gradients are still to be computed.
StoreInv(d) ==
    LET w == wgrad_blocks[d]
    IN  /\ \A j \in DOMAIN w :
              w[j].right /\ RanTask(d, "B", KeyOf(w[j])) /\ ~RanTask(d, "W", KeyOf(w[j]))
        /\ \A j, l \in DOMAIN w : j < l =>
              \A p \in TaskPlaces(Program[d], "B", KeyOf(w[j])),
                 q \in TaskPlaces(Program[d], "B", KeyOf(w[l])) : p < q
        /\ WgradSplit(d) => \A k \in Key :
              RanTask(d, "B", k) /\ ~RanTask(d, "W", k) => \E j \in DOMAIN w : KeyOf(w[j]) = k
        /\ ~WgradSplit(d) => w = <<>>

\* What a step past an operation adds to the backwards and weight gradients.
LEMMA FinalAdvance ==
    ASSUME TypeOK, NEW x \in Rank, Running(x), Advance(x), NEW d \in Rank
    PROVE  /\ iteration' = iteration
           /\ \A type : \A k \in Key : RanTask(d, type, k)' <=>
                 \/ RanTask(d, type, k)
                 \/ /\ d = x /\ Coming(x) /\ Op(x).op = "COMPUTE"
                    /\ k = OpKey(x) /\ type = Op(x).type
<1>1. iteration' = iteration
  BY DEF Advance
<1>2. \A type : \A k \in Key : RanTask(d, type, k)' <=>
         RanTask(d, type, k) \/ (d = x /\ Runs(x, {"COMPUTE"}, type, k))
  BY RanAdvance DEF RanTask
<1>3. \A type : \A k \in Key : Runs(x, {"COMPUTE"}, type, k) <=>
         Coming(x) /\ Op(x).op = "COMPUTE" /\ k = OpKey(x) /\ type = Op(x).type
  BY OpPlace DEF Runs, Coming
<1> QED
  BY <1>1, <1>2, <1>3

LEMMA BlockKeys ==
    ASSUME TypeOK, NEW d \in Rank
    PROVE  /\ wgrad_blocks[d] \in Seq(Block)
           /\ \A j \in DOMAIN wgrad_blocks[d] : KeyOf(wgrad_blocks[d][j]) \in Key
<1>1. wgrad_blocks[d] \in Seq(Block)
  BY DEF TypeOK
<1>2. \A j \in DOMAIN wgrad_blocks[d] : wgrad_blocks[d][j] \in Block
  BY <1>1
<1> QED
  BY <1>1, <1>2 DEF KeyOf, Block, Key

LEMMA StoreQuiet ==
    ASSUME TypeOK, NEW d \in Rank, StoreInv(d), wgrad_blocks'[d] = wgrad_blocks[d],
           \A k \in Key, type \in {"B", "W"} : RanTask(d, type, k)' <=> RanTask(d, type, k)
    PROVE  StoreInv(d)'
<1>1. \A j \in DOMAIN wgrad_blocks[d] : KeyOf(wgrad_blocks[d][j]) \in Key
  BY BlockKeys
<1> QED
  BY <1>1 DEF StoreInv, KeyOf

\* The oldest block is that of the W task a rank comes to.
LEMMA HeadIsOwnBlock ==
    ASSUME TypeOK, PlansInOrder, NEW x \in Rank, StoreInv(x),
           Coming(x), Op(x).op = "COMPUTE", Op(x).type = "W"
    PROVE  /\ RanTask(x, "B", OpKey(x)) /\ ~RanTask(x, "W", OpKey(x))
           /\ wgrad_blocks[x] # <<>> /\ KeyOf(wgrad_blocks[x][1]) = OpKey(x)
<1> DEFINE k == OpKey(x)  w == wgrad_blocks[x]
<1>1. k \in Key /\ k[1] = Op(x).mb /\ pc[x] \in Int /\ DOMAIN Program[x] \subseteq Int
  BY OpPlace DEF Coming
<1>2. TaskPlaces(Program[x], "W", k) = {pc[x]} /\ ~RanTask(x, "W", k) /\ WgradSplit(x)
  BY AtTask
<1>3. PICK p \in TaskPlaces(Program[x], "B", k) : p < pc[x]
  BY <1>1, <1>2, Ordered DEF InputsFirst
<1>4. RanTask(x, "B", k)
  BY <1>1, <1>3, RunBefore DEF RanTask, TaskPlaces
<1>5. PICK j \in DOMAIN w : KeyOf(w[j]) = k
  BY <1>1, <1>2, <1>4 DEF StoreInv
<1>6. w \in Seq(Block) /\ 1 \in DOMAIN w /\ w # <<>> /\ KeyOf(w[1]) \in Key
  BY <1>5, BlockKeys
<1>7. ASSUME j # 1 PROVE FALSE
  <2> DEFINE k1 == KeyOf(w[1])
  <2>1. 1 < j
    BY <1>6, <1>7
  <2>2. PICK p1 \in TaskPlaces(Program[x], "B", k1) : TRUE
    BY <1>6, OnlyPlace
  <2>3. p1 < p
    BY <1>5, <1>6, <2>1 DEF StoreInv
  <2>4. PICK v \in TaskPlaces(Program[x], "W", k1) : TRUE
    <3>1. FinalType(x) = "W"
      BY <1>2 DEF FinalType
    <3> QED
      BY <1>6, <3>1, OnlyPlace
  <2>5. v < pc[x]
    BY <1>1, <1>2, <1>6, <2>3, <2>4, Ordered DEF WgradsInOrder
  <2>6. Effective(iteration[x], Program[x][v])
    BY AtTask DEF Effective, Training
  <2>7. RanTask(x, "W", k1)
    BY <2>4, <2>5, <2>6 DEF RanTask, RanOne, Ran, TaskPlaces, PlacesFor
  <2> QED
    BY <1>6, <2>7 DEF StoreInv
<1> QED
  BY <1>2, <1>4, <1>5, <1>6, <1>7

\* A W task takes its block.
LEMMA StoreTake ==
    ASSUME TypeOK, PlansInOrder, NEW x \in Rank, StoreInv(x), WGradStep(x)
    PROVE  StoreInv(x)'
<1> DEFINE k == OpKey(x)  w == wgrad_blocks[x]
<1>1. Coming(x) /\ Running(x) /\ Advance(x) /\ Op(x).op = "COMPUTE" /\ Op(x).type = "W"
  BY DEF WGradStep, At, Coming
<1>2. w \in Seq(Block) /\ w # <<>> /\ KeyOf(w[1]) = k /\ WgradSplit(x) /\ k \in Key
  BY <1>1, HeadIsOwnBlock, BlockKeys, AtTask, OpPlace
<1>3. \A j \in DOMAIN w : KeyOf(w[j]) \in Key
  BY BlockKeys
<1>4. wgrad_blocks'[x] = Tail(w)
  BY DEF WGradStep, TypeOK
<1>5. \A kk \in Key : /\ RanTask(x, "B", kk)' <=> RanTask(x, "B", kk)
                      /\ RanTask(x, "W", kk)' <=> RanTask(x, "W", kk) \/ kk = k
  BY <1>1, FinalAdvance
<1>6. PICK p \in DOMAIN Program[x] : TaskPlaces(Program[x], "B", k) = {p}
  BY <1>2, OnlyPlace
<1>7. p \in Int
  BY ConstantTypes
<1> PICK w2 : w2 = Tail(w)
  OBVIOUS
<1>8. /\ DOMAIN w2 = 1 .. Len(w) - 1 /\ DOMAIN w = 1 .. Len(w) /\ Len(w) \in Nat /\ Len(w) > 0
      /\ \A j \in DOMAIN w2 : w2[j] = w[j + 1] /\ j + 1 \in DOMAIN w
  BY <1>2
<1>9. \A j \in DOMAIN w2 : KeyOf(w2[j]) # k
  <2> SUFFICES ASSUME NEW j \in DOMAIN w2, KeyOf(w[j + 1]) = k PROVE FALSE
    BY <1>8
  <2>1. 1 \in DOMAIN w /\ j + 1 \in DOMAIN w /\ 1 < j + 1
    BY <1>8
  <2>2. p < p
    BY <1>2, <1>6, <2>1 DEF StoreInv
  <2> QED
    BY <1>7, <2>2
<1>10. ASSUME NEW j \in DOMAIN w2
       PROVE  w2[j].right /\ RanTask(x, "B", KeyOf(w2[j]))' /\ ~RanTask(x, "W", KeyOf(w2[j]))'
  <2>1. w[j + 1].right /\ RanTask(x, "B", KeyOf(w[j + 1])) /\ ~RanTask(x, "W", KeyOf(w[j + 1]))
    BY <1>8 DEF StoreInv
  <2> QED
    BY <1>3, <1>5, <1>8, <1>9, <2>1 DEF KeyOf
<1>11. ASSUME NEW j \in DOMAIN w2, NEW l \in DOMAIN w2, j < l
       PROVE  \A q \in TaskPlaces(Program[x], "B", KeyOf(w2[j])),
                 r \in TaskPlaces(Program[x], "B", KeyOf(w2[l])) : q < r
  <2>1. j + 1 < l + 1
    BY <1>8, <1>11
  <2> QED
    BY <1>8, <2>1 DEF StoreInv
<1>12. ASSUME NEW kk \in Key, RanTask(x, "B", kk)', ~RanTask(x, "W", kk)'
       PROVE  \E j \in DOMAIN w2 : KeyOf(w2[j]) = kk
  <2>1. PICK j \in DOMAIN w : KeyOf(w[j]) = kk
    BY <1>2, <1>5, <1>12 DEF StoreInv
  <2>2. j # 1
    BY <1>2, <1>5, <1>12, <2>1
  <2>3. j - 1 \in DOMAIN w2 /\ w2[j - 1] = w[j]
    BY <1>8, <2>1, <2>2
  <2> QED
    BY <2>1, <2>3
<1>13. wgrad_blocks'[x] = w2
  BY <1>4
<1> QED
  BY <1>2, <1>10, <1>11, <1>12, <1>13 DEF StoreInv, KeyOf

\* A backward leaves its block at the end.
LEMMA StorePut ==
    ASSUME TypeOK, PlansInOrder, TensorInv, NEW x \in Rank, StoreInv(x), BackwardStep(x)
    PROVE  StoreInv(x)'
<1> DEFINE k == OpKey(x)  w == wgrad_blocks[x]  b == [mb |-> k[1], chunk |-> k[2], right |-> TRUE]
<1>1. Coming(x) /\ Running(x) /\ Advance(x) /\ Op(x).op = "COMPUTE" /\ Op(x).type = "B"
  BY DEF BackwardStep, At, Coming
<1>2. k \in Key /\ w \in Seq(Block) /\ \A j \in DOMAIN w : KeyOf(w[j]) \in Key
  BY <1>1, BlockKeys, OpPlace
<1>3. k = <<k[1], k[2]>> /\ KeyOf(b) = k
  BY <1>2 DEF Key, KeyOf
<1>4. \A kk \in Key : /\ RanTask(x, "W", kk)' <=> RanTask(x, "W", kk)
                      /\ RanTask(x, "B", kk)' <=> RanTask(x, "B", kk) \/ kk = k
  BY <1>1, FinalAdvance
<1>5. TaskPlaces(Program[x], "B", k) = {pc[x]} /\ pc[x] \in Int /\ ~RanTask(x, "B", k)
  BY <1>1, AtTask, OpPlace
<1>6. CASE ~WgradSplit(x)
  <2>1. wgrad_blocks' = wgrad_blocks
    BY <1>6 DEF BackwardStep
  <2> QED
    BY <1>6, <2>1 DEF StoreInv
<1>7. CASE WgradSplit(x)
  <2> PICK w2 : w2 = Append(w, b)
    OBVIOUS
  <2>1. wgrad_blocks'[x] = w2
    <3>1. wgrad_blocks' = [wgrad_blocks EXCEPT ![x] = w2]
      BY <1>7, BackwardInputs DEF BackwardStep, FinishCollection
    <3> QED
      BY <3>1 DEF TypeOK
  <2>2. ~RanTask(x, "W", k)
    <3>1. \A v \in TaskPlaces(Program[x], "W", k) : pc[x] < v /\ v \in Int
      <4>1. \A v \in TaskPlaces(Program[x], "W", k) : \E q \in TaskPlaces(Program[x], "B", k) : q < v
        BY <1>2, Ordered DEF InputsFirst
      <4>2. DOMAIN Program[x] \subseteq Int
        BY ConstantTypes
      <4> QED
        BY <1>5, <4>1, <4>2 DEF TaskPlaces, PlacesFor
    <3> QED
      BY <1>5, <3>1, NotRunAfter DEF RanTask, TaskPlaces
  <2>3. /\ DOMAIN w2 = 1 .. Len(w) + 1 /\ DOMAIN w = 1 .. Len(w) /\ Len(w) \in Nat
        /\ w2[Len(w) + 1] = b /\ \A j \in DOMAIN w : w2[j] = w[j]
    BY <1>2
  <2> HIDE DEF b
  <2>4. b.right
    BY DEF b
  <2>5. \A j \in DOMAIN w2 : KeyOf(w2[j]) \in Key
    BY <1>2, <1>3, <2>3
  <2>6. ASSUME NEW j \in DOMAIN w2
        PROVE  w2[j].right /\ RanTask(x, "B", KeyOf(w2[j]))' /\ ~RanTask(x, "W", KeyOf(w2[j]))'
    <3>1. CASE j \in DOMAIN w
      <4>1. w[j].right /\ RanTask(x, "B", KeyOf(w[j])) /\ ~RanTask(x, "W", KeyOf(w[j]))
        BY <3>1 DEF StoreInv
      <4> QED
        BY <1>2, <1>4, <2>3, <3>1, <4>1 DEF KeyOf
    <3>2. CASE j = Len(w) + 1
      BY <1>2, <1>3, <1>4, <2>2, <2>3, <2>4, <3>2
    <3> QED
      BY <2>3, <3>1, <3>2
  <2>7. ASSUME NEW j \in DOMAIN w2, NEW l \in DOMAIN w2, j < l
        PROVE  \A q \in TaskPlaces(Program[x], "B", KeyOf(w2[j])),
                  r \in TaskPlaces(Program[x], "B", KeyOf(w2[l])) : q < r
    <3>1. j \in DOMAIN w /\ w2[j] = w[j]
      BY <2>3, <2>7
    <3>2. CASE l \in DOMAIN w
      BY <2>3, <2>7, <3>1, <3>2 DEF StoreInv
    <3>3. CASE l = Len(w) + 1
      <4>1. TaskPlaces(Program[x], "B", KeyOf(w2[l])) = {pc[x]}
        BY <1>3, <1>5, <2>3, <3>3
      <4>2. PICK kk \in Key : kk = KeyOf(w[j])
        BY <1>2, <3>1
      <4>3. RanTask(x, "B", kk)
        BY <3>1, <4>2 DEF StoreInv
      <4>4. PICK q \in TaskPlaces(Program[x], "B", kk) : q < pc[x]
        BY <4>3 DEF RanTask, RanOne, Ran, TaskPlaces
      <4>5. PICK only \in DOMAIN Program[x] : TaskPlaces(Program[x], "B", kk) = {only}
        BY OnlyPlace
      <4> QED
        BY <3>1, <4>1, <4>2, <4>4, <4>5
    <3>4. l \in DOMAIN w \/ l = Len(w) + 1
      BY <2>3
    <3> QED
      BY <3>2, <3>3, <3>4
  <2>8. ASSUME NEW kk \in Key, RanTask(x, "B", kk)', ~RanTask(x, "W", kk)'
        PROVE  \E j \in DOMAIN w2 : KeyOf(w2[j]) = kk
    <3>1. CASE kk = k
      BY <1>3, <2>3, <3>1
    <3>2. CASE kk # k
      <4>1. PICK j \in DOMAIN w : KeyOf(w[j]) = kk
        BY <1>4, <1>7, <2>8, <3>2 DEF StoreInv
      <4> QED
        BY <2>3, <4>1
    <3> QED
      BY <3>1, <3>2
  <2> QED
    BY <1>7, <2>1, <2>6, <2>7, <2>8 DEF StoreInv, KeyOf
<1> QED
  BY <1>6, <1>7
\* Nothing has been run and the store is empty.
LEMMA StoreEmpty ==
    ASSUME NEW d \in Rank, wgrad_blocks'[d] = <<>>, \A k \in Key : ~RanTask(d, "B", k)'
    PROVE  StoreInv(d)'
BY DEF StoreInv

LEMMA StoreIteration ==
    ASSUME TypeOK, NEW x \in Rank, StartIteration(x) \/ FinishIteration(x),
           NEW d \in Rank, StoreInv(d)
    PROVE  StoreInv(d)'
<1>1. wgrad_blocks' = wgrad_blocks
  BY DEF StartIteration, FinishIteration
<1>2. \A k \in Key, type \in {"B", "W"} : RanTask(d, type, k)' <=> d # x /\ RanTask(d, type, k)
  BY RanIteration DEF RanTask
<1>3. CASE d # x
  BY <1>1, <1>2, <1>3, StoreQuiet
<1>4. CASE d = x
  <2>1. wgrad_blocks[x] = <<>>
    <3>1. CASE FinishIteration(x)
      BY <3>1 DEF FinishIteration
    <3>2. CASE StartIteration(x)
      <4>1. \A k \in Key : ~RanTask(x, "B", k)
        BY <3>2, RanIteration DEF RanTask
      <4>2. wgrad_blocks[x] \in Seq(Block) /\ \A j \in DOMAIN wgrad_blocks[x] : FALSE
        BY <1>4, <4>1, BlockKeys DEF StoreInv
      <4>3. Len(wgrad_blocks[x]) \in Nat /\ DOMAIN wgrad_blocks[x] = 1 .. Len(wgrad_blocks[x])
        BY <4>2
      <4>4. Len(wgrad_blocks[x]) = 0
        <5>1. ~(1 <= Len(wgrad_blocks[x]))
          BY <4>2, <4>3
        <5> QED
          BY <4>3, <5>1
      <4> QED
        BY <4>2, <4>4
    <3> QED
      BY <3>1, <3>2
  <2> QED
    BY <1>1, <1>2, <1>4, <2>1, StoreEmpty
<1> QED
  BY <1>3, <1>4

\* A step that is no backward and no weight gradient of rank d.
LEMMA StoreOther ==
    ASSUME TypeOK, NEW x \in Rank, Running(x), Advance(x), NEW d \in Rank, StoreInv(d),
           wgrad_blocks'[d] = wgrad_blocks[d],
           d # x \/ ~Coming(x) \/ Op(x).op # "COMPUTE" \/ Op(x).type = "F"
    PROVE  StoreInv(d)'
<1>1. \A k \in Key, type \in {"B", "W"} : RanTask(d, type, k)' <=> RanTask(d, type, k)
  BY FinalAdvance
<1> QED
  BY <1>1, StoreQuiet

LEMMA StoreStep ==
    ASSUME TypeOK, PlansInOrder, TensorInv, [Next]_vars, NEW d \in Rank, StoreInv(d)
    PROVE  StoreInv(d)'
<1>1. CASE UNCHANGED vars
  BY <1>1 DEF vars, StoreInv, RanTask, RanOne, Ran
<1>2. ASSUME NEW x \in Rank, Step(x) PROVE StoreInv(d)'
  <2>1. CASE StartIteration(x) \/ FinishIteration(x)
    BY <2>1, StoreIteration
  <2>2. CASE LocalCopy(x) \/ ForwardStep(x) \/ Deallocate(x) \/ Skip(x)
    <3>1. /\ Running(x) /\ Advance(x) /\ wgrad_blocks' = wgrad_blocks
          /\ ~Coming(x) \/ Op(x).op # "COMPUTE" \/ Op(x).type = "F"
      BY <2>2 DEF LocalCopy, ForwardStep, Deallocate, Skip, At, Coming
    <3> QED
      BY <3>1, StoreOther
  <2>3. CASE \E dx \in Dir : PostSend(x, dx) \/ PostRecv(x, dx) \/ WaitRecv(x, dx)
    <3>1. Running(x) /\ Advance(x) /\ wgrad_blocks' = wgrad_blocks /\ Op(x).op # "COMPUTE"
      BY <2>3 DEF PostSend, PostRecv, WaitRecv, At, PostSendOp, PostRecvOp, WaitRecvOp
    <3> QED
      BY <3>1, StoreOther
  <2>4. CASE BackwardStep(x) \/ WGradStep(x)
    <3>1. CASE d = x
      BY <2>4, <3>1, StorePut, StoreTake
    <3>2. CASE d # x
      <4>1. Running(x) /\ Advance(x)
        BY <2>4 DEF BackwardStep, WGradStep, At
      <4>2. wgrad_blocks'[d] = wgrad_blocks[d]
        BY <2>4, <3>2 DEF BackwardStep, WGradStep, TypeOK
      <4> QED
        BY <3>2, <4>1, <4>2, StoreOther
    <3> QED
      BY <3>1, <3>2
  <2> QED
    BY <1>2, <2>1, <2>2, <2>3, <2>4 DEF Step
<1> QED
  BY <1>1, <1>2 DEF Next, Terminated
-----------------------------------------------------------------------------
(* Gradients and reductions.                                               *)

\* The rank is inside a training iteration.
Inside(d) == pc[d] > 0 /\ iteration[d] <= MaxIter /\ Training(d)

\* The gradient of chunk c has everything that rank d has computed of it.
AddedInv(d, c) ==
    \A mb \in Mb :
        /\ RanTask(d, "B", <<mb, c>>) => <<"B", mb>> \in main_grad[d][c]
        /\ RanTask(d, FinalType(d), <<mb, c>>) => <<"W", mb>> \in main_grad[d][c]

\* What has been reduced was finished; outside the iteration no reduction is
\* outstanding.
ReducedInv(d, c) ==
    /\ \A j \in DOMAIN reductions[d][c] : reductions[d][c][j] = Contribution
    /\ grad_reduce_handle[d][c] => OverlapGradReduce /\ Inside(d)

GradInv(d, c) ==
    /\ Inside(d) => no_sync[d][c] /\ AddedInv(d, c)
    /\ ReducedInv(d, c)

\* The task that ends the last microbatch of a chunk has everything before it.
LEMMA Complete ==
    ASSUME TypeOK, PlansInOrder, NEW x \in Rank, Coming(x), Op(x).op = "COMPUTE", IsLastMicrobatch(x),
           NEW mb \in Mb, NEW type \in {"B", FinalType(x)}
    PROVE  \/ RanTask(x, type, <<mb, Op(x).chunk>>)
           \/ type = Op(x).type /\ mb = Op(x).mb
<1> DEFINE c == Op(x).chunk  k == <<mb, c>>  last == OpKey(x)
<1>1. /\ Op(x).type = FinalType(x) /\ Op(x).mb = NumMb - 1 /\ last = <<NumMb - 1, c>>
      /\ last \in Key /\ k \in Key /\ pc[x] \in Int /\ DOMAIN Program[x] \subseteq Int
  BY OpPlace DEF IsLastMicrobatch, FinalType, OpKey, Key, Coming
<1>2. TaskPlaces(Program[x], FinalType(x), last) = {pc[x]} /\ Training(x)
  BY <1>1, AtTask DEF FinalType
<1>3. ASSUME NEW p \in TaskPlaces(Program[x], type, k), p < pc[x]
      PROVE  RanTask(x, type, k)
  BY <1>2, <1>3 DEF RanTask, RanOne, Ran, TaskPlaces, PlacesFor, Effective, Training
<1>4. PICK q \in TaskPlaces(Program[x], FinalType(x), k) : TRUE
  BY <1>1, OnlyPlace
<1>5. q <= pc[x] /\ q \in Int
  <2>1. FinalType(x) \in {"B", "W"} /\ last = <<NumMb - 1, k[2]>>
    BY <1>1 DEF FinalType
  <2> QED
    BY <1>1, <1>2, <1>4, <2>1, Ordered DEF LastMicrobatchLast, TaskPlaces, PlacesFor
<1>6. CASE type = FinalType(x)
  <2>1. CASE q < pc[x]
    BY <1>3, <1>4, <1>6, <2>1
  <2>2. CASE q = pc[x]
    <3>1. Op(x).mb = mb
      BY <1>1, <1>4, <2>2, OpPlace DEF TaskPlaces, PlacesFor, Concerns, Coming
    <3> QED
      BY <1>1, <1>6, <3>1
  <2> QED
    BY <1>1, <1>5, <2>1, <2>2
<1>7. CASE type # FinalType(x)
  <2>1. type = "B" /\ FinalType(x) = "W"
    BY <1>7 DEF FinalType
  <2>2. PICK p \in TaskPlaces(Program[x], "B", k) : p < q
    BY <1>1, <1>4, <2>1, Ordered DEF InputsFirst
  <2>3. p \in Int
    BY <1>1 DEF TaskPlaces, PlacesFor
  <2>4. p < pc[x]
    BY <1>1, <1>5, <2>2, <2>3
  <2> QED
    BY <1>3, <2>1, <2>4
<1> QED
  BY <1>6, <1>7

\* What a contribution set holds.
LEMMA Whole ==
    ASSUME NEW held \in SUBSET Contribution,
           \A mb \in Mb : <<"B", mb>> \in held /\ <<"W", mb>> \in held
    PROVE  held = Contribution
<1>1. ASSUME NEW z \in Contribution PROVE z \in held
  <2>1. PICK mb \in Mb : z = <<"B", mb>> \/ z = <<"W", mb>>
    BY DEF Contribution
  <2> QED
    BY <2>1
<1> QED
  BY <1>1
\* A backward adds its parts, the last one of a chunk without weight gradients
\* of its own starts the reduction.
LEMMA BackwardGrads ==
    ASSUME TypeOK, PlansInOrder, TensorInv, NEW x \in Rank, BackwardStep(x)
    PROVE  LET k == OpKey(x)
               c == k[2]
               added == {<<part, k[1]>> : part \in IF WgradSplit(x) THEN {"B"} ELSE {"B", "W"}}
               held == main_grad[x][c] \cup added
           IN  /\ main_grad' = [main_grad EXCEPT ![x][c] = held]
               /\ IF OverlapGradReduce /\ ~WgradSplit(x) /\ (~no_sync[x][c] \/ IsLastMicrobatch(x))
                  THEN StartGradSync(x, c, held)
                  ELSE UNCHANGED <<reductions, grad_reduce_handle>>
               /\ no_sync' = [no_sync EXCEPT ![x][c] = TRUE]
BY BackwardInputs DEF BackwardStep

\* A weight gradient adds the part of its own microbatch.
LEMMA WGradGrads ==
    ASSUME TypeOK, PlansInOrder, NEW x \in Rank, StoreInv(x), WGradStep(x)
    PROVE  LET k == OpKey(x)
               c == k[2]
               held == main_grad[x][c] \cup {<<"W", k[1]>>}
           IN  /\ main_grad' = [main_grad EXCEPT ![x][c] = held]
               /\ IF IsLastMicrobatch(x) THEN StartGradSync(x, c, held)
                  ELSE UNCHANGED <<reductions, grad_reduce_handle>>
               /\ no_sync' = no_sync
<1> DEFINE k == OpKey(x)  b == Head(wgrad_blocks[x])
<1>1. Coming(x) /\ Op(x).op = "COMPUTE" /\ Op(x).type = "W"
  BY DEF WGradStep, At, Coming
<1>2. k \in Key /\ k[2] \in Chunk
  BY <1>1, OpPlace DEF Coming, Key
<1>3. wgrad_blocks[x] \in Seq(Block) /\ wgrad_blocks[x] # <<>> /\ KeyOf(wgrad_blocks[x][1]) = k
  BY <1>1, HeadIsOwnBlock, BlockKeys
<1>4. b = wgrad_blocks[x][1] /\ 1 \in DOMAIN wgrad_blocks[x]
  BY <1>3
<1>5. b.right /\ b.mb = k[1] /\ b.chunk = k[2]
  BY <1>3, <1>4 DEF StoreInv, KeyOf
<1>6. [main_grad EXCEPT ![x][k[2]] = main_grad[x][k[2]] \cup {<<"W", k[1]>>}][x][k[2]]
         = main_grad[x][k[2]] \cup {<<"W", k[1]>>}
  BY <1>2 DEF TypeOK
<1> QED
  BY <1>5, <1>6 DEF WGradStep

LEMMA InPlan ==
    ASSUME TypeOK, NEW x \in Rank, Running(x)
    PROVE  pc[x] \in Nat /\ pc[x] > 0
<1>1. pc[x] \in 1 .. Len(Program[x]) /\ Len(Program[x]) \in Nat
  BY ConstantTypes DEF TypeOK, Running
<1> QED
  BY <1>1

\* A step past an operation stays inside the iteration.
LEMMA InsideAdvance ==
    ASSUME TypeOK, NEW x \in Rank, Running(x), Advance(x), NEW d \in Rank
    PROVE  /\ Inside(d)' <=> Inside(d)
           /\ pc'[d] = 0 <=> pc[d] = 0
           /\ iteration' = iteration
<1>1. pc[d] \in Nat /\ (d = x => pc[d] > 0)
  BY InPlan DEF TypeOK
<1>2. iteration' = iteration /\ (pc'[d] = pc[d] \/ (d = x /\ pc'[d] = pc[d] + 1))
  BY DEF Advance, TypeOK
<1> QED
  BY <1>1, <1>2 DEF Inside, Training

\* No step but a task changes the gradients inside an iteration.
LEMMA GradsOther ==
    ASSUME TypeOK, NEW x \in Rank, Running(x), Advance(x), NEW d \in Rank, NEW c \in Chunk,
           GradInv(d, c), UNCHANGED <<no_sync[d][c], main_grad[d][c], reductions[d][c],
                                      grad_reduce_handle[d][c]>>,
           \/ d # x \/ ~Coming(x) \/ Op(x).op # "COMPUTE" \/ Op(x).type = "F"
           \/ Op(x).chunk # c
    PROVE  GradInv(d, c)'
<1>1. \A mb \in Mb, type \in {"B", "W"} : RanTask(d, type, <<mb, c>>)' <=> RanTask(d, type, <<mb, c>>)
  <2>1. \A mb \in Mb : <<mb, c>> \in Key
    BY DEF Key
  <2>2. \A mb \in Mb : OpKey(x) = <<mb, c>> => Op(x).chunk = c
    BY DEF OpKey
  <2> QED
    BY <2>1, <2>2, FinalAdvance
<1>2. FinalType(d) \in {"B", "W"} /\ FinalType(d)' = FinalType(d)
  BY DEF FinalType, WgradSplit
<1>3. Inside(d)' <=> Inside(d)
  BY InsideAdvance
<1>4. AddedInv(d, c) => AddedInv(d, c)'
  BY <1>1, <1>2 DEF AddedInv
<1>5. ReducedInv(d, c) => ReducedInv(d, c)'
  BY <1>3 DEF ReducedInv
<1> QED
  BY <1>3, <1>4, <1>5 DEF GradInv
LEMMA Appended ==
    ASSUME NEW S, NEW s \in Seq(S), NEW x \in S, NEW t, t = Append(s, x)
    PROVE  /\ DOMAIN t = DOMAIN s \cup {Len(s) + 1}
           /\ t[Len(s) + 1] = x
           /\ \A j \in DOMAIN s : t[j] = s[j]
  OBVIOUS

\* A backward or weight gradient on its own chunk, where `added` is what it
\* adds to the gradient.
LEMMA TaskGrads ==
    ASSUME TypeOK, TypeOK', PlansInOrder, NEW x \in Rank, Running(x), Coming(x), Advance(x),
           Op(x).op = "COMPUTE", Op(x).type # "F", NEW c \in Chunk, c = Op(x).chunk, GradInv(x, c),
           NEW added, NEW held, held = main_grad[x][c] \cup added,
           Op(x).type = "B" => <<"B", Op(x).mb>> \in added,
           Op(x).type = FinalType(x) => <<"W", Op(x).mb>> \in added,
           main_grad'[x][c] = held, no_sync'[x][c] = TRUE,
           \/ IsLastMicrobatch(x) /\ StartGradSync(x, c, held)
           \/ UNCHANGED <<reductions, grad_reduce_handle>>
    PROVE  GradInv(x, c)'
<1> DEFINE here == <<Op(x).mb, c>>
<1>1. OpKey(x) = here /\ Inside(x) /\ Inside(x)' /\ FinalType(x) \in {"B", "W"}
  <2>1. pc[x] > 0 /\ iteration[x] <= MaxIter
    BY InPlan DEF Running
  <2>2. Training(x)
    BY AtTask
  <2> QED
    BY <2>1, <2>2, InsideAdvance DEF Inside, OpKey, FinalType
<1>2. AddedInv(x, c) /\ ReducedInv(x, c)
  BY <1>1 DEF GradInv
<1>3. \A mb \in Mb, type \in {"B", "W"} :
         RanTask(x, type, <<mb, c>>)' <=>
            RanTask(x, type, <<mb, c>>) \/ (mb = Op(x).mb /\ type = Op(x).type)
  <2>1. \A mb \in Mb : <<mb, c>> \in Key
    BY DEF Key
  <2>2. \A mb \in Mb : <<mb, c>> = OpKey(x) <=> mb = Op(x).mb
    BY <1>1
  <2> QED
    BY <2>1, <2>2, FinalAdvance
<1>4. FinalType(x)' = FinalType(x)
  BY DEF FinalType, WgradSplit
<1>5. AddedInv(x, c)'
  BY <1>1, <1>2, <1>3, <1>4 DEF AddedInv
<1>6. ReducedInv(x, c)'
  <2>1. CASE UNCHANGED <<reductions, grad_reduce_handle>>
    BY <1>1, <1>2, <2>1 DEF ReducedInv
  <2>2. CASE IsLastMicrobatch(x) /\ StartGradSync(x, c, held)
    <3>1. held \in SUBSET Contribution
      <4>1. main_grad' \in [Rank -> [Chunk -> SUBSET Contribution]]
        BY DEF TypeOK
      <4>2. main_grad'[x][c] \in SUBSET Contribution
        BY <4>1
      <4> QED
        BY <4>2
    <3>2. \A mb \in Mb : <<"B", mb>> \in held /\ <<"W", mb>> \in held
      <4> SUFFICES ASSUME NEW mb \in Mb PROVE <<"B", mb>> \in held /\ <<"W", mb>> \in held
        OBVIOUS
      <4>1. RanTask(x, "B", <<mb, c>>) \/ ("B" = Op(x).type /\ mb = Op(x).mb)
        BY <2>2, Complete
      <4>2. RanTask(x, FinalType(x), <<mb, c>>) \/ (FinalType(x) = Op(x).type /\ mb = Op(x).mb)
        BY <2>2, Complete
      <4> QED
        BY <1>2, <4>1, <4>2 DEF AddedInv
    <3>3. held = Contribution
      BY <3>1, <3>2, Whole
    <3>4. reductions'[x][c] = Append(reductions[x][c], held)
          /\ grad_reduce_handle'[x][c] = OverlapGradReduce
      BY <2>2 DEF StartGradSync, TypeOK
    <3>5. /\ DOMAIN reductions'[x][c] = DOMAIN reductions[x][c] \cup {Len(reductions[x][c]) + 1}
          /\ reductions'[x][c][Len(reductions[x][c]) + 1] = held
          /\ \A j \in DOMAIN reductions[x][c] : reductions'[x][c][j] = reductions[x][c][j]
      <4> DEFINE before == reductions[x][c]
                 after == reductions'[x][c]
      <4>1. before \in Seq(SUBSET Contribution)
        BY DEF TypeOK
      <4>2. after = Append(before, held)
        BY <3>4
      <4> HIDE DEF before, after
      <4>3. /\ DOMAIN after = DOMAIN before \cup {Len(before) + 1}
            /\ after[Len(before) + 1] = held
            /\ \A j \in DOMAIN before : after[j] = before[j]
        BY <3>1, <4>1, <4>2, Appended
      <4> QED
        BY <4>3 DEF before, after
    <3> QED
      BY <1>1, <1>2, <3>3, <3>4, <3>5 DEF ReducedInv
  <2> QED
    BY <2>1, <2>2
<1> QED
  BY <1>5, <1>6 DEF GradInv
\* What a task that trains does to the gradients.
LEMMA TaskEffect ==
    ASSUME TypeOK, PlansInOrder, TensorInv, NEW x \in Rank, BackwardStep(x) \/ WGradStep(x),
           StoreInv(x), NEW c, c = Op(x).chunk, GradInv(x, c)
    PROVE  \E added, held :
              /\ held = main_grad[x][c] \cup added
              /\ Op(x).type = "B" => <<"B", Op(x).mb>> \in added
              /\ Op(x).type = FinalType(x) => <<"W", Op(x).mb>> \in added
              /\ main_grad' = [main_grad EXCEPT ![x][c] = held]
              /\ \/ IsLastMicrobatch(x) /\ StartGradSync(x, c, held)
                 \/ UNCHANGED <<reductions, grad_reduce_handle>>
              /\ no_sync' = [no_sync EXCEPT ![x][c] = TRUE]
<1>1. /\ Running(x) /\ Coming(x) /\ Op(x).op = "COMPUTE" /\ Op(x).type # "F"
      /\ Op(x).type = "B" <=> BackwardStep(x)
      /\ Op(x).type = "W" <=> WGradStep(x)
  BY DEF BackwardStep, WGradStep, At, Coming
<1>2. OpKey(x)[1] = Op(x).mb /\ OpKey(x)[2] = c /\ c \in Chunk /\ pc[x] > 0
  BY <1>1, OpPlace, InPlan DEF Key
<1>3. no_sync[x][c]
  <2>1. Inside(x)
    BY <1>1, <1>2, AtTask DEF Inside, Running
  <2> QED
    BY <2>1 DEF GradInv
<1>4. CASE BackwardStep(x)
  <2> DEFINE added == {<<part, Op(x).mb>> : part \in IF WgradSplit(x) THEN {"B"} ELSE {"B", "W"}}
             held == main_grad[x][c] \cup added
  <2>1. <<"B", Op(x).mb>> \in added /\ (FinalType(x) = "B" => <<"W", Op(x).mb>> \in added)
    BY DEF FinalType
  <2>2. /\ main_grad' = [main_grad EXCEPT ![x][c] = held]
        /\ no_sync' = [no_sync EXCEPT ![x][c] = TRUE]
        /\ IF OverlapGradReduce /\ ~WgradSplit(x) /\ (~no_sync[x][c] \/ IsLastMicrobatch(x))
           THEN StartGradSync(x, c, held)
           ELSE UNCHANGED <<reductions, grad_reduce_handle>>
    BY <1>2, <1>4, BackwardGrads
  <2> HIDE DEF added
  <2> QED
    BY <1>1, <1>3, <1>4, <2>1, <2>2
<1>5. CASE WGradStep(x)
  <2>1. no_sync = [no_sync EXCEPT ![x][c] = TRUE]
    BY <1>2, <1>3 DEF TypeOK
  <2> DEFINE added == {<<"W", Op(x).mb>>}
             held == main_grad[x][c] \cup added
  <2>2. /\ main_grad' = [main_grad EXCEPT ![x][c] = held]
        /\ IF IsLastMicrobatch(x) THEN StartGradSync(x, c, held)
           ELSE UNCHANGED <<reductions, grad_reduce_handle>>
        /\ no_sync' = no_sync
    BY <1>2, <1>5, WGradGrads
  <2> QED
    BY <1>1, <1>5, <2>1, <2>2
<1> QED
  BY <1>4, <1>5

LEMMA OtherPlace ==
    ASSUME NEW S, NEW f \in [Rank -> [Chunk -> S]], NEW x \in Rank, NEW own \in Chunk, NEW v,
           NEW d \in Rank, NEW c \in Chunk, ~(d = x /\ c = own)
    PROVE  [f EXCEPT ![x][own] = v][d][c] = f[d][c]
  OBVIOUS

LEMMA GradTask ==
    ASSUME TypeOK, TypeOK', PlansInOrder, TensorInv, NEW x \in Rank, BackwardStep(x) \/ WGradStep(x),
           StoreInv(x), \A c \in Chunk : GradInv(x, c), NEW d \in Rank, NEW c \in Chunk, GradInv(d, c)
    PROVE  GradInv(d, c)'
<1>1. Running(x) /\ Coming(x) /\ Advance(x) /\ Op(x).op = "COMPUTE" /\ Op(x).type # "F"
  BY DEF BackwardStep, WGradStep, At, Coming
<1>2. PICK own \in Chunk : own = Op(x).chunk
  BY <1>1, OpPlace DEF Key
<1>3. PICK added, held :
         /\ held = main_grad[x][own] \cup added
         /\ Op(x).type = "B" => <<"B", Op(x).mb>> \in added
         /\ Op(x).type = FinalType(x) => <<"W", Op(x).mb>> \in added
         /\ main_grad' = [main_grad EXCEPT ![x][own] = held]
         /\ \/ IsLastMicrobatch(x) /\ StartGradSync(x, own, held)
            \/ UNCHANGED <<reductions, grad_reduce_handle>>
         /\ no_sync' = [no_sync EXCEPT ![x][own] = TRUE]
  BY <1>2, TaskEffect
<1>4. CASE d = x /\ c = own
  <2>1. main_grad'[x][own] = held /\ no_sync'[x][own] = TRUE
    BY <1>3 DEF TypeOK
  <2> QED
    BY <1>1, <1>2, <1>3, <1>4, <2>1, TaskGrads
<1>5. CASE ~(d = x /\ c = own)
  <2>1. UNCHANGED <<no_sync[d][c], main_grad[d][c]>>
    <3>1. no_sync' = [no_sync EXCEPT ![x][own] = TRUE] /\ main_grad' = [main_grad EXCEPT ![x][own] = held]
      BY <1>3
    <3>2. no_sync \in [Rank -> [Chunk -> BOOLEAN]] /\ main_grad \in [Rank -> [Chunk -> SUBSET Contribution]]
      BY DEF TypeOK
    <3>3. no_sync'[d][c] = no_sync[d][c]
      BY <1>5, <3>1, <3>2
    <3>4. main_grad'[d][c] = main_grad[d][c]
      BY <1>5, <3>1, <3>2, OtherPlace
    <3> QED
      BY <3>3, <3>4
  <2>2. UNCHANGED <<reductions[d][c], grad_reduce_handle[d][c]>>
    <3>1. CASE UNCHANGED <<reductions, grad_reduce_handle>>
      BY <3>1
    <3>2. CASE StartGradSync(x, own, held)
      BY <1>5, <3>2 DEF StartGradSync, TypeOK
    <3> QED
      BY <1>3, <3>1, <3>2
  <2> QED
    BY <1>1, <1>2, <1>5, <2>1, <2>2, GradsOther
<1> QED
  BY <1>4, <1>5
\* At the end of a training iteration every task has been run.
LEMMA AllRan ==
    ASSUME TypeOK, PlansInOrder, NEW x \in Rank, FinishIteration(x), Training(x),
           NEW type \in {"B", FinalType(x)}, NEW k \in Key
    PROVE  RanTask(x, type, k)
<1>1. PICK p \in DOMAIN Program[x] : TaskPlaces(Program[x], type, k) = {p}
  BY OnlyPlace
<1>2. p \in PlacesFor(Program[x], {"COMPUTE"}, type, k)
  BY <1>1 DEF TaskPlaces
<1>3. p < pc[x]
  <2>1. Program[x] \in Seq(Operation) /\ pc[x] = Len(Program[x]) + 1
    BY ConstantTypes DEF FinishIteration
  <2> QED
    BY <2>1
<1> QED
  BY <1>2, <1>3 DEF RanTask, RanOne, Ran, Effective, Training

LEMMA FinishGrads ==
    ASSUME TypeOK, PlansInOrder, NEW x \in Rank, FinishIteration(x), NEW c \in Chunk, GradInv(x, c)
    PROVE  ReducedInv(x, c)'
<1>1. iteration[x] <= MaxIter /\ pc[x] > 0
  <2>1. Len(Program[x]) \in Nat
    BY ConstantTypes
  <2> QED
    BY <2>1 DEF FinishIteration
<1>2. ReducedInv(x, c) /\ (Training(x) => AddedInv(x, c))
  BY <1>1 DEF GradInv, Inside
<1>3. CASE ~Training(x)
  <2>1. UNCHANGED <<reductions, grad_reduce_handle>> /\ ~grad_reduce_handle[x][c]
    BY <1>2, <1>3 DEF FinishIteration, ReducedInv, Inside
  <2> QED
    BY <1>2, <2>1 DEF ReducedInv
<1>4. CASE Training(x)
  <2>1. FinishGradSync(x)
    BY <1>4 DEF FinishIteration
  <2>2. ~grad_reduce_handle'[x][c]
    BY <2>1 DEF FinishGradSync, TypeOK
  <2>3. CASE OverlapGradReduce
    BY <1>2, <2>1, <2>2, <2>3 DEF FinishGradSync, ReducedInv
  <2>4. CASE ~OverlapGradReduce
    <3>1. PICK held : held = main_grad[x][c]
      OBVIOUS
    <3>2. held \in SUBSET Contribution /\ reductions[x][c] \in Seq(SUBSET Contribution)
      BY <3>1 DEF TypeOK
    <3>3. \A mb \in Mb : <<"B", mb>> \in held /\ <<"W", mb>> \in held
      <4> SUFFICES ASSUME NEW mb \in Mb PROVE <<"B", mb>> \in held /\ <<"W", mb>> \in held
        OBVIOUS
      <4>1. <<mb, c>> \in Key
        BY DEF Key
      <4>2. RanTask(x, "B", <<mb, c>>) /\ RanTask(x, FinalType(x), <<mb, c>>)
        BY <1>4, <4>1, AllRan
      <4> QED
        BY <1>2, <1>4, <3>1, <4>2 DEF AddedInv
    <3>4. held = Contribution
      BY <3>2, <3>3, Whole
    <3>5. reductions'[x][c] = Append(reductions[x][c], held)
      BY <2>1, <2>4, <3>1 DEF FinishGradSync, TypeOK
    <3>6. /\ DOMAIN reductions'[x][c] = DOMAIN reductions[x][c] \cup {Len(reductions[x][c]) + 1}
          /\ reductions'[x][c][Len(reductions[x][c]) + 1] = held
          /\ \A j \in DOMAIN reductions[x][c] : reductions'[x][c][j] = reductions[x][c][j]
      BY <3>2, <3>5
    <3> QED
      BY <1>2, <2>2, <3>4, <3>6 DEF ReducedInv
  <2> QED
    BY <2>3, <2>4
<1> QED
  BY <1>3, <1>4

LEMMA GradIteration ==
    ASSUME TypeOK, PlansInOrder, NEW x \in Rank, StartIteration(x) \/ FinishIteration(x),
           NEW d \in Rank, NEW c \in Chunk, GradInv(d, c)
    PROVE  GradInv(d, c)'
<1>1. \A type, k : RanTask(d, type, k)' <=> d # x /\ RanTask(d, type, k)
  BY RanIteration DEF RanTask
<1>2. FinalType(d)' = FinalType(d)
  BY DEF FinalType, WgradSplit
<1>3. CASE d # x
  <2>1. UNCHANGED <<iteration[d], pc[d], no_sync[d], main_grad[d], reductions[d], grad_reduce_handle[d]>>
    BY <1>3 DEF StartIteration, FinishIteration, FinishGradSync, TypeOK
  <2> QED
    BY <1>1, <1>2, <1>3, <2>1 DEF GradInv, AddedInv, ReducedInv, Inside, Training
<1>4. CASE d = x /\ StartIteration(x)
  <2>1. /\ iteration' = iteration /\ grad_reduce_handle' = grad_reduce_handle /\ pc[x] = 0
        /\ no_sync'[x][c] = TRUE
        /\ reductions'[x][c] = <<>> \/ reductions'[x][c] = reductions[x][c]
    BY <1>4 DEF StartIteration, TypeOK
  <2>2. ~grad_reduce_handle[x][c]
    BY <1>4, <2>1 DEF GradInv, ReducedInv, Inside
  <2>3. ReducedInv(x, c)'
    BY <1>4, <2>1, <2>2 DEF GradInv, ReducedInv
  <2>4. AddedInv(x, c)'
    BY <1>1, <1>4 DEF AddedInv
  <2> QED
    BY <1>4, <2>1, <2>3, <2>4 DEF GradInv
<1>5. CASE d = x /\ FinishIteration(x)
  <2>1. ReducedInv(x, c)'
    BY <1>5, FinishGrads
  <2>2. ~Inside(x)'
    <3>1. pc'[x] = 0
      BY <1>5 DEF FinishIteration, TypeOK
    <3> QED
      BY <3>1 DEF Inside
  <2> QED
    BY <1>5, <2>1, <2>2 DEF GradInv
<1> QED
  BY <1>3, <1>4, <1>5

StoredInv == \A d \in Rank : StoreInv(d) /\ \A c \in Chunk : GradInv(d, c)

LEMMA GradStep ==
    TypeOK /\ TypeOK' /\ PlansInOrder /\ TensorInv /\ StoredInv /\ [Next]_vars => StoredInv'
<1> SUFFICES ASSUME TypeOK, TypeOK', PlansInOrder, TensorInv, StoredInv, [Next]_vars,
                    NEW d \in Rank
             PROVE  StoreInv(d)' /\ \A c \in Chunk : GradInv(d, c)'
  BY DEF StoredInv
<1>1. StoreInv(d)'
  BY StoreStep DEF StoredInv
<1>2. ASSUME NEW c \in Chunk PROVE GradInv(d, c)'
  <2>1. GradInv(d, c)
    BY DEF StoredInv
  <2>2. CASE UNCHANGED vars
    BY <2>1, <2>2 DEF vars, grads, GradInv, AddedInv, ReducedInv, Inside, Training, RanTask, RanOne, Ran,
                      FinalType, WgradSplit
  <2>3. ASSUME NEW x \in Rank, Step(x) PROVE GradInv(d, c)'
    <3>1. CASE StartIteration(x) \/ FinishIteration(x)
      BY <2>1, <3>1, GradIteration
    <3>2. CASE LocalCopy(x) \/ ForwardStep(x) \/ Deallocate(x) \/ Skip(x)
      <4>1. /\ Running(x) /\ Advance(x) /\ UNCHANGED grads
            /\ ~Coming(x) \/ Op(x).op # "COMPUTE" \/ Op(x).type = "F"
        BY <3>2 DEF LocalCopy, ForwardStep, Deallocate, Skip, At, Coming
      <4> QED
        BY <2>1, <4>1, GradsOther DEF grads
    <3>3. CASE \E dx \in Dir : PostSend(x, dx) \/ PostRecv(x, dx) \/ WaitRecv(x, dx)
      <4>1. Running(x) /\ Advance(x) /\ UNCHANGED grads /\ Op(x).op # "COMPUTE"
        BY <3>3 DEF PostSend, PostRecv, WaitRecv, At, PostSendOp, PostRecvOp, WaitRecvOp
      <4> QED
        BY <2>1, <4>1, GradsOther DEF grads
    <3>4. CASE BackwardStep(x) \/ WGradStep(x)
      BY <2>1, <3>4, GradTask DEF StoredInv
    <3> QED
      BY <2>3, <3>1, <3>2, <3>3, <3>4 DEF Step
  <2> QED
    BY <2>2, <2>3 DEF Next, Terminated
<1> QED
  BY <1>1, <1>2
LEMMA StoredInit == Init => StoredInv
<1> SUFFICES ASSUME Init, NEW d \in Rank PROVE StoreInv(d) /\ \A c \in Chunk : GradInv(d, c)
  BY DEF StoredInv
<1>1. Ran(d) = {}
  <2>1. DOMAIN Program[d] \subseteq Nat \ {0} /\ pc[d] = 0
    BY ConstantTypes DEF Init
  <2> QED
    BY <2>1 DEF Ran
<1>2. StoreInv(d)
  BY <1>1 DEF Init, StoreInv, RanTask, RanOne
<1>3. ASSUME NEW c \in Chunk PROVE GradInv(d, c)
  BY <1>1 DEF Init, GradInv, AddedInv, ReducedInv, Inside
<1> QED
  BY <1>2, <1>3

-----------------------------------------------------------------------------
(* How often a gradient is reduced.  Without overlapped reductions a plan  *)
(* with weight gradients of its own reduces a second time at the end of    *)
(* the iteration; every other configuration reduces once.                  *)

ReducesOnce == OverlapGradReduce \/ \A d \in Rank : ~WgradSplit(d)

CountInv(d, c) ==
    /\ Len(reductions[d][c]) <= 1
    /\ Inside(d) => Len(reductions[d][c]) = IF grad_reduce_handle[d][c] THEN 1 ELSE 0
    /\ pc[d] = 0 /\ iteration[d] > 1 /\ Mode[iteration[d] - 1] = "train" => Len(reductions[d][c]) = 1
Counted == \A d \in Rank, c \in Chunk : CountInv(d, c)

\* A step past an operation leaves the reductions of a chunk alone or starts
\* an overlapped one.
LEMMA CountAdvance ==
    ASSUME TypeOK, NEW x \in Rank, Running(x), Advance(x), NEW d \in Rank, NEW c \in Chunk,
           GradInv(d, c), CountInv(d, c),
           \/ UNCHANGED <<reductions[d][c], grad_reduce_handle[d][c]>>
           \/ d = x /\ Inside(x) /\ OverlapGradReduce /\ \E held : StartGradSync(x, c, held)
    PROVE  CountInv(d, c)'
<1>1. (Inside(d)' <=> Inside(d)) /\ (pc'[d] = 0 <=> pc[d] = 0) /\ iteration' = iteration
  BY InsideAdvance
<1>2. CASE UNCHANGED <<reductions[d][c], grad_reduce_handle[d][c]>>
  BY <1>1, <1>2 DEF CountInv
<1>3. ASSUME d = x, Inside(x), OverlapGradReduce, NEW held, StartGradSync(x, c, held)
      PROVE  CountInv(d, c)'
  <2>1. reductions'[x][c] = Append(reductions[x][c], held) /\ grad_reduce_handle'[x][c]
        /\ ~grad_reduce_handle[x][c] /\ pc[x] # 0
    BY <1>3 DEF StartGradSync, TypeOK, Inside
  <2>2. reductions[x][c] \in Seq(SUBSET Contribution) /\ Len(reductions[x][c]) = 0
    BY <1>3, <2>1 DEF CountInv, TypeOK
  <2>3. Len(reductions'[x][c]) = 1
    BY <2>1, <2>2
  <2> QED
    BY <1>1, <1>3, <2>1, <2>3 DEF CountInv
<1> QED
  BY <1>2, <1>3

LEMMA CountTask ==
    ASSUME TypeOK, PlansInOrder, ReducesOnce, TensorInv, NEW x \in Rank,
           BackwardStep(x) \/ WGradStep(x), StoreInv(x), \A c \in Chunk : GradInv(x, c),
           NEW d \in Rank, NEW c \in Chunk, GradInv(d, c), CountInv(d, c)
    PROVE  CountInv(d, c)'
<1>1. /\ Running(x) /\ Coming(x) /\ Advance(x) /\ Op(x).op = "COMPUTE" /\ Op(x).type # "F"
      /\ WGradStep(x) => Op(x).type = "W"
  BY DEF BackwardStep, WGradStep, At, Coming
<1>2. PICK own \in Chunk : own = Op(x).chunk /\ own = OpKey(x)[2]
  BY <1>1, OpPlace DEF Key
<1>3. Inside(x) /\ (WGradStep(x) => WgradSplit(x))
  BY <1>1, AtTask, InPlan DEF Inside, Running
<1>4. \/ UNCHANGED <<reductions, grad_reduce_handle>>
      \/ OverlapGradReduce /\ \E held : StartGradSync(x, own, held)
  <2>1. CASE BackwardStep(x)
    BY <1>2, <2>1 DEF BackwardStep
  <2>2. CASE WGradStep(x)
    BY <1>2, <1>3, <2>2 DEF WGradStep, ReducesOnce
  <2> QED
    BY <2>1, <2>2
<1>5. CASE UNCHANGED <<reductions, grad_reduce_handle>>
  BY <1>1, <1>5, CountAdvance
<1>6. ASSUME OverlapGradReduce, NEW held, StartGradSync(x, own, held) PROVE CountInv(d, c)'
  <2>1. CASE d = x /\ c = own
    BY <1>1, <1>3, <1>6, <2>1, CountAdvance
  <2>2. CASE ~(d = x /\ c = own)
    <3>1. UNCHANGED <<reductions[d][c], grad_reduce_handle[d][c]>>
      BY <1>6, <2>2 DEF StartGradSync, TypeOK
    <3> QED
      BY <1>1, <3>1, CountAdvance
  <2> QED
    BY <2>1, <2>2
<1> QED
  BY <1>4, <1>5, <1>6

LEMMA CountIteration ==
    ASSUME TypeOK, ReducesOnce, NEW x \in Rank, StartIteration(x) \/ FinishIteration(x),
           NEW d \in Rank, NEW c \in Chunk, GradInv(d, c), CountInv(d, c)
    PROVE  CountInv(d, c)'
<1>1. CASE d # x
  <2>1. UNCHANGED <<iteration[d], pc[d], reductions[d], grad_reduce_handle[d]>>
    BY <1>1 DEF StartIteration, FinishIteration, FinishGradSync, TypeOK
  <2> QED
    BY <1>1, <2>1 DEF CountInv, Inside, Training
<1>2. CASE d = x /\ StartIteration(x)
  <2>1. /\ iteration' = iteration /\ grad_reduce_handle' = grad_reduce_handle
        /\ pc[x] = 0 /\ pc'[x] = 1
    BY <1>2 DEF StartIteration, TypeOK
  <2>2. ~grad_reduce_handle[x][c]
    BY <1>2, <2>1 DEF GradInv, ReducedInv, Inside
  <2>3. CASE Training(x)
    <3>1. reductions'[x][c] = <<>>
      BY <1>2, <2>3 DEF StartIteration, TypeOK
    <3> QED
      BY <1>2, <2>1, <2>2, <3>1 DEF CountInv
  <2>4. CASE ~Training(x)
    <3>1. reductions' = reductions /\ ~Inside(x)'
      BY <1>2, <2>1, <2>4 DEF StartIteration, Inside, Training
    <3> QED
      BY <1>2, <2>1, <3>1 DEF CountInv
  <2> QED
    BY <2>3, <2>4
<1>3. CASE d = x /\ FinishIteration(x)
  <2>1. /\ iteration[x] <= MaxIter /\ pc[x] > 0 /\ iteration[x] \in Int
        /\ iteration'[x] = iteration[x] + 1 /\ pc'[x] = 0
    <3>1. Len(Program[x]) \in Nat
      BY ConstantTypes
    <3> QED
      BY <1>3, <3>1 DEF FinishIteration, TypeOK
  <2>2. ~Inside(x)' /\ iteration'[x] - 1 = iteration[x]
    BY <2>1 DEF Inside
  <2>3. CASE ~Training(x)
    <3>1. reductions' = reductions
      BY <1>3, <2>3 DEF FinishIteration
    <3> QED
      BY <1>3, <2>2, <2>3, <3>1 DEF CountInv, Training
  <2>4. CASE Training(x)
    <3>1. FinishGradSync(x) /\ Inside(x)
      BY <1>3, <2>1, <2>4 DEF FinishIteration, Inside
    <3>2. reductions[x][c] \in Seq(SUBSET Contribution)
      BY DEF TypeOK
    <3>3. Len(reductions'[x][c]) = 1
      <4>1. CASE OverlapGradReduce
        BY <1>3, <3>1, <4>1 DEF FinishGradSync, CountInv
      <4>2. CASE ~OverlapGradReduce
        <5>1. Len(reductions[x][c]) = 0
          BY <1>3, <3>1, <4>2 DEF GradInv, ReducedInv, CountInv
        <5>2. reductions'[x][c] = Append(reductions[x][c], main_grad[x][c])
          BY <3>1, <4>2 DEF FinishGradSync, TypeOK
        <5> QED
          BY <3>2, <5>1, <5>2
      <4> QED
        BY <4>1, <4>2
    <3> QED
      BY <1>3, <2>2, <3>3 DEF CountInv
  <2> QED
    BY <2>3, <2>4
<1> QED
  BY <1>1, <1>2, <1>3

LEMMA CountStep ==
    TypeOK /\ PlansInOrder /\ ReducesOnce /\ TensorInv /\ StoredInv /\ Counted /\ [Next]_vars => Counted'
<1> SUFFICES ASSUME TypeOK, PlansInOrder, ReducesOnce, TensorInv, StoredInv, Counted, [Next]_vars,
                    NEW d \in Rank, NEW c \in Chunk
             PROVE  CountInv(d, c)'
  BY DEF Counted
<1>1. CountInv(d, c) /\ GradInv(d, c)
  BY DEF Counted, StoredInv
<1>2. CASE UNCHANGED vars
  BY <1>1, <1>2 DEF vars, grads, CountInv, Inside, Training
<1>3. ASSUME NEW x \in Rank, Step(x) PROVE CountInv(d, c)'
  <2>1. CASE StartIteration(x) \/ FinishIteration(x)
    BY <1>1, <2>1, CountIteration
  <2>2. CASE BackwardStep(x) \/ WGradStep(x)
    BY <1>1, <2>2, CountTask DEF StoredInv
  <2>3. ASSUME \/ LocalCopy(x) \/ \E dx \in Dir : PostSend(x, dx) \/ PostRecv(x, dx) \/ WaitRecv(x, dx)
               \/ ForwardStep(x) \/ Deallocate(x) \/ Skip(x)
        PROVE  CountInv(d, c)'
    <3>1. Running(x) /\ Advance(x) /\ UNCHANGED grads
      BY <2>3 DEF LocalCopy, PostSend, PostRecv, WaitRecv, ForwardStep, Deallocate, Skip, At
    <3> QED
      BY <1>1, <3>1, CountAdvance DEF grads
  <2> QED
    BY <1>3, <2>1, <2>2, <2>3 DEF Step
<1> QED
  BY <1>2, <1>3 DEF Next, Terminated

-----------------------------------------------------------------------------
(* The theorems.                                                           *)

LEMMA StoredInvariant ==
    ASSUME PlansMatch, PlansInOrder
    PROVE  Spec => [](TypeOK /\ TensorInv /\ StoredInv)
<1>1. Init => TypeOK /\ Delivery /\ TensorInv /\ StoredInv
  BY TypeInit, DeliveryInit, TensorInit, StoredInit
<1>2. TypeOK /\ Delivery /\ TensorInv /\ StoredInv /\ [Next]_vars
         => (TypeOK /\ Delivery /\ TensorInv /\ StoredInv)'
  BY TypeStep, DeliveryStep, TensorStep, GradStep
<1> QED
  BY <1>1, <1>2, PTL DEF Spec

\* The block of weight gradients that a W task takes, the oldest, is the one
\* that its own backward left in the store.
THEOREM OwnBlockIsOldest ==
    ASSUME PlansMatch, PlansInOrder
    PROVE  Spec => []WgradBlockIsOwn
<1>1. TypeOK /\ StoredInv => WgradBlockIsOwn
  <2> SUFFICES ASSUME TypeOK, StoredInv, NEW d \in Rank, Running(d), Training(d),
                      Op(d).op = "COMPUTE", Op(d).type = "W"
               PROVE  /\ wgrad_blocks[d] # <<>>
                      /\ <<Head(wgrad_blocks[d]).mb, Head(wgrad_blocks[d]).chunk>> = OpKey(d)
    BY DEF WgradBlockIsOwn
  <2>1. Coming(d) /\ StoreInv(d)
    BY DEF Coming, Effective, Training, StoredInv
  <2>2. wgrad_blocks[d] # <<>> /\ KeyOf(wgrad_blocks[d][1]) = OpKey(d)
    BY <2>1, HeadIsOwnBlock
  <2>3. Head(wgrad_blocks[d]) = wgrad_blocks[d][1]
    BY <2>2 DEF TypeOK
  <2> QED
    BY <2>2, <2>3 DEF KeyOf
<1> QED
  BY <1>1, StoredInvariant, PTL

\* A data-parallel reduction covers the whole gradient of its chunk: it is
\* started after every microbatch's backward and weight gradient.
THEOREM ReducedWhole ==
    ASSUME PlansMatch, PlansInOrder
    PROVE  Spec => []ReductionsCoverAll
<1>1. StoredInv => ReductionsCoverAll
  BY DEF StoredInv, GradInv, ReducedInv, ReductionsCoverAll
<1> QED
  BY <1>1, StoredInvariant, PTL

\* A training iteration reduces the gradient of a chunk exactly once, unless
\* reductions are not overlapped and a rank splits weight gradients off.
THEOREM ReducedExactlyOnce ==
    ASSUME PlansMatch, PlansInOrder, ReducesOnce
    PROVE  Spec => []ReducedOnce
<1>1. Init => Counted
  BY DEF Init, Counted, CountInv, Inside
<1>2. Counted => ReducedOnce
  BY DEF Counted, CountInv, ReducedOnce
<1>3. TypeOK /\ TensorInv /\ StoredInv /\ Counted /\ [Next]_vars => Counted'
  BY CountStep
<1> QED
  BY <1>1, <1>2, <1>3, StoredInvariant, PTL DEF Spec

-----------------------------------------------------------------------------
(* Tasks of the data flow.                                                 *)

\* The task at operation y[2] of rank d in iteration y[1].
TaskAt(d, y) ==
    LET o == Program[d][y[2]]
    IN  [iter |-> y[1], type |-> o.type, mb |-> o.mb, stage |-> Stage(d, o.chunk)]

Computes(d, y) == Program[d][y[2]].op = "COMPUTE" /\ Effective(y[1], Program[d][y[2]])

\* What has been computed, by the places the ranks have passed.
LEMMA ComputedPassed ==
    ASSUME TypeOK
    PROVE  Computed = UNION {{TaskAt(d, y) : y \in {z \in Passed(d) : Computes(d, z)}} : d \in Rank}
<1> DEFINE upto(d) == IF iteration[d] <= MaxIter THEN pc[d] - 1 ELSE 0
           mine(d) == ComputedIn(d, iteration[d], upto(d))
                        \cup UNION {ComputedIn(d, i, Len(Program[d])) : i \in 1 .. iteration[d] - 1}
           passed(d) == {TaskAt(d, y) : y \in {z \in Passed(d) : Computes(d, z)}}
<1>1. ASSUME NEW d \in Rank PROVE mine(d) = passed(d)
  <2>1. /\ DOMAIN Program[d] = 1 .. Len(Program[d]) /\ Len(Program[d]) \in Nat
        /\ MaxIter \in Nat /\ iteration[d] \in 1 .. MaxIter + 1 /\ pc[d] \in Nat
        /\ pc[d] <= Len(Program[d]) + 1 /\ upto(d) \in Int /\ upto(d) <= Len(Program[d])
    BY ConstantTypes DEF TypeOK
  <2>2. \A i, p : <<i, p>> \in Passed(d) <=>
           \/ i \in 1 .. iteration[d] - 1 /\ p \in 1 .. Len(Program[d])
           \/ i = iteration[d] /\ p \in 1 .. upto(d)
    BY <2>1 DEF Passed, Earlier
  <2> HIDE DEF upto
  <2>3. \A i, n, t : t \in ComputedIn(d, i, n) <=>
           \E p \in 1 .. n : Computes(d, <<i, p>>) /\ t = TaskAt(d, <<i, p>>)
    BY DEF ComputedIn, Computes, TaskAt
  <2>4. ASSUME NEW t, t \in mine(d) PROVE t \in passed(d)
    <3>1. PICK i, p : <<i, p>> \in Passed(d) /\ Computes(d, <<i, p>>) /\ t = TaskAt(d, <<i, p>>)
      <4>1. CASE t \in ComputedIn(d, iteration[d], upto(d))
        <5>1. PICK p \in 1 .. upto(d) : /\ Computes(d, <<iteration[d], p>>)
                                       /\ t = TaskAt(d, <<iteration[d], p>>)
          BY <2>3, <4>1
        <5>2. <<iteration[d], p>> \in Passed(d)
          BY <2>2
        <5> QED
          BY <5>1, <5>2
      <4>2. ASSUME NEW i \in 1 .. iteration[d] - 1, t \in ComputedIn(d, i, Len(Program[d]))
            PROVE  \E p : <<i, p>> \in Passed(d) /\ Computes(d, <<i, p>>) /\ t = TaskAt(d, <<i, p>>)
        <5>1. PICK p \in 1 .. Len(Program[d]) : Computes(d, <<i, p>>) /\ t = TaskAt(d, <<i, p>>)
          BY <2>3, <4>2
        <5>2. <<i, p>> \in Passed(d)
          BY <2>2
        <5> QED
          BY <5>1, <5>2
      <4> QED
        BY <2>4, <4>1, <4>2
    <3> QED
      BY <3>1
  <2>5. ASSUME NEW y \in Passed(d), Computes(d, y) PROVE TaskAt(d, y) \in mine(d)
    <3>1. PICK i, p : y = <<i, p>>
      BY DEF Passed
    <3> QED
      BY <2>2, <2>3, <2>5, <3>1
  <2> QED
    BY <2>4, <2>5
<1>2. Computed = UNION {mine(d) : d \in Rank}
  BY DEF Computed
<1> HIDE DEF mine, passed
<1>3. UNION {mine(d) : d \in Rank} = UNION {passed(d) : d \in Rank}
  BY <1>1
<1> QED
  BY <1>2, <1>3 DEF passed

\* The same, one task at a time, now and after a step.
LEMMA InComputed ==
    TypeOK => \A t : t \in Computed <=> \E d \in Rank : \E y \in Passed(d) : Computes(d, y) /\ t = TaskAt(d, y)
<1> SUFFICES ASSUME TypeOK, NEW t
             PROVE  t \in Computed <=> \E d \in Rank : \E y \in Passed(d) : Computes(d, y) /\ t = TaskAt(d, y)
  OBVIOUS
<1> QED
  BY ComputedPassed

LEMMA InComputedNext ==
    TypeOK' => \A t : t \in Computed' <=> \E d \in Rank : \E y \in Passed(d)' : Computes(d, y) /\ t = TaskAt(d, y)
<1>1. (TypeOK => \A t : t \in Computed <=>
          \E d \in Rank : \E y \in Passed(d) : Computes(d, y) /\ t = TaskAt(d, y))'
  BY InComputed, PTL
<1> QED
  BY <1>1 DEF Computes, TaskAt, Effective, Stage

\* A step past an operation adds its task, if it is one that is run.
LEMMA ComputedAdvance ==
    ASSUME TypeOK, TypeOK', NEW x \in Rank, Running(x), Advance(x)
    PROVE  LET here == <<iteration[x], pc[x]>>
           IN  Computed' = Computed \cup IF Coming(x) /\ Op(x).op = "COMPUTE" THEN {TaskAt(x, here)} ELSE {}
<1> DEFINE here == <<iteration[x], pc[x]>>
<1>1. Op(x) = Program[x][pc[x]]
  BY DEF Op
<1>2. Computes(x, here) <=> Coming(x) /\ Op(x).op = "COMPUTE"
  BY <1>1 DEF Computes, Coming
<1>3. \A d \in Rank : Passed(d)' = IF d = x THEN Passed(d) \cup {here} ELSE Passed(d)
  BY PassedAdvance
<1> HIDE DEF here
<1>4. \A t : t \in Computed' <=> t \in Computed \/ (Computes(x, here) /\ t = TaskAt(x, here))
  BY <1>3, InComputed, InComputedNext
<1> QED
  BY <1>2, <1>4 DEF here

\* The two ends of an iteration compute nothing.
LEMMA ComputedIteration ==
    ASSUME TypeOK, TypeOK', NEW x \in Rank, StartIteration(x) \/ FinishIteration(x)
    PROVE  Computed' = Computed
<1>1. \A d \in Rank : Passed(d)' = Passed(d)
  BY PassedIteration
<1>2. \A t : t \in Computed' <=> t \in Computed
  BY <1>1, InComputed, InComputedNext
<1> QED
  BY <1>2

-----------------------------------------------------------------------------
(* Stages.                                                                 *)

\* A stage is on one chunk of one rank.
LEMMA StageOnce ==
    ASSUME PlansInOrder, NEW d \in Rank, NEW e \in Rank, NEW c \in Chunk, NEW b \in Chunk,
           Stage(d, c) = Stage(e, b)
    PROVE  d = e /\ c = b
<1>1. /\ NumDev \in Nat /\ NumDev > 0 /\ d \in 0 .. NumDev - 1 /\ e \in 0 .. NumDev - 1
      /\ NumChunks \in Nat /\ c \in Nat /\ b \in Nat /\ c < NumChunks /\ b < NumChunks
  BY ConstantTypes DEF Rank, Chunk
<1> DEFINE D == NumDev
           place(r, n) == IF Template = "wave" /\ n % 2 = 1 THEN D - 1 - r ELSE r
<1>2. (c * D) + place(d, c) = (b * D) + place(e, b)
  BY DEF Stage, StageOf
<1>3. place(d, c) \in 0 .. D - 1 /\ place(e, b) \in 0 .. D - 1
  BY <1>1
<1>4. c * D \in Nat /\ b * D \in Nat
  BY <1>1
<1>5. c < b => (c * D) + D <= b * D
  BY <1>1, Multiples
<1>6. b < c => (b * D) + D <= c * D
  BY <1>1, Multiples
<1>7. c = b
  <2> HIDE DEF place
  <2>1. ~(c < b) /\ ~(b < c)
    BY <1>1, <1>2, <1>3, <1>4, <1>5, <1>6
  <2> QED
    BY <1>1, <2>1
<1>8. place(d, c) = place(e, c)
  <2> HIDE DEF place
  <2> QED
    BY <1>2, <1>3, <1>4, <1>7
<1> QED
  BY <1>1, <1>7, <1>8

-----------------------------------------------------------------------------
(* What has been computed when a rank comes to a task.                     *)

\* The task at a place that has been passed in an iteration it is run in.
LEMMA PassedComputed ==
    ASSUME TypeOK, NEW d \in Rank, NEW i, NEW p, <<i, p>> \in Passed(d), NEW type, NEW k,
           p \in TaskPlaces(Program[d], type, k), Effective(i, Program[d][p])
    PROVE  Dataflow!TaskOf(i, type, k[1], Stage(d, k[2])) \in Computed
<1>1. Computes(d, <<i, p>>) /\ TaskAt(d, <<i, p>>) = Dataflow!TaskOf(i, type, k[1], Stage(d, k[2]))
  BY DEF TaskPlaces, PlacesFor, Concerns, Computes, TaskAt, Dataflow!TaskOf
<1> QED
  BY <1>1, InComputed

LEMMA RanComputed ==
    ASSUME TypeOK, NEW x \in Rank, Running(x), NEW type, NEW k, RanTask(x, type, k)
    PROVE  Dataflow!TaskOf(iteration[x], type, k[1], Stage(x, k[2])) \in Computed
<1>1. PICK p \in TaskPlaces(Program[x], type, k) : p < pc[x] /\ Effective(iteration[x], Program[x][p])
  BY DEF RanTask, RanOne, Ran, TaskPlaces
<1>2. <<iteration[x], p>> \in Passed(x)
  <2>1. iteration[x] \in 1 .. MaxIter /\ p \in DOMAIN Program[x]
    BY OpType DEF TaskPlaces, PlacesFor
  <2> QED
    BY <1>1, <2>1 DEF Passed, Earlier
<1> QED
  BY <1>1, <1>2, PassedComputed

\* What has been sent has been computed.
LEMMA SentComputed ==
    ASSUME TypeOK, PlansInOrder, NEW d \in Rank, NEW i, NEW p, <<i, p>> \in Passed(d),
           Program[d][p].op \in PostedSends, Effective(i, Program[d][p])
    PROVE  TaskAt(d, <<i, p>>) \in Computed
<1> DEFINE o == Program[d][p]  k == <<o.mb, o.chunk>>
<1>1. i \in 1 .. MaxIter /\ p \in DOMAIN Program[d] /\ DOMAIN Program[d] \subseteq Int /\ Earlier(i, p, iteration[d], pc[d])
  BY ConstantTypes DEF Passed
<1>2. k \in Key /\ o.type \in {"F", "B"}
  <2>1. o \in Operation
    BY <1>1, ConstantTypes
  <2>2. o.op \in Communication
    BY DEF Communication
  <2> QED
    BY <1>1, <2>1, <2>2, Ordered DEF Operation, Key
<1>3. p \in PlacesFor(Program[d], PostedSends, o.type, k)
  BY <1>1 DEF PlacesFor, Concerns
<1>4. PICK q \in TaskPlaces(Program[d], o.type, k) : q < p
  BY <1>2, <1>3, Ordered DEF SentAfterTask
<1>5. /\ q \in DOMAIN Program[d] /\ Program[d][q].type = o.type /\ Program[d][q].mb = o.mb
      /\ Program[d][q].chunk = o.chunk /\ Program[d][q].op = "COMPUTE"
  BY DEF TaskPlaces, PlacesFor, Concerns
<1>6. <<i, q>> \in Passed(d)
  <2>1. pc[d] \in Int
    BY DEF TypeOK
  <2> QED
    BY <1>1, <1>4, <1>5, <2>1 DEF Passed, Earlier
<1>7. Effective(i, Program[d][q])
  <2>1. o.type = "F" => o.op \notin {} /\ o.mb = Program[d][q].mb
    BY <1>5
  <2> QED
    BY <1>5 DEF Effective
<1>8. Computes(d, <<i, q>>) /\ TaskAt(d, <<i, p>>) = TaskAt(d, <<i, q>>)
  BY <1>5, <1>7 DEF Computes, TaskAt
<1> QED
  BY <1>6, <1>8, InComputed

\* What has been delivered has been computed, on this rank or the neighbour.
LEMMA DeliveredComputed ==
    ASSUME TypeOK, PlansMatch, PlansInOrder, Delivery, NEW x \in Rank, Running(x),
           NEW type \in {"F", "B"}, NEW k \in Key, RanOne(x, Deliveries, type, k)
    PROVE  Dataflow!TaskOf(iteration[x], type, k[1],
                           Stage(x, k[2]) + IF type = "F" THEN -1 ELSE 1) \in Computed
<1>1. PICK p \in PlacesFor(Program[x], Deliveries, type, k) :
         p < pc[x] /\ Effective(iteration[x], Program[x][p])
  BY DEF RanOne, Ran
<1> DEFINE i == iteration[x]  o == Program[x][p]
<1>2. /\ p \in DOMAIN Program[x] /\ o \in Operation /\ i \in 1 .. MaxIter /\ pc[x] \in Int
      /\ DOMAIN Program[x] \subseteq Int /\ o.op \in Deliveries
      /\ o.type = type /\ o.mb = k[1] /\ o.chunk = k[2]
  BY ConstantTypes, OpType DEF PlacesFor, Concerns, TypeOK
<1>3. <<i, p>> \in Passed(x)
  BY <1>1, <1>2 DEF Passed, Earlier
<1>4. CASE o.op = "LOCAL_COPY"
  <2> DEFINE from == <<k[1], o.from>>
  <2>1. o.from \in Chunk
    BY <1>2, <1>4, PlanAssumption
  <2>2. from \in Key
    BY <1>2, <2>1 DEF Key, Operation
  <2>3. p \in PlacesFor(Program[x], {"LOCAL_COPY"}, type, k)
    BY <1>4 DEF PlacesFor
  <2>4. /\ Carries(Template, NumDev, x, [o EXCEPT !.chunk = o.from], x, o)
        /\ \E q \in TaskPlaces(Program[x], type, from) : q < p
    BY <2>3, Ordered DEF CopiedAfterTask
  <2>5. Stage(x, k[2]) = Stage(x, o.from) + IF type = "F" THEN 1 ELSE -1
    BY <1>2, <2>4 DEF Carries, Stage, Operation
  <2>6. Stage(x, o.from) \in Int
    BY <2>1, StageEnds
  <2>7. PICK q \in TaskPlaces(Program[x], type, from) : q < p
    BY <2>4
  <2>8. q \in DOMAIN Program[x] /\ Program[x][q].type = type /\ Program[x][q].mb = k[1]
    BY DEF TaskPlaces, PlacesFor, Concerns
  <2>9. <<i, q>> \in Passed(x) /\ Effective(i, Program[x][q])
    BY <1>1, <1>2, <2>7, <2>8 DEF Passed, Earlier, Effective
  <2>10. Dataflow!TaskOf(i, type, k[1], Stage(x, o.from)) \in Computed
    BY <2>9, PassedComputed
  <2> QED
    BY <2>5, <2>6, <2>10
<1>5. ASSUME NEW dir \in Dir, o.op = WaitRecvOp(dir)
      PROVE  Dataflow!TaskOf(i, type, k[1], Stage(x, k[2]) + IF type = "F" THEN -1 ELSE 1) \in Computed
  <2> DEFINE e == Peer(x, dir)
  <2>1. p \in Waits(x, dir)
    BY <1>2, <1>5 DEF Waits, PlacesOf
  <2>2. PICK s \in Sends(x, dir) : <<s, p>> \in Pairs(x, dir)
    BY <2>1, Matching
  <2>3. e \in Rank /\ Opposite(dir) \in Dir
    BY Neighbours
  <2>4. <<i, s>> \in Passed(e) /\ Effective(i, Program[e][s])
    <3>1. NoneInvented(x, dir)
      BY DEF Delivery, LinkInv
    <3>2. Effective(i, Program[e][s]) <=> Effective(i, Program[x][p])
      BY <2>2, SameEffect
    <3> QED
      BY <1>1, <1>2, <1>3, <2>2, <3>1, <3>2 DEF NoneInvented
  <2>5. /\ Program[e][s].op \in PostedSends
        /\ Carries(Template, NumDev, e, Program[e][s], x, o)
    BY <2>2, <2>3 DEF Sends, PlacesOf, PostSendOp, PostedSends, Pairs, Dir
  <2>6. TaskAt(e, <<i, s>>) \in Computed
    BY <2>3, <2>4, <2>5, SentComputed
  <2>7. Program[e][s].type = type /\ Program[e][s].mb = k[1]
        /\ Stage(x, k[2]) = Stage(e, Program[e][s].chunk) + IF type = "F" THEN 1 ELSE -1
    BY <1>2, <2>5 DEF Carries, Stage
  <2>8. Stage(e, Program[e][s].chunk) \in Int
    <3>1. Program[e][s] \in Operation
      BY <2>2, <2>3, ConstantTypes, PlaceTypes
    <3> QED
      BY <2>3, <3>1, StageEnds DEF Operation
  <2>9. TaskAt(e, <<i, s>>)
           = Dataflow!TaskOf(i, type, k[1], Stage(x, k[2]) + IF type = "F" THEN -1 ELSE 1)
    BY <2>7, <2>8 DEF TaskAt, Dataflow!TaskOf
  <2> QED
    BY <2>6, <2>9
<1> QED
  BY <1>2, <1>4, <1>5 DEF Deliveries, WaitRecvOp, Dir

-----------------------------------------------------------------------------
(* The task a rank computes is ready.                                      *)

Here(x) == <<iteration[x], pc[x]>>

\* It has not been computed, on any rank.
LEMMA TaskIsNew ==
    ASSUME TypeOK, PlansInOrder, NEW x \in Rank, Coming(x), Op(x).op = "COMPUTE"
    PROVE  TaskAt(x, Here(x)) \notin Computed
<1>1. SUFFICES ASSUME TaskAt(x, Here(x)) \in Computed PROVE FALSE
  OBVIOUS
<1>2. PICK d \in Rank : \E y \in Passed(d) : Computes(d, y) /\ TaskAt(x, Here(x)) = TaskAt(d, y)
  BY <1>1, InComputed
<1>3. PICK y \in Passed(d) : Computes(d, y) /\ TaskAt(x, Here(x)) = TaskAt(d, y)
  BY <1>2
<1>4. PICK i, p : y = <<i, p>> /\ p \in DOMAIN Program[d] /\ Earlier(i, p, iteration[d], pc[d])
  BY DEF Passed
<1> DEFINE o == Program[d][p]
<1>5. /\ o \in Operation /\ Op(x) \in Operation /\ Op(x) = Program[x][pc[x]]
      /\ pc[x] \in Int /\ iteration[x] \in Int
  <2>1. Running(x)
    BY DEF Coming
  <2>2. o \in Operation
    BY <1>4, ConstantTypes
  <2>3. iteration[x] \in Int
    BY <2>1, OpType
  <2> QED
    BY <2>1, <2>2, <2>3, OpType, OpPlace
<1>6. /\ i = iteration[x] /\ o.type = Op(x).type /\ o.mb = Op(x).mb
      /\ Stage(d, o.chunk) = Stage(x, Op(x).chunk) /\ o.op = "COMPUTE"
  <2>1. TaskAt(x, Here(x)) = [iter |-> iteration[x], type |-> Op(x).type, mb |-> Op(x).mb,
                              stage |-> Stage(x, Op(x).chunk)]
    BY <1>5 DEF TaskAt, Here
  <2>2. TaskAt(d, y) = [iter |-> i, type |-> o.type, mb |-> o.mb, stage |-> Stage(d, o.chunk)]
    BY <1>4 DEF TaskAt
  <2>3. o.op = "COMPUTE"
    BY <1>3, <1>4 DEF Computes
  <2> HIDE DEF o
  <2> PICK t : t = TaskAt(x, Here(x))
    OBVIOUS
  <2>4. /\ t.iter = iteration[x] /\ t.type = Op(x).type /\ t.mb = Op(x).mb
        /\ t.stage = Stage(x, Op(x).chunk)
    BY <2>1
  <2>5. t.iter = i /\ t.type = o.type /\ t.mb = o.mb /\ t.stage = Stage(d, o.chunk)
    BY <1>3, <2>2
  <2> QED
    BY <2>3, <2>4, <2>5
<1>7. d = x /\ o.chunk = Op(x).chunk
  BY <1>5, <1>6, StageOnce DEF Operation
<1>8. p \in TaskPlaces(Program[x], Op(x).type, OpKey(x))
  BY <1>4, <1>6, <1>7 DEF TaskPlaces, PlacesFor, Concerns, OpKey
<1>9. p = pc[x]
  BY <1>8, AtTask
<1> QED
  BY <1>4, <1>5, <1>6, <1>7, <1>9 DEF Earlier

\* It is a task of the data flow.
LEMMA TaskIsThere ==
    ASSUME TypeOK, PlansInOrder, NEW x \in Rank, Coming(x), Op(x).op = "COMPUTE"
    PROVE  LET s == Stage(x, Op(x).chunk)
           IN  /\ iteration[x] \in 1 .. MaxIter /\ s \in 0 .. NumStages - 1
               /\ TaskAt(x, Here(x)) = Dataflow!TaskOf(iteration[x], Op(x).type, Op(x).mb, s)
               /\ TaskAt(x, Here(x)) \in Dataflow!TasksOfStage(iteration[x], s)
<1> DEFINE s == Stage(x, Op(x).chunk)
<1>1. /\ Op(x) \in Operation /\ iteration[x] \in 1 .. MaxIter /\ Op(x) = Program[x][pc[x]]
      /\ Op(x).type \in {"F", "B", "W"}
  BY OpType, OpPlace DEF Coming, Operation
<1>2. s \in 0 .. NumStages - 1 /\ Op(x).chunk \in Chunk
  BY <1>1, StageEnds DEF Operation
<1>3. TaskAt(x, Here(x)) = Dataflow!TaskOf(iteration[x], Op(x).type, Op(x).mb, s)
  BY <1>1 DEF TaskAt, Here, Dataflow!TaskOf
<1>4. Op(x).mb \in 0 .. NumMb - 1 /\ NumMb \in Nat /\ EvalMb \in Nat
  BY <1>1, SizeAssumption DEF Operation, Mb
<1>5. Op(x).type = "F" => Op(x).mb \in 0 .. (IF Trains(iteration[x]) THEN NumMb ELSE EvalMb) - 1
  BY <1>4 DEF Coming, Effective, Trains
<1>6. Op(x).type # "F" => Trains(iteration[x])
  BY AtTask DEF Training, Trains
<1>7. Op(x).type = "W" => SplitsStage(s)
  BY <1>2, AtTask DEF SplitsStage
<1>8. Dataflow!TaskOf(iteration[x], Op(x).type, Op(x).mb, s) \in Dataflow!TasksOfStage(iteration[x], s)
  <2> HIDE DEF s
  <2>1. CASE Op(x).type = "F"
    BY <1>5, <2>1 DEF Dataflow!TasksOfStage
  <2>2. CASE Op(x).type = "B"
    BY <1>4, <1>6, <2>2 DEF Dataflow!TasksOfStage
  <2>3. CASE Op(x).type = "W"
    BY <1>4, <1>6, <1>7, <2>3 DEF Dataflow!TasksOfStage
  <2> QED
    BY <1>1, <2>1, <2>2, <2>3
<1> QED
  BY <1>1, <1>2, <1>3, <1>8

\* Its inputs have been computed.
LEMMA InputsThere ==
    ASSUME TypeOK, PlansMatch, PlansInOrder, Delivery,
           NEW x \in Rank, Coming(x), Op(x).op = "COMPUTE"
    PROVE  Dataflow!Inputs(TaskAt(x, Here(x))) \subseteq Computed
<1> DEFINE i == iteration[x]  k == OpKey(x)  s == Stage(x, k[2])
           of(type, r) == Dataflow!TaskOf(i, type, k[1], r)
<1> PICK t : t = TaskAt(x, Here(x))
  OBVIOUS
<1>1. /\ k \in Key /\ k[1] = Op(x).mb /\ k[2] = Op(x).chunk /\ Running(x)
      /\ pc[x] \in Int /\ DOMAIN Program[x] \subseteq Int
  BY OpPlace DEF Coming
<1>2. t.iter = i /\ t.type = Op(x).type /\ t.mb = k[1] /\ t.stage = s
  <2>1. t = Dataflow!TaskOf(i, Op(x).type, Op(x).mb, Stage(x, Op(x).chunk))
    BY TaskIsThere
  <2>2. t = [iter |-> i, type |-> Op(x).type, mb |-> Op(x).mb, stage |-> Stage(x, Op(x).chunk)]
    BY <2>1 DEF Dataflow!TaskOf
  <2> QED
    BY <1>1, <2>2
<1>3. ASSUME NEW type, RanTask(x, type, k) PROVE of(type, s) \in Computed
  BY <1>1, <1>3, RanComputed
<1>4. CASE Op(x).type = "F"
  <2>1. Stage(x, k[2]) = 0 \/ of("F", Stage(x, k[2]) + -1) \in Computed
    BY <1>1, <1>4, AtForward, DeliveredComputed
  <2>2. s \in Int
    BY <1>1, StageEnds DEF Key
  <2>3. s = 0 \/ of("F", s - 1) \in Computed
    BY <2>1, <2>2
  <2>4. Dataflow!Inputs(t) = IF s = 0 THEN {} ELSE {of("F", s - 1)}
    BY <1>2, <1>4 DEF Dataflow!Inputs
  <2> QED
    BY <2>3, <2>4
<1>5. CASE Op(x).type = "B"
  <2>1. RanTask(x, "F", k) /\ (s = NumStages - 1 \/ of("B", s + 1) \in Computed)
    BY <1>1, <1>5, AtBackward, DeliveredComputed
  <2>2. of("F", s) \in Computed
    BY <1>3, <2>1
  <2>3. Dataflow!Inputs(t) = {of("F", s)} \cup IF s = NumStages - 1 THEN {} ELSE {of("B", s + 1)}
    BY <1>2, <1>5 DEF Dataflow!Inputs
  <2> QED
    BY <2>1, <2>2, <2>3
<1>6. CASE Op(x).type = "W"
  <2>1. TaskPlaces(Program[x], "W", k) = {pc[x]}
    BY <1>6, AtTask
  <2>2. PICK p \in TaskPlaces(Program[x], "B", k) : p < pc[x]
    BY <1>1, <2>1, Ordered DEF InputsFirst
  <2>3. RanTask(x, "B", k)
    BY <1>1, <1>6, <2>2, RunBefore DEF RanTask, TaskPlaces
  <2>4. of("B", s) \in Computed
    BY <1>3, <2>3
  <2>5. Dataflow!Inputs(t) = {of("B", s)}
    BY <1>2, <1>6 DEF Dataflow!Inputs
  <2> QED
    BY <2>4, <2>5
<1> QED
  BY <1>4, <1>5, <1>6, AtTask DEF FinalType

\* Every task of its stage in an earlier iteration has been computed.
LEMMA EarlierThere ==
    ASSUME TypeOK, PlansInOrder, NEW x \in Rank, Coming(x), Op(x).op = "COMPUTE"
    PROVE  Dataflow!Earlier(TaskAt(x, Here(x))) \subseteq Computed
<1> DEFINE c == Op(x).chunk  s == Stage(x, c)
<1>1. /\ c \in Chunk /\ iteration[x] \in 1 .. MaxIter /\ MaxIter \in Nat
  BY OpType, ConstantTypes DEF Coming, Operation
<1>2. ASSUME NEW i \in 1 .. iteration[x] - 1, NEW t \in Dataflow!TasksOfStage(i, s)
      PROVE  t \in Computed
  <2>1. PICK type \in {"F", "B", "W"}, mb \in 0 .. NumMb - 1 :
           /\ t = Dataflow!TaskOf(i, type, mb, s)
           /\ type \in {"F", "B"} \/ (type = "W" /\ SplitsStage(s))
           /\ Trains(i) \/ (type = "F" /\ mb < EvalMb)
    <3>1. EvalMb \in 0 .. NumMb /\ NumMb \in Nat
      BY SizeAssumption
    <3> HIDE DEF s
    <3>2. CASE ~Trains(i)
      <4>1. PICK mb \in 0 .. EvalMb - 1 : t = Dataflow!TaskOf(i, "F", mb, s)
        BY <1>2, <3>2 DEF Dataflow!TasksOfStage
      <4>2. mb \in 0 .. NumMb - 1 /\ mb < EvalMb
        BY <3>1
      <4> QED
        BY <4>1, <4>2
    <3>3. CASE Trains(i)
      <4>1. PICK type \in {"F", "B"} \cup (IF SplitsStage(s) THEN {"W"} ELSE {}), mb \in 0 .. NumMb - 1 :
               t = Dataflow!TaskOf(i, type, mb, s)
        BY <1>2, <3>3 DEF Dataflow!TasksOfStage
      <4>2. type \in {"F", "B"} \/ (type = "W" /\ SplitsStage(s))
        BY <4>1
      <4> QED
        BY <3>3, <4>1, <4>2
    <3> QED
      BY <3>2, <3>3
  <2>2. type \in {"F", "B", FinalType(x)}
    <3>1. CASE type = "W"
      <4>1. PICK d \in Rank, b \in Chunk : Stage(d, b) = s /\ WgradSplit(d)
        BY <2>1, <3>1 DEF SplitsStage
      <4>2. d = x
        BY <1>1, <4>1, StageOnce
      <4> QED
        BY <3>1, <4>1, <4>2 DEF FinalType
    <3> QED
      BY <2>1, <3>1
  <2> DEFINE k == <<mb, c>>
  <2>3. k \in Key
    BY <1>1 DEF Key, Mb
  <2>4. PICK p \in DOMAIN Program[x] : TaskPlaces(Program[x], type, k) = {p}
    BY <2>2, <2>3, OnlyPlace
  <2>5. Effective(i, Program[x][p])
    <3>1. Program[x][p].type = type /\ Program[x][p].mb = mb
      BY <2>4 DEF TaskPlaces, PlacesFor, Concerns
    <3> QED
      BY <2>1, <3>1 DEF Effective, Trains
  <2>6. <<i, p>> \in Passed(x)
    BY <1>1 DEF Passed, Earlier
  <2>7. Dataflow!TaskOf(i, type, mb, s) \in Computed
    BY <2>4, <2>5, <2>6, PassedComputed
  <2> QED
    BY <2>1, <2>7
<1>3. Dataflow!Earlier(TaskAt(x, Here(x))) = UNION {Dataflow!TasksOfStage(i, s) : i \in 1 .. iteration[x] - 1}
  <2>1. TaskAt(x, Here(x)).iter = iteration[x] /\ TaskAt(x, Here(x)).stage = s
    BY TaskIsThere DEF Dataflow!TaskOf
  <2> HIDE DEF s
  <2> QED
    BY <2>1 DEF Dataflow!Earlier
<1> HIDE DEF s
<1> QED
  BY <1>2, <1>3

-----------------------------------------------------------------------------
(* The refinement.                                                         *)

LEMMA DataflowInit == Init => Dataflow!Init
<1> SUFFICES ASSUME Init PROVE Computed = {}
  BY DEF Dataflow!Init
<1>1. TypeOK
  BY TypeInit
<1>2. ASSUME NEW d \in Rank PROVE Passed(d) = {}
  <2>1. iteration[d] = 1 /\ pc[d] = 0 /\ DOMAIN Program[d] \subseteq Nat
    BY ConstantTypes DEF Init
  <2> QED
    BY <2>1 DEF Passed, Earlier
<1>3. \A t : t \notin Computed
  BY <1>1, <1>2, InComputed
<1> QED
  BY <1>3

LEMMA DataflowStep ==
    TypeOK /\ PlansMatch /\ PlansInOrder /\ Delivery /\ [Next]_vars => [Dataflow!Next]_Computed
<1> SUFFICES ASSUME TypeOK, PlansMatch, PlansInOrder, Delivery, [Next]_vars
             PROVE  Dataflow!Next \/ Computed' = Computed
  OBVIOUS
<1>1. TypeOK'
  BY TypeStep
<1>2. CASE UNCHANGED vars
  BY <1>2 DEF vars, Computed, ComputedIn, Effective, Stage
<1>3. ASSUME NEW x \in Rank, Step(x) PROVE Dataflow!Next \/ Computed' = Computed
  <2>1. CASE StartIteration(x) \/ FinishIteration(x)
    BY <1>1, <2>1, ComputedIteration
  <2>2. CASE Running(x) /\ Advance(x)
    <3>1. CASE ~(Coming(x) /\ Op(x).op = "COMPUTE")
      BY <1>1, <2>2, <3>1, ComputedAdvance
    <3>2. CASE Coming(x) /\ Op(x).op = "COMPUTE"
      <4> DEFINE s == Stage(x, Op(x).chunk)
      <4> PICK t : t = TaskAt(x, Here(x))
        OBVIOUS
      <4>1. /\ iteration[x] \in 1 .. MaxIter /\ s \in 0 .. NumStages - 1
            /\ t \in Dataflow!TasksOfStage(iteration[x], s)
        BY <3>2, TaskIsThere
      <4>2. t \notin Computed /\ Dataflow!Inputs(t) \subseteq Computed
            /\ Dataflow!Earlier(t) \subseteq Computed
        BY <3>2, TaskIsNew, InputsThere, EarlierThere
      <4>3. Computed' = Computed \cup {t}
        BY <1>1, <2>2, <3>2, ComputedAdvance DEF Here
      <4> HIDE DEF s
      <4>4. Dataflow!Compute(t)
        BY <4>2, <4>3 DEF Dataflow!Compute, Dataflow!Ready
      <4> QED
        BY <4>1, <4>4 DEF Dataflow!Next
    <3> QED
      BY <3>1, <3>2
  <2>3. StartIteration(x) \/ FinishIteration(x) \/ (Running(x) /\ Advance(x))
    BY <1>3 DEF Step, LocalCopy, PostSend, PostRecv, WaitRecv, ForwardStep, BackwardStep, WGradStep,
                Deallocate, Skip, At
  <2> QED
    BY <2>1, <2>2, <2>3
<1> QED
  BY <1>2, <1>3 DEF Next, Terminated

\* If the plans of neighbours agree and each is in order, every step of the
\* ranks computes, in the data flow of the model, one task whose inputs and
\* whose stage's earlier iterations are done, or none; no task is ever
\* computed twice: the safety part of DataflowSpec.
THEOREM ImplementsDataflow ==
    ASSUME PlansMatch, PlansInOrder
    PROVE  Spec => Dataflow!Init /\ [][Dataflow!Next]_Computed
<1>1. Spec => [](TypeOK /\ Delivery) /\ [][Next]_vars /\ Init
  BY TensorInvariant, PTL DEF Spec
<1>2. TypeOK /\ Delivery /\ [Next]_vars => [Dataflow!Next]_Computed
  BY DataflowStep
<1> QED
  BY <1>1, <1>2, DataflowInit, PTL
=============================================================================
