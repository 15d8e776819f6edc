----------------------- MODULE PipelineTensors_proofs -----------------------
(***************************************************************************)
(* Every buffer holds the tensor of its key: if the plans of neighbouring  *)
(* ranks agree and each is in order by itself (PlansInOrder), no transfer, *)
(* local copy or earlier iteration leaves the activation or gradient of    *)
(* another microbatch, chunk or iteration in a buffer, and nothing takes a *)
(* released buffer again; and no buffer keeps an activation longer than    *)
(* from its forward to its backward.                                       *)
(***************************************************************************)
EXTENDS PipelineRuntime_proofs, FiniteSetTheorems, WellFoundedInduction

\* The plan of every rank is in order by itself; a wave is two chunks.
PlansInOrder ==
    /\ Template = "wave" => NumChunks = 2
    /\ \A d \in Rank : PlanInOrder(Template, NumDev, NumChunks, NumMb, d, Program[d])

\* The plans of a one-forward-one-backward schedule: the warm-up of rank d is
\* NumDev - d - 1 forwards.
PlansAlternate ==
    /\ NumChunks = 1
    /\ \A d \in Rank : Alternates(Program[d], NumMb, NumDev - d)

-----------------------------------------------------------------------------
(* What a rank has run.                                                    *)

\* The places of the plan that rank d has run in its iteration.
Ran(d) == {p \in DOMAIN Program[d] : p < pc[d] /\ Effective(iteration[d], Program[d][p])}

\* It has run one of ops for a task of type on key k.
RanOne(d, ops, type, k) == \E p \in PlacesFor(Program[d], ops, type, k) : p \in Ran(d)
RanTask(d, type, k) == RanOne(d, {"COMPUTE"}, type, k)

\* Rank x runs one of ops for a task of type on key k.
Runs(x, ops, type, k) ==
    Effective(iteration[x], Op(x)) /\ Op(x).op \in ops /\ Concerns(Op(x), type, k)

LEMMA RanAdvance ==
    ASSUME TypeOK, NEW x \in Rank, Running(x), Advance(x), NEW d \in Rank
    PROVE  /\ iteration'[d] = iteration[d]
           /\ \A ops, type, k : RanOne(d, ops, type, k)'
                 <=> RanOne(d, ops, type, k) \/ (d = x /\ Runs(x, ops, type, k))
<1>1. iteration[x] \in 1 .. MaxIter /\ pc[x] \in DOMAIN Program[x] /\ Op(x) = Program[x][pc[x]]
  BY OpType, ConstantTypes DEF Op
<1>2. iteration' = iteration /\ pc'[x] = pc[x] + 1 /\ (d # x => pc'[d] = pc[d])
  BY DEF Advance, TypeOK
<1>3. CASE d # x
  <2>1. Ran(d)' = Ran(d)
    BY <1>2, <1>3 DEF Ran
  <2> QED
    BY <1>2, <1>3, <2>1 DEF RanOne
<1>4. CASE d = x
  <2>1. \A p \in DOMAIN Program[x] : p < pc[x] + 1 <=> p < pc[x] \/ p = pc[x]
    <3>1. DOMAIN Program[x] \subseteq Int
      BY ConstantTypes
    <3> QED
      BY <1>1, <3>1
  <2>2. \A p : p \in Ran(x)' <=>
           p \in Ran(x) \/ (p = pc[x] /\ Effective(iteration[x], Program[x][pc[x]]))
    BY <1>1, <1>2, <1>4, <2>1 DEF Ran
  <2>3. ASSUME NEW ops, NEW type, NEW k
        PROVE  pc[x] \in PlacesFor(Program[x], ops, type, k)
                  <=> Op(x).op \in ops /\ Concerns(Op(x), type, k)
    BY <1>1 DEF PlacesFor
  <2>4. ASSUME NEW ops, NEW type, NEW k
        PROVE  RanOne(x, ops, type, k)' <=> RanOne(x, ops, type, k) \/ Runs(x, ops, type, k)
    BY <1>1, <2>2, <2>3 DEF RanOne, Runs
  <2> QED
    BY <1>2, <1>4, <2>4
<1> QED
  BY <1>3, <1>4

\* Between iterations nothing has been run.
LEMMA RanIteration ==
    ASSUME TypeOK, NEW x \in Rank, StartIteration(x) \/ FinishIteration(x), NEW d \in Rank,
           NEW ops, NEW type, NEW k
    PROVE  /\ d # x => iteration'[d] = iteration[d]
           /\ RanOne(d, ops, type, k)' <=> d # x /\ RanOne(d, ops, type, k)
           /\ StartIteration(x) => iteration' = iteration /\ ~RanOne(x, ops, type, k)
<1>1. DOMAIN Program[d] \subseteq Nat \ {0} /\ DOMAIN Program[x] \subseteq Nat \ {0}
  BY ConstantTypes
<1>2. CASE d # x
  <2>1. iteration'[d] = iteration[d] /\ pc'[d] = pc[d]
    BY <1>2 DEF StartIteration, FinishIteration, TypeOK
  <2>2. Ran(d)' = Ran(d)
    BY <2>1 DEF Ran
  <2> QED
    BY <1>2, <2>1, <2>2, <1>1 DEF RanOne, Ran, StartIteration
<1>3. CASE d = x
  <2>1. pc'[x] \in {0, 1}
    BY DEF StartIteration, FinishIteration, TypeOK
  <2>2. Ran(x)' = {}
    BY <1>1, <2>1 DEF Ran
  <2>3. StartIteration(x) => iteration' = iteration /\ Ran(x) = {}
    BY <1>1 DEF Ran, StartIteration
  <2> QED
    BY <1>3, <2>2, <2>3 DEF RanOne
<1> QED
  BY <1>2, <1>3
-----------------------------------------------------------------------------
(* What has been run when a rank comes to an operation.                    *)

Coming(x) == Running(x) /\ Effective(iteration[x], Op(x))

\* An operation before it that is as effective has been run.
LEMMA RunBefore ==
    ASSUME TypeOK, NEW x \in Rank, Coming(x), NEW ops, NEW type, NEW k,
           k[1] = Op(x).mb, type = "F" \/ Op(x).type # "F",
           NEW q \in PlacesFor(Program[x], ops, type, k), q < pc[x]
    PROVE  RanOne(x, ops, type, k)
<1>1. q \in DOMAIN Program[x] /\ Program[x][q].type = type /\ Program[x][q].mb = Op(x).mb
  BY DEF PlacesFor, Concerns
<1>2. Effective(iteration[x], Program[x][q])
  BY <1>1 DEF Effective, Coming
<1> QED
  BY <1>1, <1>2 DEF RanOne, Ran

\* An operation that does not come before it has not.
LEMMA NotRunAfter ==
    ASSUME NEW x \in Rank, NEW ops, NEW type, NEW k,
           \A q \in PlacesFor(Program[x], ops, type, k) : ~(q < pc[x])
    PROVE  ~RanOne(x, ops, type, k)
BY DEF RanOne, Ran

LEMMA OpPlace ==
    ASSUME TypeOK, NEW x \in Rank, Running(x)
    PROVE  /\ pc[x] \in DOMAIN Program[x] /\ Op(x) = Program[x][pc[x]] /\ pc[x] \in Int
           /\ DOMAIN Program[x] \subseteq Int
           /\ OpKey(x) \in Key /\ OpKey(x)[1] = Op(x).mb /\ OpKey(x)[2] = Op(x).chunk
           /\ \A ops, type, k : Op(x).op \in ops /\ Concerns(Op(x), type, k)
                 => pc[x] \in PlacesFor(Program[x], ops, type, k)
           /\ Concerns(Op(x), Op(x).type, OpKey(x))
           /\ \A type : \A k \in Key : Concerns(Op(x), type, k) => k = OpKey(x) /\ type = Op(x).type
<1>1. pc[x] \in DOMAIN Program[x] /\ Op(x) = Program[x][pc[x]] /\ pc[x] \in Int
      /\ DOMAIN Program[x] \subseteq Int /\ OpKey(x) \in Key
  BY OpType, ConstantTypes DEF Op
<1>2. OpKey(x)[1] = Op(x).mb /\ OpKey(x)[2] = Op(x).chunk
  BY DEF OpKey
<1>3. \A type : \A k \in Key : Concerns(Op(x), type, k) => k = OpKey(x) /\ type = Op(x).type
  BY DEF OpKey, Concerns, Key
<1> QED
  BY <1>1, <1>2, <1>3 DEF PlacesFor, Concerns

LEMMA Ordered ==
    ASSUME PlansInOrder, NEW d \in Rank
    PROVE  /\ \A p \in DOMAIN Program[d] :
                 Program[d][p].op \in Communication => Program[d][p].type \in {"F", "B"}
           /\ TasksOnce(Program[d], Key)
           /\ InputsFirst(Template, NumDev, NumChunks, d, Program[d], Key)
           /\ SentAfterTask(Program[d], Key)
           /\ CopiedAfterTask(Template, NumDev, d, Program[d], Key)
           /\ ReleasedLast(Program[d], Key)
           /\ WgradsInOrder(Program[d], Key)
           /\ LastMicrobatchLast(Program[d], NumMb, Key)
BY DEF PlansInOrder, PlanInOrder, Key, Mb, Chunk

\* At a task its inputs are there, and nothing has released them.
LEMMA AtForward ==
    ASSUME TypeOK, PlansInOrder, NEW x \in Rank, Coming(x), Op(x).op = "COMPUTE", Op(x).type = "F"
    PROVE  /\ Stage(x, Op(x).chunk) = 0 \/ RanOne(x, Deliveries, "F", OpKey(x))
           /\ ~RanTask(x, "B", OpKey(x))
<1> DEFINE k == OpKey(x)  p == pc[x]
<1>1. p \in TaskPlaces(Program[x], "F", k) /\ k \in Key /\ k[2] = Op(x).chunk /\ k[1] = Op(x).mb
      /\ p \in Int
  BY OpPlace DEF TaskPlaces, Coming
<1>2. Stage(x, Op(x).chunk) = 0 \/ \E q \in PlacesFor(Program[x], Deliveries, "F", k) : q < p
  BY <1>1, Ordered DEF InputsFirst, Stage
<1>3. Stage(x, Op(x).chunk) = 0 \/ RanOne(x, Deliveries, "F", k)
  BY <1>1, <1>2, RunBefore
<1>4. \A q \in TaskPlaces(Program[x], "B", k) : ~(q < p)
  <2>1. TaskPlaces(Program[x], "F", k) = {p}
    BY <1>1, Ordered DEF TasksOnce, TaskTypes
  <2>2. \A q \in TaskPlaces(Program[x], "B", k) : \E v \in TaskPlaces(Program[x], "F", k) : v < q
    BY <1>1, Ordered DEF InputsFirst
  <2>3. \A q \in TaskPlaces(Program[x], "B", k) : q \in Int
    BY OpPlace DEF TaskPlaces, PlacesFor, Coming
  <2> QED
    BY <1>1, <2>1, <2>2, <2>3
<1>5. ~RanTask(x, "B", k)
  BY <1>4, NotRunAfter DEF RanTask, TaskPlaces
<1> QED
  BY <1>3, <1>5

LEMMA AtBackward ==
    ASSUME TypeOK, PlansInOrder, NEW x \in Rank, Coming(x), Op(x).op = "COMPUTE", Op(x).type = "B"
    PROVE  /\ RanTask(x, "F", OpKey(x)) /\ ~RanTask(x, "B", OpKey(x))
           /\ Stage(x, Op(x).chunk) = 0 \/ RanOne(x, Deliveries, "F", OpKey(x))
           /\ Stage(x, Op(x).chunk) = NumStages - 1 \/ RanOne(x, Deliveries, "B", OpKey(x))
<1> DEFINE k == OpKey(x)  p == pc[x]
<1>1. p \in TaskPlaces(Program[x], "B", k) /\ k \in Key /\ k[2] = Op(x).chunk /\ k[1] = Op(x).mb
      /\ p \in Int /\ DOMAIN Program[x] \subseteq Int
  BY OpPlace DEF TaskPlaces, Coming
<1>2. PICK v \in TaskPlaces(Program[x], "F", k) : v < p
  BY <1>1, Ordered DEF InputsFirst
<1>3. RanTask(x, "F", k)
  BY <1>1, <1>2, RunBefore DEF RanTask, TaskPlaces
<1>4. Stage(x, Op(x).chunk) = 0 \/ \E q \in PlacesFor(Program[x], Deliveries, "F", k) : q < v
  BY <1>1, Ordered DEF InputsFirst, Stage
<1>5. Stage(x, Op(x).chunk) = 0 \/ \E q \in PlacesFor(Program[x], Deliveries, "F", k) : q < p
  <2>1. v \in Int /\ \A q \in PlacesFor(Program[x], Deliveries, "F", k) : q \in Int
    BY <1>1 DEF TaskPlaces, PlacesFor
  <2> QED
    BY <1>1, <1>2, <1>4, <2>1
<1>6. Stage(x, Op(x).chunk) = 0 \/ RanOne(x, Deliveries, "F", k)
  BY <1>1, <1>5, RunBefore
<1>7. Stage(x, Op(x).chunk) = NumStages - 1
         \/ \E q \in PlacesFor(Program[x], Deliveries, "B", k) : q < p
  BY <1>1, Ordered DEF InputsFirst, Stage, NumStages
<1>8. Stage(x, Op(x).chunk) = NumStages - 1 \/ RanOne(x, Deliveries, "B", k)
  BY <1>1, <1>7, RunBefore
<1>9. \A q \in TaskPlaces(Program[x], "B", k) : ~(q < p)
  <2>1. TaskPlaces(Program[x], "B", k) = {p}
    BY <1>1, Ordered DEF TasksOnce, TaskTypes
  <2> QED
    BY <1>1, <2>1
<1>10. ~RanTask(x, "B", k)
  BY <1>9, NotRunAfter DEF RanTask, TaskPlaces
<1> QED
  BY <1>3, <1>6, <1>8, <1>10

\* At a send its task has been run; the activation has not been released, the
\* gradient not been sent.
LEMMA AtSend ==
    ASSUME TypeOK, PlansInOrder, NEW x \in Rank, Coming(x), Op(x).op \in PostedSends
    PROVE  /\ RanTask(x, Op(x).type, OpKey(x))
           /\ Op(x).type = "B" => ~RanOne(x, PostedSends, "B", OpKey(x))
<1> DEFINE k == OpKey(x)  p == pc[x]  T == Op(x).type
<1>1. p \in PlacesFor(Program[x], PostedSends, T, k) /\ k \in Key /\ k[1] = Op(x).mb
      /\ p \in Int /\ T \in {"F", "B"}
  BY OpPlace, Ordered DEF Coming, Communication
<1>2. /\ \E q \in TaskPlaces(Program[x], T, k) : q < p
      /\ T = "B" => PlacesFor(Program[x], PostedSends, T, k) = {p}
  BY <1>1, Ordered DEF SentAfterTask
<1>3. RanTask(x, T, k)
  BY <1>1, <1>2, RunBefore DEF RanTask, TaskPlaces
<1>4. T = "B" => ~RanOne(x, PostedSends, "B", k)
  BY <1>1, <1>2, NotRunAfter
<1> QED
  BY <1>3, <1>4

\* At a communication event of a forward its backward has not been run.
LEMMA AtEvent ==
    ASSUME TypeOK, PlansInOrder, NEW x \in Rank, Coming(x), Op(x).op \in Communication
    PROVE  /\ Op(x).type \in {"F", "B"}
           /\ Op(x).type = "F" => ~RanTask(x, "B", OpKey(x))
<1> DEFINE k == OpKey(x)  p == pc[x]
<1>1. k \in Key /\ p \in Int /\ DOMAIN Program[x] \subseteq Int /\ Op(x).type \in {"F", "B"}
  BY OpPlace, Ordered DEF Coming
<1>2. ASSUME Op(x).type = "F" PROVE ~RanTask(x, "B", k)
  <2>1. p \in PlacesFor(Program[x], Communication, "F", k)
    BY <1>2, OpPlace DEF Coming
  <2>2. \A q \in TaskPlaces(Program[x], "B", k) : q \in Int /\ p < q
    BY <1>1, <2>1, Ordered DEF ReleasedLast, TaskPlaces, PlacesFor
  <2> QED
    BY <1>1, <2>2, NotRunAfter DEF RanTask, TaskPlaces
<1> QED
  BY <1>1, <1>2

\* At a local copy its source has been computed and is still there.
LEMMA AtCopy ==
    ASSUME TypeOK, PlansInOrder, NEW x \in Rank, Coming(x), Op(x).op = "LOCAL_COPY"
    PROVE  LET from == <<Op(x).mb, Op(x).from>>
           IN  /\ Stage(x, Op(x).chunk) = Stage(x, Op(x).from) + IF Op(x).type = "F" THEN 1 ELSE -1
               /\ RanTask(x, Op(x).type, from)
               /\ Op(x).type = "F" => ~RanTask(x, "B", from)
               /\ Op(x).type = "B" => ~RanOne(x, PostedSends, "B", from)
<1> DEFINE k == OpKey(x)  p == pc[x]  T == Op(x).type  from == <<Op(x).mb, Op(x).from>>
<1>1. p \in PlacesFor(Program[x], {"LOCAL_COPY"}, T, k) /\ k \in Key /\ k[1] = Op(x).mb
      /\ p \in Int /\ T \in {"F", "B"} /\ Program[x][p] = Op(x) /\ k[2] = Op(x).chunk
      /\ DOMAIN Program[x] \subseteq Int
  BY OpPlace, Ordered DEF Coming, Communication, Deliveries
<1>2. /\ Carries(Template, NumDev, x, [Op(x) EXCEPT !.chunk = Op(x).from], x, Op(x))
      /\ \E q \in TaskPlaces(Program[x], T, from) : q < p
      /\ T = "F" => \A q \in TaskPlaces(Program[x], "B", from) : p < q
      /\ T = "B" => PlacesFor(Program[x], PostedSends, "B", from) = {}
  BY <1>1, Ordered DEF CopiedAfterTask
<1>3. Stage(x, Op(x).chunk) = Stage(x, Op(x).from) + IF T = "F" THEN 1 ELSE -1
  <2>1. Op(x) \in Operation
    BY OpType DEF Coming
  <2> QED
    BY <1>2, <2>1 DEF Carries, Stage, Operation
<1>4. RanTask(x, T, from)
  BY <1>1, <1>2, RunBefore DEF RanTask, TaskPlaces
<1>5. ASSUME T = "F" PROVE ~RanTask(x, "B", from)
  <2>1. \A q \in TaskPlaces(Program[x], "B", from) : q \in Int /\ p < q
    BY <1>1, <1>2, <1>5 DEF TaskPlaces, PlacesFor
  <2> QED
    BY <1>1, <2>1, NotRunAfter DEF RanTask, TaskPlaces
<1>6. T = "B" => ~RanOne(x, PostedSends, "B", from)
  BY <1>2, NotRunAfter
<1> QED
  BY <1>3, <1>4, <1>5, <1>6
-----------------------------------------------------------------------------
(* Stages and tensors.                                                     *)

LEMMA Multiples ==
    ASSUME NEW c \in Nat, NEW n \in Nat, NEW D \in Nat, c < n
    PROVE  /\ c * D \in Nat /\ n * D \in Nat
           /\ (c * D) + D <= n * D
           /\ c * D = 0 => c = 0 \/ D = 0
           /\ c + 1 < n /\ D > 0 => (c * D) + D < n * D
<1>1. c * D \in Nat /\ n * D \in Nat
  OBVIOUS
<1>2. (n - (c + 1)) * D \in Nat /\ (n - (c + 1)) * D = (n * D) - ((c * D) + D)
  OBVIOUS
<1>3. c * D = 0 => c = 0 \/ D = 0
  OBVIOUS
<1>4. c + 1 < n /\ D > 0 => (n - (c + 1)) * D > 0
  OBVIOUS
<1> QED
  BY <1>1, <1>2, <1>3, <1>4

LEMMA StageEnds ==
    ASSUME PlansInOrder, NEW d \in Rank, NEW c \in Chunk
    PROVE  /\ Stage(d, c) \in 0 .. NumStages - 1
           /\ FirstStage(d, c) <=> Stage(d, c) = 0
           /\ LastStage(d, c) <=> Stage(d, c) = NumStages - 1
<1>1. NumDev \in Nat /\ NumDev > 0 /\ d \in 0 .. NumDev - 1
      /\ NumChunks \in Nat /\ c \in Nat /\ c < NumChunks
  BY ConstantTypes DEF Rank, Chunk
<1> DEFINE D == NumDev  m == c * D  n == NumChunks * D
           r == IF Template = "wave" /\ c % 2 = 1 THEN D - 1 - d ELSE d
<1>2. Stage(d, c) = m + r /\ NumStages = n
  BY DEF Stage, StageOf, NumStages
<1>3. m \in Nat /\ n \in Nat /\ m + D <= n /\ (m = 0 => c = 0) /\ (c + 1 < NumChunks => m + D < n)
  BY <1>1, Multiples
<1>4. c = 0 => m = 0
  BY <1>1
<1>5. c + 1 = NumChunks => m + D = n
  BY <1>1
<1>6. r \in 0 .. D - 1
  BY <1>1
<1>7. c = 0 => r = d
  BY <1>1
<1>8. c = NumChunks - 1 => (r = D - 1 <=> d = IF Template = "wave" THEN 0 ELSE D - 1)
  <2>1. CASE Template = "wave"
    <3>1. c = NumChunks - 1 => c = 1
      BY <2>1 DEF PlansInOrder
    <3> QED
      BY <1>1, <2>1, <3>1
  <2>2. CASE Template # "wave"
    BY <1>1, <2>2
  <2> QED
    BY <2>1, <2>2
<1> HIDE DEF r, m, n
<1>9. m + r \in 0 .. n - 1
  BY <1>1, <1>3, <1>6
<1>10. m + r = 0 <=> c = 0 /\ d = 0
  BY <1>1, <1>3, <1>4, <1>6, <1>7
<1>11. m + r = n - 1 <=> c = NumChunks - 1 /\ r = D - 1
  BY <1>1, <1>3, <1>5, <1>6
<1> QED
  BY <1>2, <1>8, <1>9, <1>10, <1>11 DEF FirstStage, LastStage

LEMMA TensorFacts ==
    /\ \A i, m, s : /\ Act(i, m, s) \notin {Absent, None} /\ GetOrSet(Act(i, m, s)) = Act(i, m, s)
                    /\ Grad(i, m, s) \notin {Absent, None} /\ GetOrSet(Grad(i, m, s)) = Grad(i, m, s)
    /\ \A t : GetOrSet(t) \notin {Absent, None}
    /\ \A t : t \notin {Absent, None} => GetOrSet(t) = t
    /\ \A right : /\ Holds(right, right) /\ Holds(Absent, right)
                  /\ Holds(None, right) /\ Holds(Empty, right)
    /\ \A t, right : Holds(t, right) => Holds(GetOrSet(t), right)
    /\ Absent # None
BY DEF Absent, None, Empty, Garbage, Bare, Act, Grad, GetOrSet, Holds

-----------------------------------------------------------------------------
(* The invariant.                                                          *)

InputOf(d, k) == Act(iteration[d], k[1], Stage(d, k[2]) - 1)
OutputOf(d, k) == Act(iteration[d], k[1], Stage(d, k[2]))
OutputGradOf(d, k) == Grad(iteration[d], k[1], Stage(d, k[2]) + 1)
InputGradOf(d, k) == Grad(iteration[d], k[1], Stage(d, k[2]))

\* Activations: what has been delivered or computed is there until the backward
\* releases it, and only then is a buffer None.
ActsInv(d, k) ==
    /\ Holds(input_tensors[d][k], InputOf(d, k))
    /\ Holds(output_tensors[d][k], OutputOf(d, k))
    /\ input_tensors[d][k] = None \/ output_tensors[d][k] = None => RanTask(d, "B", k)
    /\ RanOne(d, Deliveries, "F", k) /\ ~RanTask(d, "B", k) => input_tensors[d][k] = InputOf(d, k)
    /\ RanTask(d, "F", k) /\ ~RanTask(d, "B", k) => output_tensors[d][k] = OutputOf(d, k)

\* Gradients: the same; the gradient of an input is there until it has been sent.
GradsInv(d, k) ==
    /\ Holds(output_tensor_grads[d][k], OutputGradOf(d, k))
    /\ Holds(input_tensor_grads[d][k], InputGradOf(d, k))
    /\ RanOne(d, Deliveries, "B", k) /\ ~RanTask(d, "B", k)
          => output_tensor_grads[d][k] = OutputGradOf(d, k)
    /\ RanTask(d, "B", k) /\ ~FirstStage(d, k[2]) /\ ~RanOne(d, PostedSends, "B", k)
          => input_tensor_grads[d][k] = InputGradOf(d, k)

\* Deallocation drops only gradients that have been sent.
SendsInv(d) ==
    \A r \in send_reqs[d] : r[4] = "B" => RanOne(d, PostedSends, "B", <<r[2], r[3]>>)

\* A message holds the result of the task it was sent for.
ResultOf(d, i, o) ==
    IF o.type = "F" THEN Act(i, o.mb, Stage(d, o.chunk)) ELSE Grad(i, o.mb, Stage(d, o.chunk))

MessagesInv(e, dir) ==
    LET c == InTransit(e, dir)
    IN  \A j \in DOMAIN c :
            c[j].data = ResultOf(Peer(e, dir), c[j].iter, Program[Peer(e, dir)][c[j].at])

TensorInv ==
    /\ \A d \in Rank, k \in Key : ActsInv(d, k) /\ GradsInv(d, k)
    /\ \A d \in Rank : SendsInv(d)
    /\ \A e \in Rank, dir \in Dir : MessagesInv(e, dir)

LEMMA TensorInit == Init => TensorInv
<1> SUFFICES ASSUME Init PROVE TensorInv
  OBVIOUS
<1>1. ASSUME NEW d \in Rank, NEW ops, NEW type, NEW k PROVE ~RanOne(d, ops, type, k)
  BY ConstantTypes DEF Init, RanOne, Ran
<1>2. ASSUME NEW d \in Rank, NEW k \in Key PROVE ActsInv(d, k) /\ GradsInv(d, k)
  <2>1. /\ input_tensors[d][k] = Absent /\ output_tensors[d][k] = Absent
        /\ output_tensor_grads[d][k] = Absent /\ input_tensor_grads[d][k] = Absent
    BY DEF Init, NoTensors
  <2> QED
    BY <1>1, <2>1, TensorFacts DEF ActsInv, GradsInv, RanTask
<1>3. ASSUME NEW d \in Rank PROVE SendsInv(d)
  BY DEF Init, SendsInv
<1>4. ASSUME NEW e \in Rank, NEW dir \in Dir PROVE MessagesInv(e, dir)
  BY ChannelTypes DEF Init, MessagesInv, InTransit
<1> QED
  BY <1>2, <1>3, <1>4 DEF TensorInv
-----------------------------------------------------------------------------
(* Communication events.                                                   *)

\* An event changes the buffers of its own key only.
LEMMA BufferValues ==
    ASSUME TypeOK, NEW x \in Rank, Running(x), NEW t, Buffers(x, t), NEW d \in Rank, NEW k \in Key
    PROVE  LET here == d = x /\ k = OpKey(x)
           IN  /\ Op(x).type = "F" =>
                     /\ input_tensors'[d][k] = IF here THEN t ELSE input_tensors[d][k]
                     /\ output_tensors'[d][k] =
                           IF here THEN GetOrSet(output_tensors[d][k]) ELSE output_tensors[d][k]
                     /\ output_tensor_grads'[d][k] = output_tensor_grads[d][k]
                     /\ input_tensor_grads'[d][k] = input_tensor_grads[d][k]
               /\ Op(x).type # "F" =>
                     /\ output_tensor_grads'[d][k] = IF here THEN t ELSE output_tensor_grads[d][k]
                     /\ input_tensor_grads'[d][k] =
                           IF here THEN GetOrSet(input_tensor_grads[d][k])
                           ELSE input_tensor_grads[d][k]
                     /\ input_tensors'[d][k] = input_tensors[d][k]
                     /\ output_tensors'[d][k] = output_tensors[d][k]
<1>1. OpKey(x) \in Key
  BY OpType
<1>2. /\ input_tensors \in [Rank -> [Key -> Tensor]] /\ output_tensors \in [Rank -> [Key -> Tensor]]
      /\ output_tensor_grads \in [Rank -> [Key -> Tensor]]
      /\ input_tensor_grads \in [Rank -> [Key -> Tensor]]
  BY DEF TypeOK
<1>3. CASE Op(x).type = "F"
  BY <1>1, <1>2, <1>3 DEF Buffers, Allocated
<1>4. CASE Op(x).type # "F"
  BY <1>1, <1>2, <1>4 DEF Buffers, Allocated
<1> QED
  BY <1>3, <1>4

\* What a delivery brings.
Delivered(x) == IF Op(x).type = "F" THEN InputOf(x, OpKey(x)) ELSE OutputGradOf(x, OpKey(x))

\* An event that leaves the right tensor in its buffer, or what was there.
LEMMA EventStep ==
    ASSUME TypeOK, PlansInOrder, NEW x \in Rank, Coming(x), Advance(x),
           Op(x).op \in Communication, NEW t, Buffers(x, t),
           IF Op(x).op \in Deliveries THEN t = Delivered(x) ELSE t = RecvBuffer(x),
           NEW d \in Rank, NEW k \in Key, ActsInv(d, k), GradsInv(d, k)
    PROVE  ActsInv(d, k)' /\ GradsInv(d, k)'
<1> DEFINE here == d = x /\ k = OpKey(x)
<1>1. Running(x) /\ Effective(iteration[x], Op(x)) /\ Op(x).type \in {"F", "B"}
  BY AtEvent DEF Coming
<1>2. Op(x).op # "COMPUTE"
  BY DEF Communication, Deliveries, PostedSends
<1>3. /\ iteration'[d] = iteration[d]
      /\ \A type : RanTask(d, type, k)' <=> RanTask(d, type, k)
      /\ \A ops, type : RanOne(d, ops, type, k)'
            <=> RanOne(d, ops, type, k) \/ (d = x /\ Runs(x, ops, type, k))
  BY <1>1, <1>2, RanAdvance DEF RanTask, Runs
<1>4. /\ InputOf(d, k)' = InputOf(d, k) /\ OutputOf(d, k)' = OutputOf(d, k)
      /\ OutputGradOf(d, k)' = OutputGradOf(d, k) /\ InputGradOf(d, k)' = InputGradOf(d, k)
  BY <1>3 DEF InputOf, OutputOf, OutputGradOf, InputGradOf
<1>5. \A ops, type : d = x /\ Runs(x, ops, type, k)
         <=> here /\ Op(x).op \in ops /\ type = Op(x).type
  BY <1>1, OpPlace DEF Runs
<1>6. CASE ~here
  <2>1. /\ input_tensors'[d][k] = input_tensors[d][k] /\ output_tensors'[d][k] = output_tensors[d][k]
        /\ output_tensor_grads'[d][k] = output_tensor_grads[d][k]
        /\ input_tensor_grads'[d][k] = input_tensor_grads[d][k]
    BY <1>1, <1>6, BufferValues
  <2> QED
    BY <1>3, <1>4, <1>5, <1>6, <2>1 DEF ActsInv, GradsInv
<1>7. CASE here /\ Op(x).type = "F"
  <2>1. /\ input_tensors'[d][k] = t /\ output_tensors'[d][k] = GetOrSet(output_tensors[d][k])
        /\ output_tensor_grads'[d][k] = output_tensor_grads[d][k]
        /\ input_tensor_grads'[d][k] = input_tensor_grads[d][k]
    BY <1>1, <1>7, BufferValues
  <2>2. IF Op(x).op \in Deliveries THEN t = InputOf(d, k) ELSE t = GetOrSet(input_tensors[d][k])
    BY <1>7 DEF Delivered, RecvBuffer
  <2>3. GradsInv(d, k)'
    BY <1>3, <1>4, <1>5, <1>7, <2>1 DEF GradsInv
  <2>4. Holds(t, InputOf(d, k)) /\ Holds(GetOrSet(output_tensors[d][k]), OutputOf(d, k))
    BY <2>2, TensorFacts DEF ActsInv
  <2>5. t # None /\ GetOrSet(output_tensors[d][k]) # None
    BY <2>2, TensorFacts DEF InputOf
  <2>6. RanOne(d, Deliveries, "F", k)' /\ ~RanTask(d, "B", k) => t = InputOf(d, k)
    BY <1>3, <1>5, <2>2, TensorFacts DEF ActsInv, InputOf
  <2>7. RanTask(d, "F", k) /\ ~RanTask(d, "B", k)
            => GetOrSet(output_tensors[d][k]) = OutputOf(d, k)
    BY TensorFacts DEF ActsInv, OutputOf
  <2> QED
    BY <1>3, <1>4, <2>1, <2>3, <2>4, <2>5, <2>6, <2>7 DEF ActsInv
<1>8. CASE here /\ Op(x).type = "B"
  <2>1. /\ input_tensors'[d][k] = input_tensors[d][k] /\ output_tensors'[d][k] = output_tensors[d][k]
        /\ output_tensor_grads'[d][k] = t
        /\ input_tensor_grads'[d][k] = GetOrSet(input_tensor_grads[d][k])
    BY <1>1, <1>8, BufferValues
  <2>2. IF Op(x).op \in Deliveries THEN t = OutputGradOf(d, k)
        ELSE t = GetOrSet(output_tensor_grads[d][k])
    BY <1>8 DEF Delivered, RecvBuffer
  <2>3. ActsInv(d, k)'
    BY <1>3, <1>4, <1>5, <1>8, <2>1 DEF ActsInv
  <2>4. Holds(t, OutputGradOf(d, k)) /\ Holds(GetOrSet(input_tensor_grads[d][k]), InputGradOf(d, k))
    BY <2>2, TensorFacts DEF GradsInv
  <2>5. RanOne(d, Deliveries, "B", k)' /\ ~RanTask(d, "B", k) => t = OutputGradOf(d, k)
    BY <1>3, <1>5, <2>2, TensorFacts DEF GradsInv, OutputGradOf
  <2>6. RanTask(d, "B", k) /\ ~FirstStage(d, k[2]) /\ ~RanOne(d, PostedSends, "B", k)'
            => GetOrSet(input_tensor_grads[d][k]) = InputGradOf(d, k)
    BY <1>3, TensorFacts DEF GradsInv, InputGradOf
  <2> QED
    BY <1>3, <1>4, <2>1, <2>3, <2>4, <2>5, <2>6 DEF GradsInv
<1> QED
  BY <1>1, <1>6, <1>7, <1>8
\* What is sent or copied from is the result of its task.
LEMMA ResultThere ==
    ASSUME PlansInOrder, NEW x \in Rank, NEW k \in Key, ActsInv(x, k), GradsInv(x, k),
           Op(x).type \in {"F", "B"}, RanTask(x, Op(x).type, k),
           Op(x).type = "F" => ~RanTask(x, "B", k),
           Op(x).type = "B" => ~RanOne(x, PostedSends, "B", k) /\ Stage(x, k[2]) # 0
    PROVE  /\ SendBuffer(x, k) = IF Op(x).type = "F" THEN OutputOf(x, k) ELSE InputGradOf(x, k)
           /\ SendBuffer(x, k) \notin {Absent, None} /\ GetOrSet(SendBuffer(x, k)) = SendBuffer(x, k)
<1>1. k[2] \in Chunk
  BY DEF Key
<1>2. SendBuffer(x, k) = IF Op(x).type = "F" THEN OutputOf(x, k) ELSE InputGradOf(x, k)
  BY <1>1, StageEnds DEF ActsInv, GradsInv, SendBuffer
<1> QED
  BY <1>2, TensorFacts DEF OutputOf, InputGradOf

LEMMA LocalCopyTensors ==
    ASSUME TypeOK, PlansInOrder, TensorInv, NEW x \in Rank, LocalCopy(x),
           NEW d \in Rank, NEW k \in Key
    PROVE  ActsInv(d, k)' /\ GradsInv(d, k)'
<1> DEFINE from == <<Op(x).mb, Op(x).from>>  t == SendBuffer(x, from)
<1>1. Coming(x) /\ Advance(x) /\ Op(x).op = "LOCAL_COPY" /\ Buffers(x, t)
  BY DEF LocalCopy, At, Coming
<1>2. Op(x).op \in Communication /\ Op(x).op \in Deliveries
  BY <1>1 DEF Communication, Deliveries
<1>3. from \in Key /\ from[1] = Op(x).mb /\ from[2] = Op(x).from /\ Op(x).from \in Chunk
  BY <1>1, OpType DEF Coming, Key, Operation
<1>4. /\ Stage(x, Op(x).chunk) = Stage(x, Op(x).from) + IF Op(x).type = "F" THEN 1 ELSE -1
      /\ RanTask(x, Op(x).type, from)
      /\ Op(x).type = "F" => ~RanTask(x, "B", from)
      /\ Op(x).type = "B" => ~RanOne(x, PostedSends, "B", from)
  BY <1>1, AtCopy
<1>5. Op(x).type \in {"F", "B"} /\ OpKey(x)[1] = Op(x).mb /\ OpKey(x)[2] = Op(x).chunk
      /\ Op(x).chunk \in Chunk
  BY <1>1, <1>2, AtEvent, OpPlace, OpType DEF Coming, Operation
<1>6. Stage(x, Op(x).chunk) \in Nat /\ Stage(x, Op(x).from) \in Nat
  BY <1>3, <1>5, StageEnds
<1>7. Op(x).type = "B" => Stage(x, from[2]) # 0
  BY <1>3, <1>4, <1>6
<1>8. ActsInv(x, from) /\ GradsInv(x, from) /\ ActsInv(d, k) /\ GradsInv(d, k)
  BY <1>3 DEF TensorInv
<1>9. t = IF Op(x).type = "F" THEN OutputOf(x, from) ELSE InputGradOf(x, from)
  BY <1>3, <1>4, <1>5, <1>7, <1>8, ResultThere
<1>10. t = Delivered(x)
  <2>1. CASE Op(x).type = "F"
    <3>1. Stage(x, Op(x).chunk) - 1 = Stage(x, Op(x).from)
      BY <1>4, <1>6, <2>1
    <3> QED
      BY <1>3, <1>5, <1>9, <2>1, <3>1 DEF Delivered, InputOf, OutputOf
  <2>2. CASE Op(x).type = "B"
    <3>1. Stage(x, Op(x).chunk) + 1 = Stage(x, Op(x).from)
      BY <1>4, <1>6, <2>2
    <3> QED
      BY <1>3, <1>5, <1>9, <2>2, <3>1 DEF Delivered, OutputGradOf, InputGradOf
  <2> QED
    BY <1>5, <2>1, <2>2
<1> HIDE DEF t
<1> QED
  BY <1>1, <1>2, <1>8, <1>10, EventStep

\* Posting leaves what is in the receive buffer.
LEMMA PostTensors ==
    ASSUME TypeOK, PlansInOrder, TensorInv, NEW x \in Rank, NEW dx \in Dir,
           PostSend(x, dx) \/ PostRecv(x, dx), NEW d \in Rank, NEW k \in Key
    PROVE  ActsInv(d, k)' /\ GradsInv(d, k)'
<1>1. /\ Coming(x) /\ Advance(x) /\ Buffers(x, RecvBuffer(x))
      /\ Op(x).op \in {PostSendOp(dx), PostRecvOp(dx)}
  BY DEF PostSend, PostRecv, At, Coming
<1>2. Op(x).op \in Communication /\ Op(x).op \notin Deliveries
  BY <1>1 DEF Communication, Deliveries, PostedSends, PostSendOp, PostRecvOp
<1>3. ActsInv(d, k) /\ GradsInv(d, k)
  BY DEF TensorInv
<1> QED
  BY <1>1, <1>2, <1>3, EventStep

\* The message a receive takes holds what it is to deliver.
LEMMA WaitRecvTensors ==
    ASSUME TypeOK, PlansMatch, PlansInOrder, Delivery, TensorInv, NEW x \in Rank, NEW dx \in Dir,
           WaitRecv(x, dx), NEW d \in Rank, NEW k \in Key
    PROVE  ActsInv(d, k)' /\ GradsInv(d, k)'
<1> DEFINE c == InTransit(x, dx)  peer == Peer(x, dx)  sent == Program[peer][c[1].at]  t == c[1].data
<1>1. /\ Coming(x) /\ Advance(x) /\ Op(x).op = WaitRecvOp(dx) /\ At(x, WaitRecvOp(dx))
      /\ c # <<>> /\ Buffers(x, Head(c).data)
  BY DEF WaitRecv, At, Coming, InTransit
<1>2. Op(x).op \in Communication /\ Op(x).op \in Deliveries
  BY <1>1 DEF Communication, Deliveries, WaitRecvOp
<1>3. c \in Seq(Message)
  BY ChannelTypes DEF TypeOK, InTransit
<1>4. 1 \in DOMAIN c /\ Head(c) = c[1]
  BY <1>1, <1>3
<1>5. c[1].iter = iteration[x] /\ Carries(Template, NumDev, peer, sent, x, Op(x))
  BY <1>1, <1>4, DeliveryReceivesOwn DEF ReceivesOwn, InTransit
<1>6. t = ResultOf(peer, iteration[x], sent)
  BY <1>4, <1>5 DEF TensorInv, MessagesInv
<1>7. /\ sent.type = Op(x).type /\ sent.mb = Op(x).mb
      /\ Stage(x, Op(x).chunk) = StageOf(Template, NumDev, peer, sent.chunk)
                                    + IF Op(x).type = "F" THEN 1 ELSE -1
  BY <1>5 DEF Carries, Stage
<1>8. Op(x).type \in {"F", "B"} /\ OpKey(x)[1] = Op(x).mb /\ OpKey(x)[2] = Op(x).chunk
  BY <1>1, <1>2, AtEvent, OpPlace DEF Coming
<1>9. t = Delivered(x)
  <2>1. StageOf(Template, NumDev, peer, sent.chunk) \in Int
    <3>1. c[1].at \in Sends(x, dx)
      BY <1>4 DEF Delivery, LinkInv, WasSent
    <3>2. sent \in Operation /\ peer \in Rank
      BY <3>1, PlaceTypes, ChannelTypes, ConstantTypes
    <3>3. sent.chunk \in Chunk
      BY <3>2 DEF Operation
    <3>4. Stage(peer, sent.chunk) \in Nat
      BY <3>2, <3>3, StageEnds
    <3> QED
      BY <3>4 DEF Stage
  <2> QED
    BY <1>6, <1>7, <1>8, <2>1 DEF Delivered, ResultOf, InputOf, OutputGradOf, Stage
<1>10. ActsInv(d, k) /\ GradsInv(d, k)
  BY DEF TensorInv
<1> HIDE DEF t
<1> QED
  BY <1>1, <1>2, <1>4, <1>9, <1>10, EventStep DEF t


-----------------------------------------------------------------------------
(* Messages and send requests.                                             *)

\* A message is sent with the result of its task.
LEMMA SendsResult ==
    ASSUME TypeOK, PlansMatch, PlansInOrder, TensorInv, NEW x \in Rank, NEW dx \in Dir,
           PostSend(x, dx)
    PROVE  GetOrSet(SendBuffer(x, OpKey(x))) = ResultOf(x, iteration[x], Op(x))
<1> DEFINE k == OpKey(x)  e == Peer(x, dx)  dir == Opposite(dx)
<1>1. Coming(x) /\ Op(x).op = PostSendOp(dx) /\ Op(x).op \in PostedSends
      /\ Op(x).op \in Communication
  BY DEF PostSend, At, Coming, PostSendOp, PostedSends, Communication
<1>2. /\ RanTask(x, Op(x).type, k)
      /\ Op(x).type = "B" => ~RanOne(x, PostedSends, "B", k)
      /\ Op(x).type \in {"F", "B"}
      /\ Op(x).type = "F" => ~RanTask(x, "B", k)
  BY <1>1, AtSend, AtEvent
<1>3. k \in Key /\ k[1] = Op(x).mb /\ k[2] = Op(x).chunk /\ Op(x).chunk \in Chunk
      /\ pc[x] \in DOMAIN Program[x] /\ Op(x) = Program[x][pc[x]]
  BY <1>1, OpPlace, OpType DEF Coming, Operation
<1>4. ASSUME Op(x).type = "B" PROVE Stage(x, k[2]) # 0
  <2>1. e \in Rank /\ dir \in Dir /\ Peer(e, dir) = x /\ Opposite(dir) = dx
    BY Neighbours
  <2>2. pc[x] \in Sends(e, dir)
    BY <1>1, <1>3, <2>1 DEF Sends, PlacesOf
  <2>3. PICK q \in Waits(e, dir) : <<pc[x], q>> \in Pairs(e, dir)
    BY <2>1, <2>2, Matching
  <2>4. Carries(Template, NumDev, x, Op(x), e, Program[e][q])
    BY <1>3, <2>1, <2>3 DEF Pairs
  <2>5. Program[e][q] \in Operation
    BY <2>1, PlaceTypes, ConstantTypes
  <2>6. Stage(e, Program[e][q].chunk) \in Nat /\ Stage(x, k[2]) \in Nat
    BY <1>3, <2>1, <2>5, StageEnds DEF Operation
  <2>7. Stage(e, Program[e][q].chunk) = Stage(x, k[2]) + -1
    BY <1>3, <1>4, <2>4 DEF Carries, Stage
  <2> QED
    BY <2>6, <2>7
<1>5. ActsInv(x, k) /\ GradsInv(x, k)
  BY <1>3 DEF TensorInv
<1>6. /\ SendBuffer(x, k) = IF Op(x).type = "F" THEN OutputOf(x, k) ELSE InputGradOf(x, k)
      /\ GetOrSet(SendBuffer(x, k)) = SendBuffer(x, k)
  BY <1>2, <1>3, <1>4, <1>5, ResultThere
<1> QED
  BY <1>2, <1>3, <1>6 DEF ResultOf, OutputOf, InputGradOf

LEMMA SendMessages ==
    ASSUME TypeOK, PlansMatch, PlansInOrder, TensorInv, NEW x \in Rank, NEW dx \in Dir,
           PostSend(x, dx), NEW e \in Rank, NEW dir \in Dir
    PROVE  MessagesInv(e, dir)'
<1> DEFINE msg == [iter |-> iteration[x], at |-> pc[x], data |-> GetOrSet(SendBuffer(x, OpKey(x)))]
           right(d, m) == m.data = ResultOf(d, m.iter, Program[d][m.at])
<1>1. chan' = [chan EXCEPT ![SendChannel(x, dx)] = Append(@, msg)]
  BY DEF PostSend
<1>2. RecvChannel(e, dir) \in Channel /\ DOMAIN chan = Channel /\ InTransit(e, dir) \in Seq(Message)
  BY Channels DEF TypeOK, InTransit
<1>3. \A j \in DOMAIN InTransit(e, dir) : right(Peer(e, dir), InTransit(e, dir)[j])
  BY DEF TensorInv, MessagesInv
<1>4. right(x, msg)
  BY SendsResult DEF Op
<1>5. CASE x = Peer(e, dir) /\ dx = Opposite(dir)
  <2>1. InTransit(e, dir)' = Append(InTransit(e, dir), msg)
    BY <1>1, <1>2, <1>5, Channels DEF InTransit
  <2> HIDE DEF msg, right
  <2>2. \A j \in DOMAIN InTransit(e, dir)' : right(x, InTransit(e, dir)'[j])
    BY <1>2, <1>3, <1>4, <1>5, <2>1
  <2> QED
    BY <1>5, <2>2 DEF MessagesInv, right, ResultOf
<1>6. CASE ~(x = Peer(e, dir) /\ dx = Opposite(dir))
  <2>1. InTransit(e, dir)' = InTransit(e, dir)
    BY <1>1, <1>2, <1>6, Channels DEF InTransit
  <2> QED
    BY <1>3, <2>1 DEF MessagesInv, ResultOf
<1> QED
  BY <1>5, <1>6

LEMMA ReceiveMessages ==
    ASSUME TypeOK, TensorInv, NEW x \in Rank, NEW dx \in Dir,
           WaitRecv(x, dx), NEW e \in Rank, NEW dir \in Dir
    PROVE  MessagesInv(e, dir)'
<1> DEFINE right(d, m) == m.data = ResultOf(d, m.iter, Program[d][m.at])
<1>1. /\ chan[RecvChannel(x, dx)] # <<>>
      /\ chan' = [chan EXCEPT ![RecvChannel(x, dx)] = Tail(chan[RecvChannel(x, dx)])]
  BY DEF WaitRecv
<1>2. RecvChannel(e, dir) \in Channel /\ DOMAIN chan = Channel /\ InTransit(e, dir) \in Seq(Message)
  BY Channels DEF TypeOK, InTransit
<1>3. \A j \in DOMAIN InTransit(e, dir) : right(Peer(e, dir), InTransit(e, dir)[j])
  BY DEF TensorInv, MessagesInv
<1>4. \/ InTransit(e, dir)' = InTransit(e, dir)
      \/ InTransit(e, dir)' = Tail(InTransit(e, dir)) /\ InTransit(e, dir) # <<>>
  BY <1>1, <1>2, Channels DEF InTransit
<1> HIDE DEF right
<1>5. \A j \in DOMAIN InTransit(e, dir)' : right(Peer(e, dir), InTransit(e, dir)'[j])
  BY <1>2, <1>3, <1>4
<1> QED
  BY <1>5 DEF MessagesInv, right, ResultOf

LEMMA QuietMessages ==
    ASSUME TensorInv, chan' = chan, NEW e \in Rank, NEW dir \in Dir
    PROVE  MessagesInv(e, dir)'
BY DEF TensorInv, MessagesInv, InTransit, ResultOf

\* A request for a gradient is made by its send.
LEMMA RequestsAdvance ==
    ASSUME TypeOK, TensorInv, NEW x \in Rank, Coming(x) \/ Running(x), Advance(x), NEW d \in Rank,
           \/ send_reqs'[d] = send_reqs[d]
           \/ \E dx \in Dir : PostSend(x, dx)
    PROVE  SendsInv(d)'
<1>1. /\ Running(x)
      /\ \A ops, type, k : RanOne(d, ops, type, k)'
            <=> RanOne(d, ops, type, k) \/ (d = x /\ Runs(x, ops, type, k))
  BY RanAdvance DEF Coming
<1>2. SendsInv(d)
  BY DEF TensorInv
<1>3. CASE send_reqs'[d] = send_reqs[d]
  BY <1>1, <1>2, <1>3 DEF SendsInv
<1>4. ASSUME NEW dx \in Dir, PostSend(x, dx) PROVE SendsInv(d)'
  <2>1. /\ send_reqs' = [send_reqs EXCEPT ![x] = @ \cup {RequestOf(x, dx)}]
        /\ Effective(iteration[x], Op(x)) /\ Op(x).op \in PostedSends
    BY <1>4 DEF PostSend, At, PostSendOp, PostedSends
  <2>2. DOMAIN send_reqs = Rank
    BY DEF TypeOK
  <2>3. ASSUME NEW r \in send_reqs'[d], r[4] = "B", r \notin send_reqs[d]
        PROVE  d = x /\ Runs(x, PostedSends, "B", <<r[2], r[3]>>)
    <3>1. d = x /\ r = RequestOf(x, dx)
      BY <2>1, <2>2, <2>3
    <3> QED
      BY <2>1, <2>3, <3>1 DEF Runs, Concerns, RequestOf
  <2> QED
    BY <1>1, <1>2, <2>3 DEF SendsInv
<1> QED
  BY <1>3, <1>4
-----------------------------------------------------------------------------
(* Tasks.                                                                  *)

\* A task on key k of rank x is the only thing that its step adds.
LEMMA TaskAdvance ==
    ASSUME TypeOK, NEW x \in Rank, Coming(x), Op(x).op = "COMPUTE", Advance(x),
           NEW d \in Rank, NEW k \in Key
    PROVE  /\ iteration'[d] = iteration[d]
           /\ \A type : RanTask(d, type, k)' <=>
                 RanTask(d, type, k) \/ (d = x /\ k = OpKey(x) /\ type = Op(x).type)
           /\ \A ops, type : ops \in {Deliveries, PostedSends} =>
                 (RanOne(d, ops, type, k)' <=> RanOne(d, ops, type, k))
           /\ InputOf(d, k)' = InputOf(d, k) /\ OutputOf(d, k)' = OutputOf(d, k)
           /\ OutputGradOf(d, k)' = OutputGradOf(d, k) /\ InputGradOf(d, k)' = InputGradOf(d, k)
<1>1. /\ Running(x) /\ Effective(iteration[x], Op(x))
      /\ iteration'[d] = iteration[d]
      /\ \A ops, type : RanOne(d, ops, type, k)'
            <=> RanOne(d, ops, type, k) \/ (d = x /\ Runs(x, ops, type, k))
  BY RanAdvance DEF Coming
<1>2. \A type : Runs(x, {"COMPUTE"}, type, k) <=> k = OpKey(x) /\ type = Op(x).type
  BY <1>1, OpPlace DEF Runs
<1>3. \A type, ops : ops \in {Deliveries, PostedSends} => ~Runs(x, ops, type, k)
  BY DEF Runs, Deliveries, PostedSends
<1>4. \A type : RanTask(d, type, k)' <=>
         RanTask(d, type, k) \/ (d = x /\ k = OpKey(x) /\ type = Op(x).type)
  BY <1>1, <1>2 DEF RanTask
<1> QED
  BY <1>1, <1>3, <1>4 DEF InputOf, OutputOf, OutputGradOf, InputGradOf

LEMMA ForwardTensors ==
    ASSUME TypeOK, PlansInOrder, TensorInv, NEW x \in Rank, ForwardStep(x),
           NEW d \in Rank, NEW k \in Key
    PROVE  ActsInv(d, k)' /\ GradsInv(d, k)'
<1> DEFINE kx == OpKey(x)
<1>1. Coming(x) /\ Advance(x) /\ Op(x).op = "COMPUTE" /\ Op(x).type = "F"
  BY DEF ForwardStep, At, Coming
<1>2. kx \in Key /\ kx[1] = Op(x).mb /\ kx[2] = Op(x).chunk /\ kx[2] \in Chunk
  BY <1>1, OpPlace DEF Coming, Key
<1>3. /\ FirstStage(x, kx[2]) \/ RanOne(x, Deliveries, "F", kx)
      /\ ~RanTask(x, "B", kx)
  BY <1>1, <1>2, AtForward, StageEnds
<1>4. ActsInv(x, kx) /\ ActsInv(d, k) /\ GradsInv(d, k)
  BY <1>2 DEF TensorInv
<1>5. FirstStage(x, kx[2]) \/ input_tensors[x][kx] = Act(iteration[x], kx[1], Stage(x, kx[2]) - 1)
  BY <1>3, <1>4 DEF ActsInv, InputOf
<1>6. output_tensors' = [output_tensors EXCEPT ![x][kx] = OutputOf(x, kx)]
  BY <1>5 DEF ForwardStep, OutputOf
<1>7. output_tensors'[d][k] = IF d = x /\ k = kx THEN OutputOf(d, k) ELSE output_tensors[d][k]
  BY <1>2, <1>6 DEF TypeOK
<1>8. /\ input_tensors'[d][k] = input_tensors[d][k]
      /\ output_tensor_grads'[d][k] = output_tensor_grads[d][k]
      /\ input_tensor_grads'[d][k] = input_tensor_grads[d][k]
  BY DEF ForwardStep
<1>9. OutputOf(d, k) # None /\ Holds(OutputOf(d, k), OutputOf(d, k))
  BY TensorFacts DEF OutputOf
<1>10. /\ RanTask(d, "B", k)' <=> RanTask(d, "B", k)
       /\ RanTask(d, "F", k)' <=> RanTask(d, "F", k) \/ (d = x /\ k = kx)
       /\ \A ops, type : ops \in {Deliveries, PostedSends} =>
             (RanOne(d, ops, type, k)' <=> RanOne(d, ops, type, k))
       /\ InputOf(d, k)' = InputOf(d, k) /\ OutputOf(d, k)' = OutputOf(d, k)
       /\ OutputGradOf(d, k)' = OutputGradOf(d, k) /\ InputGradOf(d, k)' = InputGradOf(d, k)
  BY <1>1, TaskAdvance
<1> HIDE DEF kx
<1>11. ActsInv(d, k)'
  BY <1>4, <1>7, <1>8, <1>9, <1>10 DEF ActsInv
<1>12. GradsInv(d, k)'
  BY <1>4, <1>8, <1>10 DEF GradsInv
<1> QED
  BY <1>11, <1>12

\* A backward finds the right inputs.
LEMMA BackwardInputs ==
    ASSUME TypeOK, PlansInOrder, TensorInv, NEW x \in Rank, BackwardStep(x)
    PROVE  LET k == OpKey(x)
               i == iteration[x]
               s == Stage(x, k[2])
           IN  /\ output_tensors[x][k] = Act(i, k[1], s)
               /\ FirstStage(x, k[2]) \/ input_tensors[x][k] = Act(i, k[1], s - 1)
               /\ LastStage(x, k[2]) \/ output_tensor_grads[x][k] = Grad(i, k[1], s + 1)
<1> DEFINE k == OpKey(x)
<1>1. Coming(x) /\ Op(x).op = "COMPUTE" /\ Op(x).type = "B"
  BY DEF BackwardStep, At, Coming
<1>2. k \in Key /\ k[2] = Op(x).chunk /\ k[2] \in Chunk
  BY <1>1, OpPlace DEF Coming, Key
<1>3. /\ RanTask(x, "F", k) /\ ~RanTask(x, "B", k)
      /\ FirstStage(x, k[2]) \/ RanOne(x, Deliveries, "F", k)
      /\ LastStage(x, k[2]) \/ RanOne(x, Deliveries, "B", k)
  BY <1>1, <1>2, AtBackward, StageEnds
<1>4. ActsInv(x, k) /\ GradsInv(x, k)
  BY <1>2 DEF TensorInv
<1> QED
  BY <1>3, <1>4 DEF ActsInv, GradsInv, InputOf, OutputOf, OutputGradOf

LEMMA BackwardTensors ==
    ASSUME TypeOK, PlansInOrder, TensorInv, NEW x \in Rank, BackwardStep(x),
           NEW d \in Rank, NEW k \in Key
    PROVE  ActsInv(d, k)' /\ GradsInv(d, k)'
<1> DEFINE kx == OpKey(x)
<1>1. Coming(x) /\ Advance(x) /\ Op(x).op = "COMPUTE" /\ Op(x).type = "B"
  BY DEF BackwardStep, At, Coming
<1>2. kx \in Key
  BY <1>1, OpPlace DEF Coming
<1>4. ActsInv(d, k) /\ GradsInv(d, k)
  BY DEF TensorInv
<1>5. /\ output_tensors[x][kx] = Act(iteration[x], kx[1], Stage(x, kx[2]))
      /\ FirstStage(x, kx[2]) \/ input_tensors[x][kx] = Act(iteration[x], kx[1], Stage(x, kx[2]) - 1)
      /\ LastStage(x, kx[2])
            \/ output_tensor_grads[x][kx] = Grad(iteration[x], kx[1], Stage(x, kx[2]) + 1)
  BY BackwardInputs
<1>6. /\ input_tensors' = [input_tensors EXCEPT ![x][kx] = None]
      /\ output_tensors' = [output_tensors EXCEPT ![x][kx] = None]
      /\ output_tensor_grads' = [output_tensor_grads EXCEPT ![x][kx] = None]
      /\ input_tensor_grads' = [input_tensor_grads EXCEPT ![x][kx] =
             IF FirstStage(x, kx[2]) THEN None ELSE InputGradOf(x, kx)]
  BY <1>5 DEF BackwardStep, InputGradOf
<1>7. LET here == d = x /\ k = kx
      IN  /\ input_tensors'[d][k] = IF here THEN None ELSE input_tensors[d][k]
          /\ output_tensors'[d][k] = IF here THEN None ELSE output_tensors[d][k]
          /\ output_tensor_grads'[d][k] = IF here THEN None ELSE output_tensor_grads[d][k]
          /\ input_tensor_grads'[d][k] =
                IF ~here THEN input_tensor_grads[d][k]
                ELSE IF FirstStage(d, k[2]) THEN None ELSE InputGradOf(d, k)
  BY <1>2, <1>6 DEF TypeOK
<1>8. /\ Holds(InputGradOf(d, k), InputGradOf(d, k)) /\ \A right : Holds(None, right)
  BY TensorFacts
<1>9. /\ RanTask(d, "F", k)' <=> RanTask(d, "F", k)
      /\ RanTask(d, "B", k)' <=> RanTask(d, "B", k) \/ (d = x /\ k = kx)
      /\ \A ops, type : ops \in {Deliveries, PostedSends} =>
            (RanOne(d, ops, type, k)' <=> RanOne(d, ops, type, k))
      /\ InputOf(d, k)' = InputOf(d, k) /\ OutputOf(d, k)' = OutputOf(d, k)
      /\ OutputGradOf(d, k)' = OutputGradOf(d, k) /\ InputGradOf(d, k)' = InputGradOf(d, k)
  BY <1>1, TaskAdvance
<1> HIDE DEF kx
<1>10. ActsInv(d, k)'
  BY <1>4, <1>7, <1>8, <1>9 DEF ActsInv
<1>11. GradsInv(d, k)'
  BY <1>4, <1>7, <1>8, <1>9 DEF GradsInv
<1> QED
  BY <1>10, <1>11

-----------------------------------------------------------------------------
(* The other steps.                                                        *)

\* A step past an operation that neither delivers, nor sends, nor computes a
\* forward or backward.
LEMMA RanSame ==
    ASSUME TypeOK, NEW x \in Rank, Running(x), Advance(x),
           \/ ~Effective(iteration[x], Op(x))
           \/ Op(x).op \notin {"COMPUTE"} \cup Deliveries \cup PostedSends
           \/ Op(x).op = "COMPUTE" /\ Op(x).type \notin {"F", "B"},
           NEW d \in Rank, NEW k
    PROVE  /\ \A type \in {"F", "B"} :
                 /\ RanTask(d, type, k)' <=> RanTask(d, type, k)
                 /\ \A ops \in {Deliveries, PostedSends} :
                       RanOne(d, ops, type, k)' <=> RanOne(d, ops, type, k)
           /\ InputOf(d, k)' = InputOf(d, k) /\ OutputOf(d, k)' = OutputOf(d, k)
           /\ OutputGradOf(d, k)' = OutputGradOf(d, k) /\ InputGradOf(d, k)' = InputGradOf(d, k)
<1>1. /\ iteration'[d] = iteration[d]
      /\ \A ops, type : RanOne(d, ops, type, k)'
            <=> RanOne(d, ops, type, k) \/ (d = x /\ Runs(x, ops, type, k))
  BY RanAdvance
<1>2. \A type \in {"F", "B"} : \A ops \in {{"COMPUTE"}, Deliveries, PostedSends} :
         ~Runs(x, ops, type, k)
  BY DEF Runs, Concerns, Deliveries, PostedSends
<1> QED
  BY <1>1, <1>2 DEF RanTask, InputOf, OutputOf, OutputGradOf, InputGradOf

LEMMA QuietTensors ==
    ASSUME TypeOK, TensorInv, NEW x \in Rank, WGradStep(x) \/ Skip(x),
           NEW d \in Rank, NEW k \in Key
    PROVE  ActsInv(d, k)' /\ GradsInv(d, k)'
<1>1. /\ Running(x) /\ Advance(x) /\ UNCHANGED tensors
      /\ ~Effective(iteration[x], Op(x)) \/ (Op(x).op = "COMPUTE" /\ Op(x).type \notin {"F", "B"})
  BY DEF WGradStep, Skip, At
<1>2. ActsInv(d, k) /\ GradsInv(d, k)
  BY DEF TensorInv
<1> QED
  BY <1>1, <1>2, RanSame DEF ActsInv, GradsInv, tensors

LEMMA DeallocateTensors ==
    ASSUME TypeOK, TensorInv, NEW x \in Rank, Deallocate(x), NEW d \in Rank, NEW k \in Key
    PROVE  ActsInv(d, k)' /\ GradsInv(d, k)'
<1> DEFINE gone == {<<r[2], r[3]>> : r \in {q \in send_reqs[x] : q[4] = "B" /\ SendCompleted(x, q)}}
<1>1. /\ Running(x) /\ Advance(x) /\ Op(x).op = "DEALLOCATE"
      /\ UNCHANGED <<input_tensors, output_tensors, output_tensor_grads>>
      /\ input_tensor_grads' = [input_tensor_grads EXCEPT ![x] =
             [j \in Key |-> IF j \in gone THEN None ELSE @[j]]]
  BY DEF Deallocate
<1>2. ActsInv(d, k) /\ GradsInv(d, k) /\ SendsInv(x)
  BY DEF TensorInv
<1>3. /\ input_tensor_grads'[d][k] = IF d = x /\ k \in gone THEN None ELSE input_tensor_grads[d][k]
  BY <1>1 DEF TypeOK
<1>4. k \in gone => RanOne(x, PostedSends, "B", k)
  BY <1>2 DEF SendsInv
<1>5. Op(x).op \notin {"COMPUTE"} \cup Deliveries \cup PostedSends
  BY <1>1 DEF Deliveries, PostedSends
<1>6. \A right : Holds(None, right)
  BY TensorFacts
<1> HIDE DEF gone
<1>7. ActsInv(d, k)'
  BY <1>1, <1>2, <1>5, RanSame DEF ActsInv
<1>8. GradsInv(d, k)'
  BY <1>1, <1>2, <1>3, <1>4, <1>5, <1>6, RanSame DEF GradsInv
<1> QED
  BY <1>7, <1>8

\* An iteration starts with the buffers that clean_up left, and ends in it.
LEMMA IterationTensors ==
    ASSUME TypeOK, TensorInv, NEW x \in Rank, StartIteration(x) \/ FinishIteration(x)
    PROVE  TensorInv'
<1>1. ASSUME NEW d \in Rank, NEW k \in Key PROVE ActsInv(d, k)' /\ GradsInv(d, k)'
  <2>1. ActsInv(d, k) /\ GradsInv(d, k)
    BY DEF TensorInv
  <2>2. CASE d # x \/ StartIteration(x)
    <3>1. /\ iteration'[d] = iteration[d]
          /\ \A ops, type : RanOne(d, ops, type, k)' <=> RanOne(d, ops, type, k)
      BY <2>2, RanIteration
    <3>2. /\ input_tensors'[d][k] = input_tensors[d][k] /\ output_tensors'[d][k] = output_tensors[d][k]
          /\ output_tensor_grads'[d][k] = output_tensor_grads[d][k]
          /\ input_tensor_grads'[d][k] = input_tensor_grads[d][k]
      BY <2>2 DEF StartIteration, FinishIteration, CleanUp, TypeOK, tensors
    <3>3. /\ InputOf(d, k)' = InputOf(d, k) /\ OutputOf(d, k)' = OutputOf(d, k)
          /\ OutputGradOf(d, k)' = OutputGradOf(d, k) /\ InputGradOf(d, k)' = InputGradOf(d, k)
      BY <3>1 DEF InputOf, OutputOf, OutputGradOf, InputGradOf
    <3> QED
      BY <2>1, <3>1, <3>2, <3>3 DEF ActsInv, GradsInv, RanTask
  <2>3. CASE d = x /\ FinishIteration(x)
    <3>1. \A ops, type : ~RanOne(x, ops, type, k)'
      BY <2>3, RanIteration
    <3>2. /\ input_tensors'[d][k] = Absent /\ output_tensors'[d][k] = Absent
          /\ output_tensor_grads'[d][k] = Absent /\ input_tensor_grads'[d][k] = Absent
      BY <2>3 DEF FinishIteration, CleanUp, NoTensors, TypeOK
    <3> QED
      BY <2>3, <3>1, <3>2, TensorFacts DEF ActsInv, GradsInv, RanTask
  <2> QED
    BY <2>2, <2>3
<1>2. ASSUME NEW d \in Rank PROVE SendsInv(d)'
  <2>1. SendsInv(d)
    BY DEF TensorInv
  <2>2. CASE d = x /\ FinishIteration(x)
    BY <2>2 DEF FinishIteration, CleanUp, SendsInv, TypeOK
  <2>3. CASE d # x \/ StartIteration(x)
    <3>1. send_reqs'[d] = send_reqs[d]
      BY <2>3 DEF StartIteration, FinishIteration, CleanUp, TypeOK
    <3>2. \A ops, type, k : RanOne(d, ops, type, k)' <=> RanOne(d, ops, type, k)
      BY <2>3, RanIteration
    <3> QED
      BY <2>1, <3>1, <3>2 DEF SendsInv
  <2> QED
    BY <2>2, <2>3
<1>3. chan' = chan
  BY DEF StartIteration, FinishIteration
<1> QED
  BY <1>1, <1>2, <1>3, QuietMessages DEF TensorInv

LEMMA TensorStep ==
    TypeOK /\ PlansMatch /\ PlansInOrder /\ Delivery /\ TensorInv /\ [Next]_vars => TensorInv'
<1> SUFFICES ASSUME TypeOK, PlansMatch, PlansInOrder, Delivery, TensorInv, [Next]_vars
             PROVE  TensorInv'
  OBVIOUS
<1>1. CASE UNCHANGED vars
  BY <1>1 DEF vars, tensors, TensorInv, ActsInv, GradsInv, SendsInv, MessagesInv, InTransit, ResultOf,
              RanTask, RanOne, Ran, InputOf, OutputOf, OutputGradOf, InputGradOf
<1>2. ASSUME NEW x \in Rank, Step(x) PROVE TensorInv'
  <2>1. CASE StartIteration(x) \/ FinishIteration(x)
    BY <2>1, IterationTensors
  <2>2. ASSUME \/ LocalCopy(x) \/ \E dx \in Dir : PostSend(x, dx) \/ PostRecv(x, dx) \/ WaitRecv(x, dx)
               \/ ForwardStep(x) \/ BackwardStep(x) \/ WGradStep(x)
               \/ Deallocate(x) \/ Skip(x)
        PROVE  TensorInv'
    <3>1. ASSUME NEW d \in Rank, NEW k \in Key PROVE ActsInv(d, k)' /\ GradsInv(d, k)'
      BY <2>2, LocalCopyTensors, PostTensors, WaitRecvTensors, ForwardTensors, BackwardTensors,
         QuietTensors, DeallocateTensors
    <3>2. Running(x) /\ Advance(x)
      BY <2>2 DEF LocalCopy, PostSend, PostRecv, WaitRecv, ForwardStep, BackwardStep, WGradStep,
                  Deallocate, Skip, At
    <3>3. send_reqs' = send_reqs \/ \E dx \in Dir : PostSend(x, dx)
      BY <2>2 DEF LocalCopy, PostRecv, WaitRecv, ForwardStep, BackwardStep, WGradStep,
                  Deallocate, Skip
    <3>4. ASSUME NEW d \in Rank PROVE SendsInv(d)'
      BY <3>2, <3>3, RequestsAdvance
    <3>5. chan' = chan \/ \E dx \in Dir : PostSend(x, dx) \/ WaitRecv(x, dx)
      BY <2>2 DEF LocalCopy, PostRecv, ForwardStep, BackwardStep, WGradStep, Deallocate, Skip
    <3>6. ASSUME NEW e \in Rank, NEW dir \in Dir PROVE MessagesInv(e, dir)'
      BY <3>5, SendMessages, ReceiveMessages, QuietMessages
    <3> QED
      BY <3>1, <3>4, <3>6 DEF TensorInv
  <2> QED
    BY <1>2, <2>1, <2>2 DEF Step
<1> QED
  BY <1>1, <1>2 DEF Next, Terminated

-----------------------------------------------------------------------------
(* The theorems.                                                           *)

LEMMA TensorInvariant ==
    ASSUME PlansMatch, PlansInOrder
    PROVE  Spec => [](TypeOK /\ Delivery /\ TensorInv)
<1>1. Init => TypeOK /\ Delivery /\ TensorInv
  BY TypeInit, DeliveryInit, TensorInit
<1>2. TypeOK /\ Delivery /\ TensorInv /\ [Next]_vars => (TypeOK /\ Delivery /\ TensorInv)'
  BY TypeStep, DeliveryStep, TensorStep
<1> QED
  BY <1>1, <1>2, PTL DEF Spec

\* A buffer that holds data holds the data of its key, of the iteration the
\* rank is in, if the plans of neighbours agree and each is in order.
THEOREM BuffersHoldTheirOwn ==
    ASSUME PlansMatch, PlansInOrder
    PROVE  Spec => []RightTensors
<1>1. TensorInv => RightTensors
  BY DEF TensorInv, ActsInv, GradsInv, RightTensors, InputOf, OutputOf, OutputGradOf, InputGradOf
<1> QED
  BY <1>1, TensorInvariant, PTL

\* What a backward has released no later event of the iteration takes again.
THEOREM NothingTakenAgain ==
    ASSUME PlansMatch, PlansInOrder
    PROVE  Spec => ReleasedStayReleased
<1> DEFINE Stays(d, k) ==
        /\ input_tensors[d][k] = None => input_tensors'[d][k] \in {None, Absent}
        /\ output_tensors[d][k] = None => output_tensors'[d][k] \in {None, Absent}
<1>1. ASSUME TypeOK, TensorInv, [Next]_vars, NEW d \in Rank, NEW k \in Key PROVE Stays(d, k)
  <2>1. CASE UNCHANGED vars
    BY <2>1 DEF vars, tensors
  <2>2. ASSUME NEW x \in Rank, Step(x) PROVE Stays(d, k)
    <3>1. input_tensors[d][k] = None \/ output_tensors[d][k] = None => RanTask(d, "B", k)
      BY <1>1 DEF TensorInv, ActsInv
    <3>2. ASSUME NEW t, Coming(x), Op(x).op \in Communication, Buffers(x, t) PROVE Stays(d, k)
      <4>1. Running(x) /\ (Op(x).type = "F" => ~RanTask(x, "B", OpKey(x)))
        BY <1>1, <3>2, AtEvent DEF Coming
      <4> QED
        BY <1>1, <3>1, <3>2, <4>1, BufferValues
    <3>3. CASE LocalCopy(x)
      BY <3>2, <3>3 DEF LocalCopy, At, Coming, Communication, Deliveries
    <3>4. ASSUME NEW dx \in Dir, PostSend(x, dx) \/ PostRecv(x, dx) \/ WaitRecv(x, dx) PROVE Stays(d, k)
      BY <3>2, <3>4 DEF PostSend, PostRecv, WaitRecv, At, Coming, Communication, Deliveries, PostedSends,
                        PostSendOp, PostRecvOp, WaitRecvOp
    <3>5. CASE ForwardStep(x)
      <4>1. Coming(x) /\ Op(x).op = "COMPUTE" /\ Op(x).type = "F" /\ OpKey(x) \in Key
        BY <1>1, <3>5, OpType DEF ForwardStep, At, Coming
      <4>2. ~RanTask(x, "B", OpKey(x))
        BY <1>1, <4>1, AtForward
      <4>3. input_tensors' = input_tensors
            /\ (~(d = x /\ k = OpKey(x)) => output_tensors'[d][k] = output_tensors[d][k])
        BY <1>1, <3>5, <4>1 DEF ForwardStep, TypeOK
      <4> QED
        BY <3>1, <4>2, <4>3
    <3>6. CASE BackwardStep(x)
      <4>1. Running(x) /\ OpKey(x) \in Key
        BY <1>1, <3>6, OpType DEF BackwardStep, At
      <4>2. /\ input_tensors'[d][k] \in {None, input_tensors[d][k]}
            /\ output_tensors'[d][k] \in {None, output_tensors[d][k]}
        BY <1>1, <3>6, <4>1 DEF BackwardStep, TypeOK
      <4> QED
        BY <4>2
    <3>7. CASE WGradStep(x) \/ Deallocate(x) \/ Skip(x) \/ StartIteration(x)
      BY <3>7 DEF WGradStep, Deallocate, Skip, StartIteration, tensors
    <3>8. CASE FinishIteration(x)
      <4>1. /\ input_tensors'[d][k] \in {Absent, input_tensors[d][k]}
            /\ output_tensors'[d][k] \in {Absent, output_tensors[d][k]}
        BY <1>1, <3>8 DEF FinishIteration, CleanUp, NoTensors, TypeOK
      <4> QED
        BY <4>1
    <3> HIDE DEF Stays
    <3> QED
      BY <2>2, <3>3, <3>4, <3>5, <3>6, <3>7, <3>8 DEF Step
  <2> QED
    BY <1>1, <2>1, <2>2 DEF Next, Terminated
<1>2. TypeOK /\ TensorInv /\ [Next]_vars => \A d \in Rank, k \in Key : Stays(d, k)
  BY <1>1
<1>3. Spec => [](TypeOK /\ TensorInv) /\ [][Next]_vars
  BY TensorInvariant, PTL DEF Spec
<1> QED
  BY <1>2, <1>3, PTL DEF ReleasedStayReleased

-----------------------------------------------------------------------------
(* How many activations a rank holds.                                      *)

IsHeld(d, k) == output_tensors[d][k].kind = "act"
Between(d, k) == RanTask(d, "F", k) /\ ~RanTask(d, "B", k)

\* An activation is held between its forward and its backward only.
HeldInv(d, k) == IsHeld(d, k) => Between(d, k)

LEMMA HeldKinds ==
    /\ Absent.kind # "act" /\ None.kind # "act"
    /\ \A t : GetOrSet(t).kind = "act" => t.kind = "act"
BY DEF Absent, None, Empty, Bare, GetOrSet

LEMMA HeldStep ==
    ASSUME TypeOK, PlansInOrder, [Next]_vars, NEW d \in Rank, NEW k \in Key, HeldInv(d, k)
    PROVE  HeldInv(d, k)'
<1>1. CASE UNCHANGED vars
  BY <1>1 DEF vars, tensors, HeldInv, IsHeld, Between, RanTask, RanOne, Ran
<1>2. ASSUME NEW x \in Rank, Step(x) PROVE HeldInv(d, k)'
  <2>1. ASSUME IsHeld(d, k)' => IsHeld(d, k), Between(d, k) => Between(d, k)'
        PROVE  HeldInv(d, k)'
    BY <2>1 DEF HeldInv
  <2>2. ASSUME NEW t, Coming(x), Advance(x), Op(x).op \in Communication, Buffers(x, t)
        PROVE  HeldInv(d, k)'
    <3>1. Running(x) /\ Op(x).op # "COMPUTE"
      BY <2>2 DEF Coming, Communication, Deliveries, PostedSends
    <3>2. Between(d, k)' <=> Between(d, k)
      BY <2>2, <3>1, RanAdvance DEF Between, RanTask, Runs
    <3>3. output_tensors'[d][k] \in {output_tensors[d][k], GetOrSet(output_tensors[d][k])}
      BY <2>2, <3>1, BufferValues
    <3> QED
      BY <2>1, <3>2, <3>3, HeldKinds DEF IsHeld
  <2>3. CASE LocalCopy(x)
    BY <2>2, <2>3 DEF LocalCopy, At, Coming, Communication, Deliveries
  <2>4. ASSUME NEW dx \in Dir, PostSend(x, dx) \/ PostRecv(x, dx) \/ WaitRecv(x, dx)
        PROVE  HeldInv(d, k)'
    BY <2>2, <2>4 DEF PostSend, PostRecv, WaitRecv, At, Coming, Communication, Deliveries, PostedSends,
                      PostSendOp, PostRecvOp, WaitRecvOp
  <2>5. CASE ForwardStep(x)
    <3>1. Coming(x) /\ Advance(x) /\ Op(x).op = "COMPUTE" /\ Op(x).type = "F" /\ OpKey(x) \in Key
      BY <2>5, OpType DEF ForwardStep, At, Coming
    <3>2. ~RanTask(x, "B", OpKey(x))
      BY <3>1, AtForward
    <3>3. /\ RanTask(d, "B", k)' <=> RanTask(d, "B", k)
          /\ RanTask(d, "F", k)' <=> RanTask(d, "F", k) \/ (d = x /\ k = OpKey(x))
      BY <3>1, TaskAdvance
    <3>4. ~(d = x /\ k = OpKey(x)) => output_tensors'[d][k] = output_tensors[d][k]
      BY <2>5, <3>1 DEF ForwardStep, TypeOK
    <3>5. CASE d = x /\ k = OpKey(x)
      BY <3>2, <3>3, <3>5 DEF HeldInv, Between
    <3>6. CASE ~(d = x /\ k = OpKey(x))
      BY <2>1, <3>3, <3>4, <3>6 DEF IsHeld, Between
    <3> QED
      BY <3>5, <3>6
  <2>6. CASE BackwardStep(x)
    <3>1. Coming(x) /\ Advance(x) /\ Op(x).op = "COMPUTE" /\ Op(x).type = "B" /\ OpKey(x) \in Key
      BY <2>6, OpType DEF BackwardStep, At, Coming
    <3>2. /\ RanTask(d, "F", k)' <=> RanTask(d, "F", k)
          /\ RanTask(d, "B", k)' <=> RanTask(d, "B", k) \/ (d = x /\ k = OpKey(x))
      BY <3>1, TaskAdvance
    <3>3. output_tensors'[d][k] = IF d = x /\ k = OpKey(x) THEN None ELSE output_tensors[d][k]
      BY <2>6, <3>1 DEF BackwardStep, TypeOK
    <3>4. CASE d = x /\ k = OpKey(x)
      BY <3>3, <3>4, HeldKinds DEF HeldInv, IsHeld
    <3>5. CASE ~(d = x /\ k = OpKey(x))
      BY <2>1, <3>2, <3>3, <3>5 DEF IsHeld, Between
    <3> QED
      BY <3>4, <3>5
  <2>7. CASE WGradStep(x) \/ Deallocate(x) \/ Skip(x)
    <3>1. /\ Running(x) /\ Advance(x) /\ output_tensors' = output_tensors
          /\ \/ ~Effective(iteration[x], Op(x))
             \/ Op(x).op \notin {"COMPUTE"} \cup Deliveries \cup PostedSends
             \/ Op(x).op = "COMPUTE" /\ Op(x).type \notin {"F", "B"}
      BY <2>7 DEF WGradStep, Deallocate, Skip, At, tensors, Deliveries, PostedSends
    <3>2. Between(d, k)' <=> Between(d, k)
      BY <3>1, RanSame DEF Between
    <3> QED
      BY <2>1, <3>1, <3>2 DEF IsHeld
  <2>8. CASE StartIteration(x) \/ FinishIteration(x)
    <3>1. CASE d # x \/ StartIteration(x)
      <4>1. output_tensors'[d][k] = output_tensors[d][k]
        BY <2>8, <3>1 DEF StartIteration, FinishIteration, CleanUp, TypeOK, tensors
      <4>2. Between(d, k)' <=> Between(d, k)
        BY <2>8, <3>1, RanIteration DEF Between, RanTask
      <4> QED
        BY <2>1, <4>1, <4>2 DEF IsHeld
    <3>2. CASE d = x /\ FinishIteration(x)
      <4>1. output_tensors'[d][k] = Absent
        BY <3>2 DEF FinishIteration, CleanUp, NoTensors, TypeOK
      <4> QED
        BY <4>1, HeldKinds DEF HeldInv, IsHeld
    <3> QED
      BY <2>8, <3>1, <3>2
  <2> QED
    BY <1>2, <2>3, <2>4, <2>5, <2>6, <2>7, <2>8 DEF Step
<1> QED
  BY <1>1, <1>2 DEF Next, Terminated

LEMMA HeldInvariant ==
    ASSUME PlansInOrder
    PROVE  Spec => [](TypeOK /\ \A d \in Rank, k \in Key : HeldInv(d, k))
<1> DEFINE H == \A d \in Rank, k \in Key : HeldInv(d, k)
<1>1. Init => TypeOK /\ H
  BY TypeInit, HeldKinds DEF Init, NoTensors, HeldInv, IsHeld
<1>2. TypeOK /\ H /\ [Next]_vars => (TypeOK /\ H)'
  BY TypeStep, HeldStep
<1> QED
  BY <1>1, <1>2, PTL DEF Spec

\* Numbers less than n apart are n at most.
LEMMA Close ==
    ASSUME NEW S \in SUBSET Nat, NEW n \in Nat, \A j, k \in S : k - j < n
    PROVE  IsFiniteSet(S) /\ Cardinality(S) <= n
<1>1. CASE S = {}
  BY <1>1, FS_EmptySet
<1>2. CASE S # {}
  <2>1. PICK m \in S : \A y \in S : ~(<<y, m>> \in OpToRel(<, Nat))
    BY <1>2, WFMin, NatLessThanWellFounded
  <2>2. \A y \in S : ~(y < m)
    BY <2>1 DEF OpToRel
  <2>3. S \subseteq m .. (m + n) - 1
    <3> SUFFICES ASSUME NEW y \in S PROVE y \in m .. (m + n) - 1
      OBVIOUS
    <3>1. m \in Nat /\ y \in Nat /\ ~(y < m) /\ y - m < n
      BY <2>2
    <3> QED
      BY <3>1
  <2>4. IsFiniteSet(m .. (m + n) - 1) /\ Cardinality(m .. (m + n) - 1) = n
    BY FS_Interval
  <2> QED
    BY <2>3, <2>4, FS_Subset
<1> QED
  BY <1>1, <1>2

\* In training two microbatches that are both held are less than the warm-up apart.
LEMMA HeldClose ==
    ASSUME TypeOK, PlansInOrder, PlansAlternate, NEW d \in Rank, iteration[d] <= MaxIter, Training(d),
           NEW j \in Mb, NEW k \in Mb, Between(d, <<j, 0>>), Between(d, <<k, 0>>)
    PROVE  k - j < NumDev - d
<1> SUFFICES ASSUME k - j >= NumDev - d PROVE FALSE
  BY ConstantTypes DEF Mb, Rank
<1>1. /\ <<j, 0>> \in Key /\ <<k, 0>> \in Key /\ DOMAIN Program[d] \subseteq Int /\ pc[d] \in Int
  BY ConstantTypes DEF PlansAlternate, Key, Chunk, TypeOK
<1>2. PICK p \in TaskPlaces(Program[d], "F", <<k, 0>>) : p < pc[d]
  BY DEF Between, RanTask, RanOne, Ran, TaskPlaces
<1>3. PICK q : q \in TaskPlaces(Program[d], "B", <<j, 0>>)
  <2>1. TasksOnce(Program[d], Key) /\ "B" \in TaskTypes(Program[d])
    BY Ordered DEF TaskTypes
  <2>2. \E q : TaskPlaces(Program[d], "B", <<j, 0>>) = {q}
    BY <1>1, <2>1 DEF TasksOnce
  <2> QED
    BY <2>2
<1>4. q < p
  BY <1>2, <1>3 DEF PlansAlternate, Alternates, Mb
<1>5. q < pc[d]
  BY <1>1, <1>2, <1>3, <1>4 DEF TaskPlaces, PlacesFor
<1>6. q \in Ran(d)
  BY <1>3, <1>5 DEF Ran, Effective, Training, TaskPlaces, PlacesFor
<1> QED
  BY <1>3, <1>6 DEF Between, RanTask, RanOne, TaskPlaces

\* A rank of a one-forward-one-backward schedule never holds more activations
\* than its plan runs ahead and one: the buffers of the dispatcher keep nothing
\* longer.
THEOREM HoldsOnlyWarmUp ==
    ASSUME PlansInOrder, PlansAlternate
    PROVE  Spec => []ActivationBound
<1>1. ASSUME TypeOK, \A d \in Rank, k \in Key : HeldInv(d, k) PROVE ActivationBound
  <2> SUFFICES ASSUME NEW d \in Rank, iteration[d] <= MaxIter, Training(d)
               PROVE  Cardinality({k \in Key : IsHeld(d, k)}) <= NumDev - d
    BY DEF ActivationBound, IsHeld
  <2> DEFINE H == {k \in Key : IsHeld(d, k)}
             S == {m \in Mb : IsHeld(d, <<m, 0>>)}
  <2>1. Key = Mb \X {0} /\ Mb \subseteq Nat /\ NumDev - d \in Nat
    BY ConstantTypes DEF PlansAlternate, Key, Chunk, Mb, Rank
  <2>2. \A m \in S : Between(d, <<m, 0>>)
    BY <1>1, <2>1 DEF HeldInv
  <2>3. \A j, k \in S : k - j < NumDev - d
    BY <1>1, <2>2, HeldClose
  <2>4. IsFiniteSet(S) /\ Cardinality(S) <= NumDev - d
    BY <2>1, <2>3, Close
  <2>5. IsFiniteSet({0}) /\ Cardinality({0}) = 1
    BY FS_Singleton
  <2>6. IsFiniteSet(S \X {0}) /\ Cardinality(S \X {0}) = Cardinality(S)
    <3>1. Cardinality(S) \in Nat
      BY <2>4, FS_CardinalityType
    <3> HIDE DEF S
    <3>2. /\ IsFiniteSet(S \X {0})
          /\ Cardinality(S \X {0}) = Cardinality(S) * Cardinality({0})
      BY <2>4, <2>5, FS_Product
    <3> QED
      BY <2>5, <3>1, <3>2
  <2>7. H \subseteq S \X {0}
    BY <2>1
  <2>8. Cardinality(H) <= Cardinality(S \X {0})
    BY <2>6, <2>7, FS_Subset
  <2>9. Cardinality(H) \in Nat /\ Cardinality(S) \in Nat
    BY <2>4, <2>6, <2>7, FS_Subset, FS_CardinalityType
  <2> QED
    BY <2>1, <2>4, <2>6, <2>8, <2>9
<1>2. Spec => [](TypeOK /\ \A d \in Rank, k \in Key : HeldInv(d, k))
  BY HeldInvariant
<1> QED
  BY <1>1, <1>2, PTL
=============================================================================
