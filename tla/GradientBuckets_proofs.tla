------------------------ MODULE GradientBuckets_proofs ----------------------
(***************************************************************************)
(* What the bucket groups guarantee for any number of replicas and         *)
(* iterations, any models, groupings of parameters and schedules whose     *)
(* programs are in order (BucketPrograms), whatever updates are skipped    *)
(* and however launches and executions of collectives interleave.          *)
(*                                                                         *)
(* The invariant Inv says of each replica what its bookkeeping is at its   *)
(* place in the program (State), and of any two that they have got equally *)
(* many reductions of each group (AtSameReduction): the replicas compare   *)
(* through what has executed.                                              *)
(***************************************************************************)
EXTENDS BucketPrograms, FiniteSetTheorems, SequenceTheorems, TLAPS

-----------------------------------------------------------------------------
(* The state of a replica, by its place in the program: iteration i of     *)
(* configuration c, before place n (Len + 1 at the end).                   *)

Did(P, n, op, a) == \E q \in 1 .. n - 1 : P[q] = Op(op, a)
IsAt(P, n, op, a) == n \in DOMAIN P /\ P[n] = Op(op, a)

Registered(P, n, p) == \E q \in 1 .. n - 1 : P[q] = Op("backward", p) /\ Did(P, q, "sync", TRUE)

Launched(c, P, n, g) ==
    IF c.split THEN Did(P, n, "start", g) ELSE \A p \in Members(c, g) : Registered(P, n, p)

\* The parameters are already gathered when the iteration starts.
Ahead(c, i) == i > 1 /\ (i - 1) \in c.eval

GroupType(c, g, group) ==
    group \in [dispatched : BOOLEAN, gather : Nat, sync : Nat, reduce : Nat,
               ready : SUBSET Members(c, g), last : BOOLEAN]

RegisterOK(c, P, n, g, group) ==
    n > 1 =>
        /\ group.last = (~Did(P, n, "sync", FALSE) \/ Did(P, n, "sync", TRUE))
        /\ group.ready = {p \in Members(c, g) : c.overlap /\ Registered(P, n, p)}

ReduceOK(c, P, n, g, group) ==
    /\ group.reduce # 0 =>
          /\ n > 1 /\ ~Did(P, n, "finish", g)
          /\ IF c.overlap THEN Launched(c, P, n, g) ELSE IsAt(P, n, "finish", g)
    /\ n > 1 /\ c.overlap /\ Launched(c, P, n, g) /\ ~Did(P, n, "finish", g) => group.reduce # 0

SyncOK(sk, i, P, n, g, group) ==
    group.sync # 0 =>
        /\ group.gather = 0
        /\ IsAt(P, n, "force", g) \/ (IsAt(P, n, "gather", g) /\ i \notin sk)

GatherOK(c, i, P, n, g, group) ==
    /\ group.gather # 0 =>
          /\ c.gather /\ ~Ahead(c, i) /\ group.dispatched
          /\ ~Did(P, n, "hook", g) /\ (Did(P, n, "hook", g + 1) \/ IsAt(P, n, "hook", g))
    /\ c.gather /\ ~Did(P, n, "finish", g) =>
          /\ Ahead(c, i) \/ Did(P, n, "hook", g) => group.dispatched
          /\ group.dispatched => Ahead(c, i) \/ Did(P, n, "hook", g) \/ group.gather # 0
    /\ c.gather /\ Did(P, n, "finish", g) =>
          (group.dispatched <=> Did(P, n, "force", g) \/ group.sync # 0)

GroupOK(c, sk, i, P, n, g, group) ==
    /\ GroupType(c, g, group) /\ RegisterOK(c, P, n, g, group) /\ ReduceOK(c, P, n, g, group)
    /\ SyncOK(sk, i, P, n, g, group) /\ GatherOK(c, i, P, n, g, group)

\* The handles are those of the collectives that have not executed.
HandlesOK(g, group, ln) ==
    /\ group.gather # 0 => group.gather \in DOMAIN ln /\ ln[group.gather] = <<"gather", g>>
    /\ group.sync # 0 => group.sync \in DOMAIN ln /\ ln[group.sync] = <<"gather", g>>
    /\ group.reduce # 0 => group.reduce \in DOMAIN ln /\ ln[group.reduce] = <<"reduce", g>>

PendingOK(c, gs, ln, ex) ==
    \A m \in DOMAIN ln : m > ex => \E g \in GroupsOf(c) :
        \/ ln[m] = <<"gather", g>> /\ (gs[g].gather = m \/ gs[g].sync = m)
        \/ ln[m] = <<"reduce", g>> /\ gs[g].reduce = m

Full(c, g) == [s \in Replicas |-> [p \in Members(c, g) |-> NumMicrobatches(c)]]

SumsOK(c, P, n, g, group, ex, sum) ==
    n > 1 => sum = IF Did(P, n, "finish", g) \/ (group.reduce # 0 /\ group.reduce <= ex)
                   THEN <<Full(c, g)>> ELSE <<>>

GradsOK(c, P, n, gr) ==
    n > 1 => \A p \in ParamsOf(c) :
        gr[p] = Cardinality({q \in 1 .. n - 1 : P[q] = Op(Contributes(c), p)})

UpTo(sk, i) == Cardinality((1 .. i) \ sk)
UpdatesAt(sk, i, P, n) == IF Did(P, n, "step", 0) THEN UpTo(sk, i) ELSE UpTo(sk, i - 1)

IsCurrent(c, sk, i, P, n, g, group, ex) ==
    IF c.gather
    THEN group.dispatched /\ group.gather <= ex /\ group.sync <= ex
    ELSE \/ ~Did(P, n, "step", 0) \/ i \in sk \/ Did(P, n, "gather", g)
         \/ group.sync # 0 /\ group.sync <= ex

HeldOK(r, c, sk, i, P, n, g, group, ex, h) ==
    /\ h[r] = UpdatesAt(sk, i, P, n)
    /\ IsCurrent(c, sk, i, P, n, g, group, ex) => \A s \in Replicas : h[s] = UpdatesAt(sk, i, P, n)

GroupState(r, c, sk, i, P, n, g, group, ln, ex, sum, h) ==
    /\ GroupOK(c, sk, i, P, n, g, group)
    /\ HandlesOK(g, group, ln)
    /\ SumsOK(c, P, n, g, group, ex, sum)
    /\ h \in [Replicas -> 0 .. Iterations]
    /\ HeldOK(r, c, sk, i, P, n, g, group, ex, h)

\* The number of executed reductions of a group.
Reductions(i, n, sum) == IF n > 1 THEN (i - 1) + Len(sum) ELSE i - 1

-----------------------------------------------------------------------------
Prog(r) == Programs[config][pc[r].iter]
Place(r) == IF pc[r].state = "done" THEN pc[r].k + 1 ELSE pc[r].k

PcOK(r) ==
    /\ pc[r] \in [state : {"running", "done"}, iter : 1 .. Iterations, k : Nat \ {0}]
    /\ pc[r].k <= Len(Prog(r))
    /\ pc[r].state = "done" => pc[r].iter = Iterations /\ pc[r].k = Len(Prog(r))

Collectives(c) == {"gather", "reduce"} \X GroupsOf(c)

State(r, c, sk, i, P, n, gs, ln, ex, sm, hd, gr) ==
    /\ DOMAIN gs = GroupsOf(c) /\ DOMAIN hd = GroupsOf(c)
    /\ DOMAIN sm = GroupsOf(c) /\ DOMAIN gr = ParamsOf(c)
    /\ ln \in Seq(Collectives(c)) /\ ex <= Len(ln)
    /\ PendingOK(c, gs, ln, ex)
    /\ GradsOK(c, P, n, gr)
    /\ \A p \in ParamsOf(c) : gr[p] \in 0 .. NumMicrobatches(c)
    /\ \A g \in GroupsOf(c) : GroupState(r, c, sk, i, P, n, g, gs[g], ln, ex, sm[g], hd[g])

ReplicaOK(r) ==
    /\ PcOK(r)
    /\ State(r, config, skipped, pc[r].iter, Prog(r), Place(r), groups[r],
             launched[r], executed, sums[r], held[r], grads[r])

AtSameReduction ==
    \A r, s \in Replicas : \A g \in GroupsOf(config) :
        Reductions(pc[r].iter, Place(r), sums[r][g]) = Reductions(pc[s].iter, Place(s), sums[s][g])

Inv ==
    /\ config \in Configs /\ skipped \subseteq 1 .. Iterations /\ executed \in Nat
    /\ DOMAIN pc = Replicas /\ DOMAIN groups = Replicas /\ DOMAIN held = Replicas
    /\ DOMAIN grads = Replicas /\ DOMAIN sums = Replicas /\ DOMAIN launched = Replicas
    /\ \A r \in Replicas : ReplicaOK(r)
    /\ AtSameReduction

-----------------------------------------------------------------------------
(* Facts about programs.                                                   *)

LEMMA ConfigFacts ==
    ASSUME NEW c \in Configs
    PROVE  /\ c.gather => c.overlap
           /\ c.split => c.overlap
           /\ \A g \in GroupsOf(c) : g \in Nat \ {0} /\ (g > 1 => g - 1 \in GroupsOf(c))
<1>1. PICK k \in Nat : GroupsOf(c) = 1 .. k
  BY ConfigsAssumption, FS_CardinalityType
<1>2. (c.gather => c.overlap) /\ (c.split => c.overlap)
  BY ConfigsAssumption, Zenon
<1> QED
  BY <1>1, <1>2

LEMMA DidNext ==
    ASSUME NEW P, NEW n \in Nat \ {0}, NEW op, NEW a
    PROVE  Did(P, n + 1, op, a) <=> Did(P, n, op, a) \/ P[n] = Op(op, a)
<1>1. 1 .. (n + 1) - 1 = (1 .. n - 1) \cup {n}
  OBVIOUS
<1> QED
  BY <1>1, Zenon DEF Did

LEMMA DidSame ==
    ASSUME NEW P, NEW n \in Nat \ {0}, NEW op, NEW a, P[n] # Op(op, a)
    PROVE  Did(P, n + 1, op, a) <=> Did(P, n, op, a)
<1>1. Did(P, n + 1, op, a) <=> Did(P, n, op, a) \/ P[n] = Op(op, a)
  BY DidNext
<1> QED
  BY <1>1

LEMMA DidNow ==
    ASSUME NEW P, NEW n \in Nat \ {0}, NEW op, NEW a
    PROVE  /\ Did(P, n, op, a) => Did(P, n + 1, op, a)
           /\ P[n] = Op(op, a) => Did(P, n + 1, op, a)
<1>1. Did(P, n + 1, op, a) <=> Did(P, n, op, a) \/ P[n] = Op(op, a)
  BY DidNext
<1> QED
  BY <1>1

LEMMA DidFirst ==
    ASSUME NEW P, NEW op, NEW a
    PROVE  ~Did(P, 1, op, a)
BY DEF Did

LEMMA RegisteredNext ==
    ASSUME NEW P, NEW n \in Nat \ {0}, NEW p
    PROVE  Registered(P, n + 1, p) <=>
              Registered(P, n, p) \/ (P[n] = Op("backward", p) /\ Did(P, n, "sync", TRUE))
<1>1. 1 .. (n + 1) - 1 = (1 .. n - 1) \cup {n}
  OBVIOUS
<1> QED
  BY <1>1, Zenon DEF Registered

LEMMA OpDistinct ==
    ASSUME NEW op, NEW a, NEW op2, NEW b
    PROVE  /\ Op(op, a) = Op(op2, b) <=> op = op2 /\ a = b
           /\ Op(op, a).op = op /\ Op(op, a).args = a
BY DEF Op

LEMMA PlacesAre ==
    ASSUME NEW P, NEW op, NEW a, NEW q \in DOMAIN P, P[q] = Op(op, a)
    PROVE  q \in Places(P, op, a) /\ P[q].op = op /\ P[q].args = a
           /\ \A ops : op \in ops => q \in PlacesOfOp(P, ops)
BY OpDistinct DEF Places, PlacesOfOp

LEMMA DidIs ==
    ASSUME NEW c, NEW P, Typed(c, P), NEW n \in 1 .. Len(P) + 1, NEW op, NEW a
    PROVE  Did(P, n, op, a) <=> \E q \in Places(P, op, a) : q < n
<1>1. Len(P) \in Nat /\ DOMAIN P = 1 .. Len(P)
  BY DEF Typed
<1>2. \A q : q \in 1 .. n - 1 <=> q \in DOMAIN P /\ q < n
  BY <1>1
<1> QED
  BY <1>2, Zenon DEF Did, Places

\* Before the first group is finished.
LEMMA BeforeFinish ==
    ASSUME NEW c, NEW i, NEW P, ProgramInOrder(c, i, P), NEW n \in DOMAIN P,
           P[n].op \in {"sync", "hook", "backward", "wgrad", "start"}
    PROVE  /\ n > 1
           /\ \A g \in GroupsOf(c) :
                 /\ ~Did(P, n, "finish", g) /\ ~Did(P, n, "step", 0)
                 /\ ~Did(P, n, "force", g) /\ ~Did(P, n, "gather", g)
<1>1. DOMAIN P = 1 .. Len(P) /\ Len(P) \in Nat
  BY DEF ProgramInOrder, Typed
<1>2. n > 1
  BY <1>1 DEF ProgramInOrder, Phases
<1>3. n \in PlacesOfOp(P, {"sync", "hook", "backward", "wgrad", "start"})
  BY DEF PlacesOfOp
<1>4. \A q \in PlacesOfOp(P, {"finish"}) : n < q
  BY <1>3, Zenon DEF ProgramInOrder, Phases
<1>5. PICK s \in DOMAIN P : Places(P, "step", 0) = {s}
  BY Zenon DEF ProgramInOrder, Phases
<1>6. s \in PlacesOfOp(P, {"step"})
  BY <1>5, PlacesAre DEF Places
<1>7. ASSUME NEW g \in GroupsOf(c)
      PROVE  /\ ~Did(P, n, "finish", g) /\ ~Did(P, n, "step", 0)
             /\ ~Did(P, n, "force", g) /\ ~Did(P, n, "gather", g)
  <2>1. PICK f \in DOMAIN P : Places(P, "finish", g) = {f}
    BY Zenon DEF ProgramInOrder, FinishesOnce
  <2>2. f \in PlacesOfOp(P, {"finish"})
    BY <2>1, PlacesAre DEF Places
  <2>3. n < f /\ f < s
    BY <1>4, <1>6, <2>2 DEF ProgramInOrder, Phases
  <2>4. \A q \in 1 .. n - 1 : q \in DOMAIN P /\ q < n
    BY <1>1
  <2>5. \A q \in 1 .. n - 1 : q # f /\ q # s /\ q \notin PlacesOfOp(P, {"gather", "force"})
    <3>1. \A q \in PlacesOfOp(P, {"gather", "force"}) : s < q
      BY <1>6 DEF ProgramInOrder, Phases
    <3>2. \A q \in PlacesOfOp(P, {"gather", "force"}) : q \in Int
      BY <1>1 DEF PlacesOfOp
    <3> QED BY <1>1, <2>3, <2>4, <3>1, <3>2
  <2>6. ASSUME NEW q \in 1 .. n - 1
        PROVE  /\ P[q] # Op("finish", g) /\ P[q] # Op("step", 0)
               /\ P[q] # Op("force", g) /\ P[q] # Op("gather", g)
    <3>1. q \in DOMAIN P
      BY <2>4
    <3>2. P[q] # Op("finish", g) /\ P[q] # Op("step", 0)
      BY <1>5, <2>1, <2>5, <3>1 DEF Places
    <3>3. P[q].op \notin {"gather", "force"}
      BY <2>5, <3>1 DEF PlacesOfOp
    <3> QED BY <3>2, <3>3 DEF Op
  <2> QED BY <2>6 DEF Did
<1> QED
  BY <1>2, <1>7

-----------------------------------------------------------------------------
(* One group, in one step of its replica.                                  *)

\* The operation at place n is not about group g.
NotAbout(c, P, n, g) ==
    /\ \A op \in {"hook", "finish", "force", "gather", "start"} : P[n] # Op(op, g)
    /\ \A b \in BOOLEAN : P[n] # Op("sync", b)
    /\ \A p \in Members(c, g) : P[n] # Op("backward", p)

LEMMA LaunchedNext ==
    ASSUME NEW c, NEW P, NEW n \in Nat \ {0}, NEW g,
           P[n] # Op("start", g), \A p \in Members(c, g) : P[n] # Op("backward", p)
    PROVE  /\ Launched(c, P, n + 1, g) <=> Launched(c, P, n, g)
           /\ \A p \in Members(c, g) : Registered(P, n + 1, p) <=> Registered(P, n, p)
<1>1. Did(P, n + 1, "start", g) <=> Did(P, n, "start", g)
  BY DidSame
<1>2. \A p \in Members(c, g) : Registered(P, n + 1, p) <=> Registered(P, n, p)
  BY RegisteredNext
<1> QED
  BY <1>1, <1>2, Zenon DEF Launched

LEMMA Advance ==
    ASSUME NEW c, NEW sk, NEW i, NEW P, NEW n \in Nat, n > 1, NEW g, NEW group,
           GroupOK(c, sk, i, P, n, g, group), NotAbout(c, P, n, g)
    PROVE  GroupOK(c, sk, i, P, n + 1, g, group)
<1> n \in Nat \ {0} /\ n + 1 > 1
  OBVIOUS
<1>1. /\ P[n] # Op("hook", g) /\ P[n] # Op("finish", g) /\ P[n] # Op("force", g)
      /\ P[n] # Op("gather", g) /\ P[n] # Op("start", g)
      /\ P[n] # Op("sync", TRUE) /\ P[n] # Op("sync", FALSE)
      /\ \A p \in Members(c, g) : P[n] # Op("backward", p)
  BY DEF NotAbout
<1>2. /\ Did(P, n + 1, "finish", g) <=> Did(P, n, "finish", g)
      /\ Did(P, n + 1, "force", g) <=> Did(P, n, "force", g)
      /\ Did(P, n + 1, "hook", g) <=> Did(P, n, "hook", g)
      /\ Did(P, n + 1, "sync", TRUE) <=> Did(P, n, "sync", TRUE)
      /\ Did(P, n + 1, "sync", FALSE) <=> Did(P, n, "sync", FALSE)
      /\ Did(P, n, "hook", g + 1) => Did(P, n + 1, "hook", g + 1)
  BY <1>1, DidSame, DidNow
<1>3. /\ Launched(c, P, n + 1, g) <=> Launched(c, P, n, g)
      /\ \A p \in Members(c, g) : Registered(P, n + 1, p) <=> Registered(P, n, p)
  BY <1>1, LaunchedNext
<1>4. /\ ~IsAt(P, n, "hook", g) /\ ~IsAt(P, n, "finish", g)
      /\ ~IsAt(P, n, "force", g) /\ ~IsAt(P, n, "gather", g)
  BY <1>1 DEF IsAt
<1>5. RegisterOK(c, P, n + 1, g, group)
  BY <1>2, <1>3 DEF GroupOK, RegisterOK
<1>6. ReduceOK(c, P, n + 1, g, group)
  BY <1>2, <1>3, <1>4 DEF GroupOK, ReduceOK
<1>7. SyncOK(sk, i, P, n + 1, g, group)
  BY <1>4 DEF GroupOK, SyncOK
<1>8. GatherOK(c, i, P, n + 1, g, group)
  BY <1>2, <1>4 DEF GroupOK, GatherOK
<1> QED
  BY <1>5, <1>6, <1>7, <1>8 DEF GroupOK

\* No gather is synchronous but at its own operation.
LEMMA NoSync ==
    ASSUME NEW sk, NEW i, NEW P, NEW n, NEW g, NEW group, SyncOK(sk, i, P, n, g, group),
           P[n] # Op("force", g), P[n] # Op("gather", g)
    PROVE  group.sync = 0
BY DEF SyncOK, IsAt

LEMMA HookFacts ==
    ASSUME NEW c \in Configs, NEW i, NEW P, ProgramInOrder(c, i, P), NEW n \in DOMAIN P,
           NEW g, P[n] = Op("hook", g)
    PROVE  /\ c.gather /\ g \in GroupsOf(c)
           /\ n \in Nat /\ n > 1
           /\ \A k \in GroupsOf(c) : ~Did(P, n, "finish", k)
           /\ \A k \in GroupsOf(c) : P[n] # Op("force", k) /\ P[n] # Op("gather", k)
           /\ \A k \in GroupsOf(c) : k # g => NotAbout(c, P, n, k)
<1>1. P[n].op = "hook" /\ P[n].args = g
  BY DEF Op
<1>2. n \in PlacesOfOp(P, {"hook"})
  BY <1>1 DEF PlacesOfOp
<1>3. c.gather
  BY <1>2, Zenon DEF ProgramInOrder, HooksInOrder
<1>4. g \in GroupsOf(c)
  BY <1>1 DEF ProgramInOrder, Typed, Op
<1>5. n \in Nat /\ n > 1 /\ \A k \in GroupsOf(c) : ~Did(P, n, "finish", k)
  BY <1>1, BeforeFinish DEF ProgramInOrder, Typed
<1>6. \A k \in GroupsOf(c) : P[n] # Op("force", k) /\ P[n] # Op("gather", k)
  BY OpDistinct
<1>7. \A k \in GroupsOf(c) : k # g => NotAbout(c, P, n, k)
  BY OpDistinct DEF NotAbout
<1> QED
  BY <1>3, <1>4, <1>5, <1>6, <1>7

LEMMA HookStartGroup ==
    ASSUME NEW c \in Configs, NEW sk, NEW i, NEW P, ProgramInOrder(c, i, P), NEW n \in DOMAIN P,
           NEW g, NEW group, NEW handle \in Nat \ {0},
           GroupOK(c, sk, i, P, n, g, group), P[n] = Op("hook", g), ~group.dispatched
    PROVE  /\ group.gather = 0 /\ group.sync = 0
           /\ GroupOK(c, sk, i, P, n, g, [group EXCEPT !.gather = handle, !.dispatched = TRUE])
<1> DEFINE group2 == [group EXCEPT !.gather = handle, !.dispatched = TRUE]
<1>1. /\ GroupType(c, g, group) /\ RegisterOK(c, P, n, g, group) /\ ReduceOK(c, P, n, g, group)
      /\ SyncOK(sk, i, P, n, g, group) /\ GatherOK(c, i, P, n, g, group)
  BY DEF GroupOK
<1>2. c.gather /\ g \in GroupsOf(c) /\ ~Did(P, n, "finish", g)
  BY HookFacts
<1>3. group.gather = 0
  BY <1>1 DEF GatherOK
<1>4. group.sync = 0
  BY <1>1, OpDistinct, NoSync
<1>5. /\ group2.gather = handle /\ group2.dispatched = TRUE /\ group2.sync = group.sync
      /\ group2.reduce = group.reduce /\ group2.ready = group.ready /\ group2.last = group.last
      /\ GroupType(c, g, group2)
  BY <1>1 DEF GroupType
<1>6. RegisterOK(c, P, n, g, group2) /\ ReduceOK(c, P, n, g, group2) /\ SyncOK(sk, i, P, n, g, group2)
  BY <1>1, <1>4, <1>5 DEF RegisterOK, ReduceOK, SyncOK
<1>7. GatherOK(c, i, P, n, g, group2)
  <2>1. ~Ahead(c, i) /\ ~Did(P, n, "hook", g)
    BY <1>1, <1>2 DEF GatherOK
  <2>2. IsAt(P, n, "hook", g)
    BY DEF IsAt
  <2> QED BY <1>2, <1>5, <2>1, <2>2 DEF GatherOK
<1> QED
  BY <1>3, <1>4, <1>5, <1>6, <1>7 DEF GroupOK

LEMMA HookWaitGroup ==
    ASSUME NEW c \in Configs, NEW sk, NEW i, NEW P, ProgramInOrder(c, i, P), NEW n \in DOMAIN P,
           NEW g, NEW group, GroupOK(c, sk, i, P, n, g, group), P[n] = Op("hook", g), group.dispatched
    PROVE  /\ group.sync = 0
           /\ GroupOK(c, sk, i, P, n + 1, g, [group EXCEPT !.gather = 0])
<1> DEFINE group2 == [group EXCEPT !.gather = 0]
<1>1. /\ GroupType(c, g, group) /\ RegisterOK(c, P, n, g, group) /\ ReduceOK(c, P, n, g, group)
      /\ SyncOK(sk, i, P, n, g, group) /\ GatherOK(c, i, P, n, g, group)
  BY DEF GroupOK
<1>2. /\ c.gather /\ g \in GroupsOf(c) /\ n \in Nat \ {0} /\ n > 1 /\ ~Did(P, n, "finish", g)
  BY HookFacts
<1>3. group.sync = 0
  BY <1>1, OpDistinct, NoSync
<1>4. /\ group2.gather = 0 /\ group2.dispatched = group.dispatched /\ group2.sync = group.sync
      /\ group2.reduce = group.reduce /\ group2.ready = group.ready /\ group2.last = group.last
      /\ GroupType(c, g, group2)
  BY <1>1 DEF GroupType
<1>5. /\ Did(P, n + 1, "finish", g) <=> Did(P, n, "finish", g)
      /\ Did(P, n + 1, "hook", g)
      /\ Did(P, n + 1, "sync", TRUE) <=> Did(P, n, "sync", TRUE)
      /\ Did(P, n + 1, "sync", FALSE) <=> Did(P, n, "sync", FALSE)
  <2>1. P[n] # Op("finish", g) /\ \A b \in BOOLEAN : P[n] # Op("sync", b)
    BY OpDistinct
  <2>2. Did(P, n + 1, "finish", g) <=> Did(P, n, "finish", g)
    BY <1>2, <2>1, DidSame
  <2>3. Did(P, n + 1, "hook", g)
    BY <1>2, DidNow
  <2> QED BY <1>2, <2>1, <2>2, <2>3, DidSame
<1>6. /\ Launched(c, P, n + 1, g) <=> Launched(c, P, n, g)
      /\ \A p \in Members(c, g) : Registered(P, n + 1, p) <=> Registered(P, n, p)
  BY <1>2, LaunchedNext, OpDistinct
<1>7. ~IsAt(P, n, "finish", g)
  BY OpDistinct DEF IsAt
<1>8. RegisterOK(c, P, n + 1, g, group2)
  BY <1>1, <1>2, <1>4, <1>5, <1>6 DEF RegisterOK
<1>9. ReduceOK(c, P, n + 1, g, group2)
  BY <1>1, <1>2, <1>4, <1>5, <1>6, <1>7 DEF ReduceOK
<1>10. SyncOK(sk, i, P, n + 1, g, group2) /\ GatherOK(c, i, P, n + 1, g, group2)
  BY <1>2, <1>3, <1>4, <1>5 DEF SyncOK, GatherOK
<1> QED
  BY <1>3, <1>4, <1>8, <1>9, <1>10 DEF GroupOK

LEMMA HookNextGroup ==
    ASSUME NEW c \in Configs, NEW sk, NEW i, NEW P, ProgramInOrder(c, i, P), NEW n \in DOMAIN P,
           NEW g, g - 1 \in GroupsOf(c), NEW group, NEW next, NEW handle \in Nat \ {0},
           GroupOK(c, sk, i, P, n, g, group), GroupOK(c, sk, i, P, n, g - 1, next),
           P[n] = Op("hook", g), group.gather # 0
    PROVE  /\ next.gather = 0 /\ next.sync = 0
           /\ GroupOK(c, sk, i, P, n + 1, g - 1, [next EXCEPT !.gather = handle, !.dispatched = TRUE])
<1> DEFINE next2 == [next EXCEPT !.gather = handle, !.dispatched = TRUE]
           k == g - 1
<1>1. /\ GroupType(c, k, next) /\ RegisterOK(c, P, n, k, next) /\ ReduceOK(c, P, n, k, next)
      /\ SyncOK(sk, i, P, n, k, next) /\ GatherOK(c, i, P, n, k, next)
  BY DEF GroupOK
<1>2. /\ c.gather /\ g \in GroupsOf(c) /\ n \in Nat \ {0} /\ n > 1 /\ ~Did(P, n, "finish", k)
  BY HookFacts
<1>3. g \in Nat /\ k # g /\ k + 1 = g
  BY <1>2, ConfigFacts
<1>4. ~Ahead(c, i) /\ ~Did(P, n, "hook", g)
  BY DEF GroupOK, GatherOK
<1>5. ~Did(P, n + 1, "hook", k)
  <2> SUFFICES ASSUME NEW q \in 1 .. n, P[q] = Op("hook", k) PROVE FALSE
    BY <1>2 DEF Did
  <2>1. Typed(c, P) /\ HooksInOrder(c, P)
    BY Zenon DEF ProgramInOrder
  <2>2. q \in Places(P, "hook", k)
    BY <2>1, <1>2 DEF Typed, Places
  <2>3. PICK h \in Places(P, "hook", g) : h < q
    BY <1>2, <2>1, <2>2 DEF HooksInOrder
  <2>4. h \in DOMAIN P /\ P[h] = Op("hook", g) /\ h \in 1 .. n - 1
    BY <1>2, <2>1, <2>3 DEF Places, Typed
  <2> QED BY <1>4, <2>4 DEF Did
<1>6. ~IsAt(P, n, "hook", k) /\ ~IsAt(P, n, "finish", k)
  BY <1>3, OpDistinct DEF IsAt
<1>7. next.gather = 0
  BY <1>1, <1>3, <1>4, <1>6 DEF GatherOK
<1>8. next.sync = 0
  BY <1>1, OpDistinct, NoSync
<1>9. /\ next2.gather = handle /\ next2.dispatched = TRUE /\ next2.sync = next.sync
      /\ next2.reduce = next.reduce /\ next2.ready = next.ready /\ next2.last = next.last
      /\ GroupType(c, k, next2)
  BY <1>1 DEF GroupType
<1>10. /\ Did(P, n + 1, "finish", k) <=> Did(P, n, "finish", k)
       /\ Did(P, n + 1, "hook", g)
       /\ Did(P, n + 1, "sync", TRUE) <=> Did(P, n, "sync", TRUE)
       /\ Did(P, n + 1, "sync", FALSE) <=> Did(P, n, "sync", FALSE)
  <2>1. P[n] # Op("finish", k) /\ \A b \in BOOLEAN : P[n] # Op("sync", b)
    BY OpDistinct
  <2>2. Did(P, n + 1, "finish", k) <=> Did(P, n, "finish", k)
    BY <1>2, <2>1, DidSame
  <2>3. Did(P, n + 1, "hook", g)
    BY <1>2, DidNow
  <2> QED BY <1>2, <2>1, <2>2, <2>3, DidSame
<1>11. /\ Launched(c, P, n + 1, k) <=> Launched(c, P, n, k)
       /\ \A p \in Members(c, k) : Registered(P, n + 1, p) <=> Registered(P, n, p)
  BY <1>2, LaunchedNext, OpDistinct
<1>12. RegisterOK(c, P, n + 1, k, next2)
  BY <1>1, <1>2, <1>9, <1>10, <1>11 DEF RegisterOK
<1>13. ReduceOK(c, P, n + 1, k, next2)
  BY <1>1, <1>2, <1>6, <1>9, <1>10, <1>11 DEF ReduceOK
<1>14. SyncOK(sk, i, P, n + 1, k, next2)
  BY <1>8, <1>9 DEF SyncOK
<1>15. GatherOK(c, i, P, n + 1, k, next2)
  BY <1>2, <1>3, <1>4, <1>5, <1>9, <1>10 DEF GatherOK
<1> QED
  BY <1>7, <1>8, <1>9, <1>12, <1>13, <1>14, <1>15 DEF GroupOK

-----------------------------------------------------------------------------
(* The parts of GroupOK that an operation leaves alone.                    *)

LEMMA RegisterAdvance ==
    ASSUME NEW c, NEW P, NEW n \in Nat, n > 1, NEW g, NEW group, NEW group2,
           RegisterOK(c, P, n, g, group), group2.last = group.last, group2.ready = group.ready,
           \A b \in BOOLEAN : P[n] # Op("sync", b), \A p \in Members(c, g) : P[n] # Op("backward", p)
    PROVE  RegisterOK(c, P, n + 1, g, group2)
<1> n \in Nat \ {0}
  OBVIOUS
<1>1. /\ Did(P, n + 1, "sync", TRUE) <=> Did(P, n, "sync", TRUE)
      /\ Did(P, n + 1, "sync", FALSE) <=> Did(P, n, "sync", FALSE)
  BY DidSame
<1>2. \A p \in Members(c, g) : Registered(P, n + 1, p) <=> Registered(P, n, p)
  BY RegisteredNext
<1> QED
  BY <1>1, <1>2 DEF RegisterOK

LEMMA ReduceAdvance ==
    ASSUME NEW c, NEW P, NEW n \in Nat, n > 1, NEW g, NEW group, NEW group2,
           ReduceOK(c, P, n, g, group), group2.reduce = group.reduce,
           P[n] # Op("start", g), P[n] # Op("finish", g), \A p \in Members(c, g) : P[n] # Op("backward", p)
    PROVE  ReduceOK(c, P, n + 1, g, group2)
<1> n \in Nat \ {0}
  OBVIOUS
<1>1. Launched(c, P, n + 1, g) <=> Launched(c, P, n, g)
  BY LaunchedNext
<1>2. /\ Did(P, n + 1, "finish", g) <=> Did(P, n, "finish", g)
      /\ ~IsAt(P, n, "finish", g)
  BY DidSame DEF IsAt
<1> QED
  BY <1>1, <1>2 DEF ReduceOK

LEMMA GatherAdvance ==
    ASSUME NEW c, NEW i, NEW P, NEW n \in Nat \ {0}, NEW g, NEW group, NEW group2,
           GatherOK(c, i, P, n, g, group), group2.gather = group.gather,
           group2.sync = group.sync, group2.dispatched = group.dispatched,
           P[n] # Op("hook", g), P[n] # Op("finish", g), P[n] # Op("force", g)
    PROVE  GatherOK(c, i, P, n + 1, g, group2)
<1>1. /\ Did(P, n + 1, "finish", g) <=> Did(P, n, "finish", g)
      /\ Did(P, n + 1, "force", g) <=> Did(P, n, "force", g)
      /\ Did(P, n + 1, "hook", g) <=> Did(P, n, "hook", g)
      /\ Did(P, n, "hook", g + 1) => Did(P, n + 1, "hook", g + 1)
  BY DidSame, DidNow
<1>2. ~IsAt(P, n, "hook", g)
  BY DEF IsAt
<1> QED
  BY <1>1, <1>2 DEF GatherOK

LEMMA NoSyncOK ==
    ASSUME NEW sk, NEW i, NEW P, NEW n, NEW g, NEW group, group.sync = 0
    PROVE  SyncOK(sk, i, P, n, g, group)
BY DEF SyncOK

-----------------------------------------------------------------------------
(* The end of an iteration.                                                *)

\* Its hooks, starts and backward passes come before the finishes.
LEMMA ByFinish ==
    ASSUME NEW c \in Configs, NEW i, NEW P, ProgramInOrder(c, i, P),
           NEW f \in DOMAIN P, P[f].op = "finish", NEW n \in 1 .. Len(P) + 1, f <= n,
           NEW g \in GroupsOf(c)
    PROVE  /\ f > 1
           /\ c.gather => Did(P, n, "hook", g)
           /\ Launched(c, P, n, g)
<1>1. DOMAIN P = 1 .. Len(P) /\ Len(P) \in Nat
  BY DEF ProgramInOrder, Typed
<1>2. f > 1
  BY <1>1 DEF ProgramInOrder, Phases
<1>3. f \in PlacesOfOp(P, {"finish"})
  BY DEF PlacesOfOp
<1>4. \A b \in PlacesOfOp(P, {"sync", "hook", "backward", "wgrad", "start"}) : b < f
  BY <1>3, Zenon DEF ProgramInOrder, Phases
<1>5. \A q \in DOMAIN P : P[q].op \in {"sync", "hook", "backward", "wgrad", "start"} => q \in 1 .. n - 1
  BY <1>1, <1>4 DEF PlacesOfOp
<1>6. ASSUME c.gather PROVE Did(P, n, "hook", g)
  <2>1. PICK h \in Places(P, "hook", g) : TRUE
    BY <1>6, Zenon DEF ProgramInOrder, HooksInOrder
  <2> QED BY <2>1, <1>5, OpDistinct DEF Places, Did
<1>7. CASE c.split
  <2>1. PICK s \in DOMAIN P : Places(P, "start", g) = {s}
    BY <1>7, Zenon DEF ProgramInOrder, Starts
  <2>2. s \in DOMAIN P /\ P[s] = Op("start", g)
    BY <2>1 DEF Places
  <2> QED BY <1>2, <1>6, <1>7, <2>2, <1>5, OpDistinct DEF Launched, Did
<1>8. CASE ~c.split
  <2>1. PICK y \in DOMAIN P : Places(P, "sync", TRUE) = {y}
    BY Zenon DEF ProgramInOrder, SyncsOnce
  <2>2. P[y] = Op("sync", TRUE)
    BY <2>1 DEF Places
  <2>3. ASSUME NEW p \in Members(c, g) PROVE Registered(P, n, p)
    <3>1. p \in ParamsOf(c)
      BY DEF Members
    <3>2. PICK b \in DOMAIN P : {q \in Places(P, "backward", p) : y < q} = {b}
      BY <2>1, <3>1, Zenon DEF ProgramInOrder, BackwardsOnce
    <3>3. b \in DOMAIN P /\ P[b] = Op("backward", p) /\ y < b
      BY <3>2 DEF Places
    <3>4. b \in 1 .. n - 1
      BY <3>3, <1>5, OpDistinct
    <3>5. y \in 1 .. b - 1
      BY <1>1, <3>3
    <3>6. Did(P, b, "sync", TRUE)
      BY <2>2, <3>5, Zenon DEF Did
    <3> QED BY <3>3, <3>4, <3>6 DEF Registered
  <2> QED BY <1>2, <1>6, <1>8, <2>3 DEF Launched
<1> QED
  BY <1>7, <1>8

\* Once one group is finished.
LEMMA AfterFinish ==
    ASSUME NEW c \in Configs, NEW i, NEW P, ProgramInOrder(c, i, P),
           NEW n \in 1 .. Len(P) + 1, NEW k, Did(P, n, "finish", k), NEW g \in GroupsOf(c)
    PROVE  /\ n > 1
           /\ c.gather => Did(P, n, "hook", g)
           /\ Launched(c, P, n, g)
<1>1. DOMAIN P = 1 .. Len(P) /\ Len(P) \in Nat
  BY DEF ProgramInOrder, Typed
<1>2. PICK f \in 1 .. n - 1 : P[f] = Op("finish", k)
  BY DEF Did
<1>3. f \in DOMAIN P /\ f <= n /\ n > 1
  BY <1>1, <1>2
<1> QED
  BY <1>2, <1>3, ByFinish, OpDistinct

\* The operations after the step of the optimizer.
LEMMA TailFacts ==
    ASSUME NEW c \in Configs, NEW i, NEW P, ProgramInOrder(c, i, P),
           NEW n \in DOMAIN P, P[n].op \in {"gather", "force"}
    PROVE  /\ n \in Nat /\ n > 1
           /\ Did(P, n, "step", 0)
           /\ \A g \in GroupsOf(c) : Did(P, n, "finish", g)
           /\ P[n].op = "force" <=> c.gather
<1>1. DOMAIN P = 1 .. Len(P) /\ Len(P) \in Nat
  BY DEF ProgramInOrder, Typed
<1>2. n > 1
  BY <1>1 DEF ProgramInOrder, Phases
<1>3. PICK s \in DOMAIN P : Places(P, "step", 0) = {s}
  BY Zenon DEF ProgramInOrder, Phases
<1>4. P[s] = Op("step", 0) /\ s \in PlacesOfOp(P, {"step"})
  BY <1>3, PlacesAre DEF Places
<1>5. n \in PlacesOfOp(P, {"gather", "force"})
  BY DEF PlacesOfOp
<1>6. s < n
  BY <1>4, <1>5, Zenon DEF ProgramInOrder, Phases
<1>7. Did(P, n, "step", 0)
  BY <1>1, <1>4, <1>6 DEF Did
<1>8. ASSUME NEW g \in GroupsOf(c) PROVE Did(P, n, "finish", g)
  <2>1. PICK f \in DOMAIN P : Places(P, "finish", g) = {f}
    BY Zenon DEF ProgramInOrder, FinishesOnce
  <2>2. P[f] = Op("finish", g)
    BY <2>1 DEF Places
  <2>3. f \in PlacesOfOp(P, {"finish"})
    BY <2>2, PlacesAre
  <2>4. f < s
    BY <1>4, <2>3, Zenon DEF ProgramInOrder, Phases
  <2> QED BY <1>1, <1>6, <2>2, <2>4 DEF Did
<1>9. P[n].op = "force" <=> c.gather
  BY Zenon DEF ProgramInOrder, Gathers, PlacesOfOp
<1> QED
  BY <1>1, <1>2, <1>7, <1>8, <1>9

\* After its finish a group is not to be finished again, nor gathered before
\* the step.
LEMMA FinishFacts ==
    ASSUME NEW c \in Configs, NEW i, NEW P, ProgramInOrder(c, i, P),
           NEW n \in DOMAIN P, NEW g, P[n] = Op("finish", g)
    PROVE  /\ n \in Nat /\ n > 1 /\ g \in GroupsOf(c)
           /\ ~Did(P, n, "finish", g) /\ ~Did(P, n, "force", g) /\ ~Did(P, n, "step", 0)
           /\ Launched(c, P, n, g)
           /\ c.gather => Did(P, n, "hook", g)
<1>1. DOMAIN P = 1 .. Len(P) /\ Len(P) \in Nat
  BY DEF ProgramInOrder, Typed
<1>2. P[n].op = "finish" /\ n \in PlacesOfOp(P, {"finish"})
  BY OpDistinct DEF PlacesOfOp
<1>3. g \in GroupsOf(c)
  BY OpDistinct DEF ProgramInOrder, Typed
<1>4. /\ n > 1 /\ Launched(c, P, n, g) /\ (c.gather => Did(P, n, "hook", g))
  BY <1>1, <1>2, <1>3, ByFinish
<1>5. ~Did(P, n, "finish", g)
  <2>1. PICK f \in DOMAIN P : Places(P, "finish", g) = {f}
    BY <1>3, Zenon DEF ProgramInOrder, FinishesOnce
  <2>2. \A q \in DOMAIN P : P[q] = Op("finish", g) => q = n
    BY <2>1 DEF Places
  <2> QED BY <1>1, <2>2 DEF Did
<1>6. PICK s \in DOMAIN P : Places(P, "step", 0) = {s}
  BY Zenon DEF ProgramInOrder, Phases
<1>7. s \in PlacesOfOp(P, {"step"})
  BY <1>6, PlacesAre DEF Places
<1>8. n < s
  BY <1>2, <1>7, Zenon DEF ProgramInOrder, Phases
<1>9. ~Did(P, n, "step", 0)
  <2>1. \A q \in DOMAIN P : P[q] = Op("step", 0) => q = s
    BY <1>6 DEF Places
  <2> QED BY <1>1, <1>8, <2>1 DEF Did
<1>10. ~Did(P, n, "force", g)
  <2> SUFFICES ASSUME NEW q \in 1 .. n - 1, P[q] = Op("force", g) PROVE FALSE
    BY DEF Did
  <2>1. q \in DOMAIN P
    BY <1>1
  <2>2. q \in PlacesOfOp(P, {"gather", "force"})
    BY <2>1, PlacesAre
  <2>3. s < q
    BY <1>7, <2>2, Zenon DEF ProgramInOrder, Phases
  <2> QED BY <1>1, <1>8, <2>3
<1> QED
  BY <1>1, <1>3, <1>4, <1>5, <1>9, <1>10

-----------------------------------------------------------------------------
(* One group, in the other steps of its replica.                           *)

LEMMA SyncStartGroup ==
    ASSUME NEW c \in Configs, NEW sk, NEW i, NEW P, ProgramInOrder(c, i, P), NEW n \in DOMAIN P,
           NEW g \in GroupsOf(c), NEW group, NEW handle \in Nat \ {0}, GroupOK(c, sk, i, P, n, g, group),
           P[n] = Op("force", g) \/ (P[n] = Op("gather", g) /\ i \notin sk), group.gather = 0
    PROVE  GroupOK(c, sk, i, P, n, g, [group EXCEPT !.sync = handle, !.dispatched = TRUE])
<1> DEFINE group2 == [group EXCEPT !.sync = handle, !.dispatched = TRUE]
<1>1. /\ GroupType(c, g, group) /\ RegisterOK(c, P, n, g, group) /\ ReduceOK(c, P, n, g, group)
      /\ SyncOK(sk, i, P, n, g, group) /\ GatherOK(c, i, P, n, g, group)
  BY DEF GroupOK
<1>2. P[n].op \in {"gather", "force"}
  BY OpDistinct
<1>3. Did(P, n, "finish", g)
  BY <1>2, TailFacts
<1>4. /\ group2.sync = handle /\ group2.dispatched = TRUE /\ group2.gather = 0
      /\ group2.reduce = group.reduce /\ group2.ready = group.ready /\ group2.last = group.last
      /\ GroupType(c, g, group2)
  BY <1>1 DEF GroupType
<1>5. RegisterOK(c, P, n, g, group2) /\ ReduceOK(c, P, n, g, group2)
  BY <1>1, <1>4 DEF RegisterOK, ReduceOK
<1>6. SyncOK(sk, i, P, n, g, group2)
  BY <1>4 DEF SyncOK, IsAt
<1>7. GatherOK(c, i, P, n, g, group2)
  BY <1>3, <1>4 DEF GatherOK
<1> QED
  BY <1>4, <1>5, <1>6, <1>7 DEF GroupOK

LEMMA SyncEndGroup ==
    ASSUME NEW c \in Configs, NEW sk, NEW i, NEW P, ProgramInOrder(c, i, P), NEW n \in DOMAIN P,
           NEW g \in GroupsOf(c), NEW group, GroupOK(c, sk, i, P, n, g, group),
           P[n] = Op("force", g) \/ P[n] = Op("gather", g)
    PROVE  /\ group.gather = 0
           /\ group.sync # 0 \/ (P[n] = Op("gather", g) /\ i \in sk)
                => GroupOK(c, sk, i, P, n + 1, g, Gathered(group))
<1> DEFINE group2 == Gathered(group)
<1>1. /\ GroupType(c, g, group) /\ RegisterOK(c, P, n, g, group) /\ ReduceOK(c, P, n, g, group)
      /\ SyncOK(sk, i, P, n, g, group) /\ GatherOK(c, i, P, n, g, group)
  BY DEF GroupOK
<1>2. P[n].op \in {"gather", "force"}
  BY OpDistinct
<1>3. n \in Nat /\ n > 1 /\ Did(P, n, "finish", g) /\ (P[n].op = "force" <=> c.gather)
  BY <1>2, TailFacts
<1>4. n \in 1 .. Len(P) + 1
  BY DEF ProgramInOrder, Typed
<1>5. c.gather => Did(P, n, "hook", g)
  BY <1>3, <1>4, AfterFinish
<1>6. group.gather = 0
  BY <1>1, <1>5 DEF GatherOK
<1>7. SUFFICES ASSUME group.sync # 0 \/ (P[n] = Op("gather", g) /\ i \in sk)
               PROVE  GroupOK(c, sk, i, P, n + 1, g, group2)
  BY <1>6
<1>8. /\ group2.sync = 0 /\ group2.gather = 0 /\ group2.dispatched = group.dispatched
      /\ group2.reduce = group.reduce /\ group2.ready = group.ready /\ group2.last = group.last
      /\ GroupType(c, g, group2)
  BY <1>1 DEF GroupType, Gathered
<1>9. /\ P[n] # Op("start", g) /\ P[n] # Op("finish", g)
      /\ \A b \in BOOLEAN : P[n] # Op("sync", b)
      /\ \A p \in Members(c, g) : P[n] # Op("backward", p)
  BY OpDistinct
<1>10. RegisterOK(c, P, n + 1, g, group2) /\ ReduceOK(c, P, n + 1, g, group2)
  BY <1>1, <1>3, <1>8, <1>9, RegisterAdvance, ReduceAdvance
<1>11. GatherOK(c, i, P, n + 1, g, group2)
  <2>1. Did(P, n + 1, "finish", g)
    BY <1>3, DidNow
  <2>2. c.gather => P[n] = Op("force", g)
    BY <1>3, OpDistinct
  <2>3. c.gather => Did(P, n + 1, "force", g)
    BY <1>3, <2>2, DidNow
  <2>4. c.gather => group.sync # 0
    BY <2>2, <1>7, OpDistinct
  <2>5. c.gather => group.dispatched
    BY <2>4, <1>1, <1>3 DEF GatherOK
  <2> QED BY <1>8, <2>1, <2>3, <2>5 DEF GatherOK
<1> QED
  BY <1>8, <1>10, <1>11, NoSyncOK DEF GroupOK

LEMMA BeginGroup ==
    ASSUME NEW c \in Configs, NEW sk, NEW i, NEW P, ProgramInOrder(c, i, P),
           NEW g \in GroupsOf(c), NEW group, GroupOK(c, sk, i, P, 1, g, group)
    PROVE  group.gather = 0 /\ group.sync = 0 /\ group.reduce = 0
<1>1. /\ GroupType(c, g, group) /\ ReduceOK(c, P, 1, g, group)
      /\ SyncOK(sk, i, P, 1, g, group) /\ GatherOK(c, i, P, 1, g, group)
  BY DEF GroupOK
<1>2. P[1].op = "zero" /\ 1 \in DOMAIN P
  BY DEF ProgramInOrder, Phases, Typed
<1>3. \A op : op # "zero" => \A a : P[1] # Op(op, a)
  BY <1>2, OpDistinct
<1>4. ~Did(P, 1, "hook", g + 1) /\ ~IsAt(P, 1, "hook", g) /\ ~IsAt(P, 1, "force", g) /\ ~IsAt(P, 1, "gather", g)
  BY <1>3 DEF IsAt, Did
<1> QED
  BY <1>1, <1>4 DEF GatherOK, SyncOK, ReduceOK

LEMMA ZeroGroup ==
    ASSUME NEW c \in Configs, NEW sk, NEW i, NEW P, ProgramInOrder(c, i, P),
           NEW g \in GroupsOf(c), NEW group, GroupOK(c, sk, i, P, 1, g, group)
    PROVE  /\ group.gather = 0 /\ group.sync = 0 /\ group.reduce = 0
           /\ GroupOK(c, sk, i, P, 2, g, [group EXCEPT !.ready = {}, !.last = TRUE])
<1> DEFINE group2 == [group EXCEPT !.ready = {}, !.last = TRUE]
<1>1. /\ GroupType(c, g, group) /\ ReduceOK(c, P, 1, g, group)
      /\ SyncOK(sk, i, P, 1, g, group) /\ GatherOK(c, i, P, 1, g, group)
  BY DEF GroupOK
<1>2. P[1].op = "zero" /\ 1 \in DOMAIN P
  BY DEF ProgramInOrder, Phases, Typed
<1>3. \A op : op # "zero" => \A a : P[1] # Op(op, a)
  BY <1>2, OpDistinct
<1>4. \A op : op # "zero" => \A a : ~Did(P, 2, op, a)
  BY <1>3 DEF Did
<1>6. group.gather = 0 /\ group.sync = 0 /\ group.reduce = 0
  BY BeginGroup
<1>7. /\ group2.sync = 0 /\ group2.gather = 0 /\ group2.dispatched = group.dispatched
      /\ group2.reduce = 0 /\ group2.ready = {} /\ group2.last = TRUE
      /\ GroupType(c, g, group2)
  BY <1>1, <1>6 DEF GroupType
<1>8. \A p : ~Registered(P, 2, p)
  <2>1. \A q \in 1 .. 2 - 1 : q = 1
    OBVIOUS
  <2> QED BY <1>3, <2>1, Zenon DEF Registered
<1>9. RegisterOK(c, P, 2, g, group2)
  BY <1>4, <1>7, <1>8 DEF RegisterOK
<1>10. ~Launched(c, P, 2, g)
  <2>1. PICK p \in Members(c, g) : TRUE
    BY DEF GroupsOf, Members
  <2> QED BY <1>4, <1>8, <2>1 DEF Launched
<1>11. ReduceOK(c, P, 2, g, group2)
  BY <1>7, <1>10 DEF ReduceOK
<1>12. GatherOK(c, i, P, 2, g, group2)
  <2>1. P[1] # Op("hook", g) /\ P[1] # Op("finish", g) /\ P[1] # Op("force", g)
    BY <1>3
  <2>2. ASSUME NEW m \in Nat \ {0}, m = 1 PROVE GatherOK(c, i, P, m + 1, g, group2)
    BY <1>1, <1>6, <1>7, <2>1, <2>2, GatherAdvance
  <2>3. GatherOK(c, i, P, 1 + 1, g, group2)
    BY <2>2
  <2> QED BY <2>3
<1> QED
  BY <1>6, <1>7, <1>9, <1>11, <1>12, NoSyncOK DEF GroupOK

LEMMA SetSyncGroup ==
    ASSUME NEW c \in Configs, NEW sk, NEW i, NEW P, ProgramInOrder(c, i, P), NEW n \in DOMAIN P,
           NEW g \in GroupsOf(c), NEW group, GroupOK(c, sk, i, P, n, g, group),
           NEW last \in BOOLEAN, P[n] = Op("sync", last)
    PROVE  GroupOK(c, sk, i, P, n + 1, g, [group EXCEPT !.last = last])
<1> DEFINE group2 == [group EXCEPT !.last = last]
<1>1. /\ GroupType(c, g, group) /\ RegisterOK(c, P, n, g, group) /\ ReduceOK(c, P, n, g, group)
      /\ SyncOK(sk, i, P, n, g, group) /\ GatherOK(c, i, P, n, g, group)
  BY DEF GroupOK
<1>2. P[n].op = "sync"
  BY OpDistinct
<1>3. n \in Nat /\ n > 1 /\ n \in Nat \ {0}
  BY <1>2, BeforeFinish DEF ProgramInOrder, Typed
<1>4. /\ \A op \in {"hook", "finish", "force", "gather", "start"} : P[n] # Op(op, g)
      /\ \A p \in Members(c, g) : P[n] # Op("backward", p)
  BY <1>2, OpDistinct
<1>5. group.sync = 0
  BY <1>1, <1>4, NoSync
<1>6. /\ group2.sync = 0 /\ group2.gather = group.gather /\ group2.dispatched = group.dispatched
      /\ group2.reduce = group.reduce /\ group2.ready = group.ready /\ group2.last = last
      /\ GroupType(c, g, group2)
  BY <1>1, <1>5 DEF GroupType
<1>7. ReduceOK(c, P, n + 1, g, group2)
  BY <1>1, <1>3, <1>4, <1>6, ReduceAdvance
<1>8. GatherOK(c, i, P, n + 1, g, group2)
  BY <1>1, <1>3, <1>4, <1>5, <1>6, GatherAdvance
<1>9. \A p \in Members(c, g) : Registered(P, n + 1, p) <=> Registered(P, n, p)
  BY <1>3, <1>4, LaunchedNext
<1>10. Did(P, n + 1, "sync", last)
  BY <1>3, DidNow
<1>11. ~last => ~Did(P, n + 1, "sync", TRUE)
  <2>0. (n + 1) - 1 = n
    BY <1>3
  <2> SUFFICES ASSUME last = FALSE, NEW q \in 1 .. n, P[q] = Op("sync", TRUE) PROVE FALSE
    BY <2>0, Zenon DEF Did
  <2>1. DOMAIN P = 1 .. Len(P) /\ Len(P) \in Nat
    BY DEF ProgramInOrder, Typed
  <2>2. q \in DOMAIN P
    BY <1>3, <2>1
  <2>5. q \in Places(P, "sync", TRUE)
    BY <2>2, Zenon DEF Places
  <2>3. n \in Places(P, "sync", FALSE)
    BY DEF Places
  <2>4. n < q
    BY <2>5, <2>3, Zenon DEF ProgramInOrder, SyncsOnce
  <2> QED BY <1>3, <2>4
<1>12. last = (~Did(P, n + 1, "sync", FALSE) \/ Did(P, n + 1, "sync", TRUE))
  <2>1. CASE last = TRUE
    BY <1>10, <2>1
  <2>2. CASE last = FALSE
    BY <1>10, <1>11, <2>2
  <2> QED BY <2>1, <2>2
<1>13. RegisterOK(c, P, n + 1, g, group2)
  BY <1>1, <1>3, <1>6, <1>9, <1>12 DEF RegisterOK
<1> QED
  BY <1>6, <1>7, <1>8, <1>13, NoSyncOK DEF GroupOK

LEMMA BackwardFacts ==
    ASSUME NEW c \in Configs, NEW i, NEW P, ProgramInOrder(c, i, P), NEW n \in DOMAIN P,
           NEW p, P[n] = Op("backward", p)
    PROVE  /\ n \in Nat /\ n > 1 /\ p \in ParamsOf(c) /\ c.group[p] \in GroupsOf(c)
           /\ p \in Members(c, c.group[p])
           /\ ~Registered(P, n, p)
           /\ ~Did(P, n, "sync", TRUE) => Did(P, n, "sync", FALSE)
           /\ \A k \in GroupsOf(c) :
                 /\ ~Did(P, n, "finish", k)
                 /\ \A op \in {"hook", "finish", "force", "gather", "start"} : P[n] # Op(op, k)
                 /\ k # c.group[p] => NotAbout(c, P, n, k)
<1>1. DOMAIN P = 1 .. Len(P) /\ Len(P) \in Nat
  BY DEF ProgramInOrder, Typed
<1>2. P[n].op = "backward"
  BY OpDistinct
<1>3. n > 1 /\ \A k \in GroupsOf(c) : ~Did(P, n, "finish", k)
  BY <1>2, BeforeFinish
<1>4. p \in ParamsOf(c)
  BY OpDistinct DEF ProgramInOrder, Typed
<1>5. p \in Members(c, c.group[p]) /\ c.group[p] \in GroupsOf(c)
  BY <1>4 DEF Members, GroupsOf
<1>6. PICK y \in DOMAIN P : Places(P, "sync", TRUE) = {y}
  BY Zenon DEF ProgramInOrder, SyncsOnce
<1>7. y \in Places(P, "sync", TRUE) /\ \A q \in DOMAIN P : P[q] = Op("sync", TRUE) => q = y
  BY <1>6, Zenon DEF Places
<1>8. ~Registered(P, n, p)
  <2> SUFFICES ASSUME NEW q \in 1 .. n - 1, P[q] = Op("backward", p), Did(P, q, "sync", TRUE) PROVE FALSE
    BY DEF Registered
  <2>1. PICK b \in DOMAIN P : {x \in Places(P, "backward", p) : y < x} = {b}
    BY <1>4, <1>7, Zenon DEF ProgramInOrder, BackwardsOnce
  <2>2. PICK x \in 1 .. q - 1 : P[x] = Op("sync", TRUE)
    BY DEF Did
  <2>3. x \in DOMAIN P /\ x < q /\ q \in DOMAIN P /\ q < n
    BY <1>1
  <2>4. x = y
    BY <1>7, <2>2, <2>3, Zenon
  <2>5. q \in Places(P, "backward", p) /\ n \in Places(P, "backward", p)
    BY <2>3 DEF Places
  <2>6. y < q /\ y < n
    BY <1>1, <2>3, <2>4
  <2>7. q = b /\ n = b
    BY <2>1, <2>5, <2>6
  <2> QED BY <1>1, <2>3, <2>7
<1>9. ASSUME ~Did(P, n, "sync", TRUE) PROVE Did(P, n, "sync", FALSE)
  <2>1. y \notin 1 .. n - 1
    BY <1>9, <1>7, Zenon DEF Did, Places
  <2>2. y # n
    <3>1. P[y] = Op("sync", TRUE)
      BY <1>7, Zenon DEF Places
    <3>2. \A b \in BOOLEAN : Op("sync", b) # Op("backward", p)
      BY OpDistinct
    <3> QED BY <3>1, <3>2, Zenon
  <2>3. n < y
    BY <1>1, <2>1, <2>2
  <2>4. n \in PlacesOfOp(P, {"backward"})
    BY <1>2 DEF PlacesOfOp
  <2>5. PICK q \in Places(P, "sync", FALSE) : q < n
    BY <2>3, <2>4, <1>7, Zenon DEF ProgramInOrder, SyncsOnce
  <2>6. q \in DOMAIN P /\ P[q] = Op("sync", FALSE)
    BY <2>5, Zenon DEF Places
  <2>7. q \in 1 .. n - 1
    BY <1>1, <2>5, <2>6
  <2> QED BY <2>6, <2>7, Zenon DEF Did
<1>10. ASSUME NEW k \in GroupsOf(c)
       PROVE  /\ \A op \in {"hook", "finish", "force", "gather", "start"} : P[n] # Op(op, k)
              /\ k # c.group[p] => NotAbout(c, P, n, k)
  <2>1. \A op \in {"hook", "finish", "force", "gather", "start"} : P[n] # Op(op, k)
    BY OpDistinct
  <2>2. \A b \in BOOLEAN : P[n] # Op("sync", b)
    BY OpDistinct
  <2>3. k # c.group[p] => \A x \in Members(c, k) : P[n] # Op("backward", x)
    BY OpDistinct DEF Members
  <2> QED BY <2>1, <2>2, <2>3 DEF NotAbout
<1> QED
  <2>1. n \in Nat
    BY <1>1
  <2> QED BY <2>1, <1>3, <1>4, <1>5, <1>8, <1>9, <1>10, Zenon

\* The parameters registered, and whether the reduction starts, when the
\* gradient of p is computed.
ReadyWith(c, group, p) == IF c.overlap /\ group.last THEN group.ready \cup {p} ELSE group.ready
StartsNow(c, g, group, ready) == c.overlap /\ group.last /\ ~c.split /\ AllReady(c, g, ready)

LEMMA BackwardGroup ==
    ASSUME NEW c \in Configs, NEW sk, NEW i, NEW P, ProgramInOrder(c, i, P), NEW n \in DOMAIN P,
           NEW p, P[n] = Op("backward", p), NEW g, g = c.group[p], NEW group, NEW handle \in Nat \ {0},
           GroupOK(c, sk, i, P, n, g, group)
    PROVE  /\ ~(c.overlap /\ group.last /\ p \in group.ready)
           /\ StartsNow(c, g, group, ReadyWith(c, group, p)) => group.reduce = 0
           /\ group.sync = 0
           /\ GroupOK(c, sk, i, P, n + 1, g,
                 [group EXCEPT !.ready = ReadyWith(c, group, p),
                               !.reduce = IF StartsNow(c, g, group, ReadyWith(c, group, p)) THEN handle ELSE @])
<1> DEFINE ready == ReadyWith(c, group, p)
           starts == StartsNow(c, g, group, ready)
           group2 == [group EXCEPT !.ready = ready, !.reduce = IF starts THEN handle ELSE @]
<1>1. /\ GroupType(c, g, group) /\ RegisterOK(c, P, n, g, group) /\ ReduceOK(c, P, n, g, group)
      /\ SyncOK(sk, i, P, n, g, group) /\ GatherOK(c, i, P, n, g, group)
  BY DEF GroupOK
<1>2. /\ n \in Nat /\ n > 1 /\ n \in Nat \ {0} /\ g \in GroupsOf(c) /\ p \in Members(c, g)
      /\ ~Registered(P, n, p) /\ ~Did(P, n, "finish", g)
      /\ \A op \in {"hook", "finish", "force", "gather", "start"} : P[n] # Op(op, g)
      /\ (~Did(P, n, "sync", TRUE) => Did(P, n, "sync", FALSE))
  <2>1. /\ n \in Nat /\ n > 1 /\ g \in GroupsOf(c) /\ p \in Members(c, g)
        /\ ~Registered(P, n, p) /\ ~Did(P, n, "finish", g)
        /\ \A op \in {"hook", "finish", "force", "gather", "start"} : P[n] # Op(op, g)
        /\ (~Did(P, n, "sync", TRUE) => Did(P, n, "sync", FALSE))
    BY BackwardFacts, Zenon
  <2>2. n \in Nat \ {0}
    BY <2>1
  <2> QED BY <2>1, <2>2, Zenon
<1>3. \A b \in BOOLEAN : P[n] # Op("sync", b)
  BY OpDistinct
<1>4. group.sync = 0
  BY <1>1, <1>2, NoSync
<1>5. /\ group.last <=> Did(P, n, "sync", TRUE)
      /\ group.ready = {x \in Members(c, g) : c.overlap /\ Registered(P, n, x)}
  BY <1>1, <1>2 DEF RegisterOK
<1>6. p \notin group.ready
  BY <1>2, <1>5
<1>7. \A x \in Members(c, g) :
        Registered(P, n + 1, x) <=> Registered(P, n, x) \/ (x = p /\ group.last)
  <2>1. \A x : P[n] = Op("backward", x) <=> x = p
    BY OpDistinct
  <2> QED BY <1>2, <1>5, <2>1, RegisteredNext, ZenonT(60)
<1>8. ready = {x \in Members(c, g) : c.overlap /\ Registered(P, n + 1, x)}
  BY <1>2, <1>5, <1>7 DEF ReadyWith
<1> HIDE DEF ready
<1>9. ready \subseteq Members(c, g)
  BY <1>8
<1>10. /\ group2.sync = 0 /\ group2.gather = group.gather /\ group2.dispatched = group.dispatched
       /\ group2.last = group.last /\ group2.ready = ready
       /\ group2.reduce = (IF starts THEN handle ELSE group.reduce)
       /\ GroupType(c, g, group2)
  BY <1>1, <1>4, <1>9 DEF GroupType
<1>11. RegisterOK(c, P, n + 1, g, group2)
  <2>1. /\ Did(P, n + 1, "sync", TRUE) <=> Did(P, n, "sync", TRUE)
        /\ Did(P, n + 1, "sync", FALSE) <=> Did(P, n, "sync", FALSE)
    BY <1>2, <1>3, DidSame
  <2> QED BY <1>1, <1>2, <1>8, <1>10, <2>1 DEF RegisterOK
<1>12. starts <=> c.overlap /\ ~c.split /\ Launched(c, P, n + 1, g)
  <2>1. CASE c.split
    BY <2>1 DEF StartsNow
  <2>2. CASE ~c.overlap
    BY <2>2 DEF StartsNow
  <2>3. CASE ~c.split /\ c.overlap
    <3>1. Launched(c, P, n + 1, g) <=> \A x \in Members(c, g) : Registered(P, n + 1, x)
      BY <2>3, Zenon DEF Launched
    <3>2. AllReady(c, g, ready) <=> \A x \in Members(c, g) : Registered(P, n + 1, x)
      BY <1>8, <2>3 DEF AllReady
    <3>3. ~group.last => ~Registered(P, n + 1, p)
      BY <1>2, <1>7
    <3> QED BY <1>2, <2>3, <3>1, <3>2, <3>3 DEF StartsNow
  <2> QED BY <2>1, <2>2, <2>3
<1>13. ~c.split => ~Launched(c, P, n, g)
  BY <1>2, Zenon DEF Launched
<1>14. starts => group.reduce = 0
  BY <1>1, <1>12, <1>13 DEF ReduceOK
<1>15. c.split => (Launched(c, P, n + 1, g) <=> Launched(c, P, n, g))
  <2>1. Did(P, n + 1, "start", g) <=> Did(P, n, "start", g)
    BY <1>2, DidSame
  <2> QED BY <2>1, Zenon DEF Launched
<1>16. ReduceOK(c, P, n + 1, g, group2)
  <2>1. ~Did(P, n + 1, "finish", g)
    <3>1. P[n] # Op("finish", g)
      BY <1>2
    <3> QED BY <1>2, <3>1, DidSame
  <2>2. ~IsAt(P, n, "finish", g)
    BY <1>2 DEF IsAt
  <2>3. CASE starts
    BY <1>2, <1>10, <1>12, <2>1, <2>3 DEF ReduceOK
  <2>4. CASE ~starts
    BY <1>1, <1>2, <1>10, <1>12, <1>13, <1>15, <2>1, <2>2, <2>4 DEF ReduceOK
  <2> QED BY <2>3, <2>4
<1>17. GatherOK(c, i, P, n + 1, g, group2)
  <2>1. P[n] # Op("hook", g) /\ P[n] # Op("finish", g) /\ P[n] # Op("force", g)
    BY <1>2
  <2> QED BY <1>1, <1>2, <1>4, <1>10, <2>1, GatherAdvance
<1> QED
  BY <1>4, <1>6, <1>10, <1>11, <1>14, <1>16, <1>17, NoSyncOK DEF GroupOK, ready

LEMMA StartFacts ==
    ASSUME NEW c \in Configs, NEW i, NEW P, ProgramInOrder(c, i, P), NEW n \in DOMAIN P,
           NEW g, P[n] = Op("start", g)
    PROVE  /\ n \in Nat /\ n > 1 /\ g \in GroupsOf(c) /\ c.split /\ c.overlap
           /\ ~Did(P, n, "start", g)
           /\ \A k \in GroupsOf(c) :
                 /\ ~Did(P, n, "finish", k)
                 /\ k # g => NotAbout(c, P, n, k)
<1>1. DOMAIN P = 1 .. Len(P) /\ Len(P) \in Nat
  BY DEF ProgramInOrder, Typed
<1>2. P[n].op = "start" /\ n \in PlacesOfOp(P, {"start", "wgrad"})
  BY OpDistinct DEF PlacesOfOp
<1>3. n > 1 /\ \A k \in GroupsOf(c) : ~Did(P, n, "finish", k)
  BY <1>2, BeforeFinish
<1>4. g \in GroupsOf(c)
  BY OpDistinct DEF ProgramInOrder, Typed
<1>5. c.split
  BY <1>2, Zenon DEF ProgramInOrder, Starts
<1>6. c.overlap
  BY <1>5, ConfigFacts, Zenon
<1>7. ~Did(P, n, "start", g)
  <2>1. PICK s \in DOMAIN P : Places(P, "start", g) = {s}
    BY <1>4, <1>5, Zenon DEF ProgramInOrder, Starts
  <2>2. \A q \in DOMAIN P : P[q] = Op("start", g) => q = n
    BY <2>1 DEF Places
  <2> QED BY <1>1, <2>2 DEF Did
<1>8. \A k \in GroupsOf(c) : k # g => NotAbout(c, P, n, k)
  BY OpDistinct DEF NotAbout
<1> QED
  BY <1>1, <1>3, <1>4, <1>5, <1>6, <1>7, <1>8

LEMMA StartGroup ==
    ASSUME NEW c \in Configs, NEW sk, NEW i, NEW P, ProgramInOrder(c, i, P), NEW n \in DOMAIN P,
           NEW g, P[n] = Op("start", g), NEW group, NEW handle \in Nat \ {0},
           GroupOK(c, sk, i, P, n, g, group)
    PROVE  /\ group.reduce = 0 /\ group.sync = 0
           /\ GroupOK(c, sk, i, P, n + 1, g, [group EXCEPT !.reduce = handle])
<1> DEFINE group2 == [group EXCEPT !.reduce = handle]
<1>1. /\ GroupType(c, g, group) /\ RegisterOK(c, P, n, g, group) /\ ReduceOK(c, P, n, g, group)
      /\ SyncOK(sk, i, P, n, g, group) /\ GatherOK(c, i, P, n, g, group)
  BY DEF GroupOK
<1>2. /\ n \in Nat /\ n > 1 /\ n \in Nat \ {0} /\ g \in GroupsOf(c) /\ c.split /\ c.overlap
      /\ ~Did(P, n, "start", g) /\ ~Did(P, n, "finish", g)
  BY StartFacts
<1>3. /\ P[n] # Op("hook", g) /\ P[n] # Op("finish", g) /\ P[n] # Op("force", g) /\ P[n] # Op("gather", g)
      /\ \A b \in BOOLEAN : P[n] # Op("sync", b)
      /\ \A p \in Members(c, g) : P[n] # Op("backward", p)
  BY OpDistinct
<1>4. group.sync = 0
  BY <1>1, <1>3, NoSync
<1>5. /\ group2.sync = 0 /\ group2.gather = group.gather /\ group2.dispatched = group.dispatched
      /\ group2.last = group.last /\ group2.ready = group.ready /\ group2.reduce = handle
      /\ GroupType(c, g, group2)
  BY <1>1, <1>4 DEF GroupType
<1>6. group.reduce = 0
  <2>1. ~Launched(c, P, n, g)
    BY <1>2, Zenon DEF Launched
  <2> QED BY <1>1, <1>2, <2>1 DEF ReduceOK
<1>7. ReduceOK(c, P, n + 1, g, group2)
  <2>1. Launched(c, P, n + 1, g)
    <3>1. Did(P, n + 1, "start", g)
      BY <1>2, DidNow
    <3> QED BY <1>2, <3>1, Zenon DEF Launched
  <2>2. ~Did(P, n + 1, "finish", g)
    BY <1>2, <1>3, DidSame
  <2> QED BY <1>2, <1>5, <2>1, <2>2 DEF ReduceOK
<1>8. RegisterOK(c, P, n + 1, g, group2)
  BY <1>1, <1>2, <1>3, <1>5, RegisterAdvance
<1>9. GatherOK(c, i, P, n + 1, g, group2)
  BY <1>1, <1>2, <1>3, <1>4, <1>5, GatherAdvance
<1> QED
  BY <1>4, <1>5, <1>6, <1>7, <1>8, <1>9, NoSyncOK DEF GroupOK

LEMMA FinishStartsGroup ==
    ASSUME NEW c \in Configs, NEW sk, NEW i, NEW P, ProgramInOrder(c, i, P), NEW n \in DOMAIN P,
           NEW g, P[n] = Op("finish", g), NEW group, NEW handle \in Nat \ {0},
           GroupOK(c, sk, i, P, n, g, group), ~c.overlap
    PROVE  GroupOK(c, sk, i, P, n, g, [group EXCEPT !.reduce = handle])
<1> DEFINE group2 == [group EXCEPT !.reduce = handle]
<1>1. /\ GroupType(c, g, group) /\ RegisterOK(c, P, n, g, group) /\ ReduceOK(c, P, n, g, group)
      /\ SyncOK(sk, i, P, n, g, group) /\ GatherOK(c, i, P, n, g, group)
  BY DEF GroupOK
<1>2. n > 1 /\ ~Did(P, n, "finish", g) /\ IsAt(P, n, "finish", g)
  BY FinishFacts DEF IsAt
<1>3. /\ group2.sync = group.sync /\ group2.gather = group.gather /\ group2.dispatched = group.dispatched
      /\ group2.last = group.last /\ group2.ready = group.ready /\ group2.reduce = handle
      /\ GroupType(c, g, group2)
  BY <1>1 DEF GroupType
<1> HIDE DEF group2
<1>4. RegisterOK(c, P, n, g, group2) /\ SyncOK(sk, i, P, n, g, group2)
  <2>1. RegisterOK(c, P, n, g, group2)
    BY <1>1, <1>3 DEF RegisterOK
  <2>2. SyncOK(sk, i, P, n, g, group2)
    BY <1>1, <1>3 DEF SyncOK
  <2> QED BY <2>1, <2>2
<1>5. ReduceOK(c, P, n, g, group2)
  BY <1>2, <1>3 DEF ReduceOK
<1>6. GatherOK(c, i, P, n, g, group2)
  BY <1>1, <1>3 DEF GatherOK
<1> QED
  BY <1>3, <1>4, <1>5, <1>6 DEF GroupOK, group2

LEMMA FinishGroup ==
    ASSUME NEW c \in Configs, NEW sk, NEW i, NEW P, ProgramInOrder(c, i, P), NEW n \in DOMAIN P,
           NEW g, P[n] = Op("finish", g), NEW group, GroupOK(c, sk, i, P, n, g, group)
    PROVE  /\ c.overlap => group.reduce # 0
           /\ group.gather = 0 /\ group.sync = 0
           /\ GroupOK(c, sk, i, P, n + 1, g, Finished(group))
<1> DEFINE group2 == Finished(group)
<1>1. /\ GroupType(c, g, group) /\ RegisterOK(c, P, n, g, group) /\ ReduceOK(c, P, n, g, group)
      /\ SyncOK(sk, i, P, n, g, group) /\ GatherOK(c, i, P, n, g, group)
  BY DEF GroupOK
<1>2. /\ n \in Nat /\ n > 1 /\ n \in Nat \ {0} /\ ~Did(P, n, "finish", g) /\ ~Did(P, n, "force", g)
      /\ Launched(c, P, n, g) /\ (c.gather => Did(P, n, "hook", g))
  <2>1. /\ n \in Nat /\ n > 1 /\ ~Did(P, n, "finish", g) /\ ~Did(P, n, "force", g)
        /\ Launched(c, P, n, g) /\ (c.gather => Did(P, n, "hook", g))
    BY FinishFacts, Zenon
  <2>2. n \in Nat \ {0}
    BY <2>1
  <2> QED BY <2>1, <2>2, Zenon
<1>3. /\ P[n] # Op("start", g) /\ P[n] # Op("hook", g) /\ P[n] # Op("force", g) /\ P[n] # Op("gather", g)
      /\ \A b \in BOOLEAN : P[n] # Op("sync", b)
      /\ \A p \in Members(c, g) : P[n] # Op("backward", p)
  BY OpDistinct
<1>4. c.overlap => group.reduce # 0
  BY <1>1, <1>2 DEF ReduceOK
<1>5. group.sync = 0
  BY <1>1, <1>3, NoSync
<1>6. group.gather = 0
  BY <1>1, <1>2 DEF GatherOK
<1>7. /\ group2.sync = 0 /\ group2.gather = 0 /\ group2.dispatched = FALSE
      /\ group2.last = group.last /\ group2.ready = group.ready /\ group2.reduce = 0
      /\ GroupType(c, g, group2)
  BY <1>1, <1>5, <1>6 DEF GroupType, Finished
<1>8. Did(P, n + 1, "finish", g) /\ (Did(P, n + 1, "force", g) <=> Did(P, n, "force", g))
  BY <1>2, <1>3, DidNow, DidSame
<1>9. RegisterOK(c, P, n + 1, g, group2)
  BY <1>1, <1>2, <1>3, <1>7, RegisterAdvance
<1>10. ReduceOK(c, P, n + 1, g, group2)
  BY <1>7, <1>8 DEF ReduceOK
<1>11. GatherOK(c, i, P, n + 1, g, group2)
  BY <1>2, <1>7, <1>8 DEF GatherOK
<1> QED
  BY <1>4, <1>5, <1>6, <1>7, <1>9, <1>10, <1>11, NoSyncOK DEF GroupOK

\* What is done at the end of a program.
LEMMA EndFacts ==
    ASSUME NEW c \in Configs, NEW i, NEW P, ProgramInOrder(c, i, P), NEW g \in GroupsOf(c)
    PROVE  /\ Len(P) \in Nat /\ Len(P) + 1 > 1 /\ Len(P) + 1 \in 1 .. Len(P) + 1
           /\ Did(P, Len(P) + 1, "finish", g) /\ Did(P, Len(P) + 1, "step", 0)
           /\ c.gather => Did(P, Len(P) + 1, "hook", g)
           /\ c.gather => (Did(P, Len(P) + 1, "force", g) <=> Forced(c, i))
           /\ ~c.gather => Did(P, Len(P) + 1, "gather", g)
<1> DEFINE n == Len(P) + 1
<1>1. DOMAIN P = 1 .. Len(P) /\ Len(P) \in Nat /\ n \in 1 .. Len(P) + 1
  BY DEF ProgramInOrder, Typed
<1>2. n - 1 = Len(P)
  BY <1>1
<1>3. \A op, a : Did(P, n, op, a) <=> Places(P, op, a) # {}
  BY <1>1, <1>2, Zenon DEF Did, Places
<1>4. Did(P, n, "finish", g)
  BY <1>3, Zenon DEF ProgramInOrder, FinishesOnce
<1>5. Did(P, n, "step", 0)
  BY <1>3, Zenon DEF ProgramInOrder, Phases
<1>6. n > 1 /\ (c.gather => Did(P, n, "hook", g))
  BY <1>1, <1>4, AfterFinish
<1>7. ~c.gather => Did(P, n, "gather", g)
  BY <1>3, Zenon DEF ProgramInOrder, Gathers
<1>8. c.gather /\ Forced(c, i) => Did(P, n, "force", g)
  BY <1>3, Zenon DEF ProgramInOrder, Gathers
<1>9. ASSUME c.gather, ~Forced(c, i) PROVE ~Did(P, n, "force", g)
  <2>1. PlacesOfOp(P, {"force"}) = {}
    BY <1>9, Zenon DEF ProgramInOrder, Gathers
  <2>2. Places(P, "force", g) \subseteq PlacesOfOp(P, {"force"})
    BY OpDistinct DEF Places, PlacesOfOp
  <2>3. Places(P, "force", g) = {}
    BY <2>1, <2>2
  <2> QED BY <1>3, <2>3, Zenon
<1> HIDE DEF n
<1>10. c.gather => (Did(P, n, "force", g) <=> Forced(c, i))
  BY <1>8, <1>9, Zenon
<1>11. Len(P) \in Nat /\ n > 1 /\ n \in 1 .. Len(P) + 1
  BY <1>1, <1>6
<1> QED
  BY <1>11, <1>4, <1>5, <1>6, <1>7, <1>10, Zenon DEF n

\* Nothing outlives its iteration.
LEMMA EndGroup ==
    ASSUME NEW c \in Configs, NEW sk, NEW i, NEW P, ProgramInOrder(c, i, P),
           NEW g \in GroupsOf(c), NEW group, GroupOK(c, sk, i, P, Len(P) + 1, g, group)
    PROVE  group.gather = 0 /\ group.sync = 0 /\ group.reduce = 0
<1> DEFINE n == Len(P) + 1
<1>1. /\ GroupType(c, g, group) /\ ReduceOK(c, P, n, g, group)
      /\ SyncOK(sk, i, P, n, g, group) /\ GatherOK(c, i, P, n, g, group)
  BY DEF GroupOK
<1>2. /\ Len(P) \in Nat /\ n \notin DOMAIN P /\ Did(P, n, "finish", g)
      /\ (c.gather => Did(P, n, "hook", g))
      /\ (c.gather => (Did(P, n, "force", g) <=> Forced(c, i)))
  <2>1. /\ Len(P) \in Nat /\ Did(P, n, "finish", g)
        /\ (c.gather => Did(P, n, "hook", g))
        /\ (c.gather => (Did(P, n, "force", g) <=> Forced(c, i)))
    BY EndFacts, Zenon
  <2>2. n \notin DOMAIN P
    BY <2>1 DEF ProgramInOrder, Typed
  <2> QED BY <2>1, <2>2, Zenon
<1>3. group.gather = 0 /\ group.sync = 0 /\ group.reduce = 0
  BY <1>1, <1>2 DEF ReduceOK, SyncOK, GatherOK, IsAt
<1> QED
  BY <1>3

LEMMA IterationEndGroup ==
    ASSUME NEW c \in Configs, NEW sk, NEW i \in Nat \ {0}, NEW P, ProgramInOrder(c, i, P),
           NEW P2, ProgramInOrder(c, i + 1, P2),
           NEW g \in GroupsOf(c), NEW group, GroupOK(c, sk, i, P, Len(P) + 1, g, group)
    PROVE  /\ group.gather = 0 /\ group.sync = 0 /\ group.reduce = 0
           /\ i # Iterations => GroupOK(c, sk, i + 1, P2, 1, g, group)
<1> DEFINE n == Len(P) + 1
<1>1. /\ GroupType(c, g, group) /\ ReduceOK(c, P, n, g, group)
      /\ SyncOK(sk, i, P, n, g, group) /\ GatherOK(c, i, P, n, g, group)
  BY DEF GroupOK
<1>2. /\ Len(P) \in Nat /\ n \notin DOMAIN P /\ Did(P, n, "finish", g)
      /\ (c.gather => Did(P, n, "hook", g))
      /\ (c.gather => (Did(P, n, "force", g) <=> Forced(c, i)))
  <2>1. /\ Len(P) \in Nat /\ Did(P, n, "finish", g)
        /\ (c.gather => Did(P, n, "hook", g))
        /\ (c.gather => (Did(P, n, "force", g) <=> Forced(c, i)))
    BY EndFacts, Zenon
  <2>2. n \notin DOMAIN P
    BY <2>1 DEF ProgramInOrder, Typed
  <2> QED BY <2>1, <2>2, Zenon
<1>3. group.gather = 0 /\ group.sync = 0 /\ group.reduce = 0
  BY EndGroup
<1>4. SUFFICES ASSUME i # Iterations PROVE GroupOK(c, sk, i + 1, P2, 1, g, group)
  BY <1>3
<1>5. Ahead(c, i + 1) <=> Forced(c, i)
  BY <1>4 DEF Ahead, Forced
<1>6. \A op, a : ~Did(P2, 1, op, a)
  BY DidFirst
<1>7. RegisterOK(c, P2, 1, g, group) /\ ReduceOK(c, P2, 1, g, group) /\ SyncOK(sk, i + 1, P2, 1, g, group)
  BY <1>3 DEF RegisterOK, ReduceOK, SyncOK
<1>8. GatherOK(c, i + 1, P2, 1, g, group)
  <2>1. c.gather => (group.dispatched <=> Forced(c, i))
    BY <1>1, <1>2, <1>3 DEF GatherOK
  <2> QED BY <1>3, <1>5, <1>6, <2>1 DEF GatherOK
<1> QED
  BY <1>1, <1>7, <1>8 DEF GroupOK

LEMMA OtherGroups ==
    ASSUME NEW c, NEW P, NEW n, NEW op, NEW a, P[n] = Op(op, a), NEW k
    PROVE  /\ op \in {"hook", "finish", "force", "gather", "start"} /\ k # a => NotAbout(c, P, n, k)
           /\ op \in {"wgrad", "step", "use"} => NotAbout(c, P, n, k)
BY OpDistinct DEF NotAbout

-----------------------------------------------------------------------------
(* The collectives of a group, its reductions and its parameters.          *)

Extends(ln, ln2) == \A m \in DOMAIN ln : m \in DOMAIN ln2 /\ ln2[m] = ln[m]

LEMMA HandlesKept ==
    ASSUME NEW g, NEW group, NEW group2, NEW ln, NEW ln2, HandlesOK(g, group, ln), Extends(ln, ln2),
           group2.gather \in {0, group.gather}, group2.sync \in {0, group.sync},
           group2.reduce \in {0, group.reduce}
    PROVE  HandlesOK(g, group2, ln2)
BY DEF HandlesOK, Extends

\* A handle is only forgotten once its collective executed, and the new
\* collective, if any, has a handle.
LEMMA PendingStep ==
    ASSUME NEW c, NEW gs, NEW gs2, NEW ln, NEW ln2, NEW ex \in Nat, PendingOK(c, gs, ln, ex),
           \A m \in DOMAIN ln2 : (m \in DOMAIN ln /\ ln2[m] = ln[m])
                \/ \E g \in GroupsOf(c) :
                      \/ ln2[m] = <<"gather", g>> /\ (gs2[g].gather = m \/ gs2[g].sync = m)
                      \/ ln2[m] = <<"reduce", g>> /\ gs2[g].reduce = m,
           \A g \in GroupsOf(c) :
              /\ gs[g].gather = gs2[g].gather \/ gs[g].gather <= ex
              /\ gs[g].sync = gs2[g].sync \/ gs[g].sync <= ex
              /\ gs[g].reduce = gs2[g].reduce \/ gs[g].reduce <= ex,
           DOMAIN ln \subseteq Nat
    PROVE  PendingOK(c, gs2, ln2, ex)
<1> SUFFICES ASSUME NEW m \in DOMAIN ln2, m > ex
             PROVE  \E g \in GroupsOf(c) :
                      \/ ln2[m] = <<"gather", g>> /\ (gs2[g].gather = m \/ gs2[g].sync = m)
                      \/ ln2[m] = <<"reduce", g>> /\ gs2[g].reduce = m
  BY DEF PendingOK
<1>1. SUFFICES ASSUME m \in DOMAIN ln, ln2[m] = ln[m]
               PROVE  \E g \in GroupsOf(c) :
                        \/ ln2[m] = <<"gather", g>> /\ (gs2[g].gather = m \/ gs2[g].sync = m)
                        \/ ln2[m] = <<"reduce", g>> /\ gs2[g].reduce = m
  OBVIOUS
<1>2. PICK g \in GroupsOf(c) : \/ ln[m] = <<"gather", g>> /\ (gs[g].gather = m \/ gs[g].sync = m)
                               \/ ln[m] = <<"reduce", g>> /\ gs[g].reduce = m
  BY <1>1, Zenon DEF PendingOK
<1>3. ~(m <= ex)
  BY <1>1
<1> QED
  BY <1>1, <1>2, <1>3, Zenon

LEMMA SumsHere ==
    ASSUME NEW c, NEW P, NEW n, NEW g, NEW group, NEW group2, NEW ex \in Nat, NEW sum,
           SumsOK(c, P, n, g, group, ex, sum), group.reduce \in Nat, group2.reduce \in Nat,
           group2.reduce = group.reduce \/ (group.reduce = 0 /\ group2.reduce > ex)
    PROVE  SumsOK(c, P, n, g, group2, ex, sum)
BY DEF SumsOK

LEMMA SumsSame ==
    ASSUME NEW c, NEW P, NEW n \in Nat, n > 1, NEW g, NEW group, NEW group2, NEW ex \in Nat, NEW sum,
           SumsOK(c, P, n, g, group, ex, sum), group.reduce \in Nat, group2.reduce \in Nat,
           group2.reduce = group.reduce \/ (group.reduce = 0 /\ group2.reduce > ex),
           P[n] # Op("finish", g)
    PROVE  SumsOK(c, P, n + 1, g, group2, ex, sum)
<1>1. Did(P, n + 1, "finish", g) <=> Did(P, n, "finish", g)
  BY DidSame
<1> QED
  BY <1>1 DEF SumsOK

LEMMA HeldHere ==
    ASSUME NEW r, NEW c, NEW sk, NEW i, NEW P, NEW n, NEW g, NEW group, NEW group2, NEW ex, NEW h,
           HeldOK(r, c, sk, i, P, n, g, group, ex, h),
           IsCurrent(c, sk, i, P, n, g, group2, ex) => IsCurrent(c, sk, i, P, n, g, group, ex)
    PROVE  HeldOK(r, c, sk, i, P, n, g, group2, ex, h)
BY DEF HeldOK

LEMMA HeldSame ==
    ASSUME NEW r, NEW c, NEW sk, NEW i, NEW P, NEW n \in Nat \ {0}, NEW g, NEW group, NEW group2, NEW ex, NEW h,
           HeldOK(r, c, sk, i, P, n, g, group, ex, h), P[n] # Op("step", 0),
           IsCurrent(c, sk, i, P, n + 1, g, group2, ex) => IsCurrent(c, sk, i, P, n, g, group, ex)
    PROVE  HeldOK(r, c, sk, i, P, n + 1, g, group2, ex, h)
<1>1. UpdatesAt(sk, i, P, n + 1) = UpdatesAt(sk, i, P, n)
  BY DidSame DEF UpdatesAt
<1> QED
  BY <1>1 DEF HeldOK

LEMMA CurrentSame ==
    ASSUME NEW c, NEW sk, NEW i, NEW P, NEW n \in Nat \ {0}, NEW g, NEW group, NEW group2, NEW ex,
           group2.dispatched = group.dispatched, group2.gather = group.gather, group2.sync = group.sync,
           P[n] # Op("step", 0), P[n] # Op("gather", g)
    PROVE  IsCurrent(c, sk, i, P, n + 1, g, group2, ex) <=> IsCurrent(c, sk, i, P, n, g, group, ex)
<1>1. /\ Did(P, n + 1, "step", 0) <=> Did(P, n, "step", 0)
      /\ Did(P, n + 1, "gather", g) <=> Did(P, n, "gather", g)
  BY DidSame
<1> QED
  BY <1>1 DEF IsCurrent

\* An operation that is not about the group, whatever it launches.
LEMMA StateAdvance ==
    ASSUME NEW r, NEW c, NEW sk, NEW i, NEW P, NEW n \in Nat, n > 1, NEW g, NEW group,
           NEW ln, NEW ln2, NEW ex \in Nat, NEW sum, NEW h,
           GroupState(r, c, sk, i, P, n, g, group, ln, ex, sum, h), Extends(ln, ln2),
           NotAbout(c, P, n, g), P[n] # Op("step", 0)
    PROVE  GroupState(r, c, sk, i, P, n + 1, g, group, ln2, ex, sum, h)
<1>1. GroupOK(c, sk, i, P, n, g, group) /\ HandlesOK(g, group, ln) /\ SumsOK(c, P, n, g, group, ex, sum)
      /\ HeldOK(r, c, sk, i, P, n, g, group, ex, h) /\ h \in [Replicas -> 0 .. Iterations]
  BY DEF GroupState
<1>2. GroupOK(c, sk, i, P, n + 1, g, group)
  BY <1>1, Advance
<1>3. HandlesOK(g, group, ln2)
  BY <1>1, HandlesKept
<1>4. P[n] # Op("finish", g) /\ P[n] # Op("gather", g)
  BY DEF NotAbout
<1>5. group.reduce \in Nat
  BY <1>1 DEF GroupOK, GroupType
<1>6. SumsOK(c, P, n + 1, g, group, ex, sum)
  BY <1>1, <1>4, <1>5, SumsSame
<1>7. HeldOK(r, c, sk, i, P, n + 1, g, group, ex, h)
  BY <1>1, <1>4, CurrentSame, HeldSame
<1> QED
  BY <1>1, <1>2, <1>3, <1>6, <1>7 DEF GroupState

LEMMA StateStays ==
    ASSUME NEW r, NEW c, NEW sk, NEW i, NEW P, NEW n, NEW g, NEW group,
           NEW ln, NEW ln2, NEW ex, NEW sum, NEW h,
           GroupState(r, c, sk, i, P, n, g, group, ln, ex, sum, h), Extends(ln, ln2)
    PROVE  GroupState(r, c, sk, i, P, n, g, group, ln2, ex, sum, h)
BY HandlesKept DEF GroupState

-----------------------------------------------------------------------------
(* A replica, when at most one of its groups changes.                      *)

LEMMA LaunchFacts ==
    ASSUME NEW c, NEW ln \in Seq(Collectives(c)), NEW e \in Collectives(c)
    PROVE  /\ Len(ln) \in Nat /\ Len(ln) + 1 \in Nat \ {0}
           /\ Append(ln, e) \in Seq(Collectives(c))
           /\ Extends(ln, Append(ln, e))
           /\ Len(ln) + 1 \in DOMAIN Append(ln, e) /\ Append(ln, e)[Len(ln) + 1] = e
           /\ \A m \in DOMAIN Append(ln, e) : m \in DOMAIN ln \/ m = Len(ln) + 1
BY DEF Extends

LEMMA SameLaunched ==
    ASSUME NEW ln
    PROVE  Extends(ln, ln)
BY DEF Extends

LEMMA OneGroup ==
    ASSUME NEW r, NEW c, NEW sk, NEW i, NEW P, NEW n, NEW gs, NEW ln, NEW ex \in Nat, NEW sm, NEW hd, NEW gr,
           State(r, c, sk, i, P, n, gs, ln, ex, sm, hd, gr),
           NEW n2, NEW g \in GroupsOf(c), NEW group, NEW ln2 \in Seq(Collectives(c)), NEW gr2,
           Extends(ln, ln2),
           \A m \in DOMAIN ln2 : \/ m \in DOMAIN ln
                                 \/ ln2[m] = <<"gather", g>> /\ (group.gather = m \/ group.sync = m)
                                 \/ ln2[m] = <<"reduce", g>> /\ group.reduce = m,
           gs[g].gather = group.gather \/ gs[g].gather <= ex,
           gs[g].sync = group.sync \/ gs[g].sync <= ex,
           gs[g].reduce = group.reduce \/ gs[g].reduce <= ex,
           GradsOK(c, P, n2, gr2), DOMAIN gr2 = ParamsOf(c),
           \A p \in ParamsOf(c) : gr2[p] \in 0 .. NumMicrobatches(c),
           \A k \in GroupsOf(c) : k # g => GroupState(r, c, sk, i, P, n2, k, gs[k], ln2, ex, sm[k], hd[k]),
           GroupState(r, c, sk, i, P, n2, g, group, ln2, ex, sm[g], hd[g])
    PROVE  State(r, c, sk, i, P, n2, [gs EXCEPT ![g] = group], ln2, ex, sm, hd, gr2)
<1> DEFINE gs2 == [gs EXCEPT ![g] = group]
<1>1. /\ DOMAIN gs = GroupsOf(c) /\ DOMAIN hd = GroupsOf(c) /\ DOMAIN sm = GroupsOf(c)
      /\ ln \in Seq(Collectives(c)) /\ ex <= Len(ln) /\ PendingOK(c, gs, ln, ex)
  BY DEF State
<1>2. DOMAIN gs2 = GroupsOf(c) /\ gs2[g] = group /\ \A k \in GroupsOf(c) : k # g => gs2[k] = gs[k]
  BY <1>1
<1> HIDE DEF gs2
<1>3. ex <= Len(ln2)
  <2>1. Len(ln) = 0 \/ Len(ln) \in DOMAIN ln2
    BY <1>1 DEF Extends
  <2> QED BY <1>1, <2>1
<1>4. PendingOK(c, gs2, ln2, ex)
  <2>1. \A m \in DOMAIN ln2 : (m \in DOMAIN ln /\ ln2[m] = ln[m])
                \/ \E k \in GroupsOf(c) :
                      \/ ln2[m] = <<"gather", k>> /\ (gs2[k].gather = m \/ gs2[k].sync = m)
                      \/ ln2[m] = <<"reduce", k>> /\ gs2[k].reduce = m
    BY <1>2, Zenon DEF Extends
  <2>2. \A k \in GroupsOf(c) :
              /\ gs[k].gather = gs2[k].gather \/ gs[k].gather <= ex
              /\ gs[k].sync = gs2[k].sync \/ gs[k].sync <= ex
              /\ gs[k].reduce = gs2[k].reduce \/ gs[k].reduce <= ex
    BY <1>2, Zenon
  <2>3. DOMAIN ln \subseteq Nat
    BY <1>1
  <2> QED BY <1>1, <2>1, <2>2, <2>3, PendingStep
<1>5. \A k \in GroupsOf(c) : GroupState(r, c, sk, i, P, n2, k, gs2[k], ln2, ex, sm[k], hd[k])
  BY <1>2, Zenon
<1> QED
  BY <1>1, <1>2, <1>3, <1>4, <1>5, Zenon DEF State, gs2

LEMMA GradsSame ==
    ASSUME NEW c, NEW P, NEW n \in Nat, n > 1, NEW gr, GradsOK(c, P, n, gr),
           \A p \in ParamsOf(c) : P[n] # Op(Contributes(c), p)
    PROVE  GradsOK(c, P, n + 1, gr)
<1>1. 1 .. (n + 1) - 1 = (1 .. n - 1) \cup {n}
  OBVIOUS
<1>2. ASSUME NEW p \in ParamsOf(c)
      PROVE  {q \in 1 .. (n + 1) - 1 : P[q] = Op(Contributes(c), p)} = {q \in 1 .. n - 1 : P[q] = Op(Contributes(c), p)}
  BY <1>1
<1> QED
  BY <1>2 DEF GradsOK

LEMMA GradsCount ==
    ASSUME NEW c, NEW P, NEW n \in Nat, n > 1, NEW gr, GradsOK(c, P, n, gr), DOMAIN gr = ParamsOf(c),
           NEW p \in ParamsOf(c), P[n] = Op(Contributes(c), p)
    PROVE  GradsOK(c, P, n + 1, [gr EXCEPT ![p] = @ + 1])
<1>1. 1 .. (n + 1) - 1 = (1 .. n - 1) \cup {n} /\ n \notin 1 .. n - 1
  OBVIOUS
<1>2. ASSUME NEW x \in ParamsOf(c), x # p
      PROVE  {q \in 1 .. (n + 1) - 1 : P[q] = Op(Contributes(c), x)} = {q \in 1 .. n - 1 : P[q] = Op(Contributes(c), x)}
  <2>1. P[n] # Op(Contributes(c), x)
    BY <1>2, OpDistinct
  <2> QED BY <1>1, <2>1
<1> DEFINE Before == {q \in 1 .. n - 1 : P[q] = Op(Contributes(c), p)}
<1>3. {q \in 1 .. (n + 1) - 1 : P[q] = Op(Contributes(c), p)} = Before \cup {n}
  BY <1>1
<1>4. IsFiniteSet(Before) /\ n \notin Before
  <2>1. IsFiniteSet(1 .. n - 1)
    BY FS_Interval
  <2>2. Before \subseteq 1 .. n - 1 /\ n \notin Before
    BY <1>1
  <2> QED BY <2>1, <2>2, FS_Subset
<1>5. Cardinality(Before \cup {n}) = Cardinality(Before) + 1
  BY <1>4, FS_AddElement
<1> QED
  BY <1>2, <1>3, <1>5 DEF GradsOK

LEMMA GradsBound ==
    ASSUME NEW c, NEW i, NEW P, ProgramInOrder(c, i, P), NEW n \in 2 .. Len(P) + 1, NEW gr, GradsOK(c, P, n, gr)
    PROVE  \A p \in ParamsOf(c) : gr[p] \in 0 .. NumMicrobatches(c)
<1> SUFFICES ASSUME NEW p \in ParamsOf(c) PROVE gr[p] \in 0 .. NumMicrobatches(c)
  OBVIOUS
<1>1. DOMAIN P = 1 .. Len(P) /\ Len(P) \in Nat
  BY DEF ProgramInOrder, Typed
<1> DEFINE Before == {q \in 1 .. n - 1 : P[q] = Op(Contributes(c), p)}
           All == Places(P, Contributes(c), p)
<1>2. IsFiniteSet(All)
  <2>1. All \subseteq 1 .. Len(P)
    BY <1>1 DEF Places
  <2>2. IsFiniteSet(1 .. Len(P))
    BY <1>1, FS_Interval
  <2> QED BY <2>1, <2>2, FS_Subset
<1>3. Before \subseteq All
  <2>1. 1 .. n - 1 \subseteq DOMAIN P
    BY <1>1
  <2> QED BY <2>1, Zenon DEF Places
<1>4. Cardinality(Before) <= Cardinality(All) /\ IsFiniteSet(Before)
  BY <1>2, <1>3, FS_Subset
<1>5. Cardinality(Before) \in Nat /\ Cardinality(All) \in Nat
  BY <1>2, <1>4, FS_CardinalityType
<1>6. Cardinality(All) = NumMicrobatches(c)
  BY DEF ProgramInOrder, AllContribute
<1>7. gr[p] = Cardinality(Before)
  <2>1. n > 1
    BY <1>1
  <2> QED BY <2>1, Zenon DEF GradsOK
<1> QED
  BY <1>4, <1>5, <1>6, <1>7

LEMMA StateFacts ==
    ASSUME NEW r, NEW c, NEW sk, NEW i, NEW P, NEW n, NEW gs, NEW ln, NEW ex, NEW sm, NEW hd, NEW gr,
           State(r, c, sk, i, P, n, gs, ln, ex, sm, hd, gr)
    PROVE  /\ ln \in Seq(Collectives(c)) /\ Len(ln) \in Nat /\ ex <= Len(ln)
           /\ GradsOK(c, P, n, gr) /\ DOMAIN gr = ParamsOf(c)
           /\ \A p \in ParamsOf(c) : gr[p] \in 0 .. NumMicrobatches(c)
           /\ \A g \in GroupsOf(c) :
                 /\ GroupState(r, c, sk, i, P, n, g, gs[g], ln, ex, sm[g], hd[g])
                 /\ GroupOK(c, sk, i, P, n, g, gs[g]) /\ HandlesOK(g, gs[g], ln)
                 /\ SumsOK(c, P, n, g, gs[g], ex, sm[g])
                 /\ HeldOK(r, c, sk, i, P, n, g, gs[g], ex, hd[g])
                 /\ hd[g] \in [Replicas -> 0 .. Iterations]
                 /\ gs[g].gather \in Nat /\ gs[g].sync \in Nat /\ gs[g].reduce \in Nat
<1>1. ln \in Seq(Collectives(c)) /\ Len(ln) \in Nat
  BY DEF State
<1>2. ASSUME NEW g \in GroupsOf(c)
      PROVE  /\ GroupState(r, c, sk, i, P, n, g, gs[g], ln, ex, sm[g], hd[g])
             /\ GroupOK(c, sk, i, P, n, g, gs[g]) /\ HandlesOK(g, gs[g], ln)
             /\ SumsOK(c, P, n, g, gs[g], ex, sm[g])
             /\ HeldOK(r, c, sk, i, P, n, g, gs[g], ex, hd[g])
             /\ hd[g] \in [Replicas -> 0 .. Iterations]
             /\ gs[g].gather \in Nat /\ gs[g].sync \in Nat /\ gs[g].reduce \in Nat
  <2>1. GroupState(r, c, sk, i, P, n, g, gs[g], ln, ex, sm[g], hd[g])
    BY DEF State
  <2>2. GroupOK(c, sk, i, P, n, g, gs[g])
    BY <2>1 DEF GroupState
  <2>3. gs[g].gather \in Nat /\ gs[g].sync \in Nat /\ gs[g].reduce \in Nat
    BY <2>2 DEF GroupOK, GroupType
  <2> QED BY <2>1, <2>2, <2>3, Zenon DEF GroupState
<1> QED
  BY <1>1, <1>2, Zenon DEF State

\* A gather is launched: the group is not current before it executed.
LEMMA LaunchGather ==
    ASSUME NEW c, NEW sk, NEW i, NEW P, NEW n,
           NEW r, NEW gs, NEW ln, NEW ex \in Nat, NEW sm, NEW hd, NEW gr,
           State(r, c, sk, i, P, n, gs, ln, ex, sm, hd, gr),
           NEW g \in GroupsOf(c), NEW group, GroupOK(c, sk, i, P, n, g, group),
           gs[g].gather = 0, gs[g].sync = 0, group.reduce = gs[g].reduce,
           \/ group.gather = Len(ln) + 1 /\ group.sync = 0
           \/ group.gather = 0 /\ group.sync = Len(ln) + 1
    PROVE  State(r, c, sk, i, P, n, [gs EXCEPT ![g] = group], Append(ln, <<"gather", g>>), ex, sm, hd, gr)
<1> DEFINE handle == Len(ln) + 1
           ln2 == Append(ln, <<"gather", g>>)
<1>1. <<"gather", g>> \in Collectives(c)
  BY DEF Collectives
<1>2. /\ handle \in Nat \ {0} /\ ln2 \in Seq(Collectives(c)) /\ Extends(ln, ln2)
      /\ handle \in DOMAIN ln2 /\ ln2[handle] = <<"gather", g>>
      /\ \A m \in DOMAIN ln2 : m \in DOMAIN ln \/ m = handle
  BY <1>1, LaunchFacts, StateFacts, Zenon
<1>3. /\ HandlesOK(g, gs[g], ln)
      /\ SumsOK(c, P, n, g, gs[g], ex, sm[g]) /\ HeldOK(r, c, sk, i, P, n, g, gs[g], ex, hd[g])
      /\ hd[g] \in [Replicas -> 0 .. Iterations] /\ gs[g].reduce \in Nat /\ ex <= Len(ln) /\ Len(ln) \in Nat
  BY StateFacts
<1>4. handle # 0 /\ ~(handle <= ex)
  BY <1>3
<1>5. \/ group.gather = handle /\ group.sync = 0
      \/ group.gather = 0 /\ group.sync = handle
  OBVIOUS
<1> HIDE DEF handle, ln2
<1>6. HandlesOK(g, group, ln2)
  BY <1>2, <1>3, <1>5 DEF HandlesOK, Extends
<1>7. SumsOK(c, P, n, g, group, ex, sm[g])
  BY <1>3, SumsHere
<1>8. HeldOK(r, c, sk, i, P, n, g, group, ex, hd[g])
  <2>1. IsCurrent(c, sk, i, P, n, g, group, ex) => IsCurrent(c, sk, i, P, n, g, gs[g], ex)
    BY <1>4, <1>5, Zenon DEF IsCurrent
  <2> QED BY <1>3, <2>1, HeldHere
<1>9. GroupState(r, c, sk, i, P, n, g, group, ln2, ex, sm[g], hd[g])
  BY <1>3, <1>6, <1>7, <1>8, Zenon DEF GroupState
<1>10. \A k \in GroupsOf(c) : k # g => GroupState(r, c, sk, i, P, n, k, gs[k], ln2, ex, sm[k], hd[k])
  BY <1>2, StateFacts, StateStays, Zenon
<1>11. State(r, c, sk, i, P, n, [gs EXCEPT ![g] = group], ln2, ex, sm, hd, gr)
  <2>1. /\ gs[g].gather <= ex /\ gs[g].sync <= ex /\ gs[g].reduce = group.reduce
        /\ \A m \in DOMAIN ln2 : m \in DOMAIN ln \/ (ln2[m] = <<"gather", g>> /\ (group.gather = m \/ group.sync = m))
    BY <1>2, <1>5
  <2>2. /\ GradsOK(c, P, n, gr) /\ DOMAIN gr = ParamsOf(c)
        /\ \A p \in ParamsOf(c) : gr[p] \in 0 .. NumMicrobatches(c)
    BY StateFacts
  <2> QED BY <1>2, <1>9, <1>10, <2>1, <2>2, OneGroup
<1> QED
  BY <1>11 DEF ln2

LEMMA HookStartState ==
    ASSUME NEW c \in Configs, NEW sk, NEW i, NEW P, ProgramInOrder(c, i, P), NEW n \in DOMAIN P,
           NEW r, NEW gs, NEW ln, NEW ex \in Nat, NEW sm, NEW hd, NEW gr,
           State(r, c, sk, i, P, n, gs, ln, ex, sm, hd, gr),
           NEW g, P[n] = Op("hook", g), ~gs[g].dispatched
    PROVE  /\ g \in GroupsOf(c) /\ gs[g].gather = 0
           /\ State(r, c, sk, i, P, n,
                    [gs EXCEPT ![g] = [gs[g] EXCEPT !.gather = Len(ln) + 1, !.dispatched = TRUE]],
                    Append(ln, <<"gather", g>>), ex, sm, hd, gr)
<1> DEFINE handle == Len(ln) + 1
           group == [gs[g] EXCEPT !.gather = handle, !.dispatched = TRUE]
<1>1. g \in GroupsOf(c)
  BY HookFacts
<1>2. GroupOK(c, sk, i, P, n, g, gs[g]) /\ Len(ln) \in Nat
  BY <1>1, StateFacts
<1>3. handle \in Nat \ {0}
  BY <1>2
<1>4. gs[g].gather = 0 /\ gs[g].sync = 0 /\ GroupOK(c, sk, i, P, n, g, group)
  BY <1>2, <1>3, HookStartGroup
<1>5. group.gather = handle /\ group.sync = 0 /\ group.reduce = gs[g].reduce
  BY <1>2, <1>4 DEF GroupOK, GroupType
<1> HIDE DEF group
<1>6. State(r, c, sk, i, P, n, [gs EXCEPT ![g] = group], Append(ln, <<"gather", g>>), ex, sm, hd, gr)
  BY <1>1, <1>4, <1>5, LaunchGather
<1> QED
  BY <1>1, <1>4, <1>6 DEF group

\* A step of the program that changes one group and launches nothing, of an
\* operation about no other group.
LEMMA OneGroupMoves ==
    ASSUME NEW c, NEW sk, NEW i, NEW P, NEW n \in Nat, n > 1,
           NEW r, NEW gs, NEW ln, NEW ex \in Nat, NEW sm, NEW hd, NEW gr,
           State(r, c, sk, i, P, n, gs, ln, ex, sm, hd, gr),
           NEW g \in GroupsOf(c), NEW group, GroupOK(c, sk, i, P, n + 1, g, group),
           P[n] # Op("step", 0), \A p \in ParamsOf(c) : P[n] # Op(Contributes(c), p),
           \A k \in GroupsOf(c) : k # g => NotAbout(c, P, n, k),
           group.gather = gs[g].gather \/ (group.gather = 0 /\ gs[g].gather <= ex),
           group.sync = gs[g].sync \/ (group.sync = 0 /\ gs[g].sync <= ex),
           group.reduce = gs[g].reduce \/ (group.reduce = 0 /\ gs[g].reduce <= ex),
           SumsOK(c, P, n + 1, g, group, ex, sm[g]),
           IsCurrent(c, sk, i, P, n + 1, g, group, ex) => IsCurrent(c, sk, i, P, n, g, gs[g], ex)
    PROVE  State(r, c, sk, i, P, n + 1, [gs EXCEPT ![g] = group], ln, ex, sm, hd, gr)
<1>1. /\ ln \in Seq(Collectives(c)) /\ HandlesOK(g, gs[g], ln)
      /\ HeldOK(r, c, sk, i, P, n, g, gs[g], ex, hd[g]) /\ hd[g] \in [Replicas -> 0 .. Iterations]
  BY StateFacts
<1>2. Extends(ln, ln)
  BY SameLaunched
<1>3. HandlesOK(g, group, ln)
  BY <1>1, <1>2, HandlesKept
<1>4. HeldOK(r, c, sk, i, P, n + 1, g, group, ex, hd[g])
  BY <1>1, HeldSame
<1>5. GroupState(r, c, sk, i, P, n + 1, g, group, ln, ex, sm[g], hd[g])
  BY <1>1, <1>3, <1>4, Zenon DEF GroupState
<1>6. ASSUME NEW k \in GroupsOf(c), k # g
      PROVE  GroupState(r, c, sk, i, P, n + 1, k, gs[k], ln, ex, sm[k], hd[k])
  BY <1>2, <1>6, StateFacts, StateAdvance
<1>7. /\ GradsOK(c, P, n, gr) /\ DOMAIN gr = ParamsOf(c)
      /\ \A p \in ParamsOf(c) : gr[p] \in 0 .. NumMicrobatches(c)
  BY StateFacts
<1>8. GradsOK(c, P, n + 1, gr)
  BY <1>7, GradsSame
<1> QED
  BY <1>1, <1>2, <1>5, <1>6, <1>7, <1>8, OneGroup

\* The operations that compute no gradient.
LEMMA NoGradient ==
    ASSUME NEW c, NEW P, NEW n, NEW op, NEW a, P[n] = Op(op, a), op \notin {"backward", "wgrad"}
    PROVE  \A p \in ParamsOf(c) : P[n] # Op(Contributes(c), p)
BY OpDistinct DEF Contributes

-----------------------------------------------------------------------------
(* A replica, in each of its steps.                                        *)

LEMMA HookWaitState ==
    ASSUME NEW c \in Configs, NEW sk, NEW i, NEW P, ProgramInOrder(c, i, P), NEW n \in DOMAIN P,
           NEW r, NEW gs, NEW ln, NEW ex \in Nat, NEW sm, NEW hd, NEW gr,
           State(r, c, sk, i, P, n, gs, ln, ex, sm, hd, gr),
           NEW g, P[n] = Op("hook", g), gs[g].dispatched, gs[g].gather <= ex
    PROVE  /\ g \in GroupsOf(c) /\ n \in Nat /\ n > 1
           /\ State(r, c, sk, i, P, n + 1, [gs EXCEPT ![g] = [gs[g] EXCEPT !.gather = 0]], ln, ex, sm, hd, gr)
<1> DEFINE group == [gs[g] EXCEPT !.gather = 0]
<1>1. /\ c.gather /\ g \in GroupsOf(c) /\ n \in Nat /\ n > 1
      /\ \A k \in GroupsOf(c) : k # g => NotAbout(c, P, n, k)
  BY HookFacts
<1>2. /\ GroupOK(c, sk, i, P, n, g, gs[g]) /\ SumsOK(c, P, n, g, gs[g], ex, sm[g])
      /\ gs[g].gather \in Nat /\ gs[g].reduce \in Nat
  BY <1>1, StateFacts
<1>3. gs[g].sync = 0 /\ GroupOK(c, sk, i, P, n + 1, g, group)
  BY <1>1, <1>2, HookWaitGroup
<1>4. group.gather = 0 /\ group.sync = 0 /\ group.reduce = gs[g].reduce /\ group.dispatched = gs[g].dispatched
  BY <1>2, <1>3 DEF GroupOK, GroupType
<1> HIDE DEF group
<1>5. P[n] # Op("step", 0) /\ P[n] # Op("finish", g)
  BY OpDistinct
<1>6. \A p \in ParamsOf(c) : P[n] # Op(Contributes(c), p)
  BY NoGradient
<1>7. SumsOK(c, P, n + 1, g, group, ex, sm[g])
  BY <1>1, <1>2, <1>4, <1>5, SumsSame
<1>8. IsCurrent(c, sk, i, P, n, g, gs[g], ex)
  <2>1. gs[g].sync <= ex
    BY <1>3
  <2> QED BY <1>1, <2>1, Zenon DEF IsCurrent
<1>9. State(r, c, sk, i, P, n + 1, [gs EXCEPT ![g] = group], ln, ex, sm, hd, gr)
  BY <1>1, <1>3, <1>4, <1>5, <1>6, <1>7, <1>8, OneGroupMoves
<1> QED
  BY <1>1, <1>9 DEF group

LEMMA HookNextState ==
    ASSUME NEW c \in Configs, NEW sk, NEW i, NEW P, ProgramInOrder(c, i, P), NEW n \in DOMAIN P,
           NEW r, NEW gs, NEW ln, NEW ex \in Nat, NEW sm, NEW hd, NEW gr,
           State(r, c, sk, i, P, n, gs, ln, ex, sm, hd, gr),
           NEW g, P[n] = Op("hook", g), gs[g].dispatched, gs[g].gather <= ex, gs[g].gather # 0,
           g - 1 \in GroupsOf(c)
    PROVE  /\ gs[g - 1].gather = 0
           /\ State(r, c, sk, i, P, n + 1,
                    [[gs EXCEPT ![g] = [gs[g] EXCEPT !.gather = 0]] EXCEPT
                        ![g - 1] = [gs[g - 1] EXCEPT !.gather = Len(ln) + 1, !.dispatched = TRUE]],
                    Append(ln, <<"gather", g - 1>>), ex, sm, hd, gr)
<1> DEFINE k == g - 1
           gs2 == [gs EXCEPT ![g] = [gs[g] EXCEPT !.gather = 0]]
           handle == Len(ln) + 1
           next == [gs[k] EXCEPT !.gather = handle, !.dispatched = TRUE]
<1>1. g \in GroupsOf(c) /\ State(r, c, sk, i, P, n + 1, gs2, ln, ex, sm, hd, gr)
  BY HookWaitState
<1>2. k # g
  BY <1>1, ConfigFacts
<1>3. gs2[k] = gs[k]
  BY <1>1, <1>2 DEF State
<1>4. GroupOK(c, sk, i, P, n, g, gs[g]) /\ GroupOK(c, sk, i, P, n, k, gs[k]) /\ Len(ln) \in Nat
  BY <1>1, StateFacts
<1>5. handle \in Nat \ {0}
  BY <1>4
<1>6. gs[k].gather = 0 /\ gs[k].sync = 0 /\ GroupOK(c, sk, i, P, n + 1, k, next)
  BY <1>4, <1>5, HookNextGroup, ZenonT(60)
<1>7. next.gather = handle /\ next.sync = 0 /\ next.reduce = gs[k].reduce
  BY <1>4, <1>6 DEF GroupOK, GroupType
<1> HIDE DEF next, gs2
<1>8. State(r, c, sk, i, P, n + 1, [gs2 EXCEPT ![k] = next], Append(ln, <<"gather", k>>), ex, sm, hd, gr)
  BY <1>1, <1>3, <1>6, <1>7, LaunchGather
<1> QED
  BY <1>6, <1>8 DEF next, gs2

LEMMA SyncStartState ==
    ASSUME NEW c \in Configs, NEW sk, NEW i, NEW P, ProgramInOrder(c, i, P), NEW n \in DOMAIN P,
           NEW r, NEW gs, NEW ln, NEW ex \in Nat, NEW sm, NEW hd, NEW gr,
           State(r, c, sk, i, P, n, gs, ln, ex, sm, hd, gr),
           NEW g \in GroupsOf(c), P[n] = Op("force", g) \/ (P[n] = Op("gather", g) /\ i \notin sk),
           gs[g].gather = 0, gs[g].sync = 0
    PROVE  State(r, c, sk, i, P, n,
                 [gs EXCEPT ![g] = [gs[g] EXCEPT !.sync = Len(ln) + 1, !.dispatched = TRUE]],
                 Append(ln, <<"gather", g>>), ex, sm, hd, gr)
<1> DEFINE handle == Len(ln) + 1
           group == [gs[g] EXCEPT !.sync = handle, !.dispatched = TRUE]
<1>1. GroupOK(c, sk, i, P, n, g, gs[g]) /\ Len(ln) \in Nat
  BY StateFacts
<1>2. handle \in Nat \ {0}
  BY <1>1
<1>3. GroupOK(c, sk, i, P, n, g, group)
  BY <1>1, <1>2, SyncStartGroup
<1>4. group.gather = 0 /\ group.sync = handle /\ group.reduce = gs[g].reduce
  BY <1>1 DEF GroupOK, GroupType
<1> HIDE DEF group
<1>5. State(r, c, sk, i, P, n, [gs EXCEPT ![g] = group], Append(ln, <<"gather", g>>), ex, sm, hd, gr)
  BY <1>3, <1>4, LaunchGather
<1> QED
  BY <1>5 DEF group

\* The end of a synchronous gather, and the one that is skipped.
LEMMA SyncEndState ==
    ASSUME NEW c \in Configs, NEW sk, NEW i, NEW P, ProgramInOrder(c, i, P), NEW n \in DOMAIN P,
           NEW r, NEW gs, NEW ln, NEW ex \in Nat, NEW sm, NEW hd, NEW gr,
           State(r, c, sk, i, P, n, gs, ln, ex, sm, hd, gr),
           NEW g \in GroupsOf(c), P[n] = Op("force", g) \/ P[n] = Op("gather", g),
           gs[g].sync # 0 \/ (P[n] = Op("gather", g) /\ i \in sk), gs[g].sync <= ex
    PROVE  /\ gs[g].gather = 0 /\ n \in Nat /\ n > 1
           /\ State(r, c, sk, i, P, n + 1, [gs EXCEPT ![g] = Gathered(gs[g])],
                    ln, ex, sm, hd, gr)
<1> DEFINE group == Gathered(gs[g])
<1>1. /\ GroupOK(c, sk, i, P, n, g, gs[g]) /\ SumsOK(c, P, n, g, gs[g], ex, sm[g])
      /\ gs[g].gather \in Nat /\ gs[g].sync \in Nat /\ gs[g].reduce \in Nat
  BY StateFacts
<1>2. P[n].op \in {"gather", "force"}
  BY OpDistinct
<1>3. n \in Nat /\ n > 1 /\ Did(P, n, "finish", g) /\ (P[n].op = "force" <=> c.gather)
  BY <1>2, TailFacts, Zenon
<1>4. gs[g].gather = 0 /\ GroupOK(c, sk, i, P, n + 1, g, group)
  BY <1>1, SyncEndGroup
<1>5. /\ group.gather = 0 /\ group.sync = 0 /\ group.reduce = gs[g].reduce
      /\ group.dispatched = gs[g].dispatched
  BY <1>1 DEF GroupOK, GroupType, Gathered
<1> HIDE DEF group
<1>6. P[n] # Op("step", 0) /\ P[n] # Op("finish", g)
  BY OpDistinct
<1>7. \A p \in ParamsOf(c) : P[n] # Op(Contributes(c), p)
  BY NoGradient
<1>8. \A k \in GroupsOf(c) : k # g => NotAbout(c, P, n, k)
  BY OtherGroups
<1>9. SumsOK(c, P, n + 1, g, group, ex, sm[g])
  BY <1>1, <1>3, <1>5, <1>6, SumsSame
<1>10. IsCurrent(c, sk, i, P, n, g, gs[g], ex)
  <2>1. CASE c.gather
    <3>1. P[n] # Op("gather", g)
      BY <1>3, <2>1, OpDistinct
    <3>2. gs[g].sync # 0
      BY <3>1
    <3>3. gs[g].dispatched
      BY <1>1, <1>3, <2>1, <3>2, Zenon DEF GroupOK, GatherOK
    <3>4. gs[g].gather <= ex
      BY <1>4
    <3> QED BY <2>1, <3>3, <3>4, Zenon DEF IsCurrent
  <2>2. CASE ~c.gather
    BY <2>2, Zenon DEF IsCurrent
  <2> QED BY <2>1, <2>2
<1>11. State(r, c, sk, i, P, n + 1, [gs EXCEPT ![g] = group], ln, ex, sm, hd, gr)
  BY <1>1, <1>3, <1>4, <1>5, <1>6, <1>7, <1>8, <1>9, <1>10, OneGroupMoves
<1> QED
  BY <1>3, <1>4, <1>11 DEF group

\* A step that launches nothing and keeps the handles.
LEMMA AllGroupsMove ==
    ASSUME NEW r, NEW c, NEW sk, NEW i, NEW P, NEW n, NEW gs, NEW ln, NEW ex \in Nat, NEW sm, NEW hd, NEW gr,
           State(r, c, sk, i, P, n, gs, ln, ex, sm, hd, gr),
           NEW i2, NEW P2, NEW n2, NEW gs2, NEW sm2, NEW hd2, NEW gr2,
           DOMAIN gs2 = GroupsOf(c), DOMAIN sm2 = GroupsOf(c), DOMAIN hd2 = GroupsOf(c), DOMAIN gr2 = ParamsOf(c),
           \A k \in GroupsOf(c) :
              /\ gs2[k].gather = gs[k].gather /\ gs2[k].sync = gs[k].sync /\ gs2[k].reduce = gs[k].reduce
              /\ GroupState(r, c, sk, i2, P2, n2, k, gs2[k], ln, ex, sm2[k], hd2[k]),
           GradsOK(c, P2, n2, gr2), \A p \in ParamsOf(c) : gr2[p] \in 0 .. NumMicrobatches(c)
    PROVE  State(r, c, sk, i2, P2, n2, gs2, ln, ex, sm2, hd2, gr2)
<1>1. ln \in Seq(Collectives(c)) /\ ex <= Len(ln) /\ PendingOK(c, gs, ln, ex)
  BY DEF State
<1>2. DOMAIN ln \subseteq Nat
  BY <1>1
<1>3. PendingOK(c, gs2, ln, ex)
  BY <1>1, <1>2, PendingStep
<1> QED
  BY <1>1, <1>3, Zenon DEF State

\* An operation about no group.
LEMMA NoGroupMoves ==
    ASSUME NEW r, NEW c, NEW sk, NEW i, NEW P, NEW n \in Nat, n > 1,
           NEW gs, NEW ln, NEW ex \in Nat, NEW sm, NEW hd, NEW gr,
           State(r, c, sk, i, P, n, gs, ln, ex, sm, hd, gr),
           \A k \in GroupsOf(c) : NotAbout(c, P, n, k), P[n] # Op("step", 0),
           NEW gr2, GradsOK(c, P, n + 1, gr2), DOMAIN gr2 = ParamsOf(c),
           \A p \in ParamsOf(c) : gr2[p] \in 0 .. NumMicrobatches(c)
    PROVE  State(r, c, sk, i, P, n + 1, gs, ln, ex, sm, hd, gr2)
<1>1. DOMAIN gs = GroupsOf(c) /\ DOMAIN sm = GroupsOf(c) /\ DOMAIN hd = GroupsOf(c)
  BY DEF State
<1>2. ASSUME NEW k \in GroupsOf(c)
      PROVE  GroupState(r, c, sk, i, P, n + 1, k, gs[k], ln, ex, sm[k], hd[k])
  BY SameLaunched, StateFacts, StateAdvance
<1> QED
  BY <1>1, <1>2, AllGroupsMove

LEMMA UseState ==
    ASSUME NEW c \in Configs, NEW sk, NEW i, NEW P, ProgramInOrder(c, i, P), NEW n \in DOMAIN P,
           NEW r, NEW gs, NEW ln, NEW ex \in Nat, NEW sm, NEW hd, NEW gr,
           State(r, c, sk, i, P, n, gs, ln, ex, sm, hd, gr), NEW S, P[n] = Op("use", S)
    PROVE  /\ n \in Nat /\ n > 1
           /\ State(r, c, sk, i, P, n + 1, gs, ln, ex, sm, hd, gr)
<1>1. n \in Nat /\ n > 1
  BY OpDistinct DEF ProgramInOrder, Typed, Phases
<1>2. P[n] # Op("step", 0) /\ \A k \in GroupsOf(c) : NotAbout(c, P, n, k)
  BY OpDistinct, OtherGroups
<1>3. \A p \in ParamsOf(c) : P[n] # Op(Contributes(c), p)
  BY NoGradient
<1>4. /\ GradsOK(c, P, n, gr) /\ DOMAIN gr = ParamsOf(c)
      /\ \A p \in ParamsOf(c) : gr[p] \in 0 .. NumMicrobatches(c)
  BY StateFacts
<1>5. GradsOK(c, P, n + 1, gr)
  BY <1>1, <1>3, <1>4, GradsSame
<1> QED
  BY <1>1, <1>2, <1>4, <1>5, NoGroupMoves

\* The gradient of a parameter takes a microbatch.
LEMMA Accumulate ==
    ASSUME NEW c \in Configs, NEW i, NEW P, ProgramInOrder(c, i, P), NEW n \in DOMAIN P,
           n > 1, NEW gr, GradsOK(c, P, n, gr), DOMAIN gr = ParamsOf(c),
           NEW p \in ParamsOf(c), P[n] = Op(Contributes(c), p),
           NEW gr2, gr2 = [gr EXCEPT ![p] = @ + 1]
    PROVE  /\ GradsOK(c, P, n + 1, gr2) /\ DOMAIN gr2 = ParamsOf(c)
           /\ \A x \in ParamsOf(c) : gr2[x] \in 0 .. NumMicrobatches(c)
<1>1. n \in Nat /\ n + 1 \in 2 .. Len(P) + 1
  BY DEF ProgramInOrder, Typed
<1>2. GradsOK(c, P, n + 1, gr2) /\ DOMAIN gr2 = ParamsOf(c)
  BY <1>1, GradsCount
<1>3. \A x \in ParamsOf(c) : gr2[x] \in 0 .. NumMicrobatches(c)
  BY <1>1, <1>2, GradsBound
<1> QED
  BY <1>2, <1>3

LEMMA WeightGradientState ==
    ASSUME NEW c \in Configs, NEW sk, NEW i, NEW P, ProgramInOrder(c, i, P), NEW n \in DOMAIN P,
           NEW r, NEW gs, NEW ln, NEW ex \in Nat, NEW sm, NEW hd, NEW gr,
           State(r, c, sk, i, P, n, gs, ln, ex, sm, hd, gr), NEW p, P[n] = Op("wgrad", p)
    PROVE  /\ n \in Nat /\ n > 1
           /\ State(r, c, sk, i, P, n + 1, gs, ln, ex, sm, hd, [gr EXCEPT ![p] = @ + 1])
<1>1. P[n].op = "wgrad" /\ n \in PlacesOfOp(P, {"start", "wgrad"})
  BY OpDistinct DEF PlacesOfOp
<1>2. n \in Nat /\ n > 1
  BY <1>1, BeforeFinish DEF ProgramInOrder, Typed
<1>3. p \in ParamsOf(c)
  BY OpDistinct DEF ProgramInOrder, Typed
<1>4. c.split
  BY <1>1, Zenon DEF ProgramInOrder, Starts
<1>5. P[n] = Op(Contributes(c), p)
  BY <1>4, Zenon DEF Contributes
<1>6. P[n] # Op("step", 0) /\ \A k \in GroupsOf(c) : NotAbout(c, P, n, k)
  BY OpDistinct, OtherGroups
<1>7. GradsOK(c, P, n, gr) /\ DOMAIN gr = ParamsOf(c)
  BY StateFacts
<1> DEFINE gr2 == [gr EXCEPT ![p] = @ + 1]
<1>8. /\ GradsOK(c, P, n + 1, gr2) /\ DOMAIN gr2 = ParamsOf(c)
      /\ \A x \in ParamsOf(c) : gr2[x] \in 0 .. NumMicrobatches(c)
  BY <1>2, <1>3, <1>5, <1>7, Accumulate
<1> HIDE DEF gr2
<1>9. State(r, c, sk, i, P, n + 1, gs, ln, ex, sm, hd, gr2)
  BY <1>2, <1>6, <1>8, NoGroupMoves
<1> QED
  BY <1>2, <1>9 DEF gr2

LEMMA SetSyncState ==
    ASSUME NEW c \in Configs, NEW sk, NEW i, NEW P, ProgramInOrder(c, i, P), NEW n \in DOMAIN P,
           NEW r, NEW gs, NEW ln, NEW ex \in Nat, NEW sm, NEW hd, NEW gr,
           State(r, c, sk, i, P, n, gs, ln, ex, sm, hd, gr), NEW last \in BOOLEAN, P[n] = Op("sync", last)
    PROVE  /\ n \in Nat /\ n > 1
           /\ State(r, c, sk, i, P, n + 1, [g \in DOMAIN gs |-> [gs[g] EXCEPT !.last = last]],
                    ln, ex, sm, hd, gr)
<1> DEFINE gs2 == [g \in DOMAIN gs |-> [gs[g] EXCEPT !.last = last]]
<1>1. P[n].op = "sync"
  BY OpDistinct
<1>2. n \in Nat /\ n > 1
  BY <1>1, BeforeFinish DEF ProgramInOrder, Typed
<1>3. DOMAIN gs = GroupsOf(c) /\ DOMAIN sm = GroupsOf(c) /\ DOMAIN hd = GroupsOf(c)
  BY DEF State
<1>4. P[n] # Op("step", 0) /\ \A g : P[n] # Op("finish", g) /\ P[n] # Op("gather", g)
  BY <1>1, OpDistinct
<1>5. ASSUME NEW k \in GroupsOf(c)
      PROVE  /\ gs2[k].gather = gs[k].gather /\ gs2[k].sync = gs[k].sync /\ gs2[k].reduce = gs[k].reduce
             /\ GroupState(r, c, sk, i, P, n + 1, k, gs2[k], ln, ex, sm[k], hd[k])
  <2> DEFINE group == [gs[k] EXCEPT !.last = last]
  <2>1. /\ GroupOK(c, sk, i, P, n, k, gs[k]) /\ HandlesOK(k, gs[k], ln)
        /\ SumsOK(c, P, n, k, gs[k], ex, sm[k]) /\ HeldOK(r, c, sk, i, P, n, k, gs[k], ex, hd[k])
        /\ hd[k] \in [Replicas -> 0 .. Iterations] /\ gs[k].reduce \in Nat
    BY StateFacts
  <2>2. /\ group.gather = gs[k].gather /\ group.sync = gs[k].sync /\ group.reduce = gs[k].reduce
        /\ group.dispatched = gs[k].dispatched
    BY <2>1 DEF GroupOK, GroupType
  <2>3. GroupOK(c, sk, i, P, n + 1, k, group)
    BY <2>1, SetSyncGroup
  <2>4. gs2[k] = group
    BY <1>3
  <2> HIDE DEF group, gs2
  <2>5. HandlesOK(k, group, ln)
    BY <2>1, <2>2, SameLaunched, HandlesKept
  <2>6. SumsOK(c, P, n + 1, k, group, ex, sm[k])
    BY <1>2, <1>4, <2>1, <2>2, SumsSame
  <2>7. HeldOK(r, c, sk, i, P, n + 1, k, group, ex, hd[k])
    BY <1>2, <1>4, <2>1, <2>2, CurrentSame, HeldSame
  <2> QED BY <2>1, <2>2, <2>3, <2>4, <2>5, <2>6, <2>7, Zenon DEF GroupState
<1>6. DOMAIN gs2 = GroupsOf(c)
  BY <1>3
<1> HIDE DEF gs2
<1>7. \A p \in ParamsOf(c) : P[n] # Op(Contributes(c), p)
  BY NoGradient
<1>8. /\ GradsOK(c, P, n, gr) /\ DOMAIN gr = ParamsOf(c)
      /\ \A p \in ParamsOf(c) : gr[p] \in 0 .. NumMicrobatches(c)
  BY StateFacts
<1>9. GradsOK(c, P, n + 1, gr)
  BY <1>2, <1>7, <1>8, GradsSame
<1>10. State(r, c, sk, i, P, n + 1, gs2, ln, ex, sm, hd, gr)
  BY <1>3, <1>5, <1>6, <1>8, <1>9, AllGroupsMove
<1> QED
  BY <1>2, <1>10 DEF gs2

\* A reduction is launched.
LEMMA ReduceLaunched ==
    ASSUME NEW c, NEW ln \in Seq(Collectives(c)), NEW g \in GroupsOf(c)
    PROVE  /\ Append(ln, <<"reduce", g>>) \in Seq(Collectives(c))
           /\ Extends(ln, Append(ln, <<"reduce", g>>))
           /\ Len(ln) + 1 \in DOMAIN Append(ln, <<"reduce", g>>)
           /\ Append(ln, <<"reduce", g>>)[Len(ln) + 1] = <<"reduce", g>>
           /\ \A m \in DOMAIN Append(ln, <<"reduce", g>>) : m \in DOMAIN ln \/ m = Len(ln) + 1
<1>1. <<"reduce", g>> \in Collectives(c)
  BY DEF Collectives
<1> QED
  BY <1>1, LaunchFacts, Zenon

\* A group that launches its reduction, or stays as it is, in a step that is
\* about no other group.
LEMMA LaunchReduce ==
    ASSUME NEW c, NEW sk, NEW i, NEW P, NEW n \in Nat, n > 1,
           NEW r, NEW gs, NEW ln, NEW ex \in Nat, NEW sm, NEW hd, NEW gr,
           State(r, c, sk, i, P, n, gs, ln, ex, sm, hd, gr),
           NEW g \in GroupsOf(c), NEW group, GroupOK(c, sk, i, P, n + 1, g, group),
           P[n] # Op("step", 0), P[n] # Op("finish", g), P[n] # Op("gather", g),
           \A k \in GroupsOf(c) : k # g => NotAbout(c, P, n, k),
           group.gather = gs[g].gather, group.sync = gs[g].sync, group.dispatched = gs[g].dispatched,
           NEW starts \in BOOLEAN, starts => gs[g].reduce = 0,
           group.reduce = IF starts THEN Len(ln) + 1 ELSE gs[g].reduce,
           NEW gr2, GradsOK(c, P, n + 1, gr2), DOMAIN gr2 = ParamsOf(c),
           \A p \in ParamsOf(c) : gr2[p] \in 0 .. NumMicrobatches(c)
    PROVE  State(r, c, sk, i, P, n + 1, [gs EXCEPT ![g] = group],
                 IF starts THEN Append(ln, <<"reduce", g>>) ELSE ln, ex, sm, hd, gr2)
<1> DEFINE handle == Len(ln) + 1
           ln2 == IF starts THEN Append(ln, <<"reduce", g>>) ELSE ln
<1>1. /\ ln \in Seq(Collectives(c)) /\ Len(ln) \in Nat /\ ex <= Len(ln)
      /\ HandlesOK(g, gs[g], ln) /\ SumsOK(c, P, n, g, gs[g], ex, sm[g])
      /\ HeldOK(r, c, sk, i, P, n, g, gs[g], ex, hd[g]) /\ hd[g] \in [Replicas -> 0 .. Iterations]
      /\ gs[g].reduce \in Nat
  BY StateFacts
<1>2. handle \in Nat \ {0} /\ handle > ex
  BY <1>1
<1>3. /\ ln2 \in Seq(Collectives(c)) /\ Extends(ln, ln2)
      /\ starts => handle \in DOMAIN ln2 /\ ln2[handle] = <<"reduce", g>>
      /\ \A m \in DOMAIN ln2 : m \in DOMAIN ln \/ (starts /\ m = handle)
  <2>1. CASE starts
    <3>1. ln2 = Append(ln, <<"reduce", g>>)
      BY <2>1
    <3> HIDE DEF ln2
    <3>2. /\ ln2 \in Seq(Collectives(c)) /\ Extends(ln, ln2)
          /\ Len(ln) + 1 \in DOMAIN ln2 /\ ln2[Len(ln) + 1] = <<"reduce", g>>
          /\ \A m \in DOMAIN ln2 : m \in DOMAIN ln \/ m = Len(ln) + 1
      BY <1>1, <3>1, ReduceLaunched, Zenon
    <3> QED BY <2>1, <3>2, Zenon DEF handle
  <2>2. CASE ~starts
    <3>1. ln2 = ln
      BY <2>2
    <3> HIDE DEF ln2
    <3> QED BY <2>2, <1>1, <3>1, SameLaunched
  <2> QED BY <2>1, <2>2
<1>4. group.reduce = (IF starts THEN handle ELSE gs[g].reduce)
  OBVIOUS
<1> HIDE DEF handle, ln2
<1>5. HandlesOK(g, group, ln2)
  BY <1>1, <1>3, <1>4 DEF HandlesOK, Extends
<1>6. SumsOK(c, P, n + 1, g, group, ex, sm[g])
  <2>1. group.reduce \in Nat /\ (group.reduce = gs[g].reduce \/ (gs[g].reduce = 0 /\ group.reduce > ex))
    BY <1>1, <1>2, <1>4
  <2> QED BY <1>1, <2>1, SumsSame
<1>7. HeldOK(r, c, sk, i, P, n + 1, g, group, ex, hd[g])
  BY <1>1, CurrentSame, HeldSame
<1>8. GroupState(r, c, sk, i, P, n + 1, g, group, ln2, ex, sm[g], hd[g])
  BY <1>1, <1>5, <1>6, <1>7, Zenon DEF GroupState
<1>9. ASSUME NEW k \in GroupsOf(c), k # g
      PROVE  GroupState(r, c, sk, i, P, n + 1, k, gs[k], ln2, ex, sm[k], hd[k])
  BY <1>3, <1>9, StateFacts, StateAdvance
<1>10. /\ gs[g].reduce = group.reduce \/ gs[g].reduce <= ex
       /\ \A m \in DOMAIN ln2 : m \in DOMAIN ln \/ (ln2[m] = <<"reduce", g>> /\ group.reduce = m)
  <2>1. CASE starts
    <3>1. gs[g].reduce = 0
      BY <2>1
    <3>2. gs[g].reduce <= ex
      BY <3>1
    <3> QED BY <1>3, <1>4, <2>1, <3>2, Zenon
  <2>2. CASE ~starts
    BY <1>3, <1>4, <2>2, Zenon
  <2> QED BY <2>1, <2>2, Zenon
<1>11. State(r, c, sk, i, P, n + 1, [gs EXCEPT ![g] = group], ln2, ex, sm, hd, gr2)
  BY <1>3, <1>8, <1>9, <1>10, OneGroup
<1> QED
  BY <1>11 DEF ln2

RegisterIn(c, g, group, p, handle) ==
    [group EXCEPT !.ready = ReadyWith(c, group, p),
                  !.reduce = IF StartsNow(c, g, group, ReadyWith(c, group, p)) THEN handle ELSE @]
LaunchedWith(c, g, group, p, ln) ==
    IF StartsNow(c, g, group, ReadyWith(c, group, p)) THEN Append(ln, <<"reduce", g>>) ELSE ln
GradsWith(c, gr, p) == IF c.split THEN gr ELSE [gr EXCEPT ![p] = @ + 1]

LEMMA BackwardState ==
    ASSUME NEW c \in Configs, NEW sk, NEW i, NEW P, ProgramInOrder(c, i, P), NEW n \in DOMAIN P,
           NEW r, NEW gs, NEW ln, NEW ex \in Nat, NEW sm, NEW hd, NEW gr,
           State(r, c, sk, i, P, n, gs, ln, ex, sm, hd, gr), NEW p, P[n] = Op("backward", p)
    PROVE  /\ n > 1
           /\ ~(c.overlap /\ gs[c.group[p]].last /\ p \in gs[c.group[p]].ready)
           /\ StartsNow(c, c.group[p], gs[c.group[p]], ReadyWith(c, gs[c.group[p]], p)) => gs[c.group[p]].reduce = 0
           /\ State(r, c, sk, i, P, n + 1,
                    [gs EXCEPT ![c.group[p]] = RegisterIn(c, c.group[p], gs[c.group[p]], p, Len(ln) + 1)],
                    LaunchedWith(c, c.group[p], gs[c.group[p]], p, ln), ex, sm, hd, GradsWith(c, gr, p))
<1> DEFINE g == c.group[p]
<1>g. g = c.group[p]
  OBVIOUS
<1> HIDE DEF g
<1> USE <1>g
<1> DEFINE handle == Len(ln) + 1
           starts == StartsNow(c, g, gs[g], ReadyWith(c, gs[g], p))
           group == [gs[g] EXCEPT !.ready = ReadyWith(c, gs[g], p), !.reduce = IF starts THEN handle ELSE @]
           gr2 == IF c.split THEN gr ELSE [gr EXCEPT ![p] = @ + 1]
<1>1. /\ n \in Nat /\ n > 1 /\ p \in ParamsOf(c) /\ g \in GroupsOf(c)
      /\ \A k \in GroupsOf(c) : k # g => NotAbout(c, P, n, k)
  BY BackwardFacts, Zenon
<1>2. GroupOK(c, sk, i, P, n, g, gs[g]) /\ Len(ln) \in Nat /\ GradsOK(c, P, n, gr)
      /\ DOMAIN gr = ParamsOf(c) /\ \A x \in ParamsOf(c) : gr[x] \in 0 .. NumMicrobatches(c)
  BY <1>1, StateFacts
<1>3. handle \in Nat \ {0}
  BY <1>2
<1> HIDE DEF handle
<1>4. /\ ~(c.overlap /\ gs[g].last /\ p \in gs[g].ready)
      /\ starts => gs[g].reduce = 0
      /\ GroupOK(c, sk, i, P, n + 1, g, group)
  <2>1. ~(c.overlap /\ gs[g].last /\ p \in gs[g].ready)
    BY <1>2, <1>3, BackwardGroup
  <2>2. starts => gs[g].reduce = 0
    BY <1>2, <1>3, BackwardGroup
  <2>3. GroupOK(c, sk, i, P, n + 1, g, group)
    BY <1>2, <1>3, BackwardGroup
  <2> QED BY <2>1, <2>2, <2>3
<1> USE DEF handle
<1>5. /\ group.gather = gs[g].gather /\ group.sync = gs[g].sync /\ group.dispatched = gs[g].dispatched
      /\ group.reduce = IF starts THEN handle ELSE gs[g].reduce
  BY <1>2 DEF GroupOK, GroupType
<1> HIDE DEF group
<1>6. P[n] # Op("step", 0) /\ P[n] # Op("finish", g) /\ P[n] # Op("gather", g)
  BY OpDistinct
<1>7. /\ GradsOK(c, P, n + 1, gr2) /\ DOMAIN gr2 = ParamsOf(c)
      /\ \A x \in ParamsOf(c) : gr2[x] \in 0 .. NumMicrobatches(c)
  <2>1. CASE c.split
    <3>1. \A x \in ParamsOf(c) : P[n] # Op(Contributes(c), x)
      BY <2>1, OpDistinct DEF Contributes
    <3>2. GradsOK(c, P, n + 1, gr)
      BY <1>1, <1>2, <3>1, GradsSame
    <3> QED BY <1>2, <2>1, <3>2
  <2>2. CASE ~c.split
    <3>1. P[n] = Op(Contributes(c), p)
      BY <2>2, Zenon DEF Contributes
    <3>2. gr2 = [gr EXCEPT ![p] = @ + 1]
      BY <2>2
    <3> DEFINE gr3 == [gr EXCEPT ![p] = @ + 1]
    <3>3. /\ GradsOK(c, P, n + 1, gr3) /\ DOMAIN gr3 = ParamsOf(c)
          /\ \A x \in ParamsOf(c) : gr3[x] \in 0 .. NumMicrobatches(c)
      BY <1>1, <1>2, <3>1, Accumulate
    <3> QED BY <3>2, <3>3, Zenon
  <2> QED BY <2>1, <2>2
<1> HIDE DEF gr2
<1>8. State(r, c, sk, i, P, n + 1, [gs EXCEPT ![g] = group],
            IF starts THEN Append(ln, <<"reduce", g>>) ELSE ln, ex, sm, hd, gr2)
  BY <1>1, <1>4, <1>5, <1>6, <1>7, LaunchReduce
<1> QED
  BY <1>1, <1>4, <1>8, Zenon DEF gr2, group, g, RegisterIn, LaunchedWith, GradsWith

LEMMA StartState ==
    ASSUME NEW c \in Configs, NEW sk, NEW i, NEW P, ProgramInOrder(c, i, P), NEW n \in DOMAIN P,
           NEW r, NEW gs, NEW ln, NEW ex \in Nat, NEW sm, NEW hd, NEW gr,
           State(r, c, sk, i, P, n, gs, ln, ex, sm, hd, gr), NEW g, P[n] = Op("start", g)
    PROVE  /\ n \in Nat /\ n > 1 /\ g \in GroupsOf(c)
           /\ gs[g].reduce = 0
           /\ State(r, c, sk, i, P, n + 1, [gs EXCEPT ![g] = [gs[g] EXCEPT !.reduce = Len(ln) + 1]],
                    Append(ln, <<"reduce", g>>), ex, sm, hd, gr)
<1> DEFINE handle == Len(ln) + 1
           group == [gs[g] EXCEPT !.reduce = handle]
<1>1. /\ n \in Nat /\ n > 1 /\ g \in GroupsOf(c)
      /\ \A k \in GroupsOf(c) : k # g => NotAbout(c, P, n, k)
  BY StartFacts
<1>2. GroupOK(c, sk, i, P, n, g, gs[g]) /\ Len(ln) \in Nat /\ GradsOK(c, P, n, gr)
      /\ DOMAIN gr = ParamsOf(c) /\ \A x \in ParamsOf(c) : gr[x] \in 0 .. NumMicrobatches(c)
  BY <1>1, StateFacts
<1>3. handle \in Nat \ {0}
  BY <1>2
<1> HIDE DEF handle
<1>4. gs[g].reduce = 0 /\ GroupOK(c, sk, i, P, n + 1, g, group)
  BY <1>2, <1>3, StartGroup
<1> USE DEF handle
<1>5. /\ group.gather = gs[g].gather /\ group.sync = gs[g].sync /\ group.dispatched = gs[g].dispatched
      /\ group.reduce = handle
  BY <1>2 DEF GroupOK, GroupType
<1> HIDE DEF group
<1>6. P[n] # Op("step", 0) /\ P[n] # Op("finish", g) /\ P[n] # Op("gather", g)
  BY OpDistinct
<1>7. \A p \in ParamsOf(c) : P[n] # Op(Contributes(c), p)
  BY NoGradient
<1>8. GradsOK(c, P, n + 1, gr)
  BY <1>1, <1>2, <1>7, GradsSame
<1>9. ASSUME NEW starts \in BOOLEAN, starts = TRUE
      PROVE  State(r, c, sk, i, P, n + 1, [gs EXCEPT ![g] = group],
                   IF starts THEN Append(ln, <<"reduce", g>>) ELSE ln, ex, sm, hd, gr)
  BY <1>1, <1>2, <1>4, <1>5, <1>6, <1>8, <1>9, LaunchReduce
<1> QED
  BY <1>1, <1>4, <1>9 DEF group

LEMMA FinishStartsState ==
    ASSUME NEW c \in Configs, NEW sk, NEW i, NEW P, ProgramInOrder(c, i, P), NEW n \in DOMAIN P,
           NEW r, NEW gs, NEW ln, NEW ex \in Nat, NEW sm, NEW hd, NEW gr,
           State(r, c, sk, i, P, n, gs, ln, ex, sm, hd, gr), NEW g, P[n] = Op("finish", g),
           ~c.overlap, gs[g].reduce = 0
    PROVE  /\ g \in GroupsOf(c)
           /\ State(r, c, sk, i, P, n, [gs EXCEPT ![g] = [gs[g] EXCEPT !.reduce = Len(ln) + 1]],
                    Append(ln, <<"reduce", g>>), ex, sm, hd, gr)
<1> DEFINE handle == Len(ln) + 1
           group == [gs[g] EXCEPT !.reduce = handle]
           ln2 == Append(ln, <<"reduce", g>>)
<1>1. g \in GroupsOf(c)
  BY FinishFacts
<1>2. /\ ln \in Seq(Collectives(c)) /\ Len(ln) \in Nat /\ ex <= Len(ln)
      /\ GradsOK(c, P, n, gr) /\ DOMAIN gr = ParamsOf(c)
      /\ \A p \in ParamsOf(c) : gr[p] \in 0 .. NumMicrobatches(c)
      /\ GroupOK(c, sk, i, P, n, g, gs[g]) /\ HandlesOK(g, gs[g], ln) /\ SumsOK(c, P, n, g, gs[g], ex, sm[g])
      /\ HeldOK(r, c, sk, i, P, n, g, gs[g], ex, hd[g]) /\ hd[g] \in [Replicas -> 0 .. Iterations]
  BY <1>1, StateFacts
<1>3. handle \in Nat \ {0} /\ handle > ex
  BY <1>2
<1>4. /\ ln2 \in Seq(Collectives(c)) /\ Extends(ln, ln2)
      /\ handle \in DOMAIN ln2 /\ ln2[handle] = <<"reduce", g>>
      /\ \A m \in DOMAIN ln2 : m \in DOMAIN ln \/ m = handle
  BY <1>1, <1>2, ReduceLaunched
<1> HIDE DEF handle, ln2
<1>5. GroupOK(c, sk, i, P, n, g, group)
  BY <1>2, <1>3, FinishStartsGroup
<1>6. /\ group.gather = gs[g].gather /\ group.sync = gs[g].sync /\ group.dispatched = gs[g].dispatched
      /\ group.reduce = handle
  BY <1>2 DEF GroupOK, GroupType
<1> HIDE DEF group
<1>7. HandlesOK(g, group, ln2)
  BY <1>2, <1>4, <1>6 DEF HandlesOK, Extends
<1>8. SumsOK(c, P, n, g, group, ex, sm[g])
  BY <1>2, <1>3, <1>6, SumsHere
<1>9. HeldOK(r, c, sk, i, P, n, g, group, ex, hd[g])
  BY <1>2, <1>6, HeldHere DEF IsCurrent
<1>10. GroupState(r, c, sk, i, P, n, g, group, ln2, ex, sm[g], hd[g])
  BY <1>2, <1>5, <1>7, <1>8, <1>9, Zenon DEF GroupState
<1>11. \A k \in GroupsOf(c) : k # g => GroupState(r, c, sk, i, P, n, k, gs[k], ln2, ex, sm[k], hd[k])
  BY <1>4, StateFacts, StateStays, Zenon
<1>12. State(r, c, sk, i, P, n, [gs EXCEPT ![g] = group], ln2, ex, sm, hd, gr)
  <2>1. /\ gs[g].reduce <= ex
        /\ \A m \in DOMAIN ln2 : m \in DOMAIN ln \/ (ln2[m] = <<"reduce", g>> /\ group.reduce = m)
    BY <1>4, <1>6
  <2> QED BY <1>1, <1>2, <1>4, <1>6, <1>10, <1>11, <2>1, OneGroup
<1> QED
  BY <1>1, <1>12 DEF group, handle, ln2

LEMMA FinishState ==
    ASSUME NEW c \in Configs, NEW sk, NEW i, NEW P, ProgramInOrder(c, i, P), NEW n \in DOMAIN P,
           NEW r, NEW gs, NEW ln, NEW ex \in Nat, NEW sm, NEW hd, NEW gr,
           State(r, c, sk, i, P, n, gs, ln, ex, sm, hd, gr), NEW g, P[n] = Op("finish", g),
           c.overlap \/ gs[g].reduce # 0, gs[g].reduce <= ex
    PROVE  /\ g \in GroupsOf(c) /\ n \in Nat /\ n > 1 /\ gs[g].reduce # 0
           /\ State(r, c, sk, i, P, n + 1, [gs EXCEPT ![g] = Finished(gs[g])], ln, ex, sm, hd, gr)
<1> DEFINE group == Finished(gs[g])
<1>1. g \in GroupsOf(c) /\ n \in Nat /\ n > 1
  BY FinishFacts
<1>2. /\ GroupOK(c, sk, i, P, n, g, gs[g]) /\ SumsOK(c, P, n, g, gs[g], ex, sm[g])
      /\ gs[g].reduce \in Nat
  BY <1>1, StateFacts
<1>3. /\ c.overlap => gs[g].reduce # 0
      /\ gs[g].gather = 0 /\ gs[g].sync = 0
      /\ GroupOK(c, sk, i, P, n + 1, g, group)
  BY <1>2, FinishGroup, Zenon
<1>4. gs[g].reduce # 0
  BY <1>3
<1>5. group.gather = 0 /\ group.sync = 0 /\ group.reduce = 0 /\ group.dispatched = FALSE
  BY <1>2, <1>3 DEF GroupOK, GroupType, Finished
<1> HIDE DEF group
<1>6. P[n] # Op("step", 0) /\ P[n] # Op("gather", g)
  BY OpDistinct
<1>7. \A p \in ParamsOf(c) : P[n] # Op(Contributes(c), p)
  BY NoGradient
<1>8. \A k \in GroupsOf(c) : k # g => NotAbout(c, P, n, k)
  BY OtherGroups
<1>9. SumsOK(c, P, n + 1, g, group, ex, sm[g])
  <2>1. sm[g] = <<Full(c, g)>>
    BY <1>1, <1>2, <1>4 DEF SumsOK
  <2>2. Did(P, n + 1, "finish", g)
    BY <1>1, DidNow
  <2> QED BY <2>1, <2>2 DEF SumsOK
<1>10. IsCurrent(c, sk, i, P, n + 1, g, group, ex) => IsCurrent(c, sk, i, P, n, g, gs[g], ex)
  <2>1. /\ Did(P, n + 1, "step", 0) <=> Did(P, n, "step", 0)
        /\ Did(P, n + 1, "gather", g) <=> Did(P, n, "gather", g)
    BY <1>1, <1>6, DidSame
  <2> QED BY <1>5, <2>1, Zenon DEF IsCurrent
<1>11. State(r, c, sk, i, P, n + 1, [gs EXCEPT ![g] = group], ln, ex, sm, hd, gr)
  BY <1>1, <1>3, <1>5, <1>6, <1>7, <1>8, <1>9, <1>10, OneGroupMoves
<1> QED
  BY <1>1, <1>4, <1>11 DEF group

\* The updates of i iterations.
LEMMA UpToNext ==
    ASSUME NEW sk, NEW i \in 1 .. Iterations
    PROVE  /\ UpTo(sk, i) = IF i \in sk THEN UpTo(sk, i - 1) ELSE UpTo(sk, i - 1) + 1
           /\ UpTo(sk, i) \in 0 .. Iterations
<1>1. Iterations \in Nat /\ i \in Nat
  BY ConfigsAssumption
<1> DEFINE Before == (1 .. i - 1) \ sk
           All == (1 .. i) \ sk
<1>2. IsFiniteSet(1 .. i - 1) /\ IsFiniteSet(1 .. i) /\ Cardinality(1 .. i) = i
  BY <1>1, FS_Interval
<1>3. Before \subseteq 1 .. i - 1 /\ All \subseteq 1 .. i
  OBVIOUS
<1>4. IsFiniteSet(Before) /\ IsFiniteSet(All) /\ Cardinality(All) <= Cardinality(1 .. i)
  BY <1>2, <1>3, FS_Subset
<1>5. Cardinality(All) \in Nat
  BY <1>4, FS_CardinalityType
<1>6. UpTo(sk, i) \in 0 .. Iterations
  BY <1>1, <1>2, <1>4, <1>5 DEF UpTo
<1>7. i \in sk => All = Before
  BY <1>1
<1>8. i \notin sk => All = Before \cup {i}
  BY <1>1
<1>9. i \notin Before
  BY <1>1
<1>10. Cardinality(Before \cup {i}) = Cardinality(Before) + 1
  BY <1>4, <1>9, FS_AddElement
<1> QED
  BY <1>6, <1>7, <1>8, <1>10 DEF UpTo

LEMMA StepState ==
    ASSUME NEW c \in Configs, NEW sk, NEW i \in 1 .. Iterations, NEW P, ProgramInOrder(c, i, P), NEW n \in DOMAIN P,
           NEW r \in Replicas, NEW gs, NEW ln, NEW ex \in Nat, NEW sm, NEW hd, NEW gr,
           State(r, c, sk, i, P, n, gs, ln, ex, sm, hd, gr), P[n] = Op("step", 0)
    PROVE  /\ n \in Nat /\ n > 1
           /\ State(r, c, sk, i, P, n + 1, gs, ln, ex, sm,
                    IF i \in sk THEN hd ELSE Updated(r, hd), gr)
<1> DEFINE hd2 == IF i \in sk THEN hd ELSE Updated(r, hd)
<1>1. DOMAIN P = 1 .. Len(P) /\ Len(P) \in Nat /\ n \in Nat /\ n > 1
  BY OpDistinct DEF ProgramInOrder, Typed, Phases
<1>2. ~Did(P, n, "step", 0)
  <2>1. PICK s \in DOMAIN P : Places(P, "step", 0) = {s}
    BY Zenon DEF ProgramInOrder, Phases
  <2>2. \A q \in DOMAIN P : P[q] = Op("step", 0) => q = n
    BY <2>1 DEF Places
  <2> QED BY <1>1, <2>2 DEF Did
<1>3. n \in PlacesOfOp(P, {"step"})
  BY OpDistinct DEF PlacesOfOp
<1>4. ASSUME NEW k \in GroupsOf(c)
      PROVE  /\ Did(P, n, "finish", k)
             /\ ~Did(P, n, "force", k) /\ ~Did(P, n, "gather", k)
  <2>1. PICK f \in DOMAIN P : Places(P, "finish", k) = {f}
    BY Zenon DEF ProgramInOrder, FinishesOnce
  <2>2. P[f] = Op("finish", k)
    BY <2>1 DEF Places
  <2>3. f \in PlacesOfOp(P, {"finish"})
    BY <2>2, OpDistinct DEF PlacesOfOp
  <2>4. f < n
    BY <1>3, <2>3, Zenon DEF ProgramInOrder, Phases
  <2>5. Did(P, n, "finish", k)
    BY <1>1, <2>2, <2>4 DEF Did
  <2>6. \A q \in PlacesOfOp(P, {"gather", "force"}) : n < q
    BY <1>3, Zenon DEF ProgramInOrder, Phases
  <2>7. \A q \in 1 .. n - 1 : q \in DOMAIN P /\ ~(n < q)
    BY <1>1
  <2>8. \A q \in 1 .. n - 1 : P[q].op \notin {"gather", "force"}
    BY <2>6, <2>7, Zenon DEF PlacesOfOp
  <2>9. \A q \in 1 .. n - 1 : P[q] # Op("gather", k) /\ P[q] # Op("force", k)
    BY <2>8, OpDistinct
  <2> QED BY <2>5, <2>9, Zenon DEF Did
<1>5. \A k \in GroupsOf(c) : NotAbout(c, P, n, k)
  BY OtherGroups
<1>6. Did(P, n + 1, "step", 0)
  BY <1>1, DidNow
<1>7. UpTo(sk, i) = (IF i \in sk THEN UpTo(sk, i - 1) ELSE UpTo(sk, i - 1) + 1) /\ UpTo(sk, i) \in 0 .. Iterations
  BY UpToNext
<1>8. /\ DOMAIN gs = GroupsOf(c) /\ DOMAIN sm = GroupsOf(c) /\ DOMAIN hd = GroupsOf(c)
      /\ DOMAIN hd2 = GroupsOf(c)
  BY DEF State, Updated
<1>9. ASSUME NEW k \in GroupsOf(c)
      PROVE  GroupState(r, c, sk, i, P, n + 1, k, gs[k], ln, ex, sm[k], hd2[k])
  <2>1. /\ GroupOK(c, sk, i, P, n, k, gs[k]) /\ HandlesOK(k, gs[k], ln)
        /\ SumsOK(c, P, n, k, gs[k], ex, sm[k]) /\ HeldOK(r, c, sk, i, P, n, k, gs[k], ex, hd[k])
        /\ hd[k] \in [Replicas -> 0 .. Iterations] /\ gs[k].reduce \in Nat
    BY StateFacts
  <2>2. GroupOK(c, sk, i, P, n + 1, k, gs[k])
    BY <1>1, <1>5, <2>1, Advance
  <2>3. P[n] # Op("finish", k) /\ P[n] # Op("gather", k) /\ P[n] # Op("force", k)
    BY OpDistinct
  <2>4. SumsOK(c, P, n + 1, k, gs[k], ex, sm[k])
    BY <1>1, <2>1, <2>3, SumsSame
  <2>5. gs[k].sync = 0
    BY <2>1, <2>3, NoSync DEF GroupOK
  <2>6. UpdatesAt(sk, i, P, n) = UpTo(sk, i - 1) /\ UpdatesAt(sk, i, P, n + 1) = UpTo(sk, i)
    BY <1>2, <1>6 DEF UpdatesAt
  <2>7. Did(P, n + 1, "gather", k) <=> Did(P, n, "gather", k)
    BY <1>1, <2>3, DidSame
  <2>8. c.gather => ~gs[k].dispatched
    BY <1>4, <2>1, <2>5, Zenon DEF GroupOK, GatherOK
  <2>9. CASE i \in sk
    <3>1. hd2[k] = hd[k]
      BY <2>9
    <3>2. IsCurrent(c, sk, i, P, n + 1, k, gs[k], ex) => IsCurrent(c, sk, i, P, n, k, gs[k], ex)
      BY <2>9, <2>8, Zenon DEF IsCurrent
    <3>3. HeldOK(r, c, sk, i, P, n + 1, k, gs[k], ex, hd[k])
      BY <1>7, <2>1, <2>6, <2>9, <3>2 DEF HeldOK
    <3> HIDE DEF hd2
    <3> QED BY <2>1, <2>2, <2>4, <3>1, <3>3, Zenon DEF GroupState
  <2>10. CASE i \notin sk
    <3>1. hd2[k] = [hd[k] EXCEPT ![r] = @ + 1]
      BY <1>8, <2>10 DEF Updated
    <3>2. hd[k][r] = UpTo(sk, i - 1)
      BY <2>1, <2>6 DEF HeldOK
    <3>3. hd2[k] \in [Replicas -> 0 .. Iterations] /\ hd2[k][r] = UpTo(sk, i)
      BY <1>7, <2>1, <2>10, <3>1, <3>2
    <3>4. ~IsCurrent(c, sk, i, P, n + 1, k, gs[k], ex)
      BY <1>4, <1>6, <2>5, <2>7, <2>8, <2>10, Zenon DEF IsCurrent
    <3>5. HeldOK(r, c, sk, i, P, n + 1, k, gs[k], ex, hd2[k])
      BY <2>6, <3>3, <3>4 DEF HeldOK
    <3> HIDE DEF hd2
    <3> QED BY <2>1, <2>2, <2>4, <3>3, <3>5, Zenon DEF GroupState
  <2> QED BY <2>9, <2>10
<1> HIDE DEF hd2
<1>10. \A p \in ParamsOf(c) : P[n] # Op(Contributes(c), p)
  BY NoGradient
<1>11. /\ GradsOK(c, P, n, gr) /\ DOMAIN gr = ParamsOf(c)
       /\ \A p \in ParamsOf(c) : gr[p] \in 0 .. NumMicrobatches(c)
  BY StateFacts
<1>12. GradsOK(c, P, n + 1, gr)
  BY <1>1, <1>10, <1>11, GradsSame
<1>13. State(r, c, sk, i, P, n + 1, gs, ln, ex, sm, hd2, gr)
  BY <1>8, <1>9, <1>11, <1>12, AllGroupsMove
<1> QED
  BY <1>1, <1>13 DEF hd2

LEMMA ZeroState ==
    ASSUME NEW c \in Configs, NEW sk, NEW i, NEW P, ProgramInOrder(c, i, P), NEW n \in DOMAIN P,
           NEW r, NEW gs, NEW ln, NEW ex \in Nat, NEW sm, NEW hd, NEW gr,
           State(r, c, sk, i, P, n, gs, ln, ex, sm, hd, gr), P[n] = Op("zero", 0)
    PROVE  /\ n = 1
           /\ State(r, c, sk, i, P, n + 1, [g \in DOMAIN gs |-> Reset(gs[g])], ln, ex,
                    [g \in DOMAIN sm |-> <<>>], hd, Zeroed(gr))
<1> DEFINE gs2 == [g \in DOMAIN gs |-> Reset(gs[g])]
           sm2 == [g \in DOMAIN sm |-> <<>>]
           gr2 == Zeroed(gr)
<1>1. n = 1
  BY OpDistinct DEF ProgramInOrder, Phases
<1>2. DOMAIN P = 1 .. Len(P) /\ Len(P) \in Nat \ {0} /\ n \in Nat \ {0}
  BY <1>1 DEF ProgramInOrder, Typed
<1>3. /\ DOMAIN gs = GroupsOf(c) /\ DOMAIN sm = GroupsOf(c) /\ DOMAIN hd = GroupsOf(c) /\ DOMAIN gr = ParamsOf(c)
  BY DEF State
<1>4. DOMAIN gs2 = GroupsOf(c) /\ DOMAIN sm2 = GroupsOf(c) /\ DOMAIN gr2 = ParamsOf(c)
  BY <1>3 DEF Zeroed
<1>5. \A op, a : op # "zero" => P[n] # Op(op, a)
  BY OpDistinct
<1>6. ASSUME NEW k \in GroupsOf(c)
      PROVE  /\ gs2[k].gather = gs[k].gather /\ gs2[k].sync = gs[k].sync /\ gs2[k].reduce = gs[k].reduce
             /\ GroupState(r, c, sk, i, P, n + 1, k, gs2[k], ln, ex, sm2[k], hd[k])
  <2> DEFINE group == Reset(gs[k])
  <2>1. /\ GroupOK(c, sk, i, P, n, k, gs[k]) /\ HandlesOK(k, gs[k], ln)
        /\ HeldOK(r, c, sk, i, P, n, k, gs[k], ex, hd[k])
        /\ hd[k] \in [Replicas -> 0 .. Iterations]
    BY StateFacts
  <2>2. GroupOK(c, sk, i, P, 1, k, gs[k])
    BY <1>1, <2>1
  <2>3. /\ gs[k].gather = 0 /\ gs[k].sync = 0 /\ gs[k].reduce = 0
        /\ GroupOK(c, sk, i, P, 2, k, group)
    BY <2>2, ZeroGroup DEF Reset
  <2>4. /\ group.gather = gs[k].gather /\ group.sync = gs[k].sync /\ group.reduce = gs[k].reduce
        /\ group.dispatched = gs[k].dispatched
    BY <2>1 DEF GroupOK, GroupType, Reset
  <2>5. GroupOK(c, sk, i, P, n + 1, k, group)
    BY <1>1, <2>3
  <2>6. gs2[k] = group /\ sm2[k] = <<>>
    BY <1>3
  <2> HIDE DEF group, gs2, sm2
  <2>7. HandlesOK(k, group, ln)
    BY <2>1, <2>4, SameLaunched, HandlesKept
  <2>8. SumsOK(c, P, n + 1, k, group, ex, <<>>)
    <3>1. ~Did(P, n, "finish", k)
      BY <1>1, DidFirst
    <3>2. ~Did(P, n + 1, "finish", k)
      BY <1>2, <1>5, <3>1, DidSame
    <3>3. group.reduce = 0
      BY <2>3, <2>4
    <3> QED BY <3>2, <3>3 DEF SumsOK
  <2>9. HeldOK(r, c, sk, i, P, n + 1, k, group, ex, hd[k])
    <3>1. P[n] # Op("step", 0) /\ P[n] # Op("gather", k)
      BY <1>5
    <3> QED BY <1>2, <2>1, <2>4, <3>1, CurrentSame, HeldSame
  <2> QED BY <2>1, <2>4, <2>5, <2>6, <2>7, <2>8, <2>9, Zenon DEF GroupState
<1>7. GradsOK(c, P, n + 1, gr2)
  <2>1. ASSUME NEW p \in ParamsOf(c)
        PROVE  {q \in 1 .. (n + 1) - 1 : P[q] = Op(Contributes(c), p)} = {} /\ gr2[p] = 0
    <3>1. P[n] # Op(Contributes(c), p)
      BY <1>5 DEF Contributes
    <3>2. \A q \in 1 .. (n + 1) - 1 : q = n
      BY <1>1
    <3>3. gr2[p] = 0
      BY <1>3 DEF Zeroed
    <3> QED BY <3>1, <3>2, <3>3
  <2> QED BY <2>1, FS_EmptySet DEF GradsOK
<1>8. \A p \in ParamsOf(c) : gr2[p] \in 0 .. NumMicrobatches(c)
  <2>1. n + 1 \in 2 .. Len(P) + 1
    BY <1>1, <1>2
  <2> HIDE DEF gr2
  <2> QED BY <1>7, <2>1, GradsBound
<1> HIDE DEF gs2, sm2, gr2
<1>9. State(r, c, sk, i, P, n + 1, gs2, ln, ex, sm2, hd, gr2)
  BY <1>3, <1>4, <1>6, <1>7, <1>8, AllGroupsMove
<1> QED
  BY <1>1, <1>9 DEF gs2, sm2, gr2

LEMMA EndState ==
    ASSUME NEW c \in Configs, NEW sk, NEW i \in 1 .. Iterations, NEW P, ProgramInOrder(c, i, P),
           NEW P2, ProgramInOrder(c, i + 1, P2), i # Iterations,
           NEW r, NEW gs, NEW ln, NEW ex \in Nat, NEW sm, NEW hd, NEW gr,
           State(r, c, sk, i, P, Len(P) + 1, gs, ln, ex, sm, hd, gr)
    PROVE  State(r, c, sk, i + 1, P2, 1, gs, ln, ex, sm, hd, gr)
<1>1. /\ DOMAIN gs = GroupsOf(c) /\ DOMAIN sm = GroupsOf(c) /\ DOMAIN hd = GroupsOf(c) /\ DOMAIN gr = ParamsOf(c)
      /\ \A p \in ParamsOf(c) : gr[p] \in 0 .. NumMicrobatches(c)
  BY Zenon DEF State
<1>2. GradsOK(c, P2, 1, gr)
  BY DEF GradsOK
<1>3. ASSUME NEW k \in GroupsOf(c)
      PROVE  GroupState(r, c, sk, i + 1, P2, 1, k, gs[k], ln, ex, sm[k], hd[k])
  <2> DEFINE n == Len(P) + 1
  <2>1. /\ GroupOK(c, sk, i, P, n, k, gs[k]) /\ HandlesOK(k, gs[k], ln)
        /\ HeldOK(r, c, sk, i, P, n, k, gs[k], ex, hd[k])
        /\ hd[k] \in [Replicas -> 0 .. Iterations]
    BY StateFacts
  <2>2. GroupOK(c, sk, i + 1, P2, 1, k, gs[k])
    <3>1. i \in Nat \ {0}
      BY ConfigsAssumption
    <3> QED BY <2>1, <3>1, IterationEndGroup
  <2>3. SumsOK(c, P2, 1, k, gs[k], ex, sm[k])
    BY DEF SumsOK
  <2>4. Did(P, n, "step", 0) /\ (~c.gather => Did(P, n, "gather", k))
    BY EndFacts, Zenon
  <2>5. ~Did(P2, 1, "step", 0)
    BY DidFirst
  <2>6. UpdatesAt(sk, i + 1, P2, 1) = UpdatesAt(sk, i, P, n)
    <3>1. i \in Int /\ (i + 1) - 1 = i
      BY ConfigsAssumption
    <3> QED BY <2>4, <2>5, <3>1 DEF UpdatesAt
  <2> HIDE DEF n
  <2>7. IsCurrent(c, sk, i + 1, P2, 1, k, gs[k], ex) => IsCurrent(c, sk, i, P, n, k, gs[k], ex)
    BY <2>4, Zenon DEF IsCurrent
  <2>8. HeldOK(r, c, sk, i + 1, P2, 1, k, gs[k], ex, hd[k])
    BY <2>1, <2>6, <2>7 DEF HeldOK
  <2> QED BY <2>1, <2>2, <2>3, <2>8, Zenon DEF GroupState
<1> QED
  BY <1>1, <1>2, <1>3, AllGroupsMove

\* The executed reductions do not change with the place in the program.
LEMMA ReductionsSame ==
    ASSUME NEW c \in Configs, NEW sk, NEW i \in 1 .. Iterations, NEW P, ProgramInOrder(c, i, P),
           NEW r, NEW gs, NEW ln, NEW ex \in Nat, NEW sm, NEW hd, NEW gr,
           State(r, c, sk, i, P, Len(P) + 1, gs, ln, ex, sm, hd, gr),
           NEW g \in GroupsOf(c)
    PROVE  Reductions(i + 1, 1, sm[g]) = Reductions(i, Len(P) + 1, sm[g])
<1>1. SumsOK(c, P, Len(P) + 1, g, gs[g], ex, sm[g])
  BY StateFacts
<1>2. Did(P, Len(P) + 1, "finish", g) /\ Len(P) + 1 > 1
  BY EndFacts, Zenon
<1>3. sm[g] = <<Full(c, g)>>
  BY <1>1, <1>2 DEF SumsOK
<1>4. Len(sm[g]) = 1
  BY <1>3
<1>5. i \in Int
  BY ConfigsAssumption
<1> QED
  BY <1>2, <1>4, <1>5 DEF Reductions

-----------------------------------------------------------------------------
(* The steps of the specification.                                         *)

OthersSame(r) ==
    /\ config' = config /\ skipped' = skipped /\ executed' = executed
    /\ DOMAIN pc' = Replicas /\ DOMAIN groups' = Replicas /\ DOMAIN held' = Replicas
    /\ DOMAIN grads' = Replicas /\ DOMAIN sums' = Replicas /\ DOMAIN launched' = Replicas
    /\ \A s \in Replicas : s # r =>
          /\ pc'[s] = pc[s] /\ groups'[s] = groups[s] /\ held'[s] = held[s]
          /\ grads'[s] = grads[s] /\ sums'[s] = sums[s] /\ launched'[s] = launched[s]

LEMMA StepKeeps ==
    ASSUME Inv, NEW r \in Replicas, OthersSame(r), ReplicaOK(r)',
           \A g \in GroupsOf(config) :
              Reductions(pc[r].iter, Place(r), sums[r][g])' = Reductions(pc[r].iter, Place(r), sums[r][g])
    PROVE  Inv'
<1>1. ASSUME NEW s \in Replicas, s # r
      PROVE  ReplicaOK(s)' /\ (pc[s]' = pc[s] /\ Place(s)' = Place(s) /\ sums'[s] = sums[s])
  <2>1. ReplicaOK(s)
    BY DEF Inv
  <2>2. /\ pc'[s] = pc[s] /\ groups'[s] = groups[s] /\ held'[s] = held[s]
        /\ grads'[s] = grads[s] /\ sums'[s] = sums[s] /\ launched'[s] = launched[s]
        /\ config' = config /\ skipped' = skipped /\ executed' = executed
    BY <1>1 DEF OthersSame
  <2>3. Prog(s)' = Prog(s) /\ Place(s)' = Place(s)
    BY <2>2 DEF Prog, Place
  <2>4. PcOK(s)'
    BY <2>1, <2>2, <2>3 DEF ReplicaOK, PcOK
  <2> QED BY <2>1, <2>2, <2>3, <2>4 DEF ReplicaOK
<1>2. \A s \in Replicas : ReplicaOK(s)'
  BY <1>1
<1>3. config' = config
  BY DEF OthersSame
<1>4. \A s \in Replicas : \A g \in GroupsOf(config) :
        Reductions(pc[s].iter, Place(s), sums[s][g])' = Reductions(pc[s].iter, Place(s), sums[s][g])
  <2> SUFFICES ASSUME NEW s \in Replicas, NEW g \in GroupsOf(config)
               PROVE  Reductions(pc[s].iter, Place(s), sums[s][g])' = Reductions(pc[s].iter, Place(s), sums[s][g])
    OBVIOUS
  <2>1. CASE s = r
    BY <2>1
  <2>2. CASE s # r
    <3>1. pc'[s] = pc[s] /\ Place(s)' = Place(s) /\ sums'[s] = sums[s]
      BY <1>1, <2>2
    <3> QED BY <3>1
  <2> QED BY <2>1, <2>2
<1>5. AtSameReduction'
  BY <1>3, <1>4 DEF Inv, AtSameReduction
<1> QED
  BY <1>2, <1>5 DEF Inv, OthersSame

LEMMA OpAt ==
    ASSUME NEW c, NEW P, Typed(c, P), NEW n \in DOMAIN P
    PROVE  P[n] = Op(P[n].op, P[n].args)
BY DEF Typed, Op

LEMMA ReplicaFacts ==
    ASSUME ProgramsInOrder, Inv, NEW r \in Replicas
    PROVE  /\ config \in Configs /\ executed \in Nat
           /\ pc[r].iter \in 1 .. Iterations /\ ProgramInOrder(config, pc[r].iter, Prog(r))
           /\ pc[r].k \in DOMAIN Prog(r) /\ pc[r].k \in Nat \ {0}
           /\ Prog(r)[pc[r].k] = Op(Prog(r)[pc[r].k].op, Prog(r)[pc[r].k].args)
           /\ State(r, config, skipped, pc[r].iter, Prog(r), Place(r), groups[r],
                    launched[r], executed, sums[r], held[r], grads[r])
           /\ DOMAIN groups[r] = GroupsOf(config) /\ DOMAIN held[r] = GroupsOf(config)
           /\ DOMAIN sums[r] = GroupsOf(config) /\ DOMAIN grads[r] = ParamsOf(config)
<1>1. /\ config \in Configs /\ executed \in Nat /\ PcOK(r)
      /\ State(r, config, skipped, pc[r].iter, Prog(r), Place(r), groups[r],
               launched[r], executed, sums[r], held[r], grads[r])
  BY DEF Inv, ReplicaOK
<1>2. pc[r].iter \in 1 .. Iterations /\ pc[r].k \in Nat \ {0} /\ pc[r].k <= Len(Prog(r))
  BY <1>1 DEF PcOK
<1>3. ProgramInOrder(config, pc[r].iter, Prog(r))
  BY <1>1, <1>2 DEF ProgramsInOrder, Prog
<1>4. Typed(config, Prog(r))
  BY <1>3 DEF ProgramInOrder
<1>5. pc[r].k \in DOMAIN Prog(r)
  <2>1. DOMAIN Prog(r) = 1 .. Len(Prog(r)) /\ Len(Prog(r)) \in Nat
    BY <1>4 DEF Typed
  <2> QED BY <1>2, <2>1
<1>6. Prog(r)[pc[r].k] = Op(Prog(r)[pc[r].k].op, Prog(r)[pc[r].k].args)
  BY <1>4, <1>5, OpAt
<1>7. /\ DOMAIN groups[r] = GroupsOf(config) /\ DOMAIN held[r] = GroupsOf(config)
      /\ DOMAIN sums[r] = GroupsOf(config) /\ DOMAIN grads[r] = ParamsOf(config)
  BY <1>1 DEF State
<1> QED
  BY <1>1, <1>2, <1>3, <1>5, <1>6, <1>7

\* A step that does not end the operation.
LEMMA Stays ==
    ASSUME ProgramsInOrder, Inv, NEW r \in Replicas, OthersSame(r), pc'[r] = pc[r], sums'[r] = sums[r],
           State(r, config, skipped, pc[r].iter, Prog(r), Place(r), groups'[r],
                 launched'[r], executed, sums[r], held'[r], grads'[r])
    PROVE  Inv'
<1>1. config' = config /\ skipped' = skipped /\ executed' = executed
  BY DEF OthersSame
<1>2. Prog(r)' = Prog(r) /\ Place(r)' = Place(r)
  BY <1>1 DEF Prog, Place
<1>3. PcOK(r)
  BY DEF Inv, ReplicaOK
<1>4. PcOK(r)'
  BY <1>2, <1>3 DEF PcOK
<1>5. ReplicaOK(r)'
  BY <1>1, <1>2, <1>4 DEF ReplicaOK
<1>6. \A g \in GroupsOf(config) :
        Reductions(pc[r].iter, Place(r), sums[r][g])' = Reductions(pc[r].iter, Place(r), sums[r][g])
  BY <1>2
<1> QED
  BY <1>5, <1>6, StepKeeps

\* A step that ends the operation, and with the last one the iteration.
LEMMA Moves ==
    ASSUME ProgramsInOrder, Inv, NEW r \in Replicas, OthersSame(r), Running(r), pc'[r] = Moved(r)[r],
           State(r, config, skipped, pc[r].iter, Prog(r), pc[r].k + 1, groups'[r],
                 launched'[r], executed, sums'[r], held'[r], grads'[r]),
           \A g \in GroupsOf(config) :
              Reductions(pc[r].iter, pc[r].k + 1, sums'[r][g]) = Reductions(pc[r].iter, pc[r].k, sums[r][g])
    PROVE  Inv'
<1>1. config' = config /\ skipped' = skipped /\ executed' = executed
  BY DEF OthersSame
<1>2. /\ config \in Configs /\ executed \in Nat
      /\ pc[r].iter \in 1 .. Iterations /\ ProgramInOrder(config, pc[r].iter, Prog(r))
      /\ pc[r].k \in Nat \ {0}
  BY ReplicaFacts
<1>3. /\ pc[r] \in [state : {"running", "done"}, iter : 1 .. Iterations, k : Nat \ {0}]
      /\ pc[r].k <= Len(Prog(r)) /\ pc[r].state = "running" /\ r \in DOMAIN pc
  BY DEF Inv, ReplicaOK, PcOK, Running
<1>4. Len(Prog(r)) \in Nat \ {0} /\ Iterations \in Nat
  BY <1>2, ConfigsAssumption DEF ProgramInOrder, Typed
<1>5. Place(r) = pc[r].k
  BY <1>3 DEF Place
<1>6. pc'[r] = IF pc[r].k < Len(Prog(r)) THEN [pc[r] EXCEPT !.k = pc[r].k + 1]
               ELSE IF pc[r].iter < Iterations THEN [pc[r] EXCEPT !.iter = pc[r].iter + 1, !.k = 1]
               ELSE [pc[r] EXCEPT !.state = "done"]
  BY <1>3 DEF Moved, Prog
<1>7. CASE pc[r].k < Len(Prog(r))
  <2>1. pc'[r].state = "running" /\ pc'[r].iter = pc[r].iter /\ pc'[r].k = pc[r].k + 1
    BY <1>3, <1>6, <1>7
  <2>2. pc'[r] \in [state : {"running", "done"}, iter : 1 .. Iterations, k : Nat \ {0}]
    BY <1>3, <1>6, <1>7
  <2>3. Prog(r)' = Prog(r) /\ Place(r)' = pc[r].k + 1
    BY <1>1, <2>1 DEF Prog, Place
  <2>4. PcOK(r)'
    BY <1>3, <1>4, <1>7, <2>1, <2>2, <2>3 DEF PcOK
  <2>5. ReplicaOK(r)'
    BY <1>1, <2>1, <2>3, <2>4 DEF ReplicaOK
  <2> QED BY <1>5, <2>1, <2>3, <2>5, StepKeeps
<1>8. CASE ~(pc[r].k < Len(Prog(r))) /\ pc[r].iter < Iterations
  <2>1. pc'[r].state = "running" /\ pc'[r].iter = pc[r].iter + 1 /\ pc'[r].k = 1
    BY <1>3, <1>6, <1>8
  <2>2. pc'[r] \in [state : {"running", "done"}, iter : 1 .. Iterations, k : Nat \ {0}]
    <3>1. pc[r].iter + 1 \in 1 .. Iterations
      BY <1>2, <1>4, <1>8
    <3>2. pc'[r] = [pc[r] EXCEPT !.iter = pc[r].iter + 1, !.k = 1]
      BY <1>6, <1>8
    <3>3. pc'[r] = [state |-> pc[r].state, iter |-> pc[r].iter + 1, k |-> 1]
      BY <1>3, <3>2
    <3> QED BY <1>3, <3>1, <3>3
  <2>3. Prog(r)' = Programs[config][pc[r].iter + 1] /\ Place(r)' = 1
    BY <1>1, <2>1 DEF Prog, Place
  <2>4. pc[r].iter + 1 \in 1 .. Iterations
    BY <1>2, <1>4, <1>8
  <2>5. ProgramInOrder(config, pc[r].iter + 1, Prog(r)')
    BY <1>2, <2>3, <2>4 DEF ProgramsInOrder
  <2>6. pc[r].k = Len(Prog(r))
    BY <1>3, <1>4, <1>8
  <2>7. State(r, config, skipped, pc[r].iter + 1, Prog(r)', 1, groups'[r],
              launched'[r], executed, sums'[r], held'[r], grads'[r])
    BY <1>2, <1>8, <2>5, <2>6, EndState
  <2>8. PcOK(r)'
    <3>1. Len(Prog(r)') \in Nat \ {0}
      BY <2>5 DEF ProgramInOrder, Typed
    <3> QED BY <2>1, <2>2, <3>1 DEF PcOK
  <2>9. ReplicaOK(r)'
    BY <1>1, <2>1, <2>3, <2>7, <2>8 DEF ReplicaOK
  <2>10. \A g \in GroupsOf(config) :
           Reductions(pc[r].iter + 1, 1, sums'[r][g]) = Reductions(pc[r].iter, Len(Prog(r)) + 1, sums'[r][g])
    <3>1. State(r, config, skipped, pc[r].iter, Prog(r), Len(Prog(r)) + 1, groups'[r],
                launched'[r], executed, sums'[r], held'[r], grads'[r])
      BY <2>6
    <3> SUFFICES ASSUME NEW g \in GroupsOf(config)
                 PROVE  Reductions(pc[r].iter + 1, 1, sums'[r][g])
                        = Reductions(pc[r].iter, Len(Prog(r)) + 1, sums'[r][g])
      OBVIOUS
    <3>2. config \in Configs /\ pc[r].iter \in 1 .. Iterations
          /\ ProgramInOrder(config, pc[r].iter, Prog(r)) /\ executed \in Nat
      BY <1>2
    <3> DEFINE sms == sums'[r]  gss == groups'[r]  lns == launched'[r]  hds == held'[r]  grs == grads'[r]
               P == Prog(r)  i == pc[r].iter
    <3>3. State(r, config, skipped, i, P, Len(P) + 1, gss, lns, executed, sms, hds, grs)
      BY <3>1
    <3>4. i \in 1 .. Iterations /\ ProgramInOrder(config, i, P)
      BY <3>2
    <3> HIDE DEF sms, gss, lns, hds, grs, P, i
    <3>5. Reductions(i + 1, 1, sms[g]) = Reductions(i, Len(P) + 1, sms[g])
      BY <3>2, <3>3, <3>4, ReductionsSame
    <3> QED BY <3>5 DEF sms, P, i
  <2> QED BY <1>5, <2>1, <2>3, <2>6, <2>9, <2>10, StepKeeps
<1>9. CASE ~(pc[r].k < Len(Prog(r))) /\ ~(pc[r].iter < Iterations)
  <2>1. pc'[r].state = "done" /\ pc'[r].iter = pc[r].iter /\ pc'[r].k = pc[r].k
    BY <1>3, <1>6, <1>9
  <2>2. pc'[r] \in [state : {"running", "done"}, iter : 1 .. Iterations, k : Nat \ {0}]
    BY <1>3, <1>6, <1>9
  <2>3. Prog(r)' = Prog(r) /\ Place(r)' = pc[r].k + 1
    BY <1>1, <2>1 DEF Prog, Place
  <2>4. PcOK(r)'
    BY <1>2, <1>3, <1>4, <1>9, <2>1, <2>2, <2>3 DEF PcOK
  <2>5. ReplicaOK(r)'
    BY <1>1, <2>1, <2>3, <2>4 DEF ReplicaOK
  <2> QED BY <1>5, <2>1, <2>3, <2>5, StepKeeps
<1> QED
  BY <1>7, <1>8, <1>9

\* Most steps leave the reductions alone.
LEMMA MovesOn ==
    ASSUME ProgramsInOrder, Inv, NEW r \in Replicas, OthersSame(r), Running(r), pc'[r] = Moved(r)[r],
           pc[r].k > 1, sums'[r] = sums[r],
           State(r, config, skipped, pc[r].iter, Prog(r), pc[r].k + 1, groups'[r],
                 launched'[r], executed, sums[r], held'[r], grads'[r])
    PROVE  Inv'
<1>1. pc[r].k \in Nat
  BY ReplicaFacts
<1>2. \A g \in GroupsOf(config) :
        Reductions(pc[r].iter, pc[r].k + 1, sums'[r][g]) = Reductions(pc[r].iter, pc[r].k, sums[r][g])
  BY <1>1 DEF Reductions
<1> QED
  BY <1>2, Moves

LEMMA DoingFacts ==
    ASSUME ProgramsInOrder, Inv, NEW r \in Replicas, NEW op, Doing(r, op)
    PROVE  /\ config \in Configs /\ executed \in Nat /\ Running(r)
           /\ pc[r].iter \in 1 .. Iterations /\ ProgramInOrder(config, pc[r].iter, Prog(r))
           /\ pc[r].k \in DOMAIN Prog(r) /\ pc[r].k \in Nat \ {0} /\ Place(r) = pc[r].k
           /\ Prog(r)[pc[r].k] = Op(op, Arg(r))
           /\ State(r, config, skipped, pc[r].iter, Prog(r), pc[r].k, groups[r],
                    launched[r], executed, sums[r], held[r], grads[r])
           /\ DOMAIN groups[r] = GroupsOf(config) /\ DOMAIN held[r] = GroupsOf(config)
           /\ DOMAIN sums[r] = GroupsOf(config) /\ DOMAIN grads[r] = ParamsOf(config)
           /\ DOMAIN pc = Replicas /\ DOMAIN groups = Replicas /\ DOMAIN held = Replicas
           /\ DOMAIN grads = Replicas /\ DOMAIN sums = Replicas /\ DOMAIN launched = Replicas
<1>1. Running(r) /\ At(r).op = op
  BY DEF Doing
<1>2. Place(r) = pc[r].k
  BY <1>1 DEF Running, Place
<1>3. At(r) = Prog(r)[pc[r].k]
  BY DEF At, Prog
<1>4. Prog(r)[pc[r].k] = Op(At(r).op, At(r).args)
  BY <1>3, ReplicaFacts
<1>5. Prog(r)[pc[r].k] = Op(op, Arg(r))
  BY <1>1, <1>4 DEF Arg
<1>6. /\ DOMAIN pc = Replicas /\ DOMAIN groups = Replicas /\ DOMAIN held = Replicas
      /\ DOMAIN grads = Replicas /\ DOMAIN sums = Replicas /\ DOMAIN launched = Replicas
  BY DEF Inv
<1> QED
  BY <1>1, <1>2, <1>5, <1>6, ReplicaFacts

\* What a step does not change.
LEMMA DoneFacts ==
    ASSUME Inv, NEW r \in Replicas, Done(r)
    PROVE  /\ pc'[r] = Moved(r)[r] /\ DOMAIN pc' = Replicas
           /\ \A s \in Replicas : s # r => pc'[s] = pc[s]
BY DEF Done, Moved, Inv

LEMMA UseKeeps ==
    ASSUME ProgramsInOrder, Inv, NEW r \in Replicas, Use(r)
    PROVE  Inv'
<1>1. Doing(r, "use") /\ Done(r)
      /\ UNCHANGED <<config, skipped, groups, held, grads, sums, launched, executed>>
  BY DEF Use
<1>2. OthersSame(r)
  BY <1>1, DoneFacts DEF OthersSame, Inv
<1>3. pc[r].k > 1 /\ State(r, config, skipped, pc[r].iter, Prog(r), pc[r].k + 1, groups[r],
                           launched[r], executed, sums[r], held[r], grads[r])
  BY <1>1, DoingFacts, UseState
<1> QED
  BY <1>1, <1>2, <1>3, DoingFacts, DoneFacts, MovesOn

LEMMA WeightGradientKeeps ==
    ASSUME ProgramsInOrder, Inv, NEW r \in Replicas, WeightGradient(r)
    PROVE  Inv'
<1>1. Doing(r, "wgrad") /\ Done(r) /\ grads' = [grads EXCEPT ![r][Arg(r)] = @ + 1]
      /\ UNCHANGED <<config, skipped, groups, held, sums, launched, executed>>
  BY DEF WeightGradient
<1>2. OthersSame(r) /\ grads'[r] = [grads[r] EXCEPT ![Arg(r)] = @ + 1]
  BY <1>1, DoneFacts DEF OthersSame, Inv
<1>3. pc[r].k > 1 /\ State(r, config, skipped, pc[r].iter, Prog(r), pc[r].k + 1, groups[r],
                           launched[r], executed, sums[r], held[r], grads'[r])
  <2>1. /\ config \in Configs /\ ProgramInOrder(config, pc[r].iter, Prog(r)) /\ executed \in Nat
        /\ pc[r].k \in DOMAIN Prog(r) /\ Prog(r)[pc[r].k] = Op("wgrad", Arg(r))
        /\ State(r, config, skipped, pc[r].iter, Prog(r), pc[r].k, groups[r],
                 launched[r], executed, sums[r], held[r], grads[r])
    BY <1>1, DoingFacts
  <2>2. pc[r].k > 1 /\ State(r, config, skipped, pc[r].iter, Prog(r), pc[r].k + 1, groups[r],
                             launched[r], executed, sums[r], held[r], [grads[r] EXCEPT ![Arg(r)] = @ + 1])
    BY <2>1, WeightGradientState
  <2> QED BY <1>2, <2>2
<1> QED
  BY <1>1, <1>2, <1>3, DoingFacts, DoneFacts, MovesOn

LEMMA SetSyncKeeps ==
    ASSUME ProgramsInOrder, Inv, NEW r \in Replicas, SetSync(r)
    PROVE  Inv'
<1>1. /\ Doing(r, "sync") /\ Done(r)
      /\ groups' = [groups EXCEPT ![r] = [g \in DOMAIN @ |-> [@[g] EXCEPT !.last = Arg(r)]]]
      /\ UNCHANGED <<config, skipped, held, grads, sums, launched, executed>>
  BY DEF SetSync
<1>2. OthersSame(r) /\ groups'[r] = [g \in DOMAIN groups[r] |-> [groups[r][g] EXCEPT !.last = Arg(r)]]
  BY <1>1, DoneFacts DEF OthersSame, Inv
<1>3. Arg(r) \in BOOLEAN
  <2>1. Typed(config, Prog(r)) /\ Prog(r)[pc[r].k] = Op("sync", Arg(r)) /\ pc[r].k \in DOMAIN Prog(r)
    BY <1>1, DoingFacts DEF ProgramInOrder
  <2> QED BY <2>1 DEF Typed, Op
<1>4. pc[r].k > 1 /\ State(r, config, skipped, pc[r].iter, Prog(r), pc[r].k + 1, groups'[r],
                           launched[r], executed, sums[r], held[r], grads[r])
  BY <1>1, <1>2, <1>3, DoingFacts, SetSyncState
<1> QED
  BY <1>1, <1>2, <1>4, DoingFacts, DoneFacts, MovesOn

\* The state only reads the bookkeeping of the groups.
LEMMA SameGroups ==
    ASSUME NEW r, NEW c, NEW sk, NEW i, NEW P, NEW n, NEW gs, NEW ln, NEW ex, NEW sm, NEW hd, NEW gr,
           State(r, c, sk, i, P, n, gs, ln, ex, sm, hd, gr),
           NEW gs2, DOMAIN gs2 = GroupsOf(c), \A k \in GroupsOf(c) : gs2[k] = gs[k]
    PROVE  State(r, c, sk, i, P, n, gs2, ln, ex, sm, hd, gr)
<1>1. PendingOK(c, gs2, ln, ex)
  BY DEF State, PendingOK
<1> QED
  BY <1>1 DEF State

LEMMA HookStartKeeps ==
    ASSUME ProgramsInOrder, Inv, NEW r \in Replicas, HookStart(r)
    PROVE  Inv'
<1> DEFINE g == Arg(r)
           group == [groups[r][g] EXCEPT !.gather = Len(launched[r]) + 1, !.dispatched = TRUE]
<1>1. Doing(r, "hook") /\ ~groups[r][g].dispatched
  BY DEF HookStart
<1>2. /\ g \in GroupsOf(config) /\ groups[r][g].gather = 0
      /\ State(r, config, skipped, pc[r].iter, Prog(r), pc[r].k,
               [groups[r] EXCEPT ![g] = group], Append(launched[r], <<"gather", g>>),
               executed, sums[r], held[r], grads[r])
  <2>1. /\ config \in Configs /\ ProgramInOrder(config, pc[r].iter, Prog(r)) /\ executed \in Nat
        /\ pc[r].k \in DOMAIN Prog(r) /\ Prog(r)[pc[r].k] = Op("hook", g)
        /\ State(r, config, skipped, pc[r].iter, Prog(r), pc[r].k, groups[r],
                 launched[r], executed, sums[r], held[r], grads[r])
    BY <1>1, DoingFacts
  <2> QED BY <1>1, <2>1, HookStartState
<1>3. /\ Launch(r, "gather", g)
      /\ groups' = [groups EXCEPT ![r][g].gather = Handle(r), ![r][g].dispatched = TRUE]
      /\ UNCHANGED <<config, skipped, pc, held, grads, sums, executed>>
  BY <1>2 DEF HookStart
<1>4. /\ DOMAIN pc = Replicas /\ DOMAIN groups = Replicas /\ DOMAIN held = Replicas
      /\ DOMAIN grads = Replicas /\ DOMAIN sums = Replicas /\ DOMAIN launched = Replicas
  BY DEF Inv
<1>5. groups' = [groups EXCEPT ![r] = [groups[r] EXCEPT ![g] = group]]
  BY <1>3 DEF Handle
<1>6. launched' = [launched EXCEPT ![r] = Append(launched[r], <<"gather", g>>)]
  BY <1>3 DEF Launch
<1> HIDE DEF group
<1>7. OthersSame(r) /\ groups'[r] = [groups[r] EXCEPT ![g] = group]
      /\ launched'[r] = Append(launched[r], <<"gather", g>>)
  BY <1>3, <1>4, <1>5, <1>6 DEF OthersSame
<1>8. pc'[r] = pc[r] /\ sums'[r] = sums[r] /\ held'[r] = held[r] /\ grads'[r] = grads[r]
  BY <1>3
<1>9. Place(r) = pc[r].k
  BY <1>1, DoingFacts
<1> QED
  BY <1>2, <1>7, <1>8, <1>9, Stays

LEMMA HookPassesKeeps ==
    ASSUME ProgramsInOrder, Inv, NEW r \in Replicas, HookPasses(r)
    PROVE  Inv'
<1> DEFINE g == Arg(r)
<1>1. /\ Doing(r, "hook") /\ Done(r) /\ groups[r][g].dispatched /\ groups[r][g].gather = 0
      /\ UNCHANGED <<config, skipped, groups, held, grads, sums, launched, executed>>
  BY DEF HookPasses
<1>2. OthersSame(r)
  BY <1>1, DoneFacts DEF OthersSame, Inv
<1>3. /\ g \in GroupsOf(config) /\ pc[r].k > 1
      /\ State(r, config, skipped, pc[r].iter, Prog(r), pc[r].k + 1,
               [groups[r] EXCEPT ![g] = [groups[r][g] EXCEPT !.gather = 0]],
               launched[r], executed, sums[r], held[r], grads[r])
  <2>1. /\ config \in Configs /\ ProgramInOrder(config, pc[r].iter, Prog(r)) /\ executed \in Nat
        /\ pc[r].k \in DOMAIN Prog(r) /\ Prog(r)[pc[r].k] = Op("hook", g)
        /\ State(r, config, skipped, pc[r].iter, Prog(r), pc[r].k, groups[r],
                 launched[r], executed, sums[r], held[r], grads[r])
    BY <1>1, DoingFacts
  <2>2. groups[r][g].gather <= executed
    BY <1>1, <2>1
  <2> QED BY <1>1, <2>1, <2>2, HookWaitState
<1>4. State(r, config, skipped, pc[r].iter, Prog(r), pc[r].k + 1, groups[r],
            launched[r], executed, sums[r], held[r], grads[r])
  <2>1. DOMAIN groups[r] = GroupsOf(config) /\ GroupOK(config, skipped, pc[r].iter, Prog(r), pc[r].k, g, groups[r][g])
    BY <1>1, <1>3, DoingFacts, StateFacts
  <2>2. groups[r][g] \in [dispatched : BOOLEAN, gather : Nat, sync : Nat, reduce : Nat,
                          ready : SUBSET Members(config, g), last : BOOLEAN]
    BY <2>1 DEF GroupOK, GroupType
  <2>3. [groups[r][g] EXCEPT !.gather = 0] = groups[r][g]
    BY <1>1, <2>2
  <2>4. \A k \in GroupsOf(config) :
          groups[r][k] = [groups[r] EXCEPT ![g] = [groups[r][g] EXCEPT !.gather = 0]][k]
    BY <2>1, <2>3
  <2> QED BY <1>3, <2>1, <2>4, SameGroups
<1> QED
  BY <1>1, <1>2, <1>3, <1>4, DoingFacts, DoneFacts, MovesOn

\* A set with one element in a sequence.
LEMMA SetToSeqFacts ==
    /\ SetToSeq({}) = <<>>
    /\ \A x : SetToSeq({x}) = <<x>>
<1>1. Cardinality({}) = 0
  BY FS_EmptySet
<1>2. SetToSeq({}) = <<>>
  <2>1. 1 .. 0 = {}
    OBVIOUS
  <2>2. <<>> \in [{} -> {}] /\ IsInjective(<<>>)
    BY DEF IsInjective
  <2>3. SetToSeq({}) \in [{} -> {}]
    BY <1>1, <2>1, <2>2, Zenon DEF SetToSeq
  <2> QED BY <2>3
<1>3. ASSUME NEW x
      PROVE  SetToSeq({x}) = <<x>>
  <2>1. Cardinality({x}) = 1
    BY FS_Singleton
  <2>2. <<x>> \in [1 .. 1 -> {x}] /\ IsInjective(<<x>>)
    BY DEF IsInjective
  <2>3. SetToSeq({x}) \in [1 .. 1 -> {x}]
    BY <2>1, <2>2, Zenon DEF SetToSeq
  <2> QED BY <2>3
<1> QED
  BY <1>2, <1>3

LEMMA HookWaitKeeps ==
    ASSUME ProgramsInOrder, Inv, NEW r \in Replicas, HookWait(r)
    PROVE  Inv'
<1> DEFINE g == Arg(r)
           next == NextGroup(config, g)
           waited == [groups[r] EXCEPT ![g] = [groups[r][g] EXCEPT !.gather = 0]]
<1>1. Doing(r, "hook") /\ groups[r][g].dispatched /\ groups[r][g].gather # 0 /\ groups[r][g].gather <= executed
  BY DEF HookWait, Over
<1>2. /\ config \in Configs /\ ProgramInOrder(config, pc[r].iter, Prog(r)) /\ executed \in Nat
      /\ pc[r].k \in DOMAIN Prog(r) /\ Prog(r)[pc[r].k] = Op("hook", g)
      /\ State(r, config, skipped, pc[r].iter, Prog(r), pc[r].k, groups[r],
               launched[r], executed, sums[r], held[r], grads[r])
      /\ DOMAIN groups[r] = GroupsOf(config) /\ Running(r)
      /\ DOMAIN groups = Replicas /\ DOMAIN launched = Replicas
  BY <1>1, DoingFacts
<1>3. /\ g \in GroupsOf(config) /\ pc[r].k > 1
      /\ State(r, config, skipped, pc[r].iter, Prog(r), pc[r].k + 1, waited,
               launched[r], executed, sums[r], held[r], grads[r])
  BY <1>1, <1>2, HookWaitState
<1>4. g \in Nat \ {0} /\ (g > 1 => g - 1 \in GroupsOf(config))
  BY <1>2, <1>3, ConfigFacts
<1>5. CASE g > 1
  <2> DEFINE group == [groups[r][g - 1] EXCEPT !.gather = Len(launched[r]) + 1, !.dispatched = TRUE]
  <2>1. g - 1 \in GroupsOf(config)
    BY <1>4, <1>5
  <2>2. /\ groups[r][g - 1].gather = 0
        /\ State(r, config, skipped, pc[r].iter, Prog(r), pc[r].k + 1,
                 [waited EXCEPT ![g - 1] = group],
                 Append(launched[r], <<"gather", g - 1>>), executed, sums[r], held[r], grads[r])
    BY <1>1, <1>2, <2>1, HookNextState
  <2>3. next = {g - 1}
    BY <1>5 DEF NextGroup
  <2>4. /\ launched' = [launched EXCEPT ![r] = @ \o SetToSeq({<<"gather", n>> : n \in next})]
        /\ groups' = [groups EXCEPT ![r] = [n \in DOMAIN @ |->
                IF n \in next THEN [@[n] EXCEPT !.gather = Handle(r), !.dispatched = TRUE]
                ELSE IF n = g THEN [@[n] EXCEPT !.gather = 0]
                ELSE @[n]]]
        /\ Done(r)
        /\ UNCHANGED <<config, skipped, held, grads, sums, executed>>
    BY <2>2, <2>3 DEF HookWait
  <2>5. launched'[r] = Append(launched[r], <<"gather", g - 1>>)
    <3>1. {<<"gather", n>> : n \in next} = {<<"gather", g - 1>>}
      BY <2>3
    <3>2. SetToSeq({<<"gather", n>> : n \in next}) = <<<<"gather", g - 1>>>>
      BY <3>1, SetToSeqFacts
    <3>3. launched[r] \in Seq(Collectives(config)) /\ <<"gather", g - 1>> \in Collectives(config)
      BY <1>2, <2>1, StateFacts DEF Collectives
    <3>4. Append(launched[r], <<"gather", g - 1>>) = launched[r] \o <<<<"gather", g - 1>>>>
      BY <3>3, AppendIsConcat
    <3> QED BY <1>2, <2>4, <3>2, <3>4
  <2>6. OthersSame(r)
    BY <2>4, DoneFacts DEF OthersSame, Inv
  <2>7. DOMAIN groups'[r] = GroupsOf(config)
    BY <1>2, <2>4
  <2>8. ASSUME NEW k \in GroupsOf(config)
        PROVE  groups'[r][k] = [waited EXCEPT ![g - 1] = group][k]
    <3>1. groups'[r][k] = IF k \in next THEN [groups[r][k] EXCEPT !.gather = Handle(r), !.dispatched = TRUE]
                          ELSE IF k = g THEN [groups[r][k] EXCEPT !.gather = 0]
                          ELSE groups[r][k]
      BY <1>2, <2>4
    <3>2. g - 1 # g /\ k \in DOMAIN groups[r]
      BY <1>2, <1>4
    <3> QED BY <2>3, <3>1, <3>2 DEF Handle
  <2>9. State(r, config, skipped, pc[r].iter, Prog(r), pc[r].k + 1, groups'[r],
              launched'[r], executed, sums[r], held[r], grads[r])
    BY <2>2, <2>5, <2>7, <2>8, SameGroups, ZenonT(60)
  <2> HIDE DEF group, waited
  <2> QED BY <1>2, <1>3, <2>4, <2>6, <2>9, DoneFacts, MovesOn
<1>6. CASE ~(g > 1)
  <2>1. next = {}
    BY <1>6 DEF NextGroup
  <2>2. /\ launched' = [launched EXCEPT ![r] = @ \o SetToSeq({<<"gather", n>> : n \in next})]
        /\ groups' = [groups EXCEPT ![r] = [n \in DOMAIN @ |->
                IF n \in next THEN [@[n] EXCEPT !.gather = Handle(r), !.dispatched = TRUE]
                ELSE IF n = g THEN [@[n] EXCEPT !.gather = 0]
                ELSE @[n]]]
        /\ Done(r)
        /\ UNCHANGED <<config, skipped, held, grads, sums, executed>>
    BY <2>1 DEF HookWait
  <2>3. launched'[r] = launched[r]
    <3>1. {<<"gather", n>> : n \in next} = {}
      BY <2>1
    <3>2. SetToSeq({<<"gather", n>> : n \in next}) = <<>>
      BY <3>1, SetToSeqFacts
    <3>3. launched[r] \in Seq(Collectives(config))
      BY <1>2, StateFacts
    <3>4. launched[r] \o <<>> = launched[r]
      BY <3>3, ConcatEmptySeq
    <3> QED BY <1>2, <2>2, <3>2, <3>4
  <2>4. OthersSame(r)
    BY <2>2, DoneFacts DEF OthersSame, Inv
  <2>5. DOMAIN groups'[r] = GroupsOf(config)
    BY <1>2, <2>2
  <2>6. ASSUME NEW k \in GroupsOf(config)
        PROVE  groups'[r][k] = waited[k]
    BY <1>2, <2>1, <2>2
  <2>7. State(r, config, skipped, pc[r].iter, Prog(r), pc[r].k + 1, groups'[r],
              launched'[r], executed, sums[r], held[r], grads[r])
    BY <1>3, <2>3, <2>5, <2>6, SameGroups
  <2> HIDE DEF waited
  <2> QED BY <1>2, <1>3, <2>2, <2>4, <2>7, DoneFacts, MovesOn
<1> QED
  BY <1>5, <1>6

LEMMA SyncStartKeeps ==
    ASSUME ProgramsInOrder, Inv, NEW r \in Replicas, SyncStart(r)
    PROVE  Inv'
<1> DEFINE g == Arg(r)
           group == [groups[r][g] EXCEPT !.sync = Len(launched[r]) + 1, !.dispatched = TRUE]
<1>1. /\ Doing(r, "force") \/ (Doing(r, "gather") /\ pc[r].iter \notin skipped)
      /\ groups[r][g].gather = 0 /\ groups[r][g].sync = 0
      /\ Launch(r, "gather", g)
      /\ groups' = [groups EXCEPT ![r][g].sync = Handle(r), ![r][g].dispatched = TRUE]
      /\ UNCHANGED <<config, skipped, pc, held, grads, sums, executed>>
  BY DEF SyncStart
<1>2. /\ config \in Configs /\ ProgramInOrder(config, pc[r].iter, Prog(r)) /\ executed \in Nat
      /\ pc[r].k \in DOMAIN Prog(r) /\ Place(r) = pc[r].k
      /\ \/ Prog(r)[pc[r].k] = Op("force", g)
         \/ Prog(r)[pc[r].k] = Op("gather", g) /\ pc[r].iter \notin skipped
      /\ State(r, config, skipped, pc[r].iter, Prog(r), pc[r].k, groups[r],
               launched[r], executed, sums[r], held[r], grads[r])
  BY <1>1, DoingFacts
<1>3. g \in GroupsOf(config)
  BY <1>2, OpDistinct DEF ProgramInOrder, Typed
<1>4. State(r, config, skipped, pc[r].iter, Prog(r), pc[r].k,
            [groups[r] EXCEPT ![g] = group], Append(launched[r], <<"gather", g>>),
            executed, sums[r], held[r], grads[r])
  BY <1>1, <1>2, <1>3, SyncStartState
<1>5. groups' = [groups EXCEPT ![r] = [groups[r] EXCEPT ![g] = group]]
  BY <1>1 DEF Handle
<1>6. launched' = [launched EXCEPT ![r] = Append(launched[r], <<"gather", g>>)]
  BY <1>1 DEF Launch
<1>7. /\ DOMAIN pc = Replicas /\ DOMAIN groups = Replicas /\ DOMAIN held = Replicas
      /\ DOMAIN grads = Replicas /\ DOMAIN sums = Replicas /\ DOMAIN launched = Replicas
  BY DEF Inv
<1> HIDE DEF group
<1>8. OthersSame(r) /\ groups'[r] = [groups[r] EXCEPT ![g] = group]
      /\ launched'[r] = Append(launched[r], <<"gather", g>>)
  BY <1>1, <1>5, <1>6, <1>7 DEF OthersSame
<1>9. pc'[r] = pc[r] /\ sums'[r] = sums[r] /\ held'[r] = held[r] /\ grads'[r] = grads[r]
  BY <1>1
<1> QED
  BY <1>2, <1>4, <1>8, <1>9, Stays

LEMMA SyncEndKeeps ==
    ASSUME ProgramsInOrder, Inv, NEW r \in Replicas, SyncEnd(r)
    PROVE  Inv'
<1> DEFINE g == Arg(r)
           group == Gathered(groups[r][g])
<1>1. /\ Doing(r, "force") \/ Doing(r, "gather")
      /\ \/ groups[r][g].sync # 0 /\ groups[r][g].sync <= executed
         \/ groups[r][g].gather # 0
      /\ groups' = [groups EXCEPT ![r][g] = Gathered(@)]
      /\ Done(r)
      /\ UNCHANGED <<config, skipped, held, grads, sums, launched, executed>>
  BY DEF SyncEnd, Over
<1>2. /\ config \in Configs /\ ProgramInOrder(config, pc[r].iter, Prog(r)) /\ executed \in Nat
      /\ pc[r].k \in DOMAIN Prog(r) /\ Running(r)
      /\ Prog(r)[pc[r].k] = Op("force", g) \/ Prog(r)[pc[r].k] = Op("gather", g)
      /\ State(r, config, skipped, pc[r].iter, Prog(r), pc[r].k, groups[r],
               launched[r], executed, sums[r], held[r], grads[r])
      /\ DOMAIN groups = Replicas
  BY <1>1, DoingFacts
<1>3. g \in GroupsOf(config)
  BY <1>2, OpDistinct DEF ProgramInOrder, Typed
<1>4. groups[r][g].gather = 0
  <2>1. GroupOK(config, skipped, pc[r].iter, Prog(r), pc[r].k, g, groups[r][g])
    BY <1>2, <1>3, StateFacts
  <2> QED BY <1>2, <1>3, <2>1, SyncEndGroup, ZenonT(60)
<1>5. groups[r][g].sync # 0 /\ groups[r][g].sync <= executed
  BY <1>1, <1>4
<1>6. pc[r].k > 1 /\ State(r, config, skipped, pc[r].iter, Prog(r), pc[r].k + 1,
            [groups[r] EXCEPT ![g] = group], launched[r],
            executed, sums[r], held[r], grads[r])
  BY <1>2, <1>3, <1>5, SyncEndState
<1>7. groups' = [groups EXCEPT ![r] = [groups[r] EXCEPT ![g] = group]]
  BY <1>1
<1> HIDE DEF group
<1>8. OthersSame(r) /\ groups'[r] = [groups[r] EXCEPT ![g] = group]
  BY <1>1, <1>2, <1>7, DoneFacts, ZenonT(60) DEF OthersSame, Inv
<1>9. launched'[r] = launched[r] /\ sums'[r] = sums[r] /\ held'[r] = held[r] /\ grads'[r] = grads[r]
  BY <1>1
<1> QED
  BY <1>1, <1>2, <1>6, <1>8, <1>9, DoneFacts, MovesOn

LEMMA GatherSkippedKeeps ==
    ASSUME ProgramsInOrder, Inv, NEW r \in Replicas, GatherSkipped(r)
    PROVE  Inv'
<1> DEFINE g == Arg(r)
           group == Gathered(groups[r][g])
<1>1. /\ Doing(r, "gather") /\ pc[r].iter \in skipped /\ Done(r)
      /\ UNCHANGED <<config, skipped, groups, held, grads, sums, launched, executed>>
  BY DEF GatherSkipped
<1>2. /\ config \in Configs /\ ProgramInOrder(config, pc[r].iter, Prog(r)) /\ executed \in Nat
      /\ pc[r].k \in DOMAIN Prog(r) /\ Running(r)
      /\ Prog(r)[pc[r].k] = Op("gather", g)
      /\ State(r, config, skipped, pc[r].iter, Prog(r), pc[r].k, groups[r],
               launched[r], executed, sums[r], held[r], grads[r])
      /\ DOMAIN groups[r] = GroupsOf(config)
  BY <1>1, DoingFacts
<1>3. g \in GroupsOf(config)
  BY <1>2, OpDistinct DEF ProgramInOrder, Typed
<1>4. GroupOK(config, skipped, pc[r].iter, Prog(r), pc[r].k, g, groups[r][g])
  BY <1>2, <1>3, StateFacts
<1>5. groups[r][g].sync = 0
  <2>1. SyncOK(skipped, pc[r].iter, Prog(r), pc[r].k, g, groups[r][g])
    BY <1>4 DEF GroupOK
  <2>2. Prog(r)[pc[r].k] # Op("force", g)
    BY <1>2, OpDistinct
  <2> QED BY <1>1, <2>1, <2>2 DEF SyncOK, IsAt
<1>6. groups[r][g].gather = 0 /\ pc[r].k > 1
      /\ State(r, config, skipped, pc[r].iter, Prog(r), pc[r].k + 1,
               [groups[r] EXCEPT ![g] = group], launched[r],
               executed, sums[r], held[r], grads[r])
  <2>1. groups[r][g].sync <= executed
    BY <1>2, <1>5
  <2> QED BY <1>1, <1>2, <1>3, <2>1, SyncEndState
<1>7. group = groups[r][g]
  <2>1. groups[r][g] \in [dispatched : BOOLEAN, gather : Nat, sync : Nat, reduce : Nat,
                          ready : SUBSET Members(config, g), last : BOOLEAN]
    BY <1>4 DEF GroupOK, GroupType
  <2>2. group.gather = 0 /\ group.sync = 0
    BY <2>1 DEF Gathered
  <2> QED BY <1>5, <1>6, <2>1 DEF Gathered
<1>8. State(r, config, skipped, pc[r].iter, Prog(r), pc[r].k + 1, groups[r], launched[r],
            executed, sums[r], held[r], grads[r])
  <2>1. \A k \in GroupsOf(config) : groups[r][k] = [groups[r] EXCEPT ![g] = group][k]
    BY <1>2, <1>7
  <2> QED BY <1>2, <1>6, <2>1, SameGroups
<1>9. OthersSame(r)
  BY <1>1, DoneFacts DEF OthersSame, Inv
<1> QED
  BY <1>1, <1>2, <1>6, <1>8, <1>9, DoneFacts, MovesOn

LEMMA ZeroKeeps ==
    ASSUME ProgramsInOrder, Inv, NEW r \in Replicas, Zero(r)
    PROVE  Inv'
<1>1. /\ Doing(r, "zero") /\ Done(r)
      /\ grads' = [grads EXCEPT ![r] = Zeroed(grads[r])]
      /\ sums' = [sums EXCEPT ![r] = [g \in DOMAIN sums[r] |-> <<>>]]
      /\ groups' = [groups EXCEPT ![r] = [g \in DOMAIN groups[r] |-> Reset(groups[r][g])]]
      /\ UNCHANGED <<config, skipped, held, launched, executed>>
  BY DEF Zero
<1>2. /\ OthersSame(r) /\ grads'[r] = Zeroed(grads[r])
      /\ sums'[r] = [g \in DOMAIN sums[r] |-> <<>>]
      /\ groups'[r] = [g \in DOMAIN groups[r] |-> Reset(groups[r][g])]
  BY <1>1, DoneFacts DEF OthersSame, Inv
<1>3. /\ config \in Configs /\ ProgramInOrder(config, pc[r].iter, Prog(r)) /\ executed \in Nat
      /\ pc[r].k \in DOMAIN Prog(r) /\ Running(r) /\ pc[r].iter \in 1 .. Iterations
      /\ Prog(r)[pc[r].k] = Op("zero", Arg(r))
      /\ State(r, config, skipped, pc[r].iter, Prog(r), pc[r].k, groups[r],
               launched[r], executed, sums[r], held[r], grads[r])
      /\ DOMAIN sums[r] = GroupsOf(config)
  BY <1>1, DoingFacts
<1>4. Prog(r)[pc[r].k] = Op("zero", 0)
  BY <1>3, OpDistinct DEF ProgramInOrder, Typed
<1>5. pc[r].k = 1
      /\ State(r, config, skipped, pc[r].iter, Prog(r), pc[r].k + 1,
               [g \in DOMAIN groups[r] |-> Reset(groups[r][g])], launched[r], executed,
               [g \in DOMAIN sums[r] |-> <<>>], held[r], Zeroed(grads[r]))
  BY <1>3, <1>4, ZeroState
<1>6. State(r, config, skipped, pc[r].iter, Prog(r), pc[r].k + 1, groups'[r],
            launched'[r], executed, sums'[r], held'[r], grads'[r])
  BY <1>1, <1>2, <1>5
<1>7. \A g \in GroupsOf(config) :
        Reductions(pc[r].iter, pc[r].k + 1, sums'[r][g]) = Reductions(pc[r].iter, pc[r].k, sums[r][g])
  <2> SUFFICES ASSUME NEW g \in GroupsOf(config)
               PROVE  Reductions(pc[r].iter, 2, sums'[r][g]) = Reductions(pc[r].iter, 1, sums[r][g])
    BY <1>5
  <2>1. sums'[r][g] = <<>>
    BY <1>2, <1>3
  <2>2. Len(sums'[r][g]) = 0
    BY <2>1
  <2>3. pc[r].iter \in Int
    BY <1>3, ConfigsAssumption
  <2> QED BY <2>2, <2>3 DEF Reductions
<1> QED
  BY <1>1, <1>2, <1>3, <1>6, <1>7, DoneFacts, Moves

LEMMA StepKeepsInv ==
    ASSUME ProgramsInOrder, Inv, NEW r \in Replicas, Step(r)
    PROVE  Inv'
<1> DEFINE updated == IF pc[r].iter \in skipped THEN held[r] ELSE Updated(r, held[r])
<1>1. /\ Doing(r, "step") /\ Done(r)
      /\ held' = IF pc[r].iter \in skipped THEN held ELSE [held EXCEPT ![r] = Updated(r, held[r])]
      /\ UNCHANGED <<config, skipped, groups, grads, sums, launched, executed>>
  BY DEF Step
<1>2. OthersSame(r) /\ held'[r] = updated
  BY <1>1, DoneFacts DEF OthersSame, Inv
<1>3. /\ config \in Configs /\ ProgramInOrder(config, pc[r].iter, Prog(r)) /\ executed \in Nat
      /\ pc[r].k \in DOMAIN Prog(r) /\ Running(r) /\ pc[r].iter \in 1 .. Iterations
      /\ Prog(r)[pc[r].k] = Op("step", Arg(r))
      /\ State(r, config, skipped, pc[r].iter, Prog(r), pc[r].k, groups[r],
               launched[r], executed, sums[r], held[r], grads[r])
  BY <1>1, DoingFacts
<1>4. Prog(r)[pc[r].k] = Op("step", 0)
  BY <1>3, OpDistinct DEF ProgramInOrder, Typed
<1>5. pc[r].k > 1 /\ State(r, config, skipped, pc[r].iter, Prog(r), pc[r].k + 1, groups[r],
                           launched[r], executed, sums[r], updated, grads[r])
  BY <1>3, <1>4, StepState
<1> HIDE DEF updated
<1>6. State(r, config, skipped, pc[r].iter, Prog(r), pc[r].k + 1, groups'[r],
            launched'[r], executed, sums[r], held'[r], grads'[r])
  BY <1>1, <1>2, <1>5
<1> QED
  BY <1>1, <1>2, <1>3, <1>5, <1>6, DoneFacts, MovesOn

LEMMA StartGradSyncKeeps ==
    ASSUME ProgramsInOrder, Inv, NEW r \in Replicas, StartGradSync(r)
    PROVE  Inv'
<1> DEFINE g == Arg(r)
           group == [groups[r][g] EXCEPT !.reduce = Len(launched[r]) + 1]
<1>1. Doing(r, "start")
  BY DEF StartGradSync
<1>2. /\ config \in Configs /\ ProgramInOrder(config, pc[r].iter, Prog(r)) /\ executed \in Nat
      /\ pc[r].k \in DOMAIN Prog(r) /\ Running(r)
      /\ Prog(r)[pc[r].k] = Op("start", g)
      /\ State(r, config, skipped, pc[r].iter, Prog(r), pc[r].k, groups[r],
               launched[r], executed, sums[r], held[r], grads[r])
      /\ DOMAIN groups = Replicas /\ DOMAIN launched = Replicas
  BY <1>1, DoingFacts
<1>3. /\ pc[r].k > 1 /\ groups[r][g].reduce = 0
      /\ State(r, config, skipped, pc[r].iter, Prog(r), pc[r].k + 1,
               [groups[r] EXCEPT ![g] = group], Append(launched[r], <<"reduce", g>>),
               executed, sums[r], held[r], grads[r])
  BY <1>2, StartState
<1>4. /\ Launch(r, "reduce", g) /\ Done(r)
      /\ groups' = [groups EXCEPT ![r][g].reduce = Handle(r)]
      /\ UNCHANGED <<config, skipped, held, grads, sums, executed>>
  BY <1>3 DEF StartGradSync
<1>5. groups' = [groups EXCEPT ![r] = [groups[r] EXCEPT ![g] = group]]
  BY <1>4 DEF Handle
<1>6. launched' = [launched EXCEPT ![r] = Append(launched[r], <<"reduce", g>>)]
  BY <1>4 DEF Launch
<1> HIDE DEF group
<1>7. OthersSame(r) /\ groups'[r] = [groups[r] EXCEPT ![g] = group]
      /\ launched'[r] = Append(launched[r], <<"reduce", g>>)
  BY <1>2, <1>4, <1>5, <1>6, DoneFacts, ZenonT(60) DEF OthersSame, Inv
<1>8. sums'[r] = sums[r] /\ held'[r] = held[r] /\ grads'[r] = grads[r]
  BY <1>4
<1> QED
  BY <1>2, <1>3, <1>4, <1>7, <1>8, DoneFacts, MovesOn

LEMMA FinishStartsKeeps ==
    ASSUME ProgramsInOrder, Inv, NEW r \in Replicas, FinishStarts(r)
    PROVE  Inv'
<1> DEFINE g == Arg(r)
           group == [groups[r][g] EXCEPT !.reduce = Len(launched[r]) + 1]
<1>1. /\ Doing(r, "finish") /\ ~config.overlap /\ groups[r][g].reduce = 0
      /\ Launch(r, "reduce", g)
      /\ groups' = [groups EXCEPT ![r][g].reduce = Handle(r)]
      /\ UNCHANGED <<config, skipped, pc, held, grads, sums, executed>>
  BY DEF FinishStarts
<1>2. /\ config \in Configs /\ ProgramInOrder(config, pc[r].iter, Prog(r)) /\ executed \in Nat
      /\ pc[r].k \in DOMAIN Prog(r) /\ Place(r) = pc[r].k
      /\ Prog(r)[pc[r].k] = Op("finish", g)
      /\ State(r, config, skipped, pc[r].iter, Prog(r), pc[r].k, groups[r],
               launched[r], executed, sums[r], held[r], grads[r])
  BY <1>1, DoingFacts
<1>3. State(r, config, skipped, pc[r].iter, Prog(r), pc[r].k,
            [groups[r] EXCEPT ![g] = group], Append(launched[r], <<"reduce", g>>),
            executed, sums[r], held[r], grads[r])
  BY <1>1, <1>2, FinishStartsState
<1>5. groups' = [groups EXCEPT ![r] = [groups[r] EXCEPT ![g] = group]]
  BY <1>1 DEF Handle
<1>6. launched' = [launched EXCEPT ![r] = Append(launched[r], <<"reduce", g>>)]
  BY <1>1 DEF Launch
<1> HIDE DEF group
<1>7. OthersSame(r) /\ groups'[r] = [groups[r] EXCEPT ![g] = group]
      /\ launched'[r] = Append(launched[r], <<"reduce", g>>)
  BY <1>1, <1>5, <1>6 DEF OthersSame, Inv
<1>8. pc'[r] = pc[r] /\ sums'[r] = sums[r] /\ held'[r] = held[r] /\ grads'[r] = grads[r]
  BY <1>1
<1> QED
  BY <1>2, <1>3, <1>7, <1>8, Stays

LEMMA FinishGradSyncKeeps ==
    ASSUME ProgramsInOrder, Inv, NEW r \in Replicas, FinishGradSync(r)
    PROVE  Inv'
<1> DEFINE g == Arg(r)
<1>1. Doing(r, "finish") /\ (config.overlap \/ groups[r][g].reduce # 0) /\ groups[r][g].reduce <= executed
  BY DEF FinishGradSync, Over
<1>2. /\ config \in Configs /\ ProgramInOrder(config, pc[r].iter, Prog(r)) /\ executed \in Nat
      /\ pc[r].k \in DOMAIN Prog(r) /\ Running(r)
      /\ Prog(r)[pc[r].k] = Op("finish", g)
      /\ State(r, config, skipped, pc[r].iter, Prog(r), pc[r].k, groups[r],
               launched[r], executed, sums[r], held[r], grads[r])
      /\ DOMAIN groups = Replicas
  BY <1>1, DoingFacts
<1>3. /\ pc[r].k > 1 /\ groups[r][g].reduce # 0
      /\ State(r, config, skipped, pc[r].iter, Prog(r), pc[r].k + 1,
               [groups[r] EXCEPT ![g] = Finished(groups[r][g])], launched[r],
               executed, sums[r], held[r], grads[r])
  <2>1. groups[r][g].reduce <= executed /\ (config.overlap \/ groups[r][g].reduce # 0)
    BY <1>1
  <2> QED BY <1>2, <2>1, FinishState
<1>4. /\ groups' = [groups EXCEPT ![r][g] = Finished(@)] /\ Done(r)
      /\ UNCHANGED <<config, skipped, held, grads, sums, launched, executed>>
  BY <1>3 DEF FinishGradSync
<1>5. groups' = [groups EXCEPT ![r] = [groups[r] EXCEPT ![g] = Finished(groups[r][g])]]
  BY <1>4
<1>6. OthersSame(r) /\ groups'[r] = [groups[r] EXCEPT ![g] = Finished(groups[r][g])]
  BY <1>2, <1>4, <1>5, DoneFacts DEF OthersSame, Inv
<1>7. launched'[r] = launched[r] /\ sums'[r] = sums[r] /\ held'[r] = held[r] /\ grads'[r] = grads[r]
  BY <1>4
<1> QED
  BY <1>2, <1>3, <1>4, <1>6, <1>7, DoneFacts, MovesOn

LEMMA BackwardKeeps ==
    ASSUME ProgramsInOrder, Inv, NEW r \in Replicas, Backward(r)
    PROVE  Inv'
<1> DEFINE p == Arg(r)
           g == config.group[p]
           ready == ReadyWith(config, groups[r][g], p)
           starts == StartsNow(config, g, groups[r][g], ready)
           group == RegisterIn(config, g, groups[r][g], p, Len(launched[r]) + 1)
           launches == LaunchedWith(config, g, groups[r][g], p, launched[r])
           adds == GradsWith(config, grads[r], p)
<1>1. Doing(r, "backward")
  BY DEF Backward
<1>2. /\ config \in Configs /\ ProgramInOrder(config, pc[r].iter, Prog(r)) /\ executed \in Nat
      /\ pc[r].k \in DOMAIN Prog(r) /\ Running(r)
      /\ Prog(r)[pc[r].k] = Op("backward", p)
      /\ State(r, config, skipped, pc[r].iter, Prog(r), pc[r].k, groups[r],
               launched[r], executed, sums[r], held[r], grads[r])
      /\ DOMAIN groups = Replicas /\ DOMAIN launched = Replicas /\ DOMAIN grads = Replicas
  BY <1>1, DoingFacts
<1>3. /\ pc[r].k > 1
      /\ ~(config.overlap /\ groups[r][g].last /\ p \in groups[r][g].ready)
      /\ starts => groups[r][g].reduce = 0
      /\ State(r, config, skipped, pc[r].iter, Prog(r), pc[r].k + 1,
               [groups[r] EXCEPT ![g] = group], launches, executed, sums[r], held[r], adds)
  BY <1>2, BackwardState, ZenonT(60)
<1>4. /\ IF config.split THEN UNCHANGED grads ELSE grads' = [grads EXCEPT ![r][p] = @ + 1]
      /\ IF starts THEN Launch(r, "reduce", g) ELSE UNCHANGED launched
      /\ groups' = [groups EXCEPT ![r][g].ready = ready,
                                  ![r][g].reduce = IF starts THEN Handle(r) ELSE @]
      /\ Done(r)
      /\ UNCHANGED <<config, skipped, held, sums, executed>>
  <2> HIDE DEF group, launches, adds
  <2> QED BY <1>3 DEF Backward, ReadyWith, StartsNow
<1>5. groups' = [groups EXCEPT ![r] = [groups[r] EXCEPT ![g] = group]]
  BY <1>4, ZenonT(60) DEF Handle, RegisterIn
<1>6. /\ launched'[r] = launches /\ DOMAIN launched' = Replicas
      /\ \A s \in Replicas : s # r => launched'[s] = launched[s]
  BY <1>2, <1>4 DEF Launch, LaunchedWith
<1>7. /\ grads'[r] = adds /\ DOMAIN grads' = Replicas
      /\ \A s \in Replicas : s # r => grads'[s] = grads[s]
  BY <1>2, <1>4 DEF GradsWith
<1> HIDE DEF group, launches, adds, ready, starts
<1>8. OthersSame(r) /\ groups'[r] = [groups[r] EXCEPT ![g] = group]
  BY <1>2, <1>4, <1>5, <1>6, <1>7, DoneFacts DEF OthersSame, Inv
<1>9. sums'[r] = sums[r] /\ held'[r] = held[r]
  BY <1>4
<1> QED
  BY <1>2, <1>3, <1>4, <1>6, <1>7, <1>8, <1>9, DoneFacts, MovesOn

-----------------------------------------------------------------------------
(* A collective executes.                                                  *)

\* Every microbatch is in a gradient whose reduction is launched.
LEMMA AllThere ==
    ASSUME NEW c \in Configs, NEW i, NEW P, ProgramInOrder(c, i, P), NEW n \in 1 .. Len(P) + 1,
           NEW g \in GroupsOf(c), NEW group, ReduceOK(c, P, n, g, group), group.reduce # 0,
           NEW p \in Members(c, g), NEW q \in Places(P, Contributes(c), p)
    PROVE  q < n
<1>1. DOMAIN P = 1 .. Len(P) /\ Len(P) \in Nat /\ n \in Nat
  BY DEF ProgramInOrder, Typed
<1>2. q \in DOMAIN P /\ P[q] = Op(Contributes(c), p) /\ q \in Nat
  BY <1>1 DEF Places
<1>3. P[q].op = Contributes(c)
  BY <1>2, OpDistinct
<1>4. CASE ~c.overlap
  <2>1. n \in DOMAIN P /\ P[n] = Op("finish", g)
    BY <1>4 DEF ReduceOK, IsAt
  <2>2. n \in PlacesOfOp(P, {"finish"})
    BY <2>1, OpDistinct DEF PlacesOfOp
  <2>3. q \in PlacesOfOp(P, {"sync", "hook", "backward", "wgrad", "start"})
    BY <1>2, <1>3 DEF PlacesOfOp, Contributes
  <2> QED BY <2>2, <2>3, Zenon DEF ProgramInOrder, Phases
<1>5. CASE c.overlap /\ c.split
  <2>1. Did(P, n, "start", g)
    BY <1>5, Zenon DEF ReduceOK, Launched
  <2>2. PICK s \in 1 .. n - 1 : P[s] = Op("start", g)
    BY <2>1 DEF Did
  <2>3. s \in Places(P, "start", g) /\ s < n
    BY <1>1, <2>2 DEF Places
  <2>4. q \in PlacesOfOp(P, {"wgrad"})
    BY <1>2, <1>3, <1>5 DEF PlacesOfOp, Contributes
  <2>5. PICK s2 \in DOMAIN P : Places(P, "start", g) = {s2} /\ \A x \in PlacesOfOp(P, {"wgrad"}) : x < s2
    BY <1>5, Zenon DEF ProgramInOrder, Starts
  <2>6. q < s
    BY <2>3, <2>4, <2>5
  <2> QED BY <1>1, <1>2, <2>2, <2>6
<1>6. CASE c.overlap /\ ~c.split
  <2>1. Registered(P, n, p)
    BY <1>6, Zenon DEF ReduceOK, Launched
  <2>2. PICK b \in 1 .. n - 1 : P[b] = Op("backward", p) /\ Did(P, b, "sync", TRUE)
    BY <2>1 DEF Registered
  <2>3. PICK y \in 1 .. b - 1 : P[y] = Op("sync", TRUE)
    BY <2>2 DEF Did
  <2>4. b \in DOMAIN P /\ y \in DOMAIN P /\ y < b /\ b < n /\ y \in Nat /\ b \in Nat
    BY <1>1, <2>2, <2>3
  <2>5. y \in Places(P, "sync", TRUE) /\ b \in Places(P, "backward", p)
    BY <2>2, <2>3, <2>4 DEF Places
  <2>6. q \in Places(P, "backward", p)
    BY <1>6 DEF Contributes
  <2>7. p \in ParamsOf(c)
    BY DEF Members
  <2>8. PICK b2 \in DOMAIN P : {x \in Places(P, "backward", p) : y < x} = {b2}
    BY <2>5, <2>7, Zenon DEF ProgramInOrder, BackwardsOnce
  <2>9. b2 = b
    BY <2>4, <2>5, <2>8
  <2>10. CASE y < q
    BY <2>4, <2>6, <2>8, <2>9, <2>10
  <2>11. CASE ~(y < q)
    BY <1>2, <1>1, <2>4, <2>11
  <2> QED BY <2>10, <2>11
<1> QED
  BY <1>4, <1>5, <1>6

LEMMA GradsComplete ==
    ASSUME NEW c \in Configs, NEW i, NEW P, ProgramInOrder(c, i, P), NEW n \in 1 .. Len(P) + 1,
           NEW g \in GroupsOf(c), NEW group, ReduceOK(c, P, n, g, group), group.reduce # 0,
           NEW gr, GradsOK(c, P, n, gr), NEW p \in Members(c, g)
    PROVE  gr[p] = NumMicrobatches(c)
<1>1. DOMAIN P = 1 .. Len(P) /\ Len(P) \in Nat /\ n \in Nat /\ n > 1
  BY DEF ProgramInOrder, Typed, ReduceOK
<1>2. p \in ParamsOf(c)
  BY DEF Members
<1>3. \A q \in Places(P, Contributes(c), p) : q \in 1 .. n - 1
  <2>1. \A q \in Places(P, Contributes(c), p) : q < n
    BY AllThere
  <2> QED BY <1>1, <2>1 DEF Places
<1>4. \A q \in 1 .. n - 1 : q \in DOMAIN P
  BY <1>1
<1>5. {q \in 1 .. n - 1 : P[q] = Op(Contributes(c), p)} = Places(P, Contributes(c), p)
  BY <1>3, <1>4, Zenon DEF Places
<1> QED
  BY <1>1, <1>2, <1>5, Zenon DEF GradsOK, ProgramInOrder, AllContribute

\* The other groups do not notice.
LEMMA OthersExecute ==
    ASSUME NEW r, NEW c, NEW sk, NEW i, NEW P, NEW n, NEW g, NEW group, NEW ln, NEW ex \in Nat, NEW sum, NEW h,
           GroupState(r, c, sk, i, P, n, g, group, ln, ex, sum, h),
           ln[ex + 1] # <<"gather", g>>, ln[ex + 1] # <<"reduce", g>>
    PROVE  GroupState(r, c, sk, i, P, n, g, group, ln, ex + 1, sum, h)
<1>1. /\ GroupOK(c, sk, i, P, n, g, group) /\ HandlesOK(g, group, ln) /\ SumsOK(c, P, n, g, group, ex, sum)
      /\ h \in [Replicas -> 0 .. Iterations] /\ HeldOK(r, c, sk, i, P, n, g, group, ex, h)
  BY Zenon DEF GroupState
<1>2. group.gather \in Nat /\ group.sync \in Nat /\ group.reduce \in Nat
  BY <1>1 DEF GroupOK, GroupType
<1>3. group.gather # ex + 1 /\ group.sync # ex + 1 /\ group.reduce # ex + 1
  BY <1>1 DEF HandlesOK
<1>4. /\ group.gather <= ex + 1 <=> group.gather <= ex
      /\ group.sync <= ex + 1 <=> group.sync <= ex
      /\ group.reduce <= ex + 1 <=> group.reduce <= ex
  BY <1>2, <1>3
<1>5. IsCurrent(c, sk, i, P, n, g, group, ex + 1) <=> IsCurrent(c, sk, i, P, n, g, group, ex)
  BY <1>4, Zenon DEF IsCurrent
<1>6. SumsOK(c, P, n, g, group, ex + 1, sum)
  BY <1>1, <1>4, Zenon DEF SumsOK
<1>7. HeldOK(r, c, sk, i, P, n, g, group, ex + 1, h)
  BY <1>1, <1>5, Zenon DEF HeldOK
<1> QED
  BY <1>1, <1>6, <1>7, Zenon DEF GroupState

\* Nothing is launched before the hooks of its group are over.
LEMMA HooksFirst ==
    ASSUME NEW c \in Configs, NEW i, NEW P, ProgramInOrder(c, i, P), NEW n \in 1 .. Len(P) + 1,
           NEW g \in GroupsOf(c), c.gather, Launched(c, P, n, g)
    PROVE  Did(P, n, "hook", g)
<1>1. DOMAIN P = 1 .. Len(P) /\ Len(P) \in Nat /\ n \in Nat
  BY DEF ProgramInOrder, Typed
<1>2. PICK h \in Places(P, "hook", g) :
        \A q \in PlacesOfOp(P, {"backward", "wgrad", "start"}) : h < q
  BY Zenon DEF ProgramInOrder, HooksInOrder
<1>3. PICK q \in PlacesOfOp(P, {"backward", "wgrad", "start"}) : q < n
  <2>1. CASE c.split
    <3>1. PICK q \in 1 .. n - 1 : P[q] = Op("start", g)
      BY <2>1 DEF Launched, Did
    <3>2. q \in DOMAIN P /\ q < n
      BY <1>1
    <3> QED BY <3>1, <3>2, OpDistinct DEF PlacesOfOp
  <2>2. CASE ~c.split
    <3>1. PICK p \in ParamsOf(c) : c.group[p] = g
      BY DEF GroupsOf
    <3>2. p \in Members(c, g)
      BY <3>1 DEF Members
    <3>3. Registered(P, n, p)
      BY <2>2, <3>2 DEF Launched
    <3>4. PICK q \in 1 .. n - 1 : P[q] = Op("backward", p)
      BY <3>3 DEF Registered
    <3>5. q \in DOMAIN P /\ q < n
      BY <1>1
    <3> QED BY <3>4, <3>5, OpDistinct DEF PlacesOfOp
  <2> QED BY <2>1, <2>2
<1>4. h < q /\ h \in DOMAIN P /\ q \in DOMAIN P /\ P[h] = Op("hook", g)
  BY <1>2 DEF Places, PlacesOfOp
<1>5. h \in 1 .. n - 1
  BY <1>1, <1>3, <1>4
<1> QED
  BY <1>4, <1>5 DEF Did

\* While a group is gathered, its updates are those of its reductions.
LEMMA GatherAtReduction ==
    ASSUME NEW c \in Configs, NEW sk, NEW i \in 1 .. Iterations, NEW P, ProgramInOrder(c, i, P),
           NEW n \in 1 .. Len(P) + 1, NEW g \in GroupsOf(c), NEW group, GroupOK(c, sk, i, P, n, g, group),
           NEW ex, NEW sum, SumsOK(c, P, n, g, group, ex, sum),
           group.gather # 0 \/ group.sync # 0
    PROVE  UpdatesAt(sk, i, P, n) = UpTo(sk, Reductions(i, n, sum))
<1>1. DOMAIN P = 1 .. Len(P) /\ Len(P) \in Nat /\ n \in Nat /\ i \in Int
  BY ConfigsAssumption DEF ProgramInOrder, Typed
<1>2. /\ ReduceOK(c, P, n, g, group) /\ SyncOK(sk, i, P, n, g, group) /\ GatherOK(c, i, P, n, g, group)
  BY DEF GroupOK
<1>3. CASE group.gather # 0
  <2>1. c.gather /\ ~Did(P, n, "hook", g)
    BY <1>2, <1>3 DEF GatherOK
  <2>2. \A k : ~Did(P, n, "finish", k)
    BY <2>1, AfterFinish
  <2>3. ~Launched(c, P, n, g)
    BY <2>1, HooksFirst
  <2>4. group.reduce = 0
    BY <1>2, <2>1, <2>3, ConfigFacts DEF ReduceOK
  <2>5. ~Did(P, n, "step", 0)
    <3>1. ASSUME NEW s \in 1 .. n - 1, P[s] = Op("step", 0) PROVE FALSE
      <4>1. PICK f \in DOMAIN P : Places(P, "finish", g) = {f}
        BY Zenon DEF ProgramInOrder, FinishesOnce
      <4>2. P[f] = Op("finish", g)
        BY <4>1 DEF Places
      <4>3. f \in PlacesOfOp(P, {"finish"})
        BY <4>2, OpDistinct DEF PlacesOfOp
      <4>4. s \in PlacesOfOp(P, {"step"})
        BY <1>1, <3>1, OpDistinct DEF PlacesOfOp
      <4>5. f < s
        BY <4>3, <4>4, Zenon DEF ProgramInOrder, Phases
      <4>6. f \in 1 .. n - 1
        BY <1>1, <4>1, <4>5
      <4> QED BY <2>2, <4>2, <4>6 DEF Did
    <3> QED BY <3>1 DEF Did
  <2>6. n > 1 => sum = <<>>
    BY <2>2, <2>4, Zenon DEF SumsOK
  <2>7. Reductions(i, n, sum) = i - 1
    BY <1>1, <2>6 DEF Reductions
  <2> QED BY <2>5, <2>7 DEF UpdatesAt
<1>4. CASE group.sync # 0
  <2>1. n \in DOMAIN P /\ P[n].op \in {"gather", "force"}
    BY <1>2, <1>4, OpDistinct DEF SyncOK, IsAt
  <2>2. n > 1 /\ Did(P, n, "step", 0) /\ Did(P, n, "finish", g)
    BY <2>1, TailFacts, Zenon
  <2>3. sum = <<Full(c, g)>>
    BY <2>2, Zenon DEF SumsOK
  <2>4. Len(sum) = 1
    BY <2>3
  <2>5. Reductions(i, n, sum) = i
    BY <1>1, <2>2, <2>4 DEF Reductions
  <2> QED BY <2>2, <2>5 DEF UpdatesAt
<1> QED
  BY <1>3, <1>4

LEMMA PendingExecutes ==
    ASSUME NEW c, NEW gs, NEW ln, NEW ex \in Nat, PendingOK(c, gs, ln, ex), DOMAIN ln \subseteq Int
    PROVE  PendingOK(c, gs, ln, ex + 1)
<1>1. \A m \in DOMAIN ln : m > ex + 1 => m > ex
  OBVIOUS
<1> QED
  BY <1>1, Zenon DEF PendingOK

\* The collective that executes is that of the handle of a group.
LEMMA HandleOf ==
    ASSUME NEW r, NEW c, NEW sk, NEW i, NEW P, NEW n, NEW gs, NEW ln, NEW ex \in Nat, NEW sm, NEW hd, NEW gr,
           State(r, c, sk, i, P, n, gs, ln, ex, sm, hd, gr), ex + 1 <= Len(ln)
    PROVE  \E g \in GroupsOf(c) :
              \/ ln[ex + 1] = <<"gather", g>> /\ (gs[g].gather = ex + 1 \/ gs[g].sync = ex + 1)
              \/ ln[ex + 1] = <<"reduce", g>> /\ gs[g].reduce = ex + 1
<1>1. PendingOK(c, gs, ln, ex) /\ ln \in Seq(Collectives(c))
  BY Zenon DEF State
<1>2. ex + 1 \in DOMAIN ln /\ ex + 1 > ex
  BY <1>1
<1> QED
  BY <1>1, <1>2, Zenon DEF PendingOK

LEMMA GatherExecutes ==
    ASSUME NEW c \in Configs, NEW sk, NEW i, NEW P, NEW n,
           NEW r, NEW gs, NEW ln, NEW ex \in Nat, NEW sm, NEW hd, NEW gr,
           State(r, c, sk, i, P, n, gs, ln, ex, sm, hd, gr), ex + 1 <= Len(ln),
           NEW g \in GroupsOf(c), ln[ex + 1] = <<"gather", g>>,
           NEW h \in [Replicas -> 0 .. Iterations],
           h[r] = UpdatesAt(sk, i, P, n), \A s \in Replicas : h[s] = UpdatesAt(sk, i, P, n)
    PROVE  State(r, c, sk, i, P, n, gs, ln, ex + 1, sm, [hd EXCEPT ![g] = h], gr)
<1> DEFINE hd2 == [hd EXCEPT ![g] = h]
<1>1. /\ DOMAIN gs = GroupsOf(c) /\ DOMAIN hd = GroupsOf(c) /\ DOMAIN sm = GroupsOf(c) /\ DOMAIN gr = ParamsOf(c)
      /\ ln \in Seq(Collectives(c)) /\ PendingOK(c, gs, ln, ex) /\ GradsOK(c, P, n, gr)
      /\ \A p \in ParamsOf(c) : gr[p] \in 0 .. NumMicrobatches(c)
      /\ \A k \in GroupsOf(c) : GroupState(r, c, sk, i, P, n, k, gs[k], ln, ex, sm[k], hd[k])
  BY Zenon DEF State
<1>2. PendingOK(c, gs, ln, ex + 1)
  BY <1>1, PendingExecutes
<1>3. ASSUME NEW k \in GroupsOf(c), k # g
      PROVE  GroupState(r, c, sk, i, P, n, k, gs[k], ln, ex + 1, sm[k], hd2[k])
  <2>1. hd2[k] = hd[k]
    BY <1>1, <1>3
  <2>2. ln[ex + 1] # <<"gather", k>> /\ ln[ex + 1] # <<"reduce", k>>
    BY <1>3
  <2> HIDE DEF hd2
  <2>3. GroupState(r, c, sk, i, P, n, k, gs[k], ln, ex, sm[k], hd[k])
    BY <1>1
  <2>4. GroupState(r, c, sk, i, P, n, k, gs[k], ln, ex + 1, sm[k], hd[k])
    BY <2>2, <2>3, OthersExecute
  <2> QED BY <2>1, <2>4
<1>4. GroupState(r, c, sk, i, P, n, g, gs[g], ln, ex + 1, sm[g], h)
  <2>1. /\ GroupOK(c, sk, i, P, n, g, gs[g]) /\ HandlesOK(g, gs[g], ln) /\ SumsOK(c, P, n, g, gs[g], ex, sm[g])
    BY <1>1, Zenon DEF GroupState
  <2>2. gs[g].reduce \in Nat
    BY <2>1 DEF GroupOK, GroupType
  <2>3. gs[g].reduce # ex + 1
    BY <2>1 DEF HandlesOK
  <2>4. gs[g].reduce <= ex + 1 <=> gs[g].reduce <= ex
    BY <2>2, <2>3
  <2>5. SumsOK(c, P, n, g, gs[g], ex + 1, sm[g])
    BY <2>1, <2>4, Zenon DEF SumsOK
  <2>6. HeldOK(r, c, sk, i, P, n, g, gs[g], ex + 1, h)
    BY Zenon DEF HeldOK
  <2> QED BY <2>1, <2>5, <2>6, Zenon DEF GroupState
<1>5. hd2[g] = h /\ DOMAIN hd2 = GroupsOf(c)
  BY <1>1
<1> HIDE DEF hd2
<1>6. ex + 1 \in Nat /\ ex + 1 <= Len(ln)
  OBVIOUS
<1>7. \A k \in GroupsOf(c) : GroupState(r, c, sk, i, P, n, k, gs[k], ln, ex + 1, sm[k], hd2[k])
  BY <1>3, <1>4, <1>5
<1>8. State(r, c, sk, i, P, n, gs, ln, ex + 1, sm, hd2, gr)
  BY <1>1, <1>2, <1>5, <1>6, <1>7, Zenon DEF State
<1> QED
  BY <1>8 DEF hd2

LEMMA ReduceExecutes ==
    ASSUME NEW c \in Configs, NEW sk, NEW i, NEW P, NEW n,
           NEW r, NEW gs, NEW ln, NEW ex \in Nat, NEW sm, NEW hd, NEW gr,
           State(r, c, sk, i, P, n, gs, ln, ex, sm, hd, gr), ex + 1 <= Len(ln),
           NEW g \in GroupsOf(c), ln[ex + 1] = <<"reduce", g>>, gs[g].reduce = ex + 1
    PROVE  /\ n > 1 /\ sm[g] = <<>>
           /\ State(r, c, sk, i, P, n, gs, ln, ex + 1, [sm EXCEPT ![g] = <<Full(c, g)>>], hd, gr)
<1> DEFINE sm2 == [sm EXCEPT ![g] = <<Full(c, g)>>]
<1>1. /\ DOMAIN gs = GroupsOf(c) /\ DOMAIN hd = GroupsOf(c) /\ DOMAIN sm = GroupsOf(c) /\ DOMAIN gr = ParamsOf(c)
      /\ ln \in Seq(Collectives(c)) /\ PendingOK(c, gs, ln, ex) /\ GradsOK(c, P, n, gr)
      /\ \A p \in ParamsOf(c) : gr[p] \in 0 .. NumMicrobatches(c)
      /\ \A k \in GroupsOf(c) : GroupState(r, c, sk, i, P, n, k, gs[k], ln, ex, sm[k], hd[k])
  BY Zenon DEF State
<1>2. PendingOK(c, gs, ln, ex + 1)
  BY <1>1, PendingExecutes
<1>3. ASSUME NEW k \in GroupsOf(c), k # g
      PROVE  GroupState(r, c, sk, i, P, n, k, gs[k], ln, ex + 1, sm2[k], hd[k])
  <2>1. sm2[k] = sm[k]
    BY <1>1, <1>3
  <2>2. ln[ex + 1] # <<"gather", k>> /\ ln[ex + 1] # <<"reduce", k>>
    BY <1>3
  <2> HIDE DEF sm2
  <2>3. GroupState(r, c, sk, i, P, n, k, gs[k], ln, ex, sm[k], hd[k])
    BY <1>1
  <2>4. GroupState(r, c, sk, i, P, n, k, gs[k], ln, ex + 1, sm[k], hd[k])
    BY <2>2, <2>3, OthersExecute
  <2> QED BY <2>1, <2>4
<1>4. /\ n > 1 /\ sm[g] = <<>>
      /\ GroupState(r, c, sk, i, P, n, g, gs[g], ln, ex + 1, <<Full(c, g)>>, hd[g])
  <2>1. /\ GroupOK(c, sk, i, P, n, g, gs[g]) /\ HandlesOK(g, gs[g], ln) /\ SumsOK(c, P, n, g, gs[g], ex, sm[g])
        /\ hd[g] \in [Replicas -> 0 .. Iterations] /\ HeldOK(r, c, sk, i, P, n, g, gs[g], ex, hd[g])
    BY <1>1, Zenon DEF GroupState
  <2>2. gs[g].gather \in Nat /\ gs[g].sync \in Nat
    BY <2>1 DEF GroupOK, GroupType
  <2>3. gs[g].gather # ex + 1 /\ gs[g].sync # ex + 1
    BY <2>1 DEF HandlesOK
  <2>4. /\ gs[g].gather <= ex + 1 <=> gs[g].gather <= ex
        /\ gs[g].sync <= ex + 1 <=> gs[g].sync <= ex
    BY <2>2, <2>3
  <2>5. gs[g].reduce # 0 /\ ~(gs[g].reduce <= ex) /\ gs[g].reduce <= ex + 1
    OBVIOUS
  <2>6. n > 1 /\ ~Did(P, n, "finish", g)
    BY <2>1, <2>5, Zenon DEF GroupOK, ReduceOK
  <2>7. sm[g] = <<>>
    BY <2>1, <2>5, <2>6, Zenon DEF SumsOK
  <2>8. SumsOK(c, P, n, g, gs[g], ex + 1, <<Full(c, g)>>)
    BY <2>5, Zenon DEF SumsOK
  <2>9. IsCurrent(c, sk, i, P, n, g, gs[g], ex + 1) <=> IsCurrent(c, sk, i, P, n, g, gs[g], ex)
    BY <2>4, Zenon DEF IsCurrent
  <2>10. HeldOK(r, c, sk, i, P, n, g, gs[g], ex + 1, hd[g])
    BY <2>1, <2>9, Zenon DEF HeldOK
  <2> QED BY <2>1, <2>6, <2>7, <2>8, <2>10, Zenon DEF GroupState
<1>5. sm2[g] = <<Full(c, g)>> /\ DOMAIN sm2 = GroupsOf(c)
  BY <1>1
<1> HIDE DEF sm2
<1>6. ex + 1 \in Nat /\ ex + 1 <= Len(ln)
  OBVIOUS
<1>7. \A k \in GroupsOf(c) : GroupState(r, c, sk, i, P, n, k, gs[k], ln, ex + 1, sm2[k], hd[k])
  BY <1>3, <1>4, <1>5
<1>8. State(r, c, sk, i, P, n, gs, ln, ex + 1, sm2, hd, gr)
  BY <1>1, <1>2, <1>5, <1>6, <1>7, Zenon DEF State
<1> QED
  BY <1>4, <1>8 DEF sm2

LEMMA PlaceFacts ==
    ASSUME ProgramsInOrder, Inv, NEW r \in Replicas
    PROVE  /\ config \in Configs /\ executed \in Nat /\ pc[r].iter \in 1 .. Iterations
           /\ ProgramInOrder(config, pc[r].iter, Prog(r)) /\ Place(r) \in 1 .. Len(Prog(r)) + 1
           /\ State(r, config, skipped, pc[r].iter, Prog(r), Place(r), groups[r],
                    launched[r], executed, sums[r], held[r], grads[r])
<1>1. PcOK(r)
  BY DEF Inv, ReplicaOK
<1>2. ProgramInOrder(config, pc[r].iter, Prog(r)) /\ pc[r].k \in DOMAIN Prog(r)
  BY ReplicaFacts
<1>3. DOMAIN Prog(r) = 1 .. Len(Prog(r)) /\ Len(Prog(r)) \in Nat
  BY <1>2 DEF ProgramInOrder, Typed
<1>4. Place(r) \in 1 .. Len(Prog(r)) + 1
  BY <1>1, <1>2, <1>3 DEF Place, PcOK
<1> QED
  BY <1>4, ReplicaFacts

UpdatesOf(r) == UpdatesAt(skipped, pc[r].iter, Prog(r), Place(r))

LEMMA GatherKeeps ==
    ASSUME ProgramsInOrder, Inv, NEW g \in GroupsOf(config),
           \A r \in Replicas : /\ executed + 1 <= Len(launched[r])
                               /\ launched[r][executed + 1] = <<"gather", g>>,
           held' = [r \in Replicas |-> [held[r] EXCEPT ![g] = [s \in Replicas |-> held[s][g][s]]]],
           executed' = executed + 1,
           UNCHANGED <<config, skipped, pc, groups, grads, sums, launched>>
    PROVE  Inv'
<1> DEFINE h == [s \in Replicas |-> held[s][g][s]]
<1>1. ASSUME NEW r \in Replicas
      PROVE  /\ held[r][g] \in [Replicas -> 0 .. Iterations] /\ held[r][g][r] = UpdatesOf(r)
             /\ UpdatesOf(r) = UpTo(skipped, Reductions(pc[r].iter, Place(r), sums[r][g]))
  <2>1. /\ config \in Configs /\ executed \in Nat /\ pc[r].iter \in 1 .. Iterations
        /\ ProgramInOrder(config, pc[r].iter, Prog(r)) /\ Place(r) \in 1 .. Len(Prog(r)) + 1
        /\ State(r, config, skipped, pc[r].iter, Prog(r), Place(r), groups[r],
                 launched[r], executed, sums[r], held[r], grads[r])
    BY PlaceFacts
  <2>2. /\ GroupOK(config, skipped, pc[r].iter, Prog(r), Place(r), g, groups[r][g])
        /\ SumsOK(config, Prog(r), Place(r), g, groups[r][g], executed, sums[r][g])
        /\ HeldOK(r, config, skipped, pc[r].iter, Prog(r), Place(r), g, groups[r][g], executed, held[r][g])
        /\ held[r][g] \in [Replicas -> 0 .. Iterations]
    BY <2>1, StateFacts
  <2>3. PICK k \in GroupsOf(config) :
          \/ launched[r][executed + 1] = <<"gather", k>>
             /\ (groups[r][k].gather = executed + 1 \/ groups[r][k].sync = executed + 1)
          \/ launched[r][executed + 1] = <<"reduce", k>> /\ groups[r][k].reduce = executed + 1
    BY <2>1, HandleOf
  <2>4. groups[r][g].gather = executed + 1 \/ groups[r][g].sync = executed + 1
    BY <2>3
  <2>5. groups[r][g].gather # 0 \/ groups[r][g].sync # 0
    BY <2>1, <2>4
  <2>6. UpdatesOf(r) = UpTo(skipped, Reductions(pc[r].iter, Place(r), sums[r][g]))
    BY <2>1, <2>2, <2>5, GatherAtReduction DEF UpdatesOf
  <2>7. held[r][g][r] = UpdatesOf(r)
    BY <2>2 DEF HeldOK, UpdatesOf
  <2> QED BY <2>2, <2>6, <2>7
<1>2. \A r, s \in Replicas : UpdatesOf(r) = UpdatesOf(s)
  BY <1>1 DEF Inv, AtSameReduction
<1>3. h \in [Replicas -> 0 .. Iterations] /\ \A r \in Replicas : h[r] = UpdatesOf(r)
  BY <1>1
<1>4. ASSUME NEW r \in Replicas
      PROVE  ReplicaOK(r)'
  <2>1. /\ config \in Configs /\ executed \in Nat
        /\ State(r, config, skipped, pc[r].iter, Prog(r), Place(r), groups[r],
                 launched[r], executed, sums[r], held[r], grads[r])
    BY PlaceFacts
  <2>2. h[r] = UpdatesAt(skipped, pc[r].iter, Prog(r), Place(r))
        /\ \A s \in Replicas : h[s] = UpdatesAt(skipped, pc[r].iter, Prog(r), Place(r))
    BY <1>2, <1>3, Zenon DEF UpdatesOf
  <2>3. held'[r] = [held[r] EXCEPT ![g] = h]
    OBVIOUS
  <2> HIDE DEF h
  <2>4. State(r, config, skipped, pc[r].iter, Prog(r), Place(r), groups[r],
              launched[r], executed + 1, sums[r], [held[r] EXCEPT ![g] = h], grads[r])
    BY <1>3, <2>1, <2>2, GatherExecutes
  <2>5. Prog(r)' = Prog(r) /\ Place(r)' = Place(r)
    BY DEF Prog, Place
  <2>6. PcOK(r)'
    BY <2>5 DEF Inv, ReplicaOK, PcOK
  <2> QED BY <2>3, <2>4, <2>5, <2>6 DEF ReplicaOK
<1>5. AtSameReduction'
  <2>1. \A r \in Replicas : Place(r)' = Place(r)
    BY DEF Place
  <2> QED BY <2>1 DEF Inv, AtSameReduction
<1>6. DOMAIN held' = Replicas
  OBVIOUS
<1>7. executed' \in Nat
  BY DEF Inv
<1> QED
  BY <1>4, <1>5, <1>6, <1>7 DEF Inv

LEMMA ReduceKeeps ==
    ASSUME ProgramsInOrder, Inv, NEW g \in GroupsOf(config),
           \A r \in Replicas : /\ executed + 1 <= Len(launched[r])
                               /\ launched[r][executed + 1] = <<"reduce", g>>,
           sums' = [r \in Replicas |-> [sums[r] EXCEPT ![g] =
                       Append(sums[r][g], [s \in Replicas |-> [p \in Members(config, g) |-> grads[s][p]]])]],
           executed' = executed + 1,
           UNCHANGED <<config, skipped, pc, groups, grads, held, launched>>
    PROVE  Inv'
<1> DEFINE total == [s \in Replicas |-> [p \in Members(config, g) |-> grads[s][p]]]
<1>1. ASSUME NEW r \in Replicas
      PROVE  /\ \A p \in Members(config, g) : grads[r][p] = NumMicrobatches(config)
             /\ Place(r) > 1 /\ sums[r][g] = <<>> /\ DOMAIN sums[r] = GroupsOf(config)
             /\ State(r, config, skipped, pc[r].iter, Prog(r), Place(r), groups[r], launched[r],
                      executed + 1, [sums[r] EXCEPT ![g] = <<Full(config, g)>>], held[r], grads[r])
  <2>1. /\ config \in Configs /\ executed \in Nat /\ pc[r].iter \in 1 .. Iterations
        /\ ProgramInOrder(config, pc[r].iter, Prog(r)) /\ Place(r) \in 1 .. Len(Prog(r)) + 1
        /\ State(r, config, skipped, pc[r].iter, Prog(r), Place(r), groups[r],
                 launched[r], executed, sums[r], held[r], grads[r])
    BY PlaceFacts
  <2>2. /\ GroupOK(config, skipped, pc[r].iter, Prog(r), Place(r), g, groups[r][g])
        /\ GradsOK(config, Prog(r), Place(r), grads[r])
    BY <2>1, StateFacts
  <2>3. PICK k \in GroupsOf(config) :
          \/ launched[r][executed + 1] = <<"gather", k>>
             /\ (groups[r][k].gather = executed + 1 \/ groups[r][k].sync = executed + 1)
          \/ launched[r][executed + 1] = <<"reduce", k>> /\ groups[r][k].reduce = executed + 1
    BY <2>1, HandleOf
  <2>4. groups[r][g].reduce = executed + 1
    BY <2>3
  <2>5. groups[r][g].reduce # 0
    BY <2>1, <2>4
  <2>6. ReduceOK(config, Prog(r), Place(r), g, groups[r][g])
    BY <2>2 DEF GroupOK
  <2>7. \A p \in Members(config, g) : grads[r][p] = NumMicrobatches(config)
    BY <2>1, <2>2, <2>5, <2>6, GradsComplete
  <2>8. /\ Place(r) > 1 /\ sums[r][g] = <<>>
        /\ State(r, config, skipped, pc[r].iter, Prog(r), Place(r), groups[r], launched[r],
                 executed + 1, [sums[r] EXCEPT ![g] = <<Full(config, g)>>], held[r], grads[r])
    BY <2>1, <2>4, ReduceExecutes
  <2>9. DOMAIN sums[r] = GroupsOf(config)
    BY <2>1 DEF State
  <2> QED BY <2>7, <2>8, <2>9
<1>2. total = Full(config, g)
  BY <1>1 DEF Full
<1> HIDE DEF total
<1>3. ASSUME NEW r \in Replicas
      PROVE  sums'[r] = [sums[r] EXCEPT ![g] = <<Full(config, g)>>]
  <2>1. sums'[r] = [sums[r] EXCEPT ![g] = Append(sums[r][g], total)]
    BY DEF total
  <2>2. sums[r][g] = <<>>
    BY <1>1
  <2>3. Append(sums[r][g], total) = <<Full(config, g)>>
    BY <1>2, <2>2
  <2> QED BY <2>1, <2>3
<1>4. \A r \in Replicas : Prog(r)' = Prog(r) /\ Place(r)' = Place(r)
  BY DEF Prog, Place
<1>5. ASSUME NEW r \in Replicas
      PROVE  ReplicaOK(r)'
  <2>1. PcOK(r)'
    BY <1>4 DEF Inv, ReplicaOK, PcOK
  <2>2. State(r, config, skipped, pc[r].iter, Prog(r), Place(r), groups[r], launched[r],
              executed + 1, sums'[r], held[r], grads[r])
    BY <1>1, <1>3
  <2> QED BY <1>4, <2>1, <2>2 DEF ReplicaOK
<1>6. ASSUME NEW r \in Replicas, NEW k \in GroupsOf(config)
      PROVE  Reductions(pc[r].iter, Place(r), sums'[r][k])
             = IF k = g THEN Reductions(pc[r].iter, Place(r), sums[r][k]) + 1
               ELSE Reductions(pc[r].iter, Place(r), sums[r][k])
  <2>1. CASE k # g
    <3>1. sums'[r][k] = sums[r][k]
      BY <1>1, <1>3, <2>1
    <3> QED BY <2>1, <3>1
  <2>2. CASE k = g
    <3>1. sums'[r][k] = <<Full(config, g)>> /\ sums[r][k] = <<>> /\ Place(r) > 1
      BY <1>1, <1>3, <2>2
    <3>2. Len(sums'[r][k]) = 1 /\ Len(sums[r][k]) = 0
      BY <3>1
    <3>3. pc[r].iter \in Int
      BY PlaceFacts, ConfigsAssumption
    <3>4. Reductions(pc[r].iter, Place(r), sums'[r][k]) = (pc[r].iter - 1) + 1
      BY <3>1, <3>2, Zenon DEF Reductions
    <3>5. Reductions(pc[r].iter, Place(r), sums[r][k]) = (pc[r].iter - 1) + 0
      BY <3>1, <3>2, Zenon DEF Reductions
    <3> QED BY <2>2, <3>3, <3>4, <3>5
  <2> QED BY <2>1, <2>2
<1>7. AtSameReduction'
  <2> SUFFICES ASSUME NEW r \in Replicas, NEW s \in Replicas, NEW k \in GroupsOf(config)
               PROVE  Reductions(pc[r].iter, Place(r), sums'[r][k]) = Reductions(pc[s].iter, Place(s), sums'[s][k])
    BY <1>4 DEF AtSameReduction
  <2>1. Reductions(pc[r].iter, Place(r), sums[r][k]) = Reductions(pc[s].iter, Place(s), sums[s][k])
    BY DEF Inv, AtSameReduction
  <2> QED BY <1>6, <2>1
<1>8. DOMAIN sums' = Replicas
  OBVIOUS
<1>9. executed' \in Nat
  BY DEF Inv
<1> QED
  BY <1>5, <1>7, <1>8, <1>9 DEF Inv

LEMMA NextExecutes ==
    ASSUME ProgramsInOrder, Inv, NEW r \in Replicas, executed + 1 <= Len(launched[r])
    PROVE  \E g \in GroupsOf(config) :
              launched[r][executed + 1] = <<"gather", g>> \/ launched[r][executed + 1] = <<"reduce", g>>
<1>1. /\ executed \in Nat
      /\ State(r, config, skipped, pc[r].iter, Prog(r), Place(r), groups[r],
               launched[r], executed, sums[r], held[r], grads[r])
  BY PlaceFacts
<1>2. PendingOK(config, groups[r], launched[r], executed) /\ launched[r] \in Seq(Collectives(config))
  BY <1>1, Zenon DEF State
<1>3. executed + 1 \in DOMAIN launched[r] /\ executed + 1 > executed
  BY <1>1, <1>2
<1> QED
  BY <1>2, <1>3, Zenon DEF PendingOK

LEMMA ExecuteKeeps ==
    ASSUME ProgramsInOrder, Inv, Execute
    PROVE  Inv'
<1> DEFINE r0 == CHOOSE r \in Replicas : TRUE
<1>1. r0 \in Replicas
  BY ConfigsAssumption
<1>2. \A r \in Replicas : executed + 1 <= Len(launched[r]) /\ launched[r][executed + 1] = launched[r0][executed + 1]
  BY <1>1 DEF Execute
<1> HIDE DEF r0
<1>3. PICK g \in GroupsOf(config) :
        launched[r0][executed + 1] = <<"gather", g>> \/ launched[r0][executed + 1] = <<"reduce", g>>
  BY <1>1, <1>2, NextExecutes
<1>4. CASE launched[r0][executed + 1] = <<"gather", g>>
  <2>1. launched[r0][executed + 1][1] = "gather" /\ launched[r0][executed + 1][2] = g
    BY <1>4
  <2>2. /\ held' = [r \in Replicas |-> [held[r] EXCEPT ![g] = [s \in Replicas |-> held[s][g][s]]]]
        /\ executed' = executed + 1
        /\ UNCHANGED <<config, skipped, pc, groups, grads, sums, launched>>
    <3> DEFINE k == launched[r0][executed + 1][2]
    <3>1. /\ held' = [r \in Replicas |-> [held[r] EXCEPT ![k] = [s \in Replicas |-> held[s][k][s]]]]
          /\ executed' = executed + 1
          /\ UNCHANGED <<config, skipped, pc, groups, grads, sums, launched>>
      BY <2>1, Zenon DEF Execute, r0
    <3>2. k = g
      BY <2>1
    <3> HIDE DEF k
    <3> QED BY <3>1, <3>2, Zenon
  <2> QED BY <1>2, <1>4, <2>2, GatherKeeps
<1>5. CASE launched[r0][executed + 1] = <<"reduce", g>>
  <2>1. launched[r0][executed + 1][1] # "gather" /\ launched[r0][executed + 1][2] = g
    BY <1>5
  <2>2. /\ sums' = [r \in Replicas |-> [sums[r] EXCEPT ![g] =
                       Append(sums[r][g], [s \in Replicas |-> [p \in Members(config, g) |-> grads[s][p]]])]]
        /\ executed' = executed + 1
        /\ UNCHANGED <<config, skipped, pc, groups, grads, held, launched>>
    BY <2>1 DEF Execute, r0
  <2> QED BY <1>2, <1>5, <2>2, ReduceKeeps
<1> QED
  BY <1>3, <1>4, <1>5

LEMMA NextKeeps ==
    ASSUME ProgramsInOrder, Inv, [Next]_vars
    PROVE  Inv'
<1>1. CASE Execute
  BY <1>1, ExecuteKeeps
<1>2. ASSUME NEW r \in Replicas, ReplicaStep(r)
      PROVE  Inv'
  <2>1. CASE HookStart(r)
    BY <2>1, HookStartKeeps
  <2>2. CASE HookWait(r)
    BY <2>2, HookWaitKeeps
  <2>3. CASE HookPasses(r)
    BY <2>3, HookPassesKeeps
  <2>4. CASE Use(r)
    BY <2>4, UseKeeps
  <2>5. CASE SyncStart(r)
    BY <2>5, SyncStartKeeps
  <2>6. CASE SyncEnd(r)
    BY <2>6, SyncEndKeeps
  <2>7. CASE GatherSkipped(r)
    BY <2>7, GatherSkippedKeeps
  <2>8. CASE Zero(r)
    BY <2>8, ZeroKeeps
  <2>9. CASE SetSync(r)
    BY <2>9, SetSyncKeeps
  <2>10. CASE Backward(r)
    BY <2>10, BackwardKeeps
  <2>11. CASE WeightGradient(r)
    BY <2>11, WeightGradientKeeps
  <2>12. CASE StartGradSync(r)
    BY <2>12, StartGradSyncKeeps
  <2>13. CASE FinishStarts(r)
    BY <2>13, FinishStartsKeeps
  <2>14. CASE FinishGradSync(r)
    BY <2>14, FinishGradSyncKeeps
  <2>15. CASE Step(r)
    BY <2>15, StepKeepsInv
  <2> QED
    BY <1>2, <2>1, <2>2, <2>3, <2>4, <2>5, <2>6, <2>7, <2>8, <2>9, <2>10, <2>11, <2>12, <2>13,
       <2>14, <2>15 DEF ReplicaStep
<1>3. CASE UNCHANGED vars
  <2>1. /\ config' = config /\ skipped' = skipped /\ pc' = pc /\ groups' = groups /\ held' = held
        /\ grads' = grads /\ sums' = sums /\ launched' = launched /\ executed' = executed
    BY <1>3 DEF vars
  <2>2. \A r \in Replicas : Prog(r)' = Prog(r) /\ Place(r)' = Place(r)
    BY <2>1 DEF Prog, Place
  <2>3. \A r \in Replicas : ReplicaOK(r)'
    BY <2>1, <2>2 DEF Inv, ReplicaOK, PcOK
  <2>4. AtSameReduction'
    BY <2>1, <2>2 DEF Inv, AtSameReduction
  <2> QED BY <2>1, <2>3, <2>4 DEF Inv
<1> QED
  BY <1>1, <1>2, <1>3 DEF Next

LEMMA MicrobatchesCount ==
    ASSUME NEW c, NEW i, NEW P, ProgramInOrder(c, i, P), NEW p \in ParamsOf(c)
    PROVE  NumMicrobatches(c) \in Nat
<1>1. DOMAIN P = 1 .. Len(P) /\ Len(P) \in Nat
  BY DEF ProgramInOrder, Typed
<1>2. IsFiniteSet(1 .. Len(P))
  BY <1>1, FS_Interval
<1>3. IsFiniteSet(Places(P, Contributes(c), p))
  BY <1>1, <1>2, FS_Subset DEF Places
<1>4. Cardinality(Places(P, Contributes(c), p)) \in Nat
  BY <1>3, FS_CardinalityType
<1> QED
  BY <1>4 DEF ProgramInOrder, AllContribute

LEMMA InitState ==
    ASSUME NEW c \in Configs, NEW sk, NEW P, ProgramInOrder(c, 1, P), NEW r \in Replicas,
           NEW gs, NEW sm, NEW hd, NEW gr,
           gs = [g \in GroupsOf(c) |->
                  [dispatched |-> FALSE, gather |-> 0, sync |-> 0, reduce |-> 0, ready |-> {}, last |-> TRUE]],
           sm = [g \in GroupsOf(c) |-> <<>>],
           hd = [g \in GroupsOf(c) |-> [s \in Replicas |-> 0]],
           gr = [p \in ParamsOf(c) |-> 0]
    PROVE  State(r, c, sk, 1, P, 1, gs, <<>>, 0, sm, hd, gr)
<1>1. \A op, a : ~Did(P, 1, op, a)
  BY DidFirst
<1>2. UpdatesAt(sk, 1, P, 1) = 0
  <2>1. (1 .. 1 - 1) \ sk = {}
    OBVIOUS
  <2>2. UpTo(sk, 1 - 1) = 0
    BY <2>1, FS_EmptySet, Zenon DEF UpTo
  <2> QED BY <1>1, <2>2, Zenon DEF UpdatesAt
<1>3. ASSUME NEW g \in GroupsOf(c)
      PROVE  GroupState(r, c, sk, 1, P, 1, g, gs[g], <<>>, 0, sm[g], hd[g])
  <2>1. /\ gs[g].dispatched = FALSE /\ gs[g].gather = 0 /\ gs[g].sync = 0 /\ gs[g].reduce = 0
        /\ GroupType(c, g, gs[g])
    BY DEF GroupType
  <2>2. ~Ahead(c, 1)
    BY DEF Ahead
  <2>3. GroupOK(c, sk, 1, P, 1, g, gs[g])
    BY <1>1, <2>1, <2>2 DEF GroupOK, RegisterOK, ReduceOK, SyncOK, GatherOK
  <2>4. HandlesOK(g, gs[g], <<>>) /\ SumsOK(c, P, 1, g, gs[g], 0, sm[g])
    BY <2>1 DEF HandlesOK, SumsOK
  <2>5. hd[g] \in [Replicas -> 0 .. Iterations] /\ \A s \in Replicas : hd[g][s] = 0
    BY ConfigsAssumption
  <2>6. HeldOK(r, c, sk, 1, P, 1, g, gs[g], 0, hd[g])
    BY <1>2, <2>5 DEF HeldOK
  <2> QED BY <2>3, <2>4, <2>5, <2>6 DEF GroupState
<1>4. GradsOK(c, P, 1, gr)
  BY DEF GradsOK
<1>5. \A p \in ParamsOf(c) : gr[p] \in 0 .. NumMicrobatches(c)
  <2> SUFFICES ASSUME NEW p \in ParamsOf(c) PROVE gr[p] \in 0 .. NumMicrobatches(c)
    OBVIOUS
  <2>1. NumMicrobatches(c) \in Nat
    BY MicrobatchesCount
  <2> QED BY <2>1
<1>6. <<>> \in Seq(Collectives(c)) /\ 0 <= Len(<<>>) /\ PendingOK(c, gs, <<>>, 0)
  BY DEF PendingOK
<1> QED
  BY <1>3, <1>4, <1>5, <1>6 DEF State

LEMMA InitInv ==
    ASSUME ProgramsInOrder, Init
    PROVE  Inv
<1>1. /\ config \in Configs /\ skipped \subseteq 1 .. Iterations /\ executed = 0
      /\ DOMAIN pc = Replicas /\ DOMAIN groups = Replicas /\ DOMAIN held = Replicas
      /\ DOMAIN grads = Replicas /\ DOMAIN sums = Replicas /\ DOMAIN launched = Replicas
  BY DEF Init
<1>2. 1 \in 1 .. Iterations
  BY ConfigsAssumption
<1>3. ASSUME NEW r \in Replicas
      PROVE  ReplicaOK(r) /\ pc[r].iter = 1 /\ Place(r) = 1
  <2>1. pc[r] = [state |-> "running", iter |-> 1, k |-> 1]
    BY DEF Init
  <2>2. Prog(r) = Programs[config][1] /\ Place(r) = 1
    BY <2>1 DEF Prog, Place
  <2>3. ProgramInOrder(config, 1, Prog(r))
    BY <1>1, <1>2, <2>2 DEF ProgramsInOrder
  <2>4. Len(Prog(r)) \in Nat \ {0}
    BY <2>3 DEF ProgramInOrder, Typed
  <2>5. PcOK(r)
    BY <1>2, <2>1, <2>4 DEF PcOK
  <2>6. /\ groups[r] = [g \in GroupsOf(config) |->
                  [dispatched |-> FALSE, gather |-> 0, sync |-> 0, reduce |-> 0, ready |-> {}, last |-> TRUE]]
        /\ sums[r] = [g \in GroupsOf(config) |-> <<>>]
        /\ held[r] = [g \in GroupsOf(config) |-> [s \in Replicas |-> 0]]
        /\ grads[r] = [p \in ParamsOf(config) |-> 0]
        /\ launched[r] = <<>>
    BY DEF Init
  <2>7. State(r, config, skipped, 1, Prog(r), 1, groups[r], <<>>, 0, sums[r], held[r], grads[r])
    BY <1>1, <2>3, <2>6, InitState
  <2> QED BY <1>1, <2>1, <2>2, <2>5, <2>6, <2>7 DEF ReplicaOK
<1>4. AtSameReduction
  <2>1. \A r \in Replicas, g \in GroupsOf(config) : Reductions(pc[r].iter, Place(r), sums[r][g]) = 1 - 1
    BY <1>3 DEF Reductions
  <2> QED BY <2>1 DEF AtSameReduction
<1> QED
  BY <1>1, <1>3, <1>4 DEF Inv

-----------------------------------------------------------------------------
(* What the invariant says of the properties.                              *)

\* A replica is about to use the parameters of group g.
Using(r, c, sk, i, P, n, gs, ln, ex, sm, hd, gr, g) ==
    /\ c \in Configs /\ ProgramInOrder(c, i, P) /\ n \in DOMAIN P /\ ex \in Nat
    /\ State(r, c, sk, i, P, n, gs, ln, ex, sm, hd, gr)
    /\ \E used : P[n] = Op("use", used) /\ g \in used

\* Then they are current.
LEMMA UsedCurrent ==
    ASSUME NEW r, NEW c, NEW sk, NEW i, NEW P, NEW n, NEW gs, NEW ln, NEW ex, NEW sm, NEW hd, NEW gr, NEW g,
           Using(r, c, sk, i, P, n, gs, ln, ex, sm, hd, gr, g)
    PROVE  \A s \in Replicas : hd[g][s] = UpdatesAt(sk, i, P, n)
<1>. /\ c \in Configs /\ ProgramInOrder(c, i, P) /\ n \in DOMAIN P /\ ex \in Nat
     /\ State(r, c, sk, i, P, n, gs, ln, ex, sm, hd, gr)
  BY DEF Using
<1>. PICK used : P[n] = Op("use", used) /\ g \in used
  BY DEF Using
<1>1. /\ DOMAIN P = 1 .. Len(P) /\ Len(P) \in Nat /\ n \in Nat /\ n \in 1 .. Len(P) + 1
      /\ P[n].op = "use" /\ P[n].args = used
  BY OpDistinct DEF ProgramInOrder, Typed
<1>2. g \in GroupsOf(c)
  BY <1>1, OpDistinct DEF ProgramInOrder, Typed
<1>3. n \in PlacesOfOp(P, {"use"}) /\ g \in P[n].args
  BY <1>1 DEF PlacesOfOp
<1>4. IF c.gather
      THEN \/ \E h \in Places(P, "hook", g) : h < n /\ \A q \in PlacesOfOp(P, {"finish"}) : n < q
           \/ \E f \in Places(P, "force", g) : f < n
      ELSE \/ \A q \in PlacesOfOp(P, {"step"}) : n < q
           \/ \E f \in Places(P, "gather", g) : f < n
  BY <1>3, Zenon DEF ProgramInOrder, GatheredFirst
<1>5. /\ GroupOK(c, sk, i, P, n, g, gs[g]) /\ HeldOK(r, c, sk, i, P, n, g, gs[g], ex, hd[g])
  BY <1>2, StateFacts
<1>6. SyncOK(sk, i, P, n, g, gs[g]) /\ GatherOK(c, i, P, n, g, gs[g])
  BY <1>5 DEF GroupOK
<1>7. gs[g].sync = 0
  BY <1>6, NoSync, OpDistinct
<1>8. \A op, a, q : q \in Places(P, op, a) /\ q < n => Did(P, n, op, a)
  <2>1. \A op, a, q : q \in Places(P, op, a) /\ q < n => q \in 1 .. n - 1 /\ P[q] = Op(op, a)
    BY <1>1 DEF Places
  <2> QED BY <2>1, Zenon DEF Did
<1>9. PICK f \in DOMAIN P : Places(P, "finish", g) = {f} /\ P[f] = Op("finish", g) /\ f \in PlacesOfOp(P, {"finish"})
  <2>1. PICK f \in DOMAIN P : Places(P, "finish", g) = {f}
    BY <1>2, Zenon DEF ProgramInOrder, FinishesOnce
  <2> QED BY <2>1, OpDistinct DEF Places, PlacesOfOp
<1>10. IsCurrent(c, sk, i, P, n, g, gs[g], ex)
  <2>1. CASE c.gather
    <3>1. gs[g].dispatched /\ gs[g].gather = 0
      <4>1. CASE \E h \in Places(P, "hook", g) : h < n /\ \A q \in PlacesOfOp(P, {"finish"}) : n < q
        <5>1. Did(P, n, "hook", g)
          BY <1>8, <4>1
        <5>2. n < f
          BY <1>9, <4>1
        <5>3. ~Did(P, n, "finish", g)
          <6>1. \A q \in 1 .. n - 1 : q \in DOMAIN P /\ q # f
            BY <1>1, <5>2
          <6> QED BY <1>9, <6>1 DEF Did, Places
        <5> QED BY <1>6, <2>1, <5>1, <5>3, Zenon DEF GatherOK
      <4>2. CASE \E h \in Places(P, "force", g) : h < n
        <5>1. PICK h \in Places(P, "force", g) : h < n
          BY <4>2
        <5>2. Did(P, n, "force", g)
          BY <1>8, <5>1
        <5>3. h \in PlacesOfOp(P, {"gather", "force"}) /\ h \in Nat
          BY <1>1, OpDistinct DEF Places, PlacesOfOp
        <5>4. PICK s1 \in DOMAIN P : Places(P, "step", 0) = {s1}
          BY Zenon DEF ProgramInOrder, Phases
        <5>5. s1 \in PlacesOfOp(P, {"step"})
          BY <5>4, OpDistinct DEF Places, PlacesOfOp
        <5>6. f < s1 /\ s1 < h
          BY <1>9, <5>3, <5>5, Zenon DEF ProgramInOrder, Phases
        <5>7. f < n
          BY <1>1, <5>1, <5>3, <5>6
        <5>8. Did(P, n, "finish", g)
          BY <1>8, <1>9, <5>7
        <5>9. Did(P, n, "hook", g)
          BY <1>1, <1>2, <2>1, <5>8, AfterFinish
        <5> QED BY <1>6, <2>1, <5>2, <5>8, <5>9, Zenon DEF GatherOK
      <4> QED BY <1>4, <2>1, <4>1, <4>2
    <3> QED BY <1>7, <2>1, <3>1 DEF IsCurrent
  <2>2. CASE ~c.gather
    <3>1. CASE \A q \in PlacesOfOp(P, {"step"}) : n < q
      <4>1. ASSUME NEW q \in 1 .. n - 1, P[q] = Op("step", 0) PROVE FALSE
        <5>1. q \in PlacesOfOp(P, {"step"})
          BY <1>1, <4>1, OpDistinct DEF PlacesOfOp
        <5> QED BY <1>1, <3>1, <5>1
      <4> QED BY <2>2, <4>1 DEF IsCurrent, Did
    <3>2. CASE \E h \in Places(P, "gather", g) : h < n
      BY <1>8, <2>2, <3>2 DEF IsCurrent
    <3> QED BY <1>4, <2>2, <3>1, <3>2
  <2> QED BY <2>1, <2>2
<1> QED
  BY <1>2, <1>5, <1>10 DEF HeldOK

\* The updates a replica has made are those of its place.
LEMMA UpdatesAre ==
    ASSUME ProgramsInOrder, Inv, NEW r \in Replicas, Running(r)
    PROVE  Updates(r) = UpdatesAt(skipped, pc[r].iter, Prog(r), pc[r].k)
<1> DEFINE i == pc[r].iter
           n == pc[r].k
           stepped == \E k \in 1 .. n - 1 : Programs[config][i][k].op = "step"
           counted == {j \in 1 .. Iterations \ skipped : j < i \/ (j = i /\ stepped)}
<1>1. /\ i \in 1 .. Iterations /\ n \in DOMAIN Prog(r) /\ n \in Nat \ {0}
      /\ ProgramInOrder(config, i, Prog(r))
  BY ReplicaFacts
<1>2. DOMAIN Prog(r) = 1 .. Len(Prog(r)) /\ Len(Prog(r)) \in Nat /\ Iterations \in Nat
  BY <1>1, ConfigsAssumption DEF ProgramInOrder, Typed
<1>3. \A k \in 1 .. n - 1 : k \in DOMAIN Prog(r)
  BY <1>1, <1>2
<1>4. \A k \in DOMAIN Prog(r) : Prog(r)[k].op = "step" <=> Prog(r)[k] = Op("step", 0)
  BY <1>1, OpDistinct DEF ProgramInOrder, Typed
<1>5. stepped <=> Did(Prog(r), n, "step", 0)
  <2>1. stepped <=> \E k \in 1 .. n - 1 : Prog(r)[k].op = "step"
    BY DEF Prog
  <2> HIDE DEF stepped
  <2> QED BY <1>3, <1>4, <2>1, Zenon DEF Did
<1>6. Updates(r) = Cardinality(counted)
  <2>1. {j \in 1 .. Iterations \ skipped :
            \/ j < pc[r].iter
            \/ j = pc[r].iter /\ \E k \in 1 .. pc[r].k - 1 : Programs[config][j][k].op = "step"} = counted
    OBVIOUS
  <2> QED BY <2>1, Zenon DEF Updates
<1> HIDE DEF stepped
<1>7. CASE stepped
  <2>1. counted = (1 .. i) \ skipped
    BY <1>1, <1>2, <1>7
  <2> QED BY <1>5, <1>6, <1>7, <2>1, Zenon DEF UpdatesAt, UpTo
<1>8. CASE ~stepped
  <2>1. counted = (1 .. i - 1) \ skipped
    BY <1>1, <1>2, <1>8
  <2> QED BY <1>5, <1>6, <1>8, <2>1, Zenon DEF UpdatesAt, UpTo
<1> QED
  BY <1>7, <1>8

LEMMA InvUsesCurrent ==
    ASSUME ProgramsInOrder, Inv
    PROVE  UsesCurrent
<1> SUFFICES ASSUME NEW r \in Replicas, Doing(r, "use"), NEW g \in Arg(r), NEW s \in Replicas
             PROVE  held[r][g][s] = Updates(r)
  BY DEF UsesCurrent
<1>1. /\ config \in Configs /\ executed \in Nat /\ Running(r)
      /\ ProgramInOrder(config, pc[r].iter, Prog(r))
      /\ pc[r].k \in DOMAIN Prog(r) /\ Prog(r)[pc[r].k] = Op("use", Arg(r))
      /\ State(r, config, skipped, pc[r].iter, Prog(r), pc[r].k, groups[r],
               launched[r], executed, sums[r], held[r], grads[r])
  BY DoingFacts
<1>2. held[r][g][s] = UpdatesAt(skipped, pc[r].iter, Prog(r), pc[r].k)
  <2>1. Using(r, config, skipped, pc[r].iter, Prog(r), pc[r].k, groups[r],
              launched[r], executed, sums[r], held[r], grads[r], g)
    BY <1>1 DEF Using
  <2> QED BY <2>1, UsedCurrent
<1>3. Updates(r) = UpdatesAt(skipped, pc[r].iter, Prog(r), pc[r].k)
  BY <1>1, UpdatesAre
<1> QED
  BY <1>2, <1>3

\* The optimizer's step comes after the end of every reduction.
LEMMA StepAfterFinish ==
    ASSUME NEW c \in Configs, NEW i, NEW P, ProgramInOrder(c, i, P), NEW n \in DOMAIN P, P[n].op = "step",
           NEW g \in GroupsOf(c)
    PROVE  n > 1 /\ Did(P, n, "finish", g)
<1>1. DOMAIN P = 1 .. Len(P) /\ Len(P) \in Nat /\ n \in Nat /\ n > 1
  BY DEF ProgramInOrder, Typed, Phases
<1>2. PICK f \in DOMAIN P : Places(P, "finish", g) = {f}
  BY Zenon DEF ProgramInOrder, FinishesOnce
<1>3. P[f] = Op("finish", g)
  BY <1>2 DEF Places
<1>4. f \in PlacesOfOp(P, {"finish"}) /\ n \in PlacesOfOp(P, {"step"})
  BY <1>3, OpDistinct DEF PlacesOfOp
<1>5. f < n
  BY <1>4, Zenon DEF ProgramInOrder, Phases
<1> QED
  BY <1>1, <1>3, <1>5 DEF Did

LEMMA InvReducesAll ==
    ASSUME ProgramsInOrder, Inv
    PROVE  ReducesAll
<1> SUFFICES ASSUME NEW r \in Replicas, Doing(r, "step"), NEW g \in GroupsOf(config)
             PROVE  sums[r][g] = <<Full(config, g)>>
  BY DEF ReducesAll, Full
<1>1. /\ config \in Configs /\ ProgramInOrder(config, pc[r].iter, Prog(r))
      /\ pc[r].k \in DOMAIN Prog(r) /\ Prog(r)[pc[r].k] = Op("step", Arg(r))
      /\ State(r, config, skipped, pc[r].iter, Prog(r), pc[r].k, groups[r],
               launched[r], executed, sums[r], held[r], grads[r])
  BY DoingFacts
<1>2. Prog(r)[pc[r].k].op = "step"
  BY <1>1, OpDistinct
<1>3. pc[r].k > 1 /\ Did(Prog(r), pc[r].k, "finish", g)
  BY <1>1, <1>2, StepAfterFinish
<1>4. SumsOK(config, Prog(r), pc[r].k, g, groups[r][g], executed, sums[r][g])
  BY <1>1, StateFacts
<1> QED
  BY <1>3, <1>4, Zenon DEF SumsOK

LEMMA InvNothingOutstanding ==
    ASSUME ProgramsInOrder, Inv
    PROVE  NothingOutstanding
<1> SUFFICES ASSUME NEW r \in Replicas, Doing(r, "zero") \/ pc[r].state = "done", NEW g \in GroupsOf(config)
             PROVE  groups[r][g].gather = 0 /\ groups[r][g].sync = 0 /\ groups[r][g].reduce = 0
  BY DEF NothingOutstanding
<1>1. /\ config \in Configs /\ ProgramInOrder(config, pc[r].iter, Prog(r)) /\ pc[r].iter \in 1 .. Iterations
      /\ State(r, config, skipped, pc[r].iter, Prog(r), Place(r), groups[r],
               launched[r], executed, sums[r], held[r], grads[r])
  BY PlaceFacts
<1>2. GroupOK(config, skipped, pc[r].iter, Prog(r), Place(r), g, groups[r][g])
  BY <1>1, StateFacts
<1>3. CASE Doing(r, "zero")
  <2>1. pc[r].k \in DOMAIN Prog(r) /\ Prog(r)[pc[r].k] = Op("zero", Arg(r)) /\ Place(r) = pc[r].k
    BY <1>3, DoingFacts
  <2>2. pc[r].k = 1
    BY <1>1, <2>1, OpDistinct DEF ProgramInOrder, Phases
  <2>3. GroupOK(config, skipped, pc[r].iter, Prog(r), 1, g, groups[r][g])
    BY <1>2, <2>1, <2>2
  <2> QED BY <1>1, <2>3, BeginGroup
<1>4. CASE pc[r].state = "done"
  <2>1. Place(r) = Len(Prog(r)) + 1
    BY <1>4 DEF Inv, ReplicaOK, PcOK, Place
  <2> QED BY <1>1, <1>2, <2>1, EndGroup
<1> QED
  BY <1>3, <1>4

LEMMA InvAssertionsHold ==
    ASSUME Inv
    PROVE  AssertionsHold
BY DEF Inv, ReplicaOK, PcOK, AssertionsHold

LEMMA InvTypeOK ==
    ASSUME ProgramsInOrder, Inv
    PROVE  TypeOK
<1>1. ASSUME NEW r \in Replicas, NEW g \in GroupsOf(config)
      PROVE  /\ groups[r][g] \in [dispatched : BOOLEAN, last : BOOLEAN,
                                  gather : 0 .. Len(launched[r]), sync : 0 .. Len(launched[r]),
                                  reduce : 0 .. Len(launched[r]), ready : SUBSET Members(config, g)]
             /\ held[r][g] \in [Replicas -> 0 .. Iterations]
  <2>1. State(r, config, skipped, pc[r].iter, Prog(r), Place(r), groups[r],
              launched[r], executed, sums[r], held[r], grads[r])
    BY PlaceFacts
  <2>2. /\ GroupOK(config, skipped, pc[r].iter, Prog(r), Place(r), g, groups[r][g])
        /\ HandlesOK(g, groups[r][g], launched[r]) /\ held[r][g] \in [Replicas -> 0 .. Iterations]
        /\ launched[r] \in Seq(Collectives(config))
    BY <2>1, StateFacts
  <2>3. GroupType(config, g, groups[r][g])
    BY <2>2 DEF GroupOK
  <2>4. DOMAIN launched[r] = 1 .. Len(launched[r]) /\ Len(launched[r]) \in Nat
    BY <2>2
  <2>5. /\ groups[r][g].gather \in 0 .. Len(launched[r]) /\ groups[r][g].sync \in 0 .. Len(launched[r])
        /\ groups[r][g].reduce \in 0 .. Len(launched[r])
    BY <2>2, <2>3, <2>4 DEF HandlesOK, GroupType
  <2>6. /\ groups[r][g].dispatched \in BOOLEAN /\ groups[r][g].last \in BOOLEAN
        /\ groups[r][g].ready \in SUBSET Members(config, g)
        /\ groups[r][g] = [dispatched |-> groups[r][g].dispatched, gather |-> groups[r][g].gather,
                           sync |-> groups[r][g].sync, reduce |-> groups[r][g].reduce,
                           ready |-> groups[r][g].ready, last |-> groups[r][g].last]
    BY <2>3 DEF GroupType
  <2> QED BY <2>2, <2>5, <2>6
<1>2. ASSUME NEW r \in Replicas
      PROVE  /\ pc[r].state \in {"running", "done", "failed"} /\ pc[r].iter \in 1 .. Iterations
             /\ pc[r].k \in DOMAIN Programs[config][pc[r].iter]
             /\ \A p \in ParamsOf(config) : grads[r][p] \in 0 .. NumMicrobatches(config)
             /\ executed <= Len(launched[r])
  <2>1. PcOK(r)
    BY DEF Inv, ReplicaOK
  <2>2. pc[r].k \in DOMAIN Programs[config][pc[r].iter]
    BY ReplicaFacts DEF Prog
  <2>3. State(r, config, skipped, pc[r].iter, Prog(r), Place(r), groups[r],
              launched[r], executed, sums[r], held[r], grads[r])
    BY PlaceFacts
  <2>4. executed <= Len(launched[r]) /\ \A p \in ParamsOf(config) : grads[r][p] \in 0 .. NumMicrobatches(config)
    BY <2>3, StateFacts
  <2> QED BY <2>1, <2>2, <2>4 DEF PcOK
<1>3. config \in Configs /\ skipped \subseteq 1 .. Iterations
  BY DEF Inv
<1> QED
  BY <1>1, <1>2, <1>3 DEF TypeOK

-----------------------------------------------------------------------------
(* The theorems.                                                           *)

LEMMA Invariance ==
    ASSUME ProgramsInOrder
    PROVE  Spec => []Inv
<1>1. Init => Inv
  BY InitInv
<1>2. Inv /\ [Next]_vars => Inv'
  BY NextKeeps
<1> QED
  BY <1>1, <1>2, PTL DEF Spec

\* The variables keep their types: the handles of a bucket group are those of
\* collectives its replica launched, a gradient never holds more microbatches
\* than there are, and no collective executes that a replica did not launch.
THEOREM TypeCorrect ==
    ASSUME ProgramsInOrder
    PROVE  Spec => []TypeOK
<1>1. Inv => TypeOK
  BY InvTypeOK
<1> QED
  BY <1>1, Invariance, PTL

\* Whatever the replicas, the modules, the grouping of the parameters, the
\* schedule, the skipped updates and the evaluations: forward passes,
\* evaluations and checkpoints compute with parameters all of whose shards took
\* every update so far and no more.
THEOREM ParametersCurrent ==
    ASSUME ProgramsInOrder
    PROVE  Spec => []UsesCurrent
<1>1. Inv => UsesCurrent
  BY InvUsesCurrent
<1> QED
  BY <1>1, Invariance, PTL

\* The optimizer always steps on gradients that were reduced exactly once, after
\* every replica had added every microbatch to each of them.
THEOREM GradientsReduced ==
    ASSUME ProgramsInOrder
    PROVE  Spec => []ReducesAll
<1>1. Inv => ReducesAll
  BY InvReducesAll
<1> QED
  BY <1>1, Invariance, PTL

\* Every handle is None again when an iteration begins and when the last ends:
\* each gather and each reduction was waited for.
THEOREM CollectivesAwaited ==
    ASSUME ProgramsInOrder
    PROVE  Spec => []NothingOutstanding
<1>1. Inv => NothingOutstanding
  BY InvNothingOutstanding
<1> QED
  BY <1>1, Invariance, PTL

\* No assertion of the bucket groups fails: no handle is overwritten, no
\* gradient is registered twice and no reduction is waited for that was not
\* issued.
THEOREM NoAssertionFails ==
    ASSUME ProgramsInOrder
    PROVE  Spec => []AssertionsHold
<1>1. Inv => AssertionsHold
  BY InvAssertionsHold
<1> QED
  BY <1>1, Invariance, PTL

=============================================================================
