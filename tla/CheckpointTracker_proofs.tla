---------------------- MODULE CheckpointTracker_proofs ----------------------
(***************************************************************************)
(* Proofs about what is on disk: the tracker names a complete checkpoint,  *)
(* it never goes back, and a job finds a checkpoint it can load unless it  *)
(* once ended while a save was under way; for every set of command lines   *)
(* and of ranks, any failures of synchronous writes and any number of      *)
(* kills and signals.                                                      *)
(*                                                                         *)
(* None of the three is inductive.  The invariant follows a save from the  *)
(* empty directory to the tracker: the steps still to be done come in      *)
(* their order, the directory holds what the steps before the next one     *)
(* write, and the calls in the queue what the writers that ended wrote.    *)
(* This is so of every persistent checkpoint, and of a non-persistent one  *)
(* for as long as no newer directory is there: the others may be removed   *)
(* at any time.                                                            *)
(***************************************************************************)
EXTENDS Checkpointing_proofs

\* The steps of a save once its directory is there, and the steps that only
\* ever come right after another one.
UnderWay == {"common", "write", "schedule", ".metadata", "metadata.json", "tracker"}
Later == UnderWay \cup {"exit", "done"}
Links == {<<"mkdir", "common">>, <<"common", "write">>, <<"common", "schedule">>,
          <<"write", ".metadata">>, <<".metadata", "metadata.json">>, <<"metadata.json", "tracker">>,
          <<"flush", "exit">>, <<"flush", "done">>}
Linked(a, b) == b.op \in Later => <<a.op, b.op>> \in Links /\ a.ckpt = b.ckpt

\* The steps of a save come in their order, and none of them is the last one
\* before the tracker, or the queue of calls, is reached.
Going == {"mkdir", "common", "write", ".metadata", "metadata.json"}
Chained(todo) ==
    \A k \in 1 .. Len(todo) :
        /\ k + 1 <= Len(todo) => Linked(todo[k], todo[k + 1])
        /\ todo[k].op \in Going => k + 1 <= Len(todo) /\ todo[k + 1].op \in UnderWay
Fresh(todo) == todo # <<>> => todo[1].op \notin Later

\* A step of a save of iteration i.
StepOf(step, i) ==
    /\ step.op \in {"mkdir", "schedule"} =>
            step.ckpt[2] = i /\ i > 0 /\ (step.ckpt[1] = "np" => config.np # 0)
    /\ step.op = "schedule" => config.async
    /\ step.op = "tracker" => step.ckpt[2] > 0 /\ (~config.async => step.ckpt[2] = i)

\* With asynchronous saves the tracker is only ever written by what is
\* finalized, one save at a time.
OneTracker(todo) ==
    config.async => \A k \in 1 .. Len(todo), j \in 1 .. Len(todo) :
        k < j /\ todo[k].op \in {"poll", "flush", "rampup", "tracker"} => todo[j].op # "tracker"

TodoOf(todo, i) == /\ Chained(todo) /\ OneTracker(todo)
                   /\ \A k \in 1 .. Len(todo) : StepOf(todo[k], i)
TodoInv == TodoOf(job.todo, job.iter)

\* Checkpoints that no cleanup removes.
Np(k) == k[1] = "np"
Newest(k) == \A d \in DOMAIN disk.dirs : Np(d) => d[2] <= k[2]
Kept(k) == k[1] = "p" \/ Newest(k)

Shards == {Shard(r) : r \in Ranks}
Holds(ckpt, fs) ==
    Exists(ckpt) /\ \A f \in fs : /\ f \in DOMAIN disk.dirs[ckpt].files
                                  /\ disk.dirs[ckpt].files[f] = job.start

\* The files that the steps before `op` write.
FilesBefore(op) ==
    CASE op \in {"write", "schedule"} -> {Common}
      [] op = ".metadata"     -> {Common} \cup Shards
      [] op = "metadata.json" -> {Common, Metadata} \cup Shards
      [] op = "tracker"       -> Files

Ready(step) ==
    /\ step.op \in {"exit", "done"} => calls = <<>>
    /\ step.op = "common" /\ Kept(step.ckpt) =>
            Exists(step.ckpt) /\ DOMAIN disk.dirs[step.ckpt].files = {}
    /\ step.op \in UnderWay \ {"common"} /\ Kept(step.ckpt) => Holds(step.ckpt, FilesBefore(step.op))

HeadInv == job.todo # <<>> => Ready(job.todo[1])

CallsInv ==
    \A k \in 1 .. Len(calls) :
        /\ calls[k].ckpt[2] > 0
        /\ Kept(calls[k].ckpt) =>
              Holds(calls[k].ckpt, {Common} \cup {Shard(r) : r \in Ranks \ calls[k].running})

UpInv ==
    /\ job.start \in Nat
    /\ job.state = "up" => job.start > 0
    /\ job.state # "up" => job.todo = <<>> /\ calls = <<>> /\ removing = {}
    /\ Loading => calls = <<>> /\ removing = {}
    /\ ~config.async => calls = <<>> /\ removing = {}

\* Only directories older than another one are to be removed.
RemovingInv ==
    \A k \in removing : k \in Names /\ Np(k) /\ \E d \in DOMAIN disk.dirs : Np(d) /\ d[2] > k[2]

FilesInv ==
    \A k \in DOMAIN disk.dirs :
        /\ DOMAIN disk.dirs[k].files \subseteq Files
        /\ k[1] = "p" => \A f, g \in DOMAIN disk.dirs[k].files :
                            disk.dirs[k].files[f] = disk.dirs[k].files[g]
        /\ Np(k) => config.np # 0

\* Saves reach the tracker in the order of their iterations.
OrderInv ==
    /\ disk.tracker \in [Kinds -> Int] /\ disk.tracker["p"] >= None /\ disk.tracker["np"] >= None
    /\ job.state = "up" /\ ~Loading => disk.tracker["p"] <= job.iter
    /\ \A k \in 1 .. Len(calls) :
            /\ disk.tracker["p"] <= calls[k].ckpt[2] /\ calls[k].ckpt[2] <= job.iter
            /\ \A j \in 1 .. Len(calls) : k < j => calls[k].ckpt[2] <= calls[j].ckpt[2]
    /\ \A k \in 1 .. Len(job.todo) : job.todo[k].op = "tracker" =>
            /\ disk.tracker["p"] <= job.todo[k].ckpt[2] /\ job.todo[k].ckpt[2] <= job.iter
            /\ \A j \in 1 .. Len(calls) : job.todo[k].ckpt[2] <= calls[j].ckpt[2]

\* The non-persistent checkpoint is a save under way ...
Pending(ckpt) ==
    \/ job.todo # <<>> /\ job.todo[1].op \in UnderWay /\ job.todo[1].ckpt = ckpt
    \/ \E k \in 1 .. Len(calls) : calls[k].ckpt = ckpt

\* ... or it is on disk, and named by the tracker.
Settled ==
    \/ disk.tracker["np"] = None /\ \A k \in DOMAIN disk.dirs : ~Np(k)
    \/ LET ckpt == <<"np", disk.tracker["np"]>> IN
        disk.tracker["np"] > 0 /\ Exists(ckpt) /\ Whole(disk.dirs[ckpt]) /\ Newest(ckpt)

NpInv ==
    ~hit =>
        /\ disk.tracker["p"] # Emptied /\ disk.tracker["np"] # Emptied
        /\ \/ \E ckpt \in Names : Np(ckpt) /\ Pending(ckpt) /\ Newest(ckpt)
           \/ Settled /\ \A ckpt \in Names : Np(ckpt) => ~Pending(ckpt)
        /\ job.state = "up" /\ ~Loading => \A k \in DOMAIN disk.dirs : Np(k) => k[2] <= job.iter

TInv == /\ config \in Configs
        /\ UpInv /\ TodoInv /\ HeadInv /\ CallsInv /\ RemovingInv /\ FilesInv /\ OrderInv /\ NpInv
        /\ TrackerComplete

-----------------------------------------------------------------------------
(* Sequences of steps.                                                     *)

NoTracker(todo) == \A k \in 1 .. Len(todo) : todo[k].op # "tracker"
Built(todo, i) == TodoOf(todo, i) /\ Fresh(todo) /\ (config.async => NoTracker(todo))

\* The first step of a nonempty sequence, and what comes after it.
LEMMA HeadAndTail ==
    ASSUME NEW S, NEW todo \in Seq(S), todo # <<>>
    PROVE  /\ Len(todo) \in Nat /\ Len(todo) >= 1 /\ Head(todo) = todo[1] /\ todo[1] \in S
           /\ Tail(todo) \in Seq(S) /\ Len(Tail(todo)) = Len(todo) - 1
           /\ \A k \in 1 .. Len(Tail(todo)) : Tail(todo)[k] = todo[k + 1]
           /\ Tail(todo) # <<>> => Len(todo) >= 2 /\ Tail(todo)[1] = todo[2]
  OBVIOUS

LEMMA TailOf ==
    ASSUME NEW S, NEW i, NEW todo \in Seq(S), todo # <<>>, TodoOf(todo, i)
    PROVE  /\ TodoOf(Tail(todo), i)
           /\ Tail(todo) # <<>> => Linked(todo[1], Tail(todo)[1])
           /\ todo[1].op \in Going => Tail(todo) # <<>> /\ Tail(todo)[1].op \in UnderWay
           /\ (config.async /\ todo[1].op \in {"poll", "flush", "rampup", "tracker"}) => NoTracker(Tail(todo))
  <1> DEFINE rest == Tail(todo)
  <1>1. /\ Len(todo) \in Nat /\ Len(todo) >= 1 /\ Len(rest) = Len(todo) - 1
        /\ \A k \in 1 .. Len(rest) : rest[k] = todo[k + 1] /\ k + 1 \in 1 .. Len(todo)
        /\ rest # <<>> => Len(todo) >= 2 /\ rest[1] = todo[2]
    BY HeadAndTail
  <1> HIDE DEF rest
  <1>2. Chained(rest)
    <2> SUFFICES ASSUME NEW k \in 1 .. Len(rest)
                 PROVE  /\ k + 1 <= Len(rest) => Linked(rest[k], rest[k + 1])
                        /\ rest[k].op \in Going => k + 1 <= Len(rest) /\ rest[k + 1].op \in UnderWay
      BY DEF Chained
    <2>1. /\ rest[k] = todo[k + 1] /\ k + 1 \in 1 .. Len(todo)
          /\ k + 1 <= Len(rest) <=> (k + 1) + 1 <= Len(todo)
          /\ k + 1 <= Len(rest) => rest[k + 1] = todo[(k + 1) + 1]
      BY <1>1
    <2> QED
      BY <2>1 DEF TodoOf, Chained
  <1>3. OneTracker(rest)
    <2> SUFFICES ASSUME config.async, NEW k \in 1 .. Len(rest), NEW j \in 1 .. Len(rest),
                        k < j, rest[k].op \in {"poll", "flush", "rampup", "tracker"}
                 PROVE  rest[j].op # "tracker"
      BY DEF OneTracker
    <2>1. /\ rest[k] = todo[k + 1] /\ rest[j] = todo[j + 1] /\ k + 1 < j + 1
          /\ k + 1 \in 1 .. Len(todo) /\ j + 1 \in 1 .. Len(todo)
      BY <1>1
    <2> QED
      BY <2>1 DEF TodoOf, OneTracker
  <1>4. \A k \in 1 .. Len(rest) : StepOf(rest[k], i)
    BY <1>1 DEF TodoOf
  <1>5. rest # <<>> => Linked(todo[1], rest[1])
    <2> SUFFICES ASSUME rest # <<>> PROVE Linked(todo[1], todo[2])
      BY <1>1
    <2>1. 1 \in 1 .. Len(todo) /\ 1 + 1 <= Len(todo) /\ 1 + 1 = 2
      BY <1>1
    <2> QED
      BY <2>1 DEF TodoOf, Chained
  <1>7. todo[1].op \in Going => rest # <<>> /\ rest[1].op \in UnderWay
    <2> SUFFICES ASSUME todo[1].op \in Going PROVE rest # <<>> /\ todo[2].op \in UnderWay
      BY <1>1
    <2>1. 1 \in 1 .. Len(todo) /\ 1 + 1 = 2
      BY <1>1
    <2>2. 2 <= Len(todo) /\ todo[2].op \in UnderWay
      BY <2>1 DEF TodoOf, Chained
    <2>3. Len(rest) > 0
      BY <1>1, <2>2
    <2> QED
      BY <2>2, <2>3
  <1>6. ASSUME config.async, todo[1].op \in {"poll", "flush", "rampup", "tracker"}
        PROVE  NoTracker(rest)
    <2> SUFFICES ASSUME NEW k \in 1 .. Len(rest) PROVE rest[k].op # "tracker"
      BY DEF NoTracker
    <2>1. rest[k] = todo[k + 1] /\ 1 < k + 1 /\ 1 \in 1 .. Len(todo) /\ k + 1 \in 1 .. Len(todo)
      BY <1>1
    <2> QED
      BY <1>6, <2>1 DEF TodoOf, OneTracker
  <1> QED
    BY <1>2, <1>3, <1>4, <1>5, <1>6, <1>7 DEF TodoOf, rest

\* After a step that is none of a save nothing is in the middle of one.
LEMMA TailFresh ==
    ASSUME NEW S, NEW i, NEW todo \in Seq(S), todo # <<>>, TodoOf(todo, i),
           todo[1].op \in {"poll", "rampup", "train", "cleanup", "schedule", "tracker"}
    PROVE  Fresh(Tail(todo))
  BY TailOf DEF Fresh, Linked, Links, Later, UnderWay

LEMMA JoinOf ==
    ASSUME NEW S, NEW i, NEW a \in Seq(S), NEW b \in Seq(S), TodoOf(a, i), Built(b, i)
    PROVE  /\ TodoOf(a \o b, i)
           /\ Built(a, i) => Built(a \o b, i)
  <1> DEFINE c == a \o b
  <1>1. /\ Len(a) \in Nat /\ Len(b) \in Nat /\ Len(c) = Len(a) + Len(b)
        /\ \A k \in 1 .. Len(a) : c[k] = a[k]
        /\ \A k \in 1 .. Len(b) : c[Len(a) + k] = b[k]
    OBVIOUS
  <1> HIDE DEF c
  <1>2. \A k \in 1 .. Len(c) : \/ k \in 1 .. Len(a) /\ c[k] = a[k]
                               \/ k - Len(a) \in 1 .. Len(b) /\ c[k] = b[k - Len(a)]
    <2> SUFFICES ASSUME NEW k \in 1 .. Len(c), k > Len(a)
                 PROVE  k - Len(a) \in 1 .. Len(b) /\ c[k] = b[k - Len(a)]
      BY <1>1
    <2>1. k - Len(a) \in 1 .. Len(b) /\ k = Len(a) + (k - Len(a))
      BY <1>1
    <2> QED
      BY <1>1, <2>1
  <1>3. Chained(c)
    <2> SUFFICES ASSUME NEW k \in 1 .. Len(c)
                 PROVE  /\ k + 1 <= Len(c) => Linked(c[k], c[k + 1])
                        /\ c[k].op \in Going => k + 1 <= Len(c) /\ c[k + 1].op \in UnderWay
      BY DEF Chained
    <2>1. CASE k + 1 <= Len(a)
      <3>1. k \in 1 .. Len(a) /\ k + 1 \in 1 .. Len(a) /\ k + 1 <= Len(c)
        BY <1>1, <2>1
      <3> QED
        BY <1>1, <2>1, <3>1 DEF TodoOf, Chained
    <2>2. CASE k = Len(a)
      <3>1. k \in 1 .. Len(a) /\ c[k] = a[k] /\ ~(k + 1 <= Len(a))
        BY <1>1, <2>2
      <3>2. c[k].op \notin Going
        BY <3>1 DEF TodoOf, Chained
      <3>3. ASSUME k + 1 <= Len(c) PROVE c[k + 1] = b[1] /\ b # <<>>
        <4>1. 1 \in 1 .. Len(b)
          BY <1>1, <2>2, <3>3
        <4> QED
          BY <1>1, <2>2, <4>1
      <3> QED
        BY <3>2, <3>3 DEF Built, Fresh, Linked
    <2>3. CASE k > Len(a)
      <3>1. k - Len(a) \in 1 .. Len(b) /\ k = Len(a) + (k - Len(a)) /\ c[Len(a) + (k - Len(a))] = b[k - Len(a)]
        <4>1. k - Len(a) \in 1 .. Len(b) /\ k = Len(a) + (k - Len(a))
          BY <1>1, <2>3
        <4> QED
          BY <1>1, <4>1
      <3>2. k + 1 <= Len(c) <=> (k - Len(a)) + 1 <= Len(b)
        BY <1>1, <2>3
      <3>3. k + 1 <= Len(c) => c[k + 1] = b[(k - Len(a)) + 1]
        <4> SUFFICES ASSUME k + 1 <= Len(c) PROVE c[k + 1] = b[(k - Len(a)) + 1]
          OBVIOUS
        <4>1. (k - Len(a)) + 1 \in 1 .. Len(b) /\ k + 1 = Len(a) + ((k - Len(a)) + 1)
          BY <1>1, <2>3
        <4>2. c[Len(a) + ((k - Len(a)) + 1)] = b[(k - Len(a)) + 1]
          BY <1>1, <4>1
        <4> QED
          BY <4>1, <4>2
      <3>4. /\ (k - Len(a)) + 1 <= Len(b) => Linked(b[k - Len(a)], b[(k - Len(a)) + 1])
            /\ b[k - Len(a)].op \in Going =>
                    (k - Len(a)) + 1 <= Len(b) /\ b[(k - Len(a)) + 1].op \in UnderWay
        BY <3>1 DEF Built, TodoOf, Chained
      <3> QED
        BY <3>1, <3>2, <3>3, <3>4
    <2> QED
      BY <1>1, <2>1, <2>2, <2>3
  <1>4. OneTracker(c)
    <2> SUFFICES ASSUME config.async, NEW k \in 1 .. Len(c), NEW j \in 1 .. Len(c), k < j,
                        c[k].op \in {"poll", "flush", "rampup", "tracker"}, c[j].op = "tracker"
                 PROVE  FALSE
      BY DEF OneTracker
    <2>1. j \in 1 .. Len(a) /\ c[j] = a[j]
      BY <1>2 DEF Built, NoTracker
    <2>2. k \in 1 .. Len(a) /\ c[k] = a[k]
      BY <1>1, <2>1
    <2> QED
      BY <2>1, <2>2 DEF TodoOf, OneTracker
  <1>5. \A k \in 1 .. Len(c) : StepOf(c[k], i)
    BY <1>2 DEF Built, TodoOf
  <1>6. ASSUME Built(a, i) PROVE Fresh(c) /\ (config.async => NoTracker(c))
    <2>1. config.async => NoTracker(c)
      BY <1>2, <1>6 DEF Built, NoTracker
    <2>2. Fresh(c)
      <3>1. CASE a = <<>>
        BY <3>1 DEF c, Built
      <3>2. CASE a # <<>>
        <4>1. 1 \in 1 .. Len(a)
          BY <3>2
        <4>2. c[1] = a[1]
          BY <1>1, <4>1
        <4> QED
          BY <1>6, <3>2, <4>2 DEF Built, Fresh
      <3> QED
        BY <3>1, <3>2
    <2> QED
      BY <2>1, <2>2
  <1> QED
    BY <1>3, <1>4, <1>5, <1>6 DEF Built, TodoOf, c

-----------------------------------------------------------------------------
(* The lists of steps that the loop makes.                                 *)

\* Operations on one checkpoint, one after the other.
LinkedOps(ops) ==
    \A k \in 1 .. Len(ops) :
        k + 1 <= Len(ops) /\ ops[k + 1] \in Later => <<ops[k], ops[k + 1]>> \in Links
GoingOn(ops) ==
    \A k \in 1 .. Len(ops) : ops[k] \in Going => k + 1 <= Len(ops) /\ ops[k + 1] \in UnderWay

LEMMA OpsBuilt ==
    ASSUME NEW ops \in Seq(LoopOps), NEW ckpt \in Names, NEW i \in Nat,
           LinkedOps(ops), GoingOn(ops),
           ops # <<>> => ops[1] \notin Later,
           \A k \in 1 .. Len(ops) :
                /\ ops[k] \in {"mkdir", "schedule", "tracker"} => ckpt[2] = i /\ i > 0 /\ (ckpt[1] = "np" => config.np # 0)
                /\ ops[k] = "schedule" => config.async
                /\ ops[k] = "tracker" => ~config.async
    PROVE  Built(Ops(ops, ckpt), i)
  <1> DEFINE todo == Ops(ops, ckpt)
  <1>1. /\ Len(todo) = Len(ops) /\ Len(ops) \in Nat
        /\ \A k \in 1 .. Len(ops) : todo[k].op = ops[k] /\ todo[k].ckpt = ckpt
    BY DEF Ops, Todo
  <1> HIDE DEF todo
  <1>2. Chained(todo)
    <2> SUFFICES ASSUME NEW k \in 1 .. Len(ops)
                 PROVE  /\ k + 1 <= Len(ops) => Linked(todo[k], todo[k + 1])
                        /\ todo[k].op \in Going => k + 1 <= Len(ops) /\ todo[k + 1].op \in UnderWay
      BY <1>1 DEF Chained
    <2>1. k + 1 <= Len(ops) => k + 1 \in 1 .. Len(ops)
      BY <1>1
    <2> QED
      BY <1>1, <2>1 DEF Linked, LinkedOps, GoingOn
  <1>3. \A k \in 1 .. Len(todo) : StepOf(todo[k], i)
    BY <1>1 DEF StepOf
  <1>4. config.async => NoTracker(todo)
    BY <1>1 DEF NoTracker
  <1>5. OneTracker(todo)
    BY <1>4 DEF OneTracker, NoTracker
  <1>6. Fresh(todo)
    <2> SUFFICES ASSUME todo # <<>> PROVE todo[1].op \notin Later
      BY DEF Fresh
    <2>1. ops # <<>>
      BY DEF todo, Ops
    <2>2. 1 \in 1 .. Len(ops)
      BY <2>1
    <2> QED
      BY <1>1, <2>1, <2>2
  <1> QED
    BY <1>2, <1>3, <1>4, <1>5, <1>6 DEF Built, TodoOf, todo

LEMMA OpsForm ==
    ASSUME NEW ops \in Seq(LoopOps), NEW ckpt \in Names
    PROVE  Ops(ops, ckpt) \in Seq([op : LoopOps, ckpt : Names])
  <1>1. \A k \in 1 .. Len(ops) : Todo(ops[k], ckpt) \in [op : LoopOps, ckpt : Names]
    BY DEF Todo
  <1>2. Ops(ops, ckpt) = [k \in 1 .. Len(ops) |-> Todo(ops[k], ckpt)] /\ Len(ops) \in Nat
    BY DEF Ops
  <1> QED
    BY <1>1, <1>2

LEMMA JoinLinked ==
    ASSUME NEW a \in Seq(LoopOps), NEW b \in Seq(LoopOps), LinkedOps(a), LinkedOps(b), a # <<>>,
           <<a[Len(a)], b[1]>> \in Links
    PROVE  LinkedOps(a \o b)
  <1> DEFINE c == a \o b
  <1>1. /\ Len(a) \in Nat /\ Len(a) >= 1 /\ Len(b) \in Nat /\ Len(c) = Len(a) + Len(b)
        /\ \A k \in 1 .. Len(a) : c[k] = a[k]
        /\ \A k \in 1 .. Len(b) : c[Len(a) + k] = b[k]
    OBVIOUS
  <1> HIDE DEF c
  <1>2. LinkedOps(c)
    <2> SUFFICES ASSUME NEW k \in 1 .. Len(c), k + 1 <= Len(c), c[k + 1] \in Later
                 PROVE  <<c[k], c[k + 1]>> \in Links
      BY DEF LinkedOps
    <2>1. CASE k + 1 <= Len(a)
      <3>1. k \in 1 .. Len(a) /\ k + 1 \in 1 .. Len(a)
        BY <1>1, <2>1
      <3> QED
        BY <1>1, <2>1, <3>1 DEF LinkedOps
    <2>2. CASE k = Len(a)
      <3>1. 1 \in 1 .. Len(b) /\ k \in 1 .. Len(a)
        BY <1>1, <2>2
      <3> QED
        BY <1>1, <2>2, <3>1
    <2>3. CASE k > Len(a)
      <3>1. /\ k - Len(a) \in 1 .. Len(b) /\ (k - Len(a)) + 1 \in 1 .. Len(b)
            /\ k = Len(a) + (k - Len(a)) /\ k + 1 = Len(a) + ((k - Len(a)) + 1)
        BY <1>1, <2>3
      <3>2. c[Len(a) + (k - Len(a))] = b[k - Len(a)] /\ c[Len(a) + ((k - Len(a)) + 1)] = b[(k - Len(a)) + 1]
        BY <1>1, <3>1
      <3>3. <<b[k - Len(a)], b[(k - Len(a)) + 1]>> \in Links
        BY <1>1, <3>1, <3>2 DEF LinkedOps
      <3> QED
        BY <3>1, <3>2, <3>3
    <2> QED
      BY <1>1, <2>1, <2>2, <2>3
  <1> QED
    BY <1>2 DEF c

\* The operations of a save, up to common.pt and from there on.
LEMMA FirstOps ==
    ASSUME NEW np \in BOOLEAN
    PROVE  LET ops == (IF np THEN <<"cleanup">> ELSE <<>>) \o <<"mkdir", "common">>
           IN  /\ ops \in Seq(LoopOps) /\ LinkedOps(ops) /\ ops # <<>>
               /\ ops[1] \in {"cleanup", "mkdir"} /\ ops[Len(ops)] = "common"
               /\ \A k \in 1 .. Len(ops) : /\ ops[k] \notin {"schedule", "tracker"}
                                           /\ (ops[k] \in Going /\ k # Len(ops)) =>
                                                k + 1 <= Len(ops) /\ ops[k + 1] \in UnderWay
  <1> DEFINE ops == (IF np THEN <<"cleanup">> ELSE <<>>) \o <<"mkdir", "common">>
  <1>1. CASE np
    <2>1. /\ ops \in Seq(LoopOps) /\ Len(ops) = 3
          /\ ops[1] = "cleanup" /\ ops[2] = "mkdir" /\ ops[3] = "common"
      BY <1>1 DEF LoopOps, SaveOps
    <2> HIDE DEF ops
    <2>2. \A k \in 1 .. Len(ops) : k = 1 \/ k = 2 \/ k = 3
      BY <2>1
    <2>3. LinkedOps(ops)
      BY <2>1, <2>2 DEF LinkedOps, Links, Later, UnderWay
    <2> QED
      BY <2>1, <2>2, <2>3 DEF ops, Going, UnderWay
  <1>2. CASE ~np
    <2>1. /\ ops \in Seq(LoopOps) /\ Len(ops) = 2 /\ ops[1] = "mkdir" /\ ops[2] = "common"
      BY <1>2 DEF LoopOps, SaveOps
    <2> HIDE DEF ops
    <2>2. \A k \in 1 .. Len(ops) : k = 1 \/ k = 2
      BY <2>1
    <2>3. LinkedOps(ops)
      BY <2>1, <2>2 DEF LinkedOps, Links
    <2> QED
      BY <2>1, <2>2, <2>3 DEF ops, Going, UnderWay
  <1> QED
    BY <1>1, <1>2

LEMMA LastOps ==
    ASSUME NEW async \in BOOLEAN
    PROVE  LET ops == IF async THEN <<"schedule">> ELSE <<"write">> \o Finalization
           IN  /\ ops \in Seq(LoopOps) /\ LinkedOps(ops) /\ GoingOn(ops) /\ ops # <<>>
               /\ ops[1] \in {"schedule", "write"}
               /\ \A k \in 1 .. Len(ops) : /\ ops[k] \in Later /\ (ops[k] = "schedule" => async)
                                           /\ (ops[k] = "tracker" => ~async)
  <1> DEFINE ops == IF async THEN <<"schedule">> ELSE <<"write">> \o Finalization
  <1>1. CASE async
    <2>1. /\ ops \in Seq(LoopOps) /\ Len(ops) = 1 /\ ops[1] = "schedule"
      BY <1>1 DEF LoopOps, SaveOps
    <2> HIDE DEF ops
    <2>2. \A k \in 1 .. Len(ops) : k = 1
      BY <2>1
    <2>3. LinkedOps(ops)
      BY <2>1, <2>2 DEF LinkedOps
    <2>4. GoingOn(ops)
      BY <2>1, <2>2 DEF GoingOn, Going
    <2> QED
      BY <1>1, <2>1, <2>2, <2>3, <2>4 DEF ops, Later, UnderWay
  <1>2. CASE ~async
    <2>1. /\ ops \in Seq(LoopOps) /\ Len(ops) = 4
          /\ ops[1] = "write" /\ ops[2] = ".metadata" /\ ops[3] = "metadata.json" /\ ops[4] = "tracker"
      BY <1>2 DEF LoopOps, SaveOps, Finalization
    <2> HIDE DEF ops
    <2>2. \A k \in 1 .. Len(ops) : k = 1 \/ k = 2 \/ k = 3 \/ k = 4
      BY <2>1
    <2>3. LinkedOps(ops)
      BY <2>1, <2>2 DEF LinkedOps, Links
    <2>4. GoingOn(ops)
      BY <2>1, <2>2 DEF GoingOn, Going, UnderWay
    <2> QED
      BY <1>2, <2>1, <2>2, <2>3, <2>4 DEF ops, Later, UnderWay
  <1> QED
    BY <1>1, <1>2

\* A save of iteration i, from its cleanup to its tracker.
LEMMA SaveStepsBuilt ==
    ASSUME NEW kind \in Kinds, NEW i \in Nat, i > 0, kind = "np" => config.np # 0, config.async \in BOOLEAN
    PROVE  /\ SaveSteps(<<kind, i>>) \in Seq([op : LoopOps, ckpt : Names])
           /\ Built(SaveSteps(<<kind, i>>), i)
  <1> DEFINE first == (IF kind = "np" THEN <<"cleanup">> ELSE <<>>) \o <<"mkdir", "common">>
             last == IF config.async THEN <<"schedule">> ELSE <<"write">> \o Finalization
             ops == first \o last
             ckpt == <<kind, i>>
  <1>1. SaveSteps(ckpt) = Ops(ops, ckpt)
    BY DEF SaveSteps
  <1>2. /\ first \in Seq(LoopOps) /\ LinkedOps(first) /\ first # <<>>
        /\ first[1] \in {"cleanup", "mkdir"} /\ first[Len(first)] = "common"
        /\ \A k \in 1 .. Len(first) : /\ first[k] \notin {"schedule", "tracker"}
                                      /\ (first[k] \in Going /\ k # Len(first)) =>
                                            k + 1 <= Len(first) /\ first[k + 1] \in UnderWay
    BY FirstOps
  <1>3. /\ last \in Seq(LoopOps) /\ LinkedOps(last) /\ GoingOn(last) /\ last # <<>>
        /\ last[1] \in {"schedule", "write"}
        /\ \A k \in 1 .. Len(last) : /\ last[k] \in Later /\ (last[k] = "schedule" => config.async)
                                     /\ (last[k] = "tracker" => ~config.async)
    BY LastOps
  <1>4. ckpt \in Names /\ ckpt[1] = kind /\ ckpt[2] = i
    BY DEF Names
  <1> HIDE DEF first, last, ckpt
  <1>5. ops \in Seq(LoopOps) /\ LinkedOps(ops)
    BY <1>2, <1>3, JoinLinked DEF Links
  <1>6. /\ ops # <<>> /\ ops[1] \notin Later /\ GoingOn(ops)
        /\ \A k \in 1 .. Len(ops) : (ops[k] = "schedule" => config.async) /\ (ops[k] = "tracker" => ~config.async)
    <2>1. /\ Len(first) \in Nat /\ Len(first) >= 1 /\ Len(last) \in Nat
          /\ Len(ops) = Len(first) + Len(last)
          /\ \A k \in 1 .. Len(first) : ops[k] = first[k]
          /\ \A k \in 1 .. Len(last) : ops[Len(first) + k] = last[k]
      BY <1>2, <1>3
    <2> HIDE DEF ops
    <2>2. \A k \in 1 .. Len(ops) : \/ k \in 1 .. Len(first) /\ ops[k] = first[k]
                                   \/ k - Len(first) \in 1 .. Len(last) /\ ops[k] = last[k - Len(first)]
      <3> SUFFICES ASSUME NEW k \in 1 .. Len(ops), k > Len(first)
                   PROVE  k - Len(first) \in 1 .. Len(last) /\ ops[k] = last[k - Len(first)]
        BY <2>1
      <3>1. k - Len(first) \in 1 .. Len(last) /\ k = Len(first) + (k - Len(first))
        BY <2>1
      <3> QED
        BY <2>1, <3>1
    <2>3. 1 \in 1 .. Len(first) /\ Len(ops) > 0
      BY <2>1
    <2>4. ops # <<>> /\ ops[1] = first[1]
      BY <2>1, <2>3
    <2>5. GoingOn(ops)
      <3> SUFFICES ASSUME NEW k \in 1 .. Len(ops), ops[k] \in Going
                   PROVE  k + 1 <= Len(ops) /\ ops[k + 1] \in UnderWay
        BY DEF GoingOn
      <3>1. CASE k \in 1 .. Len(first) /\ ops[k] = first[k]
        <4>1. CASE k = Len(first)
          <5>1. 1 \in 1 .. Len(last)
            BY <1>3
          <5> QED
            BY <1>3, <2>1, <4>1, <5>1 DEF UnderWay
        <4>2. CASE k # Len(first)
          <5>1. k + 1 <= Len(first) /\ first[k + 1] \in UnderWay
            BY <1>2, <3>1, <4>2
          <5>2. k + 1 \in 1 .. Len(first)
            BY <2>1, <5>1
          <5> QED
            BY <2>1, <5>1, <5>2
        <4> QED
          BY <4>1, <4>2
      <3>2. CASE k - Len(first) \in 1 .. Len(last) /\ ops[k] = last[k - Len(first)]
        <4>1. (k - Len(first)) + 1 \in 1 .. Len(last) /\ last[(k - Len(first)) + 1] \in UnderWay
          BY <1>3, <2>1, <3>2 DEF GoingOn
        <4>2. Len(first) + ((k - Len(first)) + 1) = k + 1
          BY <2>1
        <4>3. ops[Len(first) + ((k - Len(first)) + 1)] = last[(k - Len(first)) + 1]
          BY <2>1, <4>1
        <4> QED
          BY <2>1, <4>1, <4>2, <4>3
      <3> QED
        BY <2>2, <3>1, <3>2
    <2> QED
      BY <1>2, <1>3, <2>2, <2>4, <2>5 DEF Later, UnderWay
  <1> HIDE DEF ops
  <1>7. Built(Ops(ops, ckpt), i)
    BY <1>4, <1>5, <1>6, OpsBuilt
  <1>8. Ops(ops, ckpt) \in Seq([op : LoopOps, ckpt : Names])
    BY <1>4, <1>5, OpsForm
  <1> QED
    BY <1>1, <1>7, <1>8 DEF ckpt

\* What the loop does besides saving.
LEMMA LoopOpsBuilt ==
    ASSUME NEW i \in Nat, NEW ops \in {<<"flush">>, <<"flush", "done">>, <<"flush", "exit">>,
                                       <<"poll", "rampup", "train">>}
    PROVE  Ops(ops, NoCkpt) \in Seq([op : LoopOps, ckpt : Names]) /\ Built(Ops(ops, NoCkpt), i)
  <1>1. NoCkpt \in Names
    BY DEF NoCkpt, Names, Kinds
  <1>2. /\ ops \in Seq(LoopOps) /\ ops # <<>> /\ ops[1] \in {"flush", "poll"} /\ LinkedOps(ops)
        /\ GoingOn(ops) /\ \A k \in 1 .. Len(ops) : ops[k] \notin {"mkdir", "schedule", "tracker"}
    <2>1. CASE ops = <<"flush">>
      BY <2>1 DEF LinkedOps, LoopOps, GoingOn, Going
    <2>2. CASE ops = <<"flush", "done">> \/ ops = <<"flush", "exit">>
      <3>1. /\ Len(ops) = 2 /\ ops[1] = "flush" /\ ops[2] \in {"done", "exit"}
            /\ ops \in Seq(LoopOps)
        <4>1. CASE ops = <<"flush", "done">>
          BY <4>1 DEF LoopOps
        <4>2. CASE ops = <<"flush", "exit">>
          BY <4>2 DEF LoopOps
        <4> QED
          BY <2>2, <4>1, <4>2
      <3>2. \A k \in 1 .. Len(ops) : k = 1 \/ k = 2
        BY <3>1
      <3>3. LinkedOps(ops)
        BY <3>1, <3>2 DEF LinkedOps, Links
      <3>4. \A k \in 1 .. Len(ops) : ops[k] \notin {"mkdir", "schedule", "tracker"} /\ ops[k] \notin Going
        BY <3>1, <3>2 DEF Going
      <3>5. GoingOn(ops)
        BY <3>4 DEF GoingOn
      <3> QED
        BY <3>1, <3>3, <3>4, <3>5
    <2>3. CASE ops = <<"poll", "rampup", "train">>
      <3>1. /\ Len(ops) = 3 /\ ops[1] = "poll" /\ ops[2] = "rampup" /\ ops[3] = "train"
            /\ ops \in Seq(LoopOps)
        BY <2>3 DEF LoopOps
      <3>2. \A k \in 1 .. Len(ops) : k = 1 \/ k = 2 \/ k = 3
        BY <3>1
      <3>3. LinkedOps(ops)
        BY <3>1, <3>2 DEF LinkedOps, Links, Later, UnderWay
      <3>4. \A k \in 1 .. Len(ops) : ops[k] \notin {"mkdir", "schedule", "tracker"} /\ ops[k] \notin Going
        BY <3>1, <3>2 DEF Going
      <3>5. GoingOn(ops)
        BY <3>4 DEF GoingOn
      <3> QED
        BY <3>1, <3>3, <3>4, <3>5
    <2> QED
      BY <2>1, <2>2, <2>3
  <1>3. Built(Ops(ops, NoCkpt), i)
    BY <1>1, <1>2, OpsBuilt DEF Later, UnderWay
  <1>4. Ops(ops, NoCkpt) \in Seq([op : LoopOps, ckpt : Names])
    BY <1>1, <1>2, OpsForm
  <1> QED
    BY <1>3, <1>4

LEMMA NothingBuilt ==
    ASSUME NEW i
    PROVE  <<>> \in Seq([op : LoopOps, ckpt : Names]) /\ Built(<<>>, i)
  BY DEF Built, TodoOf, Chained, OneTracker, Fresh, NoTracker

LEMMA AtEndBuilt ==
    ASSUME NEW i \in Nat, config.async \in BOOLEAN
    PROVE  Built(AtEnd(i), i)
  <1> DEFINE save == IF i # 0 /\ i % config.save # 0 THEN SaveSteps(<<"p", i>>) ELSE <<>>
             S == [op : LoopOps, ckpt : Names]
  <1>1. save \in Seq(S) /\ Built(save, i)
    <2>1. CASE i = 0
      BY <2>1, NothingBuilt
    <2>2. CASE i # 0
      <3>1. i > 0 /\ "p" \in Kinds /\ "p" # "np"
        BY <2>2 DEF Kinds
      <3>2. SaveSteps(<<"p", i>>) \in Seq(S) /\ Built(SaveSteps(<<"p", i>>), i)
        BY <3>1, SaveStepsBuilt
      <3> QED
        BY <3>2, NothingBuilt
    <2> QED
      BY <2>1, <2>2
  <1>2. AtEnd(i) = (Ops(<<"flush">>, NoCkpt) \o save) \o Ops(<<"flush", "done">>, NoCkpt)
    BY DEF AtEnd
  <1> HIDE DEF save, S
  <1>3. /\ Ops(<<"flush">>, NoCkpt) \in Seq(S) /\ Built(Ops(<<"flush">>, NoCkpt), i)
        /\ Ops(<<"flush", "done">>, NoCkpt) \in Seq(S) /\ Built(Ops(<<"flush", "done">>, NoCkpt), i)
    BY LoopOpsBuilt DEF S
  <1> DEFINE first == Ops(<<"flush">>, NoCkpt) \o save
  <1>4. first \in Seq(S) /\ Built(first, i)
    BY <1>1, <1>3, JoinOf, Concatenation DEF Built
  <1> HIDE DEF first
  <1>5. Built(first \o Ops(<<"flush", "done">>, NoCkpt), i)
    BY <1>3, <1>4, JoinOf DEF Built
  <1> QED
    BY <1>2, <1>5 DEF first

LEMMA AfterIterationBuilt ==
    ASSUME NEW i \in Nat, i > 0, NEW signal \in BOOLEAN, config.async \in BOOLEAN
    PROVE  Built(AfterIteration(i, signal), i)
  <1> DEFINE due == IF i % config.save = 0 THEN SaveSteps(<<"p", i>>)
                    ELSE IF config.np # 0 /\ i % config.np = 0 THEN SaveSteps(<<"np", i>>)
                    ELSE <<>>
             exit == Ops(<<"flush", "exit">>, NoCkpt)
             save == SaveSteps(<<"p", i>>)
             S == [op : LoopOps, ckpt : Names]
  <1>1. save \in Seq(S) /\ Built(save, i)
    BY SaveStepsBuilt DEF Kinds
  <1>2. due \in Seq(S) /\ Built(due, i)
    <2>1. CASE config.np # 0
      BY <1>1, <2>1, NothingBuilt, SaveStepsBuilt DEF Kinds
    <2>2. CASE config.np = 0
      BY <1>1, <2>2, NothingBuilt
    <2> QED
      BY <2>1, <2>2
  <1>3. exit \in Seq(S) /\ Built(exit, i)
    BY LoopOpsBuilt
  <1>4. AfterIteration(i, signal) \in {due, save \o exit, due \o exit}
    BY DEF AfterIteration
  <1> HIDE DEF due, exit, save, S
  <1>5. Built(save \o exit, i) /\ Built(due \o exit, i)
    BY <1>1, <1>2, <1>3, JoinOf DEF Built
  <1> QED
    BY <1>2, <1>4, <1>5

-----------------------------------------------------------------------------
(* What the steps do to the disk.                                          *)

\* Files are written in the directory of a checkpoint, if it is there.
Wrote(ckpt, fs) ==
    /\ DOMAIN disk'.dirs = DOMAIN disk.dirs /\ disk'.tracker = disk.tracker
    /\ \A k \in DOMAIN disk.dirs \ {ckpt} : disk'.dirs[k].files = disk.dirs[k].files
    /\ ckpt \in DOMAIN disk.dirs =>
        /\ DOMAIN disk'.dirs[ckpt].files = DOMAIN disk.dirs[ckpt].files \cup fs
        /\ \A f \in DOMAIN disk.dirs[ckpt].files \cup fs :
              disk'.dirs[ckpt].files[f] = IF f \in fs THEN job.start ELSE disk.dirs[ckpt].files[f]

\* The directory has no file of an earlier start.
Own(ckpt) ==
    Exists(ckpt) /\ \A f \in DOMAIN disk.dirs[ckpt].files : disk.dirs[ckpt].files[f] = job.start

LEMMA WithFilesWrote ==
    ASSUME DiskForm, NEW ckpt, NEW fs, disk' = WithFiles(ckpt, fs)
    PROVE  Wrote(ckpt, fs)
  <1> DEFINE old == disk.dirs[ckpt].files
             files == [g \in DOMAIN old \cup fs |-> IF g \in fs THEN job.start ELSE old[g]]
  <1>1. disk' = [disk EXCEPT !.dirs[ckpt].files = files]
    BY DEF WithFiles
  <1>2. /\ DOMAIN files = DOMAIN old \cup fs
        /\ \A g \in DOMAIN old \cup fs : files[g] = IF g \in fs THEN job.start ELSE old[g]
    OBVIOUS
  <1> HIDE DEF files
  <1>3. disk'.tracker = disk.tracker
    BY <1>1 DEF DiskForm
  <1>4. /\ DOMAIN disk'.dirs = DOMAIN disk.dirs
        /\ \A k \in DOMAIN disk.dirs :
                disk'.dirs[k].files = IF k = ckpt THEN files ELSE disk.dirs[k].files
    BY <1>1, FilesChange
  <1> QED
    BY <1>2, <1>3, <1>4 DEF Wrote

LEMMA NothingWrote ==
    ASSUME NEW ckpt, UNCHANGED disk
    PROVE  Wrote(ckpt, {})
  BY DEF Wrote

LEMMA SaveCommonWrote ==
    ASSUME DiskForm, SaveCommon
    PROVE  Wrote(Ckpt, {Common})
  <1> DEFINE old == disk.dirs[Ckpt].files
             files == [g \in DOMAIN old \cup {Common} |-> IF g = Common THEN job.start ELSE old[g]]
  <1>1. Exists(Ckpt) /\ disk' = [[disk EXCEPT !.dirs[Ckpt].files = files] EXCEPT !.dirs[Ckpt].args = job.consumed]
    BY DEF SaveCommon, WithFile
  <1>2. /\ DOMAIN files = DOMAIN old \cup {Common}
        /\ \A g \in DOMAIN old \cup {Common} : files[g] = IF g \in {Common} THEN job.start ELSE old[g]
    OBVIOUS
  <1> HIDE DEF files
  <1>3. /\ disk'.tracker = disk.tracker
        /\ disk'.dirs = [disk.dirs EXCEPT ![Ckpt] =
                            [[disk.dirs[Ckpt] EXCEPT !.files = files] EXCEPT !.args = job.consumed]]
    BY <1>1 DEF DiskForm, Exists
  <1>4. disk.dirs[Ckpt] = [files |-> disk.dirs[Ckpt].files, args |-> disk.dirs[Ckpt].args]
    BY <1>1 DEF DiskForm, Exists
  <1>5. [disk.dirs[Ckpt] EXCEPT !.files = files] = [files |-> files, args |-> disk.dirs[Ckpt].args]
    BY <1>4, NewFiles
  <1>6. [[disk.dirs[Ckpt] EXCEPT !.files = files] EXCEPT !.args = job.consumed]
            = [files |-> files, args |-> job.consumed]
    <2> DEFINE dir == [disk.dirs[Ckpt] EXCEPT !.files = files]
    <2>1. dir = [files |-> files, args |-> disk.dirs[Ckpt].args]
      BY <1>5
    <2> HIDE DEF dir
    <2>2. [dir EXCEPT !.args = job.consumed] = [files |-> files, args |-> job.consumed]
      BY <2>1, NewArgs
    <2> QED
      BY <2>2 DEF dir
  <1>7. /\ DOMAIN disk'.dirs = DOMAIN disk.dirs
        /\ \A k \in DOMAIN disk.dirs : k # Ckpt => disk'.dirs[k] = disk.dirs[k]
        /\ disk'.dirs[Ckpt] = [files |-> files, args |-> job.consumed]
    BY <1>1, <1>3, <1>6 DEF Exists
  <1> QED
    BY <1>2, <1>3, <1>7 DEF Wrote

\* What writing leaves as it was, and what it adds.
LEMMA WroteKeeps ==
    ASSUME NEW ckpt, NEW fs, Wrote(ckpt, fs), job'.start = job.start
    PROVE  /\ \A k : Exists(k)' <=> Exists(k)
           /\ \A k : Newest(k)' <=> Newest(k)
           /\ \A k : Kept(k)' <=> Kept(k)
           /\ \A k, gs : Holds(k, gs) => Holds(k, gs)'
           /\ \A gs : Holds(ckpt, gs) => Holds(ckpt, gs \cup fs)'
  <1>1. \A k : Exists(k)' <=> Exists(k)
    BY DEF Wrote, Exists
  <1>2. \A k : Newest(k)' <=> Newest(k)
    BY DEF Wrote, Newest
  <1>3. \A k : Kept(k)' <=> Kept(k)
    BY <1>2 DEF Kept
  <1>4. \A gs : Holds(ckpt, gs) => Holds(ckpt, gs \cup fs)'
    BY <1>1 DEF Wrote, Holds, Exists
  <1>5. ASSUME NEW k, NEW gs, Holds(k, gs) PROVE Holds(k, gs)'
    <2>1. CASE k = ckpt
      BY <1>4, <1>5, <2>1 DEF Holds
    <2>2. CASE k # ckpt
      BY <1>1, <1>5, <2>2 DEF Wrote, Holds, Exists
    <2> QED
      BY <2>1, <2>2
  <1> QED
    BY <1>1, <1>2, <1>3, <1>4, <1>5

LEMMA WroteFiles ==
    ASSUME FilesInv, NEW ckpt, NEW fs \in SUBSET Files, Wrote(ckpt, fs), job'.start = job.start,
           UNCHANGED config, ckpt[1] = "p" /\ Exists(ckpt) => Own(ckpt)
    PROVE  FilesInv'
  <1> SUFFICES ASSUME NEW k \in DOMAIN disk'.dirs
               PROVE  /\ DOMAIN disk'.dirs[k].files \subseteq Files
                      /\ k[1] = "p" => \A f, g \in DOMAIN disk'.dirs[k].files :
                                          disk'.dirs[k].files[f] = disk'.dirs[k].files[g]
                      /\ Np(k) => config.np # 0
    BY DEF FilesInv, Np, Files, Shard, Common, Metadata, Marker
  <1>1. k \in DOMAIN disk.dirs
    BY DEF Wrote
  <1>2. CASE k # ckpt
    BY <1>1, <1>2 DEF Wrote, FilesInv
  <1>3. CASE k = ckpt
    <2>1. DOMAIN disk'.dirs[k].files \subseteq Files /\ (Np(k) => config.np # 0)
      BY <1>1, <1>3 DEF Wrote, FilesInv
    <2>2. ASSUME k[1] = "p" PROVE \A f \in DOMAIN disk'.dirs[k].files : disk'.dirs[k].files[f] = job.start
      BY <1>1, <1>3, <2>2 DEF Wrote, Own, Exists
    <2> QED
      BY <2>1, <2>2
  <1> QED
    BY <1>2, <1>3

\* A whole directory stays whole.
LEMMA WroteWhole ==
    ASSUME FilesInv, NEW ckpt, NEW fs \in SUBSET Files, Wrote(ckpt, fs), job.start # 0,
           NEW k \in DOMAIN disk.dirs, Whole(disk.dirs[k])
    PROVE  Whole(disk.dirs[k])'
  <1>1. CASE k # ckpt
    BY <1>1 DEF Wrote, Whole, Files, Shard, Common, Metadata, Marker
  <1>2. CASE k = ckpt
    <2>1. DOMAIN disk'.dirs[k].files = Files
      BY <1>2 DEF Wrote, Whole
    <2>2. \A f \in Files : disk'.dirs[k].files[f] # 0
      BY <1>2, <2>1 DEF Wrote, Whole
    <2> QED
      BY <2>1, <2>2 DEF Whole, Files, Shard, Common, Metadata, Marker
  <1> QED
    BY <1>1, <1>2

LEMMA WroteTracker ==
    ASSUME FilesInv, FilesInv', NEW ckpt, NEW fs \in SUBSET Files, Wrote(ckpt, fs), job.start # 0
    PROVE  /\ TrackerComplete => TrackerComplete'
           /\ Settled => Settled'
  <1>1. ASSUME TrackerComplete, disk.tracker["p"] > 0
        PROVE  TrackerComplete'
    <2> DEFINE k == <<"p", disk.tracker["p"]>>
    <2>1. k \in DOMAIN disk.dirs /\ Whole(disk.dirs[k])
      BY <1>1 DEF TrackerComplete, Exists
    <2>2. k \in DOMAIN disk'.dirs /\ Whole(disk.dirs[k])' /\ k = <<"p", disk'.tracker["p"]>>
      BY <2>1, WroteWhole DEF Wrote
    <2>3. \A f, g \in DOMAIN disk'.dirs[k].files : disk'.dirs[k].files[f] = disk'.dirs[k].files[g]
      BY <2>2 DEF FilesInv
    <2>4. DOMAIN disk'.dirs[k].files = Files
      BY <2>2 DEF Whole, Files, Shard, Common, Metadata, Marker
    <2> QED
      BY <2>2, <2>3, <2>4 DEF TrackerComplete, Exists, Whole, Files, Shard, Common, Metadata, Marker
  <1>2. ~(disk.tracker["p"] > 0) => TrackerComplete'
    BY DEF TrackerComplete, Wrote
  <1>3. ASSUME Settled PROVE Settled'
    <2>1. CASE disk.tracker["np"] = None /\ \A k \in DOMAIN disk.dirs : ~Np(k)
      BY <2>1 DEF Settled, Wrote
    <2>2. CASE ~(disk.tracker["np"] = None /\ \A k \in DOMAIN disk.dirs : ~Np(k))
      <3> DEFINE k == <<"np", disk.tracker["np"]>>
      <3>1. disk.tracker["np"] > 0 /\ k \in DOMAIN disk.dirs /\ Whole(disk.dirs[k]) /\ Newest(k)
        BY <1>3, <2>2 DEF Settled, Exists
      <3>2. k \in DOMAIN disk'.dirs /\ Whole(disk.dirs[k])' /\ k = <<"np", disk'.tracker["np"]>>
        BY <3>1, WroteWhole DEF Wrote
      <3>3. Newest(k)'
        BY <3>1 DEF Wrote, Newest
      <3> QED
        BY <3>1, <3>2, <3>3 DEF Settled, Exists, Wrote
    <2> QED
      BY <2>1, <2>2
  <1> QED
    BY <1>1, <1>2, <1>3

-----------------------------------------------------------------------------
(* Every action preserves the invariant.                                   *)

\* The parts that a step leaves alone when it changes nothing they speak of.
LEMMA RemovingKept ==
    ASSUME RemovingInv, DOMAIN disk'.dirs = DOMAIN disk.dirs, removing' \in SUBSET removing
    PROVE  RemovingInv'
  BY DEF RemovingInv, Np

LEMMA FilesSame ==
    ASSUME UNCHANGED disk
    PROVE  /\ FilesInv /\ UNCHANGED config => FilesInv'
           /\ TrackerComplete => TrackerComplete'
           /\ Settled => Settled'
  <1>1. FilesInv /\ UNCHANGED config => FilesInv'
    BY DEF FilesInv, Np, Files, Shard, Common, Metadata, Marker
  <1>2. TrackerComplete => TrackerComplete'
    BY DEF TrackerComplete, Exists, Whole, Files, Shard, Common, Metadata, Marker
  <1>3. Settled => Settled'
    BY DEF Settled, Exists, Whole, Newest, Np, Files, Shard, Common, Metadata, Marker
  <1> QED
    BY <1>1, <1>2, <1>3

LEMMA Configured ==
    ASSUME config \in Configs
    PROVE  config \in ConfigType /\ config.async \in BOOLEAN
  BY ConfigsAssumption DEF ConfigType

LEMMA TrackerSet ==
    ASSUME NEW tracker \in [Kinds -> Int], NEW kind, NEW i \in Int
    PROVE  /\ [tracker EXCEPT ![kind] = i] \in [Kinds -> Int]
           /\ \A other \in Kinds : [tracker EXCEPT ![kind] = i][other] = IF other = kind THEN i ELSE tracker[other]
  OBVIOUS

LEMMA CallOf ==
    ASSUME IInv, NEW k \in 1 .. Len(calls)
    PROVE  calls[k] \in Call /\ calls[k].ckpt \in Names /\ calls[k].ckpt[2] \in Nat
  <1>1. calls[k] \in Call
    BY DEF IInv, CallsForm
  <1>2. calls[k].ckpt \in Names
    BY <1>1 DEF Call
  <1> QED
    BY <1>1, <1>2 DEF Names

\* The job ends: there is nothing left to do, and what is on disk is what it
\* was unless a save was under way.
LEMMA EndsTracker ==
    ASSUME IInv, TInv, NEW state, state # "up", NEW left \in LeftBehind, End(state, left),
           ~hit' => ~hit /\ ~Saving
    PROVE  TInv'
  <1>1. /\ job' = [job EXCEPT !.state = state, !.todo = <<>>] /\ config' = config
        /\ calls' = <<>> /\ removing' = {} /\ disk' = left
    BY DEF End
  <1>2. job'.state = state /\ job'.todo = <<>> /\ job'.start = job.start /\ job'.iter = job.iter
    BY <1>1 DEF IInv, JobForm
  <1>3. ~Loading'
    BY <1>2 DEF Loading
  <1>4. config' \in Configs /\ UpInv' /\ TodoInv' /\ HeadInv' /\ CallsInv' /\ RemovingInv'
    <2>1. config' \in Configs
      BY <1>1 DEF TInv
    <2>2. UpInv'
      BY <1>1, <1>2, <1>3 DEF TInv, UpInv
    <2>3. TodoInv'
      BY <1>2 DEF TodoInv, TodoOf, Chained, OneTracker
    <2>4. HeadInv'
      BY <1>2 DEF HeadInv
    <2>5. CallsInv' /\ RemovingInv'
      BY <1>1 DEF CallsInv, RemovingInv
    <2> QED
      BY <2>1, <2>2, <2>3, <2>4, <2>5
  <1>5. CASE left = disk
    <2>1. UNCHANGED disk
      BY <1>1, <1>5
    <2>2. FilesInv' /\ TrackerComplete'
      BY <1>1, <2>1, FilesSame DEF TInv
    <2>3. OrderInv'
      BY <1>1, <1>2, <2>1 DEF TInv, OrderInv
    <2>4. NpInv'
      <3> SUFFICES ASSUME ~hit' PROVE NpInv'
        BY DEF NpInv
      <3>1. ~hit /\ calls = <<>> /\ ~(job.state = "up" /\ job.todo # <<>> /\ Head(job.todo).op \in UnderWay)
        BY DEF Saving, Doing, UnderWay
      <3>2. \A ckpt : ~Pending(ckpt)
        <4>1. job.todo # <<>> => job.state = "up"
          BY DEF TInv, UpInv
        <4>2. job.todo # <<>> => Head(job.todo) = job.todo[1]
          OBVIOUS
        <4> QED
          BY <3>1, <4>1, <4>2 DEF Pending
      <3>3. Settled
        BY <3>1, <3>2 DEF TInv, NpInv
      <3>4. \A ckpt : ~Pending(ckpt)'
        BY <1>1, <1>2 DEF Pending
      <3> QED
        BY <1>2, <2>1, <3>1, <3>3, <3>4, FilesSame, <1>3 DEF TInv, NpInv
    <2> QED
      BY <1>4, <2>2, <2>3, <2>4 DEF TInv
  <1>6. CASE Doing("common") /\ Exists(Ckpt) /\ left = [disk EXCEPT !.dirs[Ckpt].files = [f \in {Common} |-> 0]]
    <2>1. hit'
      BY <1>6 DEF Saving
    <2>2. disk' = [disk EXCEPT !.dirs[Ckpt].files = [f \in {Common} |-> 0]]
      BY <1>1, <1>6
    <2>3. /\ DOMAIN disk'.dirs = DOMAIN disk.dirs /\ disk'.tracker = disk.tracker
          /\ \A k \in DOMAIN disk.dirs :
                disk'.dirs[k].files = IF k = Ckpt THEN [f \in {Common} |-> 0] ELSE disk.dirs[k].files
      BY <2>2, FilesChange DEF IInv, DiskForm
    <2>4. FilesInv'
      <3> SUFFICES ASSUME NEW k \in DOMAIN disk'.dirs
                   PROVE  /\ DOMAIN disk'.dirs[k].files \subseteq Files
                          /\ k[1] = "p" => \A f, g \in DOMAIN disk'.dirs[k].files :
                                              disk'.dirs[k].files[f] = disk'.dirs[k].files[g]
                          /\ Np(k) => config.np # 0
        BY <1>1 DEF FilesInv, Np, Files, Shard, Common, Metadata, Marker
      <3>1. Common \in Files
        BY DEF Files
      <3> QED
        BY <2>3, <3>1 DEF TInv, FilesInv
    <2>5. OrderInv'
      BY <1>1, <1>2, <2>3 DEF TInv, OrderInv
    <2>6. TrackerComplete'
      <3> SUFFICES ASSUME disk.tracker["p"] > 0 PROVE TrackerComplete'
        BY <2>3 DEF TrackerComplete
      <3> DEFINE k == <<"p", disk.tracker["p"]>>
      <3>1. k \in DOMAIN disk.dirs /\ Whole(disk.dirs[k]) /\ \A f, g \in Files : disk.dirs[k].files[f] = disk.dirs[k].files[g]
        BY DEF TInv, TrackerComplete, Exists
      <3>2. k # Ckpt
        <4> SUFFICES ASSUME k = Ckpt PROVE FALSE
          OBVIOUS
        <4>1. job.todo # <<>> /\ job.todo[1].op = "common" /\ job.todo[1].ckpt = Ckpt
          BY <1>6 DEF Doing, Ckpt
        <4>2. Kept(Ckpt)
          BY DEF Kept
        <4>3. DOMAIN disk.dirs[Ckpt].files = {}
          BY <4>1, <4>2 DEF TInv, HeadInv, Ready
        <4> QED
          BY <3>1, <4>3 DEF Whole, Files
      <3>3. k \in DOMAIN disk'.dirs /\ disk'.dirs[k].files = disk.dirs[k].files
        BY <2>3, <3>1, <3>2
      <3> QED
        BY <2>3, <3>1, <3>3 DEF TrackerComplete, Exists, Whole, Files, Shard, Common, Metadata, Marker
    <2> QED
      BY <1>4, <2>1, <2>4, <2>5, <2>6 DEF TInv, NpInv
  <1>7. CASE Doing("tracker") /\ left = [disk EXCEPT !.tracker[Ckpt[1]] = Emptied]
    <2>1. hit'
      BY <1>7 DEF Saving
    <2>2. disk'.dirs = disk.dirs /\ disk'.tracker = [disk.tracker EXCEPT ![Ckpt[1]] = Emptied]
      BY <1>1, <1>7 DEF IInv, DiskForm
    <2>3. FilesInv'
      BY <1>1, <2>2 DEF TInv, FilesInv, Np, Files, Shard, Common, Metadata, Marker
    <2>4. /\ disk'.tracker \in [Kinds -> Int]
          /\ \A kind \in Kinds : disk'.tracker[kind] \in {disk.tracker[kind], Emptied}
      <3>1. disk.tracker \in [Kinds -> Int]
        BY DEF TInv, OrderInv
      <3> QED
        BY <2>2, <3>1, TrackerSet DEF Emptied
    <2>5. OrderInv'
      BY <1>1, <1>2, <2>4 DEF TInv, OrderInv, Kinds, Emptied, None
    <2>6. TrackerComplete'
      BY <2>2, <2>4 DEF TInv, TrackerComplete, Kinds, Emptied, Exists, Whole, Files, Shard, Common, Metadata, Marker
    <2> QED
      BY <1>4, <2>1, <2>3, <2>5, <2>6 DEF TInv, NpInv
  <1> QED
    BY <1>5, <1>6, <1>7 DEF LeftBehind

LEMMA StartTracker ==
    ASSUME IInv, TInv, Start
    PROVE  TInv'
  <1>1. /\ job.state = "down"
        /\ job' = [job EXCEPT !.state = "up", !.start = @ + 1, !.todo = <<Todo("load", NoCkpt)>>]
        /\ UNCHANGED <<config, calls, removing, disk, hit>>
    BY DEF Start
  <1>2. /\ job'.state = "up" /\ job'.todo = <<Todo("load", NoCkpt)>>
        /\ job'.start = job.start + 1 /\ job'.iter = job.iter
    BY <1>1 DEF IInv, JobForm
  <1>3. job.todo = <<>> /\ calls = <<>> /\ removing = {}
    BY <1>1 DEF TInv, UpInv
  <1>4. Loading' /\ Len(job'.todo) = 1 /\ job'.todo[1].op = "load"
    BY <1>2 DEF Loading, Todo, NoCkpt
  <1>5. UpInv'
    BY <1>1, <1>2, <1>3 DEF TInv, UpInv
  <1>6. TodoInv'
    <2>1. Chained(job.todo)'
      BY <1>4 DEF Chained, Linked, Going
    <2>2. OneTracker(job.todo)'
      BY <1>4 DEF OneTracker
    <2>3. \A k \in 1 .. Len(job'.todo) : StepOf(job.todo[k], job.iter)'
      BY <1>4 DEF StepOf
    <2> QED
      BY <2>1, <2>2, <2>3 DEF TodoInv, TodoOf
  <1>7. HeadInv'
    BY <1>4 DEF HeadInv, Ready, UnderWay
  <1>8. CallsInv' /\ RemovingInv'
    BY <1>1, <1>3 DEF CallsInv, RemovingInv
  <1>9. FilesInv' /\ TrackerComplete'
    BY <1>1, FilesSame DEF TInv
  <1>10. OrderInv'
    BY <1>1, <1>2, <1>3, <1>4 DEF TInv, OrderInv
  <1>11. NpInv'
    <2> SUFFICES ASSUME ~hit PROVE NpInv'
      BY <1>1 DEF NpInv
    <2>1. \A ckpt : ~Pending(ckpt) /\ ~Pending(ckpt)'
      BY <1>1, <1>3, <1>4 DEF Pending, UnderWay
    <2>2. Settled'
      BY <1>1, <2>1, FilesSame DEF TInv, NpInv
    <2> QED
      BY <1>1, <1>4, <2>1, <2>2 DEF TInv, NpInv
  <1> QED
    BY <1>1, <1>5, <1>6, <1>7, <1>8, <1>9, <1>10, <1>11 DEF TInv

\* A step of the loop makes a new list of what is left to do.
LEMMA Rebuilt ==
    ASSUME IInv, IInv', TInv, job.state = "up", ~Loading, ~Loading',
           job.todo # <<>> => job.todo[1].op \notin UnderWay,
           job'.state = "up", job'.start = job.start, job'.iter \in Nat, job'.iter >= job.iter,
           job'.todo \in Seq(Steps(job'.iter)), Built(job'.todo, job'.iter),
           UNCHANGED <<config, calls, removing, disk, hit>>
    PROVE  TInv'
  <1>1. UpInv'
    BY DEF TInv, UpInv
  <1>2. TodoInv'
    BY DEF Built, TodoInv, TodoOf, Chained, OneTracker, StepOf
  <1>3. HeadInv'
    BY DEF Built, Fresh, HeadInv, Ready, Later, UnderWay
  <1>4. job.iter \in Nat /\ \A k \in 1 .. Len(calls) : calls[k].ckpt[2] \in Nat
    BY CallOf DEF IInv, JobForm
  <1>5. CallsInv'
    BY DEF TInv, CallsInv, Kept, Newest, Holds, Exists, Np, Shard, Common
  <1>6. RemovingInv'
    BY RemovingKept DEF TInv
  <1>7. FilesInv' /\ TrackerComplete'
    BY FilesSame DEF TInv
  <1>8. disk.tracker["p"] \in Int /\ disk.tracker["p"] <= job.iter /\ disk.tracker["p"] <= job'.iter
    BY <1>4 DEF TInv, OrderInv, Kinds
  <1>9. OrderInv'
    <2>1. \A k \in 1 .. Len(job'.todo) : job'.todo[k].op = "tracker" => ~config.async /\ job'.todo[k].ckpt[2] = job'.iter
      BY Configured DEF Built, NoTracker, TodoOf, StepOf, TInv
    <2>2. ~config.async => calls = <<>>
      BY DEF TInv, UpInv
    <2>3. \A k \in 1 .. Len(job'.todo) : job'.todo[k].op = "tracker" =>
            /\ disk'.tracker["p"] <= job'.todo[k].ckpt[2] /\ job'.todo[k].ckpt[2] <= job'.iter
            /\ \A j \in 1 .. Len(calls') : job'.todo[k].ckpt[2] <= calls'[j].ckpt[2]
      BY <1>8, <2>1, <2>2
    <2>4. \A k \in 1 .. Len(calls') : calls'[k].ckpt[2] <= job'.iter
      BY <1>4 DEF TInv, OrderInv
    <2> QED
      BY <1>8, <2>3, <2>4 DEF TInv, OrderInv
  <1>10. NpInv'
    <2> SUFFICES ASSUME ~hit PROVE NpInv'
      BY DEF NpInv
    <2>1. \A ckpt : Pending(ckpt)' <=> Pending(ckpt)
      BY DEF Pending, Built, Fresh, Later
    <2>2. \A ckpt : Newest(ckpt)' <=> Newest(ckpt)
      BY DEF Newest
    <2>3. Settled => Settled'
      BY FilesSame
    <2>4. \A k \in DOMAIN disk'.dirs : Np(k) => k[2] <= job'.iter
      BY <1>4 DEF TInv, NpInv, IInv, DiskForm, Names
    <2> QED
      BY <2>1, <2>2, <2>3, <2>4 DEF TInv, NpInv, Np
  <1> QED
    BY <1>1, <1>2, <1>3, <1>5, <1>6, <1>7, <1>9, <1>10 DEF TInv

\* A list of the loop's steps is none of a job that loads.
LEMMA ListNotLoading ==
    ASSUME NEW i, NEW todo \in Seq(Steps(i))
    PROVE  todo # <<Todo("load", NoCkpt)>>
  <1> SUFFICES ASSUME todo = <<Todo("load", NoCkpt)>> PROVE FALSE
    OBVIOUS
  <1>1. todo[1] \in Steps(i) /\ todo[1].op = "load"
    BY DEF Todo
  <1> QED
    BY <1>1 DEF Steps, LoopOps, SaveOps

LEMMA BeginIterationTracker ==
    ASSUME IInv, IInv', TInv, BeginIteration
    PROVE  TInv'
  <1>1. /\ job.state = "up" /\ job.todo = <<>>
        /\ UNCHANGED <<config, calls, removing, disk, hit>>
    BY DEF BeginIteration
  <1>2. ~Loading /\ config.async \in BOOLEAN /\ job.iter \in Nat
    BY <1>1, Configured DEF Loading, TInv, IInv, JobForm
  <1> DEFINE iteration == Ops(<<"poll", "rampup", "train">>, NoCkpt)
  <1>3. PICK todo \in {iteration, AtEnd(job.iter)} : job' = [job EXCEPT !.todo = todo]
    BY DEF BeginIteration
  <1>4. job'.todo = todo /\ job'.state = "up" /\ job'.start = job.start /\ job'.iter = job.iter
    BY <1>1, <1>3 DEF IInv, JobForm
  <1>5. Built(todo, job.iter)
    BY <1>2, LoopOpsBuilt, AtEndBuilt
  <1>6. iteration \in Seq(Steps(job.iter))
    <2>1. iteration = <<Todo("poll", NoCkpt), Todo("rampup", NoCkpt), Todo("train", NoCkpt)>>
      BY DEF Ops
    <2>2. \A op \in {"poll", "rampup", "train"} : Todo(op, NoCkpt) \in Steps(job.iter)
      BY DEF Todo, NoCkpt, Steps, LoopOps, Names, Kinds
    <2> QED
      BY <2>1, <2>2, ThreeSteps
  <1>7. todo \in Seq(Steps(job.iter))
    BY <1>2, <1>6, AtEndQuiet, QuietSteps
  <1>8. ~Loading'
    BY <1>4, <1>7, ListNotLoading DEF Loading, Todo, NoCkpt
  <1> QED
    BY <1>1, <1>2, <1>4, <1>5, <1>7, <1>8, Rebuilt

LEMMA WiderSeq ==
    ASSUME NEW A, NEW B, A \subseteq B, NEW todo \in Seq(A)
    PROVE  todo \in Seq(B)
  OBVIOUS

LEMMA StepsForm ==
    ASSUME NEW i, NEW todo \in Seq(Steps(i))
    PROVE  todo \in Seq([op : LoopOps, ckpt : Names])
  <1>1. Steps(i) \subseteq [op : LoopOps, ckpt : Names]
    BY DEF Steps
  <1> QED
    BY <1>1, WiderSeq

LEMMA RampupTracker ==
    ASSUME IInv, IInv', TInv, Rampup
    PROVE  TInv'
  <1> DEFINE mbs == NumMicrobatches(config, job.consumed)
             save == IF mbs # job.mbs /\ job.iter # 0 THEN SaveSteps(<<"p", job.iter>>) ELSE <<>>
             todo == save \o Tail(job.todo)
             S == [op : LoopOps, ckpt : Names]
  <1>1. /\ Doing("rampup") /\ UNCHANGED <<config, calls, removing, disk, hit>>
        /\ job' = [job EXCEPT !.mbs = mbs, !.todo = todo]
    BY DEF Rampup
  <1>2. /\ job.state = "up" /\ job.todo # <<>> /\ JobForm /\ job.iter \in Nat
        /\ job.todo \in Seq(Steps(job.iter)) /\ job.todo[1].op = "rampup" /\ ~Loading
    BY <1>1, DoingNotLoading, Up
  <1>3. job.todo \in Seq(S) /\ config.async \in BOOLEAN /\ TodoOf(job.todo, job.iter)
    BY <1>2, StepsForm, Configured DEF TInv, TodoInv
  <1>4. Tail(job.todo) \in Seq(S) /\ Built(Tail(job.todo), job.iter)
    BY <1>2, <1>3, TailOf, TailFresh, TailSteps DEF Built
  <1>5. save \in Seq(S) /\ Built(save, job.iter)
    <2>1. CASE job.iter = 0
      BY <2>1, NothingBuilt
    <2>2. CASE job.iter # 0
      <3>1. job.iter > 0 /\ "p" \in Kinds /\ "p" # "np"
        BY <1>2, <2>2 DEF Kinds
      <3>2. SaveSteps(<<"p", job.iter>>) \in Seq(S) /\ Built(SaveSteps(<<"p", job.iter>>), job.iter)
        BY <1>2, <1>3, <3>1, SaveStepsBuilt
      <3> QED
        BY <3>2, NothingBuilt
    <2> QED
      BY <2>1, <2>2
  <1>6. save \in Seq(Steps(job.iter)) /\ Tail(job.todo) \in Seq(Steps(job.iter))
    <2>1. SaveSteps(<<"p", job.iter>>) \in Seq(Steps(job.iter))
      BY <1>2, SaveStepsQuiet, QuietSteps DEF Kinds
    <2>2. <<>> \in Seq(Steps(job.iter))
      OBVIOUS
    <2> QED
      BY <1>2, <2>1, <2>2, TailSteps
  <1> HIDE DEF save, S, mbs
  <1>7. Built(todo, job.iter) /\ todo \in Seq(Steps(job.iter))
    BY <1>4, <1>5, <1>6, JoinOf, Concatenation DEF Built
  <1> HIDE DEF todo
  <1>8. job'.todo = todo /\ job'.state = "up" /\ job'.start = job.start /\ job'.iter = job.iter
    BY <1>1, <1>2 DEF JobForm
  <1>9. ~Loading'
    BY <1>7, <1>8, ListNotLoading DEF Loading, Todo, NoCkpt
  <1>10. job.todo[1].op \notin UnderWay
    BY <1>2 DEF UnderWay
  <1>11. job'.iter \in Nat /\ job'.iter >= job.iter
    BY <1>2, <1>8
  <1>12. job'.todo \in Seq(Steps(job'.iter)) /\ Built(job'.todo, job'.iter)
    BY <1>7, <1>8
  <1> QED
    BY <1>1, <1>2, <1>8, <1>9, <1>10, <1>11, <1>12, Rebuilt

LEMMA TrainTracker ==
    ASSUME IInv, IInv', TInv, Train
    PROVE  TInv'
  <1>1. Doing("train") /\ UNCHANGED <<config, calls, removing, disk, hit>>
    BY DEF Train
  <1>2. PICK signal \in BOOLEAN :
            job' = [job EXCEPT !.iter = @ + 1, !.consumed = @ + job.mbs * config.unit,
                               !.todo = AfterIteration(job.iter + 1, signal)]
    BY DEF Train
  <1>3. /\ job.state = "up" /\ job.todo # <<>> /\ JobForm /\ job.iter \in Nat
        /\ job.todo \in Seq(Steps(job.iter)) /\ job.todo[1].op = "train" /\ ~Loading
    BY <1>1, DoingNotLoading, Up
  <1> DEFINE todo == AfterIteration(job.iter + 1, signal)
             c == job.consumed + job.mbs * config.unit
  <1>4. /\ job.iter + 1 \in Nat /\ job.iter + 1 > 0 /\ job.iter + 1 >= job.iter /\ config.async \in BOOLEAN
    BY <1>3, Configured DEF TInv
  <1>5. Built(todo, job.iter + 1) /\ todo \in Seq(Steps(job.iter + 1))
    BY <1>4, AfterIterationBuilt, AfterIterationQuiet, QuietSteps
  <1> HIDE DEF todo, c
  <1>6. job' = [job EXCEPT !.iter = job.iter + 1, !.consumed = c, !.todo = todo]
    BY <1>2 DEF todo, c
  <1>7. job'.todo = todo /\ job'.state = "up" /\ job'.start = job.start /\ job'.iter = job.iter + 1
    BY <1>3, <1>6 DEF JobForm
  <1>8. ~Loading'
    BY <1>5, <1>7, ListNotLoading DEF Loading, Todo, NoCkpt
  <1>9. job.todo[1].op \notin UnderWay
    BY <1>3 DEF UnderWay
  <1>10. job'.iter \in Nat /\ job'.iter >= job.iter /\ job'.todo \in Seq(Steps(job'.iter)) /\ Built(job'.todo, job'.iter)
    BY <1>4, <1>5, <1>7
  <1> QED
    BY <1>1, <1>3, <1>7, <1>8, <1>9, <1>10, Rebuilt

\* A start goes on from the newest checkpoints.
LEMMA LoadCheckpointTracker ==
    ASSUME IInv, IInv', TInv, LoadCheckpoint
    PROVE  TInv'
  <1>1. /\ Doing("load") /\ Loadable /\ UNCHANGED <<config, calls, removing, disk, hit>>
        /\ job' = [(IF Named[2] = None
                    THEN [job EXCEPT !.iter = 0, !.consumed = 0, !.mbs = NumMicrobatches(config, 0)]
                    ELSE Resume(Named)) EXCEPT !.todo = Tail(@)]
    BY DEF LoadCheckpoint
  <1>2. Loading /\ job.state = "up"
    <2>1. job.state = "up" /\ job.todo # <<>> /\ Head(job.todo).op = "load"
      BY <1>1 DEF Doing
    <2>2. SUFFICES ASSUME job.todo \in Seq(Steps(job.iter)) PROVE FALSE
      BY <2>1 DEF IInv, JobInv
    <2>3. Head(job.todo) \in Steps(job.iter)
      BY <2>1, <2>2
    <2> QED
      BY <2>1, <2>3 DEF Steps, LoopOps, SaveOps
  <1>3. calls = <<>> /\ removing = {}
    BY <1>2 DEF TInv, UpInv
  <1> DEFINE i == IF Named[2] = None THEN 0 ELSE Named[2]
  <1>4. job'.state = "up" /\ job'.todo = <<>> /\ job'.start = job.start /\ job'.iter = i
    <2>1. Tail(job.todo) = <<>>
      BY <1>2 DEF Loading
    <2>2. CASE Named[2] = None
      <3>1. job' = [state |-> job.state, todo |-> Tail(job.todo), iter |-> 0, consumed |-> 0,
                    mbs |-> NumMicrobatches(config, 0), start |-> job.start]
        BY <1>1, <2>2 DEF IInv, JobForm
      <3> QED
        BY <1>2, <2>1, <2>2, <3>1
    <2>3. CASE Named[2] # None
      <3> DEFINE c == disk.dirs[Named].args
      <3>1. job' = [state |-> job.state, todo |-> Tail(job.todo), iter |-> Named[2], consumed |-> c,
                    mbs |-> NumMicrobatches(config, c), start |-> job.start]
        BY <1>1, <2>3 DEF IInv, JobForm, Resume
      <3> QED
        BY <1>2, <2>1, <2>3, <3>1
    <2> QED
      BY <2>2, <2>3
  <1>5. ~Loading'
    BY <1>4 DEF Loading
  <1>6. UpInv' /\ TodoInv' /\ HeadInv' /\ CallsInv' /\ RemovingInv'
    <2>1. UpInv'
      BY <1>1, <1>3, <1>4, <1>5, <1>2 DEF TInv, UpInv
    <2>2. TodoInv' /\ HeadInv'
      BY <1>4 DEF TodoInv, TodoOf, Chained, OneTracker, HeadInv
    <2>3. CallsInv' /\ RemovingInv'
      BY <1>1, <1>3 DEF CallsInv, RemovingInv
    <2> QED
      BY <2>1, <2>2, <2>3
  <1>7. FilesInv' /\ TrackerComplete'
    BY <1>1, FilesSame DEF TInv
  <1>8. /\ disk.tracker["p"] \in Int /\ disk.tracker["p"] >= None
        /\ disk.tracker["np"] \in Int /\ disk.tracker["np"] >= None
    BY DEF TInv, OrderInv, Kinds
  <1>9. /\ disk.tracker["p"] <= i
        /\ config.np # 0 => disk.tracker["np"] <= i
        /\ i \in Nat
    <2>1. Named[2] = disk.tracker["p"] \/ Named[2] = disk.tracker["np"]
      BY <1>8 DEF Named, Chosen
    <2>2. Named[2] >= disk.tracker["p"] /\ (config.np # 0 => Named[2] >= disk.tracker["np"])
      BY <1>8 DEF Named, Chosen, None
    <2> QED
      BY <1>8, <2>1, <2>2 DEF None
  <1>10. OrderInv'
    BY <1>1, <1>3, <1>4, <1>9 DEF TInv, OrderInv
  <1>11. NpInv'
    <2> SUFFICES ASSUME ~hit PROVE NpInv'
      BY <1>1 DEF NpInv
    <2>1. \A ckpt : ~Pending(ckpt) /\ ~Pending(ckpt)'
      BY <1>1, <1>2, <1>3, <1>4 DEF Pending, UnderWay, Loading, Todo
    <2>2. Settled /\ Settled'
      BY <1>1, <2>1, FilesSame DEF TInv, NpInv
    <2>3. ASSUME NEW k \in DOMAIN disk.dirs, Np(k) PROVE k[2] <= i
      <3>1. config.np # 0 /\ k[2] \in Nat
        BY <2>3 DEF TInv, FilesInv, IInv, DiskForm, Names
      <3>2. k[2] <= disk.tracker["np"]
        BY <2>2, <2>3 DEF Settled, Newest
      <3> QED
        BY <1>8, <1>9, <3>1, <3>2
    <2> QED
      BY <1>1, <1>4, <2>1, <2>2, <2>3 DEF TInv, NpInv
  <1> QED
    BY <1>1, <1>6, <1>7, <1>10, <1>11 DEF TInv

-----------------------------------------------------------------------------
(* The steps of a save.                                                    *)

\* What is known when the next step, one of those below, is done.
LEMMA StepFacts ==
    ASSUME IInv, TInv, NEW op, Doing(op), op \notin {"load", "rampup"}, Did
    PROVE  /\ job.state = "up" /\ ~Loading /\ ~Loading' /\ job.iter \in Nat
           /\ job.todo # <<>> /\ job.todo[1].op = op /\ job.todo[1].ckpt = Ckpt /\ Ckpt \in Names
           /\ StepOf(job.todo[1], job.iter)
           /\ job'.state = job.state /\ job'.start = job.start /\ job'.iter = job.iter
           /\ Len(job.todo) \in Nat /\ Len(job'.todo) = Len(job.todo) - 1
           /\ \A k \in 1 .. Len(job'.todo) : k + 1 \in 1 .. Len(job.todo) /\ job'.todo[k] = job.todo[k + 1]
           /\ TodoOf(job'.todo, job'.iter)
           /\ job'.todo # <<>> => Linked(job.todo[1], job'.todo[1])
           /\ op \in Going => job'.todo # <<>> /\ job'.todo[1].op \in UnderWay
           /\ op \in {"poll", "train", "cleanup", "schedule", "tracker"} => Fresh(job'.todo)
           /\ job.start \in Nat /\ job.start > 0
  <1>1. /\ job.state = "up" /\ ~Loading /\ job.todo # <<>> /\ Head(job.todo).op = op
        /\ JobForm /\ job.iter \in Nat /\ job.todo \in Seq(Steps(job.iter))
    BY DoingNotLoading, Up
  <1>2. job.todo[1].op = op /\ job.todo[1].ckpt = Ckpt /\ Ckpt \in Names
    BY <1>1, CkptIsNamed DEF Ckpt
  <1>3. /\ job'.state = job.state /\ job'.start = job.start /\ job'.iter = job.iter
        /\ job'.todo = Tail(job.todo)
    BY <1>1 DEF Did, JobForm
  <1>4. /\ Len(job.todo) \in Nat /\ Len(job'.todo) = Len(job.todo) - 1
        /\ \A k \in 1 .. Len(job'.todo) : k + 1 \in 1 .. Len(job.todo) /\ job'.todo[k] = job.todo[k + 1]
        /\ job'.todo \in Seq(Steps(job.iter)) /\ 1 \in 1 .. Len(job.todo)
    <2>1. /\ Len(job.todo) \in Nat /\ Len(job.todo) >= 1
          /\ Tail(job.todo) \in Seq(Steps(job.iter)) /\ Len(Tail(job.todo)) = Len(job.todo) - 1
          /\ \A k \in 1 .. Len(Tail(job.todo)) : Tail(job.todo)[k] = job.todo[k + 1]
      BY <1>1, HeadAndTail
    <2> QED
      BY <1>3, <2>1
  <1>5. TodoOf(job.todo, job.iter)
    BY DEF TInv, TodoInv
  <1>6. StepOf(job.todo[1], job.iter)
    BY <1>4, <1>5 DEF TodoOf
  <1>7. /\ TodoOf(job'.todo, job'.iter)
        /\ job'.todo # <<>> => Linked(job.todo[1], job'.todo[1])
        /\ op \in Going => job'.todo # <<>> /\ job'.todo[1].op \in UnderWay
    BY <1>1, <1>2, <1>3, <1>5, TailOf
  <1>8. op \in {"poll", "train", "cleanup", "schedule", "tracker"} => Fresh(job'.todo)
    BY <1>1, <1>2, <1>3, <1>5, TailFresh
  <1>9. ~Loading'
    BY <1>4, ListNotLoading DEF Loading, Todo, NoCkpt
  <1> QED
    BY <1>1, <1>2, <1>3, <1>4, <1>6, <1>7, <1>8, <1>9 DEF TInv, UpInv

\* The parts that do not depend on which step it is.
LEMMA StepRest ==
    ASSUME IInv, TInv, NEW op, Doing(op), op \notin {"load", "rampup"}, Did,
           NEW ckpt, NEW fs \in SUBSET Files, Wrote(ckpt, fs),
           ckpt[1] = "p" /\ Exists(ckpt) => Own(ckpt),
           UNCHANGED <<config, calls, removing>>
    PROVE  /\ config' \in Configs /\ UpInv' /\ TodoInv' /\ CallsInv' /\ RemovingInv' /\ FilesInv'
           /\ OrderInv' /\ TrackerComplete'
           /\ Settled => Settled'
  <1>1. /\ job.state = "up" /\ ~Loading /\ ~Loading' /\ job.iter \in Nat
        /\ job'.state = job.state /\ job'.start = job.start /\ job'.iter = job.iter
        /\ \A k \in 1 .. Len(job'.todo) : k + 1 \in 1 .. Len(job.todo) /\ job'.todo[k] = job.todo[k + 1]
        /\ TodoOf(job'.todo, job'.iter) /\ job.start \in Nat /\ job.start > 0
    BY StepFacts
  <1>2. /\ \A k : Kept(k)' <=> Kept(k)
        /\ \A k, gs : Holds(k, gs) => Holds(k, gs)'
        /\ DOMAIN disk'.dirs = DOMAIN disk.dirs /\ disk'.tracker = disk.tracker
    BY <1>1, WroteKeeps DEF Wrote
  <1>3. config' \in Configs /\ UpInv'
    BY <1>1 DEF TInv, UpInv
  <1>4. TodoInv'
    BY <1>1 DEF TodoInv, TodoOf, Chained, OneTracker, StepOf
  <1>5. CallsInv'
    <2> SUFFICES ASSUME NEW k \in 1 .. Len(calls)
                 PROVE  /\ calls[k].ckpt[2] > 0
                        /\ Kept(calls[k].ckpt)' =>
                              Holds(calls[k].ckpt, {Common} \cup {Shard(r) : r \in Ranks \ calls[k].running})'
      BY DEF CallsInv, Kept, Newest, Np, Holds, Exists, Common, Shard
    <2> QED
      BY <1>2 DEF TInv, CallsInv
  <1>6. RemovingInv'
    BY <1>2, RemovingKept DEF TInv
  <1>7. FilesInv'
    BY <1>1, WroteFiles DEF TInv
  <1>8. TrackerComplete' /\ (Settled => Settled')
    BY <1>1, <1>7, WroteTracker DEF TInv
  <1>9. OrderInv'
    BY <1>1, <1>2 DEF TInv, OrderInv
  <1> QED
    BY <1>3, <1>4, <1>5, <1>6, <1>7, <1>8, <1>9

\* A step of a save under way writes its files, and the save goes on.
LEMMA GoingStep ==
    ASSUME IInv, TInv, NEW op, Doing(op), Did, NEW fs, NEW ckpt, ckpt = Ckpt, Wrote(ckpt, fs),
           \/ op = "common" /\ fs = {Common} /\ Exists(ckpt)
           \/ op = "write" /\ fs = Shards
           \/ op = ".metadata" /\ fs = {Metadata}
           \/ op = "metadata.json" /\ fs = {Marker},
           UNCHANGED <<config, calls, removing, hit>>
    PROVE  TInv'
  <1>1. op \in Going \ {"mkdir"} /\ op \notin {"load", "rampup"} /\ fs \in SUBSET Files
    BY DEF Going, Files, Shards
  <1>2. /\ job.state = "up" /\ ~Loading /\ ~Loading'
        /\ job.todo # <<>> /\ job.todo[1].op = op /\ job.todo[1].ckpt = ckpt
        /\ job'.state = job.state /\ job'.start = job.start /\ job'.iter = job.iter
        /\ job'.todo # <<>> /\ job'.todo[1].op \in UnderWay
        /\ Linked(job.todo[1], job'.todo[1])
    BY <1>1, StepFacts
  <1>3. <<op, job'.todo[1].op>> \in Links /\ job'.todo[1].ckpt = ckpt
    BY <1>2 DEF Linked, Later
  <1>4. Ready(job.todo[1])
    BY <1>2 DEF TInv, HeadInv
  <1>5. ASSUME ckpt[1] = "p", Exists(ckpt) PROVE Own(ckpt)
    <2>1. Kept(ckpt)
      BY <1>5 DEF Kept
    <2>2. CASE op = "common"
      BY <1>2, <1>4, <1>5, <2>1, <2>2 DEF Ready, Own
    <2>3. CASE op # "common"
      <3>1. Holds(ckpt, FilesBefore(op)) /\ op \in {"write", ".metadata", "metadata.json"}
        BY <1>1, <1>2, <1>4, <2>1, <2>3 DEF Ready, UnderWay, Going
      <3>2. Common \in FilesBefore(op)
        BY <3>1 DEF FilesBefore
      <3> QED
        BY <1>5, <3>1, <3>2 DEF Holds, Own, Exists, TInv, FilesInv
    <2> QED
      BY <2>2, <2>3
  <1>6. /\ config' \in Configs /\ UpInv' /\ TodoInv' /\ CallsInv' /\ RemovingInv' /\ FilesInv'
        /\ OrderInv' /\ TrackerComplete' /\ (Settled => Settled')
    BY <1>1, <1>5, StepRest
  <1>0. PICK next : next = job'.todo[1]
    OBVIOUS
  <1>7. HeadInv'
    <2>1. /\ \A gs : Holds(ckpt, gs) => Holds(ckpt, gs \cup fs)'
          /\ \A k : Kept(k)' <=> Kept(k)
      BY <1>2, WroteKeeps
    <2>2. ASSUME Kept(ckpt), NEW gs, Holds(ckpt, gs), gs \cup fs = FilesBefore(next.op),
                 next.op \in {"write", "schedule", ".metadata", "metadata.json", "tracker"}
          PROVE  HeadInv'
      <3>1. Holds(ckpt, FilesBefore(next.op))'
        BY <2>1, <2>2
      <3>2. Holds(next.ckpt, FilesBefore(next.op))'
        BY <1>3, <1>0, <3>1 DEF Holds, Exists
      <3>3. Ready(next)'
        BY <2>2, <3>2 DEF Ready, FilesBefore, Files, Shards, Shard, Common, Metadata, Marker, Holds, Exists
      <3> QED
        BY <1>0, <3>3 DEF HeadInv, Ready, Kept, Newest, Np, Holds, Exists
    <2>3. ASSUME ~Kept(ckpt), next.op \in {"write", "schedule", ".metadata", "metadata.json", "tracker"}
          PROVE  HeadInv'
      <3>1. ~Kept(next.ckpt)'
        BY <1>0, <1>3, <2>1, <2>3 DEF Kept, Newest
      <3> QED
        BY <1>0, <2>3, <3>1 DEF HeadInv, Ready, Kept, Newest, Np
    <2>4. CASE op = "common"
      <3>1. next.op \in {"write", "schedule"} /\ fs = {Common} /\ Holds(ckpt, {})
        BY <1>0, <1>3, <2>4 DEF Links, Holds
      <3> QED
        BY <2>2, <2>3, <3>1 DEF FilesBefore
    <2>5. CASE op = "write"
      <3>1. next.op = ".metadata" /\ fs = Shards
        BY <1>0, <1>3, <2>5 DEF Links
      <3>2. Kept(ckpt) => Holds(ckpt, {Common})
        BY <1>2, <1>4, <2>5 DEF Ready, UnderWay, FilesBefore
      <3> QED
        BY <2>2, <2>3, <3>1, <3>2 DEF FilesBefore
    <2>6. CASE op = ".metadata"
      <3>1. next.op = "metadata.json" /\ fs = {Metadata}
        BY <1>0, <1>3, <2>6 DEF Links
      <3>2. Kept(ckpt) => Holds(ckpt, {Common} \cup Shards)
        BY <1>2, <1>4, <2>6 DEF Ready, UnderWay, FilesBefore
      <3> QED
        BY <2>2, <2>3, <3>1, <3>2 DEF FilesBefore
    <2>7. CASE op = "metadata.json"
      <3>1. next.op = "tracker" /\ fs = {Marker}
        BY <1>0, <1>3, <2>7 DEF Links
      <3>2. Kept(ckpt) => Holds(ckpt, {Common, Metadata} \cup Shards)
        BY <1>2, <1>4, <2>7 DEF Ready, UnderWay, FilesBefore
      <3>3. ({Common, Metadata} \cup Shards) \cup fs = FilesBefore("tracker")
        BY <3>1 DEF FilesBefore, Files, Shards
      <3> QED
        BY <2>2, <2>3, <3>1, <3>2, <3>3
    <2> QED
      BY <2>4, <2>5, <2>6, <2>7
  <1>8. NpInv'
    <2>1. \A c : Pending(c)' <=> Pending(c)
      BY <1>2, <1>3 DEF Pending, UnderWay
    <2>2. \A c : Newest(c)' <=> Newest(c)
      BY <1>2, WroteKeeps
    <2> QED
      BY <1>2, <1>6, <2>1, <2>2 DEF TInv, NpInv, Wrote, Np
  <1> QED
    BY <1>6, <1>7, <1>8 DEF TInv

LEMMA SaveFilesTracker ==
    ASSUME IInv, TInv, SaveCommon \/ WriteShards \/ SaveMetadata \/ SaveMarker
    PROVE  TInv'
  <1>0. PICK ckpt : ckpt = Ckpt
    OBVIOUS
  <1>1. CASE SaveCommon
    BY <1>0, <1>1, SaveCommonWrote, GoingStep DEF SaveCommon, IInv
  <1>2. CASE WriteShards
    BY <1>0, <1>2, WithFilesWrote, GoingStep DEF WriteShards, IInv, Shards
  <1>3. CASE SaveMetadata
    <2>1. disk' = WithFiles(ckpt, {Metadata})
      BY <1>0, <1>3, OneFile DEF SaveMetadata
    <2> QED
      BY <1>0, <1>3, <2>1, WithFilesWrote, GoingStep DEF SaveMetadata, IInv
  <1>4. CASE SaveMarker
    <2>1. disk' = WithFiles(ckpt, {Marker})
      BY <1>0, <1>4, OneFile DEF SaveMarker
    <2> QED
      BY <1>0, <1>4, <2>1, WithFilesWrote, GoingStep DEF SaveMarker, IInv
  <1> QED
    BY <1>1, <1>2, <1>3, <1>4

\* The parts that say nothing of what is left to do, when the directories stay.
LEMMA SameDisk ==
    ASSUME disk'.dirs = disk.dirs, job'.start = job.start
    PROVE  /\ \A k : Kept(k)' <=> Kept(k)
           /\ \A k : Newest(k)' <=> Newest(k)
           /\ \A k, gs : Holds(k, gs) <=> Holds(k, gs)'
  BY DEF Kept, Newest, Holds, Exists

\* What the calls in the queue wrote stays in the directories that are kept.
LEMMA CallsStay ==
    ASSUME CallsInv, UNCHANGED calls, \A c : Kept(c)' => Kept(c),
           \A c, gs : Kept(c)' /\ Holds(c, gs) => Holds(c, gs)'
    PROVE  CallsInv'
  <1> SUFFICES ASSUME NEW k \in 1 .. Len(calls)
               PROVE  /\ calls[k].ckpt[2] > 0
                      /\ Kept(calls[k].ckpt)' =>
                            Holds(calls[k].ckpt, {Common} \cup {Shard(r) : r \in Ranks \ calls[k].running})'
    BY DEF CallsInv, Kept, Newest, Np, Holds, Exists, Common, Shard
  <1>1. PICK c : c = calls[k].ckpt
    OBVIOUS
  <1>2. PICK gs : gs = {Common} \cup {Shard(r) : r \in Ranks \ calls[k].running}
    OBVIOUS
  <1>3. c[2] > 0 /\ (Kept(c) => Holds(c, gs))
    BY <1>1, <1>2 DEF CallsInv
  <1>4. Kept(c)' => Holds(c, gs)'
    BY <1>3
  <1> QED
    BY <1>1, <1>2, <1>3, <1>4 DEF Kept, Newest, Np, Holds, Exists, Common, Shard

\* The save goes to the queue of calls.
LEMMA ScheduleTracker ==
    ASSUME IInv, TInv, Schedule
    PROVE  TInv'
  <1>0. PICK ckpt : ckpt = Ckpt
    OBVIOUS
  <1>1. /\ Doing("schedule") /\ Did /\ calls' = Append(calls, [ckpt |-> ckpt, running |-> Ranks])
        /\ UNCHANGED <<config, removing, disk, hit>>
    BY <1>0 DEF Schedule
  <1>2. /\ job.state = "up" /\ ~Loading /\ ~Loading' /\ job.iter \in Nat
        /\ job.todo # <<>> /\ job.todo[1].op = "schedule" /\ job.todo[1].ckpt = ckpt
        /\ StepOf(job.todo[1], job.iter)
        /\ job'.state = job.state /\ job'.start = job.start /\ job'.iter = job.iter
        /\ \A k \in 1 .. Len(job'.todo) : k + 1 \in 1 .. Len(job.todo) /\ job'.todo[k] = job.todo[k + 1]
        /\ TodoOf(job'.todo, job'.iter) /\ Fresh(job'.todo) /\ job.start \in Nat /\ job.start > 0
    BY <1>0, <1>1, StepFacts
  <1>3. config.async /\ ckpt[2] = job.iter /\ job.iter > 0
    BY <1>2 DEF StepOf
  <1>4. /\ Len(calls) \in Nat /\ Len(calls') = Len(calls) + 1
        /\ \A k \in 1 .. Len(calls) : calls'[k] = calls[k]
        /\ calls'[Len(calls) + 1] = [ckpt |-> ckpt, running |-> Ranks]
    BY <1>1 DEF IInv, CallsForm
  <1>5. \A k \in 1 .. Len(calls') : \/ k \in 1 .. Len(calls) /\ calls'[k] = calls[k]
                                    \/ k = Len(calls) + 1 /\ calls'[k] = [ckpt |-> ckpt, running |-> Ranks]
    BY <1>4
  <1>6. /\ \A k : Kept(k)' <=> Kept(k)
        /\ \A k, gs : Holds(k, gs) <=> Holds(k, gs)'
    BY <1>1, <1>2, SameDisk
  <1>7. config' \in Configs /\ UpInv'
    BY <1>1, <1>2, <1>3 DEF TInv, UpInv
  <1>8. TodoInv' /\ HeadInv'
    <2>1. TodoInv'
      BY <1>1, <1>2 DEF TodoInv, TodoOf, Chained, OneTracker, StepOf
    <2>2. HeadInv'
      BY <1>2 DEF Fresh, HeadInv, Ready, Later, UnderWay
    <2> QED
      BY <2>1, <2>2
  <1>9. CallsInv'
    <2>1. Kept(ckpt) => Holds(ckpt, {Common})
      BY <1>2 DEF TInv, HeadInv, Ready, UnderWay, FilesBefore
    <2>2. {Common} \cup {Shard(r) : r \in Ranks \ Ranks} = {Common}
      OBVIOUS
    <2> SUFFICES ASSUME NEW k \in 1 .. Len(calls')
                 PROVE  /\ calls'[k].ckpt[2] > 0
                        /\ Kept(calls[k].ckpt)' =>
                              Holds(calls[k].ckpt, {Common} \cup {Shard(r) : r \in Ranks \ calls[k].running})'
      BY DEF CallsInv, Kept, Newest, Np, Holds, Exists, Common, Shard
    <2>3. PICK call : call = calls'[k]
      OBVIOUS
    <2>4. /\ call.ckpt[2] > 0
          /\ Kept(call.ckpt) => Holds(call.ckpt, {Common} \cup {Shard(r) : r \in Ranks \ call.running})
      <3>1. CASE k \in 1 .. Len(calls) /\ calls'[k] = calls[k]
        BY <2>3, <3>1 DEF TInv, CallsInv
      <3>2. CASE calls'[k] = [ckpt |-> ckpt, running |-> Ranks]
        <4>1. call.ckpt = ckpt /\ call.running = Ranks
          BY <2>3, <3>2
        <4>2. {Common} \cup {Shard(r) : r \in Ranks \ call.running} = {Common}
          BY <4>1
        <4> QED
          BY <1>3, <2>1, <4>1, <4>2
      <3> QED
        BY <1>5, <3>1, <3>2
    <2>5. Kept(call.ckpt)' => Holds(call.ckpt, {Common} \cup {Shard(r) : r \in Ranks \ call.running})'
      BY <1>6, <2>4
    <2> QED
      BY <2>3, <2>4, <2>5 DEF Kept, Newest, Np, Holds, Exists, Common, Shard
  <1>10. RemovingInv' /\ FilesInv' /\ TrackerComplete'
    BY <1>1, RemovingKept, FilesSame DEF TInv
  <1>11. OrderInv'
    <2>1. \A k \in 1 .. Len(calls) : calls[k].ckpt[2] <= job.iter
      BY DEF TInv, OrderInv
    <2>2. disk.tracker["p"] <= job.iter
      BY <1>2 DEF TInv, OrderInv
    <2>3. \A k \in 1 .. Len(calls') :
            /\ disk.tracker["p"] <= calls'[k].ckpt[2] /\ calls'[k].ckpt[2] <= job.iter
            /\ \A j \in 1 .. Len(calls') : k < j => calls'[k].ckpt[2] <= calls'[j].ckpt[2]
      <3> SUFFICES ASSUME NEW k \in 1 .. Len(calls')
                   PROVE  /\ disk.tracker["p"] <= calls'[k].ckpt[2] /\ calls'[k].ckpt[2] <= job.iter
                          /\ \A j \in 1 .. Len(calls') : k < j => calls'[k].ckpt[2] <= calls'[j].ckpt[2]
        OBVIOUS
      <3>1. disk.tracker["p"] <= calls'[k].ckpt[2] /\ calls'[k].ckpt[2] <= job.iter
        BY <1>2, <1>3, <1>5, <2>2 DEF TInv, OrderInv
      <3>2. ASSUME NEW j \in 1 .. Len(calls'), k < j PROVE calls'[k].ckpt[2] <= calls'[j].ckpt[2]
        <4>1. k \in 1 .. Len(calls) /\ calls'[k] = calls[k]
          BY <1>4, <3>2
        <4>2. CASE j \in 1 .. Len(calls) /\ calls'[j] = calls[j]
          BY <3>2, <4>1, <4>2 DEF TInv, OrderInv
        <4>3. CASE calls'[j] = [ckpt |-> ckpt, running |-> Ranks]
          BY <1>3, <3>1, <4>3
        <4> QED
          BY <1>5, <4>2, <4>3
      <3> QED
        BY <3>1, <3>2
    <2>4. \A k \in 1 .. Len(job'.todo) : job'.todo[k].op = "tracker" =>
            /\ disk.tracker["p"] <= job'.todo[k].ckpt[2] /\ job'.todo[k].ckpt[2] <= job.iter
            /\ \A j \in 1 .. Len(calls') : job'.todo[k].ckpt[2] <= calls'[j].ckpt[2]
      <3> SUFFICES ASSUME NEW k \in 1 .. Len(job'.todo), job'.todo[k].op = "tracker"
                   PROVE  /\ disk.tracker["p"] <= job'.todo[k].ckpt[2] /\ job'.todo[k].ckpt[2] <= job.iter
                          /\ \A j \in 1 .. Len(calls') : job'.todo[k].ckpt[2] <= calls'[j].ckpt[2]
        OBVIOUS
      <3>1. k + 1 \in 1 .. Len(job.todo) /\ job'.todo[k] = job.todo[k + 1]
        BY <1>2
      <3>2. /\ disk.tracker["p"] <= job.todo[k + 1].ckpt[2] /\ job.todo[k + 1].ckpt[2] <= job.iter
            /\ \A j \in 1 .. Len(calls) : job.todo[k + 1].ckpt[2] <= calls[j].ckpt[2]
        BY <3>1 DEF TInv, OrderInv
      <3> QED
        BY <1>3, <1>5, <3>1, <3>2
    <2> QED
      BY <1>1, <1>2, <2>2, <2>3, <2>4 DEF TInv, OrderInv
  <1>12. NpInv'
    <2>1. \A c : Pending(c)' <=> Pending(c)
      <3> SUFFICES ASSUME NEW c PROVE Pending(c)' <=> Pending(c)
        OBVIOUS
      <3>1. Pending(c)' <=> \E k \in 1 .. Len(calls') : calls'[k].ckpt = c
        BY <1>2 DEF Pending, Fresh, Later
      <3>2. (\E k \in 1 .. Len(calls') : calls'[k].ckpt = c) <=> (ckpt = c \/ \E k \in 1 .. Len(calls) : calls[k].ckpt = c)
        BY <1>4, <1>5
      <3>3. Pending(c) <=> (ckpt = c \/ \E k \in 1 .. Len(calls) : calls[k].ckpt = c)
        BY <1>2 DEF Pending, UnderWay
      <3> QED
        BY <3>1, <3>2, <3>3
    <2>2. (\A c : Newest(c)' <=> Newest(c)) /\ (Settled => Settled')
      BY <1>1, <1>2, SameDisk, FilesSame
    <2> QED
      BY <1>1, <1>2, <2>1, <2>2 DEF TInv, NpInv, Np
  <1> QED
    BY <1>7, <1>8, <1>9, <1>10, <1>11, <1>12 DEF TInv

\* maybe_finalize_async_calls returns.
LEMMA FinalizedTracker ==
    ASSUME IInv, TInv, Finalized
    PROVE  TInv'
  <1>1. /\ Did /\ UNCHANGED <<config, calls, removing, disk, hit>> /\ (Doing("flush") => calls = <<>>)
        /\ \E op \in {"poll", "flush"} : Doing(op)
    BY DEF Finalized
  <1>2. PICK op \in {"poll", "flush"} : Doing(op)
    BY <1>1
  <1>3. Wrote(<<"np", 0>>, {}) /\ {} \in SUBSET Files /\ <<"np", 0>>[1] # "p" /\ op \notin {"load", "rampup"}
    BY <1>1, NothingWrote
  <1>4. /\ config' \in Configs /\ UpInv' /\ TodoInv' /\ CallsInv' /\ RemovingInv' /\ FilesInv'
        /\ OrderInv' /\ TrackerComplete' /\ (Settled => Settled')
    BY <1>1, <1>2, <1>3, StepRest
  <1>5. /\ job.state = "up" /\ ~Loading /\ ~Loading' /\ job.todo # <<>> /\ job.todo[1].op = op
        /\ job'.state = job.state /\ job'.start = job.start /\ job'.iter = job.iter
        /\ job'.todo # <<>> => Linked(job.todo[1], job'.todo[1])
        /\ op = "poll" => Fresh(job'.todo)
    BY <1>1, <1>2, StepFacts
  <1>6. ASSUME job'.todo # <<>> PROVE job'.todo[1].op \notin UnderWay /\ (op = "poll" => job'.todo[1].op \notin Later)
    BY <1>5, <1>6 DEF Linked, Links, Later, UnderWay, Fresh
  <1>7. HeadInv'
    <2>1. op = "flush" => calls' = <<>>
      BY <1>1, <1>2
    <2> SUFFICES ASSUME job'.todo # <<>> PROVE Ready(job.todo[1])'
      BY DEF HeadInv
    <2>2. PICK next : next = job'.todo[1]
      OBVIOUS
    <2>3. next.op \notin UnderWay /\ (op = "poll" => next.op \notin {"exit", "done"})
      BY <1>6, <2>2 DEF Later
    <2>4. Ready(next)'
      BY <2>1, <2>3 DEF Ready, UnderWay
    <2> QED
      BY <2>2, <2>4 DEF Ready, UnderWay
  <1>8. NpInv'
    <2>1. \A c : Pending(c)' <=> Pending(c)
      BY <1>1, <1>5, <1>6 DEF Pending, UnderWay
    <2>2. \A c : Newest(c)' <=> Newest(c)
      BY <1>1, <1>5, SameDisk
    <2> QED
      BY <1>1, <1>4, <1>5, <2>1, <2>2 DEF TInv, NpInv, Np
  <1> QED
    BY <1>4, <1>7, <1>8 DEF TInv

\* The tracker is written: what it names is complete.
LEMMA UpdateTrackerTracker ==
    ASSUME IInv, TInv, UpdateTracker
    PROVE  TInv'
  <1>1. Doing("tracker") /\ Did /\ UNCHANGED <<config, calls, removing, hit>>
    BY DEF UpdateTracker
  <1>2. /\ job.state = "up" /\ ~Loading /\ ~Loading' /\ job.iter \in Nat
        /\ job.todo # <<>> /\ job.todo[1].op = "tracker" /\ job.todo[1].ckpt = Ckpt /\ Ckpt \in Names
        /\ StepOf(job.todo[1], job.iter)
        /\ job'.state = job.state /\ job'.start = job.start /\ job'.iter = job.iter
        /\ Len(job.todo) \in Nat /\ Len(job'.todo) = Len(job.todo) - 1
        /\ \A k \in 1 .. Len(job'.todo) : k + 1 \in 1 .. Len(job.todo) /\ job'.todo[k] = job.todo[k + 1]
        /\ TodoOf(job'.todo, job'.iter) /\ Fresh(job'.todo) /\ job.start \in Nat /\ job.start > 0
    BY <1>1, StepFacts
  <1>3. PICK kind \in Kinds, i \in Nat : Ckpt = <<kind, i>>
    BY <1>2 DEF Names
  <1>4. PICK ckpt \in Names : ckpt = <<kind, i>> /\ ckpt = Ckpt /\ ckpt[1] = kind /\ ckpt[2] = i
    BY <1>2, <1>3
  <1>5. /\ disk'.dirs = disk.dirs /\ disk'.tracker = [disk.tracker EXCEPT ![kind] = i]
    BY <1>4 DEF UpdateTracker, IInv, DiskForm
  <1>6. disk.tracker \in [Kinds -> Int] /\ disk.tracker["p"] >= None /\ disk.tracker["np"] >= None
    BY DEF TInv, OrderInv
  <1>7. /\ disk'.tracker \in [Kinds -> Int]
        /\ \A other \in Kinds : disk'.tracker[other] = IF other = kind THEN i ELSE disk.tracker[other]
        /\ "p" \in Kinds /\ "np" \in Kinds
    BY <1>5, <1>6, TrackerSet DEF Kinds
  <1>8. 1 \in 1 .. Len(job.todo) /\ i > 0 /\ (~config.async => i = job.iter)
    BY <1>2, <1>4 DEF StepOf
  <1>9. /\ disk.tracker["p"] <= i /\ i <= job.iter
        /\ \A j \in 1 .. Len(calls) : i <= calls[j].ckpt[2]
    BY <1>2, <1>4, <1>8 DEF TInv, OrderInv
  <1>10. Kept(ckpt) => Exists(ckpt) /\ Whole(disk.dirs[ckpt]) /\ \A f \in Files : disk.dirs[ckpt].files[f] = job.start
    <2> SUFFICES ASSUME Kept(ckpt)
                 PROVE  Exists(ckpt) /\ Whole(disk.dirs[ckpt]) /\ \A f \in Files : disk.dirs[ckpt].files[f] = job.start
      OBVIOUS
    <2>1. Holds(ckpt, Files)
      BY <1>2, <1>4 DEF TInv, HeadInv, Ready, UnderWay, FilesBefore
    <2>2. DOMAIN disk.dirs[ckpt].files \subseteq Files
      BY <2>1 DEF Holds, Exists, TInv, FilesInv
    <2>3. DOMAIN disk.dirs[ckpt].files = Files
      BY <2>1, <2>2 DEF Holds
    <2> QED
      BY <1>2, <2>1, <2>3 DEF Holds, Whole
  <1>11. /\ \A k : Newest(k)' <=> Newest(k)
         /\ \A k : Kept(k)' <=> Kept(k)
         /\ \A k, gs : Holds(k, gs) <=> Holds(k, gs)'
    BY <1>2, <1>5, SameDisk
  <1>12. config' \in Configs /\ UpInv' /\ TodoInv' /\ HeadInv'
    <2>1. config' \in Configs /\ UpInv'
      BY <1>1, <1>2 DEF TInv, UpInv
    <2>2. TodoInv'
      BY <1>1, <1>2 DEF TodoInv, TodoOf, Chained, OneTracker, StepOf
    <2>3. HeadInv'
      BY <1>2 DEF Fresh, HeadInv, Ready, Later, UnderWay
    <2> QED
      BY <2>1, <2>2, <2>3
  <1>13. CallsInv'
    BY <1>1, <1>11, CallsStay DEF TInv
  <1>14. RemovingInv' /\ FilesInv'
    <2>1. RemovingInv'
      BY <1>1, <1>5, RemovingKept DEF TInv
    <2>2. FilesInv'
      BY <1>1, <1>5 DEF TInv, FilesInv, Np, Files, Shard, Common, Metadata, Marker
    <2> QED
      BY <2>1, <2>2
  <1>15. OrderInv'
    <2>1. disk'.tracker["p"] >= None /\ disk'.tracker["np"] >= None /\ disk'.tracker["p"] <= job.iter
      BY <1>2, <1>6, <1>7, <1>9 DEF None, TInv, OrderInv
    <2>2. \A k \in 1 .. Len(calls) : disk'.tracker["p"] <= calls[k].ckpt[2]
      BY <1>7, <1>9 DEF TInv, OrderInv
    <2>3. \A k \in 1 .. Len(job'.todo) : job'.todo[k].op = "tracker" =>
            /\ disk'.tracker["p"] <= job'.todo[k].ckpt[2] /\ job'.todo[k].ckpt[2] <= job.iter
            /\ \A j \in 1 .. Len(calls) : job'.todo[k].ckpt[2] <= calls[j].ckpt[2]
      <3> SUFFICES ASSUME NEW k \in 1 .. Len(job'.todo), job'.todo[k].op = "tracker"
                   PROVE  /\ disk'.tracker["p"] <= job'.todo[k].ckpt[2] /\ job'.todo[k].ckpt[2] <= job.iter
                          /\ \A j \in 1 .. Len(calls) : job'.todo[k].ckpt[2] <= calls[j].ckpt[2]
        OBVIOUS
      <3>1. k + 1 \in 1 .. Len(job.todo) /\ job'.todo[k] = job.todo[k + 1] /\ 1 < k + 1
        BY <1>2
      <3>2. ~config.async
        BY <1>2, <1>8, <3>1 DEF TInv, TodoInv, TodoOf, OneTracker
      <3>3. job'.todo[k].ckpt[2] = job.iter
        BY <3>1, <3>2 DEF TInv, TodoInv, TodoOf, StepOf
      <3>4. calls = <<>>
        BY <3>2 DEF TInv, UpInv
      <3> QED
        BY <1>2, <2>1, <3>3, <3>4
    <2>4. \A k \in 1 .. Len(calls) :
            /\ calls[k].ckpt[2] <= job.iter
            /\ \A j \in 1 .. Len(calls) : k < j => calls[k].ckpt[2] <= calls[j].ckpt[2]
      BY DEF TInv, OrderInv
    <2> QED
      BY <1>1, <1>2, <1>7, <2>1, <2>2, <2>3, <2>4 DEF OrderInv
  <1>16. TrackerComplete'
    <2>1. CASE kind = "p"
      <3>1. <<"p", disk'.tracker["p"]>> = ckpt
        BY <1>4, <1>7, <2>1
      <3>2. Kept(ckpt)
        BY <1>4, <2>1 DEF Kept
      <3>3. ckpt \in DOMAIN disk'.dirs /\ Whole(disk.dirs[ckpt])' /\ \A f \in Files : disk'.dirs[ckpt].files[f] = job.start
        BY <1>5, <1>10, <3>2 DEF Exists, Whole, Files, Shard, Common, Metadata, Marker
      <3> QED
        BY <3>1, <3>3 DEF TrackerComplete, Exists, Whole, Files, Shard, Common, Metadata, Marker
    <2>2. CASE kind # "p"
      BY <1>5, <1>7, <2>2 DEF TInv, TrackerComplete, Exists, Whole, Files, Shard, Common, Metadata, Marker
    <2> QED
      BY <2>1, <2>2
  <1>17. NpInv'
    <2> SUFFICES ASSUME ~hit PROVE NpInv'
      BY <1>1 DEF NpInv
    <2>1. disk'.tracker["p"] # Emptied /\ disk'.tracker["np"] # Emptied
      BY <1>7, <1>8 DEF TInv, NpInv, Emptied
    <2>2. \A k \in DOMAIN disk'.dirs : Np(k) => k[2] <= job.iter
      BY <1>2, <1>5 DEF TInv, NpInv
    <2>3. \A c : /\ Pending(c)' <=> \E k \in 1 .. Len(calls) : calls[k].ckpt = c
                 /\ Pending(c) <=> (c = ckpt \/ \E k \in 1 .. Len(calls) : calls[k].ckpt = c)
      BY <1>1, <1>2, <1>4 DEF Pending, Fresh, Later, UnderWay
    <2>4. CASE kind = "p"
      <3>1. \A c : Np(c) => (Pending(c)' <=> Pending(c))
        BY <1>4, <2>3, <2>4 DEF Np
      <3>2. Settled => Settled'
        BY <1>5, <1>7, <2>4 DEF Settled, Exists, Whole, Newest, Np, Files, Shard, Common, Metadata, Marker
      <3> QED
        BY <1>2, <1>11, <2>1, <2>2, <3>1, <3>2 DEF TInv, NpInv, Np
    <2>5. CASE kind = "np"
      <3>1. Pending(ckpt) /\ Np(ckpt)
        BY <1>4, <2>3, <2>5 DEF Np
      <3>2. PICK d \in Names : Np(d) /\ Pending(d) /\ Newest(d)
        BY <3>1 DEF TInv, NpInv
      <3>3. CASE \E e \in Names : Np(e) /\ Pending(e)'
        <4>1. PICK e \in Names : Np(e) /\ Pending(e)'
          BY <3>3
        <4>2. CASE d = ckpt
          <5>1. i <= e[2] /\ e[2] \in Nat
            BY <1>9, <2>3, <4>1 DEF Names
          <5>2. \A k \in DOMAIN disk.dirs : Np(k) => k[2] \in Nat /\ k[2] <= i
            BY <1>4, <3>2, <4>2 DEF Newest, IInv, DiskForm, Names
          <5>3. Newest(e)
            BY <5>1, <5>2 DEF Newest
          <5> QED
            BY <1>2, <1>11, <2>1, <2>2, <4>1, <5>3 DEF NpInv, Np
        <4>3. CASE d # ckpt
          <5>1. Pending(d)' /\ Newest(d)'
            BY <1>11, <2>3, <3>2, <4>3
          <5> QED
            BY <1>2, <2>1, <2>2, <3>2, <5>1 DEF NpInv, Np
        <4> QED
          BY <4>2, <4>3
      <3>4. CASE \A e \in Names : Np(e) => ~Pending(e)'
        <4>1. d = ckpt
          BY <2>3, <3>2, <3>4
        <4>2. Exists(ckpt) /\ Whole(disk.dirs[ckpt]) /\ Newest(ckpt)
          BY <1>10, <3>2, <4>1 DEF Kept
        <4>3. <<"np", disk'.tracker["np"]>> = ckpt /\ disk'.tracker["np"] > 0
          BY <1>4, <1>7, <1>8, <2>5
        <4>4. ckpt \in DOMAIN disk'.dirs /\ Whole(disk.dirs[ckpt])' /\ Newest(ckpt)'
          BY <1>5, <1>11, <4>2 DEF Exists, Whole, Files, Shard, Common, Metadata, Marker
        <4>5. Settled'
          BY <4>3, <4>4 DEF Settled, Exists, Whole, Newest, Np, Files, Shard, Common, Metadata, Marker
        <4> QED
          BY <1>2, <2>1, <2>2, <3>4, <4>5 DEF NpInv, Np
      <3> QED
        BY <3>3, <3>4
    <2> QED
      BY <2>4, <2>5 DEF Kinds
  <1> QED
    BY <1>12, <1>13, <1>14, <1>15, <1>16, <1>17 DEF TInv

-----------------------------------------------------------------------------
(* The job ends.                                                           *)

LEMMA FailTracker ==
    ASSUME IInv, TInv, Fail
    PROVE  TInv'
  <1>1. End("down", disk) /\ hit' = (hit \/ Saving)
    BY DEF Fail
  <1>2. disk \in LeftBehind
    BY DEF LeftBehind
  <1>3. ~hit' => ~hit /\ ~Saving
    BY <1>1 DEF Saving
  <1> QED
    BY <1>1, <1>2, <1>3, EndsTracker

LEMMA CrashTracker ==
    ASSUME IInv, TInv, Crash
    PROVE  TInv'
  BY EndsTracker DEF Crash

LEMMA LeaveTracker ==
    ASSUME IInv, TInv, Leave
    PROVE  TInv'
  <1>1. PICK op \in {"exit", "done"}, state \in {"down", "done"} :
            Doing(op) /\ End(state, disk) /\ hit' = hit
    BY DEF Leave
  <1>2. job.todo # <<>> /\ Head(job.todo) = job.todo[1] /\ Head(job.todo).op = op
    BY <1>1 DEF Doing
  <1>3. ~Saving
    BY <1>2 DEF TInv, HeadInv, Ready, Saving, Doing
  <1> QED
    BY <1>1, <1>3, EndsTracker DEF LeftBehind

-----------------------------------------------------------------------------
(* Directories are removed.                                                *)

LEMMA Removed ==
    ASSUME DiskForm, NEW ckpts, disk' = Without(ckpts)
    PROVE  /\ DOMAIN disk'.dirs = DOMAIN disk.dirs \ ckpts /\ disk'.tracker = disk.tracker
           /\ \A k \in DOMAIN disk.dirs \ ckpts : disk'.dirs[k] = disk.dirs[k]
  BY DEF DiskForm, Without

\* The removal of non-persistent directories leaves the other ones alone.
LEMMA RemovedRest ==
    ASSUME DiskForm, TInv, NEW ckpts, disk' = Without(ckpts), UNCHANGED config,
           \A k \in ckpts : Np(k) /\ ~Newest(k)
    PROVE  /\ FilesInv' /\ TrackerComplete'
           /\ Settled => Settled'
  <1>1. /\ DOMAIN disk'.dirs = DOMAIN disk.dirs \ ckpts /\ disk'.tracker = disk.tracker
        /\ \A k \in DOMAIN disk.dirs \ ckpts : disk'.dirs[k] = disk.dirs[k]
    BY Removed
  <1>2. FilesInv'
    <2> SUFFICES ASSUME NEW k \in DOMAIN disk'.dirs
                 PROVE  /\ DOMAIN disk'.dirs[k].files \subseteq Files
                        /\ k[1] = "p" => \A f, g \in DOMAIN disk'.dirs[k].files :
                                            disk'.dirs[k].files[f] = disk'.dirs[k].files[g]
                        /\ Np(k) => config.np # 0
      BY DEF FilesInv, Np, Files, Shard, Common, Metadata, Marker
    <2> QED
      BY <1>1 DEF TInv, FilesInv
  <1>3. TrackerComplete'
    <2> SUFFICES ASSUME disk.tracker["p"] > 0 PROVE TrackerComplete'
      BY <1>1 DEF TrackerComplete
    <2> DEFINE k == <<"p", disk.tracker["p"]>>
    <2>1. k \in DOMAIN disk.dirs /\ Whole(disk.dirs[k]) /\ \A f, g \in Files : disk.dirs[k].files[f] = disk.dirs[k].files[g]
      BY DEF TInv, TrackerComplete, Exists
    <2>2. k \notin ckpts
      BY DEF Np
    <2>3. k \in DOMAIN disk'.dirs /\ disk'.dirs[k] = disk.dirs[k]
      BY <1>1, <2>1, <2>2
    <2> QED
      BY <1>1, <2>1, <2>3 DEF TrackerComplete, Exists, Whole, Files, Shard, Common, Metadata, Marker
  <1>4. ASSUME Settled PROVE Settled'
    <2>1. CASE disk.tracker["np"] = None /\ \A k \in DOMAIN disk.dirs : ~Np(k)
      BY <1>1, <2>1 DEF Settled, Np
    <2>2. CASE ~(disk.tracker["np"] = None /\ \A k \in DOMAIN disk.dirs : ~Np(k))
      <3> DEFINE k == <<"np", disk.tracker["np"]>>
      <3>1. disk.tracker["np"] > 0 /\ k \in DOMAIN disk.dirs /\ Whole(disk.dirs[k]) /\ Newest(k)
        BY <1>4, <2>2 DEF Settled, Exists
      <3>2. k \in DOMAIN disk'.dirs /\ disk'.dirs[k] = disk.dirs[k]
        BY <1>1, <3>1
      <3>3. Newest(k)'
        BY <1>1, <3>1 DEF Newest, Np
      <3> QED
        BY <1>1, <3>1, <3>2, <3>3 DEF Settled, Exists, Whole, Newest, Np, Files, Shard, Common, Metadata, Marker
    <2> QED
      BY <2>1, <2>2
  <1> QED
    BY <1>2, <1>3, <1>4

\* cleanup_old_non_persistent_checkpoint.
LEMMA CleanupTracker ==
    ASSUME IInv, TInv, Cleanup
    PROVE  TInv'
  <1> DEFINE nps == {k \in DOMAIN disk.dirs : k[1] = "np"}
             old == ToRemove(nps)
  <1>1. /\ Doing("cleanup") /\ Did /\ UNCHANGED <<config, calls, hit>>
        /\ config.async => removing' = removing \cup old /\ UNCHANGED disk
        /\ ~config.async => disk' = Without(old) /\ UNCHANGED removing
    BY DEF Cleanup
  <1>2. \A k \in old : Np(k) /\ \E d \in DOMAIN disk.dirs : Np(d) /\ d[2] > k[2]
    BY DEF ToRemove, Np
  <1>3. \A k \in old : k \in DOMAIN disk.dirs /\ Np(k) /\ ~Newest(k)
    <2> SUFFICES ASSUME NEW k \in old PROVE k \in DOMAIN disk.dirs /\ Np(k) /\ ~Newest(k)
      OBVIOUS
    <2>1. k \in DOMAIN disk.dirs
      BY DEF ToRemove
    <2>2. PICK d \in DOMAIN disk.dirs : Np(d) /\ d[2] > k[2]
      BY <1>2
    <2>3. k[2] \in Nat /\ d[2] \in Nat
      BY <2>1 DEF IInv, DiskForm, Names
    <2> QED
      BY <1>2, <2>1, <2>2, <2>3 DEF Newest
  <1> HIDE DEF old, nps
  <1>4. /\ job.state = "up" /\ ~Loading /\ ~Loading' /\ job.iter \in Nat
        /\ job.todo # <<>> /\ job.todo[1].op = "cleanup"
        /\ job'.state = job.state /\ job'.start = job.start /\ job'.iter = job.iter
        /\ \A k \in 1 .. Len(job'.todo) : k + 1 \in 1 .. Len(job.todo) /\ job'.todo[k] = job.todo[k + 1]
        /\ TodoOf(job'.todo, job'.iter) /\ Fresh(job'.todo)
    BY <1>1, StepFacts
  <1>5. config' \in Configs /\ TodoInv' /\ HeadInv'
    <2>1. config' \in Configs
      BY <1>1 DEF TInv
    <2>2. TodoInv'
      BY <1>1, <1>4 DEF TodoInv, TodoOf, Chained, OneTracker, StepOf
    <2>3. HeadInv'
      BY <1>4 DEF Fresh, HeadInv, Ready, Later, UnderWay
    <2> QED
      BY <2>1, <2>2, <2>3
  <1>6. \A c : Pending(c)' <=> Pending(c)
    BY <1>1, <1>4 DEF Pending, Fresh, Later, UnderWay
  <1>7. disk'.tracker = disk.tracker
    BY <1>1, Removed DEF IInv
  <1>8. OrderInv'
    BY <1>1, <1>4, <1>7 DEF TInv, OrderInv
  <1>9. CASE config.async
    <2>1. UNCHANGED disk /\ removing' = removing \cup old
      BY <1>1, <1>9
    <2>2. UpInv'
      BY <1>1, <1>4, <1>9, <2>1 DEF TInv, UpInv
    <2>3. CallsInv'
      BY <1>1, <1>4, <2>1, SameDisk, CallsStay DEF TInv
    <2>4. RemovingInv'
      <3>1. \A k \in old : k \in Names
        BY <1>3 DEF IInv, DiskForm
      <3> QED
        BY <1>2, <2>1, <3>1 DEF TInv, RemovingInv, Np
    <2>5. FilesInv' /\ TrackerComplete' /\ (Settled => Settled')
      BY <1>1, <2>1, FilesSame DEF TInv
    <2>6. NpInv'
      <3>1. \A c : Newest(c)' <=> Newest(c)
        BY <1>4, <2>1, SameDisk
      <3> QED
        BY <1>1, <1>4, <1>6, <2>1, <2>5, <3>1 DEF TInv, NpInv, Np
    <2> QED
      BY <1>5, <1>8, <2>2, <2>3, <2>4, <2>5, <2>6 DEF TInv
  <1>10. CASE ~config.async
    <2>1. disk' = Without(old) /\ UNCHANGED removing /\ calls = <<>> /\ removing = {}
      BY <1>1, <1>10 DEF TInv, UpInv
    <2>2. UpInv'
      BY <1>1, <1>4, <1>10, <2>1 DEF TInv, UpInv
    <2>3. CallsInv' /\ RemovingInv'
      BY <1>1, <2>1 DEF CallsInv, RemovingInv
    <2>4. FilesInv' /\ TrackerComplete' /\ (Settled => Settled')
      BY <1>1, <1>3, <2>1, RemovedRest DEF IInv
    <2>5. NpInv'
      <3> SUFFICES ASSUME ~hit PROVE NpInv'
        BY <1>1 DEF NpInv
      <3>1. \A c : ~Pending(c)
        BY <1>4, <2>1 DEF Pending, UnderWay
      <3>2. Settled'
        BY <2>4, <3>1 DEF TInv, NpInv
      <3>3. DOMAIN disk'.dirs \subseteq DOMAIN disk.dirs
        BY <2>1, Removed DEF IInv
      <3> QED
        BY <1>1, <1>4, <1>6, <1>7, <3>1, <3>2, <3>3 DEF TInv, NpInv, Np
    <2> QED
      BY <1>5, <1>8, <2>2, <2>3, <2>4, <2>5 DEF TInv
  <1> QED
    BY <1>9, <1>10

\* The next step of a save is one of a checkpoint.
LEMMA HeadNamed ==
    ASSUME IInv, job.todo # <<>>, job.todo[1].op \in UnderWay
    PROVE  job.todo[1].ckpt \in Names
  <1>1. ~Loading
    BY DEF Loading, Todo, UnderWay
  <1>2. job.todo \in Seq(Steps(job.iter))
    BY <1>1 DEF IInv, JobInv
  <1>3. job.todo[1] \in Steps(job.iter)
    BY <1>2
  <1> QED
    BY <1>3 DEF Steps

\* The thread of an asynchronous cleanup.
LEMMA RemoveTracker ==
    ASSUME IInv, TInv, NEW old \in removing, Remove(old)
    PROVE  TInv'
  <1>1. /\ removing' = removing \ {old} /\ disk' = Without({old})
        /\ UNCHANGED <<config, job, calls, hit>>
    BY DEF Remove
  <1>2. PICK newer \in DOMAIN disk.dirs : Np(old) /\ Np(newer) /\ newer[2] > old[2]
    BY DEF TInv, RemovingInv
  <1>3. /\ DOMAIN disk'.dirs = DOMAIN disk.dirs \ {old} /\ disk'.tracker = disk.tracker
        /\ \A k \in DOMAIN disk.dirs \ {old} : disk'.dirs[k] = disk.dirs[k]
    BY <1>1, Removed DEF IInv
  <1>4. old[2] \in Nat /\ \A k \in DOMAIN disk.dirs : k[2] \in Nat
    BY DEF IInv, DiskForm, Names, TInv, RemovingInv
  <1>5. ~Newest(old) /\ old # newer /\ newer \in DOMAIN disk'.dirs
    BY <1>2, <1>3, <1>4 DEF Newest
  <1>6. /\ \A c \in Names : Newest(c)' <=> Newest(c)
        /\ \A c \in Names : Kept(c)' <=> Kept(c)
        /\ \A c : Kept(c) => c # old
    <2>1. ASSUME NEW c \in Names PROVE Newest(c)' <=> Newest(c)
      <3>1. c[2] \in Nat /\ newer[2] \in Nat
        BY <1>4 DEF Names
      <3>2. Newest(c)' => old[2] <= c[2]
        BY <1>2, <1>4, <1>5, <3>1 DEF Newest
      <3> QED
        BY <1>3, <3>2 DEF Newest, Np
    <2>2. ASSUME NEW c \in Names PROVE Kept(c)' <=> Kept(c)
      BY <2>1 DEF Kept
    <2>3. \A c : Kept(c) => c # old
      BY <1>2, <1>5 DEF Kept, Np
    <2> QED
      BY <2>1, <2>2, <2>3
  <1>7. \A c, gs : c # old /\ Holds(c, gs) => Holds(c, gs)'
    BY <1>1, <1>3 DEF Holds, Exists
  <1>8. config' \in Configs /\ UpInv' /\ TodoInv'
    <2>1. config' \in Configs /\ UpInv'
      BY <1>1 DEF TInv, UpInv, Loading, Todo, NoCkpt
    <2>2. TodoInv'
      BY <1>1 DEF TInv, TodoInv, TodoOf, Chained, OneTracker, StepOf
    <2> QED
      BY <2>1, <2>2
  <1>9. HeadInv'
    <2> SUFFICES ASSUME job.todo # <<>> PROVE Ready(job.todo[1])'
      BY <1>1 DEF HeadInv
    <2>1. PICK next : next = job.todo[1]
      OBVIOUS
    <2>2. Ready(next)
      BY <2>1 DEF TInv, HeadInv
    <2>3. next.op \in UnderWay => next.ckpt \in Names
      BY <2>1, HeadNamed
    <2>4. Ready(next)'
      <3>1. next.op \in {"exit", "done"} => calls' = <<>>
        BY <1>1, <2>2 DEF Ready
      <3>2. ASSUME next.op = "common", Kept(next.ckpt)'
            PROVE  (Exists(next.ckpt) /\ DOMAIN disk.dirs[next.ckpt].files = {})'
        <4>1. Kept(next.ckpt) /\ next.ckpt # old
          BY <1>6, <2>3, <3>2 DEF UnderWay
        <4>2. next.ckpt \in DOMAIN disk.dirs /\ DOMAIN disk.dirs[next.ckpt].files = {}
          BY <2>2, <3>2, <4>1 DEF Ready, Exists
        <4> QED
          BY <1>3, <4>1, <4>2 DEF Exists
      <3>3. ASSUME next.op \in UnderWay \ {"common"}, Kept(next.ckpt)'
            PROVE  Holds(next.ckpt, FilesBefore(next.op))'
        <4>1. Kept(next.ckpt) /\ next.ckpt # old
          BY <1>6, <2>3, <3>3
        <4>2. PICK gs : gs = FilesBefore(next.op)
          OBVIOUS
        <4>3. Holds(next.ckpt, gs)'
          BY <1>7, <2>2, <3>3, <4>1, <4>2 DEF Ready
        <4> QED
          BY <4>2, <4>3 DEF Holds, Exists, FilesBefore, Files, Shards, Shard, Common, Metadata, Marker
      <3> QED
        BY <3>1, <3>2, <3>3 DEF Ready, UnderWay
    <2> QED
      BY <1>1, <2>1, <2>4
  <1>10. CallsInv'
    <2>1. \A k \in 1 .. Len(calls) : calls[k].ckpt \in Names
      BY CallOf
    <2> SUFFICES ASSUME NEW k \in 1 .. Len(calls)
                 PROVE  /\ calls[k].ckpt[2] > 0
                        /\ Kept(calls[k].ckpt)' =>
                              Holds(calls[k].ckpt, {Common} \cup {Shard(r) : r \in Ranks \ calls[k].running})'
      BY <1>1 DEF CallsInv, Kept, Newest, Np, Holds, Exists, Common, Shard
    <2>2. PICK c \in Names : c = calls[k].ckpt
      BY <2>1
    <2>3. PICK gs : gs = {Common} \cup {Shard(r) : r \in Ranks \ calls[k].running}
      OBVIOUS
    <2>4. c[2] > 0 /\ (Kept(c) => Holds(c, gs))
      BY <2>2, <2>3 DEF TInv, CallsInv
    <2>5. Kept(c)' => Holds(c, gs)'
      BY <1>6, <1>7, <2>4
    <2> QED
      BY <1>1, <2>2, <2>3, <2>4, <2>5 DEF Kept, Newest, Np, Holds, Exists, Common, Shard
  <1>11. RemovingInv'
    <2> SUFFICES ASSUME NEW k \in removing, k # old
                 PROVE  k \in Names /\ Np(k) /\ \E d \in DOMAIN disk'.dirs : Np(d) /\ d[2] > k[2]
      BY <1>1 DEF RemovingInv, Np, Names, Kinds
    <2>1. PICK d \in DOMAIN disk.dirs : k \in Names /\ Np(k) /\ Np(d) /\ d[2] > k[2]
      BY DEF TInv, RemovingInv
    <2>2. CASE d = old
      <3>1. k[2] \in Nat /\ newer[2] \in Nat
        BY <1>4, <2>1 DEF Names
      <3>2. newer[2] > k[2]
        BY <1>2, <1>4, <2>1, <2>2, <3>1
      <3> QED
        BY <1>2, <1>5, <2>1, <3>2
    <2>3. CASE d # old
      BY <1>3, <2>1, <2>3
    <2> QED
      BY <2>2, <2>3
  <1>12. FilesInv' /\ TrackerComplete' /\ (Settled => Settled')
    BY <1>1, <1>2, <1>5, RemovedRest DEF IInv
  <1>13. OrderInv'
    BY <1>1, <1>3 DEF TInv, OrderInv, Loading, Todo, NoCkpt
  <1>14. NpInv'
    <2>1. \A c : Pending(c)' <=> Pending(c)
      BY <1>1 DEF Pending
    <2> QED
      BY <1>1, <1>3, <1>6, <1>12, <2>1 DEF TInv, NpInv, Np, Loading, Todo, NoCkpt
  <1> QED
    BY <1>8, <1>9, <1>10, <1>11, <1>12, <1>13, <1>14 DEF TInv

-----------------------------------------------------------------------------
(* A writer ends, a directory is made, a save is finalized.                *)

LEMMA NewRunning ==
    ASSUME NEW call, NEW a, NEW b, NEW c, call = [ckpt |-> a, running |-> b]
    PROVE  [call EXCEPT !.running = c] = [ckpt |-> a, running |-> c]
  OBVIOUS

\* A call has fewer writers.
LEMMA CallEnds ==
    ASSUME NEW k \in 1 .. Len(calls), calls \in Seq(Call), NEW r,
           calls' = [calls EXCEPT ![k].running = @ \ {r}]
    PROVE  /\ Len(calls') = Len(calls)
           /\ \A j \in 1 .. Len(calls) : /\ calls'[j].ckpt = calls[j].ckpt
                                         /\ j # k => calls'[j] = calls[j]
           /\ calls'[k].running = calls[k].running \ {r}
  <1>1. calls[k] \in Call
    OBVIOUS
  <1>2. calls[k] = [ckpt |-> calls[k].ckpt, running |-> calls[k].running]
    BY <1>1 DEF Call
  <1>3. PICK call : call = [ckpt |-> calls[k].ckpt, running |-> calls[k].running \ {r}]
    OBVIOUS
  <1>4. [calls[k] EXCEPT !.running = @ \ {r}] = call
    <2>1. PICK old, a, b, c : old = calls[k] /\ a = calls[k].ckpt /\ b = calls[k].running /\ c = calls[k].running \ {r}
      OBVIOUS
    <2>2. old = [ckpt |-> a, running |-> b] /\ call = [ckpt |-> a, running |-> c]
      BY <1>2, <1>3, <2>1
    <2>3. [old EXCEPT !.running = c] = call
      BY <2>2, NewRunning
    <2> QED
      BY <2>1, <2>3
  <1>5. calls' = [calls EXCEPT ![k] = call]
    BY <1>4
  <1>6. /\ Len(calls') = Len(calls) /\ calls'[k] = call
        /\ \A j \in 1 .. Len(calls) : j # k => calls'[j] = calls[j]
    BY <1>5
  <1>7. call.ckpt = calls[k].ckpt /\ call.running = calls[k].running \ {r}
    BY <1>3
  <1> QED
    BY <1>6, <1>7

LEMMA WriterEndsTracker ==
    ASSUME IInv, TInv, "async" \notin WritesFail,
           NEW k \in DOMAIN calls, NEW r \in Ranks, WriterEnds(k, r)
    PROVE  TInv'
  <1>0. calls \in Seq(Call) /\ Len(calls) \in Nat /\ k \in 1 .. Len(calls)
    BY DEF IInv, CallsForm
  <1>1. PICK ckpt \in Names : ckpt = calls[k].ckpt
    BY <1>0, CallOf
  <1>2. PICK ok \in BOOLEAN :
            /\ ok => Exists(ckpt)
            /\ ~ok => ~Exists(ckpt)
            /\ disk' = IF ok THEN WithFile(ckpt, Shard(r)) ELSE disk
    BY <1>1 DEF WriterEnds
  <1>3. /\ calls' = [calls EXCEPT ![k].running = @ \ {r}]
        /\ UNCHANGED <<config, job, removing, hit>>
    BY DEF WriterEnds
  <1>4. /\ Len(calls') = Len(calls)
        /\ \A j \in 1 .. Len(calls) : calls'[j].ckpt = calls[j].ckpt /\ (j # k => calls'[j] = calls[j])
        /\ calls'[k].running = calls[k].running \ {r}
    BY <1>0, <1>3, CallEnds
  <1>5. calls # <<>> /\ job.state = "up" /\ ~Loading /\ config.async /\ job.start \in Nat /\ job.start > 0
    BY <1>0, Configured DEF TInv, UpInv
  <1> DEFINE fs == IF ok THEN {Shard(r)} ELSE {}
  <1>6. Wrote(ckpt, fs) /\ fs \in SUBSET Files
    <2>1. fs \in SUBSET Files
      BY DEF Files
    <2>2. CASE ok
      <3>1. disk' = WithFiles(ckpt, {Shard(r)})
        BY <1>2, <2>2, OneFile
      <3> QED
        BY <2>1, <2>2, <3>1, WithFilesWrote DEF IInv
    <2>3. CASE ~ok
      BY <1>2, <2>1, <2>3, NothingWrote
    <2> QED
      BY <2>2, <2>3
  <1>7. Kept(ckpt) => /\ Holds(ckpt, {Common} \cup {Shard(x) : x \in Ranks \ calls[k].running})
                      /\ ok
    BY <1>0, <1>1, <1>2 DEF TInv, CallsInv, Holds
  <1>8. ASSUME ckpt[1] = "p", Exists(ckpt) PROVE Own(ckpt)
    <2>1. Holds(ckpt, {Common})
      BY <1>7, <1>8 DEF Kept, Holds
    <2> QED
      BY <1>8, <2>1 DEF Holds, Own, Exists, TInv, FilesInv
  <1> HIDE DEF fs
  <1>9. /\ \A c : Newest(c)' <=> Newest(c)
        /\ \A c : Kept(c)' <=> Kept(c)
        /\ \A c, gs : Holds(c, gs) => Holds(c, gs)'
        /\ \A gs : Holds(ckpt, gs) => Holds(ckpt, gs \cup fs)'
        /\ DOMAIN disk'.dirs = DOMAIN disk.dirs /\ disk'.tracker = disk.tracker
    BY <1>3, <1>6, WroteKeeps DEF Wrote
  <1>10. config' \in Configs /\ UpInv' /\ TodoInv'
    <2>1. config' \in Configs /\ UpInv'
      BY <1>3, <1>5 DEF TInv, UpInv, Loading, Todo, NoCkpt
    <2>2. TodoInv'
      BY <1>3 DEF TInv, TodoInv, TodoOf, Chained, OneTracker, StepOf
    <2> QED
      BY <2>1, <2>2
  <1>11. HeadInv'
    <2> SUFFICES ASSUME job.todo # <<>> PROVE Ready(job.todo[1])'
      BY <1>3 DEF HeadInv
    <2>1. PICK next : next = job.todo[1]
      OBVIOUS
    <2>2. Ready(next)
      BY <2>1 DEF TInv, HeadInv
    <2>3. next.op \notin {"exit", "done"}
      BY <1>5, <2>2 DEF Ready
    <2>4. ASSUME next.op = "common", Kept(next.ckpt)'
          PROVE  (Exists(next.ckpt) /\ DOMAIN disk.dirs[next.ckpt].files = {})'
      <3>1. next.ckpt \in DOMAIN disk.dirs /\ DOMAIN disk.dirs[next.ckpt].files = {} /\ Kept(next.ckpt)
        BY <1>9, <2>2, <2>4 DEF Ready, Exists
      <3>2. next.ckpt # ckpt
        BY <1>7, <3>1 DEF Holds
      <3> QED
        BY <1>6, <3>1, <3>2 DEF Wrote, Exists
    <2>5. ASSUME next.op \in UnderWay \ {"common"}, Kept(next.ckpt)'
          PROVE  Holds(next.ckpt, FilesBefore(next.op))'
      <3>1. PICK gs : gs = FilesBefore(next.op)
        OBVIOUS
      <3>2. Holds(next.ckpt, gs)'
        BY <1>9, <2>2, <2>5, <3>1 DEF Ready
      <3> QED
        BY <3>1, <3>2 DEF Holds, Exists, FilesBefore, Files, Shards, Shard, Common, Metadata, Marker
    <2>6. Ready(next)'
      BY <2>3, <2>4, <2>5 DEF Ready, UnderWay
    <2> QED
      BY <1>3, <2>1, <2>6
  <1>12. CallsInv'
    <2> SUFFICES ASSUME NEW j \in 1 .. Len(calls)
                 PROVE  /\ calls'[j].ckpt[2] > 0
                        /\ Kept(calls[j].ckpt)' =>
                              Holds(calls[j].ckpt, {Common} \cup {Shard(x) : x \in Ranks \ calls[j].running})'
      BY <1>4 DEF CallsInv, Kept, Newest, Np, Holds, Exists, Common, Shard
    <2>1. PICK call : call = calls'[j]
      OBVIOUS
    <2>2. PICK gs : gs = {Common} \cup {Shard(x) : x \in Ranks \ call.running}
      OBVIOUS
    <2>3. call.ckpt = calls[j].ckpt /\ call.ckpt[2] > 0
      BY <1>4, <2>1 DEF TInv, CallsInv
    <2>4. Kept(call.ckpt)' => Holds(call.ckpt, gs)'
      <3>1. CASE j = k
        <4>1. call.ckpt = ckpt /\ call.running = calls[k].running \ {r}
          BY <1>1, <1>4, <2>1, <2>3, <3>1
        <4>2. PICK old : old = {Common} \cup {Shard(x) : x \in Ranks \ calls[k].running}
          OBVIOUS
        <4>3. Kept(ckpt)' => Holds(ckpt, old \cup fs)' /\ fs = {Shard(r)}
          BY <1>7, <1>9, <4>2 DEF fs
        <4>4. gs \subseteq old \cup {Shard(r)}
          BY <2>2, <4>1, <4>2
        <4> QED
          BY <4>1, <4>3, <4>4 DEF Holds
      <3>2. CASE j # k
        <4>1. call = calls[j]
          BY <1>4, <2>1, <3>2
        <4>2. Kept(call.ckpt) => Holds(call.ckpt, gs)
          BY <2>2, <4>1 DEF TInv, CallsInv
        <4> QED
          BY <1>9, <4>2
      <3> QED
        BY <3>1, <3>2
    <2> QED
      BY <2>1, <2>2, <2>3, <2>4 DEF Kept, Newest, Np, Holds, Exists, Common, Shard
  <1>13. RemovingInv' /\ FilesInv'
    BY <1>3, <1>6, <1>8, <1>9, RemovingKept, WroteFiles DEF TInv
  <1>14. TrackerComplete' /\ (Settled => Settled')
    BY <1>5, <1>6, <1>13, WroteTracker DEF TInv
  <1>15. OrderInv'
    <2>1. \A j \in 1 .. Len(calls') : calls'[j].ckpt = calls[j].ckpt /\ j \in 1 .. Len(calls)
      BY <1>4
    <2> QED
      BY <1>3, <1>9, <2>1 DEF TInv, OrderInv, Loading, Todo, NoCkpt
  <1>16. NpInv'
    <2>1. \A c : Pending(c)' <=> Pending(c)
      BY <1>3, <1>4 DEF Pending
    <2> QED
      BY <1>3, <1>9, <1>14, <2>1 DEF TInv, NpInv, Np, Loading, Todo, NoCkpt
  <1> QED
    BY <1>10, <1>11, <1>12, <1>13, <1>14, <1>15, <1>16 DEF TInv

LEMMA MakeDirectoryTracker ==
    ASSUME IInv, TInv, MakeDirectory
    PROVE  TInv'
  <1>0. PICK ckpt : ckpt = Ckpt
    OBVIOUS
  <1>1. /\ Doing("mkdir") /\ Did /\ UNCHANGED <<config, calls, removing, hit>>
        /\ Exists(ckpt) => DOMAIN disk.dirs[ckpt].files = {}
        /\ disk' = IF Exists(ckpt) THEN disk
                   ELSE [disk EXCEPT !.dirs = [k \in DOMAIN @ \cup {ckpt} |->
                            IF k = ckpt THEN [files |-> [f \in {} |-> 0], args |-> 0] ELSE @[k]]]
    BY <1>0 DEF MakeDirectory, Blocked
  <1>2. /\ job.state = "up" /\ ~Loading /\ ~Loading' /\ job.iter \in Nat
        /\ job.todo # <<>> /\ job.todo[1].op = "mkdir" /\ job.todo[1].ckpt = ckpt /\ ckpt \in Names
        /\ StepOf(job.todo[1], job.iter)
        /\ job'.state = job.state /\ job'.start = job.start /\ job'.iter = job.iter
        /\ \A k \in 1 .. Len(job'.todo) : k + 1 \in 1 .. Len(job.todo) /\ job'.todo[k] = job.todo[k + 1]
        /\ TodoOf(job'.todo, job'.iter)
        /\ job'.todo # <<>> /\ job'.todo[1].op \in UnderWay /\ Linked(job.todo[1], job'.todo[1])
    BY <1>0, <1>1, StepFacts DEF Going
  <1>3. PICK next : next = job'.todo[1] /\ next.op = "common" /\ next.ckpt = ckpt
    BY <1>2 DEF Linked, Later, Links
  <1>4. ckpt[2] = job.iter /\ (Np(ckpt) => config.np # 0)
    BY <1>2 DEF StepOf, Np
  <1>5. /\ DOMAIN disk'.dirs = DOMAIN disk.dirs \cup {ckpt} /\ disk'.tracker = disk.tracker
        /\ DOMAIN disk'.dirs[ckpt].files = {}
        /\ \A k \in DOMAIN disk.dirs : k # ckpt => disk'.dirs[k] = disk.dirs[k]
        /\ Exists(ckpt) => disk' = disk
    <2>1. CASE Exists(ckpt)
      BY <1>1, <2>1 DEF Exists
    <2>2. CASE ~Exists(ckpt)
      <3>1. disk'.dirs = [k \in DOMAIN disk.dirs \cup {ckpt} |->
                            IF k = ckpt THEN [files |-> [f \in {} |-> 0], args |-> 0] ELSE disk.dirs[k]]
        BY <1>1, <2>2 DEF IInv, DiskForm
      <3>2. disk'.tracker = disk.tracker
        BY <1>1, <2>2 DEF IInv, DiskForm
      <3>3. disk'.dirs[ckpt] = [files |-> [f \in {} |-> 0], args |-> 0]
        BY <3>1
      <3> QED
        BY <2>2, <3>1, <3>2, <3>3
    <2> QED
      BY <2>1, <2>2
  <1>6. /\ \A c : Newest(c)' => Newest(c)
        /\ \A c : Kept(c)' => Kept(c)
        /\ \A c, gs : Holds(c, gs) => Holds(c, gs)'
    <2>1. \A c : Newest(c)' => Newest(c)
      BY <1>5 DEF Newest
    <2>2. \A c : Kept(c)' => Kept(c)
      BY <2>1 DEF Kept
    <2>3. ASSUME NEW c, NEW gs, Holds(c, gs) PROVE Holds(c, gs)'
      <3>1. CASE c = ckpt
        <4>1. Exists(ckpt) /\ gs = {}
          BY <1>1, <2>3, <3>1 DEF Holds
        <4> QED
          BY <1>5, <3>1, <4>1 DEF Holds, Exists
      <3>2. CASE c # ckpt
        BY <1>2, <1>5, <2>3, <3>2 DEF Holds, Exists
      <3> QED
        BY <3>1, <3>2
    <2> QED
      BY <2>1, <2>2, <2>3
  <1>7. config' \in Configs /\ UpInv' /\ TodoInv' /\ HeadInv'
    <2>1. config' \in Configs /\ UpInv'
      BY <1>1, <1>2 DEF TInv, UpInv
    <2>2. TodoInv'
      BY <1>1, <1>2 DEF TodoInv, TodoOf, Chained, OneTracker, StepOf
    <2>3. Ready(next)'
      BY <1>3, <1>5 DEF Ready, Exists, UnderWay
    <2>4. HeadInv'
      BY <1>3, <2>3 DEF HeadInv, Ready, Exists, UnderWay, Kept, Newest, Np
    <2> QED
      BY <2>1, <2>2, <2>4
  <1>8. CallsInv'
    BY <1>1, <1>6, CallsStay DEF TInv
  <1>9. RemovingInv'
    BY <1>1, <1>5 DEF TInv, RemovingInv, Np, Names, Kinds
  <1>10. FilesInv'
    <2> SUFFICES ASSUME NEW k \in DOMAIN disk'.dirs
                 PROVE  /\ DOMAIN disk'.dirs[k].files \subseteq Files
                        /\ k[1] = "p" => \A f, g \in DOMAIN disk'.dirs[k].files :
                                            disk'.dirs[k].files[f] = disk'.dirs[k].files[g]
                        /\ Np(k) => config.np # 0
      BY <1>1 DEF FilesInv, Np, Files, Shard, Common, Metadata, Marker
    <2>1. CASE k = ckpt
      BY <1>4, <1>5, <2>1
    <2>2. CASE k # ckpt
      BY <1>5, <2>2 DEF TInv, FilesInv
    <2> QED
      BY <2>1, <2>2
  <1>11. OrderInv'
    BY <1>1, <1>2, <1>5 DEF TInv, OrderInv
  <1>12. \A k \in DOMAIN disk.dirs : Whole(disk.dirs[k]) =>
            k \in DOMAIN disk'.dirs /\ disk'.dirs[k] = disk.dirs[k] /\ Whole(disk.dirs[k])'
    <2> SUFFICES ASSUME NEW k \in DOMAIN disk.dirs, Whole(disk.dirs[k])
                 PROVE  k \in DOMAIN disk'.dirs /\ disk'.dirs[k] = disk.dirs[k] /\ Whole(disk.dirs[k])'
      OBVIOUS
    <2>1. k # ckpt
      BY <1>1 DEF Whole, Files, Exists
    <2> QED
      BY <1>5, <2>1 DEF Whole, Files, Shard, Common, Metadata, Marker
  <1>13. TrackerComplete'
    <2> SUFFICES ASSUME disk.tracker["p"] > 0 PROVE TrackerComplete'
      BY <1>5 DEF TrackerComplete
    <2> DEFINE k == <<"p", disk.tracker["p"]>>
    <2>1. k \in DOMAIN disk.dirs /\ Whole(disk.dirs[k]) /\ \A f, g \in Files : disk.dirs[k].files[f] = disk.dirs[k].files[g]
      BY DEF TInv, TrackerComplete, Exists
    <2>2. k \in DOMAIN disk'.dirs /\ disk'.dirs[k] = disk.dirs[k]
      BY <1>12, <2>1
    <2> QED
      BY <1>5, <2>1, <2>2 DEF TrackerComplete, Exists, Whole, Files, Shard, Common, Metadata, Marker
  <1>14. NpInv'
    <2> SUFFICES ASSUME ~hit PROVE NpInv'
      BY <1>1 DEF NpInv
    <2>1. disk'.tracker["p"] # Emptied /\ disk'.tracker["np"] # Emptied
      BY <1>5 DEF TInv, NpInv
    <2>2. \A k \in DOMAIN disk'.dirs : Np(k) => k[2] <= job.iter
      BY <1>2, <1>4, <1>5 DEF TInv, NpInv
    <2>3. \A c : /\ Pending(c)' <=> (c = ckpt \/ \E k \in 1 .. Len(calls) : calls[k].ckpt = c)
                 /\ Pending(c) <=> \E k \in 1 .. Len(calls) : calls[k].ckpt = c
      BY <1>1, <1>2, <1>3 DEF Pending, UnderWay
    <2>4. CASE Np(ckpt)
      <3>1. Newest(ckpt)'
        BY <1>4, <2>2 DEF Newest, Np
      <3> QED
        BY <1>2, <2>1, <2>2, <2>3, <2>4, <3>1 DEF NpInv, Np
    <2>5. CASE ~Np(ckpt)
      <3>1. \A c : Newest(c)' <=> Newest(c)
        BY <1>5, <2>5 DEF Newest, Np
      <3>2. \A c : Np(c) => (Pending(c)' <=> Pending(c))
        BY <2>3, <2>5
      <3>3. ASSUME Settled PROVE Settled'
        <4>1. CASE disk.tracker["np"] = None /\ \A k \in DOMAIN disk.dirs : ~Np(k)
          BY <1>5, <2>5, <4>1 DEF Settled, Np
        <4>2. CASE ~(disk.tracker["np"] = None /\ \A k \in DOMAIN disk.dirs : ~Np(k))
          <5>0. PICK k : k = <<"np", disk.tracker["np"]>>
            OBVIOUS
          <5>1. disk.tracker["np"] > 0 /\ k \in DOMAIN disk.dirs /\ Whole(disk.dirs[k]) /\ Newest(k)
            BY <3>3, <4>2, <5>0 DEF Settled, Exists
          <5>2. k \in DOMAIN disk'.dirs /\ Whole(disk.dirs[k])' /\ Newest(k)'
            BY <1>12, <3>1, <5>1
          <5> QED
            BY <1>5, <5>0, <5>1, <5>2 DEF Settled, Exists, Whole, Newest, Np, Files, Shard, Common, Metadata, Marker
        <4> QED
          BY <4>1, <4>2
      <3> QED
        BY <1>2, <2>1, <2>2, <3>1, <3>2, <3>3 DEF TInv, NpInv, Np
    <2> QED
      BY <2>4, <2>5
  <1> QED
    BY <1>7, <1>8, <1>9, <1>10, <1>11, <1>13, <1>14 DEF TInv

\* The steps that finalize an asynchronous save.
LEMMA FinalizationOf ==
    ASSUME NEW ckpt \in Names, ckpt[2] > 0, NEW i, config.async
    PROVE  LET todo == Ops(Finalization, ckpt)
           IN  /\ todo \in Seq([op : LoopOps, ckpt : Names]) /\ TodoOf(todo, i) /\ Len(todo) = 3
               /\ todo[1].op = ".metadata"
               /\ \A k \in 1 .. 3 : todo[k].ckpt = ckpt
  <1> DEFINE todo == Ops(Finalization, ckpt)
  <1>1. /\ Finalization \in Seq(LoopOps) /\ Len(Finalization) = 3 /\ DOMAIN Finalization = 1 .. 3
        /\ Finalization[1] = ".metadata" /\ Finalization[2] = "metadata.json" /\ Finalization[3] = "tracker"
    BY DEF Finalization, LoopOps, SaveOps
  <1>2. todo \in Seq([op : LoopOps, ckpt : Names])
    BY <1>1, OpsForm
  <1>3. Len(todo) = 3 /\ \A k \in 1 .. 3 : todo[k].op = Finalization[k] /\ todo[k].ckpt = ckpt
    BY <1>1 DEF Ops, Todo
  <1> HIDE DEF todo
  <1>4. \A k \in 1 .. Len(todo) : k = 1 \/ k = 2 \/ k = 3
    BY <1>3
  <1>5. /\ todo[1].op = ".metadata" /\ todo[2].op = "metadata.json" /\ todo[3].op = "tracker"
        /\ todo[1].ckpt = ckpt /\ todo[2].ckpt = ckpt /\ todo[3].ckpt = ckpt
    BY <1>1, <1>3
  <1>6. Chained(todo)
    <2> SUFFICES ASSUME NEW k \in 1 .. Len(todo)
                 PROVE  /\ k + 1 <= Len(todo) => Linked(todo[k], todo[k + 1])
                        /\ todo[k].op \in Going => k + 1 <= Len(todo) /\ todo[k + 1].op \in UnderWay
      BY DEF Chained
    <2>1. CASE k = 1
      BY <1>3, <1>5, <2>1 DEF Linked, Links, UnderWay
    <2>2. CASE k = 2
      BY <1>3, <1>5, <2>2 DEF Linked, Links, UnderWay
    <2>3. CASE k = 3
      BY <1>3, <1>5, <2>3 DEF Going
    <2> QED
      BY <1>4, <2>1, <2>2, <2>3
  <1>7. OneTracker(todo)
    BY <1>3, <1>4, <1>5 DEF OneTracker
  <1>8. \A k \in 1 .. Len(todo) : StepOf(todo[k], i)
    BY <1>4, <1>5 DEF StepOf
  <1> QED
    BY <1>2, <1>3, <1>5, <1>6, <1>7, <1>8 DEF TodoOf, todo

LEMMA FirstCall ==
    ASSUME NEW S, NEW s \in Seq(S), s # <<>>,
           NEW rest, rest = SubSeq(s, 1, 0) \o SubSeq(s, 2, Len(s))
    PROVE  Len(rest) = Len(s) - 1 /\ \A k \in 1 .. Len(rest) : k + 1 \in 1 .. Len(s) /\ rest[k] = s[k + 1]
  <1>1. SubSeq(s, 1, 0) = <<>>
    OBVIOUS
  <1>2. /\ SubSeq(s, 2, Len(s)) \in Seq(S) /\ Len(SubSeq(s, 2, Len(s))) = Len(s) - 1
        /\ \A k \in 1 .. Len(s) - 1 : SubSeq(s, 2, Len(s))[k] = s[k + 1]
    <2>1. Len(s) \in Nat /\ Len(s) >= 1
      OBVIOUS
    <2>2. SubSeq(s, 2, Len(s)) \in Seq(S)
      OBVIOUS
    <2>3. Len(SubSeq(s, 2, Len(s))) = Len(s) - 1
      <3>1. PICK n \in Nat : n = Len(s) /\ n >= 1
        BY <2>1
      <3>2. CASE n = 1
        <4>1. SubSeq(s, 2, 1) = <<>>
          OBVIOUS
        <4> QED
          BY <3>1, <3>2, <4>1
      <3>3. CASE n > 1
        <4>1. Len(SubSeq(s, 2, n)) = (n - 2) + 1
          BY <3>1, <3>3
        <4> QED
          BY <3>1, <3>3, <4>1
      <3> QED
        BY <3>1, <3>2, <3>3
    <2>4. ASSUME NEW k \in 1 .. Len(s) - 1 PROVE SubSeq(s, 2, Len(s))[k] = s[k + 1]
      BY <2>1
    <2> QED
      BY <2>2, <2>3, <2>4
  <1>3. rest = SubSeq(s, 2, Len(s))
    BY <1>1, <1>2
  <1> QED
    BY <1>2, <1>3

\* maybe_finalize_async_calls takes the oldest save out of the queue.
LEMMA FinalizeTracker ==
    ASSUME IInv, IInv', TInv, Finalize
    PROVE  TInv'
  <1>1. PICK op \in {"poll", "flush"} : Doing(op)
    BY DEF Finalize
  <1>2. calls \in Seq(Call) /\ Len(calls) \in Nat
    BY DEF IInv, CallsForm
  <1>3. PICK k \in Due : /\ calls' = SubSeq(calls, 1, k - 1) \o SubSeq(calls, k + 1, Len(calls))
                         /\ job' = [job EXCEPT !.todo = Ops(Finalization, calls[k].ckpt) \o @]
    BY DEF Finalize
  <1>4. k = 1 /\ 1 \in 1 .. Len(calls) /\ calls[1].running = {} /\ calls # <<>>
    BY <1>2, <1>3 DEF Due
  <1>5. PICK ckpt \in Names : ckpt = calls[1].ckpt
    BY <1>4, CallOf
  <1>6. UNCHANGED <<config, removing, disk, hit>> /\ job' = [job EXCEPT !.todo = Ops(Finalization, ckpt) \o @]
    BY <1>3, <1>4, <1>5 DEF Finalize
  <1>7. /\ Len(calls') = Len(calls) - 1
        /\ \A j \in 1 .. Len(calls') : j + 1 \in 1 .. Len(calls) /\ calls'[j] = calls[j + 1]
    <2>1. calls' = SubSeq(calls, 1, 0) \o SubSeq(calls, 2, Len(calls))
      BY <1>3, <1>4
    <2> QED
      BY <1>2, <1>4, <2>1, FirstCall
  <1>8. ckpt[2] > 0 /\ config.async
    BY <1>4, <1>5, Configured DEF TInv, CallsInv, UpInv
  <1>9. /\ job.state = "up" /\ ~Loading /\ job.todo # <<>> /\ job.todo[1].op = op /\ JobForm
        /\ job.iter \in Nat /\ job.todo \in Seq(Steps(job.iter))
    BY <1>1, DoingNotLoading, Up
  <1> DEFINE S == [op : LoopOps, ckpt : Names]
             new == Ops(Finalization, ckpt)
             todo == new \o job.todo
  <1>10. /\ new \in Seq(S) /\ TodoOf(new, job.iter) /\ Len(new) = 3 /\ new[1].op = ".metadata"
         /\ \A j \in 1 .. 3 : new[j].ckpt = ckpt
    BY <1>8, FinalizationOf
  <1>11. job.todo \in Seq(S) /\ TodoOf(job.todo, job.iter) /\ Len(job.todo) \in Nat /\ Len(job.todo) >= 1
    <2>1. job.todo \in Seq(S)
      BY <1>9, StepsForm
    <2>2. TodoOf(job.todo, job.iter)
      BY DEF TInv, TodoInv
    <2>3. Len(job.todo) \in Nat /\ Len(job.todo) >= 1
      BY <1>9
    <2> QED
      BY <2>1, <2>2, <2>3
  <1>12. Built(job.todo, job.iter)
    <2>1. Fresh(job.todo)
      BY <1>9 DEF Fresh, Later, UnderWay
    <2>2. NoTracker(job.todo)
      <3> SUFFICES ASSUME NEW j \in 1 .. Len(job.todo), job.todo[j].op = "tracker" PROVE FALSE
        BY DEF NoTracker
      <3>1. 1 < j /\ 1 \in 1 .. Len(job.todo)
        BY <1>9, <1>11
      <3> QED
        BY <1>8, <1>9, <1>11, <3>1 DEF TodoOf, OneTracker
    <2> QED
      BY <1>11, <2>1, <2>2 DEF Built
  <1> HIDE DEF S, new
  <1>13. TodoOf(todo, job.iter)
    BY <1>10, <1>11, <1>12, JoinOf
  <1>14. /\ Len(todo) = 3 + Len(job.todo) /\ 1 \in 1 .. Len(todo)
         /\ \A j \in 1 .. 3 : todo[j] = new[j]
         /\ \A j \in 1 .. Len(job.todo) : todo[3 + j] = job.todo[j]
    <2>1. /\ Len(todo) = Len(new) + Len(job.todo)
          /\ \A j \in 1 .. Len(new) : todo[j] = new[j]
          /\ \A j \in 1 .. Len(job.todo) : todo[Len(new) + j] = job.todo[j]
      <3>1. PICK a \in Seq(S), b \in Seq(S) : a = new /\ b = job.todo
        BY <1>10, <1>11
      <3>2. /\ Len(a \o b) = Len(a) + Len(b)
            /\ \A j \in 1 .. Len(a) : (a \o b)[j] = a[j]
            /\ \A j \in 1 .. Len(b) : (a \o b)[Len(a) + j] = b[j]
        BY Concatenation
      <3> QED
        BY <3>1, <3>2
    <2> HIDE DEF todo
    <2> QED
      BY <1>10, <1>11, <2>1
  <1>15. job' = [job EXCEPT !.todo = todo]
    BY <1>6 DEF new
  <1> HIDE DEF todo
  <1>16. job'.state = "up" /\ job'.start = job.start /\ job'.iter = job.iter /\ job'.todo = todo
    BY <1>9, <1>15 DEF JobForm
  <1>17. PICK next : next = todo[1] /\ next.op = ".metadata" /\ next.ckpt = ckpt
    BY <1>10, <1>14
  <1>18. ~Loading'
    BY <1>16, <1>17 DEF Loading, Todo
  <1>19. /\ \A c : Newest(c)' <=> Newest(c)
         /\ \A c : Kept(c)' <=> Kept(c)
         /\ \A c, gs : Holds(c, gs) <=> Holds(c, gs)'
    BY <1>6, <1>16, SameDisk
  <1>20. config' \in Configs /\ UpInv' /\ TodoInv'
    <2>1. config' \in Configs /\ UpInv'
      BY <1>6, <1>8, <1>16, <1>18 DEF TInv, UpInv
    <2>2. TodoInv'
      BY <1>6, <1>13, <1>16 DEF TodoInv, TodoOf, Chained, OneTracker, StepOf
    <2> QED
      BY <2>1, <2>2
  <1>21. HeadInv'
    <2>1. PICK gs : gs = {Common} \cup {Shard(r) : r \in Ranks \ calls[1].running}
      OBVIOUS
    <2>2. gs = FilesBefore(".metadata")
      BY <1>4, <2>1 DEF FilesBefore, Shards
    <2>3. Kept(ckpt)' => Holds(ckpt, gs)'
      BY <1>4, <1>5, <1>19, <2>1 DEF TInv, CallsInv
    <2>4. Ready(next)'
      BY <1>17, <2>2, <2>3 DEF Ready, FilesBefore, Shards, Shard, Common, Holds, Exists
    <2> QED
      BY <1>16, <1>17, <2>4 DEF HeadInv, Ready, UnderWay, Kept, Newest, Np, Holds, Exists, FilesBefore,
                               Files, Shards, Shard, Common, Metadata, Marker
  <1>22. CallsInv'
    <2> SUFFICES ASSUME NEW j \in 1 .. Len(calls')
                 PROVE  /\ calls'[j].ckpt[2] > 0
                        /\ Kept(calls[j].ckpt)' =>
                              Holds(calls[j].ckpt, {Common} \cup {Shard(r) : r \in Ranks \ calls[j].running})'
      BY DEF CallsInv, Kept, Newest, Np, Holds, Exists, Common, Shard
    <2>1. PICK call : call = calls'[j] /\ call = calls[j + 1] /\ j + 1 \in 1 .. Len(calls)
      BY <1>7
    <2>2. PICK gs : gs = {Common} \cup {Shard(r) : r \in Ranks \ call.running}
      OBVIOUS
    <2>3. call.ckpt[2] > 0 /\ (Kept(call.ckpt) => Holds(call.ckpt, gs))
      BY <2>1, <2>2 DEF TInv, CallsInv
    <2>4. Kept(call.ckpt)' => Holds(call.ckpt, gs)'
      BY <1>19, <2>3
    <2> QED
      BY <2>1, <2>2, <2>3, <2>4 DEF Kept, Newest, Np, Holds, Exists, Common, Shard
  <1>23. RemovingInv' /\ FilesInv' /\ TrackerComplete' /\ (Settled => Settled')
    BY <1>6, RemovingKept, FilesSame DEF TInv
  <1>24. OrderInv'
    <2>1. /\ disk.tracker["p"] <= ckpt[2] /\ ckpt[2] <= job.iter
          /\ \A j \in 1 .. Len(calls') : ckpt[2] <= calls'[j].ckpt[2]
      <3>1. disk.tracker["p"] <= ckpt[2] /\ ckpt[2] <= job.iter
        BY <1>4, <1>5 DEF TInv, OrderInv
      <3>2. ASSUME NEW j \in 1 .. Len(calls') PROVE ckpt[2] <= calls'[j].ckpt[2]
        <4>1. j + 1 \in 1 .. Len(calls) /\ calls'[j] = calls[j + 1] /\ 1 < j + 1
          BY <1>2, <1>7
        <4> QED
          BY <1>4, <1>5, <4>1 DEF TInv, OrderInv
      <3> QED
        BY <3>1, <3>2
    <2>2. \A j \in 1 .. Len(todo) : todo[j].op = "tracker" => todo[j].ckpt = ckpt
      <3> SUFFICES ASSUME NEW j \in 1 .. Len(todo), todo[j].op = "tracker" PROVE todo[j].ckpt = ckpt
        OBVIOUS
      <3>1. CASE j \in 1 .. 3
        BY <1>10, <1>14, <3>1
      <3>2. CASE j \notin 1 .. 3
        <4>1. j - 3 \in 1 .. Len(job.todo) /\ 3 + (j - 3) = j
          BY <1>11, <1>14, <3>2
        <4>2. todo[3 + (j - 3)] = job.todo[j - 3]
          BY <1>14, <4>1
        <4> QED
          BY <1>8, <1>12, <4>1, <4>2 DEF Built, NoTracker
      <3> QED
        BY <3>1, <3>2
    <2>3. \A j \in 1 .. Len(calls') :
            /\ disk.tracker["p"] <= calls'[j].ckpt[2] /\ calls'[j].ckpt[2] <= job.iter
            /\ \A l \in 1 .. Len(calls') : j < l => calls'[j].ckpt[2] <= calls'[l].ckpt[2]
      <3> SUFFICES ASSUME NEW j \in 1 .. Len(calls')
                   PROVE  /\ disk.tracker["p"] <= calls'[j].ckpt[2] /\ calls'[j].ckpt[2] <= job.iter
                          /\ \A l \in 1 .. Len(calls') : j < l => calls'[j].ckpt[2] <= calls'[l].ckpt[2]
        OBVIOUS
      <3>1. j + 1 \in 1 .. Len(calls) /\ calls'[j] = calls[j + 1]
        BY <1>7
      <3>2. ASSUME NEW l \in 1 .. Len(calls'), j < l PROVE calls'[j].ckpt[2] <= calls'[l].ckpt[2]
        <4>1. l + 1 \in 1 .. Len(calls) /\ calls'[l] = calls[l + 1] /\ j + 1 < l + 1
          BY <1>2, <1>7, <3>2
        <4> QED
          BY <3>1, <4>1 DEF TInv, OrderInv
      <3> QED
        BY <3>1, <3>2 DEF TInv, OrderInv
    <2> QED
      BY <1>6, <1>9, <1>16, <1>18, <2>1, <2>2, <2>3 DEF TInv, OrderInv
  <1>25. NpInv'
    <2>1. ASSUME NEW c PROVE Pending(c)' <=> Pending(c)
      <3>1. Pending(c) <=> \E j \in 1 .. Len(calls) : calls[j].ckpt = c
        BY <1>9 DEF Pending, UnderWay
      <3>2. todo # <<>>
        BY <1>14
      <3>3. Pending(c)' <=> (c = ckpt \/ \E j \in 1 .. Len(calls') : calls'[j].ckpt = c)
        BY <1>16, <1>17, <3>2 DEF Pending, UnderWay
      <3>4. ASSUME NEW j \in 1 .. Len(calls), calls[j].ckpt = c
            PROVE  c = ckpt \/ \E l \in 1 .. Len(calls') : calls'[l].ckpt = c
        <4>1. CASE j = 1
          BY <1>5, <3>4, <4>1
        <4>2. CASE j # 1
          <5>1. j - 1 \in 1 .. Len(calls') /\ (j - 1) + 1 = j
            BY <1>2, <1>7, <4>2
          <5>2. calls'[j - 1] = calls[(j - 1) + 1]
            BY <1>7, <5>1
          <5> QED
            BY <3>4, <5>1, <5>2
        <4> QED
          BY <4>1, <4>2
      <3>5. (c = ckpt \/ \E j \in 1 .. Len(calls') : calls'[j].ckpt = c) => \E j \in 1 .. Len(calls) : calls[j].ckpt = c
        BY <1>4, <1>5, <1>7
      <3> QED
        BY <3>1, <3>3, <3>4, <3>5
    <2> QED
      BY <1>6, <1>9, <1>16, <1>18, <1>19, <1>23, <2>1 DEF TInv, NpInv, Np
  <1> QED
    BY <1>20, <1>21, <1>22, <1>23, <1>24, <1>25 DEF TInv

-----------------------------------------------------------------------------
(* The invariant, and what follows from it.                                *)

LEMMA InitTracker ==
    ASSUME Init
    PROVE  TInv
  <1>1. /\ config \in Configs /\ calls = <<>> /\ removing = {} /\ hit = FALSE
        /\ job = [state |-> "down", todo |-> <<>>, iter |-> 0, consumed |-> 0, mbs |-> 0, start |-> 0]
        /\ disk = [dirs |-> [k \in {} |-> [files |-> [f \in {} |-> 0], args |-> 0]],
                   tracker |-> [kind \in Kinds |-> None]]
    BY DEF Init
  <1>2. job.state = "down" /\ job.todo = <<>> /\ job.start = 0
    BY <1>1
  <1>3. disk.dirs = [k \in {} |-> [files |-> [f \in {} |-> 0], args |-> 0]] /\ disk.tracker = [kind \in Kinds |-> None]
    BY <1>1
  <1>4. DOMAIN disk.dirs = {}
    BY <1>3
  <1>5. /\ disk.tracker \in [Kinds -> Int] /\ disk.tracker["p"] = None /\ disk.tracker["np"] = None
    BY <1>3 DEF Kinds, None
  <1>6. UpInv
    BY <1>1, <1>2 DEF UpInv, Loading
  <1>7. TodoInv /\ HeadInv /\ CallsInv /\ RemovingInv /\ FilesInv
    BY <1>1, <1>2, <1>4 DEF TodoInv, TodoOf, Chained, OneTracker, HeadInv, CallsInv, RemovingInv, FilesInv
  <1>8. OrderInv
    BY <1>1, <1>2, <1>5 DEF OrderInv, None
  <1>9. NpInv
    <2>1. Settled /\ \A c : ~Pending(c)
      BY <1>1, <1>2, <1>4, <1>5 DEF Settled, Pending
    <2> QED
      BY <1>2, <1>5, <2>1 DEF NpInv, None, Emptied
  <1>10. TrackerComplete
    BY <1>5 DEF TrackerComplete, None
  <1> QED
    BY <1>1, <1>6, <1>7, <1>8, <1>9, <1>10 DEF TInv

LEMMA UnchangedTracker ==
    ASSUME IInv, TInv, UNCHANGED vars
    PROVE  TInv'
  <1>1. UNCHANGED <<config, job, calls, removing, disk, hit>>
    BY DEF vars
  <1>2. /\ \A c : Newest(c)' <=> Newest(c)
        /\ \A c : Kept(c)' <=> Kept(c)
        /\ \A c, gs : Holds(c, gs) <=> Holds(c, gs)'
    BY <1>1, SameDisk
  <1>3. config' \in Configs /\ UpInv' /\ TodoInv'
    <2>1. config' \in Configs /\ UpInv'
      BY <1>1 DEF TInv, UpInv, Loading, Todo, NoCkpt
    <2>2. TodoInv'
      BY <1>1 DEF TInv, TodoInv, TodoOf, Chained, OneTracker, StepOf
    <2> QED
      BY <2>1, <2>2
  <1>4. HeadInv'
    BY <1>1 DEF TInv, HeadInv, Ready, Kept, Newest, Np, Holds, Exists, FilesBefore, Files, Shards, Shard,
                Common, Metadata, Marker
  <1>5. CallsInv'
    BY <1>1, <1>2, CallsStay DEF TInv
  <1>6. RemovingInv' /\ FilesInv' /\ TrackerComplete' /\ (Settled => Settled')
    BY <1>1, RemovingKept, FilesSame DEF TInv
  <1>7. OrderInv'
    BY <1>1 DEF TInv, OrderInv, Loading, Todo, NoCkpt
  <1>8. NpInv'
    <2>1. \A c : Pending(c)' <=> Pending(c)
      BY <1>1 DEF Pending
    <2> QED
      BY <1>1, <1>2, <1>6, <2>1 DEF TInv, NpInv, Np, Loading, Todo, NoCkpt
  <1> QED
    BY <1>3, <1>4, <1>5, <1>6, <1>7, <1>8 DEF TInv

LEMMA NextTracker ==
    ASSUME IInv, IInv', TInv, "async" \notin WritesFail, [Next]_vars
    PROVE  TInv'
  <1>1. CASE UNCHANGED vars
    BY <1>1, UnchangedTracker
  <1>2. CASE Start \/ Crash
    BY <1>2, StartTracker, CrashTracker
  <1>3. CASE JobStep
    <2>1. CASE LoadFails \/ DirectoryNotEmpty \/ DirectoryGone \/ WriteShardsFails \/ SaveMetadataFails
      BY <2>1, FailTracker DEF LoadFails, DirectoryNotEmpty, DirectoryGone, WriteShardsFails, SaveMetadataFails
    <2>2. CASE LoadCheckpoint \/ BeginIteration \/ Rampup \/ Train \/ Leave
      BY <2>2, LoadCheckpointTracker, BeginIterationTracker, RampupTracker, TrainTracker, LeaveTracker
    <2>3. CASE Cleanup \/ MakeDirectory
      BY <2>3, CleanupTracker, MakeDirectoryTracker
    <2>4. CASE SaveCommon \/ WriteShards \/ SaveMetadata \/ SaveMarker
      BY <2>4, SaveFilesTracker
    <2>5. CASE Schedule \/ Finalize \/ Finalized \/ UpdateTracker
      BY <2>5, ScheduleTracker, FinalizeTracker, FinalizedTracker, UpdateTrackerTracker
    <2> QED
      BY <1>3, <2>1, <2>2, <2>3, <2>4, <2>5 DEF JobStep, SaveStep
  <1>4. CASE Writers
    BY <1>4, WriterEndsTracker DEF Writers
  <1>5. CASE \E ckpt \in removing : Remove(ckpt)
    BY <1>5, RemoveTracker
  <1> QED
    BY <1>1, <1>2, <1>3, <1>4, <1>5 DEF Next

\* A job that loads finds what the trackers name.
LEMMA FindsCheckpoint ==
    ASSUME IInv, TInv
    PROVE  LoadsUnlessHit
  <1> SUFFICES ASSUME job.state = "up", Doing("load"), ~hit PROVE Loadable
    BY DEF LoadsUnlessHit
  <1>1. Loading
    <2>1. job.todo # <<>> /\ Head(job.todo).op = "load"
      BY DEF Doing
    <2>2. SUFFICES ASSUME job.todo \in Seq(Steps(job.iter)) PROVE FALSE
      BY <2>1 DEF IInv, JobInv
    <2>3. Head(job.todo) \in Steps(job.iter)
      BY <2>1, <2>2
    <2> QED
      BY <2>1, <2>3 DEF Steps, LoopOps, SaveOps
  <1>2. calls = <<>>
    BY <1>1 DEF TInv, UpInv
  <1>3. \A c : ~Pending(c)
    BY <1>1, <1>2 DEF Pending, UnderWay, Loading, Todo
  <1>4. Settled /\ disk.tracker["p"] # Emptied /\ disk.tracker["np"] # Emptied
    BY <1>3 DEF TInv, NpInv
  <1>5. /\ disk.tracker["p"] \in Int /\ disk.tracker["p"] >= None
        /\ disk.tracker["np"] \in Int /\ disk.tracker["np"] >= None
    BY DEF TInv, OrderInv, Kinds
  <1>6. ~Unreadable
    BY <1>4 DEF Unreadable, None, Emptied
  <1>7. \/ Named = <<"p", disk.tracker["p"]>>
        \/ Named = <<"np", disk.tracker["np"]>> /\ disk.tracker["np"] # None
    BY DEF Named, Chosen
  <1>8. CASE Named = <<"p", disk.tracker["p"]>>
    <2>1. disk.tracker["p"] = None \/ disk.tracker["p"] > 0
      BY <1>4, <1>5 DEF None, Emptied
    <2> QED
      BY <1>6, <1>8, <2>1 DEF TInv, TrackerComplete, Loadable
  <1>9. CASE Named = <<"np", disk.tracker["np"]>> /\ disk.tracker["np"] # None
    BY <1>4, <1>6, <1>9 DEF Settled, Loadable
  <1> QED
    BY <1>7, <1>8, <1>9

\* A step leaves the tracker of the persistent checkpoints alone, advances it,
\* or a kill leaves it empty.
LEMMA TrackerStep ==
    ASSUME IInv, TInv, [Next]_vars
    PROVE  disk'.tracker["p"] = Emptied \/ disk'.tracker["p"] >= disk.tracker["p"]
  <1>1. disk.tracker \in [Kinds -> Int] /\ disk.tracker["p"] \in Int
    BY DEF TInv, OrderInv, Kinds
  <1> SUFFICES ASSUME disk'.tracker # disk.tracker
               PROVE  disk'.tracker["p"] = Emptied \/ disk'.tracker["p"] >= disk.tracker["p"]
    BY <1>1
  <1>2. DiskForm
    BY DEF IInv
  <1>3. ASSUME NEW left \in LeftBehind, disk' = left
        PROVE  disk'.tracker["p"] = Emptied \/ disk'.tracker["p"] >= disk.tracker["p"]
    <2>1. CASE Doing("tracker") /\ left = [disk EXCEPT !.tracker[Ckpt[1]] = Emptied]
      <3>1. disk'.tracker = [disk.tracker EXCEPT ![Ckpt[1]] = Emptied]
        BY <1>2, <1>3, <2>1 DEF DiskForm
      <3> QED
        BY <1>1, <3>1, TrackerSet DEF Emptied, Kinds
    <2>2. CASE ~(Doing("tracker") /\ left = [disk EXCEPT !.tracker[Ckpt[1]] = Emptied])
      <3>1. disk'.tracker = disk.tracker
        BY <1>2, <1>3, <2>2 DEF LeftBehind, DiskForm
      <3> QED
        BY <3>1
    <2> QED
      BY <2>1, <2>2
  <1>4. disk \in LeftBehind
    BY DEF LeftBehind
  <1>5. CASE UpdateTracker
    <2>1. Doing("tracker") /\ Did
      BY <1>5 DEF UpdateTracker
    <2>2. job.todo # <<>> /\ job.todo[1].op = "tracker" /\ job.todo[1].ckpt = Ckpt /\ Ckpt \in Names
          /\ Len(job.todo) \in Nat
      BY <2>1, StepFacts
    <2>3. 1 \in 1 .. Len(job.todo)
      BY <2>2
    <2>4. disk.tracker["p"] <= Ckpt[2] /\ Ckpt[2] \in Int
      BY <2>2, <2>3 DEF TInv, OrderInv, Names
    <2>5. disk'.tracker = [disk.tracker EXCEPT ![Ckpt[1]] = Ckpt[2]]
      BY <1>2, <1>5 DEF UpdateTracker, DiskForm
    <2> QED
      BY <1>1, <2>4, <2>5, TrackerSet DEF Kinds
  <1>6. CASE Cleanup \/ \E ckpt \in removing : Remove(ckpt)
    BY <1>2, <1>6, Removed DEF Cleanup, Remove
  <1>7. CASE MakeDirectory \/ SaveCommon
    <2>1. disk'.tracker = disk.tracker
      BY <1>2, <1>7, SaveCommonWrote DEF MakeDirectory, DiskForm, Wrote
    <2> QED
      BY <2>1
  <1>8. CASE WriteShards \/ SaveMetadata \/ SaveMarker
    <2>1. PICK fs : disk' = WithFiles(Ckpt, fs)
      BY <1>8, OneFile DEF WriteShards, SaveMetadata, SaveMarker
    <2>2. disk'.tracker = disk.tracker
      BY <1>2, <2>1, WithFilesWrote DEF Wrote
    <2> QED
      BY <2>2
  <1>9. CASE Writers
    <2>1. PICK k \in DOMAIN calls, r \in Ranks : WriterEnds(k, r)
      BY <1>9 DEF Writers
    <2>2. PICK ckpt : disk' = WithFile(ckpt, Shard(r)) \/ disk' = disk
      BY <2>1 DEF WriterEnds
    <2>3. disk' # disk
      OBVIOUS
    <2>4. disk' = WithFiles(ckpt, {Shard(r)})
      BY <2>2, <2>3, OneFile
    <2>5. disk'.tracker = disk.tracker
      BY <1>2, <2>4, WithFilesWrote DEF Wrote
    <2> QED
      BY <2>5
  <1>10. CASE Fail \/ Crash \/ Leave
    BY <1>3, <1>4, <1>10 DEF Fail, Crash, Leave, End
  <1>11. CASE UNCHANGED vars \/ Start \/ LoadCheckpoint \/ BeginIteration \/ Rampup \/ Train \/ Schedule \/ Finalize \/ Finalized
    BY <1>11 DEF vars, Start, LoadCheckpoint, BeginIteration, Rampup, Train, Schedule, Finalize, Finalized
  <1> QED
    BY <1>5, <1>6, <1>7, <1>8, <1>9, <1>10, <1>11
       DEF Next, JobStep, SaveStep, LoadFails, DirectoryNotEmpty, DirectoryGone, WriteShardsFails, SaveMetadataFails

LEMMA TrackerInvariant ==
    ASSUME "async" \notin WritesFail
    PROVE  Spec => [](IInv /\ TInv)
  <1>1. Init => IInv /\ TInv
    BY InitHolds, InitTracker
  <1>2. IInv /\ TInv /\ [Next]_vars => IInv' /\ TInv'
    BY NextKeeps, NextTracker
  <1> QED
    BY <1>1, <1>2, PTL DEF Spec

\* However often the job is killed, fails or is told to stop, and however the
\* background writers, the cleanup threads and the main processes take their
\* turns, latest_checkpointed_iteration.txt names a directory that has every
\* file of the checkpoint, all of one start of the job (checkpointing.py
\* 412-508, async_utils.py 170-216, filesystem_async.py 184-235).
\* The background writes do not fail: when one does, its report is taken for
\* another save's and the statement is false.
THEOREM TrackerNamesComplete ==
    ASSUME "async" \notin WritesFail
    PROVE  Spec => []TrackerComplete
  <1>1. IInv /\ TInv => TrackerComplete
    BY DEF TInv
  <1> QED
    BY <1>1, TrackerInvariant, PTL

\* As long as no start of the job ended in the middle of a save, a start finds
\* the checkpoint that the trackers name, whole, or none is named: the cleanup
\* of old non-persistent checkpoints removes neither it nor one that is still
\* being written (checkpointing.py 518-538, 793-852).
THEOREM StartsFindCheckpoints ==
    ASSUME "async" \notin WritesFail
    PROVE  Spec => []LoadsUnlessHit
  <1>1. IInv /\ TInv => LoadsUnlessHit
    BY FindsCheckpoint
  <1> QED
    BY <1>1, TrackerInvariant, PTL

\* Saves reach the tracker in the order of their iterations, whether they are
\* finalized at once or by a later iteration, before or after a restart: the
\* tracker never goes back to an older checkpoint (training.py 1235-1274,
\* 1376-1438, async_utils.py 202-216, checkpointing.py 466-492).
THEOREM TrackerNeverGoesBack ==
    ASSUME "async" \notin WritesFail
    PROVE  Spec => NeverBack
  <1>1. IInv /\ TInv /\ [Next]_vars =>
            [disk.tracker'["p"] = Emptied \/ disk.tracker'["p"] >= disk.tracker["p"]]_vars
    BY TrackerStep
  <1> QED
    BY <1>1, TrackerInvariant, PTL DEF Spec, NeverBack
=============================================================================
