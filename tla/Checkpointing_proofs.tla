------------------------ MODULE Checkpointing_proofs ------------------------
(***************************************************************************)
(* Proof that a job that is killed, fails and resumes trains on the        *)
(* samples of an uninterrupted one, for every set of command lines and of  *)
(* ranks, any failing writes and any number of kills and signals.          *)
(*                                                                         *)
(* SameSamples is not inductive: what a start resumes from is on disk.     *)
(* The invariant adds that every directory with a whole common.pt keeps    *)
(* the number of samples that an uninterrupted job has consumed before its *)
(* iteration, that a running job has consumed that many, that a save still *)
(* to be made is one of the current iteration, and that an iteration is    *)
(* not trained before its number of microbatches is brought up to date.    *)
(*                                                                         *)
(* From it, that no iteration beyond the last is trained, saved or named:  *)
(* TypeOK, whose bounds follow from what is left to do.                    *)
(***************************************************************************)
EXTENDS Checkpointing, TLAPS

SaveOps == {"cleanup", "mkdir", "common", "write", "schedule", ".metadata", "metadata.json", "tracker"}
LoopOps == SaveOps \cup {"poll", "rampup", "train", "flush", "exit", "done"}
Names == Kinds \X Nat

\* What may be left to do in iteration i: a file written by a save is one of
\* the checkpoint of iteration i.  Quietly: no training among it.
Steps(i) == {step \in [op : LoopOps, ckpt : Names] : step.op = "common" => step.ckpt[2] = i}
Quiet(i) == {step \in Steps(i) : step.op # "train"}

JobForm ==
    /\ job = [state |-> job.state, todo |-> job.todo, iter |-> job.iter,
              consumed |-> job.consumed, mbs |-> job.mbs, start |-> job.start]
    /\ job.iter \in Nat

DiskForm ==
    /\ disk = [dirs |-> disk.dirs, tracker |-> disk.tracker]
    /\ disk.dirs = [k \in DOMAIN disk.dirs |->
                        [files |-> disk.dirs[k].files, args |-> disk.dirs[k].args]]
    /\ \A k \in DOMAIN disk.dirs : k \in Names

Call == [ckpt : Names, running : SUBSET Ranks]
CallsForm == calls \in Seq(Call)

Loading == job.todo = <<Todo("load", NoCkpt)>>

\* A "train" to come finds the number of microbatches right, or a "rampup" is before it.
TrainReady(todo) ==
    \A k \in 1 .. Len(todo) :
        todo[k].op = "train" =>
            \/ job.mbs = NumMicrobatches(config, job.consumed)
            \/ \E j \in 1 .. k - 1 : todo[j].op = "rampup"

JobInv ==
    \/ Loading
    \/ /\ job.todo \in Seq(Steps(job.iter))
       /\ TrainReady(job.todo)
       /\ job.state = "up" => Reached(job.iter, job.consumed)

\* What a directory offers to a start of the job.
DirsInv ==
    \A k \in DOMAIN disk.dirs :
        (Common \in DOMAIN disk.dirs[k].files /\ disk.dirs[k].files[Common] # 0)
            => Reached(k[2], disk.dirs[k].args)

RanInv == SameSamples /\ \A run \in ran : run[1] \in Nat /\ run = <<run[1], run[2], run[3]>>

IInv == JobForm /\ DiskForm /\ CallsForm /\ JobInv /\ DirsInv /\ RanInv

-----------------------------------------------------------------------------
(* Sequences of steps.                                                     *)

LEMMA Concatenation ==
    ASSUME NEW S, NEW a \in Seq(S), NEW b \in Seq(S)
    PROVE  /\ a \o b \in Seq(S)
           /\ Len(a \o b) = Len(a) + Len(b)
           /\ \A k \in 1 .. Len(a) : (a \o b)[k] = a[k]
           /\ \A k \in 1 .. Len(b) : (a \o b)[Len(a) + k] = b[k]
  OBVIOUS

LEMMA TailSteps ==
    ASSUME NEW S, NEW todo \in Seq(S), todo # <<>>
    PROVE  Tail(todo) \in Seq(S)
  OBVIOUS

LEMMA Replaced ==
    ASSUME NEW S, NEW todo \in Seq(S), NEW k \in DOMAIN todo, NEW step \in S
    PROVE  [todo EXCEPT ![k] = step] \in Seq(S)
  OBVIOUS

LEMMA WithoutFirst ==
    ASSUME NEW S, NEW todo \in Seq(S)
    PROVE  SubSeq(todo, 1, 0) \o SubSeq(todo, 2, Len(todo)) \in Seq(S)
  <1>1. SubSeq(todo, 1, 0) \in Seq(S) /\ SubSeq(todo, 2, Len(todo)) \in Seq(S)
    OBVIOUS
  <1> QED
    BY <1>1

LEMMA ThreeSteps ==
    ASSUME NEW S, NEW a \in S, NEW b \in S, NEW c \in S
    PROVE  <<a, b, c>> \in Seq(S)
  OBVIOUS

LEMMA QuietSteps ==
    ASSUME NEW i, NEW todo \in Seq(Quiet(i))
    PROVE  todo \in Seq(Steps(i)) /\ \A k \in 1 .. Len(todo) : todo[k].op # "train"
  BY DEF Quiet

\* The steps of a list of operations on one checkpoint.
LEMMA OpsQuiet ==
    ASSUME NEW O \in SUBSET (LoopOps \ {"train"}), NEW ops \in Seq(O),
           NEW ckpt \in Names, NEW i, "common" \in O => ckpt[2] = i
    PROVE  Ops(ops, ckpt) \in Seq(Quiet(i))
  <1>1. \A k \in 1 .. Len(ops) : Todo(ops[k], ckpt) \in Quiet(i)
    BY DEF Todo, Steps, Quiet
  <1>2. Ops(ops, ckpt) = [k \in 1 .. Len(ops) |-> Todo(ops[k], ckpt)]
    BY DEF Ops
  <1> QED
    BY <1>1, <1>2

\* A save is a list of its operations.
LEMMA SaveStepsAre ==
    ASSUME NEW ckpt
    PROVE  \E ops \in Seq(SaveOps) : SaveSteps(ckpt) = Ops(ops, ckpt)
  <1> DEFINE cleanup == IF ckpt[1] = "np" THEN <<"cleanup">> ELSE <<>>
             write == IF config.async THEN <<"schedule">> ELSE <<"write">> \o Finalization
             ops == cleanup \o <<"mkdir", "common">> \o write
  <1>1. ops \in Seq(SaveOps)
    <2>1. <<"cleanup">> \in Seq(SaveOps) /\ <<>> \in Seq(SaveOps)
      BY DEF SaveOps
    <2>2. cleanup \in Seq(SaveOps)
      BY <2>1
    <2>3. <<"mkdir", "common">> \in Seq(SaveOps)
      BY DEF SaveOps
    <2>4. <<"write">> \in Seq(SaveOps) /\ <<"schedule">> \in Seq(SaveOps) /\ Finalization \in Seq(SaveOps)
      BY DEF SaveOps, Finalization
    <2>5. write \in Seq(SaveOps)
      BY <2>4, Concatenation
    <2> HIDE DEF cleanup, write
    <2> QED
      BY <2>2, <2>3, <2>5, Concatenation
  <1>2. SaveSteps(ckpt) = Ops(ops, ckpt)
    BY DEF SaveSteps
  <1> HIDE DEF ops
  <1> QED
    BY <1>1, <1>2

\* The steps of a save of iteration i.
LEMMA SaveStepsQuiet ==
    ASSUME NEW kind \in Kinds, NEW i \in Nat
    PROVE  SaveSteps(<<kind, i>>) \in Seq(Quiet(i))
  <1>1. PICK ops \in Seq(SaveOps) : SaveSteps(<<kind, i>>) = Ops(ops, <<kind, i>>)
    BY SaveStepsAre
  <1>2. SaveOps \in SUBSET (LoopOps \ {"train"})
    BY DEF SaveOps, LoopOps
  <1>3. <<kind, i>> \in Names /\ <<kind, i>>[2] = i
    BY DEF Names
  <1> QED
    BY <1>1, <1>2, <1>3, OpsQuiet

\* Lists of the operations that are no part of a save.
LEMMA LoopOpsQuiet ==
    ASSUME NEW i \in Nat
    PROVE  /\ Ops(<<"flush">>, NoCkpt) \in Seq(Quiet(i))
           /\ Ops(<<"flush", "done">>, NoCkpt) \in Seq(Quiet(i))
           /\ Ops(<<"flush", "exit">>, NoCkpt) \in Seq(Quiet(i))
           /\ \A ckpt \in Names : Ops(Finalization, ckpt) \in Seq(Quiet(i))
  <1> DEFINE O == LoopOps \ {"train", "common"}
  <1>1. NoCkpt \in Names
    BY DEF NoCkpt, Names, Kinds
  <1>2. /\ <<"flush">> \in Seq(O) /\ <<"flush", "done">> \in Seq(O)
        /\ <<"flush", "exit">> \in Seq(O) /\ Finalization \in Seq(O)
    BY DEF LoopOps, SaveOps, Finalization
  <1>3. O \in SUBSET (LoopOps \ {"train"}) /\ "common" \notin O
    OBVIOUS
  <1> HIDE DEF O
  <1> QED
    BY <1>1, <1>2, <1>3, OpsQuiet

LEMMA AtEndQuiet ==
    ASSUME NEW i \in Nat
    PROVE  AtEnd(i) \in Seq(Quiet(i))
  <1> DEFINE save == IF i # 0 /\ i % config.save # 0 THEN SaveSteps(<<"p", i>>) ELSE <<>>
  <1>1. save \in Seq(Quiet(i))
    BY SaveStepsQuiet DEF Kinds
  <1>2. AtEnd(i) = Ops(<<"flush">>, NoCkpt) \o save \o Ops(<<"flush", "done">>, NoCkpt)
    BY DEF AtEnd
  <1> HIDE DEF save
  <1> QED
    BY <1>1, <1>2, LoopOpsQuiet, Concatenation

LEMMA AfterIterationQuiet ==
    ASSUME NEW i \in Nat, NEW signal \in BOOLEAN
    PROVE  AfterIteration(i, signal) \in Seq(Quiet(i))
  <1> DEFINE due == IF i % config.save = 0 THEN SaveSteps(<<"p", i>>)
                    ELSE IF config.np # 0 /\ i % config.np = 0 THEN SaveSteps(<<"np", i>>)
                    ELSE <<>>
             exit == Ops(<<"flush", "exit">>, NoCkpt)
             save == SaveSteps(<<"p", i>>)
  <1>1. due \in Seq(Quiet(i)) /\ save \in Seq(Quiet(i))
    BY SaveStepsQuiet DEF Kinds
  <1>2. exit \in Seq(Quiet(i))
    BY LoopOpsQuiet
  <1>3. AfterIteration(i, signal) \in {due, save \o exit, due \o exit}
    BY DEF AfterIteration
  <1> HIDE DEF due, exit, save
  <1> QED
    BY <1>1, <1>2, <1>3, Concatenation

-----------------------------------------------------------------------------
(* What is left to do when a step has been done, or others come before it. *)

LEMMA TailReady ==
    ASSUME NEW i, NEW todo \in Seq(Steps(i)), todo # <<>>,
           TrainReady(todo), Head(todo).op # "rampup"
    PROVE  Tail(todo) \in Seq(Steps(i)) /\ TrainReady(Tail(todo))
  <1>1. /\ Tail(todo) \in Seq(Steps(i)) /\ Len(Tail(todo)) = Len(todo) - 1
        /\ Head(todo) = todo[1] /\ Len(todo) \in Nat
        /\ \A k \in 1 .. Len(Tail(todo)) : Tail(todo)[k] = todo[k + 1]
    OBVIOUS
  <1>2. SUFFICES ASSUME NEW k \in 1 .. Len(Tail(todo)), Tail(todo)[k].op = "train",
                        job.mbs # NumMicrobatches(config, job.consumed)
                 PROVE  \E j \in 1 .. k - 1 : Tail(todo)[j].op = "rampup"
    BY <1>1 DEF TrainReady
  <1>3. PICK j \in 1 .. k : todo[j].op = "rampup"
    BY <1>1, <1>2 DEF TrainReady
  <1>4. j # 1 /\ j - 1 \in 1 .. k - 1 /\ Tail(todo)[j - 1] = todo[j]
    BY <1>1, <1>3
  <1> QED
    BY <1>3, <1>4

LEMMA JoinReady ==
    ASSUME NEW i, NEW a \in Seq(Quiet(i)), NEW b \in Seq(Steps(i)), TrainReady(b)
    PROVE  a \o b \in Seq(Steps(i)) /\ TrainReady(a \o b)
  <1>1. a \in Seq(Steps(i)) /\ \A k \in 1 .. Len(a) : a[k].op # "train"
    BY QuietSteps
  <1>2. /\ a \o b \in Seq(Steps(i)) /\ Len(a \o b) = Len(a) + Len(b)
        /\ \A k \in 1 .. Len(a) : (a \o b)[k] = a[k]
        /\ \A k \in 1 .. Len(b) : (a \o b)[Len(a) + k] = b[k]
    BY <1>1, Concatenation
  <1>3. SUFFICES ASSUME NEW k \in 1 .. Len(a \o b), (a \o b)[k].op = "train",
                        job.mbs # NumMicrobatches(config, job.consumed)
                 PROVE  \E j \in 1 .. k - 1 : (a \o b)[j].op = "rampup"
    BY <1>2 DEF TrainReady
  <1>4. Len(a) \in Nat /\ Len(b) \in Nat
    OBVIOUS
  <1>5. k - Len(a) \in 1 .. Len(b) /\ (a \o b)[k] = b[k - Len(a)]
    BY <1>1, <1>2, <1>3, <1>4
  <1>6. PICK j \in 1 .. (k - Len(a)) - 1 : b[j].op = "rampup"
    BY <1>3, <1>5 DEF TrainReady
  <1>7. Len(a) + j \in 1 .. k - 1 /\ (a \o b)[Len(a) + j] = b[j]
    BY <1>2, <1>4, <1>5, <1>6
  <1> QED
    BY <1>6, <1>7
\* The loop's todo list is all that a step of the job changes of it.
LEMMA TodoChanges ==
    ASSUME JobForm, NEW todo \in Seq(Steps(job.iter)), TrainReady(todo),
           job.state = "up" => Reached(job.iter, job.consumed),
           job' = [job EXCEPT !.todo = todo], UNCHANGED <<config, ran>>
    PROVE  JobForm' /\ JobInv'
  <1>1. /\ job'.state = job.state /\ job'.todo = todo /\ job'.iter = job.iter
        /\ job'.consumed = job.consumed /\ job'.mbs = job.mbs
    BY DEF JobForm
  <1>2. JobForm'
    BY <1>1 DEF JobForm
  <1>3. Steps(job.iter)' = Steps(job.iter) /\ NumMicrobatches(config, job.consumed)' = NumMicrobatches(config, job.consumed)
    BY <1>1 DEF Steps, NumMicrobatches, GlobalBatch
  <1>4. TrainReady(job.todo)'
    BY <1>1, <1>3 DEF TrainReady
  <1>5. job'.state = "up" => Reached(job.iter, job.consumed)'
    BY <1>1 DEF Reached, After
  <1> QED
    BY <1>1, <1>2, <1>3, <1>4, <1>5 DEF JobInv

\* A step that is the next one to do, other than loading and the ramp-up.
LEMMA StepDone ==
    ASSUME IInv, NEW op, Doing(op), op \notin {"load", "rampup"}, Did, UNCHANGED <<config, ran>>
    PROVE  JobForm' /\ JobInv'
  <1>1. job.state = "up" /\ job.todo # <<>> /\ Head(job.todo).op = op
    BY DEF Doing
  <1>2. ~Loading
    BY <1>1 DEF Loading, Todo
  <1>3. /\ JobForm /\ job.todo \in Seq(Steps(job.iter)) /\ TrainReady(job.todo)
        /\ Reached(job.iter, job.consumed)
    BY <1>1, <1>2 DEF IInv, JobInv
  <1>4. Tail(job.todo) \in Seq(Steps(job.iter)) /\ TrainReady(Tail(job.todo))
    BY <1>1, <1>3, TailReady
  <1>5. job' = [job EXCEPT !.todo = Tail(job.todo)]
    BY DEF Did
  <1> QED
    BY <1>3, <1>4, <1>5, TodoChanges

-----------------------------------------------------------------------------
(* The parts of the invariant that a step leaves alone.                    *)

LEMMA JobKept ==
    ASSUME JobForm, JobInv, UNCHANGED <<config, job, ran>>
    PROVE  JobForm' /\ JobInv'
  <1>1. JobForm'
    BY DEF JobForm
  <1>2. JobInv'
    BY DEF JobInv, Loading, TrainReady, Reached, After, Steps, NumMicrobatches, GlobalBatch
  <1> QED
    BY <1>1, <1>2

LEMMA RanKept ==
    ASSUME RanInv, UNCHANGED <<config, ran>>
    PROVE  RanInv'
  BY DEF RanInv, SameSamples, Reached, After, NumMicrobatches, GlobalBatch

LEMMA CallsKept ==
    ASSUME CallsForm, UNCHANGED calls
    PROVE  CallsForm'
  BY DEF CallsForm

\* What is on disk offers no more to a start of the job than before.
Offers(k) == Common \in DOMAIN disk.dirs[k].files /\ disk.dirs[k].files[Common] # 0

LEMMA DirsKept ==
    ASSUME DirsInv, UNCHANGED <<config, ran>>,
           \A k \in DOMAIN disk'.dirs : Offers(k)' =>
                k \in DOMAIN disk.dirs /\ Offers(k) /\ disk'.dirs[k].args = disk.dirs[k].args
    PROVE  DirsInv'
  BY DEF DirsInv, Offers, Reached, After

LEMMA DiskKept ==
    ASSUME DiskForm, DirsInv, UNCHANGED <<config, ran, disk>>
    PROVE  DiskForm' /\ DirsInv'
  BY DEF DiskForm, DirsInv, Reached, After

-----------------------------------------------------------------------------
(* What the steps do to the disk.                                          *)

LEMMA NewFiles ==
    ASSUME NEW dir, NEW a, NEW b, NEW c, dir = [files |-> a, args |-> b]
    PROVE  [dir EXCEPT !.files = c] = [files |-> c, args |-> b]
  OBVIOUS

LEMMA NewArgs ==
    ASSUME NEW dir, NEW a, NEW b, NEW c, dir = [files |-> a, args |-> b]
    PROVE  [dir EXCEPT !.args = c] = [files |-> a, args |-> c]
  OBVIOUS

\* The files of one directory change.
LEMMA FilesChange ==
    ASSUME DiskForm, NEW ckpt, NEW files, disk' = [disk EXCEPT !.dirs[ckpt].files = files]
    PROVE  /\ DiskForm'
           /\ DOMAIN disk'.dirs = DOMAIN disk.dirs
           /\ \A k \in DOMAIN disk.dirs :
                /\ disk'.dirs[k].args = disk.dirs[k].args
                /\ disk'.dirs[k].files = IF k = ckpt THEN files ELSE disk.dirs[k].files
  <1>1. disk'.dirs = [disk.dirs EXCEPT ![ckpt] = [@ EXCEPT !.files = files]]
    BY DEF DiskForm
  <1>2. disk' = [dirs |-> disk'.dirs, tracker |-> disk'.tracker]
    BY DEF DiskForm
  <1>3. DOMAIN disk'.dirs = DOMAIN disk.dirs
    BY <1>1
  <1>4. \A k \in DOMAIN disk.dirs : disk.dirs[k] = [files |-> disk.dirs[k].files, args |-> disk.dirs[k].args]
    BY DEF DiskForm
  <1>5. \A k \in DOMAIN disk.dirs :
            disk'.dirs[k] = [files |-> IF k = ckpt THEN files ELSE disk.dirs[k].files,
                             args |-> disk.dirs[k].args]
    <2> SUFFICES ASSUME NEW k \in DOMAIN disk.dirs
                 PROVE  disk'.dirs[k] =
                            [files |-> IF k = ckpt THEN files ELSE disk.dirs[k].files,
                             args |-> disk.dirs[k].args]
      OBVIOUS
    <2>1. CASE k # ckpt
      BY <1>1, <1>4, <2>1
    <2>2. CASE k = ckpt
      <3>1. disk'.dirs[k] = [disk.dirs[k] EXCEPT !.files = files]
        BY <1>1, <2>2
      <3>2. disk.dirs[k] = [files |-> disk.dirs[k].files, args |-> disk.dirs[k].args]
        BY <1>4
      <3> QED
        BY <2>2, <3>1, <3>2, NewFiles
    <2> QED
      BY <2>1, <2>2
  <1>6. disk'.dirs = [k \in DOMAIN disk.dirs |->
            [files |-> IF k = ckpt THEN files ELSE disk.dirs[k].files, args |-> disk.dirs[k].args]]
    BY <1>1, <1>5
  <1>7. DiskForm'
    BY <1>2, <1>3, <1>5, <1>6 DEF DiskForm
  <1> QED
    BY <1>3, <1>5, <1>7

\* Files other than common.pt are written.
LEMMA FilesWritten ==
    ASSUME DiskForm, DirsInv, UNCHANGED <<config, ran>>,
           NEW ckpt, NEW fs, Common \notin fs, disk' = WithFiles(ckpt, fs)
    PROVE  DiskForm' /\ DirsInv'
  <1> DEFINE old == disk.dirs[ckpt].files
             files == [g \in DOMAIN old \cup fs |-> IF g \in fs THEN job.start ELSE old[g]]
  <1>1. disk' = [disk EXCEPT !.dirs[ckpt].files = files]
    BY DEF WithFiles
  <1>2. Common \in DOMAIN files => Common \in DOMAIN old /\ files[Common] = old[Common]
    OBVIOUS
  <1> HIDE DEF files
  <1>3. /\ DiskForm'
        /\ DOMAIN disk'.dirs = DOMAIN disk.dirs
        /\ \A k \in DOMAIN disk.dirs :
                /\ disk'.dirs[k].args = disk.dirs[k].args
                /\ disk'.dirs[k].files = IF k = ckpt THEN files ELSE disk.dirs[k].files
    BY <1>1, FilesChange
  <1>4. \A k \in DOMAIN disk'.dirs : Offers(k)' => Offers(k)
    BY <1>2, <1>3 DEF Offers, Common
  <1> QED
    BY <1>3, <1>4, DirsKept

LEMMA OneFile ==
    ASSUME NEW ckpt, NEW f
    PROVE  WithFile(ckpt, f) = WithFiles(ckpt, {f})
  BY DEF WithFile, WithFiles

LEMMA OtherFiles ==
    /\ \A r : Common # Shard(r)
    /\ Common # Metadata /\ Common # Marker
  BY DEF Common, Shard, Metadata, Marker

\* The tracker changes.
LEMMA TrackerChanges ==
    ASSUME DiskForm, DirsInv, UNCHANGED <<config, ran>>,
           NEW kind, NEW i, disk' = [disk EXCEPT !.tracker[kind] = i]
    PROVE  DiskForm' /\ DirsInv'
  <1>1. disk'.dirs = disk.dirs /\ disk' = [dirs |-> disk'.dirs, tracker |-> disk'.tracker]
    BY DEF DiskForm
  <1> QED
    BY <1>1 DEF DiskForm, DirsInv, Reached, After

\* Directories are removed.
LEMMA DirsRemoved ==
    ASSUME DiskForm, DirsInv, UNCHANGED <<config, ran>>, NEW ckpts, disk' = Without(ckpts)
    PROVE  DiskForm' /\ DirsInv'
  <1>1. /\ disk'.dirs = [k \in DOMAIN disk.dirs \ ckpts |-> disk.dirs[k]]
        /\ disk' = [dirs |-> disk'.dirs, tracker |-> disk'.tracker]
    BY DEF DiskForm, Without
  <1>2. DiskForm'
    BY <1>1 DEF DiskForm
  <1>3. \A k \in DOMAIN disk'.dirs : k \in DOMAIN disk.dirs /\ disk'.dirs[k] = disk.dirs[k]
    BY <1>1
  <1> QED
    BY <1>2, <1>3, DirsKept DEF Offers

-----------------------------------------------------------------------------
(* Every action preserves the invariant.                                   *)

\* The job ends, with what a kill can leave on disk.
LEMMA Ends ==
    ASSUME IInv, NEW state, state # "up", NEW left \in LeftBehind, End(state, left)
    PROVE  IInv'
  <1>1. job' = [job EXCEPT !.state = state, !.todo = <<>>] /\ UNCHANGED <<config, ran>>
    BY DEF End
  <1>2. JobForm'
    BY <1>1 DEF IInv, JobForm
  <1>3. job'.todo = <<>> /\ job'.state # "up"
    BY <1>1 DEF IInv, JobForm
  <1>4. JobInv'
    BY <1>3 DEF JobInv, TrainReady
  <1>5. CallsForm'
    BY DEF End, CallsForm
  <1>6. DiskForm' /\ DirsInv'
    <2>1. CASE left = disk
      BY <1>1, <2>1, DiskKept DEF End, IInv
    <2>2. CASE left = [disk EXCEPT !.dirs[Ckpt].files = [f \in {Common} |-> 0]]
      <3>1. disk' = [disk EXCEPT !.dirs[Ckpt].files = [f \in {Common} |-> 0]]
        BY <2>2 DEF End
      <3>2. /\ DiskForm'
            /\ DOMAIN disk'.dirs = DOMAIN disk.dirs
            /\ \A k \in DOMAIN disk.dirs :
                    /\ disk'.dirs[k].args = disk.dirs[k].args
                    /\ disk'.dirs[k].files = IF k = Ckpt THEN [f \in {Common} |-> 0]
                                             ELSE disk.dirs[k].files
        BY <3>1, FilesChange DEF IInv
      <3>3. \A k \in DOMAIN disk'.dirs : Offers(k)' => Offers(k)
        BY <3>2 DEF Offers, Common
      <3> QED
        BY <1>1, <3>2, <3>3, DirsKept DEF IInv
    <2>3. CASE left = [disk EXCEPT !.tracker[Ckpt[1]] = Emptied]
      BY <1>1, <2>3, TrackerChanges DEF End, IInv
    <2> QED
      BY <2>1, <2>2, <2>3 DEF LeftBehind
  <1>7. RanInv'
    BY <1>1, RanKept DEF IInv
  <1> QED
    BY <1>2, <1>4, <1>5, <1>6, <1>7 DEF IInv

LEMMA StartKeeps ==
    ASSUME IInv, Start
    PROVE  IInv'
  <1>1. /\ job' = [job EXCEPT !.state = "up", !.start = @ + 1, !.todo = <<Todo("load", NoCkpt)>>]
        /\ UNCHANGED <<config, ran, disk, calls>>
    BY DEF Start
  <1>2. JobForm' /\ Loading'
    BY <1>1 DEF IInv, JobForm, Loading, Todo, NoCkpt
  <1> QED
    BY <1>1, <1>2, DiskKept, CallsKept, RanKept DEF IInv, JobInv

\* Loading is all there is to do when it is next.
LEMMA LoadAlone ==
    ASSUME IInv, Doing("load")
    PROVE  Loading
  <1>1. job.todo # <<>> /\ Head(job.todo).op = "load"
    BY DEF Doing
  <1>2. SUFFICES ASSUME job.todo \in Seq(Steps(job.iter)) PROVE FALSE
    BY DEF IInv, JobInv
  <1>3. Head(job.todo) \in Steps(job.iter)
    BY <1>1, <1>2
  <1> QED
    BY <1>1, <1>3 DEF Steps, LoopOps, SaveOps

\* The job takes iteration and samples from a directory that offers them, or
\* starts from nothing.
LEMMA LoadCheckpointKeeps ==
    ASSUME IInv, LoadCheckpoint
    PROVE  IInv'
  <1>1. /\ Doing("load") /\ Loadable
        /\ job' = [(IF Named[2] = None
                    THEN [job EXCEPT !.iter = 0, !.consumed = 0, !.mbs = NumMicrobatches(config, 0)]
                    ELSE Resume(Named)) EXCEPT !.todo = Tail(@)]
        /\ UNCHANGED <<config, ran, disk, calls>>
    BY DEF LoadCheckpoint
  <1>2. PICK i, c, m : /\ job' = [state |-> job.state, todo |-> Tail(job.todo), iter |-> i,
                                  consumed |-> c, mbs |-> m, start |-> job.start]
                       /\ i \in Nat /\ Reached(i, c)
    <2>1. CASE Named[2] = None
      <3>1. job' = [state |-> job.state, todo |-> Tail(job.todo), iter |-> 0, consumed |-> 0,
                    mbs |-> NumMicrobatches(config, 0), start |-> job.start]
        BY <1>1, <2>1 DEF IInv, JobForm
      <3> QED
        BY <3>1 DEF Reached
    <2>2. CASE Named[2] # None
      <3> DEFINE c == disk.dirs[Named].args
      <3>1. Named \in DOMAIN disk.dirs /\ Offers(Named)
        BY <1>1, <2>2 DEF Loadable, Exists, Whole, Files, Offers
      <3>2. Named[2] \in Nat /\ Reached(Named[2], c)
        BY <3>1 DEF IInv, DiskForm, Names, DirsInv, Offers
      <3>3. job' = [state |-> job.state, todo |-> Tail(job.todo), iter |-> Named[2], consumed |-> c,
                    mbs |-> NumMicrobatches(config, c), start |-> job.start]
        BY <1>1, <2>2 DEF IInv, JobForm, Resume
      <3> QED
        BY <3>2, <3>3
    <2> QED
      BY <2>1, <2>2
  <1>3. job.todo = <<Todo("load", NoCkpt)>>
    BY <1>1, LoadAlone DEF Loading
  <1>4. job'.todo = <<>> /\ job'.iter = i /\ job'.consumed = c
    BY <1>2, <1>3
  <1>5. JobForm'
    BY <1>2, <1>4 DEF JobForm
  <1>6. Reached(job.iter, job.consumed)'
    BY <1>1, <1>2, <1>4 DEF Reached, After
  <1>7. JobInv'
    BY <1>4, <1>6 DEF JobInv, TrainReady
  <1> QED
    BY <1>1, <1>5, <1>7, DiskKept, CallsKept, RanKept DEF IInv

\* What a job knows that is up and not loading.
LEMMA Up ==
    ASSUME IInv, job.state = "up", ~Loading
    PROVE  /\ JobForm /\ job.iter \in Nat
           /\ job.todo \in Seq(Steps(job.iter)) /\ TrainReady(job.todo)
           /\ Reached(job.iter, job.consumed)
  BY DEF IInv, JobForm, JobInv

LEMMA DoingNotLoading ==
    ASSUME NEW op, Doing(op), op # "load"
    PROVE  job.state = "up" /\ ~Loading /\ job.todo # <<>> /\ Head(job.todo).op = op
  BY DEF Doing, Loading, Todo

LEMMA BeginIterationKeeps ==
    ASSUME IInv, BeginIteration
    PROVE  IInv'
  <1>1. /\ job.state = "up" /\ job.todo = <<>>
        /\ UNCHANGED <<config, ran, disk, calls>>
    BY DEF BeginIteration
  <1>2. ~Loading
    BY <1>1 DEF Loading
  <1> DEFINE iteration == Ops(<<"poll", "rampup", "train">>, NoCkpt)
  <1>3. iteration \in Seq(Steps(job.iter)) /\ TrainReady(iteration)
    <2>1. iteration = <<Todo("poll", NoCkpt), Todo("rampup", NoCkpt), Todo("train", NoCkpt)>>
      BY DEF Ops
    <2>2. \A op \in {"poll", "rampup", "train"} : Todo(op, NoCkpt) \in Steps(job.iter)
      BY DEF Todo, NoCkpt, Steps, LoopOps, Names, Kinds
    <2>3. /\ Len(iteration) = 3 /\ iteration[1].op = "poll"
          /\ iteration[2].op = "rampup" /\ iteration[3].op = "train"
      BY <2>1 DEF Todo
    <2>4. iteration \in Seq(Steps(job.iter))
      BY <2>1, <2>2, ThreeSteps
    <2> HIDE DEF iteration
    <2>5. \A k \in 1 .. Len(iteration) : iteration[k].op = "train" => k = 3
      BY <2>3
    <2> QED
      BY <2>3, <2>4, <2>5 DEF TrainReady
  <1>4. AtEnd(job.iter) \in Seq(Steps(job.iter)) /\ TrainReady(AtEnd(job.iter))
    BY <1>1, <1>2, Up, AtEndQuiet, QuietSteps DEF TrainReady
  <1>5. PICK todo \in {iteration, AtEnd(job.iter)} : job' = [job EXCEPT !.todo = todo]
    BY DEF BeginIteration
  <1> HIDE DEF iteration
  <1>6. JobForm' /\ JobInv'
    BY <1>1, <1>2, <1>3, <1>4, <1>5, Up, TodoChanges
  <1> QED
    BY <1>1, <1>6, DiskKept, CallsKept, RanKept DEF IInv

\* The number of microbatches is brought up to date; a save may come first.
LEMMA RampupKeeps ==
    ASSUME IInv, Rampup
    PROVE  IInv'
  <1> DEFINE mbs == NumMicrobatches(config, job.consumed)
             save == IF mbs # job.mbs /\ job.iter # 0 THEN SaveSteps(<<"p", job.iter>>) ELSE <<>>
             todo == save \o Tail(job.todo)
  <1>1. /\ Doing("rampup") /\ UNCHANGED <<config, ran, disk, calls>>
        /\ job' = [job EXCEPT !.mbs = mbs, !.todo = todo]
    BY DEF Rampup
  <1>2. /\ job.todo # <<>> /\ JobForm /\ job.iter \in Nat
        /\ job.todo \in Seq(Steps(job.iter)) /\ Reached(job.iter, job.consumed)
    BY <1>1, DoingNotLoading, Up
  <1>3. save \in Seq(Steps(job.iter))
    <2>1. SaveSteps(<<"p", job.iter>>) \in Seq(Steps(job.iter))
      BY <1>2, SaveStepsQuiet, QuietSteps DEF Kinds
    <2>2. <<>> \in Seq(Steps(job.iter))
      OBVIOUS
    <2> QED
      BY <2>1, <2>2
  <1>4. Tail(job.todo) \in Seq(Steps(job.iter))
    BY <1>2, TailSteps
  <1> HIDE DEF save
  <1>5. todo \in Seq(Steps(job.iter))
    BY <1>3, <1>4, Concatenation
  <1> HIDE DEF todo, mbs
  <1>6. job' = [state |-> job.state, todo |-> todo, iter |-> job.iter,
                consumed |-> job.consumed, mbs |-> mbs, start |-> job.start]
    BY <1>1, <1>2 DEF JobForm
  <1>7. JobForm'
    BY <1>2, <1>6 DEF JobForm
  <1>8. job'.mbs = NumMicrobatches(config, job.consumed)'
    BY <1>1, <1>6 DEF mbs, NumMicrobatches, GlobalBatch
  <1>9. TrainReady(job.todo)'
    BY <1>8 DEF TrainReady
  <1>10. job'.todo \in Seq(Steps(job.iter)')
    BY <1>5, <1>6 DEF Steps
  <1>11. Reached(job.iter, job.consumed)'
    BY <1>1, <1>2, <1>6 DEF Reached, After
  <1>12. JobInv'
    BY <1>9, <1>10, <1>11 DEF JobInv
  <1> QED
    BY <1>1, <1>7, <1>12, DiskKept, CallsKept, RanKept DEF IInv

\* Before an iteration there is one number of samples that training can have
\* consumed.
LEMMA ReachedOnce ==
    ASSUME RanInv, NEW i \in Nat, NEW c, NEW d, Reached(i, c), Reached(i, d)
    PROVE  c = d
  <1>1. CASE i = 0
    <2>1. \A run \in ran : run[1] # i - 1
      BY <1>1 DEF RanInv
    <2> QED
      BY <2>1 DEF Reached
  <1>2. CASE i # 0
    <2>1. PICK run \in ran : run[1] = i - 1 /\ c = After(run)
      BY <1>2 DEF Reached
    <2>2. PICK other \in ran : other[1] = i - 1 /\ d = After(other)
      BY <1>2 DEF Reached
    <2>3. run = other
      BY <2>1, <2>2 DEF RanInv, SameSamples
    <2> QED
      BY <2>1, <2>2, <2>3
  <1> QED
    BY <1>1, <1>2

\* The iteration is one an uninterrupted job would run.
LEMMA TrainKeeps ==
    ASSUME IInv, Train
    PROVE  IInv'
  <1> DEFINE run == <<job.iter, job.consumed, job.mbs>>
             c == job.consumed + job.mbs * config.unit
  <1>1. /\ Doing("train") /\ UNCHANGED <<config, disk, calls>>
        /\ ran' = ran \cup {run}
    BY DEF Train
  <1>2. PICK signal \in BOOLEAN :
            job' = [job EXCEPT !.iter = @ + 1, !.consumed = @ + job.mbs * config.unit,
                               !.todo = AfterIteration(job.iter + 1, signal)]
    BY DEF Train
  <1>3. /\ job.todo # <<>> /\ Head(job.todo).op = "train" /\ JobForm /\ job.iter \in Nat
        /\ job.todo \in Seq(Steps(job.iter)) /\ TrainReady(job.todo)
        /\ Reached(job.iter, job.consumed)
    BY <1>1, DoingNotLoading, Up
  <1>4. job.mbs = NumMicrobatches(config, job.consumed)
    <2>1. 1 \in 1 .. Len(job.todo) /\ job.todo[1].op = "train"
      BY <1>3
    <2> QED
      BY <1>3, <2>1 DEF TrainReady
  <1>5. job' = [state |-> job.state, todo |-> AfterIteration(job.iter + 1, signal),
                iter |-> job.iter + 1, consumed |-> c, mbs |-> job.mbs, start |-> job.start]
    BY <1>2, <1>3 DEF JobForm
  <1>6. JobForm'
    BY <1>3, <1>5 DEF JobForm
  <1>7. \A i, d : Reached(i, d) => Reached(i, d)'
    BY <1>1 DEF Reached, After
  <1>8. Reached(job.iter, job.consumed)'
    <2>1. \E other \in ran' : /\ other[1] = job'.iter - 1
                              /\ job'.consumed = other[2] + other[3] * config'.unit
      <3>1. run \in ran' /\ run[1] = job'.iter - 1
        BY <1>1, <1>3, <1>5
      <3>2. job'.consumed = run[2] + run[3] * config'.unit
        BY <1>1, <1>5
      <3> HIDE DEF run
      <3> QED
        BY <3>1, <3>2
    <2> QED
      BY <2>1 DEF Reached, After
  <1>9. JobInv'
    <2>1. AfterIteration(job.iter + 1, signal) \in Seq(Quiet(job.iter + 1))
      BY <1>3, AfterIterationQuiet
    <2>2. job'.todo \in Seq(Quiet(job.iter)')
      BY <1>5, <2>1 DEF Quiet, Steps
    <2>3. job'.todo \in Seq(Steps(job.iter)') /\ \A k \in 1 .. Len(job'.todo) : job'.todo[k].op # "train"
      BY <2>2, QuietSteps
    <2> QED
      BY <1>8, <2>3 DEF JobInv, TrainReady
  <1>10. DiskForm' /\ DirsInv'
    BY <1>1, <1>7 DEF IInv, DiskForm, DirsInv
  <1>11. RanInv'
    <2>1. run[1] \in Nat /\ run = <<run[1], run[2], run[3]>>
      BY <1>3
    <2>2. \A other \in ran : other[1] = run[1] => other = run
      <3> SUFFICES ASSUME NEW other \in ran, other[1] = run[1]
                   PROVE  other = run
        OBVIOUS
      <3>1. Reached(job.iter, other[2])
        BY DEF IInv, RanInv, SameSamples
      <3>2. other[2] = job.consumed
        BY <1>3, <3>1, ReachedOnce DEF IInv
      <3>3. other[3] = job.mbs
        BY <1>4, <3>2 DEF IInv, RanInv, SameSamples
      <3> QED
        BY <3>2, <3>3 DEF IInv, RanInv
    <2>3. \A r \in ran' : Reached(r[1], r[2])'
      BY <1>1, <1>3, <1>7 DEF IInv, RanInv, SameSamples
    <2>4. \A r \in ran' : r[3] = NumMicrobatches(config, r[2])'
      BY <1>1, <1>4 DEF IInv, RanInv, SameSamples, NumMicrobatches, GlobalBatch
    <2>5. \A r, other \in ran' : other[1] = r[1] => other = r
      BY <1>1, <2>2 DEF IInv, RanInv, SameSamples
    <2>6. \A r \in ran' : r[1] \in Nat /\ r = <<r[1], r[2], r[3]>>
      BY <1>1, <2>1 DEF IInv, RanInv
    <2> QED
      BY <2>3, <2>4, <2>5, <2>6 DEF RanInv, SameSamples
  <1> QED
    BY <1>1, <1>6, <1>9, <1>10, <1>11, CallsKept DEF IInv

-----------------------------------------------------------------------------
(* The steps of a save.                                                    *)

\* Steps that leave the job, the record of runs and the calls alone.
LEMMA OnlyDisk ==
    ASSUME IInv, DiskForm' /\ DirsInv', UNCHANGED <<config, job, calls, ran>>
    PROVE  IInv'
  BY JobKept, CallsKept, RanKept DEF IInv

\* Steps that are done, with the calls left alone.
LEMMA StepAndDisk ==
    ASSUME IInv, DiskForm' /\ DirsInv', NEW op, Doing(op), op \notin {"load", "rampup"}, Did,
           UNCHANGED <<config, calls, ran>>
    PROVE  IInv'
  BY StepDone, CallsKept, RanKept DEF IInv

LEMMA CleanupKeeps ==
    ASSUME IInv, Cleanup
    PROVE  IInv'
  <1> DEFINE old == ToRemove({k \in DOMAIN disk.dirs : k[1] = "np"})
  <1>1. Doing("cleanup") /\ Did /\ UNCHANGED <<config, calls, ran>>
    BY DEF Cleanup
  <1>2. disk' = disk \/ disk' = Without(old)
    BY DEF Cleanup
  <1> HIDE DEF old
  <1>3. DiskForm' /\ DirsInv'
    BY <1>1, <1>2, DiskKept, DirsRemoved DEF IInv
  <1> QED
    BY <1>1, <1>3, StepAndDisk

LEMMA RemoveKeeps ==
    ASSUME IInv, NEW ckpt, Remove(ckpt)
    PROVE  IInv'
  <1>1. DiskForm' /\ DirsInv'
    BY DirsRemoved DEF IInv, Remove
  <1> QED
    BY <1>1, OnlyDisk DEF Remove

\* The checkpoint of the step that is next.
LEMMA CkptIsNamed ==
    ASSUME IInv, NEW op, Doing(op), op # "load"
    PROVE  Ckpt \in Names /\ (op = "common" => Ckpt[2] = job.iter)
  <1>1. job.todo \in Seq(Steps(job.iter)) /\ job.todo # <<>> /\ Head(job.todo).op = op
    BY DoingNotLoading, Up
  <1>2. Head(job.todo) \in Steps(job.iter)
    BY <1>1
  <1> QED
    BY <1>1, <1>2 DEF Ckpt, Steps

LEMMA MakeDirectoryKeeps ==
    ASSUME IInv, MakeDirectory
    PROVE  IInv'
  <1>1. Doing("mkdir") /\ Did /\ UNCHANGED <<config, calls, ran>>
    BY DEF MakeDirectory
  <1> DEFINE new == [files |-> [f \in {} |-> 0], args |-> 0]
  <1>2. CASE Exists(Ckpt)
    BY <1>1, <1>2, DiskKept, StepAndDisk DEF MakeDirectory, IInv
  <1>3. CASE ~Exists(Ckpt)
    <2>1. /\ disk' = [dirs |-> disk'.dirs, tracker |-> disk'.tracker]
          /\ disk'.dirs = [k \in DOMAIN disk.dirs \cup {Ckpt} |-> IF k = Ckpt THEN new ELSE disk.dirs[k]]
      BY <1>3 DEF MakeDirectory, IInv, DiskForm
    <2>2. DOMAIN disk'.dirs = DOMAIN disk.dirs \cup {Ckpt}
      BY <2>1
    <2>3. \A k \in DOMAIN disk'.dirs : disk'.dirs[k] = IF k = Ckpt THEN new ELSE disk.dirs[k]
      BY <2>1
    <2>4. \A k \in DOMAIN disk'.dirs :
              disk'.dirs[k] = [files |-> disk'.dirs[k].files, args |-> disk'.dirs[k].args]
      BY <2>2, <2>3 DEF IInv, DiskForm
    <2>5. \A k \in DOMAIN disk'.dirs : k \in Names
      BY <1>1, <2>2, CkptIsNamed DEF IInv, DiskForm
    <2>6. DiskForm'
      BY <2>1, <2>2, <2>4, <2>5 DEF DiskForm
    <2>7. \A k \in DOMAIN disk'.dirs :
              Offers(k)' => k \in DOMAIN disk.dirs /\ disk'.dirs[k] = disk.dirs[k]
      BY <2>2, <2>3 DEF Offers
    <2>8. DirsInv'
      BY <1>1, <2>7, DirsKept DEF IInv, Offers
    <2> QED
      BY <1>1, <2>6, <2>8, StepAndDisk
  <1> QED
    BY <1>2, <1>3

\* The files of a directory with common.pt written.
NewCommon ==
    LET old == disk.dirs[Ckpt].files
    IN [g \in DOMAIN old \cup {Common} |-> IF g = Common THEN job.start ELSE old[g]]

\* What writing common.pt leaves.
LEMMA CommonWritten ==
    ASSUME DiskForm, SaveCommon
    PROVE  /\ disk' = [dirs |-> disk'.dirs, tracker |-> disk.tracker]
           /\ disk'.dirs = [k \in DOMAIN disk.dirs |->
                IF k = Ckpt THEN [files |-> NewCommon, args |-> job.consumed] ELSE disk.dirs[k]]
  <1>1. Exists(Ckpt)
    BY DEF SaveCommon
  <1> DEFINE files == NewCommon
             new == [files |-> files, args |-> job.consumed]
  <1>2. disk' = [[disk EXCEPT !.dirs[Ckpt].files = files] EXCEPT !.dirs[Ckpt].args = job.consumed]
    BY DEF SaveCommon, WithFile, NewCommon
  <1> HIDE DEF files
  <1>3. /\ disk' = [dirs |-> disk'.dirs, tracker |-> disk.tracker]
        /\ disk'.dirs = [disk.dirs EXCEPT ![Ckpt] =
                            [[disk.dirs[Ckpt] EXCEPT !.files = files] EXCEPT !.args = job.consumed]]
    BY <1>1, <1>2 DEF DiskForm, Exists
  <1>4. disk.dirs[Ckpt] = [files |-> disk.dirs[Ckpt].files, args |-> disk.dirs[Ckpt].args]
    BY <1>1 DEF DiskForm, Exists
  <1>5. [[disk.dirs[Ckpt] EXCEPT !.files = files] EXCEPT !.args = job.consumed] = new
    <2> DEFINE dir == [disk.dirs[Ckpt] EXCEPT !.files = files]
    <2>1. dir = [files |-> files, args |-> disk.dirs[Ckpt].args]
      BY <1>4, NewFiles
    <2> HIDE DEF dir
    <2>2. [dir EXCEPT !.args = job.consumed] = new
      BY <2>1, NewArgs
    <2> QED
      BY <2>2 DEF dir
  <1>6. disk'.dirs = [k \in DOMAIN disk.dirs |-> IF k = Ckpt THEN new ELSE disk.dirs[k]]
    BY <1>3, <1>5
  <1> QED
    BY <1>3, <1>6 DEF files

\* common.pt and the arguments in it are of the iteration that is saved.
LEMMA SaveCommonKeeps ==
    ASSUME IInv, SaveCommon
    PROVE  IInv'
  <1>1. Doing("common") /\ Did /\ Exists(Ckpt) /\ UNCHANGED <<config, calls, ran>>
    BY DEF SaveCommon
  <1> DEFINE new == [files |-> NewCommon, args |-> job.consumed]
  <1>2. disk' = [dirs |-> disk'.dirs, tracker |-> disk'.tracker]
    BY CommonWritten DEF IInv
  <1>3. disk'.dirs = [k \in DOMAIN disk.dirs |-> IF k = Ckpt THEN new ELSE disk.dirs[k]]
    BY CommonWritten DEF IInv
  <1>4. DiskForm'
    <2>1. \A k \in DOMAIN disk'.dirs :
              disk'.dirs[k] = [files |-> disk'.dirs[k].files, args |-> disk'.dirs[k].args]
      BY <1>3 DEF IInv, DiskForm
    <2>2. \A k \in DOMAIN disk'.dirs : k \in Names
      BY <1>3 DEF IInv, DiskForm
    <2> QED
      BY <1>2, <1>3, <2>1, <2>2 DEF DiskForm
  <1>5. Ckpt[2] = job.iter /\ Reached(job.iter, job.consumed)
    BY <1>1, CkptIsNamed, DoingNotLoading, Up
  <1>6. DirsInv'
    <2> SUFFICES ASSUME NEW k \in DOMAIN disk'.dirs, Offers(k)'
                 PROVE  Reached(k[2], disk.dirs[k].args)'
      BY DEF DirsInv, Offers
    <2>1. Reached(k[2], disk'.dirs[k].args)
      <3>1. CASE k = Ckpt
        BY <1>3, <1>5, <3>1
      <3>2. CASE k # Ckpt
        BY <1>3, <3>2 DEF IInv, DirsInv, Offers
      <3> QED
        BY <3>1, <3>2
    <2> QED
      BY <1>1, <2>1 DEF Reached, After
  <1> QED
    BY <1>1, <1>4, <1>6, StepAndDisk

LEMMA WriteShardsKeeps ==
    ASSUME IInv, WriteShards
    PROVE  IInv'
  <1>1. /\ Doing("write") /\ Did /\ UNCHANGED <<config, calls, ran>>
        /\ disk' = WithFiles(Ckpt, {Shard(r) : r \in Ranks})
    BY DEF WriteShards
  <1>2. Common \notin {Shard(r) : r \in Ranks}
    BY OtherFiles
  <1> QED
    BY <1>1, <1>2, FilesWritten, StepAndDisk DEF IInv

LEMMA SaveMetadataKeeps ==
    ASSUME IInv, SaveMetadata
    PROVE  IInv'
  <1>1. /\ Doing(".metadata") /\ Did /\ UNCHANGED <<config, calls, ran>>
        /\ disk' = WithFiles(Ckpt, {Metadata})
    BY OneFile DEF SaveMetadata
  <1> QED
    BY <1>1, OtherFiles, FilesWritten, StepAndDisk DEF IInv

LEMMA SaveMarkerKeeps ==
    ASSUME IInv, SaveMarker
    PROVE  IInv'
  <1>1. /\ Doing("metadata.json") /\ Did /\ UNCHANGED <<config, calls, ran>>
        /\ disk' = WithFiles(Ckpt, {Marker})
    BY OneFile DEF SaveMarker
  <1> QED
    BY <1>1, OtherFiles, FilesWritten, StepAndDisk DEF IInv

LEMMA UpdateTrackerKeeps ==
    ASSUME IInv, UpdateTracker
    PROVE  IInv'
  <1>1. /\ Doing("tracker") /\ Did /\ UNCHANGED <<config, calls, ran>>
        /\ disk' = [disk EXCEPT !.tracker[Ckpt[1]] = Ckpt[2]]
    BY DEF UpdateTracker
  <1> QED
    BY <1>1, TrackerChanges, StepAndDisk DEF IInv

LEMMA ScheduleKeeps ==
    ASSUME IInv, Schedule
    PROVE  IInv'
  <1>1. /\ Doing("schedule") /\ Did /\ UNCHANGED <<config, disk, ran>>
        /\ calls' = Append(calls, [ckpt |-> Ckpt, running |-> Ranks])
    BY DEF Schedule
  <1>2. CallsForm'
    BY <1>1, CkptIsNamed DEF IInv, CallsForm, Call
  <1> QED
    BY <1>1, <1>2, StepDone, DiskKept, RanKept DEF IInv

LEMMA WriterEndsKeeps ==
    ASSUME IInv, NEW k \in DOMAIN calls, NEW r \in Ranks, WriterEnds(k, r)
    PROVE  IInv'
  <1>1. /\ UNCHANGED <<config, job, ran>>
        /\ calls' = [calls EXCEPT ![k].running = @ \ {r}]
        /\ disk' = disk \/ disk' = WithFile(calls[k].ckpt, Shard(r))
    BY DEF WriterEnds
  <1>2. CallsForm'
    <2>1. calls \in Seq(Call) /\ calls[k] \in Call
      BY DEF IInv, CallsForm
    <2>2. [calls[k] EXCEPT !.running = @ \ {r}] \in Call
      BY <2>1 DEF Call
    <2>3. calls' = [calls EXCEPT ![k] = [calls[k] EXCEPT !.running = @ \ {r}]]
      BY <1>1
    <2> QED
      BY <2>1, <2>2, <2>3, Replaced DEF CallsForm
  <1>3. DiskForm' /\ DirsInv'
    BY <1>1, DiskKept, OneFile, OtherFiles, FilesWritten DEF IInv
  <1> QED
    BY <1>1, <1>2, <1>3, JobKept, RanKept DEF IInv

\* The steps that finalize a save come before what is left to do.
LEMMA FinalizeKeeps ==
    ASSUME IInv, Finalize
    PROVE  IInv'
  <1>1. /\ UNCHANGED <<config, disk, ran>>
        /\ \E op \in {"poll", "flush"} : Doing(op)
    BY DEF Finalize
  <1>2. PICK k \in Due :
            /\ calls' = SubSeq(calls, 1, k - 1) \o SubSeq(calls, k + 1, Len(calls))
            /\ job' = [job EXCEPT !.todo = Ops(Finalization, calls[k].ckpt) \o @]
    BY DEF Finalize
  <1>3. calls \in Seq(Call) /\ k = 1 /\ k \in DOMAIN calls
    BY DEF IInv, CallsForm, Due
  <1>4. CallsForm'
    <2>1. calls' = SubSeq(calls, 1, 0) \o SubSeq(calls, 2, Len(calls))
      BY <1>2, <1>3
    <2> QED
      BY <1>3, <2>1, WithoutFirst DEF CallsForm
  <1>5. /\ JobForm /\ job.iter \in Nat /\ job.todo \in Seq(Steps(job.iter)) /\ TrainReady(job.todo)
        /\ Reached(job.iter, job.consumed)
    BY <1>1, DoingNotLoading, Up
  <1>6. calls[k].ckpt \in Names
    <2>1. calls[k] \in Call
      BY <1>3
    <2> QED
      BY <2>1 DEF Call
  <1> DEFINE todo == Ops(Finalization, calls[k].ckpt) \o job.todo
  <1>7. Ops(Finalization, calls[k].ckpt) \in Seq(Quiet(job.iter))
    BY <1>5, <1>6, LoopOpsQuiet
  <1>8. todo \in Seq(Steps(job.iter)) /\ TrainReady(todo)
    BY <1>5, <1>7, JoinReady
  <1>9. job' = [job EXCEPT !.todo = todo]
    BY <1>2
  <1> HIDE DEF todo
  <1>10. JobForm' /\ JobInv'
    BY <1>1, <1>5, <1>8, <1>9, TodoChanges
  <1> QED
    BY <1>1, <1>4, <1>10, DiskKept, RanKept DEF IInv

LEMMA FinalizedKeeps ==
    ASSUME IInv, Finalized
    PROVE  IInv'
  <1>1. /\ Did /\ UNCHANGED <<config, calls, disk, ran>>
        /\ \E op \in {"poll", "flush"} : Doing(op)
    BY DEF Finalized
  <1>2. JobForm' /\ JobInv'
    BY <1>1, StepDone
  <1> QED
    BY <1>1, <1>2, DiskKept, CallsKept, RanKept DEF IInv

LEMMA FailKeeps ==
    ASSUME IInv, Fail
    PROVE  IInv'
  BY Ends DEF Fail, LeftBehind

-----------------------------------------------------------------------------
LEMMA InitHolds ==
    ASSUME Init
    PROVE  IInv
  <1>1. job = [state |-> "down", todo |-> <<>>, iter |-> 0, consumed |-> 0, mbs |-> 0, start |-> 0]
    BY DEF Init
  <1>2. JobForm
    BY <1>1 DEF JobForm
  <1>3. JobInv
    BY <1>1 DEF JobInv, TrainReady
  <1>4. DiskForm /\ DirsInv
    BY DEF Init, DiskForm, DirsInv
  <1>5. CallsForm
    BY DEF Init, CallsForm
  <1>6. RanInv
    BY DEF Init, RanInv, SameSamples
  <1> QED
    BY <1>2, <1>3, <1>4, <1>5, <1>6 DEF IInv

LEMMA NextKeeps ==
    ASSUME IInv, [Next]_vars
    PROVE  IInv'
  <1>1. CASE UNCHANGED vars
    BY <1>1, JobKept, DiskKept, CallsKept, RanKept DEF IInv, vars
  <1>2. CASE Start
    BY <1>2, StartKeeps
  <1>3. CASE Crash
    BY <1>3, Ends DEF Crash
  <1>4. CASE JobStep
    <2>1. CASE LoadFails
      BY <2>1, FailKeeps DEF LoadFails
    <2>2. CASE LoadCheckpoint
      BY <2>2, LoadCheckpointKeeps
    <2>3. CASE BeginIteration
      BY <2>3, BeginIterationKeeps
    <2>4. CASE Rampup
      BY <2>4, RampupKeeps
    <2>5. CASE Train
      BY <2>5, TrainKeeps
    <2>6. CASE Leave
      BY <2>6, Ends DEF Leave, LeftBehind
    <2>7. CASE Cleanup \/ MakeDirectory \/ SaveCommon
      BY <2>7, CleanupKeeps, MakeDirectoryKeeps, SaveCommonKeeps
    <2>8. CASE DirectoryNotEmpty \/ DirectoryGone \/ WriteShardsFails \/ SaveMetadataFails
      BY <2>8, FailKeeps DEF DirectoryNotEmpty, DirectoryGone, WriteShardsFails, SaveMetadataFails
    <2>9. CASE WriteShards \/ Schedule \/ Finalize \/ Finalized
      BY <2>9, WriteShardsKeeps, ScheduleKeeps, FinalizeKeeps, FinalizedKeeps
    <2>10. CASE SaveMetadata \/ SaveMarker \/ UpdateTracker
      BY <2>10, SaveMetadataKeeps, SaveMarkerKeeps, UpdateTrackerKeeps
    <2> QED
      BY <1>4, <2>1, <2>2, <2>3, <2>4, <2>5, <2>6, <2>7, <2>8, <2>9, <2>10 DEF JobStep, SaveStep
  <1>5. CASE Writers
    BY <1>5, WriterEndsKeeps DEF Writers
  <1>6. CASE \E ckpt \in removing : Remove(ckpt)
    BY <1>6, RemoveKeeps
  <1> QED
    BY <1>1, <1>2, <1>3, <1>4, <1>5, <1>6 DEF Next

\* Whatever is killed, fails or is resumed, and from whatever checkpoint, every
\* iteration that runs begins where the one before it ended and takes the
\* microbatches its samples call for (training.py 1241-1274, checkpointing.py
\* 1089-1138).
THEOREM TrainsOnSameSamples == Spec => []SameSamples
  <1>1. Init => IInv
    BY InitHolds
  <1>2. IInv /\ [Next]_vars => IInv'
    BY NextKeeps
  <1>3. IInv => SameSamples
    BY DEF IInv, RanInv
  <1> QED
    BY <1>1, <1>2, <1>3, PTL DEF Spec
-----------------------------------------------------------------------------
(* Types.  The bounds of TypeOK follow from what is left to do: there is an *)
(* iteration to train only while the job is unfinished, and a save is of an *)
(* iteration that was run.                                                 *)

TodoBounds(todo) ==
    \A k \in 1 .. Len(todo) : todo[k].ckpt \in Dirs /\ (todo[k].op = "train" => Unfinished)

JobBounds ==
    /\ config \in Configs
    /\ job.state \in {"down", "up", "done"} /\ job.start \in 0 .. MaxStarts
    /\ job.iter \in 0 .. config.iters /\ job.consumed \in Nat /\ job.mbs \in Nat
    /\ TodoBounds(job.todo)

CallsBounds == calls \in Seq([ckpt : Dirs, running : SUBSET Ranks])

ResultsBounds == results \in [Ranks -> Seq(BOOLEAN)]

DirBounds(dir) ==
    /\ DOMAIN dir.files \subseteq Files
    /\ \A f \in DOMAIN dir.files : dir.files[f] \in 0 .. job.start
    /\ dir.args \in Nat

DiskBounds ==
    /\ \A k \in DOMAIN disk.dirs : k \in Dirs /\ DirBounds(disk.dirs[k])
    /\ disk.tracker \in [Kinds -> {None} \cup (0 .. config.iters)]

Bounds ==
    /\ JobBounds /\ CallsBounds /\ ResultsBounds /\ DiskBounds
    /\ removing \subseteq Dirs /\ hit \in BOOLEAN

LEMMA ConfigTypes ==
    ASSUME config \in Configs
    PROVE  /\ config \in ConfigType
           /\ config.iters \in Nat /\ config.start \in Nat /\ config.global \in Nat /\ config.ramp \in Nat
           /\ config.increment \in Nat \ {0} /\ config.unit \in Nat \ {0}
           /\ config.ramp # 0 => config.start <= config.global
  <1>1. config \in ConfigType /\ (config.ramp # 0 => config.start <= config.global)
    BY ConfigsAssumption
  <1> QED
    BY <1>1 DEF ConfigType

LEMMA Quotient ==
    ASSUME NEW a \in Nat, NEW b \in Nat \ {0}
    PROVE  a \div b \in Nat
  OBVIOUS

LEMMA Product ==
    ASSUME NEW a \in Nat, NEW b \in Nat
    PROVE  a * b \in Nat
  OBVIOUS

\* The batch is a natural number of microbatches.
LEMMA MicrobatchesNat ==
    ASSUME config \in Configs, NEW consumed \in Nat
    PROVE  NumMicrobatches(config, consumed) \in Nat
  <1>1. /\ config.start \in Nat /\ config.global \in Nat /\ config.ramp \in Nat
        /\ config.increment \in Nat \ {0} /\ config.unit \in Nat \ {0}
        /\ config.ramp # 0 => config.start <= config.global
    BY ConfigTypes
  <1>2. GlobalBatch(config, consumed) \in Nat
    <2>1. CASE config.ramp = 0 \/ consumed > config.ramp
      BY <1>1, <2>1 DEF GlobalBatch
    <2>2. CASE ~(config.ramp = 0 \/ consumed > config.ramp)
      <3> DEFINE steps == (config.global - config.start) \div config.increment
                 done == (consumed * steps) \div config.ramp
      <3>1. config.global - config.start \in Nat
        BY <1>1, <2>2
      <3>2. steps \in Nat
        BY <1>1, <3>1, Quotient
      <3> HIDE DEF steps
      <3>3. consumed * steps \in Nat
        BY <3>2, Product
      <3>4. done \in Nat
        BY <1>1, <2>2, <3>3, Quotient
      <3> HIDE DEF done
      <3>5. done * config.increment \in Nat
        BY <1>1, <3>4, Product
      <3>6. GlobalBatch(config, consumed) = config.start + done * config.increment
        BY <2>2 DEF GlobalBatch, steps, done
      <3> QED
        BY <1>1, <3>5, <3>6
    <2> QED
      BY <2>1, <2>2
  <1> QED
    BY <1>1, <1>2, Quotient DEF NumMicrobatches

-----------------------------------------------------------------------------
(* Lists of steps.                                                         *)

\* Steps on checkpoints within bounds, none of them a training.
Tame == {step \in [op : LoopOps, ckpt : Dirs] : step.op # "train"}

LEMMA InDirs ==
    ASSUME config \in Configs, NEW kind \in Kinds, NEW i \in 0 .. config.iters
    PROVE  <<kind, i>> \in Dirs /\ NoCkpt \in Dirs
  BY ConfigTypes DEF Dirs, NoCkpt, Kinds

LEMMA OpsTame ==
    ASSUME NEW O \in SUBSET (LoopOps \ {"train"}), NEW ops \in Seq(O), NEW ckpt \in Dirs
    PROVE  Ops(ops, ckpt) \in Seq(Tame)
  <1>1. \A k \in 1 .. Len(ops) : Todo(ops[k], ckpt) \in Tame
    BY DEF Todo, Tame
  <1>2. Ops(ops, ckpt) = [k \in 1 .. Len(ops) |-> Todo(ops[k], ckpt)]
    BY DEF Ops
  <1> QED
    BY <1>1, <1>2

LEMMA SaveStepsTame ==
    ASSUME config \in Configs, NEW kind \in Kinds, NEW i \in 0 .. config.iters
    PROVE  SaveSteps(<<kind, i>>) \in Seq(Tame)
  <1>1. PICK ops \in Seq(SaveOps) : SaveSteps(<<kind, i>>) = Ops(ops, <<kind, i>>)
    BY SaveStepsAre
  <1>2. SaveOps \in SUBSET (LoopOps \ {"train"})
    BY DEF SaveOps, LoopOps
  <1> QED
    BY <1>1, <1>2, InDirs, OpsTame

LEMMA LoopOpsTame ==
    ASSUME config \in Configs
    PROVE  /\ Ops(<<"flush">>, NoCkpt) \in Seq(Tame)
           /\ Ops(<<"flush", "done">>, NoCkpt) \in Seq(Tame)
           /\ Ops(<<"flush", "exit">>, NoCkpt) \in Seq(Tame)
           /\ \A ckpt \in Dirs : Ops(Finalization, ckpt) \in Seq(Tame)
  <1> DEFINE O == LoopOps \ {"train"}
  <1>1. NoCkpt \in Dirs
    BY ConfigTypes DEF NoCkpt, Dirs, Kinds
  <1>2. /\ <<"flush">> \in Seq(O) /\ <<"flush", "done">> \in Seq(O)
        /\ <<"flush", "exit">> \in Seq(O) /\ Finalization \in Seq(O)
    BY DEF LoopOps, SaveOps, Finalization
  <1> HIDE DEF O
  <1>3. O \in SUBSET (LoopOps \ {"train"})
    BY DEF O
  <1> QED
    BY <1>1, <1>2, <1>3, OpsTame

LEMMA AtEndTame ==
    ASSUME config \in Configs, NEW i \in 0 .. config.iters
    PROVE  AtEnd(i) \in Seq(Tame)
  <1> DEFINE save == IF i # 0 /\ i % config.save # 0 THEN SaveSteps(<<"p", i>>) ELSE <<>>
  <1>1. save \in Seq(Tame)
    BY SaveStepsTame DEF Kinds
  <1>2. AtEnd(i) = Ops(<<"flush">>, NoCkpt) \o save \o Ops(<<"flush", "done">>, NoCkpt)
    BY DEF AtEnd
  <1> HIDE DEF save
  <1> QED
    BY <1>1, <1>2, LoopOpsTame, Concatenation

LEMMA AfterIterationTame ==
    ASSUME config \in Configs, NEW i \in 0 .. config.iters, NEW signal \in BOOLEAN
    PROVE  AfterIteration(i, signal) \in Seq(Tame)
  <1> DEFINE due == IF i % config.save = 0 THEN SaveSteps(<<"p", i>>)
                    ELSE IF config.np # 0 /\ i % config.np = 0 THEN SaveSteps(<<"np", i>>)
                    ELSE <<>>
             exit == Ops(<<"flush", "exit">>, NoCkpt)
             save == SaveSteps(<<"p", i>>)
  <1>1. due \in Seq(Tame) /\ save \in Seq(Tame)
    BY SaveStepsTame DEF Kinds
  <1>2. exit \in Seq(Tame)
    BY LoopOpsTame
  <1>3. AfterIteration(i, signal) \in {due, save \o exit, due \o exit}
    BY DEF AfterIteration
  <1> HIDE DEF due, exit, save
  <1> QED
    BY <1>1, <1>2, <1>3, Concatenation

LEMMA TameBounds ==
    ASSUME NEW todo \in Seq(Tame)
    PROVE  TodoBounds(todo)
  BY DEF TodoBounds, Tame

LEMMA TailBounds ==
    ASSUME NEW S, NEW todo \in Seq(S), todo # <<>>, TodoBounds(todo)
    PROVE  TodoBounds(Tail(todo))
  <1>1. /\ Len(Tail(todo)) = Len(todo) - 1 /\ Len(todo) \in Nat
        /\ \A k \in 1 .. Len(Tail(todo)) : Tail(todo)[k] = todo[k + 1] /\ k + 1 \in 1 .. Len(todo)
    OBVIOUS
  <1> QED
    BY <1>1 DEF TodoBounds

LEMMA JoinBounds ==
    ASSUME NEW S, NEW a \in Seq(Tame), NEW b \in Seq(S), TodoBounds(b)
    PROVE  TodoBounds(a \o b)
  <1> DEFINE T == Tame \cup S
  <1>1. a \in Seq(T) /\ b \in Seq(T)
    OBVIOUS
  <1> HIDE DEF T
  <1>2. /\ Len(a \o b) = Len(a) + Len(b) /\ Len(a) \in Nat /\ Len(b) \in Nat
        /\ \A k \in 1 .. Len(a) : (a \o b)[k] = a[k]
        /\ \A k \in 1 .. Len(b) : (a \o b)[Len(a) + k] = b[k]
    BY <1>1, Concatenation
  <1>3. TodoBounds(a)
    BY TameBounds
  <1>4. ASSUME NEW k \in 1 .. Len(a \o b)
        PROVE  (a \o b)[k].ckpt \in Dirs /\ ((a \o b)[k].op = "train" => Unfinished)
    <2>1. CASE k <= Len(a)
      BY <1>2, <1>3, <2>1 DEF TodoBounds
    <2>2. CASE k > Len(a)
      <3>1. k - Len(a) \in 1 .. Len(b) /\ (a \o b)[k] = b[k - Len(a)]
        BY <1>2, <2>2
      <3> QED
        BY <3>1 DEF TodoBounds
    <2> QED
      BY <1>2, <2>1, <2>2
  <1> QED
    BY <1>4 DEF TodoBounds

\* What is left to do is a sequence.
LEMMA TodoSeq ==
    ASSUME IInv
    PROVE  \E S : job.todo \in Seq(S)
  <1>1. CASE Loading
    <2>1. job.todo \in Seq({Todo("load", NoCkpt)})
      BY <1>1 DEF Loading
    <2> QED
      BY <2>1
  <1>2. CASE ~Loading
    BY <1>2 DEF IInv, JobInv
  <1> QED
    BY <1>1, <1>2

-----------------------------------------------------------------------------
(* What steps do to the bounds.                                            *)

\* The job has other things to do.
LEMMA OtherTodo ==
    ASSUME JobForm, JobBounds, NEW todo, TodoBounds(todo),
           job' = [job EXCEPT !.todo = todo], UNCHANGED config
    PROVE  JobBounds' /\ job'.start = job.start
  <1>1. /\ job'.state = job.state /\ job'.todo = todo /\ job'.iter = job.iter
        /\ job'.consumed = job.consumed /\ job'.mbs = job.mbs /\ job'.start = job.start
    BY DEF JobForm
  <1>2. TodoBounds(job.todo)'
    BY <1>1 DEF TodoBounds, Unfinished, Dirs
  <1> QED
    BY <1>1, <1>2 DEF JobBounds

LEMMA DidBounds ==
    ASSUME IInv, JobBounds, NEW op, Doing(op), Did, UNCHANGED config
    PROVE  JobBounds' /\ job'.start = job.start
  <1>1. PICK S : job.todo \in Seq(S)
    BY TodoSeq
  <1>2. TodoBounds(Tail(job.todo))
    BY <1>1, TailBounds DEF Doing, JobBounds
  <1>3. job' = [job EXCEPT !.todo = Tail(job.todo)]
    BY DEF Did
  <1> QED
    BY <1>2, <1>3, OtherTodo DEF IInv

LEMMA CkptBounds ==
    ASSUME IInv, JobBounds, NEW op, Doing(op)
    PROVE  Ckpt \in Dirs
  <1>1. PICK S : job.todo \in Seq(S)
    BY TodoSeq
  <1>2. job.todo # <<>> /\ 1 \in 1 .. Len(job.todo) /\ Head(job.todo) = job.todo[1]
    BY <1>1 DEF Doing
  <1> QED
    BY <1>2 DEF JobBounds, TodoBounds, Ckpt

LEMMA LaterStart ==
    ASSUME JobBounds, DiskBounds, UNCHANGED <<config, disk>>, job'.start \in Nat, job'.start >= job.start
    PROVE  DiskBounds'
  <1>1. job.start \in Nat
    BY DEF JobBounds
  <1>2. \A x \in 0 .. job.start : x \in 0 .. job'.start
    BY <1>1
  <1> QED
    BY <1>2 DEF DiskBounds, DirBounds, Dirs, Files, Common, Metadata, Marker, Shard

LEMMA DiskBoundsNext ==
    ASSUME UNCHANGED config, job'.start = job.start,
           \A k \in DOMAIN disk'.dirs : k \in Dirs /\ DirBounds(disk'.dirs[k]),
           disk'.tracker \in [Kinds -> {None} \cup (0 .. config.iters)]
    PROVE  DiskBounds'
  BY DEF DiskBounds, DirBounds, Dirs, Files, Common, Metadata, Marker, Shard

\* Files are written by this start of the job, or cut short.
LEMMA FilesBounds ==
    ASSUME DiskForm, JobBounds, DiskBounds, UNCHANGED config, job'.start = job.start,
           NEW ckpt, NEW files, DOMAIN files \subseteq Files,
           \A f \in DOMAIN files :
                files[f] = job.start \/ files[f] = 0
                \/ (ckpt \in DOMAIN disk.dirs /\ f \in DOMAIN disk.dirs[ckpt].files
                    /\ files[f] = disk.dirs[ckpt].files[f]),
           disk' = [disk EXCEPT !.dirs[ckpt].files = files]
    PROVE  DiskBounds'
  <1>1. /\ DOMAIN disk'.dirs = DOMAIN disk.dirs
        /\ \A k \in DOMAIN disk.dirs :
                /\ disk'.dirs[k].args = disk.dirs[k].args
                /\ disk'.dirs[k].files = IF k = ckpt THEN files ELSE disk.dirs[k].files
    BY FilesChange
  <1>2. disk'.tracker = disk.tracker
    BY DEF DiskForm
  <1>3. job.start \in Nat
    BY DEF JobBounds
  <1>4. ASSUME NEW k \in DOMAIN disk'.dirs
        PROVE  k \in Dirs /\ DirBounds(disk'.dirs[k])
    <2>1. k \in Dirs /\ DirBounds(disk.dirs[k])
      BY <1>1 DEF DiskBounds
    <2>2. CASE k # ckpt
      BY <1>1, <2>1, <2>2 DEF DirBounds
    <2>3. CASE k = ckpt
      <3>1. \A f \in DOMAIN files : files[f] \in 0 .. job.start
        BY <1>3, <2>1, <2>3 DEF DirBounds
      <3> QED
        BY <1>1, <2>1, <2>3, <3>1 DEF DirBounds
    <2> QED
      BY <2>2, <2>3
  <1> QED
    BY <1>2, <1>4, DiskBoundsNext DEF DiskBounds

LEMMA WriteBounds ==
    ASSUME DiskForm, JobBounds, DiskBounds, UNCHANGED config, job'.start = job.start,
           NEW ckpt, Exists(ckpt), NEW fs \in SUBSET Files, disk' = WithFiles(ckpt, fs)
    PROVE  DiskBounds'
  <1> DEFINE old == disk.dirs[ckpt].files
             files == [g \in DOMAIN old \cup fs |-> IF g \in fs THEN job.start ELSE old[g]]
  <1>1. disk' = [disk EXCEPT !.dirs[ckpt].files = files]
    BY DEF WithFiles
  <1>2. ckpt \in DOMAIN disk.dirs /\ DOMAIN old \subseteq Files
    BY DEF Exists, DiskBounds, DirBounds
  <1>3. DOMAIN files \subseteq Files
    BY <1>2
  <1>4. \A f \in DOMAIN files : files[f] = job.start \/ (f \in DOMAIN old /\ files[f] = old[f])
    OBVIOUS
  <1> HIDE DEF files
  <1> QED
    BY <1>1, <1>2, <1>3, <1>4, FilesBounds

LEMMA CutShort ==
    ASSUME DiskForm, JobBounds, DiskBounds, UNCHANGED config, job'.start = job.start,
           NEW ckpt, disk' = [disk EXCEPT !.dirs[ckpt].files = [f \in {Common} |-> 0]]
    PROVE  DiskBounds'
  <1> DEFINE files == [f \in {Common} |-> 0]
  <1>1. disk' = [disk EXCEPT !.dirs[ckpt].files = files]
    OBVIOUS
  <1>2. DOMAIN files \subseteq Files
    BY DEF Files
  <1>3. \A f \in DOMAIN files : files[f] = 0
    OBVIOUS
  <1> HIDE DEF files
  <1>4. \A f \in DOMAIN files :
            files[f] = job.start \/ files[f] = 0
            \/ (ckpt \in DOMAIN disk.dirs /\ f \in DOMAIN disk.dirs[ckpt].files
                /\ files[f] = disk.dirs[ckpt].files[f])
    BY <1>3
  <1> QED
    BY <1>1, <1>2, <1>4, FilesBounds

\* Writing to a directory that is gone leaves the disk as it is.
LEMMA NoDirectory ==
    ASSUME DiskForm, NEW ckpt, ~Exists(ckpt), NEW fs
    PROVE  WithFiles(ckpt, fs) = disk
  BY DEF WithFiles, Exists, DiskForm

LEMMA RemovalBounds ==
    ASSUME DiskForm, DiskBounds, UNCHANGED config, job'.start = job.start,
           NEW ckpts, disk' = Without(ckpts)
    PROVE  DiskBounds'
  <1>1. disk'.dirs = [k \in DOMAIN disk.dirs \ ckpts |-> disk.dirs[k]] /\ disk'.tracker = disk.tracker
    BY DEF DiskForm, Without
  <1>2. \A k \in DOMAIN disk'.dirs : k \in Dirs /\ DirBounds(disk'.dirs[k])
    BY <1>1 DEF DiskBounds
  <1> QED
    BY <1>1, <1>2, DiskBoundsNext DEF DiskBounds

LEMMA TrackerBounds ==
    ASSUME DiskForm, DiskBounds, UNCHANGED config, job'.start = job.start,
           NEW kind \in Kinds, NEW i \in 0 .. config.iters, disk' = [disk EXCEPT !.tracker[kind] = i]
    PROVE  DiskBounds'
  <1>1. disk'.dirs = disk.dirs /\ disk'.tracker = [disk.tracker EXCEPT ![kind] = i]
    BY DEF DiskForm
  <1>2. disk'.tracker \in [Kinds -> {None} \cup (0 .. config.iters)]
    BY <1>1 DEF DiskBounds
  <1> QED
    BY <1>1, <1>2, DiskBoundsNext DEF DiskBounds

LEMMA Element ==
    ASSUME NEW S, NEW q \in Seq(S), NEW k \in DOMAIN q
    PROVE  q[k] \in S
  OBVIOUS

\* Queues of outcomes.
LEMMA QueueAppend ==
    ASSUME NEW S, NEW q \in [Ranks -> Seq(S)], NEW r \in Ranks, NEW x \in S
    PROVE  [q EXCEPT ![r] = Append(@, x)] \in [Ranks -> Seq(S)]
  OBVIOUS

LEMMA QueueTail ==
    ASSUME NEW S, NEW q \in [Ranks -> Seq(S)], \A r \in Ranks : q[r] # <<>>
    PROVE  [r \in Ranks |-> Tail(q[r])] \in [Ranks -> Seq(S)]
  OBVIOUS

-----------------------------------------------------------------------------
(* Every action preserves the bounds.                                      *)

\* A step that is done, with the job's other variables left alone.
LEMMA DidKeepsBounds ==
    ASSUME IInv, Bounds, NEW op, Doing(op), Did, UNCHANGED <<config, calls, results, removing, hit>>,
           JobBounds' /\ job'.start = job.start => DiskBounds'
    PROVE  Bounds'
  <1>1. JobBounds' /\ job'.start = job.start
    BY DidBounds DEF Bounds
  <1> QED
    BY <1>1 DEF Bounds, CallsBounds, ResultsBounds, Dirs

\* The disk is left as it is.
LEMMA DiskStays ==
    ASSUME Bounds, UNCHANGED <<config, disk>>, job'.start = job.start
    PROVE  DiskBounds'
  <1>1. job.start \in Nat
    BY DEF Bounds, JobBounds
  <1> QED
    BY <1>1, LaterStart DEF Bounds

LEMMA EndsBounded ==
    ASSUME IInv, Bounds, NEW state \in {"down", "done"}, NEW left \in LeftBehind, End(state, left),
           hit' \in BOOLEAN
    PROVE  Bounds'
  <1>1. /\ job' = [job EXCEPT !.state = state, !.todo = <<>>] /\ UNCHANGED config
        /\ calls' = <<>> /\ results' = NoResults /\ removing' = {} /\ disk' = left
    BY DEF End
  <1>2. /\ job'.state = state /\ job'.todo = <<>> /\ job'.iter = job.iter
        /\ job'.consumed = job.consumed /\ job'.mbs = job.mbs /\ job'.start = job.start
    BY <1>1 DEF IInv, JobForm
  <1>3. JobBounds'
    BY <1>1, <1>2 DEF Bounds, JobBounds, TodoBounds
  <1>4. DiskBounds'
    <2>1. CASE left = disk
      BY <1>1, <1>2, <2>1, DiskStays
    <2>2. CASE /\ Doing("common") /\ Exists(Ckpt)
               /\ left = [disk EXCEPT !.dirs[Ckpt].files = [f \in {Common} |-> 0]]
      <3>1. disk' = [disk EXCEPT !.dirs[Ckpt].files = [f \in {Common} |-> 0]]
        BY <1>1, <2>2
      <3>2. DiskForm /\ JobBounds /\ DiskBounds /\ UNCHANGED config /\ job'.start = job.start
        BY <1>1, <1>2 DEF IInv, Bounds
      <3> QED
        BY <3>1, <3>2, CutShort
    <2>3. CASE Doing("tracker") /\ left = [disk EXCEPT !.tracker[Ckpt[1]] = Emptied]
      <3>1. Ckpt[1] \in Kinds
        BY <2>3, CkptBounds DEF Bounds, Dirs
      <3>2. Emptied \in 0 .. config.iters
        BY ConfigTypes DEF Emptied, Bounds, JobBounds
      <3> QED
        BY <1>1, <1>2, <2>3, <3>1, <3>2, TrackerBounds DEF IInv, Bounds
    <2> QED
      BY <2>1, <2>2, <2>3 DEF LeftBehind
  <1>5. CallsBounds' /\ ResultsBounds'
    <2>1. \A S : <<>> \in Seq(S)
      OBVIOUS
    <2> QED
      BY <1>1, <2>1 DEF CallsBounds, ResultsBounds, NoResults
  <1> QED
    BY <1>1, <1>3, <1>4, <1>5 DEF Bounds

LEMMA FailBounded ==
    ASSUME IInv, Bounds, Fail
    PROVE  Bounds'
  <1>1. End("down", disk) /\ disk \in LeftBehind /\ hit' \in BOOLEAN
    BY DEF Fail, LeftBehind
  <1> QED
    BY <1>1, EndsBounded

LEMMA StartBounded ==
    ASSUME IInv, Bounds, Start
    PROVE  Bounds'
  <1>1. /\ job.start < MaxStarts
        /\ job' = [job EXCEPT !.state = "up", !.start = @ + 1, !.todo = <<Todo("load", NoCkpt)>>]
        /\ UNCHANGED <<config, calls, results, removing, disk, hit>>
    BY DEF Start
  <1>2. /\ job'.state = "up" /\ job'.start = job.start + 1 /\ job'.todo = <<Todo("load", NoCkpt)>>
        /\ job'.iter = job.iter /\ job'.consumed = job.consumed /\ job'.mbs = job.mbs
    BY <1>1 DEF IInv, JobForm
  <1>3. job'.start \in 0 .. MaxStarts /\ job'.start \in Nat /\ job'.start >= job.start
    BY <1>1, <1>2, StartsAssumption DEF Bounds, JobBounds
  <1>4. TodoBounds(job.todo)'
    <2>1. NoCkpt \in Dirs'
      BY <1>1, ConfigTypes DEF Bounds, JobBounds, NoCkpt, Dirs, Kinds
    <2> QED
      BY <1>2, <2>1 DEF TodoBounds, Todo
  <1>5. JobBounds'
    BY <1>1, <1>2, <1>3, <1>4 DEF Bounds, JobBounds
  <1>6. DiskBounds'
    BY <1>1, <1>3, LaterStart DEF Bounds
  <1> QED
    BY <1>1, <1>5, <1>6 DEF Bounds, CallsBounds, ResultsBounds, Dirs

\* The iteration that the tracker names is one that was run.
LEMMA LoadCheckpointBounded ==
    ASSUME IInv, Bounds, LoadCheckpoint
    PROVE  Bounds'
  <1>1. /\ Doing("load") /\ Loadable
        /\ job' = [(IF Named[2] = None
                    THEN [job EXCEPT !.iter = 0, !.consumed = 0, !.mbs = NumMicrobatches(config, 0)]
                    ELSE Resume(Named)) EXCEPT !.todo = Tail(@)]
        /\ UNCHANGED <<config, calls, results, removing, disk, hit>>
    BY DEF LoadCheckpoint
  <1>2. config \in Configs /\ 0 \in 0 .. config.iters /\ 0 \in Nat
    BY ConfigTypes DEF Bounds, JobBounds
  <1>3. PICK i \in 0 .. config.iters, c \in Nat :
            job' = [state |-> job.state, todo |-> Tail(job.todo), iter |-> i,
                    consumed |-> c, mbs |-> NumMicrobatches(config, c), start |-> job.start]
    <2>1. CASE Named[2] = None
      <3>1. job' = [state |-> job.state, todo |-> Tail(job.todo), iter |-> 0, consumed |-> 0,
                    mbs |-> NumMicrobatches(config, 0), start |-> job.start]
        BY <1>1, <2>1 DEF IInv, JobForm
      <3> QED
        BY <1>2, <3>1
    <2>2. CASE Named[2] # None
      <3>1. Named \in DOMAIN disk.dirs
        BY <1>1, <2>2 DEF Loadable, Exists
      <3>2. Named[2] \in 0 .. config.iters /\ disk.dirs[Named].args \in Nat
        BY <3>1 DEF Bounds, DiskBounds, DirBounds, Dirs
      <3>3. job' = [state |-> job.state, todo |-> Tail(job.todo), iter |-> Named[2],
                    consumed |-> disk.dirs[Named].args,
                    mbs |-> NumMicrobatches(config, disk.dirs[Named].args), start |-> job.start]
        BY <1>1, <2>2 DEF IInv, JobForm, Resume
      <3> QED
        BY <3>2, <3>3
    <2> QED
      BY <2>1, <2>2
  <1>4. job.todo = <<Todo("load", NoCkpt)>>
    BY <1>1, LoadAlone DEF Loading
  <1>5. /\ job'.todo = <<>> /\ job'.iter = i /\ job'.consumed = c /\ job'.state = job.state
        /\ job'.mbs = NumMicrobatches(config, c) /\ job'.start = job.start
    BY <1>3, <1>4
  <1>6. job'.mbs \in Nat
    BY <1>2, <1>5, MicrobatchesNat
  <1>7. JobBounds'
    BY <1>1, <1>5, <1>6 DEF Bounds, JobBounds, TodoBounds
  <1>8. DiskBounds'
    BY <1>1, <1>5, DiskStays
  <1> QED
    BY <1>1, <1>7, <1>8 DEF Bounds, CallsBounds, ResultsBounds, Dirs

\* There is an iteration to train only while the job is unfinished.
LEMMA BeginIterationBounded ==
    ASSUME IInv, Bounds, BeginIteration
    PROVE  Bounds'
  <1>1. /\ job' = [job EXCEPT !.todo = IF Unfinished THEN Ops(<<"poll", "rampup", "train">>, NoCkpt)
                                       ELSE AtEnd(job.iter)]
        /\ UNCHANGED <<config, calls, results, removing, disk, hit>>
    BY DEF BeginIteration
  <1>2. config \in Configs /\ job.iter \in 0 .. config.iters /\ JobBounds /\ JobForm
    BY DEF Bounds, JobBounds, IInv
  <1>3. PICK todo : job' = [job EXCEPT !.todo = todo] /\ TodoBounds(todo)
    <2>1. CASE Unfinished
      <3>1. Ops(<<"poll", "rampup", "train">>, NoCkpt)
                = <<Todo("poll", NoCkpt), Todo("rampup", NoCkpt), Todo("train", NoCkpt)>>
        BY DEF Ops
      <3>2. NoCkpt \in Dirs
        BY <1>2, InDirs DEF Kinds
      <3>3. TodoBounds(<<Todo("poll", NoCkpt), Todo("rampup", NoCkpt), Todo("train", NoCkpt)>>)
        BY <2>1, <3>2 DEF TodoBounds, Todo
      <3> QED
        BY <1>1, <2>1, <3>1, <3>3
    <2>2. CASE ~Unfinished
      <3>1. TodoBounds(AtEnd(job.iter))
        BY <1>2, AtEndTame, TameBounds
      <3> QED
        BY <1>1, <2>2, <3>1
    <2> QED
      BY <2>1, <2>2
  <1>4. JobBounds' /\ job'.start = job.start
    BY <1>1, <1>2, <1>3, OtherTodo
  <1>5. DiskBounds'
    BY <1>1, <1>4, DiskStays
  <1> QED
    BY <1>1, <1>4, <1>5 DEF Bounds, CallsBounds, ResultsBounds, Dirs

LEMMA RampupBounded ==
    ASSUME IInv, Bounds, Rampup
    PROVE  Bounds'
  <1> DEFINE mbs == NumMicrobatches(config, job.consumed)
             save == IF mbs # job.mbs /\ job.iter # 0 THEN SaveSteps(<<"p", job.iter>>) ELSE <<>>
             todo == save \o Tail(job.todo)
  <1>1. /\ Doing("rampup") /\ UNCHANGED <<config, calls, results, removing, disk, hit>>
        /\ job' = [job EXCEPT !.mbs = mbs, !.todo = todo]
    BY DEF Rampup
  <1>2. config \in Configs /\ job.iter \in 0 .. config.iters /\ job.consumed \in Nat
    BY DEF Bounds, JobBounds
  <1>3. PICK S : job.todo \in Seq(S)
    BY TodoSeq
  <1>4. job.todo # <<>> /\ TodoBounds(Tail(job.todo)) /\ Tail(job.todo) \in Seq(S)
    BY <1>1, <1>3, TailBounds, TailSteps DEF Doing, Bounds, JobBounds
  <1>5. save \in Seq(Tame)
    BY <1>2, SaveStepsTame DEF Kinds
  <1>6. mbs \in Nat
    BY <1>2, MicrobatchesNat
  <1> HIDE DEF save
  <1>7. TodoBounds(todo)
    BY <1>4, <1>5, JoinBounds
  <1> HIDE DEF todo, mbs
  <1>8. /\ job'.state = job.state /\ job'.todo = todo /\ job'.iter = job.iter
        /\ job'.consumed = job.consumed /\ job'.mbs = mbs /\ job'.start = job.start
    BY <1>1 DEF IInv, JobForm
  <1>9. TodoBounds(job.todo)'
    BY <1>1, <1>7, <1>8 DEF TodoBounds, Unfinished, Dirs
  <1>10. JobBounds'
    BY <1>1, <1>6, <1>8, <1>9 DEF Bounds, JobBounds
  <1>11. DiskBounds'
    BY <1>1, <1>8, DiskStays
  <1> QED
    BY <1>1, <1>10, <1>11 DEF Bounds, CallsBounds, ResultsBounds, Dirs

LEMMA TrainBounded ==
    ASSUME IInv, Bounds, Train
    PROVE  Bounds'
  <1> DEFINE c == job.consumed + job.mbs * config.unit
  <1>1. Doing("train") /\ UNCHANGED <<config, calls, results, removing, disk, hit>>
    BY DEF Train
  <1>2. PICK signal \in BOOLEAN :
            job' = [job EXCEPT !.iter = @ + 1, !.consumed = @ + job.mbs * config.unit,
                               !.todo = AfterIteration(job.iter + 1, signal)]
    BY DEF Train
  <1>3. /\ job'.state = job.state /\ job'.todo = AfterIteration(job.iter + 1, signal)
        /\ job'.iter = job.iter + 1 /\ job'.consumed = c
        /\ job'.mbs = job.mbs /\ job'.start = job.start
    BY <1>2 DEF IInv, JobForm
  <1>4. Unfinished
    <2>1. PICK S : job.todo \in Seq(S)
      BY TodoSeq
    <2>2. 1 \in 1 .. Len(job.todo) /\ job.todo[1].op = "train"
      BY <1>1, <2>1 DEF Doing
    <2> QED
      BY <2>2 DEF Bounds, JobBounds, TodoBounds
  <1>5. config \in Configs /\ config.iters \in Nat /\ config.unit \in Nat
    BY ConfigTypes DEF Bounds, JobBounds
  <1>6. job.iter + 1 \in 0 .. config.iters
    BY <1>4, <1>5 DEF Bounds, JobBounds, Unfinished
  <1>7. c \in Nat
    <2>1. job.consumed \in Nat /\ job.mbs \in Nat
      BY DEF Bounds, JobBounds
    <2>2. job.mbs * config.unit \in Nat
      BY <1>5, <2>1, Product
    <2> QED
      BY <2>1, <2>2
  <1> HIDE DEF c
  <1>8. TodoBounds(job.todo)'
    <2>1. AfterIteration(job.iter + 1, signal) \in Seq(Tame)
      BY <1>5, <1>6, AfterIterationTame
    <2>2. \A k \in 1 .. Len(job'.todo) : job'.todo[k].ckpt \in Dirs /\ job'.todo[k].op # "train"
      BY <1>3, <2>1 DEF Tame
    <2> QED
      BY <1>1, <2>2 DEF TodoBounds, Dirs
  <1>9. JobBounds'
    BY <1>1, <1>3, <1>6, <1>7, <1>8 DEF Bounds, JobBounds
  <1>10. DiskBounds'
    BY <1>1, <1>3, DiskStays
  <1> QED
    BY <1>1, <1>9, <1>10 DEF Bounds, CallsBounds, ResultsBounds, Dirs

-----------------------------------------------------------------------------
(* The steps of a save keep the bounds.                                    *)

LEMMA CleanupBounded ==
    ASSUME IInv, Bounds, Cleanup
    PROVE  Bounds'
  <1> DEFINE old == ToRemove({k \in DOMAIN disk.dirs : k[1] = "np"})
  <1>1. /\ Doing("cleanup") /\ Did /\ UNCHANGED <<config, calls, results, hit>>
        /\ \/ removing' = removing \cup old /\ UNCHANGED disk
           \/ disk' = Without(old) /\ UNCHANGED removing
    BY DEF Cleanup
  <1>2. old \subseteq Dirs
    BY DEF ToRemove, Bounds, DiskBounds
  <1> HIDE DEF old
  <1>3. JobBounds' /\ job'.start = job.start
    BY <1>1, DidBounds DEF Bounds
  <1>4. DiskBounds'
    BY <1>1, <1>3, DiskStays, RemovalBounds DEF IInv, Bounds
  <1>5. removing' \subseteq Dirs
    BY <1>1, <1>2 DEF Bounds
  <1> QED
    BY <1>1, <1>3, <1>4, <1>5 DEF Bounds, CallsBounds, ResultsBounds, Dirs

LEMMA RemoveBounded ==
    ASSUME IInv, Bounds, NEW ckpt \in removing, Remove(ckpt)
    PROVE  Bounds'
  <1>1. /\ disk' = Without({ckpt}) /\ removing' = removing \ {ckpt}
        /\ UNCHANGED <<config, job, calls, results, hit>>
    BY DEF Remove
  <1>2. DiskBounds'
    BY <1>1, RemovalBounds DEF IInv, Bounds
  <1> QED
    BY <1>1, <1>2 DEF Bounds, JobBounds, TodoBounds, Unfinished, CallsBounds, ResultsBounds, Dirs

LEMMA MakeDirectoryBounded ==
    ASSUME IInv, Bounds, MakeDirectory
    PROVE  Bounds'
  <1> DEFINE new == [files |-> [f \in {} |-> 0], args |-> 0]
  <1>1. Doing("mkdir") /\ Did /\ UNCHANGED <<config, calls, results, removing, hit>>
    BY DEF MakeDirectory
  <1>2. ASSUME job'.start = job.start PROVE DiskBounds'
    <2>1. CASE Exists(Ckpt)
      BY <1>1, <1>2, <2>1, DiskStays DEF MakeDirectory
    <2>2. CASE ~Exists(Ckpt)
      <3>1. /\ disk'.dirs = [k \in DOMAIN disk.dirs \cup {Ckpt} |-> IF k = Ckpt THEN new ELSE disk.dirs[k]]
            /\ disk'.tracker = disk.tracker
        BY <2>2 DEF MakeDirectory, IInv, DiskForm
      <3>2. Ckpt \in Dirs
        BY <1>1, CkptBounds DEF Bounds
      <3>3. DirBounds(new)
        BY DEF DirBounds
      <3> HIDE DEF new
      <3>4. \A k \in DOMAIN disk'.dirs : k \in Dirs /\ DirBounds(disk'.dirs[k])
        BY <3>1, <3>2, <3>3 DEF Bounds, DiskBounds
      <3> QED
        BY <1>1, <1>2, <3>1, <3>4, DiskBoundsNext DEF Bounds, DiskBounds
    <2> QED
      BY <2>1, <2>2
  <1> QED
    BY <1>1, <1>2, DidKeepsBounds

LEMMA SaveCommonBounded ==
    ASSUME IInv, Bounds, SaveCommon
    PROVE  Bounds'
  <1> DEFINE new == [files |-> NewCommon, args |-> job.consumed]
  <1>1. Doing("common") /\ Did /\ Exists(Ckpt) /\ UNCHANGED <<config, calls, results, removing, hit>>
    BY DEF SaveCommon
  <1>2. /\ disk' = [dirs |-> disk'.dirs, tracker |-> disk.tracker]
        /\ disk'.dirs = [k \in DOMAIN disk.dirs |-> IF k = Ckpt THEN new ELSE disk.dirs[k]]
    BY CommonWritten DEF IInv
  <1>3. DirBounds(new)
    <2>1. Ckpt \in DOMAIN disk.dirs
      BY <1>1 DEF Exists
    <2>2. DirBounds(disk.dirs[Ckpt]) /\ job.start \in Nat /\ job.consumed \in Nat
      BY <2>1 DEF Bounds, DiskBounds, JobBounds
    <2>3. DOMAIN NewCommon \subseteq Files
      BY <2>2 DEF NewCommon, DirBounds, Files
    <2>4. \A f \in DOMAIN NewCommon : NewCommon[f] \in 0 .. job.start
      BY <2>2 DEF NewCommon, DirBounds
    <2> QED
      BY <2>2, <2>3, <2>4 DEF DirBounds
  <1> HIDE DEF new
  <1>4. \A k \in DOMAIN disk'.dirs : k \in Dirs /\ DirBounds(disk'.dirs[k])
    BY <1>2, <1>3 DEF Bounds, DiskBounds
  <1>5. disk'.tracker = disk.tracker
    BY <1>2
  <1>6. ASSUME job'.start = job.start PROVE DiskBounds'
    BY <1>1, <1>4, <1>5, <1>6, DiskBoundsNext DEF Bounds, DiskBounds
  <1> QED
    BY <1>1, <1>6, DidKeepsBounds

\* A save writes its files.
LEMMA WritesBounded ==
    ASSUME Bounds, DiskForm, UNCHANGED config, job'.start = job.start,
           NEW ckpt, NEW fs \in SUBSET Files, disk' = WithFiles(ckpt, fs)
    PROVE  DiskBounds'
  <1>1. CASE Exists(ckpt)
    BY <1>1, WriteBounds DEF Bounds
  <1>2. CASE ~Exists(ckpt)
    BY <1>2, NoDirectory, DiskStays
  <1> QED
    BY <1>1, <1>2

LEMMA WriteShardsBounded ==
    ASSUME IInv, Bounds, WriteShards
    PROVE  Bounds'
  <1>1. /\ Doing("write") /\ Did /\ UNCHANGED <<config, calls, results, removing, hit>>
        /\ disk' = WithFiles(Ckpt, {Shard(r) : r \in Ranks})
    BY DEF WriteShards
  <1>2. {Shard(r) : r \in Ranks} \in SUBSET Files
    BY DEF Files
  <1>3. job'.start = job.start => DiskBounds'
    BY <1>1, <1>2, WritesBounded DEF IInv
  <1> QED
    BY <1>1, <1>3, DidKeepsBounds

LEMMA SaveMetadataBounded ==
    ASSUME IInv, Bounds, SaveMetadata
    PROVE  Bounds'
  <1>1. /\ Doing(".metadata") /\ Did /\ Written /\ UNCHANGED <<config, calls, removing, hit>>
        /\ results' = IF config.async THEN [r \in Ranks |-> Tail(results[r])] ELSE results
        /\ disk' = WithFiles(Ckpt, {Metadata})
    BY OneFile DEF SaveMetadata
  <1>2. JobBounds' /\ job'.start = job.start
    BY <1>1, DidBounds DEF Bounds
  <1>3. DiskBounds'
    <2>1. {Metadata} \in SUBSET Files
      BY DEF Files
    <2> QED
      BY <1>1, <1>2, <2>1, WritesBounded DEF IInv
  <1>4. ResultsBounds'
    <2>1. results \in [Ranks -> Seq(BOOLEAN)]
      BY DEF Bounds, ResultsBounds
    <2>2. CASE config.async
      <3>1. \A r \in Ranks : results[r] # <<>>
        BY <1>1, <2>2 DEF Written
      <3>2. [r \in Ranks |-> Tail(results[r])] \in [Ranks -> Seq(BOOLEAN)]
        BY <2>1, <3>1, QueueTail
      <3> QED
        BY <1>1, <2>2, <3>2 DEF ResultsBounds
    <2>3. CASE ~config.async
      BY <1>1, <2>1, <2>3 DEF ResultsBounds
    <2> QED
      BY <2>2, <2>3
  <1> QED
    BY <1>1, <1>2, <1>3, <1>4 DEF Bounds, CallsBounds, Dirs

LEMMA SaveMarkerBounded ==
    ASSUME IInv, Bounds, SaveMarker
    PROVE  Bounds'
  <1>1. /\ Doing("metadata.json") /\ Did /\ UNCHANGED <<config, calls, results, removing, hit>>
        /\ disk' = WithFiles(Ckpt, {Marker})
    BY OneFile DEF SaveMarker
  <1>2. {Marker} \in SUBSET Files
    BY DEF Files
  <1>3. job'.start = job.start => DiskBounds'
    BY <1>1, <1>2, WritesBounded DEF IInv
  <1> QED
    BY <1>1, <1>3, DidKeepsBounds

LEMMA UpdateTrackerBounded ==
    ASSUME IInv, Bounds, UpdateTracker
    PROVE  Bounds'
  <1>1. /\ Doing("tracker") /\ Did /\ UNCHANGED <<config, calls, results, removing, hit>>
        /\ disk' = [disk EXCEPT !.tracker[Ckpt[1]] = Ckpt[2]]
    BY DEF UpdateTracker
  <1>2. Ckpt[1] \in Kinds /\ Ckpt[2] \in 0 .. config.iters
    BY <1>1, CkptBounds DEF Bounds, Dirs
  <1>3. job'.start = job.start => DiskBounds'
    BY <1>1, <1>2, TrackerBounds DEF IInv, Bounds
  <1> QED
    BY <1>1, <1>3, DidKeepsBounds

LEMMA ScheduleBounded ==
    ASSUME IInv, Bounds, Schedule
    PROVE  Bounds'
  <1>1. /\ Doing("schedule") /\ Did /\ UNCHANGED <<config, results, removing, disk, hit>>
        /\ calls' = Append(calls, [ckpt |-> Ckpt, running |-> Ranks])
    BY DEF Schedule
  <1>2. JobBounds' /\ job'.start = job.start
    BY <1>1, DidBounds DEF Bounds
  <1>3. [ckpt |-> Ckpt, running |-> Ranks] \in [ckpt : Dirs, running : SUBSET Ranks]
    BY <1>1, CkptBounds DEF Bounds
  <1>4. CallsBounds'
    BY <1>1, <1>3 DEF Bounds, CallsBounds, Dirs
  <1>5. DiskBounds'
    BY <1>1, <1>2, DiskStays
  <1> QED
    BY <1>1, <1>2, <1>4, <1>5 DEF Bounds, ResultsBounds, Dirs

LEMMA WriterEndsBounded ==
    ASSUME IInv, Bounds, NEW k \in DOMAIN calls, NEW r \in Ranks, WriterEnds(k, r)
    PROVE  Bounds'
  <1> DEFINE C == [ckpt : Dirs, running : SUBSET Ranks]
  <1>1. /\ UNCHANGED <<config, job, removing, hit>>
        /\ calls' = [calls EXCEPT ![k].running = @ \ {r}]
        /\ disk' = disk \/ disk' = WithFiles(calls[k].ckpt, {Shard(r)})
    BY OneFile DEF WriterEnds
  <1>2. PICK ok \in BOOLEAN : results' = [results EXCEPT ![r] = Append(@, ok)]
    BY DEF WriterEnds
  <1>3. calls \in Seq(C) /\ results \in [Ranks -> Seq(BOOLEAN)]
    BY DEF Bounds, CallsBounds, ResultsBounds
  <1>4. calls' \in Seq(C)
    <2>1. calls[k] \in C
      BY <1>3, Element
    <2>2. [calls[k] EXCEPT !.running = @ \ {r}] \in C
      BY <2>1
    <2>3. calls' = [calls EXCEPT ![k] = [calls[k] EXCEPT !.running = @ \ {r}]]
      BY <1>1
    <2> HIDE DEF C
    <2> QED
      BY <1>3, <2>2, <2>3, Replaced
  <1>5. results' \in [Ranks -> Seq(BOOLEAN)]
    BY <1>2, <1>3, QueueAppend
  <1>6. DiskBounds'
    <2>1. {Shard(r)} \in SUBSET Files
      BY DEF Files
    <2> QED
      BY <1>1, <2>1, DiskStays, WritesBounded DEF IInv
  <1>7. JobBounds' /\ Dirs' = Dirs
    BY <1>1 DEF Bounds, JobBounds, TodoBounds, Unfinished, Dirs
  <1> QED
    BY <1>1, <1>4, <1>5, <1>6, <1>7 DEF Bounds, CallsBounds, ResultsBounds

LEMMA FinalizeBounded ==
    ASSUME IInv, Bounds, Finalize
    PROVE  Bounds'
  <1> DEFINE C == [ckpt : Dirs, running : SUBSET Ranks]
  <1>1. UNCHANGED <<config, results, removing, disk, hit>>
    BY DEF Finalize
  <1>2. PICK k \in Due :
            /\ calls' = SubSeq(calls, 1, k - 1) \o SubSeq(calls, k + 1, Len(calls))
            /\ job' = [job EXCEPT !.todo = Ops(Finalization, calls[k].ckpt) \o @]
    BY DEF Finalize
  <1>3. calls \in Seq(C) /\ k = 1 /\ k \in DOMAIN calls
    BY DEF Bounds, CallsBounds, Due
  <1>4. calls' \in Seq(C)
    <2>1. calls' = SubSeq(calls, 1, 0) \o SubSeq(calls, 2, Len(calls))
      BY <1>2, <1>3
    <2> HIDE DEF C
    <2> QED
      BY <1>3, <2>1, WithoutFirst
  <1>5. calls[k].ckpt \in Dirs
    <2>1. calls[k] \in C
      BY <1>3, Element
    <2> QED
      BY <2>1
  <1> DEFINE todo == Ops(Finalization, calls[k].ckpt) \o job.todo
  <1>6. TodoBounds(todo)
    <2>1. PICK S : job.todo \in Seq(S)
      BY TodoSeq
    <2>2. Ops(Finalization, calls[k].ckpt) \in Seq(Tame)
      BY <1>5, LoopOpsTame DEF Bounds, JobBounds
    <2>3. TodoBounds(job.todo)
      BY DEF Bounds, JobBounds
    <2> QED
      BY <2>1, <2>2, <2>3, JoinBounds
  <1>7. job' = [job EXCEPT !.todo = todo]
    BY <1>2
  <1> HIDE DEF todo
  <1>8. JobBounds' /\ job'.start = job.start
    BY <1>1, <1>6, <1>7, OtherTodo DEF IInv, Bounds
  <1>9. DiskBounds'
    BY <1>1, <1>8, DiskStays
  <1> QED
    BY <1>1, <1>4, <1>8, <1>9 DEF Bounds, CallsBounds, ResultsBounds, Dirs

LEMMA FinalizedBounded ==
    ASSUME IInv, Bounds, Finalized
    PROVE  Bounds'
  <1>1. /\ Did /\ UNCHANGED <<config, calls, results, removing, disk, hit>>
        /\ \E op \in {"poll", "flush"} : Doing(op)
    BY DEF Finalized
  <1>2. job'.start = job.start => DiskBounds'
    BY <1>1, DiskStays
  <1> QED
    BY <1>1, <1>2, DidKeepsBounds

-----------------------------------------------------------------------------
LEMMA InitBounded ==
    ASSUME Init
    PROVE  Bounds
  <1>1. /\ config \in Configs /\ calls = <<>> /\ results = NoResults /\ removing = {} /\ hit = FALSE
        /\ job = [state |-> "down", todo |-> <<>>, iter |-> 0, consumed |-> 0, mbs |-> 0, start |-> 0]
        /\ DOMAIN disk.dirs = {} /\ disk.tracker = [kind \in Kinds |-> None]
    BY DEF Init
  <1>2. JobBounds
    BY <1>1, ConfigTypes, StartsAssumption DEF JobBounds, TodoBounds
  <1>3. CallsBounds /\ ResultsBounds
    <2>1. \A S : <<>> \in Seq(S)
      OBVIOUS
    <2> QED
      BY <1>1, <2>1 DEF CallsBounds, ResultsBounds, NoResults
  <1>4. DiskBounds
    BY <1>1 DEF DiskBounds
  <1> QED
    BY <1>1, <1>2, <1>3, <1>4 DEF Bounds

LEMMA NextBounded ==
    ASSUME IInv, Bounds, [Next]_vars
    PROVE  Bounds'
  <1>1. CASE UNCHANGED vars
    <2>1. UNCHANGED <<config, job, calls, results, removing, disk, hit>>
      BY <1>1 DEF vars
    <2> QED
      BY <2>1, DiskStays DEF Bounds, JobBounds, TodoBounds, Unfinished, CallsBounds, ResultsBounds, Dirs
  <1>2. CASE Start
    BY <1>2, StartBounded
  <1>3. CASE Crash
    <2>1. \E left \in LeftBehind : End("down", left) /\ hit' \in BOOLEAN
      BY <1>3 DEF Crash, Bounds
    <2> QED
      BY <2>1, EndsBounded
  <1>4. CASE JobStep
    <2>1. CASE LoadFails
      BY <2>1, FailBounded DEF LoadFails
    <2>2. CASE LoadCheckpoint
      BY <2>2, LoadCheckpointBounded
    <2>3. CASE BeginIteration
      BY <2>3, BeginIterationBounded
    <2>4. CASE Rampup
      BY <2>4, RampupBounded
    <2>5. CASE Train
      BY <2>5, TrainBounded
    <2>6. CASE Leave
      <3>1. disk \in LeftBehind /\ hit' \in BOOLEAN /\ \E state \in {"down", "done"} : End(state, disk)
        BY <2>6 DEF Leave, LeftBehind, Bounds
      <3> QED
        BY <3>1, EndsBounded
    <2>7. CASE Cleanup \/ MakeDirectory \/ SaveCommon
      BY <2>7, CleanupBounded, MakeDirectoryBounded, SaveCommonBounded
    <2>8. CASE DirectoryNotEmpty \/ DirectoryGone \/ WriteShardsFails \/ SaveMetadataFails
      BY <2>8, FailBounded DEF DirectoryNotEmpty, DirectoryGone, WriteShardsFails, SaveMetadataFails
    <2>9. CASE WriteShards \/ Schedule \/ Finalize \/ Finalized
      BY <2>9, WriteShardsBounded, ScheduleBounded, FinalizeBounded, FinalizedBounded
    <2>10. CASE SaveMetadata \/ SaveMarker \/ UpdateTracker
      BY <2>10, SaveMetadataBounded, SaveMarkerBounded, UpdateTrackerBounded
    <2> QED
      BY <1>4, <2>1, <2>2, <2>3, <2>4, <2>5, <2>6, <2>7, <2>8, <2>9, <2>10 DEF JobStep, SaveStep
  <1>5. CASE Writers
    BY <1>5, WriterEndsBounded DEF Writers
  <1>6. CASE \E ckpt \in removing : Remove(ckpt)
    BY <1>6, RemoveBounded
  <1> QED
    BY <1>1, <1>2, <1>3, <1>4, <1>5, <1>6 DEF Next

LEMMA BoundsTypes ==
    ASSUME IInv, Bounds
    PROVE  TypeOK
  <1>1. \A k \in DOMAIN job.todo : job.todo[k].ckpt \in Dirs
    <2>1. PICK S : job.todo \in Seq(S)
      BY TodoSeq
    <2>2. DOMAIN job.todo = 1 .. Len(job.todo)
      BY <2>1
    <2> QED
      BY <2>2 DEF Bounds, JobBounds, TodoBounds
  <1>2. \A k \in DOMAIN calls : calls[k].ckpt \in Dirs /\ calls[k].running \subseteq Ranks
    <2>1. \A k \in DOMAIN calls : calls[k] \in [ckpt : Dirs, running : SUBSET Ranks]
      BY Element DEF Bounds, CallsBounds
    <2> QED
      BY <2>1
  <1>3. \A r \in Ranks : \A k \in DOMAIN results[r] : results[r][k] \in BOOLEAN
    BY DEF Bounds, ResultsBounds
  <1>4. DOMAIN disk.dirs \subseteq Dirs
    BY DEF Bounds, DiskBounds
  <1> QED
    BY <1>1, <1>2, <1>3, <1>4 DEF TypeOK, Bounds, JobBounds, DiskBounds, DirBounds

\* No start of a job trains beyond train_iters, resumes from an iteration or
\* queues, writes, names or removes a checkpoint beyond it, whatever was killed
\* or failed; a file is never from a later start than the one that is up
\* (training.py 1224-1274, checkpointing.py 469-481).
THEOREM TypeCorrect == Spec => []TypeOK
  <1>1. Init => IInv /\ Bounds
    BY InitHolds, InitBounded
  <1>2. IInv /\ Bounds /\ [Next]_vars => IInv' /\ Bounds'
    BY NextKeeps, NextBounded
  <1>3. IInv /\ Bounds => TypeOK
    BY BoundsTypes
  <1> QED
    BY <1>1, <1>2, <1>3, PTL DEF Spec
=============================================================================
