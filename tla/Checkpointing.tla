--------------------------- MODULE Checkpointing ----------------------------
(***************************************************************************)
(* The training loop's checkpoints: when they are saved, how they get to   *)
(* disk, synchronously or by background writers, and how a job that ends,  *)
(* fails or is killed goes on from them                                    *)
(* (training.py, checkpointing.py, dist_checkpointing).                    *)
(*                                                                         *)
(* The main processes of all ranks take the same steps, kept together by   *)
(* collectives, so the job is one process; the background writers are one  *)
(* process for each rank and save.  A checkpoint is named <<kind, i>>,     *)
(* kind "p" (persistent) or "np" (non-persistent), i the iteration.        *)
(*                                                                         *)
(* `job.todo` is what the job still does of its current iteration, step by *)
(* step: a process can be killed before each.  Of a file that a kill cuts  *)
(* short only those are told from a missing one that make a difference:    *)
(* common.pt, which makes a directory nonempty, and the tracker.  The      *)
(* removal of a directory is one step.                                     *)
(***************************************************************************)
EXTENDS Integers, Sequences, FiniteSets

CONSTANTS Ranks,        \* ranks of the job
          Configs,      \* command lines (see ConfigType)
          WritesFail,   \* the kinds of saves whose writes may fail: a subset of {"sync", "async"}
          MaxCrashes,   \* command line -> bound on the kills
          MaxSignals,   \* command line -> bound on the termination signals
          MaxStarts     \* bound on the starts of the job

\* iters, save, np, exit are train_iters, save_interval, non_persistent_save_interval
\* and exit_interval (0 for none); the rest describes the batch size.
ConfigType ==
    [iters : Nat, save : Nat \ {0}, np : Nat, exit : Nat, async : BOOLEAN,
     start : Nat, increment : Nat \ {0}, ramp : Nat, global : Nat, unit : Nat \ {0}]

\* The batch sizes are multiples of what the replicas take at a time, or the
\* consistency check stops the job; the batch only grows (asserted at its set-up).
ASSUME ConfigsAssumption ==
    /\ Configs \subseteq ConfigType
    /\ \A c \in Configs : \A size \in {c.start, c.increment, c.global} : size % c.unit = 0
    /\ \A c \in Configs : c.ramp # 0 => c.start <= c.global

ASSUME StartsAssumption == MaxStarts \in Nat

VARIABLES config,    \* the command line, the same at every start
          job,       \* the main processes
          calls,     \* the queue of asynchronous saves not yet finalized
          results,   \* rank -> its queue of the outcomes of its writers
          removing,  \* directories a cleanup thread still has to remove
          disk,      \* directories and tracker files
          ran,       \* iterations run so far, in any start
          hit,       \* the job once ended while a save was under way
          bounds     \* kills and signals so far
vars == <<config, job, calls, results, removing, disk, ran, hit, bounds>>

Common == <<"common.pt", 0>>
Shard(r) == <<"shard", r>>
Metadata == <<".metadata", 0>>
Marker == <<"metadata.json", 0>>
Files == {Common, Metadata, Marker} \cup {Shard(r) : r \in Ranks}

Kinds == {"p", "np"}
None == -1      \* no tracker file
Emptied == 0    \* a tracker file of no content

\* A directory is the set of its files with the start of the job that wrote
\* them (0: cut short), and the number of samples in the arguments it keeps.
Whole(dir) == DOMAIN dir.files = Files /\ \A f \in Files : dir.files[f] # 0
Exists(ckpt) == ckpt \in DOMAIN disk.dirs

Todo(op, ckpt) == [op |-> op, ckpt |-> ckpt]
Doing(op) == job.state = "up" /\ job.todo # <<>> /\ Head(job.todo).op = op
Ckpt == Head(job.todo).ckpt
NoCkpt == <<"p", 0>>

\* A save under way: its files are being written, or its finalization is due.
Saving == \/ calls # <<>>
          \/ \E op \in {"common", "write", "schedule", ".metadata", "metadata.json", "tracker"} : Doing(op)

-----------------------------------------------------------------------------
(* The batch size, which may ramp up.                                      *)

GlobalBatch(c, consumed) ==
    IF c.ramp = 0 \/ consumed > c.ramp THEN c.global
    ELSE c.start + ((consumed * ((c.global - c.start) \div c.increment)) \div c.ramp) * c.increment

NumMicrobatches(c, consumed) == GlobalBatch(c, consumed) \div c.unit

-----------------------------------------------------------------------------
(* What is on disk.                                                        *)

WithFile(ckpt, f) ==
    [disk EXCEPT !.dirs[ckpt].files =
        [g \in DOMAIN @ \cup {f} |-> IF g = f THEN job.start ELSE @[g]]]

WithFiles(ckpt, fs) ==
    [disk EXCEPT !.dirs[ckpt].files =
        [g \in DOMAIN @ \cup fs |-> IF g \in fs THEN job.start ELSE @[g]]]

Without(ckpts) ==
    [disk EXCEPT !.dirs = [k \in DOMAIN @ \ ckpts |-> @[k]]]

\* Fault: the newest one goes too.
ToRemove_All(ckpts) == ckpts

\* cleanup_old_non_persistent_checkpoint: all but the newest directory.
ToRemove(ckpts) == {k \in ckpts : \E newer \in ckpts : newer[2] > k[2]}

\* What a kill can leave on disk.
LeftBehind ==
    {disk} \cup
    (IF Doing("common") /\ Exists(Ckpt)
     THEN {[disk EXCEPT !.dirs[Ckpt].files = [f \in {Common} |-> 0]]} ELSE {}) \cup
    (IF Doing("tracker") THEN {[disk EXCEPT !.tracker[Ckpt[1]] = Emptied]} ELSE {})

\* The checkpoint a job starts from.
Chosen(p, np) == IF np # None /\ np >= p THEN <<"np", np>> ELSE <<"p", p>>

Named == LET np == IF config.np = 0 THEN None ELSE disk.tracker["np"]
         IN Chosen(disk.tracker["p"], np)

Unreadable == Emptied \in {disk.tracker["p"], IF config.np = 0 THEN None ELSE disk.tracker["np"]}

Loadable == ~Unreadable /\ (Named[2] = None \/ (Exists(Named) /\ Whole(disk.dirs[Named])))

-----------------------------------------------------------------------------
(* The job starts and ends.                                                *)

NoResults == [r \in Ranks |-> <<>>]

\* All processes end: killed, after an exception, or by themselves.
End(state, left) ==
    /\ job' = [job EXCEPT !.state = state, !.todo = <<>>]
    /\ calls' = <<>> /\ results' = NoResults /\ removing' = {}
    /\ disk' = left
    /\ UNCHANGED <<config, ran>>

Fail == End("down", disk) /\ hit' = (hit \/ Saving) /\ UNCHANGED bounds

Crash ==
    /\ job.state = "up" /\ bounds.crashes < MaxCrashes[config]
    /\ \E left \in LeftBehind : End("down", left)
    /\ hit' = (hit \/ Saving)
    /\ bounds' = [bounds EXCEPT !.crashes = @ + 1]

Start ==
    /\ job.state = "down" /\ job.start < MaxStarts
    /\ job' = [job EXCEPT !.state = "up", !.start = @ + 1, !.todo = <<Todo("load", NoCkpt)>>]
    /\ UNCHANGED <<config, calls, results, removing, disk, ran, hit, bounds>>

LoadFails == Doing("load") /\ ~Loadable /\ Fail

\* Fault: the number of consumed samples is not restored.
Resume_FromZero(ckpt) ==
    [job EXCEPT !.iter = ckpt[2], !.consumed = 0, !.mbs = NumMicrobatches(config, 0)]

\* The iteration and the arguments come from the checkpoint, and the number
\* of microbatches from the arguments.
Resume(ckpt) ==
    LET consumed == disk.dirs[ckpt].args
    IN [job EXCEPT !.iter = ckpt[2], !.consumed = consumed, !.mbs = NumMicrobatches(config, consumed)]

LoadCheckpoint ==
    /\ Doing("load") /\ Loadable
    /\ job' = [(IF Named[2] = None
                THEN [job EXCEPT !.iter = 0, !.consumed = 0, !.mbs = NumMicrobatches(config, 0)]
                ELSE Resume(Named)) EXCEPT !.todo = Tail(@)]
    /\ UNCHANGED <<config, calls, results, removing, disk, ran, hit, bounds>>

-----------------------------------------------------------------------------
(* An iteration of the training loop.                                      *)

Ops(ops, ckpt) == [k \in DOMAIN ops |-> Todo(ops[k], ckpt)]

Finalization == <<".metadata", "metadata.json", "tracker">>

SaveSteps(ckpt) ==
    Ops((IF ckpt[1] = "np" THEN <<"cleanup">> ELSE <<>>) \o <<"mkdir", "common">> \o
        (IF config.async THEN <<"schedule">> ELSE <<"write">> \o Finalization), ckpt)

\* Fault: the last save is not waited for.
AtEnd_NoFlush(iter) ==
    IF iter # 0 /\ iter % config.save # 0
    THEN SaveSteps(<<"p", iter>>) \o Ops(<<"done">>, NoCkpt) ELSE Ops(<<"done">>, NoCkpt)

\* After the last iteration.
AtEnd(iter) ==
    Ops(<<"flush">>, NoCkpt) \o
    (IF iter # 0 /\ iter % config.save # 0 THEN SaveSteps(<<"p", iter>>) ELSE <<>>) \o
    Ops(<<"flush", "done">>, NoCkpt)

\* After an iteration: the save that is due, or the exit.
AfterIteration(iter, signal) ==
    LET due == IF iter % config.save = 0 THEN SaveSteps(<<"p", iter>>)
               ELSE IF config.np # 0 /\ iter % config.np = 0 THEN SaveSteps(<<"np", iter>>)
               ELSE <<>>
        exit == Ops(<<"flush", "exit">>, NoCkpt)
    IN IF signal THEN SaveSteps(<<"p", iter>>) \o exit
       ELSE IF config.exit # 0 /\ iter % config.exit = 0
       THEN (IF due = <<>> THEN SaveSteps(<<"p", iter>>) ELSE due) \o exit
       ELSE due

\* Fault: one iteration more.
Unfinished_OneMore == job.iter <= config.iters

Unfinished == job.iter < config.iters

BeginIteration ==
    /\ job.state = "up" /\ job.todo = <<>>
    /\ job' = [job EXCEPT !.todo = IF Unfinished
                                   THEN Ops(<<"poll", "rampup", "train">>, NoCkpt)
                                   ELSE AtEnd(job.iter)]
    /\ UNCHANGED <<config, calls, results, removing, disk, ran, hit, bounds>>

Rampup ==
    LET mbs == NumMicrobatches(config, job.consumed) IN
    /\ Doing("rampup")
    /\ job' = [job EXCEPT
            !.mbs = mbs,
            !.todo = (IF mbs # job.mbs /\ job.iter # 0 THEN SaveSteps(<<"p", job.iter>>) ELSE <<>>)
                     \o Tail(@)]
    /\ UNCHANGED <<config, calls, results, removing, disk, ran, hit, bounds>>

Train ==
    /\ Doing("train")
    /\ \E signal \in BOOLEAN :
        /\ signal => bounds.signals < MaxSignals[config]
        /\ job' = [job EXCEPT !.iter = @ + 1,
                              !.consumed = @ + job.mbs * config.unit,
                              !.todo = AfterIteration(job.iter + 1, signal)]
        /\ bounds' = [bounds EXCEPT !.signals = @ + (IF signal THEN 1 ELSE 0)]
    /\ ran' = ran \cup {<<job.iter, job.consumed, job.mbs>>}
    /\ UNCHANGED <<config, calls, results, removing, disk, hit>>

Leave == \/ Doing("exit") /\ End("down", disk) /\ UNCHANGED <<hit, bounds>>
         \/ Doing("done") /\ End("done", disk) /\ UNCHANGED <<hit, bounds>>

-----------------------------------------------------------------------------
(* The steps of a save.                                                    *)

Did == job' = [job EXCEPT !.todo = Tail(@)]

Cleanup ==
    LET old == ToRemove({k \in DOMAIN disk.dirs : k[1] = "np"}) IN
    /\ Doing("cleanup")
    /\ Did
    /\ IF config.async
       THEN removing' = removing \cup old /\ UNCHANGED disk
       ELSE disk' = Without(old) /\ UNCHANGED removing
    /\ UNCHANGED <<config, calls, results, ran, hit, bounds>>

\* The thread of an asynchronous cleanup.
Remove(ckpt) ==
    /\ ckpt \in removing
    /\ removing' = removing \ {ckpt}
    /\ disk' = Without({ckpt})
    /\ UNCHANGED <<config, job, calls, results, ran, hit, bounds>>

\* Fault: what an earlier save left in the directory is written over.
Blocked_Never(ckpt) == FALSE

\* The directory of a new checkpoint must be empty.
Blocked(ckpt) == Exists(ckpt) /\ DOMAIN disk.dirs[ckpt].files # {}

MakeDirectory ==
    /\ Doing("mkdir") /\ ~Blocked(Ckpt)
    /\ Did
    /\ disk' = IF Exists(Ckpt) THEN disk
               ELSE [disk EXCEPT !.dirs = [k \in DOMAIN @ \cup {Ckpt} |->
                        IF k = Ckpt THEN [files |-> [f \in {} |-> 0], args |-> 0] ELSE @[k]]]
    /\ UNCHANGED <<config, calls, results, removing, ran, hit, bounds>>

DirectoryNotEmpty == Doing("mkdir") /\ Blocked(Ckpt) /\ Fail

SaveCommon ==
    /\ Doing("common") /\ Exists(Ckpt)
    /\ Did
    /\ disk' = [WithFile(Ckpt, Common) EXCEPT !.dirs[Ckpt].args = job.consumed]
    /\ UNCHANGED <<config, calls, results, removing, ran, hit, bounds>>

\* A cleanup thread removed the directory that is written to.
DirectoryGone ==
    /\ Doing("common") \/ Doing("metadata.json")
    /\ ~Exists(Ckpt)
    /\ Fail

WriteShards ==
    /\ Doing("write")
    /\ Did
    /\ disk' = WithFiles(Ckpt, {Shard(r) : r \in Ranks})
    /\ UNCHANGED <<config, calls, results, removing, ran, hit, bounds>>

WriteShardsFails == Doing("write") /\ "sync" \in WritesFail /\ Fail

Schedule ==
    /\ Doing("schedule")
    /\ Did
    /\ calls' = Append(calls, [ckpt |-> Ckpt, running |-> Ranks])
    /\ UNCHANGED <<config, results, removing, disk, ran, hit, bounds>>

\* The writers of rank r for the k-th call end; whether they wrote their files
\* goes to the one queue of the rank.
WriterEnds(k, r) ==
    LET ckpt == calls[k].ckpt IN
    /\ r \in calls[k].running
    /\ calls' = [calls EXCEPT ![k].running = @ \ {r}]
    /\ \E ok \in BOOLEAN :
        /\ ok => Exists(ckpt)
        /\ ~ok => ("async" \in WritesFail \/ ~Exists(ckpt))
        /\ results' = [results EXCEPT ![r] = Append(@, ok)]
        /\ disk' = IF ok THEN WithFile(ckpt, Shard(r)) ELSE disk
    /\ UNCHANGED <<config, job, removing, ran, hit, bounds>>

\* Fault: any save whose writers have all ended is finalized.
Due_Any == {k \in DOMAIN calls : calls[k].running = {}}

\* The saves that can be finalized: the oldest, when its writers have ended on all ranks.
Due == {k \in DOMAIN calls : k = 1 /\ calls[k].running = {}}

\* maybe_finalize_async_calls takes a save out of the queue.
Finalize ==
    /\ Doing("poll") \/ Doing("flush")
    /\ \E k \in Due :
        /\ calls' = SubSeq(calls, 1, k - 1) \o SubSeq(calls, k + 1, Len(calls))
        /\ job' = [job EXCEPT !.todo = Ops(Finalization, calls[k].ckpt) \o @]
    /\ UNCHANGED <<config, results, removing, disk, ran, hit, bounds>>

\* It returns; the blocking one only with an empty queue.
Finalized ==
    /\ Doing("poll") \/ Doing("flush")
    /\ Due = {}
    /\ Doing("flush") => calls = <<>>
    /\ Did
    /\ UNCHANGED <<config, calls, results, removing, disk, ran, hit, bounds>>

\* What the writers of an asynchronous save report is the head of the queue.
Written == config.async => \A r \in Ranks : results[r] # <<>> /\ Head(results[r])

SaveMetadata ==
    /\ Doing(".metadata") /\ Exists(Ckpt) /\ Written
    /\ Did
    /\ results' = IF config.async THEN [r \in Ranks |-> Tail(results[r])] ELSE results
    /\ disk' = WithFile(Ckpt, Metadata)
    /\ UNCHANGED <<config, calls, removing, ran, hit, bounds>>

SaveMetadataFails == Doing(".metadata") /\ ~(Exists(Ckpt) /\ Written) /\ Fail

SaveMarker ==
    /\ Doing("metadata.json") /\ Exists(Ckpt)
    /\ Did
    /\ disk' = WithFile(Ckpt, Marker)
    /\ UNCHANGED <<config, calls, results, removing, ran, hit, bounds>>

UpdateTracker ==
    /\ Doing("tracker")
    /\ Did
    /\ disk' = [disk EXCEPT !.tracker[Ckpt[1]] = Ckpt[2]]
    /\ UNCHANGED <<config, calls, results, removing, ran, hit, bounds>>

-----------------------------------------------------------------------------
Init ==
    /\ config \in Configs
    /\ job = [state |-> "down", todo |-> <<>>, iter |-> 0, consumed |-> 0, mbs |-> 0, start |-> 0]
    /\ calls = <<>> /\ results = NoResults /\ removing = {}
    /\ disk = [dirs |-> [k \in {} |-> [files |-> [f \in {} |-> 0], args |-> 0]],
               tracker |-> [kind \in Kinds |-> None]]
    /\ ran = {} /\ hit = FALSE
    /\ bounds = [crashes |-> 0, signals |-> 0]

SaveStep == \/ Cleanup \/ MakeDirectory \/ DirectoryNotEmpty \/ SaveCommon \/ DirectoryGone
            \/ WriteShards \/ WriteShardsFails \/ Schedule \/ Finalize \/ Finalized \/ SaveMetadata
            \/ SaveMetadataFails \/ SaveMarker \/ UpdateTracker

JobStep == \/ LoadFails \/ LoadCheckpoint \/ BeginIteration \/ Rampup \/ Train \/ Leave \/ SaveStep

Writers == \E k \in DOMAIN calls : \E r \in Ranks : WriterEnds(k, r)

Next == Start \/ Crash \/ JobStep \/ Writers \/ \E ckpt \in removing : Remove(ckpt)

\* The processes run, and whoever runs the job starts it again.
Fairness == WF_vars(Start) /\ WF_vars(JobStep) /\ WF_vars(Writers)

Spec == Init /\ [][Next]_vars /\ Fairness

-----------------------------------------------------------------------------
(* Properties.                                                             *)

Dirs == Kinds \X (0 .. config.iters)

\* The variables have their types.
TypeOK ==
    /\ config \in Configs
    /\ job.state \in {"down", "up", "done"} /\ job.start \in 0 .. MaxStarts
    /\ job.iter \in 0 .. config.iters /\ job.consumed \in Nat /\ job.mbs \in Nat
    /\ \A k \in DOMAIN job.todo : job.todo[k].ckpt \in Dirs
    /\ \A k \in DOMAIN calls : calls[k].ckpt \in Dirs /\ calls[k].running \subseteq Ranks
    /\ \A r \in Ranks : \A k \in DOMAIN results[r] : results[r][k] \in BOOLEAN
    /\ removing \subseteq Dirs
    /\ DOMAIN disk.dirs \subseteq Dirs
    /\ \A k \in DOMAIN disk.dirs :
        /\ DOMAIN disk.dirs[k].files \subseteq Files
        /\ \A f \in DOMAIN disk.dirs[k].files : disk.dirs[k].files[f] \in 0 .. job.start
    /\ disk.tracker \in [Kinds -> {None} \cup (0 .. config.iters)]
    /\ hit \in BOOLEAN

\* latest_checkpointed_iteration.txt names a complete checkpoint, all of it
\* written by one start of the job, whatever was killed, failed or retried.
TrackerComplete ==
    LET i == disk.tracker["p"]  dir == disk.dirs[<<"p", i>>] IN
    i > 0 => /\ Exists(<<"p", i>>)
             /\ Whole(dir)
             /\ \A f, g \in Files : dir.files[f] = dir.files[g]

\* metadata.json is in a directory only if every rank's file is ("so that
\* metadata.json is written only if the checkpoint is complete").
MarkedIsComplete ==
    \A k \in DOMAIN disk.dirs : Marker \in DOMAIN disk.dirs[k].files => Whole(disk.dirs[k])

\* Training that is never interrupted has consumed c samples before iteration i.
After(run) == run[2] + run[3] * config.unit
Reached(i, c) == (i = 0 /\ c = 0) \/ \E run \in ran : run[1] = i - 1 /\ c = After(run)

\* Every iteration, in whatever start of the job it ran and from whatever
\* checkpoint that start resumed, begins where the one before it ended and takes
\* the microbatches its samples call for, the same however often it is run: as
\* in a job that is never interrupted.
SameSamples ==
    \A run \in ran :
        /\ Reached(run[1], run[2])
        /\ run[3] = NumMicrobatches(config, run[2])
        /\ \A other \in ran : other[1] = run[1] => other = run

\* Unless it once ended in the middle of a save, a job finds a checkpoint it
\* can load, or none: the cleanup never removes the one the tracker names.
LoadsUnlessHit == (job.state = "up" /\ Doing("load") /\ ~hit) => Loadable

\* The tracker never goes back to an older checkpoint.
NeverBack == [][disk.tracker'["p"] = Emptied \/ disk.tracker'["p"] >= disk.tracker["p"]]_vars

\* If no start ends in the middle of a save, the last iteration is saved and
\* named, through all restarts.
Saved == <>(hit \/ disk.tracker["p"] = config.iters)
=============================================================================
