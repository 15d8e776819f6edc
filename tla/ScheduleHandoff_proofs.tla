----------------------- MODULE ScheduleHandoff_proofs -----------------------
(***************************************************************************)
(* Proofs about the hand-off of schedules, for every number of stages and  *)
(* replicas and every set of command lines.                                *)
(***************************************************************************)
EXTENDS ScheduleHandoff, FiniteSetTheorems, TLAPS

-----------------------------------------------------------------------------
(* Positions.  A rank comes to the barriers in one order: by iteration, by  *)
(* call of the iteration (0 training, 1 .. EvalCalls evaluation, one more   *)
(* for what follows), by place in the call.                                 *)

Index == [evaluate |-> 0, call |-> 1, test_not_started |-> 1, deleted |-> 2, solve |-> 3,
          no_solution |-> 3, partial_read |-> 3, write |-> 4, generated |-> 5, replan |-> 6,
          unbound_name |-> 6, updated |-> 7, run |-> 8, profile |-> 9, profiled |-> 10,
          conclude |-> 11, concluded |-> 12, read |-> 13, end |-> 14, interval |-> 15,
          next |-> 16, exit |-> 17, done |-> 18]
Place == DOMAIN Index
Position == Nat \X Nat \X Place

\* The places after the last call of an iteration.
Ending == {"interval", "next", "exit", "done"}
Slot(r) == IF pc[r] \in Ending THEN EvalCalls + 1 ELSE evals[r]
Pos(r) == <<cur_iter[r], Slot(r), pc[r]>>

Before(p, q) ==
    \/ p[1] < q[1]
    \/ p[1] = q[1] /\ p[2] < q[2]
    \/ p[1] = q[1] /\ p[2] = q[2] /\ Index[p[3]] < Index[q[3]]

-----------------------------------------------------------------------------
(* The barriers of a job, known from its command line.                      *)

Evaluates(i) == args.eval_interval > 0 /\ (i + 1) % args.eval_interval = 0
Calls(i, s) == s = 0 \/ (Evaluates(i) /\ s \in 1 .. EvalCalls)
Updates(i, s) ==
    /\ Calls(i, s)
    /\ IF Experiment THEN i \in UpdateIters
       ELSE args.schedule # "static" /\ i = args.profile_iter + 1 /\ s = 0

IsBarrier(i, s, site) ==
    \/ site = "evaluate" /\ s = 1 /\ Evaluates(i)
    \/ site = "interval" /\ s = EvalCalls + 1 /\ Evaluates(i)
    \/ site = "exit" /\ s = EvalCalls + 1 /\ i = LastIter /\ Experiment
    \/ site \in {"profiled", "concluded"} /\ i = args.profile_iter /\ Calls(i, s)
    \/ site = "updated" /\ Updates(i, s)
    \/ site = "generated" /\ Updates(i, s) /\ args.schedule # "static"
    \/ site = "deleted" /\ Updates(i, s) /\ args.schedule = "dynamic_mb"

Barriers == {b \in Nat \X Nat \X Sites : IsBarrier(b[1], b[2], b[3])}
Passed(r) == {b \in Barriers : ~Before(Pos(r), b)}

-----------------------------------------------------------------------------
(* The invariant.                                                           *)

\* What a rank's place says of its call.
Updating == {"deleted", "solve", "no_solution", "partial_read", "write", "generated", "replan",
             "unbound_name", "updated"}
Solving == {"deleted", "solve", "no_solution", "partial_read", "write"}
Profiling == {"profile", "profiled", "conclude", "concluded", "read"}
BySolver == args.schedule \in {"ud", "dynamic_mb"}

AtPlace(r) ==
    /\ pc[r] \in Sites => Pos(r) \in Barriers
    /\ pc[r] \in Ending => evals[r] = 0
    /\ pc[r] \notin Ending => Calls(cur_iter[r], evals[r])
    /\ pc[r] = "evaluate" => evals[r] = 1
    /\ pc[r] = "test_not_started" => Experiment
    /\ pc[r] \in Updating => Updates(cur_iter[r], evals[r])
    /\ pc[r] \in Solving => BySolver
    /\ pc[r] = "write" => r = 0
    /\ pc[r] \in Profiling => cur_iter[r] = args.profile_iter
    /\ generated[r] <=> /\ ~Experiment /\ args.schedule # "static"
                        /\ Before(<<args.profile_iter + 1, 0, "call">>, Pos(r))
    /\ profile_result[r] # None <=> Before(<<args.profile_iter, 0, "read">>, Pos(r))

Form ==
    /\ args \in Configs
    /\ pc \in [Rank -> Place]
    /\ arrived \in [Rank -> Nat]
    /\ cur_iter \in [Rank -> Nat]
    /\ evals \in [Rank -> Nat]
    /\ generated \in [Rank -> BOOLEAN]
    /\ DOMAIN pp_schedule = Rank /\ DOMAIN plan = Rank /\ DOMAIN profile_result = Rank
    /\ solved \in Nat

\* The number of barriers a rank has come to is that of the barriers up to its
\* position, and no rank is past a barrier that another has not come to.
Counted(r) == IsFiniteSet(Passed(r)) /\ arrived[r] = Cardinality(Passed(r))
InStep == \A a, b \in Rank : \A p \in Barriers : Before(p, Pos(a)) => ~Before(Pos(b), p)

PlacesInv == Form /\ (\A r \in Rank : AtPlace(r) /\ Counted(r)) /\ InStep

\* Profiles.
LogInv ==
    /\ DOMAIN profiles = Stage
    /\ \A r \in Rank : LogsProfile(r) /\ pc[r] \in {"profiled", "conclude", "concluded"}
                          => profiles[StageOfRank(r)] = Call(r)
OneCall(profile) == profile = None \/ \E c \in Nat \X Nat : \A s \in Stage : profile[s] = c
ProfileInv == LogInv /\ OneCall(total) /\ \A r \in Rank : OneCall(profile_result[r])

\* Schedules in files and memory.
New == {"generated", "replan", "unbound_name", "updated"}
FileNames == {"dynamic_mb", "none"} \cup {args.delays[i] : i \in DOMAIN args.delays}

FileInv ==
    /\ DOMAIN file = FileNames
    /\ \A n \in FileNames : \/ file[n] = Absent \/ file[n].state = "whole"
                            \/ file[n].state = "open" /\ pc[0] = "write" /\ n = FileName(0)
    /\ BySolver => \A r \in Rank : pc[r] = "generated" =>
                     InFile(r).state = "whole" /\ InFile(r).schedule = pp_schedule[r]
    /\ pc[0] = "write" => InFile(0).state = "open"
    /\ pc[0] # "partial_read"
    /\ args.schedule = "dynamic_mb" /\ pc[0] \in {"deleted", "solve", "no_solution"}
          => InFile(0) = Absent

NewInv ==
    /\ \A a, b \in Rank : pc[a] \in New /\ pc[b] \in New /\ Call(a) = Call(b)
                             => pp_schedule[a] = pp_schedule[b]
    /\ \A r \in Rank : pc[r] \in New \cup {"write"} => pp_schedule[r].for = Injected(cur_iter[r])
    /\ ~BySolver => \A r \in Rank : pc[r] \in New =>
                       pp_schedule[r] = ScheduleFor(Injected(cur_iter[r]), 0)
    /\ args.schedule = "ud" => \A n \in FileNames \ {"dynamic_mb"} :
                                   file[n].state = "whole" => file[n].schedule.for = n

\* A file of an earlier job is there only until rank 0 deletes it first.
StaleInv ==
    args.schedule = "dynamic_mb" =>
        /\ file["dynamic_mb"].state = "whole" /\ file["dynamic_mb"].schedule.solution = -1
              => \A p \in Barriers : p[3] = "deleted" => Before(Pos(0), p)
        /\ \A r \in Rank : pp_schedule[r].solution # -1

\* Plans.
Replans == args.schedule # "static" \/ args.prefetch
SameUpdates(a, b) ==
    /\ pc[a] # "unbound_name" /\ pc[b] # "unbound_name"
    /\ \A p \in Barriers : p[3] = "updated" => (Before(Pos(a), p) <=> Before(Pos(b), p))
PlanInv ==
    /\ ~Replans => \A r \in Rank : plan[r] = InitialSchedule
    /\ Replans => \A r \in Rank : pc[r] = "updated" => plan[r] = pp_schedule[r]
    /\ \A a, b \in Rank : SameUpdates(a, b) => plan[a] = plan[b]

\* The plan is that of its iteration, unless the update is still to be done.
Part(i) == (i - 1) * args.test_iters .. i * args.test_iters - 1
Fresh(r) == ~(Updates(cur_iter[r], 0) /\ Before(Pos(r), <<cur_iter[r], 0, "updated">>))
RightFor(schedule, i) ==
    /\ Experiment => \A k \in DOMAIN args.delays : i - TestStart \in Part(k) => schedule.for = args.delays[k]
    /\ (~Experiment /\ args.schedule # "static" /\ i > args.profile_iter) => schedule.for = "none"
CurrentInv == Replans => \A r \in Rank : Fresh(r) => RightFor(plan[r], cur_iter[r])

-----------------------------------------------------------------------------
(* Places and positions.                                                    *)

LEMMA Indices ==
    /\ Index["evaluate"] = 0 /\ Index["call"] = 1 /\ Index["test_not_started"] = 1
    /\ Index["deleted"] = 2 /\ Index["solve"] = 3 /\ Index["no_solution"] = 3
    /\ Index["partial_read"] = 3 /\ Index["write"] = 4 /\ Index["generated"] = 5
    /\ Index["replan"] = 6 /\ Index["unbound_name"] = 6 /\ Index["updated"] = 7
    /\ Index["run"] = 8 /\ Index["profile"] = 9 /\ Index["profiled"] = 10
    /\ Index["conclude"] = 11 /\ Index["concluded"] = 12 /\ Index["read"] = 13
    /\ Index["end"] = 14 /\ Index["interval"] = 15 /\ Index["next"] = 16
    /\ Index["exit"] = 17 /\ Index["done"] = 18
  BY DEF Index

LEMMA PlaceNames ==
    Place = {"evaluate", "call", "test_not_started", "deleted", "solve", "no_solution",
             "partial_read", "write", "generated", "replan", "unbound_name", "updated", "run",
             "profile", "profiled", "conclude", "concluded", "read", "end", "interval", "next",
             "exit", "done"}
  BY DEF Place, Index

LEMMA IndexType == \A p \in Place : Index[p] \in Nat
  BY Indices, PlaceNames

LEMMA SitesArePlaces == Sites \subseteq Place
  BY PlaceNames DEF Sites

\* No place but a barrier itself has its index.
LEMMA IndexOfSite == \A p \in Place, site \in Sites : Index[p] = Index[site] => p = site
  BY Indices, PlaceNames DEF Sites

LEMMA AfterSites ==
    /\ After["deleted"] = "solve" /\ After["generated"] = "replan" /\ After["updated"] = "run"
    /\ After["profiled"] = "conclude" /\ After["concluded"] = "read"
    /\ After["evaluate"] = "call" /\ After["interval"] = "next" /\ After["exit"] = "done"
  BY DEF After

LEMMA BeforeTransitive ==
    ASSUME NEW p \in Position, NEW q \in Position, NEW x \in Position,
           Before(p, q), Before(q, x)
    PROVE  Before(p, x)
  BY IndexType DEF Before, Position

LEMMA BeforeOneWay ==
    ASSUME NEW p \in Position, NEW q \in Position, Before(p, q)
    PROVE  ~Before(q, p)
  BY IndexType DEF Before, Position

LEMMA BeforeOrAfter ==
    ASSUME NEW p \in Position, NEW b \in Nat \X Nat \X Sites
    PROVE  Before(p, b) \/ p = b \/ Before(b, p)
  BY IndexType, SitesArePlaces, IndexOfSite DEF Before, Position

LEMMA PositionType == ASSUME Form PROVE \A r \in Rank : Pos(r) \in Position
  BY WorldAssumption, PlaceNames DEF Form, Pos, Position, Slot

LEMMA PositionTypeNext == ASSUME Form' PROVE \A r \in Rank : Pos(r)' \in Position
  BY WorldAssumption, PlaceNames DEF Form, Pos, Position, Slot

LEMMA BarrierType == Barriers \subseteq Position /\ Barriers \subseteq Nat \X Nat \X Sites
  BY SitesArePlaces DEF Barriers, Position

LEMMA TestStartType ==
    ASSUME args \in Configs
    PROVE  /\ args \in ConfigType
           /\ TestStart \in Int /\ TestStart > args.profile_iter
           /\ \A i \in UpdateIters : i \in Int /\ i >= TestStart
  <1>1. args \in ConfigType
    BY ConfigsAssumption
  <1>2. TestStart \in {args.test_start_iter, args.profile_iter + 1} /\ TestStart >= args.profile_iter + 1
    <2> DEFINE S == {args.test_start_iter, args.profile_iter + 1}
    <2>1. S \subseteq Int /\ \E x \in S : \A y \in S : x >= y
      BY <1>1 DEF ConfigType
    <2>2. QED
      BY <2>1 DEF TestStart, Max
  <1>3. ASSUME NEW i \in UpdateIters PROVE i \in Int /\ i >= TestStart
    <2>1. PICK k \in 0 .. Len(args.delays) - 1 : i = TestStart + k * args.test_iters
      BY DEF UpdateIters
    <2>2. k * args.test_iters \in Nat /\ TestStart \in Int
      BY <1>1, <1>2, <2>1 DEF ConfigType
    <2>3. QED
      BY <2>1, <2>2
  <1>4. QED
    BY <1>1, <1>2, <1>3 DEF ConfigType

LEMMA SameBarriers ==
    ASSUME args' = args
    PROVE  /\ Barriers' = Barriers
           /\ \A i, s : Updates(i, s)' = Updates(i, s) /\ Calls(i, s)' = Calls(i, s)
           /\ Experiment' = Experiment /\ TestStart' = TestStart /\ UpdateIters' = UpdateIters
           /\ \A i : Injected(i)' = Injected(i) /\ Evaluates(i)' = Evaluates(i)
  BY DEF Barriers, IsBarrier, Updates, Calls, Evaluates, Experiment, UpdateIters, LastIter, TestStart,
         Injected

-----------------------------------------------------------------------------
(* A rank moves on to the next barrier at most.                             *)

Moves(r) ==
    /\ args' = args
    /\ \A q \in Rank \ {r} : Pos(q)' = Pos(q) /\ arrived'[q] = arrived[q]
    /\ \A b \in Barriers : Before(b, Pos(r)') => ~Before(Pos(r), b)
    /\ \A b \in Barriers : Before(Pos(r)', b) => Before(Pos(r), b)
    /\ IF pc'[r] \in Sites
       THEN Before(Pos(r), Pos(r)') /\ Pos(r)' \in Barriers /\ arrived'[r] = arrived[r] + 1
       ELSE arrived'[r] = arrived[r]

\* A rank goes on from a barrier when all have come to as many.
Released(r) == pc[r] \in Sites => \A q \in Rank : arrived[q] >= arrived[r]

LEMMA MovesCount ==
    ASSUME Form, Form', NEW r \in Rank, Moves(r), \A q \in Rank : Counted(q)
    PROVE  \A q \in Rank : Counted(q)'
  <1>1. Barriers' = Barriers
    BY SameBarriers DEF Moves
  <1>2. Pos(r) \in Position /\ Pos(r)' \in Position
    BY PositionType, PositionTypeNext
  <1>3. ASSUME NEW q \in Rank, q # r PROVE Counted(q)'
    <2>1. Pos(q)' = Pos(q) /\ arrived'[q] = arrived[q] /\ Counted(q)
      BY <1>3 DEF Moves
    <2>2. Passed(q)' = Passed(q)
      BY <1>1, <2>1 DEF Passed, Before
    <2>3. QED
      BY <2>1, <2>2 DEF Counted
  <1>4. CASE pc'[r] \in Sites
    <2>1. Passed(r)' = Passed(r) \cup {Pos(r)'}
      <3>1. ASSUME NEW b \in Barriers, ~Before(Pos(r)', b), Before(Pos(r), b) PROVE b = Pos(r)'
        BY <1>1, <1>2, <3>1, BarrierType, BeforeOrAfter DEF Moves
      <3>2. Pos(r)' \in Barriers /\ ~Before(Pos(r)', Pos(r)')
        BY <1>2, <1>4, IndexType DEF Moves, Before, Position
      <3>3. \A b \in Barriers : b \in Passed(r) => b \in Passed(r)'
        BY <1>1 DEF Moves, Passed
      <3>4. \A b \in Barriers : b \in Passed(r)' => b \in Passed(r) \/ b = Pos(r)'
        BY <1>1, <3>1 DEF Passed
      <3>5. Pos(r)' \in Passed(r)'
        BY <1>1, <3>2 DEF Passed
      <3>6. Passed(r) \subseteq Barriers /\ Passed(r)' \subseteq Barriers
        BY <1>1 DEF Passed
      <3>7. QED
        BY <3>2, <3>3, <3>4, <3>5, <3>6
    <2>2. Pos(r)' \notin Passed(r)
      BY <1>4 DEF Moves, Passed
    <2>3. IsFiniteSet(Passed(r)) /\ arrived[r] = Cardinality(Passed(r))
      BY DEF Counted
    <2>4. arrived'[r] = arrived[r] + 1
      BY <1>4 DEF Moves
    <2>5. IsFiniteSet(Passed(r)') /\ Cardinality(Passed(r)') = Cardinality(Passed(r)) + 1
      BY <2>1, <2>2, <2>3, FS_AddElement
    <2>6. Counted(r)'
      BY <2>3, <2>4, <2>5 DEF Counted
    <2>7. QED
      BY <1>3, <2>6
  <1>5. CASE pc'[r] \notin Sites
    <2>1. ASSUME NEW b \in Barriers, ~Before(Pos(r)', b) PROVE ~Before(Pos(r), b)
      <3>1. b # Pos(r)'
        BY <1>5, BarrierType DEF Pos
      <3>2. QED
        BY <1>1, <1>2, <2>1, <3>1, BarrierType, BeforeOrAfter DEF Moves
    <2>2. Passed(r)' = Passed(r)
      BY <1>1, <2>1 DEF Passed, Moves
    <2>3. arrived'[r] = arrived[r] /\ Counted(r)
      BY <1>5 DEF Moves
    <2>4. Counted(r)'
      BY <2>2, <2>3 DEF Counted
    <2>5. QED
      BY <1>3, <2>4
  <1>6. QED
    BY <1>4, <1>5

\* All ranks that have come to as many barriers have come to the same ones.
LEMMA AsMany ==
    ASSUME Form, NEW a \in Rank, NEW b \in Rank, Counted(a), Counted(b),
           pc[a] \in Sites, Pos(a) \in Barriers, arrived[b] >= arrived[a]
    PROVE  ~Before(Pos(b), Pos(a))
  <1> SUFFICES ASSUME Before(Pos(b), Pos(a)) PROVE FALSE
    OBVIOUS
  <1>1. Pos(a) \in Position /\ Pos(b) \in Position
    BY PositionType
  <1>2. Pos(a) \in Passed(a) /\ Pos(a) \notin Passed(b)
    BY <1>1, IndexType DEF Passed, Before, Position
  <1>3. Passed(b) \subseteq Passed(a) \ {Pos(a)}
    <2>1. ASSUME NEW p \in Barriers, Before(Pos(a), p) PROVE Before(Pos(b), p)
      BY <1>1, <2>1, BarrierType, BeforeTransitive
    <2>2. QED
      BY <1>2, <2>1 DEF Passed
  <1>4. IsFiniteSet(Passed(a)) /\ IsFiniteSet(Passed(b))
    BY DEF Counted
  <1>5. IsFiniteSet(Passed(a) \ {Pos(a)}) /\ Cardinality(Passed(a) \ {Pos(a)}) = Cardinality(Passed(a)) - 1
    BY <1>2, <1>4, FS_RemoveElement
  <1>6. Cardinality(Passed(b)) <= Cardinality(Passed(a) \ {Pos(a)})
    BY <1>3, <1>5, FS_Subset
  <1>7. Cardinality(Passed(a)) \in Nat /\ Cardinality(Passed(b)) \in Nat
    BY <1>4, FS_CardinalityType
  <1>8. QED
    BY <1>5, <1>6, <1>7 DEF Counted

LEMMA MovesInStep ==
    ASSUME Form, Form', NEW r \in Rank, Moves(r), Released(r), \A q \in Rank : Counted(q),
           InStep, AtPlace(r)
    PROVE  InStep'
  <1>1. Barriers' = Barriers
    BY SameBarriers DEF Moves
  <1> SUFFICES ASSUME NEW a \in Rank, NEW b \in Rank, NEW p \in Barriers, Before(p, Pos(a)')
               PROVE  ~Before(Pos(b)', p)
    BY <1>1 DEF InStep, Before
  <1>2. \A q \in Rank : Pos(q) \in Position /\ Pos(q)' \in Position
    BY PositionType, PositionTypeNext
  <1>3. \A q \in Rank : Before(Pos(q)', p) => Before(Pos(q), p)
    BY DEF Moves
  <1>4. CASE a # r
    <2>1. Before(p, Pos(a))
      BY <1>4 DEF Moves
    <2>2. QED
      BY <1>3, <2>1 DEF InStep
  <1>5. CASE a = r
    <2>1. ~Before(Pos(r), p)
      BY <1>5 DEF Moves
    <2>2. CASE Before(p, Pos(r))
      BY <1>3, <2>2 DEF InStep
    <2>3. CASE p = Pos(r)
      <3>1. pc[r] \in Sites
        BY <2>3, BarrierType DEF Pos
      <3>2. ~Before(Pos(b), Pos(r))
        BY <2>3, <3>1, AsMany DEF Released
      <3>3. QED
        BY <1>3, <2>3, <3>2
    <2>4. QED
      BY <1>2, <2>1, <2>2, <2>3, BarrierType, BeforeOrAfter
  <1>6. QED
    BY <1>4, <1>5

-----------------------------------------------------------------------------
(* The variables keep their form.                                           *)

LEMMA GoToForm ==
    ASSUME NEW r \in Rank, NEW place \in Place, Form, GoTo(r, place)
    PROVE  /\ pc' \in [Rank -> Place] /\ arrived' \in [Rank -> Nat]
           /\ pc' = [pc EXCEPT ![r] = place]
           /\ pc'[r] = place
           /\ arrived'[r] = arrived[r] + (IF place \in Sites THEN 1 ELSE 0)
           /\ \A q \in Rank \ {r} : pc'[q] = pc[q] /\ arrived'[q] = arrived[q]
  BY DEF Form, GoTo

LEMMA StepForm == ASSUME Form, NEW r \in Rank, Step(r) PROVE Form'
  <1>1. CASE Leave(r)
    <2>1. After[pc[r]] \in Place
      BY <1>1, AfterSites, PlaceNames DEF Leave, Sites
    <2>2. QED
      BY <1>1, <2>1, GoToForm DEF Leave, Form, local, disk
  <1>2. CASE StayWithSchedule(r)
    BY <1>2, GoToForm, PlaceNames DEF StayWithSchedule, Form, local, disk
  <1>3. CASE FailTooEarly(r)
    BY <1>3, GoToForm, PlaceNames DEF FailTooEarly, Form, local, disk
  <1>4. CASE UpdateLocally(r)
    BY <1>4, GoToForm, PlaceNames DEF UpdateLocally, MayUpdate, Form, local, disk
  <1>5. CASE UpdateBySolver(r)
    BY <1>5, GoToForm, PlaceNames DEF UpdateBySolver, MayUpdate, DeleteSite, Form, local, disk
  <1>6. CASE Reuse(r)
    BY <1>6, GoToForm, PlaceNames DEF Reuse, Takes, Form, local, disk
  <1>7. CASE OpenFile(r)
    <2>1. pc' \in [Rank -> Place] /\ arrived' \in [Rank -> Nat]
      BY <1>7, GoToForm, PlaceNames DEF OpenFile
    <2>2. DOMAIN pp_schedule' = Rank
      BY <1>7 DEF OpenFile, Takes, Form
    <2>3. QED
      BY <1>7, <2>1, <2>2 DEF OpenFile, Form
  <1>8. CASE FindNoSolution(r)
    BY <1>8, GoToForm, PlaceNames DEF FindNoSolution, Form, local, disk
  <1>9. CASE WriteFile(r)
    BY <1>9, GoToForm, PlaceNames DEF WriteFile, Form, local, disk
  <1>10. CASE LoadFile(r)
    BY <1>10, GoToForm, PlaceNames DEF LoadFile, Takes, Form, local, disk
  <1>11. CASE Replan(r)
    BY <1>11, GoToForm, PlaceNames DEF Replan, Form, local, disk
  <1>12. CASE Run(r)
    BY <1>12, GoToForm, PlaceNames DEF Run, Form, local, disk
  <1>13. CASE WriteProfile(r)
    BY <1>13, GoToForm, PlaceNames DEF WriteProfile, ProfileSite, Form, local, disk
  <1>14. CASE Conclude(r)
    BY <1>14, GoToForm, PlaceNames DEF Conclude, Form, local, disk
  <1>15. CASE ReadTotal(r)
    BY <1>15, GoToForm, PlaceNames DEF ReadTotal, Form, local, disk
  <1>16. CASE EndCall(r)
    BY <1>16, GoToForm, PlaceNames DEF EndCall, Form, local, disk
  <1>17. CASE NextIteration(r)
    BY <1>17, GoToForm, PlaceNames DEF NextIteration, Form, local, disk
  <1>18. QED
    BY <1>1, <1>2, <1>3, <1>4, <1>5, <1>6, <1>7, <1>8, <1>9, <1>10,
       <1>11, <1>12, <1>13, <1>14, <1>15, <1>16, <1>17 DEF Step

\* Whatever is kept per rank, a step changes it for its own rank only.
Untouched(r) ==
    \A q \in Rank \ {r} :
        /\ pc'[q] = pc[q] /\ arrived'[q] = arrived[q]
        /\ cur_iter'[q] = cur_iter[q] /\ evals'[q] = evals[q]
        /\ generated'[q] = generated[q] /\ pp_schedule'[q] = pp_schedule[q]
        /\ plan'[q] = plan[q] /\ profile_result'[q] = profile_result[q]

LEMMA StepUntouched == ASSUME Form, NEW r \in Rank, Step(r) PROVE args' = args /\ Untouched(r)
  <1> USE DEF Untouched, Form, GoTo, local, disk
  <1>1. CASE Leave(r)
    BY <1>1 DEF Leave
  <1>2. CASE StayWithSchedule(r)
    BY <1>2 DEF StayWithSchedule
  <1>3. CASE FailTooEarly(r)
    BY <1>3 DEF FailTooEarly
  <1>4. CASE UpdateLocally(r)
    BY <1>4 DEF UpdateLocally, MayUpdate
  <1>5. CASE UpdateBySolver(r)
    BY <1>5 DEF UpdateBySolver, MayUpdate
  <1>6. CASE Reuse(r)
    BY <1>6 DEF Reuse, Takes
  <1>7. CASE OpenFile(r)
    BY <1>7 DEF OpenFile, Takes
  <1>8. CASE FindNoSolution(r)
    BY <1>8 DEF FindNoSolution
  <1>9. CASE WriteFile(r)
    BY <1>9 DEF WriteFile
  <1>10. CASE LoadFile(r)
    BY <1>10 DEF LoadFile, Takes
  <1>11. CASE Replan(r)
    BY <1>11 DEF Replan
  <1>12. CASE Run(r)
    BY <1>12 DEF Run
  <1>13. CASE WriteProfile(r)
    BY <1>13 DEF WriteProfile
  <1>14. CASE Conclude(r)
    BY <1>14 DEF Conclude
  <1>15. CASE ReadTotal(r)
    BY <1>15 DEF ReadTotal
  <1>16. CASE EndCall(r)
    BY <1>16 DEF EndCall
  <1>17. CASE NextIteration(r)
    BY <1>17 DEF NextIteration
  <1>18. QED
    BY <1>1, <1>2, <1>3, <1>4, <1>5, <1>6, <1>7, <1>8, <1>9, <1>10,
       <1>11, <1>12, <1>13, <1>14, <1>15, <1>16, <1>17 DEF Step

LEMMA OthersAtPlace ==
    ASSUME NEW r \in Rank, Untouched(r), args' = args, NEW q \in Rank, q # r, AtPlace(q)
    PROVE  AtPlace(q)' /\ Pos(q)' = Pos(q)
  <1>1. Pos(q)' = Pos(q)
    BY DEF Untouched, Pos, Slot
  <1>2. pc'[q] = pc[q] /\ cur_iter'[q] = cur_iter[q] /\ evals'[q] = evals[q]
        /\ generated'[q] = generated[q] /\ profile_result'[q] = profile_result[q]
    BY DEF Untouched
  <1>3. Barriers' = Barriers
    BY SameBarriers
  <1>4. /\ (Before(<<args.profile_iter + 1, 0, "call">>, Pos(q)))'
              <=> Before(<<args.profile_iter + 1, 0, "call">>, Pos(q))
        /\ (Before(<<args.profile_iter, 0, "read">>, Pos(q)))' <=> Before(<<args.profile_iter, 0, "read">>, Pos(q))
    BY <1>1 DEF Before
  <1>5. Updates(cur_iter[q], evals[q])' = Updates(cur_iter[q], evals[q])
    BY <1>2 DEF Updates, Calls, Evaluates, Experiment, UpdateIters, TestStart
  <1>6. Calls(cur_iter[q], evals[q])' = Calls(cur_iter[q], evals[q])
    BY <1>2 DEF Calls, Evaluates
  <1>7. QED
    BY <1>1, <1>2, <1>3, <1>4, <1>5, <1>6 DEF AtPlace, BySolver, Experiment

\* A rank moves forward, with no barrier between.
LEMMA MovesForward ==
    ASSUME Form, Form', NEW r \in Rank, args' = args, Untouched(r), AtPlace(r),
           \A q \in Rank : AtPlace(q),
           arrived'[r] = arrived[r] + (IF pc'[r] \in Sites THEN 1 ELSE 0),
           pc'[r] \in Sites => IsBarrier(Pos(r)'[1], Pos(r)'[2], Pos(r)'[3]),
           ~Before(Pos(r)', Pos(r)),
           pc'[r] \in Sites => Before(Pos(r), Pos(r)'),
           \A i, s \in Nat, site \in Sites :
               IsBarrier(i, s, site) /\ Before(Pos(r), <<i, s, site>>) => ~Before(<<i, s, site>>, Pos(r)')
    PROVE  Moves(r)
  <1>1. Pos(r) \in Position /\ Pos(r)' \in Position
    BY PositionType, PositionTypeNext
  <1>2. \A q \in Rank \ {r} : Pos(q)' = Pos(q) /\ arrived'[q] = arrived[q]
    BY OthersAtPlace DEF Untouched
  <1>3. ASSUME NEW b \in Barriers, Before(b, Pos(r)') PROVE ~Before(Pos(r), b)
    BY <1>3 DEF Barriers
  <1>4. ASSUME NEW b \in Barriers, Before(Pos(r)', b) PROVE Before(Pos(r), b)
    BY <1>1, <1>4, IndexType, BarrierType DEF Before, Position
  <1>5. pc'[r] \in Sites => Pos(r)' \in Barriers
    BY <1>1 DEF Barriers, Position, Pos
  <1>6. arrived[r] \in Nat
    BY DEF Form
  <1>7. QED
    BY <1>2, <1>3, <1>4, <1>5, <1>6 DEF Moves

LEMMA MovesWithin ==
    ASSUME Form, Form', NEW r \in Rank, args' = args, Untouched(r), \A q \in Rank : AtPlace(q),
           arrived'[r] = arrived[r] + (IF pc'[r] \in Sites THEN 1 ELSE 0),
           cur_iter'[r] = cur_iter[r], Slot(r)' = Slot(r),
           Index[pc[r]] <= Index[pc'[r]],
           pc'[r] \in Sites => /\ IsBarrier(cur_iter[r], Slot(r), pc'[r])
                               /\ Index[pc[r]] < Index[pc'[r]],
           \A site \in Sites :
               Index[pc[r]] < Index[site] /\ Index[site] < Index[pc'[r]]
                   => ~IsBarrier(cur_iter[r], Slot(r), site)
    PROVE  Moves(r)
  <1>1. Pos(r) \in Position /\ Pos(r)' \in Position
    BY PositionType, PositionTypeNext
  <1>2. Pos(r) = <<cur_iter[r], Slot(r), pc[r]>> /\ Pos(r)' = <<cur_iter[r], Slot(r), pc'[r]>>
    BY DEF Pos
  <1>3. ~Before(Pos(r)', Pos(r))
    BY <1>1, <1>2, IndexType DEF Before, Position
  <1>4. pc'[r] \in Sites => Before(Pos(r), Pos(r)')
    BY <1>1, <1>2 DEF Before, Position
  <1>5. ASSUME NEW i \in Nat, NEW s \in Nat, NEW site \in Sites, IsBarrier(i, s, site),
               Before(Pos(r), <<i, s, site>>), Before(<<i, s, site>>, Pos(r)')
        PROVE  FALSE
    <2>1. i = cur_iter[r] /\ s = Slot(r) /\ Index[pc[r]] < Index[site] /\ Index[site] < Index[pc'[r]]
      BY <1>1, <1>2, <1>5 DEF Before, Position
    <2>2. QED
      BY <1>5, <2>1
  <1>6. QED
    BY <1>2, <1>3, <1>4, <1>5, MovesForward

-----------------------------------------------------------------------------
(* Each step moves its rank on and leaves it where its call allows.         *)

LEMMA NeedsUpdateWhenDue ==
    ASSUME Form, NEW r \in Rank, AtPlace(r), pc[r] = "call"
    PROVE  (profile_result[r] # None /\ ~TestNotStarted(r) /\ NeedsUpdate(r))
               <=> Updates(cur_iter[r], evals[r])
  <1>1. args \in ConfigType /\ TestStart \in Int /\ TestStart > args.profile_iter
        /\ \A i \in UpdateIters : i \in Int /\ i >= TestStart
    BY TestStartType DEF Form
  <1>2. cur_iter[r] \in Nat /\ evals[r] \in Nat /\ args.profile_iter \in Nat
    BY <1>1 DEF Form, ConfigType
  <1>3. Pos(r) = <<cur_iter[r], evals[r], "call">> /\ Calls(cur_iter[r], evals[r])
    BY DEF Pos, Slot, Ending, AtPlace
  <1>4. profile_result[r] # None <=> \/ cur_iter[r] > args.profile_iter
                                     \/ cur_iter[r] = args.profile_iter /\ evals[r] > 0
    BY <1>2, <1>3, Indices DEF AtPlace, Before
  <1>5. generated[r] <=> /\ ~Experiment /\ args.schedule # "static"
                         /\ \/ cur_iter[r] > args.profile_iter + 1
                            \/ cur_iter[r] = args.profile_iter + 1 /\ evals[r] > 0
    BY <1>2, <1>3, Indices DEF AtPlace, Before
  <1>6. CASE Experiment
    BY <1>1, <1>2, <1>3, <1>4, <1>6 DEF Updates, NeedsUpdate, TestNotStarted
  <1>7. CASE ~Experiment
    BY <1>1, <1>2, <1>3, <1>4, <1>5, <1>7 DEF Updates, NeedsUpdate, TestNotStarted
  <1>8. QED
    BY <1>6, <1>7

\* What stays of a rank's call while it goes through it.
LEMMA SameCall ==
    ASSUME args' = args, NEW r \in Rank, cur_iter'[r] = cur_iter[r], evals'[r] = evals[r]
    PROVE  /\ Calls(cur_iter[r], evals[r])' = Calls(cur_iter[r], evals[r])
           /\ Updates(cur_iter[r], evals[r])' = Updates(cur_iter[r], evals[r])
           /\ BySolver' = BySolver /\ Experiment' = Experiment /\ Barriers' = Barriers
  BY SameBarriers DEF Calls, Updates, Evaluates, BySolver, Experiment, UpdateIters, TestStart

\* A rank that goes on in its call, to a place like the one it was at.
LEMMA AtPlaceWithin ==
    ASSUME Form, Form', NEW r \in Rank, AtPlace(r), args' = args,
           cur_iter'[r] = cur_iter[r], evals'[r] = evals[r], Slot(r)' = Slot(r),
           pc'[r] \in Sites => IsBarrier(cur_iter[r], Slot(r), pc'[r]),
           pc'[r] \in Ending <=> pc[r] \in Ending,
           pc'[r] # "evaluate",
           pc'[r] = "test_not_started" => Experiment,
           pc'[r] \in Updating => Updates(cur_iter[r], evals[r]),
           pc'[r] \in Solving => BySolver,
           pc'[r] = "write" => r = 0,
           pc'[r] \in Profiling => cur_iter[r] = args.profile_iter,
           generated'[r] <=> /\ ~Experiment /\ args.schedule # "static"
                             /\ Before(<<args.profile_iter + 1, 0, "call">>, Pos(r)'),
           profile_result'[r] # None <=> Before(<<args.profile_iter, 0, "read">>, Pos(r)')
    PROVE  AtPlace(r)'
  <1>1. Pos(r)' = <<cur_iter[r], Slot(r), pc'[r]>>
    BY DEF Pos
  <1>2. pc'[r] \in Sites => Pos(r)' \in Barriers
    <2>1. cur_iter[r] \in Nat /\ Slot(r) \in Nat
      BY PositionType DEF Pos, Position
    <2>2. QED
      BY <1>1, <2>1 DEF Barriers
  <1>3. /\ (Before(<<args.profile_iter + 1, 0, "call">>, Pos(r)))'
              <=> Before(<<args.profile_iter + 1, 0, "call">>, Pos(r)')
        /\ (Before(<<args.profile_iter, 0, "read">>, Pos(r)))'
              <=> Before(<<args.profile_iter, 0, "read">>, Pos(r)')
    BY DEF Before
  <1>4. QED
    BY <1>2, <1>3, SameCall DEF AtPlace

\* Before a rank is past a place, in numbers.
LEMMA PastPlaces ==
    ASSUME NEW x \in Position, args \in Configs
    PROVE  /\ Before(<<args.profile_iter + 1, 0, "call">>, x)
                <=> \/ x[1] > args.profile_iter + 1
                    \/ x[1] = args.profile_iter + 1 /\ (x[2] > 0 \/ Index[x[3]] > 1)
           /\ Before(<<args.profile_iter, 0, "read">>, x)
                <=> \/ x[1] > args.profile_iter
                    \/ x[1] = args.profile_iter /\ (x[2] > 0 \/ Index[x[3]] > 13)
  <1>1. args.profile_iter \in Nat
    BY TestStartType DEF ConfigType
  <1>2. QED
    BY <1>1, Indices, IndexType DEF Before, Position

LEMMA GoesOn ==
    ASSUME Form, Form', NEW r \in Rank, NEW place \in Place, Step(r), \A q \in Rank : AtPlace(q),
           GoTo(r, place), cur_iter' = cur_iter, evals' = evals,
           generated' = generated, profile_result'[r] = profile_result[r],
           Index[pc[r]] <= Index[place],
           Index[pc[r]] > 1 \/ Index[place] <= 1 \/ ~Updates(cur_iter[r], evals[r]),
           Index[pc[r]] > 13 \/ Index[place] <= 13 \/ cur_iter[r] # args.profile_iter,
           place \in Sites => /\ IsBarrier(cur_iter[r], Slot(r), place)
                              /\ Index[pc[r]] < Index[place],
           \A site \in Sites :
               Index[pc[r]] < Index[site] /\ Index[site] < Index[place]
                   => ~IsBarrier(cur_iter[r], Slot(r), site),
           place \in Ending <=> pc[r] \in Ending,
           place # "evaluate",
           place = "test_not_started" => Experiment,
           place \in Updating => Updates(cur_iter[r], evals[r]),
           place \in Solving => BySolver,
           place = "write" => r = 0,
           place \in Profiling => cur_iter[r] = args.profile_iter
    PROVE  Moves(r) /\ AtPlace(r)'
  <1>1. args' = args /\ Untouched(r)
    BY StepUntouched
  <1>2. pc'[r] = place /\ arrived'[r] = arrived[r] + (IF pc'[r] \in Sites THEN 1 ELSE 0)
    BY GoToForm
  <1>3. cur_iter'[r] = cur_iter[r] /\ evals'[r] = evals[r] /\ Slot(r)' = Slot(r)
    BY <1>2 DEF Slot
  <1>4. Moves(r)
    BY <1>1, <1>2, <1>3, MovesWithin
  <1>5. /\ Pos(r) = <<cur_iter[r], Slot(r), pc[r]>>
        /\ Pos(r)' = <<cur_iter[r], Slot(r), place>>
        /\ cur_iter[r] \in Nat /\ Slot(r) \in Nat /\ pc[r] \in Place
    BY <1>2, <1>3, PositionType DEF Pos, Position
  <1> DEFINE LaterThan(i, k, p) == \/ cur_iter[r] > i
                                   \/ cur_iter[r] = i /\ (Slot(r) > 0 \/ Index[p] > k)
  <1>a. /\ Before(<<args.profile_iter + 1, 0, "call">>, Pos(r)) <=> LaterThan(args.profile_iter + 1, 1, pc[r])
        /\ Before(<<args.profile_iter, 0, "read">>, Pos(r)) <=> LaterThan(args.profile_iter, 13, pc[r])
        /\ Before(<<args.profile_iter + 1, 0, "call">>, Pos(r)') <=> LaterThan(args.profile_iter + 1, 1, place)
        /\ Before(<<args.profile_iter, 0, "read">>, Pos(r)') <=> LaterThan(args.profile_iter, 13, place)
    <2>1. Pos(r) \in Position /\ Pos(r)' \in Position /\ args \in Configs
      BY PositionType, PositionTypeNext DEF Form
    <2>2. QED
      BY <1>5, <2>1, PastPlaces
  <1>b. args.profile_iter \in Nat /\ Index[pc[r]] \in Nat /\ Index[place] \in Nat
    BY <1>5, IndexType, TestStartType DEF Form, ConfigType
  <1>6. generated'[r] <=> /\ ~Experiment /\ args.schedule # "static"
                          /\ Before(<<args.profile_iter + 1, 0, "call">>, Pos(r)')
    <2>1. generated[r] <=> /\ ~Experiment /\ args.schedule # "static"
                           /\ Before(<<args.profile_iter + 1, 0, "call">>, Pos(r))
      BY DEF AtPlace
    <2>3. CASE Index[pc[r]] > 1 \/ Index[place] <= 1
      BY <1>5, <1>a, <1>b, <2>1, <2>3
    <2>4. CASE ~Updates(cur_iter[r], evals[r])
      <3>1. ~Experiment /\ args.schedule # "static" => ~(cur_iter[r] = args.profile_iter + 1 /\ Slot(r) = 0)
        BY <2>4, WorldAssumption DEF Updates, Calls, Slot
      <3>2. QED
        BY <1>5, <1>a, <1>b, <2>1, <3>1
    <2>5. QED
      BY <2>3, <2>4
  <1>7. profile_result'[r] # None <=> Before(<<args.profile_iter, 0, "read">>, Pos(r)')
    <2>1. profile_result[r] # None <=> Before(<<args.profile_iter, 0, "read">>, Pos(r))
      BY DEF AtPlace
    <2>3. QED
      BY <1>5, <1>a, <1>b, <2>1
  <1>8. AtPlace(r)'
    BY <1>1, <1>2, <1>3, <1>6, <1>7, AtPlaceWithin
  <1>9. QED
    BY <1>4, <1>8

\* In a call the slot is the number of the call.
LEMMA SlotOfCall ==
    ASSUME NEW r \in Rank, pc[r] \notin Ending
    PROVE  Slot(r) = evals[r] /\ Pos(r) = <<cur_iter[r], evals[r], pc[r]>>
  BY DEF Slot, Pos

LEMMA LeaveMoves ==
    ASSUME Form, Form', NEW r \in Rank, \A q \in Rank : AtPlace(q), Leave(r)
    PROVE  Moves(r) /\ AtPlace(r)'
  <1> DEFINE place == After[pc[r]]
  <1>1. GoTo(r, place) /\ cur_iter' = cur_iter /\ evals' = evals /\ generated' = generated
        /\ profile_result' = profile_result /\ pc[r] \in Sites
    BY DEF Leave, local
  <1>2. AtPlace(r) /\ Step(r)
    BY DEF Step
  <1>3. IsBarrier(cur_iter[r], Slot(r), pc[r])
    BY <1>1, <1>2 DEF AtPlace, Barriers, Pos
  <1>4. <<pc[r], place>> \in {<<"deleted", "solve">>, <<"generated", "replan">>, <<"updated", "run">>,
            <<"profiled", "conclude">>, <<"concluded", "read">>, <<"evaluate", "call">>,
            <<"interval", "next">>, <<"exit", "done">>}
    BY <1>1, AfterSites DEF Sites
  <1>5. place \in Place /\ Index[pc[r]] <= Index[place] /\ place \notin Sites
    BY <1>4, Indices, PlaceNames DEF Sites
  <1>6. Index[pc[r]] > 1 \/ Index[place] <= 1
    BY <1>4, Indices
  <1>7. Index[pc[r]] > 13 \/ Index[place] <= 13
    BY <1>4, Indices
  <1>8. \A site \in Sites : ~(Index[pc[r]] < Index[site] /\ Index[site] < Index[place])
    BY <1>4, Indices DEF Sites
  <1>9. /\ place \in Ending <=> pc[r] \in Ending
        /\ place # "evaluate" /\ place # "test_not_started" /\ place # "write"
    BY <1>4 DEF Ending
  <1>10. /\ place \in Updating => Updates(cur_iter[r], evals[r])
         /\ place \in Solving => BySolver
         /\ place \in Profiling => cur_iter[r] = args.profile_iter
    BY <1>2, <1>4 DEF AtPlace, Updating, Solving, Profiling
  <1> HIDE DEF place
  <1>11. QED
    BY <1>1, <1>2, <1>5, <1>6, <1>7, <1>8, <1>9, <1>10, GoesOn

LEMMA StayMoves ==
    ASSUME Form, Form', NEW r \in Rank, \A q \in Rank : AtPlace(q),
           StayWithSchedule(r) \/ FailTooEarly(r)
    PROVE  Moves(r) /\ AtPlace(r)'
  <1>1. AtPlace(r) /\ Step(r) /\ pc[r] = "call" /\ pc[r] \in Place
    BY PlaceNames DEF Step, StayWithSchedule, FailTooEarly
  <1>2. cur_iter' = cur_iter /\ evals' = evals /\ generated' = generated /\ profile_result' = profile_result
    BY DEF StayWithSchedule, FailTooEarly, local
  <1>3. Slot(r) = evals[r]
    BY <1>1, SlotOfCall DEF Ending
  <1>4. CASE StayWithSchedule(r)
    <2>1. ~Updates(cur_iter[r], evals[r])
      BY <1>1, <1>4, NeedsUpdateWhenDue DEF StayWithSchedule
    <2>2. \A site \in Sites :
              Index["call"] < Index[site] /\ Index[site] < Index["run"] => ~IsBarrier(cur_iter[r], Slot(r), site)
      BY <1>3, <2>1, Indices DEF Sites, IsBarrier
    <2>3. GoTo(r, "run")
      BY <1>4 DEF StayWithSchedule
    <2>4. "run" \in Place /\ "run" \notin Sites /\ "run" \notin Ending /\ "call" \notin Ending
          /\ "run" \notin Updating /\ "run" \notin Solving /\ "run" \notin Profiling
      BY PlaceNames DEF Sites, Ending, Updating, Solving, Profiling
    <2>5. QED
      BY <1>1, <1>2, <2>1, <2>2, <2>3, <2>4, Indices, GoesOn
  <1>5. CASE FailTooEarly(r)
    <2>1. GoTo(r, "test_not_started") /\ Experiment
      BY <1>5 DEF FailTooEarly, TestNotStarted
    <2>2. /\ "test_not_started" \in Place /\ "test_not_started" \notin Sites
          /\ "test_not_started" \notin Ending /\ "call" \notin Ending
          /\ "test_not_started" \notin Updating /\ "test_not_started" \notin Solving
          /\ "test_not_started" \notin Profiling
      BY PlaceNames DEF Sites, Ending, Updating, Solving, Profiling
    <2>3. \A site \in Sites :
              ~(Index["call"] < Index[site] /\ Index[site] < Index["test_not_started"])
      BY Indices DEF Sites
    <2>4. QED
      BY <1>1, <1>2, <2>1, <2>2, <2>3, Indices, GoesOn
  <1>6. QED
    BY <1>4, <1>5

\* From one place to another of the same call with no barrier between, in an
\* update or in a profile.
LEMMA GoesOnInCall ==
    ASSUME Form, Form', NEW r \in Rank, NEW from, NEW place \in Place, Step(r),
           \A q \in Rank : AtPlace(q),
           pc[r] = from, GoTo(r, place), cur_iter' = cur_iter, evals' = evals,
           generated' = generated, profile_result' = profile_result,
           from \in Place, Index[from] > 1,
           Index[from] < Index[place] \/ (Index[from] = Index[place] /\ place \notin Sites),
           Index[place] <= 13,
           \A site \in Sites : ~(Index[from] < Index[site] /\ Index[site] < Index[place]),
           place \in Sites => IsBarrier(cur_iter[r], Slot(r), place),
           place \notin Ending, from \notin Ending, place \notin {"evaluate", "test_not_started"},
           place \in Updating => Updates(cur_iter[r], evals[r]),
           place \in Solving => BySolver,
           place = "write" => r = 0,
           place \in Profiling => cur_iter[r] = args.profile_iter
    PROVE  Moves(r) /\ AtPlace(r)'
  <1>1. Index[pc[r]] <= Index[place] /\ (place \in Sites => Index[pc[r]] < Index[place])
    BY IndexType
  <1>2. QED
    BY <1>1, GoesOn

LEMMA SolveMoves ==
    ASSUME Form, Form', NEW r \in Rank, \A q \in Rank : AtPlace(q),
           Reuse(r) \/ OpenFile(r) \/ FindNoSolution(r) \/ WriteFile(r) \/ LoadFile(r)
    PROVE  Moves(r) /\ AtPlace(r)'
  <1>1. AtPlace(r) /\ Step(r) /\ pc[r] \in {"solve", "write"}
    BY DEF Step, Reuse, OpenFile, FindNoSolution, WriteFile, LoadFile
  <1>2. cur_iter' = cur_iter /\ evals' = evals /\ generated' = generated /\ profile_result' = profile_result
    BY DEF Reuse, OpenFile, FindNoSolution, WriteFile, LoadFile, local
  <1>3. Slot(r) = evals[r]
    BY <1>1, SlotOfCall DEF Ending
  <1>4. Updates(cur_iter[r], evals[r]) /\ BySolver
    BY <1>1 DEF AtPlace, Updating, Solving
  <1>5. IsBarrier(cur_iter[r], Slot(r), "generated")
    BY <1>3, <1>4 DEF IsBarrier, BySolver
  <1>6. PICK place : /\ GoTo(r, place)
                     /\ \/ pc[r] = "solve" /\ place \in {"generated", "no_solution", "partial_read"}
                        \/ pc[r] = "solve" /\ place = "write" /\ r = 0
                        \/ pc[r] = "write" /\ place = "generated"
    BY DEF Reuse, OpenFile, FindNoSolution, WriteFile, LoadFile
  <1>7. place \in Place /\ pc[r] \in Place
    BY <1>6, PlaceNames
  <1>8. /\ Index[pc[r]] > 1 /\ Index[place] <= 13
        /\ Index[pc[r]] < Index[place] \/ (Index[pc[r]] = Index[place] /\ place \notin Sites)
        /\ \A site \in Sites : ~(Index[pc[r]] < Index[site] /\ Index[site] < Index[place])
    BY <1>6, Indices DEF Sites
  <1>9. /\ place \in Sites => place = "generated"
        /\ place \notin Ending /\ pc[r] \notin Ending /\ place \notin {"evaluate", "test_not_started"}
        /\ place \notin Profiling
        /\ place = "write" => r = 0
    BY <1>6 DEF Sites, Ending, Profiling
  <1>10. QED
    BY <1>1, <1>2, <1>4, <1>5, <1>6, <1>7, <1>8, <1>9, GoesOnInCall

LEMMA ReplanMoves ==
    ASSUME Form, Form', NEW r \in Rank, \A q \in Rank : AtPlace(q), Replan(r)
    PROVE  Moves(r) /\ AtPlace(r)'
  <1>1. AtPlace(r) /\ Step(r) /\ pc[r] = "replan"
    BY DEF Step, Replan
  <1>2. cur_iter' = cur_iter /\ evals' = evals /\ generated' = generated /\ profile_result' = profile_result
    BY DEF Replan, disk
  <1>3. Slot(r) = evals[r]
    BY <1>1, SlotOfCall DEF Ending
  <1>4. Updates(cur_iter[r], evals[r])
    BY <1>1 DEF AtPlace, Updating
  <1>5. IsBarrier(cur_iter[r], Slot(r), "updated")
    BY <1>3, <1>4 DEF IsBarrier
  <1>6. PICK place : GoTo(r, place) /\ place \in {"updated", "unbound_name"}
    BY DEF Replan
  <1>7. place \in Place /\ pc[r] \in Place
    BY <1>1, <1>6, PlaceNames
  <1>8. /\ Index[pc[r]] > 1 /\ Index[place] <= 13
        /\ Index[pc[r]] < Index[place] \/ (Index[pc[r]] = Index[place] /\ place \notin Sites)
        /\ \A site \in Sites : ~(Index[pc[r]] < Index[site] /\ Index[site] < Index[place])
    BY <1>1, <1>6, Indices DEF Sites
  <1>9. /\ place \in Sites => place = "updated"
        /\ place \notin Ending /\ pc[r] \notin Ending /\ place \notin {"evaluate", "test_not_started"}
        /\ place \notin Profiling /\ place \notin Solving /\ place # "write"
    BY <1>1, <1>6 DEF Sites, Ending, Profiling, Solving
  <1>10. QED
    BY <1>1, <1>2, <1>4, <1>5, <1>6, <1>7, <1>8, <1>9, GoesOnInCall

LEMMA RunMoves ==
    ASSUME Form, Form', NEW r \in Rank, \A q \in Rank : AtPlace(q), Run(r)
    PROVE  Moves(r) /\ AtPlace(r)'
  <1>1. AtPlace(r) /\ Step(r) /\ pc[r] = "run" /\ pc[r] \in Place
    BY PlaceNames DEF Step, Run
  <1>2. cur_iter' = cur_iter /\ evals' = evals /\ generated' = generated /\ profile_result' = profile_result
    BY DEF Run, local
  <1>3. "run" \notin Ending
    BY DEF Ending
  <1>4. CASE cur_iter[r] = args.profile_iter
    <2>1. GoTo(r, "profile")
      BY <1>4 DEF Run
    <2>2. /\ "profile" \in Place /\ "profile" \notin Sites /\ "profile" \notin Ending
          /\ "profile" \notin Updating /\ "profile" \notin Solving
      BY PlaceNames DEF Sites, Ending, Updating, Solving
    <2>3. \A site \in Sites : ~(Index["run"] < Index[site] /\ Index[site] < Index["profile"])
      BY Indices DEF Sites
    <2>4. QED
      BY <1>1, <1>2, <1>3, <1>4, <2>1, <2>2, <2>3, Indices, GoesOnInCall
  <1>5. CASE cur_iter[r] # args.profile_iter
    <2>1. GoTo(r, "end")
      BY <1>5 DEF Run
    <2>2. /\ "end" \in Place /\ "end" \notin Sites /\ "end" \notin Ending
          /\ "end" \notin Updating /\ "end" \notin Solving /\ "end" \notin Profiling
      BY PlaceNames DEF Sites, Ending, Updating, Solving, Profiling
    <2>3. \A site \in Sites : Index["run"] < Index[site] /\ Index[site] < Index["end"]
              => ~IsBarrier(cur_iter[r], Slot(r), site)
      BY <1>5, Indices DEF Sites, IsBarrier
    <2>4. QED
      BY <1>1, <1>2, <1>3, <1>5, <2>1, <2>2, <2>3, Indices, GoesOn
  <1>6. QED
    BY <1>4, <1>5

LEMMA ProfileMoves ==
    ASSUME Form, Form', NEW r \in Rank, \A q \in Rank : AtPlace(q), WriteProfile(r) \/ Conclude(r)
    PROVE  Moves(r) /\ AtPlace(r)'
  <1>1. PICK place : /\ GoTo(r, place)
                     /\ \/ pc[r] = "profile" /\ place = "profiled"
                        \/ pc[r] = "conclude" /\ place = "concluded"
    BY DEF WriteProfile, Conclude, ProfileSite
  <1>2. AtPlace(r) /\ Step(r)
    BY DEF Step
  <1>3. cur_iter' = cur_iter /\ evals' = evals /\ generated' = generated /\ profile_result' = profile_result
    BY DEF WriteProfile, Conclude, local
  <1>4. Slot(r) = evals[r]
    BY <1>1, SlotOfCall DEF Ending
  <1>5. cur_iter[r] = args.profile_iter /\ Calls(cur_iter[r], evals[r])
    BY <1>1, <1>2 DEF AtPlace, Profiling, Ending
  <1>6. IsBarrier(cur_iter[r], Slot(r), place)
    BY <1>1, <1>4, <1>5 DEF IsBarrier
  <1>7. place \in Place /\ pc[r] \in Place
    BY <1>1, PlaceNames
  <1>8. /\ Index[pc[r]] > 1 /\ Index[place] <= 13
        /\ Index[pc[r]] < Index[place]
        /\ \A site \in Sites : ~(Index[pc[r]] < Index[site] /\ Index[site] < Index[place])
    BY <1>1, Indices DEF Sites
  <1>9. /\ place \notin Ending /\ pc[r] \notin Ending /\ place \notin {"evaluate", "test_not_started"}
        /\ place \notin Updating /\ place \notin Solving /\ place # "write"
    BY <1>1 DEF Ending, Updating, Solving
  <1>10. QED
    BY <1>1, <1>2, <1>3, <1>5, <1>6, <1>7, <1>8, <1>9, GoesOnInCall

LEMMA UpdateMoves ==
    ASSUME Form, Form', NEW r \in Rank, \A q \in Rank : AtPlace(q),
           UpdateLocally(r) \/ UpdateBySolver(r)
    PROVE  Moves(r) /\ AtPlace(r)'
  <1>1. AtPlace(r) /\ Step(r) /\ pc[r] = "call" /\ MayUpdate(r)
    BY DEF Step, UpdateLocally, UpdateBySolver, MayUpdate
  <1>2. /\ cur_iter'[r] = cur_iter[r] /\ evals'[r] = evals[r] /\ profile_result' = profile_result
        /\ generated'[r] = (generated[r] \/ ~Experiment)
    BY <1>1 DEF MayUpdate, Form
  <1>3. Updates(cur_iter[r], evals[r]) /\ profile_result[r] # None
    BY <1>1, NeedsUpdateWhenDue DEF MayUpdate
  <1>4. PICK place : /\ GoTo(r, place)
                     /\ \/ place = "replan" /\ args.schedule = "static"
                        \/ place = "generated" /\ args.schedule = "subud"
                        \/ place = "solve" /\ args.schedule = "ud"
                        \/ place = "deleted" /\ args.schedule = "dynamic_mb"
    BY DEF UpdateLocally, UpdateBySolver, DeleteSite
  <1>5. place \in Place /\ pc[r] \in Place
    BY <1>1, <1>4, PlaceNames
  <1>6. args' = args /\ Untouched(r)
    BY <1>1, StepUntouched
  <1>7. pc'[r] = place /\ arrived'[r] = arrived[r] + (IF pc'[r] \in Sites THEN 1 ELSE 0)
    BY <1>4, <1>5, GoToForm
  <1>8. /\ Slot(r) = evals[r] /\ Slot(r)' = evals[r]
        /\ Pos(r)' = <<cur_iter[r], evals[r], place>>
        /\ Pos(r) = <<cur_iter[r], evals[r], "call">>
    BY <1>1, <1>2, <1>4, <1>7 DEF Slot, Pos, Ending
  <1>9. place \in Sites => IsBarrier(cur_iter[r], Slot(r), place)
    BY <1>3, <1>4, <1>8 DEF IsBarrier, Sites
  <1>10. Index[pc[r]] < Index[place] /\ Index[place] > 1 /\ Index[place] <= 6 /\ Index[place] \in Nat
    BY <1>1, <1>4, Indices
  <1>11. \A site \in Sites : Index[pc[r]] < Index[site] /\ Index[site] < Index[place]
             => ~IsBarrier(cur_iter[r], Slot(r), site)
    <2>1. ASSUME NEW site \in Sites, Index[pc[r]] < Index[site], Index[site] < Index[place]
          PROVE  ~IsBarrier(cur_iter[r], Slot(r), site)
      <3>1. site \in {"deleted", "generated"} /\ (site = "deleted" => place # "deleted") 
            /\ (site = "generated" => place = "replan")
        BY <1>1, <1>4, <2>1, Indices DEF Sites
      <3>2. QED
        BY <1>4, <3>1 DEF IsBarrier
    <2>2. QED
      BY <2>1
  <1>12. Moves(r)
    BY <1>1, <1>2, <1>5, <1>6, <1>7, <1>8, <1>9, <1>10, <1>11, MovesWithin, IndexType
  <1>13. /\ args.profile_iter \in Nat /\ cur_iter[r] \in Nat /\ evals[r] \in Nat
         /\ Pos(r)' \in Position /\ Pos(r) \in Position /\ args \in Configs
    BY TestStartType, PositionType, PositionTypeNext DEF Form, ConfigType
  <1>14. generated'[r] <=> /\ ~Experiment /\ args.schedule # "static"
                           /\ Before(<<args.profile_iter + 1, 0, "call">>, Pos(r)')
    <2>1. generated[r] => ~Experiment
      BY <1>1 DEF AtPlace
    <2>2. ~Experiment => cur_iter[r] = args.profile_iter + 1 /\ args.schedule # "static"
      BY <1>3 DEF Updates
    <2>3. ~Experiment => Before(<<args.profile_iter + 1, 0, "call">>, Pos(r)')
      BY <1>8, <1>10, <1>13, <2>2, PastPlaces
    <2>4. QED
      BY <1>2, <2>1, <2>2, <2>3
  <1>15. profile_result'[r] # None <=> Before(<<args.profile_iter, 0, "read">>, Pos(r)')
    <2>1. Before(<<args.profile_iter, 0, "read">>, Pos(r))
      BY <1>1, <1>3 DEF AtPlace
    <2>2. \/ cur_iter[r] > args.profile_iter
          \/ cur_iter[r] = args.profile_iter /\ evals[r] > 0
      BY <1>8, <1>13, <2>1, PastPlaces, Indices
    <2>3. Before(<<args.profile_iter, 0, "read">>, Pos(r)')
      BY <1>8, <1>13, <2>2, PastPlaces
    <2>4. QED
      BY <1>2, <1>3, <2>3
  <1>16. /\ pc'[r] \notin Ending /\ pc[r] \notin Ending /\ pc'[r] \notin {"evaluate", "test_not_started", "write"}
         /\ pc'[r] \notin Profiling
         /\ pc'[r] \in Solving => BySolver
    BY <1>1, <1>4, <1>7 DEF Ending, Profiling, Solving, BySolver
  <1>17. AtPlace(r)'
    BY <1>1, <1>2, <1>3, <1>6, <1>7, <1>8, <1>9, <1>14, <1>15, <1>16, AtPlaceWithin
  <1>18. QED
    BY <1>12, <1>17

LEMMA ReadMoves ==
    ASSUME Form, Form', NEW r \in Rank, \A q \in Rank : AtPlace(q), ReadTotal(r)
    PROVE  Moves(r) /\ AtPlace(r)'
  <1>1. AtPlace(r) /\ Step(r) /\ pc[r] = "read" /\ GoTo(r, "end")
    BY DEF Step, ReadTotal
  <1>2. /\ cur_iter'[r] = cur_iter[r] /\ evals'[r] = evals[r] /\ generated' = generated
        /\ profile_result'[r] # None
    BY DEF ReadTotal, Form
  <1>3. "end" \in Place /\ "read" \in Place
    BY PlaceNames
  <1>4. args' = args /\ Untouched(r)
    BY <1>1, StepUntouched
  <1>5. pc'[r] = "end" /\ arrived'[r] = arrived[r] + (IF pc'[r] \in Sites THEN 1 ELSE 0)
    BY <1>1, <1>3, GoToForm
  <1>6. /\ Slot(r) = evals[r] /\ Slot(r)' = evals[r]
        /\ Pos(r)' = <<cur_iter[r], evals[r], "end">>
        /\ Pos(r) = <<cur_iter[r], evals[r], "read">>
    BY <1>1, <1>2, <1>5 DEF Slot, Pos, Ending
  <1>7. Index["read"] < Index["end"] /\ "end" \notin Sites
        /\ \A site \in Sites : ~(Index["read"] < Index[site] /\ Index[site] < Index["end"])
    BY Indices DEF Sites
  <1>8. Moves(r)
    BY <1>1, <1>2, <1>4, <1>5, <1>6, <1>7, MovesWithin, Indices
  <1>9. /\ args.profile_iter \in Nat /\ cur_iter[r] \in Nat /\ evals[r] \in Nat
        /\ Pos(r)' \in Position /\ Pos(r) \in Position /\ args \in Configs
    BY TestStartType, PositionType, PositionTypeNext DEF Form, ConfigType
  <1>10. cur_iter[r] = args.profile_iter
    BY <1>1 DEF AtPlace, Profiling
  <1>11. generated'[r] <=> /\ ~Experiment /\ args.schedule # "static"
                           /\ Before(<<args.profile_iter + 1, 0, "call">>, Pos(r)')
    BY <1>1, <1>2, <1>6, <1>9, <1>10, PastPlaces DEF AtPlace
  <1>12. Before(<<args.profile_iter, 0, "read">>, Pos(r)')
    BY <1>6, <1>9, <1>10, PastPlaces, Indices
  <1>13. /\ "end" \notin Ending /\ "read" \notin Ending /\ "end" \notin Updating /\ "end" \notin Solving
         /\ "end" \notin Profiling
    BY DEF Ending, Updating, Solving, Profiling
  <1>14. AtPlace(r)'
    BY <1>1, <1>2, <1>4, <1>5, <1>6, <1>7, <1>11, <1>12, <1>13, AtPlaceWithin
  <1>15. QED
    BY <1>8, <1>14

LEMMA EndMoves ==
    ASSUME Form, Form', NEW r \in Rank, \A q \in Rank : AtPlace(q), EndCall(r)
    PROVE  Moves(r) /\ AtPlace(r)'
  <1> DEFINE i == cur_iter[r]  s == evals[r]
  <1>1. AtPlace(r) /\ Step(r) /\ pc[r] = "end"
    BY DEF Step, EndCall
  <1>2. /\ cur_iter'[r] = i /\ generated' = generated /\ profile_result' = profile_result
        /\ args' = args /\ Untouched(r)
    BY <1>1, StepUntouched DEF EndCall, local
  <1>3. /\ args.profile_iter \in Nat /\ i \in Nat /\ s \in Nat /\ EvalCalls \in Nat \ {0}
        /\ Pos(r)' \in Position /\ Pos(r) \in Position /\ args \in Configs
    BY TestStartType, PositionType, PositionTypeNext, WorldAssumption DEF Form, ConfigType
  <1>4. Pos(r) = <<i, s, "end">> /\ Calls(i, s)
    BY <1>1, SlotOfCall DEF AtPlace, Ending
  <1>5. PICK place : GoTo(r, place) /\
            \/ s = 0 /\ ~Evaluates(i) /\ evals'[r] = 0 /\ place = "next"
            \/ s = 0 /\ Evaluates(i) /\ evals'[r] = 1 /\ place = "evaluate"
            \/ s \in 1 .. EvalCalls - 1 /\ evals'[r] = s + 1 /\ place = "call"
            \/ s = EvalCalls /\ evals'[r] = 0 /\ place = "interval"
    BY DEF EndCall, EvaluationDue, Evaluates, Form
  <1>6. place \in Place
    BY <1>5, PlaceNames
  <1>7. pc'[r] = place /\ arrived'[r] = arrived[r] + (IF pc'[r] \in Sites THEN 1 ELSE 0)
    BY <1>5, <1>6, GoToForm
  <1> DEFINE t == IF place \in Ending THEN EvalCalls + 1 ELSE evals'[r]
  <1>8. Pos(r)' = <<i, t, place>>
    BY <1>2, <1>7 DEF Pos, Slot
  <1>9. s < t /\ t \in Nat
    BY <1>3, <1>5 DEF Ending
  <1>10. Before(Pos(r), Pos(r)') /\ ~Before(Pos(r)', Pos(r))
    BY <1>3, <1>4, <1>8, <1>9 DEF Before
  <1>11. Evaluates(i) => place # "next"
    BY <1>3, <1>5
  <1>12. s > 0 => Evaluates(i)
    BY <1>3, <1>4 DEF Calls
  <1>13. pc'[r] \in Sites => IsBarrier(Pos(r)'[1], Pos(r)'[2], Pos(r)'[3])
    <2>1. CASE place = "evaluate"
      BY <1>5, <1>7, <1>8, <2>1 DEF IsBarrier, Ending
    <2>2. CASE place = "interval"
      BY <1>3, <1>5, <1>7, <1>8, <1>12, <2>2 DEF IsBarrier, Ending
    <2>3. CASE place \in {"next", "call"}
      BY <1>7, <2>3 DEF Sites
    <2>4. QED
      BY <1>5, <2>1, <2>2, <2>3
  <1>14. ASSUME NEW j \in Nat, NEW u \in Nat, NEW site \in Sites, IsBarrier(j, u, site),
                Before(Pos(r), <<j, u, site>>), Before(<<j, u, site>>, Pos(r)')
         PROVE  FALSE
    <2>1. /\ j = i
          /\ \/ u = s /\ Index["end"] < Index[site]
             \/ s < u /\ u < t
             \/ u = t /\ Index[site] < Index[place]
      BY <1>3, <1>4, <1>8, <1>9, <1>14 DEF Before
    <2>2. CASE u = s /\ Index["end"] < Index[site]
      <3>1. site \in {"interval", "exit"}
        BY <2>2, Indices DEF Sites
      <3>2. u = EvalCalls + 1
        BY <1>14, <3>1 DEF IsBarrier
      <3>3. QED
        BY <1>3, <1>4, <2>2, <3>2 DEF Calls
    <2>3. CASE s < u /\ u < t
      <3>1. place = "next" /\ u \in 1 .. EvalCalls /\ ~Evaluates(i)
        BY <1>3, <1>5, <2>3 DEF Ending
      <3>2. ~Calls(j, u)
        BY <2>1, <3>1 DEF Calls
      <3>3. QED
        BY <1>3, <1>14, <2>1, <3>1, <3>2 DEF IsBarrier, Updates
    <2>4. CASE u = t /\ Index[site] < Index[place]
      <3>1. CASE place = "evaluate"
        BY <2>4, <3>1, Indices DEF Sites
      <3>2. CASE place = "call"
        <4>1. site = "evaluate" /\ u # 1
          BY <1>3, <1>5, <2>4, <3>2, Indices DEF Sites, Ending
        <4>2. QED
          BY <1>14, <4>1 DEF IsBarrier
      <3>3. CASE place \in {"interval", "next"}
        <4>1. u = EvalCalls + 1 /\ site # "exit" /\ (site = "interval" => place = "next")
          BY <2>4, <3>3, Indices DEF Ending
        <4>2. ~Calls(j, u) /\ u # 1
          BY <1>3, <4>1 DEF Calls
        <4>3. site = "interval" /\ Evaluates(i)
          BY <1>14, <2>1, <4>1, <4>2 DEF IsBarrier, Updates
        <4>4. QED
          BY <1>11, <4>1, <4>3
      <3>4. QED
        BY <1>5, <3>1, <3>2, <3>3
    <2>5. QED
      BY <2>1, <2>2, <2>3, <2>4
  <1>15. Moves(r)
    BY <1>1, <1>2, <1>7, <1>10, <1>13, <1>14, MovesForward
  <1>16. generated'[r] <=> /\ ~Experiment /\ args.schedule # "static"
                           /\ Before(<<args.profile_iter + 1, 0, "call">>, Pos(r)')
    BY <1>1, <1>2, <1>3, <1>4, <1>8, <1>9, PastPlaces, Indices DEF AtPlace
  <1>17. profile_result'[r] # None <=> Before(<<args.profile_iter, 0, "read">>, Pos(r)')
    BY <1>1, <1>2, <1>3, <1>4, <1>8, <1>9, PastPlaces, Indices DEF AtPlace
  <1>18. pc'[r] \notin Ending => Calls(cur_iter'[r], evals'[r])
    BY <1>2, <1>3, <1>5, <1>7, <1>12 DEF Calls, Ending
  <1>19. /\ pc'[r] \in Ending => evals'[r] = 0
         /\ pc'[r] = "evaluate" => evals'[r] = 1
         /\ pc'[r] \notin {"test_not_started", "write"}
         /\ pc'[r] \notin Updating /\ pc'[r] \notin Solving /\ pc'[r] \notin Profiling
    BY <1>3, <1>5, <1>7 DEF Ending, Updating, Solving, Profiling
  <1>20. Barriers' = Barriers /\ (Calls(cur_iter[r], evals[r]))' = Calls(cur_iter'[r], evals'[r])
         /\ Experiment' = Experiment
    BY <1>2, SameBarriers DEF Calls, Evaluates
  <1>21. pc'[r] \in Sites => Pos(r)' \in Barriers
    BY <1>15, <1>20 DEF Moves
  <1>22. /\ (Before(<<args.profile_iter + 1, 0, "call">>, Pos(r)))'
               <=> Before(<<args.profile_iter + 1, 0, "call">>, Pos(r)')
         /\ (Before(<<args.profile_iter, 0, "read">>, Pos(r)))'
               <=> Before(<<args.profile_iter, 0, "read">>, Pos(r)')
    BY <1>2 DEF Before
  <1>23. AtPlace(r)'
    BY <1>2, <1>16, <1>17, <1>18, <1>19, <1>20, <1>21, <1>22 DEF AtPlace
  <1>24. QED
    BY <1>15, <1>23

LEMMA NextMoves ==
    ASSUME Form, Form', NEW r \in Rank, \A q \in Rank : AtPlace(q), NextIteration(r)
    PROVE  Moves(r) /\ AtPlace(r)'
  <1> DEFINE i == cur_iter[r]
  <1>1. AtPlace(r) /\ Step(r) /\ pc[r] = "next" /\ evals[r] = 0 /\ pc[r] \in Place
    BY PlaceNames DEF Step, NextIteration, AtPlace, Ending
  <1>2. /\ evals' = evals /\ generated' = generated /\ profile_result' = profile_result
        /\ args' = args /\ Untouched(r)
    BY <1>1, StepUntouched DEF NextIteration, local
  <1>3. /\ args.profile_iter \in Nat /\ i \in Nat /\ EvalCalls \in Nat \ {0}
        /\ Pos(r)' \in Position /\ Pos(r) \in Position /\ args \in Configs
    BY TestStartType, PositionType, PositionTypeNext, WorldAssumption DEF Form, ConfigType
  <1>4. Pos(r) = <<i, EvalCalls + 1, "next">> /\ Slot(r) = EvalCalls + 1
    BY <1>1 DEF Pos, Slot, Ending
  <1>5. CASE i = LastIter
    <2>1. PICK place : GoTo(r, place) /\ cur_iter' = cur_iter
              /\ IF Experiment THEN place = "exit" ELSE place = "done"
      BY <1>5 DEF NextIteration
    <2>2. /\ place \in Place /\ Index["next"] < Index[place]
          /\ place \in Ending /\ "next" \in Ending /\ place # "evaluate" /\ place # "test_not_started"
          /\ place \notin Updating /\ place \notin Solving /\ place # "write" /\ place \notin Profiling
      BY <2>1, PlaceNames, Indices DEF Ending, Updating, Solving, Profiling
    <2>3. place \in Sites => IsBarrier(cur_iter[r], Slot(r), place)
      BY <1>4, <1>5, <2>1 DEF Sites, IsBarrier
    <2>4. \A site \in Sites : Index["next"] < Index[site] /\ Index[site] < Index[place]
              => ~IsBarrier(cur_iter[r], Slot(r), site)
      <3>1. ASSUME NEW site \in Sites, Index["next"] < Index[site], Index[site] < Index[place]
            PROVE  site = "exit" /\ ~Experiment
        BY <2>1, <3>1, Indices DEF Sites
      <3>2. QED
        BY <3>1 DEF IsBarrier
    <2>5. QED
      BY <1>1, <1>2, <2>1, <2>2, <2>3, <2>4, Indices, GoesOn
  <1>6. CASE i # LastIter
    <2>1. GoTo(r, "call") /\ cur_iter'[r] = i + 1 /\ evals'[r] = 0 /\ "call" \in Place
      BY <1>1, <1>2, <1>6, PlaceNames DEF NextIteration, Form
    <2>2. pc'[r] = "call" /\ arrived'[r] = arrived[r] + (IF pc'[r] \in Sites THEN 1 ELSE 0)
      BY <2>1, GoToForm
    <2>3. Pos(r)' = <<i + 1, 0, "call">>
      BY <2>1, <2>2 DEF Pos, Slot, Ending
    <2>4. Before(Pos(r), Pos(r)') /\ ~Before(Pos(r)', Pos(r))
      BY <1>3, <1>4, <2>3 DEF Before
    <2>5. ASSUME NEW j \in Nat, NEW u \in Nat, NEW site \in Sites, IsBarrier(j, u, site),
                 Before(Pos(r), <<j, u, site>>), Before(<<j, u, site>>, Pos(r)')
          PROVE  FALSE
      <3>1. \/ j = i /\ u > EvalCalls + 1
            \/ j = i /\ u = EvalCalls + 1 /\ Index["next"] < Index[site]
            \/ j = i + 1 /\ u = 0 /\ Index[site] < Index["call"]
        BY <1>3, <1>4, <2>3, <2>5 DEF Before
      <3>2. CASE j = i /\ u > EvalCalls + 1
        <4>1. ~Calls(j, u)
          BY <1>3, <3>2 DEF Calls
        <4>2. QED
          BY <1>3, <2>5, <3>2, <4>1 DEF IsBarrier, Updates
      <3>3. CASE j = i /\ u = EvalCalls + 1 /\ Index["next"] < Index[site]
        <4>1. site = "exit"
          BY <3>3, Indices DEF Sites
        <4>2. QED
          BY <1>6, <2>5, <3>3, <4>1 DEF IsBarrier
      <3>4. CASE j = i + 1 /\ u = 0 /\ Index[site] < Index["call"]
        <4>1. site = "evaluate"
          BY <3>4, Indices DEF Sites
        <4>2. QED
          BY <2>5, <3>4, <4>1 DEF IsBarrier
      <3>5. QED
        BY <3>1, <3>2, <3>3, <3>4
    <2>6. pc'[r] \notin Sites
      BY <2>2 DEF Sites
    <2>7. Moves(r)
      BY <1>1, <1>2, <2>2, <2>4, <2>5, <2>6, MovesForward
    <2>8. generated'[r] <=> /\ ~Experiment /\ args.schedule # "static"
                            /\ Before(<<args.profile_iter + 1, 0, "call">>, Pos(r)')
      BY <1>1, <1>2, <1>3, <1>4, <2>3, PastPlaces, Indices DEF AtPlace
    <2>9. profile_result'[r] # None <=> Before(<<args.profile_iter, 0, "read">>, Pos(r)')
      BY <1>1, <1>2, <1>3, <1>4, <2>3, PastPlaces, Indices DEF AtPlace
    <2>10. Calls(cur_iter'[r], evals'[r]) /\ (Calls(cur_iter[r], evals[r]))' = Calls(cur_iter'[r], evals'[r])
      BY <1>2, <2>1 DEF Calls, Evaluates
    <2>11. /\ pc'[r] \notin Ending /\ pc'[r] \notin {"evaluate", "test_not_started", "write"}
           /\ pc'[r] \notin Updating /\ pc'[r] \notin Solving /\ pc'[r] \notin Profiling
      BY <2>2 DEF Ending, Updating, Solving, Profiling
    <2>12. /\ (Before(<<args.profile_iter + 1, 0, "call">>, Pos(r)))'
                 <=> Before(<<args.profile_iter + 1, 0, "call">>, Pos(r)')
           /\ (Before(<<args.profile_iter, 0, "read">>, Pos(r)))'
                 <=> Before(<<args.profile_iter, 0, "read">>, Pos(r)')
      BY <1>2 DEF Before
    <2>13. Experiment' = Experiment
      BY <1>2, SameBarriers
    <2>14. AtPlace(r)'
      BY <1>2, <2>6, <2>8, <2>9, <2>10, <2>11, <2>12, <2>13 DEF AtPlace
    <2>15. QED
      BY <2>7, <2>14
  <1>7. QED
    BY <1>5, <1>6

LEMMA StepMoves ==
    ASSUME Form, Form', NEW r \in Rank, \A q \in Rank : AtPlace(q), Step(r)
    PROVE  Moves(r) /\ AtPlace(r)' /\ Released(r)
  <1>1. CASE Leave(r)
    BY <1>1, LeaveMoves DEF Leave, Released
  <1>2. CASE ~Leave(r)
    <2>1. pc[r] \notin Sites
      BY <1>2 DEF Step, StayWithSchedule, FailTooEarly, UpdateLocally, UpdateBySolver, MayUpdate, Reuse,
                  OpenFile, FindNoSolution, WriteFile, LoadFile, Replan, Run, WriteProfile, Conclude,
                  ReadTotal, EndCall, NextIteration, Sites
    <2>2. QED
      BY <1>2, <2>1, StayMoves, UpdateMoves, SolveMoves, ReplanMoves, RunMoves, ProfileMoves, ReadMoves,
         EndMoves, NextMoves DEF Step, Released
  <1>3. QED
    BY <1>1, <1>2

LEMMA StepKeepsPlaces ==
    ASSUME PlacesInv, NEW r \in Rank, Step(r)
    PROVE  PlacesInv' /\ Moves(r) /\ args' = args /\ Untouched(r)
  <1>1. Form' /\ args' = args /\ Untouched(r)
    BY StepForm, StepUntouched DEF PlacesInv
  <1>2. Moves(r) /\ AtPlace(r)' /\ Released(r)
    BY <1>1, StepMoves DEF PlacesInv
  <1>3. \A q \in Rank : AtPlace(q)'
    BY <1>1, <1>2, OthersAtPlace DEF PlacesInv
  <1>4. \A q \in Rank : Counted(q)'
    BY <1>1, <1>2, MovesCount DEF PlacesInv
  <1>5. InStep'
    BY <1>1, <1>2, MovesInStep DEF PlacesInv
  <1>6. QED
    BY <1>1, <1>2, <1>3, <1>4, <1>5 DEF PlacesInv

LEMMA InitPlaces == Init => PlacesInv
  <1> SUFFICES ASSUME Init PROVE PlacesInv
    OBVIOUS
  <1>1. Form
    BY PlaceNames DEF Init, Form
  <1>2. \A r \in Rank : Pos(r) = <<0, 0, "call">> /\ arrived[r] = 0
    BY DEF Init, Pos, Slot, Ending
  <1>3. ASSUME NEW b \in Barriers PROVE Before(<<0, 0, "call">>, b)
    <2>1. b \in Nat \X Nat \X Sites /\ IsBarrier(b[1], b[2], b[3])
      BY DEF Barriers
    <2>2. CASE b[1] > 0 \/ b[2] > 0
      BY <2>1, <2>2 DEF Before
    <2>3. CASE b[1] = 0 /\ b[2] = 0
      <3>1. b[3] # "evaluate"
        BY <2>1, <2>3 DEF IsBarrier
      <3>2. Index["call"] < Index[b[3]]
        BY <2>1, <3>1, Indices DEF Sites
      <3>3. QED
        BY <2>3, <3>2 DEF Before
    <2>4. QED
      BY <2>1, <2>2, <2>3
  <1>4. ASSUME NEW r \in Rank PROVE Counted(r)
    <2>1. Passed(r) = {}
      BY <1>2, <1>3 DEF Passed
    <2>2. QED
      BY <1>2, <2>1, FS_EmptySet DEF Counted
  <1>5. ASSUME NEW a \in Rank, NEW p \in Barriers PROVE ~Before(p, Pos(a))
    BY <1>1, <1>2, <1>3, BarrierType, BeforeOneWay, PositionType
  <1>6. ASSUME NEW r \in Rank PROVE AtPlace(r)
    <2>1. pc[r] = "call" /\ evals[r] = 0 /\ cur_iter[r] = 0 /\ ~generated[r] /\ profile_result[r] = None
      BY DEF Init
    <2>2. "call" \notin Sites /\ "call" \notin Ending /\ "call" \notin Updating /\ "call" \notin Solving
          /\ "call" \notin Profiling
      BY DEF Sites, Ending, Updating, Solving, Profiling
    <2>3. args.profile_iter \in Nat /\ Pos(r) \in Position
      BY <1>1, TestStartType, PositionType DEF Form, ConfigType
    <2>4. /\ ~Before(<<args.profile_iter + 1, 0, "call">>, Pos(r))
          /\ ~Before(<<args.profile_iter, 0, "read">>, Pos(r))
      <3>1. Pos(r)[1] = 0 /\ Pos(r)[2] = 0 /\ Pos(r)[3] = "call" /\ args \in Configs
        BY <1>1, <1>2 DEF Form
      <3>2. QED
        BY <2>3, <3>1, PastPlaces, Indices
    <2>5. QED
      BY <2>1, <2>2, <2>4 DEF AtPlace, Calls
  <1>7. QED
    BY <1>1, <1>4, <1>5, <1>6 DEF PlacesInv, InStep

LEMMA StutterKeepsPlaces == ASSUME PlacesInv, UNCHANGED vars PROVE PlacesInv'
  <1>1. Form'
    BY DEF PlacesInv, Form, vars, local, disk
  <1>2. args' = args /\ pc' = pc /\ arrived' = arrived /\ cur_iter' = cur_iter /\ evals' = evals
        /\ generated' = generated /\ profile_result' = profile_result
    BY DEF vars, local
  <1>3. Barriers' = Barriers /\ Experiment' = Experiment
    BY <1>2, SameBarriers
  <1>4. ASSUME NEW r \in Rank PROVE Pos(r)' = Pos(r)
    BY <1>2 DEF Pos, Slot
  <1>5. ASSUME NEW r \in Rank PROVE AtPlace(r)'
    BY <1>2, <1>3, <1>4, SameCall DEF PlacesInv, AtPlace, Before
  <1>6. ASSUME NEW r \in Rank PROVE Counted(r)'
    <2>1. Passed(r)' = Passed(r)
      BY <1>3, <1>4 DEF Passed, Before
    <2>2. QED
      BY <1>2, <2>1 DEF PlacesInv, Counted
  <1>7. InStep'
    BY <1>3, <1>4 DEF PlacesInv, InStep, Before
  <1>8. QED
    BY <1>1, <1>5, <1>6, <1>7 DEF PlacesInv

\* In every job, for any number of ranks and whatever command line, no barrier
\* of one place of the code meets a barrier of another.
THEOREM BarriersMeet == Spec => []BarriersLineUp
  <1>1. PlacesInv => BarriersLineUp
    <2> SUFFICES ASSUME PlacesInv, NEW a \in Rank, NEW b \in Rank, pc[a] \in Sites, pc[b] \in Sites,
                        arrived[a] = arrived[b]
                 PROVE  pc[a] = pc[b] /\ Call(a) = Call(b)
      BY DEF BarriersLineUp
    <2>1. Form /\ Counted(a) /\ Counted(b) /\ Pos(a) \in Barriers /\ Pos(b) \in Barriers
      BY DEF PlacesInv, AtPlace
    <2>2. arrived[a] \in Nat /\ arrived[b] \in Nat
      BY <2>1 DEF Form
    <2>3. ~Before(Pos(a), Pos(b)) /\ ~Before(Pos(b), Pos(a))
      BY <2>1, <2>2, AsMany
    <2>4. Pos(a) = Pos(b)
      BY <2>1, <2>3, BarrierType, BeforeOrAfter
    <2>5. cur_iter[a] = cur_iter[b] /\ Slot(a) = Slot(b) /\ pc[a] = pc[b]
      BY <2>4 DEF Pos
    <2>6. evals[a] = evals[b]
      BY <2>5 DEF Slot, PlacesInv, AtPlace
    <2>7. QED
      BY <2>5, <2>6 DEF Call
  <1>2. PlacesInv /\ [Next]_vars => PlacesInv'
    BY StepKeepsPlaces, StutterKeepsPlaces DEF Next, Aborted, Terminated
  <1>3. QED
    BY <1>1, <1>2, InitPlaces, PTL DEF Spec

-----------------------------------------------------------------------------
(* Where the others are while a rank is between two barriers.               *)

LEMMA InCall ==
    ASSUME PlacesInv, NEW a \in Rank, NEW b \in Rank, NEW x \in Sites, NEW y \in Sites,
           pc[a] \notin Ending,
           <<cur_iter[a], evals[a], x>> \in Barriers, <<cur_iter[a], evals[a], y>> \in Barriers,
           Index[x] < Index[pc[a]], Index[pc[a]] < Index[y], Index[y] <= 14
    PROVE  /\ Call(b) = Call(a) /\ cur_iter[b] = cur_iter[a] /\ pc[b] \notin Ending
           /\ Index[x] <= Index[pc[b]] /\ Index[pc[b]] <= Index[y]
  <1> DEFINE p == <<cur_iter[a], evals[a], x>>  q == <<cur_iter[a], evals[a], y>>
  <1>1. Pos(a) = <<cur_iter[a], evals[a], pc[a]>>
    BY SlotOfCall
  <1>2. cur_iter[a] \in Nat /\ evals[a] \in Nat /\ cur_iter[b] \in Nat /\ Slot(b) \in Nat
        /\ pc[a] \in Place /\ pc[b] \in Place /\ Pos(b) = <<cur_iter[b], Slot(b), pc[b]>>
    BY PositionType DEF PlacesInv, Form, Pos, Position
  <1>3. Before(p, Pos(a)) /\ Before(Pos(a), q)
    BY <1>1, <1>2 DEF Before
  <1>4. ~Before(Pos(b), p) /\ ~Before(q, Pos(b))
    BY <1>3 DEF PlacesInv, InStep
  <1>5. cur_iter[b] = cur_iter[a] /\ Slot(b) = evals[a] /\ Index[x] <= Index[pc[b]] /\ Index[pc[b]] <= Index[y]
    BY <1>2, <1>4, IndexType, SitesArePlaces DEF Before
  <1>6. pc[b] \notin Ending
    <2>1. pc[b] \in Ending => Index[pc[b]] >= 15
      BY Indices DEF Ending
    <2>2. Index[y] \in Nat /\ Index[pc[b]] \in Nat
      BY <1>2, IndexType, SitesArePlaces
    <2>3. QED
      BY <1>5, <2>1, <2>2
  <1>7. QED
    BY <1>5, <1>6, SlotOfCall DEF Call

-----------------------------------------------------------------------------
(* Profiles.                                                                *)

LEMMA WritersOfStages ==
    /\ 0 \in Rank /\ 0 \in Stage
    /\ \A s \in Stage : \E r \in Rank : LogsProfile(r) /\ StageOfRank(r) = s
    /\ \A a, b \in Rank : LogsProfile(a) /\ LogsProfile(b) /\ StageOfRank(a) = StageOfRank(b) => a = b
    /\ \A r \in Rank : StageOfRank(r) \in Stage
  <1> DEFINE R == NumReplicas  S == NumStages
  <1>1. R \in Nat \ {0} /\ S \in Nat \ {0}
    BY WorldAssumption
  <1> HIDE DEF R, S
  <1>2. S * R \in Nat \ {0}
    BY <1>1
  <1>3. ASSUME NEW s \in 0 .. S - 1 PROVE s * R \in 0 .. S * R - 1 /\ (s * R) % R = 0 /\ (s * R) \div R = s
    <2>1. s * R >= 0 /\ s * R \in Int /\ (S - s) * R >= R /\ (S - s) * R = S * R - s * R
      BY <1>1
    <2>2. QED
      BY <1>1, <2>1
  <1>4. ASSUME NEW r \in 0 .. S * R - 1
        PROVE  r \div R \in 0 .. S - 1 /\ r = (r \div R) * R + (r % R)
    BY <1>1, <1>2
  <1>5. Rank = 0 .. S * R - 1 /\ Stage = 0 .. S - 1
    BY DEF Rank, Stage, S, R
  <1>6. \A r : LogsProfile(r) = (r % R = 0) /\ StageOfRank(r) = r \div R
    BY DEF LogsProfile, StageOfRank, R
  <1>7. 0 \in Rank /\ 0 \in Stage
    BY <1>1, <1>2, <1>5
  <1>8. ASSUME NEW s \in Stage PROVE \E r \in Rank : LogsProfile(r) /\ StageOfRank(r) = s
    <2>1. s * R \in Rank /\ LogsProfile(s * R) /\ StageOfRank(s * R) = s
      BY <1>3, <1>5, <1>6
    <2>2. QED
      BY <2>1
  <1>9. ASSUME NEW a \in Rank, NEW b \in Rank, LogsProfile(a), LogsProfile(b), StageOfRank(a) = StageOfRank(b)
        PROVE  a = b
    <2>1. a = (a \div R) * R + 0 /\ b = (b \div R) * R + 0 /\ a \div R = b \div R
      BY <1>4, <1>5, <1>6, <1>9
    <2>2. QED
      BY <2>1
  <1>10. \A r \in Rank : StageOfRank(r) \in Stage
    BY <1>4, <1>5, <1>6
  <1>11. QED
    BY <1>7, <1>8, <1>9, <1>10

LEMMA ProfiledTogether ==
    ASSUME PlacesInv, pc[0] = "conclude"
    PROVE  \A b \in Rank : pc[b] \in {"profiled", "conclude", "concluded"} /\ Call(b) = Call(0)
  <1>1. 0 \in Rank /\ AtPlace(0) /\ Form
    BY WritersOfStages DEF PlacesInv
  <1>2. cur_iter[0] = args.profile_iter /\ Calls(cur_iter[0], evals[0]) /\ cur_iter[0] \in Nat /\ evals[0] \in Nat
    BY <1>1 DEF AtPlace, Profiling, Ending, Form
  <1>3. /\ <<cur_iter[0], evals[0], "profiled">> \in Barriers
        /\ <<cur_iter[0], evals[0], "concluded">> \in Barriers
    BY <1>2 DEF Barriers, IsBarrier, Sites
  <1>4. ASSUME NEW b \in Rank PROVE pc[b] \in {"profiled", "conclude", "concluded"} /\ Call(b) = Call(0)
    <2>1. "profiled" \in Sites /\ "concluded" \in Sites /\ pc[0] \notin Ending
      BY DEF Sites, Ending
    <2>2. Call(b) = Call(0) /\ 10 <= Index[pc[b]] /\ Index[pc[b]] <= 12
      BY <1>1, <1>3, <2>1, InCall, Indices
    <2>3. pc[b] \in Place
      BY <1>1 DEF Form
    <2>4. QED
      BY <2>2, <2>3, PlaceNames, Indices
  <1>5. QED
    BY <1>4

LEMMA ProfileKept ==
    ASSUME PlacesInv, ProfileInv, NEW r \in Rank, Step(r), UNCHANGED <<profiles, total>>,
           \A q \in Rank : OneCall(profile_result'[q]),
           pc'[r] \notin {"profiled", "conclude", "concluded"}
               \/ (pc[r] \in {"profiled", "conclude", "concluded"} /\ Call(r)' = Call(r))
    PROVE  ProfileInv'
  <1>1. Untouched(r)
    BY StepKeepsPlaces
  <1>2. ASSUME NEW q \in Rank, LogsProfile(q), pc'[q] \in {"profiled", "conclude", "concluded"}
        PROVE  profiles'[StageOfRank(q)] = Call(q)'
    BY <1>1, <1>2 DEF ProfileInv, LogInv, Untouched, Call
  <1>3. LogInv'
    BY <1>2 DEF ProfileInv, LogInv, LogsProfile, StageOfRank
  <1>4. QED
    BY <1>3 DEF ProfileInv, OneCall

LEMMA StepKeepsProfiles ==
    ASSUME PlacesInv, ProfileInv, NEW r \in Rank, Step(r)
    PROVE  ProfileInv'
  <1>1. PlacesInv' /\ Form /\ Untouched(r)
    BY StepKeepsPlaces DEF PlacesInv
  <1>2. CASE WriteProfile(r)
    <2>1. /\ pc[r] = "profile" /\ pc'[r] = "profiled" /\ cur_iter' = cur_iter /\ evals' = evals
          /\ profile_result' = profile_result /\ total' = total
          /\ profiles' = IF LogsProfile(r) THEN [profiles EXCEPT ![StageOfRank(r)] = Call(r)] ELSE profiles
      BY <1>1, <1>2 DEF WriteProfile, ProfileSite, GoTo, Form, local
    <2>2. \A q \in Rank : Call(q)' = Call(q)
      BY <2>1 DEF Call
    <2>3. ASSUME NEW q \in Rank, LogsProfile(q), pc'[q] \in {"profiled", "conclude", "concluded"}
          PROVE  profiles'[StageOfRank(q)] = Call(q)'
      <3>1. CASE q = r
        BY <2>1, <2>2, <2>3, <3>1, WritersOfStages DEF ProfileInv, LogInv
      <3>2. CASE q # r
        <4>1. LogsProfile(r) => StageOfRank(q) # StageOfRank(r)
          BY <2>3, <3>2, WritersOfStages
        <4>2. pc[q] = pc'[q]
          BY <1>1, <3>2 DEF Untouched
        <4>3. QED
          BY <2>1, <2>2, <2>3, <4>1, <4>2, WritersOfStages DEF ProfileInv, LogInv
      <3>3. QED
        BY <3>1, <3>2
    <2>4. LogInv'
      BY <2>1, <2>3 DEF ProfileInv, LogInv, LogsProfile, StageOfRank
    <2>5. QED
      BY <2>1, <2>4 DEF ProfileInv, OneCall
  <1>3. CASE Conclude(r)
    <2>1. /\ pc[r] = "conclude" /\ pc'[r] = "concluded" /\ cur_iter' = cur_iter /\ evals' = evals
          /\ profile_result' = profile_result /\ profiles' = profiles
          /\ total' = IF r = 0 THEN profiles ELSE total
      BY <1>1, <1>3 DEF Conclude, GoTo, Form, local
    <2>2. \A q \in Rank : Call(q)' = Call(q)
      BY <2>1 DEF Call
    <2>3. LogInv'
      <3>1. ASSUME NEW q \in Rank, LogsProfile(q), pc'[q] \in {"profiled", "conclude", "concluded"}
            PROVE  profiles'[StageOfRank(q)] = Call(q)'
        <4>1. pc[q] \in {"profiled", "conclude", "concluded"}
          BY <1>1, <2>1, <3>1 DEF Untouched
        <4>2. QED
          BY <2>1, <2>2, <3>1, <4>1 DEF ProfileInv, LogInv
      <3>2. QED
        BY <2>1, <3>1 DEF ProfileInv, LogInv, LogsProfile, StageOfRank
    <2>4. OneCall(total')
      <3>1. CASE r = 0
        <4>1. \A s \in Stage : profiles[s] = Call(0)
          <5>1. ASSUME NEW s \in Stage PROVE profiles[s] = Call(0)
            <6>1. PICK q \in Rank : LogsProfile(q) /\ StageOfRank(q) = s
              BY WritersOfStages
            <6>2. pc[q] \in {"profiled", "conclude", "concluded"} /\ Call(q) = Call(0)
              BY <2>1, <3>1, ProfiledTogether
            <6>3. QED
              BY <6>1, <6>2 DEF ProfileInv, LogInv
          <5>2. QED
            BY <5>1
        <4>2. Call(0) \in Nat \X Nat
          BY <1>1, <3>1 DEF Form, Call
        <4>3. QED
          BY <2>1, <3>1, <4>1, <4>2 DEF OneCall
      <3>2. CASE r # 0
        BY <2>1, <3>2 DEF ProfileInv
      <3>3. QED
        BY <3>1, <3>2
    <2>5. QED
      BY <2>1, <2>3, <2>4 DEF ProfileInv, OneCall
  <1>4. CASE ReadTotal(r)
    <2>1. /\ pc'[r] = "end" /\ UNCHANGED <<profiles, total>>
          /\ profile_result' = [profile_result EXCEPT ![r] = total]
      BY <1>1, <1>4 DEF ReadTotal, GoTo, Form, disk
    <2>2. \A q \in Rank : OneCall(profile_result'[q])
      BY <1>1, <2>1 DEF ProfileInv, Form
    <2>3. QED
      BY <2>1, <2>2, ProfileKept
  <1>5. CASE Leave(r)
    <2>1. UNCHANGED <<profiles, total, profile_result, cur_iter, evals>>
          /\ pc'[r] = After[pc[r]] /\ pc[r] \in Sites
      BY <1>1, <1>5 DEF Leave, GoTo, Form, disk, local
    <2>2. Call(r)' = Call(r)
      BY <2>1 DEF Call
    <2>3. pc'[r] \in {"profiled", "conclude", "concluded"} => pc[r] = "profiled"
      BY <2>1, AfterSites DEF Sites
    <2>4. QED
      BY <2>1, <2>2, <2>3, ProfileKept DEF ProfileInv
  <1>6. CASE \/ StayWithSchedule(r) \/ FailTooEarly(r) \/ UpdateLocally(r) \/ UpdateBySolver(r)
             \/ Reuse(r) \/ OpenFile(r) \/ FindNoSolution(r) \/ WriteFile(r) \/ LoadFile(r)
             \/ Replan(r) \/ Run(r) \/ EndCall(r) \/ NextIteration(r)
    <2>1. UNCHANGED <<profiles, total, profile_result>>
      BY <1>6 DEF StayWithSchedule, FailTooEarly, UpdateLocally, UpdateBySolver, MayUpdate, Reuse, OpenFile,
           FindNoSolution, WriteFile, LoadFile, Replan, Run, EndCall, NextIteration, local, disk
    <2>2. pc'[r] \notin {"profiled", "conclude", "concluded"}
      BY <1>1, <1>6 DEF StayWithSchedule, FailTooEarly, UpdateLocally, UpdateBySolver, MayUpdate, Reuse, OpenFile,
           FindNoSolution, WriteFile, LoadFile, Replan, Run, EndCall, NextIteration, GoTo, Form, DeleteSite
    <2>3. QED
      BY <2>1, <2>2, ProfileKept DEF ProfileInv
  <1>7. QED
    BY <1>2, <1>3, <1>4, <1>5, <1>6 DEF Step

\* The profile a rank goes by is whole and of one call, however the ranks and
\* the evaluations that write it again interleave.
THEOREM ProfilesAreWhole == Spec => []ProfileReadWhole
  <1>1. Init => PlacesInv /\ ProfileInv
    <2>1. Init => ProfileInv
      BY DEF Init, ProfileInv, LogInv, OneCall
    <2>2. QED
      BY <2>1, InitPlaces
  <1>2. PlacesInv /\ ProfileInv /\ [Next]_vars => (PlacesInv /\ ProfileInv)'
    <2>1. PlacesInv /\ ProfileInv /\ UNCHANGED vars => ProfileInv'
      BY DEF ProfileInv, LogInv, OneCall, LogsProfile, StageOfRank, Call, vars, local, disk
    <2>2. QED
      BY <2>1, StepKeepsPlaces, StepKeepsProfiles, StutterKeepsPlaces DEF Next, Aborted, Terminated
  <1>3. ProfileInv => ProfileReadWhole
    <2> SUFFICES ASSUME ProfileInv, NEW r \in Rank, profile_result[r] # None, NEW s \in Stage
                 PROVE  profile_result[r][s] # None /\ profile_result[r][s] = profile_result[r][0]
      BY DEF ProfileReadWhole
    <2>1. PICK c \in Nat \X Nat : \A t \in Stage : profile_result[r][t] = c
      BY DEF ProfileInv, OneCall
    <2>2. c # None
      BY DEF None
    <2>3. QED
      BY <2>1, <2>2, WritersOfStages
  <1>4. QED
    BY <1>1, <1>2, <1>3, PTL DEF Spec

-----------------------------------------------------------------------------
(* Schedules: which steps touch the files, the schedules and the plans.     *)

LEMMA SamePassed ==
    ASSUME PlacesInv, NEW r \in Rank, Step(r), NEW p \in Barriers, p[3] # pc'[r]
    PROVE  \A q \in Rank : Before(Pos(q)', p) <=> Before(Pos(q), p)
  <1>1. Form /\ Form' /\ Moves(r)
    BY StepKeepsPlaces DEF PlacesInv
  <1>2. Pos(r)' \in Position /\ Pos(r) \in Position /\ p \in Nat \X Nat \X Sites
    BY <1>1, PositionType, PositionTypeNext, BarrierType
  <1>3. p # Pos(r)'
    BY DEF Pos
  <1>4. ASSUME NEW q \in Rank PROVE Before(Pos(q)', p) <=> Before(Pos(q), p)
    <2>1. CASE q = r
      <3>1. Before(p, Pos(r)') => ~Before(Pos(r), p)
        BY <1>1 DEF Moves
      <3>2. Before(Pos(r)', p) => Before(Pos(r), p)
        BY <1>1 DEF Moves
      <3>3. Before(Pos(r)', p) \/ Before(p, Pos(r)')
        BY <1>2, <1>3, BeforeOrAfter
      <3>4. QED
        BY <2>1, <3>1, <3>2, <3>3
    <2>2. CASE q # r
      BY <1>1, <2>2 DEF Moves
    <2>3. QED
      BY <2>1, <2>2
  <1>5. QED
    BY <1>4

\* Every step but those of the update leaves files, schedules and plans alone.
Quiet(r) ==
    /\ UNCHANGED <<file, solved, pp_schedule, plan>>
    /\ pc[r] \notin {"write", "unbound_name"}
    /\ \/ pc'[r] \notin New \cup {"deleted", "solve", "no_solution", "partial_read", "write"}
       \/ /\ UNCHANGED <<cur_iter, evals>>
          /\ <<pc[r], pc'[r]>> \in {<<"deleted", "solve">>, <<"generated", "replan">>}
       \/ pc'[r] = "no_solution" /\ pc[r] = "solve" /\ UNCHANGED <<cur_iter, evals>>

LEMMA Effects ==
    ASSUME Form, NEW r \in Rank, Step(r)
    PROVE  \/ UpdateLocally(r) \/ UpdateBySolver(r) \/ Reuse(r) \/ OpenFile(r) \/ WriteFile(r)
           \/ LoadFile(r) \/ Replan(r) \/ Quiet(r)
  <1> SUFFICES ASSUME ~(UpdateLocally(r) \/ UpdateBySolver(r) \/ Reuse(r) \/ OpenFile(r) \/ WriteFile(r)
                        \/ LoadFile(r) \/ Replan(r))
               PROVE  Quiet(r)
    OBVIOUS
  <1>1. CASE Leave(r)
    <2>1. pc'[r] = After[pc[r]] /\ pc[r] \in Sites
      BY <1>1 DEF Leave, GoTo, Form
    <2>2. <<pc[r], pc'[r]>> \in {<<"deleted", "solve">>, <<"generated", "replan">>}
          \/ pc'[r] \notin New \cup {"deleted", "solve", "no_solution", "partial_read", "write"}
      BY <2>1, AfterSites DEF Sites, New
    <2>3. pc[r] \notin {"write", "unbound_name"}
      BY <2>1 DEF Sites
    <2>4. QED
      BY <1>1, <2>2, <2>3 DEF Leave, Quiet, local, disk
  <1>2. CASE FindNoSolution(r)
    BY <1>2 DEF FindNoSolution, GoTo, Form, Quiet, local, disk
  <1>3. CASE StayWithSchedule(r) \/ FailTooEarly(r) \/ Run(r) \/ WriteProfile(r) \/ Conclude(r)
    BY <1>3 DEF StayWithSchedule, FailTooEarly, Run, WriteProfile, Conclude, ProfileSite, GoTo, Form, Quiet,
                New, local, disk
  <1>4. CASE ReadTotal(r) \/ EndCall(r) \/ NextIteration(r)
    <2>1. UNCHANGED <<file, solved, pp_schedule, plan>> /\ pc[r] \notin {"write", "unbound_name"}
      BY <1>4 DEF ReadTotal, EndCall, NextIteration, local, disk
    <2>2. pc'[r] \in {"end", "next", "evaluate", "call", "interval", "exit", "done"}
      BY <1>4 DEF ReadTotal, EndCall, NextIteration, GoTo, Form
    <2>3. QED
      BY <2>1, <2>2 DEF Quiet, New
  <1>5. QED
    BY <1>1, <1>2, <1>3, <1>4 DEF Step

\* An update iteration is the first of a part: it is for that part's delay.
LEMMA DelayOfPart ==
    ASSUME args \in Configs, Experiment, NEW k \in 0 .. Len(args.delays) - 1
    PROVE  Injected(TestStart + k * args.test_iters) = args.delays[k + 1]
  <1> DEFINE t == args.test_iters  n == Len(args.delays)  u == TestStart
  <1>1. args \in ConfigType /\ u \in Int
    BY TestStartType
  <1>2. t \in Nat \ {0} /\ n \in Nat /\ k \in Nat /\ k <= n - 1
    BY <1>1 DEF ConfigType
  <1> DEFINE j == u + k * t
  <1>0. Injected(j) = args.delays[Min({(j - u) \div t, n - 1}) + 1]
    <2> HIDE DEF j
    <2>1. QED
      BY DEF Injected
  <1> HIDE DEF t, n, u
  <1>3. k * t \in Nat /\ (k * t) % t = 0 /\ (k * t) \div t = k
    BY <1>2
  <1>4. j - u = k * t
    BY <1>1, <1>3
  <1>5. Min({k, n - 1}) = k
    <2> DEFINE S == {k, n - 1}
    <2>1. \A x \in S : k <= x
      BY <1>2
    <2>2. k \in S /\ \A x \in S : (\A y \in S : x <= y) => x = k
      BY <1>2
    <2> HIDE DEF S
    <2>3. Min(S) = k
      BY <2>1, <2>2 DEF Min
    <2>4. QED
      BY <2>3 DEF S
  <1>6. QED
    BY <1>0, <1>3, <1>4, <1>5 DEF u, t

\* The name of a file and the delay of an iteration are known.
LEMMA Names ==
    ASSUME PlacesInv, NEW r \in Rank
    PROVE  /\ args.delays \in Seq(Delay)
           /\ pc[r] \in Updating => Injected(cur_iter[r]) \in FileNames \ {"dynamic_mb"}
           /\ pc[r] \in Updating => FileName(r) \in FileNames
           /\ args.schedule = "ud" /\ pc[r] \in Updating => FileName(r) \in FileNames \ {"dynamic_mb"}
  <1>1. args \in ConfigType /\ TestStart \in Int /\ \A i \in UpdateIters : i \in Int /\ i >= TestStart
    BY TestStartType DEF PlacesInv, Form
  <1>2. ASSUME pc[r] \in Updating PROVE Injected(cur_iter[r]) \in FileNames \ {"dynamic_mb"}
    <2>1. CASE ~Experiment
      BY <2>1 DEF Injected, FileNames, Experiment
    <2>2. CASE Experiment
      <3>1. cur_iter[r] \in UpdateIters /\ cur_iter[r] \in Nat
        BY <1>2, <2>2 DEF PlacesInv, AtPlace, Updates, Form
      <3>2. PICK k \in 0 .. Len(args.delays) - 1 : cur_iter[r] = TestStart + k * args.test_iters
        BY <3>1 DEF UpdateIters
      <3>3. Injected(cur_iter[r]) = args.delays[k + 1]
        BY <2>2, <3>2, DelayOfPart DEF PlacesInv, Form
      <3>4. k + 1 \in DOMAIN args.delays /\ args.delays[k + 1] \in Delay
        BY <1>1, <3>2 DEF ConfigType
      <3>5. QED
        BY <3>3, <3>4 DEF FileNames, Delay
    <2>3. QED
      BY <2>1, <2>2
  <1>3. QED
    BY <1>1, <1>2 DEF FileName, FileNames, ConfigType

\* A rank that has still to take the new schedule finds those that have it at
\* the barrier after the update of the same call, before they replan.
LEMMA TakenBefore ==
    ASSUME PlacesInv, BySolver, NEW r \in Rank, NEW b \in Rank, pc[r] \in {"solve", "write"},
           pc[b] \in New, Call(b) = Call(r)
    PROVE  pc[b] = "generated" /\ FileName(b) = FileName(r)
  <1> DEFINE p == <<cur_iter[r], evals[r], "generated">>
  <1>1. Form /\ AtPlace(r) /\ AtPlace(b) /\ InStep
    BY DEF PlacesInv
  <1>2. Updates(cur_iter[r], evals[r]) /\ cur_iter[r] \in Nat /\ evals[r] \in Nat
    BY <1>1 DEF AtPlace, Updating, Form
  <1>3. p \in Barriers
    BY <1>2 DEF Barriers, IsBarrier, Sites, BySolver
  <1>4. cur_iter[b] = cur_iter[r] /\ evals[b] = evals[r]
    BY DEF Call
  <1>5. Pos(r) = <<cur_iter[r], evals[r], pc[r]>> /\ Pos(b) = <<cur_iter[r], evals[r], pc[b]>>
    BY <1>4, SlotOfCall DEF New, Ending
  <1>6. Before(Pos(r), p)
    BY <1>5, Indices DEF Before
  <1>7. ~Before(p, Pos(b))
    BY <1>1, <1>3, <1>6 DEF InStep
  <1>8. ~(Index["generated"] < Index[pc[b]])
    BY <1>2, <1>5, <1>7 DEF Before
  <1>9. pc[b] = "generated"
    BY <1>8, Indices DEF New
  <1>10. QED
    BY <1>4, <1>9 DEF FileName

\* While rank 0 is about to delete the schedule of dynamic_mb, none that took
\* it is still at the barrier after.
LEMMA NoneTakesAtDeletion ==
    ASSUME PlacesInv, args.schedule = "dynamic_mb", NEW r \in Rank, NEW b \in Rank,
           pc[r] = "call", Updates(cur_iter[r], evals[r])
    PROVE  pc[b] # "generated"
  <1> SUFFICES ASSUME pc[b] = "generated" PROVE FALSE
    OBVIOUS
  <1> DEFINE i == cur_iter[r]  s == evals[r]  j == cur_iter[b]  t == evals[b]
  <1>1. Form /\ AtPlace(b) /\ InStep
    BY DEF PlacesInv
  <1>2. Updates(j, t) /\ i \in Nat /\ s \in Nat /\ j \in Nat /\ t \in Nat
    BY <1>1 DEF AtPlace, Updating, Form
  <1>3. Pos(r) = <<i, s, "call">> /\ Pos(b) = <<j, t, "generated">>
    BY SlotOfCall DEF Ending
  <1>4. <<i, s, "deleted">> \in Barriers /\ <<j, t, "deleted">> \in Barriers /\ <<j, t, "updated">> \in Barriers
    BY <1>2 DEF Barriers, IsBarrier, Sites
  <1>5. Before(<<j, t, "deleted">>, Pos(b))
    BY <1>2, <1>3, Indices DEF Before
  <1>6. ~Before(Pos(r), <<j, t, "deleted">>)
    BY <1>1, <1>4, <1>5 DEF InStep
  <1>7. j < i \/ (j = i /\ t < s)
    BY <1>2, <1>3, <1>6, Indices DEF Before
  <1>8. Before(<<j, t, "updated">>, Pos(r))
    BY <1>2, <1>3, <1>7 DEF Before
  <1>9. ~Before(Pos(b), <<j, t, "updated">>)
    BY <1>1, <1>4, <1>8 DEF InStep
  <1>10. QED
    BY <1>2, <1>3, <1>9, Indices DEF Before

\* A schedule of dynamic_mb that can be loaded is that of rank 0, which is at the
\* barrier after.
LEMMA LoadedFromZero ==
    ASSUME PlacesInv, FileInv, args.schedule = "dynamic_mb", NEW r \in Rank,
           pc[r] = "solve", InFile(r).state = "whole"
    PROVE  /\ pc[0] = "generated" /\ Call(0) = Call(r) /\ cur_iter[0] = cur_iter[r]
           /\ InFile(r).schedule = pp_schedule[0]
  <1>1. Form /\ AtPlace(r) /\ 0 \in Rank
    BY WritersOfStages DEF PlacesInv
  <1>2. Updates(cur_iter[r], evals[r]) /\ cur_iter[r] \in Nat /\ evals[r] \in Nat
    BY <1>1 DEF AtPlace, Updating, Form
  <1>3. <<cur_iter[r], evals[r], "deleted">> \in Barriers /\ <<cur_iter[r], evals[r], "generated">> \in Barriers
    BY <1>2 DEF Barriers, IsBarrier, Sites
  <1>4. "deleted" \in Sites /\ "generated" \in Sites /\ pc[r] \notin Ending
    BY DEF Sites, Ending
  <1>5. Call(0) = Call(r) /\ cur_iter[0] = cur_iter[r] /\ 2 <= Index[pc[0]] /\ Index[pc[0]] <= 5
    BY <1>1, <1>3, <1>4, InCall, Indices
  <1>6. pc[0] \in Place
    BY <1>1 DEF Form
  <1>7. pc[0] \in {"deleted", "solve", "no_solution", "partial_read", "write", "generated"}
    BY <1>5, <1>6, PlaceNames, Indices
  <1>8. InFile(0) = InFile(r)
    BY DEF InFile, FileName
  <1>9. pc[0] = "generated"
    BY <1>7, <1>8 DEF FileInv, Absent
  <1>10. QED
    BY <1>1, <1>5, <1>8, <1>9 DEF FileInv, BySolver

LEMMA StepKeepsFiles ==
    ASSUME PlacesInv, FileInv, NEW r \in Rank, Step(r)
    PROVE  FileInv'
  <1>1. Form /\ AtPlace(r) /\ Untouched(r) /\ args' = args /\ pc'[r] \in Place /\ 0 \in Rank
    BY StepKeepsPlaces, WritersOfStages DEF PlacesInv, Form
  <1>2. FileNames' = FileNames /\ BySolver' = BySolver
    BY <1>1 DEF FileNames, BySolver
  <1>3. \A q \in Rank : cur_iter'[q] = cur_iter[q] => FileName(q)' = FileName(q)
    BY <1>1, SameBarriers DEF FileName
  <1>4. \A q \in Rank \ {r} : /\ FileName(q)' = FileName(q) /\ pc'[q] = pc[q]
                              /\ pp_schedule'[q] = pp_schedule[q]
    BY <1>1, <1>3 DEF Untouched
  <1>5. CASE Quiet(r)
    <2>1. file' = file /\ pp_schedule' = pp_schedule
      BY <1>5 DEF Quiet
    <2>2. pc'[r] \notin {"generated", "write", "partial_read"}
      BY <1>5 DEF Quiet, New
    <2>3. pc'[r] \in {"deleted", "solve", "no_solution"} =>
             /\ FileName(r)' = FileName(r) /\ pc[r] \in {"deleted", "solve"}
      BY <1>3, <1>5 DEF Quiet, New
    <2>4. pc[r] # "write"
      BY <1>5 DEF Quiet
    <2>5. QED
      BY <1>1, <1>2, <1>4, <2>1, <2>2, <2>3, <2>4 DEF FileInv, InFile
  <1>6. CASE UpdateLocally(r)
    <2>1. file' = file /\ pc'[r] \in {"replan", "generated"} /\ pc[r] = "call" /\ ~BySolver
      BY <1>1, <1>6 DEF UpdateLocally, MayUpdate, GoTo, Form, BySolver
    <2>2. QED
      BY <1>1, <1>2, <1>4, <2>1 DEF FileInv, InFile, BySolver
  <1>7. CASE UpdateBySolver(r)
    <2>1. pc[r] = "call" /\ cur_iter' = cur_iter /\ pp_schedule' = pp_schedule /\ Updates(cur_iter[r], evals[r])
      BY <1>1, <1>7, NeedsUpdateWhenDue DEF UpdateBySolver, MayUpdate
    <2>2. \A q \in Rank : FileName(q)' = FileName(q)
      BY <1>3, <2>1
    <2>3. CASE args.schedule = "ud"
      <3>1. file' = file /\ pc'[r] = "solve"
        BY <1>1, <1>7, <2>3 DEF UpdateBySolver, GoTo, Form
      <3>2. QED
        BY <1>1, <1>2, <1>4, <2>1, <2>2, <2>3, <3>1 DEF FileInv, InFile
    <2>4. CASE args.schedule = "dynamic_mb"
      <3>1. pc'[r] = "deleted" /\ file' = Deleted(r)
        BY <1>1, <1>7, <2>4 DEF UpdateBySolver, GoTo, Form, DeleteSite
      <3>2. \A q \in Rank : pc[q] # "generated"
        BY <2>1, <2>4, NoneTakesAtDeletion
      <3>3. \A q \in Rank : FileName(q) = "dynamic_mb"
        BY <2>4 DEF FileName
      <3>4. "dynamic_mb" \in FileNames /\ DOMAIN file = FileNames
        BY DEF FileNames, FileInv
      <3>5. CASE r = 0
        BY <1>1, <1>2, <1>4, <2>1, <2>2, <2>4, <3>1, <3>2, <3>3, <3>4, <3>5 DEF FileInv, InFile, Deleted
      <3>6. CASE r # 0
        BY <1>1, <1>2, <1>4, <2>1, <2>2, <2>4, <3>1, <3>2, <3>3, <3>4, <3>6 DEF FileInv, InFile, Deleted
      <3>7. QED
        BY <3>5, <3>6
    <2>5. QED
      BY <1>7, <2>3, <2>4 DEF UpdateBySolver
  <1>8. CASE Reuse(r)
    <2>1. /\ r = 0 /\ pc[r] = "solve" /\ pc'[r] = "generated" /\ file' = file /\ cur_iter' = cur_iter
          /\ InFile(r) # Absent /\ pp_schedule'[r] = InFile(r).schedule
      BY <1>1, <1>8 DEF Reuse, Takes, GoTo, Form, disk
    <2>2. FileName(r)' = FileName(r) /\ InFile(r).state = "whole"
      BY <1>1, <1>3, <2>1, Names DEF FileInv, InFile, Updating
    <2>3. QED
      BY <1>2, <1>4, <2>1, <2>2 DEF FileInv, InFile
  <1>9. CASE OpenFile(r)
    <2>1. /\ r = 0 /\ pc[r] = "solve" /\ pc'[r] = "write" /\ cur_iter' = cur_iter
          /\ file' = [file EXCEPT ![FileName(r)] = [state |-> "open"]]
          /\ args.schedule = "dynamic_mb" \/ InFile(r) = Absent
      BY <1>1, <1>9 DEF OpenFile, GoTo, Form
    <2>2. FileName(r)' = FileName(r) /\ FileName(r) \in FileNames /\ BySolver
      BY <1>1, <1>3, <2>1, Names DEF AtPlace, Solving, Updating
    <2>3. InFile(r) = Absent
      BY <2>1 DEF FileInv
    <2>4. \A q \in Rank : pc[q] = "generated" => FileName(q) # FileName(r)
      BY <2>2, <2>3 DEF FileInv, InFile, Absent
    <2>5. QED
      BY <1>2, <1>4, <2>1, <2>2, <2>4 DEF FileInv, InFile
  <1>10. CASE WriteFile(r)
    <2>1. /\ r = 0 /\ pc[r] = "write" /\ pc'[r] = "generated" /\ cur_iter' = cur_iter
          /\ file' = [file EXCEPT ![FileName(r)] = [state |-> "whole", schedule |-> pp_schedule[r]]]
          /\ pp_schedule' = pp_schedule
      BY <1>1, <1>10 DEF WriteFile, GoTo, Form, AtPlace, local
    <2>2. FileName(r)' = FileName(r) /\ FileName(r) \in FileNames /\ BySolver
      BY <1>1, <1>3, <2>1, Names DEF AtPlace, Solving, Updating
    <2>3. \A q \in Rank : pc[q] = "generated" => FileName(q) # FileName(r)
      BY <2>1, <2>2 DEF FileInv, InFile
    <2>4. QED
      BY <1>2, <1>4, <2>1, <2>2, <2>3 DEF FileInv, InFile
  <1>11. CASE LoadFile(r)
    <2>1. r # 0 /\ pc[r] = "solve" /\ file' = file /\ cur_iter' = cur_iter
      BY <1>11 DEF LoadFile, disk
    <2>2. \/ pc'[r] = "partial_read"
          \/ pc'[r] = "generated" /\ InFile(r).state = "whole" /\ pp_schedule'[r] = InFile(r).schedule
      BY <1>1, <1>11 DEF LoadFile, Takes, GoTo, Form
    <2>3. FileName(r)' = FileName(r)
      BY <1>3, <2>1
    <2>4. QED
      BY <1>1, <1>2, <1>4, <2>1, <2>2, <2>3 DEF FileInv, InFile
  <1>12. CASE Replan(r)
    <2>1. /\ pc[r] = "replan" /\ pc'[r] \in {"updated", "unbound_name"} /\ file' = file
          /\ cur_iter' = cur_iter /\ pp_schedule' = pp_schedule
      BY <1>1, <1>12 DEF Replan, GoTo, Form, disk
    <2>2. QED
      BY <1>1, <1>2, <1>4, <2>1 DEF FileInv, InFile
  <1>13. QED
    BY <1>1, <1>5, <1>6, <1>7, <1>8, <1>9, <1>10, <1>11, <1>12, Effects

\* A step that gives its rank no new schedule.
LEMMA NewKept ==
    ASSUME PlacesInv, NewInv, NEW r \in Rank, Step(r), pp_schedule' = pp_schedule,
           args.schedule = "ud" => file' = file,
           \/ pc'[r] \notin New \cup {"write"}
           \/ pc'[r] \in New /\ pc[r] \in New /\ cur_iter'[r] = cur_iter[r] /\ evals'[r] = evals[r]
    PROVE  NewInv'
  <1>1. Untouched(r) /\ args' = args
    BY StepKeepsPlaces
  <1>2. ASSUME NEW q \in Rank, pc'[q] \in New \cup {"write"}
        PROVE  /\ pc[q] \in New <=> pc'[q] \in New
               /\ pc[q] \in New \cup {"write"} /\ Call(q)' = Call(q) /\ cur_iter'[q] = cur_iter[q]
    BY <1>1, <1>2 DEF Untouched, Call
  <1>3. FileNames' = FileNames /\ BySolver' = BySolver
    BY <1>1 DEF FileNames, BySolver
  <1>4. \A i : Injected(i)' = Injected(i)
    BY <1>1, SameBarriers
  <1>5. ASSUME NEW a \in Rank, NEW b \in Rank, pc'[a] \in New, pc'[b] \in New, Call(a)' = Call(b)'
        PROVE  pp_schedule'[a] = pp_schedule'[b]
    BY <1>2, <1>5 DEF NewInv
  <1>6. ASSUME NEW q \in Rank, pc'[q] \in New \cup {"write"}
        PROVE  (pp_schedule[q].for = Injected(cur_iter[q]))'
    <2>1. Injected(cur_iter[q])' = Injected(cur_iter[q])
      BY <1>1, <1>2, <1>6 DEF Injected, Experiment, TestStart
    <2>2. QED
      BY <1>2, <1>6, <2>1 DEF NewInv
  <1>7. ASSUME NEW q \in Rank, ~BySolver, pc'[q] \in New
        PROVE  (pp_schedule[q] = ScheduleFor(Injected(cur_iter[q]), 0))'
    <2>1. Injected(cur_iter[q])' = Injected(cur_iter[q])
      BY <1>1, <1>2, <1>7 DEF Injected, Experiment, TestStart
    <2>2. QED
      BY <1>2, <1>7, <2>1 DEF NewInv, ScheduleFor
  <1>8. QED
    BY <1>1, <1>3, <1>5, <1>6, <1>7 DEF NewInv

\* A step that gives its rank the schedule that the ranks with it in its call have.
LEMMA NewTaken ==
    ASSUME PlacesInv, NewInv, NEW r \in Rank, Step(r), NEW v,
           pp_schedule'[r] = v,
           args.schedule = "ud" => \A n \in FileNames \ {"dynamic_mb"} :
                                       file'[n].state = "whole" => file'[n].schedule.for = n,
           pc'[r] \in New \cup {"write"}, cur_iter'[r] = cur_iter[r], evals'[r] = evals[r],
           v.for = Injected(cur_iter[r]),
           ~BySolver => v = ScheduleFor(Injected(cur_iter[r]), 0),
           pc'[r] \in New => \A b \in Rank : pc[b] \in New /\ Call(b) = Call(r) => pp_schedule[b] = v
    PROVE  NewInv'
  <1>1. Untouched(r) /\ args' = args
    BY StepKeepsPlaces
  <1>2. ASSUME NEW q \in Rank \ {r}
        PROVE  pc'[q] = pc[q] /\ Call(q)' = Call(q) /\ cur_iter'[q] = cur_iter[q]
               /\ pp_schedule'[q] = pp_schedule[q]
    BY <1>1, <1>2 DEF Untouched, Call
  <1>3. Call(r)' = Call(r) /\ pp_schedule'[r] = v
    BY DEF Call, PlacesInv, Form
  <1>4. FileNames' = FileNames /\ BySolver' = BySolver
    BY <1>1 DEF FileNames, BySolver
  <1>5. ASSUME NEW a \in Rank, NEW b \in Rank, pc'[a] \in New, pc'[b] \in New, Call(a)' = Call(b)'
        PROVE  pp_schedule'[a] = pp_schedule'[b]
    <2>1. CASE a # r /\ b # r
      BY <1>2, <1>5, <2>1 DEF NewInv
    <2>2. CASE a = r /\ b # r
      BY <1>2, <1>3, <1>5, <2>2
    <2>3. CASE a # r /\ b = r
      BY <1>2, <1>3, <1>5, <2>3
    <2>4. QED
      BY <2>1, <2>2, <2>3
  <1>6. ASSUME NEW q \in Rank PROVE Injected(cur_iter[q])' = Injected(cur_iter[q])
    <2>1. cur_iter'[q] = cur_iter[q]
      BY <1>2
    <2>2. QED
      BY <1>1, <2>1 DEF Injected, Experiment, TestStart
  <1>7. ASSUME NEW q \in Rank, pc'[q] \in New \cup {"write"}
        PROVE  (pp_schedule[q].for = Injected(cur_iter[q]))'
    BY <1>2, <1>3, <1>6, <1>7 DEF NewInv
  <1>8. ASSUME NEW q \in Rank, ~BySolver, pc'[q] \in New
        PROVE  (pp_schedule[q] = ScheduleFor(Injected(cur_iter[q]), 0))'
    BY <1>2, <1>3, <1>6, <1>8 DEF NewInv, ScheduleFor
  <1>9. QED
    BY <1>1, <1>4, <1>5, <1>7, <1>8 DEF NewInv

LEMMA StepKeepsNew ==
    ASSUME PlacesInv, FileInv, NewInv, NEW r \in Rank, Step(r)
    PROVE  NewInv'
  <1>1. Form /\ AtPlace(r) /\ Untouched(r) /\ args' = args /\ 0 \in Rank
    BY StepKeepsPlaces, WritersOfStages DEF PlacesInv
  <1>2. CASE Quiet(r)
    BY <1>2, NewKept DEF Quiet, New
  <1>3. CASE UpdateLocally(r)
    <2> DEFINE v == ScheduleFor(Injected(cur_iter[r]), 0)
    <2>1. /\ pp_schedule'[r] = v /\ pc'[r] \in {"replan", "generated"}
          /\ cur_iter' = cur_iter /\ evals' = evals /\ ~BySolver /\ file' = file
      BY <1>1, <1>3 DEF UpdateLocally, MayUpdate, GoTo, Form, BySolver
    <2>2. v.for = Injected(cur_iter[r])
      BY DEF ScheduleFor
    <2>3. \A b \in Rank : pc[b] \in New /\ Call(b) = Call(r) => pp_schedule[b] = v
      BY <2>1 DEF NewInv, Call
    <2> HIDE DEF v
    <2>4. pc'[r] \in New
      BY <2>1 DEF New
    <2>5. v = ScheduleFor(Injected(cur_iter[r]), 0)
      BY DEF v
    <2>6. args.schedule # "ud"
      BY <2>1 DEF BySolver
    <2>7. QED
      BY <2>1, <2>2, <2>3, <2>4, <2>5, <2>6, NewTaken
  <1>4. CASE UpdateBySolver(r)
    <2>1. pp_schedule' = pp_schedule /\ (args.schedule = "ud" => file' = file) /\ pc'[r] \in {"solve", "deleted"}
      BY <1>1, <1>4 DEF UpdateBySolver, DeleteSite, GoTo, Form
    <2>2. QED
      BY <2>1, NewKept DEF New
  <1>5. CASE Reuse(r) \/ (LoadFile(r) /\ pc'[r] = "generated")
    <2> DEFINE v == InFile(r).schedule
    <2>1. /\ pp_schedule'[r] = v /\ pc'[r] = "generated" /\ pc[r] = "solve"
          /\ cur_iter' = cur_iter /\ evals' = evals /\ file' = file
      BY <1>1, <1>5 DEF Reuse, LoadFile, Takes, GoTo, Form, disk
    <2>2. BySolver /\ FileName(r) \in FileNames
      BY <1>1, <2>1, Names DEF AtPlace, Solving, Updating
    <2>3. InFile(r).state = "whole"
      BY <1>1, <1>5, <2>1, <2>2 DEF Reuse, LoadFile, FileInv, InFile, GoTo, Form
    <2>4. ASSUME NEW b \in Rank, pc[b] \in New, Call(b) = Call(r) PROVE pp_schedule[b] = v
      <3>1. pc[b] = "generated" /\ FileName(b) = FileName(r)
        BY <2>1, <2>2, <2>4, TakenBefore
      <3>2. QED
        BY <2>2, <3>1 DEF FileInv, InFile
    <2>5. v.for = Injected(cur_iter[r])
      <3>1. CASE args.schedule = "ud"
        <4>1. FileName(r) \in FileNames \ {"dynamic_mb"} /\ FileName(r) = Injected(cur_iter[r])
          BY <2>1, <3>1, Names DEF Updating, FileName
        <4>2. file[FileName(r)].state = "whole"
          BY <2>3 DEF InFile
        <4>3. QED
          BY <3>1, <4>1, <4>2 DEF NewInv, InFile
      <3>2. CASE args.schedule = "dynamic_mb"
        <4>1. pc[0] = "generated" /\ cur_iter[0] = cur_iter[r] /\ v = pp_schedule[0]
          BY <2>1, <2>3, <3>2, LoadedFromZero
        <4>2. QED
          BY <1>1, <4>1 DEF NewInv, New
      <3>3. QED
        BY <2>2, <3>1, <3>2 DEF BySolver
    <2> HIDE DEF v
    <2>6. pc'[r] \in New
      BY <2>1 DEF New
    <2>7. args.schedule = "ud" => \A n \in FileNames \ {"dynamic_mb"} :
                                     file'[n].state = "whole" => file'[n].schedule.for = n
      BY <2>1 DEF NewInv
    <2>8. QED
      BY <2>1, <2>2, <2>4, <2>5, <2>6, <2>7, NewTaken
  <1>6. CASE LoadFile(r) /\ pc'[r] # "generated"
    <2>1. pp_schedule' = pp_schedule /\ pc'[r] = "partial_read" /\ file' = file
      BY <1>1, <1>6 DEF LoadFile, GoTo, Form, disk
    <2>2. QED
      BY <2>1, NewKept DEF New
  <1>7. CASE OpenFile(r)
    <2> DEFINE v == ScheduleFor(Injected(cur_iter[r]), solved + 1)
    <2>1. /\ pp_schedule'[r] = v /\ pc'[r] = "write" /\ pc[r] = "solve"
          /\ cur_iter' = cur_iter /\ evals' = evals
          /\ file' = [file EXCEPT ![FileName(r)] = [state |-> "open"]]
      BY <1>1, <1>7 DEF OpenFile, Takes, GoTo, Form
    <2>2. BySolver /\ DOMAIN file = FileNames
      BY <1>1, <2>1 DEF AtPlace, Solving, FileInv
    <2>3. args.schedule = "ud" => \A n \in FileNames \ {"dynamic_mb"} :
                                     file'[n].state = "whole" => file'[n].schedule.for = n
      BY <2>1, <2>2 DEF NewInv
    <2>4. v.for = Injected(cur_iter[r])
      BY DEF ScheduleFor
    <2> HIDE DEF v
    <2>5. pc'[r] \in New \cup {"write"} /\ pc'[r] \notin New
      BY <2>1 DEF New
    <2>6. QED
      BY <2>1, <2>2, <2>3, <2>4, <2>5, NewTaken
  <1>8. CASE WriteFile(r)
    <2> DEFINE v == pp_schedule[r]
    <2>1. /\ r = 0 /\ pp_schedule'[r] = v /\ pc'[r] = "generated" /\ pc[r] = "write"
          /\ cur_iter' = cur_iter /\ evals' = evals
          /\ file' = [file EXCEPT ![FileName(r)] = [state |-> "whole", schedule |-> v]]
      BY <1>1, <1>8 DEF WriteFile, GoTo, Form, AtPlace, local
    <2>2. BySolver /\ DOMAIN file = FileNames
      BY <1>1, <2>1 DEF AtPlace, Solving, FileInv
    <2>3. v.for = Injected(cur_iter[r])
      BY <2>1 DEF NewInv
    <2>4. args.schedule = "ud" => \A n \in FileNames \ {"dynamic_mb"} :
                                     file'[n].state = "whole" => file'[n].schedule.for = n
      BY <2>1, <2>2, <2>3 DEF NewInv, FileName
    <2>5. ASSUME NEW b \in Rank, pc[b] \in New, Call(b) = Call(r) PROVE FALSE
      <3>1. pc[b] = "generated" /\ FileName(b) = FileName(r)
        BY <2>1, <2>2, <2>5, TakenBefore
      <3>2. QED
        BY <2>1, <2>2, <3>1 DEF FileInv, InFile
    <2> HIDE DEF v
    <2>6. pc'[r] \in New
      BY <2>1 DEF New
    <2>7. QED
      BY <2>1, <2>2, <2>3, <2>4, <2>5, <2>6, NewTaken
  <1>9. CASE Replan(r)
    <2>1. pp_schedule' = pp_schedule /\ file' = file /\ pc[r] = "replan" /\ pc'[r] \in {"updated", "unbound_name"}
          /\ cur_iter' = cur_iter /\ evals' = evals
      BY <1>1, <1>9 DEF Replan, GoTo, Form, disk
    <2>2. QED
      BY <2>1, NewKept DEF New
  <1>10. QED
    BY <1>1, <1>2, <1>3, <1>4, <1>5, <1>6, <1>7, <1>8, <1>9, Effects

LEMMA StepKeepsStale ==
    ASSUME PlacesInv, FileInv, StaleInv, NEW r \in Rank, Step(r)
    PROVE  StaleInv'
  <1>1. Form /\ AtPlace(r) /\ Untouched(r) /\ args' = args /\ 0 \in Rank /\ InStep
    BY StepKeepsPlaces, WritersOfStages DEF PlacesInv
  <1> SUFFICES ASSUME args.schedule = "dynamic_mb"
               PROVE  StaleInv'
    BY <1>1 DEF StaleInv
  <1> DEFINE Left(f) == f["dynamic_mb"].state = "whole" /\ f["dynamic_mb"].schedule.solution = -1
             Deletions == {p \in Barriers : p[3] = "deleted"}
  <1>2. /\ Left(file) => \A p \in Deletions : Before(Pos(0), p)
        /\ \A q \in Rank : pp_schedule[q].solution # -1
    BY DEF StaleInv
  <1>3. ASSUME /\ Left(file') => \A p \in Deletions : Before(Pos(0)', p)
               /\ \A q \in Rank : pp_schedule'[q].solution # -1
        PROVE  StaleInv'
    <2>1. Deletions' = Deletions
      BY <1>1, SameBarriers
    <2>2. \A p \in Deletions : Before(Pos(0), p)' <=> Before(Pos(0)', p)
      BY DEF Before
    <2>3. \A p \in Barriers' : p[3] = "deleted" => p \in Deletions
      BY <1>1, SameBarriers
    <2>4. QED
      BY <1>1, <1>3, <2>2, <2>3 DEF StaleInv
  <1>4. ASSUME r # 0 \/ pc'[r] # "deleted", Left(file)
        PROVE  \A p \in Deletions : Before(Pos(0)', p)
    <2>1. CASE r # 0
      <3>1. Pos(0)' = Pos(0)
        BY <1>1, <2>1, OthersAtPlace DEF PlacesInv
      <3>2. QED
        BY <1>2, <1>4, <3>1
    <2>2. CASE pc'[r] # "deleted"
      BY <1>1, <1>2, <1>4, <2>2, SamePassed
    <2>3. QED
      BY <1>4, <2>1, <2>2
  <1> HIDE DEF Deletions
  <1>5. CASE Quiet(r) \/ Replan(r)
    <2>1. file' = file /\ pp_schedule' = pp_schedule /\ pc'[r] # "deleted"
      BY <1>1, <1>5 DEF Quiet, New, Replan, GoTo, Form, disk
    <2>2. QED
      BY <1>2, <1>3, <1>4, <2>1
  <1>6. CASE UpdateLocally(r) \/ Reuse(r)
    BY <1>6 DEF UpdateLocally, Reuse
  <1>7. CASE UpdateBySolver(r)
    <2>1. pp_schedule' = pp_schedule /\ file' = Deleted(r) /\ FileName(r) = "dynamic_mb"
      BY <1>7 DEF UpdateBySolver, FileName
    <2>2. CASE r = 0
      <3>1. ~Left(file')
        BY <2>1, <2>2 DEF Deleted, FileInv, FileNames, Absent
      <3>2. QED
        BY <1>2, <1>3, <2>1, <3>1
    <2>3. CASE r # 0
      BY <1>2, <1>3, <1>4, <2>1, <2>3 DEF Deleted
    <2>4. QED
      BY <2>2, <2>3
  <1>8. CASE OpenFile(r)
    <2>1. /\ solved \in Nat /\ FileName(r) = "dynamic_mb" /\ DOMAIN file = FileNames
          /\ file' = [file EXCEPT ![FileName(r)] = [state |-> "open"]]
          /\ pp_schedule'[r] = ScheduleFor(Injected(cur_iter[r]), solved + 1)
      BY <1>1, <1>8 DEF OpenFile, Takes, Form, FileName, FileInv
    <2>2. pp_schedule'[r].solution # -1
      BY <2>1 DEF ScheduleFor
    <2>3. \A q \in Rank : pp_schedule'[q].solution # -1
      BY <1>1, <1>2, <2>2 DEF Untouched
    <2>4. ~Left(file')
      BY <2>1 DEF FileNames
    <2>5. QED
      BY <1>3, <2>3, <2>4
  <1>9. CASE WriteFile(r)
    <2>1. /\ FileName(r) = "dynamic_mb" /\ DOMAIN file = FileNames /\ pp_schedule' = pp_schedule
          /\ file' = [file EXCEPT ![FileName(r)] = [state |-> "whole", schedule |-> pp_schedule[r]]]
      BY <1>9 DEF WriteFile, FileName, FileInv, local
    <2>2. ~Left(file')
      BY <1>2, <2>1 DEF FileNames
    <2>3. QED
      BY <1>2, <1>3, <2>1, <2>2
  <1>10. CASE LoadFile(r)
    <2>1. /\ pc[r] = "solve" /\ FileName(r) = "dynamic_mb" /\ file' = file /\ pc'[r] # "deleted"
          /\ \/ pp_schedule' = pp_schedule
             \/ InFile(r).state = "whole" /\ pp_schedule'[r] = InFile(r).schedule
      BY <1>1, <1>10 DEF LoadFile, Takes, GoTo, Form, FileName, disk
    <2>2. ~Left(file)
      <3> DEFINE p == <<cur_iter[r], evals[r], "deleted">>
      <3>1. Updates(cur_iter[r], evals[r]) /\ cur_iter[r] \in Nat /\ evals[r] \in Nat
        BY <1>1, <2>1 DEF AtPlace, Updating, Form
      <3>2. p \in Barriers /\ p \in Deletions
        BY <3>1 DEF Barriers, IsBarrier, Sites, Deletions
      <3>3. Pos(r) = <<cur_iter[r], evals[r], "solve">>
        BY <2>1, SlotOfCall DEF Ending
      <3>4. Before(p, Pos(r))
        BY <3>3, Indices DEF Before
      <3>5. ~Before(Pos(0), p)
        BY <1>1, <3>2, <3>4 DEF InStep
      <3>6. QED
        BY <1>2, <3>2, <3>5
    <2>3. pp_schedule'[r].solution # -1
      BY <1>2, <2>1, <2>2 DEF InFile
    <2>4. \A q \in Rank : pp_schedule'[q].solution # -1
      BY <1>1, <1>2, <2>3 DEF Untouched
    <2>5. QED
      BY <1>3, <2>1, <2>2, <2>4
  <1>11. QED
    BY <1>1, <1>5, <1>6, <1>7, <1>8, <1>9, <1>10, Effects

-----------------------------------------------------------------------------
(* Plans.                                                                   *)

LEMMA NotReplanned ==
    ASSUME PlacesInv, NEW r \in Rank, Step(r), ~Replan(r)
    PROVE  /\ plan' = plan
           /\ pc'[r] \notin {"updated", "unbound_name"} /\ pc[r] # "unbound_name"
           /\ pc[r] = "updated" => pp_schedule' = pp_schedule
  <1>1. Form
    BY DEF PlacesInv
  <1>2. CASE Quiet(r)
    BY <1>2 DEF Quiet, New
  <1>3. CASE UpdateLocally(r) \/ UpdateBySolver(r)
    BY <1>1, <1>3 DEF UpdateLocally, UpdateBySolver, MayUpdate, DeleteSite, GoTo, Form
  <1>4. CASE Reuse(r) \/ OpenFile(r) \/ WriteFile(r) \/ LoadFile(r)
    BY <1>1, <1>4 DEF Reuse, OpenFile, WriteFile, LoadFile, GoTo, Form, local
  <1>5. QED
    BY <1>1, <1>2, <1>3, <1>4, Effects

LEMMA StepKeepsPlans ==
    ASSUME PlacesInv, NewInv, PlanInv, NEW r \in Rank, Step(r)
    PROVE  PlanInv'
  <1>1. Form /\ Form' /\ AtPlace(r) /\ Untouched(r) /\ args' = args /\ InStep /\ PlacesInv'
    BY StepKeepsPlaces DEF PlacesInv
  <1>2. Barriers' = Barriers /\ (Replans <=> Replans')
    BY <1>1, SameBarriers DEF Replans
  <1>3. \A a \in Rank, p \in Barriers : Before(Pos(a), p)' <=> Before(Pos(a)', p)
    BY DEF Before
  <1>4. CASE ~Replan(r)
    <2>1. /\ plan' = plan /\ pc'[r] \notin {"updated", "unbound_name"}
          /\ pc[r] = "updated" => pp_schedule' = pp_schedule
          /\ pc[r] # "unbound_name"
      BY <1>4, NotReplanned
    <2>2. ASSUME NEW q \in Rank, Replans, pc'[q] = "updated" PROVE plan'[q] = pp_schedule'[q]
      BY <1>1, <2>1, <2>2 DEF Untouched, PlanInv
    <2>3. ASSUME NEW a \in Rank, NEW b \in Rank, SameUpdates(a, b)' PROVE plan'[a] = plan'[b]
      <3>1. ASSUME NEW p \in Barriers, p[3] = "updated"
            PROVE  Before(Pos(a), p) <=> Before(Pos(b), p)
        BY <1>2, <1>3, <2>1, <2>3, <3>1, SamePassed DEF SameUpdates
      <3>2. CASE pc[a] # "unbound_name" /\ pc[b] # "unbound_name"
        BY <2>1, <3>1, <3>2 DEF SameUpdates, PlanInv
      <3>3. CASE pc[a] = "unbound_name" \/ pc[b] = "unbound_name"
        BY <1>1, <2>1, <2>3, <3>3 DEF SameUpdates, Untouched
      <3>4. QED
        BY <3>2, <3>3
    <2>4. QED
      BY <1>2, <2>1, <2>2, <2>3 DEF PlanInv
  <1>5. CASE Replan(r)
    <2>1. /\ pc[r] = "replan" /\ pc'[r] \in {"updated", "unbound_name"} /\ cur_iter' = cur_iter /\ evals' = evals
          /\ pp_schedule' = pp_schedule
          /\ plan' = IF Replans THEN [plan EXCEPT ![r] = pp_schedule[r]] ELSE plan
          /\ ~Replans => pc'[r] = "updated"
      BY <1>1, <1>5 DEF Replan, GoTo, Form, Replans, disk
    <2>2. CASE ~Replans
      BY <1>2, <2>1, <2>2 DEF PlanInv
    <2>3. CASE Replans
      <3>1. plan'[r] = pp_schedule[r] /\ \A q \in Rank \ {r} : plan'[q] = plan[q] /\ pc'[q] = pc[q]
        BY <1>1, <2>1, <2>3 DEF Untouched, Form
      <3>2. \A q \in Rank : pc'[q] = "updated" => plan'[q] = pp_schedule'[q]
        BY <2>1, <2>3, <3>1 DEF PlanInv
      <3>3. ASSUME NEW b \in Rank \ {r}, pc'[r] = "updated",
                   \A p \in Barriers : p[3] = "updated" => (Before(Pos(r)', p) <=> Before(Pos(b)', p))
            PROVE  plan'[r] = plan'[b]
        <4> DEFINE p == <<cur_iter[r], evals[r], "updated">>
        <4>1. Updates(cur_iter[r], evals[r]) /\ cur_iter[r] \in Nat /\ evals[r] \in Nat
          BY <1>1, <2>1 DEF AtPlace, Updating, Form
        <4>2. p \in Barriers
          BY <4>1 DEF Barriers, IsBarrier, Sites
        <4>3. Pos(r) = <<cur_iter[r], evals[r], "replan">> /\ Pos(r)' = p
          BY <2>1, <3>3, SlotOfCall DEF Ending, Pos, Slot
        <4>4. Before(Pos(r), p) /\ ~Before(Pos(r)', p)
          BY <4>1, <4>3, Indices DEF Before
        <4>5. Pos(b)' = Pos(b)
          BY <1>1, <3>3, OthersAtPlace DEF PlacesInv
        <4>6. ~Before(Pos(b), p) /\ ~Before(p, Pos(b))
          BY <1>1, <3>3, <4>2, <4>4, <4>5 DEF InStep
        <4>7. Pos(b) = p
          BY <1>1, <4>2, <4>6, PositionType, BarrierType, BeforeOrAfter
        <4>8. pc[b] = "updated" /\ Slot(b) = evals[r] /\ cur_iter[b] = cur_iter[r]
          BY <4>7 DEF Pos
        <4>9. Call(b) = Call(r)
          BY <4>8 DEF Slot, Call, Ending
        <4>10. plan[b] = pp_schedule[b] /\ pp_schedule[b] = pp_schedule[r]
          BY <2>1, <2>3, <4>8, <4>9 DEF PlanInv, NewInv, New
        <4>11. QED
          BY <3>1, <4>10
      <3>4. ASSUME NEW a \in Rank, NEW b \in Rank, SameUpdates(a, b)' PROVE plan'[a] = plan'[b]
        <4>1. /\ pc'[a] # "unbound_name" /\ pc'[b] # "unbound_name"
              /\ \A p \in Barriers : p[3] = "updated" => (Before(Pos(a)', p) <=> Before(Pos(b)', p))
          BY <1>2, <1>3, <3>4 DEF SameUpdates
        <4>2. CASE a = b
          BY <4>2
        <4>3. CASE a = r /\ b # r
          BY <2>1, <3>3, <4>1, <4>3
        <4>4. CASE a # r /\ b = r
          BY <2>1, <3>3, <4>1, <4>4
        <4>5. CASE a # r /\ b # r
          <5>1. Pos(a)' = Pos(a) /\ Pos(b)' = Pos(b)
            BY <1>1, <4>5, OthersAtPlace DEF PlacesInv
          <5>2. QED
            BY <3>1, <4>1, <4>5, <5>1 DEF SameUpdates, PlanInv
        <4>6. QED
          BY <4>2, <4>3, <4>4, <4>5
      <3>5. QED
        BY <1>2, <2>3, <3>2, <3>4 DEF PlanInv
    <2>4. QED
      BY <2>2, <2>3
  <1>6. QED
    BY <1>4, <1>5

\* Where the next iteration is of an update no more, it is of the same part.
LEMMA SamePart ==
    ASSUME args \in Configs, NEW i \in Nat, NEW k \in DOMAIN args.delays,
           (i + 1) - TestStart \in Part(k), i + 1 \notin UpdateIters
    PROVE  i - TestStart \in Part(k)
  <1> DEFINE t == args.test_iters  u == TestStart
  <1>1. args \in ConfigType /\ u \in Int
    BY TestStartType
  <1>2. t \in Nat \ {0} /\ k \in Int /\ k >= 1 /\ k <= Len(args.delays) /\ Len(args.delays) \in Nat
    BY <1>1 DEF ConfigType
  <1>3. (k - 1) * t \in Int /\ k * t \in Int
    BY <1>2
  <1>4. (i + 1) - u >= (k - 1) * t /\ (i + 1) - u <= k * t - 1
    BY <1>1, <1>3 DEF Part
  <1>5. i + 1 # u + (k - 1) * t
    BY <1>2 DEF UpdateIters
  <1>6. i - u >= (k - 1) * t /\ i - u <= k * t - 1
    BY <1>1, <1>3, <1>4, <1>5
  <1>7. QED
    BY <1>1, <1>3, <1>6 DEF Part

\* The delay of an update iteration is that of the part it is of.
LEMMA DelayAtUpdate ==
    ASSUME args \in Configs, Experiment, NEW i \in UpdateIters, NEW k \in DOMAIN args.delays,
           i - TestStart \in Part(k)
    PROVE  Injected(i) = args.delays[k]
  <1> DEFINE t == args.test_iters  u == TestStart
  <1>1. args \in ConfigType /\ u \in Int
    BY TestStartType
  <1>2. t \in Nat \ {0} /\ k \in Int /\ k >= 1 /\ k <= Len(args.delays)
    BY <1>1 DEF ConfigType
  <1>3. PICK j \in 0 .. Len(args.delays) - 1 : i = u + j * t
    BY DEF UpdateIters
  <1>4. j \in Nat /\ j * t \in Nat /\ (k - 1) * t \in Int /\ k * t \in Int
    BY <1>2, <1>3
  <1>5. j * t >= (k - 1) * t /\ j * t <= k * t - 1
    BY <1>1, <1>3, <1>4 DEF Part
  <1> HIDE DEF t, u
  <1>6. ~(j >= k)
    <2>1. ASSUME j >= k PROVE FALSE
      <3>1. j * t = k * t + (j - k) * t /\ (j - k) * t \in Nat
        BY <1>2, <1>4, <2>1
      <3>2. QED
        BY <1>4, <1>5, <3>1
    <2>2. QED
      BY <2>1
  <1>7. ~(j < k - 1)
    <2>1. ASSUME j < k - 1 PROVE FALSE
      <3> DEFINE d == k - 1 - j
      <3>1. d \in Nat \ {0} /\ k - 1 = j + d
        BY <1>2, <1>4, <2>1
      <3> HIDE DEF d
      <3>2. d * t \in Nat \ {0} /\ (j + d) * t = j * t + d * t
        BY <1>2, <1>4, <3>1
      <3>3. (k - 1) * t = j * t + d * t
        BY <3>1, <3>2
      <3>4. QED
        BY <1>4, <1>5, <3>2, <3>3
    <2>2. QED
      BY <2>1
  <1>8. k = j + 1
    BY <1>2, <1>4, <1>6, <1>7
  <1>9. QED
    BY <1>3, <1>8, DelayOfPart DEF t, u

LEMMA StepKeepsCurrent ==
    ASSUME PlacesInv, NewInv, CurrentInv, NEW r \in Rank, Step(r)
    PROVE  CurrentInv'
  <1>1. Form /\ Form' /\ AtPlace(r) /\ Untouched(r) /\ args' = args /\ PlacesInv'
    BY StepKeepsPlaces DEF PlacesInv
  <1>2. /\ Barriers' = Barriers /\ (Replans <=> Replans') /\ (Experiment <=> Experiment')
        /\ TestStart' = TestStart /\ \A k : Part(k)' = Part(k)
    BY <1>1, SameBarriers DEF Replans, Part
  <1> DEFINE Due(n, pos) == Updates(n, 0) /\ Before(pos, <<n, 0, "updated">>)
  <1>3. Replans => \A q \in Rank : ~Due(cur_iter[q], Pos(q)) => RightFor(plan[q], cur_iter[q])
    BY DEF CurrentInv, Fresh
  <1>4. ASSUME Replans, \A q \in Rank : ~Due(cur_iter'[q], Pos(q)') => RightFor(plan'[q], cur_iter'[q])
        PROVE  CurrentInv'
    <2>0. \A p, n : RightFor(p, n)' <=> RightFor(p, n)
      BY <1>1, <1>2 DEF RightFor
    <2>1. \A q \in Rank : Fresh(q)' => ~Due(cur_iter'[q], Pos(q)')
      <3>1. ASSUME NEW q \in Rank, Fresh(q)', Due(cur_iter'[q], Pos(q)') PROVE FALSE
        <4>1. (Before(Pos(q), <<cur_iter[q], 0, "updated">>))' <=> Before(Pos(q)', <<cur_iter'[q], 0, "updated">>)
          BY DEF Before
        <4>2. Updates(cur_iter[q], 0)' <=> Updates(cur_iter'[q], 0)
          BY <1>1 DEF Updates, Calls, Evaluates, Experiment, UpdateIters, TestStart
        <4>3. QED
          BY <3>1, <4>1, <4>2 DEF Fresh
      <3>2. QED
        BY <3>1
    <2>2. QED
      BY <1>1, <1>2, <1>4, <2>0, <2>1 DEF CurrentInv
  <1>5. ASSUME ~Replans PROVE CurrentInv'
    BY <1>2, <1>5 DEF CurrentInv
  <1> SUFFICES ASSUME Replans, NEW q \in Rank, ~Due(cur_iter'[q], Pos(q)')
               PROVE  RightFor(plan'[q], cur_iter'[q])
    BY <1>4, <1>5
  <1>6. CASE q # r
    <2>1. Pos(q)' = Pos(q) /\ plan'[q] = plan[q] /\ cur_iter'[q] = cur_iter[q]
      BY <1>1, <1>6, OthersAtPlace DEF Untouched, PlacesInv
    <2>2. QED
      BY <1>3, <2>1
  <1>7. CASE q = r /\ Replan(r)
    <2>1. plan'[r] = pp_schedule[r] /\ cur_iter'[r] = cur_iter[r] /\ pc[r] = "replan"
      BY <1>1, <1>7 DEF Replan, Replans, Form
    <2>2. plan'[r].for = Injected(cur_iter[r])
      BY <2>1 DEF NewInv, New
    <2>3. Updates(cur_iter[r], evals[r])
      BY <1>1, <2>1 DEF AtPlace, Updating
    <2>4. Experiment => \A k \in DOMAIN args.delays :
                           cur_iter[r] - TestStart \in Part(k) => plan'[r].for = args.delays[k]
      BY <1>1, <2>2, <2>3, DelayAtUpdate DEF Form, Updates
    <2>5. ~Experiment => plan'[r].for = "none"
      BY <2>2 DEF Injected
    <2>6. QED
      BY <1>7, <2>1, <2>4, <2>5 DEF RightFor
  <1>8. CASE q = r /\ ~Replan(r) /\ cur_iter'[r] = cur_iter[r]
    <2> DEFINE p == <<cur_iter[r], 0, "updated">>
    <2>1. plan'[r] = plan[r] /\ pc'[r] # "updated"
      BY <1>8, NotReplanned
    <2>2. ASSUME Due(cur_iter[r], Pos(r)) PROVE FALSE
      <3>1. p \in Barriers
        BY <1>1, <2>2 DEF Barriers, IsBarrier, Sites, Form
      <3>2. Before(Pos(r)', p)
        BY <2>1, <2>2, <3>1, SamePassed
      <3>3. QED
        BY <1>8, <2>2, <3>2
    <2>3. QED
      BY <1>3, <1>8, <2>1, <2>2
  <1>9. CASE q = r /\ ~Replan(r) /\ cur_iter'[r] # cur_iter[r]
    <2> DEFINE i == cur_iter[r]
    <2>1. NextIteration(r)
      BY <1>9 DEF Step, Leave, StayWithSchedule, FailTooEarly, UpdateLocally, UpdateBySolver, MayUpdate, Reuse,
             OpenFile, FindNoSolution, WriteFile, LoadFile, Run, WriteProfile, Conclude, ReadTotal, EndCall
    <2>2. /\ pc[r] = "next" /\ pc'[r] = "call" /\ cur_iter'[r] = i + 1 /\ evals[r] = 0 /\ evals'[r] = 0
          /\ plan'[r] = plan[r]
      BY <1>1, <1>9, <2>1 DEF NextIteration, GoTo, Form, AtPlace, Ending, local
    <2>3. Pos(r)' = <<i + 1, 0, "call">> /\ Pos(r) = <<i, EvalCalls + 1, "next">>
      BY <2>2 DEF Pos, Slot, Ending
    <2>4. Before(Pos(r)', <<i + 1, 0, "updated">>)
      BY <2>3, Indices DEF Before
    <2>5. ~Updates(i + 1, 0)
      BY <1>9, <2>2, <2>4
    <2>6. ~Before(Pos(r), <<i, 0, "updated">>) /\ i \in Nat
      BY <1>1, <2>3, WorldAssumption DEF Before, Form
    <2>7. RightFor(plan[r], i)
      BY <1>3, <2>6
    <2>8. RightFor(plan[r], i + 1)
      <3>1. args \in Configs /\ args.profile_iter \in Nat
        BY <1>1, TestStartType DEF Form, ConfigType
      <3>2. Experiment => i + 1 \notin UpdateIters
        BY <2>5 DEF Updates, Calls
      <3>3. ~Experiment /\ args.schedule # "static" => i + 1 # args.profile_iter + 1
        BY <2>5 DEF Updates, Calls
      <3>4. ASSUME Experiment, NEW k \in DOMAIN args.delays, (i + 1) - TestStart \in Part(k)
            PROVE  plan[r].for = args.delays[k]
        <4>1. i - TestStart \in Part(k)
          BY <2>6, <3>1, <3>2, <3>4, SamePart
        <4>2. QED
          BY <2>7, <3>4, <4>1 DEF RightFor
      <3>5. ASSUME ~Experiment, args.schedule # "static", i + 1 > args.profile_iter
            PROVE  plan[r].for = "none"
        <4>1. i > args.profile_iter
          BY <2>6, <3>1, <3>3, <3>5
        <4>2. QED
          BY <2>7, <3>5, <4>1 DEF RightFor
      <3>6. Experiment => \A k \in DOMAIN args.delays :
                             (i + 1) - TestStart \in Part(k) => plan[r].for = args.delays[k]
        BY <3>4
      <3>7. (~Experiment /\ args.schedule # "static" /\ i + 1 > args.profile_iter) => plan[r].for = "none"
        BY <3>5
      <3>8. QED
        BY <3>6, <3>7 DEF RightFor
    <2>9. QED
      BY <1>9, <2>2, <2>8
  <1>10. QED
    BY <1>6, <1>7, <1>8, <1>9

-----------------------------------------------------------------------------
(* The theorems on schedules and plans.                                     *)

HandoffInv == PlacesInv /\ FileInv /\ NewInv /\ StaleInv /\ PlanInv /\ CurrentInv

LEMMA InitHandoff == Init => HandoffInv
  <1> SUFFICES ASSUME Init PROVE HandoffInv
    OBVIOUS
  <1>1. PlacesInv /\ 0 \in Rank /\ args \in ConfigType /\ TestStart \in Int /\ TestStart > args.profile_iter
        /\ args.profile_iter \in Nat
    BY InitPlaces, WritersOfStages, TestStartType DEF PlacesInv, Form, ConfigType
  <1>2. \A r \in Rank : /\ pc[r] = "call" /\ cur_iter[r] = 0 /\ evals[r] = 0
                        /\ pp_schedule[r] = InitialSchedule /\ plan[r] = InitialSchedule
    BY DEF Init
  <1>3. file = [n \in FileNames |-> IF n \in args.left THEN Leftover(n) ELSE Absent]
    BY DEF Init, FileNames
  <1>4. \A n \in FileNames : /\ file[n] = Absent \/ file[n].state = "whole"
                             /\ file[n].state = "whole" /\ n # "dynamic_mb" => file[n].schedule.for = n
    BY <1>3 DEF Leftover, Absent, ScheduleFor
  <1>5. FileInv
    BY <1>1, <1>2, <1>3, <1>4 DEF FileInv
  <1>6. NewInv
    BY <1>2, <1>4 DEF NewInv, New
  <1>7. StaleInv
    <2>1. ASSUME NEW p \in Barriers, p[3] = "deleted" PROVE Before(Pos(0), p)
      <3>1. Pos(0) = <<0, 0, "call">>
        BY <1>1, <1>2 DEF Pos, Slot, Ending
      <3>2. p[1] \in Nat /\ p[2] \in Nat
        BY BarrierType
      <3>3. QED
        BY <2>1, <3>1, <3>2, Indices DEF Before
    <2>2. QED
      BY <1>2, <2>1 DEF StaleInv, InitialSchedule, ScheduleFor
  <1>8. PlanInv
    BY <1>2 DEF PlanInv
  <1>9. CurrentInv
    <2>1. ASSUME NEW k \in DOMAIN args.delays, 0 - TestStart \in Part(k) PROVE FALSE
      <3>1. k \in Int /\ k >= 1 /\ args.test_iters \in Nat
        BY <1>1 DEF ConfigType
      <3>2. (k - 1) * args.test_iters \in Nat /\ k * args.test_iters \in Nat
        BY <3>1
      <3>3. 0 - TestStart >= 0
        BY <1>1, <2>1, <3>2 DEF Part
      <3>4. QED
        BY <1>1, <3>3
    <2>2. \A s : RightFor(s, 0)
      BY <1>1, <2>1 DEF RightFor
    <2>3. QED
      BY <1>2, <2>2 DEF CurrentInv
  <1>10. QED
    BY <1>1, <1>5, <1>6, <1>7, <1>8, <1>9 DEF HandoffInv

LEMMA NextKeepsHandoff == HandoffInv /\ [Next]_vars => HandoffInv'
  <1>1. ASSUME HandoffInv, NEW r \in Rank, Step(r) PROVE HandoffInv'
    BY <1>1, StepKeepsPlaces, StepKeepsFiles, StepKeepsNew, StepKeepsStale, StepKeepsPlans, StepKeepsCurrent
       DEF HandoffInv
  <1>2. ASSUME HandoffInv, UNCHANGED vars PROVE HandoffInv'
    <2>1. PlacesInv' /\ \A q \in Rank : Pos(q)' = Pos(q)
      BY <1>2, StutterKeepsPlaces DEF HandoffInv, Pos, Slot, vars
    <2>2. Barriers' = Barriers
      BY <1>2, SameBarriers DEF vars
    <2>3. FileInv' /\ NewInv'
      <3>1. UNCHANGED <<args, pc, cur_iter, evals, pp_schedule, file>>
        BY <1>2 DEF vars, local, disk
      <3>2. \A q \in Rank : Injected(cur_iter[q])' = Injected(cur_iter[q])
        BY <3>1 DEF Injected, Experiment, TestStart
      <3>3. FileName(0)' = FileName(0) /\ \A q \in Rank : FileName(q)' = FileName(q)
        BY <3>1, <3>2, WritersOfStages DEF FileName
      <3>4. InFile(0)' = InFile(0) /\ \A q \in Rank : InFile(q)' = InFile(q)
        BY <3>1, <3>3 DEF InFile
      <3>5. FileNames' = FileNames /\ BySolver' = BySolver
        BY <3>1 DEF FileNames, BySolver
      <3>6. FileInv'
        BY <1>2, <3>1, <3>3, <3>4, <3>5 DEF HandoffInv, FileInv
      <3>7. NewInv'
        BY <1>2, <3>1, <3>2, <3>5 DEF HandoffInv, NewInv, Call, ScheduleFor
      <3>8. QED
        BY <3>6, <3>7
    <2>4. StaleInv'
      BY <1>2, <2>1, <2>2 DEF HandoffInv, StaleInv, Pos, Slot, Before, vars, local, disk
    <2>5. PlanInv'
      BY <1>2, <2>1, <2>2 DEF HandoffInv, PlanInv, Replans, SameUpdates, Pos, Slot, Before, vars, local, disk
    <2>6. CurrentInv'
      <3>1. UNCHANGED <<args, cur_iter, plan>>
        BY <1>2 DEF vars, local
      <3>2. \A i, p : Updates(i, 0)' = Updates(i, 0) /\ RightFor(p, i)' = RightFor(p, i)
        BY <3>1, SameBarriers DEF RightFor, Part
      <3>3. \A q \in Rank : Fresh(q)' = Fresh(q)
        BY <2>1, <3>1, <3>2 DEF Fresh, Updates, Calls, Evaluates, Experiment, UpdateIters, TestStart, Before
      <3>4. QED
        BY <1>2, <3>1, <3>2, <3>3 DEF HandoffInv, CurrentInv, RightFor, Replans, Experiment, TestStart, Part
    <2>7. QED
      BY <2>1, <2>3, <2>4, <2>5, <2>6 DEF HandoffInv
  <1>3. QED
    BY <1>1, <1>2 DEF Next, Aborted, Terminated

\* However the ranks interleave, and whoever makes the schedules, ranks that run
\* the same call run it by the same schedule.
THEOREM RanksAgree == Spec => []SamePlan
  <1>1. HandoffInv => SamePlan
    <2> SUFFICES ASSUME HandoffInv, NEW a \in Rank, NEW b \in Rank, pc[a] = "run", pc[b] = "run", Call(a) = Call(b)
                 PROVE  plan[a] = plan[b]
      BY DEF SamePlan
    <2>1. Pos(a) = Pos(b)
      BY DEF Call, Pos, Slot, Ending
    <2>2. SameUpdates(a, b)
      BY <2>1 DEF SameUpdates
    <2>3. QED
      BY <2>2 DEF HandoffInv, PlanInv
  <1>2. QED
    BY <1>1, InitHandoff, NextKeepsHandoff, PTL DEF Spec

\* A schedule of dynamic_mb that an earlier job left never gets into a rank,
\* in the first update of a job and in all that follow.
THEOREM NoFileOfEarlierJob == Spec => []NoStaleFile
  <1>1. HandoffInv => NoStaleFile
    BY DEF HandoffInv, StaleInv, NoStaleFile
  <1>2. QED
    BY <1>1, InitHandoff, NextKeepsHandoff, PTL DEF Spec

\* In every part of a test a rank runs by a schedule made for the delay of that
\* part, the evaluations in between included, and after the profile by one made
\* since.
THEOREM PlansFollowTheTest == Spec => []PlanIsCurrent
  <1>1. HandoffInv => PlanIsCurrent
    <2> SUFFICES ASSUME HandoffInv, Replans, NEW r \in Rank, pc[r] = "run"
                 PROVE  RightFor(plan[r], cur_iter[r])
      <3>1. ~Experiment => DOMAIN args.delays = {}
        BY DEF Experiment
      <3>2. QED
        BY <3>1 DEF PlanIsCurrent, Replans, RightFor, Part
    <2>1. cur_iter[r] \in Nat /\ evals[r] \in Nat /\ Pos(r) = <<cur_iter[r], evals[r], "run">>
      BY SlotOfCall DEF HandoffInv, PlacesInv, Form, Ending
    <2>2. Fresh(r)
      BY <2>1, Indices DEF Fresh, Before
    <2>3. QED
      BY <2>2 DEF HandoffInv, CurrentInv
  <1>2. QED
    BY <1>1, InitHandoff, NextKeepsHandoff, PTL DEF Spec
=============================================================================
