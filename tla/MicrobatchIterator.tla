------------------------- MODULE MicrobatchIterator ------------------------
(***************************************************************************)
(* DynamicMicrobatchIterator (pp_scheduler.py), on all the ranks that read *)
(* data: the tokens at the first stage, the labels at the last.  Each has  *)
(* a data iterator of its own over the same stream of batches of           *)
(* equal_mb_size samples, and from the iteration in which the schedule is  *)
(* replaced on cuts the batches into the planned microbatch sizes.         *)
(*                                                                         *)
(* A sample is its number in the stream.  Microbatches are numbered from   *)
(* 0, batches of an iteration (bases) too.                                 *)
(***************************************************************************)
EXTENDS Integers, Sequences, FiniteSets, SequencesExt, FiniteSetsExt

CONSTANTS
    Readers,          \* the data iterators: one per chunk of a rank
    Paths,            \* code paths in use: "lazy", "refill", "legacy"
    NumMb,            \* num_microbatches of an iteration
    EqualMbSize,      \* micro_batch_size
    Solutions,        \* what the solver may return: sequences of sizes
    Orders,           \* orders a rank may run its forwards in
    MaxIter,          \* bound on the iterations
    None              \* what a rank without data gets

ASSUME SizesAssumption ==
    /\ NumMb \in Nat \ {0} /\ EqualMbSize \in Nat \ {0} /\ MaxIter \in Nat
    /\ \A s \in Solutions : Len(s) = NumMb /\ s \in Seq(Nat)
    /\ \A o \in Orders : o \in [1 .. NumMb -> 0 .. NumMb - 1]
    /\ None \notin [1 .. EqualMbSize -> Nat]

VARIABLES
    microbatch_sizes, \* the sizes of the dynamic schedule
    since,            \* the iteration it is used from
    path,             \* per reader, by CDC_DISABLE_OPT1 and CDC_DISABLE_OPT2
    hasData,          \* per reader: FALSE where the base iterator yields None
    order,            \* per reader: its forwards in the order it runs them
    iteration,        \* per reader: calls of forward_backward_func so far
    base_iterator,    \* per reader: batches taken from the stream
    base_cache,       \* per reader: _base_cache of the current wrapper
    chunks,           \* per reader: _chunks, empty until it is filled
    non_data_stage,   \* per reader: _non_data_stage
    got               \* per reader: the batches its forwards got, this iteration

reading == <<base_iterator, base_cache, chunks, non_data_stage>>
chosen == <<microbatch_sizes, since, path, hasData, order>>
vars == <<chosen, iteration, reading, got>>

Mbs == 0 .. NumMb - 1
N == NumMb * EqualMbSize      \* samples of an iteration

-----------------------------------------------------------------------------
(* Sizes.  The solver's values are rounded, raised to 1 and made to sum up *)
(* to N, the largest first.                                                *)

CumSum(sizes) ==
    LET cumsum[i \in 0 .. Len(sizes)] == IF i = 0 THEN 0 ELSE cumsum[i - 1] + sizes[i]
    IN  cumsum
SumOf(sizes) == CumSum(sizes)[Len(sizes)]

\* Places of `sizes` from the largest down, equal ones in order (sorted is stable).
LargestFirst(sizes) ==
    SetToSortSeq(DOMAIN sizes,
        LAMBDA i, j : sizes[i] > sizes[j] \/ (sizes[i] = sizes[j] /\ i < j))

\* Fault: sizes may drop to 0.
MayShrink_Always(size) == TRUE
MayShrink(size) == size > 1

Redistribute(solution) ==
    LET raw == [i \in DOMAIN solution |-> Max({1, solution[i]})]
        indices == LargestFirst(raw)
        turn(s, i) ==
            LET idx == indices[(i % Len(raw)) + 1]  residual == N - SumOf(s)
            IN  CASE residual > 0 -> [s EXCEPT ![idx] = @ + 1]
                  [] residual < 0 /\ MayShrink(s[idx]) -> [s EXCEPT ![idx] = @ - 1]
                  [] OTHER -> s
    IN  FoldLeft(turn, raw, [i \in 1 .. 10 * Len(raw) + 1 |-> i - 1])

-----------------------------------------------------------------------------
(* Batches.                                                                *)

\* The i-th batch (from 1) of the stream.
Batch(i) == [j \in 1 .. EqualMbSize |-> (i - 1) * EqualMbSize + j]
SliceBatch(batch, start, end) == SubSeq(batch, start + 1, end)
ConcatBatches(pieces) == FlattenSeq(pieces)

\* Where microbatch m starts and ends in the samples of an iteration.
Start(sizes, m) == CumSum(sizes)[m]
End(sizes, m) == CumSum(sizes)[m + 1]

LastBase(end) == (end - 1) \div EqualMbSize

ChunkSpec(sizes, m) ==
    LET start == Start(sizes, m)
        end   == End(sizes, m)
        first == start \div EqualMbSize
        last  == LastBase(end)
    IN  [first_base |-> first, last_base |-> last,
         base_start |-> start - first * EqualMbSize, base_end |-> end - last * EqualMbSize]

\* The pieces of the bases `cache` that spec names.  A whole base is passed
\* on as it is, which is the slice of all of it.
CutOut(cache, spec) ==
    LET from(b) == IF b = spec.first_base THEN spec.base_start ELSE 0
        to(b)   == IF b = spec.last_base THEN spec.base_end ELSE EqualMbSize
    IN  ConcatBatches([i \in 1 .. spec.last_base - spec.first_base + 1 |->
            LET b == spec.first_base + i - 1 IN SliceBatch(cache[b + 1], from(b), to(b))])

\* The same by _refill, which cuts each base at the ends of the microbatch ...
CutByRefill(batches, sizes, m) ==
    LET start == Start(sizes, m)
        end   == End(sizes, m)
        first == start \div EqualMbSize
    IN  ConcatBatches([i \in 1 .. LastBase(end) - first + 1 |->
            LET b == first + i - 1
            IN  SliceBatch(batches[b + 1], Max({start - b * EqualMbSize, 0}),
                           Min({end - b * EqualMbSize, EqualMbSize}))])

\* ... and by _refill_legacy, which takes it off the front of all of them.
CutByLegacy(batches, sizes, m) ==
    SliceBatch(ConcatBatches(batches), Start(sizes, m), End(sizes, m))

-----------------------------------------------------------------------------
(* next() of the wrapper, after set_next_mb_id(m): the reading state it    *)
(* leaves and the batch it returns.                                        *)

\* Fault: all bases of the iteration are pulled at once.
UpTo_Burst(upto) == (N \div EqualMbSize) - 1
\* Fault: one base more than the microbatch needs.
UpTo_OneMore(upto) == upto + 1
UpTo(upto) == upto

\* The batches a reader has got, with the one of microbatch m.
Got(batches, m, batch) ==
    [n \in DOMAIN batches \cup {m} |-> IF n \in DOMAIN batches THEN batches[n] ELSE batch]

\* _ensure_base_pulled: the bases it appends to the cache.
Pulled(r, upto) ==
    LET missing == Max({0, UpTo(upto) + 1 - Len(base_cache[r])})
    IN  IF hasData[r] THEN [i \in 1 .. missing |-> Batch(base_iterator[r] + i)]
        ELSE [i \in 1 .. Min({1, missing}) |-> None]

NextLazily(r, m) ==
    LET spec  == ChunkSpec(microbatch_sizes, m)
        new   == Pulled(r, spec.last_base)
        cache == base_cache[r] \o new
    IN  /\ base_iterator' = [base_iterator EXCEPT ![r] = @ + Len(new)]
        /\ base_cache' = [base_cache EXCEPT ![r] = cache]
        /\ non_data_stage' = [non_data_stage EXCEPT ![r] = @ \/ None \in ToSet(new)]
        /\ got' = [got EXCEPT ![r] =
                      Got(@, m, IF non_data_stage'[r] THEN None ELSE CutOut(cache, spec))]
        /\ UNCHANGED chunks

\* _refill or _refill_legacy, at the first call.
Refilled(r, batches) ==
    [m \in Mbs |-> IF ~hasData[r] THEN None
                   ELSE IF path[r] = "refill" THEN CutByRefill(batches, microbatch_sizes, m)
                   ELSE CutByLegacy(batches, microbatch_sizes, m)]

NextFromChunks(r, m) ==
    LET count   == SumOf(microbatch_sizes) \div EqualMbSize
        batches == [i \in 1 .. count |-> Batch(base_iterator[r] + i)]
        filled  == chunks[r] # <<>>
    IN  /\ chunks' = [chunks EXCEPT ![r] = IF filled THEN @ ELSE Refilled(r, batches)]
        /\ base_iterator' = [base_iterator EXCEPT ![r] =
               @ + IF filled THEN 0 ELSE IF hasData[r] THEN count ELSE 1]
        /\ got' = [got EXCEPT ![r] = Got(@, m, chunks'[r][m])]
        /\ UNCHANGED <<base_cache, non_data_stage>>

\* next() of the data iterator itself, in an iteration of equal sizes.
NextOfBase(r, m) ==
    /\ base_iterator' = [base_iterator EXCEPT ![r] = @ + 1]
    /\ got' = [got EXCEPT ![r] =
                  Got(@, m, IF hasData[r] THEN Batch(base_iterator[r] + 1) ELSE None)]
    /\ UNCHANGED <<base_cache, chunks, non_data_stage>>

-----------------------------------------------------------------------------
IsDynamic(r) == iteration[r] >= since
Done(r) == iteration[r] = 0 \/ DOMAIN got[r] = Mbs

\* The equal sizes need the microbatches in order, which every schedule of
\* equal sizes runs its forwards in (EveryTaskOnce is about the rest).
OrderOf(r) == IF IsDynamic(r) THEN order[r] ELSE [i \in 1 .. NumMb |-> i - 1]

\* Fault: the wrapper of the iteration before is used on.
Wrap_Reuse(r) == UNCHANGED <<base_cache, chunks, non_data_stage>>

\* forward_backward_func wraps the data iterator anew in every iteration.
Wrap(r) ==
    /\ base_cache' = [base_cache EXCEPT ![r] = <<>>]
    /\ chunks' = [chunks EXCEPT ![r] = <<>>]
    /\ non_data_stage' = [non_data_stage EXCEPT ![r] = FALSE]

StartIteration(r) ==
    /\ Done(r) /\ iteration[r] < MaxIter
    /\ iteration' = [iteration EXCEPT ![r] = @ + 1]
    /\ got' = [got EXCEPT ![r] = <<>>]
    /\ Wrap(r)
    /\ UNCHANGED <<chosen, base_iterator>>

\* The forward of the next microbatch: set_next_mb_id and next.
Forward(r) ==
    /\ ~Done(r)
    /\ LET m == OrderOf(r)[Cardinality(DOMAIN got[r]) + 1]
       IN  \/ ~IsDynamic(r) /\ NextOfBase(r, m)
           \/ IsDynamic(r) /\ path[r] = "lazy" /\ NextLazily(r, m)
           \/ IsDynamic(r) /\ path[r] # "lazy" /\ NextFromChunks(r, m)
    /\ UNCHANGED <<chosen, iteration>>

Terminated == (\A r \in Readers : Done(r) /\ iteration[r] = MaxIter) /\ UNCHANGED vars

Init ==
    /\ microbatch_sizes \in {Redistribute(s) : s \in Solutions}
    /\ since \in 1 .. MaxIter
    /\ path \in [Readers -> Paths]
    /\ hasData \in [Readers -> BOOLEAN] /\ \E r \in Readers : hasData[r]
    /\ order \in [Readers -> Orders]
    /\ iteration = [r \in Readers |-> 0]
    /\ base_iterator = [r \in Readers |-> 0]
    /\ base_cache = [r \in Readers |-> <<>>]
    /\ chunks = [r \in Readers |-> <<>>]
    /\ non_data_stage = [r \in Readers |-> FALSE]
    /\ got = [r \in Readers |-> <<>>]

Next == Terminated \/ \E r \in Readers : StartIteration(r) \/ Forward(r)

Spec == Init /\ [][Next]_vars

-----------------------------------------------------------------------------
(* Properties.                                                             *)

\* The samples of microbatch m in an iteration, whoever reads them.
SamplesOf(sizes, i, m) ==
    [j \in 1 .. sizes[m + 1] |-> (i - 1) * N + Start(sizes, m) + j]

SizesIn(i) == IF i >= since THEN microbatch_sizes ELSE [j \in 1 .. NumMb |-> EqualMbSize]

\* A microbatch has the same samples on every rank that reads it: the tokens at
\* the first stage meet their own labels at the last, whatever the order of
\* the forwards, the code path and the iterations before ("ensures the
\* correct chunk is returned regardless of schedule order").
TokensMeetLabels ==
    \A r \in Readers : \A m \in DOMAIN got[r] :
        got[r][m] = IF hasData[r] THEN SamplesOf(SizesIn(iteration[r]), iteration[r], m) ELSE None

\* Between iterations every rank stands at the same place in the stream: an
\* iteration takes exactly its own batches, with no sample lost or used twice.
StreamInStep ==
    \A r \in Readers : hasData[r] /\ Done(r) => base_iterator[r] = iteration[r] * NumMb

\* The lazy path pulls no batch before a microbatch needs it ("we only
\* consume base batches up to the last_base required").
PullsOnlyNeeded ==
    \A r \in Readers : hasData[r] /\ path[r] = "lazy" /\ ~Done(r) =>
        base_iterator[r] * EqualMbSize <
            (iteration[r] - 1) * N + EqualMbSize
                + Max({0} \cup {End(SizesIn(iteration[r]), m) : m \in DOMAIN got[r]})

\* Every size the solver's values are turned into is at least 1, and they sum
\* up to the samples of an iteration.
Fit(sizes) == sizes \in [1 .. NumMb -> Nat \ {0}] /\ SumOf(sizes) = N
SizesFit == Fit(microbatch_sizes)
=============================================================================
