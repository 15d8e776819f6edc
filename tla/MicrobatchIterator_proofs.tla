--------------------- MODULE MicrobatchIterator_proofs ---------------------
(***************************************************************************)
(* Each microbatch has its own samples on every reader and every code      *)
(* path, the readers stay in step in the stream, and the lazy path pulls   *)
(* nothing early, for any number of readers, microbatches, samples and     *)
(* iterations and any order of the forwards, as long as the sizes made of  *)
(* the solver's values fit the iteration (SolutionsFit).                   *)
(*                                                                         *)
(* Every batch is a run of consecutive samples, so cutting and             *)
(* concatenating is arithmetic on where runs start and end.  What the      *)
(* recursive functions compute (the cumulative sizes, the concatenation    *)
(* of a sequence of pieces) is proved by induction, which is derived from  *)
(* the well-founded order of the naturals.                                 *)
(***************************************************************************)
EXTENDS MicrobatchIterator, FiniteSetTheorems, WellFoundedInduction, TLAPS

-----------------------------------------------------------------------------
(* Induction.                                                              *)

\* A non-empty set of naturals has a least element.
LEMMA Least ==
    ASSUME NEW T \in SUBSET Nat, T # {}
    PROVE  \E n \in T : \A m \in T : n <= m
<1>1. PICK n \in T : \A y \in T : ~ (<<y, n>> \in OpToRel(<, Nat))
  BY WFMin, NatLessThanWellFounded
<1>2. \A y \in T : ~(y < n)
  BY <1>1 DEF OpToRel
<1> QED
  BY <1>2

\* Induction over the naturals, for a set.
LEMMA Induction ==
    ASSUME NEW S, 0 \in S, \A n \in Nat : n \in S => n + 1 \in S
    PROVE  \A n \in Nat : n \in S
<1> SUFFICES ASSUME NEW k \in Nat, k \notin S PROVE FALSE
  OBVIOUS
<1>1. PICK n \in Nat \ S : \A m \in Nat \ S : n <= m
  BY Least
<1>2. n # 0 /\ n - 1 \in Nat /\ n - 1 \in S
  BY <1>1
<1> QED
  BY <1>1, <1>2

-----------------------------------------------------------------------------
(* Cumulative sizes.                                                       *)

IsCumSum(c, sizes, n) ==
    /\ c \in [0 .. n -> Nat]
    /\ c[0] = 0
    /\ \A i \in 1 .. n : c[i] = c[i - 1] + sizes[i]

LEMMA CumSumExists ==
    ASSUME NEW n \in Nat, NEW sizes \in [1 .. n -> Nat]
    PROVE  \E c : IsCumSum(c, sizes, n)
<1> DEFINE S == {k \in Nat : k <= n => \E c : IsCumSum(c, sizes, k)}
<1>1. 0 \in S
  <2>1. IsCumSum([i \in 0 .. 0 |-> 0], sizes, 0)
    BY DEF IsCumSum
  <2> QED BY <2>1
<1>2. \A k \in Nat : k \in S => k + 1 \in S
  <2> SUFFICES ASSUME NEW k \in Nat, k + 1 <= n, NEW c, IsCumSum(c, sizes, k)
               PROVE  \E d : IsCumSum(d, sizes, k + 1)
    OBVIOUS
  <2> DEFINE d == [i \in 0 .. k + 1 |-> IF i = k + 1 THEN c[k] + sizes[k + 1] ELSE c[i]]
  <2>1. d \in [0 .. k + 1 -> Nat]
    BY DEF IsCumSum
  <2>2. d[0] = 0
    BY DEF IsCumSum
  <2>3. ASSUME NEW i \in 1 .. k + 1
        PROVE  d[i] = d[i - 1] + sizes[i]
    <3>1. d[i - 1] = c[i - 1]
      OBVIOUS
    <3>2. CASE i = k + 1
      BY <3>1, <3>2
    <3>3. CASE i \in 1 .. k
      BY <3>1, <3>3 DEF IsCumSum
    <3> QED BY <3>2, <3>3
  <2> HIDE DEF d
  <2>4. IsCumSum(d, sizes, k + 1)
    BY <2>1, <2>2, <2>3 DEF IsCumSum
  <2> QED BY <2>4
<1> HIDE DEF S
<1>3. n \in S
  BY <1>1, <1>2, Induction
<1> QED
  BY <1>3 DEF S

\* The recursive function is the cumulative sum: one exists, as a function up
\* to each place, and what is chosen agrees with it at each.
LEMMA CumSumProperties ==
    ASSUME NEW n \in Nat, NEW sizes \in [1 .. n -> Nat]
    PROVE  IsCumSum(CumSum(sizes), sizes, n)
<1>1. Len(sizes) = n
  OBVIOUS
<1>2. PICK c : IsCumSum(c, sizes, n)
  BY CumSumExists
<1>3. c = [i \in 0 .. n |-> IF i = 0 THEN 0 ELSE c[i - 1] + sizes[i]]
  BY <1>2 DEF IsCumSum
<1>4. PICK d : d = CumSum(sizes)
  OBVIOUS
<1>5. d = [i \in 0 .. n |-> IF i = 0 THEN 0 ELSE d[i - 1] + sizes[i]]
  BY <1>1, <1>3, <1>4, Zenon DEF CumSum
<1> DEFINE S == {k \in Nat : k <= n => d[k] = c[k]}
<1>6. 0 \in S
  BY <1>5, <1>2 DEF IsCumSum
<1>7. \A k \in Nat : k \in S => k + 1 \in S
  BY <1>5, <1>2 DEF IsCumSum
<1> HIDE DEF S
<1>8. \A k \in Nat : k \in S
  BY <1>6, <1>7, Induction
<1>9. \A k \in 0 .. n : d[k] = c[k]
  BY <1>8 DEF S
<1>10. d = c
  BY <1>9, <1>5, <1>3
<1> QED
  BY <1>10, <1>2, <1>4
LEMMA CumSumStep ==
    ASSUME NEW n \in Nat, NEW sizes \in [1 .. n -> Nat]
    PROVE  /\ \A m \in 0 .. n : CumSum(sizes)[m] \in Nat
           /\ CumSum(sizes)[0] = 0
           /\ \A m \in 0 .. n - 1 : CumSum(sizes)[m + 1] = CumSum(sizes)[m] + sizes[m + 1]
<1> PICK c : c = CumSum(sizes)
  OBVIOUS
<1>1. IsCumSum(c, sizes, n)
  BY CumSumProperties
<1>2. \A m \in 0 .. n - 1 : m + 1 \in 1 .. n /\ (m + 1) - 1 = m
  OBVIOUS
<1>3. \A m \in 0 .. n - 1 : c[m + 1] = c[m] + sizes[m + 1]
  <2> SUFFICES ASSUME NEW m \in 0 .. n - 1 PROVE c[m + 1] = c[m] + sizes[m + 1]
    OBVIOUS
  <2>1. c[m + 1] = c[(m + 1) - 1] + sizes[m + 1]
    BY <1>1, <1>2 DEF IsCumSum
  <2> QED BY <2>1, <1>2
<1> QED
  BY <1>1, <1>3 DEF IsCumSum

LEMMA CumSumBounded ==
    ASSUME NEW n \in Nat, NEW sizes \in [1 .. n -> Nat]
    PROVE  \A m \in 0 .. n : CumSum(sizes)[m] <= CumSum(sizes)[n]
<1> PICK c : c = CumSum(sizes)
  OBVIOUS
<1>1. /\ \A m \in 0 .. n : c[m] \in Nat
      /\ \A m \in 0 .. n - 1 : c[m + 1] = c[m] + sizes[m + 1]
  BY CumSumStep
<1> DEFINE S == {k \in Nat : k <= n => c[n - k] <= c[n]}
<1>2. 0 \in S
  BY <1>1
<1>3. ASSUME NEW k \in Nat, k \in S
      PROVE  k + 1 \in S
  <2> SUFFICES ASSUME k + 1 <= n PROVE c[n - (k + 1)] <= c[n]
    OBVIOUS
  <2> PICK m \in 0 .. n - 1 : m = n - (k + 1)
    OBVIOUS
  <2>1. m + 1 = n - k
    OBVIOUS
  <2>2. c[m + 1] <= c[n]
    BY <1>3, <2>1
  <2>3. c[m + 1] = c[m] + sizes[m + 1] /\ sizes[m + 1] \in Nat /\ c[m] \in Nat /\ c[m + 1] \in Nat /\ c[n] \in Nat
    BY <1>1
  <2> QED BY <2>2, <2>3
<1> HIDE DEF S
<1>4. \A k \in Nat : k \in S
  BY <1>2, <1>3, Induction
<1>5. ASSUME NEW m \in 0 .. n
      PROVE  c[m] <= c[n]
  <2>1. n - m \in S /\ n - (n - m) = m
    BY <1>4
  <2> QED BY <2>1 DEF S
<1> QED
  BY <1>5

\* Equal sizes add up to multiples.
LEMMA CumSumEqual ==
    ASSUME NEW n \in Nat, NEW e \in Nat
    PROVE  \A m \in 0 .. n : CumSum([j \in 1 .. n |-> e])[m] = m * e
<1> PICK sizes : sizes = [j \in 1 .. n |-> e]
  OBVIOUS
<1> PICK c : c = CumSum(sizes)
  OBVIOUS
<1>0. sizes \in [1 .. n -> Nat]
  OBVIOUS
<1>1. /\ c[0] = 0
      /\ \A m \in 0 .. n - 1 : c[m + 1] = c[m] + sizes[m + 1]
  BY <1>0, CumSumStep
<1> DEFINE S == {k \in Nat : k <= n => c[k] = k * e}
<1>2. 0 \in S
  BY <1>1
<1>3. ASSUME NEW k \in Nat, k \in S
      PROVE  k + 1 \in S
  <2> SUFFICES ASSUME k + 1 <= n PROVE c[k + 1] = (k + 1) * e
    OBVIOUS
  <2>1. c[k + 1] = c[k] + e
    BY <1>1
  <2>2. c[k] = k * e
    BY <1>3
  <2> QED BY <2>1, <2>2
<1> HIDE DEF S
<1>4. \A k \in Nat : k \in S
  BY <1>2, <1>3, Induction
<1> QED
  BY <1>4 DEF S

-----------------------------------------------------------------------------
(* Runs of consecutive samples.                                            *)

\* The `count` samples after sample a.
Run(a, count) == [j \in 1 .. count |-> a + j]

LEMMA RunConcat ==
    ASSUME NEW a \in Nat, NEW k \in Nat, NEW l \in Nat
    PROVE  Run(a, k) \o Run(a + k, l) = Run(a, k + l)
BY DEF Run

LEMMA RunJoin ==
    ASSUME NEW o \in Nat, NEW p \in Nat, NEW q \in Nat, o <= p, p <= q
    PROVE  Run(o, p - o) \o Run(p, q - p) = Run(o, q - o)
<1> PICK x \in Nat : x = p - o
  OBVIOUS
<1> PICK y \in Nat : y = q - p
  OBVIOUS
<1>1. o + x = p
  OBVIOUS
<1>2. x + y = q - o
  OBVIOUS
<1>3. Run(o, x) \o Run(o + x, y) = Run(o, x + y)
  BY RunConcat
<1> QED
  BY <1>1, <1>2, <1>3, Zenon

LEMMA RunSubSeq ==
    ASSUME NEW a \in Nat, NEW n \in Nat, NEW s \in 0 .. n, NEW e \in s .. n
    PROVE  SubSeq(Run(a, n), s + 1, e) = Run(a + s, e - s)
BY DEF Run

\* Pieces that meet at the boundaries b make up one run.
LEMMA FlattenRuns ==
    ASSUME NEW n \in Nat \ {0}, NEW b \in [0 .. n -> Nat],
           \A i \in 1 .. n : b[i - 1] <= b[i],
           NEW seqs, seqs = [i \in 1 .. n |-> Run(b[i - 1], b[i] - b[i - 1])]
    PROVE  FlattenSeq(seqs) = Run(b[0], b[n] - b[0])
<1>1. Len(seqs) = n
  OBVIOUS
<1> DEFINE flat == [i \in 1 .. n |-> Run(b[0], b[i] - b[0])]
<1> DEFINE S == {k \in Nat : k <= n => b[0] <= b[k]}
<1>2. 0 \in S
  OBVIOUS
<1>3. ASSUME NEW k \in Nat, k \in S
      PROVE  k + 1 \in S
  <2> SUFFICES ASSUME k + 1 <= n PROVE b[0] <= b[k + 1]
    OBVIOUS
  <2>1. k + 1 \in 1 .. n /\ (k + 1) - 1 = k
    OBVIOUS
  <2>2. b[(k + 1) - 1] <= b[k + 1]
    BY <2>1
  <2>3. b[0] \in Nat /\ b[k] \in Nat /\ b[k + 1] \in Nat
    OBVIOUS
  <2> QED BY <1>3, <2>1, <2>2, <2>3
<1> HIDE DEF S
<1>4. \A k \in Nat : k \in S
  BY <1>2, <1>3, Induction
<1>5. \A k \in 0 .. n : b[0] <= b[k] /\ b[k] \in Nat
  BY <1>4 DEF S
<1>6. ASSUME NEW i \in 1 .. n, i # 1
      PROVE  flat[i] = flat[i - 1] \o seqs[i]
  <2>1. i - 1 \in 0 .. n /\ i \in 0 .. n /\ 0 \in 0 .. n /\ i - 1 \in 1 .. n
    BY <1>6
  <2>2. b[i - 1] \in Nat /\ b[i] \in Nat /\ b[0] \in Nat
    BY <2>1
  <2> PICK o \in Nat, p \in Nat, q \in Nat : o = b[0] /\ p = b[i - 1] /\ q = b[i]
    BY <2>2
  <2>3. o <= p /\ p <= q
    BY <1>5, <2>1
  <2>4. flat[i - 1] = Run(o, p - o) /\ seqs[i] = Run(p, q - p) /\ flat[i] = Run(o, q - o)
    BY <2>1
  <2> HIDE DEF flat
  <2>5. Run(o, p - o) \o Run(p, q - p) = Run(o, q - o)
    BY <2>3, RunJoin
  <2> QED BY <2>4, <2>5
<1>7. flat[1] = seqs[1]
  OBVIOUS
<1> PICK f : f = flat
  OBVIOUS
<1>8. f = [i \in 1 .. n |-> IF i = 1 THEN seqs[i] ELSE f[i - 1] \o seqs[i]]
  BY <1>6, <1>7
<1>9. PICK g : /\ g = [i \in 1 .. n |-> IF i = 1 THEN seqs[i] ELSE g[i - 1] \o seqs[i]]
               /\ FlattenSeq(seqs) = g[n]
  BY <1>1, <1>8, Zenon DEF FlattenSeq
<1> DEFINE R == {k \in Nat : k + 1 <= n => g[k + 1] = f[k + 1]}
<1>10. 0 \in R
  BY <1>8, <1>9
<1>11. ASSUME NEW k \in Nat, k \in R
       PROVE  k + 1 \in R
  <2> SUFFICES ASSUME k + 2 <= n PROVE g[k + 2] = f[k + 2]
    OBVIOUS
  <2>1. g[k + 1] = f[k + 1]
    BY <1>11
  <2>2. k + 2 \in 1 .. n /\ k + 2 # 1 /\ (k + 2) - 1 = k + 1
    OBVIOUS
  <2>3. f[k + 2] = f[(k + 2) - 1] \o seqs[k + 2]
    BY <1>8, <2>2, Zenon
  <2>4. g[k + 2] = g[(k + 2) - 1] \o seqs[k + 2]
    BY <1>9, <2>2, Zenon
  <2> QED BY <2>1, <2>2, <2>3, <2>4, Zenon
<1> HIDE DEF R, flat
<1>12. \A k \in Nat : k \in R
  BY <1>10, <1>11, Induction
<1>13. n - 1 \in R /\ (n - 1) + 1 = n
  BY <1>12
<1>14. g[n] = f[n]
  BY <1>13 DEF R
<1>15. f[n] = Run(b[0], b[n] - b[0])
  BY DEF flat
<1> QED
  BY <1>9, <1>14, <1>15, Zenon

IsSeqOfRuns(seqs, n, x, y) ==
    /\ seqs = [i \in 1 .. n |-> seqs[i]]
    /\ \E b \in [0 .. n -> Nat] :
          /\ b[0] = x /\ b[n] = y
          /\ \A i \in 1 .. n : b[i - 1] <= b[i] /\ seqs[i] = Run(b[i - 1], b[i] - b[i - 1])

LEMMA FlattenSeqOfRuns ==
    ASSUME NEW n \in Nat \ {0}, NEW seqs, NEW x, NEW y, IsSeqOfRuns(seqs, n, x, y)
    PROVE  FlattenSeq(seqs) = Run(x, y - x)
<1>1. PICK b \in [0 .. n -> Nat] :
          /\ b[0] = x /\ b[n] = y
          /\ \A i \in 1 .. n : b[i - 1] <= b[i] /\ seqs[i] = Run(b[i - 1], b[i] - b[i - 1])
  BY DEF IsSeqOfRuns
<1>2. seqs = [i \in 1 .. n |-> Run(b[i - 1], b[i] - b[i - 1])]
  BY <1>1, Zenon DEF IsSeqOfRuns
<1>3. \A i \in 1 .. n : b[i - 1] <= b[i]
  BY <1>1
<1>4. FlattenSeq(seqs) = Run(b[0], b[n] - b[0])
  BY <1>2, <1>3, FlattenRuns, Zenon
<1> QED
  BY <1>1, <1>4, Zenon

-----------------------------------------------------------------------------
(* Arithmetic.                                                             *)

LEMMA Times ==
    ASSUME NEW e \in Nat
    PROVE  /\ \A a \in Nat : a * e \in Nat
           /\ \A a \in Nat : (a + 1) * e = (a * e) + e
           /\ \A a, b \in Nat : (a + b) * e = (a * e) + (b * e)
           /\ \A a, b \in Nat : a <= b => a * e <= b * e
<1>1. \A a \in Nat : a * e \in Nat
  OBVIOUS
<1>2. \A a \in Nat : (a + 1) * e = (a * e) + e
  OBVIOUS
<1>3. \A a, b \in Nat : (a + b) * e = (a * e) + (b * e)
  OBVIOUS
<1>4. ASSUME NEW a \in Nat, NEW b \in Nat, a <= b
      PROVE  a * e <= b * e
  <2> PICK d \in Nat : d = b - a
    BY <1>4
  <2>1. b = a + d
    OBVIOUS
  <2>2. b * e = (a * e) + (d * e)
    BY <2>1, <1>3
  <2>3. a * e \in Nat /\ d * e \in Nat
    BY <1>1
  <2> QED BY <2>2, <2>3
<1> QED
  BY <1>1, <1>2, <1>3, <1>4

LEMMA DivBounds ==
    ASSUME NEW x \in Nat, NEW e \in Nat \ {0}
    PROVE  /\ x \div e \in Nat
           /\ (x \div e) * e <= x
           /\ x < ((x \div e) * e) + e
OBVIOUS

LEMMA MaxOfTwo ==
    ASSUME NEW x \in Int, NEW y \in Int
    PROVE  Max({x, y}) = IF x >= y THEN x ELSE y
BY DEF Max

LEMMA MinOfTwo ==
    ASSUME NEW x \in Int, NEW y \in Int
    PROVE  Min({x, y}) = IF x <= y THEN x ELSE y
BY DEF Min

\* The bases a microbatch reaches into, from the first to the last.
LEMMA FirstToLast ==
    ASSUME NEW e \in Nat \ {0}, NEW start \in Nat, NEW end \in Nat, start < end,
           NEW first, first = start \div e, NEW last, last = (end - 1) \div e
    PROVE  /\ first \in Nat /\ last \in Nat /\ first <= last
           /\ first * e <= start /\ start < (first * e) + e
           /\ last * e < end /\ end <= (last * e) + e
<1> end - 1 \in Nat
  OBVIOUS
<1>1. /\ first \in Nat /\ first * e <= start /\ start < (first * e) + e
      /\ last \in Nat /\ last * e <= end - 1 /\ end - 1 < (last * e) + e
  BY DivBounds
<1>2. (last + 1) * e = (last * e) + e /\ first * e \in Nat /\ last * e \in Nat
  BY <1>1, Times
<1>3. ASSUME last + 1 <= first
      PROVE  FALSE
  <2>1. (last + 1) * e <= first * e
    BY <1>1, <1>3, Times
  <2> QED BY <2>1, <1>1, <1>2
<1> QED
  BY <1>1, <1>2, <1>3

-----------------------------------------------------------------------------
(* Cutting a microbatch out of the bases.                                  *)

Fst(start, e) == start \div e
Lst(end, e) == (end - 1) \div e

\* Where the piece of the i-th base starts and ends in it.
Lo(i, start, e) == IF i = 1 THEN start - (Fst(start, e) * e) ELSE 0
Hi(i, start, end, e) ==
    IF i = (Lst(end, e) - Fst(start, e)) + 1 THEN end - (Lst(end, e) * e) ELSE e

NumPieces(start, end, e) == (Lst(end, e) - Fst(start, e)) + 1

\* The pieces as runs of the stream, from base `base` on ...
Pieces(start, end, base, e) ==
    [i \in 1 .. NumPieces(start, end, e) |->
        Run(((base + Fst(start, e) + i - 1) * e) + Lo(i, start, e), Hi(i, start, end, e) - Lo(i, start, e))]

\* ... and as they are cut from a cache.
Slices(cache, start, end) ==
    [i \in 1 .. NumPieces(start, end, EqualMbSize) |->
        SliceBatch(cache[(Fst(start, EqualMbSize) + i - 1) + 1],
                   Lo(i, start, EqualMbSize), Hi(i, start, end, EqualMbSize))]

\* What every way of cutting comes to.
LEMMA PiecesJoin ==
    ASSUME NEW e \in Nat \ {0}, NEW start \in Nat, NEW end \in Nat, start < end,
           NEW base \in Nat
    PROVE  FlattenSeq(Pieces(start, end, base, e)) = Run((base * e) + start, end - start)
<1> PICK first, last : first = start \div e /\ last = (end - 1) \div e
  OBVIOUS
<1> PICK n : n = (last - first) + 1
  OBVIOUS
<1> PICK lo : lo = [i \in 1 .. n |-> IF i = 1 THEN start - (first * e) ELSE 0]
  OBVIOUS
<1> PICK hi : hi = [i \in 1 .. n |-> IF i = n THEN end - (last * e) ELSE e]
  OBVIOUS
<1> PICK pieces :
        pieces = [i \in 1 .. n |-> Run(((base + first + i - 1) * e) + lo[i], hi[i] - lo[i])]
  OBVIOUS
<1>0. pieces = Pieces(start, end, base, e)
  <2>1. \A i \in 1 .. n : lo[i] = Lo(i, start, e) /\ hi[i] = Hi(i, start, end, e)
    BY DEF Lo, Hi, Fst, Lst
  <2>2. n = NumPieces(start, end, e)
    BY DEF NumPieces, Fst, Lst
  <2> QED BY <2>1, <2>2 DEF Pieces, Fst
<1>1. /\ first \in Nat /\ last \in Nat /\ first <= last
      /\ first * e <= start /\ start < (first * e) + e
      /\ last * e < end /\ end <= (last * e) + e
  BY FirstToLast
<1>2. n \in Nat \ {0}
  BY <1>1
<1>3. base * e \in Nat /\ first * e \in Nat /\ last * e \in Nat /\ (first + n) * e = (last * e) + e
  <2>1. first + n = last + 1
    BY <1>1
  <2> QED BY <1>1, <2>1, Times
<1> DEFINE at(i) == (base + first + i) * e
<1>4. ASSUME NEW i \in 0 .. n
      PROVE  at(i) \in Nat /\ at(i) = (base * e) + (first * e) + (i * e)
  <2>1. i \in Nat /\ base + first \in Nat
    BY <1>1, <1>2
  <2>2. at(i) = ((base + first) * e) + (i * e)
    BY <2>1, Times
  <2>3. (base + first) * e = (base * e) + (first * e)
    BY <1>1, Times
  <2>4. at(i) \in Nat
    BY <2>1, Times
  <2> QED BY <2>2, <2>3, <2>4
<1>5. ASSUME NEW i \in 1 .. n
      PROVE  at(i) = at(i - 1) + e
  <2>1. i - 1 \in Nat /\ (i - 1) + 1 = i /\ i \in 0 .. n /\ i - 1 \in 0 .. n
    BY <1>2
  <2>2. i * e = ((i - 1) * e) + e /\ (i - 1) * e \in Nat
    BY <2>1, Times
  <2> QED BY <2>1, <2>2, <1>4, <1>3
<1>6. at(0) = (base * e) + (first * e)
  <2>1. 0 * e = 0 /\ 0 \in 0 .. n
    BY <1>2
  <2>2. at(0) = (base * e) + (first * e) + (0 * e)
    BY <2>1, <1>4
  <2> QED BY <2>1, <2>2, <1>3
<1>7. at(n) = (base * e) + (last * e) + e
  <2>1. (first + n) * e = (first * e) + (n * e) /\ n * e \in Nat /\ n \in 0 .. n
    BY <1>1, <1>2, Times
  <2> QED BY <2>1, <1>3, <1>4
<1> HIDE DEF at
<1> PICK b : b = [i \in 0 .. n |-> IF i = 0 THEN (base * e) + start
                                   ELSE IF i = n THEN (base * e) + end ELSE at(i)]
  OBVIOUS
<1>8. b \in [0 .. n -> Nat]
  BY <1>3, <1>4
<1>9. ASSUME NEW i \in 1 .. n
      PROVE  /\ at(i - 1) + lo[i] = b[i - 1] /\ hi[i] - lo[i] = b[i] - b[i - 1]
             /\ b[i - 1] <= b[i]
  <2> PICK j \in 0 .. n - 1 : j = i - 1
    BY <1>2
  <2> PICK u, v : u = at(j) /\ v = at(i)
    OBVIOUS
  <2>1. u \in Nat /\ v \in Nat /\ v = u + e
    BY <1>2, <1>4, <1>5
  <2>2. b[j] = u + lo[i]
    <3>1. CASE i = 1
      BY <3>1, <1>3, <1>6, <1>2
    <3>2. CASE i # 1
      <4>1. j # 0 /\ j # n /\ j \in 0 .. n
        BY <3>2, <1>2
      <4>2. b[j] = u /\ lo[i] = 0
        BY <4>1, <3>2
      <4> QED BY <4>2, <2>1
    <3> QED BY <3>1, <3>2
  <2>3. b[i] = u + hi[i]
    <3>1. CASE i = n
      <4>1. b[i] = (base * e) + end /\ hi[i] = end - (last * e)
        BY <3>1, <1>2
      <4>2. v = (base * e) + (last * e) + e
        BY <3>1, <1>7
      <4> PICK B \in Nat, L \in Nat : B = base * e /\ L = last * e
        BY <1>3
      <4>3. b[i] = B + end /\ hi[i] = end - L /\ v = B + L + e
        BY <4>1, <4>2
      <4>4. u = B + L
        BY <4>3, <2>1
      <4>5. B + end = u + (end - L)
        BY <4>4
      <4> QED BY <4>3, <4>5, Zenon
    <3>2. CASE i # n
      <4>1. b[i] = v /\ hi[i] = e
        BY <3>2, <1>2
      <4> QED BY <4>1, <2>1
    <3> QED BY <3>1, <3>2
  <2>4. lo[i] \in Nat /\ hi[i] \in Nat /\ lo[i] <= hi[i]
    <3>1. lo[i] = (IF i = 1 THEN start - (first * e) ELSE 0)
      OBVIOUS
    <3>2. hi[i] = (IF i = n THEN end - (last * e) ELSE e)
      OBVIOUS
    <3>3. i = 1 /\ i = n => first = last
      BY <1>1
    <3> QED BY <3>1, <3>2, <3>3, <1>1, <1>3
  <2> PICK l \in Nat, h \in Nat : l = lo[i] /\ h = hi[i]
    BY <2>4
  <2>5. b[j] = u + l /\ b[i] = u + h /\ l <= h
    BY <2>2, <2>3, <2>4
  <2>6. b[j] <= b[i] /\ h - l = b[i] - b[j]
    BY <2>1, <2>5
  <2> QED BY <2>2, <2>6
<1>10. ASSUME NEW i \in 1 .. n
       PROVE  (base + first + i - 1) * e = at(i - 1)
  <2>1. base + first + i - 1 = base + first + (i - 1)
    BY <1>1
  <2> QED BY <2>1 DEF at
<1>11. ASSUME NEW i \in 1 .. n
       PROVE  pieces[i] = Run(b[i - 1], b[i] - b[i - 1])
  <2>1. ((base + first + i - 1) * e) + lo[i] = b[i - 1]
    <3>1. at(i - 1) + lo[i] = b[i - 1]
      BY <1>9
    <3>2. (base + first + i - 1) * e = at(i - 1)
      BY <1>10
    <3> QED BY <3>1, <3>2, Zenon
  <2>2. hi[i] - lo[i] = b[i] - b[i - 1]
    BY <1>9
  <2>3. pieces[i] = Run(((base + first + i - 1) * e) + lo[i], hi[i] - lo[i])
    BY Zenon
  <2> QED BY <2>1, <2>2, <2>3, Zenon
<1>12. b[0] = (base * e) + start /\ b[n] = (base * e) + end
  BY <1>2
<1>13. \A i \in 1 .. n : b[i - 1] <= b[i] /\ pieces[i] = Run(b[i - 1], b[i] - b[i - 1])
  BY <1>9, <1>11
<1>14. IsSeqOfRuns(pieces, n, (base * e) + start, (base * e) + end)
  BY <1>8, <1>12, <1>13, Zenon DEF IsSeqOfRuns
<1>15. FlattenSeq(pieces) = Run((base * e) + start, ((base * e) + end) - ((base * e) + start))
  <2> PICK x, y : x = (base * e) + start /\ y = (base * e) + end
    OBVIOUS
  <2>1. IsSeqOfRuns(pieces, n, x, y)
    BY <1>14
  <2>2. FlattenSeq(pieces) = Run(x, y - x)
    BY <1>2, <2>1, FlattenSeqOfRuns
  <2> QED BY <2>2
<1>16. ((base * e) + end) - ((base * e) + start) = end - start
  BY <1>3
<1> QED
  BY <1>0, <1>15, <1>16, Zenon

-----------------------------------------------------------------------------
\* Where a microbatch starts and ends when the sizes fit; the last one needs
\* the last base.
LEMMA FitFacts ==
    ASSUME NEW sizes, Fit(sizes), NEW m \in Mbs
    PROVE  /\ Start(sizes, m) \in Nat /\ End(sizes, m) \in Nat
           /\ End(sizes, m) = Start(sizes, m) + sizes[m + 1]
           /\ Start(sizes, m) < End(sizes, m)
           /\ End(sizes, m) <= NumMb * EqualMbSize
           /\ LastBase(End(sizes, m)) \in 0 .. NumMb - 1
           /\ m = NumMb - 1 => LastBase(End(sizes, m)) = NumMb - 1
<1>1. NumMb \in Nat \ {0} /\ EqualMbSize \in Nat \ {0}
  BY SizesAssumption
<1>2. sizes \in [1 .. NumMb -> Nat \ {0}] /\ Len(sizes) = NumMb
  BY <1>1 DEF Fit
<1>3. PICK c : c = CumSum(sizes)
  OBVIOUS
<1>4. c[NumMb] = NumMb * EqualMbSize
  BY <1>2, <1>3 DEF Fit, SumOf, N
<1>5. m \in 0 .. NumMb - 1 /\ m + 1 \in 1 .. NumMb /\ m \in 0 .. NumMb /\ m + 1 \in 0 .. NumMb
  BY <1>1 DEF Mbs
<1>6. sizes \in [1 .. NumMb -> Nat]
  BY <1>2
<1>7. /\ c[m] \in Nat /\ c[m + 1] \in Nat
      /\ c[m + 1] = c[m] + sizes[m + 1]
  BY <1>1, <1>3, <1>5, <1>6, CumSumStep
<1>8. c[m + 1] <= c[NumMb]
  BY <1>1, <1>3, <1>5, <1>6, CumSumBounded
<1>9. sizes[m + 1] \in Nat \ {0}
  BY <1>2, <1>5
<1>10. PICK s, t : s = Start(sizes, m) /\ t = End(sizes, m)
  OBVIOUS
<1>11. s = c[m] /\ t = c[m + 1]
  BY <1>3, <1>10 DEF Start, End
<1>12. /\ s \in Nat /\ t \in Nat /\ t = s + sizes[m + 1] /\ s < t /\ t <= NumMb * EqualMbSize
  BY <1>4, <1>7, <1>8, <1>9, <1>11
<1>13. LastBase(t) \in 0 .. NumMb - 1
  <2>1. PICK l : l = LastBase(t)
    OBVIOUS
  <2>2. l \in Nat /\ l * EqualMbSize <= t - 1
    <3>1. t - 1 \in Nat
      BY <1>12
    <3> QED BY <1>1, <2>1, <3>1, DivBounds DEF LastBase
  <2>3. l >= NumMb => NumMb * EqualMbSize <= l * EqualMbSize
    BY <1>1, <2>2, Times
  <2>4. l * EqualMbSize \in Nat /\ NumMb * EqualMbSize \in Nat
    BY <1>1, <2>2, Times
  <2> QED BY <1>1, <1>12, <2>1, <2>2, <2>3, <2>4
<1>14. m = NumMb - 1 => LastBase(t) = NumMb - 1
  <2> SUFFICES ASSUME m = NumMb - 1 PROVE LastBase(t) = NumMb - 1
    OBVIOUS
  <2>1. t = NumMb * EqualMbSize
    <3>1. m + 1 = NumMb
      BY <1>1
    <3> QED BY <3>1, <1>4, <1>11
  <2>2. PICK l : l = LastBase(t)
    OBVIOUS
  <2>3. l \in Nat /\ t - 1 < (l * EqualMbSize) + EqualMbSize
    <3>1. t - 1 \in Nat
      BY <1>12
    <3> QED BY <1>1, <2>2, <3>1, DivBounds DEF LastBase
  <2>4. (l + 1) * EqualMbSize = (l * EqualMbSize) + EqualMbSize /\ (l + 1) * EqualMbSize \in Nat
    BY <1>1, <2>3, Times
  <2>5. PICK p \in Nat : p = NumMb - 1
    BY <1>1
  <2>6. NumMb * EqualMbSize = (p * EqualMbSize) + EqualMbSize /\ p * EqualMbSize \in Nat
    BY <1>1, <2>5, Times
  <2>7. l < p => (l + 1) * EqualMbSize <= p * EqualMbSize
    BY <1>1, <2>3, <2>5, Times
  <2>8. l \in 0 .. p
    BY <1>13, <2>2, <2>5
  <2>9. ~(l < p)
    BY <1>1, <1>12, <2>1, <2>3, <2>4, <2>6, <2>7
  <2> QED BY <2>2, <2>3, <2>5, <2>8, <2>9
<1> QED
  BY <1>10, <1>12, <1>13, <1>14

LEMMA SliceOfBatch ==
    ASSUME NEW i \in Nat, NEW s \in 0 .. EqualMbSize, NEW t \in s .. EqualMbSize
    PROVE  SliceBatch(Batch(i + 1), s, t) = Run((i * EqualMbSize) + s, t - s)
<1>1. EqualMbSize \in Nat
  BY SizesAssumption
<1>2. i * EqualMbSize \in Nat
  BY <1>1, Times
<1>3. Batch(i + 1) = Run(i * EqualMbSize, EqualMbSize)
  <2>1. (i + 1) - 1 = i
    OBVIOUS
  <2> QED BY <2>1, Zenon DEF Batch, Run
<1> QED
  BY <1>1, <1>2, <1>3, RunSubSeq, Zenon DEF SliceBatch

LEMMA LoHi ==
    ASSUME NEW e \in Nat \ {0}, NEW start \in Nat, NEW end \in Nat, start < end,
           NEW i \in 1 .. (Lst(end, e) - Fst(start, e)) + 1
    PROVE  Lo(i, start, e) \in 0 .. e /\ Hi(i, start, end, e) \in Lo(i, start, e) .. e
<1>1. PICK first, last : first = Fst(start, e) /\ last = Lst(end, e)
  OBVIOUS
<1>2. /\ first \in Nat /\ last \in Nat /\ first <= last
      /\ first * e <= start /\ start < (first * e) + e
      /\ last * e < end /\ end <= (last * e) + e
  BY <1>1, FirstToLast DEF Fst, Lst
<1>3. PICK f, l : f = first * e /\ l = last * e
  OBVIOUS
<1>4. f \in Nat /\ l \in Nat
  BY <1>2, <1>3, Times
<1>5. f <= start /\ start < f + e /\ l < end /\ end <= l + e
  BY <1>2, <1>3
<1>6. Lo(i, start, e) = IF i = 1 THEN start - f ELSE 0
  BY <1>1, <1>3, Zenon DEF Lo
<1>7. Hi(i, start, end, e) = IF i = (last - first) + 1 THEN end - l ELSE e
  BY <1>1, <1>3, Zenon DEF Hi
<1>8. i = 1 /\ i = (last - first) + 1 => f = l
  <2>1. i = 1 /\ i = (last - first) + 1 => first = last
    BY <1>2
  <2> QED BY <2>1, <1>3
<1> QED
  BY <1>4, <1>5, <1>6, <1>7, <1>8

\* The cache holds the bases from `base` on.
LEMMA SlicesJoin ==
    ASSUME NEW start \in Nat, NEW end \in Nat, start < end, NEW base \in Nat, NEW cache,
           \A b \in 0 .. LastBase(end) : cache[b + 1] = Batch(base + b + 1)
    PROVE  FlattenSeq(Slices(cache, start, end)) = Run((base * EqualMbSize) + start, end - start)
<1>1. PICK e : e = EqualMbSize
  OBVIOUS
<1>2. e \in Nat \ {0}
  BY <1>1, SizesAssumption
<1>3. PICK first, last : first = Fst(start, e) /\ last = Lst(end, e)
  OBVIOUS
<1>4. first \in Nat /\ last \in Nat /\ first <= last
  BY <1>2, <1>3, FirstToLast DEF Fst, Lst
<1>5. PICK n : n = NumPieces(start, end, e)
  OBVIOUS
<1>6. n = (last - first) + 1 /\ n \in Nat
  BY <1>3, <1>4, <1>5 DEF NumPieces
<1>7. ASSUME NEW i \in 1 .. n, NEW lo, NEW hi, lo = Lo(i, start, e), hi = Hi(i, start, end, e)
      PROVE  SliceBatch(cache[(first + i - 1) + 1], lo, hi)
               = Run(((base + first + i - 1) * e) + lo, hi - lo)
  <2>1. PICK b \in 0 .. last : b = first + i - 1
    BY <1>4, <1>6
  <2>2. cache[b + 1] = Batch((base + b) + 1)
    <3>1. b \in 0 .. LastBase(end)
      BY <2>1, <1>1, <1>3 DEF LastBase, Lst
    <3>2. cache[b + 1] = Batch(base + b + 1)
      BY <3>1
    <3> QED BY <3>2, <1>4
  <2>3. lo \in 0 .. e /\ hi \in lo .. e
    <3>1. i \in 1 .. (Lst(end, e) - Fst(start, e)) + 1
      BY <1>3, <1>6
    <3> QED BY <3>1, <1>2, <1>7, LoHi
  <2>4. base + b \in Nat /\ base + b = base + first + i - 1
    <3>1. b \in Nat /\ first \in Nat /\ i \in Int
      BY <1>4, <1>6
    <3>2. base + b = base + (first + i - 1)
      BY <2>1
    <3> QED BY <3>1, <3>2
  <2>5. SliceBatch(Batch((base + b) + 1), lo, hi) = Run(((base + b) * e) + lo, hi - lo)
    BY <2>3, <2>4, <1>1, SliceOfBatch
  <2> QED BY <2>1, <2>2, <2>4, <2>5, Zenon
<1>8. Slices(cache, start, end) = Pieces(start, end, base, e)
  BY <1>1, <1>3, <1>5, <1>7 DEF Slices, Pieces
<1>9. FlattenSeq(Pieces(start, end, base, e)) = Run((base * e) + start, end - start)
  BY <1>2, PiecesJoin
<1> QED
  BY <1>1, <1>8, <1>9

\* What the lazy path cuts is the run from the start to the end of the microbatch.
LEMMA CutOutJoins ==
    ASSUME NEW sizes, Fit(sizes), NEW m \in Mbs, NEW base \in Nat, NEW cache,
           \A b \in 0 .. LastBase(End(sizes, m)) : cache[b + 1] = Batch(base + b + 1)
    PROVE  CutOut(cache, ChunkSpec(sizes, m))
             = Run((base * EqualMbSize) + Start(sizes, m), End(sizes, m) - Start(sizes, m))
<1> PICK start \in Nat, end \in Nat :
        /\ start = Start(sizes, m) /\ end = End(sizes, m)
        /\ start < end /\ end <= NumMb * EqualMbSize
  BY FitFacts
<1>1. PICK first, last : first = Fst(start, EqualMbSize) /\ last = Lst(end, EqualMbSize)
  OBVIOUS
<1>2. first \in Nat /\ last \in Nat /\ first <= last
  BY <1>1, SizesAssumption, FirstToLast DEF Fst, Lst
<1>3. PICK n : n = (last - first) + 1
  OBVIOUS
<1>4. PICK slices : slices = Slices(cache, start, end)
  OBVIOUS
<1>0. slices = [i \in 1 .. n |-> SliceBatch(cache[(first + i - 1) + 1],
                    Lo(i, start, EqualMbSize), Hi(i, start, end, EqualMbSize))]
  BY <1>1, <1>3, <1>4 DEF Slices, NumPieces
<1>5. FlattenSeq(slices) = Run((base * EqualMbSize) + start, end - start)
  BY <1>4, SlicesJoin
<1>6. PICK spec : spec = ChunkSpec(sizes, m)
  OBVIOUS
<1>7. spec = [first_base |-> first, last_base |-> last,
              base_start |-> start - first * EqualMbSize, base_end |-> end - last * EqualMbSize]
  BY <1>1, <1>6 DEF ChunkSpec, LastBase, Fst, Lst
<1>8. /\ spec.first_base = first /\ spec.last_base = last
      /\ spec.base_start = start - first * EqualMbSize /\ spec.base_end = end - last * EqualMbSize
  BY <1>7
<1>9. ASSUME NEW i \in 1 .. n, NEW b, b = spec.first_base + i - 1
      PROVE  SliceBatch(cache[b + 1], IF b = spec.first_base THEN spec.base_start ELSE 0,
                        IF b = spec.last_base THEN spec.base_end ELSE EqualMbSize)
               = slices[i]
  <2>1. (b = first <=> i = 1) /\ (b = last <=> i = n) /\ b = first + i - 1
    BY <1>2, <1>3, <1>8, <1>9
  <2>2. (IF b = spec.first_base THEN spec.base_start ELSE 0) = Lo(i, start, EqualMbSize)
    BY <2>1, <1>1, <1>8 DEF Lo
  <2>3. (IF b = spec.last_base THEN spec.base_end ELSE EqualMbSize) = Hi(i, start, end, EqualMbSize)
    BY <2>1, <1>1, <1>3, <1>8 DEF Hi
  <2>4. slices[i] = SliceBatch(cache[b + 1], Lo(i, start, EqualMbSize), Hi(i, start, end, EqualMbSize))
    BY <2>1, <1>0
  <2> QED BY <2>2, <2>3, <2>4
<1>10. spec.last_base - spec.first_base + 1 = n
  BY <1>3, <1>8
<1>11. CutOut(cache, spec) = FlattenSeq(slices)
  <2>1. [i \in 1 .. n |-> SliceBatch(cache[(spec.first_base + i - 1) + 1],
                        IF spec.first_base + i - 1 = spec.first_base THEN spec.base_start ELSE 0,
                        IF spec.first_base + i - 1 = spec.last_base THEN spec.base_end ELSE EqualMbSize)]
          = slices
    BY <1>0, <1>9
  <2> QED BY <2>1, <1>10, Zenon DEF CutOut, ConcatBatches
<1> QED
  BY <1>5, <1>6, <1>11

\* The ends of the microbatch, clipped to a base as _refill does.
LEMMA WindowOfBase ==
    ASSUME NEW e \in Nat \ {0}, NEW start \in Nat, NEW end \in Nat, start < end,
           NEW i \in 1 .. NumPieces(start, end, e), NEW b \in Nat, b = Fst(start, e) + i - 1
    PROVE  /\ Max({start - b * e, 0}) = Lo(i, start, e)
           /\ Min({end - b * e, e}) = Hi(i, start, end, e)
<1> PICK first, last : first = Fst(start, e) /\ last = Lst(end, e)
  OBVIOUS
<1>a. /\ first \in Nat /\ last \in Nat /\ first <= last
      /\ first * e <= start /\ start < (first * e) + e
      /\ last * e < end /\ end <= (last * e) + e
  BY FirstToLast DEF Fst, Lst
<1>b. b \in first .. last /\ (b = first <=> i = 1) /\ (b = last <=> i = (last - first) + 1)
  BY <1>a DEF NumPieces
<1> PICK x, f, l : x = b * e /\ f = first * e /\ l = last * e
  OBVIOUS
<1>1. x \in Nat /\ f \in Nat /\ l \in Nat
  BY <1>a, <1>b, Times
<1>2. b # first => f + e <= x
  <2>1. first + 1 <= b => (first + 1) * e <= b * e
    BY <1>a, <1>b, Times
  <2>2. (first + 1) * e = (first * e) + e
    BY <1>a, Times
  <2>3. b # first => first + 1 <= b
    BY <1>a, <1>b
  <2> QED BY <2>1, <2>2, <2>3
<1>3. b # last => x + e <= l
  <2>1. b + 1 <= last => (b + 1) * e <= last * e
    BY <1>a, <1>b, Times
  <2>2. (b + 1) * e = (b * e) + e
    BY <1>a, <1>b, Times
  <2>3. b # last => b + 1 <= last
    BY <1>a, <1>b
  <2> QED BY <2>1, <2>2, <2>3
<1>4. start - x \in Int /\ end - x \in Int
  BY <1>1
<1>5. Max({start - x, 0}) = IF start - x >= 0 THEN start - x ELSE 0
  BY <1>4, MaxOfTwo
<1>6. Min({end - x, e}) = IF end - x <= e THEN end - x ELSE e
  BY <1>4, MinOfTwo
<1>7. Max({start - x, 0}) = (IF b = first THEN start - f ELSE 0)
  <2>1. f <= start /\ start < f + e /\ (b = first => x = f)
    BY <1>a
  <2> QED BY <1>1, <1>2, <1>5, <2>1
<1>8. Min({end - x, e}) = (IF b = last THEN end - l ELSE e)
  <2>1. l < end /\ end <= l + e /\ (b = last => x = l)
    BY <1>a
  <2> QED BY <1>1, <1>3, <1>6, <2>1
<1>9. Lo(i, start, e) = IF b = first THEN start - f ELSE 0
  BY <1>b DEF Lo
<1>10. Hi(i, start, end, e) = IF b = last THEN end - l ELSE e
  BY <1>b DEF Hi
<1> QED
  BY <1>7, <1>8, <1>9, <1>10

\* The pieces as _refill cuts them.
Windows(batches, start, end) ==
    [i \in 1 .. NumPieces(start, end, EqualMbSize) |->
        LET b == Fst(start, EqualMbSize) + i - 1
        IN  SliceBatch(batches[b + 1], Max({start - b * EqualMbSize, 0}),
                       Min({end - b * EqualMbSize, EqualMbSize}))]

LEMMA WindowsAreSlices ==
    ASSUME NEW start \in Nat, NEW end \in Nat, start < end, NEW batches
    PROVE  Windows(batches, start, end) = Slices(batches, start, end)
<1>1. EqualMbSize \in Nat \ {0}
  BY SizesAssumption
<1>2. Fst(start, EqualMbSize) \in Nat
  BY <1>1, DivBounds DEF Fst
<1>3. ASSUME NEW i \in 1 .. NumPieces(start, end, EqualMbSize)
      PROVE  Fst(start, EqualMbSize) + i - 1 \in Nat
  <2>1. NumPieces(start, end, EqualMbSize) \in Int
    <3>1. Lst(end, EqualMbSize) \in Nat
      BY <1>1, FirstToLast DEF Lst
    <3> QED BY <3>1, <1>2 DEF NumPieces
  <2> QED BY <2>1, <1>2
<1>4. ASSUME NEW i \in 1 .. NumPieces(start, end, EqualMbSize),
             NEW b \in Nat, b = Fst(start, EqualMbSize) + i - 1
      PROVE  /\ Max({start - b * EqualMbSize, 0}) = Lo(i, start, EqualMbSize)
             /\ Min({end - b * EqualMbSize, EqualMbSize}) = Hi(i, start, end, EqualMbSize)
  BY <1>1, <1>4, WindowOfBase
<1>5. ASSUME NEW i \in 1 .. NumPieces(start, end, EqualMbSize),
             NEW b, b = Fst(start, EqualMbSize) + i - 1
      PROVE  SliceBatch(batches[b + 1], Max({start - b * EqualMbSize, 0}),
                        Min({end - b * EqualMbSize, EqualMbSize}))
               = SliceBatch(batches[(Fst(start, EqualMbSize) + i - 1) + 1],
                            Lo(i, start, EqualMbSize), Hi(i, start, end, EqualMbSize))
  <2>1. b \in Nat
    BY <1>3, <1>5
  <2> QED BY <2>1, <1>4, <1>5, Zenon
<1> QED
  BY <1>5, Zenon DEF Slices, Windows

\* So is what _refill cuts ...
LEMMA CutByRefillJoins ==
    ASSUME NEW sizes, Fit(sizes), NEW m \in Mbs, NEW base \in Nat, NEW batches,
           \A b \in 0 .. LastBase(End(sizes, m)) : batches[b + 1] = Batch(base + b + 1)
    PROVE  CutByRefill(batches, sizes, m)
             = Run((base * EqualMbSize) + Start(sizes, m), End(sizes, m) - Start(sizes, m))
<1> PICK start \in Nat, end \in Nat :
        /\ start = Start(sizes, m) /\ end = End(sizes, m)
        /\ start < end /\ end <= NumMb * EqualMbSize
  BY FitFacts
<1>1. NumPieces(start, end, EqualMbSize) = LastBase(end) - Fst(start, EqualMbSize) + 1
  BY DEF NumPieces, LastBase, Lst
<1>2. CutByRefill(batches, sizes, m)
        = FlattenSeq(Windows(batches, start, end))
  BY <1>1, Zenon DEF Windows, CutByRefill, ConcatBatches, Fst
<1>3. CutByRefill(batches, sizes, m) = FlattenSeq(Slices(batches, start, end))
  BY <1>2, WindowsAreSlices, Zenon
<1> QED
  BY <1>3, SlicesJoin

\* ... and what _refill_legacy does.
LEMMA CutByLegacyJoins ==
    ASSUME NEW sizes, Fit(sizes), NEW m \in Mbs, NEW base \in Nat,
           NEW n, n = NumMb, NEW batches, batches = [i \in 1 .. n |-> Batch(base + i)]
    PROVE  CutByLegacy(batches, sizes, m)
             = Run((base * EqualMbSize) + Start(sizes, m), End(sizes, m) - Start(sizes, m))
<1> PICK start \in Nat, end \in Nat :
        /\ start = Start(sizes, m) /\ end = End(sizes, m)
        /\ start < end /\ end <= NumMb * EqualMbSize
  BY FitFacts
<1> PICK e : e = EqualMbSize
  OBVIOUS
<1>0. e \in Nat \ {0} /\ n \in Nat \ {0}
  BY SizesAssumption
<1> PICK b : b = [i \in 0 .. n |-> (base + i) * e]
  OBVIOUS
<1>1. b \in [0 .. n -> Nat]
  <2>1. \A i \in 0 .. n : (base + i) * e \in Nat
    BY <1>0, Times
  <2> QED BY <2>1
<1>2. ASSUME NEW i \in 1 .. n
      PROVE  b[i - 1] <= b[i] /\ batches[i] = Run(b[i - 1], b[i] - b[i - 1])
  <2> PICK j \in 0 .. n - 1 : j = i - 1
    BY <1>0
  <2>1. i = j + 1 /\ base + i = (base + j) + 1 /\ base + j \in Nat
    OBVIOUS
  <2>2. b[j] = (base + j) * e /\ b[i] = (base + i) * e
    BY <1>0
  <2>3. (base + i) * e = ((base + j) * e) + e /\ (base + j) * e \in Nat
    BY <2>1, <1>0, Times
  <2>5. Batch((base + j) + 1) = Run((base + j) * e, e)
    <3>1. ((base + j) + 1) - 1 = base + j
      BY <2>1
    <3> QED BY <3>1, Zenon DEF Batch, Run
  <2>6. batches[i] = Batch((base + j) + 1)
    BY <2>1
  <2>7. b[i] - b[j] = e /\ b[j] <= b[i]
    BY <2>2, <2>3, <1>0
  <2> QED BY <2>2, <2>5, <2>6, <2>7, Zenon
<1>3. batches = [i \in 1 .. n |-> batches[i]]
  OBVIOUS
<1>4. IsSeqOfRuns(batches, n, base * e, (base + n) * e)
  <2>1. b[0] = base * e /\ b[n] = (base + n) * e
    BY <1>0
  <2> QED BY <1>1, <1>2, <1>3, <2>1, Zenon DEF IsSeqOfRuns
<1> PICK x, y, w : x = base * e /\ y = (base + n) * e /\ w = n * e
  OBVIOUS
<1>5. FlattenSeq(batches) = Run(x, y - x)
  BY <1>0, <1>4, FlattenSeqOfRuns
<1>6. x \in Nat /\ w \in Nat /\ y - x = w
  BY <1>0, Times
<1>7. SubSeq(Run(x, w), start + 1, end) = Run(x + start, end - start)
  <2>1. start \in 0 .. w /\ end \in start .. w
    BY <1>6
  <2> QED BY <1>6, <2>1, RunSubSeq
<1> QED
  BY <1>5, <1>6, <1>7, Zenon DEF CutByLegacy, SliceBatch, ConcatBatches

-----------------------------------------------------------------------------
EqualSizes == [j \in 1 .. NumMb |-> EqualMbSize]

LEMMA EqualFit ==
    /\ Fit(EqualSizes)
    /\ \A m \in Mbs : /\ Start(EqualSizes, m) = m * EqualMbSize
                      /\ End(EqualSizes, m) = (m + 1) * EqualMbSize
<1>1. NumMb \in Nat \ {0} /\ EqualMbSize \in Nat \ {0}
  BY SizesAssumption
<1>2. \A m \in 0 .. NumMb : CumSum(EqualSizes)[m] = m * EqualMbSize
  BY <1>1, CumSumEqual DEF EqualSizes
<1>3. Len(EqualSizes) = NumMb
  BY <1>1 DEF EqualSizes
<1>4. Fit(EqualSizes)
  <2>1. SumOf(EqualSizes) = NumMb * EqualMbSize
    BY <1>1, <1>2, <1>3 DEF SumOf
  <2>2. EqualSizes \in [1 .. NumMb -> Nat \ {0}]
    BY <1>1 DEF EqualSizes
  <2> QED BY <2>1, <2>2 DEF Fit, N
<1>5. \A m \in Mbs : m \in 0 .. NumMb /\ m + 1 \in 0 .. NumMb
  BY <1>1 DEF Mbs
<1> QED
  BY <1>2, <1>4, <1>5 DEF Start, End

\* The bases taken before iteration it.
Base(it) == (it - 1) * NumMb

\* The samples of a microbatch are a run of the stream.
LEMMA SamplesAreRun ==
    ASSUME NEW sizes, Fit(sizes), NEW m \in Mbs, NEW it \in Nat \ {0}
    PROVE  /\ Base(it) \in Nat
           /\ SamplesOf(sizes, it, m)
                = Run((Base(it) * EqualMbSize) + Start(sizes, m), End(sizes, m) - Start(sizes, m))
<1>1. NumMb \in Nat \ {0} /\ EqualMbSize \in Nat \ {0}
  BY SizesAssumption
<1>2. PICK i \in Nat : i = it - 1
  OBVIOUS
<1>3. i * (NumMb * EqualMbSize) = (i * NumMb) * EqualMbSize
  BY <1>1
<1>4. (it - 1) * N = Base(it) * EqualMbSize
  BY <1>2, <1>3 DEF N, Base
<1>5. Base(it) \in Nat
  BY <1>1, <1>2, Times DEF Base
<1>6. sizes[m + 1] = End(sizes, m) - Start(sizes, m)
  <2>1. End(sizes, m) = Start(sizes, m) + sizes[m + 1] /\ Start(sizes, m) \in Nat
    BY FitFacts
  <2>2. m + 1 \in 1 .. NumMb
    BY <1>1 DEF Mbs
  <2>3. sizes[m + 1] \in Nat
    BY <2>2 DEF Fit
  <2> QED BY <2>1, <2>3
<1> QED
  BY <1>4, <1>5, <1>6, Zenon DEF SamplesOf, Run

-----------------------------------------------------------------------------
(* The next microbatch on each code path.                                  *)

\* The batches a reader got are those of their microbatches.
Right(sizes, data, it, batches) ==
    \A m \in DOMAIN batches : batches[m] = IF data THEN SamplesOf(sizes, it, m) ELSE None

LEMMA GotDomain ==
    ASSUME NEW batches, NEW m, NEW batch
    PROVE  DOMAIN Got(batches, m, batch) = DOMAIN batches \cup {m}
BY DEF Got

LEMMA GotRight ==
    ASSUME NEW sizes, NEW data, NEW it, NEW batches, NEW m, NEW batch,
           Right(sizes, data, it, batches),
           batch = IF data THEN SamplesOf(sizes, it, m) ELSE None
    PROVE  Right(sizes, data, it, Got(batches, m, batch))
BY Zenon DEF Right, Got

\* There is a next forward while microbatches are missing.
LEMMA NextIndex ==
    ASSUME NEW S \in SUBSET Mbs, S # Mbs
    PROVE  Cardinality(S) + 1 \in 1 .. NumMb
<1>1. NumMb \in Nat \ {0}
  BY SizesAssumption
<1>2. IsFiniteSet(Mbs) /\ Cardinality(Mbs) = NumMb
  BY <1>1, FS_Interval DEF Mbs
<1>3. IsFiniteSet(S) /\ Cardinality(S) <= Cardinality(Mbs) /\ Cardinality(S) # Cardinality(Mbs)
  BY <1>2, FS_Subset
<1>4. Cardinality(S) \in Nat
  BY <1>3, FS_CardinalityType
<1> QED
  BY <1>1, <1>2, <1>3, <1>4

\* A reader in an iteration of equal sizes: one base for each forward.
EqualOK(data, it, taken, batches) ==
    \E k \in 0 .. NumMb : DOMAIN batches = 0 .. k - 1 /\ (data => taken = Base(it) + k)

LEMMA EqualNext ==
    ASSUME NEW data \in BOOLEAN, NEW it \in Nat \ {0}, NEW taken, NEW batches, NEW m,
           EqualOK(data, it, taken, batches), DOMAIN batches # Mbs,
           m = [i \in 1 .. NumMb |-> i - 1][Cardinality(DOMAIN batches) + 1],
           NEW batch, batch = IF data THEN Batch(taken + 1) ELSE None
    PROVE  /\ EqualOK(data, it, taken + 1, Got(batches, m, batch))
           /\ m \in Mbs
           /\ batch = IF data THEN SamplesOf(EqualSizes, it, m) ELSE None
<1>1. NumMb \in Nat \ {0} /\ EqualMbSize \in Nat \ {0}
  BY SizesAssumption
<1>2. PICK k \in 0 .. NumMb : DOMAIN batches = 0 .. k - 1 /\ (data => taken = Base(it) + k)
  BY DEF EqualOK
<1>3. k \in 0 .. NumMb - 1
  BY <1>1, <1>2 DEF Mbs
<1>4. Cardinality(DOMAIN batches) = k
  BY <1>1, <1>2, FS_Interval
<1>5. m = k /\ m \in Mbs
  BY <1>1, <1>3, <1>4 DEF Mbs
<1>6. EqualOK(data, it, taken + 1, Got(batches, m, batch))
  <2>1. DOMAIN Got(batches, m, batch) = 0 .. (k + 1) - 1
    <3>1. (0 .. k - 1) \cup {k} = 0 .. (k + 1) - 1
      BY <1>3
    <3>2. DOMAIN Got(batches, m, batch) = DOMAIN batches \cup {m}
      BY GotDomain
    <3> QED BY <3>1, <3>2, <1>2, <1>5
  <2>2. data => taken + 1 = Base(it) + (k + 1)
    <3>1. Base(it) \in Nat
      BY <1>5, EqualFit, SamplesAreRun
    <3> QED BY <3>1, <1>2
  <2>3. k + 1 \in 0 .. NumMb
    BY <1>1, <1>3
  <2> QED BY <2>1, <2>2, <2>3 DEF EqualOK
<1>7. data => Batch(taken + 1) = SamplesOf(EqualSizes, it, m)
  <2> SUFFICES ASSUME data PROVE Batch(taken + 1) = SamplesOf(EqualSizes, it, m)
    OBVIOUS
  <2>1. /\ Base(it) \in Nat
        /\ SamplesOf(EqualSizes, it, m) = Run((Base(it) * EqualMbSize) + (m * EqualMbSize),
                                              ((m + 1) * EqualMbSize) - (m * EqualMbSize))
    BY <1>5, EqualFit, SamplesAreRun
  <2>2. PICK e, x, y, z : /\ e = EqualMbSize /\ x = Base(it) * e /\ y = m * e /\ z = (m + 1) * e
    OBVIOUS
  <2>3. m \in Nat /\ taken = Base(it) + m
    BY <1>2, <1>3, <1>5
  <2>4. x \in Nat /\ y \in Nat /\ z = y + e /\ taken * e = x + y /\ taken \in Nat
    <3>1. PICK B : B = Base(it)
      OBVIOUS
    <3>2. B \in Nat /\ taken = B + m /\ m \in Nat /\ e \in Nat
      BY <1>1, <2>1, <2>2, <2>3, <3>1
    <3>3. x = B * e /\ y = m * e /\ z = (m + 1) * e
      BY <2>2, <3>1
    <3>4. x \in Nat /\ y \in Nat /\ z = y + e
      BY <3>2, <3>3, Times
    <3>5. (B + m) * e = x + y
      BY <3>2, <3>3, Times
    <3> QED BY <3>2, <3>4, <3>5
  <2>5. z - y = e
    BY <1>1, <2>2, <2>4
  <2>6. SamplesOf(EqualSizes, it, m) = Run(taken * e, e)
    BY <2>1, <2>2, <2>4, <2>5, Zenon
  <2>7. Batch(taken + 1) = Run(taken * e, e)
    <3>1. (taken + 1) - 1 = taken
      BY <2>4
    <3> QED BY <3>1, <2>2, Zenon DEF Batch, Run
  <2> QED BY <2>6, <2>7
<1> QED
  BY <1>5, <1>6, <1>7

\* A reader on the lazy path: the cache holds the bases up to the last that
\* a microbatch needed.
LazyOK(sizes, data, it, taken, cache, non_data, batches) ==
    IF data
    THEN /\ non_data = FALSE
         /\ \E c \in 0 .. NumMb :
               /\ cache = [i \in 1 .. c |-> Batch(Base(it) + i)]
               /\ taken = Base(it) + c
               /\ \A m \in DOMAIN batches : LastBase(End(sizes, m)) \in 0 .. c - 1
               /\ c > 0 => \E m \in DOMAIN batches : LastBase(End(sizes, m)) + 1 = c
    ELSE cache = <<>> \/ non_data = TRUE

\* Pulled, of a reader's state.
PulledOf(data, taken, cache, upto) ==
    LET missing == Max({0, UpTo(upto) + 1 - Len(cache)})
    IN  IF data THEN [i \in 1 .. missing |-> Batch(taken + i)]
        ELSE [i \in 1 .. Min({1, missing}) |-> None]

LEMMA CacheGrows ==
    ASSUME NEW base \in Nat, NEW c \in Nat, NEW k \in Nat
    PROVE  [i \in 1 .. c |-> Batch(base + i)] \o [i \in 1 .. k |-> Batch((base + c) + i)]
             = [i \in 1 .. c + k |-> Batch(base + i)]
<1>1. PICK f : f = [i \in 1 .. c + k |-> Batch(base + i)]
  OBVIOUS
<1>2. PICK a, b : /\ a = [i \in 1 .. c |-> f[i]]
                  /\ b = [i \in 1 .. k |-> f[c + i]]
  OBVIOUS
<1>3. a = [i \in 1 .. c |-> Batch(base + i)]
  BY <1>1, <1>2
<1>4. b = [i \in 1 .. k |-> Batch((base + c) + i)]
  <2>1. \A i \in 1 .. k : c + i \in 1 .. c + k /\ base + (c + i) = (base + c) + i
    OBVIOUS
  <2> QED BY <1>1, <1>2, <2>1
<1>5. a \o b = f
  <2>1. Len(a) = c /\ Len(b) = k
    BY <1>2
  <2>2. f = [i \in 1 .. c + k |-> f[i]]
    BY <1>1
  <2>3. \A i \in 1 .. c + k : (IF i <= c THEN a[i] ELSE b[i - c]) = f[i]
    BY <1>2
  <2> QED BY <1>2, <2>1, <2>2, <2>3
<1> QED
  BY <1>1, <1>3, <1>4, <1>5

LEMMA PulledNoData ==
    ASSUME NEW taken, NEW upto \in Nat, NEW new, new = PulledOf(FALSE, taken, <<>>, upto)
    PROVE  None \in ToSet(new)
<1>1. upto + 1 - Len(<<>>) = upto + 1
  OBVIOUS
<1>2. Max({0, upto + 1}) = upto + 1
  BY MaxOfTwo
<1>3. Min({1, upto + 1}) = 1
  BY MinOfTwo
<1>4. new = [i \in 1 .. 1 |-> None]
  BY <1>1, <1>2, <1>3 DEF PulledOf, UpTo
<1>5. 1 \in 1 .. 1
  OBVIOUS
<1>6. 1 \in DOMAIN new /\ new[1] = None
  BY <1>4, <1>5, Zenon
<1> QED
  BY <1>6, Zenon DEF ToSet

LEMMA LazyNext ==
    ASSUME NEW sizes, Fit(sizes), NEW data \in BOOLEAN, NEW it \in Nat \ {0}, NEW taken,
           NEW cache, NEW non_data \in BOOLEAN, NEW batches,
           LazyOK(sizes, data, it, taken, cache, non_data, batches),
           NEW m \in Mbs,
           NEW new, new = PulledOf(data, taken, cache, LastBase(End(sizes, m))),
           NEW late, late = (non_data \/ None \in ToSet(new)),
           NEW batch, batch = IF late THEN None ELSE CutOut(cache \o new, ChunkSpec(sizes, m))
    PROVE  /\ LazyOK(sizes, data, it, taken + Len(new), cache \o new, late, Got(batches, m, batch))
           /\ batch = IF data THEN SamplesOf(sizes, it, m) ELSE None
<1>1. NumMb \in Nat \ {0} /\ EqualMbSize \in Nat \ {0}
  BY SizesAssumption
<1>2. PICK start, end, last : start = Start(sizes, m) /\ end = End(sizes, m) /\ last = LastBase(end)
  OBVIOUS
<1>3. start \in Nat /\ end \in Nat /\ start < end /\ last \in 0 .. NumMb - 1
  BY <1>2, FitFacts
<1>4. CASE data = FALSE
  <2>1. late = TRUE
    <3>1. CASE non_data = TRUE
      BY <3>1
    <3>2. CASE cache = <<>>
      <4>1. last \in Nat
        BY <1>1, <1>3
      <4>2. new = PulledOf(FALSE, taken, <<>>, last)
        BY <1>2, <1>4, <3>2, Zenon
      <4>3. None \in ToSet(new)
        BY <4>1, <4>2, PulledNoData
      <4> QED BY <4>3
    <3> QED BY <1>4, <3>1, <3>2 DEF LazyOK
  <2> QED BY <1>4, <2>1, Zenon DEF LazyOK
<1>5. CASE data = TRUE
  <2>1. PICK c \in 0 .. NumMb :
           /\ cache = [i \in 1 .. c |-> Batch(Base(it) + i)]
           /\ taken = Base(it) + c
           /\ \A n \in DOMAIN batches : LastBase(End(sizes, n)) \in 0 .. c - 1
           /\ c > 0 => \E n \in DOMAIN batches : LastBase(End(sizes, n)) + 1 = c
    BY <1>5, Zenon DEF LazyOK
  <2>2. non_data = FALSE
    BY <1>5, Zenon DEF LazyOK
  <2>3. PICK base \in Nat : base = Base(it)
    BY SamplesAreRun
  <2>4. PICK k : k = Max({0, last + 1 - c})
    OBVIOUS
  <2>5. k = (IF last + 1 >= c THEN last + 1 - c ELSE 0) /\ k \in Nat
    BY <1>1, <1>3, <2>1, <2>4, MaxOfTwo
  <2>6. new = [i \in 1 .. k |-> Batch(taken + i)]
    <3>1. Len(cache) = c
      BY <1>1, <2>1
    <3> QED BY <1>2, <1>5, <2>4, <3>1, Zenon DEF PulledOf, UpTo
  <2>7. Len(new) = k
    BY <2>5, <2>6
  <2>8. None \notin ToSet(new)
    <3>1. ASSUME NEW i \in 1 .. k
          PROVE  Batch(taken + i) \in [1 .. EqualMbSize -> Nat]
      <4>1. (taken + i) - 1 \in Nat
        BY <1>1, <2>1, <2>3, <2>5
      <4>2. PICK x : x = ((taken + i) - 1) * EqualMbSize
        OBVIOUS
      <4>3. x \in Nat
        BY <1>1, <4>1, <4>2, Times
      <4>4. Batch(taken + i) = [j \in 1 .. EqualMbSize |-> x + j]
        BY <4>2, Zenon DEF Batch
      <4> QED BY <1>1, <4>3, <4>4
    <3>2. \A i \in 1 .. k : new[i] # None
      BY <2>6, <3>1, SizesAssumption
    <3>3. DOMAIN new = 1 .. k
      BY <2>6
    <3> QED BY <3>2, <3>3, Zenon DEF ToSet
  <2>9. late = FALSE
    BY <2>2, <2>8
  <2>10. PICK grown : grown = cache \o new
    OBVIOUS
  <2>11. grown = [i \in 1 .. c + k |-> Batch(base + i)]
    <3>1. c \in Nat
      BY <1>1, <2>1
    <3>2. cache = [i \in 1 .. c |-> Batch(base + i)]
      BY <2>1, <2>3
    <3>3. new = [i \in 1 .. k |-> Batch((base + c) + i)]
      BY <2>1, <2>3, <2>6
    <3>4. [i \in 1 .. c |-> Batch(base + i)] \o [i \in 1 .. k |-> Batch((base + c) + i)]
             = [i \in 1 .. c + k |-> Batch(base + i)]
      BY <2>5, <3>1, CacheGrows
    <3> QED BY <2>10, <3>2, <3>3, <3>4, Zenon
  <2>12. batch = SamplesOf(sizes, it, m)
    <3>1. batch = CutOut(grown, ChunkSpec(sizes, m))
      BY <2>9, <2>10
    <3>2. \A b \in 0 .. LastBase(End(sizes, m)) : grown[b + 1] = Batch(base + b + 1)
      <4> SUFFICES ASSUME NEW b \in 0 .. last PROVE grown[b + 1] = Batch(base + b + 1)
        BY <1>2
      <4>1. b + 1 \in 1 .. c + k /\ base + (b + 1) = base + b + 1
        BY <1>1, <1>3, <2>1, <2>5
      <4> QED BY <2>11, <4>1
    <3>3. batch = Run((base * EqualMbSize) + Start(sizes, m), End(sizes, m) - Start(sizes, m))
      BY <3>1, <3>2, CutOutJoins
    <3> QED BY <2>3, <3>3, SamplesAreRun
  <2>13. LazyOK(sizes, TRUE, it, taken + k, grown, FALSE, Got(batches, m, batch))
    <3>1. c + k \in 0 .. NumMb
      BY <1>1, <1>3, <2>1, <2>5
    <3>2. taken + k = Base(it) + (c + k)
      BY <1>1, <2>1, <2>3, <2>5
    <3>3. DOMAIN Got(batches, m, batch) = DOMAIN batches \cup {m}
      BY GotDomain
    <3>4. LastBase(End(sizes, m)) = last
      BY <1>2
    <3>5. ASSUME NEW n \in DOMAIN batches \cup {m}
          PROVE  LastBase(End(sizes, n)) \in 0 .. (c + k) - 1
      <4>1. CASE n \in DOMAIN batches
        <5>1. LastBase(End(sizes, n)) \in 0 .. c - 1
          BY <2>1, <4>1
        <5> QED BY <1>1, <2>1, <2>5, <5>1
      <4>2. CASE n = m
        BY <4>2, <1>1, <1>3, <3>4, <2>1, <2>5
      <4> QED BY <4>1, <4>2
    <3>6. \E n \in DOMAIN batches \cup {m} : LastBase(End(sizes, n)) + 1 = c + k
      <4>1. CASE last + 1 >= c
        BY <4>1, <1>1, <1>3, <3>4, <2>1, <2>5
      <4>2. CASE ~(last + 1 >= c)
        <5>1. k = 0 /\ c > 0 /\ c + k = c
          BY <4>2, <1>1, <1>3, <2>1, <2>5
        <5> QED BY <2>1, <5>1
      <4> QED BY <4>1, <4>2
    <3>7. grown = [i \in 1 .. c + k |-> Batch(Base(it) + i)]
      BY <2>3, <2>11
    <3> QED BY <3>1, <3>2, <3>3, <3>5, <3>6, <3>7, Zenon DEF LazyOK
  <2> QED BY <1>5, <2>7, <2>9, <2>10, <2>12, <2>13
<1> QED
  BY <1>4, <1>5

\* The sizes make up NumMb bases.
LEMMA BasesOfIteration ==
    ASSUME NEW sizes, Fit(sizes)
    PROVE  SumOf(sizes) \div EqualMbSize = NumMb
<1>1. NumMb \in Nat \ {0} /\ EqualMbSize \in Nat \ {0}
  BY SizesAssumption
<1>2. PICK e, q, w : e = EqualMbSize /\ w = NumMb * e /\ q = w \div e
  OBVIOUS
<1>3. w \in Nat
  BY <1>1, <1>2, Times
<1>4. q \in Nat /\ q * e <= w /\ w < (q * e) + e
  BY <1>1, <1>2, <1>3, DivBounds
<1>5. (q + 1) * e = (q * e) + e /\ q * e \in Nat
  BY <1>1, <1>2, <1>4, Times
<1>6. (NumMb + 1) * e = w + e
  BY <1>1, <1>2, Times
<1>7. NumMb + 1 <= q => (NumMb + 1) * e <= q * e
  BY <1>1, <1>2, <1>4, Times
<1>8. q + 1 <= NumMb => (q + 1) * e <= NumMb * e
  BY <1>1, <1>2, <1>4, Times
<1>9. q = NumMb
  BY <1>1, <1>2, <1>3, <1>4, <1>5, <1>6, <1>7, <1>8
<1> QED
  BY <1>2, <1>9 DEF Fit, N

\* A reader on the other paths: nothing or everything is taken and cut.
ChunksOK(sizes, data, it, taken, chunk, batches) ==
    IF data
    THEN \/ chunk = <<>> /\ DOMAIN batches = {} /\ taken = Base(it)
         \/ chunk = [m \in Mbs |-> SamplesOf(sizes, it, m)] /\ taken = Base(it) + NumMb
    ELSE chunk = <<>> \/ chunk = [m \in Mbs |-> None]

\* Refilled, of a reader's state.
RefilledOf(sizes, data, refill, bases) ==
    [m \in Mbs |-> IF ~data THEN None
                   ELSE IF refill THEN CutByRefill(bases, sizes, m)
                   ELSE CutByLegacy(bases, sizes, m)]

LEMMA ChunksNext ==
    ASSUME NEW sizes, Fit(sizes), NEW data \in BOOLEAN, NEW refill \in BOOLEAN,
           NEW it \in Nat \ {0}, NEW taken, NEW chunk, NEW batches,
           ChunksOK(sizes, data, it, taken, chunk, batches),
           NEW m \in Mbs,
           NEW count, count = SumOf(sizes) \div EqualMbSize,
           NEW bases, bases = [i \in 1 .. count |-> Batch(taken + i)],
           NEW filled, filled = (chunk # <<>>),
           NEW after, after = IF filled THEN chunk ELSE RefilledOf(sizes, data, refill, bases),
           NEW pulled, pulled = taken + IF filled THEN 0 ELSE IF data THEN count ELSE 1,
           NEW batch, batch = after[m]
    PROVE  /\ ChunksOK(sizes, data, it, pulled, after, Got(batches, m, batch))
           /\ batch = IF data THEN SamplesOf(sizes, it, m) ELSE None
<1>1. NumMb \in Nat \ {0} /\ EqualMbSize \in Nat \ {0}
  BY SizesAssumption
<1>2. count = NumMb
  BY BasesOfIteration
<1>3. PICK base \in Nat : base = Base(it)
  BY SamplesAreRun
<1>4. CASE data = FALSE
  <2>1. after = [n \in Mbs |-> None]
    <3>1. CASE filled
      BY <1>4, <3>1, Zenon DEF ChunksOK
    <3>2. CASE ~filled
      BY <1>4, <3>2, Zenon DEF RefilledOf
    <3> QED BY <3>1, <3>2
  <2> QED BY <1>4, <2>1, Zenon DEF ChunksOK
<1>5. CASE data = TRUE /\ filled
  <2>1. chunk = [n \in Mbs |-> SamplesOf(sizes, it, n)] /\ taken = base + NumMb
    BY <1>3, <1>5, Zenon DEF ChunksOK
  <2>2. pulled = taken
    BY <1>1, <1>3, <1>5, <2>1
  <2>3. after = chunk
    BY <1>5
  <2> QED BY <1>3, <1>5, <2>1, <2>2, <2>3, Zenon DEF ChunksOK
<1>6. CASE data = TRUE /\ ~filled
  <2>1. taken = base /\ chunk = <<>>
    <3>1. chunk # [n \in Mbs |-> SamplesOf(sizes, it, n)]
      <4>1. 0 \in Mbs /\ 0 \notin DOMAIN <<>>
        BY <1>1 DEF Mbs
      <4>2. chunk = <<>>
        BY <1>6
      <4> QED BY <4>1, <4>2, Zenon
    <3> QED BY <1>3, <1>6, <3>1, Zenon DEF ChunksOK
  <2>2. pulled = Base(it) + NumMb
    BY <1>2, <1>3, <1>6, <2>1, Zenon
  <2>3. bases = [i \in 1 .. NumMb |-> Batch(base + i)]
    BY <1>2, <2>1
  <2>4. ASSUME NEW n \in Mbs
        PROVE  /\ CutByRefill(bases, sizes, n) = SamplesOf(sizes, it, n)
               /\ CutByLegacy(bases, sizes, n) = SamplesOf(sizes, it, n)
    <3>1. LastBase(End(sizes, n)) \in 0 .. NumMb - 1
      BY FitFacts
    <3>2. SamplesOf(sizes, it, n)
            = Run((base * EqualMbSize) + Start(sizes, n), End(sizes, n) - Start(sizes, n))
      BY <1>3, SamplesAreRun
    <3>3. \A b \in 0 .. LastBase(End(sizes, n)) : bases[b + 1] = Batch(base + b + 1)
      <4> SUFFICES ASSUME NEW b \in 0 .. LastBase(End(sizes, n))
                   PROVE  bases[b + 1] = Batch(base + b + 1)
        OBVIOUS
      <4>1. b + 1 \in 1 .. NumMb /\ base + (b + 1) = base + b + 1
        BY <1>1, <3>1
      <4> QED BY <2>3, <4>1
    <3>4. CutByRefill(bases, sizes, n) = SamplesOf(sizes, it, n)
      BY <3>2, <3>3, CutByRefillJoins
    <3>5. CutByLegacy(bases, sizes, n) = SamplesOf(sizes, it, n)
      BY <2>3, <3>2, CutByLegacyJoins
    <3> QED BY <3>4, <3>5
  <2>5. after = [n \in Mbs |-> SamplesOf(sizes, it, n)]
    <3>1. after = RefilledOf(sizes, data, refill, bases)
      BY <1>6
    <3> QED BY <1>6, <2>4, <3>1, Zenon DEF RefilledOf
  <2> QED BY <1>6, <2>2, <2>5, Zenon DEF ChunksOK
<1> QED
  BY <1>4, <1>5, <1>6

-----------------------------------------------------------------------------
(* The inductive invariant.                                                *)

\* The hypothesis of the theorems: what the solver's values are rounded to
\* sums up to an iteration.  The run microbatches shows it (SizesFit) of the
\* solutions of its instance.
SolutionsFit == \A s \in Solutions : Fit(Redistribute(s))

Typed ==
    /\ Fit(microbatch_sizes) /\ since \in Nat \ {0}
    /\ hasData \in [Readers -> BOOLEAN] /\ order \in [Readers -> Orders]
    /\ non_data_stage \in [Readers -> BOOLEAN]
    /\ DOMAIN iteration = Readers /\ DOMAIN base_iterator = Readers
    /\ DOMAIN base_cache = Readers /\ DOMAIN chunks = Readers /\ DOMAIN got = Readers

OnPath(r) ==
    /\ ~IsDynamic(r) => EqualOK(hasData[r], iteration[r], base_iterator[r], got[r])
    /\ IsDynamic(r) /\ path[r] = "lazy" =>
          LazyOK(microbatch_sizes, hasData[r], iteration[r], base_iterator[r],
                 base_cache[r], non_data_stage[r], got[r])
    /\ IsDynamic(r) /\ path[r] # "lazy" =>
          ChunksOK(microbatch_sizes, hasData[r], iteration[r], base_iterator[r], chunks[r], got[r])

ReaderOK(r) ==
    /\ iteration[r] \in Nat /\ DOMAIN got[r] \subseteq Mbs
    /\ iteration[r] = 0 => got[r] = <<>> /\ base_iterator[r] = 0
    /\ Right(SizesIn(iteration[r]), hasData[r], iteration[r], got[r])
    /\ iteration[r] > 0 => OnPath(r)

Inv == Typed /\ \A r \in Readers : ReaderOK(r)

LEMMA InitInv == ASSUME SolutionsFit PROVE Init => Inv
<1> SUFFICES ASSUME Init PROVE Inv
  OBVIOUS
<1>1. Typed
  BY SizesAssumption DEF Init, Typed, SolutionsFit
<1>2. ASSUME NEW r \in Readers
      PROVE  ReaderOK(r)
  <2>1. iteration[r] = 0 /\ got[r] = <<>> /\ base_iterator[r] = 0
    BY DEF Init
  <2>2. DOMAIN got[r] = {}
    BY <2>1
  <2> QED BY <2>1, <2>2 DEF ReaderOK, Right
<1> QED
  BY <1>1, <1>2 DEF Inv

LEMMA SizesOfIteration ==
    ASSUME Typed, NEW i \in Nat
    PROVE  Fit(SizesIn(i))
<1>1. CASE i >= since
  BY <1>1, Zenon DEF Typed, SizesIn
<1>2. CASE ~(i >= since)
  BY <1>2, EqualFit, Zenon DEF SizesIn, EqualSizes
<1> QED
  BY <1>1, <1>2

\* A reader that is done with an iteration took all its bases.
LEMMA InStep ==
    ASSUME Typed, NEW r \in Readers, ReaderOK(r), hasData[r], Done(r)
    PROVE  base_iterator[r] = iteration[r] * NumMb
<1>1. NumMb \in Nat \ {0}
  BY SizesAssumption
<1>2. PICK it \in Nat : it = iteration[r]
  BY DEF ReaderOK
<1>3. CASE it = 0
  BY <1>1, <1>2, <1>3 DEF ReaderOK
<1>4. CASE it > 0
  <2>1. DOMAIN got[r] = Mbs /\ OnPath(r)
    BY <1>2, <1>4 DEF Done, ReaderOK
  <2>2. PICK p \in Nat : p = Base(it)
    BY <1>1, <1>4, Times DEF Base
  <2>3. p + NumMb = it * NumMb
    <3>1. PICK i \in Nat : i = it - 1
      BY <1>4
    <3>2. (i + 1) * NumMb = (i * NumMb) + NumMb /\ i + 1 = it
      BY <1>1, <3>1, Times
    <3> QED BY <2>2, <3>1, <3>2 DEF Base
  <2>4. NumMb - 1 \in Mbs /\ 0 \in Mbs
    BY <1>1 DEF Mbs
  <2>5. base_iterator[r] = p + NumMb
    <3>1. CASE ~IsDynamic(r)
      <4>1. PICK k \in 0 .. NumMb : DOMAIN got[r] = 0 .. k - 1 /\ base_iterator[r] = p + k
        BY <1>2, <2>1, <2>2, <3>1 DEF OnPath, EqualOK
      <4>2. k = NumMb
        BY <1>1, <2>1, <2>4, <4>1 DEF Mbs
      <4> QED BY <4>1, <4>2
    <3>2. CASE IsDynamic(r) /\ path[r] = "lazy"
      <4>1. PICK c \in 0 .. NumMb :
              /\ base_iterator[r] = p + c
              /\ \A m \in DOMAIN got[r] : LastBase(End(microbatch_sizes, m)) \in 0 .. c - 1
        BY <1>2, <2>1, <2>2, <3>2, Zenon DEF OnPath, LazyOK
      <4>2. LastBase(End(microbatch_sizes, NumMb - 1)) = NumMb - 1
        BY <2>4, FitFacts DEF Typed
      <4>3. c = NumMb
        BY <1>1, <2>1, <2>4, <4>1, <4>2
      <4> QED BY <4>1, <4>3
    <3>3. CASE IsDynamic(r) /\ path[r] # "lazy"
      <4>1. DOMAIN got[r] # {}
        BY <2>1, <2>4
      <4> QED BY <1>2, <2>1, <2>2, <3>3, <4>1, Zenon DEF OnPath, ChunksOK
    <3> QED BY <3>1, <3>2, <3>3
  <2> QED BY <1>2, <2>3, <2>5
<1> QED
  BY <1>2, <1>3, <1>4

\* What a reader does leaves the others as they are.
LEMMA OthersKept ==
    ASSUME Inv, NEW r \in Readers, NEW s \in Readers, s # r, UNCHANGED chosen,
           iteration'[s] = iteration[s], base_iterator'[s] = base_iterator[s],
           base_cache'[s] = base_cache[s], chunks'[s] = chunks[s],
           non_data_stage'[s] = non_data_stage[s], got'[s] = got[s]
    PROVE  ReaderOK(s)'
<1>1. ReaderOK(s)
  BY DEF Inv
<1>2. IsDynamic(s)' = IsDynamic(s) /\ SizesIn(iteration[s])' = SizesIn(iteration[s])
  BY DEF chosen, IsDynamic, SizesIn
<1> QED
  BY <1>1, <1>2 DEF ReaderOK, OnPath, chosen

LEMMA StartKeepsInv == ASSUME Inv, NEW r \in Readers, StartIteration(r) PROVE Inv'
<1>1. NumMb \in Nat \ {0}
  BY SizesAssumption
<1>2. Typed'
  BY DEF Inv, Typed, StartIteration, Wrap, chosen
<1>3. ASSUME NEW s \in Readers, s # r
      PROVE  ReaderOK(s)'
  BY <1>3, OthersKept DEF StartIteration, Wrap, Inv, Typed
<1>4. ReaderOK(r)'
  <2>1. /\ iteration'[r] = iteration[r] + 1 /\ got'[r] = <<>> /\ base_iterator'[r] = base_iterator[r]
        /\ base_cache'[r] = <<>> /\ chunks'[r] = <<>> /\ non_data_stage'[r] = FALSE
        /\ hasData'[r] = hasData[r] /\ microbatch_sizes' = microbatch_sizes /\ path' = path
    BY DEF StartIteration, Wrap, Inv, Typed, chosen
  <2>2. PICK it \in Nat : it = iteration[r]
    BY DEF Inv, ReaderOK
  <2>3. DOMAIN got'[r] = {}
    BY <2>1
  <2>4. hasData[r] => base_iterator[r] = Base(it + 1)
    <3>1. (it + 1) - 1 = it
      OBVIOUS
    <3>2. hasData[r] => base_iterator[r] = it * NumMb
      BY <2>2, InStep DEF Inv, StartIteration
    <3> QED BY <3>1, <3>2 DEF Base
  <2>5. Base(it + 1) \in Nat
    <3>1. (it + 1) - 1 = it /\ it * NumMb \in Nat
      BY <1>1, Times
    <3> QED BY <3>1 DEF Base
  <2>6. EqualOK(hasData[r], it + 1, base_iterator[r], got'[r])
    <3>1. 0 .. 0 - 1 = {} /\ 0 \in 0 .. NumMb
      BY <1>1
    <3>2. hasData[r] => base_iterator[r] = Base(it + 1) + 0
      BY <2>4, <2>5
    <3> QED BY <2>3, <3>1, <3>2 DEF EqualOK
  <2>7. LazyOK(microbatch_sizes, hasData[r], it + 1, base_iterator[r], <<>>, FALSE, got'[r])
    <3>1. CASE hasData[r]
      <4>1. 0 \in 0 .. NumMb /\ ~(0 > 0)
        BY <1>1
      <4>2. <<>> = [i \in 1 .. 0 |-> Batch(Base(it + 1) + i)]
        OBVIOUS
      <4>3. base_iterator[r] = Base(it + 1) + 0
        BY <2>4, <2>5, <3>1
      <4> QED BY <2>3, <3>1, <4>1, <4>2, <4>3, Zenon DEF LazyOK
    <3>2. CASE ~hasData[r]
      BY <3>2, Zenon DEF LazyOK
    <3> QED BY <3>1, <3>2
  <2>8. ChunksOK(microbatch_sizes, hasData[r], it + 1, base_iterator[r], <<>>, got'[r])
    BY <2>3, <2>4, Zenon DEF ChunksOK
  <2>9. OnPath(r)'
    BY <2>1, <2>2, <2>6, <2>7, <2>8 DEF OnPath
  <2>10. Right(SizesIn(iteration[r])', hasData'[r], iteration'[r], got'[r])
    BY <2>3, Zenon DEF Right
  <2>11. iteration'[r] \in Nat /\ iteration'[r] # 0
    BY <2>1, <2>2
  <2> QED BY <2>3, <2>9, <2>10, <2>11 DEF ReaderOK
<1> QED
  BY <1>2, <1>3, <1>4 DEF Inv

LEMMA ForwardKeepsInv == ASSUME Inv, NEW r \in Readers, Forward(r) PROVE Inv'
<1>1. PICK it \in Nat \ {0} : it = iteration[r]
  BY DEF Inv, ReaderOK, Forward, Done
<1>2. PICK sizes, g, data, taken, m :
        /\ sizes = microbatch_sizes /\ g = got[r] /\ data = hasData[r] /\ taken = base_iterator[r]
        /\ m = OrderOf(r)[Cardinality(DOMAIN g) + 1]
  OBVIOUS
<1>3. /\ Fit(sizes) /\ data \in BOOLEAN /\ DOMAIN g \subseteq Mbs /\ DOMAIN g # Mbs
      /\ Right(SizesIn(it), data, it, g) /\ OnPath(r)
  BY <1>1, <1>2 DEF Inv, Typed, ReaderOK, Forward, Done
<1>4. UNCHANGED chosen /\ iteration' = iteration
  BY DEF Forward
<1>5. \/ ~IsDynamic(r) /\ NextOfBase(r, m)
      \/ IsDynamic(r) /\ path[r] = "lazy" /\ NextLazily(r, m)
      \/ IsDynamic(r) /\ path[r] # "lazy" /\ NextFromChunks(r, m)
  BY <1>2, Zenon DEF Forward
<1>6. IsDynamic(r)' = IsDynamic(r) /\ SizesIn(it)' = SizesIn(it)
  BY <1>4 DEF chosen, IsDynamic, SizesIn
<1>7. IsDynamic(r) => SizesIn(it) = sizes /\ m \in Mbs
  <2> SUFFICES ASSUME IsDynamic(r) PROVE SizesIn(it) = sizes /\ m \in Mbs
    OBVIOUS
  <2>1. SizesIn(it) = sizes
    BY <1>1, <1>2 DEF SizesIn, IsDynamic
  <2>2. order[r] \in [1 .. NumMb -> 0 .. NumMb - 1]
    BY SizesAssumption DEF Inv, Typed
  <2>3. m = order[r][Cardinality(DOMAIN g) + 1]
    BY <1>2 DEF OrderOf
  <2>4. Cardinality(DOMAIN g) + 1 \in 1 .. NumMb
    BY <1>3, NextIndex
  <2> QED BY <2>1, <2>2, <2>3, <2>4 DEF Mbs
<1>8. ASSUME NEW batch, m \in Mbs, got' = [got EXCEPT ![r] = Got(@, m, batch)],
             batch = IF data THEN SamplesOf(SizesIn(it), it, m) ELSE None, OnPath(r)'
      PROVE  ReaderOK(r)'
  <2>1. got'[r] = Got(g, m, batch)
    BY <1>2, <1>8 DEF Inv, Typed
  <2>2. DOMAIN got'[r] \subseteq Mbs
    <3>1. DOMAIN got'[r] = DOMAIN g \cup {m}
      BY <2>1, GotDomain, Zenon
    <3> QED BY <1>3, <1>8, <3>1
  <2>3. Right(SizesIn(it), data, it, got'[r])
    BY <1>3, <1>8, <2>1, GotRight
  <2>4. iteration'[r] = it /\ hasData'[r] = data
    BY <1>1, <1>2, <1>4 DEF chosen
  <2>5. Right(SizesIn(iteration[r])', hasData'[r], iteration'[r], got'[r])
    BY <1>1, <1>4, <1>6, <2>3, <2>4
  <2> QED BY <1>1, <1>8, <2>2, <2>4, <2>5 DEF ReaderOK
<1>9. CASE ~IsDynamic(r) /\ NextOfBase(r, m)
  <2>1. PICK batch : batch = IF data THEN Batch(taken + 1) ELSE None
    OBVIOUS
  <2>2. got' = [got EXCEPT ![r] = Got(@, m, batch)] /\ base_iterator'[r] = taken + 1
    BY <1>2, <1>9, <2>1 DEF NextOfBase, Inv, Typed
  <2>3. m = [i \in 1 .. NumMb |-> i - 1][Cardinality(DOMAIN g) + 1]
    BY <1>2, <1>9 DEF OrderOf
  <2>4. EqualOK(data, it, taken, g)
    BY <1>1, <1>2, <1>3, <1>9 DEF OnPath
  <2>5. /\ EqualOK(data, it, taken + 1, Got(g, m, batch)) /\ m \in Mbs
        /\ batch = IF data THEN SamplesOf(EqualSizes, it, m) ELSE None
    BY <1>3, <2>1, <2>3, <2>4, EqualNext
  <2>6. SizesIn(it) = EqualSizes
    BY <1>1, <1>9 DEF SizesIn, EqualSizes, IsDynamic
  <2>7. got'[r] = Got(g, m, batch)
    BY <1>2, <2>2 DEF Inv, Typed
  <2>8. OnPath(r)'
    BY <1>1, <1>2, <1>4, <1>6, <1>9, <2>2, <2>5, <2>7 DEF OnPath, chosen
  <2>9. ReaderOK(r)'
    BY <1>8, <2>2, <2>5, <2>6, <2>8
  <2>10. ASSUME NEW s \in Readers, s # r
         PROVE  ReaderOK(s)'
    BY <1>4, <1>9, <2>2, <2>10, OthersKept DEF NextOfBase, Inv, Typed
  <2>11. Typed'
    BY <1>4, <1>9, <2>2 DEF NextOfBase, Inv, Typed, chosen
  <2> QED BY <2>9, <2>10, <2>11 DEF Inv
<1>10. CASE IsDynamic(r) /\ path[r] = "lazy" /\ NextLazily(r, m)
  <2>1. PICK cache, non_data : cache = base_cache[r] /\ non_data = non_data_stage[r]
    OBVIOUS
  <2>2. PICK new : new = PulledOf(data, taken, cache, LastBase(End(sizes, m)))
    OBVIOUS
  <2>3. PICK late : late = (non_data \/ None \in ToSet(new))
    OBVIOUS
  <2>4. PICK batch : batch = IF late THEN None ELSE CutOut(cache \o new, ChunkSpec(sizes, m))
    OBVIOUS
  <2>5. new = Pulled(r, ChunkSpec(microbatch_sizes, m).last_base)
    BY <1>2, <2>1, <2>2 DEF Pulled, PulledOf, ChunkSpec
  <2>6. non_data_stage' = [non_data_stage EXCEPT ![r] = late]
    BY <1>10, <2>1, <2>3, <2>5, Zenon DEF NextLazily
  <2>7. late \in BOOLEAN /\ non_data_stage'[r] = late /\ non_data_stage' \in [Readers -> BOOLEAN]
    BY <2>3, <2>6 DEF Inv, Typed
  <2>8. /\ base_iterator' = [base_iterator EXCEPT ![r] = @ + Len(new)]
        /\ base_cache' = [base_cache EXCEPT ![r] = cache \o new]
        /\ got' = [got EXCEPT ![r] = Got(@, m, batch)]
        /\ chunks' = chunks
    BY <1>2, <1>10, <2>1, <2>4, <2>5, <2>7, Zenon DEF NextLazily
  <2>9. LazyOK(sizes, data, it, taken, cache, non_data, g) /\ non_data \in BOOLEAN
    BY <1>1, <1>2, <1>3, <1>10, <2>1 DEF OnPath, Inv, Typed
  <2>10. /\ LazyOK(sizes, data, it, taken + Len(new), cache \o new, late, Got(g, m, batch))
         /\ batch = IF data THEN SamplesOf(sizes, it, m) ELSE None
    BY <1>3, <1>7, <1>10, <2>2, <2>3, <2>4, <2>9, LazyNext
  <2>11. /\ base_iterator'[r] = taken + Len(new) /\ base_cache'[r] = cache \o new
         /\ got'[r] = Got(g, m, batch)
    BY <1>2, <2>8 DEF Inv, Typed
  <2>12. OnPath(r)'
    BY <1>1, <1>2, <1>4, <1>6, <1>10, <2>7, <2>10, <2>11 DEF OnPath, chosen
  <2>13. ReaderOK(r)'
    BY <1>7, <1>8, <1>10, <2>8, <2>10, <2>12
  <2>14. ASSUME NEW s \in Readers, s # r
         PROVE  ReaderOK(s)'
    BY <1>4, <2>6, <2>8, <2>14, OthersKept DEF Inv, Typed
  <2>15. Typed'
    BY <1>4, <2>7, <2>8 DEF Inv, Typed, chosen
  <2> QED BY <2>13, <2>14, <2>15 DEF Inv
<1>11. CASE IsDynamic(r) /\ path[r] # "lazy" /\ NextFromChunks(r, m)
  <2>1. PICK chunk, refill : chunk = chunks[r] /\ refill = (path[r] = "refill")
    OBVIOUS
  <2>2. PICK count : count = SumOf(sizes) \div EqualMbSize
    OBVIOUS
  <2>3. PICK bases, filled : bases = [i \in 1 .. count |-> Batch(taken + i)] /\ filled = (chunk # <<>>)
    OBVIOUS
  <2>4. PICK after : after = IF filled THEN chunk ELSE RefilledOf(sizes, data, refill, bases)
    OBVIOUS
  <2>5. PICK pulled : pulled = taken + IF filled THEN 0 ELSE IF data THEN count ELSE 1
    OBVIOUS
  <2>6. RefilledOf(sizes, data, refill, bases) = Refilled(r, bases)
    BY <1>2, <2>1, Zenon DEF Refilled, RefilledOf
  <2>7. chunks' = [chunks EXCEPT ![r] = after]
    BY <1>2, <1>11, <2>1, <2>2, <2>3, <2>4, <2>6, Zenon DEF NextFromChunks
  <2>8. base_iterator' = [base_iterator EXCEPT ![r] = pulled]
    BY <1>2, <1>11, <2>1, <2>2, <2>3, <2>5, Zenon DEF NextFromChunks
  <2>9. chunks'[r] = after /\ base_iterator'[r] = pulled
    BY <2>7, <2>8 DEF Inv, Typed
  <2>10. /\ got' = [got EXCEPT ![r] = Got(@, m, after[m])]
         /\ base_cache' = base_cache /\ non_data_stage' = non_data_stage
    BY <1>11, <2>9, Zenon DEF NextFromChunks
  <2>11. ChunksOK(sizes, data, it, taken, chunk, g) /\ refill \in BOOLEAN
    BY <1>1, <1>2, <1>3, <1>11, <2>1 DEF OnPath
  <2>12. /\ ChunksOK(sizes, data, it, pulled, after, Got(g, m, after[m]))
         /\ after[m] = IF data THEN SamplesOf(sizes, it, m) ELSE None
    BY <1>3, <1>7, <1>11, <2>2, <2>3, <2>4, <2>5, <2>11, ChunksNext
  <2>13. got'[r] = Got(g, m, after[m])
    BY <1>2, <2>10 DEF Inv, Typed
  <2>14. OnPath(r)'
    BY <1>1, <1>2, <1>4, <1>6, <1>11, <2>9, <2>12, <2>13 DEF OnPath, chosen
  <2>15. ReaderOK(r)'
    BY <1>7, <1>8, <1>11, <2>10, <2>12, <2>14
  <2>16. ASSUME NEW s \in Readers, s # r
         PROVE  ReaderOK(s)'
    BY <1>4, <2>7, <2>8, <2>10, <2>16, OthersKept DEF Inv, Typed
  <2>17. Typed'
    BY <1>4, <2>7, <2>8, <2>10 DEF Inv, Typed, chosen
  <2> QED BY <2>15, <2>16, <2>17 DEF Inv
<1> QED
  BY <1>5, <1>9, <1>10, <1>11

LEMMA NextKeepsInv == Inv /\ [Next]_vars => Inv'
<1> SUFFICES ASSUME Inv, [Next]_vars PROVE Inv'
  OBVIOUS
<1>1. CASE UNCHANGED vars
  BY <1>1 DEF vars, chosen, reading, Inv, Typed, ReaderOK, OnPath, IsDynamic, SizesIn
<1>2. CASE Terminated
  BY <1>1, <1>2 DEF Terminated
<1>3. ASSUME NEW r \in Readers, StartIteration(r) PROVE Inv'
  BY <1>3, StartKeepsInv
<1>4. ASSUME NEW r \in Readers, Forward(r) PROVE Inv'
  BY <1>4, ForwardKeepsInv
<1> QED
  BY <1>1, <1>2, <1>3, <1>4 DEF Next

\* The inductive invariant.
THEOREM Invariance == ASSUME SolutionsFit PROVE Spec => []Inv
<1>1. Init => Inv
  BY InitInv
<1> QED
  BY <1>1, NextKeepsInv, PTL DEF Spec

\* A reader gets the samples of the microbatch it asks for, whichever path it
\* is on and in whichever order it runs its forwards: the tokens of the first
\* stage meet their labels at the last.
THEOREM TokensMeetLabelsHolds == ASSUME SolutionsFit PROVE Spec => []TokensMeetLabels
<1>1. Inv => TokensMeetLabels
  BY DEF Inv, ReaderOK, Right, TokensMeetLabels
<1> QED
  BY <1>1, Invariance, PTL

\* A reader that is done with an iteration has taken exactly its batches.
THEOREM StreamInStepHolds == ASSUME SolutionsFit PROVE Spec => []StreamInStep
<1>1. Inv => StreamInStep
  BY InStep DEF Inv, StreamInStep
<1> QED
  BY <1>1, Invariance, PTL

LEMMA MaxBounds ==
    ASSUME NEW n \in Nat, NEW T \in SUBSET (0 .. n), T # {}
    PROVE  Max(T) \in T /\ \A x \in T : x <= Max(T)
<1>1. {n - x : x \in T} \in SUBSET Nat /\ {n - x : x \in T} # {}
  <2>1. \A x \in T : n - x \in Nat
    OBVIOUS
  <2>2. PICK x \in T : TRUE
    OBVIOUS
  <2> QED BY <2>1, <2>2, Zenon
<1>2. PICK y \in {n - x : x \in T} : \A z \in {n - x : x \in T} : y <= z
  BY <1>1, Least
<1>3. PICK x \in T : y = n - x
  BY <1>2
<1>4. \A z \in T : x >= z
  <2> SUFFICES ASSUME NEW z \in T PROVE x >= z
    OBVIOUS
  <2>1. y <= n - z
    BY <1>2
  <2> QED BY <2>1, <1>3
<1>5. Max(T) \in T /\ \A z \in T : Max(T) >= z
  BY <1>4 DEF Max
<1> QED
  BY <1>5

\* On the lazy path the bases taken never go a whole base beyond the last sample
\* some microbatch asked for so far.
THEOREM PullsOnlyNeededHolds == ASSUME SolutionsFit PROVE Spec => []PullsOnlyNeeded
<1>1. Inv => PullsOnlyNeeded
  <2> SUFFICES ASSUME Inv, NEW r \in Readers, hasData[r], path[r] = "lazy", ~Done(r)
               PROVE  base_iterator[r] * EqualMbSize <
                        (iteration[r] - 1) * N + EqualMbSize
                          + Max({0} \cup {End(SizesIn(iteration[r]), m) : m \in DOMAIN got[r]})
    BY DEF PullsOnlyNeeded
  <2>1. NumMb \in Nat \ {0} /\ EqualMbSize \in Nat \ {0}
    BY SizesAssumption
  <2>2. PICK it \in Nat \ {0} : it = iteration[r]
    BY DEF Inv, ReaderOK, Done
  <2>3. OnPath(r) /\ DOMAIN got[r] \subseteq Mbs
    BY <2>2 DEF Inv, ReaderOK
  <2>4. PICK sizes : sizes = SizesIn(it)
    OBVIOUS
  <2>5. Fit(sizes)
    BY <2>2, <2>4, SizesOfIteration DEF Inv
  <2>6. PICK T : T = {0} \cup {End(sizes, m) : m \in DOMAIN got[r]}
    OBVIOUS
  <2>7. Max(T) \in Nat /\ \A x \in T : x <= Max(T)
    <3>1. PICK w \in Nat : w = NumMb * EqualMbSize
      BY <2>1, Times
    <3>2. \A m \in DOMAIN got[r] : End(sizes, m) \in 0 .. w
      BY <2>3, <2>5, <3>1, FitFacts
    <3>3. T \in SUBSET (0 .. w) /\ T # {}
      BY <2>6, <3>1, <3>2
    <3>4. Max(T) \in T /\ \A x \in T : x <= Max(T)
      BY <3>1, <3>3, MaxBounds
    <3>5. PICK x : x = Max(T)
      OBVIOUS
    <3>6. x \in 0 .. w
      BY <3>3, <3>4, <3>5, Zenon
    <3>7. x \in Nat
      BY <3>1, <3>6
    <3> QED BY <3>4, <3>5, <3>7, Zenon
  <2>8. PICK e, x, p : e = EqualMbSize /\ x = Max(T) /\ p = Base(it)
    OBVIOUS
  <2>9. p \in Nat /\ p * e \in Nat /\ (it - 1) * N = p * e
    <3>1. PICK i \in Nat : i = it - 1
      OBVIOUS
    <3>2. p \in Nat
      BY <2>1, <2>8, <3>1, Times DEF Base
    <3>3. i * (NumMb * EqualMbSize) = (i * NumMb) * EqualMbSize
      BY <2>1
    <3> QED BY <2>1, <2>8, <3>1, <3>2, <3>3, Times DEF Base, N
  \* The bases taken in this iteration end less than one base after a sample
  \* that a microbatch needed.
  <2>10. ASSUME NEW k \in Nat, base_iterator[r] = p + k,
                k = 0 \/ \E m \in DOMAIN got[r] : k * e < End(sizes, m) + e
         PROVE  base_iterator[r] * e < (p * e) + e + x
    <3>1. (p + k) * e = (p * e) + (k * e) /\ k * e \in Nat
      BY <2>1, <2>8, <2>9, <2>10, Times
    <3>2. k * e < e + x
      <4>1. CASE k = 0
        BY <4>1, <2>1, <2>7, <2>8
      <4>2. ASSUME NEW m \in DOMAIN got[r], k * e < End(sizes, m) + e PROVE k * e < e + x
        <5>1. End(sizes, m) \in T /\ End(sizes, m) \in Nat
          BY <2>3, <2>5, <2>6, FitFacts
        <5>2. End(sizes, m) <= x
          BY <2>7, <2>8, <5>1
        <5> QED BY <2>1, <2>7, <2>8, <3>1, <4>2, <5>1, <5>2
      <4> QED BY <2>10, <4>1, <4>2
    <3> QED BY <2>1, <2>7, <2>8, <2>9, <2>10, <3>1, <3>2
  <2>11. CASE ~IsDynamic(r)
    <3>1. PICK k \in 0 .. NumMb : DOMAIN got[r] = 0 .. k - 1 /\ base_iterator[r] = p + k
      BY <2>2, <2>3, <2>8, <2>11 DEF OnPath, EqualOK
    <3>2. sizes = EqualSizes
      BY <2>2, <2>4, <2>11 DEF SizesIn, EqualSizes, IsDynamic
    <3>3. k = 0 \/ \E m \in DOMAIN got[r] : k * e < End(sizes, m) + e
      <4> SUFFICES ASSUME k # 0 PROVE \E m \in DOMAIN got[r] : k * e < End(sizes, m) + e
        OBVIOUS
      <4>1. k - 1 \in DOMAIN got[r]
        BY <2>1, <3>1
      <4>2. End(sizes, k - 1) = ((k - 1) + 1) * e /\ (k - 1) + 1 = k
        BY <2>1, <2>3, <2>8, <3>2, <4>1, EqualFit
      <4>3. k * e \in Nat /\ e > 0 /\ e \in Nat
        BY <2>1, <2>8, Times
      <4>4. k * e < End(sizes, k - 1) + e
        BY <4>2, <4>3
      <4> QED BY <4>1, <4>4
    <3>4. k \in Nat
      BY <2>1
    <3> QED BY <2>2, <2>4, <2>6, <2>8, <2>9, <2>10, <3>1, <3>3, <3>4
  <2>12. CASE IsDynamic(r)
    <3>1. PICK c \in 0 .. NumMb :
             /\ base_iterator[r] = p + c
             /\ c > 0 => \E m \in DOMAIN got[r] : LastBase(End(microbatch_sizes, m)) + 1 = c
      BY <2>2, <2>3, <2>8, <2>12, Zenon DEF OnPath, LazyOK
    <3>2. sizes = microbatch_sizes
      BY <2>2, <2>4, <2>12 DEF SizesIn, IsDynamic
    <3>3. c = 0 \/ \E m \in DOMAIN got[r] : c * e < End(sizes, m) + e
      <4> SUFFICES ASSUME c # 0 PROVE \E m \in DOMAIN got[r] : c * e < End(sizes, m) + e
        OBVIOUS
      <4>1. PICK m \in DOMAIN got[r] : LastBase(End(sizes, m)) + 1 = c
        BY <2>1, <3>1, <3>2
      <4>2. PICK t, l : t = End(sizes, m) /\ l = LastBase(t)
        OBVIOUS
      <4>3. t \in Nat \ {0} /\ l \in Nat
        BY <2>1, <2>3, <2>5, <4>2, FitFacts
      <4>4. l * e <= t - 1
        <5>1. t - 1 \in Nat
          BY <4>3
        <5> QED BY <2>1, <2>8, <4>2, <5>1, DivBounds DEF LastBase
      <4>5. c * e = (l * e) + e /\ l * e \in Nat
        <5>1. c = l + 1
          BY <4>1, <4>2
        <5> QED BY <2>1, <2>8, <4>3, <5>1, Times
      <4>6. c * e < t + e
        BY <2>1, <2>8, <4>3, <4>4, <4>5
      <4> QED BY <4>2, <4>6
    <3>4. c \in Nat
      BY <2>1
    <3> QED BY <2>2, <2>4, <2>6, <2>8, <2>9, <2>10, <3>1, <3>3, <3>4
  <2> QED BY <2>11, <2>12
<1> QED
  BY <1>1, Invariance, PTL
=============================================================================
