------------------------------ MODULE Reductions ------------------------------
(***************************************************************************)
(* Summaries of a vector: the kernels of src/convert.zig (sum, mean,        *)
(* extremes and their places, counts, cumulative sums, and the lane sums    *)
(* norm2 and scaleAdd), which take the data as one slice or region by       *)
(* region, and the summary methods of the ALTREP classes of                 *)
(* src/altrep_create.zig, which see it whole.  Regions come from a class    *)
(* that may be anybody's: it may return fewer elements than it is asked     *)
(* for, none, or claim more.                                                *)
(*                                                                         *)
(* Doubles are whole numbers, NA and NaN two of them that the data uses for *)
(* nothing else, infinity one that finite doubles do not add up to; for     *)
(* integer and logical vectors NA is the least int.  Rounding is left out:  *)
(* the corrections of the mean are exact, and sums overflow where the code  *)
(* looks at it or narrows them to a double.                                 *)
(***************************************************************************)
EXTENDS Integers, Sequences, SequencesExt, FiniteSets, FiniteSetsExt

CONSTANTS
    Chunk,       \* region_chunk_len
    Lanes,       \* i32_lanes, f64_lanes
    MaxDouble,   \* the largest finite double
    Inf,         \* infinity
    IntMax,      \* the largest int
    Jobs         \* bound: the calls

NA == -IntMax - 1
NaN == NA - 1
Alpha == 2            \* the arguments of scaleAdd
Beta == 1

Kernels == {"sum", "mean", "sumInt", "countTrue", "minmaxInt", "minmax", "argminmax",
            "cumsum", "norm2", "scaleAdd"}
Methods == {"SumReal", "SumInteger", "SumLogical", "MinMaxReal", "MinMaxInteger", "No_NA",
            "Is_sorted"}

\* What the vectors hold that a kernel or a method is called for: no infinity
\* where the model's sums do not stay there, and for norm2 and scaleAdd, which
\* add up without a look, nothing that is no finite number.  A logical vector may
\* hold any int: C code stores through its Dataptr.
Finite == -MaxDouble..MaxDouble
Doubles == Finite \union {Inf, -Inf, NA, NaN}
Ints == NA..IntMax
Cells(kernel) ==
    CASE kernel \in {"sum", "mean", "minmax", "SumReal", "MinMaxReal"} -> Doubles
      [] kernel = "cumsum" -> Finite \union {NA, NaN}
      [] kernel \in {"norm2", "scaleAdd"} -> Finite \ {NA, NaN}
      [] kernel \in {"sumInt", "countTrue", "minmaxInt", "SumInteger", "SumLogical",
                     "MinMaxInteger"} -> Ints
      [] OTHER -> Doubles \union Ints

\* Infinity is out of reach, and the two infinities are not added.
JobOK(j) ==
    /\ j.kernel \in Kernels \union Methods
    /\ j.find_min \in BOOLEAN /\ j.na_rm \in BOOLEAN
    /\ j.source \in {"direct", "regions", "empty", "overfull"}
    /\ j.data \in Seq(Cells(j.kernel))
    /\ Inf > 2 * MaxDouble * Len(j.data)
    /\ j.kernel \in {"sum", "mean", "SumReal"} => ~({Inf, -Inf} \subseteq Range(j.data))

ASSUME ReductionsAssumption ==
    /\ Chunk \in Nat \ {0} /\ Lanes \in Nat \ {0}
    /\ MaxDouble \in Nat \ {0} /\ IntMax \in Nat
    /\ Inf \in Int /\ Inf > 2 * MaxDouble /\ {Inf, -Inf} \intersect {NA, NaN} = {}
    /\ \A j \in Jobs : JobOK(j)

VARIABLES
    job,      \* the call: kernel, find_min, na_rm, data, source
    pass,     \* which of its passes over the data: the mean makes up to three
    offset,   \* the iterator: elements read in this pass
    acc,      \* the kernel's locals
    result    \* what the call returned

vars == <<job, pass, offset, acc, result>>

n == Len(job.data)
Pending == [is |-> "pending"]
Done(v) == [is |-> "done", value |-> v]
Failed == [is |-> "AltRepRegionRead"]

Present(v) == v \notin {NA, NaN}
Better(v, than) == IF job.find_min THEN v < than ELSE v > than
Worst(least, greatest) == IF job.find_min THEN greatest ELSE least

\* The locals, with their first values: of argminmax best is void until found.
Start(j) ==
    [total |-> 0, missing |-> "none", count |-> Len(j.data), correction |-> 0,
     found |-> FALSE, idx |-> 0, out |-> <<>>,
     best |-> CASE j.kernel = "minmax" -> IF j.find_min THEN Inf ELSE -Inf
                [] j.kernel = "minmaxInt" -> IF j.find_min THEN IntMax ELSE NA
                [] OTHER -> 0]

TypeOK ==
    /\ job \in Jobs
    /\ pass \in {"total", "scaled", "correction"}
    /\ offset \in 0..n
    /\ acc.idx \in 0..n /\ acc.count \in 0..n /\ Len(acc.out) <= n
    /\ acc.missing \in {"none", "nan", "na"}
    /\ result.is \in {"pending", "done", "AltRepRegionRead"}

Init ==
    /\ job \in Jobs
    /\ pass = "total" /\ offset = 0
    /\ acc = Start(job)
    /\ result = Pending

-----------------------------------------------------------------------------
(***************************************************************************)
(* Chunks.                                                                 *)
(***************************************************************************)
\* Mutant of checkedRegionCount: a read of no elements is taken for progress.
AcceptZero(got, requested) == got >= 0 /\ got <= requested

checkedRegionCount(got, requested) == got > 0 /\ got <= requested

\* What the class's Get_region method may return when it is asked for `want`.
Answers(want) ==
    IF job.source = "direct" THEN {n}
    ELSE IF job.source = "regions" \/ offset = 0 THEN 1..want
    ELSE IF job.source = "empty" THEN {0} ELSE {want + 1}

\* The elements the kernel then takes: what is beyond the data is whatever.
Elements(got) == [i \in 1..got |-> IF offset + i <= n THEN job.data[offset + i] ELSE 1]

\* next of the iterators: a direct slice is one chunk, whatever its length.
Want == IF job.source = "direct" THEN n ELSE Min({Chunk, n - offset})
next(got, taken) ==
    /\ IF checkedRegionCount(got, Want)
       THEN acc' = taken /\ offset' = offset + got /\ UNCHANGED result
       ELSE result' = Failed /\ UNCHANGED <<offset, acc>>
    /\ UNCHANGED <<job, pass>>

\* One turn of a kernel's loop; Add is what its body does with the chunk.
Take(Add(_, _)) ==
    /\ result = Pending
    /\ offset < n
    /\ \E got \in Answers(Want) : next(got, Add(acc, Elements(got)))

\* Whole vectors of lanes come first, then the rest of the chunk: where they are.
Body(c) == IF Len(c) >= Lanes THEN Len(c) - (Len(c) % Lanes) ELSE 0
Lane(c, j) == [k \in 1 .. Body(c) \div Lanes |-> (k - 1) * Lanes + j]
Tail_(c) == [k \in 1 .. Len(c) - Body(c) |-> Body(c) + k]
Of(c, places) == [k \in DOMAIN places |-> c[places[k]]]

\* Adds the terms of a chunk to the total, lanes first.
Plus(x, y) == x + y
LaneSum(a, terms) ==
    LET lanes == [j \in 1..Lanes |-> FoldLeft(Plus, 0, Of(terms, Lane(terms, j)))]
    IN  [a EXCEPT !.total = FoldLeft(Plus, @ + FoldLeft(Plus, 0, lanes), Of(terms, Tail_(terms)))]

-----------------------------------------------------------------------------
(***************************************************************************)
(* Sums and means.                                                         *)
(***************************************************************************)
realMissing(v) == IF v = NA THEN "na" ELSE IF v = NaN THEN "nan" ELSE "none"

\* Mutant of combineRealMissing: the last one wins.
CombineLast(current, following) == IF following = "none" THEN current ELSE following

combineRealMissing(current, following) ==
    IF "na" \in {current, following} THEN "na"
    ELSE IF "nan" \in {current, following} THEN "nan" ELSE "none"

OfMissing(missing, otherwise) ==
    CASE missing = "na" -> NA [] missing = "nan" -> NaN [] OTHER -> otherwise

Double(x) == IF x > MaxDouble THEN Inf ELSE IF x < -MaxDouble THEN -Inf ELSE x

\* The accumulator of sum, and the first pass of mean: count loses the missing.
AddReal(a, v) ==
    IF Present(v) THEN [a EXCEPT !.total = @ + v]
    ELSE [a EXCEPT !.count = @ - 1,
                   !.missing = IF job.na_rm THEN @ ELSE combineRealMissing(@, realMissing(v))]

RealSumAccumulator == job.kernel = "sum" /\ Take(LAMBDA a, c : FoldLeft(AddReal, a, c))

\* Mutant of Rewind: the next pass finds the iterator at the end.
RewindNot == UNCHANGED offset

Rewind == offset' = 0

\* The mean is total over count.  When total is not a finite double it is added
\* up again, each element divided first; a finite mean gets one correction.
MeanTotal == job.kernel = "mean" /\ pass = "total" /\ Take(LAMBDA a, c : FoldLeft(AddReal, a, c))

NextPass(p) == pass' = p /\ Rewind
MeanEnd == job.kernel = "mean" /\ result = Pending /\ offset >= n

realMeanChunksScale ==
    /\ MeanEnd /\ pass = "total"
    /\ acc.missing = "none" /\ acc.count # 0
    /\ Double(acc.total) \in {Inf, -Inf}
    /\ NextPass("scaled")
    /\ acc' = [acc EXCEPT !.total = 0]
    /\ UNCHANGED <<job, result>>

AddScaled(a, v) == IF job.na_rm /\ ~Present(v) THEN a ELSE [a EXCEPT !.total = @ + v]
MeanScaled == job.kernel = "mean" /\ pass = "scaled" /\ Take(LAMBDA a, c : FoldLeft(AddScaled, a, c))

FiniteMean == acc.total <= MaxDouble * acc.count /\ acc.total >= -MaxDouble * acc.count

realMeanChunksCorrect ==
    /\ MeanEnd
    /\ \/ pass = "total" /\ Double(acc.total) \notin {Inf, -Inf}
       \/ pass = "scaled"
    /\ acc.missing = "none" /\ acc.count # 0
    /\ FiniteMean
    /\ NextPass("correction")
    /\ UNCHANGED <<job, acc, result>>

\* realMeanCorrection: the sum of the differences from the mean, in count-ths.
AddDifference(a, v) ==
    IF job.na_rm /\ ~Present(v) THEN a
    ELSE [a EXCEPT !.correction = @ + v * a.count - a.total]
realMeanCorrection ==
    job.kernel = "mean" /\ pass = "correction" /\ Take(LAMBDA a, c : FoldLeft(AddDifference, a, c))

\* The mean, its numerator over the square of count.
Mean ==
    IF acc.missing # "none" \/ acc.count = 0
    THEN OfMissing(acc.missing, NaN)
    ELSE IF FiniteMean THEN acc.total * acc.count + acc.correction
    ELSE IF acc.total > 0 THEN Inf ELSE -Inf

\* The last pass of the mean is the correction, unless there is nothing to correct.
realMeanChunksReturn ==
    /\ MeanEnd
    /\ \/ acc.missing # "none" \/ acc.count = 0
       \/ pass = "correction"
       \/ pass = "scaled" /\ ~FiniteMean
    /\ result' = Done(Mean)
    /\ UNCHANGED <<job, pass, offset, acc>>

Squares(c) == [i \in DOMAIN c |-> c[i] * c[i]]
Scaled(c) == [i \in DOMAIN c |-> c[i] * Alpha + Beta]

sumInt == job.kernel = "sumInt" /\ Take(LaneSum)
norm2 == job.kernel = "norm2" /\ Take(LAMBDA a, c : LaneSum(a, Squares(c)))
scaleAdd == job.kernel = "scaleAdd" /\ Take(LAMBDA a, c : LaneSum(a, Scaled(c)))

AddTrue(a, v) == IF v = 1 THEN [a EXCEPT !.total = @ + 1] ELSE a
countTrue == job.kernel = "countTrue" /\ Take(LAMBDA a, c : FoldLeft(AddTrue, a, c))

\* From the first missing value on everything is missing.
AddCumulative(a, v) ==
    LET missing == combineRealMissing(a.missing, realMissing(v))
        total == IF missing = "none" THEN Double(a.total + v) ELSE a.total
    IN  [a EXCEPT !.missing = missing, !.total = total,
                  !.out = Append(@, OfMissing(missing, total))]
cumsum == job.kernel = "cumsum" /\ Take(LAMBDA a, c : FoldLeft(AddCumulative, a, c))

-----------------------------------------------------------------------------
(***************************************************************************)
(* Extremes and their places.                                              *)
(***************************************************************************)
AddExtreme(a, v) ==
    IF v # NA /\ (~a.found \/ Better(v, a.best)) THEN [a EXCEPT !.best = v, !.found = TRUE] ELSE a
minmaxIntChunks == job.kernel = "minmaxInt" /\ Take(LAMBDA a, c : FoldLeft(AddExtreme, a, c))

\* The best of the lanes of a chunk and of what they start with.
Pick(x, y) == IF Better(y, x) THEN y ELSE x
LaneExtreme(start, c) ==
    FoldLeft(Pick, start, [j \in 1..Lanes |-> FoldLeft(Pick, start, Of(c, Lane(c, j)))])

AddMissing(missing, v) == combineRealMissing(missing, realMissing(v))
chunkRealMissing(c) == FoldLeft(AddMissing, "none", c)

\* min and max of a real vector: lanes pass over what is missing.
MinMaxLanes(a, c) ==
    LET chunk_missing == chunkRealMissing(c)
        identity == Worst(-Inf, Inf)
        clean == IF chunk_missing = "none" THEN c
                 ELSE [i \in DOMAIN c |-> IF Present(c[i]) THEN c[i] ELSE identity]
    IN  IF Len(c) < Lanes THEN a
        ELSE [a EXCEPT !.missing = combineRealMissing(@, chunk_missing),
                       !.best = Pick(@, LaneExtreme(identity, clean))]
AddMinMax(a, v) ==
    IF Present(v) THEN [a EXCEPT !.best = Pick(@, v)]
    ELSE [a EXCEPT !.missing = AddMissing(@, v)]
minmax ==
    job.kernel = "minmax"
    /\ Take(LAMBDA a, c : FoldLeft(AddMinMax, MinMaxLanes(a, c), Of(c, Tail_(c))))

\* A candidate: a value and where it is.  Of equal ones the first is better.
At(v, i) == [best |-> v, idx |-> i]

\* Mutant of Sooner: of equal ones the first lane's.
SoonerLane(x, y) == IF Better(y.best, x.best) THEN y ELSE x

Sooner(x, y) ==
    IF Better(y.best, x.best) \/ (y.best = x.best /\ y.idx < x.idx) THEN y ELSE x

Later(x, y) == IF Present(y.best) /\ Better(y.best, x.best) THEN y ELSE x

\* The best of a chunk: each lane starts with the first value there is.
BestOfChunk(c) ==
    LET at == [i \in DOMAIN c |-> At(c[i], offset + i - 1)]
        first == at[Min({i \in DOMAIN c : Present(c[i])})]
        lanes == [j \in 1..Lanes |-> FoldLeft(Later, first, Of(at, Lane(c, j)))]
    IN  FoldLeft(Later, FoldLeft(Sooner, lanes[1], lanes), Of(at, Tail_(c)))

AddBest(a, c) ==
    LET local == BestOfChunk(c)
        new == IF a.found THEN Sooner(At(a.best, a.idx), local) ELSE local
    IN  IF \A i \in DOMAIN c : ~Present(c[i]) THEN a
        ELSE [a EXCEPT !.found = TRUE, !.best = new.best, !.idx = new.idx]
argminmax == job.kernel = "argminmax" /\ Take(AddBest)

-----------------------------------------------------------------------------
(***************************************************************************)
(* The summary methods of the ALTREP classes: one pass over the buffer.     *)
(***************************************************************************)
AnyNA == \E i \in 1..n : job.data[i] = NA
AnyNaN == \E i \in 1..n : job.data[i] = NaN

\* The sum methods of integer and of logical vectors answer with an R scalar of
\* one of three types.
ScalarInteger(v) == [type |-> "integer", value |-> v]
ScalarLogical(v) == [type |-> "logical", value |-> v]
ScalarReal(v) == [type |-> "double", value |-> v]

\* The total of realSum, a long double that is narrowed at the end, and of
\* integerSum, wide enough for any length.
AddPresent(total, v) == IF Present(v) THEN total + v ELSE total
realSum ==
    IF AnyNA /\ ~job.na_rm THEN NA
    ELSE IF AnyNaN /\ ~job.na_rm THEN NaN
    ELSE Double(FoldLeft(AddPresent, 0, job.data))

integerSum ==
    LET total == FoldLeft(AddPresent, 0, job.data)
    IN  IF AnyNA /\ ~job.na_rm THEN ScalarInteger(NA)
        ELSE IF total >= NA /\ total <= IntMax THEN ScalarInteger(total) ELSE ScalarReal(total)

\* The total of logicalSum: one for each element that is true, whatever the int.
AddNonzero(total, v) == IF Present(v) /\ v # 0 THEN total + 1 ELSE total
logicalSum ==
    LET total == FoldLeft(AddNonzero, 0, job.data)
    IN  IF AnyNA /\ ~job.na_rm THEN ScalarLogical(NA)
        ELSE IF total <= IntMax THEN ScalarInteger(total) ELSE ScalarReal(total)

\* realMin and realMax.
PickPresent(x, v) == IF Present(v) THEN Pick(x, v) ELSE x
MinMaxReal ==
    IF AnyNA /\ ~job.na_rm THEN NA
    ELSE IF AnyNaN /\ ~job.na_rm THEN NaN
    ELSE FoldLeft(PickPresent, Worst(-Inf, Inf), job.data)

\* Mutant of FoundInLanes: the lanes forget that they have seen a value.
FoundInTail(c) == \E k \in DOMAIN Tail_(c) : Present(c[Tail_(c)[k]])

FoundInLanes(c) == \E i \in DOMAIN c : Present(c[i])

\* integerMin and integerMax: lanes start with the worst int there is.
MinMaxInteger ==
    LET c == job.data
        identity == Worst(NA + 1, IntMax)
        clean == [i \in DOMAIN c |-> IF Present(c[i]) THEN c[i] ELSE identity]
    IN  IF AnyNA /\ ~job.na_rm THEN NA
        ELSE IF ~FoundInLanes(c) THEN Worst(-Inf, Inf)
        ELSE FoldLeft(Pick, LaneExtreme(identity, clean), Of(clean, Tail_(c)))

isSortedNumeric(s) ==
    LET Adjacent(R(_, _)) == \A i \in 1 .. Len(s) - 1 : R(s[i], s[i + 1])
    IN  CASE Len(s) <= 1 \/ Adjacent(LAMBDA x, y : x <= y) -> "SORTED_INCR"
          [] OTHER -> IF Adjacent(LAMBDA x, y : x >= y) THEN "SORTED_DECR" ELSE "KNOWN_UNSORTED"

noNAMethodImpl == ~AnyNA /\ ~AnyNaN
isSortedMethodImpl == IF noNAMethodImpl THEN isSortedNumeric(job.data) ELSE "UNKNOWN_SORTEDNESS"

CallMethod ==
    /\ job.kernel \in Methods /\ result = Pending
    /\ result' = Done(CASE job.kernel = "SumReal" -> realSum
                        [] job.kernel = "SumInteger" -> integerSum
                        [] job.kernel = "SumLogical" -> logicalSum
                        [] job.kernel = "MinMaxReal" -> MinMaxReal
                        [] job.kernel = "MinMaxInteger" -> MinMaxInteger
                        [] job.kernel = "No_NA" -> noNAMethodImpl
                        [] job.kernel = "Is_sorted" -> isSortedMethodImpl)
    /\ UNCHANGED <<job, pass, offset, acc>>

-----------------------------------------------------------------------------
\* What a kernel makes of its locals.
Finish(a) ==
    CASE job.kernel = "sum" -> OfMissing(a.missing, Double(a.total))
      [] job.kernel = "minmax" -> OfMissing(a.missing, a.best)
      [] job.kernel = "minmaxInt" -> a.best
      [] job.kernel = "argminmax" -> IF a.found THEN a.idx ELSE -1
      [] job.kernel = "cumsum" -> a.out
      [] OTHER -> a.total

Return ==
    /\ job.kernel \in Kernels \ {"mean"}
    /\ result = Pending
    /\ offset >= n
    /\ result' = Done(Finish(acc))
    /\ UNCHANGED <<job, pass, offset, acc>>

Next ==
    \/ RealSumAccumulator \/ sumInt \/ norm2 \/ scaleAdd \/ countTrue \/ cumsum
    \/ minmaxIntChunks \/ minmax \/ argminmax
    \/ MeanTotal \/ MeanScaled \/ realMeanCorrection
    \/ realMeanChunksScale \/ realMeanChunksCorrect \/ realMeanChunksReturn
    \/ Return \/ CallMethod

\* A call is one loop of one thread: it goes on for as long as it can.
Spec == Init /\ [][Next]_vars /\ WF_vars(Next)

-----------------------------------------------------------------------------
(***************************************************************************)
(* What the results should be, of the data as a whole.                      *)
(***************************************************************************)
Indices(s) == {i \in DOMAIN s : Present(s[i])}
SumSeq(s) == FoldLeft(Plus, 0, s)
SumOf(s) == SumSeq([i \in DOMAIN s |-> IF Present(s[i]) THEN s[i] ELSE 0])
Extreme(least, S) == IF least THEN Min(S) ELSE Max(S)
ExtremeOf(least, s, none) ==
    IF Indices(s) = {} THEN none ELSE Extreme(least, {s[i] : i \in Indices(s)})
WorstOf(s, na_rm, otherwise) ==
    IF na_rm THEN otherwise
    ELSE IF NA \in Range(s) THEN NA ELSE IF NaN \in Range(s) THEN NaN ELSE otherwise

\* A whole number as an R scalar: an int if it fits in one.
Scalar(x) == IF x \in Ints THEN ScalarInteger(x) ELSE ScalarReal(x)

\* The elements of a logical vector that are not FALSE.
Nonzero(s) == {i \in DOMAIN s : Present(s[i]) /\ s[i] # 0}

\* A running sum that leaves the finite numbers stays where it left them.
RunningSum(s) ==
    LET left == {i \in DOMAIN s : SumOf(SubSeq(s, 1, i)) \notin Finite}
    IN  IF left = {} THEN SumOf(s) ELSE Double(SumOf(SubSeq(s, 1, Min(left))))

Reference(j, s) ==
    LET k == j.kernel
        none(least, greatest) == IF j.find_min THEN greatest ELSE least
        infinities == {Inf, -Inf} \intersect Range(s)
        missing == NA \in Range(s) /\ ~j.na_rm
    IN  CASE k = "sum" -> WorstOf(s, j.na_rm, Double(SumOf(s)))
          [] k = "mean" -> WorstOf(s, j.na_rm,
                               IF Indices(s) = {} THEN NaN
                               ELSE IF infinities # {} THEN CHOOSE v \in infinities : TRUE
                               ELSE SumOf(s) * Cardinality(Indices(s)))
          [] k = "sumInt" -> SumSeq(s)
          [] k = "norm2" -> SumSeq(Squares(s))
          [] k = "scaleAdd" -> Alpha * SumSeq(s) + Beta * Len(s)
          [] k = "countTrue" -> Cardinality({i \in DOMAIN s : s[i] = 1})
          [] k = "minmaxInt" -> ExtremeOf(j.find_min, s, none(NA, IntMax))
          [] k = "minmax" -> WorstOf(s, FALSE, ExtremeOf(j.find_min, s, none(-Inf, Inf)))
          [] k = "argminmax" -> IF Indices(s) = {} THEN -1
                                ELSE Min({i \in Indices(s) : s[i] = ExtremeOf(j.find_min, s, 0)}) - 1
          [] k = "cumsum" -> [i \in DOMAIN s |->
                                 WorstOf(SubSeq(s, 1, i), FALSE, RunningSum(SubSeq(s, 1, i)))]
          [] k = "SumReal" -> WorstOf(s, j.na_rm, Double(SumOf(s)))
          [] k = "SumInteger" -> IF missing THEN ScalarInteger(NA) ELSE Scalar(SumOf(s))
          [] k = "SumLogical" -> IF missing THEN ScalarLogical(NA)
                                 ELSE Scalar(Cardinality(Nonzero(s)))
          [] k \in {"MinMaxReal", "MinMaxInteger"} ->
                WorstOf(s, j.na_rm, ExtremeOf(j.find_min, s, none(-Inf, Inf)))
          [] k = "No_NA" -> Indices(s) = DOMAIN s
          [] k = "Is_sorted" ->
                IF Indices(s) # DOMAIN s THEN "UNKNOWN_SORTEDNESS"
                ELSE IF \A i, l \in DOMAIN s : i < l => s[i] <= s[l] THEN "SORTED_INCR"
                ELSE IF \A i, l \in DOMAIN s : i < l => s[i] >= s[l] THEN "SORTED_DECR"
                ELSE "KNOWN_UNSORTED"

\* However the data is cut into chunks, lanes and a rest, the locals are at every
\* chunk the summary of what was read: of equal extremes the first is kept, and
\* NA outlasts NaN (convert.zig:2083, :2109, :1837, :2246).  The type invariant is
\* part of this one.
LocalsSummarizePrefix ==
    /\ TypeOK
    /\ result = Pending /\ job.kernel \in Kernels \ {"mean"} =>
          Finish(acc) = Reference(job, SubSeq(job.data, 1, offset))

\* What is returned is the summary of all the data, also when the mean reads it
\* three times and when a class's regions are short; a class whose regions are
\* not to be believed never leads to a value of part of the data
\* (convert.zig:1937, :1952, :368).
ResultIsReference ==
    result.is = "done" /\ job.kernel \in Kernels => result.value = Reference(job, job.data)

\* The summary methods R calls of an ALTREP vector answer for all its elements,
\* of any length, below and above the number of lanes: the extremes, No_NA and the
\* sortedness of what is present or the missing value that outranks it, the sum of
\* doubles as a double, the sum of ints as an int if it is one and else as a
\* double (the least int is one for the code, and R reads it as NA).  A logical
\* vector's sum counts the elements that are not FALSE, also those that C code
\* stored and that are neither 0 nor 1 (altrep_create.zig:364, :434, :453, :467,
\* :543).
MethodIsReference ==
    result.is = "done" /\ job.kernel \in Methods => result.value = Reference(job, job.data)

\* Every call returns or fails, whatever the regions are (convert.zig:368).
Terminates == <>(result.is # "pending")
=============================================================================
