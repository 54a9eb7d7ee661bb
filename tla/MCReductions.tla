----------------------------- MODULE MCReductions -----------------------------
(***************************************************************************)
(* A small instance of Reductions for TLC: every vector of up to four       *)
(* elements, with chunks of three elements and vectors of two lanes.        *)
(***************************************************************************)
EXTENDS Reductions

CONSTANT MaxLength

RealCells == {NA, NaN, -1, 3}
Vectors(cells) == BoundedSeq(cells, MaxLength)
Calls(kernels, na_rm, cells, sources) ==
    [kernel : kernels, find_min : BOOLEAN, na_rm : na_rm, data : Vectors(cells), source : sources]

Every == {"direct", "regions", "empty", "overfull"}
Direction(kernels) == IF kernels \subseteq {"minmax", "minmaxInt", "argminmax", "MinMaxReal",
                                            "MinMaxInteger"} THEN BOOLEAN ELSE {TRUE}

\* Ints whose sums are ints, the least int, and beyond it on both sides.
IntegerSums ==
    {j \in Calls({"SumInteger"}, BOOLEAN, {NA, NA + 1, -1, IntMax - 1}, {"direct"}) : j.find_min}

SmallJobs ==
    {j \in Calls({"sum", "mean"}, BOOLEAN, RealCells \union {Inf}, Every)
           \union Calls({"minmax", "argminmax", "cumsum"}, {FALSE}, RealCells, Every)
           \union Calls({"minmaxInt", "argminmax", "sumInt"}, {FALSE}, {NA, -1, 2}, Every)
           \union Calls({"countTrue", "minmaxInt", "argminmax"}, {FALSE}, {NA, 0, 1}, Every)
           \union Calls({"norm2", "scaleAdd"}, {FALSE}, {-1, 3}, Every)
           \union Calls({"SumReal"}, BOOLEAN, RealCells \union {Inf}, {"direct"})
           \union Calls({"MinMaxReal", "No_NA", "Is_sorted"}, BOOLEAN, RealCells, {"direct"})
           \union Calls({"MinMaxInteger", "No_NA", "Is_sorted"}, BOOLEAN, {NA, -1, 2}, {"direct"})
           \union Calls({"SumLogical"}, BOOLEAN, {NA, 0, 1, 2}, {"direct"})
           \union IntegerSums
     : j.find_min \in Direction({j.kernel})}
=============================================================================
