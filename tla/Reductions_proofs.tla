--------------------------- MODULE Reductions_proofs ---------------------------
(***************************************************************************)
(* Proofs about Reductions: whatever the chunks, the lanes and the vector,  *)
(* the results are the summaries of the data.                               *)
(***************************************************************************)
EXTENDS Reductions, TLAPS, FiniteSetTheorems, SequenceTheorems, WellFoundedInduction

-----------------------------------------------------------------------------
(***************************************************************************)
(* Induction over numbers, for sets of them.                                *)
(***************************************************************************)
LEMMA LessWellFounded == IsWellFoundedOn(OpToRel(<, Nat), Nat)
BY NatLessThanWellFounded, Zenon

\* A set of natural numbers has a least one.
LEMMA Least ==
    ASSUME NEW T, T \subseteq Nat, T # {}
    PROVE  Min(T) \in T /\ \A y \in T : Min(T) <= y
<1> DEFINE R == OpToRel(<, Nat)
<1>1. IsWellFoundedOn(R, Nat)
  BY LessWellFounded, Zenon
<1>2. PICK x \in T : \A y \in T : ~ (<<y, x>> \in R)
  <2> HIDE DEF R
  <2> QED
    BY <1>1, WFMin
<1>3. ASSUME NEW y \in T PROVE x <= y
  <2>1. x \in Nat /\ y \in Nat
    OBVIOUS
  <2>2. y < x => <<y, x>> \in R
    BY <2>1, Zenon DEF OpToRel
  <2>3. ~(y < x)
    BY <1>2, <2>2, Zenon
  <2> QED
    BY <2>1, <2>3
<1> QED
  BY <1>3 DEF Min

\* Induction over Nat, for a set of numbers.
LEMMA Induction ==
    ASSUME NEW S, 0 \in S, \A k \in Nat : k \in S => k + 1 \in S
    PROVE  \A k \in Nat : k \in S
<1> DEFINE T == Nat \ S
<1> SUFFICES ASSUME T # {} PROVE FALSE
  OBVIOUS
<1>1. Min(T) \in T /\ \A y \in T : Min(T) <= y
  <2>1. T \subseteq Nat
    OBVIOUS
  <2> HIDE DEF T
  <2> QED
    BY <2>1, Least
<1>2. PICK x : x = Min(T)
  OBVIOUS
<1>3. x # 0 /\ x - 1 \in Nat /\ x = (x - 1) + 1
  BY <1>1, <1>2
<1>4. x - 1 \in T
  BY <1>1, <1>2, <1>3
<1> QED
  BY <1>1, <1>2, <1>3, <1>4

\* Induction over the numbers up to m.
LEMMA InductionTo ==
    ASSUME NEW S, NEW m \in Nat, 0 \in S,
           \A k \in 0 .. m - 1 : k \in S => k + 1 \in S
    PROVE  \A k \in 0..m : k \in S
<1> DEFINE T == {k \in Nat : k <= m => k \in S}
<1>1. 0 \in T
  OBVIOUS
<1>2. ASSUME NEW k \in Nat, k \in T PROVE k + 1 \in T
  BY <1>2
<1>3. \A k \in Nat : k \in T
  <2> HIDE DEF T
  <2> QED
    BY <1>1, <1>2, Induction
<1> QED
  BY <1>3

-----------------------------------------------------------------------------
(***************************************************************************)
(* Folds: a fold over a sequence goes from one local state to the next.      *)
(***************************************************************************)
LEMMA MaxIs ==
    ASSUME NEW S, NEW x \in S, S \subseteq Int, \A y \in S : y <= x
    PROVE  Max(S) = x
<1>1. \A z \in S : (\A y \in S : z >= y) <=> z = x
  OBVIOUS
<1> QED
  BY <1>1 DEF Max

\* The least element is the one that no other is below.
LEMMA MinIs ==
    ASSUME NEW S, NEW x \in S, S \subseteq Int, \A y \in S : x <= y
    PROVE  Min(S) = x
<1>1. \A z \in S : (\A y \in S : z =< y) <=> z = x
  OBVIOUS
<1> QED
  BY <1>1 DEF Min

\* A set of numbers up to m has a greatest one.
LEMMA Greatest ==
    ASSUME NEW m \in Nat, NEW S \in SUBSET (1..m), S # {}
    PROVE  Max(S) \in S /\ \A y \in S : y <= Max(S)
<1> DEFINE T == {m - y : y \in S}
<1>1. T \subseteq Nat /\ T # {}
  <2>1. \A y \in S : m - y \in Nat
    OBVIOUS
  <2> QED
    BY <2>1
<1>2. \A y \in S : m - y \in T
  OBVIOUS
<1>3. \A t \in T : \E y \in S : t = m - y
  OBVIOUS
<1> HIDE DEF T
<1>4. Min(T) \in T /\ \A y \in T : Min(T) <= y
  BY <1>1, Least
<1>5. PICK x \in S : Min(T) = m - x
  BY <1>3, <1>4
<1>6. ASSUME NEW y \in S PROVE y <= x
  <2>1. m - x <= m - y
    BY <1>2, <1>4, <1>5
  <2>2. x \in Int /\ y \in Int
    OBVIOUS
  <2> QED
    BY <2>1, <2>2
<1>7. S \subseteq Int
  OBVIOUS
<1>8. Max(S) = x
  BY <1>6, <1>7, MaxIs
<1> QED
  BY <1>6, <1>8

\* What MapThenFoldSet takes from 1..k: its greatest element, then 1..(k - 1).
LEMMA Segments ==
    ASSUME NEW m \in Nat, NEW k \in 1..m
    PROVE  /\ 1..k \in SUBSET (1..m) /\ 1..k # {}
           /\ Max(1..k) = k /\ (1..k) \ {Max(1..k)} = 1..(k - 1)
<1>1. k \in 1..k /\ 1..k \subseteq Int /\ \A y \in 1..k : y <= k
  OBVIOUS
<1>2. Max(1..k) = k
  <2> HIDE <1>1
  <2> DEFINE S == 1..k
  <2>1. k \in S /\ S \subseteq Int /\ \A y \in S : y <= k
    BY <1>1
  <2> HIDE DEF S
  <2>2. Max(S) = k
    BY <2>1, MaxIs
  <2> QED
    BY <2>2 DEF S
<1>3. 1..k \in SUBSET (1..m) /\ (1..k) \ {k} = 1..(k - 1)
  OBVIOUS
<1> QED
  BY <1>1, <1>2, <1>3

\* h maps a set of places in c to what F makes of the elements there, from a on.
Folds(h, F, A, a, V, c) ==
    /\ h \in [SUBSET (DOMAIN c) -> A]
    /\ \A s \in SUBSET (DOMAIN c) :
          /\ s = {} => h[s] = a
          /\ s # {} => /\ h[s \ {Max(s)}] \in A /\ c[Max(s)] \in V
                       /\ h[s] = F[<<h[s \ {Max(s)}], c[Max(s)]>>]

\* There is such a function for a step that stays in A.
LEMMA FoldExists ==
    ASSUME NEW A, NEW a \in A, NEW V, NEW c \in Seq(V), NEW F \in [A \X V -> A]
    PROVE  \E h : Folds(h, F, A, a, V, c)
<1> DEFINE m == Len(c)
           Good(h, k) ==
              \A s \in SUBSET (1..k) :
                 h[s] = IF s = {} THEN a ELSE F[<<h[s \ {Max(s)}], c[Max(s)]>>]
           S == {k \in Nat : \E h \in [SUBSET (1..k) -> A] : Good(h, k)}
<1>0. m \in Nat /\ DOMAIN c = 1..m /\ \A i \in 1..m : c[i] \in V
  OBVIOUS
<1> HIDE DEF m
<1>1. 0 \in S
  <2> DEFINE h == [s \in SUBSET (1..0) |-> a]
  <2>1. h \in [SUBSET (1..0) -> A]
    OBVIOUS
  <2>2. \A s \in SUBSET (1..0) : s = {}
    OBVIOUS
  <2>3. Good(h, 0)
    BY <2>2
  <2> QED
    BY <2>1, <2>3
<1>2. ASSUME NEW k \in 0 .. m - 1, k \in S PROVE k + 1 \in S
  <2>1. PICK h \in [SUBSET (1..k) -> A] : Good(h, k)
    BY <1>2
  <2> DEFINE g == [s \in SUBSET (1..(k + 1)) |->
                      IF k + 1 \in s THEN F[<<h[s \ {k + 1}], c[k + 1]>>] ELSE h[s]]
  <2>2. k \in Nat /\ k + 1 \in 1..m /\ c[k + 1] \in V
    BY <1>0
  <2>3. ASSUME NEW s \in SUBSET (1..(k + 1))
        PROVE  /\ g[s] \in A
               /\ g[s] = IF s = {} THEN a ELSE F[<<g[s \ {Max(s)}], c[Max(s)]>>]
    <3>1. CASE k + 1 \in s
      <4>1. Max(s) = k + 1
        <5>1. s \subseteq Int /\ \A y \in s : y <= k + 1
          BY <2>2
        <5> QED
          BY <3>1, <5>1, MaxIs
      <4>2. s \ {k + 1} \in SUBSET (1..k) /\ s \ {k + 1} \in SUBSET (1..(k + 1))
        BY <2>2
      <4>3. g[s \ {k + 1}] = h[s \ {k + 1}] /\ h[s \ {k + 1}] \in A
        BY <4>2
      <4>4. g[s] = F[<<h[s \ {k + 1}], c[k + 1]>>]
        BY <3>1
      <4> HIDE DEF g
      <4> QED
        BY <3>1, <4>1, <4>3, <4>4, <2>2
    <3>2. CASE k + 1 \notin s
      <4>1. s \in SUBSET (1..k)
        BY <3>2, <2>2
      <4>2. g[s] = h[s] /\ h[s] \in A
        BY <3>2, <4>1
      <4>3. CASE s = {}
        BY <4>1, <4>2, <4>3, <2>1
      <4>4. CASE s # {}
        <5> DEFINE t == s \ {Max(s)}
        <5>1. t \in SUBSET (1..k)
          BY <4>1
        <5>2. t \in SUBSET (1..(k + 1)) /\ k + 1 \notin t
          BY <5>1, <2>2
        <5>3. g[t] = h[t]
          BY <5>2
        <5> HIDE DEF g
        <5> QED
          BY <4>1, <4>2, <4>4, <5>3, <2>1
      <4> QED
        BY <4>3, <4>4
    <3> QED
      BY <3>1, <3>2
  <2>4. g \in [SUBSET (1..(k + 1)) -> A] /\ Good(g, k + 1)
    <3>1. g \in [SUBSET (1..(k + 1)) -> A]
      BY <2>3
    <3> HIDE DEF g
    <3> QED
      BY <2>3, <3>1
  <2> HIDE DEF g, Good
  <2> QED
    BY <2>2, <2>4
<1>3. m \in S
  <2> HIDE DEF S
  <2>1. \A k \in 0..m : k \in S
    BY <1>0, <1>1, <1>2, InductionTo
  <2> QED
    BY <1>0, <2>1
<1>4. PICK h \in [SUBSET (1..m) -> A] : Good(h, m)
  BY <1>3
<1>5. ASSUME NEW s \in SUBSET (1..m), s # {}
      PROVE  /\ h[s \ {Max(s)}] \in A /\ c[Max(s)] \in V
             /\ h[s] = F[<<h[s \ {Max(s)}], c[Max(s)]>>]
  <2>1. Max(s) \in 1..m
    BY <1>0, <1>5, Greatest
  <2>2. s \ {Max(s)} \in SUBSET (1..m)
    OBVIOUS
  <2> QED
    BY <1>0, <1>4, <1>5, <2>1, <2>2
<1> QED
  BY <1>0, <1>4, <1>5 DEF Folds

\* What the steps of such a function keep holds of what it makes of all of c.
LEMMA FoldKeeps ==
    ASSUME NEW A, NEW V, NEW c \in Seq(V), NEW F \in [A \X V -> A], NEW g, NEW I,
           g[{}] \in A, g[{}] \in I[0],
           \A k \in 1..Len(c) : g[1..(k - 1)] \in A => g[1..k] = F[<<g[1..(k - 1)], c[k]>>],
           \A k \in 1..Len(c), x \in A : x \in I[k - 1] => F[<<x, c[k]>>] \in I[k]
    PROVE  g[DOMAIN c] \in A /\ g[DOMAIN c] \in I[Len(c)]
<1> DEFINE S == {k \in 0..Len(c) : g[1..k] \in A /\ g[1..k] \in I[k]}
<1>1. Len(c) \in Nat /\ DOMAIN c = 1..Len(c) /\ \A k \in 1..Len(c) : c[k] \in V
  OBVIOUS
<1>2. 0 \in S
  BY <1>1
<1>3. ASSUME NEW k \in 0 .. Len(c) - 1, k \in S PROVE k + 1 \in S
  <2>1. k + 1 \in 1..Len(c) /\ k + 1 \in 0..Len(c) /\ (k + 1) - 1 = k
    BY <1>1
  <2>2. g[1..k] \in A /\ g[1..k] \in I[k] /\ c[k + 1] \in V
    BY <1>1, <1>3, <2>1
  <2> DEFINE x == g[1..k]
             l == k + 1
  <2>3. x \in A /\ x \in I[l - 1] /\ l \in 1..Len(c) /\ c[l] \in V /\ g[1..l] = F[<<x, c[l]>>]
    BY <2>1, <2>2
  <2> HIDE DEF x
  <2>4. F[<<x, c[l]>>] \in A /\ F[<<x, c[l]>>] \in I[l]
    BY <2>3
  <2> QED
    BY <2>1, <2>3, <2>4
<1> HIDE DEF S
<1>4. \A k \in 0..Len(c) : k \in S
  BY <1>1, <1>2, <1>3, InductionTo
<1>5. Len(c) \in S
  BY <1>1, <1>4
<1> QED
  BY <1>1, <1>5 DEF S

\* The kernels' locals and the candidates of argminmax.
MissingKinds == {"none", "nan", "na"}
Locals == [total : Int, missing : MissingKinds, count : Int, correction : Int,
           found : BOOLEAN, idx : Int, out : Seq(Int), best : Int]
Candidates == [best : Int, idx : Int]

\* The fields of the locals.
LEMMA LocalsHas ==
    ASSUME NEW a \in Locals
    PROVE  /\ a.total \in Int /\ a.missing \in MissingKinds /\ a.count \in Int
           /\ a.correction \in Int /\ a.found \in BOOLEAN /\ a.idx \in Int
           /\ a.out \in Seq(Int) /\ a.best \in Int
BY DEF Locals

LEMMA NewTotal ==
    ASSUME NEW a \in Locals, NEW x \in Int
    PROVE  [a EXCEPT !.total = x] \in Locals
BY DEF Locals

\* combineRealMissing yields a kind of missing value.
LEMMA Kinds ==
    ASSUME NEW m, NEW v \in Int
    PROVE  combineRealMissing(m, realMissing(v)) \in MissingKinds
BY DEF combineRealMissing, realMissing, MissingKinds

\* The encodings are numbers, and NaN is below NA.
LEMMA Numbers == NA \in Int /\ NaN \in Int /\ Inf \in Int /\ NaN < NA
BY ReductionsAssumption DEF NA, NaN

\* Types of the operations of the kernels.
LEMMA DoubleType ==
    ASSUME NEW x \in Int
    PROVE  Double(x) \in Int
BY ReductionsAssumption DEF Double

LEMMA OfMissingType ==
    ASSUME NEW m, NEW x \in Int
    PROVE  OfMissing(m, x) \in Int
BY Numbers DEF OfMissing

LEMMA PlusType == \A x \in Int, v \in Int : Plus(x, v) \in Int
BY DEF Plus

\* A fold of Plus has every property its steps keep.
LEMMA PlusFold ==
    ASSUME NEW c \in Seq(Int), NEW a \in Int, NEW I, a \in I[0],
           \A k \in 1..Len(c), x \in Int : x \in I[k - 1] => Plus(x, c[k]) \in I[k]
    PROVE  /\ FoldLeft(Plus, a, c) \in Int
           /\ FoldLeft(Plus, a, c) \in I[Len(c)]
<1> DEFINE F == [x \in Int \X Int |-> Plus(x[1], x[2])]
           Rec(g) == g = [s \in SUBSET (DOMAIN c) |->
                             IF s = {} THEN a ELSE Plus(g[s \ {Max(s)}], c[Max(s)])]
<1>1. \A x \in Int, v \in Int : Plus(x, v) \in Int
  BY PlusType
<1>2. /\ F \in [Int \X Int -> Int]
      /\ \A x \in Int, v \in Int : F[<<x, v>>] = Plus(x, v)
  BY <1>1
<1>3. \E g : Rec(g)
  <2> HIDE DEF F
  <2>1. PICK h : Folds(h, F, Int, a, Int, c)
    BY <1>2, FoldExists
  <2>2. Rec(h)
    BY <1>2, <2>1 DEF Folds
  <2> QED
    BY <2>2
<1>4. PICK g : Rec(g) /\ FoldLeft(Plus, a, c) = g[DOMAIN c]
  <2>1. FoldLeft(Plus, a, c) = (CHOOSE g : Rec(g))[DOMAIN c]
    BY DEF FoldLeft, MapThenFoldSet
  <2> HIDE DEF Rec
  <2> QED
    BY <1>3, <2>1
<1>5. /\ g[{}] = a
      /\ \A s \in SUBSET (DOMAIN c) : s # {} => g[s] = Plus(g[s \ {Max(s)}], c[Max(s)])
  BY <1>4
<1>6. Len(c) \in Nat /\ DOMAIN c = 1..Len(c) /\ \A k \in 1..Len(c) : c[k] \in Int
  OBVIOUS
<1>7. ASSUME NEW k \in 1..Len(c) PROVE g[1..k] = Plus(g[1..(k - 1)], c[k])
  BY <1>5, <1>6, Segments
<1> HIDE DEF F, Rec
<1>8. \A k \in 1..Len(c) : g[1..(k - 1)] \in Int => g[1..k] = F[<<g[1..(k - 1)], c[k]>>]
  BY <1>2, <1>6, <1>7
<1>9. \A k \in 1..Len(c), x \in Int : x \in I[k - 1] => F[<<x, c[k]>>] \in I[k]
  BY <1>2, <1>6
<1>10. g[DOMAIN c] \in Int /\ g[DOMAIN c] \in I[Len(c)]
  BY <1>2, <1>5, <1>8, <1>9, FoldKeeps
<1> QED
  BY <1>4, <1>10

LEMMA AddRealType == \A x \in Locals, v \in Int : AddReal(x, v) \in Locals
<1> SUFFICES ASSUME NEW x \in Locals, NEW v \in Int PROVE AddReal(x, v) \in Locals
  OBVIOUS
<1> DEFINE kind == IF job.na_rm THEN x.missing ELSE combineRealMissing(x.missing, realMissing(v))
           less == x.count - 1
           more == x.total + v
<1>1. kind \in MissingKinds /\ less \in Int /\ more \in Int
  BY Kinds, LocalsHas
<1>2. AddReal(x, v) = IF Present(v) THEN [x EXCEPT !.total = more]
                      ELSE [x EXCEPT !.count = less, !.missing = kind]
  BY DEF AddReal
<1> HIDE DEF kind, less, more
<1> QED
  BY <1>1, <1>2 DEF Locals

\* A fold of AddReal has every property its steps keep.
LEMMA AddRealFold ==
    ASSUME NEW c \in Seq(Int), NEW a \in Locals, NEW I, a \in I[0],
           \A k \in 1..Len(c), x \in Locals : x \in I[k - 1] => AddReal(x, c[k]) \in I[k]
    PROVE  /\ FoldLeft(AddReal, a, c) \in Locals
           /\ FoldLeft(AddReal, a, c) \in I[Len(c)]
<1> DEFINE F == [x \in Locals \X Int |-> AddReal(x[1], x[2])]
           Rec(g) == g = [s \in SUBSET (DOMAIN c) |->
                             IF s = {} THEN a ELSE AddReal(g[s \ {Max(s)}], c[Max(s)])]
<1>1. \A x \in Locals, v \in Int : AddReal(x, v) \in Locals
  BY AddRealType
<1>2. /\ F \in [Locals \X Int -> Locals]
      /\ \A x \in Locals, v \in Int : F[<<x, v>>] = AddReal(x, v)
  BY <1>1
<1>3. \E g : Rec(g)
  <2> HIDE DEF F
  <2>1. PICK h : Folds(h, F, Locals, a, Int, c)
    BY <1>2, FoldExists
  <2>2. Rec(h)
    BY <1>2, <2>1 DEF Folds
  <2> QED
    BY <2>2
<1>4. PICK g : Rec(g) /\ FoldLeft(AddReal, a, c) = g[DOMAIN c]
  <2>1. FoldLeft(AddReal, a, c) = (CHOOSE g : Rec(g))[DOMAIN c]
    BY DEF FoldLeft, MapThenFoldSet
  <2> HIDE DEF Rec
  <2> QED
    BY <1>3, <2>1
<1>5. /\ g[{}] = a
      /\ \A s \in SUBSET (DOMAIN c) : s # {} => g[s] = AddReal(g[s \ {Max(s)}], c[Max(s)])
  BY <1>4
<1>6. Len(c) \in Nat /\ DOMAIN c = 1..Len(c) /\ \A k \in 1..Len(c) : c[k] \in Int
  OBVIOUS
<1>7. ASSUME NEW k \in 1..Len(c) PROVE g[1..k] = AddReal(g[1..(k - 1)], c[k])
  BY <1>5, <1>6, Segments
<1> HIDE DEF F, Rec
<1>8. \A k \in 1..Len(c) : g[1..(k - 1)] \in Locals => g[1..k] = F[<<g[1..(k - 1)], c[k]>>]
  BY <1>2, <1>6, <1>7
<1>9. \A k \in 1..Len(c), x \in Locals : x \in I[k - 1] => F[<<x, c[k]>>] \in I[k]
  BY <1>2, <1>6
<1>10. g[DOMAIN c] \in Locals /\ g[DOMAIN c] \in I[Len(c)]
  BY <1>2, <1>5, <1>8, <1>9, FoldKeeps
<1> QED
  BY <1>4, <1>10

LEMMA AddScaledType == \A x \in Locals, v \in Int : AddScaled(x, v) \in Locals
<1> SUFFICES ASSUME NEW x \in Locals, NEW v \in Int PROVE AddScaled(x, v) \in Locals
  OBVIOUS
<1>1. x.total + v \in Int
  BY LocalsHas
<1>2. [x EXCEPT !.total = x.total + v] \in Locals
  BY <1>1 DEF Locals
<1> QED
  BY <1>2 DEF AddScaled

\* A fold of AddScaled has every property its steps keep.
LEMMA AddScaledFold ==
    ASSUME NEW c \in Seq(Int), NEW a \in Locals, NEW I, a \in I[0],
           \A k \in 1..Len(c), x \in Locals : x \in I[k - 1] => AddScaled(x, c[k]) \in I[k]
    PROVE  /\ FoldLeft(AddScaled, a, c) \in Locals
           /\ FoldLeft(AddScaled, a, c) \in I[Len(c)]
<1> DEFINE F == [x \in Locals \X Int |-> AddScaled(x[1], x[2])]
           Rec(g) == g = [s \in SUBSET (DOMAIN c) |->
                             IF s = {} THEN a ELSE AddScaled(g[s \ {Max(s)}], c[Max(s)])]
<1>1. \A x \in Locals, v \in Int : AddScaled(x, v) \in Locals
  BY AddScaledType
<1>2. /\ F \in [Locals \X Int -> Locals]
      /\ \A x \in Locals, v \in Int : F[<<x, v>>] = AddScaled(x, v)
  BY <1>1
<1>3. \E g : Rec(g)
  <2> HIDE DEF F
  <2>1. PICK h : Folds(h, F, Locals, a, Int, c)
    BY <1>2, FoldExists
  <2>2. Rec(h)
    BY <1>2, <2>1 DEF Folds
  <2> QED
    BY <2>2
<1>4. PICK g : Rec(g) /\ FoldLeft(AddScaled, a, c) = g[DOMAIN c]
  <2>1. FoldLeft(AddScaled, a, c) = (CHOOSE g : Rec(g))[DOMAIN c]
    BY DEF FoldLeft, MapThenFoldSet
  <2> HIDE DEF Rec
  <2> QED
    BY <1>3, <2>1
<1>5. /\ g[{}] = a
      /\ \A s \in SUBSET (DOMAIN c) : s # {} => g[s] = AddScaled(g[s \ {Max(s)}], c[Max(s)])
  BY <1>4
<1>6. Len(c) \in Nat /\ DOMAIN c = 1..Len(c) /\ \A k \in 1..Len(c) : c[k] \in Int
  OBVIOUS
<1>7. ASSUME NEW k \in 1..Len(c) PROVE g[1..k] = AddScaled(g[1..(k - 1)], c[k])
  BY <1>5, <1>6, Segments
<1> HIDE DEF F, Rec
<1>8. \A k \in 1..Len(c) : g[1..(k - 1)] \in Locals => g[1..k] = F[<<g[1..(k - 1)], c[k]>>]
  BY <1>2, <1>6, <1>7
<1>9. \A k \in 1..Len(c), x \in Locals : x \in I[k - 1] => F[<<x, c[k]>>] \in I[k]
  BY <1>2, <1>6
<1>10. g[DOMAIN c] \in Locals /\ g[DOMAIN c] \in I[Len(c)]
  BY <1>2, <1>5, <1>8, <1>9, FoldKeeps
<1> QED
  BY <1>4, <1>10

LEMMA AddDifferenceType == \A x \in Locals, v \in Int : AddDifference(x, v) \in Locals
<1> SUFFICES ASSUME NEW x \in Locals, NEW v \in Int PROVE AddDifference(x, v) \in Locals
  OBVIOUS
<1>1. x.correction + v * x.count - x.total \in Int
  BY LocalsHas
<1>2. [x EXCEPT !.correction = x.correction + v * x.count - x.total] \in Locals
  BY <1>1 DEF Locals
<1> QED
  BY <1>2 DEF AddDifference

\* A fold of AddDifference has every property its steps keep.
LEMMA AddDifferenceFold ==
    ASSUME NEW c \in Seq(Int), NEW a \in Locals, NEW I, a \in I[0],
           \A k \in 1..Len(c), x \in Locals : x \in I[k - 1] => AddDifference(x, c[k]) \in I[k]
    PROVE  /\ FoldLeft(AddDifference, a, c) \in Locals
           /\ FoldLeft(AddDifference, a, c) \in I[Len(c)]
<1> DEFINE F == [x \in Locals \X Int |-> AddDifference(x[1], x[2])]
           Rec(g) == g = [s \in SUBSET (DOMAIN c) |->
                             IF s = {} THEN a ELSE AddDifference(g[s \ {Max(s)}], c[Max(s)])]
<1>1. \A x \in Locals, v \in Int : AddDifference(x, v) \in Locals
  BY AddDifferenceType
<1>2. /\ F \in [Locals \X Int -> Locals]
      /\ \A x \in Locals, v \in Int : F[<<x, v>>] = AddDifference(x, v)
  BY <1>1
<1>3. \E g : Rec(g)
  <2> HIDE DEF F
  <2>1. PICK h : Folds(h, F, Locals, a, Int, c)
    BY <1>2, FoldExists
  <2>2. Rec(h)
    BY <1>2, <2>1 DEF Folds
  <2> QED
    BY <2>2
<1>4. PICK g : Rec(g) /\ FoldLeft(AddDifference, a, c) = g[DOMAIN c]
  <2>1. FoldLeft(AddDifference, a, c) = (CHOOSE g : Rec(g))[DOMAIN c]
    BY DEF FoldLeft, MapThenFoldSet
  <2> HIDE DEF Rec
  <2> QED
    BY <1>3, <2>1
<1>5. /\ g[{}] = a
      /\ \A s \in SUBSET (DOMAIN c) : s # {} => g[s] = AddDifference(g[s \ {Max(s)}], c[Max(s)])
  BY <1>4
<1>6. Len(c) \in Nat /\ DOMAIN c = 1..Len(c) /\ \A k \in 1..Len(c) : c[k] \in Int
  OBVIOUS
<1>7. ASSUME NEW k \in 1..Len(c) PROVE g[1..k] = AddDifference(g[1..(k - 1)], c[k])
  BY <1>5, <1>6, Segments
<1> HIDE DEF F, Rec
<1>8. \A k \in 1..Len(c) : g[1..(k - 1)] \in Locals => g[1..k] = F[<<g[1..(k - 1)], c[k]>>]
  BY <1>2, <1>6, <1>7
<1>9. \A k \in 1..Len(c), x \in Locals : x \in I[k - 1] => F[<<x, c[k]>>] \in I[k]
  BY <1>2, <1>6
<1>10. g[DOMAIN c] \in Locals /\ g[DOMAIN c] \in I[Len(c)]
  BY <1>2, <1>5, <1>8, <1>9, FoldKeeps
<1> QED
  BY <1>4, <1>10

LEMMA AddTrueType == \A x \in Locals, v \in Int : AddTrue(x, v) \in Locals
<1> SUFFICES ASSUME NEW x \in Locals, NEW v \in Int PROVE AddTrue(x, v) \in Locals
  OBVIOUS
<1>1. x.total + 1 \in Int
  BY LocalsHas
<1>2. [x EXCEPT !.total = x.total + 1] \in Locals
  BY <1>1 DEF Locals
<1> QED
  BY <1>2 DEF AddTrue

\* A fold of AddTrue has every property its steps keep.
LEMMA AddTrueFold ==
    ASSUME NEW c \in Seq(Int), NEW a \in Locals, NEW I, a \in I[0],
           \A k \in 1..Len(c), x \in Locals : x \in I[k - 1] => AddTrue(x, c[k]) \in I[k]
    PROVE  /\ FoldLeft(AddTrue, a, c) \in Locals
           /\ FoldLeft(AddTrue, a, c) \in I[Len(c)]
<1> DEFINE F == [x \in Locals \X Int |-> AddTrue(x[1], x[2])]
           Rec(g) == g = [s \in SUBSET (DOMAIN c) |->
                             IF s = {} THEN a ELSE AddTrue(g[s \ {Max(s)}], c[Max(s)])]
<1>1. \A x \in Locals, v \in Int : AddTrue(x, v) \in Locals
  BY AddTrueType
<1>2. /\ F \in [Locals \X Int -> Locals]
      /\ \A x \in Locals, v \in Int : F[<<x, v>>] = AddTrue(x, v)
  BY <1>1
<1>3. \E g : Rec(g)
  <2> HIDE DEF F
  <2>1. PICK h : Folds(h, F, Locals, a, Int, c)
    BY <1>2, FoldExists
  <2>2. Rec(h)
    BY <1>2, <2>1 DEF Folds
  <2> QED
    BY <2>2
<1>4. PICK g : Rec(g) /\ FoldLeft(AddTrue, a, c) = g[DOMAIN c]
  <2>1. FoldLeft(AddTrue, a, c) = (CHOOSE g : Rec(g))[DOMAIN c]
    BY DEF FoldLeft, MapThenFoldSet
  <2> HIDE DEF Rec
  <2> QED
    BY <1>3, <2>1
<1>5. /\ g[{}] = a
      /\ \A s \in SUBSET (DOMAIN c) : s # {} => g[s] = AddTrue(g[s \ {Max(s)}], c[Max(s)])
  BY <1>4
<1>6. Len(c) \in Nat /\ DOMAIN c = 1..Len(c) /\ \A k \in 1..Len(c) : c[k] \in Int
  OBVIOUS
<1>7. ASSUME NEW k \in 1..Len(c) PROVE g[1..k] = AddTrue(g[1..(k - 1)], c[k])
  BY <1>5, <1>6, Segments
<1> HIDE DEF F, Rec
<1>8. \A k \in 1..Len(c) : g[1..(k - 1)] \in Locals => g[1..k] = F[<<g[1..(k - 1)], c[k]>>]
  BY <1>2, <1>6, <1>7
<1>9. \A k \in 1..Len(c), x \in Locals : x \in I[k - 1] => F[<<x, c[k]>>] \in I[k]
  BY <1>2, <1>6
<1>10. g[DOMAIN c] \in Locals /\ g[DOMAIN c] \in I[Len(c)]
  BY <1>2, <1>5, <1>8, <1>9, FoldKeeps
<1> QED
  BY <1>4, <1>10

LEMMA AddCumulativeType == \A x \in Locals, v \in Int : AddCumulative(x, v) \in Locals
<1> SUFFICES ASSUME NEW x \in Locals, NEW v \in Int PROVE AddCumulative(x, v) \in Locals
  OBVIOUS
<1> DEFINE missing == combineRealMissing(x.missing, realMissing(v))
           total == IF missing = "none" THEN Double(x.total + v) ELSE x.total
<1>1. missing \in MissingKinds
  BY Kinds
<1>2. x.total \in Int /\ x.out \in Seq(Int)
  BY DEF Locals
<1>3. total \in Int
  <2>1. Double(x.total + v) \in Int
    BY <1>2, DoubleType
  <2> QED
    BY <1>2, <2>1
<1>4. OfMissing(missing, total) \in Int
  <2> HIDE DEF missing, total
  <2> QED
    BY <1>3, OfMissingType
<1>5. Append(x.out, OfMissing(missing, total)) \in Seq(Int)
  <2> HIDE DEF missing, total
  <2> QED
    BY <1>2, <1>4
<1>6. AddCumulative(x, v) = [x EXCEPT !.missing = missing, !.total = total,
                                      !.out = Append(@, OfMissing(missing, total))]
  BY DEF AddCumulative
<1> HIDE DEF missing, total
<1> QED
  BY <1>1, <1>3, <1>5, <1>6 DEF Locals

\* A fold of AddCumulative has every property its steps keep.
LEMMA AddCumulativeFold ==
    ASSUME NEW c \in Seq(Int), NEW a \in Locals, NEW I, a \in I[0],
           \A k \in 1..Len(c), x \in Locals : x \in I[k - 1] => AddCumulative(x, c[k]) \in I[k]
    PROVE  /\ FoldLeft(AddCumulative, a, c) \in Locals
           /\ FoldLeft(AddCumulative, a, c) \in I[Len(c)]
<1> DEFINE F == [x \in Locals \X Int |-> AddCumulative(x[1], x[2])]
           Rec(g) == g = [s \in SUBSET (DOMAIN c) |->
                             IF s = {} THEN a ELSE AddCumulative(g[s \ {Max(s)}], c[Max(s)])]
<1>1. \A x \in Locals, v \in Int : AddCumulative(x, v) \in Locals
  BY AddCumulativeType
<1>2. /\ F \in [Locals \X Int -> Locals]
      /\ \A x \in Locals, v \in Int : F[<<x, v>>] = AddCumulative(x, v)
  BY <1>1
<1>3. \E g : Rec(g)
  <2> HIDE DEF F
  <2>1. PICK h : Folds(h, F, Locals, a, Int, c)
    BY <1>2, FoldExists
  <2>2. Rec(h)
    BY <1>2, <2>1 DEF Folds
  <2> QED
    BY <2>2
<1>4. PICK g : Rec(g) /\ FoldLeft(AddCumulative, a, c) = g[DOMAIN c]
  <2>1. FoldLeft(AddCumulative, a, c) = (CHOOSE g : Rec(g))[DOMAIN c]
    BY DEF FoldLeft, MapThenFoldSet
  <2> HIDE DEF Rec
  <2> QED
    BY <1>3, <2>1
<1>5. /\ g[{}] = a
      /\ \A s \in SUBSET (DOMAIN c) : s # {} => g[s] = AddCumulative(g[s \ {Max(s)}], c[Max(s)])
  BY <1>4
<1>6. Len(c) \in Nat /\ DOMAIN c = 1..Len(c) /\ \A k \in 1..Len(c) : c[k] \in Int
  OBVIOUS
<1>7. ASSUME NEW k \in 1..Len(c) PROVE g[1..k] = AddCumulative(g[1..(k - 1)], c[k])
  BY <1>5, <1>6, Segments
<1> HIDE DEF F, Rec
<1>8. \A k \in 1..Len(c) : g[1..(k - 1)] \in Locals => g[1..k] = F[<<g[1..(k - 1)], c[k]>>]
  BY <1>2, <1>6, <1>7
<1>9. \A k \in 1..Len(c), x \in Locals : x \in I[k - 1] => F[<<x, c[k]>>] \in I[k]
  BY <1>2, <1>6
<1>10. g[DOMAIN c] \in Locals /\ g[DOMAIN c] \in I[Len(c)]
  BY <1>2, <1>5, <1>8, <1>9, FoldKeeps
<1> QED
  BY <1>4, <1>10

LEMMA AddExtremeType == \A x \in Locals, v \in Int : AddExtreme(x, v) \in Locals
BY DEF AddExtreme, Locals

\* A fold of AddExtreme has every property its steps keep.
LEMMA AddExtremeFold ==
    ASSUME NEW c \in Seq(Int), NEW a \in Locals, NEW I, a \in I[0],
           \A k \in 1..Len(c), x \in Locals : x \in I[k - 1] => AddExtreme(x, c[k]) \in I[k]
    PROVE  /\ FoldLeft(AddExtreme, a, c) \in Locals
           /\ FoldLeft(AddExtreme, a, c) \in I[Len(c)]
<1> DEFINE F == [x \in Locals \X Int |-> AddExtreme(x[1], x[2])]
           Rec(g) == g = [s \in SUBSET (DOMAIN c) |->
                             IF s = {} THEN a ELSE AddExtreme(g[s \ {Max(s)}], c[Max(s)])]
<1>1. \A x \in Locals, v \in Int : AddExtreme(x, v) \in Locals
  BY AddExtremeType
<1>2. /\ F \in [Locals \X Int -> Locals]
      /\ \A x \in Locals, v \in Int : F[<<x, v>>] = AddExtreme(x, v)
  BY <1>1
<1>3. \E g : Rec(g)
  <2> HIDE DEF F
  <2>1. PICK h : Folds(h, F, Locals, a, Int, c)
    BY <1>2, FoldExists
  <2>2. Rec(h)
    BY <1>2, <2>1 DEF Folds
  <2> QED
    BY <2>2
<1>4. PICK g : Rec(g) /\ FoldLeft(AddExtreme, a, c) = g[DOMAIN c]
  <2>1. FoldLeft(AddExtreme, a, c) = (CHOOSE g : Rec(g))[DOMAIN c]
    BY DEF FoldLeft, MapThenFoldSet
  <2> HIDE DEF Rec
  <2> QED
    BY <1>3, <2>1
<1>5. /\ g[{}] = a
      /\ \A s \in SUBSET (DOMAIN c) : s # {} => g[s] = AddExtreme(g[s \ {Max(s)}], c[Max(s)])
  BY <1>4
<1>6. Len(c) \in Nat /\ DOMAIN c = 1..Len(c) /\ \A k \in 1..Len(c) : c[k] \in Int
  OBVIOUS
<1>7. ASSUME NEW k \in 1..Len(c) PROVE g[1..k] = AddExtreme(g[1..(k - 1)], c[k])
  BY <1>5, <1>6, Segments
<1> HIDE DEF F, Rec
<1>8. \A k \in 1..Len(c) : g[1..(k - 1)] \in Locals => g[1..k] = F[<<g[1..(k - 1)], c[k]>>]
  BY <1>2, <1>6, <1>7
<1>9. \A k \in 1..Len(c), x \in Locals : x \in I[k - 1] => F[<<x, c[k]>>] \in I[k]
  BY <1>2, <1>6
<1>10. g[DOMAIN c] \in Locals /\ g[DOMAIN c] \in I[Len(c)]
  BY <1>2, <1>5, <1>8, <1>9, FoldKeeps
<1> QED
  BY <1>4, <1>10

LEMMA AddMinMaxType == \A x \in Locals, v \in Int : AddMinMax(x, v) \in Locals
BY Kinds DEF AddMinMax, AddMissing, Pick, Locals

\* A fold of AddMinMax has every property its steps keep.
LEMMA AddMinMaxFold ==
    ASSUME NEW c \in Seq(Int), NEW a \in Locals, NEW I, a \in I[0],
           \A k \in 1..Len(c), x \in Locals : x \in I[k - 1] => AddMinMax(x, c[k]) \in I[k]
    PROVE  /\ FoldLeft(AddMinMax, a, c) \in Locals
           /\ FoldLeft(AddMinMax, a, c) \in I[Len(c)]
<1> DEFINE F == [x \in Locals \X Int |-> AddMinMax(x[1], x[2])]
           Rec(g) == g = [s \in SUBSET (DOMAIN c) |->
                             IF s = {} THEN a ELSE AddMinMax(g[s \ {Max(s)}], c[Max(s)])]
<1>1. \A x \in Locals, v \in Int : AddMinMax(x, v) \in Locals
  BY AddMinMaxType
<1>2. /\ F \in [Locals \X Int -> Locals]
      /\ \A x \in Locals, v \in Int : F[<<x, v>>] = AddMinMax(x, v)
  BY <1>1
<1>3. \E g : Rec(g)
  <2> HIDE DEF F
  <2>1. PICK h : Folds(h, F, Locals, a, Int, c)
    BY <1>2, FoldExists
  <2>2. Rec(h)
    BY <1>2, <2>1 DEF Folds
  <2> QED
    BY <2>2
<1>4. PICK g : Rec(g) /\ FoldLeft(AddMinMax, a, c) = g[DOMAIN c]
  <2>1. FoldLeft(AddMinMax, a, c) = (CHOOSE g : Rec(g))[DOMAIN c]
    BY DEF FoldLeft, MapThenFoldSet
  <2> HIDE DEF Rec
  <2> QED
    BY <1>3, <2>1
<1>5. /\ g[{}] = a
      /\ \A s \in SUBSET (DOMAIN c) : s # {} => g[s] = AddMinMax(g[s \ {Max(s)}], c[Max(s)])
  BY <1>4
<1>6. Len(c) \in Nat /\ DOMAIN c = 1..Len(c) /\ \A k \in 1..Len(c) : c[k] \in Int
  OBVIOUS
<1>7. ASSUME NEW k \in 1..Len(c) PROVE g[1..k] = AddMinMax(g[1..(k - 1)], c[k])
  BY <1>5, <1>6, Segments
<1> HIDE DEF F, Rec
<1>8. \A k \in 1..Len(c) : g[1..(k - 1)] \in Locals => g[1..k] = F[<<g[1..(k - 1)], c[k]>>]
  BY <1>2, <1>6, <1>7
<1>9. \A k \in 1..Len(c), x \in Locals : x \in I[k - 1] => F[<<x, c[k]>>] \in I[k]
  BY <1>2, <1>6
<1>10. g[DOMAIN c] \in Locals /\ g[DOMAIN c] \in I[Len(c)]
  BY <1>2, <1>5, <1>8, <1>9, FoldKeeps
<1> QED
  BY <1>4, <1>10

LEMMA AddMissingType == \A x \in MissingKinds, v \in Int : AddMissing(x, v) \in MissingKinds
BY Kinds DEF AddMissing

\* A fold of AddMissing has every property its steps keep.
LEMMA AddMissingFold ==
    ASSUME NEW c \in Seq(Int), NEW a \in MissingKinds, NEW I, a \in I[0],
           \A k \in 1..Len(c), x \in MissingKinds : x \in I[k - 1] => AddMissing(x, c[k]) \in I[k]
    PROVE  /\ FoldLeft(AddMissing, a, c) \in MissingKinds
           /\ FoldLeft(AddMissing, a, c) \in I[Len(c)]
<1> DEFINE F == [x \in MissingKinds \X Int |-> AddMissing(x[1], x[2])]
           Rec(g) == g = [s \in SUBSET (DOMAIN c) |->
                             IF s = {} THEN a ELSE AddMissing(g[s \ {Max(s)}], c[Max(s)])]
<1>1. \A x \in MissingKinds, v \in Int : AddMissing(x, v) \in MissingKinds
  BY AddMissingType
<1>2. /\ F \in [MissingKinds \X Int -> MissingKinds]
      /\ \A x \in MissingKinds, v \in Int : F[<<x, v>>] = AddMissing(x, v)
  BY <1>1
<1>3. \E g : Rec(g)
  <2> HIDE DEF F
  <2>1. PICK h : Folds(h, F, MissingKinds, a, Int, c)
    BY <1>2, FoldExists
  <2>2. Rec(h)
    BY <1>2, <2>1 DEF Folds
  <2> QED
    BY <2>2
<1>4. PICK g : Rec(g) /\ FoldLeft(AddMissing, a, c) = g[DOMAIN c]
  <2>1. FoldLeft(AddMissing, a, c) = (CHOOSE g : Rec(g))[DOMAIN c]
    BY DEF FoldLeft, MapThenFoldSet
  <2> HIDE DEF Rec
  <2> QED
    BY <1>3, <2>1
<1>5. /\ g[{}] = a
      /\ \A s \in SUBSET (DOMAIN c) : s # {} => g[s] = AddMissing(g[s \ {Max(s)}], c[Max(s)])
  BY <1>4
<1>6. Len(c) \in Nat /\ DOMAIN c = 1..Len(c) /\ \A k \in 1..Len(c) : c[k] \in Int
  OBVIOUS
<1>7. ASSUME NEW k \in 1..Len(c) PROVE g[1..k] = AddMissing(g[1..(k - 1)], c[k])
  BY <1>5, <1>6, Segments
<1> HIDE DEF F, Rec
<1>8. \A k \in 1..Len(c) : g[1..(k - 1)] \in MissingKinds => g[1..k] = F[<<g[1..(k - 1)], c[k]>>]
  BY <1>2, <1>6, <1>7
<1>9. \A k \in 1..Len(c), x \in MissingKinds : x \in I[k - 1] => F[<<x, c[k]>>] \in I[k]
  BY <1>2, <1>6
<1>10. g[DOMAIN c] \in MissingKinds /\ g[DOMAIN c] \in I[Len(c)]
  BY <1>2, <1>5, <1>8, <1>9, FoldKeeps
<1> QED
  BY <1>4, <1>10

LEMMA PickType == \A x \in Int, v \in Int : Pick(x, v) \in Int
BY DEF Pick

\* A fold of Pick has every property its steps keep.
LEMMA PickFold ==
    ASSUME NEW c \in Seq(Int), NEW a \in Int, NEW I, a \in I[0],
           \A k \in 1..Len(c), x \in Int : x \in I[k - 1] => Pick(x, c[k]) \in I[k]
    PROVE  /\ FoldLeft(Pick, a, c) \in Int
           /\ FoldLeft(Pick, a, c) \in I[Len(c)]
<1> DEFINE F == [x \in Int \X Int |-> Pick(x[1], x[2])]
           Rec(g) == g = [s \in SUBSET (DOMAIN c) |->
                             IF s = {} THEN a ELSE Pick(g[s \ {Max(s)}], c[Max(s)])]
<1>1. \A x \in Int, v \in Int : Pick(x, v) \in Int
  BY PickType
<1>2. /\ F \in [Int \X Int -> Int]
      /\ \A x \in Int, v \in Int : F[<<x, v>>] = Pick(x, v)
  BY <1>1
<1>3. \E g : Rec(g)
  <2> HIDE DEF F
  <2>1. PICK h : Folds(h, F, Int, a, Int, c)
    BY <1>2, FoldExists
  <2>2. Rec(h)
    BY <1>2, <2>1 DEF Folds
  <2> QED
    BY <2>2
<1>4. PICK g : Rec(g) /\ FoldLeft(Pick, a, c) = g[DOMAIN c]
  <2>1. FoldLeft(Pick, a, c) = (CHOOSE g : Rec(g))[DOMAIN c]
    BY DEF FoldLeft, MapThenFoldSet
  <2> HIDE DEF Rec
  <2> QED
    BY <1>3, <2>1
<1>5. /\ g[{}] = a
      /\ \A s \in SUBSET (DOMAIN c) : s # {} => g[s] = Pick(g[s \ {Max(s)}], c[Max(s)])
  BY <1>4
<1>6. Len(c) \in Nat /\ DOMAIN c = 1..Len(c) /\ \A k \in 1..Len(c) : c[k] \in Int
  OBVIOUS
<1>7. ASSUME NEW k \in 1..Len(c) PROVE g[1..k] = Pick(g[1..(k - 1)], c[k])
  BY <1>5, <1>6, Segments
<1> HIDE DEF F, Rec
<1>8. \A k \in 1..Len(c) : g[1..(k - 1)] \in Int => g[1..k] = F[<<g[1..(k - 1)], c[k]>>]
  BY <1>2, <1>6, <1>7
<1>9. \A k \in 1..Len(c), x \in Int : x \in I[k - 1] => F[<<x, c[k]>>] \in I[k]
  BY <1>2, <1>6
<1>10. g[DOMAIN c] \in Int /\ g[DOMAIN c] \in I[Len(c)]
  BY <1>2, <1>5, <1>8, <1>9, FoldKeeps
<1> QED
  BY <1>4, <1>10

LEMMA PickPresentType == \A x \in Int, v \in Int : PickPresent(x, v) \in Int
BY DEF PickPresent, Pick

\* A fold of PickPresent has every property its steps keep.
LEMMA PickPresentFold ==
    ASSUME NEW c \in Seq(Int), NEW a \in Int, NEW I, a \in I[0],
           \A k \in 1..Len(c), x \in Int : x \in I[k - 1] => PickPresent(x, c[k]) \in I[k]
    PROVE  /\ FoldLeft(PickPresent, a, c) \in Int
           /\ FoldLeft(PickPresent, a, c) \in I[Len(c)]
<1> DEFINE F == [x \in Int \X Int |-> PickPresent(x[1], x[2])]
           Rec(g) == g = [s \in SUBSET (DOMAIN c) |->
                             IF s = {} THEN a ELSE PickPresent(g[s \ {Max(s)}], c[Max(s)])]
<1>1. \A x \in Int, v \in Int : PickPresent(x, v) \in Int
  BY PickPresentType
<1>2. /\ F \in [Int \X Int -> Int]
      /\ \A x \in Int, v \in Int : F[<<x, v>>] = PickPresent(x, v)
  BY <1>1
<1>3. \E g : Rec(g)
  <2> HIDE DEF F
  <2>1. PICK h : Folds(h, F, Int, a, Int, c)
    BY <1>2, FoldExists
  <2>2. Rec(h)
    BY <1>2, <2>1 DEF Folds
  <2> QED
    BY <2>2
<1>4. PICK g : Rec(g) /\ FoldLeft(PickPresent, a, c) = g[DOMAIN c]
  <2>1. FoldLeft(PickPresent, a, c) = (CHOOSE g : Rec(g))[DOMAIN c]
    BY DEF FoldLeft, MapThenFoldSet
  <2> HIDE DEF Rec
  <2> QED
    BY <1>3, <2>1
<1>5. /\ g[{}] = a
      /\ \A s \in SUBSET (DOMAIN c) : s # {} => g[s] = PickPresent(g[s \ {Max(s)}], c[Max(s)])
  BY <1>4
<1>6. Len(c) \in Nat /\ DOMAIN c = 1..Len(c) /\ \A k \in 1..Len(c) : c[k] \in Int
  OBVIOUS
<1>7. ASSUME NEW k \in 1..Len(c) PROVE g[1..k] = PickPresent(g[1..(k - 1)], c[k])
  BY <1>5, <1>6, Segments
<1> HIDE DEF F, Rec
<1>8. \A k \in 1..Len(c) : g[1..(k - 1)] \in Int => g[1..k] = F[<<g[1..(k - 1)], c[k]>>]
  BY <1>2, <1>6, <1>7
<1>9. \A k \in 1..Len(c), x \in Int : x \in I[k - 1] => F[<<x, c[k]>>] \in I[k]
  BY <1>2, <1>6
<1>10. g[DOMAIN c] \in Int /\ g[DOMAIN c] \in I[Len(c)]
  BY <1>2, <1>5, <1>8, <1>9, FoldKeeps
<1> QED
  BY <1>4, <1>10

LEMMA AddPresentType == \A x \in Int, v \in Int : AddPresent(x, v) \in Int
BY DEF AddPresent

\* A fold of AddPresent has every property its steps keep.
LEMMA AddPresentFold ==
    ASSUME NEW c \in Seq(Int), NEW a \in Int, NEW I, a \in I[0],
           \A k \in 1..Len(c), x \in Int : x \in I[k - 1] => AddPresent(x, c[k]) \in I[k]
    PROVE  /\ FoldLeft(AddPresent, a, c) \in Int
           /\ FoldLeft(AddPresent, a, c) \in I[Len(c)]
<1> DEFINE F == [x \in Int \X Int |-> AddPresent(x[1], x[2])]
           Rec(g) == g = [s \in SUBSET (DOMAIN c) |->
                             IF s = {} THEN a ELSE AddPresent(g[s \ {Max(s)}], c[Max(s)])]
<1>1. \A x \in Int, v \in Int : AddPresent(x, v) \in Int
  BY AddPresentType
<1>2. /\ F \in [Int \X Int -> Int]
      /\ \A x \in Int, v \in Int : F[<<x, v>>] = AddPresent(x, v)
  BY <1>1
<1>3. \E g : Rec(g)
  <2> HIDE DEF F
  <2>1. PICK h : Folds(h, F, Int, a, Int, c)
    BY <1>2, FoldExists
  <2>2. Rec(h)
    BY <1>2, <2>1 DEF Folds
  <2> QED
    BY <2>2
<1>4. PICK g : Rec(g) /\ FoldLeft(AddPresent, a, c) = g[DOMAIN c]
  <2>1. FoldLeft(AddPresent, a, c) = (CHOOSE g : Rec(g))[DOMAIN c]
    BY DEF FoldLeft, MapThenFoldSet
  <2> HIDE DEF Rec
  <2> QED
    BY <1>3, <2>1
<1>5. /\ g[{}] = a
      /\ \A s \in SUBSET (DOMAIN c) : s # {} => g[s] = AddPresent(g[s \ {Max(s)}], c[Max(s)])
  BY <1>4
<1>6. Len(c) \in Nat /\ DOMAIN c = 1..Len(c) /\ \A k \in 1..Len(c) : c[k] \in Int
  OBVIOUS
<1>7. ASSUME NEW k \in 1..Len(c) PROVE g[1..k] = AddPresent(g[1..(k - 1)], c[k])
  BY <1>5, <1>6, Segments
<1> HIDE DEF F, Rec
<1>8. \A k \in 1..Len(c) : g[1..(k - 1)] \in Int => g[1..k] = F[<<g[1..(k - 1)], c[k]>>]
  BY <1>2, <1>6, <1>7
<1>9. \A k \in 1..Len(c), x \in Int : x \in I[k - 1] => F[<<x, c[k]>>] \in I[k]
  BY <1>2, <1>6
<1>10. g[DOMAIN c] \in Int /\ g[DOMAIN c] \in I[Len(c)]
  BY <1>2, <1>5, <1>8, <1>9, FoldKeeps
<1> QED
  BY <1>4, <1>10

LEMMA AddNonzeroType == \A x \in Int, v \in Int : AddNonzero(x, v) \in Int
BY DEF AddNonzero

\* A fold of AddNonzero has every property its steps keep.
LEMMA AddNonzeroFold ==
    ASSUME NEW c \in Seq(Int), NEW a \in Int, NEW I, a \in I[0],
           \A k \in 1..Len(c), x \in Int : x \in I[k - 1] => AddNonzero(x, c[k]) \in I[k]
    PROVE  /\ FoldLeft(AddNonzero, a, c) \in Int
           /\ FoldLeft(AddNonzero, a, c) \in I[Len(c)]
<1> DEFINE F == [x \in Int \X Int |-> AddNonzero(x[1], x[2])]
           Rec(g) == g = [s \in SUBSET (DOMAIN c) |->
                             IF s = {} THEN a ELSE AddNonzero(g[s \ {Max(s)}], c[Max(s)])]
<1>1. \A x \in Int, v \in Int : AddNonzero(x, v) \in Int
  BY AddNonzeroType
<1>2. /\ F \in [Int \X Int -> Int]
      /\ \A x \in Int, v \in Int : F[<<x, v>>] = AddNonzero(x, v)
  BY <1>1
<1>3. \E g : Rec(g)
  <2> HIDE DEF F
  <2>1. PICK h : Folds(h, F, Int, a, Int, c)
    BY <1>2, FoldExists
  <2>2. Rec(h)
    BY <1>2, <2>1 DEF Folds
  <2> QED
    BY <2>2
<1>4. PICK g : Rec(g) /\ FoldLeft(AddNonzero, a, c) = g[DOMAIN c]
  <2>1. FoldLeft(AddNonzero, a, c) = (CHOOSE g : Rec(g))[DOMAIN c]
    BY DEF FoldLeft, MapThenFoldSet
  <2> HIDE DEF Rec
  <2> QED
    BY <1>3, <2>1
<1>5. /\ g[{}] = a
      /\ \A s \in SUBSET (DOMAIN c) : s # {} => g[s] = AddNonzero(g[s \ {Max(s)}], c[Max(s)])
  BY <1>4
<1>6. Len(c) \in Nat /\ DOMAIN c = 1..Len(c) /\ \A k \in 1..Len(c) : c[k] \in Int
  OBVIOUS
<1>7. ASSUME NEW k \in 1..Len(c) PROVE g[1..k] = AddNonzero(g[1..(k - 1)], c[k])
  BY <1>5, <1>6, Segments
<1> HIDE DEF F, Rec
<1>8. \A k \in 1..Len(c) : g[1..(k - 1)] \in Int => g[1..k] = F[<<g[1..(k - 1)], c[k]>>]
  BY <1>2, <1>6, <1>7
<1>9. \A k \in 1..Len(c), x \in Int : x \in I[k - 1] => F[<<x, c[k]>>] \in I[k]
  BY <1>2, <1>6
<1>10. g[DOMAIN c] \in Int /\ g[DOMAIN c] \in I[Len(c)]
  BY <1>2, <1>5, <1>8, <1>9, FoldKeeps
<1> QED
  BY <1>4, <1>10

LEMMA LaterType == \A x \in Candidates, v \in Candidates : Later(x, v) \in Candidates
BY DEF Later

\* A fold of Later has every property its steps keep.
LEMMA LaterFold ==
    ASSUME NEW c \in Seq(Candidates), NEW a \in Candidates, NEW I, a \in I[0],
           \A k \in 1..Len(c), x \in Candidates : x \in I[k - 1] => Later(x, c[k]) \in I[k]
    PROVE  /\ FoldLeft(Later, a, c) \in Candidates
           /\ FoldLeft(Later, a, c) \in I[Len(c)]
<1> DEFINE F == [x \in Candidates \X Candidates |-> Later(x[1], x[2])]
           Rec(g) == g = [s \in SUBSET (DOMAIN c) |->
                             IF s = {} THEN a ELSE Later(g[s \ {Max(s)}], c[Max(s)])]
<1>1. \A x \in Candidates, v \in Candidates : Later(x, v) \in Candidates
  BY LaterType
<1>2. /\ F \in [Candidates \X Candidates -> Candidates]
      /\ \A x \in Candidates, v \in Candidates : F[<<x, v>>] = Later(x, v)
  BY <1>1
<1>3. \E g : Rec(g)
  <2> HIDE DEF F
  <2>1. PICK h : Folds(h, F, Candidates, a, Candidates, c)
    BY <1>2, FoldExists
  <2>2. Rec(h)
    BY <1>2, <2>1 DEF Folds
  <2> QED
    BY <2>2
<1>4. PICK g : Rec(g) /\ FoldLeft(Later, a, c) = g[DOMAIN c]
  <2>1. FoldLeft(Later, a, c) = (CHOOSE g : Rec(g))[DOMAIN c]
    BY DEF FoldLeft, MapThenFoldSet
  <2> HIDE DEF Rec
  <2> QED
    BY <1>3, <2>1
<1>5. /\ g[{}] = a
      /\ \A s \in SUBSET (DOMAIN c) : s # {} => g[s] = Later(g[s \ {Max(s)}], c[Max(s)])
  BY <1>4
<1>6. Len(c) \in Nat /\ DOMAIN c = 1..Len(c) /\ \A k \in 1..Len(c) : c[k] \in Candidates
  OBVIOUS
<1>7. ASSUME NEW k \in 1..Len(c) PROVE g[1..k] = Later(g[1..(k - 1)], c[k])
  BY <1>5, <1>6, Segments
<1> HIDE DEF F, Rec
<1>8. \A k \in 1..Len(c) : g[1..(k - 1)] \in Candidates => g[1..k] = F[<<g[1..(k - 1)], c[k]>>]
  BY <1>2, <1>6, <1>7
<1>9. \A k \in 1..Len(c), x \in Candidates : x \in I[k - 1] => F[<<x, c[k]>>] \in I[k]
  BY <1>2, <1>6
<1>10. g[DOMAIN c] \in Candidates /\ g[DOMAIN c] \in I[Len(c)]
  BY <1>2, <1>5, <1>8, <1>9, FoldKeeps
<1> QED
  BY <1>4, <1>10

LEMMA SoonerType == \A x \in Candidates, v \in Candidates : Sooner(x, v) \in Candidates
BY DEF Sooner

\* A fold of Sooner has every property its steps keep.
LEMMA SoonerFold ==
    ASSUME NEW c \in Seq(Candidates), NEW a \in Candidates, NEW I, a \in I[0],
           \A k \in 1..Len(c), x \in Candidates : x \in I[k - 1] => Sooner(x, c[k]) \in I[k]
    PROVE  /\ FoldLeft(Sooner, a, c) \in Candidates
           /\ FoldLeft(Sooner, a, c) \in I[Len(c)]
<1> DEFINE F == [x \in Candidates \X Candidates |-> Sooner(x[1], x[2])]
           Rec(g) == g = [s \in SUBSET (DOMAIN c) |->
                             IF s = {} THEN a ELSE Sooner(g[s \ {Max(s)}], c[Max(s)])]
<1>1. \A x \in Candidates, v \in Candidates : Sooner(x, v) \in Candidates
  BY SoonerType
<1>2. /\ F \in [Candidates \X Candidates -> Candidates]
      /\ \A x \in Candidates, v \in Candidates : F[<<x, v>>] = Sooner(x, v)
  BY <1>1
<1>3. \E g : Rec(g)
  <2> HIDE DEF F
  <2>1. PICK h : Folds(h, F, Candidates, a, Candidates, c)
    BY <1>2, FoldExists
  <2>2. Rec(h)
    BY <1>2, <2>1 DEF Folds
  <2> QED
    BY <2>2
<1>4. PICK g : Rec(g) /\ FoldLeft(Sooner, a, c) = g[DOMAIN c]
  <2>1. FoldLeft(Sooner, a, c) = (CHOOSE g : Rec(g))[DOMAIN c]
    BY DEF FoldLeft, MapThenFoldSet
  <2> HIDE DEF Rec
  <2> QED
    BY <1>3, <2>1
<1>5. /\ g[{}] = a
      /\ \A s \in SUBSET (DOMAIN c) : s # {} => g[s] = Sooner(g[s \ {Max(s)}], c[Max(s)])
  BY <1>4
<1>6. Len(c) \in Nat /\ DOMAIN c = 1..Len(c) /\ \A k \in 1..Len(c) : c[k] \in Candidates
  OBVIOUS
<1>7. ASSUME NEW k \in 1..Len(c) PROVE g[1..k] = Sooner(g[1..(k - 1)], c[k])
  BY <1>5, <1>6, Segments
<1> HIDE DEF F, Rec
<1>8. \A k \in 1..Len(c) : g[1..(k - 1)] \in Candidates => g[1..k] = F[<<g[1..(k - 1)], c[k]>>]
  BY <1>2, <1>6, <1>7
<1>9. \A k \in 1..Len(c), x \in Candidates : x \in I[k - 1] => F[<<x, c[k]>>] \in I[k]
  BY <1>2, <1>6
<1>10. g[DOMAIN c] \in Candidates /\ g[DOMAIN c] \in I[Len(c)]
  BY <1>2, <1>5, <1>8, <1>9, FoldKeeps
<1> QED
  BY <1>4, <1>10

-----------------------------------------------------------------------------
(***************************************************************************)
(* Sequences and their sums.                                                *)
(***************************************************************************)
LEMMA Segment ==
    ASSUME NEW V, NEW c \in Seq(V)
    PROVE  /\ SubSeq(c, 1, 0) = <<>> /\ SubSeq(c, 1, Len(c)) = c
           /\ \A k \in 0..Len(c) : SubSeq(c, 1, k) \in Seq(V) /\ Len(SubSeq(c, 1, k)) = k
           /\ \A k \in 1..Len(c) : SubSeq(c, 1, k) = Append(SubSeq(c, 1, k - 1), c[k])
<1>1. ASSUME NEW k \in 0..Len(c)
      PROVE  /\ SubSeq(c, 1, k) \in Seq(V) /\ Len(SubSeq(c, 1, k)) = k
             /\ \A i \in 1..k : SubSeq(c, 1, k)[i] = c[i]
  OBVIOUS
<1>2. ASSUME NEW k \in 1..Len(c) PROVE SubSeq(c, 1, k) = Append(SubSeq(c, 1, k - 1), c[k])
  <2> DEFINE x == SubSeq(c, 1, k)
             y == SubSeq(c, 1, k - 1)
  <2>1. x \in Seq(V) /\ Len(x) = k /\ \A i \in 1..k : x[i] = c[i]
    BY <1>1
  <2>2. y \in Seq(V) /\ Len(y) = k - 1 /\ \A i \in 1 .. k - 1 : y[i] = c[i]
    <3>1. k - 1 \in 0..Len(c)
      OBVIOUS
    <3> QED
      BY <1>1, <3>1
  <2>3. c[k] \in V
    OBVIOUS
  <2> HIDE DEF x, y
  <2>4. Append(y, c[k]) \in Seq(V) /\ Len(Append(y, c[k])) = k
    BY <2>2, <2>3
  <2>5. \A i \in 1..k : x[i] = Append(y, c[k])[i]
    BY <2>1, <2>2
  <2>6. x = Append(y, c[k])
    BY <2>1, <2>4, <2>5, SeqEqual
  <2> QED
    BY <2>6 DEF x, y
<1>3. SubSeq(c, 1, 0) = <<>>
  BY <1>1
<1>4. SubSeq(c, 1, Len(c)) = c
  OBVIOUS
<1> QED
  BY <1>1, <1>2, <1>3, <1>4

\* What holds of the empty sequence and goes on with an element holds of all.
LEMMA SeqInduction ==
    ASSUME NEW V, NEW S, <<>> \in S,
           \A s \in Seq(V), v \in V : s \in S => Append(s, v) \in S
    PROVE  \A s \in Seq(V) : s \in S
<1> SUFFICES ASSUME NEW s \in Seq(V) PROVE s \in S
  OBVIOUS
<1> DEFINE T == {k \in 0..Len(s) : SubSeq(s, 1, k) \in S}
<1>1. Len(s) \in Nat
  OBVIOUS
<1>2. 0 \in T
  <2>1. 0 \in 0..Len(s) /\ SubSeq(s, 1, 0) = <<>>
    BY <1>1, Segment
  <2> QED
    BY <2>1
<1>3. ASSUME NEW k \in 0 .. Len(s) - 1, k \in T PROVE k + 1 \in T
  <2>1. k + 1 \in 1..Len(s) /\ k + 1 \in 0..Len(s) /\ (k + 1) - 1 = k /\ k \in 0..Len(s)
    BY <1>1
  <2>2. SubSeq(s, 1, k + 1) = Append(SubSeq(s, 1, k), s[k + 1])
    BY <2>1, Segment
  <2>3. SubSeq(s, 1, k) \in Seq(V) /\ s[k + 1] \in V
    BY <2>1, Segment
  <2> QED
    BY <1>3, <2>1, <2>2, <2>3
<1> HIDE DEF T
<1>4. \A k \in 0..Len(s) : k \in T
  BY <1>1, <1>2, <1>3, InductionTo
<1>5. Len(s) \in 0..Len(s) /\ SubSeq(s, 1, Len(s)) = s
  BY <1>1, Segment
<1> QED
  BY <1>4, <1>5 DEF T

\* The partial sums of FoldLeft(Plus, a, c).
LEMMA PlusSteps ==
    ASSUME NEW c \in Seq(Int), NEW a \in Int
    PROVE  \E p : /\ p[0] = a /\ p[Len(c)] = FoldLeft(Plus, a, c)
                  /\ \A k \in 0..Len(c) : p[k] \in Int
                  /\ \A k \in 1..Len(c) : p[k] = p[k - 1] + c[k]
<1> DEFINE F == [x \in Int \X Int |-> Plus(x[1], x[2])]
           Rec(g) == g = [s \in SUBSET (DOMAIN c) |->
                             IF s = {} THEN a ELSE Plus(g[s \ {Max(s)}], c[Max(s)])]
<1>1. \A x \in Int, v \in Int : Plus(x, v) \in Int
  BY DEF Plus
<1>2. /\ F \in [Int \X Int -> Int]
      /\ \A x \in Int, v \in Int : F[<<x, v>>] = Plus(x, v)
  BY <1>1
<1>3. \E g : Rec(g)
  <2> HIDE DEF F
  <2>1. PICK h : Folds(h, F, Int, a, Int, c)
    BY <1>2, FoldExists
  <2>2. Rec(h)
    BY <1>2, <2>1 DEF Folds
  <2> QED
    BY <2>2
<1>4. PICK g : Rec(g) /\ FoldLeft(Plus, a, c) = g[DOMAIN c]
  <2>1. FoldLeft(Plus, a, c) = (CHOOSE g : Rec(g))[DOMAIN c]
    BY DEF FoldLeft, MapThenFoldSet
  <2> HIDE DEF Rec
  <2> QED
    BY <1>3, <2>1
<1>5. /\ g[{}] = a
      /\ \A s \in SUBSET (DOMAIN c) : s # {} => g[s] = Plus(g[s \ {Max(s)}], c[Max(s)])
  BY <1>4
<1>6. Len(c) \in Nat /\ DOMAIN c = 1..Len(c) /\ \A k \in 1..Len(c) : c[k] \in Int
  OBVIOUS
<1>7. ASSUME NEW k \in 1..Len(c) PROVE g[1..k] = g[1..(k - 1)] + c[k]
  BY <1>5, <1>6, Segments DEF Plus
<1> DEFINE p == [k \in 0..Len(c) |-> g[1..k]]
<1>8. p[0] = a /\ p[Len(c)] = FoldLeft(Plus, a, c)
  BY <1>4, <1>5, <1>6
<1>9. \A k \in 1..Len(c) : p[k] = p[k - 1] + c[k]
  BY <1>6, <1>7
<1>10. \A k \in 0..Len(c) : p[k] \in Int
  <2> HIDE DEF p
  <2> DEFINE S == {k \in 0..Len(c) : p[k] \in Int}
  <2>1. 0 \in S
    BY <1>6, <1>8
  <2>2. ASSUME NEW k \in 0 .. Len(c) - 1, k \in S PROVE k + 1 \in S
    <3>1. k + 1 \in 1..Len(c) /\ k + 1 \in 0..Len(c) /\ (k + 1) - 1 = k
      BY <1>6
    <3> QED
      BY <1>6, <1>9, <2>2, <3>1
  <2> HIDE DEF S
  <2>3. \A k \in 0..Len(c) : k \in S
    BY <1>6, <2>1, <2>2, InductionTo
  <2> QED
    BY <2>3 DEF S
<1> HIDE DEF p
<1> QED
  BY <1>8, <1>9, <1>10

\* A sum goes on from where it starts.
LEMMA PlusFrom ==
    ASSUME NEW s \in Seq(Int), NEW x \in Int
    PROVE  SumSeq(s) \in Int /\ FoldLeft(Plus, x, s) = x + SumSeq(s)
<1>1. PICK p : /\ p[0] = 0 /\ p[Len(s)] = FoldLeft(Plus, 0, s)
               /\ \A k \in 0..Len(s) : p[k] \in Int
               /\ \A k \in 1..Len(s) : p[k] = p[k - 1] + s[k]
  BY PlusSteps, 0 \in Int, Zenon
<1> DEFINE I == [k \in 0..Len(s) |-> {x + p[k]}]
<1>2. Len(s) \in Nat /\ \A k \in 1..Len(s) : s[k] \in Int /\ k - 1 \in 0..Len(s) /\ k \in 0..Len(s)
  OBVIOUS
<1>3. x \in I[0]
  BY <1>1, <1>2
<1>4. ASSUME NEW k \in 1..Len(s), NEW y \in Int, y \in I[k - 1] PROVE Plus(y, s[k]) \in I[k]
  <2>1. y = x + p[k - 1] /\ p[k] = p[k - 1] + s[k] /\ p[k - 1] \in Int
    BY <1>1, <1>2, <1>4
  <2>2. y + s[k] = x + p[k]
    BY <1>2, <2>1
  <2> QED
    BY <1>2, <2>2 DEF Plus
<1> HIDE DEF I
<1>5. FoldLeft(Plus, x, s) \in I[Len(s)]
  BY <1>3, <1>4, PlusFold
<1> QED
  BY <1>1, <1>2, <1>5 DEF I, SumSeq

\* SumSeq one element longer.
LEMMA SumAppend ==
    ASSUME NEW s \in Seq(Int), NEW v \in Int
    PROVE  SumSeq(Append(s, v)) = SumSeq(s) + v
<1>1. PICK p : /\ p[0] = 0 /\ p[Len(s)] = FoldLeft(Plus, 0, s)
               /\ \A k \in 0..Len(s) : p[k] \in Int
               /\ \A k \in 1..Len(s) : p[k] = p[k - 1] + s[k]
  BY PlusSteps, 0 \in Int, Zenon
<1> DEFINE m == Len(s)
           t == Append(s, v)
           I == [k \in 0 .. m + 1 |-> IF k <= m THEN {p[k]} ELSE {p[m] + v}]
<1>2. /\ m \in Nat /\ t \in Seq(Int) /\ Len(t) = m + 1 /\ t[m + 1] = v
      /\ \A k \in 1..m : t[k] = s[k] /\ s[k] \in Int
  OBVIOUS
<1>3. 0 \in I[0]
  BY <1>1, <1>2
<1>4. ASSUME NEW k \in 1..Len(t), NEW y \in Int, y \in I[k - 1] PROVE Plus(y, t[k]) \in I[k]
  <2>1. k \in 1 .. m + 1 /\ k - 1 \in 0..m
    BY <1>2
  <2>2. y = p[k - 1] /\ p[k - 1] \in Int
    BY <1>1, <1>2, <1>4, <2>1
  <2>3. CASE k <= m
    <3>1. p[k] = p[k - 1] + t[k]
      BY <1>1, <1>2, <2>1, <2>3
    <3> QED
      BY <1>2, <2>1, <2>2, <2>3, <3>1 DEF Plus
  <2>4. CASE k = m + 1
    <3>1. p[m] + v = y + t[k] /\ ~(k <= m) /\ k \in 0 .. m + 1
      BY <1>2, <2>2, <2>4
    <3> HIDE DEF t, m
    <3> QED
      BY <3>1 DEF Plus
  <2> QED
    BY <1>2, <2>1, <2>3, <2>4
<1>5. FoldLeft(Plus, 0, t) \in I[Len(t)]
  <2> HIDE DEF I, t, m
  <2>1. t \in Seq(Int) /\ 0 \in Int
    BY <1>2
  <2> QED
    BY <1>3, <1>4, <2>1, PlusFold
<1> QED
  BY <1>1, <1>2, <1>5 DEF SumSeq

\* The sum of nothing.
LEMMA SumEmpty == SumSeq(<<>>) = 0
<1>1. PICK p : p[0] = 0 /\ p[Len(<<>>)] = FoldLeft(Plus, 0, <<>>)
  <2>1. <<>> \in Seq(Int) /\ 0 \in Int
    OBVIOUS
  <2> QED
    BY <2>1, PlusSteps
<1> QED
  BY <1>1 DEF SumSeq

\* The sum of two sequences one after the other is the sum of their sums.
LEMMA SumConcat ==
    ASSUME NEW s \in Seq(Int), NEW t \in Seq(Int)
    PROVE  SumSeq(s \o t) = SumSeq(s) + SumSeq(t)
<1> DEFINE S == {u \in Seq(Int) : SumSeq(s \o u) = SumSeq(s) + SumSeq(u)}
<1>1. <<>> \in S
  BY SumEmpty, PlusFrom
<1>2. ASSUME NEW u \in Seq(Int), NEW v \in Int, u \in S PROVE Append(u, v) \in S
  <2>1. s \o Append(u, v) = Append(s \o u, v) /\ s \o u \in Seq(Int) /\ Append(u, v) \in Seq(Int)
    OBVIOUS
  <2>2. SumSeq(s \o Append(u, v)) = SumSeq(s \o u) + v /\ SumSeq(Append(u, v)) = SumSeq(u) + v
    BY <2>1, SumAppend
  <2>3. SumSeq(s) \in Int /\ SumSeq(u) \in Int
    BY PlusFrom
  <2>4. SumSeq(s \o u) = SumSeq(s) + SumSeq(u)
    BY <1>2
  <2>5. SumSeq(s \o Append(u, v)) = SumSeq(s) + SumSeq(Append(u, v))
    BY <2>2, <2>3, <2>4
  <2> QED
    BY <2>1, <2>5
<1> HIDE DEF S
<1>3. \A u \in Seq(Int) : u \in S
  BY <1>1, <1>2, SeqInduction
<1> QED
  BY <1>3 DEF S

-----------------------------------------------------------------------------
(***************************************************************************)
(* What one more element does to the references.                            *)
(***************************************************************************)
Values(s) == {s[i] : i \in Indices(s)}
MissingIn(s) ==
    IF NA \in Range(s) THEN "na" ELSE IF NaN \in Range(s) THEN "nan" ELSE "none"

\* A sequence and one element more.
LEMMA Appended ==
    ASSUME NEW V, NEW s \in Seq(V), NEW v \in V
    PROVE  /\ Append(s, v) \in Seq(V) /\ Len(Append(s, v)) = Len(s) + 1 /\ Len(s) \in Nat
           /\ DOMAIN s = 1..Len(s) /\ DOMAIN Append(s, v) = 1..(Len(s) + 1)
           /\ Append(s, v)[Len(s) + 1] = v
           /\ \A i \in 1..Len(s) : Append(s, v)[i] = s[i] /\ s[i] \in V
OBVIOUS

\* One value more: the range, and the worst kind of missing value, which is read once.
LEMMA AppendedRange ==
    ASSUME NEW V, NEW s \in Seq(V), NEW v \in V
    PROVE  /\ Range(Append(s, v)) = Range(s) \union {v}
           /\ MissingIn(Append(s, v)) = combineRealMissing(MissingIn(s), realMissing(v))
<1> DEFINE t == Append(s, v)
<1>1. /\ Len(s) \in Nat /\ DOMAIN s = 1..Len(s) /\ DOMAIN t = 1..(Len(s) + 1)
      /\ t[Len(s) + 1] = v /\ \A i \in 1..Len(s) : t[i] = s[i]
  BY Appended
<1> HIDE DEF t
<1>2. Range(t) = Range(s) \union {v}
  BY <1>1 DEF Range
<1>3. MissingIn(t) = combineRealMissing(MissingIn(s), realMissing(v))
  BY <1>2, Numbers DEF MissingIn, combineRealMissing, realMissing
<1> QED
  BY <1>2, <1>3 DEF t

\* One value more: the indices and the values that are not missing.
LEMMA AppendedIndices ==
    ASSUME NEW V, NEW s \in Seq(V), NEW v \in V
    PROVE  /\ IsFiniteSet(Indices(s)) /\ Cardinality(Indices(s)) \in 0..Len(s)
           /\ Indices(s) \subseteq 1..Len(s) /\ Len(s) + 1 \notin Indices(s)
           /\ Indices(Append(s, v)) =
                 Indices(s) \union (IF Present(v) THEN {Len(s) + 1} ELSE {})
           /\ Cardinality(Indices(Append(s, v))) =
                 Cardinality(Indices(s)) + (IF Present(v) THEN 1 ELSE 0)
           /\ Values(Append(s, v)) = Values(s) \union (IF Present(v) THEN {v} ELSE {})
<1> DEFINE t == Append(s, v)
<1>0. /\ Len(t) = Len(s) + 1 /\ Len(s) \in Nat /\ DOMAIN s = 1..Len(s)
      /\ DOMAIN t = 1..(Len(s) + 1) /\ t[Len(s) + 1] = v
  BY Appended
<1>1. /\ Len(s) \in Nat /\ DOMAIN s = 1..Len(s) /\ DOMAIN t = 1..(Len(s) + 1)
      /\ t[Len(s) + 1] = v /\ \A i \in 1..Len(s) : t[i] = s[i]
  BY <1>0, Appended
<1> HIDE DEF t
<1>2. Indices(s) \subseteq 1..Len(s) /\ Len(s) + 1 \notin Indices(s)
  BY <1>1 DEF Indices
<1>3. Indices(t) = Indices(s) \union (IF Present(v) THEN {Len(s) + 1} ELSE {})
  BY <1>1 DEF Indices
<1>4. IsFiniteSet(1..Len(s)) /\ Cardinality(1..Len(s)) = Len(s)
  BY <1>1, FS_Interval
<1>5. IsFiniteSet(Indices(s)) /\ Cardinality(Indices(s)) <= Len(s)
  BY <1>2, <1>4, FS_Subset
<1>6. Cardinality(Indices(s)) \in Nat
  BY <1>5, FS_CardinalityType
<1>7. Cardinality(Indices(t)) = Cardinality(Indices(s)) + (IF Present(v) THEN 1 ELSE 0)
  <2>1. Cardinality(Indices(s) \union {Len(s) + 1}) = Cardinality(Indices(s)) + 1
    BY <1>2, <1>5, FS_AddElement
  <2>2. CASE Present(v)
    BY <1>3, <2>1, <2>2
  <2>3. CASE ~Present(v)
    <3>1. Indices(t) = Indices(s)
      BY <1>3, <2>3
    <3> QED
      BY <1>6, <2>3, <3>1
  <2> QED
    BY <2>2, <2>3
<1>8. Values(t) = Values(s) \union (IF Present(v) THEN {v} ELSE {})
  BY <1>1, <1>2, <1>3 DEF Values
<1> QED
  BY <1>1, <1>2, <1>3, <1>5, <1>6, <1>7, <1>8 DEF t

\* The count alone, for elements that are numbers.
LEMMA CountAppended ==
    ASSUME NEW s \in Seq(Int), NEW v \in Int
    PROVE  /\ Cardinality(Indices(s)) \in Int
           /\ Cardinality(Indices(Append(s, v))) =
                 Cardinality(Indices(s)) + (IF Present(v) THEN 1 ELSE 0)
<1>1. Cardinality(Indices(s)) \in Int
  <2>1. Cardinality(Indices(s)) \in 0..Len(s)
    BY AppendedIndices
  <2> QED
    BY <2>1
<1>2. Cardinality(Indices(Append(s, v))) =
          Cardinality(Indices(s)) + (IF Present(v) THEN 1 ELSE 0)
  BY AppendedIndices
<1> QED
  BY <1>1, <1>2

\* Of no value there is no index, no range and no sum.
LEMMA Nothing ==
    /\ Indices(<<>>) = {} /\ Cardinality(Indices(<<>>)) = 0 /\ Values(<<>>) = {}
    /\ Range(<<>>) = {} /\ MissingIn(<<>>) = "none" /\ SumOf(<<>>) = 0
<1>1. DOMAIN <<>> = {}
  OBVIOUS
<1>2. Indices(<<>>) = {} /\ Values(<<>>) = {} /\ Range(<<>>) = {}
  BY <1>1 DEF Indices, Values, Range
<1>3. [i \in DOMAIN <<>> |-> IF Present(<<>>[i]) THEN <<>>[i] ELSE 0] = <<>>
  BY <1>1
<1> QED
  BY <1>2, <1>3, SumEmpty, FS_EmptySet DEF MissingIn, SumOf

\* SumOf passes over a missing value.
LEMMA SumOfAppended ==
    ASSUME NEW s \in Seq(Int), NEW v \in Int
    PROVE  /\ SumOf(s) \in Int
           /\ SumOf(Append(s, v)) = SumOf(s) + (IF Present(v) THEN v ELSE 0)
<1> DEFINE Of0(x) == [i \in DOMAIN x |-> IF Present(x[i]) THEN x[i] ELSE 0]
           w == IF Present(v) THEN v ELSE 0
<1>1. w \in Int
  OBVIOUS
<1>2. /\ Of0(s) \in Seq(Int) /\ Len(Of0(s)) = Len(s)
      /\ \A i \in 1..Len(s) : Of0(s)[i] = IF Present(s[i]) THEN s[i] ELSE 0
  OBVIOUS
<1>3. Of0(Append(s, v)) = Append(Of0(s), w)
  <2> DEFINE t == Append(s, v)
  <2>1. /\ Len(s) \in Nat /\ DOMAIN t = 1..(Len(s) + 1) /\ t \in Seq(Int) /\ Len(t) = Len(s) + 1
        /\ t[Len(s) + 1] = v /\ \A i \in 1..Len(s) : t[i] = s[i]
    BY Appended
  <2>2. Of0(t) \in Seq(Int) /\ Len(Of0(t)) = Len(s) + 1
    <3> HIDE DEF t
    <3> QED
      BY <2>1
  <2>3. Append(Of0(s), w) \in Seq(Int) /\ Len(Append(Of0(s), w)) = Len(s) + 1
    <3> HIDE DEF Of0, w
    <3> QED
      BY <1>1, <1>2
  <2>4. ASSUME NEW i \in 1..Len(s) PROVE Of0(t)[i] = Append(Of0(s), w)[i]
    <3>1. Append(Of0(s), w)[i] = Of0(s)[i]
      <4> HIDE DEF Of0, w
      <4> QED
        BY <1>1, <1>2
    <3>2. Of0(t)[i] = IF Present(t[i]) THEN t[i] ELSE 0
      <4> HIDE DEF t
      <4> QED
        BY <2>1
    <3> HIDE DEF Of0, t
    <3> QED
      BY <1>2, <2>1, <3>1, <3>2
  <2>5. Of0(t)[Len(s) + 1] = Append(Of0(s), w)[Len(s) + 1]
    <3>1. Append(Of0(s), w)[Len(s) + 1] = w
      <4> HIDE DEF Of0, w
      <4> QED
        BY <1>1, <1>2
    <3>2. Of0(t)[Len(s) + 1] = w
      <4> HIDE DEF t
      <4> QED
        BY <2>1
    <3> QED
      BY <3>1, <3>2
  <2> HIDE DEF Of0, t, w
  <2>6. \A i \in 1 .. Len(s) + 1 : Of0(t)[i] = Append(Of0(s), w)[i]
    <3> SUFFICES ASSUME NEW i \in 1 .. Len(s) + 1 PROVE Of0(t)[i] = Append(Of0(s), w)[i]
      OBVIOUS
    <3>1. i \in 1..Len(s) \/ i = Len(s) + 1
      BY <2>1
    <3> QED
      BY <2>4, <2>5, <3>1
  <2>7. Of0(t) = Append(Of0(s), w)
    BY <2>2, <2>3, <2>6, SeqEqual
  <2> QED
    BY <2>7 DEF t
<1>4. SumOf(s) = SumSeq(Of0(s)) /\ SumOf(Append(s, v)) = SumSeq(Of0(Append(s, v)))
  BY DEF SumOf
<1> HIDE DEF Of0
<1>5. SumSeq(Append(Of0(s), w)) = SumSeq(Of0(s)) + w /\ SumSeq(Of0(s)) \in Int
  <2> HIDE DEF w
  <2> QED
    BY <1>1, <1>2, SumAppend, PlusFrom
<1> QED
  BY <1>3, <1>4, <1>5

-----------------------------------------------------------------------------
(***************************************************************************)
(* What the locals hold after the kernel has read s.                        *)
(***************************************************************************)
IsBest(least, x, S) == x \in S /\ \A y \in S : IF least THEN x <= y ELSE x >= y

\* x is of the places T of d the first that holds the best.
IsFirst(least, x, d, T) ==
    /\ x.idx + 1 \in T /\ x.best = d[x.idx + 1]
    /\ \A i \in T : /\ IF least THEN x.best <= d[i] ELSE x.best >= d[i]
                    /\ d[i] = x.best => x.idx + 1 <= i

RealSummary(j, a, s) ==
    /\ a.total = SumOf(s)
    /\ a.missing = (IF j.na_rm THEN "none" ELSE MissingIn(s))
    /\ a.count = Len(j.data) - Len(s) + Cardinality(Indices(s))

Divisible(j, a) ==
    /\ a.missing = "none" /\ (j.na_rm \/ MissingIn(j.data) = "none")
    /\ a.count = Cardinality(Indices(j.data)) /\ a.count # 0

MeanSummary(j, p, a, s) ==
    /\ p = "total" => RealSummary(j, a, s) /\ a.correction = 0
    /\ p = "scaled" => Divisible(j, a) /\ a.total = SumOf(s) /\ a.correction = 0
    /\ p = "correction" =>
          /\ Divisible(j, a) /\ a.total = SumOf(j.data)
          /\ a.total <= MaxDouble * a.count /\ a.total >= -MaxDouble * a.count
          /\ a.correction = a.count * SumOf(s) - a.total * Cardinality(Indices(s))

True(s) == {i \in DOMAIN s : s[i] = 1}

CumulativeSummary(a, s) ==
    /\ a.missing = MissingIn(s)
    /\ a.missing = "none" => a.total = RunningSum(s)
    /\ a.out = [i \in DOMAIN s |->
                   WorstOf(SubSeq(s, 1, i), FALSE, RunningSum(SubSeq(s, 1, i)))]

ExtremeSummary(j, a, s) ==
    /\ a.found = (Indices(s) # {})
    /\ IF a.found THEN IsBest(j.find_min, a.best, Values(s))
       ELSE a.best = IF j.find_min THEN IntMax ELSE NA

Identity(j) == IF j.find_min THEN Inf ELSE -Inf

MinMaxSummary(j, a, s) ==
    /\ a.missing = MissingIn(s)
    /\ IsBest(j.find_min, a.best, {Identity(j)} \union Values(s))

FirstSummary(j, a, s) ==
    /\ a.found = (Indices(s) # {})
    /\ IF a.found THEN IsFirst(j.find_min, At(a.best, a.idx), s, Indices(s)) ELSE a.idx = 0

\* Locals that a kernel does not use stay as they were.
Unused(j, a) ==
    /\ j.kernel # "argminmax" => a.idx = 0
    /\ j.kernel # "cumsum" => a.out = <<>>
    /\ j.kernel \notin {"sum", "mean"} => a.count = Len(j.data)

Summary(j, p, a, s) ==
    /\ Unused(j, a)
    /\ j.kernel = "sum" => RealSummary(j, a, s)
    /\ j.kernel = "mean" => MeanSummary(j, p, a, s)
    /\ j.kernel = "sumInt" => a.total = SumSeq(s)
    /\ j.kernel = "norm2" => a.total = SumSeq(Squares(s))
    /\ j.kernel = "scaleAdd" => a.total = SumSeq(Scaled(s))
    /\ j.kernel = "countTrue" => a.total = Cardinality(True(s))
    /\ j.kernel = "cumsum" => CumulativeSummary(a, s)
    /\ j.kernel = "minmaxInt" => ExtremeSummary(j, a, s)
    /\ j.kernel = "minmax" => MinMaxSummary(j, a, s)
    /\ j.kernel = "argminmax" => FirstSummary(j, a, s)

-----------------------------------------------------------------------------
(***************************************************************************)
(* One element more, for the kernels that take one after the other.         *)
(***************************************************************************)
LEMMA AddRealIs ==
    ASSUME NEW a \in Locals, NEW v \in Int
    PROVE  LET b == AddReal(a, v)
           IN  /\ b.total = a.total + (IF Present(v) THEN v ELSE 0)
               /\ b.count = a.count - (IF Present(v) THEN 0 ELSE 1)
               /\ b.missing = IF Present(v) \/ job.na_rm THEN a.missing
                              ELSE combineRealMissing(a.missing, realMissing(v))
               /\ b.correction = a.correction /\ b.idx = a.idx /\ b.out = a.out
<1>1. /\ a.total \in Int /\ a.count \in Int
      /\ a = [total |-> a.total, missing |-> a.missing, count |-> a.count,
              correction |-> a.correction, found |-> a.found, idx |-> a.idx,
              out |-> a.out, best |-> a.best]
  BY DEF Locals
<1>2. CASE Present(v)
  <2>1. AddReal(a, v) = [a EXCEPT !.total = a.total + v]
    BY <1>2 DEF AddReal
  <2> QED
    BY <1>1, <1>2, <2>1
<1>3. CASE ~Present(v)
  <2> DEFINE m == IF job.na_rm THEN a.missing ELSE combineRealMissing(a.missing, realMissing(v))
  <2>1. AddReal(a, v) = [a EXCEPT !.count = a.count - 1, !.missing = m]
    BY <1>3 DEF AddReal
  <2>2. m = IF Present(v) \/ job.na_rm THEN a.missing
            ELSE combineRealMissing(a.missing, realMissing(v))
    BY <1>3
  <2> HIDE DEF m
  <2>3. LET b == [a EXCEPT !.count = a.count - 1, !.missing = m]
        IN  /\ b.total = a.total /\ b.count = a.count - 1 /\ b.missing = m
            /\ b.correction = a.correction /\ b.idx = a.idx /\ b.out = a.out
    BY <1>1
  <2> QED
    BY <1>1, <1>3, <2>1, <2>2, <2>3
<1> QED
  BY <1>2, <1>3

\* addReal keeps total, missing and count those of what has been read.
LEMMA AddRealStep ==
    ASSUME NEW j, j.na_rm = job.na_rm, Len(j.data) \in Nat, NEW s \in Seq(Int), NEW v \in Int,
           NEW a \in Locals, RealSummary(j, a, s)
    PROVE  RealSummary(j, AddReal(a, v), Append(s, v))
<1>1. /\ SumOf(s) \in Int /\ SumOf(Append(s, v)) = SumOf(s) + (IF Present(v) THEN v ELSE 0)
  BY SumOfAppended
<1>2. /\ Cardinality(Indices(s)) \in Int
      /\ Cardinality(Indices(Append(s, v))) =
            Cardinality(Indices(s)) + (IF Present(v) THEN 1 ELSE 0)
  BY AppendedIndices
<1>3. MissingIn(Append(s, v)) = combineRealMissing(MissingIn(s), realMissing(v))
  BY AppendedRange
<1>4. Len(Append(s, v)) = Len(s) + 1 /\ Len(s) \in Nat
  BY Appended
<1>5. Present(v) => combineRealMissing(MissingIn(s), realMissing(v)) = MissingIn(s)
  BY DEF Present, combineRealMissing, realMissing, MissingIn
<1> DEFINE b == AddReal(a, v)
<1>6. /\ b.total = a.total + (IF Present(v) THEN v ELSE 0)
      /\ b.count = a.count - (IF Present(v) THEN 0 ELSE 1)
      /\ b.missing = IF Present(v) \/ job.na_rm THEN a.missing
                     ELSE combineRealMissing(a.missing, realMissing(v))
  BY AddRealIs
<1> HIDE DEF b
<1>7. b.total = SumOf(Append(s, v))
  BY <1>1, <1>6 DEF RealSummary
<1>8. b.missing = (IF j.na_rm THEN "none" ELSE MissingIn(Append(s, v)))
  BY <1>3, <1>5, <1>6 DEF RealSummary
<1>9. b.count = Len(j.data) - Len(Append(s, v)) + Cardinality(Indices(Append(s, v)))
  BY <1>2, <1>4, <1>6 DEF RealSummary
<1> QED
  BY <1>7, <1>8, <1>9 DEF RealSummary, b

\* A chunk read to its k-th element is a chunk read to the one before, and one more.
LEMMA OneMore ==
    ASSUME NEW V, NEW s \in Seq(V), NEW c \in Seq(V), NEW k \in 1..Len(c)
    PROVE  /\ s \o SubSeq(c, 1, k - 1) \in Seq(V)
           /\ s \o SubSeq(c, 1, k) = Append(s \o SubSeq(c, 1, k - 1), c[k])
<1> DEFINE w == SubSeq(c, 1, k - 1)
<1>1. SubSeq(c, 1, k) = Append(w, c[k])
  BY Segment
<1>2. k - 1 \in 0..Len(c)
  OBVIOUS
<1>3. w \in Seq(V) /\ c[k] \in V
  BY <1>2, Segment
<1> HIDE DEF w
<1>4. s \o Append(w, c[k]) = Append(s \o w, c[k]) /\ s \o w \in Seq(V)
  BY <1>3
<1> QED
  BY <1>1, <1>4 DEF w

\* A chunk read not at all, to its end, and element by element.
LEMMA Prefixed ==
    ASSUME NEW V, NEW s \in Seq(V), NEW c \in Seq(V)
    PROVE  /\ s \o SubSeq(c, 1, 0) = s /\ s \o SubSeq(c, 1, Len(c)) = s \o c
           /\ \A k \in 0..Len(c) : s \o SubSeq(c, 1, k) \in Seq(V)
           /\ \A k \in 1..Len(c) :
                 s \o SubSeq(c, 1, k) = Append(s \o SubSeq(c, 1, k - 1), c[k])
<1>1. SubSeq(c, 1, 0) = <<>> /\ SubSeq(c, 1, Len(c)) = c
  BY Segment
<1>2. \A k \in 0..Len(c) : SubSeq(c, 1, k) \in Seq(V)
  BY Segment
<1>3. ASSUME NEW k \in 1..Len(c)
      PROVE  s \o SubSeq(c, 1, k) = Append(s \o SubSeq(c, 1, k - 1), c[k])
  BY OneMore
<1>4. s \o <<>> = s
  OBVIOUS
<1>5. \A k \in 0..Len(c) : s \o SubSeq(c, 1, k) \in Seq(V)
  BY <1>2
<1> QED
  BY <1>1, <1>3, <1>4, <1>5

\* What a call's data holds.
Elems(j) == Range(j.data)

\* Every cell is a number.
LEMMA CellsAre ==
    ASSUME NEW k
    PROVE  Cells(k) \subseteq Int
<1>1. Finite \subseteq Int /\ Doubles \subseteq Int /\ Ints \subseteq Int
  BY Numbers, ReductionsAssumption DEF Finite, Doubles, Ints
<1> QED
  BY <1>1, Numbers DEF Cells

\* A sequence whose elements are in T is a sequence over T.
LEMMA Narrower ==
    ASSUME NEW S, NEW T, NEW s \in Seq(S), \A i \in 1..Len(s) : s[i] \in T
    PROVE  s \in Seq(T)
<1>1. s = [i \in 1..Len(s) |-> s[i]] /\ Len(s) \in Nat
  OBVIOUS
<1>2. s \in [1..Len(s) -> T]
  BY <1>1
<1> QED
  BY <1>1, <1>2, SeqDef

\* The data of a job are cells of its kernel.
LEMMA JobHas ==
    ASSUME NEW j, JobOK(j)
    PROVE  /\ Len(j.data) \in Nat /\ DOMAIN j.data = 1..Len(j.data)
           /\ j.data \in Seq(Elems(j)) /\ Elems(j) \subseteq Cells(j.kernel) /\ Elems(j) \subseteq Int
           /\ j.data \in Seq(Int)
<1>1. j.data \in Seq(Cells(j.kernel))
  BY DEF JobOK
<1> DEFINE d == j.data
           C == Cells(j.kernel)
<1>2. C \subseteq Int
  BY CellsAre
<1> HIDE DEF d, C
<1>3. d \in Seq(C)
  BY <1>1 DEF d, C
<1>4. Len(d) \in Nat /\ DOMAIN d = 1..Len(d) /\ \A i \in 1..Len(d) : d[i] \in C
  BY <1>3
<1>5. Range(d) \subseteq C /\ \A i \in 1..Len(d) : d[i] \in Range(d)
  BY <1>4 DEF Range
<1>6. d \in Seq(Range(d)) /\ d \in Seq(Int)
  <2> DEFINE R == Range(d)
  <2>1. R \subseteq Int /\ \A i \in 1..Len(d) : d[i] \in R
    BY <1>2, <1>5
  <2> HIDE DEF R
  <2>2. d \in Seq(R)
    BY <1>3, <2>1, Narrower
  <2>3. \A i \in 1..Len(d) : d[i] \in Int
    BY <1>2, <1>4
  <2>4. d \in Seq(Int)
    BY <1>3, <2>3, Narrower
  <2> QED
    BY <2>2, <2>4 DEF R
<1> QED
  BY <1>2, <1>4, <1>5, <1>6 DEF d, C, Elems

\* sum, and the first pass of mean: one value more.
LEMMA RealStep ==
    ASSUME JobOK(job), job.kernel = "sum" \/ (job.kernel = "mean" /\ pass = "total"),
           NEW s \in Seq(Int), NEW v \in Elems(job), NEW a \in Locals,
           Summary(job, pass, a, s)
    PROVE  Summary(job, pass, AddReal(a, v), Append(s, v))
<1>1. v \in Int /\ Len(job.data) \in Nat
  BY JobHas
<1>2. RealSummary(job, a, s)
  BY DEF Summary, MeanSummary
<1>3. RealSummary(job, AddReal(a, v), Append(s, v))
  BY <1>1, <1>2, AddRealStep
<1> DEFINE b == AddReal(a, v)
<1>4. b.correction = a.correction /\ b.idx = a.idx /\ b.out = a.out
  BY <1>1, AddRealIs
<1> HIDE DEF b
<1>5. RealSummary(job, b, Append(s, v))
  BY <1>3 DEF b
<1>6. Unused(job, b)
  BY <1>4 DEF Summary, Unused
<1>7. job.kernel = "mean" => MeanSummary(job, pass, b, Append(s, v))
  BY <1>4, <1>5 DEF Summary, MeanSummary
<1> QED
  BY <1>5, <1>6, <1>7 DEF Summary, b

\* The second pass of mean.
LEMMA AddScaledStep ==
    ASSUME JobOK(job), job.kernel = "mean", pass = "scaled",
           NEW s \in Seq(Int), NEW v \in Elems(job), NEW a \in Locals,
           Summary(job, pass, a, s)
    PROVE  Summary(job, pass, AddScaled(a, v), Append(s, v))
<1>1. v \in Int /\ Len(job.data) \in Nat
  BY JobHas
<1>2. SumOf(s) \in Int /\ SumOf(Append(s, v)) = SumOf(s) + (IF Present(v) THEN v ELSE 0)
  BY <1>1, SumOfAppended
<1>3. Divisible(job, a) /\ a.total = SumOf(s) /\ a.correction = 0 /\ Unused(job, a)
  BY DEF Summary, MeanSummary
<1>4. job.na_rm \/ Present(v)
  BY <1>3 DEF Divisible, MissingIn, Elems, Present
<1>5. CASE job.na_rm /\ ~Present(v)
  <2>1. AddScaled(a, v) = a /\ SumOf(Append(s, v)) = SumOf(s)
    BY <1>2, <1>5 DEF AddScaled
  <2> QED
    BY <1>3, <2>1 DEF Summary, MeanSummary
<1>6. CASE Present(v)
  <2> DEFINE b == AddScaled(a, v)
  <2>1. b = [a EXCEPT !.total = a.total + v]
    BY <1>6 DEF AddScaled
  <2>2. /\ b.total = a.total + v /\ b.missing = a.missing /\ b.count = a.count
        /\ b.correction = a.correction /\ b.idx = a.idx /\ b.out = a.out
    BY <2>1 DEF Locals
  <2> HIDE DEF b
  <2>3. Divisible(job, b) /\ Unused(job, b) /\ b.total = SumOf(Append(s, v)) /\ b.correction = 0
    BY <1>2, <1>3, <1>6, <2>2 DEF Divisible, Unused
  <2>4. Summary(job, pass, b, Append(s, v))
    BY <2>3 DEF Summary, MeanSummary
  <2> QED
    BY <2>4 DEF b
<1> QED
  BY <1>4, <1>5, <1>6

\* a * (x + v) = a * x + a * v, of whole numbers.
LEMMA Distributes ==
    ASSUME NEW a \in Int, NEW x \in Int, NEW v \in Int
    PROVE  a * x \in Int /\ a * (x + v) = a * x + v * a /\ a * (x + 1) = a * x + a
OBVIOUS

\* The third pass of mean: the correction of one value more.
LEMMA AddDifferenceStep ==
    ASSUME JobOK(job), job.kernel = "mean", pass = "correction",
           NEW s \in Seq(Int), NEW v \in Elems(job), NEW a \in Locals,
           Summary(job, pass, a, s)
    PROVE  Summary(job, pass, AddDifference(a, v), Append(s, v))
<1>1. v \in Int /\ Len(job.data) \in Nat
  BY JobHas
<1>2. SumOf(s) \in Int /\ SumOf(Append(s, v)) = SumOf(s) + (IF Present(v) THEN v ELSE 0)
  BY <1>1, SumOfAppended
<1>3. /\ Divisible(job, a) /\ a.total = SumOf(job.data) /\ Unused(job, a)
      /\ a.total <= MaxDouble * a.count /\ a.total >= -MaxDouble * a.count
      /\ a.correction = a.count * SumOf(s) - a.total * Cardinality(Indices(s))
  BY DEF Summary, MeanSummary
<1>4. job.na_rm \/ Present(v)
  BY <1>3 DEF Divisible, MissingIn, Elems, Present
<1>5. /\ Cardinality(Indices(s)) \in Int
      /\ Cardinality(Indices(Append(s, v))) =
            Cardinality(Indices(s)) + (IF Present(v) THEN 1 ELSE 0)
  BY <1>1, CountAppended
<1>6. CASE job.na_rm /\ ~Present(v)
  <2>1. AddDifference(a, v) = a /\ SumOf(Append(s, v)) = SumOf(s)
        /\ Cardinality(Indices(Append(s, v))) = Cardinality(Indices(s))
    BY <1>2, <1>5, <1>6 DEF AddDifference
  <2> QED
    BY <1>3, <2>1 DEF Summary, MeanSummary
<1>7. CASE Present(v)
  <2> DEFINE b == AddDifference(a, v)
             e == a.correction + v * a.count - a.total
  <2>1. b = [a EXCEPT !.correction = e]
    BY <1>7 DEF AddDifference
  <2>2. /\ b.total = a.total /\ b.missing = a.missing /\ b.count = a.count
        /\ b.correction = e /\ b.idx = a.idx /\ b.out = a.out
    <3> HIDE DEF e, b
    <3> QED
      BY <2>1 DEF Locals
  <2>3. a.count \in Int /\ a.total \in Int
    BY LocalsHas
  <2>4. e = a.count * SumOf(Append(s, v)) - a.total * Cardinality(Indices(Append(s, v)))
    <3> DEFINE x == SumOf(s)
               m == Cardinality(Indices(s))
               y == SumOf(Append(s, v))
               l == Cardinality(Indices(Append(s, v)))
    <3>1. x \in Int /\ m \in Int /\ y = x + v /\ l = m + 1
      BY <1>2, <1>5, <1>7
    <3>2. a.correction = a.count * x - a.total * m
      BY <1>3
    <3> HIDE DEF x, m, y, l
    <3>3. /\ a.count * y = a.count * x + v * a.count
          /\ a.count * x \in Int /\ v * a.count \in Int
      <4>1. a.count * (x + v) = a.count * x + v * a.count
            /\ a.count * x \in Int /\ a.count * v \in Int /\ v * a.count \in Int
        BY <1>1, <2>3, <3>1, Distributes
      <4> QED
        BY <3>1, <4>1
    <3>5. a.total * l = a.total * m + a.total /\ a.total * m \in Int
      <4>1. a.total * (m + 1) = a.total * m + a.total /\ a.total * m \in Int
        BY <1>1, <2>3, <3>1, Distributes
      <4> QED
        BY <3>1, <4>1
    <3>4. e = a.count * y - a.total * l
      BY <2>3, <3>2, <3>3, <3>5 DEF e
    <3> QED
      BY <3>4 DEF y, l
  <2> HIDE DEF b, e
  <2>5. Divisible(job, b) /\ Unused(job, b)
    BY <1>3, <2>2 DEF Divisible, Unused
  <2>6. Summary(job, pass, b, Append(s, v))
    BY <1>3, <2>2, <2>4, <2>5 DEF Summary, MeanSummary
  <2> QED
    BY <2>6 DEF b
<1> QED
  BY <1>4, <1>6, <1>7

\* One cell more: the number of TRUE.
LEMMA TrueAppended ==
    ASSUME NEW s \in Seq(Int), NEW v \in Int
    PROVE  /\ Cardinality(True(s)) \in Int
           /\ Cardinality(True(Append(s, v))) = Cardinality(True(s)) + (IF v = 1 THEN 1 ELSE 0)
<1> DEFINE t == Append(s, v)
<1>1. /\ Len(s) \in Nat /\ DOMAIN s = 1..Len(s) /\ DOMAIN t = 1..(Len(s) + 1)
      /\ t[Len(s) + 1] = v /\ \A i \in 1..Len(s) : t[i] = s[i]
  BY Appended
<1> HIDE DEF t
<1>2. True(s) \subseteq 1..Len(s) /\ Len(s) + 1 \notin True(s)
      /\ True(t) = True(s) \union (IF v = 1 THEN {Len(s) + 1} ELSE {})
  BY <1>1 DEF True
<1>3. IsFiniteSet(1..Len(s))
  BY <1>1, FS_Interval
<1>4. IsFiniteSet(True(s)) /\ Cardinality(True(s)) \in Int
  BY <1>2, <1>3, FS_Subset, FS_CardinalityType
<1>5. Cardinality(True(s) \union {Len(s) + 1}) = Cardinality(True(s)) + 1
  BY <1>2, <1>4, FS_AddElement
<1>6. CASE v = 1
  BY <1>2, <1>4, <1>5, <1>6 DEF t
<1>7. CASE v # 1
  <2>1. True(t) = True(s)
    BY <1>2, <1>7
  <2> QED
    BY <1>4, <1>7, <2>1 DEF t
<1> QED
  BY <1>6, <1>7

\* A logical vector one element longer, true or not.
LEMMA NonzeroAppended ==
    ASSUME NEW s \in Seq(Int), NEW v \in Int
    PROVE  /\ Cardinality(Nonzero(s)) \in Int
           /\ Cardinality(Nonzero(Append(s, v))) =
                 Cardinality(Nonzero(s)) + (IF Present(v) /\ v # 0 THEN 1 ELSE 0)
<1> DEFINE t == Append(s, v)
<1>1. /\ Len(s) \in Nat /\ DOMAIN s = 1..Len(s) /\ DOMAIN t = 1..(Len(s) + 1)
      /\ t[Len(s) + 1] = v /\ \A i \in 1..Len(s) : t[i] = s[i]
  BY Appended
<1> HIDE DEF t
<1>2. Nonzero(s) \subseteq 1..Len(s) /\ Len(s) + 1 \notin Nonzero(s)
      /\ Nonzero(t) = Nonzero(s) \union (IF Present(v) /\ v # 0 THEN {Len(s) + 1} ELSE {})
  BY <1>1 DEF Nonzero
<1>3. IsFiniteSet(1..Len(s))
  BY <1>1, FS_Interval
<1>4. IsFiniteSet(Nonzero(s)) /\ Cardinality(Nonzero(s)) \in Int
  BY <1>2, <1>3, FS_Subset, FS_CardinalityType
<1>5. Cardinality(Nonzero(s) \union {Len(s) + 1}) = Cardinality(Nonzero(s)) + 1
  BY <1>2, <1>4, FS_AddElement
<1>6. CASE Present(v) /\ v # 0
  BY <1>2, <1>4, <1>5, <1>6 DEF t
<1>7. CASE ~(Present(v) /\ v # 0)
  <2>1. Nonzero(t) = Nonzero(s)
    BY <1>2, <1>7
  <2> QED
    BY <1>4, <1>7, <2>1 DEF t
<1> QED
  BY <1>6, <1>7

\* countTrue: one cell more.
LEMMA AddTrueStep ==
    ASSUME JobOK(job), job.kernel = "countTrue",
           NEW s \in Seq(Int), NEW v \in Elems(job), NEW a \in Locals,
           Summary(job, pass, a, s)
    PROVE  Summary(job, pass, AddTrue(a, v), Append(s, v))
<1>1. v \in Int
  BY JobHas
<1>2. /\ Cardinality(True(s)) \in Int
      /\ Cardinality(True(Append(s, v))) = Cardinality(True(s)) + (IF v = 1 THEN 1 ELSE 0)
  BY <1>1, TrueAppended
<1>3. a.total = Cardinality(True(s)) /\ Unused(job, a)
  BY DEF Summary
<1> DEFINE b == AddTrue(a, v)
<1>4. /\ b.total = a.total + (IF v = 1 THEN 1 ELSE 0)
      /\ b.count = a.count /\ b.idx = a.idx /\ b.out = a.out
  <2>1. CASE v = 1
    <3>1. b = [a EXCEPT !.total = a.total + 1]
      BY <2>1 DEF AddTrue
    <3> QED
      BY <2>1, <3>1 DEF Locals
  <2>2. CASE v # 1
    <3>1. b = a /\ a.total \in Int
      BY <2>2, LocalsHas DEF AddTrue
    <3> QED
      BY <2>2, <3>1
  <2> QED
    BY <2>1, <2>2
<1> HIDE DEF b
<1>5. Unused(job, b) /\ b.total = Cardinality(True(Append(s, v)))
  BY <1>2, <1>3, <1>4 DEF Unused
<1>6. Summary(job, pass, b, Append(s, v))
  BY <1>5 DEF Summary
<1> QED
  BY <1>6 DEF b

\* The prefixes of a sequence one element longer.
LEMMA SegmentAppended ==
    ASSUME NEW V, NEW s \in Seq(V), NEW v \in V
    PROVE  /\ \A i \in 0..Len(s) : SubSeq(Append(s, v), 1, i) = SubSeq(s, 1, i)
           /\ SubSeq(Append(s, v), 1, Len(s) + 1) = Append(s, v)
<1> DEFINE t == Append(s, v)
<1>1. t \in Seq(V) /\ Len(t) = Len(s) + 1 /\ Len(s) \in Nat /\ \A i \in 1..Len(s) : t[i] = s[i]
  BY Appended
<1> HIDE DEF t
<1>2. ASSUME NEW i \in 0..Len(s) PROVE SubSeq(t, 1, i) = SubSeq(s, 1, i)
  <2> DEFINE x == SubSeq(t, 1, i)
             y == SubSeq(s, 1, i)
  <2>1. x \in Seq(V) /\ Len(x) = i /\ \A k \in 1..i : x[k] = t[k]
    BY <1>1
  <2>2. y \in Seq(V) /\ Len(y) = i /\ \A k \in 1..i : y[k] = s[k]
    BY <1>1
  <2> HIDE DEF x, y
  <2>3. \A k \in 1..i : x[k] = y[k]
    BY <1>1, <2>1, <2>2
  <2>4. x = y
    BY <2>1, <2>2, <2>3, SeqEqual
  <2> QED
    BY <2>4 DEF x, y
<1>3. SubSeq(t, 1, Len(s) + 1) = t
  BY <1>1, Segment
<1> QED
  BY <1>2, <1>3 DEF t

\* A running sum goes on with the double of the next sum.
LEMMA RunningAppended ==
    ASSUME NEW s \in Seq(Int), NEW v \in Finite, Present(v)
    PROVE  /\ RunningSum(s) \in Finite \union {Inf, -Inf}
           /\ RunningSum(Append(s, v)) = Double(RunningSum(s) + v)
<1> DEFINE t == Append(s, v)
           D(x, i) == SumOf(SubSeq(x, 1, i))
           Left(x) == {i \in DOMAIN x : D(x, i) \notin Finite}
<1>0. v \in Int /\ -MaxDouble <= v /\ v <= MaxDouble
      /\ Inf \in Int /\ Inf > 2 * MaxDouble /\ MaxDouble \in Nat
  BY ReductionsAssumption DEF Finite
<1>1. /\ DOMAIN s = 1..Len(s) /\ DOMAIN t = 1..(Len(s) + 1) /\ Len(s) \in Nat
      /\ t \in Seq(Int)
  BY <1>0, Appended
<1>2. SumOf(s) \in Int /\ SumOf(t) = SumOf(s) + v
  BY <1>0, SumOfAppended
<1>3. /\ \A i \in 1..Len(s) : SubSeq(t, 1, i) = SubSeq(s, 1, i)
      /\ SubSeq(t, 1, Len(s) + 1) = t
  BY <1>0, SegmentAppended
<1>4. \A x : RunningSum(x) = IF Left(x) = {} THEN SumOf(x)
                             ELSE Double(SumOf(SubSeq(x, 1, Min(Left(x)))))
  BY DEF RunningSum
<1>5. \A x \in Int : /\ x \in Finite => Double(x) = x
                     /\ x \notin Finite => Double(x) \in {Inf, -Inf}
  BY <1>0 DEF Double, Finite
<1> HIDE DEF t
<1>6. Left(t) = Left(s) \union (IF SumOf(t) \in Finite THEN {} ELSE {Len(s) + 1})
  <2>0. (\A i \in 1..Len(s) : D(t, i) = D(s, i)) /\ D(t, Len(s) + 1) = SumOf(t)
    BY <1>3
  <2> HIDE DEF D
  <2>1. Left(t) \subseteq 1..(Len(s) + 1) /\ Left(s) \subseteq 1..Len(s)
    BY <1>1
  <2>2. \A i \in 1..Len(s) : i \in Left(t) <=> i \in Left(s)
    BY <1>1, <2>0
  <2>3. Len(s) + 1 \in Left(t) <=> SumOf(t) \notin Finite
    BY <1>1, <2>0
  <2> HIDE DEF Left
  <2>4. \A i \in Left(t) : i \in 1..Len(s) \/ i = Len(s) + 1
    BY <1>1, <2>1
  <2> QED
    BY <2>1, <2>2, <2>3, <2>4
<1>7. CASE Left(s) = {}
  <2>1. SumOf(s) \in Finite
    <3>1. CASE Len(s) = 0
      <4>1. s = <<>>
        BY <3>1
      <4> QED
        BY <1>0, <4>1, Nothing DEF Finite
    <3>2. CASE Len(s) # 0
      <4>1. Len(s) \in DOMAIN s /\ SubSeq(s, 1, Len(s)) = s
        BY <1>1, <3>2, Segment
      <4> QED
        BY <1>7, <4>1
    <3> QED
      BY <3>1, <3>2
  <2>2. RunningSum(s) = SumOf(s)
    BY <1>4, <1>7
  <2>3. CASE SumOf(t) \in Finite
    <3>1. Left(t) = {}
      BY <1>6, <1>7, <2>3
    <3>2. RunningSum(t) = SumOf(t)
      BY <1>4, <3>1
    <3> HIDE DEF Left
    <3> QED
      BY <1>0, <1>2, <1>5, <2>1, <2>2, <2>3, <3>2 DEF t
  <2>4. CASE SumOf(t) \notin Finite
    <3>1. Left(t) = {Len(s) + 1}
      BY <1>6, <1>7, <2>4
    <3>2. Min(Left(t)) = Len(s) + 1
      <4> DEFINE x == Len(s) + 1
                 L == Left(t)
      <4>1. x \in L /\ L \subseteq Int /\ \A y \in L : x <= y
        BY <1>1, <3>1
      <4> HIDE DEF x, L
      <4>2. Min(L) = x
        BY <4>1, MinIs
      <4> QED
        BY <4>2 DEF x, L
    <3>3. RunningSum(t) = Double(SumOf(t))
      BY <1>3, <1>4, <3>1, <3>2
    <3> HIDE DEF Left
    <3> QED
      BY <1>0, <1>2, <2>1, <2>2, <3>3 DEF t
  <2> QED
    BY <2>3, <2>4
<1>8. CASE Left(s) # {}
  <2> DEFINE m == Min(Left(s))
  <2>1. m \in Left(s) /\ \A y \in Left(s) : m <= y
    <3> DEFINE L == Left(s)
    <3>1. L \subseteq Nat /\ L # {}
      BY <1>1, <1>8
    <3> HIDE DEF L
    <3>2. Min(L) \in L /\ \A y \in L : Min(L) <= y
      BY <3>1, Least
    <3> QED
      BY <3>2 DEF L
  <2> HIDE DEF m
  <2>2. m \in 1..Len(s) /\ SumOf(SubSeq(s, 1, m)) \notin Finite
    BY <1>1, <2>1
  <2>3. Min(Left(t)) = m
    <3> DEFINE L == Left(t)
    <3>1. L \subseteq Int /\ m \in L /\ \A y \in L : m <= y
      <4>1. m \in Left(t) /\ Left(t) \subseteq Int
        BY <1>1, <1>6, <2>1
      <4>2. \A y \in Left(t) : y \in Left(s) \/ y = Len(s) + 1
        BY <1>6
      <4>3. m <= Len(s) + 1
        BY <1>1, <2>2
      <4> HIDE DEF Left
      <4> QED
        BY <2>1, <4>1, <4>2, <4>3
    <3> HIDE DEF L
    <3>2. Min(L) = m
      BY <3>1, MinIs
    <3> QED
      BY <3>2 DEF L
  <2>4. Left(t) # {}
    BY <1>6, <1>8
  <2> DEFINE x == SumOf(SubSeq(s, 1, m))
  <2>5. RunningSum(s) = Double(x)
    BY <1>4, <1>8 DEF m
  <2>6. RunningSum(t) = Double(x)
    <3>1. RunningSum(t) = Double(SumOf(SubSeq(t, 1, m)))
      BY <1>4, <2>3, <2>4
    <3> QED
      BY <1>3, <2>2, <3>1
  <2>7. x \in Int
    <3>1. SubSeq(s, 1, m) \in Seq(Int)
      BY <1>1, <2>2
    <3> QED
      BY <1>0, <3>1, SumOfAppended
  <2> HIDE DEF x
  <2>8. Double(x) \in {Inf, -Inf}
    <3>1. x \notin Finite
      BY <2>2 DEF x
    <3> QED
      BY <1>5, <2>7, <3>1
  <2>9. Double(Double(x) + v) = Double(x)
    <3>1. Double(Inf + v) = Inf /\ Double(-Inf + v) = -Inf
      BY <1>0 DEF Double
    <3> QED
      BY <2>8, <3>1
  <2> QED
    BY <2>5, <2>6, <2>8, <2>9 DEF t
<1> QED
  BY <1>7, <1>8

\* Without na_rm the worst kind of missing value replaces the result.
LEMMA Worsens ==
    ASSUME NEW s, NEW x
    PROVE  WorstOf(s, FALSE, x) = OfMissing(MissingIn(s), x)
BY DEF WorstOf, OfMissing, MissingIn

\* cumsum: every cell written so far is the sum of its prefix.
LEMMA AddCumulativeStep ==
    ASSUME JobOK(job), job.kernel = "cumsum",
           NEW s \in Seq(Elems(job)), NEW v \in Elems(job), NEW a \in Locals,
           Summary(job, pass, a, s)
    PROVE  Summary(job, pass, AddCumulative(a, v), Append(s, v))
<1> DEFINE t == Append(s, v)
           G(x, i) == WorstOf(SubSeq(x, 1, i), FALSE, RunningSum(SubSeq(x, 1, i)))
           missing == combineRealMissing(a.missing, realMissing(v))
           total == IF missing = "none" THEN Double(a.total + v) ELSE a.total
           out == Append(a.out, OfMissing(missing, total))
           b == AddCumulative(a, v)
<1>1. /\ v \in Int /\ s \in Seq(Int) /\ Elems(job) \subseteq Int
      /\ v \in Finite \union {NA, NaN}
  <2>1. Elems(job) \subseteq Int /\ Elems(job) \subseteq Cells(job.kernel)
    BY JobHas
  <2>2. \A i \in 1..Len(s) : s[i] \in Int
    BY <2>1
  <2> QED
    BY <2>1, <2>2, Narrower DEF Cells
<1>2. /\ a.missing = MissingIn(s)
      /\ a.missing = "none" => a.total = RunningSum(s)
      /\ a.out = [i \in DOMAIN s |-> G(s, i)] /\ Unused(job, a)
  BY DEF Summary, CumulativeSummary
<1>3. missing = MissingIn(t)
  <2>1. MissingIn(t) = combineRealMissing(MissingIn(s), realMissing(v))
    BY <1>1, AppendedRange
  <2> QED
    BY <1>2, <2>1
<1>4. missing = "none" => total = RunningSum(t)
  <2>1. ASSUME missing = "none" PROVE a.missing = "none" /\ Present(v)
    BY <1>2, <2>1, Numbers DEF combineRealMissing, realMissing, Present, MissingIn, missing
  <2>2. ASSUME missing = "none" PROVE v \in Finite /\ Present(v)
    BY <1>1, <2>1, <2>2 DEF Present
  <2>3. ASSUME missing = "none" PROVE RunningSum(t) = Double(RunningSum(s) + v)
    BY <1>1, <2>2, <2>3, RunningAppended
  <2> QED
    BY <1>2, <2>1, <2>3
<1>5. b = [a EXCEPT !.missing = missing, !.total = total, !.out = out]
  BY DEF AddCumulative
<1> HIDE DEF missing, total
<1>6. OfMissing(missing, total) = WorstOf(t, FALSE, RunningSum(t))
  <2>1. OfMissing(missing, total) = OfMissing(missing, RunningSum(t))
    BY <1>4 DEF OfMissing, MissingIn, combineRealMissing, missing
  <2> QED
    BY <1>3, <2>1, Worsens
<1>7. /\ DOMAIN s = 1..Len(s) /\ DOMAIN t = 1..(Len(s) + 1) /\ Len(s) \in Nat
      /\ \A i \in 1..Len(s) : SubSeq(t, 1, i) = SubSeq(s, 1, i)
      /\ SubSeq(t, 1, Len(s) + 1) = t
  BY <1>1, Appended, SegmentAppended
<1>8. out = [i \in DOMAIN t |-> G(t, i)]
  <2> DEFINE w == OfMissing(missing, total)
             o == a.out
  <2>1. o \in Seq(Int)
    BY LocalsHas
  <2>2. Len(o) = Len(s) /\ \A i \in 1..Len(s) : o[i] = G(s, i)
    BY <1>2, <1>7, <2>1
  <2>3. w = G(t, Len(s) + 1) /\ \A i \in 1..Len(s) : G(s, i) = G(t, i)
    BY <1>6, <1>7
  <2>0. w \in Int
    <3>1. a.total \in Int /\ Double(a.total + v) \in Int
      BY <1>1, LocalsHas, DoubleType
    <3>2. total \in Int
      BY <3>1 DEF total
    <3> QED
      BY <3>2, OfMissingType
  <2> HIDE DEF w, o, G, t
  <2>4. /\ Append(o, w) = [i \in 1..(Len(s) + 1) |-> Append(o, w)[i]]
        /\ Append(o, w)[Len(s) + 1] = w /\ \A i \in 1..Len(s) : Append(o, w)[i] = o[i]
    <3>1. /\ Append(o, w) \in Seq(Int) /\ Len(Append(o, w)) = Len(o) + 1
          /\ Append(o, w)[Len(o) + 1] = w /\ \A i \in 1..Len(o) : Append(o, w)[i] = o[i]
      BY <2>0, <2>1, Appended
    <3> DEFINE f == Append(o, w)
    <3> HIDE DEF f
    <3>2. f \in Seq(Int) /\ Len(f) = Len(s) + 1
      BY <2>2, <3>1 DEF f
    <3>3. f = [i \in 1..(Len(s) + 1) |-> f[i]]
      BY <3>2
    <3> QED
      BY <2>2, <3>1, <3>3 DEF f
  <2>5. \A i \in 1..(Len(s) + 1) : Append(o, w)[i] = G(t, i)
    BY <1>7, <2>2, <2>3, <2>4
  <2>6. Append(o, w) = [i \in 1..(Len(s) + 1) |-> G(t, i)]
    <3> DEFINE f == Append(o, w)
               N == 1..(Len(s) + 1)
    <3>1. f = [i \in N |-> f[i]] /\ \A i \in N : f[i] = G(t, i)
      BY <2>4, <2>5
    <3> HIDE DEF f, N
    <3>2. f = [i \in N |-> G(t, i)]
      BY <3>1
    <3> QED
      BY <3>2 DEF f, N
  <2> QED
    BY <1>7, <2>6 DEF o, w
<1> HIDE DEF out, b
<1>9. b.missing = missing /\ b.total = total /\ b.out = out /\ b.idx = a.idx /\ b.count = a.count
  BY <1>5 DEF Locals
<1>10. CumulativeSummary(b, t) /\ Unused(job, b)
  BY <1>2, <1>3, <1>4, <1>8, <1>9 DEF CumulativeSummary, Unused
<1> HIDE DEF t
<1>11. Summary(job, pass, b, t)
  BY <1>10 DEF Summary
<1> QED
  BY <1>11 DEF b, t

\* minmaxInt: one cell more.
LEMMA AddExtremeStep ==
    ASSUME JobOK(job), job.kernel = "minmaxInt",
           NEW s \in Seq(Elems(job)), NEW v \in Elems(job), NEW a \in Locals,
           Summary(job, pass, a, s)
    PROVE  Summary(job, pass, AddExtreme(a, v), Append(s, v))
<1> DEFINE t == Append(s, v)
           b == AddExtreme(a, v)
<1>1. v \in Int /\ (Present(v) <=> v # NA) /\ Elems(job) \subseteq Int
  <2>1. Elems(job) \subseteq Int /\ Elems(job) \subseteq Cells(job.kernel)
    BY JobHas
  <2>2. v \in Ints
    BY <2>1 DEF Cells
  <2> QED
    BY <2>1, <2>2, Numbers, ReductionsAssumption DEF Ints, Present
<1>2. ExtremeSummary(job, a, s) /\ Unused(job, a)
  BY DEF Summary
<1>3. /\ Indices(t) = Indices(s) \union (IF Present(v) THEN {Len(s) + 1} ELSE {})
      /\ Values(t) = Values(s) \union (IF Present(v) THEN {v} ELSE {})
  BY AppendedIndices
<1>4. Values(s) \subseteq Int /\ (Indices(s) = {} => Values(s) = {})
  BY <1>1 DEF Values, Indices
<1>5. b.idx = a.idx /\ b.count = a.count /\ b.out = a.out
  BY DEF AddExtreme, Locals
<1>6. ExtremeSummary(job, b, t)
  <2>1. CASE Present(v) /\ (~a.found \/ Better(v, a.best))
    <3>1. b = [a EXCEPT !.best = v, !.found = TRUE]
      BY <1>1, <2>1 DEF AddExtreme
    <3>2. b.best = v /\ b.found = TRUE /\ a.best \in Int
      BY <3>1 DEF Locals
    <3> HIDE DEF b, t
    <3>3. IsBest(job.find_min, v, Values(t))
      <4>1. CASE ~a.found
        <5>1. Values(t) = {v}
          BY <1>2, <1>3, <1>4, <2>1, <4>1 DEF ExtremeSummary
        <5> QED
          BY <1>1, <5>1 DEF IsBest
      <4>2. CASE a.found
        <5>1. IsBest(job.find_min, a.best, Values(s)) /\ Better(v, a.best)
          BY <1>2, <2>1, <4>2 DEF ExtremeSummary
        <5>2. Values(t) = Values(s) \union {v}
          BY <1>3, <2>1
        <5> QED
          BY <1>1, <1>4, <3>2, <5>1, <5>2 DEF IsBest, Better
      <4> QED
        BY <4>1, <4>2
    <3> QED
      BY <1>3, <2>1, <3>2, <3>3 DEF ExtremeSummary
  <2>2. CASE ~Present(v)
    <3>1. b = a
      BY <1>1, <2>2 DEF AddExtreme
    <3> HIDE DEF b, t
    <3>2. Indices(t) = Indices(s) /\ Values(t) = Values(s)
      BY <1>3, <2>2
    <3> QED
      BY <1>2, <3>1, <3>2 DEF ExtremeSummary
  <2>3. CASE Present(v) /\ a.found /\ ~Better(v, a.best)
    <3>1. b = a /\ a.best \in Int
      BY <2>3 DEF AddExtreme, Locals
    <3> HIDE DEF b, t
    <3>2. IsBest(job.find_min, a.best, Values(t))
      BY <1>1, <1>2, <1>3, <1>4, <2>3, <3>1 DEF IsBest, ExtremeSummary, Better
    <3> QED
      BY <1>2, <1>3, <2>3, <3>1, <3>2 DEF ExtremeSummary
  <2> QED
    BY <2>1, <2>2, <2>3 DEF Locals
<1> HIDE DEF b, t
<1>7. Summary(job, pass, b, t)
  BY <1>2, <1>5, <1>6 DEF Summary, Unused
<1> QED
  BY <1>7 DEF b, t

\* A sequence of numbers is in Seq(Int).
LEMMA Plain ==
    ASSUME NEW V, V \subseteq Int, NEW s \in Seq(V)
    PROVE  s \in Seq(Int)
<1>1. \A i \in 1..Len(s) : s[i] \in Int
  BY ElementOfSeq
<1> QED
  BY <1>1, Narrower

-----------------------------------------------------------------------------
(***************************************************************************)
(* A chunk more.                                                            *)
(***************************************************************************)

\* What has been read when k elements of c have been added to s.
Extended(s, c, k) == s \o SubSeq(c, 1, k)

\* What has been read grows by the elements of c, from s to s \o c.
LEMMA ExtendedIs ==
    ASSUME NEW s \in Seq(Elems(job)), NEW c \in Seq(Elems(job))
    PROVE  /\ Extended(s, c, 0) = s /\ Extended(s, c, Len(c)) = s \o c
           /\ \A k \in 0..Len(c) : Extended(s, c, k) \in Seq(Elems(job))
           /\ \A k \in 1..Len(c) : Extended(s, c, k) = Append(Extended(s, c, k - 1), c[k])
<1>1. s \o SubSeq(c, 1, 0) = s /\ s \o SubSeq(c, 1, Len(c)) = s \o c
  BY Prefixed
<1>2. \A k \in 0..Len(c) : s \o SubSeq(c, 1, k) \in Seq(Elems(job))
  BY Prefixed
<1>3. \A k \in 1..Len(c) :
         s \o SubSeq(c, 1, k) = Append(s \o SubSeq(c, 1, k - 1), c[k])
  BY Prefixed, SMTT(30)
<1> QED
  BY <1>1, <1>2, <1>3 DEF Extended

\* A whole chunk is its elements one after the other: FoldKeeps of each step above.
LEMMA AddRealChunk ==
    ASSUME JobOK(job), job.kernel = "sum" \/ (job.kernel = "mean" /\ pass = "total"),
           NEW s \in Seq(Elems(job)), NEW c \in Seq(Elems(job)), NEW a \in Locals,
           Summary(job, pass, a, s)
    PROVE  /\ FoldLeft(AddReal, a, c) \in Locals
           /\ Summary(job, pass, FoldLeft(AddReal, a, c), s \o c)
<1> DEFINE w(k) == Extended(s, c, k)
           I == [k \in 0..Len(c) |-> {x \in Locals : Summary(job, pass, x, w(k))}]
<1>1. /\ w(0) = s /\ w(Len(c)) = s \o c
      /\ \A k \in 0..Len(c) : w(k) \in Seq(Elems(job))
      /\ \A k \in 1..Len(c) : w(k) = Append(w(k - 1), c[k])
  BY ExtendedIs
<1> HIDE DEF w
<1>2. /\ Len(c) \in Nat /\ Elems(job) \subseteq Int
      /\ \A k \in 1..Len(c) : c[k] \in Elems(job) /\ k - 1 \in 0..Len(c) /\ k \in 0..Len(c)
  BY JobHas
<1>3. c \in Seq(Int) /\ \A k \in 0..Len(c) : w(k) \in Seq(Int)
  BY <1>1, <1>2, Plain
<1>4. a \in I[0]
  BY <1>1, <1>2
<1>5. ASSUME NEW k \in 1..Len(c), NEW x \in Locals, x \in I[k - 1]
      PROVE  AddReal(x, c[k]) \in I[k]
  <2>1. Summary(job, pass, x, w(k - 1))
    BY <1>2, <1>5
  <2>2. c[k] \in Elems(job) /\ w(k - 1) \in Seq(Elems(job)) /\ w(k - 1) \in Seq(Int)
    BY <1>1, <1>2, <1>3
  <2>3. Summary(job, pass, AddReal(x, c[k]), Append(w(k - 1), c[k]))
    BY <2>1, <2>2, RealStep
  <2>4. AddReal(x, c[k]) \in Locals
    BY <1>2, <2>2, AddRealType
  <2> QED
    BY <1>1, <1>2, <2>3, <2>4
<1> HIDE DEF I
<1>6. FoldLeft(AddReal, a, c) \in Locals /\ FoldLeft(AddReal, a, c) \in I[Len(c)]
  BY <1>3, <1>4, <1>5, AddRealFold
<1>7. FoldLeft(AddReal, a, c) \in {x \in Locals : Summary(job, pass, x, w(Len(c)))}
  <2>1. Len(c) \in 0..Len(c)
    BY <1>2
  <2> QED
    BY <1>6, <2>1 DEF I
<1> QED
  BY <1>1, <1>7

LEMMA AddScaledChunk ==
    ASSUME JobOK(job), job.kernel = "mean", pass = "scaled",
           NEW s \in Seq(Elems(job)), NEW c \in Seq(Elems(job)), NEW a \in Locals,
           Summary(job, pass, a, s)
    PROVE  /\ FoldLeft(AddScaled, a, c) \in Locals
           /\ Summary(job, pass, FoldLeft(AddScaled, a, c), s \o c)
<1> DEFINE w(k) == Extended(s, c, k)
           I == [k \in 0..Len(c) |-> {x \in Locals : Summary(job, pass, x, w(k))}]
<1>1. /\ w(0) = s /\ w(Len(c)) = s \o c
      /\ \A k \in 0..Len(c) : w(k) \in Seq(Elems(job))
      /\ \A k \in 1..Len(c) : w(k) = Append(w(k - 1), c[k])
  BY ExtendedIs
<1> HIDE DEF w
<1>2. /\ Len(c) \in Nat /\ Elems(job) \subseteq Int
      /\ \A k \in 1..Len(c) : c[k] \in Elems(job) /\ k - 1 \in 0..Len(c) /\ k \in 0..Len(c)
  BY JobHas
<1>3. c \in Seq(Int) /\ \A k \in 0..Len(c) : w(k) \in Seq(Int)
  BY <1>1, <1>2, Plain
<1>4. a \in I[0]
  BY <1>1, <1>2
<1>5. ASSUME NEW k \in 1..Len(c), NEW x \in Locals, x \in I[k - 1]
      PROVE  AddScaled(x, c[k]) \in I[k]
  <2>1. Summary(job, pass, x, w(k - 1))
    BY <1>2, <1>5
  <2>2. c[k] \in Elems(job) /\ w(k - 1) \in Seq(Elems(job)) /\ w(k - 1) \in Seq(Int)
    BY <1>1, <1>2, <1>3
  <2>3. Summary(job, pass, AddScaled(x, c[k]), Append(w(k - 1), c[k]))
    BY <2>1, <2>2, AddScaledStep
  <2>4. AddScaled(x, c[k]) \in Locals
    BY <1>2, <2>2, AddScaledType
  <2> QED
    BY <1>1, <1>2, <2>3, <2>4
<1> HIDE DEF I
<1>6. FoldLeft(AddScaled, a, c) \in Locals /\ FoldLeft(AddScaled, a, c) \in I[Len(c)]
  BY <1>3, <1>4, <1>5, AddScaledFold
<1>7. FoldLeft(AddScaled, a, c) \in {x \in Locals : Summary(job, pass, x, w(Len(c)))}
  <2>1. Len(c) \in 0..Len(c)
    BY <1>2
  <2> QED
    BY <1>6, <2>1 DEF I
<1> QED
  BY <1>1, <1>7

LEMMA AddDifferenceChunk ==
    ASSUME JobOK(job), job.kernel = "mean", pass = "correction",
           NEW s \in Seq(Elems(job)), NEW c \in Seq(Elems(job)), NEW a \in Locals,
           Summary(job, pass, a, s)
    PROVE  /\ FoldLeft(AddDifference, a, c) \in Locals
           /\ Summary(job, pass, FoldLeft(AddDifference, a, c), s \o c)
<1> DEFINE w(k) == Extended(s, c, k)
           I == [k \in 0..Len(c) |-> {x \in Locals : Summary(job, pass, x, w(k))}]
<1>1. /\ w(0) = s /\ w(Len(c)) = s \o c
      /\ \A k \in 0..Len(c) : w(k) \in Seq(Elems(job))
      /\ \A k \in 1..Len(c) : w(k) = Append(w(k - 1), c[k])
  BY ExtendedIs
<1> HIDE DEF w
<1>2. /\ Len(c) \in Nat /\ Elems(job) \subseteq Int
      /\ \A k \in 1..Len(c) : c[k] \in Elems(job) /\ k - 1 \in 0..Len(c) /\ k \in 0..Len(c)
  BY JobHas
<1>3. c \in Seq(Int) /\ \A k \in 0..Len(c) : w(k) \in Seq(Int)
  BY <1>1, <1>2, Plain
<1>4. a \in I[0]
  BY <1>1, <1>2
<1>5. ASSUME NEW k \in 1..Len(c), NEW x \in Locals, x \in I[k - 1]
      PROVE  AddDifference(x, c[k]) \in I[k]
  <2>1. Summary(job, pass, x, w(k - 1))
    BY <1>2, <1>5
  <2>2. c[k] \in Elems(job) /\ w(k - 1) \in Seq(Elems(job)) /\ w(k - 1) \in Seq(Int)
    BY <1>1, <1>2, <1>3
  <2>3. Summary(job, pass, AddDifference(x, c[k]), Append(w(k - 1), c[k]))
    BY <2>1, <2>2, AddDifferenceStep
  <2>4. AddDifference(x, c[k]) \in Locals
    BY <1>2, <2>2, AddDifferenceType
  <2> QED
    BY <1>1, <1>2, <2>3, <2>4
<1> HIDE DEF I
<1>6. FoldLeft(AddDifference, a, c) \in Locals /\ FoldLeft(AddDifference, a, c) \in I[Len(c)]
  BY <1>3, <1>4, <1>5, AddDifferenceFold
<1>7. FoldLeft(AddDifference, a, c) \in {x \in Locals : Summary(job, pass, x, w(Len(c)))}
  <2>1. Len(c) \in 0..Len(c)
    BY <1>2
  <2> QED
    BY <1>6, <2>1 DEF I
<1> QED
  BY <1>1, <1>7

LEMMA AddTrueChunk ==
    ASSUME JobOK(job), job.kernel = "countTrue",
           NEW s \in Seq(Elems(job)), NEW c \in Seq(Elems(job)), NEW a \in Locals,
           Summary(job, pass, a, s)
    PROVE  /\ FoldLeft(AddTrue, a, c) \in Locals
           /\ Summary(job, pass, FoldLeft(AddTrue, a, c), s \o c)
<1> DEFINE w(k) == Extended(s, c, k)
           I == [k \in 0..Len(c) |-> {x \in Locals : Summary(job, pass, x, w(k))}]
<1>1. /\ w(0) = s /\ w(Len(c)) = s \o c
      /\ \A k \in 0..Len(c) : w(k) \in Seq(Elems(job))
      /\ \A k \in 1..Len(c) : w(k) = Append(w(k - 1), c[k])
  BY ExtendedIs
<1> HIDE DEF w
<1>2. /\ Len(c) \in Nat /\ Elems(job) \subseteq Int
      /\ \A k \in 1..Len(c) : c[k] \in Elems(job) /\ k - 1 \in 0..Len(c) /\ k \in 0..Len(c)
  BY JobHas
<1>3. c \in Seq(Int) /\ \A k \in 0..Len(c) : w(k) \in Seq(Int)
  BY <1>1, <1>2, Plain
<1>4. a \in I[0]
  BY <1>1, <1>2
<1>5. ASSUME NEW k \in 1..Len(c), NEW x \in Locals, x \in I[k - 1]
      PROVE  AddTrue(x, c[k]) \in I[k]
  <2>1. Summary(job, pass, x, w(k - 1))
    BY <1>2, <1>5
  <2>2. c[k] \in Elems(job) /\ w(k - 1) \in Seq(Elems(job)) /\ w(k - 1) \in Seq(Int)
    BY <1>1, <1>2, <1>3
  <2>3. Summary(job, pass, AddTrue(x, c[k]), Append(w(k - 1), c[k]))
    BY <2>1, <2>2, AddTrueStep
  <2>4. AddTrue(x, c[k]) \in Locals
    BY <1>2, <2>2, AddTrueType
  <2> QED
    BY <1>1, <1>2, <2>3, <2>4
<1> HIDE DEF I
<1>6. FoldLeft(AddTrue, a, c) \in Locals /\ FoldLeft(AddTrue, a, c) \in I[Len(c)]
  BY <1>3, <1>4, <1>5, AddTrueFold
<1>7. FoldLeft(AddTrue, a, c) \in {x \in Locals : Summary(job, pass, x, w(Len(c)))}
  <2>1. Len(c) \in 0..Len(c)
    BY <1>2
  <2> QED
    BY <1>6, <2>1 DEF I
<1> QED
  BY <1>1, <1>7

LEMMA AddCumulativeChunk ==
    ASSUME JobOK(job), job.kernel = "cumsum",
           NEW s \in Seq(Elems(job)), NEW c \in Seq(Elems(job)), NEW a \in Locals,
           Summary(job, pass, a, s)
    PROVE  /\ FoldLeft(AddCumulative, a, c) \in Locals
           /\ Summary(job, pass, FoldLeft(AddCumulative, a, c), s \o c)
<1> DEFINE w(k) == Extended(s, c, k)
           I == [k \in 0..Len(c) |-> {x \in Locals : Summary(job, pass, x, w(k))}]
<1>1. /\ w(0) = s /\ w(Len(c)) = s \o c
      /\ \A k \in 0..Len(c) : w(k) \in Seq(Elems(job))
      /\ \A k \in 1..Len(c) : w(k) = Append(w(k - 1), c[k])
  BY ExtendedIs
<1> HIDE DEF w
<1>2. /\ Len(c) \in Nat /\ Elems(job) \subseteq Int
      /\ \A k \in 1..Len(c) : c[k] \in Elems(job) /\ k - 1 \in 0..Len(c) /\ k \in 0..Len(c)
  BY JobHas
<1>3. c \in Seq(Int) /\ \A k \in 0..Len(c) : w(k) \in Seq(Int)
  BY <1>1, <1>2, Plain
<1>4. a \in I[0]
  BY <1>1, <1>2
<1>5. ASSUME NEW k \in 1..Len(c), NEW x \in Locals, x \in I[k - 1]
      PROVE  AddCumulative(x, c[k]) \in I[k]
  <2>1. Summary(job, pass, x, w(k - 1))
    BY <1>2, <1>5
  <2>2. c[k] \in Elems(job) /\ w(k - 1) \in Seq(Elems(job)) /\ w(k - 1) \in Seq(Int)
    BY <1>1, <1>2, <1>3
  <2>3. Summary(job, pass, AddCumulative(x, c[k]), Append(w(k - 1), c[k]))
    BY <2>1, <2>2, AddCumulativeStep
  <2>4. AddCumulative(x, c[k]) \in Locals
    BY <1>2, <2>2, AddCumulativeType
  <2> QED
    BY <1>1, <1>2, <2>3, <2>4
<1> HIDE DEF I
<1>6. FoldLeft(AddCumulative, a, c) \in Locals /\ FoldLeft(AddCumulative, a, c) \in I[Len(c)]
  BY <1>3, <1>4, <1>5, AddCumulativeFold
<1>7. FoldLeft(AddCumulative, a, c) \in {x \in Locals : Summary(job, pass, x, w(Len(c)))}
  <2>1. Len(c) \in 0..Len(c)
    BY <1>2
  <2> QED
    BY <1>6, <2>1 DEF I
<1> QED
  BY <1>1, <1>7

LEMMA AddExtremeChunk ==
    ASSUME JobOK(job), job.kernel = "minmaxInt",
           NEW s \in Seq(Elems(job)), NEW c \in Seq(Elems(job)), NEW a \in Locals,
           Summary(job, pass, a, s)
    PROVE  /\ FoldLeft(AddExtreme, a, c) \in Locals
           /\ Summary(job, pass, FoldLeft(AddExtreme, a, c), s \o c)
<1> DEFINE w(k) == Extended(s, c, k)
           I == [k \in 0..Len(c) |-> {x \in Locals : Summary(job, pass, x, w(k))}]
<1>1. /\ w(0) = s /\ w(Len(c)) = s \o c
      /\ \A k \in 0..Len(c) : w(k) \in Seq(Elems(job))
      /\ \A k \in 1..Len(c) : w(k) = Append(w(k - 1), c[k])
  BY ExtendedIs
<1> HIDE DEF w
<1>2. /\ Len(c) \in Nat /\ Elems(job) \subseteq Int
      /\ \A k \in 1..Len(c) : c[k] \in Elems(job) /\ k - 1 \in 0..Len(c) /\ k \in 0..Len(c)
  BY JobHas
<1>3. c \in Seq(Int) /\ \A k \in 0..Len(c) : w(k) \in Seq(Int)
  BY <1>1, <1>2, Plain
<1>4. a \in I[0]
  BY <1>1, <1>2
<1>5. ASSUME NEW k \in 1..Len(c), NEW x \in Locals, x \in I[k - 1]
      PROVE  AddExtreme(x, c[k]) \in I[k]
  <2>1. Summary(job, pass, x, w(k - 1))
    BY <1>2, <1>5
  <2>2. c[k] \in Elems(job) /\ w(k - 1) \in Seq(Elems(job)) /\ w(k - 1) \in Seq(Int)
    BY <1>1, <1>2, <1>3
  <2>3. Summary(job, pass, AddExtreme(x, c[k]), Append(w(k - 1), c[k]))
    BY <2>1, <2>2, AddExtremeStep
  <2>4. AddExtreme(x, c[k]) \in Locals
    BY <1>2, <2>2, AddExtremeType
  <2> QED
    BY <1>1, <1>2, <2>3, <2>4
<1> HIDE DEF I
<1>6. FoldLeft(AddExtreme, a, c) \in Locals /\ FoldLeft(AddExtreme, a, c) \in I[Len(c)]
  BY <1>3, <1>4, <1>5, AddExtremeFold
<1>7. FoldLeft(AddExtreme, a, c) \in {x \in Locals : Summary(job, pass, x, w(Len(c)))}
  <2>1. Len(c) \in 0..Len(c)
    BY <1>2
  <2> QED
    BY <1>6, <2>1 DEF I
<1> QED
  BY <1>1, <1>7

-----------------------------------------------------------------------------
(***************************************************************************)
(* Lanes: a chunk is rows of Lanes elements, and a tail.                    *)
(***************************************************************************)
Rows(c) == Body(c) \div Lanes

\* Rows and lanes: division with a remainder.
LEMMA Division ==
    ASSUME NEW m \in Nat, NEW d \in Nat, d # 0
    PROVE  /\ m \div d \in Nat /\ m % d \in 0 .. d - 1
           /\ m = (m \div d) * d + (m % d)
OBVIOUS

\* A multiple of d divided by d.
LEMMA DivisionOf ==
    ASSUME NEW q \in Nat, NEW d \in Nat, d # 0
    PROVE  (q * d) \div d = q
OBVIOUS

\* The body is whole rows; a chunk shorter than Lanes has no body.
LEMMA RowsAre ==
    ASSUME NEW c, Len(c) \in Nat
    PROVE  /\ Rows(c) \in Nat /\ Body(c) = Rows(c) * Lanes /\ Body(c) \in 0..Len(c)
           /\ Len(c) < Lanes => Body(c) = 0 /\ Rows(c) = 0
<1> DEFINE m == Len(c)
           q == m \div Lanes
           r == m % Lanes
<1>1. Lanes \in Nat /\ Lanes # 0
  BY ReductionsAssumption
<1>2. q \in Nat /\ r \in 0 .. Lanes - 1 /\ m = q * Lanes + r
  BY <1>1, Division
<1>3. q * Lanes \in Nat /\ m - r = q * Lanes
  <2> HIDE DEF q, r
  <2>1. q * Lanes \in Nat
    BY <1>1, <1>2
  <2> QED
    BY <1>2, <2>1
<1>4. CASE m >= Lanes
  <2>1. Body(c) = q * Lanes
    BY <1>3, <1>4 DEF Body
  <2>2. Rows(c) = q
    <3> HIDE DEF q
    <3> QED
      BY <1>1, <1>2, <2>1, DivisionOf DEF Rows
  <2> HIDE DEF q, r, m
  <2> QED
    BY <1>1, <1>2, <1>3, <1>4, <2>1, <2>2 DEF m
<1>5. CASE ~(m >= Lanes)
  <2>1. Body(c) = 0
    BY <1>5 DEF Body
  <2>2. Rows(c) = 0
    <3>1. 0 * Lanes = 0
      BY <1>1
    <3> QED
      BY <1>1, <2>1, <3>1, DivisionOf DEF Rows
  <2> QED
    BY <1>1, <2>1, <2>2
<1> QED
  BY <1>4, <1>5

\* The k-th element of the j-th lane, and where it is.
Place(k, j) == (k - 1) * Lanes + j

\* Every place of the body is an index of the chunk.
LEMMA PlacesAre ==
    ASSUME NEW c, Len(c) \in Nat, NEW k \in 1..Rows(c), NEW j \in 1..Lanes
    PROVE  Place(k, j) \in 1..Body(c) /\ Place(k, j) \in 1..Len(c)
<1>1. Lanes \in Nat /\ Lanes # 0
  BY ReductionsAssumption
<1>2. Rows(c) \in Nat /\ Body(c) = Rows(c) * Lanes /\ Body(c) \in 0..Len(c)
  BY RowsAre
<1> DEFINE R == Rows(c)
           B == Body(c)
<1>3. R \in Nat /\ B = R * Lanes /\ k \in 1..R
  BY <1>2
<1> HIDE DEF R, B
<1>4. (k - 1) * Lanes \in Nat /\ (k - 1) * Lanes + Lanes <= R * Lanes
  BY <1>1, <1>3
<1>5. Place(k, j) \in 1..B
  BY <1>1, <1>3, <1>4 DEF Place
<1> QED
  BY <1>2, <1>5 DEF B

\* Every place of the rows is in a lane.
LEMMA PlacesCover ==
    ASSUME NEW c, Len(c) \in Nat, NEW i \in 1..Body(c)
    PROVE  \E j \in 1..Lanes, k \in 1..Rows(c) : i = Place(k, j)
<1> DEFINE q == (i - 1) \div Lanes
           r == (i - 1) % Lanes
<1>1. Lanes \in Nat /\ Lanes # 0
  BY ReductionsAssumption
<1>2. Rows(c) \in Nat /\ Body(c) = Rows(c) * Lanes /\ Body(c) \in 0..Len(c)
  BY RowsAre
<1>3. i - 1 \in Nat
  BY <1>2
<1>4. q \in Nat /\ r \in 0 .. Lanes - 1 /\ i - 1 = q * Lanes + r
  BY <1>1, <1>3, Division
<1> DEFINE R == Rows(c)
           B == Body(c)
<1>5. R \in Nat /\ B = R * Lanes /\ i \in 1..B
  BY <1>2
<1> HIDE DEF q, r, R, B
<1>6. q < R
  <2> SUFFICES ASSUME q >= R PROVE FALSE
    BY <1>4, <1>5
  <2>1. q * Lanes >= R * Lanes
    BY <1>1, <1>4, <1>5
  <2>2. q * Lanes \in Nat /\ R * Lanes \in Nat
    BY <1>1, <1>4, <1>5
  <2> QED
    BY <1>4, <1>5, <2>1, <2>2
<1>7. q + 1 \in 1..R /\ r + 1 \in 1..Lanes
  BY <1>1, <1>4, <1>5, <1>6
<1>8. i = Place(q + 1, r + 1)
  <2>1. (q + 1) - 1 = q /\ q * Lanes \in Nat
    BY <1>1, <1>4
  <2> QED
    BY <1>4, <1>5, <2>1 DEF Place
<1> QED
  BY <1>7, <1>8 DEF R

\* The lanes and the tail as sequences.
LEMMA LaneIs ==
    ASSUME NEW V, NEW c \in Seq(V), NEW j \in 1..Lanes
    PROVE  /\ Of(c, Lane(c, j)) \in Seq(V) /\ Len(Of(c, Lane(c, j))) = Rows(c)
           /\ \A k \in 1..Rows(c) : Of(c, Lane(c, j))[k] = c[Place(k, j)]
<1>1. Len(c) \in Nat /\ Rows(c) \in Nat
  BY RowsAre
<1>2. Of(c, Lane(c, j)) = [k \in 1..Rows(c) |-> c[Place(k, j)]]
  BY DEF Of, Lane, Rows, Place
<1>3. \A k \in 1..Rows(c) : c[Place(k, j)] \in V
  BY <1>1, PlacesAre
<1> DEFINE l == [k \in 1..Rows(c) |-> c[Place(k, j)]]
<1>4. l \in [1..Rows(c) -> V]
  BY <1>3
<1>5. l \in Seq(V)
  BY <1>1, <1>4, SeqDef
<1>6. Len(l) = Rows(c)
  BY <1>1, <1>5
<1> QED
  BY <1>2, <1>5, <1>6

\* The tail is what follows the body.
LEMMA TailIs ==
    ASSUME NEW V, NEW c \in Seq(V)
    PROVE  /\ Of(c, Tail_(c)) \in Seq(V) /\ Len(Of(c, Tail_(c))) = Len(c) - Body(c)
           /\ \A k \in 1 .. Len(c) - Body(c) : Of(c, Tail_(c))[k] = c[Body(c) + k]
           /\ Len(c) - Body(c) \in Nat
<1> DEFINE B == Body(c)
           m == Len(c) - B
           l == [k \in 1..m |-> c[B + k]]
<1>1. Len(c) \in Nat /\ B \in 0..Len(c)
  BY RowsAre
<1>2. Of(c, Tail_(c)) = l
  BY DEF Of, Tail_
<1> HIDE DEF B
<1>3. m \in Nat /\ \A k \in 1..m : B + k \in 1..Len(c)
  BY <1>1
<1>4. \A k \in 1..m : c[B + k] \in V
  BY <1>3
<1> HIDE DEF m
<1>5. l \in [1..m -> V]
  BY <1>4
<1>6. l \in Seq(V)
  BY <1>3, <1>5, SeqDef
<1>7. Len(l) = m
  BY <1>3, <1>6
<1> QED
  BY <1>2, <1>3, <1>6, <1>7 DEF m, B

-----------------------------------------------------------------------------
(***************************************************************************)
(* The sums of the lanes and the tail are the sum of the chunk.             *)
(***************************************************************************)
LEMMA Joined ==
    ASSUME NEW V, NEW x \in Seq(V), NEW y \in Seq(V)
    PROVE  /\ x \o y \in Seq(V) /\ Len(x \o y) = Len(x) + Len(y)
           /\ Len(x) \in Nat /\ Len(y) \in Nat
           /\ \A i \in 1..Len(x) : (x \o y)[i] = x[i]
           /\ \A i \in 1..Len(y) : (x \o y)[Len(x) + i] = y[i]
<1>1. Len(x) \in Nat /\ Len(y) \in Nat
  OBVIOUS
<1>2. /\ x \o y \in Seq(V) /\ Len(x \o y) = Len(x) + Len(y)
      /\ \A i \in 1 .. Len(x) + Len(y) :
            (x \o y)[i] = IF i <= Len(x) THEN x[i] ELSE y[i - Len(x)]
  BY ConcatProperties
<1>3. ASSUME NEW i \in 1..Len(y) PROVE (x \o y)[Len(x) + i] = y[i]
  <2>1. /\ Len(x) + i \in 1 .. Len(x) + Len(y) /\ ~(Len(x) + i <= Len(x))
        /\ (Len(x) + i) - Len(x) = i
    BY <1>1
  <2> QED
    BY <1>2, <2>1
<1>4. ASSUME NEW i \in 1..Len(x) PROVE (x \o y)[i] = x[i]
  <2>1. i \in 1 .. Len(x) + Len(y) /\ i <= Len(x)
    BY <1>1
  <2> QED
    BY <1>2, <2>1
<1> QED
  BY <1>1, <1>2, <1>3, <1>4

\* The sums of the prefixes, which grow by one element each.
LEMMA SumPrefix ==
    ASSUME NEW s \in Seq(Int)
    PROVE  /\ SumSeq(SubSeq(s, 1, 0)) = 0 /\ SumSeq(SubSeq(s, 1, Len(s))) = SumSeq(s)
           /\ \A k \in 0..Len(s) : SumSeq(SubSeq(s, 1, k)) \in Int
           /\ \A k \in 1..Len(s) : SumSeq(SubSeq(s, 1, k)) = SumSeq(SubSeq(s, 1, k - 1)) + s[k]
<1>1. SubSeq(s, 1, 0) = <<>> /\ SubSeq(s, 1, Len(s)) = s
  BY Segment
<1>2. \A k \in 0..Len(s) : SubSeq(s, 1, k) \in Seq(Int)
  BY Segment
<1>3. \A k \in 0..Len(s) : SumSeq(SubSeq(s, 1, k)) \in Int
  <2> SUFFICES ASSUME NEW k \in 0..Len(s) PROVE SumSeq(SubSeq(s, 1, k)) \in Int
    OBVIOUS
  <2> DEFINE x == SubSeq(s, 1, k)
  <2>1. x \in Seq(Int)
    BY <1>2
  <2> HIDE DEF x
  <2>2. SumSeq(x) \in Int
    BY <2>1, PlusFrom
  <2> QED
    BY <2>2 DEF x
<1>4. ASSUME NEW k \in 1..Len(s)
      PROVE  SumSeq(SubSeq(s, 1, k)) = SumSeq(SubSeq(s, 1, k - 1)) + s[k]
  <2>1. SubSeq(s, 1, k) = Append(SubSeq(s, 1, k - 1), s[k])
    BY Segment
  <2>2. s[k] \in Int /\ k - 1 \in 0..Len(s)
    OBVIOUS
  <2> DEFINE x == SubSeq(s, 1, k - 1)
  <2>3. x \in Seq(Int)
    BY <1>2, <2>2
  <2> HIDE DEF x
  <2>4. SumSeq(Append(x, s[k])) = SumSeq(x) + s[k]
    BY <2>2, <2>3, SumAppend
  <2> QED
    BY <2>1, <2>4 DEF x
<1> QED
  BY <1>1, <1>3, <1>4, SumEmpty

\* The sum of the sums is the sum, element by element.
LEMMA SumAdd ==
    ASSUME NEW u \in Seq(Int), NEW v \in Seq(Int), NEW z \in Seq(Int),
           Len(u) = Len(v), Len(z) = Len(u), \A i \in 1..Len(z) : z[i] = u[i] + v[i]
    PROVE  SumSeq(z) = SumSeq(u) + SumSeq(v)
<1> DEFINE T(s, k) == SumSeq(SubSeq(s, 1, k))
           S == {k \in 0..Len(z) : T(z, k) = T(u, k) + T(v, k)}
<1>1. \A s \in Seq(Int) : /\ T(s, 0) = 0 /\ T(s, Len(s)) = SumSeq(s)
                          /\ \A k \in 0..Len(s) : T(s, k) \in Int
                          /\ \A k \in 1..Len(s) : T(s, k) = T(s, k - 1) + s[k]
  BY SumPrefix
<1>2. Len(z) \in Nat /\ \A i \in 1..Len(z) : u[i] \in Int /\ v[i] \in Int
  OBVIOUS
<1> HIDE DEF T
<1>3. 0 \in S
  BY <1>1, <1>2
<1>4. ASSUME NEW k \in 0 .. Len(z) - 1, k \in S PROVE k + 1 \in S
  <2>1. k + 1 \in 1..Len(z) /\ k + 1 \in 0..Len(z) /\ (k + 1) - 1 = k /\ k \in 0..Len(z)
    BY <1>2
  <2>2. /\ T(z, k + 1) = T(z, k) + z[k + 1] /\ T(u, k + 1) = T(u, k) + u[k + 1]
        /\ T(v, k + 1) = T(v, k) + v[k + 1]
    BY <1>1, <2>1
  <2>3. T(u, k) \in Int /\ T(v, k) \in Int /\ u[k + 1] \in Int /\ v[k + 1] \in Int
    BY <1>1, <1>2, <2>1
  <2>4. T(z, k) = T(u, k) + T(v, k) /\ z[k + 1] = u[k + 1] + v[k + 1]
    BY <1>4, <2>1
  <2>5. T(z, k + 1) = T(u, k + 1) + T(v, k + 1)
    <3> DEFINE p == T(u, k)
               q == T(v, k)
               x == u[k + 1]
               y == v[k + 1]
    <3>1. p \in Int /\ q \in Int /\ x \in Int /\ y \in Int
      BY <2>3
    <3>2. T(z, k + 1) = (p + q) + (x + y)
      BY <2>2, <2>4
    <3>3. T(u, k + 1) = p + x /\ T(v, k + 1) = q + y
      BY <2>2
    <3> HIDE DEF p, q, x, y
    <3> QED
      BY <3>1, <3>2, <3>3
  <2> QED
    BY <2>1, <2>5
<1> HIDE DEF S
<1>5. \A k \in 0..Len(z) : k \in S
  BY <1>2, <1>3, <1>4, InductionTo
<1>6. T(z, Len(z)) = T(u, Len(z)) + T(v, Len(z))
  BY <1>2, <1>5 DEF S
<1> QED
  BY <1>1, <1>6

\* What the lanes have added up after r rows is the sum of those rows.
LEMMA RowSums ==
    ASSUME NEW w \in Seq(Int), NEW r \in 0..Rows(w)
    PROVE  SumSeq([j \in 1..Lanes |-> SumSeq(SubSeq(Of(w, Lane(w, j)), 1, r))])
              = SumSeq(SubSeq(w, 1, r * Lanes))
<1> DEFINE A(j, k) == SumSeq(SubSeq(Of(w, Lane(w, j)), 1, k))
           L(k) == [j \in 1..Lanes |-> A(j, k)]
           S == {k \in 0..Rows(w) : SumSeq(L(k)) = SumSeq(SubSeq(w, 1, k * Lanes))}
           R == Rows(w)
<1>1. Lanes \in Nat /\ Lanes # 0
  BY ReductionsAssumption
<1>2. R \in Nat /\ Body(w) = R * Lanes /\ Body(w) \in 0..Len(w) /\ Len(w) \in Nat
  BY RowsAre
<1>3. ASSUME NEW j \in 1..Lanes
      PROVE  /\ A(j, 0) = 0
             /\ \A k \in 0..R : A(j, k) \in Int
             /\ \A k \in 1..R : A(j, k) = A(j, k - 1) + w[Place(k, j)]
  <2> DEFINE l == Of(w, Lane(w, j))
  <2>1. l \in Seq(Int) /\ Len(l) = R /\ \A k \in 1..R : l[k] = w[Place(k, j)]
    BY LaneIs
  <2> HIDE DEF l
  <2>2. /\ SumSeq(SubSeq(l, 1, 0)) = 0
        /\ \A k \in 0..R : SumSeq(SubSeq(l, 1, k)) \in Int
        /\ \A k \in 1..R : SumSeq(SubSeq(l, 1, k)) = SumSeq(SubSeq(l, 1, k - 1)) + l[k]
    BY <2>1, SumPrefix
  <2> QED
    BY <2>1, <2>2 DEF l
<1> HIDE DEF A, R
<1>4. ASSUME NEW k \in 0..R PROVE L(k) \in Seq(Int) /\ Len(L(k)) = Lanes
  <2>1. L(k) \in [1..Lanes -> Int]
    BY <1>3
  <2>2. L(k) \in Seq(Int)
    BY <1>1, <2>1, SeqDef
  <2> QED
    BY <1>1, <2>2
<1>5. 0 \in S
  <2> DEFINE z == L(0)
  <2>1. z \in Seq(Int) /\ Len(z) = Lanes /\ \A i \in 1..Lanes : z[i] = 0
    <3>1. 0 \in 0..R
      BY <1>2
    <3> QED
      BY <1>3, <1>4, <3>1
  <2> HIDE DEF z
  <2>2. Len(z) = Len(z) /\ \A i \in 1..Len(z) : z[i] = z[i] + z[i]
    BY <2>1
  <2>3. SumSeq(z) = SumSeq(z) + SumSeq(z) /\ SumSeq(z) \in Int
    <3>1. SumSeq(z) = SumSeq(z) + SumSeq(z)
      BY <2>1, <2>2, SumAdd, Zenon
    <3>2. SumSeq(z) \in Int
      BY <2>1, 0 \in Int, PlusFrom
    <3> QED
      BY <3>1, <3>2
  <2>4. SumSeq(z) = 0
    BY <2>3
  <2>5. 0 * Lanes = 0 /\ 0 \in 0..Rows(w)
    BY <1>1, <1>2 DEF R
  <2> QED
    BY <2>4, <2>5, SumPrefix DEF z
<1>6. ASSUME NEW k \in 0 .. R - 1, k \in S PROVE k + 1 \in S
  <2> DEFINE b == k * Lanes
             v == [j \in 1..Lanes |-> w[b + j]]
             x == SubSeq(w, 1, b)
             y == SubSeq(w, 1, b + Lanes)
  <2>1. k + 1 \in 1..R /\ k + 1 \in 0..R /\ (k + 1) - 1 = k /\ k \in 0..R /\ k \in Nat
    BY <1>2
  <2>2. b \in Nat /\ (k + 1) * Lanes = b + Lanes
    BY <1>1, <2>1
  <2>3. b + Lanes <= Len(w)
    <3>1. (k + 1) * Lanes <= R * Lanes
      <4>1. k + 1 <= R /\ R \in Nat /\ k + 1 \in Nat
        BY <1>2, <2>1
      <4> QED
        BY <1>1, <4>1
    <3> QED
      BY <1>1, <1>2, <2>2, <3>1
  <2>4. \A j \in 1..Lanes : Place(k + 1, j) = b + j
    BY <2>1 DEF Place
  <2> HIDE DEF b
  <2>5. \A j \in 1..Lanes : w[b + j] \in Int
    BY <1>1, <2>2, <2>3
  <2>6. v \in Seq(Int) /\ Len(v) = Lanes
    <3>1. v \in [1..Lanes -> Int]
      BY <2>5
    <3>2. v \in Seq(Int)
      BY <1>1, <3>1, SeqDef
    <3> QED
      BY <1>1, <3>2
  <2>7. SumSeq(L(k + 1)) = SumSeq(L(k)) + SumSeq(v)
    <3> DEFINE u == L(k)
               z == L(k + 1)
    <3>1. u \in Seq(Int) /\ z \in Seq(Int) /\ Len(u) = Lanes /\ Len(z) = Lanes
      BY <1>4, <2>1
    <3>2. \A i \in 1..Lanes : z[i] = u[i] + v[i]
      BY <1>3, <2>1, <2>4
    <3> HIDE DEF u, z, v
    <3>3. Len(u) = Len(v) /\ Len(z) = Len(u) /\ \A i \in 1..Len(z) : z[i] = u[i] + v[i]
      BY <2>6, <3>1, <3>2
    <3>4. SumSeq(z) = SumSeq(u) + SumSeq(v)
      BY <2>6, <3>1, <3>3, SumAdd, Zenon
    <3> QED
      BY <3>4 DEF u, z
  <2>8. x \in Seq(Int) /\ Len(x) = b /\ \A i \in 1..b : x[i] = w[i]
    BY <1>1, <1>2, <2>2, <2>3
  <2>9. y \in Seq(Int) /\ Len(y) = b + Lanes /\ \A i \in 1 .. b + Lanes : y[i] = w[i]
    BY <1>1, <1>2, <2>2, <2>3
  <2>10. y = x \o v
    <3> HIDE DEF x, y
    <3>1. \A j \in 1..Lanes : v[j] = w[b + j]
      OBVIOUS
    <3> HIDE DEF v
    <3>0. /\ x \o v \in Seq(Int) /\ Len(x \o v) = Len(x) + Len(v)
          /\ \A i \in 1..Len(x) : (x \o v)[i] = x[i]
          /\ \A i \in 1..Len(v) : (x \o v)[Len(x) + i] = v[i]
      <4>1. x \in Seq(Int) /\ v \in Seq(Int)
        BY <2>6, <2>8
      <4>2. x \o v \in Seq(Int) /\ Len(x \o v) = Len(x) + Len(v)
        BY <4>1, Joined
      <4>3. \A i \in 1..Len(x) : (x \o v)[i] = x[i]
        BY <4>1, Joined
      <4>4. \A i \in 1..Len(v) : (x \o v)[Len(x) + i] = v[i]
        BY <4>1, Joined
      <4> QED
        BY <4>2, <4>3, <4>4
    <3>2. x \o v \in Seq(Int) /\ Len(x \o v) = b + Lanes
      BY <2>6, <2>8, <3>0
    <3>3. ASSUME NEW i \in 1 .. b + Lanes PROVE (x \o v)[i] = w[i]
      <4>1. CASE i <= b
        <5>1. i \in 1..b
          BY <1>1, <2>2, <4>1
        <5> QED
          BY <2>8, <3>0, <5>1
      <4>2. CASE ~(i <= b)
        <5>1. i - b \in 1..Lanes /\ b + (i - b) = i
          BY <1>1, <2>2, <4>2
        <5>2. (x \o v)[i] = v[i - b]
          BY <2>6, <2>8, <3>0, <5>1
        <5> QED
          BY <3>1, <5>1, <5>2
      <4> QED
        BY <4>1, <4>2
    <3>4. \A i \in 1..Len(y) : y[i] = (x \o v)[i]
      BY <2>9, <3>3
    <3> QED
      BY <2>9, <3>2, <3>4, SeqEqual
  <2>11. SumSeq(y) = SumSeq(x) + SumSeq(v)
    <3> HIDE DEF x, y, v
    <3> QED
      BY <2>6, <2>8, <2>10, SumConcat
  <2>12. SumSeq(L(k)) = SumSeq(x)
    BY <1>6 DEF b
  <2>13. SumSeq(L(k + 1)) = SumSeq(SubSeq(w, 1, (k + 1) * Lanes))
    BY <2>2, <2>7, <2>11, <2>12
  <2> QED
    BY <2>1, <2>13 DEF R
<1> HIDE DEF S
<1>7. r \in S
  <2>1. \A k \in 0..R : k \in S
    BY <1>2, <1>5, <1>6, InductionTo
  <2> QED
    BY <2>1 DEF R
<1> QED
  BY <1>7 DEF S, A

\* Lane after lane, then the lanes, then the tail: every element is added once.
LEMMA LaneSumIs ==
    ASSUME NEW a \in Locals, NEW w \in Seq(Int)
    PROVE  LaneSum(a, w) = [a EXCEPT !.total = a.total + SumSeq(w)]
<1> DEFINE l == [j \in 1..Lanes |-> FoldLeft(Plus, 0, Of(w, Lane(w, j)))]
           q == Of(w, Tail_(w))
           B == Body(w)
<1>1. Lanes \in Nat /\ Lanes # 0
  BY ReductionsAssumption
<1>2. Rows(w) \in Nat /\ B = Rows(w) * Lanes /\ B \in 0..Len(w) /\ Len(w) \in Nat
  BY RowsAre
<1>3. ASSUME NEW j \in 1..Lanes
      PROVE  /\ FoldLeft(Plus, 0, Of(w, Lane(w, j))) = SumSeq(SubSeq(Of(w, Lane(w, j)), 1, Rows(w)))
             /\ FoldLeft(Plus, 0, Of(w, Lane(w, j))) \in Int
  <2> DEFINE m == Of(w, Lane(w, j))
  <2>1. m \in Seq(Int) /\ Len(m) = Rows(w)
    BY LaneIs
  <2> HIDE DEF m
  <2>2. SubSeq(m, 1, Rows(w)) = m /\ SumSeq(m) \in Int
    BY <2>1, Segment, PlusFrom
  <2> QED
    BY <2>2 DEF m, SumSeq
<1>4. l = [j \in 1..Lanes |-> SumSeq(SubSeq(Of(w, Lane(w, j)), 1, Rows(w)))]
  BY <1>3
<1>5. l \in Seq(Int)
  <2>1. l \in [1..Lanes -> Int]
    BY <1>3
  <2> QED
    BY <1>1, <2>1, SeqDef
<1>6. SumSeq(l) = SumSeq(SubSeq(w, 1, B))
  <2>1. Rows(w) \in 0..Rows(w)
    BY <1>2
  <2> QED
    BY <1>2, <1>4, <2>1, RowSums
<1>7. q \in Seq(Int) /\ Len(q) = Len(w) - B /\ \A k \in 1 .. Len(w) - B : q[k] = w[B + k]
  BY TailIs
<1> DEFINE x == SubSeq(w, 1, B)
<1> HIDE DEF q, B
<1>8. x \in Seq(Int) /\ Len(x) = B /\ \A i \in 1..B : x[i] = w[i]
  BY <1>2
<1> HIDE DEF x
<1>9. w = x \o q
  <2>0. /\ x \o q \in Seq(Int) /\ Len(x \o q) = Len(x) + Len(q)
        /\ \A i \in 1..Len(x) : (x \o q)[i] = x[i]
        /\ \A i \in 1..Len(q) : (x \o q)[Len(x) + i] = q[i]
    <3>1. x \in Seq(Int) /\ q \in Seq(Int)
      BY <1>7, <1>8
    <3>2. x \o q \in Seq(Int) /\ Len(x \o q) = Len(x) + Len(q)
      BY <3>1, Joined
    <3>3. \A i \in 1..Len(x) : (x \o q)[i] = x[i]
      BY <3>1, Joined
    <3>4. \A i \in 1..Len(q) : (x \o q)[Len(x) + i] = q[i]
      BY <3>1, Joined
    <3> QED
      BY <3>2, <3>3, <3>4
  <2>1. x \o q \in Seq(Int) /\ Len(x \o q) = Len(w)
    <3>1. x \o q \in Seq(Int) /\ Len(x \o q) = Len(x) + Len(q)
      BY <2>0
    <3>2. Len(x) = B /\ Len(q) = Len(w) - B
      BY <1>7, <1>8
    <3>3. Len(w) \in Int /\ B \in Int
      BY <1>2
    <3> QED
      BY <3>1, <3>2, <3>3
  <2>2. ASSUME NEW i \in 1..Len(w) PROVE (x \o q)[i] = w[i]
    <3>1. CASE i <= B
      <4>1. i \in 1..B
        BY <1>2, <3>1
      <4> QED
        BY <1>8, <2>0, <4>1
    <3>2. CASE ~(i <= B)
      <4>1. i - B \in 1 .. Len(w) - B /\ B + (i - B) = i
        BY <1>2, <3>2
      <4>2. (x \o q)[i] = q[i - B]
        BY <1>7, <1>8, <2>0, <4>1
      <4> QED
        BY <1>7, <4>1, <4>2
    <3> QED
      BY <3>1, <3>2
  <2> QED
    BY <2>1, <2>2, SeqEqual
<1>10. SumSeq(w) = SumSeq(x) + SumSeq(q) /\ SumSeq(x) \in Int /\ SumSeq(q) \in Int
  BY <1>7, <1>8, <1>9, SumConcat, PlusFrom
<1>11. FoldLeft(Plus, 0, l) = SumSeq(x)
  BY <1>6 DEF SumSeq, x
<1>12. a.total \in Int
  BY LocalsHas
<1>13. FoldLeft(Plus, a.total + FoldLeft(Plus, 0, l), q) = a.total + SumSeq(w)
  <2>1. a.total + SumSeq(x) \in Int
    BY <1>10, <1>12
  <2>2. FoldLeft(Plus, a.total + SumSeq(x), q) = (a.total + SumSeq(x)) + SumSeq(q)
    BY <1>7, <2>1, PlusFrom
  <2> QED
    BY <1>10, <1>11, <1>12, <2>2
<1>14. LaneSum(a, w) = [a EXCEPT !.total = FoldLeft(Plus, a.total + FoldLeft(Plus, 0, l), q)]
  BY DEF LaneSum, q
<1> QED
  BY <1>13, <1>14

\* LaneSum keeps the summary of the kernels that add lane by lane.
LEMMA LaneSumTotal ==
    ASSUME JobOK(job), job.kernel \in {"sumInt", "norm2", "scaleAdd"},
           NEW s, NEW t, NEW a \in Locals, Summary(job, pass, a, s), NEW w \in Seq(Int),
           job.kernel = "sumInt" => SumSeq(t) = a.total + SumSeq(w),
           job.kernel = "norm2" => SumSeq(Squares(t)) = a.total + SumSeq(w),
           job.kernel = "scaleAdd" => SumSeq(Scaled(t)) = a.total + SumSeq(w)
    PROVE  LaneSum(a, w) \in Locals /\ Summary(job, pass, LaneSum(a, w), t)
<1> DEFINE b == LaneSum(a, w)
           x == a.total + SumSeq(w)
<1>1. x \in Int
  <2>1. a.total \in Int /\ SumSeq(w) \in Int
    BY LocalsHas, 0 \in Int, PlusFrom
  <2> QED
    BY <2>1
<1>2. b = [a EXCEPT !.total = x]
  BY LaneSumIs
<1>3. Unused(job, a)
  BY DEF Summary
<1> HIDE DEF b, x
<1>4. b \in Locals /\ b.total = x /\ b.idx = a.idx /\ b.out = a.out /\ b.count = a.count
  BY <1>1, <1>2 DEF Locals
<1>5. Summary(job, pass, b, t)
  BY <1>3, <1>4 DEF Summary, Unused, x
<1> QED
  BY <1>4, <1>5 DEF b

LEMMA SumIntChunk ==
    ASSUME JobOK(job), job.kernel = "sumInt",
           NEW s \in Seq(Elems(job)), NEW c \in Seq(Elems(job)), NEW a \in Locals,
           Summary(job, pass, a, s)
    PROVE  LaneSum(a, c) \in Locals /\ Summary(job, pass, LaneSum(a, c), s \o c)
<1>1. s \in Seq(Int) /\ c \in Seq(Int)
  BY JobHas, Plain
<1>2. SumSeq(s \o c) = SumSeq(s) + SumSeq(c) /\ a.total = SumSeq(s)
  BY <1>1, SumConcat DEF Summary
<1> QED
  BY <1>1, <1>2, LaneSumTotal

\* What is done with every element is done with a sequence piece by piece.
LEMMA Mapped ==
    ASSUME NEW s \in Seq(Int)
    PROVE  /\ Squares(s) \in Seq(Int) /\ Len(Squares(s)) = Len(s)
           /\ Scaled(s) \in Seq(Int) /\ Len(Scaled(s)) = Len(s)
           /\ \A i \in 1..Len(s) : /\ Squares(s)[i] = s[i] * s[i]
                                   /\ Scaled(s)[i] = s[i] * Alpha + Beta
<1>1. DOMAIN s = 1..Len(s) /\ Len(s) \in Nat /\ \A i \in 1..Len(s) : s[i] \in Int
  OBVIOUS
<1>2. \A i \in 1..Len(s) : s[i] * s[i] \in Int /\ s[i] * Alpha + Beta \in Int
  BY <1>1 DEF Alpha, Beta
<1>3. Squares(s) \in [1..Len(s) -> Int] /\ Scaled(s) \in [1..Len(s) -> Int]
  BY <1>1, <1>2 DEF Squares, Scaled
<1>4. Squares(s) \in Seq(Int) /\ Scaled(s) \in Seq(Int)
  BY <1>1, <1>3, SeqDef
<1>5. Len(Squares(s)) = Len(s) /\ Len(Scaled(s)) = Len(s)
  BY <1>1, <1>3, <1>4
<1>6. \A i \in 1..Len(s) : /\ Squares(s)[i] = s[i] * s[i]
                           /\ Scaled(s)[i] = s[i] * Alpha + Beta
  BY <1>1 DEF Squares, Scaled
<1> QED
  BY <1>4, <1>5, <1>6

\* Squares and Scaled of a chunk more.
LEMMA MappedJoined ==
    ASSUME NEW s \in Seq(Int), NEW c \in Seq(Int)
    PROVE  Squares(s \o c) = Squares(s) \o Squares(c) /\ Scaled(s \o c) = Scaled(s) \o Scaled(c)
<1> DEFINE t == s \o c
           m == Len(s)
           l == Len(c)
<1>1. t \in Seq(Int) /\ Len(t) = m + l /\ m \in Nat /\ l \in Nat
  BY Joined
<1>2. \A i \in 1..m : t[i] = s[i]
  BY Joined
<1>3. \A i \in 1..l : t[m + i] = c[i]
  BY Joined
<1> HIDE DEF t
<1>4. ASSUME NEW i \in 1 .. m + l PROVE i \in 1..m \/ (i - m \in 1..l /\ i = m + (i - m))
  BY <1>1
<1>5. ASSUME NEW f \in Seq(Int), NEW g \in Seq(Int), NEW h \in Seq(Int),
             Len(f) = m + l, Len(g) = m, Len(h) = l,
             \A i \in 1..m : f[i] = g[i], \A i \in 1..l : f[m + i] = h[i]
      PROVE  f = g \o h
  <2>1. g \o h \in Seq(Int) /\ Len(g \o h) = m + l
    BY <1>5, Joined
  <2>2. \A i \in 1..m : (g \o h)[i] = g[i]
    <3>1. \A i \in 1..Len(g) : (g \o h)[i] = g[i]
      BY Joined
    <3> QED
      BY <1>5, <3>1
  <2>3. \A i \in 1..l : (g \o h)[m + i] = h[i]
    <3>1. \A i \in 1..Len(h) : (g \o h)[Len(g) + i] = h[i]
      BY Joined
    <3> QED
      BY <1>5, <3>1
  <2>4. ASSUME NEW i \in 1..Len(f) PROVE f[i] = (g \o h)[i]
    <3>1. i \in 1 .. m + l
      BY <1>5
    <3>2. CASE i \in 1..m
      BY <1>5, <2>2, <3>2
    <3>3. CASE i - m \in 1..l /\ i = m + (i - m)
      <4> DEFINE k == i - m
      <4>1. k \in 1..l /\ i = m + k
        BY <3>3
      <4> HIDE DEF k
      <4> QED
        BY <1>5, <2>3, <4>1
    <3> QED
      BY <1>4, <3>1, <3>2, <3>3
  <2>5. Len(f) = Len(g \o h)
    BY <1>5, <2>1
  <2> QED
    BY <2>1, <2>4, <2>5, SeqEqual
<1>6. /\ Squares(t) \in Seq(Int) /\ Len(Squares(t)) = m + l
      /\ Scaled(t) \in Seq(Int) /\ Len(Scaled(t)) = m + l
      /\ \A i \in 1 .. m + l : /\ Squares(t)[i] = t[i] * t[i]
                               /\ Scaled(t)[i] = t[i] * Alpha + Beta
  BY <1>1, Mapped
<1>7. /\ Squares(s) \in Seq(Int) /\ Len(Squares(s)) = m
      /\ Scaled(s) \in Seq(Int) /\ Len(Scaled(s)) = m
      /\ \A i \in 1..m : /\ Squares(s)[i] = s[i] * s[i]
                         /\ Scaled(s)[i] = s[i] * Alpha + Beta
  BY Mapped
<1>8. /\ Squares(c) \in Seq(Int) /\ Len(Squares(c)) = l
      /\ Scaled(c) \in Seq(Int) /\ Len(Scaled(c)) = l
      /\ \A i \in 1..l : /\ Squares(c)[i] = c[i] * c[i]
                         /\ Scaled(c)[i] = c[i] * Alpha + Beta
  BY Mapped
<1> HIDE DEF m, l
<1>9. (\A i \in 1..m : i \in 1 .. m + l) /\ \A i \in 1..l : m + i \in 1 .. m + l
  BY <1>1
<1>10. /\ \A i \in 1..m : Squares(t)[i] = Squares(s)[i]
       /\ \A i \in 1..l : Squares(t)[m + i] = Squares(c)[i]
  BY <1>2, <1>3, <1>6, <1>7, <1>8, <1>9
<1>11. /\ \A i \in 1..m : Scaled(t)[i] = Scaled(s)[i]
       /\ \A i \in 1..l : Scaled(t)[m + i] = Scaled(c)[i]
  BY <1>2, <1>3, <1>6, <1>7, <1>8, <1>9
<1>12. Squares(t) = Squares(s) \o Squares(c)
  BY <1>5, <1>6, <1>7, <1>8, <1>10
<1>13. Scaled(t) = Scaled(s) \o Scaled(c)
  BY <1>5, <1>6, <1>7, <1>8, <1>11
<1> QED
  BY <1>12, <1>13 DEF t

LEMMA Norm2Chunk ==
    ASSUME JobOK(job), job.kernel = "norm2",
           NEW s \in Seq(Elems(job)), NEW c \in Seq(Elems(job)), NEW a \in Locals,
           Summary(job, pass, a, s)
    PROVE  /\ LaneSum(a, Squares(c)) \in Locals
           /\ Summary(job, pass, LaneSum(a, Squares(c)), s \o c)
<1>1. s \in Seq(Int) /\ c \in Seq(Int)
  BY JobHas, Plain
<1>2. Squares(s) \in Seq(Int) /\ Squares(c) \in Seq(Int)
      /\ Squares(s \o c) = Squares(s) \o Squares(c)
  BY <1>1, Mapped, MappedJoined
<1>3. SumSeq(Squares(s \o c)) = SumSeq(Squares(s)) + SumSeq(Squares(c))
  BY <1>2, SumConcat
<1>4. a.total = SumSeq(Squares(s))
  BY DEF Summary
<1> QED
  BY <1>2, <1>3, <1>4, LaneSumTotal

LEMMA ScaleAddChunk ==
    ASSUME JobOK(job), job.kernel = "scaleAdd",
           NEW s \in Seq(Elems(job)), NEW c \in Seq(Elems(job)), NEW a \in Locals,
           Summary(job, pass, a, s)
    PROVE  /\ LaneSum(a, Scaled(c)) \in Locals
           /\ Summary(job, pass, LaneSum(a, Scaled(c)), s \o c)
<1>1. s \in Seq(Int) /\ c \in Seq(Int)
  BY JobHas, Plain
<1>2. Scaled(s) \in Seq(Int) /\ Scaled(c) \in Seq(Int) /\ Scaled(s \o c) = Scaled(s) \o Scaled(c)
  BY <1>1, Mapped, MappedJoined
<1>3. SumSeq(Scaled(s \o c)) = SumSeq(Scaled(s)) + SumSeq(Scaled(c))
  BY <1>2, SumConcat
<1>4. a.total = SumSeq(Scaled(s))
  BY DEF Summary
<1> QED
  BY <1>2, <1>3, <1>4, LaneSumTotal

\* The sum of what is scaled is the sum scaled.
LEMMA ScaledSum ==
    ASSUME NEW s \in Seq(Int)
    PROVE  SumSeq(Scaled(s)) = Alpha * SumSeq(s) + Beta * Len(s)
<1> DEFINE S == {u \in Seq(Int) : SumSeq(Scaled(u)) = Alpha * SumSeq(u) + Beta * Len(u)}
<1>1. <<>> \in S
  <2>1. Scaled(<<>>) = <<>>
    BY DEF Scaled
  <2>2. Alpha * 0 + Beta * 0 = 0
    BY DEF Alpha, Beta
  <2>3. <<>> \in Seq(Int) /\ Len(<<>>) = 0
    OBVIOUS
  <2> QED
    BY <2>1, <2>2, <2>3, SumEmpty
<1>2. ASSUME NEW u \in Seq(Int), NEW v \in Int, u \in S PROVE Append(u, v) \in S
  <2> DEFINE x == v * Alpha + Beta
             t == Append(u, v)
  <2>1. /\ t \in Seq(Int) /\ Len(t) = Len(u) + 1 /\ Len(u) \in Nat /\ t[Len(u) + 1] = v
        /\ \A i \in 1..Len(u) : t[i] = u[i]
    BY Appended
  <2>2. x \in Int
    BY DEF Alpha, Beta
  <2> HIDE DEF t, x
  <2>3. Scaled(t) = Append(Scaled(u), x)
    <3>1. /\ Scaled(t) \in Seq(Int) /\ Len(Scaled(t)) = Len(u) + 1
          /\ \A i \in 1 .. Len(u) + 1 : Scaled(t)[i] = t[i] * Alpha + Beta
      BY <2>1, Mapped
    <3>2. /\ Scaled(u) \in Seq(Int) /\ Len(Scaled(u)) = Len(u)
          /\ \A i \in 1..Len(u) : Scaled(u)[i] = u[i] * Alpha + Beta
      BY Mapped
    <3> DEFINE f == Scaled(u)
               g == Append(f, x)
    <3> HIDE DEF f
    <3>3. /\ g \in Seq(Int) /\ Len(g) = Len(f) + 1 /\ g[Len(f) + 1] = x
          /\ \A i \in 1..Len(f) : g[i] = f[i]
      BY <2>2, <3>2, Appended DEF f
    <3> HIDE DEF g
    <3>4. ASSUME NEW i \in 1 .. Len(u) + 1 PROVE Scaled(t)[i] = g[i]
      <4>1. CASE i \in 1..Len(u)
        <5>1. Scaled(t)[i] = t[i] * Alpha + Beta /\ t[i] = u[i]
          BY <2>1, <3>1, <4>1
        <5>2. g[i] = u[i] * Alpha + Beta
          BY <3>2, <3>3, <4>1 DEF f
        <5> QED
          BY <5>1, <5>2
      <4>2. CASE i = Len(u) + 1
        <5>1. Scaled(t)[i] = t[i] * Alpha + Beta /\ t[i] = v
          BY <2>1, <3>1, <4>2
        <5>2. g[i] = x
          BY <3>2, <3>3, <4>2 DEF f
        <5> QED
          BY <5>1, <5>2 DEF x
      <4> QED
        BY <2>1, <4>1, <4>2
    <3>5. \A i \in 1..Len(Scaled(t)) : Scaled(t)[i] = g[i]
      BY <3>1, <3>4
    <3>6. Len(g) = Len(Scaled(t))
      BY <3>1, <3>2, <3>3 DEF f
    <3>7. Scaled(t) = g
      BY <3>1, <3>3, <3>5, <3>6, SeqEqual
    <3> QED
      BY <3>7 DEF f, g
  <2>4. SumSeq(Scaled(t)) = SumSeq(Scaled(u)) + x
    <3>1. Scaled(u) \in Seq(Int)
      BY Mapped
    <3> QED
      BY <2>2, <2>3, <3>1, SumAppend
  <2>5. SumSeq(t) = SumSeq(u) + v /\ SumSeq(u) \in Int
    <3>1. SumSeq(u) \in Int
      BY 0 \in Int, PlusFrom
    <3> QED
      BY <3>1, SumAppend DEF t
  <2>6. SumSeq(Scaled(u)) = Alpha * SumSeq(u) + Beta * Len(u)
    BY <1>2
  <2>7. SumSeq(Scaled(t)) = Alpha * SumSeq(t) + Beta * Len(t)
    <3> DEFINE y == SumSeq(u)
               l == Len(u)
    <3>1. y \in Int /\ l \in Nat
      BY <2>1, <2>5
    <3> HIDE DEF y, l
    <3>2. (Alpha * y + Beta * l) + (v * Alpha + Beta) = Alpha * (y + v) + Beta * (l + 1)
      BY <3>1 DEF Alpha, Beta
    <3> QED
      BY <2>1, <2>4, <2>5, <2>6, <3>2 DEF x, y, l
  <2> QED
    BY <2>1, <2>7 DEF t
<1> HIDE DEF S
<1>3. \A u \in Seq(Int) : u \in S
  BY <1>1, <1>2, SeqInduction
<1> QED
  BY <1>3 DEF S

-----------------------------------------------------------------------------
(***************************************************************************)
(* The best of the lanes and the tail is the best of the chunk.             *)
(***************************************************************************)
LEMMA PickBest ==
    ASSUME NEW S \in SUBSET Int, NEW x, IsBest(job.find_min, x, S), NEW y \in Int
    PROVE  IsBest(job.find_min, Pick(x, y), S \union {y})
BY DEF IsBest, Pick, Better

\* The best of more than one best of each part.
LEMMA BestOfBest ==
    ASSUME NEW S \in SUBSET Int, NEW T \in SUBSET Int, NEW least, NEW x, IsBest(least, x, S), x \in T,
           \A z \in S : z \in T,
           \A y \in T : \E z \in S : IF least THEN z <= y ELSE z >= y
    PROVE  IsBest(least, x, T)
<1>1. ASSUME NEW y \in T PROVE IF least THEN x <= y ELSE x >= y
  <2>1. PICK z \in S : IF least THEN z <= y ELSE z >= y
    OBVIOUS
  <2>2. IF least THEN x <= z ELSE x >= z
    BY DEF IsBest
  <2>3. x \in Int /\ y \in Int /\ z \in Int
    OBVIOUS
  <2> QED
    BY <2>1, <2>2, <2>3
<1> QED
  BY <1>1 DEF IsBest

\* The best of a chunk, element by element.
LEMMA PickIs ==
    ASSUME NEW c \in Seq(Int), NEW a \in Int
    PROVE  /\ FoldLeft(Pick, a, c) \in Int
           /\ IsBest(job.find_min, FoldLeft(Pick, a, c), {a} \union {c[i] : i \in 1..Len(c)})
<1> DEFINE T(k) == {a} \union {c[i] : i \in 1..k}
           I == [k \in 0..Len(c) |-> {x \in Int : IsBest(job.find_min, x, T(k))}]
<1>1. Len(c) \in Nat /\ \A i \in 1..Len(c) : c[i] \in Int
  OBVIOUS
<1>2. a \in I[0]
  <2>1. T(0) = {a}
    OBVIOUS
  <2> QED
    BY <1>1, <2>1 DEF IsBest
<1>3. ASSUME NEW k \in 1..Len(c), NEW x \in Int, x \in I[k - 1] PROVE Pick(x, c[k]) \in I[k]
  <2>1. k \in 0..Len(c) /\ k - 1 \in 0..Len(c) /\ k \in Nat /\ c[k] \in Int
    BY <1>1
  <2>2. IsBest(job.find_min, x, T(k - 1))
    BY <1>3, <2>1
  <2>3. T(k - 1) \in SUBSET Int
    BY <1>1, <2>1
  <2>4. T(k) = T(k - 1) \union {c[k]}
    <3>1. 1..k = 1..(k - 1) \union {k}
      BY <2>1
    <3> QED
      BY <3>1
  <2> HIDE DEF T
  <2>5. IsBest(job.find_min, Pick(x, c[k]), T(k)) /\ Pick(x, c[k]) \in Int
    <3>1. Pick(x, c[k]) \in Int
      BY <2>1 DEF Pick
    <3>2. IsBest(job.find_min, Pick(x, c[k]), T(k - 1) \union {c[k]})
      BY <2>1, <2>2, <2>3, PickBest
    <3> QED
      BY <2>4, <3>1, <3>2
  <2> QED
    BY <2>1, <2>5
<1> HIDE DEF I
<1>4. FoldLeft(Pick, a, c) \in Int /\ FoldLeft(Pick, a, c) \in I[Len(c)]
  BY <1>2, <1>3, PickFold
<1>5. Len(c) \in 0..Len(c)
  BY <1>1
<1> QED
  BY <1>4, <1>5 DEF I

\* The best of the body, lane by lane, is the best of its elements.
LEMMA LaneExtremeIs ==
    ASSUME NEW c \in Seq(Int), NEW a \in Int
    PROVE  /\ LaneExtreme(a, c) \in Int
           /\ IsBest(job.find_min, LaneExtreme(a, c), {a} \union {c[i] : i \in 1..Body(c)})
<1> DEFINE l == [j \in 1..Lanes |-> FoldLeft(Pick, a, Of(c, Lane(c, j)))]
           T(j) == {a} \union {c[Place(k, j)] : k \in 1..Rows(c)}
           A == {a} \union {c[i] : i \in 1..Body(c)}
           S == {a} \union {l[j] : j \in 1..Lanes}
<1>0. Lanes \in Nat /\ Lanes # 0
  BY ReductionsAssumption
<1>1. Rows(c) \in Nat /\ Body(c) \in 0..Len(c) /\ Len(c) \in Nat
  BY RowsAre
<1>2. \A i \in 1..Body(c) : c[i] \in Int
  BY <1>1
<1>3. ASSUME NEW j \in 1..Lanes PROVE l[j] \in Int /\ IsBest(job.find_min, l[j], T(j))
  <2> DEFINE m == Of(c, Lane(c, j))
  <2>1. m \in Seq(Int) /\ Len(m) = Rows(c) /\ \A k \in 1..Rows(c) : m[k] = c[Place(k, j)]
    BY LaneIs
  <2>2. {m[i] : i \in 1..Len(m)} = {c[Place(k, j)] : k \in 1..Rows(c)}
    BY <2>1
  <2> HIDE DEF m
  <2>3. FoldLeft(Pick, a, m) \in Int
        /\ IsBest(job.find_min, FoldLeft(Pick, a, m), {a} \union {m[i] : i \in 1..Len(m)})
    BY <2>1, PickIs
  <2>4. l[j] = FoldLeft(Pick, a, m)
    BY DEF m
  <2> HIDE DEF l
  <2> QED
    BY <2>2, <2>3, <2>4
<1>4. l \in Seq(Int) /\ Len(l) = Lanes
  <2>1. l \in [1..Lanes -> Int]
    BY <1>3
  <2>2. l \in Seq(Int)
    BY <1>0, <2>1, SeqDef
  <2> QED
    BY <1>0, <2>2
<1>5. LaneExtreme(a, c) = FoldLeft(Pick, a, l)
  BY DEF LaneExtreme
<1> HIDE DEF l
<1> DEFINE x == FoldLeft(Pick, a, l)
<1>6. x \in Int /\ IsBest(job.find_min, x, S)
  BY <1>4, PickIs
<1> HIDE DEF x
<1>7. ASSUME NEW j \in 1..Lanes PROVE T(j) \subseteq A
  <2>1. \A k \in 1..Rows(c) : Place(k, j) \in 1..Body(c)
    BY <1>1, PlacesAre
  <2> QED
    BY <2>1
<1>8. \A j \in 1..Lanes : l[j] \in A
  BY <1>3, <1>7 DEF IsBest
<1>9. ASSUME NEW y \in A PROVE \E z \in S : IF job.find_min THEN z <= y ELSE z >= y
  <2>1. CASE y = a
    BY <2>1
  <2>2. CASE \E i \in 1..Body(c) : y = c[i]
    <3>1. PICK i \in 1..Body(c) : y = c[i]
      BY <2>2
    <3>2. PICK j \in 1..Lanes, k \in 1..Rows(c) : i = Place(k, j)
      BY <1>1, PlacesCover
    <3>3. y \in T(j)
      BY <3>1, <3>2
    <3>4. IF job.find_min THEN l[j] <= y ELSE l[j] >= y
      BY <1>3, <3>3 DEF IsBest
    <3> QED
      BY <3>4
  <2> QED
    BY <2>1, <2>2
<1>10. S \in SUBSET Int /\ A \in SUBSET Int /\ (\A z \in S : z \in A)
  BY <1>2, <1>3, <1>8
<1>11. x \in A
  BY <1>6, <1>10 DEF IsBest
<1> HIDE DEF S, A
<1>12. IsBest(job.find_min, x, A)
  BY <1>6, <1>9, <1>10, <1>11, BestOfBest
<1> QED
  BY <1>5, <1>6, <1>12 DEF x, A

\* A chunk more: the range and the worst kind of missing value.
LEMMA JoinedRange ==
    ASSUME NEW V, NEW s \in Seq(V), NEW c \in Seq(V)
    PROVE  /\ Range(s \o c) = Range(s) \union Range(c)
           /\ MissingIn(s \o c) = combineRealMissing(MissingIn(s), MissingIn(c))
<1> DEFINE t == s \o c
           m == Len(s)
           l == Len(c)
<1>1. Len(t) = m + l /\ m \in Nat /\ l \in Nat /\ t \in Seq(V)
  BY Joined
<1>2. \A i \in 1..m : t[i] = s[i]
  BY Joined
<1>3. \A i \in 1..l : t[m + i] = c[i]
  BY Joined
<1>4. DOMAIN t = 1..(m + l) /\ DOMAIN s = 1..m /\ DOMAIN c = 1..l
  <2> HIDE DEF t
  <2> QED
    BY <1>1
<1> HIDE DEF t, m, l
<1>5. ASSUME NEW i \in 1..(m + l) PROVE t[i] \in Range(s) \union Range(c)
  <2>1. CASE i <= m
    <3>1. i \in 1..m
      BY <1>1, <2>1
    <3> QED
      BY <1>2, <1>4, <3>1 DEF Range
  <2>2. CASE ~(i <= m)
    <3> DEFINE k == i - m
    <3>1. k \in 1..l /\ i = m + k
      BY <1>1, <2>2
    <3> HIDE DEF k
    <3> QED
      BY <1>3, <1>4, <3>1 DEF Range
  <2> QED
    BY <2>1, <2>2
<1>6. \A i \in 1..m : s[i] \in Range(t)
  <2>1. \A i \in 1..m : i \in 1..(m + l)
    BY <1>1
  <2> QED
    BY <1>2, <1>4, <2>1 DEF Range
<1>7. \A i \in 1..l : c[i] \in Range(t)
  <2>1. \A i \in 1..l : m + i \in 1..(m + l)
    BY <1>1
  <2> QED
    BY <1>3, <1>4, <2>1 DEF Range
<1>8. Range(t) = Range(s) \union Range(c)
  BY <1>4, <1>5, <1>6, <1>7 DEF Range
<1>9. MissingIn(t) = combineRealMissing(MissingIn(s), MissingIn(c))
  BY <1>8 DEF MissingIn, combineRealMissing
<1> QED
  BY <1>8, <1>9 DEF t

\* The values are the elements that are not missing.
LEMMA ValuesAre ==
    ASSUME NEW s
    PROVE  /\ Values(s) = {v \in Range(s) : Present(v)}
           /\ Values(s) = {} <=> Indices(s) = {}
           /\ MissingIn(s) \in MissingKinds
           /\ MissingIn(s) = "none" <=> \A v \in Range(s) : Present(v)
<1>1. Values(s) = {v \in Range(s) : Present(v)}
  BY DEF Values, Indices, Range
<1>2. Values(s) = {} <=> Indices(s) = {}
  BY DEF Values
<1>3. MissingIn(s) \in MissingKinds /\ (MissingIn(s) = "none" <=> \A v \in Range(s) : Present(v))
  BY DEF MissingIn, MissingKinds, Present
<1> QED
  BY <1>1, <1>2, <1>3

\* combineRealMissing does not improve and forgets nothing.
LEMMA Combined ==
    ASSUME NEW m \in MissingKinds
    PROVE  /\ combineRealMissing(m, "none") = m
           /\ \A v : Present(v) => realMissing(v) = "none"
           /\ \A s, v : v \in Range(s) =>
                 combineRealMissing(MissingIn(s), realMissing(v)) = MissingIn(s)
BY DEF combineRealMissing, realMissing, MissingIn, MissingKinds, Present

\* chunkRealMissing is the worst kind in the chunk.
LEMMA ChunkMissing ==
    ASSUME NEW c \in Seq(Int)
    PROVE  chunkRealMissing(c) = MissingIn(c)
<1> DEFINE w(k) == MissingIn(SubSeq(c, 1, k))
           I == [k \in 0..Len(c) |-> {w(k)}]
<1>1. Len(c) \in Nat /\ \A k \in 1..Len(c) : k \in 0..Len(c) /\ k - 1 \in 0..Len(c) /\ c[k] \in Int
  OBVIOUS
<1>2. w(0) = "none" /\ w(Len(c)) = MissingIn(c)
  BY Segment, Nothing
<1>3. ASSUME NEW k \in 1..Len(c) PROVE w(k) = combineRealMissing(w(k - 1), realMissing(c[k]))
  <2> DEFINE x == SubSeq(c, 1, k - 1)
  <2>1. SubSeq(c, 1, k) = Append(x, c[k]) /\ x \in Seq(Int)
    BY <1>1, Segment
  <2> HIDE DEF x
  <2>2. MissingIn(Append(x, c[k])) = combineRealMissing(MissingIn(x), realMissing(c[k]))
    BY <1>1, <2>1, AppendedRange
  <2> QED
    BY <2>1, <2>2 DEF x
<1> HIDE DEF w
<1>4. "none" \in I[0]
  BY <1>1, <1>2
<1>5. ASSUME NEW k \in 1..Len(c), NEW x \in MissingKinds, x \in I[k - 1]
      PROVE  AddMissing(x, c[k]) \in I[k]
  BY <1>1, <1>3, <1>5 DEF AddMissing
<1> HIDE DEF I
<1>6. "none" \in MissingKinds
  BY DEF MissingKinds
<1>7. FoldLeft(AddMissing, "none", c) \in I[Len(c)]
  BY <1>4, <1>5, <1>6, AddMissingFold
<1>8. Len(c) \in 0..Len(c)
  BY <1>1
<1> QED
  BY <1>2, <1>7, <1>8 DEF I, chunkRealMissing

\* Missing elements do not count, present ones do.
LEMMA MinMaxLanesIs ==
    ASSUME JobOK(job), job.kernel = "minmax",
           NEW s \in Seq(Elems(job)), NEW c \in Seq(Elems(job)), NEW a \in Locals,
           Summary(job, pass, a, s)
    PROVE  LET b == MinMaxLanes(a, c)
               seen == {v \in {c[i] : i \in 1..Body(c)} : Present(v)}
           IN  /\ b \in Locals /\ Unused(job, b)
               /\ b.missing = IF Len(c) < Lanes THEN MissingIn(s) ELSE MissingIn(s \o c)
               /\ IsBest(job.find_min, b.best, ({Identity(job)} \union Values(s)) \union seen)
<1> DEFINE b == MinMaxLanes(a, c)
           seen == {v \in {c[i] : i \in 1..Body(c)} : Present(v)}
           id == Identity(job)
           U == {id} \union Values(s)
<1>0. Lanes \in Nat /\ Lanes # 0
  BY ReductionsAssumption
<1>1. s \in Seq(Int) /\ c \in Seq(Int) /\ Elems(job) \subseteq Int
  BY JobHas, Plain
<1>2. Len(c) \in Nat /\ Body(c) \in 0..Len(c) /\ (Len(c) < Lanes => Body(c) = 0)
      /\ DOMAIN c = 1..Len(c) /\ \A i \in 1..Len(c) : c[i] \in Int
  BY <1>1, RowsAre
<1>3. MinMaxSummary(job, a, s) /\ Unused(job, a)
  BY DEF Summary
<1>4. id \in Int /\ U \in SUBSET Int /\ seen \in SUBSET Int
  <2>1. id \in Int
    BY Numbers DEF Identity
  <2>2. Values(s) \subseteq Int
    BY <1>1 DEF Values, Indices
  <2>3. seen \subseteq Int
    BY <1>2
  <2> QED
    BY <2>1, <2>2, <2>3
<1>5. a.missing = MissingIn(s) /\ IsBest(job.find_min, a.best, U)
  BY <1>3 DEF MinMaxSummary
<1>6. CASE Len(c) < Lanes
  <2>1. b = a
    BY <1>6 DEF MinMaxLanes
  <2>2. seen = {}
    BY <1>2, <1>6
  <2> HIDE DEF b, seen, U
  <2>3. b \in Locals /\ Unused(job, b) /\ b.missing = MissingIn(s)
        /\ IsBest(job.find_min, b.best, U \union seen)
    BY <1>3, <1>5, <2>1, <2>2
  <2> QED
    BY <1>6, <2>3 DEF b, seen, U
<1>7. CASE ~(Len(c) < Lanes)
  <2> DEFINE kind == chunkRealMissing(c)
             clean == IF kind = "none" THEN c
                      ELSE [i \in DOMAIN c |-> IF Present(c[i]) THEN c[i] ELSE id]
             x == LaneExtreme(id, clean)
             W == {id} \union {clean[i] : i \in 1..Body(clean)}
             T == U \union seen
             both == combineRealMissing(a.missing, kind)
             best == Pick(a.best, x)
  <2>1. kind = MissingIn(c)
    BY <1>1, ChunkMissing
  <2>2. \A i \in 1..Len(c) : clean[i] = IF Present(c[i]) THEN c[i] ELSE id
    <3>1. kind = "none" => \A v \in Range(c) : Present(v)
      BY <2>1, ValuesAre
    <3>2. \A i \in 1..Len(c) : c[i] \in Range(c)
      BY <1>2 DEF Range
    <3> QED
      BY <1>2, <3>1, <3>2
  <2>3. clean \in Seq(Int) /\ Len(clean) = Len(c)
    <3>1. clean \in [1..Len(c) -> Int]
      BY <1>2, <1>4
    <3>2. clean \in Seq(Int)
      BY <1>2, <3>1, SeqDef
    <3> HIDE DEF clean
    <3> QED
      BY <1>2, <3>1, <3>2
  <2>4. b = [a EXCEPT !.missing = both, !.best = best]
    <3>1. id = Worst(-Inf, Inf)
      BY DEF Identity, Worst
    <3> QED
      BY <1>7, <3>1 DEF MinMaxLanes
  <2> HIDE DEF clean, kind, id
  <2>5. Body(clean) = Body(c)
    BY <2>3 DEF Body
  <2>6. x \in Int /\ IsBest(job.find_min, x, W)
    BY <1>4, <2>3, LaneExtremeIs
  <2>7. both = MissingIn(s \o c) /\ both \in MissingKinds
    <3>1. both = MissingIn(s \o c)
      BY <1>5, <2>1, JoinedRange
    <3> QED
      BY <3>1, ValuesAre
  <2> HIDE DEF b, x, both
  <2>8. best \in Int /\ IsBest(job.find_min, best, U \union {x})
    <3>1. a.best \in Int
      BY LocalsHas
    <3> HIDE DEF U
    <3>2. IsBest(job.find_min, best, U \union {x})
      BY <1>4, <1>5, <2>6, PickBest
    <3> QED
      BY <2>6, <3>1, <3>2 DEF Pick
  <2> HIDE DEF best
  <2>9. W \subseteq T
    BY <1>2, <2>2, <2>5
  <2>10. \A y \in seen : y \in W
    BY <1>2, <2>2, <2>5
  <2> HIDE DEF U, seen, W
  <2>11. x \in T
    BY <2>6, <2>9 DEF IsBest
  <2>12. IsBest(job.find_min, best, T)
    <3> DEFINE S == U \union {x}
    <3>1. S \in SUBSET Int /\ T \in SUBSET Int /\ (\A z \in S : z \in T)
      BY <1>4, <2>6, <2>11
    <3>2. ASSUME NEW y \in T PROVE \E z \in S : IF job.find_min THEN z <= y ELSE z >= y
      <4>1. CASE y \in U
        <5>1. y \in Int
          BY <1>4, <4>1
        <5> QED
          BY <4>1, <5>1
      <4>2. CASE y \in seen
        BY <2>6, <2>10, <4>2 DEF IsBest
      <4> QED
        BY <4>1, <4>2
    <3>3. best \in T
      BY <2>8, <3>1 DEF IsBest
    <3> HIDE DEF S, T
    <3>4. IsBest(job.find_min, best, S)
      BY <2>8 DEF S
    <3> QED
      BY <3>1, <3>2, <3>3, <3>4, BestOfBest
  <2>13. b \in Locals /\ b.missing = both /\ b.best = best /\ b.idx = a.idx /\ b.out = a.out
         /\ b.count = a.count
    BY <2>4, <2>7, <2>8 DEF Locals
  <2>14. Unused(job, b)
    BY <1>3, <2>13 DEF Unused
  <2> QED
    BY <1>7, <2>7, <2>12, <2>13, <2>14 DEF b, seen, U, id
<1> QED
  BY <1>6, <1>7

\* addMinMax changes best for a value, missing for a missing one.
LEMMA AddMinMaxIs ==
    ASSUME NEW x \in Locals, NEW v \in Int
    PROVE  LET y == AddMinMax(x, v)
           IN  /\ y \in Locals /\ y.idx = x.idx /\ y.out = x.out /\ y.count = x.count
               /\ Present(v) => y.best = Pick(x.best, v) /\ y.missing = x.missing
               /\ ~Present(v) => /\ y.best = x.best
                                 /\ y.missing = combineRealMissing(x.missing, realMissing(v))
<1> DEFINE y == AddMinMax(x, v)
           p == Pick(x.best, v)
           m == AddMissing(x.missing, v)
<1>1. p \in Int /\ m \in MissingKinds
  BY LocalsHas, Kinds DEF Pick, AddMissing
<1>2. CASE Present(v)
  <2>1. y = [x EXCEPT !.best = p]
    BY <1>2 DEF AddMinMax
  <2> HIDE DEF y, p
  <2>2. y \in Locals /\ y.idx = x.idx /\ y.out = x.out /\ y.count = x.count
        /\ y.best = p /\ y.missing = x.missing
    BY <1>1, <2>1 DEF Locals
  <2> QED
    BY <1>2, <2>2 DEF y, p
<1>3. CASE ~Present(v)
  <2>1. y = [x EXCEPT !.missing = m]
    BY <1>3 DEF AddMinMax
  <2> HIDE DEF y, m
  <2>2. y \in Locals /\ y.idx = x.idx /\ y.out = x.out /\ y.count = x.count
        /\ y.best = x.best /\ y.missing = m
    BY <1>1, <2>1 DEF Locals
  <2> QED
    BY <1>3, <2>2 DEF y, m, AddMissing
<1> QED
  BY <1>2, <1>3

\* minmax: body lane by lane, then tail; the missing values are counted once.
LEMMA MinMaxChunk ==
    ASSUME JobOK(job), job.kernel = "minmax",
           NEW s \in Seq(Elems(job)), NEW c \in Seq(Elems(job)), NEW a \in Locals,
           Summary(job, pass, a, s)
    PROVE  LET b == FoldLeft(AddMinMax, MinMaxLanes(a, c), Of(c, Tail_(c)))
           IN  b \in Locals /\ Summary(job, pass, b, s \o c)
<1> DEFINE q == Of(c, Tail_(c))
           B == Body(c)
           U == {Identity(job)} \union Values(s)
           seen(k) == {v \in {c[i] : i \in 1 .. B + k} : Present(v)}
           N(k) == IF Len(c) < Lanes THEN MissingIn(s \o SubSeq(c, 1, k)) ELSE MissingIn(s \o c)
           Good(x, k) == /\ Unused(job, x) /\ x.missing = N(k)
                         /\ IsBest(job.find_min, x.best, U \union seen(k))
           I == [k \in 0..Len(q) |-> {x \in Locals : Good(x, k)}]
           a0 == MinMaxLanes(a, c)
<1>1. s \in Seq(Int) /\ c \in Seq(Int) /\ Elems(job) \subseteq Int
  BY JobHas, Plain
<1>2. /\ q \in Seq(Int) /\ Len(q) = Len(c) - B /\ \A k \in 1 .. Len(c) - B : q[k] = c[B + k]
      /\ Len(c) - B \in Nat
  BY <1>1, TailIs
<1>3. Len(c) \in Nat /\ B \in 0..Len(c) /\ (Len(c) < Lanes => B = 0)
      /\ DOMAIN c = 1..Len(c) /\ \A i \in 1..Len(c) : c[i] \in Int
  BY <1>1, RowsAre
<1> HIDE DEF q
<1>4. U \in SUBSET Int
  <2>1. Identity(job) \in Int
    BY Numbers DEF Identity
  <2>2. Values(s) \subseteq Int
    BY <1>1 DEF Values, Indices
  <2> QED
    BY <2>1, <2>2
<1>5. /\ a0 \in Locals /\ Unused(job, a0)
      /\ a0.missing = IF Len(c) < Lanes THEN MissingIn(s) ELSE MissingIn(s \o c)
      /\ IsBest(job.find_min, a0.best,
                U \union {v \in {c[i] : i \in 1..B} : Present(v)})
  BY MinMaxLanesIs
<1> HIDE DEF a0, B
<1>6. a0 \in I[0]
  <2>1. 1 .. B + 0 = 1..B
    BY <1>3
  <2>2. seen(0) = {v \in {c[i] : i \in 1..B} : Present(v)}
    BY <2>1
  <2>3. N(0) = IF Len(c) < Lanes THEN MissingIn(s) ELSE MissingIn(s \o c)
    BY <1>1, Prefixed
  <2> HIDE DEF U, seen, N
  <2>4. Good(a0, 0)
    BY <1>5, <2>2, <2>3
  <2> QED
    BY <1>2, <1>5, <2>4
<1>7. ASSUME NEW k \in 1..Len(q)
      PROVE  /\ q[k] \in Int /\ q[k] = c[B + k] /\ B + k \in 1..Len(c)
             /\ N(k - 1) \in MissingKinds
             /\ N(k) = combineRealMissing(N(k - 1), realMissing(q[k]))
             /\ seen(k) = seen(k - 1) \union (IF Present(q[k]) THEN {q[k]} ELSE {})
  <2>1. B + k \in 1..Len(c) /\ q[k] = c[B + k] /\ q[k] \in Int /\ k \in Int
    BY <1>2, <1>3
  <2>2. seen(k) = seen(k - 1) \union (IF Present(q[k]) THEN {q[k]} ELSE {})
    <3>1. 1 .. B + k = (1 .. B + (k - 1)) \union {B + k}
      <4>1. B \in Nat /\ k \in Nat /\ k >= 1
        BY <1>3, <2>1
      <4>2. \A i \in Int : i <= B + k <=> i <= B + (k - 1) \/ i = B + k
        BY <4>1
      <4> QED
        BY <4>1, <4>2
    <3> QED
      BY <2>1, <3>1
  <2>3. N(k - 1) \in MissingKinds
    BY ValuesAre
  <2>4. N(k) = combineRealMissing(N(k - 1), realMissing(q[k]))
    <3>1. CASE Len(c) < Lanes
      <4>1. B = 0 /\ k \in 1..Len(c) /\ q[k] = c[k]
        BY <1>3, <2>1, <3>1
      <4> DEFINE x == s \o SubSeq(c, 1, k - 1)
      <4>2. s \o SubSeq(c, 1, k) = Append(x, c[k]) /\ x \in Seq(Int)
        BY <1>1, <4>1, OneMore
      <4> HIDE DEF x
      <4>3. MissingIn(Append(x, c[k])) = combineRealMissing(MissingIn(x), realMissing(c[k]))
        BY <2>1, <4>1, <4>2, AppendedRange
      <4> QED
        BY <3>1, <4>1, <4>2, <4>3 DEF x
    <3>2. CASE ~(Len(c) < Lanes)
      <4>1. q[k] \in Range(c)
        BY <1>3, <2>1 DEF Range
      <4>2. q[k] \in Range(s \o c)
        BY <4>1, JoinedRange
      <4>3. N(k) = MissingIn(s \o c) /\ N(k - 1) = MissingIn(s \o c)
        BY <3>2
      <4>4. MissingIn(s \o c) \in MissingKinds
        BY ValuesAre
      <4> HIDE DEF N
      <4> QED
        BY <4>2, <4>3, <4>4, Combined
    <3> QED
      BY <3>1, <3>2
  <2> QED
    BY <2>1, <2>2, <2>3, <2>4
<1> HIDE DEF N
<1>8. \A k \in 0..Len(q) : seen(k) \in SUBSET Int
  BY <1>2, <1>3
<1> HIDE DEF seen, U
<1>9. ASSUME NEW k \in 1..Len(q), NEW x \in Locals, x \in I[k - 1]
      PROVE  AddMinMax(x, q[k]) \in I[k]
  <2>1. k \in 0..Len(q) /\ k - 1 \in 0..Len(q)
    BY <1>2
  <2>2. Good(x, k - 1)
    BY <1>9, <2>1
  <2> DEFINE v == q[k]
             y == AddMinMax(x, v)
             T == U \union seen(k - 1)
  <2>3. v \in Int
    BY <1>7
  <2>4. T \in SUBSET Int /\ IsBest(job.find_min, x.best, T)
    BY <1>4, <1>8, <2>1, <2>2
  <2>5. N(k) = combineRealMissing(N(k - 1), realMissing(v)) /\ N(k - 1) \in MissingKinds
    BY <1>7
  <2>6. seen(k) = seen(k - 1) \union (IF Present(v) THEN {v} ELSE {})
    BY <1>7
  <2> HIDE DEF v
  <2>7. /\ y \in Locals /\ y.idx = x.idx /\ y.out = x.out /\ y.count = x.count
        /\ Present(v) => y.best = Pick(x.best, v) /\ y.missing = x.missing
        /\ ~Present(v) => /\ y.best = x.best
                          /\ y.missing = combineRealMissing(x.missing, realMissing(v))
    BY <2>3, AddMinMaxIs
  <2> HIDE DEF y
  <2>8. Unused(job, y)
    BY <2>2, <2>7 DEF Unused
  <2>9. CASE Present(v)
    <3>1. realMissing(v) = "none" /\ N(k) = N(k - 1)
      BY <2>5, <2>9, Combined
    <3>2. U \union seen(k) = T \union {v}
      BY <2>6, <2>9
    <3> HIDE DEF T
    <3>3. IsBest(job.find_min, y.best, T \union {v})
      BY <2>3, <2>4, <2>7, <2>9, PickBest
    <3>4. Good(y, k)
      BY <2>2, <2>7, <2>8, <2>9, <3>1, <3>2, <3>3
    <3> QED
      BY <2>1, <2>7, <3>4 DEF y, v
  <2>10. CASE ~Present(v)
    <3>1. U \union seen(k) = T
      BY <2>6, <2>10
    <3> HIDE DEF T
    <3>2. Good(y, k)
      BY <2>2, <2>4, <2>5, <2>7, <2>8, <2>10, <3>1
    <3> QED
      BY <2>1, <2>7, <3>2 DEF y, v
  <2> QED
    BY <2>9, <2>10
<1> HIDE DEF I
<1> DEFINE b == FoldLeft(AddMinMax, a0, q)
<1>10. b \in Locals /\ b \in I[Len(q)]
  BY <1>2, <1>5, <1>6, <1>9, AddMinMaxFold
<1> HIDE DEF b
<1>11. Good(b, Len(q))
  <2>1. Len(q) \in 0..Len(q)
    BY <1>2
  <2> QED
    BY <1>10, <2>1 DEF I
<1>12. N(Len(q)) = MissingIn(s \o c)
  <2>1. Len(c) < Lanes => Len(q) = Len(c)
    BY <1>2, <1>3
  <2>2. s \o SubSeq(c, 1, Len(c)) = s \o c
    BY Prefixed
  <2> QED
    BY <2>1, <2>2 DEF N
<1>13. U \union seen(Len(q)) = {Identity(job)} \union Values(s \o c)
  <2>1. 1 .. B + Len(q) = 1..Len(c)
    BY <1>2, <1>3
  <2>2. Range(c) = {c[i] : i \in 1..Len(c)}
    BY <1>3 DEF Range
  <2>3. seen(Len(q)) = Values(c)
    <3>1. Values(c) = {v \in Range(c) : Present(v)}
      BY ValuesAre
    <3> QED
      BY <2>1, <2>2, <3>1 DEF seen
  <2>4. Range(s \o c) = Range(s) \union Range(c)
    BY JoinedRange
  <2>5. Values(s \o c) = Values(s) \union Values(c)
    BY <2>4, ValuesAre
  <2> QED
    BY <2>3, <2>5 DEF U
<1>14. MinMaxSummary(job, b, s \o c) /\ Unused(job, b)
  BY <1>11, <1>12, <1>13 DEF MinMaxSummary
<1>15. Summary(job, pass, b, s \o c)
  BY <1>14 DEF Summary
<1> QED
  BY <1>10, <1>15 DEF b, a0, q

-----------------------------------------------------------------------------
(***************************************************************************)
(* The first of the best: of the lanes, of the tail, of the chunks.         *)
(***************************************************************************)
LEMMA LaterInto ==
    ASSUME NEW d \in Seq(Int), NEW T \in SUBSET (1..Len(d)), NEW x \in Candidates,
           IsFirst(job.find_min, x, d, T), NEW i \in 1..Len(d),
           Present(d[i]) => \A t \in T : t <= i
    PROVE  /\ Later(x, At(d[i], i - 1)) \in Candidates
           /\ IsFirst(job.find_min, Later(x, At(d[i], i - 1)), d,
                      T \union (IF Present(d[i]) THEN {i} ELSE {}))
<1> DEFINE y == At(d[i], i - 1)
<1>1. /\ y \in Candidates /\ y.best = d[i] /\ y.idx = i - 1 /\ y.idx + 1 = i
      /\ i \in Int /\ d[i] \in Int
  BY DEF At, Candidates
<1>2. x.best \in Int /\ x.idx \in Int
  BY DEF Candidates
<1>3. T \subseteq Int /\ \A t \in T : d[t] \in Int
  OBVIOUS
<1> HIDE DEF y
<1>4. CASE ~Present(d[i])
  BY <1>1, <1>4 DEF Later, y
<1>5. CASE Present(d[i]) /\ Better(d[i], x.best)
  <2>1. Later(x, y) = y
    BY <1>1, <1>5 DEF Later
  <2>2. IsFirst(job.find_min, y, d, T \union {i})
    <3>1. ASSUME NEW t \in T \union {i}
          PROVE  /\ IF job.find_min THEN y.best <= d[t] ELSE y.best >= d[t]
                 /\ d[t] = y.best => y.idx + 1 <= t
      <4>1. CASE t = i
        BY <1>1, <4>1
      <4>2. CASE t \in T
        <5>1. IF job.find_min THEN x.best <= d[t] ELSE x.best >= d[t]
          BY <4>2 DEF IsFirst
        <5>2. IF job.find_min THEN y.best < d[t] ELSE y.best > d[t]
          BY <1>1, <1>2, <1>3, <1>5, <4>2, <5>1 DEF Better
        <5> QED
          BY <1>1, <1>3, <4>2, <5>2
      <4> QED
        BY <4>1, <4>2
    <3> QED
      BY <1>1, <3>1 DEF IsFirst
  <2> QED
    BY <1>1, <1>5, <2>1, <2>2 DEF y
<1>6. CASE Present(d[i]) /\ ~Better(d[i], x.best)
  <2>1. Later(x, y) = x
    BY <1>1, <1>6 DEF Later
  <2>2. IsFirst(job.find_min, x, d, T \union {i})
    <3>1. x.idx + 1 \in T /\ x.idx + 1 <= i
      BY <1>6 DEF IsFirst
    <3>2. IF job.find_min THEN x.best <= d[i] ELSE x.best >= d[i]
      BY <1>1, <1>2, <1>6 DEF Better
    <3> QED
      BY <3>1, <3>2 DEF IsFirst
  <2> QED
    BY <1>6, <2>1, <2>2 DEF y
<1> QED
  BY <1>4, <1>5, <1>6

\* Of two firsts, the one combineCandidate keeps is the first of both sets: of
\* equal values the one of the lower index, whichever lane found it.
LEMMA SoonerInto ==
    ASSUME NEW d \in Seq(Int), NEW T \in SUBSET (1..Len(d)), NEW U \in SUBSET (1..Len(d)),
           NEW x \in Candidates, NEW y \in Candidates,
           IsFirst(job.find_min, x, d, T), IsFirst(job.find_min, y, d, U)
    PROVE  /\ Sooner(x, y) \in Candidates
           /\ IsFirst(job.find_min, Sooner(x, y), d, T \union U)
<1>1. x.best \in Int /\ x.idx \in Int /\ y.best \in Int /\ y.idx \in Int
  BY DEF Candidates
<1>2. \A t \in T \union U : d[t] \in Int /\ t \in Int
  OBVIOUS
<1> DEFINE Ahead(z, t) == /\ IF job.find_min THEN z.best <= d[t] ELSE z.best >= d[t]
                          /\ d[t] = z.best => z.idx + 1 <= t
<1>3. /\ x.idx + 1 \in T /\ x.best = d[x.idx + 1] /\ \A t \in T : Ahead(x, t)
      /\ y.idx + 1 \in U /\ y.best = d[y.idx + 1] /\ \A t \in U : Ahead(y, t)
  BY DEF IsFirst
<1>4. CASE Sooner(x, y) = y /\ (Better(y.best, x.best) \/ (y.best = x.best /\ y.idx < x.idx))
  <2>1. ASSUME NEW t \in T PROVE Ahead(y, t)
    <3>1. Ahead(x, t) /\ d[t] \in Int /\ t \in Int
      BY <1>2, <1>3
    <3> QED
      BY <1>1, <1>4, <3>1 DEF Better
  <2>2. \A t \in T \union U : Ahead(y, t)
    BY <1>3, <2>1
  <2> QED
    BY <1>3, <1>4, <2>2 DEF IsFirst
<1>5. CASE Sooner(x, y) = x /\ ~Better(y.best, x.best) /\ ~(y.best = x.best /\ y.idx < x.idx)
  <2>1. ASSUME NEW t \in U PROVE Ahead(x, t)
    <3>1. Ahead(y, t) /\ d[t] \in Int /\ t \in Int
      BY <1>2, <1>3
    <3> QED
      BY <1>1, <1>5, <3>1 DEF Better
  <2>2. \A t \in T \union U : Ahead(x, t)
    BY <1>3, <2>1
  <2> QED
    BY <1>3, <1>5, <2>2 DEF IsFirst
<1> QED
  BY <1>4, <1>5 DEF Sooner

\* q are elements of d at rising places, none of the present ones before T.
Rising(d, T, q, P) ==
    /\ \A k \in 1..Len(q) : /\ P[k] \in 1..Len(d) /\ q[k] = At(d[P[k]], P[k] - 1)
                            /\ Present(d[P[k]]) => \A t \in T : t <= P[k]
    /\ \A k, l \in 1..Len(q) : k < l => P[k] <= P[l]

\* q are the firsts of the places T.
Firsts(least, d, q, T) ==
    \A k \in 1..Len(q) : T[k] \in SUBSET (1..Len(d)) /\ IsFirst(least, q[k], d, T[k])

\* The places T and the present ones of q; the places of several.
With(d, T, q, P) == T \union {i \in {P[k] : k \in 1..Len(q)} : Present(d[i])}
Together(T0, q, T) == T0 \union UNION {T[k] : k \in 1..Len(q)}

\* A lane reads its places in order, so a later value must be better.
LEMMA LaterIs ==
    ASSUME NEW d \in Seq(Int), NEW T \in SUBSET (1..Len(d)), NEW x \in Candidates,
           IsFirst(job.find_min, x, d, T),
           NEW q \in Seq(Candidates), NEW P, Rising(d, T, q, P)
    PROVE  /\ FoldLeft(Later, x, q) \in Candidates
           /\ IsFirst(job.find_min, FoldLeft(Later, x, q), d, With(d, T, q, P))
<1> DEFINE seen(k) == T \union {i \in {P[l] : l \in 1..k} : Present(d[i])}
           I == [k \in 0..Len(q) |-> {z \in Candidates : IsFirst(job.find_min, z, d, seen(k))}]
<1>0. /\ \A k \in 1..Len(q) : /\ P[k] \in 1..Len(d) /\ q[k] = At(d[P[k]], P[k] - 1)
                              /\ Present(d[P[k]]) => \A t \in T : t <= P[k]
      /\ \A k, l \in 1..Len(q) : k < l => P[k] <= P[l]
  BY DEF Rising
<1>1. Len(q) \in Nat /\ \A k \in 1..Len(q) : k \in 0..Len(q) /\ k - 1 \in 0..Len(q) /\ k \in Nat
  OBVIOUS
<1>2. x \in I[0]
  <2>1. seen(0) = T
    OBVIOUS
  <2> HIDE DEF seen
  <2> QED
    BY <1>1, <2>1
<1>3. ASSUME NEW k \in 1..Len(q), NEW z \in Candidates, z \in I[k - 1]
      PROVE  Later(z, q[k]) \in I[k]
  <2>1. IsFirst(job.find_min, z, d, seen(k - 1))
    BY <1>1, <1>3
  <2> DEFINE i == P[k]
  <2>2. i \in 1..Len(d) /\ q[k] = At(d[i], i - 1)
    BY <1>0
  <2>3. \A l \in 1..(k - 1) : l \in 1..Len(q) /\ l < k
    BY <1>1
  <2>4. seen(k - 1) \in SUBSET (1..Len(d))
    BY <1>0, <2>3
  <2>5. Present(d[i]) => \A t \in seen(k - 1) : t <= i
    BY <1>0, <2>3
  <2>6. seen(k) = seen(k - 1) \union (IF Present(d[i]) THEN {i} ELSE {})
    <3>1. 1..k = 1..(k - 1) \union {k}
      BY <1>1
    <3> QED
      BY <3>1
  <2> HIDE DEF seen, i
  <2>7. /\ Later(z, At(d[i], i - 1)) \in Candidates
        /\ IsFirst(job.find_min, Later(z, At(d[i], i - 1)), d,
                   seen(k - 1) \union (IF Present(d[i]) THEN {i} ELSE {}))
    BY <2>1, <2>2, <2>4, <2>5, LaterInto
  <2>8. Later(z, q[k]) \in Candidates /\ IsFirst(job.find_min, Later(z, q[k]), d, seen(k))
    BY <2>2, <2>6, <2>7
  <2> QED
    BY <1>1, <2>8
<1> HIDE DEF I
<1>4. FoldLeft(Later, x, q) \in Candidates /\ FoldLeft(Later, x, q) \in I[Len(q)]
  BY <1>2, <1>3, LaterFold
<1>5. Len(q) \in 0..Len(q)
  BY <1>1
<1>6. IsFirst(job.find_min, FoldLeft(Later, x, q), d, seen(Len(q)))
  BY <1>4, <1>5 DEF I
<1> QED
  BY <1>4, <1>6 DEF With

\* The lanes combined are the first of all their places.
LEMMA SoonerIs ==
    ASSUME NEW d \in Seq(Int), NEW T0 \in SUBSET (1..Len(d)), NEW x \in Candidates,
           IsFirst(job.find_min, x, d, T0), NEW q \in Seq(Candidates), NEW T,
           Firsts(job.find_min, d, q, T)
    PROVE  /\ FoldLeft(Sooner, x, q) \in Candidates
           /\ IsFirst(job.find_min, FoldLeft(Sooner, x, q), d, Together(T0, q, T))
<1> DEFINE seen(k) == T0 \union UNION {T[l] : l \in 1..k}
           I == [k \in 0..Len(q) |-> {z \in Candidates : IsFirst(job.find_min, z, d, seen(k))}]
<1>1. Len(q) \in Nat /\ \A k \in 1..Len(q) : k \in 0..Len(q) /\ k - 1 \in 0..Len(q) /\ k \in Nat
  OBVIOUS
<1>2. x \in I[0]
  <2>1. seen(0) = T0
    OBVIOUS
  <2> HIDE DEF seen
  <2> QED
    BY <1>1, <2>1
<1>3. ASSUME NEW k \in 1..Len(q), NEW z \in Candidates, z \in I[k - 1]
      PROVE  Sooner(z, q[k]) \in I[k]
  <2>1. IsFirst(job.find_min, z, d, seen(k - 1))
    BY <1>1, <1>3
  <2>2. q[k] \in Candidates
    OBVIOUS
  <2>3. \A l \in 1..(k - 1) : l \in 1..Len(q)
    BY <1>1
  <2>4. seen(k - 1) \in SUBSET (1..Len(d))
    BY <2>3 DEF Firsts
  <2>5. T[k] \in SUBSET (1..Len(d)) /\ IsFirst(job.find_min, q[k], d, T[k])
    BY DEF Firsts
  <2>6. seen(k) = seen(k - 1) \union T[k]
    <3>1. 1..k = 1..(k - 1) \union {k}
      BY <1>1
    <3> QED
      BY <3>1
  <2> HIDE DEF seen
  <2>7. /\ Sooner(z, q[k]) \in Candidates
        /\ IsFirst(job.find_min, Sooner(z, q[k]), d, seen(k - 1) \union T[k])
    BY <2>1, <2>2, <2>4, <2>5, SoonerInto
  <2> QED
    BY <1>1, <2>6, <2>7
<1> HIDE DEF I
<1>4. FoldLeft(Sooner, x, q) \in Candidates /\ FoldLeft(Sooner, x, q) \in I[Len(q)]
  BY <1>2, <1>3, SoonerFold
<1>5. Len(q) \in 0..Len(q)
  BY <1>1
<1>6. IsFirst(job.find_min, FoldLeft(Sooner, x, q), d, seen(Len(q)))
  BY <1>4, <1>5 DEF I
<1> QED
  BY <1>4, <1>6 DEF Together

\* The first best of a chunk: first index, lanes, combined lanes, tail.
LEMMA BestOfChunkIs ==
    ASSUME NEW s \in Seq(Int), NEW c \in Seq(Int), offset = Len(s), Indices(c) # {}
    PROVE  /\ BestOfChunk(c) \in Candidates
           /\ IsFirst(job.find_min, BestOfChunk(c), s \o c, {offset + i : i \in Indices(c)})
<1> DEFINE d == s \o c
           m == Len(s)
           at == [i \in DOMAIN c |-> At(c[i], offset + i - 1)]
           f == Min({i \in DOMAIN c : Present(c[i])})
           first == at[f]
           l == [j \in 1..Lanes |-> FoldLeft(Later, first, Of(at, Lane(c, j)))]
           mid == FoldLeft(Sooner, l[1], l)
           B == Body(c)
           F == {m + f}
           laneT(j) == F \union {i \in {m + Place(k, j) : k \in 1..Rows(c)} : Present(d[i])}
           T1 == laneT(1) \union UNION {laneT(j) : j \in 1..Lanes}
           All == {m + i : i \in Indices(c)}
<1>later. ASSUME NEW e \in Seq(Int)
          PROVE  \A T \in SUBSET (1..Len(e)), x \in Candidates, w \in Seq(Candidates) : \A Z :
                    IsFirst(job.find_min, x, e, T) /\ Rising(e, T, w, Z)
                    => /\ FoldLeft(Later, x, w) \in Candidates
                       /\ IsFirst(job.find_min, FoldLeft(Later, x, w), e, With(e, T, w, Z))
  BY LaterIs
<1>sooner. ASSUME NEW e \in Seq(Int)
           PROVE  \A T0 \in SUBSET (1..Len(e)), x \in Candidates, w \in Seq(Candidates) : \A T :
                     IsFirst(job.find_min, x, e, T0) /\ Firsts(job.find_min, e, w, T)
                     => /\ FoldLeft(Sooner, x, w) \in Candidates
                        /\ IsFirst(job.find_min, FoldLeft(Sooner, x, w), e, Together(T0, w, T))
  BY SoonerIs
<1>0. Lanes \in Nat /\ Lanes # 0
  BY ReductionsAssumption
<1>1. /\ d \in Seq(Int) /\ Len(d) = m + Len(c) /\ m \in Nat /\ Len(c) \in Nat
      /\ DOMAIN c = 1..Len(c) /\ \A i \in 1..Len(c) : c[i] \in Int
  BY Joined
<1>2. \A i \in 1..Len(c) : d[m + i] = c[i]
  BY Joined
<1>3. Rows(c) \in Nat /\ B \in 0..Len(c)
  BY <1>1, RowsAre
<1> HIDE DEF d, B
<1>4. f \in 1..Len(c) /\ Present(c[f]) /\ \A i \in 1..Len(c) : Present(c[i]) => f <= i
  <2> DEFINE S == {i \in DOMAIN c : Present(c[i])}
  <2>1. S \subseteq Nat /\ S # {}
    BY <1>1 DEF Indices
  <2>2. f = Min(S)
    OBVIOUS
  <2> HIDE DEF S, f
  <2>3. f \in S /\ \A i \in S : f <= i
    BY <2>1, <2>2, Least
  <2> QED
    BY <1>1, <2>3 DEF S
<1>5. ASSUME NEW i \in 1..Len(c)
      PROVE  /\ at[i] = At(d[m + i], (m + i) - 1) /\ at[i] \in Candidates
             /\ m + i \in 1..Len(d)
  <2>1. offset + i - 1 = (m + i) - 1 /\ (m + i) - 1 \in Int /\ m + i \in 1..Len(d)
    BY <1>1
  <2>2. at[i] = At(c[i], offset + i - 1)
    BY <1>1
  <2>3. At(c[i], (m + i) - 1) \in Candidates
    BY <1>1, <2>1 DEF At, Candidates
  <2> QED
    BY <1>2, <2>1, <2>2, <2>3
<1>6. at \in Seq(Candidates) /\ Len(at) = Len(c)
  <2>1. at \in [1..Len(c) -> Candidates]
    BY <1>1, <1>5
  <2>2. at \in Seq(Candidates)
    BY <1>1, <2>1, SeqDef
  <2> HIDE DEF at
  <2> QED
    BY <1>1, <2>1, <2>2
<1> HIDE DEF at, f
<1>7. /\ first \in Candidates /\ IsFirst(job.find_min, first, d, F)
      /\ F \in SUBSET (1..Len(d))
  <2>1. first = At(d[m + f], (m + f) - 1) /\ first \in Candidates /\ m + f \in 1..Len(d)
    BY <1>4, <1>5
  <2> DEFINE i == m + f
  <2>2. i \in Int /\ d[i] \in Int
    BY <1>1, <2>1
  <2> HIDE DEF i
  <2>3. first.best = d[i] /\ first.idx + 1 = i
    BY <2>1, <2>2 DEF At, i
  <2> HIDE DEF first
  <2> QED
    BY <2>1, <2>2, <2>3 DEF IsFirst, i
<1> HIDE DEF first
<1>8. ASSUME NEW j \in 1..Lanes
      PROVE  /\ l[j] \in Candidates /\ IsFirst(job.find_min, l[j], d, laneT(j))
             /\ laneT(j) \in SUBSET (1..Len(d))
  <2> DEFINE q == Of(at, Lane(c, j))
             P == [k \in 1..Rows(c) |-> m + Place(k, j)]
  <2>1. \A k \in 1..Rows(c) : Place(k, j) \in 1..Len(c)
    BY <1>1, PlacesAre
  <2>2. Lane(c, j) = Lane(at, j) /\ Rows(at) = Rows(c)
    BY <1>6 DEF Lane, Body, Rows
  <2>3. q \in Seq(Candidates) /\ Len(q) = Rows(c) /\ \A k \in 1..Rows(c) : q[k] = at[Place(k, j)]
    <3>1. /\ Of(at, Lane(at, j)) \in Seq(Candidates) /\ Len(Of(at, Lane(at, j))) = Rows(at)
          /\ \A k \in 1..Rows(at) : Of(at, Lane(at, j))[k] = at[Place(k, j)]
      BY <1>6, LaneIs
    <3> QED
      BY <2>2, <3>1
  <2> HIDE DEF q
  <2>4. ASSUME NEW k \in 1..Len(q)
        PROVE  /\ P[k] \in 1..Len(d) /\ q[k] = At(d[P[k]], P[k] - 1)
               /\ Present(d[P[k]]) => \A t \in F : t <= P[k]
    <3> DEFINE i == Place(k, j)
    <3>1. i \in 1..Len(c) /\ P[k] = m + i /\ q[k] = at[i]
      BY <2>1, <2>3
    <3> HIDE DEF i
    <3>2. Present(d[m + i]) => m + f <= m + i
      BY <1>1, <1>2, <1>4, <3>1
    <3> QED
      BY <1>5, <3>1, <3>2
  <2>5. ASSUME NEW k \in 1..Len(q), NEW h \in 1..Len(q), k < h PROVE P[k] <= P[h]
    <3>1. k \in Nat /\ h \in Nat /\ k \in 1..Rows(c) /\ h \in 1..Rows(c)
      BY <1>3, <2>3
    <3>2. (k - 1) * Lanes <= (h - 1) * Lanes
      BY <1>0, <2>5, <3>1
    <3>3. Place(k, j) <= Place(h, j) /\ Place(k, j) \in Int /\ Place(h, j) \in Int
      <4>1. (k - 1) * Lanes \in Int /\ (h - 1) * Lanes \in Int
        BY <1>0, <3>1
      <4> QED
        BY <3>2, <4>1 DEF Place
    <3> QED
      BY <1>1, <3>1, <3>3
  <2>6. {P[k] : k \in 1..Len(q)} = {m + Place(k, j) : k \in 1..Rows(c)}
    BY <2>3
  <2> HIDE DEF P
  <2>7. /\ FoldLeft(Later, first, q) \in Candidates
        /\ IsFirst(job.find_min, FoldLeft(Later, first, q), d, With(d, F, q, P))
    <3>1. Rising(d, F, q, P)
      BY <2>4, <2>5 DEF Rising
    <3> HIDE DEF F, first
    <3>2. \A Z : IsFirst(job.find_min, first, d, F) /\ Rising(d, F, q, Z)
                  => /\ FoldLeft(Later, first, q) \in Candidates
                     /\ IsFirst(job.find_min, FoldLeft(Later, first, q), d, With(d, F, q, Z))
      BY <1>1, <1>7, <2>3, <1>later
    <3> QED
      BY <1>7, <3>1, <3>2
  <2>8. laneT(j) \in SUBSET (1..Len(d))
    BY <1>1, <1>7, <2>1
  <2>9. With(d, F, q, P) = laneT(j)
    BY <2>6 DEF With
  <2> QED
    BY <2>7, <2>8, <2>9 DEF q
<1>9. l \in Seq(Candidates) /\ Len(l) = Lanes
  <2>1. l \in [1..Lanes -> Candidates]
    BY <1>8
  <2>2. l \in Seq(Candidates)
    BY <1>0, <2>1, SeqDef
  <2> HIDE DEF l
  <2> QED
    BY <1>0, <2>1, <2>2
<1>10. 1 \in 1..Lanes
  BY <1>0
<1> HIDE DEF l
<1>11. mid \in Candidates /\ IsFirst(job.find_min, mid, d, T1) /\ T1 \in SUBSET (1..Len(d))
  <2> DEFINE T == [j \in 1..Lanes |-> laneT(j)]
  <2>1. \A k \in 1..Len(l) : T[k] \in SUBSET (1..Len(d)) /\ IsFirst(job.find_min, l[k], d, T[k])
    BY <1>8, <1>9
  <2>2. UNION {T[k] : k \in 1..Len(l)} = UNION {laneT(j) : j \in 1..Lanes}
    BY <1>9
  <2>3. l[1] \in Candidates /\ IsFirst(job.find_min, l[1], d, laneT(1))
        /\ laneT(1) \in SUBSET (1..Len(d))
    BY <1>8, <1>10
  <2> HIDE DEF T, laneT
  <2>4. /\ mid \in Candidates
        /\ IsFirst(job.find_min, mid, d, Together(laneT(1), l, T))
    <3>1. Firsts(job.find_min, d, l, T)
      BY <2>1 DEF Firsts
    <3>2. mid = FoldLeft(Sooner, l[1], l)
      OBVIOUS
    <3>3. d \in Seq(Int) /\ l \in Seq(Candidates)
      BY <1>1, <1>9
    <3> HIDE DEF mid
    <3> QED
      BY <2>3, <3>1, <3>2, <3>3, <1>sooner
  <2>5. T1 \in SUBSET (1..Len(d))
    BY <1>8, <1>10
  <2>6. Together(laneT(1), l, T) = T1
    BY <2>2 DEF Together
  <2> QED
    BY <2>4, <2>5, <2>6
<1>12. T1 = F \union {i \in {m + k : k \in 1..B} : Present(d[i])}
  <2>1. ASSUME NEW j \in 1..Lanes, NEW k \in 1..Rows(c) PROVE Place(k, j) \in 1..B
    BY <1>1, PlacesAre DEF B
  <2>2. ASSUME NEW i \in 1..B PROVE \E j \in 1..Lanes, k \in 1..Rows(c) : i = Place(k, j)
    BY <1>1, PlacesCover DEF B
  <2>3. ASSUME NEW j \in 1..Lanes
        PROVE  laneT(j) \subseteq F \union {i \in {m + k : k \in 1..B} : Present(d[i])}
    BY <2>1
  <2>4. ASSUME NEW k \in 1..B, Present(d[m + k]) PROVE \E j \in 1..Lanes : m + k \in laneT(j)
    <3>1. PICK j \in 1..Lanes, h \in 1..Rows(c) : k = Place(h, j)
      BY <2>2
    <3> QED
      BY <2>4, <3>1
  <2>5. F \subseteq laneT(1)
    OBVIOUS
  <2> HIDE DEF laneT, F
  <2> QED
    BY <1>10, <2>3, <2>4, <2>5
<1> HIDE DEF T1, mid
<1> DEFINE q == Of(at, Tail_(c))
           P == [k \in 1 .. Len(c) - B |-> m + (B + k)]
<1>13. q \in Seq(Candidates) /\ Len(q) = Len(c) - B /\ Len(c) - B \in Nat
       /\ \A k \in 1 .. Len(c) - B : q[k] = at[B + k]
  <2>1. Tail_(c) = Tail_(at) /\ Body(at) = B
    BY <1>6 DEF Tail_, Body, B
  <2> QED
    BY <1>6, <2>1, TailIs
<1> HIDE DEF q
<1>14. ASSUME NEW k \in 1..Len(q)
       PROVE  /\ P[k] \in 1..Len(d) /\ q[k] = At(d[P[k]], P[k] - 1)
              /\ Present(d[P[k]]) => \A t \in T1 : t <= P[k]
  <2> DEFINE i == B + k
  <2>1. i \in 1..Len(c) /\ P[k] = m + i /\ q[k] = at[i] /\ k \in Nat /\ B < i
    <3>1. k \in 1 .. Len(c) - B /\ P[k] = m + i /\ q[k] = at[i]
      BY <1>13
    <3>2. k \in Nat /\ B \in Nat /\ k >= 1 /\ k <= Len(c) - B
      BY <1>1, <1>3, <3>1
    <3>3. B + k \in 1..Len(c) /\ B < B + k
      <4>1. Len(c) \in Nat
        BY <1>1
      <4> QED
        BY <3>2, <4>1
    <3> QED
      BY <3>1, <3>2, <3>3
  <2> HIDE DEF i
  <2>2. Present(d[m + i]) => m + f <= m + i
    BY <1>1, <1>2, <1>4, <2>1
  <2>3. \A h \in 1..B : m + h <= m + i
    BY <1>1, <1>3, <2>1
  <2> QED
    BY <1>5, <1>12, <2>1, <2>2, <2>3
<1>15. \A k, h \in 1..Len(q) : k < h => P[k] <= P[h]
  BY <1>1, <1>3, <1>13
<1>16. {P[k] : k \in 1..Len(q)} = {m + (B + k) : k \in 1 .. Len(c) - B}
  BY <1>13
<1> HIDE DEF P
<1>17. /\ FoldLeft(Later, mid, q) \in Candidates
       /\ IsFirst(job.find_min, FoldLeft(Later, mid, q), d, With(d, T1, q, P))
  <2>1. Rising(d, T1, q, P)
    BY <1>14, <1>15 DEF Rising
  <2>2. d \in Seq(Int) /\ q \in Seq(Candidates)
    BY <1>1, <1>13
  <2> QED
    BY <1>11, <2>1, <2>2, <1>later
<1>18. With(d, T1, q, P) = All
  <2>1. m + f \in All
    BY <1>1, <1>4 DEF Indices
  <2>2. \A k \in 1..B : k \in 1..Len(c)
    BY <1>1, <1>3
  <2>3. \A k \in 1 .. Len(c) - B : B + k \in 1..Len(c)
    BY <1>1, <1>3
  <2>4. \A i \in 1..Len(c) : i \in 1..B \/ (i - B \in 1 .. Len(c) - B /\ i = B + (i - B))
    BY <1>1, <1>3
  <2>5. \A i \in 1..Len(c) : Present(d[m + i]) <=> i \in Indices(c)
    BY <1>1, <1>2 DEF Indices
  <2>6. Indices(c) \subseteq 1..Len(c)
    BY <1>1 DEF Indices
  <2>7. \A i \in Indices(c) : m + i \in T1 \union {k \in {P[h] : h \in 1..Len(q)} : Present(d[k])}
    BY <1>12, <1>16, <2>4, <2>5, <2>6
  <2>8. \A i \in T1 \union {k \in {P[h] : h \in 1..Len(q)} : Present(d[k])} : i \in All
    BY <1>12, <1>16, <2>1, <2>2, <2>3, <2>5
  <2> QED
    BY <2>7, <2>8 DEF With
<1>19. BestOfChunk(c) = FoldLeft(Later, mid, q)
  BY DEF BestOfChunk, mid, l, first, f, at, q
<1>20. All = {offset + i : i \in Indices(c)}
  OBVIOUS
<1> HIDE DEF All
<1> QED
  BY <1>17, <1>18, <1>19, <1>20 DEF d

Shifted(m, S) == {m + i : i \in S}

\* A chunk more: the indices that are not missing.
LEMMA IndicesJoined ==
    ASSUME NEW V, NEW s \in Seq(V), NEW c \in Seq(V)
    PROVE  /\ Indices(s \o c) = Indices(s) \union Shifted(Len(s), Indices(c))
           /\ Indices(s) \in SUBSET (1..Len(s \o c)) /\ \A i \in Indices(s) : (s \o c)[i] = s[i]
           /\ Shifted(Len(s), Indices(c)) \in SUBSET (1..Len(s \o c))
<1> DEFINE d == s \o c
           m == Len(s)
<1>1. /\ Len(d) = m + Len(c) /\ m \in Nat /\ Len(c) \in Nat
      /\ DOMAIN d = 1..Len(d) /\ DOMAIN s = 1..m /\ DOMAIN c = 1..Len(c)
      /\ \A i \in 1..m : d[i] = s[i] /\ i \in 1..Len(d)
      /\ \A i \in 1..Len(c) : d[m + i] = c[i] /\ m + i \in 1..Len(d)
  BY Joined
<1> HIDE DEF d, m
<1>2. \A i \in 1..Len(d) : i \in 1..m \/ (i - m \in 1..Len(c) /\ i = m + (i - m))
  BY <1>1
<1>3. \A i \in Indices(s) : i \in Indices(d) /\ d[i] = s[i] /\ i \in 1..Len(d)
  BY <1>1 DEF Indices
<1>4. \A i \in Indices(c) : m + i \in Indices(d) /\ m + i \in 1..Len(d)
  BY <1>1 DEF Indices
<1>5. \A i \in Indices(d) : i \in Indices(s) \/ (i - m \in Indices(c) /\ i = m + (i - m))
  BY <1>1, <1>2 DEF Indices
<1> QED
  BY <1>3, <1>4, <1>5 DEF d, m, Shifted

\* argminmax: the first best of what has been read, a chunk more.
LEMMA AddBestChunk ==
    ASSUME JobOK(job), job.kernel = "argminmax", NEW s \in Seq(Elems(job)),
           NEW c \in Seq(Elems(job)), offset = Len(s), NEW a \in Locals,
           Summary(job, pass, a, s)
    PROVE  AddBest(a, c) \in Locals /\ Summary(job, pass, AddBest(a, c), s \o c)
<1> DEFINE d == s \o c
           local == BestOfChunk(c)
           new == IF a.found THEN Sooner(At(a.best, a.idx), local) ELSE local
           U == {offset + i : i \in Indices(c)}
<1>1. s \in Seq(Int) /\ c \in Seq(Int) /\ d \in Seq(Int)
  <2>1. s \in Seq(Int) /\ c \in Seq(Int)
    BY JobHas, Plain
  <2> QED
    BY <2>1
<1>2. /\ Indices(d) = Indices(s) \union U /\ \A i \in Indices(s) : d[i] = s[i]
      /\ Indices(s) \in SUBSET (1..Len(d)) /\ U \in SUBSET (1..Len(d))
  <2> DEFINE W == Shifted(Len(s), Indices(c))
  <2>1. /\ Indices(d) = Indices(s) \union W /\ \A i \in Indices(s) : d[i] = s[i]
        /\ Indices(s) \in SUBSET (1..Len(d)) /\ W \in SUBSET (1..Len(d))
    BY <1>1, IndicesJoined
  <2>2. W = U
    BY DEF Shifted
  <2> HIDE DEF d, U, W
  <2> QED
    BY <2>1, <2>2
<1>3. FirstSummary(job, a, s) /\ Unused(job, a)
  BY DEF Summary
<1>4. CASE Indices(c) = {}
  <2>1. \A i \in DOMAIN c : ~Present(c[i])
    BY <1>4 DEF Indices
  <2>2. AddBest(a, c) = a
    BY <2>1 DEF AddBest
  <2>3. Indices(d) = Indices(s)
    BY <1>2, <1>4
  <2> HIDE DEF d
  <2>4. FirstSummary(job, a, d)
    BY <1>2, <1>3, <2>3 DEF FirstSummary, IsFirst
  <2>5. Summary(job, pass, a, d)
    BY <1>3, <2>4 DEF Summary
  <2> QED
    BY <2>2, <2>5 DEF d
<1>5. CASE Indices(c) # {}
  <2>1. ~ \A i \in DOMAIN c : ~Present(c[i])
    BY <1>5 DEF Indices
  <2>2. local \in Candidates /\ IsFirst(job.find_min, local, d, U)
    BY <1>1, <1>5, BestOfChunkIs
  <2>3. AddBest(a, c) = [a EXCEPT !.found = TRUE, !.best = new.best, !.idx = new.idx]
    BY <2>1 DEF AddBest
  <2> HIDE DEF local, d, U
  <2>4. new \in Candidates /\ IsFirst(job.find_min, new, d, Indices(d))
    <3>1. CASE a.found
      <4> DEFINE x == At(a.best, a.idx)
      <4>1. x \in Candidates
        BY LocalsHas DEF At, Candidates
      <4>2. IsFirst(job.find_min, x, s, Indices(s))
        BY <1>3, <3>1 DEF FirstSummary
      <4> HIDE DEF x
      <4>3. IsFirst(job.find_min, x, d, Indices(s))
        BY <1>2, <4>2 DEF IsFirst
      <4>4. Sooner(x, local) \in Candidates
            /\ IsFirst(job.find_min, Sooner(x, local), d, Indices(s) \union U)
        BY <1>1, <1>2, <2>2, <4>1, <4>3, SoonerInto DEF d
      <4> QED
        BY <1>2, <3>1, <4>4 DEF x
    <3>2. CASE ~a.found
      <4>1. Indices(s) = {}
        BY <1>3, <3>2 DEF FirstSummary
      <4> QED
        BY <1>2, <2>2, <3>2, <4>1
    <3> QED
      BY <3>1, <3>2
  <2> HIDE DEF new
  <2>5. new.best \in Int /\ new.idx \in Int
    BY <2>4 DEF Candidates
  <2> DEFINE b == [a EXCEPT !.found = TRUE, !.best = new.best, !.idx = new.idx]
  <2>6. /\ b \in Locals /\ b.found = TRUE /\ b.best = new.best /\ b.idx = new.idx
        /\ b.out = a.out /\ b.count = a.count
    BY <2>5 DEF Locals
  <2>7. At(b.best, b.idx) = new
    <3>1. new = [best |-> new.best, idx |-> new.idx]
      BY <2>4 DEF Candidates
    <3> HIDE DEF b
    <3> QED
      BY <2>6, <3>1 DEF At
  <2> HIDE DEF b
  <2>8. Indices(d) # {}
    BY <2>4 DEF IsFirst
  <2>9. FirstSummary(job, b, d)
    BY <2>4, <2>6, <2>7, <2>8 DEF FirstSummary
  <2>10. Unused(job, b)
    BY <1>3, <2>6 DEF Unused
  <2>11. Summary(job, pass, b, d)
    BY <2>9, <2>10 DEF Summary
  <2> QED
    BY <2>3, <2>6, <2>11 DEF b, d
<1> QED
  BY <1>4, <1>5

-----------------------------------------------------------------------------
(***************************************************************************)
(* The summary methods.                                                     *)
(***************************************************************************)
\* e is no better than any of S.
NoBetter(least, e, S) == \A y \in S : IF least THEN y <= e ELSE y >= e

\* The best of values no worse than e is their extreme.
LEMMA BestIsExtreme ==
    ASSUME NEW least \in BOOLEAN, NEW s \in Seq(Int), NEW e \in Int, NEW x,
           NoBetter(least, e, Values(s)), IsBest(least, x, {e} \union Values(s))
    PROVE  x = ExtremeOf(least, s, e)
<1> DEFINE S == Values(s)
<1>1. S \subseteq Int
  BY DEF Values, Indices
<1>2. CASE Indices(s) = {}
  <2>1. S = {}
    BY <1>2, ValuesAre
  <2> HIDE DEF S
  <2> QED
    BY <1>2, <2>1 DEF ExtremeOf, IsBest, S
<1>3. CASE Indices(s) # {}
  <2>1. S # {}
    BY <1>3, ValuesAre
  <2>2. ExtremeOf(least, s, e) = Extreme(least, S)
    BY <1>3 DEF ExtremeOf, Values
  <2>3. \A y \in S : IF least THEN y <= e ELSE y >= e
    BY DEF NoBetter
  <2>4. x \in {e} \union S /\ \A y \in S : IF least THEN x <= y ELSE x >= y
    BY DEF IsBest
  <2> HIDE DEF S
  <2>5. x \in S /\ x \in Int
    <3>1. PICK y \in S : TRUE
      BY <2>1
    <3>2. y \in Int /\ (x = e => x = y)
      BY <1>1, <2>3, <2>4, <3>1
    <3> QED
      BY <1>1, <2>4, <3>1, <3>2
  <2>6. CASE least
    <3>1. Min(S) = x
      BY <1>1, <2>4, <2>5, <2>6, MinIs
    <3> QED
      BY <2>2, <2>6, <3>1 DEF Extreme
  <2>7. CASE ~least
    <3>1. \A y \in S : y <= x
      BY <1>1, <2>4, <2>5, <2>7
    <3>2. Max(S) = x
      BY <1>1, <2>5, <3>1, MaxIs
    <3> QED
      BY <2>2, <2>7, <3>2 DEF Extreme
  <2> QED
    BY <2>6, <2>7
<1> QED
  BY <1>2, <1>3

\* The range of a sequence, by its indices.
LEMMA RangeIs ==
    ASSUME NEW V, NEW s \in Seq(V)
    PROVE  /\ DOMAIN s = 1..Len(s) /\ Len(s) \in Nat /\ Range(s) \subseteq V
           /\ \A i \in 1..Len(s) : s[i] \in V /\ s[i] \in Range(s)
           /\ \A v : v \in Range(s) <=> \E i \in 1..Len(s) : s[i] = v
BY DEF Range

\* One pass of the ALTREP methods finds whether NA and NaN occur.
LEMMA AnyMissing ==
    ASSUME JobOK(job)
    PROVE  /\ AnyNA <=> NA \in Range(job.data)
           /\ AnyNaN <=> NaN \in Range(job.data)
           /\ \A x : WorstOf(job.data, job.na_rm, x) =
                 IF AnyNA /\ ~job.na_rm THEN NA ELSE IF AnyNaN /\ ~job.na_rm THEN NaN ELSE x
<1>1. job.data \in Seq(Int)
  BY JobHas
<1>2. (AnyNA <=> NA \in Range(job.data)) /\ (AnyNaN <=> NaN \in Range(job.data))
  BY <1>1, RangeIs DEF AnyNA, AnyNaN, n
<1> QED
  BY <1>2 DEF WorstOf

\* A total of what is present is the sum of the data.
LEMMA PresentSum ==
    ASSUME JobOK(job)
    PROVE  SumOf(job.data) \in Int /\ FoldLeft(AddPresent, 0, job.data) = SumOf(job.data)
<1> DEFINE d == job.data
           I == [k \in 0..Len(d) |-> {SumOf(SubSeq(d, 1, k))}]
<1>1. d \in Seq(Int)
  BY JobHas
<1> HIDE DEF d
<1>2. Len(d) \in Nat /\ \A k \in 1..Len(d) : k \in 0..Len(d) /\ k - 1 \in 0..Len(d) /\ d[k] \in Int
  BY <1>1
<1>3. SumOf(SubSeq(d, 1, 0)) = 0 /\ SubSeq(d, 1, Len(d)) = d
  BY <1>1, Segment, Nothing
<1>4. 0 \in I[0]
  BY <1>2, <1>3
<1>5. ASSUME NEW k \in 1..Len(d), NEW x \in Int, x \in I[k - 1]
      PROVE  AddPresent(x, d[k]) \in I[k]
  <2> DEFINE w == SubSeq(d, 1, k - 1)
  <2>1. w \in Seq(Int) /\ SubSeq(d, 1, k) = Append(w, d[k])
    BY <1>1, <1>2, Segment
  <2>2. x = SumOf(w)
    BY <1>2, <1>5
  <2> HIDE DEF w
  <2>3. SumOf(Append(w, d[k])) = SumOf(w) + (IF Present(d[k]) THEN d[k] ELSE 0) /\ SumOf(w) \in Int
    BY <1>2, <2>1, SumOfAppended
  <2>4. AddPresent(x, d[k]) = SumOf(SubSeq(d, 1, k))
    <3> DEFINE v == d[k]
               y == SumOf(w)
    <3>1. v \in Int /\ y \in Int /\ x = y
      BY <1>2, <2>2, <2>3
    <3>2. SumOf(SubSeq(d, 1, k)) = y + (IF Present(v) THEN v ELSE 0)
      BY <2>1, <2>3
    <3> HIDE DEF v, y
    <3>3. AddPresent(x, v) = y + (IF Present(v) THEN v ELSE 0)
      BY <3>1 DEF AddPresent
    <3> QED
      BY <3>2, <3>3 DEF v
  <2> QED
    BY <1>2, <2>4
<1> HIDE DEF I
<1>6. FoldLeft(AddPresent, 0, d) \in I[Len(d)] /\ FoldLeft(AddPresent, 0, d) \in Int
  <2>1. 0 \in Int
    OBVIOUS
  <2> QED
    BY <1>1, <1>4, <1>5, <2>1, AddPresentFold
<1>7. FoldLeft(AddPresent, 0, d) = SumOf(d)
  <2>1. Len(d) \in 0..Len(d)
    BY <1>2
  <2>2. I[Len(d)] = {SumOf(SubSeq(d, 1, Len(d)))}
    BY <2>1 DEF I
  <2> QED
    BY <1>3, <1>6, <2>2
<1> QED
  BY <1>6, <1>7 DEF d

\* A total of ones is the number of elements that are not FALSE.
LEMMA NonzeroCount ==
    ASSUME JobOK(job)
    PROVE  /\ Cardinality(Nonzero(job.data)) \in Nat
           /\ FoldLeft(AddNonzero, 0, job.data) = Cardinality(Nonzero(job.data))
<1> DEFINE d == job.data
           I == [k \in 0..Len(d) |-> {Cardinality(Nonzero(SubSeq(d, 1, k)))}]
<1>1. d \in Seq(Int)
  BY JobHas
<1> HIDE DEF d
<1>2. Len(d) \in Nat /\ \A k \in 1..Len(d) : k \in 0..Len(d) /\ k - 1 \in 0..Len(d) /\ d[k] \in Int
  BY <1>1
<1>3. Cardinality(Nonzero(SubSeq(d, 1, 0))) = 0 /\ SubSeq(d, 1, Len(d)) = d
  <2>1. SubSeq(d, 1, 0) = <<>> /\ SubSeq(d, 1, Len(d)) = d
    BY <1>1, Segment
  <2>2. DOMAIN <<>> = {}
    OBVIOUS
  <2>3. Nonzero(<<>>) = {}
    BY <2>2 DEF Nonzero
  <2> QED
    BY <2>1, <2>3, FS_EmptySet
<1>4. 0 \in I[0]
  BY <1>2, <1>3
<1>5. ASSUME NEW k \in 1..Len(d), NEW x \in Int, x \in I[k - 1]
      PROVE  AddNonzero(x, d[k]) \in I[k]
  <2> DEFINE w == SubSeq(d, 1, k - 1)
             y == Cardinality(Nonzero(w))
             v == d[k]
  <2>1. w \in Seq(Int) /\ SubSeq(d, 1, k) = Append(w, v) /\ v \in Int
    BY <1>1, <1>2, Segment
  <2>2. x = y
    BY <1>2, <1>5
  <2>3. /\ Cardinality(Nonzero(Append(w, v))) = y + (IF Present(v) /\ v # 0 THEN 1 ELSE 0)
        /\ y \in Int
    <3> HIDE DEF w, v
    <3> QED
      BY <2>1, NonzeroAppended
  <2> HIDE DEF w, y, v
  <2>4. AddNonzero(x, v) = y + (IF Present(v) /\ v # 0 THEN 1 ELSE 0)
    BY <2>2, <2>3 DEF AddNonzero
  <2>5. AddNonzero(x, v) = Cardinality(Nonzero(SubSeq(d, 1, k)))
    BY <2>1, <2>3, <2>4
  <2> QED
    BY <1>2, <2>5 DEF v
<1> HIDE DEF I
<1>6. FoldLeft(AddNonzero, 0, d) \in I[Len(d)]
  <2>1. 0 \in Int
    OBVIOUS
  <2> QED
    BY <1>1, <1>4, <1>5, <2>1, AddNonzeroFold
<1>7. FoldLeft(AddNonzero, 0, d) = Cardinality(Nonzero(d))
  <2>1. Len(d) \in 0..Len(d)
    BY <1>2
  <2>2. I[Len(d)] = {Cardinality(Nonzero(SubSeq(d, 1, Len(d))))}
    BY <2>1 DEF I
  <2> QED
    BY <1>3, <1>6, <2>2
<1>8. Cardinality(Nonzero(d)) \in Nat
  <2>1. DOMAIN d = 1..Len(d)
    BY <1>1
  <2>2. Nonzero(d) \subseteq 1..Len(d)
    BY <2>1 DEF Nonzero
  <2>3. IsFiniteSet(1..Len(d))
    BY <1>2, FS_Interval
  <2> QED
    BY <2>2, <2>3, FS_Subset, FS_CardinalityType
<1> QED
  BY <1>7, <1>8 DEF d

\* The sum of a double vector is the double of the sum.
LEMMA RealSumIs ==
    ASSUME JobOK(job), job.kernel = "SumReal"
    PROVE  realSum = Reference(job, job.data)
<1> DEFINE x == Double(SumOf(job.data))
<1>1. WorstOf(job.data, job.na_rm, x) =
         IF AnyNA /\ ~job.na_rm THEN NA ELSE IF AnyNaN /\ ~job.na_rm THEN NaN ELSE x
  BY AnyMissing
<1>2. Double(FoldLeft(AddPresent, 0, job.data)) = x
  BY PresentSum
<1> HIDE DEF x
<1>3. realSum = WorstOf(job.data, job.na_rm, x)
  BY <1>1, <1>2 DEF realSum
<1> QED
  BY <1>3 DEF Reference, x

\* The sum of an integer vector is a scalar of the sum, unless an element is missing.
LEMMA IntegerSumIs ==
    ASSUME JobOK(job), job.kernel = "SumInteger"
    PROVE  integerSum = Reference(job, job.data)
<1> DEFINE x == SumOf(job.data)
           y == FoldLeft(AddPresent, 0, job.data)
<1>1. y = x /\ x \in Int
  BY PresentSum
<1>2. Reference(job, job.data) =
         IF NA \in Range(job.data) /\ ~job.na_rm THEN ScalarInteger(NA) ELSE Scalar(x)
  BY DEF Reference
<1>3. integerSum = IF AnyNA /\ ~job.na_rm THEN ScalarInteger(NA)
                   ELSE IF y >= NA /\ y <= IntMax THEN ScalarInteger(y) ELSE ScalarReal(y)
  BY DEF integerSum
<1> HIDE DEF x, y
<1>4. Scalar(x) = IF y >= NA /\ y <= IntMax THEN ScalarInteger(y) ELSE ScalarReal(y)
  <2>1. x \in Ints <=> y >= NA /\ y <= IntMax
    BY <1>1, Numbers, ReductionsAssumption DEF Ints
  <2> QED
    BY <1>1, <2>1 DEF Scalar
<1> QED
  BY <1>2, <1>3, <1>4, AnyMissing

\* The sum of a logical vector is a scalar of the number of its elements that are
\* not FALSE, unless an element is missing.
LEMMA LogicalSumIs ==
    ASSUME JobOK(job), job.kernel = "SumLogical"
    PROVE  logicalSum = Reference(job, job.data)
<1> DEFINE x == Cardinality(Nonzero(job.data))
           y == FoldLeft(AddNonzero, 0, job.data)
<1>1. y = x /\ x \in Nat
  BY NonzeroCount
<1>2. Reference(job, job.data) =
         IF NA \in Range(job.data) /\ ~job.na_rm THEN ScalarLogical(NA) ELSE Scalar(x)
  BY DEF Reference
<1>3. logicalSum = IF AnyNA /\ ~job.na_rm THEN ScalarLogical(NA)
                   ELSE IF y <= IntMax THEN ScalarInteger(y) ELSE ScalarReal(y)
  BY DEF logicalSum
<1> HIDE DEF x, y
<1>4. Scalar(x) = IF y <= IntMax THEN ScalarInteger(y) ELSE ScalarReal(y)
  <2>1. x \in Ints <=> y <= IntMax
    BY <1>1, ReductionsAssumption DEF Ints, NA
  <2> QED
    BY <1>1, <2>1 DEF Scalar
<1> QED
  BY <1>2, <1>3, <1>4, AnyMissing

\* The methods pick the best of the values that are not missing.
LEMMA PickPresentIs ==
    ASSUME NEW c \in Seq(Int), NEW a \in Int
    PROVE  /\ FoldLeft(PickPresent, a, c) \in Int
           /\ IsBest(job.find_min, FoldLeft(PickPresent, a, c), {a} \union Values(c))
<1> DEFINE w(k) == SubSeq(c, 1, k)
           I == [k \in 0..Len(c) |-> {x \in Int : IsBest(job.find_min, x, {a} \union Values(w(k)))}]
<1>1. Len(c) \in Nat /\ \A k \in 1..Len(c) : k \in 0..Len(c) /\ k - 1 \in 0..Len(c) /\ c[k] \in Int
  OBVIOUS
<1>2. /\ Values(w(0)) = {} /\ w(Len(c)) = c
      /\ \A k \in 0..Len(c) : w(k) \in Seq(Int)
      /\ \A k \in 1..Len(c) : w(k) = Append(w(k - 1), c[k])
  BY Segment, Nothing
<1> HIDE DEF w
<1>3. IsBest(job.find_min, a, {a} \union Values(w(0)))
  BY <1>2 DEF IsBest
<1>4. a \in I[0]
  BY <1>1, <1>3
<1>5. ASSUME NEW k \in 1..Len(c), NEW x \in Int, x \in I[k - 1]
      PROVE  PickPresent(x, c[k]) \in I[k]
  <2> DEFINE S == {a} \union Values(w(k - 1))
             v == c[k]
  <2>1. IsBest(job.find_min, x, S) /\ v \in Int
    BY <1>1, <1>5
  <2>2. w(k - 1) \in Seq(Int) /\ w(k) = Append(w(k - 1), v)
    BY <1>1, <1>2
  <2>3. S \in SUBSET Int
    BY <2>2 DEF Values, Indices
  <2>4. Values(w(k)) = Values(w(k - 1)) \union (IF Present(v) THEN {v} ELSE {})
    BY <2>1, <2>2, AppendedIndices
  <2>5. {a} \union Values(w(k)) = S \union (IF Present(v) THEN {v} ELSE {})
    BY <2>4
  <2> HIDE DEF S, v
  <2>6. PickPresent(x, v) \in Int
    BY <2>1, PickPresentType
  <2>7. IsBest(job.find_min, PickPresent(x, v), S \union (IF Present(v) THEN {v} ELSE {}))
    <3>1. CASE Present(v)
      BY <2>1, <2>3, <3>1, PickBest DEF PickPresent
    <3>2. CASE ~Present(v)
      <4>1. PickPresent(x, v) = x /\ S \union (IF Present(v) THEN {v} ELSE {}) = S
        BY <3>2 DEF PickPresent
      <4> QED
        BY <2>1, <4>1
    <3> QED
      BY <3>1, <3>2
  <2>8. IsBest(job.find_min, PickPresent(x, c[k]), {a} \union Values(w(k)))
    BY <2>5, <2>7 DEF v
  <2> QED
    BY <1>1, <2>6, <2>8 DEF v
<1> HIDE DEF I
<1>6. FoldLeft(PickPresent, a, c) \in Int /\ FoldLeft(PickPresent, a, c) \in I[Len(c)]
  BY <1>4, <1>5, PickPresentFold
<1>7. Len(c) \in 0..Len(c)
  BY <1>1
<1> QED
  BY <1>2, <1>6, <1>7 DEF I

\* The present elements of a real vector lie between the infinities.
LEMMA RealBounds ==
    ASSUME NEW s \in Seq(Doubles), NEW least \in BOOLEAN
    PROVE  /\ s \in Seq(Int) /\ Identity([find_min |-> least]) = (IF least THEN Inf ELSE -Inf)
           /\ NoBetter(least, IF least THEN Inf ELSE -Inf, Values(s))
<1>1. /\ Doubles \subseteq Int /\ Inf \in Int
      /\ \A v \in Doubles : Present(v) => v <= Inf /\ v >= -Inf
  <2>1. MaxDouble \in Nat /\ Inf \in Int /\ Inf > 2 * MaxDouble /\ NA \in Int /\ NaN \in Int
    BY ReductionsAssumption, Numbers
  <2>2. \A v \in Finite : v \in Int /\ v <= Inf /\ v >= -Inf
    BY <2>1 DEF Finite
  <2> QED
    BY <2>1, <2>2 DEF Doubles, Present
<1>2. s \in Seq(Int)
  BY <1>1, Plain
<1>3. \A v \in Values(s) : v \in Doubles /\ Present(v)
  BY DEF Values, Indices
<1>4. NoBetter(least, IF least THEN Inf ELSE -Inf, Values(s))
  BY <1>1, <1>3 DEF NoBetter
<1> QED
  BY <1>2, <1>4 DEF Identity

\* Min and Max of a double class return the reference.
LEMMA MinMaxRealIs ==
    ASSUME JobOK(job), job.kernel = "MinMaxReal"
    PROVE  MinMaxReal = Reference(job, job.data)
<1> DEFINE d == job.data
           e == IF job.find_min THEN Inf ELSE -Inf
           x == FoldLeft(PickPresent, e, d)
<1>1. d \in Seq(Doubles) /\ job.find_min \in BOOLEAN
  BY DEF JobOK, Cells
<1>2. d \in Seq(Int) /\ NoBetter(job.find_min, e, Values(d))
  BY <1>1, RealBounds
<1>3. e \in Int
  BY Numbers
<1>4. Worst(-Inf, Inf) = e
  BY DEF Worst
<1> HIDE DEF d, e
<1>5. IsBest(job.find_min, x, {e} \union Values(d))
  BY <1>2, <1>3, PickPresentIs
<1> HIDE DEF x
<1>6. x = ExtremeOf(job.find_min, d, e)
  BY <1>1, <1>2, <1>3, <1>5, BestIsExtreme
<1>7. WorstOf(d, job.na_rm, x) =
         IF AnyNA /\ ~job.na_rm THEN NA ELSE IF AnyNaN /\ ~job.na_rm THEN NaN ELSE x
  BY AnyMissing DEF d
<1>8. FoldLeft(PickPresent, Worst(-Inf, Inf), job.data) = x
  BY <1>4 DEF x, d
<1>9. MinMaxReal = WorstOf(d, job.na_rm, x)
  BY <1>7, <1>8 DEF MinMaxReal
<1>10. Reference(job, d) = WorstOf(d, job.na_rm, ExtremeOf(job.find_min, d, e))
  BY DEF Reference, e
<1> QED
  BY <1>6, <1>9, <1>10 DEF d

\* INT_MIN and INT_MAX: the start is no better than any value.
LEMMA IntBounds ==
    ASSUME NEW s \in Seq(Ints), NEW least \in BOOLEAN
    PROVE  /\ s \in Seq(Int)
           /\ NoBetter(least, IF least THEN IntMax ELSE NA + 1, Values(s))
           /\ NoBetter(least, IF least THEN IntMax ELSE NA, Values(s))
           /\ \A v \in Ints : Present(v) <=> v # NA
<1>1. NA \in Int /\ NaN \in Int /\ IntMax \in Int /\ NaN < NA
  BY ReductionsAssumption, Numbers
<1>2. /\ Ints \subseteq Int /\ \A v \in Ints : Present(v) <=> v # NA
      /\ \A v \in Ints : Present(v) => v <= IntMax /\ v >= NA + 1 /\ v >= NA
  BY <1>1 DEF Ints, Present
<1>3. s \in Seq(Int)
  BY <1>2, Plain
<1>4. \A v \in Values(s) : v \in Ints /\ Present(v)
  BY DEF Values, Indices
<1>5. /\ NoBetter(least, IF least THEN IntMax ELSE NA + 1, Values(s))
      /\ NoBetter(least, IF least THEN IntMax ELSE NA, Values(s))
  BY <1>2, <1>4 DEF NoBetter
<1> QED
  BY <1>2, <1>3, <1>5

\* Min and Max of an integer class return the reference.
LEMMA MinMaxIntegerIs ==
    ASSUME JobOK(job), job.kernel = "MinMaxInteger"
    PROVE  MinMaxInteger = Reference(job, job.data)
<1> DEFINE d == job.data
           e == Worst(NA + 1, IntMax)
           none == Worst(-Inf, Inf)
           clean == [i \in DOMAIN d |-> IF Present(d[i]) THEN d[i] ELSE e]
           y == LaneExtreme(e, clean)
           q == Of(clean, Tail_(d))
           x == FoldLeft(Pick, y, q)
           value == IF FoundInLanes(d) THEN x ELSE none
           B == Body(clean)
<1>1. d \in Seq(Ints) /\ job.find_min \in BOOLEAN
  BY DEF JobOK, Cells
<1>2. d \in Seq(Int) /\ NoBetter(job.find_min, e, Values(d))
  BY <1>1, IntBounds DEF Worst
<1>3. e \in Int
  BY ReductionsAssumption, Numbers DEF Worst
<1>4. /\ DOMAIN d = 1..Len(d) /\ Len(d) \in Nat /\ \A i \in 1..Len(d) : d[i] \in Int
  BY <1>2, RangeIs
<1> HIDE DEF e, d
<1>5. clean \in Seq(Int) /\ Len(clean) = Len(d)
  <2>1. clean \in [1..Len(d) -> Int]
    BY <1>3, <1>4
  <2>2. clean \in Seq(Int)
    BY <1>4, <2>1, SeqDef
  <2> HIDE DEF clean
  <2> QED
    BY <1>4, <2>1, <2>2
<1>6. Tail_(d) = Tail_(clean)
  BY <1>5 DEF Tail_, Body
<1>7. \A i \in 1..Len(d) : clean[i] = IF Present(d[i]) THEN d[i] ELSE e
  BY <1>4
<1> HIDE DEF clean
<1>8. y \in Int /\ IsBest(job.find_min, y, {e} \union {clean[i] : i \in 1..B})
  BY <1>3, <1>5, LaneExtremeIs
<1>9. /\ q \in Seq(Int) /\ Len(q) = Len(d) - B /\ B \in 0..Len(d)
      /\ \A k \in 1 .. Len(d) - B : q[k] = clean[B + k]
  <2>1. q \in Seq(Int) /\ Len(q) = Len(clean) - B
        /\ \A k \in 1 .. Len(clean) - B : q[k] = clean[B + k]
    BY <1>5, <1>6, TailIs
  <2>2. B \in 0..Len(clean)
    BY <1>4, <1>5, RowsAre
  <2> HIDE DEF q, B
  <2> QED
    BY <1>5, <2>1, <2>2
<1> HIDE DEF y, q, B
<1>10. IsBest(job.find_min, x, {y} \union {q[k] : k \in 1..Len(q)})
  BY <1>8, <1>9, PickIs
<1> HIDE DEF x
<1>11. IsBest(job.find_min, x, {e} \union Values(d))
  <2> DEFINE S == {y} \union {q[k] : k \in 1..Len(q)}
             T == {e} \union Values(d)
             L == {e} \union {clean[i] : i \in 1..B}
  <2>1. \A i \in 1..Len(d) : clean[i] \in T
    BY <1>4, <1>7 DEF Values, Indices
  <2>2. \A v \in Values(d) : \E i \in 1..Len(d) : v = clean[i]
    BY <1>4, <1>7 DEF Values, Indices
  <2>3. \A k \in 1..Len(q) : q[k] \in T
    <3>1. \A k \in 1..Len(q) : B + k \in 1..Len(d) /\ q[k] = clean[B + k]
      BY <1>4, <1>9
    <3> QED
      BY <2>1, <3>1
  <2>4. L \subseteq T
    <3>1. \A i \in 1..B : i \in 1..Len(d)
      BY <1>4, <1>9
    <3> QED
      BY <2>1, <3>1
  <2>5. y \in L /\ \A z \in L : IF job.find_min THEN y <= z ELSE y >= z
    BY <1>8 DEF IsBest
  <2>6. T \subseteq Int
    BY <1>2, <1>3 DEF Values, Indices
  <2>7. \A z \in S : z \in T
    BY <2>3, <2>4, <2>5
  <2>8. ASSUME NEW t \in T PROVE \E z \in S : IF job.find_min THEN z <= t ELSE z >= t
    <3>1. CASE t \in L
      BY <2>5, <3>1
    <3>2. CASE t \notin L
      <4>1. t \in Values(d)
        BY <3>2
      <4>2. PICK i \in 1..Len(d) : t = clean[i]
        BY <2>2, <4>1
      <4>3. i \notin 1..B
        BY <3>2, <4>2
      <4>4. i - B \in 1..Len(q) /\ i = B + (i - B)
        BY <1>4, <1>9, <4>3
      <4>5. q[i - B] = t
        BY <1>9, <4>2, <4>4
      <4>6. t \in S /\ t \in Int
        BY <2>6, <4>4, <4>5
      <4> QED
        BY <4>6
    <3> QED
      BY <3>1, <3>2
  <2>9. S \in SUBSET Int /\ T \in SUBSET Int
    BY <2>6, <2>7
  <2>10. IsBest(job.find_min, x, S)
    BY <1>10
  <2> HIDE DEF S, T
  <2>11. x \in T
    BY <2>7, <2>10 DEF IsBest
  <2>12. IsBest(job.find_min, x, T)
    BY <2>7, <2>8, <2>9, <2>10, <2>11, BestOfBest
  <2> QED
    BY <2>12 DEF T
<1>12. x = ExtremeOf(job.find_min, d, e)
  BY <1>1, <1>2, <1>3, <1>11, BestIsExtreme
<1>13. FoundInLanes(d) <=> Indices(d) # {}
  BY DEF FoundInLanes, Indices
<1>14. value = ExtremeOf(job.find_min, d, none)
  BY <1>12, <1>13 DEF ExtremeOf
<1>15. MinMaxInteger = IF AnyNA /\ ~job.na_rm THEN NA ELSE value
  BY DEF MinMaxInteger, x, q, y, clean, e, d
<1> HIDE DEF value, none
<1>16. ~AnyNaN
  <2>1. \A i \in 1..Len(d) : d[i] \in Ints
    BY <1>1, RangeIs
  <2>2. NaN \notin Ints
    BY ReductionsAssumption, Numbers DEF Ints
  <2> QED
    BY <2>1, <2>2 DEF AnyNaN, n, d
<1>17. WorstOf(d, job.na_rm, value) =
          IF AnyNA /\ ~job.na_rm THEN NA ELSE IF AnyNaN /\ ~job.na_rm THEN NaN ELSE value
  BY AnyMissing DEF d
<1>18. MinMaxInteger = WorstOf(d, job.na_rm, value)
  BY <1>15, <1>16, <1>17
<1>19. Reference(job, d) = WorstOf(d, job.na_rm, ExtremeOf(job.find_min, d, none))
  BY DEF Reference, none, Worst
<1> QED
  BY <1>14, <1>18, <1>19 DEF d

\* No_NA is TRUE exactly when no element is missing.
LEMMA NoNAIs ==
    ASSUME JobOK(job)
    PROVE  noNAMethodImpl <=> Indices(job.data) = DOMAIN job.data
<1> DEFINE d == job.data
<1>1. d \in Seq(Int)
  BY JobHas
<1> HIDE DEF d
<1>2. DOMAIN d = 1..Len(d)
  BY <1>1, RangeIs
<1>3. noNAMethodImpl <=> \A i \in 1..Len(d) : Present(d[i])
  BY DEF noNAMethodImpl, AnyNA, AnyNaN, Present, d, n
<1>4. Indices(d) = DOMAIN d <=> \A i \in 1..Len(d) : Present(d[i])
  BY <1>2 DEF Indices
<1> QED
  BY <1>3, <1>4 DEF d

\* x does not come after y, in rising and in falling order.
InOrder(up, x, y) == IF up THEN x <= y ELSE x >= y
Steps(up, s) == \A i \in 1 .. Len(s) - 1 : InOrder(up, s[i], s[i + 1])
Sorted(up, s) == \A i, l \in DOMAIN s : i < l => InOrder(up, s[i], s[l])

\* A sequence whose neighbours are in order is sorted.
LEMMA StepsSort ==
    ASSUME NEW up \in BOOLEAN, NEW s \in Seq(Int)
    PROVE  Steps(up, s) <=> Sorted(up, s)
<1> DEFINE m == Len(s)
<1>1. m \in Nat /\ DOMAIN s = 1..m /\ \A i \in 1..m : s[i] \in Int
  BY RangeIs
<1>2. ASSUME Sorted(up, s) PROVE Steps(up, s)
  <2>1. \A i \in 1 .. m - 1 : i \in 1..m /\ i + 1 \in 1..m /\ i < i + 1
    BY <1>1
  <2> QED
    BY <1>1, <1>2, <2>1 DEF Steps, Sorted
<1>3. ASSUME Steps(up, s) PROVE Sorted(up, s)
  <2> DEFINE Upto(k) == \A l \in 1..k : \A i \in 1..l : InOrder(up, s[i], s[l])
             S == {k \in 0..m : Upto(k)}
  <2>1. 0 \in S
    BY <1>1
  <2>2. ASSUME NEW k \in 0 .. m - 1, k \in S PROVE k + 1 \in S
    <3>1. Upto(k)
      BY <2>2
    <3>2. k + 1 \in 1..m /\ k \in Nat /\ k + 1 \in 0..m
      BY <1>1
    <3>3. ASSUME NEW l \in 1 .. k + 1, NEW i \in 1..l PROVE InOrder(up, s[i], s[l])
      <4>1. CASE l <= k
        <5>1. l \in 1..k
          BY <3>2, <4>1
        <5> QED
          BY <3>1, <5>1
      <4>2. CASE l = k + 1 /\ i = k + 1
        <5>1. s[k + 1] \in Int
          BY <1>1, <3>2
        <5> QED
          BY <4>2, <5>1 DEF InOrder
      <4>3. CASE l = k + 1 /\ i <= k
        <5>1. k \in 1..k /\ i \in 1..k /\ k \in 1 .. m - 1 /\ k \in 1..m /\ i \in 1..m
          BY <1>1, <3>2, <4>3
        <5>2. InOrder(up, s[i], s[k])
          BY <3>1, <5>1
        <5>3. InOrder(up, s[k], s[k + 1])
          BY <1>3, <5>1 DEF Steps
        <5>4. s[i] \in Int /\ s[k] \in Int /\ s[k + 1] \in Int
          BY <1>1, <3>2, <5>1
        <5> QED
          BY <4>3, <5>2, <5>3, <5>4 DEF InOrder
      <4> QED
        BY <3>2, <4>1, <4>2, <4>3
    <3> QED
      BY <3>2, <3>3
  <2>3. m \in S
    <3> HIDE DEF S
    <3>1. \A k \in 0..m : k \in S
      BY <1>1, <2>1, <2>2, InductionTo
    <3> QED
      BY <1>1, <3>1
  <2>4. Upto(m)
    BY <2>3
  <2>5. ASSUME NEW i \in 1..m, NEW l \in 1..m, i < l PROVE InOrder(up, s[i], s[l])
    <3>1. i \in 1..l
      BY <2>5
    <3> QED
      BY <2>4, <3>1
  <2> QED
    BY <1>1, <2>5 DEF Sorted
<1> QED
  BY <1>2, <1>3

\* Is_sorted returns the reference, also where a value is missing.
LEMMA IsSortedIs ==
    ASSUME JobOK(job), job.kernel = "Is_sorted"
    PROVE  isSortedMethodImpl = Reference(job, job.data)
<1> DEFINE d == job.data
           up == Sorted(TRUE, d)
           down == Sorted(FALSE, d)
           answer == IF up THEN "SORTED_INCR" ELSE IF down THEN "SORTED_DECR" ELSE "KNOWN_UNSORTED"
<1>1. d \in Seq(Int)
  BY JobHas
<1> HIDE DEF d
<1>2. (Steps(TRUE, d) <=> up) /\ (Steps(FALSE, d) <=> down)
  BY <1>1, StepsSort
<1>3. Len(d) <= 1 => Steps(TRUE, d)
  BY <1>1 DEF Steps
<1>4. /\ Steps(TRUE, d) <=> \A i \in 1 .. Len(d) - 1 : d[i] <= d[i + 1]
      /\ Steps(FALSE, d) <=> \A i \in 1 .. Len(d) - 1 : d[i] >= d[i + 1]
      /\ up <=> \A i, l \in DOMAIN d : i < l => d[i] <= d[l]
      /\ down <=> \A i, l \in DOMAIN d : i < l => d[i] >= d[l]
  BY DEF Steps, Sorted, InOrder
<1>5. isSortedNumeric(d) = IF Len(d) <= 1 \/ Steps(TRUE, d) THEN "SORTED_INCR"
                           ELSE IF Steps(FALSE, d) THEN "SORTED_DECR" ELSE "KNOWN_UNSORTED"
  BY DEF isSortedNumeric, Steps, InOrder
<1>6. isSortedNumeric(d) = answer
  BY <1>2, <1>3, <1>5
<1>7. Reference(job, d) = IF Indices(d) # DOMAIN d THEN "UNKNOWN_SORTEDNESS" ELSE answer
  BY DEF Reference, Sorted, InOrder
<1>8. noNAMethodImpl <=> Indices(d) = DOMAIN d
  BY NoNAIs DEF d
<1> HIDE DEF answer
<1>9. isSortedMethodImpl = IF noNAMethodImpl THEN answer ELSE "UNKNOWN_SORTEDNESS"
  BY <1>6 DEF isSortedMethodImpl, d
<1> QED
  BY <1>7, <1>8, <1>9 DEF d

\* What a summary method returns is the summary of the data.
LEMMA CallMethodIs ==
    ASSUME JobOK(job), CallMethod
    PROVE  result' = Done(Reference(job, job.data))
<1> DEFINE r == Reference(job, job.data)
<1>1. CASE job.kernel = "SumReal"
  <2>1. result' = Done(realSum)
    BY <1>1 DEF CallMethod
  <2>2. realSum = r
    BY <1>1, RealSumIs
  <2> QED
    BY <2>1, <2>2
<1>2. CASE job.kernel = "SumInteger"
  <2>1. result' = Done(integerSum)
    BY <1>2 DEF CallMethod
  <2>2. integerSum = r
    BY <1>2, IntegerSumIs
  <2> QED
    BY <2>1, <2>2
<1>3. CASE job.kernel = "SumLogical"
  <2>1. result' = Done(logicalSum)
    BY <1>3 DEF CallMethod
  <2>2. logicalSum = r
    BY <1>3, LogicalSumIs
  <2> QED
    BY <2>1, <2>2
<1>4. CASE job.kernel = "MinMaxReal"
  <2>1. result' = Done(MinMaxReal)
    BY <1>4 DEF CallMethod
  <2>2. MinMaxReal = r
    BY <1>4, MinMaxRealIs
  <2> QED
    BY <2>1, <2>2
<1>5. CASE job.kernel = "MinMaxInteger"
  <2>1. result' = Done(MinMaxInteger)
    BY <1>5 DEF CallMethod
  <2>2. MinMaxInteger = r
    BY <1>5, MinMaxIntegerIs
  <2> QED
    BY <2>1, <2>2
<1>6. CASE job.kernel = "No_NA"
  <2>1. result' = Done(noNAMethodImpl)
    BY <1>6 DEF CallMethod
  <2>2. noNAMethodImpl <=> (Indices(job.data) = DOMAIN job.data)
    BY NoNAIs
  <2>3. r = (Indices(job.data) = DOMAIN job.data)
    BY <1>6 DEF Reference
  <2>4. noNAMethodImpl \in BOOLEAN /\ r \in BOOLEAN
    BY <2>3 DEF noNAMethodImpl
  <2>5. noNAMethodImpl = r
    BY <2>2, <2>3, <2>4
  <2> QED
    BY <2>1, <2>5
<1>7. CASE job.kernel = "Is_sorted"
  <2>1. result' = Done(isSortedMethodImpl)
    BY <1>7 DEF CallMethod
  <2>2. isSortedMethodImpl = r
    BY <1>7, IsSortedIs
  <2> QED
    BY <2>1, <2>2
<1> QED
  BY <1>1, <1>2, <1>3, <1>4, <1>5, <1>6, <1>7 DEF CallMethod, Methods

-----------------------------------------------------------------------------
(***************************************************************************)
(* What the kernels make of their locals.                                   *)
(***************************************************************************)
LEMMA CellsOfJob ==
    ASSUME JobOK(job), NEW s \in Seq(Elems(job))
    PROVE  /\ s \in Seq(Int) /\ job.find_min \in BOOLEAN /\ job.na_rm \in BOOLEAN
           /\ job.kernel = "minmaxInt" => s \in Seq(Ints)
           /\ job.kernel = "minmax" => s \in Seq(Doubles)
           /\ job.kernel \in {"sum", "mean"} => s \in Seq(Doubles)
<1>1. Elems(job) \subseteq Cells(job.kernel) /\ s \in Seq(Int)
  BY JobHas, Plain
<1>2. \A i \in 1..Len(s) : s[i] \in Cells(job.kernel)
  BY <1>1, ElementOfSeq
<1>3. s \in Seq(Cells(job.kernel))
  BY <1>2, Narrower
<1>4. /\ job.kernel = "minmaxInt" => Cells(job.kernel) = Ints
      /\ job.kernel \in {"minmax", "sum", "mean"} => Cells(job.kernel) = Doubles
  BY DEF Cells
<1>5. job.find_min \in BOOLEAN /\ job.na_rm \in BOOLEAN
  BY DEF JobOK
<1> QED
  BY <1>1, <1>3, <1>4, <1>5

\* The first of the best is the first place that holds the extreme.
LEMMA FirstIs ==
    ASSUME NEW least \in BOOLEAN, NEW s \in Seq(Int), NEW x \in Candidates,
           IsFirst(least, x, s, Indices(s))
    PROVE  /\ Indices(s) # {}
           /\ x.idx = Min({i \in Indices(s) : s[i] = ExtremeOf(least, s, 0)}) - 1
<1> DEFINE S == Values(s)
           f == x.idx + 1
           m == ExtremeOf(least, s, 0)
           W == {i \in Indices(s) : s[i] = m}
<1>1. x.idx \in Int /\ x.best \in Int
  BY DEF Candidates
<1>2. f \in Indices(s) /\ x.best = s[f]
      /\ \A i \in Indices(s) : /\ IF least THEN x.best <= s[i] ELSE x.best >= s[i]
                               /\ s[i] = x.best => f <= i
  BY DEF IsFirst
<1>3. Indices(s) \subseteq Int /\ S \subseteq Int
  BY DEF Indices, Values
<1>4. S = {s[i] : i \in Indices(s)} /\ x.best \in S
  BY <1>2 DEF Values
<1>5. m = Extreme(least, S)
  BY <1>2, <1>4 DEF ExtremeOf
<1>6. \A y \in S : IF least THEN x.best <= y ELSE x.best >= y
  BY <1>2, <1>4
<1> HIDE DEF S, m
<1>7. m = x.best
  <2>1. CASE least
    <3>1. Min(S) = x.best
      BY <1>3, <1>4, <1>6, <2>1, MinIs
    <3> QED
      BY <1>5, <2>1, <3>1 DEF Extreme
  <2>2. CASE ~least
    <3>1. \A y \in S : y <= x.best
      BY <1>1, <1>3, <1>6, <2>2
    <3>2. Max(S) = x.best
      BY <1>3, <1>4, <3>1, MaxIs
    <3> QED
      BY <1>5, <2>2, <3>2 DEF Extreme
  <2> QED
    BY <2>1, <2>2
<1> HIDE DEF f
<1>8. f \in W /\ W \subseteq Int /\ \A i \in W : f <= i
  BY <1>2, <1>3, <1>7
<1> HIDE DEF W
<1>9. Min(W) = f
  BY <1>8, MinIs
<1>10. x.idx = Min(W) - 1
  BY <1>1, <1>9 DEF f
<1> QED
  BY <1>2, <1>10 DEF W, m

\* The reference of missing values is what the kernels return for them.
LEMMA WorstIs ==
    ASSUME NEW s, NEW x
    PROVE  /\ WorstOf(s, FALSE, x) = OfMissing(MissingIn(s), x)
           /\ \A na_rm \in BOOLEAN :
                 WorstOf(s, na_rm, x) = OfMissing(IF na_rm THEN "none" ELSE MissingIn(s), x)
BY DEF WorstOf, OfMissing, MissingIn

\* The summary of what has been read, finished, is the reference of it.
LEMMA FinishIs ==
    ASSUME JobOK(job), job.kernel \in Kernels \ {"mean"}, NEW s \in Seq(Elems(job)),
           NEW a \in Locals, Summary(job, pass, a, s)
    PROVE  Finish(a) = Reference(job, s)
<1>1. s \in Seq(Int) /\ job.find_min \in BOOLEAN /\ job.na_rm \in BOOLEAN
  BY CellsOfJob
<1>2. CASE job.kernel = "sum"
  <2>1. RealSummary(job, a, s)
    BY <1>2 DEF Summary
  <2>2. Finish(a) = OfMissing(a.missing, Double(a.total))
    BY <1>2 DEF Finish
  <2>3. Reference(job, s) = WorstOf(s, job.na_rm, Double(SumOf(s)))
    BY <1>2 DEF Reference
  <2> QED
    BY <1>1, <2>1, <2>2, <2>3, WorstIs DEF RealSummary
<1>3. CASE job.kernel \in {"sumInt", "norm2"}
  BY <1>3 DEF Summary, Finish, Reference
<1>4. CASE job.kernel = "scaleAdd"
  <2>1. Finish(a) = a.total /\ Reference(job, s) = Alpha * SumSeq(s) + Beta * Len(s)
    BY <1>4 DEF Finish, Reference
  <2>2. a.total = SumSeq(Scaled(s))
    BY <1>4 DEF Summary
  <2> QED
    BY <1>1, <2>1, <2>2, ScaledSum
<1>5. CASE job.kernel = "countTrue"
  BY <1>5 DEF Summary, Finish, Reference, True
<1>6. CASE job.kernel = "cumsum"
  <2>1. CumulativeSummary(a, s)
    BY <1>6 DEF Summary
  <2>2. Finish(a) = a.out
    BY <1>6 DEF Finish
  <2>3. Reference(job, s) = [i \in DOMAIN s |->
                                WorstOf(SubSeq(s, 1, i), FALSE, RunningSum(SubSeq(s, 1, i)))]
    BY <1>6 DEF Reference
  <2> QED
    BY <2>1, <2>2, <2>3 DEF CumulativeSummary
<1>7. CASE job.kernel = "minmaxInt"
  <2> DEFINE e == IF job.find_min THEN IntMax ELSE NA
  <2>1. ExtremeSummary(job, a, s)
    BY <1>7 DEF Summary
  <2>2. Finish(a) = a.best /\ Reference(job, s) = ExtremeOf(job.find_min, s, e)
    BY <1>7 DEF Finish, Reference
  <2>3. e \in Int
    BY ReductionsAssumption, Numbers
  <2>4. NoBetter(job.find_min, e, Values(s))
    BY <1>1, <1>7, CellsOfJob, IntBounds
  <2>5. CASE a.found
    <3>1. IsBest(job.find_min, a.best, Values(s))
      BY <2>1, <2>5 DEF ExtremeSummary
    <3> DEFINE x == a.best
    <3>2. x \in Int
      BY LocalsHas
    <3> HIDE DEF x, e
    <3>3. IsBest(job.find_min, x, {e} \union Values(s))
      BY <2>3, <2>4, <3>1, <3>2 DEF IsBest, NoBetter, x
    <3>4. x = ExtremeOf(job.find_min, s, e)
      BY <1>1, <2>3, <2>4, <3>3, BestIsExtreme
    <3> QED
      BY <2>2, <3>4 DEF x
  <2>6. CASE ~a.found
    BY <2>1, <2>2, <2>6 DEF ExtremeSummary, ExtremeOf
  <2> QED
    BY <2>5, <2>6
<1>8. CASE job.kernel = "minmax"
  <2> DEFINE e == IF job.find_min THEN Inf ELSE -Inf
  <2>1. a.missing = MissingIn(s) /\ IsBest(job.find_min, a.best, {e} \union Values(s))
    BY <1>8 DEF Summary, MinMaxSummary, Identity
  <2>2. /\ Finish(a) = OfMissing(a.missing, a.best)
        /\ Reference(job, s) = WorstOf(s, FALSE, ExtremeOf(job.find_min, s, e))
    BY <1>8 DEF Finish, Reference
  <2>3. e \in Int
    BY Numbers
  <2>4. NoBetter(job.find_min, e, Values(s))
    BY <1>1, <1>8, CellsOfJob, RealBounds
  <2> HIDE DEF e
  <2>5. a.best = ExtremeOf(job.find_min, s, e)
    BY <1>1, <2>1, <2>3, <2>4, BestIsExtreme
  <2> QED
    BY <2>1, <2>2, <2>5, WorstIs
<1>9. CASE job.kernel = "argminmax"
  <2>1. FirstSummary(job, a, s)
    BY <1>9 DEF Summary
  <2>2. Finish(a) = IF a.found THEN a.idx ELSE -1
    BY <1>9 DEF Finish
  <2>3. Reference(job, s) = IF Indices(s) = {} THEN -1
                            ELSE Min({i \in Indices(s) : s[i] = ExtremeOf(job.find_min, s, 0)}) - 1
    BY <1>9 DEF Reference
  <2>4. CASE a.found
    <3> DEFINE x == At(a.best, a.idx)
    <3>1. x \in Candidates /\ x.idx = a.idx
      BY LocalsHas DEF At, Candidates
    <3>2. IsFirst(job.find_min, x, s, Indices(s))
      BY <2>1, <2>4 DEF FirstSummary
    <3> HIDE DEF x
    <3>3. Indices(s) # {} /\ x.idx = Min({i \in Indices(s) : s[i] = ExtremeOf(job.find_min, s, 0)}) - 1
      BY <1>1, <3>1, <3>2, FirstIs
    <3> QED
      BY <2>2, <2>3, <2>4, <3>1, <3>3
  <2>5. CASE ~a.found
    BY <2>1, <2>2, <2>3, <2>5 DEF FirstSummary
  <2> QED
    BY <2>4, <2>5
<1> QED
  BY <1>2, <1>3, <1>4, <1>5, <1>6, <1>7, <1>8, <1>9 DEF Kernels

-----------------------------------------------------------------------------
(***************************************************************************)
(* The mean.                                                                *)
(***************************************************************************)
Most(s) == MaxDouble * Cardinality(Indices(s))

\* A sum without infinities is at most so many times the largest double, and
\* one with an infinity is not far from it.
Bounded(s) ==
    /\ Inf \notin Range(s) => SumOf(s) <= Most(s)
    /\ -Inf \notin Range(s) => SumOf(s) >= -Most(s)
    /\ Inf \in Range(s) /\ -Inf \notin Range(s) => SumOf(s) >= Inf - Most(s)
    /\ -Inf \in Range(s) /\ Inf \notin Range(s) => SumOf(s) <= Most(s) - Inf

\* A sum of n doubles is within n times the greatest one.
LEMMA SumBounded == \A s \in Seq(Doubles) : Bounded(s)
<1> DEFINE S == {s \in Seq(Doubles) : Bounded(s)}
<1>0. /\ MaxDouble \in Nat /\ Inf \in Int /\ Inf > 2 * MaxDouble /\ Inf >= 0
      /\ NA \in Int /\ NaN \in Int /\ Present(Inf) /\ Present(-Inf)
  <2>1. MaxDouble \in Nat /\ Inf \in Int /\ Inf > 2 * MaxDouble /\ NA \in Int /\ NaN \in Int
    BY ReductionsAssumption, Numbers
  <2>2. Inf \in {Inf, -Inf} /\ -Inf \in {Inf, -Inf} /\ {Inf, -Inf} \intersect {NA, NaN} = {}
    BY ReductionsAssumption
  <2>3. Present(Inf) /\ Present(-Inf)
    BY <2>2 DEF Present
  <2>4. Inf >= 0
    BY <2>1
  <2> QED
    BY <2>1, <2>3, <2>4
<1>1. <<>> \in S
  <2>1. MaxDouble * 0 = 0
    BY <1>0
  <2>2. Bounded(<<>>)
    BY <2>1, Nothing DEF Bounded, Most
  <2> QED
    BY <2>2
<1>2. ASSUME NEW u \in Seq(Doubles), NEW v \in Doubles, u \in S PROVE Append(u, v) \in S
  <2> DEFINE t == Append(u, v)
             k == Cardinality(Indices(u))
             A == Most(u)
             x == SumOf(u)
  <2>1. t \in Seq(Doubles)
    OBVIOUS
  <2>2. Doubles \subseteq Int /\ (v \in Finite => v \in Int /\ v <= MaxDouble /\ v >= -MaxDouble)
    BY <1>0 DEF Doubles, Finite
  <2>3. u \in Seq(Int) /\ v \in Int
    BY <2>2, Plain
  <2>4. x \in Int /\ SumOf(t) = x + (IF Present(v) THEN v ELSE 0)
    BY <2>3, SumOfAppended
  <2>5. k \in Int /\ Cardinality(Indices(t)) = k + (IF Present(v) THEN 1 ELSE 0)
    BY <2>3, AppendedIndices
  <2>6. A \in Int /\ Most(t) = A + (IF Present(v) THEN MaxDouble ELSE 0)
    <3>1. A = MaxDouble * k
      BY DEF Most
    <3>2. MaxDouble \in Int
      BY <1>0
    <3> HIDE DEF k, A
    <3>3. MaxDouble * (k + 1) = MaxDouble * k + MaxDouble /\ MaxDouble * k \in Int
      BY <2>5, <3>2, Distributes
    <3>4. CASE Present(v)
      <4>1. Most(t) = MaxDouble * (k + 1)
        BY <2>5, <3>4 DEF Most
      <4> QED
        BY <3>1, <3>3, <3>4, <4>1
    <3>5. CASE ~Present(v)
      <4>1. Most(t) = MaxDouble * k
        BY <2>5, <3>5 DEF Most
      <4> QED
        BY <3>1, <3>3, <3>5, <4>1
    <3> QED
      BY <3>4, <3>5
  <2>7. Range(t) = Range(u) \union {v}
    BY <2>3, AppendedRange
  <2>8. /\ Inf \notin Range(u) => x <= A
        /\ -Inf \notin Range(u) => x >= -A
        /\ Inf \in Range(u) /\ -Inf \notin Range(u) => x >= Inf - A
        /\ -Inf \in Range(u) /\ Inf \notin Range(u) => x <= A - Inf
    BY <1>2 DEF Bounded
  <2> HIDE DEF t, k, A, x
  <2>9. CASE ~Present(v)
    <3>1. SumOf(t) = x /\ Most(t) = A
      BY <2>4, <2>6, <2>9
    <3>2. v # Inf /\ v # -Inf
      BY <1>0, <2>9
    <3>3. Bounded(t)
      BY <2>7, <2>8, <3>1, <3>2 DEF Bounded
    <3> QED
      BY <2>1, <3>3 DEF t
  <2>10. CASE Present(v)
    <3> DEFINE y == SumOf(t)
               B == Most(t)
    <3>1. y = x + v /\ B = A + MaxDouble
      BY <2>4, <2>6, <2>10
    <3> HIDE DEF y, B
    <3>2. CASE v = Inf
      <4>1. -Inf \notin Range(u) => y >= Inf - B
        BY <1>0, <2>4, <2>6, <2>8, <3>1, <3>2
      <4>2. -Inf # Inf /\ Inf \in Range(t) /\ (-Inf \in Range(t) <=> -Inf \in Range(u))
        BY <1>0, <2>7, <3>2
      <4>3. Inf - B >= -B /\ y \in Int /\ B \in Int
        BY <1>0, <2>3, <2>4, <2>6, <3>1
      <4>4. -Inf \notin Range(u) => y >= -B
        BY <1>0, <4>1, <4>3
      <4>5. Bounded(t)
        BY <4>1, <4>2, <4>4 DEF Bounded, y, B
      <4> QED
        BY <2>1, <4>5 DEF t
    <3>3. CASE v = -Inf
      <4>1. Inf \notin Range(u) => y <= B - Inf
        BY <1>0, <2>4, <2>6, <2>8, <3>1, <3>3
      <4>2. -Inf # Inf /\ -Inf \in Range(t) /\ (Inf \in Range(t) <=> Inf \in Range(u))
        BY <1>0, <2>7, <3>3
      <4>3. B - Inf <= B /\ y \in Int /\ B \in Int
        BY <1>0, <2>3, <2>4, <2>6, <3>1
      <4>4. Inf \notin Range(u) => y <= B
        BY <1>0, <4>1, <4>3
      <4>5. Bounded(t)
        BY <4>1, <4>2, <4>4 DEF Bounded, y, B
      <4> QED
        BY <2>1, <4>5 DEF t
    <3>4. CASE v # Inf /\ v # -Inf
      <4>1. v \in Finite
        BY <2>10, <3>4 DEF Doubles, Present
      <4>2. v <= MaxDouble /\ v >= -MaxDouble
        BY <2>2, <4>1
      <4>3. /\ x <= A => y <= B
            /\ x >= -A => y >= -B
            /\ x >= Inf - A => y >= Inf - B
            /\ x <= A - Inf => y <= B - Inf
        BY <1>0, <2>3, <2>4, <2>6, <3>1, <4>2
      <4>4. (Inf \in Range(t) <=> Inf \in Range(u)) /\ (-Inf \in Range(t) <=> -Inf \in Range(u))
        BY <2>7, <3>4
      <4>5. Bounded(t)
        BY <2>8, <4>3, <4>4 DEF Bounded, y, B
      <4> QED
        BY <2>1, <4>5 DEF t
    <3> QED
      BY <3>2, <3>3, <3>4
  <2> QED
    BY <2>9, <2>10
<1> HIDE DEF S
<1>3. \A s \in Seq(Doubles) : s \in S
  BY <1>1, <1>2, SeqInduction
<1> QED
  BY <1>3 DEF S

\* No product of the largest double and a number of elements reaches infinity.
LEMMA FarInfinity ==
    ASSUME JobOK(job), job.kernel = "mean"
    PROVE  /\ Most(job.data) \in Int /\ Inf > 2 * Most(job.data) /\ Most(job.data) >= 0
           /\ Cardinality(Indices(job.data)) \in 0..Len(job.data) /\ Bounded(job.data)
           /\ SumOf(job.data) \in Int
<1> DEFINE k == Cardinality(Indices(job.data))
           l == Len(job.data)
<1>1. job.data \in Seq(Elems(job)) /\ job.data \in Seq(Int) /\ l \in Nat
  BY JobHas
<1>2. k \in 0..l
  <2> DEFINE d == job.data
  <2>1. d \in Seq(Int) /\ 0 \in Int
    BY <1>1
  <2> HIDE DEF d
  <2>2. Cardinality(Indices(d)) \in 0..Len(d)
    BY <2>1, AppendedIndices
  <2> QED
    BY <2>2 DEF d
<1>3. SumOf(job.data) \in Int
  BY <1>1, SumOfAppended
<1>4. Bounded(job.data)
  BY <1>1, CellsOfJob, SumBounded
<1>5. MaxDouble \in Nat /\ Inf \in Int /\ Inf > 2 * MaxDouble * l
  BY ReductionsAssumption DEF JobOK
<1>6. Most(job.data) = MaxDouble * k
  BY DEF Most
<1> HIDE DEF k, l
<1>7. MaxDouble * k \in Nat /\ MaxDouble * l \in Nat /\ MaxDouble * k <= MaxDouble * l
  BY <1>1, <1>2, <1>5
<1>8. 2 * MaxDouble * l = 2 * (MaxDouble * l)
  BY <1>1, <1>5
<1> DEFINE K == MaxDouble * k
           L == MaxDouble * l
<1>9. K \in Nat /\ L \in Nat /\ K <= L /\ Inf > 2 * L
  BY <1>5, <1>7, <1>8
<1> HIDE DEF K, L
<1>10. Inf > 2 * K
  BY <1>5, <1>9
<1> QED
  BY <1>2, <1>3, <1>4, <1>6, <1>9, <1>10 DEF K, k, l

\* A mean is finite exactly if nothing in the data is infinite.
LEMMA FiniteMeanIs ==
    ASSUME JobOK(job), job.kernel = "mean"
    PROVE  LET d == job.data
           IN  /\ ~(Inf \in Range(d) /\ -Inf \in Range(d))
               /\ (SumOf(d) <= Most(d) /\ SumOf(d) >= -Most(d))
                     <=> (Inf \notin Range(d) /\ -Inf \notin Range(d))
               /\ Inf \in Range(d) => SumOf(d) > 0
               /\ -Inf \in Range(d) => ~(SumOf(d) > 0)
<1> DEFINE d == job.data
           x == SumOf(d)
           K == Most(d)
<1>1. /\ K \in Int /\ Inf \in Int /\ Inf > 2 * K /\ K >= 0 /\ x \in Int
  BY FarInfinity, Numbers
<1>2. Bounded(d)
  BY FarInfinity
<1>3. ~(Inf \in Range(d) /\ -Inf \in Range(d))
  BY DEF JobOK
<1>4. /\ Inf \notin Range(d) => x <= K
      /\ -Inf \notin Range(d) => x >= -K
      /\ Inf \in Range(d) => x >= Inf - K
      /\ -Inf \in Range(d) => x <= K - Inf
  BY <1>2, <1>3 DEF Bounded
<1> HIDE DEF K, x, d
<1>5. Inf - K > K /\ K - Inf < -K
  BY <1>1
<1>6. Inf \in Range(d) => x > K /\ x > 0
  BY <1>1, <1>4, <1>5
<1>7. -Inf \in Range(d) => x < -K /\ ~(x > 0)
  BY <1>1, <1>4, <1>5
<1>8. (x <= K /\ x >= -K) <=> (Inf \notin Range(d) /\ -Inf \notin Range(d))
  BY <1>1, <1>4, <1>6, <1>7
<1> QED
  BY <1>3, <1>6, <1>7, <1>8 DEF K, x, d

\* What the mean's last pass makes of its locals.
LEMMA MeanIs ==
    ASSUME JobOK(job), job.kernel = "mean", acc \in Locals,
           pass \in {"total", "scaled", "correction"}, Summary(job, pass, acc, job.data),
           \/ acc.missing # "none" \/ acc.count = 0
           \/ pass = "correction"
           \/ pass = "scaled" /\ ~FiniteMean
    PROVE  Mean = Reference(job, job.data)
<1> DEFINE d == job.data
           k == Cardinality(Indices(d))
           infinities == {Inf, -Inf} \intersect Range(d)
           otherwise == IF Indices(d) = {} THEN NaN
                        ELSE IF infinities # {} THEN CHOOSE v \in infinities : TRUE
                        ELSE SumOf(d) * k
<1>1. MeanSummary(job, pass, acc, d)
  BY DEF Summary
<1>2. Reference(job, d) = WorstOf(d, job.na_rm, otherwise)
  BY DEF Reference
<1>3. /\ k \in Nat /\ (k = 0 <=> Indices(d) = {}) /\ SumOf(d) \in Int
  <2>1. d \in Seq(Int)
    BY JobHas
  <2>2. IsFiniteSet(Indices(d)) /\ k \in 0..Len(d) /\ SumOf(d) \in Int
    BY <2>1, AppendedIndices, FarInfinity
  <2>3. k = 0 <=> Indices(d) = {}
    BY <2>2, FS_EmptySet
  <2> QED
    BY <2>1, <2>2, <2>3
<1>4. job.na_rm \in BOOLEAN /\ Len(d) \in Nat
  BY JobHas DEF JobOK
<1>5. MissingIn(d) \in MissingKinds
  BY ValuesAre
<1>6. CASE pass = "total"
  <2>1. /\ acc.missing = (IF job.na_rm THEN "none" ELSE MissingIn(d))
        /\ acc.count = Len(d) - Len(d) + k
    BY <1>1, <1>6 DEF MeanSummary, RealSummary
  <2>2. acc.count = k
    BY <1>3, <1>4, <2>1
  <2>3. acc.missing # "none" \/ acc.count = 0
    BY <1>6
  <2>4. Mean = OfMissing(acc.missing, NaN)
    BY <2>3 DEF Mean
  <2>5. WorstOf(d, job.na_rm, otherwise) = OfMissing(acc.missing, otherwise)
    <3> HIDE DEF otherwise, d
    <3> QED
      BY <1>4, <2>1, WorstIs
  <2>6. CASE acc.missing # "none"
    <3>1. acc.missing \in {"nan", "na"}
      BY <2>6, LocalsHas DEF MissingKinds
    <3> HIDE DEF otherwise
    <3> QED
      BY <1>2, <2>4, <2>5, <3>1 DEF OfMissing
  <2>7. CASE acc.count = 0
    <3>1. otherwise = NaN
      BY <1>3, <2>2, <2>7
    <3> QED
      BY <1>2, <2>4, <2>5, <3>1
  <2> QED
    BY <2>3, <2>6, <2>7
<1>7. ASSUME pass # "total" PROVE /\ Divisible(job, acc) /\ acc.total = SumOf(d)
                                  /\ WorstOf(d, job.na_rm, otherwise) = otherwise
                                  /\ acc.count = k /\ Indices(d) # {}
                                  /\ MaxDouble * acc.count = Most(d)
                                  /\ acc.missing = "none"
  <2>1. Divisible(job, acc) /\ acc.total = SumOf(d)
    BY <1>1, <1>7 DEF MeanSummary
  <2>2. acc.missing = "none" /\ (job.na_rm \/ MissingIn(d) = "none") /\ acc.count = k /\ k # 0
    BY <2>1 DEF Divisible
  <2>3. WorstOf(d, job.na_rm, otherwise) = otherwise
    <3> HIDE DEF otherwise, d
    <3> QED
      BY <1>4, <2>2, WorstIs DEF OfMissing
  <2>4. MaxDouble * acc.count = Most(d)
    BY <2>2 DEF Most
  <2> QED
    BY <1>3, <2>1, <2>2, <2>3, <2>4
<1>8. CASE pass = "correction"
  <2>1. Indices(d) # {} /\ acc.total = SumOf(d) /\ acc.count = k /\ acc.missing = "none"
    BY <1>7, <1>8
  <2>2. FiniteMean /\ acc.correction = acc.count * SumOf(d) - acc.total * k
    BY <1>1, <1>8 DEF MeanSummary, FiniteMean
  <2>3. Inf \notin Range(d) /\ -Inf \notin Range(d)
    <3>1. SumOf(d) <= Most(d) /\ SumOf(d) >= -Most(d)
      BY <1>7, <1>8, <2>1, <2>2 DEF FiniteMean
    <3> QED
      BY <3>1, FiniteMeanIs
  <2>4. otherwise = SumOf(d) * k
    BY <2>1, <2>3
  <2>5. acc.count # 0
    BY <1>3, <2>1
  <2>6. Mean = acc.total * acc.count + acc.correction
    BY <2>1, <2>2, <2>5 DEF Mean
  <2>7. Mean = SumOf(d) * k
    <3> DEFINE y == SumOf(d)
    <3>1. y \in Int /\ k \in Int
      BY <1>3
    <3>2. Mean = y * k + (k * y - y * k)
      BY <2>1, <2>2, <2>6
    <3> HIDE DEF y, k
    <3> QED
      BY <3>1, <3>2 DEF y
  <2> QED
    BY <1>2, <1>7, <1>8, <2>4, <2>7
<1>9. CASE pass = "scaled" /\ ~FiniteMean /\ acc.missing = "none" /\ acc.count # 0
  <2>1. Indices(d) # {} /\ acc.total = SumOf(d) /\ MaxDouble * acc.count = Most(d)
    BY <1>7, <1>9
  <2>2. ~(SumOf(d) <= Most(d) /\ SumOf(d) >= -Most(d))
    BY <1>9, <2>1 DEF FiniteMean
  <2>3. Mean = IF SumOf(d) > 0 THEN Inf ELSE -Inf
    BY <1>9, <2>1 DEF Mean
  <2>4. CASE Inf \in Range(d)
    <3>1. SumOf(d) > 0 /\ -Inf \notin Range(d)
      BY <2>4, FiniteMeanIs
    <3>2. infinities = {Inf}
      BY <2>4, <3>1
    <3>3. otherwise = Inf
      BY <2>1, <3>2
    <3> QED
      BY <1>2, <1>7, <1>9, <2>3, <3>1, <3>3
  <2>5. CASE -Inf \in Range(d)
    <3>1. ~(SumOf(d) > 0) /\ Inf \notin Range(d)
      BY <2>5, FiniteMeanIs
    <3>2. infinities = {-Inf}
      BY <2>5, <3>1
    <3>3. otherwise = -Inf
      BY <2>1, <3>2
    <3> QED
      BY <1>2, <1>7, <1>9, <2>3, <3>1, <3>3
  <2>6. Inf \in Range(d) \/ -Inf \in Range(d)
    BY <2>2, FiniteMeanIs
  <2> QED
    BY <2>4, <2>5, <2>6
<1>10. pass = "scaled" => acc.missing = "none" /\ acc.count # 0
  BY <1>3, <1>7
<1> QED
  BY <1>6, <1>8, <1>9, <1>10

-----------------------------------------------------------------------------
(***************************************************************************)
(* The inductive invariant.                                                 *)
(***************************************************************************)
Passes == {"total", "scaled", "correction"}
Read == SubSeq(job.data, 1, offset)

TypeInv ==
    /\ job \in Jobs /\ pass \in Passes /\ offset \in 0..n /\ acc \in Locals
    /\ pass # "total" => job.kernel = "mean"
    /\ job.source = "direct" => offset \in {0, n}

IInv ==
    /\ TypeInv
    /\ job.kernel \in Kernels => Summary(job, pass, acc, Read)
    /\ job.kernel \in Methods => acc = Start(job) /\ offset = 0
    /\ result \in {Pending, Failed, Done(Reference(job, job.data))}

\* The jobs are what the assumption says.
LEMMA JobsOK == \A j \in Jobs : JobOK(j)
BY ReductionsAssumption

\* Nothing read: the first values are the summary of that.
LEMMA StartIs ==
    ASSUME NEW j, JobOK(j)
    PROVE  /\ Start(j) \in Locals
           /\ j.kernel \in Kernels => Summary(j, "total", Start(j), <<>>)
<1> DEFINE best == CASE j.kernel = "minmax" -> IF j.find_min THEN Inf ELSE -Inf
                     [] j.kernel = "minmaxInt" -> IF j.find_min THEN IntMax ELSE NA
                     [] OTHER -> 0
           a == Start(j)
<1>1. Len(j.data) \in Nat
  BY JobHas
<1>2. best \in Int
  BY Numbers, ReductionsAssumption
<1>3. a = [total |-> 0, missing |-> "none", count |-> Len(j.data), correction |-> 0,
           found |-> FALSE, idx |-> 0, out |-> <<>>, best |-> best]
  BY DEF Start
<1>4. j.kernel = "minmax" => best = Identity(j)
  BY DEF Identity
<1>5. j.kernel = "minmaxInt" => best = IF j.find_min THEN IntMax ELSE NA
  OBVIOUS
<1> HIDE DEF best, a
<1>6. a \in Locals
  BY <1>1, <1>2, <1>3 DEF Locals, MissingKinds
<1>7. /\ a.total = 0 /\ a.missing = "none" /\ a.count = Len(j.data) /\ a.correction = 0
      /\ a.found = FALSE /\ a.idx = 0 /\ a.out = <<>> /\ a.best = best
  BY <1>3
<1>8. Unused(j, a)
  BY <1>7 DEF Unused
<1>9. RealSummary(j, a, <<>>)
  <2>1. Len(<<>>) = 0
    OBVIOUS
  <2> QED
    BY <1>1, <1>7, <2>1, Nothing DEF RealSummary
<1>10. MeanSummary(j, "total", a, <<>>)
  BY <1>7, <1>9 DEF MeanSummary
<1>11. SumSeq(<<>>) = 0 /\ SumSeq(Squares(<<>>)) = 0 /\ SumSeq(Scaled(<<>>)) = 0
  <2>1. Squares(<<>>) = <<>> /\ Scaled(<<>>) = <<>>
    BY DEF Squares, Scaled
  <2> QED
    BY <2>1, SumEmpty
<1>12. Cardinality(True(<<>>)) = 0
  <2>1. True(<<>>) = {}
    BY DEF True
  <2> QED
    BY <2>1, FS_EmptySet
<1>13. CumulativeSummary(a, <<>>)
  <2>1. RunningSum(<<>>) = 0
    <3>1. {i \in DOMAIN <<>> : SumOf(SubSeq(<<>>, 1, i)) \notin Finite} = {}
      OBVIOUS
    <3> QED
      BY <3>1, Nothing DEF RunningSum
  <2>2. [i \in DOMAIN <<>> |-> WorstOf(SubSeq(<<>>, 1, i), FALSE, RunningSum(SubSeq(<<>>, 1, i)))] = <<>>
    OBVIOUS
  <2> QED
    BY <1>7, <2>1, <2>2, Nothing DEF CumulativeSummary
<1>14. j.kernel = "minmaxInt" => ExtremeSummary(j, a, <<>>)
  BY <1>5, <1>7, Nothing DEF ExtremeSummary
<1>15. j.kernel = "minmax" => MinMaxSummary(j, a, <<>>)
  <2>1. {Identity(j)} \union Values(<<>>) = {Identity(j)}
    BY Nothing
  <2>2. Identity(j) \in Int
    BY Numbers DEF Identity
  <2>3. IsBest(j.find_min, Identity(j), {Identity(j)})
    BY <2>2 DEF IsBest
  <2> QED
    BY <1>4, <1>7, <2>1, <2>3, Nothing DEF MinMaxSummary
<1>16. FirstSummary(j, a, <<>>)
  BY <1>7, Nothing DEF FirstSummary
<1> QED
  BY <1>6, <1>7, <1>8, <1>9, <1>10, <1>11, <1>12, <1>13, <1>14, <1>15, <1>16 DEF Summary, a

\* A job starts with the summary of nothing.
LEMMA InitIInv == Init => IInv
<1> SUFFICES ASSUME Init PROVE IInv
  OBVIOUS
<1>1. job \in Jobs /\ pass = "total" /\ offset = 0 /\ acc = Start(job) /\ result = Pending
  BY DEF Init
<1>2. JobOK(job)
  BY <1>1, JobsOK
<1>3. job.data \in Seq(Int) /\ Len(job.data) \in Nat
  BY <1>2, JobHas
<1>4. Read = <<>>
  BY <1>1, <1>3, Segment DEF Read
<1>5. acc \in Locals /\ (job.kernel \in Kernels => Summary(job, pass, acc, Read))
  BY <1>1, <1>2, <1>4, StartIs
<1>6. TypeInv
  BY <1>1, <1>3, <1>5 DEF TypeInv, Passes, n
<1> QED
  BY <1>1, <1>5, <1>6 DEF IInv

\* What a turn of a kernel's loop finds: what was read, and the chunk after it.
LEMMA ReadIs ==
    ASSUME IInv
    PROVE  /\ JobOK(job) /\ job.data \in Seq(Elems(job)) /\ n = Len(job.data) /\ n \in Nat
           /\ Read \in Seq(Elems(job)) /\ Len(Read) = offset /\ offset \in 0..n
           /\ SubSeq(job.data, 1, n) = job.data
<1>1. JobOK(job) /\ offset \in 0..n
  BY JobsOK DEF IInv, TypeInv
<1>2. job.data \in Seq(Elems(job)) /\ n = Len(job.data) /\ n \in Nat
  BY <1>1, JobHas DEF n
<1>3. Read \in Seq(Elems(job)) /\ Len(Read) = offset /\ SubSeq(job.data, 1, n) = job.data
  BY <1>1, <1>2, Segment DEF Read
<1> QED
  BY <1>1, <1>2, <1>3

\* The next chunk extends what has been read.
LEMMA ElementsAre ==
    ASSUME IInv, NEW got \in 1 .. n - offset
    PROVE  /\ Elements(got) \in Seq(Elems(job))
           /\ offset + got \in 0..n
           /\ SubSeq(job.data, 1, offset + got) = Read \o Elements(got)
<1> DEFINE d == job.data
           c == Elements(got)
           x == SubSeq(d, 1, offset + got)
           y == Read \o c
<1>1. /\ d \in Seq(Elems(job)) /\ n = Len(d) /\ n \in Nat /\ offset \in 0..n
      /\ Read \in Seq(Elems(job)) /\ Len(Read) = offset
  BY ReadIs
<1>2. \A i \in 1..n : d[i] \in Elems(job)
  BY <1>1, ElementOfSeq
<1>3. \A i \in 1..got : offset + i \in 1..n
  BY <1>1
<1>4. c = [i \in 1..got |-> d[offset + i]]
  <2>1. \A i \in 1..got : offset + i <= n
    BY <1>1, <1>3
  <2> QED
    BY <2>1 DEF Elements
<1>5. c \in Seq(Elems(job)) /\ Len(c) = got
  <2>1. c \in [1..got -> Elems(job)]
    BY <1>2, <1>3, <1>4
  <2>2. got \in Nat
    BY <1>1
  <2>3. c \in Seq(Elems(job))
    BY <2>1, <2>2, SeqDef
  <2> HIDE DEF c
  <2> QED
    BY <2>1, <2>2, <2>3
<1>6. offset + got \in 0..n
  BY <1>1
<1>7. x \in Seq(Elems(job)) /\ Len(x) = offset + got
  BY <1>1, <1>6, Segment
<1>8. \A i \in 1 .. offset + got : x[i] = d[i]
  BY <1>1, <1>6
<1>9. \A i \in 1..offset : Read[i] = d[i]
  BY <1>1 DEF Read
<1> HIDE DEF c, x, d
<1>10. y \in Seq(Elems(job)) /\ Len(y) = offset + got
  BY <1>1, <1>5, Joined
<1>11. ASSUME NEW i \in 1 .. offset + got PROVE y[i] = x[i]
  <2>1. CASE i \in 1..offset
    <3>1. y[i] = Read[i]
      BY <1>1, <1>5, <2>1, Joined
    <3> QED
      BY <1>8, <1>9, <2>1, <3>1
  <2>2. CASE i \notin 1..offset
    <3> DEFINE k == i - offset
    <3>1. k \in 1..got /\ i = offset + k
      BY <1>1, <2>2
    <3> HIDE DEF k
    <3>2. y[offset + k] = c[k]
      <4>1. \A h \in 1..Len(c) : (Read \o c)[Len(Read) + h] = c[h]
        BY <1>1, <1>5, Joined
      <4> QED
        BY <1>1, <1>5, <3>1, <4>1
    <3>3. c[k] = d[offset + k]
      BY <1>4, <3>1
    <3> QED
      BY <1>8, <3>1, <3>2, <3>3
  <2> QED
    BY <2>1, <2>2
<1> HIDE DEF y
<1>12. x = y
  BY <1>7, <1>10, <1>11
<1> QED
  BY <1>5, <1>6, <1>12 DEF c, x, y, d

-----------------------------------------------------------------------------
(***************************************************************************)
(* Every step keeps the invariant.                                          *)
(***************************************************************************)
\* What a class answers is refused or lies within the data.
LEMMA AnswerIs ==
    ASSUME IInv, offset < n, NEW got \in Answers(Want), checkedRegionCount(got, Want)
    PROVE  /\ got \in 1 .. n - offset
           /\ job.source = "direct" => offset + got = n
<1>1. n \in Nat /\ offset \in 0..n /\ JobOK(job)
  BY ReadIs
<1>2. job.source = "direct" => offset = 0
  BY <1>1 DEF IInv, TypeInv
<1>3. got > 0 /\ got <= Want
  BY DEF checkedRegionCount
<1>4. CASE job.source = "direct"
  <2>1. got = n
    BY <1>4 DEF Answers
  <2> QED
    BY <1>1, <1>2, <1>3, <1>4, <2>1
<1>5. CASE job.source # "direct"
  <2> DEFINE S == {Chunk, n - offset}
             want == Min(S)
  <2>1. Chunk \in Nat
    BY ReductionsAssumption
  <2>2. S \subseteq Nat /\ S # {} /\ n - offset \in S
    BY <1>1, <2>1
  <2>3. Want = want
    BY <1>5 DEF Want
  <2> HIDE DEF S
  <2>4. want \in Nat /\ want <= n - offset
    BY <2>2, Least
  <2> HIDE DEF want
  <2>5. got \in Int
    BY <1>1, <1>5, <2>3, <2>4 DEF Answers
  <2> QED
    BY <1>1, <1>3, <1>5, <2>3, <2>4, <2>5
<1> QED
  BY <1>4, <1>5

\* A turn of a loop whose body keeps the summary.
LEMMA TurnKeeps ==
    ASSUME IInv, result = Pending, offset < n, job.kernel \in Kernels,
           NEW got \in Answers(Want), NEW taken, next(got, taken),
           got \in 1 .. n - offset =>
              taken \in Locals /\ Summary(job, pass, taken, Read \o Elements(got))
    PROVE  IInv'
<1>1. job' = job /\ pass' = pass
  BY DEF next
<1>2. n' = n /\ n \in Nat /\ offset \in 0..n
  BY <1>1, ReadIs DEF n
<1>3. job.kernel \notin Methods
  BY DEF Kernels, Methods
<1>4. CASE checkedRegionCount(got, Want)
  <2>1. acc' = taken /\ offset' = offset + got /\ result' = result
    BY <1>4 DEF next
  <2>2. got \in 1 .. n - offset /\ (job.source = "direct" => offset + got = n)
    BY <1>4, AnswerIs
  <2>3. taken \in Locals /\ Summary(job, pass, taken, Read \o Elements(got))
    BY <2>2
  <2>4. offset + got \in 0..n /\ SubSeq(job.data, 1, offset + got) = Read \o Elements(got)
    BY <2>2, ElementsAre
  <2>5. Read' = Read \o Elements(got)
    BY <1>1, <2>1, <2>4 DEF Read
  <2>6. Summary(job, pass, acc, Read)'
    BY <1>1, <2>1, <2>3, <2>5
  <2>7. TypeInv'
    BY <1>1, <1>2, <2>1, <2>2, <2>3, <2>4 DEF IInv, TypeInv
  <2>8. result' = Pending /\ Pending' = Pending
    BY <2>1 DEF Pending
  <2> QED
    BY <1>1, <1>3, <2>6, <2>7, <2>8 DEF IInv
<1>5. CASE ~checkedRegionCount(got, Want)
  <2>1. acc' = acc /\ offset' = offset /\ result' = Failed
    BY <1>5 DEF next
  <2>2. TypeInv'
    BY <1>1, <1>2, <2>1 DEF IInv, TypeInv
  <2>3. Read' = Read
    BY <1>1, <2>1 DEF Read
  <2>4. Summary(job, pass, acc, Read)'
    BY <1>1, <2>1, <2>3 DEF IInv
  <2>5. Failed' = Failed
    BY DEF Failed
  <2> QED
    BY <1>1, <1>3, <2>1, <2>2, <2>4, <2>5 DEF IInv
<1> QED
  BY <1>4, <1>5

\* Every action of the kernels keeps the invariant.
LEMMA RealSumAccumulatorKeeps == IInv /\ RealSumAccumulator => IInv'
<1> SUFFICES ASSUME IInv, RealSumAccumulator PROVE IInv'
  OBVIOUS
<1>1. job.kernel = "sum" /\ result = Pending /\ offset < n
  BY DEF RealSumAccumulator, Take
<1>2. PICK got \in Answers(Want) : next(got, FoldLeft(AddReal, acc, Elements(got)))
  BY DEF RealSumAccumulator, Take
<1> DEFINE taken == FoldLeft(AddReal, acc, Elements(got))
<1>3. JobOK(job) /\ Read \in Seq(Elems(job)) /\ acc \in Locals /\ Summary(job, pass, acc, Read)
  BY <1>1, ReadIs DEF IInv, TypeInv, Kernels
<1>4. ASSUME got \in 1 .. n - offset
      PROVE  taken \in Locals /\ Summary(job, pass, taken, Read \o Elements(got))
  <2>1. Elements(got) \in Seq(Elems(job))
    BY <1>4, ElementsAre
  <2> QED
    BY <1>1, <1>3, <2>1, AddRealChunk
<1> HIDE DEF taken
<1>5. job.kernel \in Kernels
  BY <1>1 DEF Kernels
<1> QED
  BY <1>1, <1>2, <1>4, <1>5, TurnKeeps DEF taken

LEMMA MeanTotalKeeps == IInv /\ MeanTotal => IInv'
<1> SUFFICES ASSUME IInv, MeanTotal PROVE IInv'
  OBVIOUS
<1>1. job.kernel = "mean" /\ result = Pending /\ offset < n /\ pass = "total"
  BY DEF MeanTotal, Take
<1>2. PICK got \in Answers(Want) :
         next(got, FoldLeft(AddReal, acc, Elements(got)))
  BY DEF MeanTotal, Take
<1> DEFINE taken == FoldLeft(AddReal, acc, Elements(got))
<1>3. /\ JobOK(job) /\ Read \in Seq(Elems(job)) /\ acc \in Locals
      /\ Summary(job, pass, acc, Read)
  BY <1>1, ReadIs DEF IInv, TypeInv, Kernels
<1>4. ASSUME got \in 1 .. n - offset
      PROVE  taken \in Locals /\ Summary(job, pass, taken, Read \o Elements(got))
  <2>1. Elements(got) \in Seq(Elems(job))
    BY <1>4, ElementsAre
  <2> QED
    BY <1>1, <1>3, <2>1, AddRealChunk
<1> HIDE DEF taken
<1>5. job.kernel \in Kernels
  BY <1>1 DEF Kernels
<1> QED
  BY <1>1, <1>2, <1>4, <1>5, TurnKeeps DEF taken

LEMMA MeanScaledKeeps == IInv /\ MeanScaled => IInv'
<1> SUFFICES ASSUME IInv, MeanScaled PROVE IInv'
  OBVIOUS
<1>1. job.kernel = "mean" /\ result = Pending /\ offset < n /\ pass = "scaled"
  BY DEF MeanScaled, Take
<1>2. PICK got \in Answers(Want) :
         next(got, FoldLeft(AddScaled, acc, Elements(got)))
  BY DEF MeanScaled, Take
<1> DEFINE taken == FoldLeft(AddScaled, acc, Elements(got))
<1>3. /\ JobOK(job) /\ Read \in Seq(Elems(job)) /\ acc \in Locals
      /\ Summary(job, pass, acc, Read)
  BY <1>1, ReadIs DEF IInv, TypeInv, Kernels
<1>4. ASSUME got \in 1 .. n - offset
      PROVE  taken \in Locals /\ Summary(job, pass, taken, Read \o Elements(got))
  <2>1. Elements(got) \in Seq(Elems(job))
    BY <1>4, ElementsAre
  <2> QED
    BY <1>1, <1>3, <2>1, AddScaledChunk
<1> HIDE DEF taken
<1>5. job.kernel \in Kernels
  BY <1>1 DEF Kernels
<1> QED
  BY <1>1, <1>2, <1>4, <1>5, TurnKeeps DEF taken

LEMMA realMeanCorrectionKeeps == IInv /\ realMeanCorrection => IInv'
<1> SUFFICES ASSUME IInv, realMeanCorrection PROVE IInv'
  OBVIOUS
<1>1. job.kernel = "mean" /\ result = Pending /\ offset < n /\ pass = "correction"
  BY DEF realMeanCorrection, Take
<1>2. PICK got \in Answers(Want) :
         next(got, FoldLeft(AddDifference, acc, Elements(got)))
  BY DEF realMeanCorrection, Take
<1> DEFINE taken == FoldLeft(AddDifference, acc, Elements(got))
<1>3. /\ JobOK(job) /\ Read \in Seq(Elems(job)) /\ acc \in Locals
      /\ Summary(job, pass, acc, Read)
  BY <1>1, ReadIs DEF IInv, TypeInv, Kernels
<1>4. ASSUME got \in 1 .. n - offset
      PROVE  taken \in Locals /\ Summary(job, pass, taken, Read \o Elements(got))
  <2>1. Elements(got) \in Seq(Elems(job))
    BY <1>4, ElementsAre
  <2> QED
    BY <1>1, <1>3, <2>1, AddDifferenceChunk
<1> HIDE DEF taken
<1>5. job.kernel \in Kernels
  BY <1>1 DEF Kernels
<1> QED
  BY <1>1, <1>2, <1>4, <1>5, TurnKeeps DEF taken

LEMMA sumIntKeeps == IInv /\ sumInt => IInv'
<1> SUFFICES ASSUME IInv, sumInt PROVE IInv'
  OBVIOUS
<1>1. job.kernel = "sumInt" /\ result = Pending /\ offset < n
  BY DEF sumInt, Take
<1>2. PICK got \in Answers(Want) :
         next(got, LaneSum(acc, Elements(got)))
  BY DEF sumInt, Take
<1> DEFINE taken == LaneSum(acc, Elements(got))
<1>3. /\ JobOK(job) /\ Read \in Seq(Elems(job)) /\ acc \in Locals
      /\ Summary(job, pass, acc, Read)
  BY <1>1, ReadIs DEF IInv, TypeInv, Kernels
<1>4. ASSUME got \in 1 .. n - offset
      PROVE  taken \in Locals /\ Summary(job, pass, taken, Read \o Elements(got))
  <2>1. Elements(got) \in Seq(Elems(job))
    BY <1>4, ElementsAre
  <2> QED
    BY <1>1, <1>3, <2>1, SumIntChunk
<1> HIDE DEF taken
<1>5. job.kernel \in Kernels
  BY <1>1 DEF Kernels
<1> QED
  BY <1>1, <1>2, <1>4, <1>5, TurnKeeps DEF taken

LEMMA norm2Keeps == IInv /\ norm2 => IInv'
<1> SUFFICES ASSUME IInv, norm2 PROVE IInv'
  OBVIOUS
<1>1. job.kernel = "norm2" /\ result = Pending /\ offset < n
  BY DEF norm2, Take
<1>2. PICK got \in Answers(Want) :
         next(got, LaneSum(acc, Squares(Elements(got))))
  BY DEF norm2, Take
<1> DEFINE taken == LaneSum(acc, Squares(Elements(got)))
<1>3. /\ JobOK(job) /\ Read \in Seq(Elems(job)) /\ acc \in Locals
      /\ Summary(job, pass, acc, Read)
  BY <1>1, ReadIs DEF IInv, TypeInv, Kernels
<1>4. ASSUME got \in 1 .. n - offset
      PROVE  taken \in Locals /\ Summary(job, pass, taken, Read \o Elements(got))
  <2>1. Elements(got) \in Seq(Elems(job))
    BY <1>4, ElementsAre
  <2> QED
    BY <1>1, <1>3, <2>1, Norm2Chunk
<1> HIDE DEF taken
<1>5. job.kernel \in Kernels
  BY <1>1 DEF Kernels
<1> QED
  BY <1>1, <1>2, <1>4, <1>5, TurnKeeps DEF taken

LEMMA scaleAddKeeps == IInv /\ scaleAdd => IInv'
<1> SUFFICES ASSUME IInv, scaleAdd PROVE IInv'
  OBVIOUS
<1>1. job.kernel = "scaleAdd" /\ result = Pending /\ offset < n
  BY DEF scaleAdd, Take
<1>2. PICK got \in Answers(Want) :
         next(got, LaneSum(acc, Scaled(Elements(got))))
  BY DEF scaleAdd, Take
<1> DEFINE taken == LaneSum(acc, Scaled(Elements(got)))
<1>3. /\ JobOK(job) /\ Read \in Seq(Elems(job)) /\ acc \in Locals
      /\ Summary(job, pass, acc, Read)
  BY <1>1, ReadIs DEF IInv, TypeInv, Kernels
<1>4. ASSUME got \in 1 .. n - offset
      PROVE  taken \in Locals /\ Summary(job, pass, taken, Read \o Elements(got))
  <2>1. Elements(got) \in Seq(Elems(job))
    BY <1>4, ElementsAre
  <2> QED
    BY <1>1, <1>3, <2>1, ScaleAddChunk
<1> HIDE DEF taken
<1>5. job.kernel \in Kernels
  BY <1>1 DEF Kernels
<1> QED
  BY <1>1, <1>2, <1>4, <1>5, TurnKeeps DEF taken

LEMMA countTrueKeeps == IInv /\ countTrue => IInv'
<1> SUFFICES ASSUME IInv, countTrue PROVE IInv'
  OBVIOUS
<1>1. job.kernel = "countTrue" /\ result = Pending /\ offset < n
  BY DEF countTrue, Take
<1>2. PICK got \in Answers(Want) :
         next(got, FoldLeft(AddTrue, acc, Elements(got)))
  BY DEF countTrue, Take
<1> DEFINE taken == FoldLeft(AddTrue, acc, Elements(got))
<1>3. /\ JobOK(job) /\ Read \in Seq(Elems(job)) /\ acc \in Locals
      /\ Summary(job, pass, acc, Read)
  BY <1>1, ReadIs DEF IInv, TypeInv, Kernels
<1>4. ASSUME got \in 1 .. n - offset
      PROVE  taken \in Locals /\ Summary(job, pass, taken, Read \o Elements(got))
  <2>1. Elements(got) \in Seq(Elems(job))
    BY <1>4, ElementsAre
  <2> QED
    BY <1>1, <1>3, <2>1, AddTrueChunk
<1> HIDE DEF taken
<1>5. job.kernel \in Kernels
  BY <1>1 DEF Kernels
<1> QED
  BY <1>1, <1>2, <1>4, <1>5, TurnKeeps DEF taken

LEMMA cumsumKeeps == IInv /\ cumsum => IInv'
<1> SUFFICES ASSUME IInv, cumsum PROVE IInv'
  OBVIOUS
<1>1. job.kernel = "cumsum" /\ result = Pending /\ offset < n
  BY DEF cumsum, Take
<1>2. PICK got \in Answers(Want) :
         next(got, FoldLeft(AddCumulative, acc, Elements(got)))
  BY DEF cumsum, Take
<1> DEFINE taken == FoldLeft(AddCumulative, acc, Elements(got))
<1>3. /\ JobOK(job) /\ Read \in Seq(Elems(job)) /\ acc \in Locals
      /\ Summary(job, pass, acc, Read)
  BY <1>1, ReadIs DEF IInv, TypeInv, Kernels
<1>4. ASSUME got \in 1 .. n - offset
      PROVE  taken \in Locals /\ Summary(job, pass, taken, Read \o Elements(got))
  <2>1. Elements(got) \in Seq(Elems(job))
    BY <1>4, ElementsAre
  <2> QED
    BY <1>1, <1>3, <2>1, AddCumulativeChunk
<1> HIDE DEF taken
<1>5. job.kernel \in Kernels
  BY <1>1 DEF Kernels
<1> QED
  BY <1>1, <1>2, <1>4, <1>5, TurnKeeps DEF taken

LEMMA minmaxIntChunksKeeps == IInv /\ minmaxIntChunks => IInv'
<1> SUFFICES ASSUME IInv, minmaxIntChunks PROVE IInv'
  OBVIOUS
<1>1. job.kernel = "minmaxInt" /\ result = Pending /\ offset < n
  BY DEF minmaxIntChunks, Take
<1>2. PICK got \in Answers(Want) :
         next(got, FoldLeft(AddExtreme, acc, Elements(got)))
  BY DEF minmaxIntChunks, Take
<1> DEFINE taken == FoldLeft(AddExtreme, acc, Elements(got))
<1>3. /\ JobOK(job) /\ Read \in Seq(Elems(job)) /\ acc \in Locals
      /\ Summary(job, pass, acc, Read)
  BY <1>1, ReadIs DEF IInv, TypeInv, Kernels
<1>4. ASSUME got \in 1 .. n - offset
      PROVE  taken \in Locals /\ Summary(job, pass, taken, Read \o Elements(got))
  <2>1. Elements(got) \in Seq(Elems(job))
    BY <1>4, ElementsAre
  <2> QED
    BY <1>1, <1>3, <2>1, AddExtremeChunk
<1> HIDE DEF taken
<1>5. job.kernel \in Kernels
  BY <1>1 DEF Kernels
<1> QED
  BY <1>1, <1>2, <1>4, <1>5, TurnKeeps DEF taken

LEMMA minmaxKeeps == IInv /\ minmax => IInv'
<1> SUFFICES ASSUME IInv, minmax PROVE IInv'
  OBVIOUS
<1>1. job.kernel = "minmax" /\ result = Pending /\ offset < n
  BY DEF minmax, Take
<1>2. PICK got \in Answers(Want) :
         next(got, FoldLeft(AddMinMax, MinMaxLanes(acc, Elements(got)),
                       Of(Elements(got), Tail_(Elements(got)))))
  BY DEF minmax, Take
<1> DEFINE taken == FoldLeft(AddMinMax, MinMaxLanes(acc, Elements(got)),
                       Of(Elements(got), Tail_(Elements(got))))
<1>3. /\ JobOK(job) /\ Read \in Seq(Elems(job)) /\ acc \in Locals
      /\ Summary(job, pass, acc, Read)
  BY <1>1, ReadIs DEF IInv, TypeInv, Kernels
<1>4. ASSUME got \in 1 .. n - offset
      PROVE  taken \in Locals /\ Summary(job, pass, taken, Read \o Elements(got))
  <2>1. Elements(got) \in Seq(Elems(job))
    BY <1>4, ElementsAre
  <2> QED
    BY <1>1, <1>3, <2>1, MinMaxChunk
<1> HIDE DEF taken
<1>5. job.kernel \in Kernels
  BY <1>1 DEF Kernels
<1> QED
  BY <1>1, <1>2, <1>4, <1>5, TurnKeeps DEF taken

LEMMA argminmaxKeeps == IInv /\ argminmax => IInv'
<1> SUFFICES ASSUME IInv, argminmax PROVE IInv'
  OBVIOUS
<1>1. job.kernel = "argminmax" /\ result = Pending /\ offset < n
  BY DEF argminmax, Take
<1>2. PICK got \in Answers(Want) :
         next(got, AddBest(acc, Elements(got)))
  BY DEF argminmax, Take
<1> DEFINE taken == AddBest(acc, Elements(got))
<1>3. /\ JobOK(job) /\ Read \in Seq(Elems(job)) /\ acc \in Locals
      /\ Summary(job, pass, acc, Read) /\ offset = Len(Read)
  BY <1>1, ReadIs DEF IInv, TypeInv, Kernels
<1>4. ASSUME got \in 1 .. n - offset
      PROVE  taken \in Locals /\ Summary(job, pass, taken, Read \o Elements(got))
  <2>1. Elements(got) \in Seq(Elems(job))
    BY <1>4, ElementsAre
  <2> QED
    BY <1>1, <1>3, <2>1, AddBestChunk
<1> HIDE DEF taken
<1>5. job.kernel \in Kernels
  BY <1>1 DEF Kernels
<1> QED
  BY <1>1, <1>2, <1>4, <1>5, TurnKeeps DEF taken

\* At the end of a pass of the mean everything has been read.
LEMMA MeanEndIs ==
    ASSUME IInv, MeanEnd
    PROVE  /\ JobOK(job) /\ job.kernel = "mean" /\ acc \in Locals /\ pass \in Passes
           /\ Unused(job, acc) /\ MeanSummary(job, pass, acc, job.data)
           /\ Summary(job, pass, acc, job.data)
<1>1. /\ JobOK(job) /\ n \in Nat /\ offset \in 0..n /\ SubSeq(job.data, 1, n) = job.data
  BY ReadIs
<1>2. job.kernel = "mean" /\ job.kernel \in Kernels /\ offset = n
  BY <1>1 DEF MeanEnd, Kernels
<1>3. Summary(job, pass, acc, job.data)
  BY <1>1, <1>2 DEF IInv, Read
<1> QED
  BY <1>1, <1>2, <1>3 DEF IInv, TypeInv, Summary

\* The mean can then be divided.
LEMMA DivisibleIs ==
    ASSUME IInv, MeanEnd, acc.missing = "none", acc.count # 0, pass \in {"total", "scaled"}
    PROVE  Divisible(job, acc) /\ acc.total = SumOf(job.data) /\ acc.correction = 0
<1>1. /\ JobOK(job) /\ acc \in Locals /\ MeanSummary(job, pass, acc, job.data)
  BY MeanEndIs
<1>2. CASE pass = "scaled"
  BY <1>1, <1>2 DEF MeanSummary
<1>3. CASE pass = "total"
  <2> DEFINE l == Len(job.data)
             k == Cardinality(Indices(job.data))
  <2>1. job.data \in Seq(Int) /\ l \in Nat
    BY <1>1, JobHas
  <2>2. k \in Int
    BY <2>1, AppendedIndices
  <2>3. /\ acc.total = SumOf(job.data) /\ acc.correction = 0 /\ acc.count = l - l + k
        /\ acc.missing = (IF job.na_rm THEN "none" ELSE MissingIn(job.data))
    BY <1>1, <1>3 DEF MeanSummary, RealSummary
  <2> HIDE DEF l
  <2>4. acc.count = k
    <3> HIDE DEF k
    <3> QED
      BY <2>1, <2>2, <2>3
  <2>5. job.na_rm \/ MissingIn(job.data) = "none"
    BY <2>3
  <2> QED
    BY <2>3, <2>4, <2>5 DEF Divisible
<1> QED
  BY <1>2, <1>3

LEMMA realMeanChunksScaleKeeps == IInv /\ realMeanChunksScale => IInv'
<1> SUFFICES ASSUME IInv, realMeanChunksScale PROVE IInv'
  OBVIOUS
<1> DEFINE b == [acc EXCEPT !.total = 0]
<1>1. /\ MeanEnd /\ pass = "total" /\ acc.missing = "none" /\ acc.count # 0
      /\ pass' = "scaled" /\ offset' = 0 /\ acc' = b /\ job' = job /\ result' = result
  BY DEF realMeanChunksScale, NextPass, Rewind
<1>2. /\ JobOK(job) /\ job.kernel = "mean" /\ acc \in Locals /\ Unused(job, acc)
  BY <1>1, MeanEndIs
<1>3. Divisible(job, acc) /\ acc.correction = 0
  BY <1>1, DivisibleIs
<1>4. /\ b \in Locals /\ b.total = 0 /\ b.missing = acc.missing /\ b.count = acc.count
      /\ b.correction = acc.correction /\ b.idx = acc.idx /\ b.out = acc.out
  <2>1. b \in Locals
    BY <1>2, NewTotal
  <2>2. /\ b.total = 0 /\ b.missing = acc.missing /\ b.count = acc.count
        /\ b.correction = acc.correction /\ b.idx = acc.idx /\ b.out = acc.out
    BY <1>2 DEF Locals
  <2> QED
    BY <2>1, <2>2
<1> HIDE DEF b
<1>5. Unused(job, b) /\ Divisible(job, b)
  BY <1>2, <1>3, <1>4 DEF Unused, Divisible
<1>6. MeanSummary(job, "scaled", b, <<>>)
  BY <1>3, <1>4, <1>5, Nothing DEF MeanSummary
<1>7. Summary(job, "scaled", b, <<>>)
  BY <1>2, <1>5, <1>6 DEF Summary
<1>8. /\ n' = n /\ n \in Nat /\ job.data \in Seq(Elems(job))
  BY <1>1, ReadIs DEF n
<1>9. Read' = <<>>
  BY <1>1, <1>8, Segment DEF Read
<1>10. Summary(job, pass, acc, Read)'
  BY <1>1, <1>7, <1>9
<1>11. TypeInv'
  BY <1>1, <1>2, <1>4, <1>8 DEF IInv, TypeInv, Passes
<1>12. result' = Pending /\ Pending' = Pending
  BY <1>1 DEF MeanEnd, Pending
<1>13. job.kernel \notin Methods
  BY <1>2 DEF Methods
<1> QED
  BY <1>1, <1>10, <1>11, <1>12, <1>13 DEF IInv

LEMMA realMeanChunksCorrectKeeps == IInv /\ realMeanChunksCorrect => IInv'
<1> SUFFICES ASSUME IInv, realMeanChunksCorrect PROVE IInv'
  OBVIOUS
<1>1. /\ MeanEnd /\ pass \in {"total", "scaled"} /\ acc.missing = "none" /\ acc.count # 0
      /\ FiniteMean
      /\ pass' = "correction" /\ offset' = 0 /\ acc' = acc /\ job' = job /\ result' = result
  BY DEF realMeanChunksCorrect, NextPass, Rewind
<1>2. /\ JobOK(job) /\ job.kernel = "mean" /\ acc \in Locals /\ Unused(job, acc)
  BY <1>1, MeanEndIs
<1>3. Divisible(job, acc) /\ acc.total = SumOf(job.data) /\ acc.correction = 0
  BY <1>1, DivisibleIs
<1>4. acc.correction = acc.count * SumOf(<<>>) - acc.total * Cardinality(Indices(<<>>))
  <2>1. acc.count \in Int /\ acc.total \in Int
    BY <1>2, LocalsHas
  <2>2. acc.count * 0 - acc.total * 0 = 0
    BY <2>1
  <2> QED
    BY <1>3, <2>2, Nothing
<1>5. MeanSummary(job, "correction", acc, <<>>)
  BY <1>1, <1>3, <1>4 DEF MeanSummary, FiniteMean
<1>6. Summary(job, "correction", acc, <<>>)
  BY <1>2, <1>5 DEF Summary
<1>7. /\ n' = n /\ n \in Nat /\ job.data \in Seq(Elems(job))
  BY <1>1, ReadIs DEF n
<1>8. Read' = <<>>
  BY <1>1, <1>7, Segment DEF Read
<1>9. Summary(job, pass, acc, Read)'
  BY <1>1, <1>6, <1>8
<1>10. TypeInv'
  BY <1>1, <1>2, <1>7 DEF IInv, TypeInv, Passes
<1>11. result' = Pending /\ Pending' = Pending
  BY <1>1 DEF MeanEnd, Pending
<1>12. job.kernel \notin Methods
  BY <1>2 DEF Methods
<1> QED
  BY <1>1, <1>9, <1>10, <1>11, <1>12 DEF IInv

\* A step that only sets the result, to what it should be.
LEMMA ResultKeeps ==
    ASSUME IInv, UNCHANGED <<job, pass, offset, acc>>,
           result' \in {Pending, Failed, Done(Reference(job, job.data))}
    PROVE  IInv'
<1>1. job' = job /\ pass' = pass /\ offset' = offset /\ acc' = acc /\ n' = n /\ Read' = Read
  BY DEF n, Read
<1>2. TypeInv'
  BY <1>1 DEF IInv, TypeInv
<1>3. result' \in {Pending, Failed, Done(Reference(job, job.data))}'
  BY <1>1 DEF Pending, Failed, Done
<1> QED
  BY <1>1, <1>2, <1>3 DEF IInv

LEMMA realMeanChunksReturnKeeps == IInv /\ realMeanChunksReturn => IInv'
<1> SUFFICES ASSUME IInv, realMeanChunksReturn PROVE IInv'
  OBVIOUS
<1>1. /\ MeanEnd /\ result' = Done(Mean) /\ UNCHANGED <<job, pass, offset, acc>>
      /\ \/ acc.missing # "none" \/ acc.count = 0
         \/ pass = "correction"
         \/ pass = "scaled" /\ ~FiniteMean
  BY DEF realMeanChunksReturn
<1>2. /\ JobOK(job) /\ job.kernel = "mean" /\ acc \in Locals /\ pass \in Passes
      /\ Summary(job, pass, acc, job.data)
  BY <1>1, MeanEndIs
<1>3. Mean = Reference(job, job.data)
  BY <1>1, <1>2, MeanIs DEF Passes
<1> QED
  BY <1>1, <1>3, ResultKeeps

LEMMA ReturnKeeps == IInv /\ Return => IInv'
<1> SUFFICES ASSUME IInv, Return PROVE IInv'
  OBVIOUS
<1>1. /\ job.kernel \in Kernels \ {"mean"} /\ offset >= n /\ result' = Done(Finish(acc))
      /\ UNCHANGED <<job, pass, offset, acc>>
  BY DEF Return
<1>2. /\ JobOK(job) /\ n \in Nat /\ offset \in 0..n /\ SubSeq(job.data, 1, n) = job.data
      /\ job.data \in Seq(Elems(job))
  BY ReadIs
<1>3. offset = n
  BY <1>1, <1>2
<1>4. Summary(job, pass, acc, job.data) /\ acc \in Locals
  BY <1>1, <1>2, <1>3 DEF IInv, TypeInv, Read
<1>5. Finish(acc) = Reference(job, job.data)
  BY <1>1, <1>2, <1>4, FinishIs
<1> QED
  BY <1>1, <1>5, ResultKeeps

LEMMA CallMethodKeeps == IInv /\ CallMethod => IInv'
<1> SUFFICES ASSUME IInv, CallMethod PROVE IInv'
  OBVIOUS
<1>1. JobOK(job)
  BY ReadIs
<1>2. result' = Done(Reference(job, job.data))
  BY <1>1, CallMethodIs
<1>3. UNCHANGED <<job, pass, offset, acc>>
  BY DEF CallMethod
<1> QED
  BY <1>2, <1>3, ResultKeeps

\* The invariant is inductive.
LEMMA NextIInv == IInv /\ [Next]_vars => IInv'
<1> SUFFICES ASSUME IInv, [Next]_vars PROVE IInv'
  OBVIOUS
<1>1. CASE UNCHANGED vars
  <2>1. UNCHANGED <<job, pass, offset, acc>> /\ result' = result
    BY <1>1 DEF vars
  <2>2. result' \in {Pending, Failed, Done(Reference(job, job.data))}
    BY <2>1 DEF IInv
  <2> QED
    BY <2>1, <2>2, ResultKeeps
<1> QED
  BY <1>1, RealSumAccumulatorKeeps, MeanTotalKeeps, MeanScaledKeeps, realMeanCorrectionKeeps,
     sumIntKeeps, norm2Keeps, scaleAddKeeps, countTrueKeeps, cumsumKeeps, minmaxIntChunksKeeps,
     minmaxKeeps, argminmaxKeeps, realMeanChunksScaleKeeps, realMeanChunksCorrectKeeps,
     realMeanChunksReturnKeeps, ReturnKeeps, CallMethodKeeps
  DEF Next

\* The invariant holds in every behaviour.
LEMMA IInvAlways == Spec => []IInv
BY InitIInv, NextIInv, PTL DEF Spec

-----------------------------------------------------------------------------
(***************************************************************************)
(* The theorems.                                                            *)
(***************************************************************************)
LEMMA IInvTypeOK == IInv => TypeOK
<1> SUFFICES ASSUME IInv PROVE TypeOK
  OBVIOUS
<1>1. /\ JobOK(job) /\ n = Len(job.data) /\ n \in Nat /\ offset \in 0..n
      /\ Read \in Seq(Elems(job)) /\ Len(Read) = offset
  BY ReadIs
<1>2. Read \in Seq(Int) /\ job.data \in Seq(Int)
  BY <1>1, CellsOfJob, JobHas
<1>3. /\ Indices(Read) \subseteq 1..offset /\ Cardinality(Indices(Read)) \in 0..offset
      /\ Cardinality(Indices(job.data)) \in 0..n
  <2>1. ASSUME NEW s \in Seq(Int)
        PROVE  Indices(s) \subseteq 1..Len(s) /\ Cardinality(Indices(s)) \in 0..Len(s)
    <3>1. 0 \in Int
      OBVIOUS
    <3> QED
      BY <3>1, AppendedIndices
  <2> QED
    BY <1>1, <1>2, <2>1
<1>4. job.kernel \in Kernels \/ job.kernel \in Methods
  BY <1>1 DEF JobOK
<1>5. /\ job \in Jobs /\ pass \in {"total", "scaled", "correction"}
      /\ acc.missing \in {"none", "nan", "na"}
      /\ result.is \in {"pending", "done", "AltRepRegionRead"}
  <2>1. job \in Jobs /\ pass \in Passes /\ acc \in Locals
    BY DEF IInv, TypeInv
  <2>2. acc.missing \in MissingKinds
    BY <2>1, LocalsHas
  <2>3. result.is \in {"pending", "done", "AltRepRegionRead"}
    BY DEF IInv, Pending, Failed, Done
  <2> QED
    BY <2>1, <2>2, <2>3 DEF Passes, MissingKinds
<1>6. CASE job.kernel \in Methods
  <2>1. acc.idx = 0 /\ acc.count = n /\ acc.out = <<>>
    BY <1>1, <1>6 DEF IInv, Start
  <2> QED
    BY <1>1, <1>5, <2>1 DEF TypeOK
<1>7. CASE job.kernel \in Kernels
  <2>1. Summary(job, pass, acc, Read) /\ Unused(job, acc) /\ acc \in Locals /\ pass \in Passes
    BY <1>7 DEF IInv, TypeInv, Summary
  <2>2. acc.idx \in 0..n
    <3>1. CASE job.kernel # "argminmax"
      BY <1>1, <2>1, <3>1 DEF Unused
    <3>2. CASE job.kernel = "argminmax" /\ ~acc.found
      BY <1>1, <2>1, <3>2 DEF Summary, FirstSummary
    <3>3. CASE job.kernel = "argminmax" /\ acc.found
      <4>1. IsFirst(job.find_min, At(acc.best, acc.idx), Read, Indices(Read))
        BY <2>1, <3>3 DEF Summary, FirstSummary
      <4>2. acc.idx + 1 \in 1..offset /\ acc.idx \in Int
        BY <1>3, <2>1, <4>1, LocalsHas DEF IsFirst, At
      <4> QED
        BY <1>1, <4>2
    <3> QED
      BY <3>1, <3>2, <3>3
  <2>3. acc.count \in 0..n
    <3>1. CASE job.kernel \notin {"sum", "mean"}
      BY <1>1, <2>1, <3>1 DEF Unused
    <3>2. CASE job.kernel = "sum" \/ (job.kernel = "mean" /\ pass = "total")
      <4>1. acc.count = n - offset + Cardinality(Indices(Read))
        BY <1>1, <2>1, <3>2 DEF Summary, MeanSummary, RealSummary
      <4> QED
        BY <1>1, <1>3, <4>1
    <3>3. CASE job.kernel = "mean" /\ pass # "total"
      <4>1. acc.count = Cardinality(Indices(job.data))
        BY <2>1, <3>3 DEF Summary, MeanSummary, Passes, Divisible
      <4> QED
        BY <1>3, <4>1
    <3> QED
      BY <3>1, <3>2, <3>3
  <2>4. Len(acc.out) <= n
    <3>1. CASE job.kernel # "cumsum"
      BY <1>1, <2>1, <3>1 DEF Unused
    <3>2. CASE job.kernel = "cumsum"
      <4>1. acc.out = [i \in DOMAIN Read |->
                          WorstOf(SubSeq(Read, 1, i), FALSE, RunningSum(SubSeq(Read, 1, i)))]
        BY <2>1, <3>2 DEF Summary, CumulativeSummary
      <4>2. DOMAIN acc.out = 1..offset
        BY <1>1, <1>2, <4>1, RangeIs
      <4>3. acc.out \in Seq(Int)
        BY <2>1, LocalsHas
      <4>4. Len(acc.out) = offset
        BY <1>1, <4>2, <4>3
      <4> QED
        BY <1>1, <4>4
    <3> QED
      BY <3>1, <3>2
  <2> QED
    BY <1>1, <1>5, <2>2, <2>3, <2>4 DEF TypeOK
<1> QED
  BY <1>4, <1>6, <1>7

\* What the invariant implies: each of the three properties.
LEMMA IInvLocals == IInv => LocalsSummarizePrefix
<1> SUFFICES ASSUME IInv PROVE LocalsSummarizePrefix
  OBVIOUS
<1>1. TypeOK
  BY IInvTypeOK
<1>2. ASSUME result = Pending, job.kernel \in Kernels \ {"mean"}
      PROVE  Finish(acc) = Reference(job, SubSeq(job.data, 1, offset))
  <2>1. JobOK(job) /\ Read \in Seq(Elems(job))
    BY ReadIs
  <2>2. Summary(job, pass, acc, Read) /\ acc \in Locals
    BY <1>2 DEF IInv, TypeInv
  <2>3. Finish(acc) = Reference(job, Read)
    BY <1>2, <2>1, <2>2, FinishIs
  <2> QED
    BY <2>3 DEF Read
<1> QED
  BY <1>1, <1>2 DEF LocalsSummarizePrefix

\* However the data is cut into chunks, lanes and a rest, the locals summarize
\* what was read (convert.zig:1837, :2083, :2109, :2246).
THEOREM LocalsSummarizePrefixAlways == Spec => []LocalsSummarizePrefix
BY IInvAlways, IInvLocals, PTL

LEMMA IInvResult == IInv /\ result.is = "done" => result.value = Reference(job, job.data)
BY DEF IInv, Pending, Failed, Done

LEMMA IInvResultIsReference == IInv => ResultIsReference
BY IInvResult DEF ResultIsReference

LEMMA IInvMethodIsReference == IInv => MethodIsReference
BY IInvResult DEF MethodIsReference

\* What a kernel returns is the summary of all the data, whatever regions a class
\* answers with (convert.zig:368, :1937, :1952).
THEOREM ResultIsReferenceAlways == Spec => []ResultIsReference
BY IInvAlways, IInvResultIsReference, PTL

\* A summary method answers for all the elements of its vector: the sum of doubles,
\* of ints, or the number of elements of a logical vector that are not FALSE, the
\* extremes, No_NA and the sortedness (altrep_create.zig:364, :434, :453, :467,
\* :543).
THEOREM MethodIsReferenceAlways == Spec => []MethodIsReference
BY IInvAlways, IInvMethodIsReference, PTL
=============================================================================
