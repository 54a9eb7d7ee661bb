------------------------ MODULE ResultBuilder_proofs ------------------------
(***************************************************************************)
(* Proofs about result builders, for every schema however deeply nested,    *)
(* every capacity of the cleanup stack and every number of activations,     *)
(* builders and values.                                                    *)
(*                                                                         *)
(* The inductive invariant divides both stacks among the activations, each  *)
(* of which owns what was put on them since it began and before the next    *)
(* one did, and says what the owner's program counter allows there.         *)
(***************************************************************************)
EXTENDS ResultBuilder, SequenceTheorems, WellFoundedInduction, TLAPS

-----------------------------------------------------------------------------
(***************************************************************************)
(* The invariant.                                                          *)
(***************************************************************************)
\* The values that an activation names.
Names(a) == ({a.vec, a.names, a.hand} \union {a.held[j].id : j \in DOMAIN a.held}
               \union a.copies) \ {None}

\* What activation k owns: pp[i] for Bottom(k) < i <= Top(k), and frames likewise.
Bottom(k) == Len(calls[k].entry)
Top(k) == IF k = Len(calls) THEN Len(pp) ELSE Len(calls[k + 1].entry)
FrameBottom(k) == calls[k].level
FrameTop(k) == IF k = Len(calls) THEN Len(frames) ELSE calls[k + 1].level

\* A conversion, by its program counter.
HoldsVec(a) == a.pc \notin {"vec", "close", "run"}
RootsVec(a) == HoldsVec(a) /\ a.pc # "vecAlloc"
RootsNames(a) == /\ a.kind \in DOMAIN Schemas
                 /\ a.pc \in {"field", "set", "name", "attr", "dropNames"}
HoldsNames(a) == a.pc = "namesAlloc" \/ RootsNames(a)
HoldsAccess(a) == a.kind = "copy" /\ a.pc \in {"read", "finish", "close"}
One(b) == IF b THEN 1 ELSE 0

ConversionVars(a) ==
    /\ a.pc \in {"names", "namesAlloc", "field", "name", "attr", "dropNames"} =>
          a.kind \in DOMAIN Schemas
    /\ a.pc = "set" => a.kind \in DOMAIN Schemas \union {"strings"}
    /\ a.pc \in {"access", "read"} => a.kind = "copy"
    /\ a.held = <<>> /\ a.copies = {}
    /\ a.vec = None <=> a.pc \in {"vec", "run"}
    /\ a.names # None => /\ a.kind \in DOMAIN Schemas /\ a.names # a.vec
                         /\ a.pc \notin {"vec", "vecAlloc", "names", "run"}
    /\ HoldsNames(a) => a.names # None
    /\ a.hand # None => \/ a.pc \in {"close", "run"}
                        \/ a.pc = "set" /\ a.kind \in DOMAIN Schemas
    /\ a.kind \in DOMAIN Schemas =>
          /\ a.pc \in {"field", "set", "name"} => a.i \in 1 .. Len(Schemas[a.kind])
          /\ a.pc \in {"vec", "vecAlloc", "names", "namesAlloc"} => a.i = 1

\* The vector and the names that are open, and the frames of their builders.
ConversionStacks(a, p, lo, hi, f, flo, fhi) ==
    /\ hi = lo + One(RootsVec(a)) + One(RootsNames(a))
    /\ RootsVec(a) => p[lo + 1] = a.vec
    /\ RootsNames(a) => p[lo + 2] = a.names
    /\ fhi = flo + One(HoldsVec(a)) + One(HoldsNames(a)) + One(HoldsAccess(a))
    /\ HoldsVec(a) =>
          f[flo + 1] = [id |-> a.vec, kind |-> "result", protected |-> RootsVec(a)]
    /\ HoldsNames(a) =>
          f[flo + 2] = [id |-> a.names, kind |-> "result", protected |-> RootsNames(a)]
    /\ HoldsAccess(a) => f[fhi] = [id |-> a.vec, kind |-> "native", protected |-> FALSE]

\* A package function: what it has open is what is on the stack, in this order.
Framed(id, f, flo, fhi) == \E i \in flo + 1 .. fhi : f[i].id = id
Open(h, f, flo, fhi) == ~h.builder \/ Framed(h.id, f, flo, fhi)

UserVars(a) ==
    /\ a.pc \in {"vec", "vecAlloc", "run"}
    /\ a.names = None
    /\ a.vec # None <=> a.pc = "vecAlloc"
    /\ a.hand # None => a.pc = "run"
    /\ \A j, l \in DOMAIN a.held : a.held[j].id = a.held[l].id => j = l
    /\ \A j \in DOMAIN a.held : a.held[j].id # a.hand /\ a.held[j].id # a.vec

\* One frame per builder that is open.
UserFrames(a, f, flo, fhi) ==
    /\ \A i, j \in flo + 1 .. fhi : f[i].id = f[j].id => i = j
    /\ \A i \in flo + 1 .. fhi :
          /\ f[i].kind = "result"
          /\ f[i].protected => \E j \in DOMAIN a.held : a.held[j].id = f[i].id /\ a.held[j].builder
          /\ ~f[i].protected => a.pc = "vecAlloc" /\ f[i].id = a.vec
    /\ a.pc = "vecAlloc" => Framed(a.vec, f, flo, fhi)

UserStack(a, p, lo, hi, f, flo, fhi) ==
    /\ \A i \in lo + 1 .. hi : \E j \in DOMAIN a.held :
          a.held[j].id = p[i] /\ Open(a.held[j], f, flo, fhi)
    /\ \A j \in DOMAIN a.held :
          Open(a.held[j], f, flo, fhi) => \E i \in lo + 1 .. hi : p[i] = a.held[j].id
    /\ \A i, j \in lo + 1 .. hi : \A k, l \in DOMAIN a.held :
          p[i] = a.held[k].id /\ p[j] = a.held[l].id => (i < j <=> k < l)

Own(a, p, lo, hi, f, flo, fhi) ==
    IF a.kind = "user"
    THEN /\ UserVars(a) /\ UserFrames(a, f, flo, fhi)
         /\ UserStack(a, p, lo, hi, f, flo, fhi)
    ELSE ConversionVars(a) /\ ConversionStacks(a, p, lo, hi, f, flo, fhi)

StacksOK ==
    /\ Len(calls) = 0 => Len(pp) = 0 /\ Len(frames) = 0
    /\ Len(calls) > 0 => calls[1].level = 0 /\ ~calls[1].catch
    /\ \A k \in 1 .. Len(calls) :
          /\ Bottom(k) <= Top(k) /\ FrameBottom(k) <= FrameTop(k)
          /\ \A i \in 1 .. Bottom(k) : pp[i] = calls[k].entry[i]
    /\ \A k, l \in 1 .. Len(calls) :
          k < l => Top(k) <= Bottom(l) /\ FrameTop(k) <= FrameBottom(l)

\* A caller has nothing in hand.
Waiting(a) ==
    /\ a.hand = None
    /\ \/ a.kind = "user" /\ a.pc = "run"
       \/ a.kind \in DOMAIN Schemas /\ a.pc = "set"

BuilderInv ==
    /\ TypeOK
    /\ StacksOK
    /\ taken = {}
    /\ \A k \in 1 .. Len(calls) - 1 : Waiting(calls[k])
    /\ \A k, l \in 1 .. Len(calls) : k # l => Names(calls[k]) \cap Names(calls[l]) = {}
    /\ \A k \in 1 .. Len(calls) :
          Own(calls[k], pp, Bottom(k), Top(k), frames, FrameBottom(k), FrameTop(k))

-----------------------------------------------------------------------------
(***************************************************************************)
(* Sequences and numbers.                                                  *)
(***************************************************************************)
LEMMA FrontIs ==
    ASSUME NEW S, NEW s \in Seq(S), Len(s) > 0
    PROVE  /\ Front(s) \in Seq(S) /\ Len(Front(s)) = Len(s) - 1
           /\ \A i \in 1 .. Len(s) - 1 : Front(s)[i] = s[i]
<1> DEFINE n == Len(s) - 1
<1>1. n \in Int /\ Len(s) \in Nat /\ \A i \in 1..n : s[i] \in S
  BY LenProperties, ElementOfSeq
<1>2. Front(s) = SubSeq(s, 1, n)
  BY DEF Front
<1> HIDE DEF n
<1>3. /\ SubSeq(s, 1, n) \in Seq(S)
      /\ Len(SubSeq(s, 1, n)) = IF 1 <= n THEN n - 1 + 1 ELSE 0
      /\ \A i \in 1 .. n - 1 + 1 : SubSeq(s, 1, n)[i] = s[1 + i - 1]
  BY <1>1, SubSeqProperties
<1>4. n \in Nat
  BY <1>1 DEF n
<1>5. Len(Front(s)) = n /\ \A i \in 1..n : Front(s)[i] = s[i]
  BY <1>2, <1>3, <1>4
<1> QED
  BY <1>2, <1>3, <1>5 DEF n

LEMMA StartIs ==
    ASSUME NEW S, NEW s \in Seq(S), NEW n \in Nat, n <= Len(s)
    PROVE  /\ SubSeq(s, 1, n) \in Seq(S) /\ Len(SubSeq(s, 1, n)) = n
           /\ \A i \in 1..n : SubSeq(s, 1, n)[i] = s[i]
<1>1. n \in Int /\ Len(s) \in Nat /\ \A i \in 1..n : s[i] \in S
  BY LenProperties, ElementOfSeq
<1>2. /\ SubSeq(s, 1, n) \in Seq(S)
      /\ Len(SubSeq(s, 1, n)) = IF 1 <= n THEN n - 1 + 1 ELSE 0
      /\ \A i \in 1 .. n - 1 + 1 : SubSeq(s, 1, n)[i] = s[1 + i - 1]
  BY <1>1, SubSeqProperties
<1> QED
  BY <1>2

LEMMA RemovedIs ==
    ASSUME NEW S, NEW s \in Seq(S), NEW k \in 1 .. Len(s)
    PROVE  LET r == RemoveAt(s, k)
           IN  /\ r \in Seq(S) /\ Len(r) = Len(s) - 1
               /\ \A i \in 1 .. Len(s) - 1 : r[i] = s[IF i < k THEN i ELSE i + 1]
<1> DEFINE n == Len(s)
           a == k - 1
           b == k + 1
           x == SubSeq(s, 1, a)
           y == SubSeq(s, b, n)
<1>1. /\ n \in Nat /\ a \in Nat /\ a <= n /\ b \in Int /\ n \in Int /\ n - b + 1 = n - k
      /\ \A i \in b..n : s[i] \in S
  BY LenProperties, ElementOfSeq
<1>2. RemoveAt(s, k) = x \o y
  BY DEF RemoveAt
<1>3. x \in Seq(S) /\ Len(x) = a /\ \A i \in 1..a : x[i] = s[i]
  BY <1>1, StartIs
<1>4. /\ y \in Seq(S) /\ Len(y) = (IF b <= n THEN n - b + 1 ELSE 0)
      /\ \A i \in 1 .. n - b + 1 : y[i] = s[b + i - 1]
  <2> HIDE DEF a, b, n, x
  <2> QED
    BY <1>1, SubSeqProperties
<1> HIDE DEF x, y
<1>5. Len(y) = n - k
  <2>1. n \in Nat /\ k \in 1..n
    BY LenProperties
  <2>2. Len(y) = IF k + 1 <= n THEN n - (k + 1) + 1 ELSE 0
    BY <1>4
  <2> HIDE DEF n
  <2> QED
    BY <2>1, <2>2
<1> HIDE DEF n
<1>6. /\ x \o y \in Seq(S)
      /\ Len(x \o y) = Len(x) + Len(y)
      /\ \A i \in 1 .. Len(x) + Len(y) : (x \o y)[i] =
            IF i <= Len(x) THEN x[i] ELSE y[i - Len(x)]
  BY <1>3, <1>4, ConcatProperties
<1>7. Len(x) + Len(y) = n - 1
  BY <1>1, <1>3, <1>5
<1>8. \A i \in 1 .. n - 1 : (x \o y)[i] = s[IF i < k THEN i ELSE i + 1]
  <2> TAKE i \in 1 .. n - 1
  <2>1. CASE i < k
    BY <1>1, <1>3, <1>6, <1>7, <2>1
  <2>2. CASE ~(i < k)
    <3>1. (x \o y)[i] = y[i - a]
      BY <1>1, <1>3, <1>6, <1>7, <2>2
    <3>2. i - a \in 1 .. n - b + 1 /\ b + (i - a) - 1 = i + 1
      BY <1>1, <2>2
    <3> QED
      BY <1>4, <2>2, <3>1, <3>2
  <2> QED
    BY <2>1, <2>2
<1> QED
  BY <1>2, <1>6, <1>7, <1>8 DEF n

LEMMA AppendIs ==
    ASSUME NEW S, NEW s \in Seq(S), NEW e \in S
    PROVE  /\ Append(s, e) \in Seq(S) /\ Len(Append(s, e)) = Len(s) + 1
           /\ \A i \in 1 .. Len(s) : Append(s, e)[i] = s[i]
           /\ Append(s, e)[Len(s) + 1] = e
BY AppendProperties

\* The least of some numbers, and the greatest of some that are not above n.
LEMMA MinOfSome ==
    ASSUME NEW T, T \subseteq Nat, T # {}
    PROVE  Min(T) \in T
<1>1. PICK m \in T : \A y \in T : ~ (<<y, m>> \in OpToRel(<, Nat))
  BY NatLessThanWellFounded, WFMin
<1>2. \A y \in T : ~(y < m)
  BY <1>1 DEF OpToRel
<1>3. \A y \in T : m <= y
  BY <1>2
<1> QED
  BY <1>3 DEF Min

LEMMA MaxOfSome ==
    ASSUME NEW n \in Nat, NEW T, T \subseteq 0..n, T # {}
    PROVE  Max(T) \in T /\ \A y \in T : y <= Max(T)
<1> DEFINE U == {n - x : x \in T}
<1>1. U \subseteq Nat /\ U # {}
  <2>1. PICK x \in T : TRUE
    OBVIOUS
  <2>2. n - x \in U
    BY <2>1
  <2>3. \A y \in T : y \in 0..n
    OBVIOUS
  <2>4. \A y \in T : n - y \in Nat
    BY <2>3
  <2> QED
    BY <2>2, <2>4
<1>2. PICK m \in U : \A y \in U : ~ (<<y, m>> \in OpToRel(<, Nat))
  BY <1>1, NatLessThanWellFounded, WFMin
<1>3. \A y \in U : ~(y < m)
  BY <1>1, <1>2 DEF OpToRel
<1>4. PICK x \in T : m = n - x
  OBVIOUS
<1>5. \A y \in T : x >= y
  <2> TAKE y \in T
  <2>1. ~(n - y < m) /\ x \in 0..n /\ y \in 0..n
    BY <1>3
  <2> QED
    BY <1>4, <2>1
<1>6. Max(T) \in T /\ \A y \in T : Max(T) >= y
  BY <1>5 DEF Max
<1> QED
  BY <1>6

-----------------------------------------------------------------------------
(***************************************************************************)
(* What the invariant says of the stacks.                                  *)
(***************************************************************************)
LEMMA ActivationFacts ==
    ASSUME NEW a \in Activation
    PROVE  /\ a.entry \in Seq(0..MaxValues) /\ Len(a.entry) \in Nat /\ a.level \in Nat
           /\ a.held \in Seq(Held) /\ Len(a.held) \in Nat /\ DOMAIN a.held = 1 .. Len(a.held)
           /\ \A j \in DOMAIN a.held : a.held[j] \in Held /\ a.held[j].id \in Values
           /\ a.vec \in 0..MaxValues /\ a.names \in 0..MaxValues /\ a.hand \in 0..MaxValues
<1>1. a.entry \in Seq(0..MaxValues) /\ a.held \in Seq(Held) /\ a.level \in Nat
      /\ a.vec \in 0..MaxValues /\ a.names \in 0..MaxValues /\ a.hand \in 0..MaxValues
  BY DEF Activation
<1>2. Len(a.entry) \in Nat /\ Len(a.held) \in Nat /\ DOMAIN a.held = 1 .. Len(a.held)
  BY <1>1, LenProperties
<1>3. \A j \in DOMAIN a.held : a.held[j] \in Held /\ a.held[j].id \in Values
  <2> TAKE j \in DOMAIN a.held
  <2>1. a.held[j] \in Held
    BY <1>1, <1>2, ElementOfSeq
  <2> QED
    BY <2>1 DEF Held
<1> QED
  BY <1>1, <1>2, <1>3

LEMMA StackTypes ==
    ASSUME BuilderInv
    PROVE  /\ pp \in Seq(0..MaxValues) /\ Len(pp) \in Nat /\ DOMAIN pp = 1 .. Len(pp)
           /\ frames \in Seq(Frame) /\ Len(frames) \in Nat /\ DOMAIN frames = 1 .. Len(frames)
           /\ \A i \in 1 .. Len(frames) : frames[i] \in Frame /\ frames[i].id \in Values
           /\ calls \in Seq(Activation) /\ Len(calls) \in Nat /\ DOMAIN calls = 1 .. Len(calls)
           /\ \A k \in 1 .. Len(calls) : calls[k] \in Activation
           /\ \A k \in 1 .. Len(calls) :
                 /\ Bottom(k) \in Nat /\ Top(k) \in Nat
                 /\ FrameBottom(k) \in Nat /\ FrameTop(k) \in Nat
<1>1. /\ pp \in Seq(0..MaxValues) /\ frames \in Seq(Frame) /\ calls \in Seq(Activation)
  BY DEF BuilderInv, TypeOK
<1>2. /\ Len(pp) \in Nat /\ DOMAIN pp = 1 .. Len(pp)
      /\ Len(frames) \in Nat /\ DOMAIN frames = 1 .. Len(frames)
      /\ Len(calls) \in Nat /\ DOMAIN calls = 1 .. Len(calls)
  BY <1>1, LenProperties
<1>3. \A k \in 1 .. Len(calls) : calls[k] \in Activation
  BY <1>1, ElementOfSeq
<1>4. \A i \in 1 .. Len(frames) : frames[i] \in Frame /\ frames[i].id \in Values
  <2> TAKE i \in 1 .. Len(frames)
  <2>1. frames[i] \in Frame
    BY <1>1, ElementOfSeq
  <2> QED
    BY <2>1 DEF Frame
<1>5. \A k \in 1 .. Len(calls) : Len(calls[k].entry) \in Nat /\ calls[k].level \in Nat
  BY <1>3, ActivationFacts
<1>6. ASSUME NEW k \in 1 .. Len(calls)
      PROVE  /\ Bottom(k) \in Nat /\ Top(k) \in Nat
             /\ FrameBottom(k) \in Nat /\ FrameTop(k) \in Nat
  <2>0. Len(calls) \in Nat
    BY <1>2
  <2>1. k = Len(calls) \/ k + 1 \in 1 .. Len(calls)
    BY <2>0
  <2> QED
    BY <1>2, <1>5, <2>1 DEF Bottom, Top, FrameBottom, FrameTop
<1> QED
  BY <1>1, <1>2, <1>3, <1>4, <1>6

\* Something is on the stacks only while something runs, and Me is its owner.
LEMMA MyStacks ==
    ASSUME BuilderInv, Len(calls) > 0
    PROVE  /\ Me = calls[Len(calls)] /\ Len(calls) \in 1 .. Len(calls) /\ Me \in Activation
           /\ Bottom(Len(calls)) = Len(Me.entry) /\ Top(Len(calls)) = Len(pp)
           /\ FrameBottom(Len(calls)) = Me.level /\ FrameTop(Len(calls)) = Len(frames)
           /\ Len(Me.entry) \in Nat /\ Len(Me.entry) <= Len(pp)
           /\ Me.level \in Nat /\ Me.level <= Len(frames)
           /\ Own(Me, pp, Len(Me.entry), Len(pp), frames, Me.level, Len(frames))
<1>1. Me = calls[Len(calls)] /\ Len(calls) \in 1 .. Len(calls) /\ Me \in Activation
  BY StackTypes DEF Me, Last
<1>2. /\ Bottom(Len(calls)) = Len(Me.entry) /\ Top(Len(calls)) = Len(pp)
      /\ FrameBottom(Len(calls)) = Me.level /\ FrameTop(Len(calls)) = Len(frames)
  BY <1>1 DEF Bottom, Top, FrameBottom, FrameTop
<1>3. Len(Me.entry) \in Nat /\ Me.level \in Nat
  BY <1>1, ActivationFacts
<1>4. Len(Me.entry) <= Len(pp) /\ Me.level <= Len(frames)
  BY <1>1, <1>2 DEF BuilderInv, StacksOK
<1>5. Own(Me, pp, Len(Me.entry), Len(pp), frames, Me.level, Len(frames))
  BY <1>1, <1>2 DEF BuilderInv
<1> QED
  BY <1>1, <1>2, <1>3, <1>4, <1>5

LEMMA TopInStack ==
    ASSUME BuilderInv, NEW k \in 1 .. Len(calls)
    PROVE  Top(k) <= Len(pp) /\ FrameTop(k) <= Len(frames)
<1> DEFINE n == Len(calls)
<1>1. CASE k = n
  BY <1>1, StackTypes DEF Top, FrameTop
<1>2. CASE k # n
  <2>0. n \in Nat
    BY StackTypes
  <2>1. n \in 1..n /\ k < n
    BY <1>2, <2>0
  <2>2. Top(k) <= Bottom(n) /\ FrameTop(k) <= FrameBottom(n)
    BY <2>1 DEF BuilderInv, StacksOK
  <2>3. Bottom(n) <= Top(n) /\ FrameBottom(n) <= FrameTop(n)
    BY <2>1 DEF BuilderInv, StacksOK
  <2>4. Top(n) = Len(pp) /\ FrameTop(n) = Len(frames)
    BY DEF Top, FrameTop
  <2>5. /\ Top(k) \in Nat /\ FrameTop(k) \in Nat /\ Bottom(n) \in Nat /\ FrameBottom(n) \in Nat
        /\ Len(pp) \in Nat /\ Len(frames) \in Nat
    BY <2>1, StackTypes
  <2> QED
    BY <2>2, <2>3, <2>4, <2>5
<1> QED
  BY <1>1, <1>2

\* What an activation owns depends on its part of the stacks only.
LEMMA OwnKept ==
    ASSUME NEW a, NEW p, NEW q, NEW lo \in Nat, NEW hi \in Nat,
           NEW f, NEW g, NEW flo \in Nat, NEW fhi \in Nat,
           Own(a, p, lo, hi, f, flo, fhi),
           \A i \in lo + 1 .. hi : q[i] = p[i],
           \A i \in flo + 1 .. fhi : g[i] = f[i]
    PROVE  Own(a, q, lo, hi, g, flo, fhi)
<1>1. CASE a.kind = "user"
  <2>1. \A x : Framed(x, g, flo, fhi) <=> Framed(x, f, flo, fhi)
    BY DEF Framed
  <2>2. \A h : Open(h, g, flo, fhi) <=> Open(h, f, flo, fhi)
    BY <2>1 DEF Open
  <2>3. UserVars(a) /\ UserFrames(a, f, flo, fhi) /\ UserStack(a, p, lo, hi, f, flo, fhi)
    BY <1>1 DEF Own
  <2>4. UserFrames(a, g, flo, fhi)
    BY <2>1, <2>3 DEF UserFrames
  <2>5. UserStack(a, q, lo, hi, g, flo, fhi)
    BY <2>2, <2>3 DEF UserStack
  <2> QED
    BY <1>1, <2>3, <2>4, <2>5 DEF Own
<1>2. CASE a.kind # "user"
  <2>1. ConversionVars(a) /\ ConversionStacks(a, p, lo, hi, f, flo, fhi)
    BY <1>2 DEF Own
  <2>2. /\ RootsVec(a) => lo + 1 \in lo + 1 .. hi
        /\ RootsNames(a) => RootsVec(a) /\ lo + 2 \in lo + 1 .. hi
    BY <2>1 DEF ConversionStacks, One, RootsNames, RootsVec, HoldsVec
  <2>3. /\ HoldsVec(a) => flo + 1 \in flo + 1 .. fhi
        /\ HoldsNames(a) => HoldsVec(a) /\ flo + 2 \in flo + 1 .. fhi
        /\ HoldsAccess(a) => fhi \in flo + 1 .. fhi
    BY <2>1 DEF ConversionStacks, One, RootsNames, HoldsNames, HoldsVec
  <2>4. ConversionStacks(a, q, lo, hi, g, flo, fhi)
    BY <2>1, <2>2, <2>3 DEF ConversionStacks
  <2> QED
    BY <1>2, <2>1, <2>4 DEF Own
<1> QED
  BY <1>1, <1>2

\* The value of a frame that protects is on this part of R's stack.
OnStack(frame, p, lo, hi) ==
    frame.protected => \E j \in lo + 1 .. hi : p[j] = frame.id

\* The frames of an activation are for values that it names; those that protect
\* one of them have it on the activation's part of R's stack.
LEMMA OwnFrame ==
    ASSUME NEW a \in Activation, NEW p, NEW lo \in Nat, NEW hi \in Nat,
           NEW f, NEW flo \in Nat, NEW fhi \in Nat,
           Own(a, p, lo, hi, f, flo, fhi),
           NEW i \in flo + 1 .. fhi, f[i].id \in Values
    PROVE  f[i].id \in Names(a) /\ OnStack(f[i], p, lo, hi)
<1> USE DEF OnStack
<1>0. f[i].id # None
  BY DEF Values, None
<1>1. CASE a.kind = "user"
  <2>1. UserFrames(a, f, flo, fhi) /\ UserStack(a, p, lo, hi, f, flo, fhi)
    BY <1>1 DEF Own
  <2>2. CASE f[i].protected
    <3>1. PICK j \in DOMAIN a.held : a.held[j].id = f[i].id /\ a.held[j].builder
      BY <2>1, <2>2 DEF UserFrames
    <3>2. Open(a.held[j], f, flo, fhi)
      BY <3>1 DEF Open, Framed
    <3>3. \E x \in lo + 1 .. hi : p[x] = a.held[j].id
      BY <2>1, <3>2 DEF UserStack
    <3> QED
      BY <1>0, <3>1, <3>3 DEF Names
  <2>3. CASE ~f[i].protected
    BY <1>0, <2>1, <2>3 DEF UserFrames, Names
  <2> QED
    BY <2>2, <2>3
<1>2. CASE a.kind # "user"
  <2>1. ConversionVars(a) /\ ConversionStacks(a, p, lo, hi, f, flo, fhi)
    BY <1>2 DEF Own
  <2> DEFINE first == HoldsVec(a)
             second == HoldsNames(a)
             third == HoldsAccess(a)
  <2>2. second => first /\ ~third
    BY <2>1, BuilderAssumption DEF ConversionVars, HoldsNames, RootsNames, HoldsVec, HoldsAccess, Leaves
  <2>3. (i = flo + 1 /\ first) \/ (i = flo + 2 /\ second) \/ (i = fhi /\ third)
    <3> HIDE DEF first, second, third
    <3>1. fhi = flo + One(first) + One(second) + One(third)
      BY <2>1 DEF ConversionStacks, first, second, third
    <3> QED
      BY <2>2, <3>1 DEF One
  <2>4. CASE i = flo + 1 /\ first
    <3>1. f[i] = [id |-> a.vec, kind |-> "result", protected |-> RootsVec(a)]
      BY <2>1, <2>4 DEF ConversionStacks
    <3>2. RootsVec(a) => lo + 1 \in lo + 1 .. hi /\ p[lo + 1] = a.vec
      BY <2>1 DEF ConversionStacks, One
    <3> QED
      BY <1>0, <3>1, <3>2 DEF Names
  <2>5. CASE i = flo + 2 /\ second
    <3>1. f[i] = [id |-> a.names, kind |-> "result", protected |-> RootsNames(a)]
      BY <2>1, <2>5 DEF ConversionStacks
    <3>2. RootsNames(a) => lo + 2 \in lo + 1 .. hi /\ p[lo + 2] = a.names
      BY <2>1 DEF ConversionStacks, One, RootsNames, RootsVec, HoldsVec
    <3> QED
      BY <1>0, <3>1, <3>2 DEF Names
  <2>6. CASE i = fhi /\ third
    <3>1. f[i] = [id |-> a.vec, kind |-> "native", protected |-> FALSE]
      BY <2>1, <2>6 DEF ConversionStacks
    <3> QED
      BY <1>0, <3>1 DEF Names
  <2> QED
    BY <2>3, <2>4, <2>5, <2>6
<1> QED
  BY <1>1, <1>2

\* Every frame belongs to an activation.
LEMMA FrameHasOwner ==
    ASSUME BuilderInv, NEW i \in 1 .. Len(frames)
    PROVE  \E k \in 1 .. Len(calls) : i \in FrameBottom(k) + 1 .. FrameTop(k)
<1> DEFINE n == Len(calls)
           below == {k \in 1..n : FrameBottom(k) < i}
<1>1. /\ n \in Nat /\ Len(frames) \in Nat
      /\ \A k \in 1..n : FrameBottom(k) \in Nat /\ FrameTop(k) \in Nat
  BY StackTypes
<1>2. n > 0 /\ FrameBottom(1) = 0
  BY <1>1 DEF BuilderInv, StacksOK, FrameBottom
<1>3. below # {} /\ below \subseteq 0..n
  BY <1>1, <1>2
<1>4. Max(below) \in below /\ \A y \in below : y <= Max(below)
  BY <1>1, <1>3, MaxOfSome
<1>5. PICK k \in 1..n : FrameBottom(k) < i /\ \A y \in below : y <= k
  BY <1>4
<1>6. i <= FrameTop(k)
  <2>1. CASE k = n
    BY <2>1 DEF FrameTop
  <2>2. CASE k # n
    <3>1. k + 1 \in 1..n /\ FrameTop(k) = FrameBottom(k + 1)
      BY <1>1, <2>2 DEF FrameTop, FrameBottom
    <3>2. ~(FrameBottom(k + 1) < i)
      BY <1>5, <3>1
    <3> QED
      BY <1>1, <3>1, <3>2
  <2> QED
    BY <2>1, <2>2
<1> QED
  BY <1>1, <1>5, <1>6

LEMMA FrameFacts ==
    ASSUME BuilderInv, NEW k \in 1 .. Len(calls), NEW i \in FrameBottom(k) + 1 .. FrameTop(k),
           i \in 1 .. Len(frames)
    PROVE  frames[i].id \in Names(calls[k]) /\ OnStack(frames[i], pp, Bottom(k), Top(k))
<1>1. /\ calls[k] \in Activation /\ frames[i].id \in Values
      /\ Bottom(k) \in Nat /\ Top(k) \in Nat /\ FrameBottom(k) \in Nat /\ FrameTop(k) \in Nat
  BY StackTypes
<1> DEFINE lo == Bottom(k)
           hi == Top(k)
           flo == FrameBottom(k)
           fhi == FrameTop(k)
<1>2. Own(calls[k], pp, lo, hi, frames, flo, fhi)
  BY DEF BuilderInv
<1>3. lo \in Nat /\ hi \in Nat /\ flo \in Nat /\ fhi \in Nat /\ i \in flo + 1 .. fhi
  BY <1>1
<1> HIDE DEF lo, hi, flo, fhi
<1>4. frames[i].id \in Names(calls[k]) /\ OnStack(frames[i], pp, lo, hi)
  BY <1>1, <1>2, <1>3, OwnFrame
<1> QED
  BY <1>4 DEF lo, hi

\* A frame for a value that the running activation names is its own.
LEMMA MyFrames ==
    ASSUME BuilderInv, Len(calls) > 0, NEW i \in 1 .. Len(frames)
    PROVE  i > Me.level <=> frames[i].id \in Names(Me)
<1> DEFINE n == Len(calls)
<1>1. PICK k \in 1..n : i \in FrameBottom(k) + 1 .. FrameTop(k)
  BY FrameHasOwner
<1>2. frames[i].id \in Names(calls[k])
  BY <1>1, FrameFacts
<1>3. /\ n \in 1..n /\ Me = calls[n] /\ FrameBottom(n) = Me.level /\ FrameTop(n) = Len(frames)
      /\ Me.level \in Nat /\ Len(frames) \in Nat
  BY MyStacks, StackTypes
<1>4. i > Me.level => frames[i].id \in Names(Me)
  <2> SUFFICES ASSUME i > Me.level PROVE frames[i].id \in Names(Me)
    OBVIOUS
  <2>1. i \in FrameBottom(n) + 1 .. FrameTop(n)
    BY <1>3
  <2> QED
    BY <1>3, <2>1, FrameFacts
<1>5. frames[i].id \in Names(Me) => k = n
  BY <1>2, <1>3 DEF BuilderInv
<1>6. k = n => i > Me.level
  BY <1>1, <1>3
<1> QED
  BY <1>4, <1>5, <1>6

-----------------------------------------------------------------------------
(***************************************************************************)
(* Steps, by what they do to the activations.                              *)
(***************************************************************************)
LEMMA NamesAreNamed ==
    ASSUME BuilderInv, NEW k \in 1 .. Len(calls), NEW x \in Names(calls[k])
    PROVE  x \in Named
<1> DEFINE a == calls[k]
<1>1. a \in Range(calls)
  BY StackTypes DEF Range
<1>2. x \in {a.vec, a.names, a.hand} \union {h.id : h \in Range(a.held)} \union a.copies
  BY DEF Names, Range
<1> QED
  BY <1>1, <1>2 DEF Named

\* The variables of an activation that its caller and its callees rely on.
Same(m, a) == m.kind = a.kind /\ m.catch = a.catch /\ m.entry = a.entry /\ m.level = a.level

LEMMA NowIs ==
    ASSUME calls \in Seq(Activation), Len(calls) > 0, NEW m \in Activation
    PROVE  /\ Now(m) \in Seq(Activation) /\ Len(Now(m)) = Len(calls)
           /\ \A k \in 1 .. Len(calls) : Now(m)[k] = IF k = Len(calls) THEN m ELSE calls[k]
<1>1. Len(calls) \in 1 .. Len(calls)
  BY LenProperties
<1> QED
  BY <1>1, ExceptSeq DEF Now

\* The running activation takes a step on its own part of the stacks.
LEMMA OwnStep ==
    ASSUME BuilderInv, Len(calls) > 0, NEW m \in Activation, Same(m, Me), calls' = Now(m),
           pp' \in Seq(0..MaxValues), frames' \in Seq(Frame), Len(frames') <= MAX_NESTING,
           taken' = {},
           Len(pp') >= Len(Me.entry), Len(frames') >= Me.level,
           \A i \in 1 .. Len(Me.entry) : pp'[i] = pp[i],
           \A i \in 1 .. Me.level : frames'[i] = frames[i],
           Own(m, pp', Len(Me.entry), Len(pp'), frames', Me.level, Len(frames')),
           \A x \in Names(m) : x \in Names(Me) \/ x \notin Named
    PROVE  BuilderInv'
<1>0. PICK n \in Nat : n = Len(calls)
  BY StackTypes
<1>1. /\ Me = calls[n] /\ n \in 1..n /\ Bottom(n) = Len(Me.entry) /\ FrameBottom(n) = Me.level
      /\ Len(Me.entry) \in Nat /\ Me.level \in Nat
  BY <1>0, MyStacks
<1>2. /\ calls \in Seq(Activation) /\ n \in Nat
      /\ \A k \in 1..n : /\ Bottom(k) \in Nat /\ Top(k) \in Nat
                         /\ FrameBottom(k) \in Nat /\ FrameTop(k) \in Nat
  BY <1>0, StackTypes
<1>3. /\ calls' \in Seq(Activation) /\ Len(calls') = n
      /\ \A k \in 1..n : calls'[k] = IF k = n THEN m ELSE calls[k]
  BY <1>0, <1>2, NowIs
<1>4. Len(pp') \in Nat /\ Len(frames') \in Nat
  BY LenProperties
<1>5. \A k \in 1..n : Bottom(k)' = Bottom(k) /\ FrameBottom(k)' = FrameBottom(k)
  BY <1>1, <1>3 DEF Bottom, FrameBottom, Same
<1>6. \A k \in 1 .. n - 1 : Top(k)' = Top(k) /\ FrameTop(k)' = FrameTop(k)
  <2> TAKE k \in 1 .. n - 1
  <2>1. k \in 1..n /\ k + 1 \in 1..n /\ k # n
    BY <1>2
  <2>2. calls'[k + 1].entry = calls[k + 1].entry /\ calls'[k + 1].level = calls[k + 1].level
    BY <1>1, <1>3, <2>1 DEF Same
  <2> QED
    BY <1>0, <1>3, <2>1, <2>2 DEF Top, FrameTop
<1>7. Top(n)' = Len(pp') /\ FrameTop(n)' = Len(frames')
  BY <1>3 DEF Top, FrameTop
<1>8. /\ \A k \in 1..n : Bottom(k) <= Top(k) /\ FrameBottom(k) <= FrameTop(k)
      /\ \A k \in 1..n : \A i \in 1 .. Bottom(k) : pp[i] = calls[k].entry[i]
      /\ \A k, l \in 1..n : k < l => Top(k) <= Bottom(l) /\ FrameTop(k) <= FrameBottom(l)
      /\ calls[1].level = 0 /\ ~calls[1].catch
  BY <1>0, <1>1, <1>2 DEF BuilderInv, StacksOK
<1>9. TypeOK'
  BY <1>3 DEF TypeOK
<1>10. StacksOK'
  <2>1. \A k \in 1..n : Bottom(k)' <= Top(k)' /\ FrameBottom(k)' <= FrameTop(k)'
    <3> TAKE k \in 1..n
    <3>1. CASE k = n
      BY <1>1, <1>2, <1>4, <1>5, <1>7, <3>1
    <3>2. CASE k # n
      <4>1. k \in 1 .. n - 1
        BY <1>2, <3>2
      <4> QED
        BY <1>5, <1>6, <1>8, <4>1
    <3> QED
      BY <3>1, <3>2
  <2>2. \A k, l \in 1..n : k < l => Top(k)' <= Bottom(l)' /\ FrameTop(k)' <= FrameBottom(l)'
    <3> TAKE k, l \in 1..n
    <3>1. k < l => k \in 1 .. n - 1
      BY <1>2
    <3> QED
      BY <1>5, <1>6, <1>8, <3>1
  <2>3. ASSUME NEW k \in 1..n, NEW i \in 1 .. Bottom(k) PROVE pp'[i] = calls'[k].entry[i]
    <3>1. calls'[k].entry = calls[k].entry
      BY <1>1, <1>3 DEF Same
    <3>2. Bottom(k) <= Bottom(n)
      <4>1. k = n \/ k < n
        BY <1>2
      <4>2. k < n => Bottom(k) <= Top(k) /\ Top(k) <= Bottom(n)
        BY <1>1, <1>8
      <4>3. Bottom(k) \in Nat /\ Top(k) \in Nat /\ Bottom(n) \in Nat
        BY <1>1, <1>2
      <4> QED
        BY <4>1, <4>2, <4>3
    <3>3. i \in 1 .. Len(Me.entry)
      <4>1. Bottom(k) \in Nat /\ Bottom(n) \in Nat /\ Bottom(n) = Len(Me.entry)
        BY <1>1, <1>2
      <4> QED
        BY <3>2, <4>1
    <3> QED
      BY <1>8, <3>1, <3>3
  <2>4. calls'[1].level = 0 /\ ~calls'[1].catch
    <3>1. 1 \in 1..n
      BY <1>1
    <3>2. calls'[1].level = calls[1].level /\ calls'[1].catch = calls[1].catch
      BY <1>1, <1>3, <3>1 DEF Same
    <3> QED
      BY <1>8, <3>2
  <2> QED
    BY <1>1, <1>3, <1>5, <2>1, <2>2, <2>3, <2>4 DEF StacksOK
<1>11. (\A k \in 1 .. Len(calls) - 1 : Waiting(calls[k]))'
  <2> SUFFICES ASSUME NEW k \in 1 .. n - 1 PROVE Waiting(calls'[k])
    BY <1>3
  <2>1. k \in 1..n /\ k # n
    BY <1>2
  <2> QED
    BY <1>0, <1>3, <2>1 DEF BuilderInv
<1>12. (\A k, l \in 1 .. Len(calls) : k # l => Names(calls[k]) \cap Names(calls[l]) = {})'
  <2> SUFFICES ASSUME NEW k \in 1..n, NEW l \in 1..n, k # l
               PROVE  Names(calls'[k]) \cap Names(calls'[l]) = {}
    BY <1>3
  <2>1. \A j \in 1..n : j # n => Names(m) \cap Names(calls[j]) = {}
    <3> TAKE j \in 1..n
    <3>1. \A x \in Names(calls[j]) : x \in Named
      BY <1>0, NamesAreNamed
    <3>2. j # n => Names(Me) \cap Names(calls[j]) = {}
      BY <1>0, <1>1 DEF BuilderInv
    <3> QED
      BY <3>1, <3>2
  <2>2. Names(calls[k]) \cap Names(calls[l]) = {}
    BY <1>0 DEF BuilderInv
  <2>3. CASE k # n /\ l # n
    BY <1>3, <2>2, <2>3
  <2>4. CASE k = n
    BY <1>3, <2>1, <2>4
  <2>5. CASE l = n
    BY <1>3, <2>1, <2>5
  <2> QED
    BY <2>3, <2>4, <2>5
<1>13. (\A k \in 1 .. Len(calls) :
          Own(calls[k], pp, Bottom(k), Top(k), frames, FrameBottom(k), FrameTop(k)))'
  <2> SUFFICES ASSUME NEW k \in 1..n
               PROVE  Own(calls'[k], pp', Bottom(k)', Top(k)', frames', FrameBottom(k)', FrameTop(k)')
    BY <1>3
  <2>1. CASE k = n
    BY <1>1, <1>3, <1>5, <1>7, <2>1
  <2>2. CASE k # n
    <3> DEFINE lo == Bottom(k)
               hi == Top(k)
               flo == FrameBottom(k)
               fhi == FrameTop(k)
    <3>1. /\ calls'[k] = calls[k] /\ k \in 1 .. n - 1
          /\ Bottom(k)' = lo /\ Top(k)' = hi /\ FrameBottom(k)' = flo /\ FrameTop(k)' = fhi
      BY <1>2, <1>3, <1>5, <1>6, <2>2
    <3>2. Own(calls[k], pp, lo, hi, frames, flo, fhi)
      BY <1>0 DEF BuilderInv
    <3>3. lo \in Nat /\ hi \in Nat /\ flo \in Nat /\ fhi \in Nat
      BY <1>2
    <3>4. hi <= Len(Me.entry) /\ fhi <= Me.level
      <4>1. k < n
        BY <1>2, <2>2
      <4> QED
        BY <1>1, <1>8, <4>1
    <3> HIDE DEF lo, hi, flo, fhi
    <3>5. /\ \A i \in lo + 1 .. hi : pp'[i] = pp[i]
          /\ \A i \in flo + 1 .. fhi : frames'[i] = frames[i]
      <4>1. Len(Me.entry) \in Nat /\ Me.level \in Nat
        BY <1>1
      <4>2. lo + 1 .. hi \subseteq 1 .. Len(Me.entry) /\ flo + 1 .. fhi \subseteq 1 .. Me.level
        BY <3>3, <3>4, <4>1
      <4> QED
        BY <4>2
    <3>6. Own(calls[k], pp', lo, hi, frames', flo, fhi)
      BY <3>2, <3>3, <3>5, OwnKept
    <3> QED
      BY <3>1, <3>6
  <2> QED
    BY <2>1, <2>2
<1> QED
  BY <1>9, <1>10, <1>11, <1>12, <1>13 DEF BuilderInv

\* The activations above number j end: what they had on the stacks is gone.
LEMMA CutStep ==
    ASSUME BuilderInv, NEW j \in 1 .. Len(calls), j < Len(calls),
           NEW c \in Activation, Same(c, calls[j]),
           calls' \in Seq(Activation), Len(calls') = j, calls'[j] = c,
           \A k \in 1 .. j - 1 : calls'[k] = calls[k],
           pp' \in Seq(0..MaxValues), Len(pp') = Top(j),
           \A i \in 1 .. Top(j) : pp'[i] = pp[i],
           frames' \in Seq(Frame), Len(frames') = FrameTop(j),
           \A i \in 1 .. FrameTop(j) : frames'[i] = frames[i],
           taken' = {},
           Own(c, pp, Bottom(j), Top(j), frames, FrameBottom(j), FrameTop(j)),
           \A x \in Names(c), k \in 1 .. j - 1 : x \notin Names(calls[k])
    PROVE  BuilderInv'
<1>0. PICK n \in Nat : n = Len(calls)
  BY StackTypes
<1>1. j \in 1..n /\ j < n /\ j \in Nat
  BY <1>0
<1>2. /\ \A k \in 1..n : /\ Bottom(k) \in Nat /\ Top(k) \in Nat
                         /\ FrameBottom(k) \in Nat /\ FrameTop(k) \in Nat
      /\ Len(frames) \in Nat /\ Len(frames) <= MAX_NESTING
  BY <1>0, StackTypes DEF BuilderInv, TypeOK
<1>3. /\ \A k \in 1..n : Bottom(k) <= Top(k) /\ FrameBottom(k) <= FrameTop(k)
      /\ \A k \in 1..n : \A i \in 1 .. Bottom(k) : pp[i] = calls[k].entry[i]
      /\ \A k, l \in 1..n : k < l => Top(k) <= Bottom(l) /\ FrameTop(k) <= FrameBottom(l)
      /\ calls[1].level = 0 /\ ~calls[1].catch
  BY <1>0, <1>1 DEF BuilderInv, StacksOK
<1>4. \A k \in 1..j : /\ calls'[k].entry = calls[k].entry /\ calls'[k].level = calls[k].level
                      /\ calls'[k].catch = calls[k].catch
  <2> TAKE k \in 1..j
  <2>1. k = j \/ k \in 1 .. j - 1
    BY <1>1
  <2> QED
    BY <2>1 DEF Same
<1>5. \A k \in 1..j : Bottom(k)' = Bottom(k) /\ FrameBottom(k)' = FrameBottom(k)
  BY <1>4 DEF Bottom, FrameBottom
<1>6. \A k \in 1..j : Top(k)' = Top(k) /\ FrameTop(k)' = FrameTop(k)
  <2> TAKE k \in 1..j
  <2>1. CASE k = j
    BY <2>1 DEF Top, FrameTop
  <2>2. CASE k # j
    <3>1. k + 1 \in 1..j /\ k # n
      BY <1>1, <2>2
    <3> QED
      BY <1>0, <1>4, <2>2, <3>1 DEF Top, FrameTop
  <2> QED
    BY <2>1, <2>2
<1>7. TypeOK'
  <2>1. Len(frames') <= MAX_NESTING
    <3>1. FrameTop(j) <= Len(frames) /\ FrameTop(j) \in Nat
      BY <1>0, <1>1, <1>2, TopInStack
    <3> QED
      BY <1>2, <3>1, BuilderAssumption
  <2> QED
    BY <2>1 DEF TypeOK
<1>8. \A k \in 1..j : k \in 1..n /\ (k # j => k \in 1 .. j - 1 /\ k < j)
  BY <1>1
<1>9. StacksOK'
  <2>1. \A k \in 1..j : Bottom(k)' <= Top(k)' /\ FrameBottom(k)' <= FrameTop(k)'
    BY <1>3, <1>5, <1>6, <1>8
  <2>2. \A k, l \in 1..j : k < l => Top(k)' <= Bottom(l)' /\ FrameTop(k)' <= FrameBottom(l)'
    <3> TAKE k, l \in 1..j
    <3>1. k < l => Top(k) <= Bottom(l) /\ FrameTop(k) <= FrameBottom(l)
      BY <1>3, <1>8
    <3>2. Top(k)' = Top(k) /\ FrameTop(k)' = FrameTop(k)
      BY <1>6
    <3>3. Bottom(l)' = Bottom(l) /\ FrameBottom(l)' = FrameBottom(l)
      BY <1>5
    <3> QED
      BY <3>1, <3>2, <3>3
  <2>3. ASSUME NEW k \in 1..j, NEW i \in 1 .. Bottom(k) PROVE pp'[i] = calls'[k].entry[i]
    <3>1. Bottom(k) <= Top(j)
      <4>1. k # j => Bottom(k) <= Top(k) /\ Top(k) <= Bottom(j) /\ Bottom(j) <= Top(j)
        BY <1>1, <1>3, <1>8
      <4>2. Bottom(k) \in Nat /\ Top(k) \in Nat /\ Bottom(j) \in Nat /\ Top(j) \in Nat
        BY <1>1, <1>2, <1>8
      <4>3. k = j => Bottom(k) <= Top(j)
        BY <1>1, <1>3
      <4> QED
        BY <4>1, <4>2, <4>3
    <3>2. i \in 1 .. Top(j)
      <4>1. Bottom(k) \in Nat /\ Top(j) \in Nat
        BY <1>1, <1>2, <1>8
      <4> QED
        BY <3>1, <4>1
    <3>3. k \in 1..n /\ calls'[k].entry = calls[k].entry
      BY <1>4, <1>8
    <3>4. pp'[i] = pp[i]
      BY <3>2
    <3>5. pp[i] = calls[k].entry[i]
      BY <1>3, <3>3
    <3> QED
      BY <3>3, <3>4, <3>5
  <2>4. calls'[1].level = 0 /\ ~calls'[1].catch
    BY <1>1, <1>3, <1>4
  <2> QED
    BY <1>1, <1>5, <2>1, <2>2, <2>3, <2>4 DEF StacksOK
<1>10. (\A k \in 1 .. Len(calls) - 1 : Waiting(calls[k]))'
  <2> SUFFICES ASSUME NEW k \in 1 .. j - 1 PROVE Waiting(calls'[k])
    OBVIOUS
  <2>1. k \in 1 .. n - 1
    BY <1>1
  <2> QED
    BY <1>0, <2>1 DEF BuilderInv
<1>11. (\A k, l \in 1 .. Len(calls) : k # l => Names(calls[k]) \cap Names(calls[l]) = {})'
  <2> SUFFICES ASSUME NEW k \in 1..j, NEW l \in 1..j, k # l
               PROVE  Names(calls'[k]) \cap Names(calls'[l]) = {}
    OBVIOUS
  <2>1. CASE k # j /\ l # j
    <3>1. calls'[k] = calls[k] /\ calls'[l] = calls[l] /\ k \in 1..n /\ l \in 1..n
      BY <1>8, <2>1
    <3> QED
      BY <1>0, <3>1 DEF BuilderInv
  <2>2. CASE k = j
    BY <1>8, <2>2
  <2>3. CASE l = j
    BY <1>8, <2>3
  <2> QED
    BY <2>1, <2>2, <2>3
<1>12. (\A k \in 1 .. Len(calls) :
          Own(calls[k], pp, Bottom(k), Top(k), frames, FrameBottom(k), FrameTop(k)))'
  <2> SUFFICES ASSUME NEW k \in 1..j
               PROVE  Own(calls'[k], pp', Bottom(k)', Top(k)', frames', FrameBottom(k)', FrameTop(k)')
    OBVIOUS
  <2>1. PICK lo \in Nat, hi \in Nat, flo \in Nat, fhi \in Nat :
           lo = Bottom(k) /\ hi = Top(k) /\ flo = FrameBottom(k) /\ fhi = FrameTop(k)
    BY <1>2, <1>8
  <2>2. Bottom(k)' = lo /\ Top(k)' = hi /\ FrameBottom(k)' = flo /\ FrameTop(k)' = fhi
    BY <1>5, <1>6, <2>1
  <2>3. Own(calls'[k], pp, lo, hi, frames, flo, fhi)
    <3>1. CASE k = j
      BY <2>1, <3>1
    <3>2. CASE k # j
      BY <1>0, <1>8, <2>1, <3>2 DEF BuilderInv
    <3> QED
      BY <3>1, <3>2
  <2>4. hi <= Top(j) /\ fhi <= FrameTop(j)
    <3>1. k # j => /\ Top(k) <= Bottom(j) /\ Bottom(j) <= Top(j)
                   /\ FrameTop(k) <= FrameBottom(j) /\ FrameBottom(j) <= FrameTop(j)
      BY <1>1, <1>3, <1>8
    <3>2. /\ Top(k) \in Nat /\ Bottom(j) \in Nat /\ Top(j) \in Nat
          /\ FrameTop(k) \in Nat /\ FrameBottom(j) \in Nat /\ FrameTop(j) \in Nat
      BY <1>1, <1>2, <1>8
    <3>3. CASE k = j
      BY <2>1, <3>3
    <3>4. CASE k # j
      <4> DEFINE a == Bottom(j)
                 b == Top(j)
                 fa == FrameBottom(j)
                 fb == FrameTop(j)
      <4>1. hi <= a /\ a <= b /\ fhi <= fa /\ fa <= fb
        BY <2>1, <3>1, <3>4
      <4>2. a \in Nat /\ b \in Nat /\ fa \in Nat /\ fb \in Nat
        BY <3>2
      <4> HIDE DEF a, b, fa, fb
      <4>3. hi <= b /\ fhi <= fb
        BY <4>1, <4>2
      <4> QED
        BY <4>3 DEF b, fb
    <3> QED
      BY <3>3, <3>4
  <2>5. /\ \A i \in lo + 1 .. hi : pp'[i] = pp[i]
        /\ \A i \in flo + 1 .. fhi : frames'[i] = frames[i]
    <3>1. Top(j) \in Nat /\ FrameTop(j) \in Nat
      BY <1>1, <1>2
    <3>2. lo + 1 .. hi \subseteq 1 .. Top(j) /\ flo + 1 .. fhi \subseteq 1 .. FrameTop(j)
      BY <2>4, <3>1
    <3> QED
      BY <3>2
  <2>6. Own(calls'[k], pp', lo, hi, frames', flo, fhi)
    BY <2>3, <2>5, OwnKept
  <2> QED
    BY <2>2, <2>6
<1> QED
  BY <1>7, <1>9, <1>10, <1>11, <1>12 DEF BuilderInv

-----------------------------------------------------------------------------

\* A new activation has nothing yet.
Begins(a, top) ==
    /\ a \in Activation /\ a.entry = top /\ a.level = Len(frames)
    /\ Names(a) = {}
    /\ a.kind = "user" => a.pc = "run"
    /\ a.kind # "user" => a.pc = "vec"
    /\ a.i = 1 /\ a.held = <<>> /\ a.copies = {} /\ a.vec = None /\ a.names = None /\ a.hand = None

LEMMA ActivateBegins ==
    ASSUME BuilderInv, NEW kind \in Kinds \union Leaves \union DOMAIN Schemas,
           NEW catch \in BOOLEAN, NEW top \in Seq(0..MaxValues)
    PROVE  /\ Begins(Activate(kind, catch, top), top)
           /\ Activate(kind, catch, top).kind = kind /\ Activate(kind, catch, top).catch = catch
<1> DEFINE a == Activate(kind, catch, top)
           e == <<>>
           pc == IF kind = "user" THEN "run" ELSE "vec"
<1>1. e \in Seq(Held) /\ Len(e) = 0 /\ DOMAIN e = {}
  BY EmptySeq
<1>2. /\ kind \in Leaves \union DOMAIN Schemas \union {"user"}
      /\ MaxValues \in Nat /\ Len(frames) \in Nat /\ 0 \in 0..MaxValues
  BY BuilderAssumption, StackTypes
<1>3. a = [kind |-> kind, pc |-> pc, vec |-> 0, names |-> 0, i |-> 1, hand |-> 0,
           held |-> e, copies |-> {}, catch |-> catch, entry |-> top, level |-> Len(frames)]
  BY DEF Activate, None
<1> HIDE DEF a, e
<1>4. pc \in {"vec", "run"}
  OBVIOUS
<1>5. a \in Activation
  <2> HIDE DEF pc
  <2> QED
    BY <1>1, <1>2, <1>3, <1>4 DEF Activation
<1>6. /\ a.kind = kind /\ a.pc = pc /\ a.vec = 0 /\ a.names = 0 /\ a.i = 1 /\ a.hand = 0
      /\ a.held = e /\ a.copies = {} /\ a.catch = catch /\ a.entry = top /\ a.level = Len(frames)
  BY <1>3
<1>7. Names(a) = {}
  BY <1>1, <1>6 DEF Names, None
<1> QED
  BY <1>5, <1>6, <1>7 DEF Begins, None, a, e

LEMMA BeginsOwn ==
    ASSUME NEW a, NEW top, Begins(a, top), NEW p, NEW lo \in Nat, NEW f, NEW flo \in Nat
    PROVE  Own(a, p, lo, lo, f, flo, flo)
<1>1. lo + 1 .. lo = {} /\ flo + 1 .. flo = {}
  OBVIOUS
<1>2. DOMAIN a.held = {}
  BY EmptySeq DEF Begins
<1>3. CASE a.kind = "user"
  <2>1. UserVars(a)
    BY <1>2, <1>3 DEF Begins, UserVars
  <2>2. UserFrames(a, f, flo, flo) /\ UserStack(a, p, lo, lo, f, flo, flo)
    BY <1>1, <1>2, <1>3 DEF Begins, UserFrames, UserStack
  <2> QED
    BY <1>3, <2>1, <2>2 DEF Own
<1>4. CASE a.kind # "user"
  <2>1. ConversionVars(a)
    BY <1>4 DEF Begins, ConversionVars, HoldsNames, RootsNames
  <2>2. ConversionStacks(a, p, lo, lo, f, flo, flo)
    BY <1>4 DEF Begins, ConversionStacks, RootsVec, HoldsVec, RootsNames, HoldsNames, HoldsAccess, One
  <2> QED
    BY <1>4, <2>1, <2>2 DEF Own
<1> QED
  BY <1>3, <1>4

\* A call: the caller waits, and what the stacks hold by now is not the callee's.
LEMMA CallStep ==
    ASSUME BuilderInv, Len(calls) > 0, NEW m \in Activation, Same(m, Me), Waiting(m),
           Names(m) \subseteq Names(Me),
           Own(m, pp, Len(Me.entry), Len(pp), frames, Me.level, Len(frames)),
           NEW a, Begins(a, pp), calls' = Append(Now(m), a),
           pp' = pp, frames' = frames, taken' = taken
    PROVE  BuilderInv'
<1>0. PICK n \in Nat : n = Len(calls)
  BY StackTypes
<1>1. /\ Me = calls[n] /\ n \in 1..n /\ Bottom(n) = Len(Me.entry) /\ FrameBottom(n) = Me.level
      /\ Top(n) = Len(pp) /\ FrameTop(n) = Len(frames)
  BY <1>0, MyStacks
<1>2. /\ calls \in Seq(Activation) /\ Len(pp) \in Nat /\ Len(frames) \in Nat
      /\ \A k \in 1..n : /\ Bottom(k) \in Nat /\ Top(k) \in Nat
                         /\ FrameBottom(k) \in Nat /\ FrameTop(k) \in Nat
  BY <1>0, StackTypes
<1>3. /\ Now(m) \in Seq(Activation) /\ Len(Now(m)) = n
      /\ \A k \in 1..n : Now(m)[k] = IF k = n THEN m ELSE calls[k]
  BY <1>0, <1>2, NowIs
<1>4. /\ calls' \in Seq(Activation) /\ Len(calls') = n + 1 /\ calls'[n + 1] = a
      /\ \A k \in 1..n : calls'[k] = IF k = n THEN m ELSE calls[k]
  <2>1. a \in Activation
    BY DEF Begins
  <2>2. /\ calls' \in Seq(Activation) /\ Len(calls') = Len(Now(m)) + 1
        /\ \A k \in 1 .. Len(Now(m)) : calls'[k] = Now(m)[k]
        /\ calls'[Len(Now(m)) + 1] = a
    BY <1>3, <2>1, AppendIs
  <2> QED
    BY <1>3, <2>2
<1>5. \A k \in 1..n : /\ calls'[k].entry = calls[k].entry /\ calls'[k].level = calls[k].level
                      /\ calls'[k].catch = calls[k].catch
  BY <1>1, <1>4 DEF Same
<1>6. \A k \in 1..n : Bottom(k)' = Bottom(k) /\ FrameBottom(k)' = FrameBottom(k)
  BY <1>5 DEF Bottom, FrameBottom
<1>7. \A k \in 1..n : Top(k)' = Top(k) /\ FrameTop(k)' = FrameTop(k)
  <2> TAKE k \in 1..n
  <2>0. k # n + 1
    OBVIOUS
  <2>1. CASE k = n
    BY <1>1, <1>4, <2>0, <2>1 DEF Top, FrameTop, Begins
  <2>2. CASE k # n
    <3>1. k + 1 \in 1..n
      BY <2>2
    <3> QED
      BY <1>0, <1>4, <1>5, <2>0, <2>2, <3>1 DEF Top, FrameTop
  <2> QED
    BY <2>1, <2>2
<1>8. /\ Bottom(n + 1)' = Len(pp) /\ FrameBottom(n + 1)' = Len(frames)
      /\ Top(n + 1)' = Len(pp) /\ FrameTop(n + 1)' = Len(frames)
  BY <1>4 DEF Bottom, FrameBottom, Top, FrameTop, Begins
<1>9. /\ \A k \in 1..n : Bottom(k) <= Top(k) /\ FrameBottom(k) <= FrameTop(k)
      /\ \A k \in 1..n : \A i \in 1 .. Bottom(k) : pp[i] = calls[k].entry[i]
      /\ \A k, l \in 1..n : k < l => Top(k) <= Bottom(l) /\ FrameTop(k) <= FrameBottom(l)
      /\ calls[1].level = 0 /\ ~calls[1].catch
  BY <1>0, <1>1 DEF BuilderInv, StacksOK
<1>10. TypeOK' /\ taken' = {}
  BY <1>4 DEF BuilderInv, TypeOK
<1>11. \A k \in 1 .. n + 1 : k \in 1..n \/ k = n + 1
  OBVIOUS
<1>12. StacksOK'
  <2>1. \A k \in 1 .. n + 1 : Bottom(k)' <= Top(k)' /\ FrameBottom(k)' <= FrameTop(k)'
    <3> TAKE k \in 1 .. n + 1
    <3>1. CASE k \in 1..n
      BY <1>6, <1>7, <1>9, <3>1
    <3>2. CASE k = n + 1
      BY <1>2, <1>8, <3>2
    <3> QED
      BY <1>11, <3>1, <3>2
  <2>2. ASSUME NEW k \in 1 .. n + 1, NEW l \in 1 .. n + 1, k < l
        PROVE  Top(k)' <= Bottom(l)' /\ FrameTop(k)' <= FrameBottom(l)'
    <3>1. k \in 1..n
      BY <2>2
    <3>2. CASE l \in 1..n
      BY <1>6, <1>7, <1>9, <2>2, <3>1, <3>2
    <3>3. CASE l = n + 1
      <4>1. Top(k) <= Len(pp) /\ FrameTop(k) <= Len(frames)
        BY <1>0, <3>1, TopInStack
      <4> QED
        BY <1>7, <1>8, <3>1, <3>3, <4>1
    <3> QED
      BY <1>11, <3>2, <3>3
  <2>3. ASSUME NEW k \in 1 .. n + 1, NEW i \in 1 .. Bottom(k)' PROVE pp'[i] = calls'[k].entry[i]
    <3>1. CASE k \in 1..n
      <4>1. Bottom(k)' = Bottom(k) /\ calls'[k].entry = calls[k].entry
        BY <1>5, <1>6, <3>1
      <4>2. pp[i] = calls[k].entry[i]
        BY <1>9, <2>3, <3>1, <4>1
      <4> QED
        BY <4>1, <4>2
    <3>2. CASE k = n + 1
      BY <1>4, <3>2 DEF Begins
    <3> QED
      BY <1>11, <3>1, <3>2
  <2>4. calls'[1].level = 0 /\ ~calls'[1].catch
    BY <1>1, <1>5, <1>9
  <2>5. Len(calls') > 0
    BY <1>4
  <2> QED
    BY <1>4, <2>1, <2>2, <2>3, <2>4, <2>5 DEF StacksOK
<1>13. (\A k \in 1 .. Len(calls) - 1 : Waiting(calls[k]))'
  <2> SUFFICES ASSUME NEW k \in 1..n PROVE Waiting(calls'[k])
    BY <1>4
  <2>1. k # n => k \in 1 .. n - 1
    OBVIOUS
  <2> QED
    BY <1>0, <1>4, <2>1 DEF BuilderInv
<1>14. (\A k, l \in 1 .. Len(calls) : k # l => Names(calls[k]) \cap Names(calls[l]) = {})'
  <2> SUFFICES ASSUME NEW k \in 1 .. n + 1, NEW l \in 1 .. n + 1, k # l
               PROVE  Names(calls'[k]) \cap Names(calls'[l]) = {}
    BY <1>4
  <2>1. Names(calls'[n + 1]) = {}
    BY <1>4 DEF Begins
  <2>2. \A x \in 1..n : Names(calls'[x]) \subseteq Names(calls[x])
    BY <1>1, <1>4
  <2>3. CASE k \in 1..n /\ l \in 1..n
    <3>1. Names(calls[k]) \cap Names(calls[l]) = {}
      BY <1>0, <2>3 DEF BuilderInv
    <3> QED
      BY <2>2, <2>3, <3>1
  <2> QED
    BY <1>11, <2>1, <2>3
<1>15. (\A k \in 1 .. Len(calls) :
          Own(calls[k], pp, Bottom(k), Top(k), frames, FrameBottom(k), FrameTop(k)))'
  <2> SUFFICES ASSUME NEW k \in 1 .. n + 1
               PROVE  Own(calls'[k], pp', Bottom(k)', Top(k)', frames', FrameBottom(k)', FrameTop(k)')
    BY <1>4
  <2>1. CASE k = n
    BY <1>1, <1>4, <1>6, <1>7, <2>1
  <2>2. CASE k \in 1..n /\ k # n
    <3>1. calls'[k] = calls[k]
      BY <1>4, <2>2
    <3>2. Own(calls[k], pp, Bottom(k), Top(k), frames, FrameBottom(k), FrameTop(k))
      BY <1>0, <2>2 DEF BuilderInv
    <3> QED
      BY <1>6, <1>7, <2>2, <3>1, <3>2
  <2>3. CASE k = n + 1
    BY <1>2, <1>4, <1>8, <2>3, BeginsOwn
  <2> QED
    BY <1>11, <2>1, <2>2, <2>3
<1> QED
  BY <1>10, <1>12, <1>13, <1>14, <1>15 DEF BuilderInv

-----------------------------------------------------------------------------

LEMMA EmptyCalls ==
    ASSUME NEW s, s = <<>> PROVE Len(s) = 0 /\ s \in Seq(Activation)
BY EmptySeq

LEMMA InitBuilder == Init => BuilderInv
<1> SUFFICES ASSUME Init PROVE BuilderInv
  OBVIOUS
<1>1. /\ Len(pp) = 0 /\ Len(frames) = 0 /\ Len(calls) = 0
      /\ pp \in Seq(0..MaxValues) /\ frames \in Seq(Frame) /\ calls \in Seq(Activation)
      /\ taken = {}
  BY EmptySeq DEF Init
<1>2. TypeOK
  BY <1>1, BuilderAssumption DEF TypeOK
<1> QED
  BY <1>1, <1>2 DEF BuilderInv, StacksOK

LEMMA ResetStep == ASSUME Reset PROVE BuilderInv'
<1>1. /\ Len(pp') = 0 /\ Len(frames') = 0 /\ Len(calls') = 0
      /\ pp' \in Seq(0..MaxValues) /\ frames' \in Seq(Frame) /\ calls' \in Seq(Activation)
      /\ taken' = {}
  BY EmptySeq DEF Reset
<1>2. TypeOK'
  BY <1>1, BuilderAssumption DEF TypeOK
<1> QED
  BY <1>1, <1>2 DEF BuilderInv, StacksOK

\* The functions of an activation that Own looks at, but for what is in hand.
LEMMA OwnHand ==
    ASSUME NEW a, NEW b, NEW p, NEW lo, NEW hi, NEW f, NEW flo, NEW fhi,
           Own(a, p, lo, hi, f, flo, fhi), Waiting(a),
           b.kind = a.kind, b.pc = a.pc, b.vec = a.vec, b.names = a.names, b.i = a.i,
           b.held = a.held, b.copies = a.copies,
           a.kind = "user" => \A j \in DOMAIN a.held : a.held[j].id # b.hand
    PROVE  Own(b, p, lo, hi, f, flo, fhi)
<1>1. CASE a.kind = "user"
  <2>1. UserVars(a) /\ UserFrames(a, f, flo, fhi) /\ UserStack(a, p, lo, hi, f, flo, fhi)
    BY <1>1 DEF Own
  <2>2. a.pc = "run"
    <3>1. a.kind \notin DOMAIN Schemas
      BY <1>1, BuilderAssumption
    <3> QED
      BY <3>1 DEF Waiting
  <2>3. UserVars(b)
    BY <1>1, <2>1, <2>2 DEF UserVars
  <2>4. UserFrames(b, f, flo, fhi) /\ UserStack(b, p, lo, hi, f, flo, fhi)
    BY <2>1 DEF UserFrames, UserStack
  <2> QED
    BY <1>1, <2>3, <2>4 DEF Own
<1>2. CASE a.kind # "user"
  <2>1. ConversionVars(a) /\ ConversionStacks(a, p, lo, hi, f, flo, fhi)
    BY <1>2 DEF Own
  <2>2. a.pc = "set" /\ a.kind \in DOMAIN Schemas
    BY <1>2 DEF Waiting
  <2>3. ConversionVars(b)
    BY <2>1, <2>2 DEF ConversionVars, HoldsNames, RootsNames
  <2>4. ConversionStacks(b, p, lo, hi, f, flo, fhi)
    BY <2>1 DEF ConversionStacks, RootsVec, RootsNames, HoldsVec, HoldsNames, HoldsAccess
  <2> QED
    BY <1>2, <2>3, <2>4 DEF Own
<1> QED
  BY <1>1, <1>2

\* The activation that ends has nothing left on the stacks.
LEMMA ReturnStep ==
    ASSUME BuilderInv, Len(calls) > 0, Return,
           Len(pp) = Len(Me.entry), Len(frames) = Me.level
    PROVE  BuilderInv'
<1>1. CASE Len(calls) = 1
  BY <1>1, ResetStep DEF Return
<1>2. CASE Len(calls) # 1
  <2>00. PICK n \in Nat : n = Len(calls)
    BY StackTypes
  <2>01. n > 0 /\ n # 1
    BY <1>2, <2>00
  <2>02. PICK j \in Nat : j = n - 1
    BY <2>01
  <2>0. n = Len(calls) /\ n = j + 1 /\ j = Len(calls) - 1 /\ j \in 1..n /\ j < n /\ j > 0
    BY <2>00, <2>01, <2>02
  <2> DEFINE caller == calls[j]
             hand == Me.hand
             c == [caller EXCEPT !.hand = hand]
  <2>1. /\ calls' = Append(Front(Front(calls)), c)
        /\ pp' = pp /\ frames' = frames /\ taken' = taken
    BY <1>2, <2>0 DEF Return
  <2>2. /\ calls \in Seq(Activation) /\ caller \in Activation /\ Me \in Activation /\ Me = calls[n]
        /\ pp \in Seq(0..MaxValues) /\ frames \in Seq(Frame)
    BY <2>0, StackTypes, MyStacks
  <2>3. Waiting(caller)
    BY <2>0 DEF BuilderInv
  <2>4. Own(caller, pp, Bottom(j), Top(j), frames, FrameBottom(j), FrameTop(j))
    BY <2>0 DEF BuilderInv
  <2>5. hand \in 0..MaxValues /\ caller.held \in Seq(Held)
        /\ \A x \in DOMAIN caller.held : caller.held[x].id \in Values
    BY <2>2, ActivationFacts
  <2>6. /\ c \in Activation
        /\ c.kind = caller.kind /\ c.pc = caller.pc /\ c.vec = caller.vec /\ c.names = caller.names
        /\ c.i = caller.i /\ c.held = caller.held /\ c.copies = caller.copies /\ c.hand = hand
        /\ c.catch = caller.catch /\ c.entry = caller.entry /\ c.level = caller.level
    <3> HIDE DEF caller, hand
    <3> QED
      BY <2>2, <2>5 DEF Activation
  <2> HIDE DEF c, caller, hand
  <2>7. \A x \in Names(c) : x \in Names(caller) \/ x \in Names(Me)
    <3>1. hand # None => hand \in Names(Me)
      BY DEF Names, hand
    <3> QED
      BY <2>6, <3>1 DEF Names
  <2>8. Names(caller) \cap Names(Me) = {}
    <3>1. n \in 1..n /\ j # n
      BY <2>0
    <3> QED
      BY <2>0, <2>2, <3>1 DEF BuilderInv, caller
  <2>9. \A x \in DOMAIN caller.held : caller.held[x].id # hand
    <3> TAKE x \in DOMAIN caller.held
    <3>1. caller.held[x].id \in Names(caller)
      BY <2>5 DEF Names, Values, None
    <3>2. hand # None => hand \in Names(Me)
      BY DEF Names, hand
    <3>3. caller.held[x].id # None
      BY <2>5 DEF Values, None
    <3> QED
      BY <2>8, <3>1, <3>2, <3>3
  <2>10. Own(c, pp, Bottom(j), Top(j), frames, FrameBottom(j), FrameTop(j))
    BY <2>3, <2>4, <2>6, <2>9, OwnHand
  <2>11. /\ calls' \in Seq(Activation) /\ Len(calls') = j /\ calls'[j] = c
         /\ \A k \in 1 .. j - 1 : calls'[k] = calls[k]
    <3>1. /\ Front(calls) \in Seq(Activation) /\ Len(Front(calls)) = j
          /\ \A k \in 1..j : Front(calls)[k] = calls[k]
      <4>1. Len(calls) > 0 /\ Len(calls) - 1 = j
        BY <2>0
      <4> QED
        BY <2>2, <4>1, FrontIs
    <3>2. /\ Front(Front(calls)) \in Seq(Activation) /\ Len(Front(Front(calls))) = j - 1
          /\ \A k \in 1 .. j - 1 : Front(Front(calls))[k] = Front(calls)[k]
      BY <2>0, <3>1, FrontIs
    <3> HIDE DEF c
    <3>3. /\ Append(Front(Front(calls)), c) \in Seq(Activation)
          /\ Len(Append(Front(Front(calls)), c)) = (j - 1) + 1
          /\ \A k \in 1 .. j - 1 : Append(Front(Front(calls)), c)[k] = Front(Front(calls))[k]
          /\ Append(Front(Front(calls)), c)[(j - 1) + 1] = c
      BY <2>6, <3>2, AppendIs
    <3>4. (j - 1) + 1 = j /\ \A k \in 1 .. j - 1 : k \in 1..j
      BY <2>0
    <3> QED
      BY <2>1, <3>1, <3>2, <3>3, <3>4
  <2>12. Top(j) = Len(pp) /\ FrameTop(j) = Len(frames)
    BY <2>0, <2>2 DEF Top, FrameTop
  <2>13. \A x \in Names(c), k \in 1 .. j - 1 : x \notin Names(calls[k])
    <3> TAKE x \in Names(c), k \in 1 .. j - 1
    <3>1. k \in 1..n /\ k # j /\ k # n /\ n \in 1..n
      BY <2>0
    <3>2. Names(calls[k]) \cap Names(caller) = {} /\ Names(calls[k]) \cap Names(Me) = {}
      BY <2>0, <2>2, <3>1 DEF BuilderInv, caller
    <3> QED
      BY <2>7, <3>2
  <2>14. Same(c, calls[j])
    BY <2>6 DEF Same, caller
  <2>15. j \in 1 .. Len(calls) /\ j < Len(calls) /\ taken' = {}
    BY <2>0, <2>1 DEF BuilderInv
  <2> QED
    BY <2>1, <2>2, <2>6, <2>10, <2>11, <2>12, <2>13, <2>14, <2>15, CutStep
<1> QED
  BY <1>1, <1>2

\* An error leaves the stacks as the activation below the tryCatch has them.
LEMMA RaisedStep ==
    ASSUME BuilderInv, Len(calls) > 0, Raised
    PROVE  BuilderInv'
<1>1. CASE Catching = {}
  BY <1>1, ResetStep DEF Raised
<1>2. CASE Catching # {}
  <2>0. PICK n \in Nat : n = Len(calls) /\ calls \in Seq(Activation) /\ DOMAIN calls = 1..n
    BY StackTypes
  <2>1. Catching \subseteq 0..n
    BY <2>0 DEF Catching
  <2>2. Max(Catching) \in Catching
    BY <1>2, <2>0, <2>1, MaxOfSome
  <2>3. PICK k \in 1..n : k = Max(Catching) /\ calls[k].catch
    BY <2>0, <2>2 DEF Catching
  <2>4. k # 1
    BY <2>0, <2>3 DEF BuilderInv, StacksOK
  <2>5. PICK j \in Nat : j = k - 1 /\ j \in 1..n /\ j < n /\ j # n /\ k = j + 1
    BY <2>0, <2>3, <2>4
  <2>6. Top(j) = Len(calls[k].entry) /\ FrameTop(j) = calls[k].level
    BY <2>0, <2>5 DEF Top, FrameTop
  <2>7. /\ Top(j) \in Nat /\ FrameTop(j) \in Nat /\ Top(j) <= Len(pp) /\ FrameTop(j) <= Len(frames)
        /\ pp \in Seq(0..MaxValues) /\ frames \in Seq(Frame) /\ calls[j] \in Activation
    BY <2>0, <2>5, StackTypes, TopInStack
  <2>8. /\ pp' = SubSeq(pp, 1, Top(j)) /\ frames' = SubSeq(frames, 1, FrameTop(j))
        /\ calls' = SubSeq(calls, 1, j) /\ taken' = taken
    BY <1>2, <2>3, <2>5, <2>6 DEF Raised, AfterFire
  <2>9. /\ pp' \in Seq(0..MaxValues) /\ Len(pp') = Top(j)
        /\ \A i \in 1 .. Top(j) : pp'[i] = pp[i]
    BY <2>7, <2>8, StartIs
  <2>10. /\ frames' \in Seq(Frame) /\ Len(frames') = FrameTop(j)
         /\ \A i \in 1 .. FrameTop(j) : frames'[i] = frames[i]
    BY <2>7, <2>8, StartIs
  <2>11. /\ calls' \in Seq(Activation) /\ Len(calls') = j
         /\ \A i \in 1 .. j : calls'[i] = calls[i]
    BY <2>0, <2>5, <2>8, StartIs
  <2>12. Own(calls[j], pp, Bottom(j), Top(j), frames, FrameBottom(j), FrameTop(j))
    BY <2>0, <2>5 DEF BuilderInv
  <2>13. \A x \in Names(calls[j]), i \in 1 .. j - 1 : x \notin Names(calls[i])
    <3> TAKE x \in Names(calls[j]), i \in 1 .. j - 1
    <3>1. i \in 1..n /\ i # j
      BY <2>5
    <3> QED
      BY <2>0, <2>5, <3>1 DEF BuilderInv
  <2>14. /\ taken' = {} /\ Same(calls[j], calls[j]) /\ j \in 1 .. Len(calls) /\ j < Len(calls)
         /\ calls'[j] = calls[j] /\ \A i \in 1 .. j - 1 : calls'[i] = calls[i]
    BY <2>0, <2>5, <2>8, <2>11 DEF BuilderInv, Same
  <2> QED
    BY <2>7, <2>9, <2>10, <2>11, <2>12, <2>13, <2>14, CutStep
<1> QED
  BY <1>1, <1>2

LEMMA EnterStep ==
    ASSUME BuilderInv, Enter
    PROVE  BuilderInv'
<1>1. PICK kind \in Kinds \ {"null", "scalar"} : calls' = <<Activate(kind, FALSE, <<None>>)>>
  BY DEF Enter
<1> DEFINE t == <<None>>
           a == Activate(kind, FALSE, t)
<1>2. pp' = t /\ frames' = frames /\ taken' = taken /\ calls' = <<a>>
  BY <1>1 DEF Enter
<1>3. t \in Seq(0..MaxValues) /\ Len(t) = 1
  BY BuilderAssumption DEF None
<1> HIDE DEF t
<1>4. Begins(a, t) /\ ~a.catch
  BY <1>3, ActivateBegins
<1> HIDE DEF a
<1>5. Len(frames) = 0 /\ frames \in Seq(Frame)
  <2>1. Len(calls) = 0
    BY EmptySeq DEF Enter
  <2> QED
    BY <2>1, StackTypes DEF BuilderInv, StacksOK
<1>6. a \in Activation /\ a.level = 0 /\ a.entry = t /\ Names(a) = {}
  BY <1>4, <1>5 DEF Begins
<1>7. calls' \in Seq(Activation) /\ Len(calls') = 1 /\ calls'[1] = a
  BY <1>2, <1>6
<1>8. /\ Bottom(1)' = 1 /\ Top(1)' = 1 /\ FrameBottom(1)' = 0 /\ FrameTop(1)' = 0
  BY <1>2, <1>3, <1>5, <1>6, <1>7 DEF Bottom, Top, FrameBottom, FrameTop
<1>9. TypeOK'
  BY <1>2, <1>3, <1>5, <1>7 DEF BuilderInv, TypeOK
<1>10. StacksOK'
  <2>1. \A k \in 1 .. 1 : k = 1
    OBVIOUS
  <2>2. \A k, l \in 1 .. 1 : ~(k < l)
    OBVIOUS
  <2> QED
    BY <1>2, <1>4, <1>6, <1>7, <1>8, <2>1, <2>2 DEF StacksOK
<1>11. Own(a, pp', 1, 1, frames', 0, 0)
  BY <1>4, BeginsOwn
<1>12. (\A k \in 1 .. Len(calls) :
          Own(calls[k], pp, Bottom(k), Top(k), frames, FrameBottom(k), FrameTop(k)))'
  <2> SUFFICES ASSUME NEW k \in 1 .. 1
               PROVE  Own(calls'[k], pp', Bottom(k)', Top(k)', frames', FrameBottom(k)', FrameTop(k)')
    BY <1>7
  <2>1. k = 1
    OBVIOUS
  <2> QED
    BY <1>7, <1>8, <1>11, <2>1
<1>13. /\ (\A k \in 1 .. Len(calls) - 1 : Waiting(calls[k]))'
       /\ (\A k, l \in 1 .. Len(calls) : k # l => Names(calls[k]) \cap Names(calls[l]) = {})'
  BY <1>7
<1>14. taken' = {}
  BY <1>2 DEF BuilderInv
<1> QED
  BY <1>9, <1>10, <1>12, <1>13, <1>14 DEF BuilderInv

-----------------------------------------------------------------------------
(***************************************************************************)
(* What the operations on the stacks do.                                   *)
(***************************************************************************)
\* What an activation owns is on R's stack.
LEMMA OwnedIsOnStack ==
    ASSUME BuilderInv, NEW k \in 1 .. Len(calls), NEW i \in Bottom(k) + 1 .. Top(k)
    PROVE  i \in 1 .. Len(pp) /\ pp[i] \in Range(pp)
<1>1. /\ Top(k) <= Len(pp) /\ Bottom(k) \in Nat /\ Top(k) \in Nat /\ Len(pp) \in Nat
      /\ DOMAIN pp = 1 .. Len(pp)
  BY StackTypes, TopInStack
<1>2. i \in 1 .. Len(pp)
  BY <1>1
<1> QED
  BY <1>1, <1>2 DEF Range

\* A builder that can be filled has its vector on R's stack.
LEMMA ProtectedIsRooted ==
    ASSUME BuilderInv, NEW i \in 1 .. Len(frames), frames[i].protected
    PROVE  frames[i].id \in Range(pp)
<1>1. PICK k \in 1 .. Len(calls) : i \in FrameBottom(k) + 1 .. FrameTop(k)
  BY FrameHasOwner
<1>2. OnStack(frames[i], pp, Bottom(k), Top(k))
  BY <1>1, FrameFacts
<1>3. PICK j \in Bottom(k) + 1 .. Top(k) : pp[j] = frames[i].id
  BY <1>2 DEF OnStack
<1> QED
  BY <1>3, OwnedIsOnStack

\* With nothing in hand, an allocation takes nothing that is in use.
LEMMA CollectsNothing ==
    ASSUME BuilderInv, Len(calls) > 0, Me.hand = None, Collect
    PROVE  taken' = {}
<1>1. ASSUME NEW a \in Range(calls), NEW v \in Uses(a) PROVE v \in Rooted
  <2>1. PICK k \in 1 .. Len(calls) : a = calls[k]
    BY StackTypes DEF Range
  <2>2. a.hand = None
    <3>0. Len(calls) \in Nat
      BY StackTypes
    <3>1. k = Len(calls) \/ k \in 1 .. Len(calls) - 1
      BY <3>0
    <3> QED
      BY <2>1, <3>1, MyStacks DEF BuilderInv, Waiting
  <2>3. v # None
    BY DEF Uses
  <2>4. \/ \E h \in Range(a.held) : h.id = v /\ ~h.builder
        \/ \E f \in Range(frames) : f.id = v /\ f.protected
    BY <2>2, <2>3 DEF Uses
  <2>5. CASE \E h \in Range(a.held) : h.id = v /\ ~h.builder
    <3>1. PICK j \in DOMAIN a.held : a.held[j].id = v /\ ~a.held[j].builder
      BY <2>5 DEF Range
    <3>2. Own(a, pp, Bottom(k), Top(k), frames, FrameBottom(k), FrameTop(k))
      BY <2>1 DEF BuilderInv
    <3>3. a.kind = "user"
      <4> SUFFICES ASSUME a.kind # "user" PROVE FALSE
        OBVIOUS
      <4>1. a.held = <<>>
        BY <3>2 DEF Own, ConversionVars
      <4> QED
        BY <3>1, <4>1
    <3>4. UserStack(a, pp, Bottom(k), Top(k), frames, FrameBottom(k), FrameTop(k))
      BY <3>2, <3>3 DEF Own
    <3>5. PICK i \in Bottom(k) + 1 .. Top(k) : pp[i] = v
      BY <3>1, <3>4 DEF UserStack, Open
    <3> QED
      BY <2>3, <3>5, OwnedIsOnStack DEF Rooted
  <2>6. CASE \E f \in Range(frames) : f.id = v /\ f.protected
    <3>1. PICK i \in 1 .. Len(frames) : frames[i].id = v /\ frames[i].protected
      BY <2>6, StackTypes DEF Range
    <3> QED
      BY <2>3, <3>1, ProtectedIsRooted DEF Rooted
  <2> QED
    BY <2>4, <2>5, <2>6
<1> QED
  BY <1>1 DEF Collect, InUse, BuilderInv

\* The number of a new value means nothing to anybody yet.
LEMMA NewIsFree ==
    ASSUME BuilderInv, Unused # {}
    PROVE  /\ New \in Values /\ New \in 0..MaxValues /\ New # None
           /\ New \notin Named /\ New \notin Range(pp)
           /\ \A i \in 1 .. Len(frames) : frames[i].id # New
           /\ \A k \in 1 .. Len(calls) : New \notin Names(calls[k])
<1>1. MaxValues \in Nat /\ Values \subseteq Nat /\ Unused \subseteq Nat
  BY BuilderAssumption DEF Values, Unused
<1>2. New \in Unused
  BY <1>1, MinOfSome DEF New
<1>3. New \in Values /\ New \notin Rooted /\ New \notin Named
  BY <1>2 DEF Unused
<1>4. New \in 0..MaxValues /\ New # None
  BY <1>1, <1>3 DEF Values, None
<1>5. New \notin Range(pp)
  BY <1>3, <1>4 DEF Rooted
<1>6. \A i \in 1 .. Len(frames) : frames[i].id # New
  <2> TAKE i \in 1 .. Len(frames)
  <2>1. frames[i] \in Range(frames)
    BY StackTypes DEF Range
  <2> QED
    BY <1>3, <2>1 DEF Named
<1>7. \A k \in 1 .. Len(calls) : New \notin Names(calls[k])
  BY <1>3, NamesAreNamed
<1> QED
  BY <1>3, <1>4, <1>5, <1>6, <1>7

LEMMA RegisterFacts ==
    ASSUME BuilderInv, NEW m, Register(m)
    PROVE  /\ Unused # {} /\ calls' = Now(m) /\ pp' = pp /\ taken' = {}
           /\ frames' \in Seq(Frame) /\ Len(frames') = Len(frames) + 1 /\ Len(frames') <= MAX_NESTING
           /\ \A i \in 1 .. Len(frames) : frames'[i] = frames[i]
           /\ frames'[Len(frames) + 1] = [id |-> New, kind |-> "result", protected |-> FALSE]
<1> DEFINE e == [id |-> New, kind |-> "result", protected |-> FALSE]
<1>1. /\ Unused # {} /\ calls' = Now(m) /\ pp' = pp /\ taken' = {}
      /\ frames' = Append(frames, e) /\ Len(frames) < MAX_NESTING
  BY DEF Register, BuilderInv
<1>2. e \in Frame
  BY <1>1, NewIsFree DEF Frame
<1>3. frames \in Seq(Frame) /\ Len(frames) \in Nat /\ MAX_NESTING \in Nat
  BY StackTypes, BuilderAssumption
<1> HIDE DEF e
<1>4. /\ frames' \in Seq(Frame) /\ Len(frames') = Len(frames) + 1
      /\ \A i \in 1 .. Len(frames) : frames'[i] = frames[i]
      /\ frames'[Len(frames) + 1] = e
  BY <1>1, <1>2, <1>3, AppendIs
<1> QED
  BY <1>1, <1>3, <1>4 DEF e

LEMMA FillFacts ==
    ASSUME BuilderInv, Len(calls) > 0, Me.hand = None, NEW m, NEW v \in Names(Me),
           v \in 0..MaxValues, Fill(v, m)
    PROVE  /\ calls' = Now(m) /\ taken' = {}
           /\ pp' \in Seq(0..MaxValues) /\ Len(pp') = Len(pp) + 1
           /\ \A i \in 1 .. Len(pp) : pp'[i] = pp[i]
           /\ pp'[Len(pp) + 1] = v
           /\ frames' \in Seq(Frame) /\ Len(frames') = Len(frames) /\ Len(frames') <= MAX_NESTING
           /\ \A i \in 1 .. Me.level : frames'[i] = frames[i]
           /\ \A i \in 1 .. Len(frames) :
                 /\ frames[i].id # v => frames'[i] = frames[i]
                 /\ frames[i].id = v =>
                       frames'[i] = [id |-> v, kind |-> frames[i].kind, protected |-> TRUE]
<1>1. calls' = Now(m) /\ Collect /\ pp' = Append(pp, v)
  BY DEF Fill
<1>2. taken' = {}
  BY <1>1, CollectsNothing
<1>3. /\ pp \in Seq(0..MaxValues) /\ frames \in Seq(Frame) /\ Len(frames) \in Nat
      /\ DOMAIN frames = 1 .. Len(frames) /\ \A i \in 1 .. Len(frames) : frames[i] \in Frame
  BY StackTypes
<1>4. /\ pp' \in Seq(0..MaxValues) /\ Len(pp') = Len(pp) + 1
      /\ \A i \in 1 .. Len(pp) : pp'[i] = pp[i]
      /\ pp'[Len(pp) + 1] = v
  BY <1>1, <1>3, AppendIs
<1>5. frames' = [k \in 1 .. Len(frames) |->
                    IF frames[k].id = v THEN [frames[k] EXCEPT !.protected = TRUE]
                                        ELSE frames[k]]
  BY <1>3 DEF Fill
<1>6. \A i \in 1 .. Len(frames) :
         /\ frames[i].id # v => frames'[i] = frames[i]
         /\ frames[i].id = v =>
               frames'[i] = [id |-> v, kind |-> frames[i].kind, protected |-> TRUE]
  <2> TAKE i \in 1 .. Len(frames)
  <2>1. frames[i].id # v => frames'[i] = frames[i]
    BY <1>5
  <2>2. frames'[i] = IF frames[i].id = v THEN [frames[i] EXCEPT !.protected = TRUE]
                                         ELSE frames[i]
    BY <1>5
  <2>3. frames[i] \in Frame
    BY <1>3
  <2>4. frames[i].id = v =>
           frames'[i] = [id |-> v, kind |-> frames[i].kind, protected |-> TRUE]
    BY <2>2, <2>3 DEF Frame
  <2> QED
    BY <2>1, <2>4
<1>7. \A i \in 1 .. Len(frames) : frames'[i] \in Frame
  <2> TAKE i \in 1 .. Len(frames)
  <2>1. frames[i] \in Frame /\ frames[i].id \in Values /\ frames[i].kind \in {"result", "native"}
    BY <1>3 DEF Frame
  <2>2. CASE frames[i].id # v
    BY <1>6, <2>1, <2>2
  <2>3. CASE frames[i].id = v
    <3>1. [id |-> v, kind |-> frames[i].kind, protected |-> TRUE] \in Frame
      BY <2>1, <2>3 DEF Frame
    <3> QED
      BY <1>6, <2>3, <3>1
  <2> QED
    BY <2>2, <2>3
<1>8. frames' \in Seq(Frame) /\ Len(frames') = Len(frames)
  <2>1. frames' \in [1 .. Len(frames) -> Frame]
    BY <1>5, <1>7
  <2> QED
    BY <1>3, <2>1, LenProperties
<1>9. \A i \in 1 .. Me.level : frames'[i] = frames[i]
  <2> TAKE i \in 1 .. Me.level
  <2>1. i \in 1 .. Len(frames) /\ ~(i > Me.level)
    BY <1>3, MyStacks
  <2>2. frames[i].id # v
    BY <2>1, MyFrames
  <2> QED
    BY <1>6, <2>1, <2>2
<1>10. Len(frames') <= MAX_NESTING
  BY <1>8 DEF BuilderInv, TypeOK
<1> QED
  BY <1>1, <1>2, <1>4, <1>6, <1>8, <1>9, <1>10

\* A frame is found and taken out, or there is none.
Missing(v, kind) == \A i \in 1 .. Len(frames) : ~(frames[i].id = v /\ frames[i].kind = kind)
TakenOut(s, v, kind, r) ==
    /\ frames[r].id = v /\ frames[r].kind = kind
    /\ \A i \in 1 .. Len(frames) : frames[i].id = v /\ frames[i].kind = kind => i <= r
    /\ s \in Seq(Frame) /\ Len(s) = Len(frames) - 1
    /\ \A i \in 1 .. Len(frames) - 1 : s[i] = frames[IF i < r THEN i ELSE i + 1]

LEMMA WithoutIs ==
    ASSUME BuilderInv, NEW v, NEW kind
    PROVE  IF Missing(v, kind)
           THEN FramesWithout(v, kind) = frames
           ELSE \E r \in 1 .. Len(frames) : TakenOut(FramesWithout(v, kind), v, kind, r)
<1> DEFINE n == Len(frames)
           its == {k \in DOMAIN frames : frames[k].id = v /\ frames[k].kind = kind}
<1>1. n \in Nat /\ DOMAIN frames = 1..n /\ frames \in Seq(Frame)
  BY StackTypes
<1>2. FramesWithout(v, kind) = IF its = {} THEN frames ELSE RemoveAt(frames, Max(its))
  BY DEF FramesWithout
<1>3. CASE Missing(v, kind)
  BY <1>1, <1>2, <1>3 DEF Missing
<1>4. CASE ~Missing(v, kind)
  <2>1. its # {} /\ its \subseteq 0..n
    BY <1>1, <1>4 DEF Missing
  <2>2. Max(its) \in its /\ \A y \in its : y <= Max(its)
    BY <1>1, <2>1, MaxOfSome
  <2>3. PICK r \in 1..n : /\ r = Max(its) /\ frames[r].id = v /\ frames[r].kind = kind
                          /\ \A y \in its : y <= r
    BY <1>1, <2>2
  <2>4. FramesWithout(v, kind) = RemoveAt(frames, r)
    BY <1>2, <2>1, <2>3
  <2>5. /\ RemoveAt(frames, r) \in Seq(Frame) /\ Len(RemoveAt(frames, r)) = n - 1
        /\ \A i \in 1 .. n - 1 : RemoveAt(frames, r)[i] = frames[IF i < r THEN i ELSE i + 1]
    BY <1>1, RemovedIs
  <2>6. \A i \in 1..n : frames[i].id = v /\ frames[i].kind = kind => i <= r
    BY <1>1, <2>3
  <2> QED
    BY <1>4, <2>3, <2>4, <2>5, <2>6 DEF TakenOut
<1> QED
  BY <1>3, <1>4

LEMMA ActiveIs ==
    ASSUME BuilderInv, NEW v
    PROVE  FrameIsActive(v) <=> ~Missing(v, "result")
BY StackTypes DEF FrameIsActive, Missing, Range

-----------------------------------------------------------------------------
(***************************************************************************)
(* Conversions.                                                            *)
(***************************************************************************)
PCs == {"vec", "vecAlloc", "names", "namesAlloc", "field", "set", "name", "attr",
        "dropNames", "access", "read", "finish", "close", "run"}

LEMMA Running ==
    ASSUME BuilderInv, NEW pc, At(pc)
    PROVE  Len(calls) > 0 /\ Me.pc = pc /\ Me \in Activation
<1>1. Len(calls) > 0
  BY EmptySeq, StackTypes DEF At
<1> QED
  BY <1>1, MyStacks DEF At

LEMMA SchemaFacts ==
    ASSUME NEW kind \in DOMAIN Schemas
    PROVE  /\ kind \notin {"null", "scalar", "slice", "strings", "copy", "user"}
           /\ Len(Schemas[kind]) \in Nat
           /\ Schemas[kind] # <<>> => Len(Schemas[kind]) > 0
           /\ \A i \in 1 .. Len(Schemas[kind]) :
                 Schemas[kind][i] \in Leaves \union DOMAIN Schemas
<1>1. Schemas[kind] \in Seq((Leaves \ {"copy"}) \union DOMAIN Schemas)
  BY BuilderAssumption
<1>2. kind \notin {"null", "scalar", "slice", "strings", "copy", "user"}
  BY BuilderAssumption DEF Leaves
<1>3. \A i \in 1 .. Len(Schemas[kind]) :
         Schemas[kind][i] \in (Leaves \ {"copy"}) \union DOMAIN Schemas
  BY <1>1, ElementOfSeq
<1>4. Len(Schemas[kind]) \in Nat /\ (Schemas[kind] # <<>> => Len(Schemas[kind]) > 0)
  <2>1. Len(Schemas[kind]) \in Nat /\ (Len(Schemas[kind]) = 0 => Schemas[kind] = <<>>)
    BY <1>1, EmptySeq, LenProperties
  <2> QED
    BY <2>1
<1> QED
  BY <1>2, <1>3, <1>4

\* Goto.
LEMMA GotoFacts ==
    ASSUME NEW a \in Activation, NEW pc \in PCs
    PROVE  LET m == [a EXCEPT !.pc = pc]
           IN  /\ m \in Activation /\ Same(m, a) /\ m.pc = pc
               /\ m.vec = a.vec /\ m.names = a.names /\ m.i = a.i /\ m.hand = a.hand
               /\ m.held = a.held /\ m.copies = a.copies
               /\ Names(m) = Names(a)
<1> DEFINE m == [a EXCEPT !.pc = pc]
<1>1. /\ m \in Activation /\ Same(m, a) /\ m.pc = pc
      /\ m.vec = a.vec /\ m.names = a.names /\ m.i = a.i /\ m.hand = a.hand
      /\ m.held = a.held /\ m.copies = a.copies
  BY DEF Activation, PCs, Same
<1> HIDE DEF m
<1>2. Names(m) = Names(a)
  BY <1>1 DEF Names
<1> QED
  BY <1>1, <1>2 DEF m

\* A step that leaves both stacks alone.
LEMMA QuietStep ==
    ASSUME BuilderInv, Len(calls) > 0, NEW m \in Activation, Same(m, Me), calls' = Now(m),
           pp' = pp, frames' = frames, taken' = {},
           Own(m, pp, Len(Me.entry), Len(pp), frames, Me.level, Len(frames)),
           \A x \in Names(m) : x \in Names(Me) \/ x \notin Named
    PROVE  BuilderInv'
<1>1. /\ pp' \in Seq(0..MaxValues) /\ frames' \in Seq(Frame) /\ Len(frames') <= MAX_NESTING
  BY DEF BuilderInv, TypeOK
<1>2. Len(pp') >= Len(Me.entry) /\ Len(frames') >= Me.level
  BY MyStacks, StackTypes
<1>3. /\ \A i \in 1 .. Len(Me.entry) : pp'[i] = pp[i]
      /\ \A i \in 1 .. Me.level : frames'[i] = frames[i]
  OBVIOUS
<1>4. Own(m, pp', Len(Me.entry), Len(pp'), frames', Me.level, Len(frames'))
  OBVIOUS
<1> QED
  BY <1>1, <1>2, <1>3, <1>4, OwnStep

LEMMA QuietConversion ==
    ASSUME BuilderInv, Len(calls) > 0, Me.kind # "user",
           NEW m \in Activation, Same(m, Me), m.vec = Me.vec, m.names = Me.names,
           ConversionVars(m),
           RootsVec(m) = RootsVec(Me), RootsNames(m) = RootsNames(Me),
           HoldsVec(m) = HoldsVec(Me), HoldsNames(m) = HoldsNames(Me),
           HoldsAccess(m) = HoldsAccess(Me)
    PROVE  Own(m, pp, Len(Me.entry), Len(pp), frames, Me.level, Len(frames))
<1>1. Own(Me, pp, Len(Me.entry), Len(pp), frames, Me.level, Len(frames))
  BY MyStacks
<1>2. ConversionStacks(Me, pp, Len(Me.entry), Len(pp), frames, Me.level, Len(frames))
  BY <1>1 DEF Own
<1>3. ConversionStacks(m, pp, Len(Me.entry), Len(pp), frames, Me.level, Len(frames))
  BY <1>2 DEF ConversionStacks
<1> QED
  BY <1>3 DEF Own, Same

LEMMA MyConversion ==
    ASSUME BuilderInv, Len(calls) > 0, Me.kind # "user"
    PROVE  /\ ConversionVars(Me)
           /\ ConversionStacks(Me, pp, Len(Me.entry), Len(pp), frames, Me.level, Len(frames))
BY MyStacks DEF Own

LEMMA SetFieldStep == ASSUME BuilderInv, SetField PROVE BuilderInv'
<1> DEFINE m == [Me EXCEPT !.pc = "name", !.hand = None]
<1>1. /\ Len(calls) > 0 /\ Me.pc = "set" /\ Me \in Activation /\ Me.kind \in DOMAIN Schemas
      /\ calls' = Now(m) /\ pp' = pp /\ frames' = frames /\ taken' = {}
  BY Running DEF SetField, InSchema, BuilderInv
<1>2. /\ m \in Activation /\ Same(m, Me) /\ m.pc = "name" /\ m.hand = None
      /\ m.vec = Me.vec /\ m.names = Me.names /\ m.i = Me.i
      /\ m.held = Me.held /\ m.copies = Me.copies
  <2>1. None \in 0..MaxValues
    BY BuilderAssumption DEF None
  <2> QED
    BY <1>1, <2>1 DEF Activation, Same
<1> HIDE DEF m
<1>3. Me.kind # "user" /\ ConversionVars(Me)
  BY <1>1, SchemaFacts, MyConversion
<1>4. ConversionVars(m)
  BY <1>1, <1>2, <1>3 DEF ConversionVars, HoldsNames, RootsNames, Same
<1>5. /\ RootsVec(m) = RootsVec(Me) /\ RootsNames(m) = RootsNames(Me)
      /\ HoldsVec(m) = HoldsVec(Me) /\ HoldsNames(m) = HoldsNames(Me)
      /\ HoldsAccess(m) = HoldsAccess(Me)
  BY <1>1, <1>2, SchemaFacts DEF RootsVec, RootsNames, HoldsVec, HoldsNames, HoldsAccess, Same
<1>6. Own(m, pp, Len(Me.entry), Len(pp), frames, Me.level, Len(frames))
  BY <1>1, <1>2, <1>3, <1>4, <1>5, QuietConversion
<1>7. \A x \in Names(m) : x \in Names(Me)
  BY <1>2 DEF Names
<1> QED
  BY <1>1, <1>2, <1>6, <1>7, QuietStep

LEMMA SetNameStep == ASSUME BuilderInv, SetName PROVE BuilderInv'
<1> DEFINE m == NextField(Me)
           last == Len(Schemas[Me.kind])
<1>1. /\ Len(calls) > 0 /\ Me.pc = "name" /\ Me \in Activation /\ Me.kind \in DOMAIN Schemas
      /\ calls' = Now(m) /\ Collect /\ pp' = pp /\ frames' = frames
  BY Running DEF SetName, InSchema
<1>2. /\ m \in Activation /\ Same(m, Me) /\ m.i = Me.i + 1 /\ m.hand = Me.hand
      /\ m.pc = IF Me.i = last THEN "attr" ELSE "field"
      /\ m.vec = Me.vec /\ m.names = Me.names
      /\ m.held = Me.held /\ m.copies = Me.copies
  <2> HIDE DEF last
  <2> DEFINE pc == IF Me.i = last THEN "attr" ELSE "field"
             i == Me.i + 1
  <2>1. m = [Me EXCEPT !.pc = pc, !.i = i]
    BY <1>1 DEF NextField, Activation, last
  <2>2. pc \in {"attr", "field"} /\ i \in Nat
    BY <1>1 DEF Activation
  <2> HIDE DEF pc, i, m
  <2>3. /\ m \in Activation /\ Same(m, Me) /\ m.i = i /\ m.hand = Me.hand /\ m.pc = pc
        /\ m.vec = Me.vec /\ m.names = Me.names
        /\ m.held = Me.held /\ m.copies = Me.copies
    BY <1>1, <2>1, <2>2 DEF Activation, Same
  <2> QED
    BY <2>3 DEF pc, i
<1>3. Me.kind # "user" /\ ConversionVars(Me) /\ last \in Nat
  BY <1>1, SchemaFacts, MyConversion
<1> HIDE DEF m
<1>4. Me.hand = None /\ Me.i \in 1..last
  <2>1. Me.kind \in DOMAIN Schemas /\ Me.kind # "strings"
    BY <1>1, SchemaFacts
  <2> QED
    BY <1>1, <1>3, <2>1 DEF ConversionVars
<1>5. taken' = {}
  BY <1>1, <1>4, CollectsNothing
<1>6. m.pc = "field" => m.i \in 1..last
  BY <1>2, <1>3, <1>4
<1>7. ConversionVars(m)
  BY <1>1, <1>2, <1>3, <1>4, <1>6 DEF ConversionVars, HoldsNames, RootsNames, Same
<1>8. /\ RootsVec(m) = RootsVec(Me) /\ RootsNames(m) = RootsNames(Me)
      /\ HoldsVec(m) = HoldsVec(Me) /\ HoldsNames(m) = HoldsNames(Me)
      /\ HoldsAccess(m) = HoldsAccess(Me)
  BY <1>1, <1>2, SchemaFacts DEF RootsVec, RootsNames, HoldsVec, HoldsNames, HoldsAccess, Same
<1>9. Own(m, pp, Len(Me.entry), Len(pp), frames, Me.level, Len(frames))
  BY <1>1, <1>2, <1>3, <1>7, <1>8, QuietConversion
<1>10. \A x \in Names(m) : x \in Names(Me)
  BY <1>2 DEF Names
<1> QED
  BY <1>1, <1>2, <1>5, <1>9, <1>10, QuietStep

LEMMA SetNamesStep == ASSUME BuilderInv, SetNames PROVE BuilderInv'
<1> DEFINE m == [Me EXCEPT !.pc = "dropNames"]
<1>1. /\ Len(calls) > 0 /\ Me.pc = "attr" /\ Me \in Activation /\ Me.kind \in DOMAIN Schemas
      /\ calls' = Now(m) /\ Collect /\ pp' = pp /\ frames' = frames
  BY Running DEF SetNames, InSchema, Goto
<1>2. /\ m \in Activation /\ Same(m, Me) /\ m.pc = "dropNames" /\ m.hand = Me.hand
      /\ m.vec = Me.vec /\ m.names = Me.names /\ m.i = Me.i
      /\ m.held = Me.held /\ m.copies = Me.copies /\ Names(m) = Names(Me)
  <2>1. "dropNames" \in PCs
    BY DEF PCs
  <2> QED
    BY <1>1, <2>1, GotoFacts
<1> HIDE DEF m
<1>3. Me.kind # "user" /\ ConversionVars(Me)
  BY <1>1, SchemaFacts, MyConversion
<1>4. taken' = {} /\ Me.hand = None
  BY <1>1, <1>3, CollectsNothing DEF ConversionVars
<1>5. ConversionVars(m)
  BY <1>1, <1>2, <1>3, <1>4 DEF ConversionVars, HoldsNames, RootsNames, Same
<1>6. /\ RootsVec(m) = RootsVec(Me) /\ RootsNames(m) = RootsNames(Me)
      /\ HoldsVec(m) = HoldsVec(Me) /\ HoldsNames(m) = HoldsNames(Me)
      /\ HoldsAccess(m) = HoldsAccess(Me)
  BY <1>1, <1>2, SchemaFacts DEF RootsVec, RootsNames, HoldsVec, HoldsNames, HoldsAccess, Same
<1>7. Own(m, pp, Len(Me.entry), Len(pp), frames, Me.level, Len(frames))
  BY <1>1, <1>2, <1>3, <1>5, <1>6, QuietConversion
<1> QED
  BY <1>1, <1>2, <1>4, <1>7, QuietStep

LEMMA SetStringsStep == ASSUME BuilderInv, SetStrings PROVE BuilderInv'
<1>1. PICK pc \in {"set", "finish"} : Goto(pc)
  BY DEF SetStrings
<1> DEFINE m == [Me EXCEPT !.pc = pc]
<1>2. /\ Len(calls) > 0 /\ Me.pc = "set" /\ Me \in Activation /\ Me.kind = "strings"
      /\ calls' = Now(m) /\ Collect /\ pp' = pp /\ frames' = frames
  BY <1>1, Running DEF SetStrings, AtKind, Goto
<1>3. /\ m \in Activation /\ Same(m, Me) /\ m.pc = pc /\ m.hand = Me.hand
      /\ m.vec = Me.vec /\ m.names = Me.names /\ m.i = Me.i
      /\ m.held = Me.held /\ m.copies = Me.copies /\ Names(m) = Names(Me)
  <2>1. pc \in PCs
    BY DEF PCs
  <2> QED
    BY <1>2, <2>1, GotoFacts
<1> HIDE DEF m
<1>4. Me.kind # "user" /\ ConversionVars(Me) /\ Me.kind \notin DOMAIN Schemas
  BY <1>2, SchemaFacts, MyConversion
<1>5. taken' = {} /\ Me.hand = None
  BY <1>2, <1>4, CollectsNothing DEF ConversionVars
<1>6. ConversionVars(m)
  BY <1>2, <1>3, <1>4, <1>5 DEF ConversionVars, HoldsNames, RootsNames, Same
<1>7. /\ RootsVec(m) = RootsVec(Me) /\ RootsNames(m) = RootsNames(Me)
      /\ HoldsVec(m) = HoldsVec(Me) /\ HoldsNames(m) = HoldsNames(Me)
      /\ HoldsAccess(m) = HoldsAccess(Me)
  BY <1>2, <1>3, <1>4 DEF RootsVec, RootsNames, HoldsVec, HoldsNames, HoldsAccess, Same
<1>8. Own(m, pp, Len(Me.entry), Len(pp), frames, Me.level, Len(frames))
  BY <1>2, <1>3, <1>4, <1>6, <1>7, QuietConversion
<1> QED
  BY <1>2, <1>3, <1>5, <1>8, QuietStep

LEMMA ReadChunkStep == ASSUME BuilderInv, ReadChunk PROVE BuilderInv'
<1>1. PICK pc \in {"read", "finish"} : Goto(pc)
  BY DEF ReadChunk
<1> DEFINE m == [Me EXCEPT !.pc = pc]
<1>2. /\ Len(calls) > 0 /\ Me.pc = "read" /\ Me \in Activation /\ Me.kind = "copy"
      /\ calls' = Now(m) /\ Collect /\ pp' = pp /\ frames' = frames
  BY <1>1, Running DEF ReadChunk, AtKind, Goto
<1>3. /\ m \in Activation /\ Same(m, Me) /\ m.pc = pc /\ m.hand = Me.hand
      /\ m.vec = Me.vec /\ m.names = Me.names /\ m.i = Me.i
      /\ m.held = Me.held /\ m.copies = Me.copies /\ Names(m) = Names(Me)
  <2>1. pc \in PCs
    BY DEF PCs
  <2> QED
    BY <1>2, <2>1, GotoFacts
<1> HIDE DEF m
<1>4. Me.kind # "user" /\ ConversionVars(Me) /\ Me.kind \notin DOMAIN Schemas
  BY <1>2, SchemaFacts, MyConversion
<1>5. taken' = {} /\ Me.hand = None
  BY <1>2, <1>4, CollectsNothing DEF ConversionVars
<1>6. ConversionVars(m)
  BY <1>2, <1>3, <1>4, <1>5 DEF ConversionVars, HoldsNames, RootsNames, Same
<1>7. /\ RootsVec(m) = RootsVec(Me) /\ RootsNames(m) = RootsNames(Me)
      /\ HoldsVec(m) = HoldsVec(Me) /\ HoldsNames(m) = HoldsNames(Me)
      /\ HoldsAccess(m) = HoldsAccess(Me)
  BY <1>2, <1>3, <1>4 DEF RootsVec, RootsNames, HoldsVec, HoldsNames, HoldsAccess, Same
<1>8. Own(m, pp, Len(Me.entry), Len(pp), frames, Me.level, Len(frames))
  BY <1>2, <1>3, <1>4, <1>6, <1>7, QuietConversion
<1> QED
  BY <1>2, <1>3, <1>5, <1>8, QuietStep

LEMMA ConvertFieldStep == ASSUME BuilderInv, ConvertField PROVE BuilderInv'
<1> DEFINE kind == Fields[Me.i]
<1>1. /\ Len(calls) > 0 /\ Me.pc = "field" /\ Me \in Activation /\ Me.kind \in DOMAIN Schemas
  BY Running DEF ConvertField, InSchema
<1>2. Me.kind # "user" /\ ConversionVars(Me)
  BY <1>1, SchemaFacts, MyConversion
<1>3. Me.hand = None /\ Me.i \in 1 .. Len(Schemas[Me.kind])
  BY <1>1, <1>2 DEF ConversionVars
<1>4. kind \in Leaves \union DOMAIN Schemas
  BY <1>1, <1>3, SchemaFacts DEF Fields
<1>5. ASSUME NEW m \in Activation, Same(m, Me), m.pc = "set", m.vec = Me.vec, m.names = Me.names,
             m.i = Me.i, m.held = Me.held, m.copies = Me.copies
      PROVE  Own(m, pp, Len(Me.entry), Len(pp), frames, Me.level, Len(frames))
  <2>1. ConversionVars(m)
    BY <1>1, <1>2, <1>3, <1>5 DEF ConversionVars, HoldsNames, RootsNames, Same
  <2>2. /\ RootsVec(m) = RootsVec(Me) /\ RootsNames(m) = RootsNames(Me)
        /\ HoldsVec(m) = HoldsVec(Me) /\ HoldsNames(m) = HoldsNames(Me)
        /\ HoldsAccess(m) = HoldsAccess(Me)
    BY <1>1, <1>5, SchemaFacts DEF RootsVec, RootsNames, HoldsVec, HoldsNames, HoldsAccess, Same
  <2> QED
    BY <1>1, <1>2, <1>5, <2>1, <2>2, QuietConversion
<1> DEFINE m == [Me EXCEPT !.pc = "set"]
<1>6. /\ m \in Activation /\ Same(m, Me) /\ m.pc = "set" /\ m.hand = Me.hand
      /\ m.vec = Me.vec /\ m.names = Me.names /\ m.i = Me.i
      /\ m.held = Me.held /\ m.copies = Me.copies /\ Names(m) = Names(Me)
  <2>1. "set" \in PCs
    BY DEF PCs
  <2> QED
    BY <1>1, <2>1, GotoFacts
<1> HIDE DEF m, kind
<1>7. Own(m, pp, Len(Me.entry), Len(pp), frames, Me.level, Len(frames))
  BY <1>5, <1>6
<1>8. CASE kind = "null" /\ calls' = Now(m) /\ UNCHANGED <<pp, frames, taken>>
  <2>1. pp' = pp /\ frames' = frames /\ taken' = {}
    BY <1>8 DEF BuilderInv
  <2> QED
    BY <1>1, <1>6, <1>7, <1>8, <2>1, QuietStep
<1>9. CASE /\ Unused # {} /\ Collect /\ calls' = Now([Me EXCEPT !.pc = "set", !.hand = New])
           /\ UNCHANGED <<pp, frames>>
  <2> DEFINE w == [Me EXCEPT !.pc = "set", !.hand = New]
  <2>1. New \in 0..MaxValues /\ New \notin Named
    BY <1>9, NewIsFree
  <2>2. /\ w \in Activation /\ Same(w, Me) /\ w.pc = "set" /\ w.hand = New
        /\ w.vec = Me.vec /\ w.names = Me.names /\ w.i = Me.i
        /\ w.held = Me.held /\ w.copies = Me.copies
    BY <1>1, <2>1 DEF Activation, Same
  <2> HIDE DEF w
  <2>3. Own(w, pp, Len(Me.entry), Len(pp), frames, Me.level, Len(frames))
    BY <1>5, <2>2
  <2>4. \A x \in Names(w) : x \in Names(Me) \/ x \notin Named
    BY <2>1, <2>2 DEF Names
  <2>5. taken' = {} /\ pp' = pp /\ frames' = frames /\ calls' = Now(w)
    BY <1>1, <1>3, <1>9, CollectsNothing DEF w
  <2> QED
    BY <1>1, <2>2, <2>3, <2>4, <2>5, QuietStep
<1>10. CASE /\ calls' = Append(Now(m), Activate(kind, FALSE, pp))
            /\ UNCHANGED <<pp, frames, taken>>
  <2>1. Begins(Activate(kind, FALSE, pp), pp)
    BY <1>4, ActivateBegins, StackTypes
  <2>2. Waiting(m)
    BY <1>1, <1>3, <1>6 DEF Waiting, Same
  <2>3. pp' = pp /\ frames' = frames /\ taken' = taken
    BY <1>10
  <2> HIDE DEF m
  <2> QED
    BY <1>1, <1>6, <1>7, <1>10, <2>1, <2>2, <2>3, CallStep
<1> QED
  BY <1>8, <1>9, <1>10 DEF ConvertField, Goto, m, kind

\* What a conversion has on the stacks at a program counter.
LEMMA BeginConversion ==
    ASSUME BuilderInv, BeginVec, Me.kind # "user" PROVE BuilderInv'
<1> DEFINE m == [Me EXCEPT !.pc = "vecAlloc", !.vec = New]
<1>1. /\ Len(calls) > 0 /\ Me.pc = "vec" /\ Me \in Activation /\ Register(m)
  BY Running DEF BeginVec
<1>2. /\ calls' = Now(m) /\ pp' = pp /\ taken' = {} /\ Unused # {}
      /\ frames' \in Seq(Frame) /\ Len(frames') = Len(frames) + 1 /\ Len(frames') <= MAX_NESTING
      /\ \A i \in 1 .. Len(frames) : frames'[i] = frames[i]
      /\ frames'[Len(frames) + 1] = [id |-> New, kind |-> "result", protected |-> FALSE]
  BY <1>1, RegisterFacts
<1>3. New \in 0..MaxValues /\ New \notin Named /\ New # None
  BY <1>2, NewIsFree
<1>4. /\ m \in Activation /\ Same(m, Me) /\ m.pc = "vecAlloc" /\ m.vec = New
      /\ m.names = Me.names /\ m.i = Me.i /\ m.hand = Me.hand
      /\ m.held = Me.held /\ m.copies = Me.copies
  BY <1>1, <1>3 DEF Activation, Same
<1> HIDE DEF m
<1>5. /\ ConversionVars(Me)
      /\ ConversionStacks(Me, pp, Len(Me.entry), Len(pp), frames, Me.level, Len(frames))
  BY <1>1, MyConversion
<1>6. /\ Len(pp) \in Nat /\ Len(frames) \in Nat /\ Len(Me.entry) \in Nat /\ Me.level \in Nat
      /\ pp \in Seq(0..MaxValues)
  BY <1>1, StackTypes, MyStacks
<1>7. Me.names = None /\ Me.hand = None
  BY <1>1, <1>5, SchemaFacts DEF ConversionVars
<1>8. Len(pp) = Len(Me.entry) /\ Len(frames) = Me.level
  BY <1>1, <1>5, <1>6 DEF ConversionStacks, RootsVec, RootsNames, HoldsVec, HoldsNames, HoldsAccess, One
<1>9. ConversionVars(m)
  BY <1>1, <1>3, <1>4, <1>5, <1>7 DEF ConversionVars, HoldsNames, RootsNames, Same
<1>10. ~RootsVec(m) /\ ~RootsNames(m) /\ HoldsVec(m) /\ ~HoldsNames(m) /\ ~HoldsAccess(m)
  BY <1>4 DEF RootsVec, RootsNames, HoldsVec, HoldsNames, HoldsAccess
<1>11. RootsVec(m) = FALSE
  BY <1>4 DEF RootsVec, HoldsVec
<1>12. ConversionStacks(m, pp', Len(Me.entry), Len(pp'), frames', Me.level, Len(frames'))
  <2>1. Len(pp') = Len(Me.entry) + One(RootsVec(m)) + One(RootsNames(m))
    BY <1>2, <1>6, <1>8, <1>10 DEF One
  <2>2. Len(frames') = Me.level + One(HoldsVec(m)) + One(HoldsNames(m)) + One(HoldsAccess(m))
    BY <1>2, <1>6, <1>8, <1>10 DEF One
  <2>3. frames'[Me.level + 1] = [id |-> m.vec, kind |-> "result", protected |-> RootsVec(m)]
    BY <1>2, <1>4, <1>8, <1>11
  <2> QED
    BY <1>10, <2>1, <2>2, <2>3 DEF ConversionStacks
<1>13. Own(m, pp', Len(Me.entry), Len(pp'), frames', Me.level, Len(frames'))
  BY <1>4, <1>9, <1>12 DEF Own, Same
<1>14. \A x \in Names(m) : x \in Names(Me) \/ x \notin Named
  BY <1>3, <1>4 DEF Names
<1>15. /\ pp' \in Seq(0..MaxValues) /\ Len(pp') >= Len(Me.entry) /\ Len(frames') >= Me.level
       /\ \A i \in 1 .. Len(Me.entry) : pp'[i] = pp[i]
       /\ \A i \in 1 .. Me.level : frames'[i] = frames[i]
  BY <1>2, <1>6, <1>8
<1> QED
  BY <1>1, <1>2, <1>4, <1>13, <1>14, <1>15, OwnStep

LEMMA BeginNamesStep == ASSUME BuilderInv, BeginNames PROVE BuilderInv'
<1> DEFINE m == [Me EXCEPT !.pc = "namesAlloc", !.names = New]
<1>1. /\ Len(calls) > 0 /\ Me.pc = "names" /\ Me \in Activation /\ Me.kind \in DOMAIN Schemas
      /\ Register(m)
  BY Running DEF BeginNames, InSchema
<1>2. /\ calls' = Now(m) /\ pp' = pp /\ taken' = {} /\ Unused # {}
      /\ frames' \in Seq(Frame) /\ Len(frames') = Len(frames) + 1 /\ Len(frames') <= MAX_NESTING
      /\ \A i \in 1 .. Len(frames) : frames'[i] = frames[i]
      /\ frames'[Len(frames) + 1] = [id |-> New, kind |-> "result", protected |-> FALSE]
  BY <1>1, RegisterFacts
<1>3. /\ New \in 0..MaxValues /\ New \notin Named /\ New # None
      /\ New \notin Names(Me)
  <2>1. Len(calls) \in 1 .. Len(calls) /\ Me = calls[Len(calls)]
    BY <1>1, MyStacks
  <2> QED
    BY <1>2, <2>1, NewIsFree
<1>4. /\ m \in Activation /\ Same(m, Me) /\ m.pc = "namesAlloc" /\ m.names = New
      /\ m.vec = Me.vec /\ m.i = Me.i /\ m.hand = Me.hand
      /\ m.held = Me.held /\ m.copies = Me.copies
  BY <1>1, <1>3 DEF Activation, Same
<1> HIDE DEF m
<1>5. /\ ConversionVars(Me) /\ Me.kind # "user" /\ Me.kind # "copy"
      /\ ConversionStacks(Me, pp, Len(Me.entry), Len(pp), frames, Me.level, Len(frames))
  BY <1>1, SchemaFacts, MyConversion
<1>6. /\ Len(pp) \in Nat /\ Len(frames) \in Nat /\ Len(Me.entry) \in Nat /\ Me.level \in Nat
      /\ pp \in Seq(0..MaxValues)
  BY <1>1, StackTypes, MyStacks
<1>7. Me.hand = None /\ Me.vec # None /\ Me.vec # New
  <2>1. Me.hand = None /\ Me.vec # None
    BY <1>1, <1>5 DEF ConversionVars
  <2> QED
    BY <1>3, <2>1 DEF Names
<1>8. /\ Len(pp) = Len(Me.entry) + 1 /\ pp[Len(Me.entry) + 1] = Me.vec
      /\ Len(frames) = Me.level + 1
      /\ frames[Me.level + 1] = [id |-> Me.vec, kind |-> "result", protected |-> TRUE]
  <2>1. RootsVec(Me) = TRUE /\ RootsNames(Me) = FALSE /\ HoldsVec(Me) = TRUE
        /\ HoldsNames(Me) = FALSE /\ HoldsAccess(Me) = FALSE
    BY <1>1, <1>5 DEF RootsVec, RootsNames, HoldsVec, HoldsNames, HoldsAccess
  <2> QED
    BY <1>5, <1>6, <2>1 DEF ConversionStacks, One
<1>9. ConversionVars(m)
  BY <1>1, <1>3, <1>4, <1>5, <1>7 DEF ConversionVars, HoldsNames, RootsNames, Same
<1>10. /\ RootsVec(m) = TRUE /\ RootsNames(m) = FALSE /\ HoldsVec(m) = TRUE
       /\ HoldsNames(m) = TRUE /\ HoldsAccess(m) = FALSE
  BY <1>1, <1>4 DEF RootsVec, RootsNames, HoldsVec, HoldsNames, HoldsAccess, Same
<1>11. ConversionStacks(m, pp', Len(Me.entry), Len(pp'), frames', Me.level, Len(frames'))
  <2>1. Len(frames) + 1 = Me.level + 2 /\ Me.level + 1 \in 1 .. Len(frames)
    BY <1>6, <1>8
  <2>2. /\ frames'[Me.level + 1] = [id |-> m.vec, kind |-> "result", protected |-> RootsVec(m)]
        /\ frames'[Me.level + 2] = [id |-> m.names, kind |-> "result", protected |-> RootsNames(m)]
    BY <1>2, <1>4, <1>8, <1>10, <2>1
  <2>3. Len(pp') = Len(Me.entry) + One(RootsVec(m)) + One(RootsNames(m))
    BY <1>2, <1>6, <1>8, <1>10 DEF One
  <2>4. Len(frames') = Me.level + One(HoldsVec(m)) + One(HoldsNames(m)) + One(HoldsAccess(m))
    BY <1>2, <1>6, <1>8, <1>10 DEF One
  <2>5. pp'[Len(Me.entry) + 1] = m.vec
    BY <1>2, <1>4, <1>8
  <2> QED
    BY <1>10, <2>2, <2>3, <2>4, <2>5 DEF ConversionStacks
<1>12. Own(m, pp', Len(Me.entry), Len(pp'), frames', Me.level, Len(frames'))
  BY <1>4, <1>5, <1>9, <1>11 DEF Own, Same
<1>13. \A x \in Names(m) : x \in Names(Me) \/ x \notin Named
  BY <1>3, <1>4 DEF Names
<1>14. /\ pp' \in Seq(0..MaxValues) /\ Len(pp') >= Len(Me.entry) /\ Len(frames') >= Me.level
       /\ \A i \in 1 .. Len(Me.entry) : pp'[i] = pp[i]
       /\ \A i \in 1 .. Me.level : frames'[i] = frames[i]
  <2>1. /\ pp' = pp /\ Len(pp) \in Nat /\ Len(frames) \in Nat /\ Len(frames') = Len(frames) + 1
        /\ \A i \in 1 .. Len(frames) : frames'[i] = frames[i]
    BY <1>2, <1>6, <1>8
  <2>2. Me.level \in Nat /\ Me.level <= Len(frames) /\ Len(Me.entry) \in Nat /\ Len(Me.entry) <= Len(pp)
    BY <1>2, <1>6, <1>8
  <2>3. \A i \in 1 .. Me.level : i \in 1 .. Len(frames)
    BY <2>1, <2>2
  <2>4. Len(frames') >= Me.level
    BY <2>1, <2>2
  <2>5. \A i \in 1 .. Me.level : frames'[i] = frames[i]
    BY <2>1, <2>3
  <2>6. Len(pp') >= Len(Me.entry) /\ \A i \in 1 .. Len(Me.entry) : pp'[i] = pp[i]
    BY <2>1, <2>2
  <2> QED
    BY <1>6, <2>1, <2>4, <2>5, <2>6
<1> QED
  BY <1>1, <1>2, <1>4, <1>12, <1>13, <1>14, OwnStep

LEMMA FillNamesStep == ASSUME BuilderInv, FillNames PROVE BuilderInv'
<1> DEFINE pc == IF Fields = <<>> THEN "attr" ELSE "field"
           m == [Me EXCEPT !.pc = pc]
<1>1. /\ Len(calls) > 0 /\ Me.pc = "namesAlloc" /\ Me \in Activation /\ Me.kind \in DOMAIN Schemas
      /\ Fill(Me.names, m)
  BY Running DEF FillNames, InSchema
<1>2. pc \in {"attr", "field"} /\ (pc = "field" => Len(Schemas[Me.kind]) > 0)
  BY <1>1, SchemaFacts DEF Fields
<1>3. /\ m \in Activation /\ Same(m, Me) /\ m.pc = pc /\ m.names = Me.names
      /\ m.vec = Me.vec /\ m.i = Me.i /\ m.hand = Me.hand
      /\ m.held = Me.held /\ m.copies = Me.copies /\ Names(m) = Names(Me)
  <2>1. pc \in PCs
    BY <1>2 DEF PCs
  <2> HIDE DEF pc
  <2> QED
    BY <1>1, <2>1, GotoFacts
<1> HIDE DEF m, pc
<1>4. /\ ConversionVars(Me) /\ Me.kind # "user" /\ Me.kind # "copy" /\ Len(Schemas[Me.kind]) \in Nat
      /\ ConversionStacks(Me, pp, Len(Me.entry), Len(pp), frames, Me.level, Len(frames))
  BY <1>1, SchemaFacts, MyConversion
<1>5. /\ Me.hand = None /\ Me.vec # None /\ Me.names # None /\ Me.names # Me.vec
      /\ Me.names \in Names(Me) /\ Me.i = 1 /\ Me.names \in 0..MaxValues
  <2>1. /\ Me.hand = None /\ Me.vec # None /\ Me.names # None /\ Me.names # Me.vec /\ Me.i = 1
    BY <1>1, <1>4 DEF ConversionVars, HoldsNames
  <2> QED
    BY <1>1, <2>1, ActivationFacts DEF Names
<1>6. /\ calls' = Now(m) /\ taken' = {}
      /\ pp' \in Seq(0..MaxValues) /\ Len(pp') = Len(pp) + 1
      /\ \A i \in 1 .. Len(pp) : pp'[i] = pp[i]
      /\ pp'[Len(pp) + 1] = Me.names
      /\ frames' \in Seq(Frame) /\ Len(frames') = Len(frames) /\ Len(frames') <= MAX_NESTING
      /\ \A i \in 1 .. Me.level : frames'[i] = frames[i]
      /\ \A i \in 1 .. Len(frames) :
            /\ frames[i].id # Me.names => frames'[i] = frames[i]
            /\ frames[i].id = Me.names =>
                  frames'[i] = [id |-> Me.names, kind |-> frames[i].kind, protected |-> TRUE]
  BY <1>1, <1>5, FillFacts
<1>7. /\ Len(pp) \in Nat /\ Len(frames) \in Nat /\ Len(Me.entry) \in Nat /\ Me.level \in Nat
  BY <1>1, StackTypes, MyStacks
<1>8. /\ Len(pp) = Len(Me.entry) + 1 /\ pp[Len(Me.entry) + 1] = Me.vec
      /\ Len(frames) = Me.level + 2
      /\ frames[Me.level + 1] = [id |-> Me.vec, kind |-> "result", protected |-> TRUE]
      /\ frames[Me.level + 2] = [id |-> Me.names, kind |-> "result", protected |-> FALSE]
  <2>1. RootsVec(Me) = TRUE /\ RootsNames(Me) = FALSE /\ HoldsVec(Me) = TRUE
        /\ HoldsNames(Me) = TRUE /\ HoldsAccess(Me) = FALSE
    BY <1>1, <1>4 DEF RootsVec, RootsNames, HoldsVec, HoldsNames, HoldsAccess
  <2>2. /\ Len(pp) = Len(Me.entry) + 1 + 0 /\ pp[Len(Me.entry) + 1] = Me.vec
        /\ Len(frames) = Me.level + 1 + 1 + 0
    BY <1>4, <2>1 DEF ConversionStacks, One
  <2>3. /\ frames[Me.level + 1] = [id |-> Me.vec, kind |-> "result", protected |-> TRUE]
        /\ frames[Me.level + 2] = [id |-> Me.names, kind |-> "result", protected |-> FALSE]
    BY <1>4, <2>1 DEF ConversionStacks
  <2> QED
    BY <1>7, <2>2, <2>3
<1>9. ConversionVars(m)
  BY <1>1, <1>2, <1>3, <1>4, <1>5 DEF ConversionVars, HoldsNames, RootsNames, Same
<1>10. /\ RootsVec(m) = TRUE /\ RootsNames(m) = TRUE /\ HoldsVec(m) = TRUE
       /\ HoldsNames(m) = TRUE /\ HoldsAccess(m) = FALSE
  BY <1>1, <1>2, <1>3, <1>4 DEF RootsVec, RootsNames, HoldsVec, HoldsNames, HoldsAccess, Same
<1>11. ConversionStacks(m, pp', Len(Me.entry), Len(pp'), frames', Me.level, Len(frames'))
  <2>0. /\ Me.level + 1 \in 1 .. Len(frames) /\ Me.level + 2 \in 1 .. Len(frames)
        /\ frames[Me.level + 1].id # Me.names
        /\ frames[Me.level + 2].id = Me.names /\ frames[Me.level + 2].kind = "result"
    BY <1>5, <1>7, <1>8
  <2>1. /\ frames'[Me.level + 1] = [id |-> Me.vec, kind |-> "result", protected |-> TRUE]
        /\ frames'[Me.level + 2] = [id |-> Me.names, kind |-> "result", protected |-> TRUE]
    BY <1>6, <1>8, <2>0
  <2>2. /\ Len(pp') = Len(Me.entry) + 2 /\ pp'[Len(Me.entry) + 1] = Me.vec
        /\ pp'[Len(Me.entry) + 2] = Me.names
    BY <1>6, <1>7, <1>8
  <2> QED
    BY <1>3, <1>6, <1>7, <1>8, <1>10, <2>1, <2>2 DEF ConversionStacks, One
<1>12. Own(m, pp', Len(Me.entry), Len(pp'), frames', Me.level, Len(frames'))
  BY <1>3, <1>4, <1>9, <1>11 DEF Own, Same
<1>13. /\ Len(pp') >= Len(Me.entry) /\ Len(frames') >= Me.level
       /\ \A i \in 1 .. Len(Me.entry) : pp'[i] = pp[i]
  BY <1>6, <1>7, <1>8
<1> QED
  BY <1>1, <1>3, <1>6, <1>12, <1>13, OwnStep

LEMMA FillConversion == ASSUME BuilderInv, FillVec, Me.kind # "user" PROVE BuilderInv'
<1> DEFINE pc == CASE Me.kind \in DOMAIN Schemas -> "names"
                   [] Me.kind = "strings" -> "set"
                   [] Me.kind = "copy" -> "access"
                   [] Me.kind = "user" -> "run"
                   [] OTHER -> "finish"
           vec == IF Me.kind = "user" THEN None ELSE Me.vec
           held == IF Me.kind = "user"
                   THEN Append(Me.held, [id |-> Me.vec, builder |-> TRUE]) ELSE Me.held
           m == [Me EXCEPT !.pc = pc, !.vec = vec, !.held = held]
<1>1. /\ Len(calls) > 0 /\ Me.pc = "vecAlloc" /\ Me \in Activation /\ Fill(Me.vec, m)
  BY Running DEF FillVec
<1>2. /\ ConversionVars(Me)
      /\ ConversionStacks(Me, pp, Len(Me.entry), Len(pp), frames, Me.level, Len(frames))
  BY <1>1, MyConversion
<1>3. /\ pc \in {"names", "set", "access", "finish"}
      /\ pc = "names" <=> Me.kind \in DOMAIN Schemas
      /\ pc = "set" <=> Me.kind = "strings"
      /\ pc = "access" <=> Me.kind = "copy"
  <2>1. CASE Me.kind \in DOMAIN Schemas
    BY <2>1, SchemaFacts
  <2>2. CASE Me.kind \notin DOMAIN Schemas
    BY <2>2
  <2> QED
    BY <2>1, <2>2
<1>4. vec = Me.vec /\ held = Me.held /\ pc \in PCs
  BY <1>3 DEF PCs
<1> HIDE DEF pc, vec, held
<1>5. /\ m \in Activation /\ Same(m, Me) /\ m.pc = pc /\ m.names = Me.names
      /\ m.vec = Me.vec /\ m.i = Me.i /\ m.hand = Me.hand
      /\ m.held = Me.held /\ m.copies = Me.copies
  <2>1. pc \in PCs /\ vec \in 0..MaxValues /\ held \in Seq(Held)
    BY <1>1, <1>4, ActivationFacts
  <2>2. /\ m \in Activation /\ Same(m, Me) /\ m.pc = pc /\ m.names = Me.names
        /\ m.vec = vec /\ m.i = Me.i /\ m.hand = Me.hand
        /\ m.held = held /\ m.copies = Me.copies
    BY <1>1, <2>1 DEF Activation, Same, PCs
  <2> HIDE DEF m
  <2> QED
    BY <1>4, <2>2
<1> HIDE DEF m
<1>6. Me.hand = None /\ Me.names = None /\ Me.vec # None /\ Me.i \in Nat
      /\ (Me.kind \in DOMAIN Schemas => Me.i = 1)
  <2>1. Me.i \in Nat
    BY <1>1 DEF Activation
  <2> QED
    BY <1>1, <1>2, <2>1 DEF ConversionVars
<1>7. Me.vec \in Names(Me) /\ Me.vec \in 0..MaxValues
  BY <1>1, <1>6, ActivationFacts DEF Names
<1>8. /\ calls' = Now(m) /\ taken' = {}
      /\ pp' \in Seq(0..MaxValues) /\ Len(pp') = Len(pp) + 1
      /\ \A i \in 1 .. Len(pp) : pp'[i] = pp[i]
      /\ pp'[Len(pp) + 1] = Me.vec
      /\ frames' \in Seq(Frame) /\ Len(frames') = Len(frames) /\ Len(frames') <= MAX_NESTING
      /\ \A i \in 1 .. Me.level : frames'[i] = frames[i]
      /\ \A i \in 1 .. Len(frames) :
            /\ frames[i].id # Me.vec => frames'[i] = frames[i]
            /\ frames[i].id = Me.vec =>
                  frames'[i] = [id |-> Me.vec, kind |-> frames[i].kind, protected |-> TRUE]
  BY <1>1, <1>6, <1>7, FillFacts
<1>9. /\ Len(pp) \in Nat /\ Len(frames) \in Nat /\ Len(Me.entry) \in Nat /\ Me.level \in Nat
  BY <1>1, StackTypes, MyStacks
<1>10. /\ Len(pp) = Len(Me.entry) /\ Len(frames) = Me.level + 1
       /\ frames[Me.level + 1] = [id |-> Me.vec, kind |-> "result", protected |-> FALSE]
  <2>1. RootsVec(Me) = FALSE /\ RootsNames(Me) = FALSE /\ HoldsVec(Me) = TRUE
        /\ HoldsNames(Me) = FALSE /\ HoldsAccess(Me) = FALSE
    BY <1>1, <1>2 DEF RootsVec, RootsNames, HoldsVec, HoldsNames, HoldsAccess
  <2>2. Len(pp) = Len(Me.entry) + 0 + 0 /\ Len(frames) = Me.level + 1 + 0 + 0
    BY <1>2, <2>1 DEF ConversionStacks, One
  <2>3. frames[Me.level + 1] = [id |-> Me.vec, kind |-> "result", protected |-> FALSE]
    BY <1>2, <2>1 DEF ConversionStacks
  <2> QED
    BY <1>9, <2>2, <2>3
<1>11. /\ RootsVec(m) = TRUE /\ RootsNames(m) = FALSE /\ HoldsVec(m) = TRUE
       /\ HoldsNames(m) = FALSE /\ HoldsAccess(m) = FALSE
  BY <1>3, <1>5, SchemaFacts DEF RootsVec, RootsNames, HoldsVec, HoldsNames, HoldsAccess, Same
<1>12. ConversionVars(m)
  BY <1>2, <1>3, <1>5, <1>6, <1>11, SchemaFacts DEF ConversionVars, Same
<1>13. ConversionStacks(m, pp', Len(Me.entry), Len(pp'), frames', Me.level, Len(frames'))
  <2>1. Me.level + 1 \in 1 .. Len(frames) /\ frames[Me.level + 1].id = Me.vec
        /\ frames[Me.level + 1].kind = "result"
    BY <1>9, <1>10
  <2>2. frames'[Me.level + 1] = [id |-> m.vec, kind |-> "result", protected |-> RootsVec(m)]
    BY <1>5, <1>8, <1>11, <2>1
  <2>3. Len(pp') = Len(Me.entry) + One(RootsVec(m)) + One(RootsNames(m))
    BY <1>8, <1>9, <1>10, <1>11 DEF One
  <2>4. Len(frames') = Me.level + One(HoldsVec(m)) + One(HoldsNames(m)) + One(HoldsAccess(m))
    BY <1>8, <1>9, <1>10, <1>11 DEF One
  <2>5. pp'[Len(Me.entry) + 1] = m.vec
    BY <1>5, <1>8, <1>10
  <2> QED
    BY <1>11, <2>2, <2>3, <2>4, <2>5 DEF ConversionStacks
<1>14. Own(m, pp', Len(Me.entry), Len(pp'), frames', Me.level, Len(frames'))
  BY <1>5, <1>12, <1>13 DEF Own, Same
<1>15. /\ Len(pp') >= Len(Me.entry) /\ Len(frames') >= Me.level
       /\ \A i \in 1 .. Len(Me.entry) : pp'[i] = pp[i]
  BY <1>8, <1>9, <1>10
<1>16. \A x \in Names(m) : x \in Names(Me)
  BY <1>5 DEF Names
<1> QED
  BY <1>1, <1>5, <1>8, <1>14, <1>15, <1>16, OwnStep

LEMMA NotUser ==
    ASSUME BuilderInv, Len(calls) > 0, Me.pc \notin {"vec", "vecAlloc", "run"}
    PROVE  Me.kind # "user"
BY MyStacks DEF Own, UserVars

LEMMA FrontOfPP ==
    ASSUME BuilderInv, NEW b \in Nat, Len(pp) > b
    PROVE  /\ Front(pp) \in Seq(0..MaxValues) /\ Len(Front(pp)) = Len(pp) - 1
           /\ Len(Front(pp)) >= b
           /\ \A i \in 1 .. Len(pp) - 1 : Front(pp)[i] = pp[i]
           /\ \A i \in 1 .. b : Front(pp)[i] = pp[i]
<1>1. pp \in Seq(0..MaxValues) /\ Len(pp) \in Nat /\ Len(pp) > 0
  BY StackTypes
<1>2. /\ Front(pp) \in Seq(0..MaxValues) /\ Len(Front(pp)) = Len(pp) - 1
      /\ \A i \in 1 .. Len(pp) - 1 : Front(pp)[i] = pp[i]
  BY <1>1, FrontIs
<1>3. \A i \in 1 .. b : i \in 1 .. Len(pp) - 1
  BY <1>1
<1> QED
  BY <1>1, <1>2, <1>3

\* The frame that is taken out is one of the running activation.
LEMMA TakenIsMine ==
    ASSUME BuilderInv, Len(calls) > 0, NEW v \in Names(Me), NEW kind,
           ~Missing(v, kind)
    PROVE  LET s == FramesWithout(v, kind)
           IN  \E r \in Me.level + 1 .. Len(frames) :
                  /\ TakenOut(s, v, kind, r)
                  /\ s \in Seq(Frame) /\ Len(s) = Len(frames) - 1 /\ Len(s) >= Me.level
                  /\ Len(s) <= MAX_NESTING
                  /\ \A i \in 1 .. Me.level : s[i] = frames[i]
<1> DEFINE s == FramesWithout(v, kind)
<1>1. PICK r \in 1 .. Len(frames) : TakenOut(s, v, kind, r)
  BY WithoutIs
<1> HIDE DEF s
<1>2. /\ Len(frames) \in Nat /\ Me.level \in Nat /\ r \in 1 .. Len(frames) /\ MAX_NESTING \in Nat
      /\ Len(frames) <= MAX_NESTING
  BY StackTypes, MyStacks, BuilderAssumption DEF BuilderInv, TypeOK
<1>3. r > Me.level
  BY <1>1, MyFrames DEF TakenOut
<1>4. r \in Me.level + 1 .. Len(frames)
  BY <1>2, <1>3
<1>5. s \in Seq(Frame) /\ Len(s) = Len(frames) - 1
      /\ \A i \in 1 .. Len(frames) - 1 : s[i] = frames[IF i < r THEN i ELSE i + 1]
  BY <1>1 DEF TakenOut
<1>6. \A i \in 1 .. Me.level : i \in 1 .. Len(frames) - 1 /\ i < r
  BY <1>2, <1>3
<1>7. \A i \in 1 .. Me.level : s[i] = frames[i]
  BY <1>5, <1>6
<1>8. Len(s) >= Me.level /\ Len(s) <= MAX_NESTING
  BY <1>2, <1>4, <1>5
<1> QED
  BY <1>1, <1>4, <1>5, <1>7, <1>8 DEF s

LEMMA DropNamesStep == ASSUME BuilderInv, DropNames PROVE BuilderInv'
<1> DEFINE m == [Me EXCEPT !.pc = "finish"]
           lo == Len(Me.entry)
           flo == Me.level
<1>1. /\ Len(calls) > 0 /\ Me.pc = "dropNames" /\ Me \in Activation /\ Me.kind \in DOMAIN Schemas
      /\ pp' = AfterDeinit(Me.names).pp /\ frames' = AfterDeinit(Me.names).frames
      /\ calls' = Now(m) /\ taken' = {}
  BY Running DEF DropNames, InSchema, Goto, BuilderInv
<1>2. /\ m \in Activation /\ Same(m, Me) /\ m.pc = "finish" /\ m.names = Me.names
      /\ m.vec = Me.vec /\ m.i = Me.i /\ m.hand = Me.hand
      /\ m.held = Me.held /\ m.copies = Me.copies /\ Names(m) = Names(Me)
  <2>1. "finish" \in PCs
    BY DEF PCs
  <2> QED
    BY <1>1, <2>1, GotoFacts
<1> HIDE DEF m
<1>3. /\ ConversionVars(Me) /\ Me.kind # "user" /\ Me.kind # "copy"
      /\ ConversionStacks(Me, pp, lo, Len(pp), frames, flo, Len(frames))
  BY <1>1, SchemaFacts, MyConversion
<1>4. Len(pp) \in Nat /\ Len(frames) \in Nat /\ lo \in Nat /\ flo \in Nat
  BY <1>1, StackTypes, MyStacks
<1> HIDE DEF lo, flo
<1>5. /\ Me.names # None /\ Me.names # Me.vec /\ Me.hand = None /\ Me.vec # None
      /\ Me.names \in Names(Me)
  <2>1. /\ Me.names # None /\ Me.names # Me.vec /\ Me.hand = None /\ Me.vec # None
    BY <1>1, <1>3 DEF ConversionVars, HoldsNames, RootsNames
  <2> QED
    BY <2>1 DEF Names
<1>6. /\ Len(pp) = lo + 2 /\ pp[lo + 1] = Me.vec
      /\ Len(frames) = flo + 2
      /\ frames[flo + 1] = [id |-> Me.vec, kind |-> "result", protected |-> TRUE]
      /\ frames[flo + 2] = [id |-> Me.names, kind |-> "result", protected |-> TRUE]
  <2>1. RootsVec(Me) = TRUE /\ RootsNames(Me) = TRUE /\ HoldsVec(Me) = TRUE
        /\ HoldsNames(Me) = TRUE /\ HoldsAccess(Me) = FALSE
    BY <1>1, <1>3 DEF RootsVec, RootsNames, HoldsVec, HoldsNames, HoldsAccess
  <2>2. Len(pp) = lo + 1 + 1 /\ Len(frames) = flo + 1 + 1 + 0 /\ pp[lo + 1] = Me.vec
    BY <1>3, <2>1 DEF ConversionStacks, One
  <2>3. /\ frames[flo + 1] = [id |-> Me.vec, kind |-> "result", protected |-> TRUE]
        /\ frames[flo + 2] = [id |-> Me.names, kind |-> "result", protected |-> TRUE]
    BY <1>3, <2>1 DEF ConversionStacks
  <2> QED
    BY <1>4, <2>2, <2>3
<1>7. ~Missing(Me.names, "result")
  <2>1. flo + 2 \in 1 .. Len(frames) /\ frames[flo + 2].id = Me.names
        /\ frames[flo + 2].kind = "result"
    BY <1>4, <1>6
  <2> QED
    BY <2>1 DEF Missing
<1>8. pp' = Front(pp) /\ frames' = FramesWithout(Me.names, "result")
  BY <1>1, <1>7, ActiveIs DEF AfterDeinit
<1>9. PICK r \in flo + 1 .. Len(frames) :
         /\ TakenOut(frames', Me.names, "result", r)
         /\ frames' \in Seq(Frame) /\ Len(frames') = Len(frames) - 1 /\ Len(frames') >= flo
         /\ Len(frames') <= MAX_NESTING
         /\ \A i \in 1 .. flo : frames'[i] = frames[i]
  BY <1>1, <1>5, <1>7, <1>8, TakenIsMine DEF flo
<1>10. frames'[flo + 1] = frames[flo + 1]
  <2>1. frames[r].id = Me.names
        /\ \A i \in 1 .. Len(frames) - 1 : frames'[i] = frames[IF i < r THEN i ELSE i + 1]
    BY <1>9 DEF TakenOut
  <2>2. r # flo + 1
    BY <1>5, <1>6, <2>1
  <2>3. flo + 1 \in 1 .. Len(frames) - 1 /\ flo + 1 < r
    BY <1>4, <1>6, <2>2
  <2> QED
    BY <2>1, <2>3
<1>11. /\ pp' \in Seq(0..MaxValues) /\ Len(pp') = Len(pp) - 1 /\ Len(pp') >= lo
       /\ \A i \in 1 .. lo : pp'[i] = pp[i]
       /\ pp'[lo + 1] = pp[lo + 1]
  <2>1. Len(pp) > lo /\ lo + 1 \in 1 .. Len(pp) - 1
    BY <1>4, <1>6
  <2> QED
    BY <1>4, <1>8, <2>1, FrontOfPP
<1>12. /\ RootsVec(m) = TRUE /\ RootsNames(m) = FALSE /\ HoldsVec(m) = TRUE
       /\ HoldsNames(m) = FALSE /\ HoldsAccess(m) = FALSE
  BY <1>2, <1>3 DEF RootsVec, RootsNames, HoldsVec, HoldsNames, HoldsAccess, Same
<1>13. ConversionVars(m)
  BY <1>1, <1>2, <1>3, <1>5, <1>12 DEF ConversionVars, Same
<1>14. ConversionStacks(m, pp', lo, Len(pp'), frames', flo, Len(frames'))
  <2>1. Len(pp') = lo + One(RootsVec(m)) + One(RootsNames(m))
    BY <1>4, <1>6, <1>11, <1>12 DEF One
  <2>2. Len(frames') = flo + One(HoldsVec(m)) + One(HoldsNames(m)) + One(HoldsAccess(m))
    BY <1>4, <1>6, <1>9, <1>12 DEF One
  <2>3. frames'[flo + 1] = [id |-> m.vec, kind |-> "result", protected |-> RootsVec(m)]
    BY <1>2, <1>6, <1>10, <1>12
  <2>4. pp'[lo + 1] = m.vec
    BY <1>2, <1>6, <1>11
  <2> QED
    BY <1>12, <2>1, <2>2, <2>3, <2>4 DEF ConversionStacks
<1>15. Own(m, pp', Len(Me.entry), Len(pp'), frames', Me.level, Len(frames'))
  BY <1>2, <1>3, <1>13, <1>14 DEF Own, Same, lo, flo
<1> QED
  BY <1>1, <1>2, <1>9, <1>11, <1>15, OwnStep DEF lo, flo

LEMMA OpenAccessStep == ASSUME BuilderInv, OpenAccess PROVE BuilderInv'
<1> DEFINE m == [Me EXCEPT !.pc = "read"]
           e == [id |-> Me.vec, kind |-> "native", protected |-> FALSE]
           lo == Len(Me.entry)
           flo == Me.level
<1>1. /\ Len(calls) > 0 /\ Me.pc = "access" /\ Me \in Activation /\ Me.kind = "copy"
      /\ Len(frames) < MAX_NESTING /\ frames' = Append(frames, e)
      /\ calls' = Now(m) /\ taken' = {} /\ pp' = pp
  BY Running DEF OpenAccess, AtKind, Goto, BuilderInv
<1>2. /\ m \in Activation /\ Same(m, Me) /\ m.pc = "read" /\ m.names = Me.names
      /\ m.vec = Me.vec /\ m.i = Me.i /\ m.hand = Me.hand
      /\ m.held = Me.held /\ m.copies = Me.copies /\ Names(m) = Names(Me)
  <2>1. "read" \in PCs
    BY DEF PCs
  <2> QED
    BY <1>1, <2>1, GotoFacts
<1>3. /\ ConversionVars(Me) /\ Me.kind # "user" /\ Me.kind \notin DOMAIN Schemas
      /\ ConversionStacks(Me, pp, lo, Len(pp), frames, flo, Len(frames))
  BY <1>1, SchemaFacts, MyConversion
<1>4. /\ Len(pp) \in Nat /\ Len(frames) \in Nat /\ lo \in Nat /\ flo \in Nat
      /\ pp \in Seq(0..MaxValues) /\ frames \in Seq(Frame) /\ MAX_NESTING \in Nat
  BY <1>1, StackTypes, MyStacks, BuilderAssumption
<1>5. Me.hand = None /\ Me.vec # None /\ Me.vec \in Values
  <2>1. Me.hand = None /\ Me.vec # None
    BY <1>1, <1>3 DEF ConversionVars
  <2> QED
    BY <1>1, <2>1, ActivationFacts, BuilderAssumption DEF Values, None
<1>6. e \in Frame
  BY <1>5 DEF Frame
<1> HIDE DEF m, lo, flo, e
<1>7. /\ frames' \in Seq(Frame) /\ Len(frames') = Len(frames) + 1
      /\ \A i \in 1 .. Len(frames) : frames'[i] = frames[i]
      /\ frames'[Len(frames) + 1] = e
  BY <1>1, <1>4, <1>6, AppendIs
<1>8. /\ Len(pp) = lo + 1 /\ pp[lo + 1] = Me.vec
      /\ Len(frames) = flo + 1
      /\ frames[flo + 1] = [id |-> Me.vec, kind |-> "result", protected |-> TRUE]
  <2>1. RootsVec(Me) = TRUE /\ RootsNames(Me) = FALSE /\ HoldsVec(Me) = TRUE
        /\ HoldsNames(Me) = FALSE /\ HoldsAccess(Me) = FALSE
    BY <1>1, <1>3 DEF RootsVec, RootsNames, HoldsVec, HoldsNames, HoldsAccess
  <2>2. Len(pp) = lo + 1 + 0 /\ Len(frames) = flo + 1 + 0 + 0 /\ pp[lo + 1] = Me.vec
    BY <1>3, <2>1 DEF ConversionStacks, One
  <2>3. frames[flo + 1] = [id |-> Me.vec, kind |-> "result", protected |-> TRUE]
    BY <1>3, <2>1 DEF ConversionStacks
  <2> QED
    BY <1>4, <2>2, <2>3
<1>9. /\ RootsVec(m) = TRUE /\ RootsNames(m) = FALSE /\ HoldsVec(m) = TRUE
      /\ HoldsNames(m) = FALSE /\ HoldsAccess(m) = TRUE
  BY <1>1, <1>2, <1>3 DEF RootsVec, RootsNames, HoldsVec, HoldsNames, HoldsAccess, Same
<1>10. ConversionVars(m)
  BY <1>1, <1>2, <1>3, <1>5, <1>9 DEF ConversionVars, Same
<1>11. ConversionStacks(m, pp', lo, Len(pp'), frames', flo, Len(frames'))
  <2>1. Len(pp') = lo + One(RootsVec(m)) + One(RootsNames(m))
    BY <1>1, <1>4, <1>8, <1>9 DEF One
  <2>2. Len(frames') = flo + One(HoldsVec(m)) + One(HoldsNames(m)) + One(HoldsAccess(m))
    BY <1>4, <1>7, <1>8, <1>9 DEF One
  <2>3. flo + 1 \in 1 .. Len(frames) /\ Len(frames') = Len(frames) + 1
    BY <1>4, <1>7, <1>8
  <2>4. frames'[flo + 1] = [id |-> m.vec, kind |-> "result", protected |-> RootsVec(m)]
    BY <1>2, <1>7, <1>8, <1>9, <2>3
  <2>5. frames'[Len(frames')] = [id |-> m.vec, kind |-> "native", protected |-> FALSE]
    BY <1>2, <1>7, <2>3 DEF e
  <2>6. pp'[lo + 1] = m.vec
    BY <1>1, <1>2, <1>8
  <2> QED
    BY <1>9, <2>1, <2>2, <2>4, <2>5, <2>6 DEF ConversionStacks
<1>12. Own(m, pp', Len(Me.entry), Len(pp'), frames', Me.level, Len(frames'))
  BY <1>2, <1>3, <1>10, <1>11 DEF Own, Same, lo, flo
<1>13. /\ pp' \in Seq(0..MaxValues) /\ Len(pp') >= lo /\ Len(frames') >= flo
       /\ Len(frames') <= MAX_NESTING
       /\ \A i \in 1 .. lo : pp'[i] = pp[i]
  BY <1>1, <1>4, <1>7, <1>8
<1>14. \A i \in 1 .. flo : frames'[i] = frames[i]
  <2>1. \A i \in 1 .. flo : i \in 1 .. Len(frames)
    BY <1>4, <1>8
  <2> QED
    BY <1>7, <2>1
<1> QED
  BY <1>1, <1>2, <1>7, <1>12, <1>13, <1>14, OwnStep DEF lo, flo

LEMMA FinishStep == ASSUME BuilderInv, Finish PROVE BuilderInv'
<1> DEFINE v == Me.vec
           m == [Me EXCEPT !.pc = "close", !.hand = v]
           lo == Len(Me.entry)
           flo == Me.level
<1>1. /\ Len(calls) > 0 /\ Me.pc = "finish" /\ Me \in Activation /\ FrameIsActive(v)
      /\ pp' = Front(pp) /\ frames' = FramesWithout(v, "result")
      /\ calls' = Now(m) /\ taken' = {}
  BY Running DEF Finish, AfterDeinit, BuilderInv
<1>2. /\ m \in Activation /\ Same(m, Me) /\ m.pc = "close" /\ m.names = Me.names
      /\ m.vec = v /\ m.i = Me.i /\ m.hand = v
      /\ m.held = Me.held /\ m.copies = Me.copies
  <2>1. v \in 0..MaxValues
    BY <1>1, ActivationFacts
  <2> HIDE DEF v
  <2>2. /\ m \in Activation /\ Same(m, Me) /\ m.pc = "close" /\ m.names = Me.names
        /\ m.vec = Me.vec /\ m.i = Me.i /\ m.hand = v
        /\ m.held = Me.held /\ m.copies = Me.copies
    BY <1>1, <2>1 DEF Activation, Same
  <2> QED
    BY <2>2 DEF v
<1>3. /\ Me.kind # "user" /\ ConversionVars(Me)
      /\ ConversionStacks(Me, pp, lo, Len(pp), frames, flo, Len(frames))
  BY <1>1, NotUser, MyConversion
<1>4. Len(pp) \in Nat /\ Len(frames) \in Nat /\ lo \in Nat /\ flo \in Nat
  BY <1>1, StackTypes, MyStacks
<1> HIDE DEF m, lo, flo
<1>5. v # None /\ v \in Names(Me) /\ Me.hand = None
  BY <1>1, <1>3 DEF ConversionVars, Names
<1>6. /\ RootsVec(Me) = TRUE /\ RootsNames(Me) = FALSE /\ HoldsVec(Me) = TRUE
      /\ HoldsNames(Me) = FALSE
      /\ HoldsAccess(Me) = (Me.kind = "copy")
  BY <1>1, <1>3 DEF RootsVec, RootsNames, HoldsVec, HoldsNames, HoldsAccess
<1>7. /\ Len(pp) = lo + 1
      /\ Me.kind # "copy" => Len(frames) = flo + 1
      /\ Me.kind = "copy" => Len(frames) = flo + 2
      /\ frames[flo + 1] = [id |-> v, kind |-> "result", protected |-> TRUE]
      /\ Me.kind = "copy" =>
            frames[flo + 2] = [id |-> v, kind |-> "native", protected |-> FALSE]
  <2>1. /\ Len(pp) = lo + 1 + 0
        /\ Me.kind # "copy" => Len(frames) = flo + 1 + 0 + 0
        /\ Me.kind = "copy" => Len(frames) = flo + 1 + 0 + 1
    BY <1>3, <1>6 DEF ConversionStacks, One
  <2>2. /\ frames[flo + 1] = [id |-> v, kind |-> "result", protected |-> TRUE]
        /\ Me.kind = "copy" =>
              frames[Len(frames)] = [id |-> v, kind |-> "native", protected |-> FALSE]
    BY <1>3, <1>6 DEF ConversionStacks
  <2>3. Me.kind = "copy" => Len(frames) = flo + 2
    BY <1>4, <2>1
  <2> QED
    BY <1>4, <2>1, <2>2, <2>3
<1>8. ~Missing(v, "result")
  BY <1>1, ActiveIs
<1> HIDE DEF v
<1>9. PICK r \in flo + 1 .. Len(frames) :
         /\ TakenOut(frames', v, "result", r)
         /\ frames' \in Seq(Frame) /\ Len(frames') = Len(frames) - 1 /\ Len(frames') >= flo
         /\ Len(frames') <= MAX_NESTING
         /\ \A i \in 1 .. flo : frames'[i] = frames[i]
  BY <1>1, <1>5, <1>8, TakenIsMine DEF flo
<1>10. Me.kind = "copy" => frames'[flo + 1] = frames[flo + 2]
  <2> SUFFICES ASSUME Me.kind = "copy" PROVE frames'[flo + 1] = frames[flo + 2]
    OBVIOUS
  <2>1. /\ frames[r].kind = "result"
        /\ \A i \in 1 .. Len(frames) - 1 : frames'[i] = frames[IF i < r THEN i ELSE i + 1]
    BY <1>9 DEF TakenOut
  <2>2. r # flo + 2
    BY <1>7, <2>1
  <2>3. flo + 1 \in 1 .. Len(frames) - 1 /\ ~(flo + 1 < r) /\ (flo + 1) + 1 = flo + 2
    BY <1>4, <1>7, <2>2
  <2> QED
    BY <2>1, <2>3
<1>11. /\ pp' \in Seq(0..MaxValues) /\ Len(pp') = Len(pp) - 1 /\ Len(pp') >= lo
       /\ \A i \in 1 .. lo : pp'[i] = pp[i]
  <2>1. Len(pp) > lo
    BY <1>4, <1>7
  <2> QED
    BY <1>1, <1>4, <2>1, FrontOfPP
<1>12. /\ RootsVec(m) = FALSE /\ RootsNames(m) = FALSE /\ HoldsVec(m) = FALSE
       /\ HoldsNames(m) = FALSE
       /\ Me.kind = "copy" => HoldsAccess(m) = TRUE
       /\ Me.kind # "copy" => HoldsAccess(m) = FALSE
  BY <1>2 DEF RootsVec, RootsNames, HoldsVec, HoldsNames, HoldsAccess, Same
<1>13. ConversionVars(m)
  <2>1. ~HoldsNames(m)
    BY <1>12
  <2>2. m.vec # None /\ m.kind = Me.kind
    BY <1>2, <1>5 DEF Same
  <2>3. m.names # None => m.kind \in DOMAIN Schemas /\ m.names # m.vec
    BY <1>2, <1>3, <2>2 DEF ConversionVars, v
  <2>4. m.held = <<>> /\ m.copies = {}
    BY <1>2, <1>3 DEF ConversionVars
  <2> QED
    BY <1>2, <2>1, <2>2, <2>3, <2>4 DEF ConversionVars
<1>14. ConversionStacks(m, pp', lo, Len(pp'), frames', flo, Len(frames'))
  <2>1. Len(pp') = lo + One(RootsVec(m)) + One(RootsNames(m))
    BY <1>4, <1>7, <1>11, <1>12 DEF One
  <2>2. CASE Me.kind = "copy"
    <3>1. Len(frames') = flo + 1
      BY <1>4, <1>7, <1>9, <2>2
    <3>2. Len(frames') = flo + One(HoldsVec(m)) + One(HoldsNames(m)) + One(HoldsAccess(m))
      BY <1>4, <1>12, <2>2, <3>1 DEF One
    <3>3. frames'[Len(frames')] = [id |-> m.vec, kind |-> "native", protected |-> FALSE]
      BY <1>2, <1>7, <1>10, <2>2, <3>1
    <3> QED
      BY <1>12, <2>1, <3>2, <3>3 DEF ConversionStacks
  <2>3. CASE Me.kind # "copy"
    <3>1. Len(frames') = flo + One(HoldsVec(m)) + One(HoldsNames(m)) + One(HoldsAccess(m))
      BY <1>4, <1>7, <1>9, <1>12, <2>3 DEF One
    <3> QED
      BY <1>12, <2>1, <2>3, <3>1 DEF ConversionStacks
  <2> QED
    BY <2>2, <2>3
<1>15. Own(m, pp', Len(Me.entry), Len(pp'), frames', Me.level, Len(frames'))
  BY <1>2, <1>3, <1>13, <1>14 DEF Own, Same, lo, flo
<1>16. \A x \in Names(m) : x \in Names(Me)
  BY <1>2 DEF Names, v
<1> QED
  BY <1>1, <1>2, <1>9, <1>11, <1>15, <1>16, OwnStep DEF lo, flo

LEMMA CloseStep == ASSUME BuilderInv, Close PROVE BuilderInv'
<1> DEFINE m == [Me EXCEPT !.pc = "run", !.vec = None, !.names = None]
           lo == Len(Me.entry)
           flo == Me.level
<1>1. /\ Len(calls) > 0 /\ Me.pc = "close" /\ Me \in Activation
      /\ pp' = pp /\ frames' = FramesWithout(Me.vec, "native")
      /\ calls' = Now(m) /\ taken' = {}
  BY Running DEF Close, BuilderInv
<1>2. /\ m \in Activation /\ Same(m, Me) /\ m.pc = "run" /\ m.names = None
      /\ m.vec = None /\ m.i = Me.i /\ m.hand = Me.hand
      /\ m.held = Me.held /\ m.copies = Me.copies
  <2>1. None \in 0..MaxValues
    BY BuilderAssumption DEF None
  <2> QED
    BY <1>1, <2>1 DEF Activation, Same
<1>3. /\ Me.kind # "user" /\ ConversionVars(Me)
      /\ ConversionStacks(Me, pp, lo, Len(pp), frames, flo, Len(frames))
  BY <1>1, NotUser, MyConversion
<1>4. /\ Len(pp) \in Nat /\ Len(frames) \in Nat /\ lo \in Nat /\ flo \in Nat
      /\ pp \in Seq(0..MaxValues) /\ frames \in Seq(Frame) /\ Len(frames) <= MAX_NESTING
  BY <1>1, StackTypes, MyStacks DEF BuilderInv, TypeOK
<1> HIDE DEF m, lo, flo
<1>5. Me.vec # None /\ Me.vec \in Names(Me)
  BY <1>1, <1>3 DEF ConversionVars, Names
<1>6. /\ RootsVec(Me) = FALSE /\ RootsNames(Me) = FALSE /\ HoldsVec(Me) = FALSE
      /\ HoldsNames(Me) = FALSE
      /\ HoldsAccess(Me) = (Me.kind = "copy")
  BY <1>1, <1>3 DEF RootsVec, RootsNames, HoldsVec, HoldsNames, HoldsAccess
<1>7. /\ Len(pp) = lo
      /\ Me.kind # "copy" => Len(frames) = flo
      /\ Me.kind = "copy" => Len(frames) = flo + 1
      /\ Me.kind = "copy" => frames[flo + 1].id = Me.vec /\ frames[flo + 1].kind = "native"
  <2>1. /\ Len(pp) = lo + 0 + 0
        /\ Me.kind # "copy" => Len(frames) = flo + 0 + 0 + 0
        /\ Me.kind = "copy" => Len(frames) = flo + 0 + 0 + 1
    BY <1>3, <1>6 DEF ConversionStacks, One
  <2>2. Me.kind = "copy" =>
           frames[Len(frames)] = [id |-> Me.vec, kind |-> "native", protected |-> FALSE]
    BY <1>3, <1>6 DEF ConversionStacks
  <2>3. Me.kind = "copy" => Len(frames) = flo + 1
    BY <1>4, <2>1
  <2> QED
    BY <1>4, <2>1, <2>2, <2>3
<1>8. /\ frames' \in Seq(Frame) /\ Len(frames') = flo /\ Len(frames') <= MAX_NESTING
      /\ \A i \in 1 .. flo : frames'[i] = frames[i]
  <2>1. CASE Me.kind = "copy"
    <3>1. flo + 1 \in 1 .. Len(frames)
      BY <1>4, <1>7, <2>1
    <3>2. ~Missing(Me.vec, "native")
      BY <1>7, <2>1, <3>1 DEF Missing
    <3>3. /\ frames' \in Seq(Frame) /\ Len(frames') = Len(frames) - 1
          /\ Len(frames') <= MAX_NESTING
          /\ \A i \in 1 .. flo : frames'[i] = frames[i]
      BY <1>1, <1>5, <3>2, TakenIsMine DEF flo
    <3> QED
      BY <1>4, <1>7, <2>1, <3>3
  <2>2. CASE Me.kind # "copy"
    <3>1. Missing(Me.vec, "native")
      <4>1. \A i \in 1 .. Len(frames) : ~(i > flo)
        BY <1>4, <1>7, <2>2
      <4> QED
        BY <1>1, <1>5, <4>1, MyFrames DEF Missing, flo
    <3>2. frames' = frames
      BY <1>1, <3>1, WithoutIs
    <3> QED
      BY <1>4, <1>7, <2>2, <3>2
  <2> QED
    BY <2>1, <2>2
<1>9. /\ RootsVec(m) = FALSE /\ RootsNames(m) = FALSE /\ HoldsVec(m) = FALSE
      /\ HoldsNames(m) = FALSE /\ HoldsAccess(m) = FALSE
  BY <1>2 DEF RootsVec, RootsNames, HoldsVec, HoldsNames, HoldsAccess, Same
<1>10. ConversionVars(m)
  BY <1>1, <1>2, <1>3, <1>9 DEF ConversionVars, Same
<1>11. ConversionStacks(m, pp', lo, Len(pp'), frames', flo, Len(frames'))
  <2>1. Len(pp') = lo + One(RootsVec(m)) + One(RootsNames(m))
    BY <1>1, <1>4, <1>7, <1>9 DEF One
  <2>2. Len(frames') = flo + One(HoldsVec(m)) + One(HoldsNames(m)) + One(HoldsAccess(m))
    BY <1>4, <1>8, <1>9 DEF One
  <2> QED
    BY <1>9, <2>1, <2>2 DEF ConversionStacks
<1>12. Own(m, pp', Len(Me.entry), Len(pp'), frames', Me.level, Len(frames'))
  BY <1>2, <1>3, <1>10, <1>11 DEF Own, Same, lo, flo
<1>13. /\ pp' \in Seq(0..MaxValues) /\ Len(pp') >= lo /\ Len(frames') >= flo
       /\ \A i \in 1 .. lo : pp'[i] = pp[i]
  BY <1>1, <1>4, <1>7, <1>8
<1>14. \A x \in Names(m) : x \in Names(Me)
  BY <1>2 DEF Names
<1> QED
  BY <1>1, <1>2, <1>8, <1>12, <1>13, <1>14, OwnStep DEF lo, flo

LEMMA LeaveStep == ASSUME BuilderInv, Leave PROVE BuilderInv'
<1>1. /\ Len(calls) > 0 /\ Me.pc = "run" /\ Me.kind # "user" /\ Return
  BY Running DEF Leave
<1>2. /\ ConversionStacks(Me, pp, Len(Me.entry), Len(pp), frames, Me.level, Len(frames))
      /\ Len(Me.entry) \in Nat /\ Me.level \in Nat
  BY <1>1, MyConversion, MyStacks
<1>3. /\ RootsVec(Me) = FALSE /\ RootsNames(Me) = FALSE /\ HoldsVec(Me) = FALSE
      /\ HoldsNames(Me) = FALSE /\ HoldsAccess(Me) = FALSE
  BY <1>1 DEF RootsVec, RootsNames, HoldsVec, HoldsNames, HoldsAccess
<1>4. Len(pp) = Len(Me.entry) + 0 + 0 /\ Len(frames) = Me.level + 0 + 0 + 0
  BY <1>2, <1>3 DEF ConversionStacks, One
<1>5. Len(pp) = Len(Me.entry) /\ Len(frames) = Me.level
  BY <1>2, <1>4
<1> QED
  BY <1>1, <1>5, ReturnStep

-----------------------------------------------------------------------------
(***************************************************************************)
(* A function of the package.                                              *)
(***************************************************************************)
LEMMA MyUser ==
    ASSUME BuilderInv, Len(calls) > 0, Me.kind = "user"
    PROVE  /\ UserVars(Me) /\ UserFrames(Me, frames, Me.level, Len(frames))
           /\ UserStack(Me, pp, Len(Me.entry), Len(pp), frames, Me.level, Len(frames))
           /\ Me.kind \notin DOMAIN Schemas
<1>1. Own(Me, pp, Len(Me.entry), Len(pp), frames, Me.level, Len(frames))
  BY MyStacks
<1>2. Me.kind \notin DOMAIN Schemas
  BY SchemaFacts
<1> QED
  BY <1>1, <1>2 DEF Own

LEMMA QuietUser ==
    ASSUME BuilderInv, Len(calls) > 0, Me.kind = "user", Me.pc # "vecAlloc",
           NEW m \in Activation, Same(m, Me), m.held = Me.held, m.pc # "vecAlloc",
           UserVars(m)
    PROVE  Own(m, pp, Len(Me.entry), Len(pp), frames, Me.level, Len(frames))
<1>1. UserFrames(m, frames, Me.level, Len(frames))
  BY MyUser DEF UserFrames
<1>2. UserStack(m, pp, Len(Me.entry), Len(pp), frames, Me.level, Len(frames))
  BY MyUser DEF UserStack
<1> QED
  BY <1>1, <1>2 DEF Own, Same

LEMMA UserRuns ==
    ASSUME BuilderInv, AtKind("user", "run")
    PROVE  /\ Len(calls) > 0 /\ Me.pc = "run" /\ Me.kind = "user" /\ Me \in Activation
           /\ Me.names = None /\ Me.vec = None
           /\ \A j, l \in DOMAIN Me.held : Me.held[j].id = Me.held[l].id => j = l
           /\ \A j \in DOMAIN Me.held : Me.held[j].id # Me.hand /\ Me.held[j].id \in Values
           /\ Me.held \in Seq(Held) /\ DOMAIN Me.held = 1 .. Len(Me.held) /\ Len(Me.held) \in Nat
<1>1. Len(calls) > 0 /\ Me.pc = "run" /\ Me.kind = "user" /\ Me \in Activation
  BY Running DEF AtKind
<1>2. UserVars(Me)
  BY <1>1, MyUser
<1>3. /\ Me.held \in Seq(Held) /\ DOMAIN Me.held = 1 .. Len(Me.held) /\ Len(Me.held) \in Nat
      /\ \A j \in DOMAIN Me.held : Me.held[j].id \in Values
  BY <1>1, ActivationFacts
<1> QED
  BY <1>1, <1>2, <1>3 DEF UserVars

LEMMA UserBeginStep == ASSUME BuilderInv, UserBegin PROVE BuilderInv'
<1> DEFINE m == [Me EXCEPT !.pc = "vec"]
<1>1. /\ Len(calls) > 0 /\ Me.pc = "run" /\ Me.kind = "user" /\ Me \in Activation
      /\ Me.hand = None /\ calls' = Now(m) /\ pp' = pp /\ frames' = frames /\ taken' = {}
  BY UserRuns DEF UserBegin, Ready, Goto, BuilderInv
<1>2. /\ m \in Activation /\ Same(m, Me) /\ m.pc = "vec" /\ m.hand = Me.hand
      /\ m.vec = Me.vec /\ m.names = Me.names /\ m.held = Me.held /\ Names(m) = Names(Me)
  <2>1. "vec" \in PCs
    BY DEF PCs
  <2> QED
    BY <1>1, <2>1, GotoFacts
<1> HIDE DEF m
<1>3. UserVars(m)
  BY <1>1, <1>2, MyUser DEF UserVars
<1>4. Own(m, pp, Len(Me.entry), Len(pp), frames, Me.level, Len(frames))
  BY <1>1, <1>2, <1>3, QuietUser
<1> QED
  BY <1>1, <1>2, <1>4, QuietStep

LEMMA UserCallStep == ASSUME BuilderInv, UserCall PROVE BuilderInv'
<1>1. PICK kind \in Kinds \ {"null", "scalar"}, catch \in BOOLEAN :
         calls' = Append(calls, Activate(kind, catch, pp))
  BY DEF UserCall
<1>2. /\ Len(calls) > 0 /\ Me.pc = "run" /\ Me.kind = "user" /\ Me \in Activation
      /\ Me.hand = None /\ pp' = pp /\ frames' = frames /\ taken' = taken
  BY UserRuns DEF UserCall, Ready
<1>3. Begins(Activate(kind, catch, pp), pp)
  BY ActivateBegins, StackTypes
<1>4. Now(Me) = calls
  <2>1. Me = calls[Len(calls)] /\ calls \in Seq(Activation) /\ Len(calls) \in 1 .. Len(calls)
    BY <1>2, MyStacks, StackTypes
  <2>2. calls = [k \in 1 .. Len(calls) |-> calls[k]] /\ DOMAIN calls = 1 .. Len(calls)
    BY <2>1, LenProperties
  <2> QED
    BY <2>1, <2>2 DEF Now
<1>5. Own(Me, pp, Len(Me.entry), Len(pp), frames, Me.level, Len(frames))
  BY <1>2, MyStacks
<1>6. Waiting(Me) /\ Same(Me, Me)
  BY <1>2 DEF Waiting, Same
<1>7. calls' = Append(Now(Me), Activate(kind, catch, pp))
  BY <1>1, <1>4
<1> QED
  BY <1>2, <1>3, <1>5, <1>6, <1>7, CallStep

LEMMA UserAllocateStep == ASSUME BuilderInv, UserAllocate PROVE BuilderInv'
<1> DEFINE h == New
           m == [Me EXCEPT !.hand = h]
<1>1. /\ Len(calls) > 0 /\ Me.pc = "run" /\ Me.kind = "user" /\ Me \in Activation
      /\ Me.hand = None /\ calls' = Now(m) /\ pp' = pp /\ frames' = frames /\ Collect
      /\ Unused # {}
  BY UserRuns DEF UserAllocate, Ready
<1>2. h \in 0..MaxValues /\ h \notin Named /\ h \notin Names(Me)
  <2>1. Len(calls) \in 1 .. Len(calls) /\ Me = calls[Len(calls)]
    BY <1>1, MyStacks
  <2> QED
    BY <1>1, <2>1, NewIsFree
<1>3. taken' = {}
  BY <1>1, CollectsNothing
<1> HIDE DEF h
<1>4. /\ m \in Activation /\ Same(m, Me) /\ m.pc = "run" /\ m.hand = h
      /\ m.vec = Me.vec /\ m.names = Me.names /\ m.held = Me.held /\ m.copies = Me.copies
  BY <1>1, <1>2 DEF Activation, Same
<1> HIDE DEF m
<1>5. \A j \in DOMAIN Me.held : Me.held[j].id # h
  <2> TAKE j \in DOMAIN Me.held
  <2>1. Me.held[j].id \in Values
    BY <1>1, ActivationFacts
  <2>2. Me.held[j].id \in Names(Me)
    BY <2>1 DEF Names, Values, None
  <2> QED
    BY <1>2, <2>2
<1>6. UserVars(m)
  BY <1>1, <1>4, <1>5, MyUser DEF UserVars
<1>7. Own(m, pp, Len(Me.entry), Len(pp), frames, Me.level, Len(frames))
  BY <1>1, <1>4, <1>6, QuietUser
<1>8. \A x \in Names(m) : x \in Names(Me) \/ x \notin Named
  BY <1>2, <1>4 DEF Names
<1> QED
  BY <1>1, <1>3, <1>4, <1>7, <1>8, QuietStep

LEMMA UserStoreStep == ASSUME BuilderInv, UserStore PROVE BuilderInv'
<1> DEFINE h == None
           m == [Me EXCEPT !.hand = h]
<1>1. /\ Len(calls) > 0 /\ Me.pc = "run" /\ Me.kind = "user" /\ Me \in Activation
      /\ calls' = Now(m) /\ pp' = pp /\ frames' = frames /\ taken' = {}
  BY UserRuns DEF UserStore, BuilderInv
<1>2. h \in 0..MaxValues
  BY BuilderAssumption DEF None
<1> HIDE DEF h
<1>3. /\ m \in Activation /\ Same(m, Me) /\ m.pc = "run" /\ m.hand = h
      /\ m.vec = Me.vec /\ m.names = Me.names /\ m.held = Me.held /\ m.copies = Me.copies
  BY <1>1, <1>2 DEF Activation, Same
<1> HIDE DEF m
<1>4. \A j \in DOMAIN Me.held : Me.held[j].id # h
  <2> TAKE j \in DOMAIN Me.held
  <2>1. Me.held[j].id \in Values
    BY <1>1, ActivationFacts
  <2> QED
    BY <2>1 DEF Values, None, h
<1>5. UserVars(m)
  BY <1>1, <1>3, <1>4, MyUser DEF UserVars
<1>6. Own(m, pp, Len(Me.entry), Len(pp), frames, Me.level, Len(frames))
  BY <1>1, <1>3, <1>5, QuietUser
<1>7. \A x \in Names(m) : x \in Names(Me)
  BY <1>3 DEF Names, h
<1> QED
  BY <1>1, <1>3, <1>6, <1>7, QuietStep

LEMMA UserCopyStep == ASSUME BuilderInv, UserCopy PROVE BuilderInv'
<1>1. PICK h \in Range(Me.held) : calls' = Now([Me EXCEPT !.copies = @ \union {h.id}])
  BY DEF UserCopy
<1> DEFINE c == Me.copies \union {h.id}
           m == [Me EXCEPT !.copies = c]
<1>2. /\ Len(calls) > 0 /\ Me.pc = "run" /\ Me.kind = "user" /\ Me \in Activation
      /\ pp' = pp /\ frames' = frames /\ taken' = {}
  BY UserRuns DEF UserCopy, Ready, BuilderInv
<1>3. calls' = Now(m)
  BY <1>1
<1>4. PICK j \in DOMAIN Me.held : h = Me.held[j]
  BY DEF Range
<1>5. h.id \in Values
  BY <1>2, <1>4, ActivationFacts
<1>6. c \in SUBSET Values
  BY <1>2, <1>5 DEF Activation
<1> HIDE DEF c
<1>7. /\ m \in Activation /\ Same(m, Me) /\ m.pc = "run" /\ m.hand = Me.hand
      /\ m.vec = Me.vec /\ m.names = Me.names /\ m.held = Me.held /\ m.copies = c
  BY <1>2, <1>6 DEF Activation, Same
<1> HIDE DEF m
<1>8. UserVars(m)
  BY <1>2, <1>7, MyUser DEF UserVars
<1>9. Own(m, pp, Len(Me.entry), Len(pp), frames, Me.level, Len(frames))
  BY <1>2, <1>7, <1>8, QuietUser
<1>10. \A x \in Names(m) : x \in Names(Me)
  BY <1>4, <1>7 DEF Names, c
<1> QED
  BY <1>2, <1>3, <1>7, <1>9, <1>10, QuietStep

LEMMA UserReturnStep == ASSUME BuilderInv, UserReturn PROVE BuilderInv'
<1>1. /\ Len(calls) > 0 /\ Me.pc = "run" /\ Me.kind = "user" /\ Me \in Activation
      /\ Me.held = <<>> /\ Return
  BY UserRuns DEF UserReturn
<1>2. DOMAIN Me.held = {}
  BY <1>1, EmptySeq
<1>3. Me.level + 1 .. Len(frames) = {}
  BY <1>1, <1>2, MyUser DEF UserFrames
<1>4. Len(Me.entry) + 1 .. Len(pp) = {}
  BY <1>1, <1>2, MyUser DEF UserStack
<1>5. /\ Len(pp) \in Nat /\ Len(frames) \in Nat /\ Len(Me.entry) \in Nat /\ Me.level \in Nat
      /\ Len(Me.entry) <= Len(pp) /\ Me.level <= Len(frames)
  BY <1>1, StackTypes, MyStacks
<1>6. Len(pp) = Len(Me.entry)
  <2>1. Len(Me.entry) + 1 \notin Len(Me.entry) + 1 .. Len(pp)
    BY <1>4
  <2> QED
    BY <1>5, <2>1
<1>7. Len(frames) = Me.level
  <2>1. Me.level + 1 \notin Me.level + 1 .. Len(frames)
    BY <1>3
  <2> QED
    BY <1>5, <2>1
<1> QED
  BY <1>1, <1>6, <1>7, ReturnStep

\* What a function of the package has on the stacks when something is pushed: a
\* value that it did not hold.
LEMMA StackPushed ==
    ASSUME NEW a \in Activation, NEW b, NEW h, b.held = Append(a.held, h), h \in Held,
           NEW p, NEW q, NEW lo \in Nat, NEW hi \in Nat, lo <= hi, NEW f, NEW g, NEW flo, NEW fhi,
           UserStack(a, p, lo, hi, f, flo, fhi),
           \A i \in lo + 1 .. hi : q[i] = p[i],
           q[hi + 1] = h.id,
           \A j \in DOMAIN a.held : a.held[j].id # h.id,
           \A x : Framed(x, g, flo, fhi) <=> Framed(x, f, flo, fhi),
           Open(h, g, flo, fhi)
    PROVE  UserStack(b, q, lo, hi + 1, g, flo, fhi)
<1> DEFINE A == a.held
           B == b.held
<1>1. A \in Seq(Held) /\ Len(A) \in Nat /\ DOMAIN A = 1 .. Len(A)
  BY ActivationFacts
<1>2. /\ B \in Seq(Held) /\ Len(B) = Len(A) + 1 /\ DOMAIN B = 1 .. Len(B)
      /\ \A j \in 1 .. Len(A) : B[j] = A[j]
      /\ B[Len(A) + 1] = h
  <2>1. /\ B \in Seq(Held) /\ Len(B) = Len(A) + 1
        /\ \A j \in 1 .. Len(A) : B[j] = A[j]
        /\ B[Len(A) + 1] = h
    BY <1>1, AppendIs
  <2> QED
    BY <2>1, LenProperties
<1>3. \A x : Open(x, g, flo, fhi) <=> Open(x, f, flo, fhi)
  BY DEF Open
<1> HIDE DEF A, B
<1>4. /\ \A i \in lo + 1 .. hi : \E j \in DOMAIN A : A[j].id = p[i] /\ Open(A[j], f, flo, fhi)
      /\ \A j \in DOMAIN A : Open(A[j], f, flo, fhi) => \E i \in lo + 1 .. hi : p[i] = A[j].id
      /\ \A i, j \in lo + 1 .. hi : \A k, l \in DOMAIN A :
            p[i] = A[k].id /\ p[j] = A[l].id => (i < j <=> k < l)
  BY DEF UserStack, A
<1>5. \A i \in lo + 1 .. hi : p[i] # h.id
  BY <1>4 DEF A
<1>6. /\ \A i \in lo + 1 .. hi + 1 : i \in lo + 1 .. hi \/ i = hi + 1
      /\ \A j \in DOMAIN B : j \in DOMAIN A \/ j = Len(A) + 1
      /\ \A j \in DOMAIN A : j \in DOMAIN B /\ B[j] = A[j] /\ j < Len(A) + 1 /\ A[j].id # h.id
      /\ \A i \in lo + 1 .. hi : i \in lo + 1 .. hi + 1 /\ i < hi + 1 /\ i \in Nat
      /\ Len(A) + 1 \in DOMAIN B /\ hi + 1 \in lo + 1 .. hi + 1
  BY <1>1, <1>2 DEF A
<1>7. \A i \in lo + 1 .. hi + 1 : \E j \in DOMAIN B : B[j].id = q[i] /\ Open(B[j], g, flo, fhi)
  <2> TAKE i \in lo + 1 .. hi + 1
  <2>1. CASE i \in lo + 1 .. hi
    <3>1. PICK j \in DOMAIN A : A[j].id = p[i] /\ Open(A[j], f, flo, fhi)
      BY <1>4, <2>1
    <3> QED
      BY <1>3, <1>6, <2>1, <3>1
  <2>2. CASE i = hi + 1
    BY <1>2, <1>6, <2>2
  <2> QED
    BY <1>6, <2>1, <2>2
<1>8. \A j \in DOMAIN B :
         Open(B[j], g, flo, fhi) => \E i \in lo + 1 .. hi + 1 : q[i] = B[j].id
  <2> TAKE j \in DOMAIN B
  <2> HAVE Open(B[j], g, flo, fhi)
  <2>1. CASE j \in DOMAIN A
    <3>1. Open(A[j], f, flo, fhi)
      BY <1>3, <1>6, <2>1
    <3>2. PICK i \in lo + 1 .. hi : p[i] = A[j].id
      BY <1>4, <2>1, <3>1
    <3> QED
      BY <1>6, <2>1, <3>2
  <2>2. CASE j = Len(A) + 1
    BY <1>2, <1>6, <2>2
  <2> QED
    BY <1>6, <2>1, <2>2
<1>9. ASSUME NEW i \in lo + 1 .. hi + 1, NEW j \in lo + 1 .. hi + 1,
             NEW k \in DOMAIN B, NEW l \in DOMAIN B, q[i] = B[k].id, q[j] = B[l].id
      PROVE  i < j <=> k < l
  <2>1. i = hi + 1 <=> k = Len(A) + 1
    BY <1>2, <1>5, <1>6, <1>9
  <2>2. j = hi + 1 <=> l = Len(A) + 1
    BY <1>2, <1>5, <1>6, <1>9
  <2>3. CASE i = hi + 1 \/ j = hi + 1
    <3>1. CASE i = hi + 1
      <4>1. k = Len(A) + 1 /\ ~(k < l) /\ ~(i < j)
        BY <1>1, <1>2, <2>1, <3>1
      <4> QED
        BY <4>1
    <3>2. CASE j = hi + 1 /\ i # hi + 1
      <4>1. i < j /\ k < l
        BY <1>6, <2>1, <2>2, <3>2
      <4> QED
        BY <4>1
    <3> QED
      BY <2>3, <3>1, <3>2
  <2>4. CASE i # hi + 1 /\ j # hi + 1
    <3>1. i \in lo + 1 .. hi /\ j \in lo + 1 .. hi /\ k \in DOMAIN A /\ l \in DOMAIN A
      BY <1>6, <2>1, <2>2, <2>4
    <3>2. p[i] = A[k].id /\ p[j] = A[l].id
      BY <1>6, <1>9, <3>1
    <3> QED
      BY <1>4, <3>1, <3>2
  <2> QED
    BY <2>3, <2>4
<1> QED
  BY <1>7, <1>8, <1>9 DEF UserStack, B

\* ... and when the value id is taken off, or was not there: s tells where the
\* rest of what a holds is in b.
Kept(a, b, id, s, p, q, lo, hi, qhi, f, g, flo, fhi, ghi) ==
    /\ \A x \in DOMAIN b.held : s[x] \in DOMAIN a.held /\ b.held[x] = a.held[s[x]]
    /\ \A x, y \in DOMAIN b.held : x < y <=> s[x] < s[y]
    /\ \A l \in DOMAIN a.held : a.held[l].id # id => \E x \in DOMAIN b.held : s[x] = l
    /\ qhi <= hi
    /\ \A i \in lo + 1 .. qhi : q[i] = p[i]
    /\ \A i \in lo + 1 .. hi : i <= qhi <=> p[i] # id
    /\ \A x \in DOMAIN b.held :
          /\ Open(b.held[x], g, flo, ghi) => Open(b.held[x], f, flo, fhi)
          /\ b.held[x].id # id /\ Open(b.held[x], f, flo, fhi) => Open(b.held[x], g, flo, ghi)
          /\ Open(b.held[x], g, flo, ghi) => b.held[x].id # id

LEMMA StackKept ==
    ASSUME NEW a, NEW b, NEW id, NEW s, NEW p, NEW q, NEW lo \in Nat, NEW hi \in Nat, NEW qhi \in Nat,
           NEW f, NEW g, NEW flo, NEW fhi, NEW ghi,
           UserStack(a, p, lo, hi, f, flo, fhi),
           Kept(a, b, id, s, p, q, lo, hi, qhi, f, g, flo, fhi, ghi)
    PROVE  UserStack(b, q, lo, qhi, g, flo, ghi)
<1> DEFINE A == a.held
           B == b.held
<1>1. /\ \A i \in lo + 1 .. hi : \E j \in DOMAIN A : A[j].id = p[i] /\ Open(A[j], f, flo, fhi)
      /\ \A j \in DOMAIN A : Open(A[j], f, flo, fhi) => \E i \in lo + 1 .. hi : p[i] = A[j].id
      /\ \A i, j \in lo + 1 .. hi : \A k, l \in DOMAIN A :
            p[i] = A[k].id /\ p[j] = A[l].id => (i < j <=> k < l)
  BY DEF UserStack
<1>2. /\ \A x \in DOMAIN B : s[x] \in DOMAIN A /\ B[x] = A[s[x]]
      /\ \A l \in DOMAIN A : A[l].id # id => \E x \in DOMAIN B : s[x] = l
      /\ \A x \in DOMAIN B :
              /\ Open(B[x], g, flo, ghi) => Open(B[x], f, flo, fhi)
              /\ B[x].id # id /\ Open(B[x], f, flo, fhi) => Open(B[x], g, flo, ghi)
              /\ Open(B[x], g, flo, ghi) => B[x].id # id
      /\ \A x, y \in DOMAIN B : x < y <=> s[x] < s[y]
  BY DEF Kept
<1>2a. qhi <= hi /\ \A i \in lo + 1 .. hi : i <= qhi <=> p[i] # id
  BY DEF Kept
<1> HIDE DEF A, B
<1>3. \A i \in lo + 1 .. qhi : i \in lo + 1 .. hi /\ i <= qhi
  BY <1>2a
<1>4. \A i \in lo + 1 .. qhi : q[i] = p[i] /\ p[i] # id
  BY <1>3, <1>2a DEF Kept
<1>5. \A i \in lo + 1 .. qhi : \E j \in DOMAIN B : B[j].id = q[i] /\ Open(B[j], g, flo, ghi)
  <2> TAKE i \in lo + 1 .. qhi
  <2>1. PICK l \in DOMAIN A : A[l].id = p[i] /\ Open(A[l], f, flo, fhi)
    BY <1>1, <1>3
  <2>2. PICK x \in DOMAIN B : s[x] = l
    BY <1>2, <1>4, <2>1
  <2>3. B[x] = A[l]
    BY <1>2, <2>2
  <2> QED
    BY <1>2, <1>4, <2>1, <2>2, <2>3
<1>6. \A j \in DOMAIN B :
         Open(B[j], g, flo, ghi) => \E i \in lo + 1 .. qhi : q[i] = B[j].id
  <2> TAKE j \in DOMAIN B
  <2> HAVE Open(B[j], g, flo, ghi)
  <2>1. B[j] = A[s[j]] /\ s[j] \in DOMAIN A /\ Open(A[s[j]], f, flo, fhi) /\ B[j].id # id
    BY <1>2
  <2>2. PICK i \in lo + 1 .. hi : p[i] = B[j].id
    BY <1>1, <2>1
  <2>3. i \in lo + 1 .. qhi
    <3>1. i <= qhi
      BY <1>2a, <2>1, <2>2
    <3> QED
      BY <3>1
  <2> QED
    BY <1>4, <2>2, <2>3
<1>7. ASSUME NEW i \in lo + 1 .. qhi, NEW j \in lo + 1 .. qhi,
             NEW k \in DOMAIN B, NEW l \in DOMAIN B, q[i] = B[k].id, q[j] = B[l].id
      PROVE  i < j <=> k < l
  <2>1. p[i] = A[s[k]].id /\ p[j] = A[s[l]].id /\ s[k] \in DOMAIN A /\ s[l] \in DOMAIN A
    BY <1>2, <1>4, <1>7
  <2>2. i < j <=> s[k] < s[l]
    <3>1. \A x, y \in lo + 1 .. hi : \A u, w \in DOMAIN A :
             p[x] = A[u].id /\ p[y] = A[w].id => (x < y <=> u < w)
      BY <1>1
    <3>2. i \in lo + 1 .. hi /\ j \in lo + 1 .. hi
      BY <1>3
    <3> QED
      BY <2>1, <3>1, <3>2
  <2>3. k < l <=> s[k] < s[l]
    BY <1>2
  <2> QED
    BY <2>2, <2>3
<1> QED
  BY <1>5, <1>6, <1>7 DEF UserStack, B

LEMMA BeginUser == ASSUME BuilderInv, BeginVec, Me.kind = "user" PROVE BuilderInv'
<1> DEFINE m == [Me EXCEPT !.pc = "vecAlloc", !.vec = New]
           lo == Len(Me.entry)
           flo == Me.level
           hi == Len(pp)
           fhi == Len(frames)
<1>1. /\ Len(calls) > 0 /\ Me.pc = "vec" /\ Me \in Activation /\ Register(m)
  BY Running DEF BeginVec
<1>2. /\ calls' = Now(m) /\ pp' = pp /\ taken' = {} /\ Unused # {}
      /\ frames' \in Seq(Frame) /\ Len(frames') = fhi + 1 /\ Len(frames') <= MAX_NESTING
      /\ \A i \in 1 .. fhi : frames'[i] = frames[i]
      /\ frames'[fhi + 1] = [id |-> New, kind |-> "result", protected |-> FALSE]
  BY <1>1, RegisterFacts
<1>3. /\ New \in 0..MaxValues /\ New \notin Named /\ New # None
      /\ New \notin Names(Me)
      /\ \A i \in 1 .. fhi : frames[i].id # New
  <2>1. Len(calls) \in 1 .. Len(calls) /\ Me = calls[Len(calls)]
    BY <1>1, MyStacks
  <2> QED
    BY <1>2, <2>1, NewIsFree
<1>4. /\ m \in Activation /\ Same(m, Me) /\ m.pc = "vecAlloc" /\ m.vec = New
      /\ m.names = Me.names /\ m.hand = Me.hand
      /\ m.held = Me.held /\ m.copies = Me.copies
  BY <1>1, <1>3 DEF Activation, Same
<1> HIDE DEF m
<1>5. /\ UserVars(Me) /\ UserFrames(Me, frames, flo, fhi)
      /\ UserStack(Me, pp, lo, hi, frames, flo, fhi)
  BY <1>1, MyUser
<1>6. /\ hi \in Nat /\ fhi \in Nat /\ lo \in Nat /\ flo \in Nat /\ lo <= hi /\ flo <= fhi
      /\ pp \in Seq(0..MaxValues)
  BY <1>1, StackTypes, MyStacks
<1>7. \A j \in DOMAIN Me.held : Me.held[j].id # New
  <2> TAKE j \in DOMAIN Me.held
  <2>1. Me.held[j].id \in Values
    BY <1>1, ActivationFacts
  <2>2. Me.held[j].id \in Names(Me)
    BY <2>1 DEF Names, Values, None
  <2> QED
    BY <1>3, <2>2
<1> HIDE DEF lo, flo, hi, fhi
<1>8. UserVars(m)
  BY <1>1, <1>3, <1>4, <1>5, <1>7 DEF UserVars
<1>9. /\ \A i \in flo + 1 .. fhi + 1 : i \in flo + 1 .. fhi \/ i = fhi + 1
      /\ \A i \in flo + 1 .. fhi : /\ i \in flo + 1 .. fhi + 1 /\ frames'[i] = frames[i]
                                   /\ frames[i].id # New
      /\ frames'[fhi + 1].id = New /\ frames'[fhi + 1].kind = "result"
      /\ ~frames'[fhi + 1].protected /\ fhi + 1 \in flo + 1 .. fhi + 1
  <2>1. /\ \A i \in flo + 1 .. fhi + 1 : i \in flo + 1 .. fhi \/ i = fhi + 1
        /\ \A i \in flo + 1 .. fhi : i \in flo + 1 .. fhi + 1 /\ i \in 1 .. fhi
        /\ fhi + 1 \in flo + 1 .. fhi + 1
    BY <1>6
  <2> QED
    BY <1>2, <1>3, <2>1
<1>10. UserFrames(m, frames', flo, fhi + 1)
  <2>1. /\ \A i, j \in flo + 1 .. fhi : frames[i].id = frames[j].id => i = j
        /\ \A i \in flo + 1 .. fhi :
              /\ frames[i].kind = "result"
              /\ frames[i].protected
              /\ \E j \in DOMAIN Me.held : Me.held[j].id = frames[i].id /\ Me.held[j].builder
    BY <1>1, <1>5 DEF UserFrames
  <2>2. \A i, j \in flo + 1 .. fhi + 1 : frames'[i].id = frames'[j].id => i = j
    BY <1>9, <2>1
  <2>3. \A i \in flo + 1 .. fhi + 1 :
          /\ frames'[i].kind = "result"
          /\ frames'[i].protected => \E j \in DOMAIN m.held :
                                        m.held[j].id = frames'[i].id /\ m.held[j].builder
          /\ ~frames'[i].protected => m.pc = "vecAlloc" /\ frames'[i].id = m.vec
    <3> TAKE i \in flo + 1 .. fhi + 1
    <3>1. CASE i \in flo + 1 .. fhi
      BY <1>4, <1>9, <2>1, <3>1
    <3>2. CASE i = fhi + 1
      BY <1>4, <1>9, <3>2
    <3> QED
      BY <1>9, <3>1, <3>2
  <2>4. Framed(m.vec, frames', flo, fhi + 1)
    BY <1>4, <1>9 DEF Framed
  <2> QED
    BY <2>2, <2>3, <2>4 DEF UserFrames
<1>11. UserStack(m, pp, lo, hi, frames', flo, fhi + 1)
  <2> DEFINE s == [x \in DOMAIN Me.held |-> x]
  <2>1. \A x \in DOMAIN m.held : /\ m.held[x].id # New
                                 /\ Framed(m.held[x].id, frames', flo, fhi + 1)
                                       <=> Framed(m.held[x].id, frames, flo, fhi)
    <3> TAKE x \in DOMAIN m.held
    <3>1. m.held[x].id # New
      BY <1>4, <1>7
    <3> QED
      BY <1>9, <3>1 DEF Framed
  <2>2. \A x \in DOMAIN m.held : Open(m.held[x], frames', flo, fhi + 1)
                                    <=> Open(m.held[x], frames, flo, fhi)
    BY <2>1 DEF Open
  <2>3. /\ \A x \in DOMAIN m.held : s[x] \in DOMAIN Me.held /\ m.held[x] = Me.held[s[x]]
        /\ \A x, y \in DOMAIN m.held : x < y <=> s[x] < s[y]
        /\ \A l \in DOMAIN Me.held : Me.held[l].id # New => \E x \in DOMAIN m.held : s[x] = l
    BY <1>4
  <2>4. \A i \in lo + 1 .. hi : i <= hi /\ pp[i] # New
    <3>1. \A i \in lo + 1 .. hi : \E j \in DOMAIN Me.held : Me.held[j].id = pp[i]
      BY <1>5 DEF UserStack
    <3> QED
      BY <1>6, <1>7, <3>1
  <2>5. \A x \in DOMAIN m.held :
           /\ Open(m.held[x], frames', flo, fhi + 1) => Open(m.held[x], frames, flo, fhi)
           /\ m.held[x].id # New /\ Open(m.held[x], frames, flo, fhi)
                 => Open(m.held[x], frames', flo, fhi + 1)
           /\ Open(m.held[x], frames', flo, fhi + 1) => m.held[x].id # New
    BY <2>1, <2>2
  <2>6. /\ hi <= hi /\ \A i \in lo + 1 .. hi : pp[i] = pp[i]
        /\ \A i \in lo + 1 .. hi : i <= hi <=> pp[i] # New
    BY <1>6, <2>4
  <2> HIDE DEF s
  <2>7. Kept(Me, m, New, s, pp, pp, lo, hi, hi, frames, frames', flo, fhi, fhi + 1)
    BY <2>3, <2>5, <2>6 DEF Kept
  <2> QED
    BY <1>5, <1>6, <2>7, StackKept
<1>12. Own(m, pp', Len(Me.entry), Len(pp'), frames', Me.level, Len(frames'))
  <2>1. m.kind = "user"
    BY <1>4 DEF Same
  <2> QED
    BY <1>2, <1>8, <1>10, <1>11, <2>1 DEF Own, lo, hi, flo, fhi
<1>13. \A x \in Names(m) : x \in Names(Me) \/ x \notin Named
  BY <1>3, <1>4 DEF Names
<1>14. /\ pp' \in Seq(0..MaxValues) /\ Len(pp') >= lo /\ Len(frames') >= flo
       /\ \A i \in 1 .. lo : pp'[i] = pp[i]
  BY <1>2, <1>6 DEF hi
<1>15. \A i \in 1 .. flo : frames'[i] = frames[i]
  <2>1. \A i \in 1 .. flo : i \in 1 .. fhi
    BY <1>6
  <2> QED
    BY <1>2, <2>1
<1> QED
  BY <1>1, <1>2, <1>4, <1>12, <1>13, <1>14, <1>15, OwnStep DEF lo, flo

LEMMA FillUser == ASSUME BuilderInv, FillVec, Me.kind = "user" PROVE BuilderInv'
<1> DEFINE v == Me.vec
           h == [id |-> v, builder |-> TRUE]
           pc == CASE Me.kind \in DOMAIN Schemas -> "names"
                   [] Me.kind = "strings" -> "set"
                   [] Me.kind = "copy" -> "access"
                   [] Me.kind = "user" -> "run"
                   [] OTHER -> "finish"
           vec == IF Me.kind = "user" THEN None ELSE Me.vec
           held == IF Me.kind = "user" THEN Append(Me.held, h) ELSE Me.held
           m == [Me EXCEPT !.pc = pc, !.vec = vec, !.held = held]
           lo == Len(Me.entry)
           flo == Me.level
           hi == Len(pp)
           fhi == Len(frames)
<1>1. /\ Len(calls) > 0 /\ Me.pc = "vecAlloc" /\ Me \in Activation /\ Fill(v, m)
  BY Running DEF FillVec
<1>2. /\ UserVars(Me) /\ UserFrames(Me, frames, flo, fhi) /\ Me.kind \notin DOMAIN Schemas
      /\ UserStack(Me, pp, lo, hi, frames, flo, fhi)
  BY <1>1, MyUser
<1>3. /\ hi \in Nat /\ fhi \in Nat /\ lo \in Nat /\ flo \in Nat /\ lo <= hi /\ flo <= fhi
  BY <1>1, StackTypes, MyStacks
<1>4. pc = "run" /\ vec = None /\ held = Append(Me.held, h)
  BY <1>2
<1>5. /\ v # None /\ v \in 0..MaxValues /\ v \in Values /\ v \in Names(Me) /\ Me.hand = None
      /\ Me.names = None
      /\ \A j \in DOMAIN Me.held : Me.held[j].id # v
  <2>1. /\ v # None /\ Me.hand = None /\ Me.names = None
        /\ \A j \in DOMAIN Me.held : Me.held[j].id # v
    BY <1>1, <1>2 DEF UserVars
  <2>2. v \in 0..MaxValues /\ MaxValues \in Nat
    BY <1>1, ActivationFacts, BuilderAssumption
  <2> QED
    BY <2>1, <2>2 DEF Names, Values, None
<1>6. /\ Me.held \in Seq(Held) /\ Len(Me.held) \in Nat /\ DOMAIN Me.held = 1 .. Len(Me.held)
      /\ \A j \in DOMAIN Me.held : Me.held[j].id \in Values
  BY <1>1, ActivationFacts
<1>7. h \in Held
  BY <1>5 DEF Held
<1> HIDE DEF h, pc, vec, held
<1>8. /\ held \in Seq(Held) /\ Len(held) = Len(Me.held) + 1 /\ DOMAIN held = 1 .. Len(held)
      /\ \A j \in 1 .. Len(Me.held) : held[j] = Me.held[j]
      /\ held[Len(Me.held) + 1] = h
  <2>1. /\ held \in Seq(Held) /\ Len(held) = Len(Me.held) + 1
        /\ \A j \in 1 .. Len(Me.held) : held[j] = Me.held[j]
        /\ held[Len(Me.held) + 1] = h
    BY <1>4, <1>6, <1>7, AppendIs
  <2> QED
    BY <2>1, LenProperties
<1>9. /\ m \in Activation /\ Same(m, Me) /\ m.pc = "run" /\ m.vec = None
      /\ m.names = Me.names /\ m.hand = Me.hand /\ m.held = held /\ m.copies = Me.copies
  <2>1. pc \in PCs /\ vec \in 0..MaxValues
    BY <1>4, BuilderAssumption DEF PCs, None
  <2>2. /\ m \in Activation /\ Same(m, Me) /\ m.pc = pc /\ m.vec = vec
        /\ m.names = Me.names /\ m.hand = Me.hand /\ m.held = held /\ m.copies = Me.copies
    BY <1>1, <1>8, <2>1 DEF Activation, Same, PCs
  <2> HIDE DEF m
  <2> QED
    BY <1>4, <2>2
<1> HIDE DEF m, v
<1>10. /\ calls' = Now(m) /\ taken' = {}
       /\ pp' \in Seq(0..MaxValues) /\ Len(pp') = hi + 1
       /\ \A i \in 1 .. hi : pp'[i] = pp[i]
       /\ pp'[hi + 1] = v
       /\ frames' \in Seq(Frame) /\ Len(frames') = fhi /\ Len(frames') <= MAX_NESTING
       /\ \A i \in 1 .. flo : frames'[i] = frames[i]
       /\ \A i \in 1 .. fhi :
             /\ frames[i].id # v => frames'[i] = frames[i]
             /\ frames[i].id = v =>
                   frames'[i] = [id |-> v, kind |-> frames[i].kind, protected |-> TRUE]
  BY <1>1, <1>5, FillFacts
<1>11. \A j \in DOMAIN held :
          \/ j \in DOMAIN Me.held /\ held[j] = Me.held[j] /\ held[j].id # v
          \/ j = Len(Me.held) + 1 /\ held[j] = h
  <2> TAKE j \in DOMAIN held
  <2>1. j \in DOMAIN Me.held \/ j = Len(Me.held) + 1
    BY <1>6, <1>8
  <2>2. CASE j \in DOMAIN Me.held
    BY <1>5, <1>6, <1>8, <2>2
  <2>3. CASE j = Len(Me.held) + 1
    BY <1>8, <2>3
  <2> QED
    BY <2>1, <2>2, <2>3
<1>12. h.id = v /\ h.builder = TRUE
  BY DEF h
<1>13. UserVars(m)
  <2>1. \A j, l \in DOMAIN held : held[j].id = held[l].id => j = l
    BY <1>2, <1>11, <1>12 DEF UserVars
  <2>2. \A j \in DOMAIN held : held[j].id # None
    BY <1>5, <1>6, <1>11, <1>12 DEF Values, None
  <2> QED
    BY <1>5, <1>9, <2>1, <2>2 DEF UserVars
<1> HIDE DEF lo, flo, hi, fhi
<1>14. \A i \in flo + 1 .. fhi :
          /\ frames'[i].id = frames[i].id /\ frames'[i].kind = frames[i].kind
          /\ frames[i].id = v => frames'[i].protected = TRUE
          /\ frames[i].id # v => frames'[i].protected = frames[i].protected
  <2> TAKE i \in flo + 1 .. fhi
  <2>1. i \in 1 .. fhi
    BY <1>3
  <2> QED
    BY <1>10, <2>1
<1>15. \A x : Framed(x, frames', flo, fhi) <=> Framed(x, frames, flo, fhi)
  BY <1>14 DEF Framed
<1>16. UserFrames(m, frames', flo, fhi)
  <2>1. /\ \A i, j \in flo + 1 .. fhi : frames[i].id = frames[j].id => i = j
        /\ \A i \in flo + 1 .. fhi :
              /\ frames[i].kind = "result"
              /\ frames[i].protected => \E j \in DOMAIN Me.held :
                    Me.held[j].id = frames[i].id /\ Me.held[j].builder
              /\ ~frames[i].protected => frames[i].id = v
    BY <1>2 DEF UserFrames, v
  <2>2. \A i, j \in flo + 1 .. fhi : frames'[i].id = frames'[j].id => i = j
    BY <1>14, <2>1
  <2>3. \A i \in flo + 1 .. fhi :
           /\ frames'[i].kind = "result" /\ frames'[i].protected
           /\ \E j \in DOMAIN held : held[j].id = frames'[i].id /\ held[j].builder
    <3> TAKE i \in flo + 1 .. fhi
    <3>1. CASE frames[i].id = v
      <4>1. Len(Me.held) + 1 \in DOMAIN held
        BY <1>6, <1>8
      <4> QED
        BY <1>8, <1>12, <1>14, <2>1, <3>1, <4>1
    <3>2. CASE frames[i].id # v
      <4>1. PICK j \in DOMAIN Me.held : Me.held[j].id = frames[i].id /\ Me.held[j].builder
        BY <2>1, <3>2
      <4>2. j \in DOMAIN held /\ held[j] = Me.held[j]
        BY <1>6, <1>8
      <4> QED
        BY <1>14, <2>1, <3>2, <4>1, <4>2
    <3> QED
      BY <3>1, <3>2
  <2> QED
    BY <1>9, <2>2, <2>3 DEF UserFrames
<1>17. UserStack(m, pp', lo, hi + 1, frames', flo, fhi)
  <2>1. Open(h, frames', flo, fhi)
    <3>1. Framed(v, frames, flo, fhi)
      BY <1>1, <1>2 DEF UserFrames, v
    <3> QED
      BY <1>12, <1>15, <3>1 DEF Open
  <2>2. \A i \in lo + 1 .. hi : pp'[i] = pp[i]
    <3>1. \A i \in lo + 1 .. hi : i \in 1 .. hi
      BY <1>3
    <3> QED
      BY <1>10, <3>1
  <2>3. m.held = Append(Me.held, h) /\ pp'[hi + 1] = h.id
        /\ \A j \in DOMAIN Me.held : Me.held[j].id # h.id
    BY <1>4, <1>5, <1>9, <1>10, <1>12
  <2> QED
    BY <1>1, <1>2, <1>3, <1>7, <1>15, <2>1, <2>2, <2>3, StackPushed
<1>18. Own(m, pp', Len(Me.entry), Len(pp'), frames', Me.level, Len(frames'))
  <2>1. m.kind = "user"
    BY <1>9 DEF Same
  <2> QED
    BY <1>10, <1>13, <1>16, <1>17, <2>1 DEF Own, lo, flo
<1>19. \A x \in Names(m) : x \in Names(Me)
  <2>1. \A j \in DOMAIN held : held[j].id \in Names(Me)
    <3> TAKE j \in DOMAIN held
    <3>1. CASE held[j] = h
      BY <1>5, <1>12, <3>1
    <3>2. CASE j \in DOMAIN Me.held /\ held[j] = Me.held[j]
      BY <1>6, <3>2 DEF Names, Values, None
    <3> QED
      BY <1>11, <3>1, <3>2
  <2> QED
    BY <1>9, <2>1 DEF Names
<1>20. /\ Len(pp') >= lo /\ Len(frames') >= flo
       /\ \A i \in 1 .. lo : pp'[i] = pp[i]
  <2>1. \A i \in 1 .. lo : i \in 1 .. hi
    BY <1>3
  <2> QED
    BY <1>3, <1>10, <2>1
<1> QED
  BY <1>1, <1>9, <1>10, <1>18, <1>19, <1>20, OwnStep DEF lo, flo

LEMMA UserKeepStep == ASSUME BuilderInv, UserKeep PROVE BuilderInv'
<1> DEFINE v == Me.hand
           h == [id |-> v, builder |-> FALSE]
           held == Append(Me.held, h)
           none == None
           m == [Me EXCEPT !.hand = none, !.held = held]
           lo == Len(Me.entry)
           flo == Me.level
           hi == Len(pp)
           fhi == Len(frames)
<1>1. /\ Len(calls) > 0 /\ Me.pc = "run" /\ Me.kind = "user" /\ Me \in Activation
      /\ v # None /\ pp' = Append(pp, v) /\ calls' = Now(m) /\ frames' = frames /\ taken' = {}
  BY UserRuns DEF UserKeep, BuilderInv
<1>2. /\ UserVars(Me) /\ UserFrames(Me, frames, flo, fhi)
      /\ UserStack(Me, pp, lo, hi, frames, flo, fhi)
  BY <1>1, MyUser
<1>3. /\ hi \in Nat /\ fhi \in Nat /\ lo \in Nat /\ flo \in Nat /\ lo <= hi /\ flo <= fhi
      /\ frames \in Seq(Frame) /\ pp \in Seq(0..MaxValues) /\ Len(frames) <= MAX_NESTING
  BY <1>1, StackTypes, MyStacks DEF BuilderInv, TypeOK
<1>4. /\ v \in 0..MaxValues /\ v \in Values /\ v \in Names(Me)
      /\ Me.names = None /\ Me.vec = None
      /\ \A j \in DOMAIN Me.held : Me.held[j].id # v
  <2>1. /\ Me.names = None /\ Me.vec = None
        /\ \A j \in DOMAIN Me.held : Me.held[j].id # v
    BY <1>1, <1>2 DEF UserVars
  <2>2. v \in 0..MaxValues /\ MaxValues \in Nat
    BY <1>1, ActivationFacts, BuilderAssumption
  <2> QED
    BY <1>1, <2>1, <2>2 DEF Names, Values, None
<1>5. /\ Me.held \in Seq(Held) /\ Len(Me.held) \in Nat /\ DOMAIN Me.held = 1 .. Len(Me.held)
      /\ \A j \in DOMAIN Me.held : Me.held[j].id \in Values
  BY <1>1, ActivationFacts
<1>6. h \in Held /\ none \in 0..MaxValues
  BY <1>4, BuilderAssumption DEF Held, None
<1> HIDE DEF h
<1>7. /\ held \in Seq(Held) /\ Len(held) = Len(Me.held) + 1 /\ DOMAIN held = 1 .. Len(held)
      /\ \A j \in 1 .. Len(Me.held) : held[j] = Me.held[j]
      /\ held[Len(Me.held) + 1] = h
  <2>1. /\ held \in Seq(Held) /\ Len(held) = Len(Me.held) + 1
        /\ \A j \in 1 .. Len(Me.held) : held[j] = Me.held[j]
        /\ held[Len(Me.held) + 1] = h
    BY <1>5, <1>6, AppendIs
  <2> QED
    BY <2>1, LenProperties
<1> HIDE DEF held, none
<1>8. /\ m \in Activation /\ Same(m, Me) /\ m.pc = "run" /\ m.hand = none
      /\ m.names = Me.names /\ m.vec = Me.vec /\ m.held = held /\ m.copies = Me.copies
  BY <1>1, <1>6, <1>7 DEF Activation, Same
<1> HIDE DEF m
<1>9. /\ pp' \in Seq(0..MaxValues) /\ Len(pp') = hi + 1
      /\ \A i \in 1 .. hi : pp'[i] = pp[i]
      /\ pp'[hi + 1] = v
  BY <1>1, <1>3, <1>4, AppendIs
<1> HIDE DEF v
<1>10. \A j \in DOMAIN held :
          \/ j \in DOMAIN Me.held /\ held[j] = Me.held[j] /\ held[j].id # v
          \/ j = Len(Me.held) + 1 /\ held[j] = h
  <2> TAKE j \in DOMAIN held
  <2>1. j \in DOMAIN Me.held \/ j = Len(Me.held) + 1
    BY <1>5, <1>7
  <2>2. CASE j \in DOMAIN Me.held
    BY <1>4, <1>5, <1>7, <2>2
  <2>3. CASE j = Len(Me.held) + 1
    BY <1>7, <2>3
  <2> QED
    BY <2>1, <2>2, <2>3
<1>11. h.id = v /\ h.builder = FALSE
  BY DEF h
<1>12. UserVars(m)
  <2>1. \A j, l \in DOMAIN held : held[j].id = held[l].id => j = l
    BY <1>2, <1>10, <1>11 DEF UserVars
  <2>2. \A j \in DOMAIN held : held[j].id # None
    BY <1>4, <1>5, <1>10, <1>11 DEF Values, None
  <2> QED
    BY <1>4, <1>8, <2>1, <2>2 DEF UserVars, none
<1> HIDE DEF lo, flo, hi, fhi
<1>13. UserFrames(m, frames, flo, fhi)
  <2>1. /\ \A i, j \in flo + 1 .. fhi : frames[i].id = frames[j].id => i = j
        /\ \A i \in flo + 1 .. fhi :
              /\ frames[i].kind = "result" /\ frames[i].protected
              /\ \E j \in DOMAIN Me.held :
                    Me.held[j].id = frames[i].id /\ Me.held[j].builder
    BY <1>1, <1>2 DEF UserFrames
  <2>2. \A j \in DOMAIN Me.held : j \in DOMAIN held /\ held[j] = Me.held[j]
    BY <1>5, <1>7
  <2>3. \A i \in flo + 1 .. fhi :
           \E j \in DOMAIN held : held[j].id = frames[i].id /\ held[j].builder
    <3> TAKE i \in flo + 1 .. fhi
    <3>1. PICK j \in DOMAIN Me.held : Me.held[j].id = frames[i].id /\ Me.held[j].builder
      BY <2>1
    <3> QED
      BY <2>2, <3>1
  <2> QED
    BY <1>8, <2>1, <2>3 DEF UserFrames
<1>14. UserStack(m, pp', lo, hi + 1, frames, flo, fhi)
  <2>1. Open(h, frames, flo, fhi)
    BY <1>11 DEF Open
  <2>2. \A i \in lo + 1 .. hi : pp'[i] = pp[i]
    <3>1. \A i \in lo + 1 .. hi : i \in 1 .. hi
      BY <1>3
    <3> QED
      BY <1>9, <3>1
  <2>3. m.held = Append(Me.held, h) /\ pp'[hi + 1] = h.id
        /\ \A j \in DOMAIN Me.held : Me.held[j].id # h.id
    BY <1>4, <1>8, <1>9, <1>11 DEF held
  <2> QED
    BY <1>1, <1>2, <1>3, <1>6, <2>1, <2>2, <2>3, StackPushed
<1>15. Own(m, pp', Len(Me.entry), Len(pp'), frames', Me.level, Len(frames'))
  <2>1. m.kind = "user"
    BY <1>1, <1>8 DEF Same
  <2> QED
    BY <1>1, <1>9, <1>12, <1>13, <1>14, <2>1 DEF Own, lo, flo, fhi
<1>16. \A x \in Names(m) : x \in Names(Me)
  <2>1. \A j \in DOMAIN held : held[j].id \in Names(Me)
    <3> TAKE j \in DOMAIN held
    <3>1. CASE held[j] = h
      BY <1>4, <1>11, <3>1
    <3>2. CASE j \in DOMAIN Me.held /\ held[j] = Me.held[j]
      BY <1>5, <3>2 DEF Names, Values, None
    <3> QED
      BY <1>10, <3>1, <3>2
  <2> QED
    BY <1>8, <2>1 DEF Names, none
<1>17. /\ Len(pp') >= lo /\ Len(frames') >= flo
       /\ frames' \in Seq(Frame) /\ Len(frames') <= MAX_NESTING
       /\ \A i \in 1 .. lo : pp'[i] = pp[i]
       /\ \A i \in 1 .. flo : frames'[i] = frames[i]
  <2>1. \A i \in 1 .. lo : i \in 1 .. hi
    BY <1>3
  <2> QED
    BY <1>1, <1>3, <1>9, <2>1 DEF fhi
<1> QED
  BY <1>1, <1>8, <1>9, <1>15, <1>16, <1>17, OwnStep DEF lo, flo

\* Where the elements of a sequence of n are once the j-th is taken out.
Shift(n, j) == [x \in 1 .. n - 1 |-> IF x < j THEN x ELSE x + 1]

LEMMA ShiftIs ==
    ASSUME NEW n \in Nat, NEW j \in 1..n
    PROVE  /\ \A x \in 1 .. n - 1 : Shift(n, j)[x] \in 1..n /\ Shift(n, j)[x] # j
                                    /\ Shift(n, j)[x] = IF x < j THEN x ELSE x + 1
           /\ \A x, y \in 1 .. n - 1 : x < y <=> Shift(n, j)[x] < Shift(n, j)[y]
           /\ \A l \in 1..n : l # j => \E x \in 1 .. n - 1 : Shift(n, j)[x] = l
<1>1. \A x \in 1 .. n - 1 : Shift(n, j)[x] = IF x < j THEN x ELSE x + 1
  BY DEF Shift
<1>2. ASSUME NEW l \in 1..n, l # j PROVE \E x \in 1 .. n - 1 : Shift(n, j)[x] = l
  <2>1. CASE l < j
    <3>1. l \in 1 .. n - 1
      BY <2>1
    <3> QED
      BY <1>1, <2>1, <3>1
  <2>2. CASE l > j
    <3>1. l - 1 \in 1 .. n - 1 /\ ~(l - 1 < j) /\ (l - 1) + 1 = l
      BY <2>2
    <3> QED
      BY <1>1, <3>1
  <2> QED
    BY <1>2, <2>1, <2>2
<1>3. \A x \in 1 .. n - 1 : x \in Nat /\ x >= 1 /\ x <= n - 1
  OBVIOUS
<1> QED
  BY <1>1, <1>2, <1>3

LEMMA HeldWithout ==
    ASSUME BuilderInv, AtKind("user", "run"), NEW j \in DOMAIN Me.held
    PROVE  LET id == Me.held[j].id
               w == Without(id)
               s == Shift(Len(Me.held), j)
           IN  /\ w \in Seq(Held)
               /\ \A x \in DOMAIN w : /\ s[x] \in DOMAIN Me.held /\ w[x] = Me.held[s[x]]
                                      /\ w[x].id # id
               /\ \A x, y \in DOMAIN w : x < y <=> s[x] < s[y]
               /\ \A l \in DOMAIN Me.held : Me.held[l].id # id => \E x \in DOMAIN w : s[x] = l
<1> DEFINE H == Me.held
           id == H[j].id
           w == Without(id)
           s == Shift(Len(H), j)
           its == {k \in DOMAIN H : H[k].id = id}
           n == Len(H)
<1>1. /\ H \in Seq(Held) /\ n \in Nat /\ DOMAIN H = 1..n /\ j \in 1..n
      /\ \A k, l \in DOMAIN H : H[k].id = H[l].id => k = l
  BY UserRuns
<1>2. its = {j}
  BY <1>1
<1>3. Max(its) = j
  <2>1. {j} \subseteq 0..n /\ {j} # {}
    BY <1>1
  <2>2. Max({j}) \in {j}
    BY <1>1, <2>1, MaxOfSome
  <2> QED
    BY <1>2, <2>2
<1>4. w = RemoveAt(H, j)
  BY <1>2, <1>3 DEF Without
<1> HIDE DEF H, its
<1>5. /\ w \in Seq(Held) /\ Len(w) = n - 1
      /\ \A i \in 1 .. n - 1 : w[i] = H[IF i < j THEN i ELSE i + 1]
  <2>1. /\ RemoveAt(H, j) \in Seq(Held) /\ Len(RemoveAt(H, j)) = n - 1
        /\ \A i \in 1 .. n - 1 : RemoveAt(H, j)[i] = H[IF i < j THEN i ELSE i + 1]
    BY <1>1, RemovedIs
  <2> QED
    BY <1>4, <2>1
<1> HIDE DEF w, n
<1>6. DOMAIN w = 1 .. n - 1
  BY <1>5, LenProperties
<1>7. /\ \A x \in 1 .. n - 1 : s[x] \in 1..n /\ s[x] # j /\ s[x] = IF x < j THEN x ELSE x + 1
      /\ \A x, y \in 1 .. n - 1 : x < y <=> s[x] < s[y]
      /\ \A l \in 1..n : l # j => \E x \in 1 .. n - 1 : s[x] = l
  BY <1>1, ShiftIs DEF n
<1> HIDE DEF s
<1>8. \A x \in DOMAIN w : s[x] \in DOMAIN H /\ w[x] = H[s[x]] /\ w[x].id # id
  <2> TAKE x \in DOMAIN w
  <2>1. x \in 1 .. n - 1
    BY <1>6
  <2>2. s[x] \in DOMAIN H /\ s[x] # j /\ w[x] = H[s[x]]
    BY <1>1, <1>5, <1>7, <2>1
  <2> QED
    BY <1>1, <2>2
<1>9. \A x, y \in DOMAIN w : x < y <=> s[x] < s[y]
  BY <1>6, <1>7
<1>10. \A l \in DOMAIN H : H[l].id # id => \E x \in DOMAIN w : s[x] = l
  BY <1>1, <1>6, <1>7
<1> QED
  BY <1>5, <1>8, <1>9, <1>10 DEF w, s, H

\* What is open and was protected last is on top of R's stack.
LEMMA OnTop ==
    ASSUME BuilderInv, AtKind("user", "run"), NEW j \in DOMAIN Me.held,
           Open(Me.held[j], frames, Me.level, Len(frames)), Newest(Me.held[j].id)
    PROVE  /\ Len(pp) > Len(Me.entry)
           /\ \A i \in Len(Me.entry) + 1 .. Len(pp) :
                 i <= Len(pp) - 1 <=> pp[i] # Me.held[j].id
<1> DEFINE H == Me.held
           id == H[j].id
           lo == Len(Me.entry)
           hi == Len(pp)
           flo == Me.level
           fhi == Len(frames)
<1>1. /\ DOMAIN H = 1 .. Len(H) /\ Len(H) \in Nat /\ Len(calls) > 0 /\ Me.kind = "user"
      /\ \A k, l \in DOMAIN H : H[k].id = H[l].id => k = l
  BY UserRuns
<1>2. /\ hi \in Nat /\ fhi \in Nat /\ lo \in Nat /\ flo \in Nat /\ lo <= hi /\ flo <= fhi
  BY <1>1, StackTypes, MyStacks
<1>3. /\ UserFrames(Me, frames, flo, fhi) /\ UserStack(Me, pp, lo, hi, frames, flo, fhi)
  BY <1>1, MyUser
<1> HIDE DEF lo, hi, flo, fhi
<1>4. Open(H[j], frames, flo, fhi)
  BY DEF flo, fhi
<1>5. PICK t \in lo + 1 .. hi : pp[t] = id
  BY <1>3, <1>4 DEF UserStack
<1>6. hi > lo /\ hi \in lo + 1 .. hi /\ hi \in Nat
  BY <1>2, <1>5
<1>7. PICK l \in DOMAIN H : H[l].id = pp[hi] /\ Open(H[l], frames, flo, fhi)
  BY <1>3, <1>6 DEF UserStack
<1>8. \A i, k \in lo + 1 .. hi : \A x, y \in DOMAIN H :
         pp[i] = H[x].id /\ pp[k] = H[y].id => (i < k <=> x < y)
  BY <1>3 DEF UserStack
<1>9. ~(j < l)
  <2> SUFFICES ASSUME j < l PROVE FALSE
    OBVIOUS
  <2>1. j \in 1 .. l - 1 /\ H[j].id = id
    BY <1>1
  <2>2. H[l].builder /\ ~FrameIsActive(H[l].id)
    BY <2>1 DEF Newest
  <2>3. PICK i \in flo + 1 .. fhi : frames[i].id = H[l].id
    BY <1>7, <2>2 DEF Open, Framed
  <2>4. frames[i].kind = "result"
    BY <1>3 DEF UserFrames
  <2>5. i \in 1 .. Len(frames)
    BY <1>2 DEF fhi
  <2>6. ~Missing(H[l].id, "result")
    BY <2>3, <2>4, <2>5 DEF Missing
  <2> QED
    BY <2>2, <2>6, ActiveIs
<1>10. t = hi
  <2>1. t < hi <=> j < l
    BY <1>5, <1>6, <1>7, <1>8
  <2>2. ~(t < hi)
    BY <1>9, <2>1
  <2> QED
    BY <1>2, <2>2
<1>11. \A i \in lo + 1 .. hi : i < hi => pp[i] # id
  <2> TAKE i \in lo + 1 .. hi
  <2>1. pp[i] = H[j].id /\ pp[hi] = H[j].id => (i < hi <=> j < j)
    BY <1>6, <1>8
  <2>2. ~(j < j)
    BY <1>1
  <2> QED
    BY <1>5, <1>10, <2>1, <2>2
<1>12. \A i \in lo + 1 .. hi : i <= hi - 1 <=> pp[i] # id
  <2> TAKE i \in lo + 1 .. hi
  <2>1. i <= hi - 1 <=> i < hi
    BY <1>2
  <2>2. ~(i < hi) => i = hi
    BY <1>2
  <2> QED
    BY <1>5, <1>10, <1>11, <2>1, <2>2
<1> QED
  BY <1>6, <1>12 DEF lo, hi

\* The running activation's frames in g are those of builders other than id.
FramesOfOthers(g, id) ==
    /\ \A i, k \in Me.level + 1 .. Len(g) : g[i].id = g[k].id => i = k
    /\ \A i \in Me.level + 1 .. Len(g) :
          /\ g[i].kind = "result" /\ g[i].protected /\ g[i].id # id
          /\ \E j \in DOMAIN Me.held : Me.held[j].id = g[i].id /\ Me.held[j].builder

\* Once a function of the package runs, its frames are those of its open builders.
LEMMA RunningFrames ==
    ASSUME BuilderInv, AtKind("user", "run")
    PROVE  /\ \A i, k \in Me.level + 1 .. Len(frames) : frames[i].id = frames[k].id => i = k
           /\ \A i \in Me.level + 1 .. Len(frames) :
                 /\ frames[i].kind = "result" /\ frames[i].protected
                 /\ \E j \in DOMAIN Me.held : Me.held[j].id = frames[i].id /\ Me.held[j].builder
           /\ UserStack(Me, pp, Len(Me.entry), Len(pp), frames, Me.level, Len(frames))
           /\ Len(frames) \in Nat /\ Me.level \in Nat /\ Me.level <= Len(frames)
           /\ Len(pp) \in Nat /\ Len(Me.entry) \in Nat /\ Len(Me.entry) <= Len(pp)
<1>1. Len(calls) > 0 /\ Me.kind = "user" /\ Me.pc = "run"
  BY UserRuns
<1>2. /\ UserFrames(Me, frames, Me.level, Len(frames))
      /\ UserStack(Me, pp, Len(Me.entry), Len(pp), frames, Me.level, Len(frames))
  BY <1>1, MyUser
<1>3. /\ Len(frames) \in Nat /\ Me.level \in Nat /\ Me.level <= Len(frames)
      /\ Len(pp) \in Nat /\ Len(Me.entry) \in Nat /\ Len(Me.entry) <= Len(pp)
  BY <1>1, StackTypes, MyStacks
<1> QED
  BY <1>1, <1>2, <1>3 DEF UserFrames

LEMMA Unframed ==
    ASSUME BuilderInv, AtKind("user", "run"), NEW id \in Names(Me), FrameIsActive(id)
    PROVE  LET g == FramesWithout(id, "result")
           IN  /\ g \in Seq(Frame) /\ Len(g) >= Me.level /\ Len(g) <= MAX_NESTING
               /\ \A i \in 1 .. Me.level : g[i] = frames[i]
               /\ FramesOfOthers(g, id)
               /\ \A x : Framed(x, g, Me.level, Len(g)) <=>
                            Framed(x, frames, Me.level, Len(frames)) /\ x # id
               /\ Framed(id, frames, Me.level, Len(frames))
<1> DEFINE g == FramesWithout(id, "result")
           flo == Me.level
           fhi == Len(frames)
           ghi == Len(g)
<1>1. Len(calls) > 0 /\ ~Missing(id, "result")
  BY UserRuns, ActiveIs
<1>2. PICK r \in flo + 1 .. fhi :
         /\ TakenOut(g, id, "result", r)
         /\ g \in Seq(Frame) /\ Len(g) = fhi - 1 /\ Len(g) >= flo /\ Len(g) <= MAX_NESTING
         /\ \A i \in 1 .. flo : g[i] = frames[i]
  BY <1>1, TakenIsMine
<1> HIDE DEF g
<1>3. /\ \A i, k \in flo + 1 .. fhi : frames[i].id = frames[k].id => i = k
      /\ \A i \in flo + 1 .. fhi :
            /\ frames[i].kind = "result" /\ frames[i].protected
            /\ \E j \in DOMAIN Me.held : Me.held[j].id = frames[i].id /\ Me.held[j].builder
      /\ fhi \in Nat /\ flo \in Nat /\ flo <= fhi
  BY RunningFrames
<1>4. ghi = fhi - 1 /\ flo <= ghi
  BY <1>2
<1>5. frames[r].id = id /\ \A i \in 1 .. fhi - 1 : g[i] = frames[IF i < r THEN i ELSE i + 1]
  BY <1>2 DEF TakenOut
<1> HIDE DEF flo, fhi, ghi
<1> DEFINE t == [i \in 1 .. fhi - 1 |-> IF i < r THEN i ELSE i + 1]
<1>6. \A i \in flo + 1 .. ghi : /\ t[i] = IF i < r THEN i ELSE i + 1
                                /\ t[i] \in flo + 1 .. fhi /\ t[i] # r /\ g[i] = frames[t[i]]
  <2> TAKE i \in flo + 1 .. ghi
  <2>1. i \in 1 .. fhi - 1 /\ i \in Nat
    BY <1>3, <1>4
  <2>2. t[i] = IF i < r THEN i ELSE i + 1
    BY <2>1
  <2> HIDE DEF t
  <2>3. t[i] \in flo + 1 .. fhi /\ t[i] # r
    BY <1>3, <1>4, <2>1, <2>2
  <2>4. g[i] = frames[t[i]]
    BY <1>5, <2>1, <2>2
  <2> QED
    BY <2>2, <2>3, <2>4
<1>7. \A k \in flo + 1 .. fhi : k # r => \E i \in flo + 1 .. ghi : t[i] = k
  <2> TAKE k \in flo + 1 .. fhi
  <2> HAVE k # r
  <2>1. CASE k < r
    <3>1. k \in flo + 1 .. ghi
      BY <1>3, <1>4, <2>1
    <3> QED
      BY <1>6, <2>1, <3>1
  <2>2. CASE k > r
    <3>1. k - 1 \in flo + 1 .. ghi /\ ~(k - 1 < r) /\ (k - 1) + 1 = k
      BY <1>3, <1>4, <2>2
    <3> QED
      BY <1>6, <3>1
  <2> QED
    BY <1>3, <2>1, <2>2
<1>8. \A i, k \in flo + 1 .. ghi : t[i] = t[k] => i = k
  <2> TAKE i, k \in flo + 1 .. ghi
  <2>1. /\ t[i] = IF i < r THEN i ELSE i + 1
        /\ t[k] = IF k < r THEN k ELSE k + 1
    BY <1>6
  <2>2. i \in Int /\ k \in Int /\ r \in Int
    BY <1>3, <1>4
  <2> HIDE DEF t
  <2> QED
    BY <2>1, <2>2
<1> HIDE DEF t
<1>9. \A i \in flo + 1 .. ghi :
         /\ g[i].kind = "result" /\ g[i].protected /\ g[i].id # id
         /\ \E j \in DOMAIN Me.held : Me.held[j].id = g[i].id /\ Me.held[j].builder
  <2> TAKE i \in flo + 1 .. ghi
  <2>1. t[i] \in flo + 1 .. fhi /\ t[i] # r /\ g[i] = frames[t[i]]
    BY <1>6
  <2>2. frames[t[i]].id # id
    BY <1>3, <1>5, <2>1
  <2> QED
    BY <1>3, <2>1, <2>2
<1>10. \A i, k \in flo + 1 .. ghi : g[i].id = g[k].id => i = k
  <2> TAKE i, k \in flo + 1 .. ghi
  <2>1. g[i] = frames[t[i]] /\ g[k] = frames[t[k]] /\ t[i] \in flo + 1 .. fhi /\ t[k] \in flo + 1 .. fhi
    BY <1>6
  <2>2. g[i].id = g[k].id => t[i] = t[k]
    BY <1>3, <2>1
  <2> QED
    BY <1>8, <2>2
<1>11. FramesOfOthers(g, id)
  BY <1>9, <1>10 DEF FramesOfOthers, flo, ghi
<1>12. ASSUME NEW x
       PROVE  Framed(x, g, flo, ghi) <=> Framed(x, frames, flo, fhi) /\ x # id
  <2>1. ASSUME Framed(x, g, flo, ghi) PROVE Framed(x, frames, flo, fhi) /\ x # id
    <3>1. PICK i \in flo + 1 .. ghi : g[i].id = x
      BY <2>1 DEF Framed
    <3> QED
      BY <1>6, <1>9, <3>1 DEF Framed
  <2>2. ASSUME Framed(x, frames, flo, fhi), x # id PROVE Framed(x, g, flo, ghi)
    <3>1. PICK k \in flo + 1 .. fhi : frames[k].id = x
      BY <2>2 DEF Framed
    <3>2. k # r
      BY <1>5, <2>2, <3>1
    <3>3. PICK i \in flo + 1 .. ghi : t[i] = k
      BY <1>7, <3>2
    <3> QED
      BY <1>6, <3>1, <3>3 DEF Framed
  <2> QED
    BY <2>1, <2>2
<1>13. Framed(id, frames, flo, fhi)
  BY <1>5 DEF Framed
<1> QED
  BY <1>2, <1>11, <1>12, <1>13 DEF g, flo, fhi, ghi

\* Where what Me holds is in m, but for id.
HeldMap(m, id, s) ==
    /\ \A x \in DOMAIN m.held : s[x] \in DOMAIN Me.held /\ m.held[x] = Me.held[s[x]]
    /\ \A x, y \in DOMAIN m.held : x < y <=> s[x] < s[y]
    /\ \A l \in DOMAIN Me.held : Me.held[l].id # id => \E x \in DOMAIN m.held : s[x] = l

LEMMA UserFramesKept ==
    ASSUME NEW m, NEW id, NEW s, HeldMap(m, id, s), m.pc = "run",
           NEW g, FramesOfOthers(g, id)
    PROVE  UserFrames(m, g, Me.level, Len(g))
<1>1. \A i \in Me.level + 1 .. Len(g) :
         \E x \in DOMAIN m.held : m.held[x].id = g[i].id /\ m.held[x].builder
  <2> TAKE i \in Me.level + 1 .. Len(g)
  <2>1. g[i].id # id
    BY DEF FramesOfOthers
  <2>2. PICK j \in DOMAIN Me.held : Me.held[j].id = g[i].id /\ Me.held[j].builder
    BY DEF FramesOfOthers
  <2>3. PICK x \in DOMAIN m.held : s[x] = j
    BY <2>1, <2>2 DEF HeldMap
  <2>4. m.held[x] = Me.held[j]
    BY <2>3 DEF HeldMap
  <2> QED
    BY <2>2, <2>4
<1> QED
  BY <1>1 DEF UserFrames, FramesOfOthers

\* deinit or finish of a builder that is open.
LEMMA DropOpen ==
    ASSUME BuilderInv, AtKind("user", "run"), NEW j \in DOMAIN Me.held, Me.held[j].builder,
           FrameIsActive(Me.held[j].id), Newest(Me.held[j].id),
           NEW m \in Activation, Same(m, Me), m.pc = "run", UserVars(m),
           NEW s, HeldMap(m, Me.held[j].id, s),
           calls' = Now(m), taken' = {}, Names(m) \subseteq Names(Me),
           pp' = Front(pp), frames' = FramesWithout(Me.held[j].id, "result")
    PROVE  BuilderInv'
<1> DEFINE id == Me.held[j].id
           lo == Len(Me.entry)
           hi == Len(pp)
           flo == Me.level
           fhi == Len(frames)
           qhi == Len(pp')
           ghi == Len(frames')
<1>1. /\ Len(calls) > 0 /\ Me.kind = "user" /\ id \in Values
  BY UserRuns
<1>2. id \in Names(Me)
  BY <1>1 DEF Names, Values, None
<1> HIDE DEF id
<1>3. /\ frames' \in Seq(Frame) /\ ghi >= flo /\ ghi <= MAX_NESTING
      /\ \A i \in 1 .. flo : frames'[i] = frames[i]
      /\ FramesOfOthers(frames', id)
      /\ \A x : Framed(x, frames', flo, ghi) <=> Framed(x, frames, flo, fhi) /\ x # id
      /\ Framed(id, frames, flo, fhi)
  BY <1>2, Unframed DEF id
<1>4. /\ hi > lo /\ \A i \in lo + 1 .. hi : i <= hi - 1 <=> pp[i] # id
  <2>1. Open(Me.held[j], frames, flo, fhi)
    BY <1>3 DEF Open, id
  <2> QED
    BY <2>1, OnTop DEF id
<1>5. /\ UserStack(Me, pp, lo, hi, frames, flo, fhi)
      /\ fhi \in Nat /\ flo \in Nat /\ hi \in Nat /\ lo \in Nat
  BY RunningFrames
<1>6. /\ pp' \in Seq(0..MaxValues) /\ qhi = hi - 1 /\ qhi >= lo
      /\ \A i \in 1 .. hi - 1 : pp'[i] = pp[i]
      /\ \A i \in 1 .. lo : pp'[i] = pp[i]
  BY <1>4, <1>5, FrontOfPP
<1>7. UserFrames(m, frames', flo, ghi)
  BY <1>3, UserFramesKept DEF id
<1>8. UserStack(m, pp', lo, qhi, frames', flo, ghi)
  <2>1. /\ \A x \in DOMAIN m.held : s[x] \in DOMAIN Me.held /\ m.held[x] = Me.held[s[x]]
        /\ \A x, y \in DOMAIN m.held : x < y <=> s[x] < s[y]
        /\ \A l \in DOMAIN Me.held : Me.held[l].id # id => \E x \in DOMAIN m.held : s[x] = l
    BY DEF HeldMap, id
  <2> HIDE DEF lo, hi, qhi, flo, fhi, ghi
  <2>2. qhi <= hi /\ qhi \in Nat /\ \A i \in lo + 1 .. qhi : pp'[i] = pp[i]
    <3>1. qhi <= hi /\ qhi \in Nat /\ \A i \in lo + 1 .. qhi : i \in 1 .. hi - 1
      BY <1>5, <1>6
    <3> QED
      BY <1>6, <3>1
  <2>3. \A i \in lo + 1 .. hi : i <= qhi <=> pp[i] # id
    BY <1>4, <1>6
  <2>4. \A x \in DOMAIN m.held :
           /\ Open(m.held[x], frames', flo, ghi) => Open(m.held[x], frames, flo, fhi)
           /\ m.held[x].id # id /\ Open(m.held[x], frames, flo, fhi)
                 => Open(m.held[x], frames', flo, ghi)
           /\ Open(m.held[x], frames', flo, ghi) => m.held[x].id # id
    <3> TAKE x \in DOMAIN m.held
    <3>1. m.held[x].id = id => m.held[x].builder
      <4>1. s[x] \in DOMAIN Me.held /\ m.held[x] = Me.held[s[x]]
        BY <2>1
      <4>2. Me.held[s[x]].id = id => s[x] = j
        BY <4>1, UserRuns DEF id
      <4> QED
        BY <4>1, <4>2
    <3>2. Framed(m.held[x].id, frames', flo, ghi)
             <=> Framed(m.held[x].id, frames, flo, fhi) /\ m.held[x].id # id
      BY <1>3
    <3> QED
      BY <3>1, <3>2 DEF Open
  <2>5. Kept(Me, m, id, s, pp, pp', lo, hi, qhi, frames, frames', flo, fhi, ghi)
    BY <2>1, <2>2, <2>3, <2>4 DEF Kept
  <2> QED
    BY <1>5, <2>2, <2>5, StackKept
<1>9. Own(m, pp', Len(Me.entry), Len(pp'), frames', Me.level, Len(frames'))
  <2>1. m.kind = "user"
    BY <1>1 DEF Same
  <2> QED
    BY <1>7, <1>8, <2>1 DEF Own
<1> QED
  BY <1>1, <1>3, <1>6, <1>9, OwnStep

\* No frame is for a scoped value or for a builder that is no longer active.
LEMMA NotFramed ==
    ASSUME BuilderInv, AtKind("user", "run"), NEW j \in DOMAIN Me.held,
           ~Me.held[j].builder \/ ~FrameIsActive(Me.held[j].id)
    PROVE  /\ FramesOfOthers(frames, Me.held[j].id)
           /\ ~Framed(Me.held[j].id, frames, Me.level, Len(frames))
<1> DEFINE id == Me.held[j].id
<1>1. \A i \in Me.level + 1 .. Len(frames) : frames[i].id # id
  <2> SUFFICES ASSUME NEW i \in Me.level + 1 .. Len(frames), frames[i].id = id PROVE FALSE
    OBVIOUS
  <2>1. PICK l \in DOMAIN Me.held : Me.held[l].id = frames[i].id /\ Me.held[l].builder
    BY RunningFrames
  <2>2. l = j
    BY <2>1, UserRuns
  <2>3. frames[i].kind = "result" /\ i \in 1 .. Len(frames)
    BY RunningFrames
  <2>4. FrameIsActive(id)
    BY <2>3, ActiveIs DEF Missing
  <2> QED
    BY <2>1, <2>2, <2>4
<1>2. FramesOfOthers(frames, id)
  BY <1>1, RunningFrames DEF FramesOfOthers
<1>3. ~Framed(id, frames, Me.level, Len(frames))
  BY <1>1 DEF Framed
<1> QED
  BY <1>2, <1>3

\* deinit of a scoped value.
LEMMA DropScoped ==
    ASSUME BuilderInv, AtKind("user", "run"), NEW j \in DOMAIN Me.held, ~Me.held[j].builder,
           Newest(Me.held[j].id),
           NEW m \in Activation, Same(m, Me), m.pc = "run", UserVars(m),
           NEW s, HeldMap(m, Me.held[j].id, s),
           \A x \in DOMAIN m.held : m.held[x].id # Me.held[j].id,
           calls' = Now(m), taken' = {}, Names(m) \subseteq Names(Me),
           pp' = Front(pp), frames' = frames
    PROVE  BuilderInv'
<1> DEFINE id == Me.held[j].id
           lo == Len(Me.entry)
           hi == Len(pp)
           flo == Me.level
           fhi == Len(frames)
           qhi == Len(pp')
<1>1. /\ Len(calls) > 0 /\ Me.kind = "user"
  BY UserRuns
<1>2. FramesOfOthers(frames, id)
  BY NotFramed
<1>3. /\ hi > lo /\ \A i \in lo + 1 .. hi : i <= hi - 1 <=> pp[i] # id
  <2>1. Open(Me.held[j], frames, flo, fhi)
    BY DEF Open
  <2> QED
    BY <2>1, OnTop
<1>4. /\ UserStack(Me, pp, lo, hi, frames, flo, fhi)
      /\ fhi \in Nat /\ flo \in Nat /\ flo <= fhi /\ hi \in Nat /\ lo \in Nat
  BY RunningFrames
<1>5. /\ pp' \in Seq(0..MaxValues) /\ qhi = hi - 1 /\ qhi >= lo
      /\ \A i \in 1 .. hi - 1 : pp'[i] = pp[i]
      /\ \A i \in 1 .. lo : pp'[i] = pp[i]
  BY <1>3, <1>4, FrontOfPP
<1>6. UserFrames(m, frames, flo, fhi)
  BY <1>2, UserFramesKept
<1>7. UserStack(m, pp', lo, qhi, frames, flo, fhi)
  <2>1. /\ \A x \in DOMAIN m.held : s[x] \in DOMAIN Me.held /\ m.held[x] = Me.held[s[x]]
        /\ \A x, y \in DOMAIN m.held : x < y <=> s[x] < s[y]
        /\ \A l \in DOMAIN Me.held : Me.held[l].id # id => \E x \in DOMAIN m.held : s[x] = l
        /\ \A x \in DOMAIN m.held : m.held[x].id # id
    BY DEF HeldMap
  <2> HIDE DEF lo, hi, qhi, flo, fhi, id
  <2>2. qhi <= hi /\ qhi \in Nat /\ \A i \in lo + 1 .. qhi : pp'[i] = pp[i]
    <3>1. qhi <= hi /\ qhi \in Nat /\ \A i \in lo + 1 .. qhi : i \in 1 .. hi - 1
      BY <1>4, <1>5
    <3> QED
      BY <1>5, <3>1
  <2>3. \A i \in lo + 1 .. hi : i <= qhi <=> pp[i] # id
    BY <1>3, <1>5
  <2>4. Kept(Me, m, id, s, pp, pp', lo, hi, qhi, frames, frames, flo, fhi, fhi)
    BY <2>1, <2>2, <2>3 DEF Kept
  <2> QED
    BY <1>4, <2>2, <2>4, StackKept
<1>8. Own(m, pp', Len(Me.entry), Len(pp'), frames', Me.level, Len(frames'))
  <2>1. m.kind = "user"
    BY <1>1 DEF Same
  <2> QED
    BY <1>6, <1>7, <2>1 DEF Own
<1>9. frames' \in Seq(Frame) /\ Len(frames') <= MAX_NESTING
  BY DEF BuilderInv, TypeOK
<1> QED
  BY <1>1, <1>4, <1>5, <1>8, <1>9, OwnStep

\* deinit of a builder that has been finished through a copy.
LEMMA DropIdle ==
    ASSUME BuilderInv, AtKind("user", "run"), NEW j \in DOMAIN Me.held, Me.held[j].builder,
           ~FrameIsActive(Me.held[j].id),
           NEW m \in Activation, Same(m, Me), m.pc = "run", UserVars(m),
           NEW s, HeldMap(m, Me.held[j].id, s),
           \A x \in DOMAIN m.held : m.held[x].id # Me.held[j].id,
           calls' = Now(m), taken' = {}, Names(m) \subseteq Names(Me),
           pp' = pp, frames' = frames
    PROVE  BuilderInv'
<1> DEFINE id == Me.held[j].id
           lo == Len(Me.entry)
           hi == Len(pp)
           flo == Me.level
           fhi == Len(frames)
<1>1. /\ Len(calls) > 0 /\ Me.kind = "user"
  BY UserRuns
<1>2. FramesOfOthers(frames, id) /\ ~Framed(id, frames, flo, fhi)
  BY NotFramed
<1>3. /\ UserStack(Me, pp, lo, hi, frames, flo, fhi) /\ hi \in Nat /\ lo \in Nat
  BY RunningFrames
<1>4. \A i \in lo + 1 .. hi : pp[i] # id
  <2> SUFFICES ASSUME NEW i \in lo + 1 .. hi, pp[i] = id PROVE FALSE
    OBVIOUS
  <2>1. PICK l \in DOMAIN Me.held : Me.held[l].id = pp[i] /\ Open(Me.held[l], frames, flo, fhi)
    BY <1>3 DEF UserStack
  <2>2. l = j
    BY <2>1, UserRuns
  <2> QED
    BY <1>2, <2>1, <2>2 DEF Open
<1>5. UserFrames(m, frames, flo, fhi)
  BY <1>2, UserFramesKept
<1>6. UserStack(m, pp, lo, hi, frames, flo, fhi)
  <2>1. /\ \A x \in DOMAIN m.held : s[x] \in DOMAIN Me.held /\ m.held[x] = Me.held[s[x]]
        /\ \A x, y \in DOMAIN m.held : x < y <=> s[x] < s[y]
        /\ \A l \in DOMAIN Me.held : Me.held[l].id # id => \E x \in DOMAIN m.held : s[x] = l
        /\ \A x \in DOMAIN m.held : m.held[x].id # id
    BY DEF HeldMap
  <2> HIDE DEF lo, hi, flo, fhi, id
  <2>2. \A i \in lo + 1 .. hi : i <= hi <=> pp[i] # id
    BY <1>3, <1>4
  <2>3. hi <= hi
    BY <1>3
  <2>4. Kept(Me, m, id, s, pp, pp, lo, hi, hi, frames, frames, flo, fhi, fhi)
    BY <2>1, <2>2, <2>3 DEF Kept
  <2> QED
    BY <1>3, <2>4, StackKept
<1>7. Own(m, pp, Len(Me.entry), Len(pp), frames, Me.level, Len(frames))
  <2>1. m.kind = "user"
    BY <1>1 DEF Same
  <2> QED
    BY <1>5, <1>6, <2>1 DEF Own
<1>8. \A x \in Names(m) : x \in Names(Me) \/ x \notin Named
  OBVIOUS
<1> QED
  BY <1>1, <1>7, <1>8, QuietStep

LEMMA UserDropCopyStep == ASSUME BuilderInv, UserDropCopy PROVE BuilderInv'
<1>1. PICK id \in Me.copies :
         /\ FrameIsActive(id) => Newest(id)
         /\ pp' = AfterDeinit(id).pp /\ frames' = AfterDeinit(id).frames
         /\ calls' = Now([Me EXCEPT !.copies = @ \ {id}])
  BY DEF UserDropCopy
<1> DEFINE c == Me.copies \ {id}
           m == [Me EXCEPT !.copies = c]
<1>2. /\ AtKind("user", "run") /\ taken' = {}
  BY DEF UserDropCopy, BuilderInv
<1>3. /\ Len(calls) > 0 /\ Me.pc = "run" /\ Me.kind = "user" /\ Me \in Activation
  BY <1>2, UserRuns
<1>4. calls' = Now(m)
  BY <1>1
<1>5. c \in SUBSET Values /\ id \in Values
  BY <1>3 DEF Activation
<1> HIDE DEF c
<1>6. /\ m \in Activation /\ Same(m, Me) /\ m.pc = "run" /\ m.hand = Me.hand
      /\ m.vec = Me.vec /\ m.names = Me.names /\ m.held = Me.held /\ m.copies = c
  BY <1>3, <1>5 DEF Activation, Same
<1> HIDE DEF m
<1>7. UserVars(m)
  BY <1>3, <1>6, MyUser DEF UserVars
<1>8. Names(m) \subseteq Names(Me)
  BY <1>6 DEF Names, c
<1>9. CASE FrameIsActive(id)
  <2>1. Newest(id) /\ pp' = Front(pp) /\ frames' = FramesWithout(id, "result")
    BY <1>1, <1>9 DEF AfterDeinit
  <2>2. id \in Names(Me)
    BY <1>1, <1>5 DEF Names, Values, None
  <2>3. Framed(id, frames, Me.level, Len(frames))
    BY <1>2, <1>9, <2>2, Unframed
  <2>4. PICK i \in Me.level + 1 .. Len(frames) : frames[i].id = id
    BY <2>3 DEF Framed
  <2>5. PICK j \in DOMAIN Me.held : Me.held[j].id = id /\ Me.held[j].builder
    BY <1>2, <2>4, RunningFrames
  <2> DEFINE s == [x \in DOMAIN Me.held |-> x]
  <2>6. \A x \in DOMAIN Me.held : s[x] = x
    OBVIOUS
  <2> HIDE DEF s
  <2>7. HeldMap(m, id, s)
    BY <1>6, <2>6 DEF HeldMap
  <2> QED
    BY <1>2, <1>4, <1>6, <1>7, <1>8, <1>9, <2>1, <2>5, <2>7, DropOpen
<1>10. CASE ~FrameIsActive(id)
  <2>1. pp' = pp /\ frames' = frames
    BY <1>1, <1>10 DEF AfterDeinit
  <2>2. Own(m, pp, Len(Me.entry), Len(pp), frames, Me.level, Len(frames))
    BY <1>3, <1>6, <1>7, QuietUser
  <2>3. \A x \in Names(m) : x \in Names(Me) \/ x \notin Named
    BY <1>8
  <2> QED
    BY <1>2, <1>3, <1>4, <1>6, <2>1, <2>2, <2>3, QuietStep
<1> QED
  BY <1>9, <1>10

\* The running activation without held[j], and perhaps with its vector in hand.
LEMMA HeldDropped ==
    ASSUME BuilderInv, AtKind("user", "run"), NEW j \in DOMAIN Me.held,
           NEW hand \in {Me.hand, Me.held[j].id}
    PROVE  LET id == Me.held[j].id
               m == [Me EXCEPT !.hand = hand, !.held = Without(id)]
           IN  /\ m \in Activation /\ Same(m, Me) /\ m.pc = "run" /\ UserVars(m)
               /\ HeldMap(m, id, Shift(Len(Me.held), j))
               /\ \A x \in DOMAIN m.held : m.held[x].id # id
               /\ Names(m) \subseteq Names(Me)
<1> DEFINE id == Me.held[j].id
           w == Without(id)
           s == Shift(Len(Me.held), j)
           m == [Me EXCEPT !.hand = hand, !.held = w]
<1>1. /\ w \in Seq(Held)
      /\ \A x \in DOMAIN w : s[x] \in DOMAIN Me.held /\ w[x] = Me.held[s[x]] /\ w[x].id # id
      /\ \A x, y \in DOMAIN w : x < y <=> s[x] < s[y]
      /\ \A l \in DOMAIN Me.held : Me.held[l].id # id => \E x \in DOMAIN w : s[x] = l
  BY HeldWithout
<1>2. /\ Me.pc = "run" /\ Me.kind = "user" /\ Me \in Activation
      /\ Me.names = None /\ Me.vec = None
      /\ \A k, l \in DOMAIN Me.held : Me.held[k].id = Me.held[l].id => k = l
      /\ \A k \in DOMAIN Me.held : Me.held[k].id # Me.hand /\ Me.held[k].id \in Values
  BY UserRuns
<1>3. hand \in 0..MaxValues
  BY <1>2 DEF Activation, Values
<1> HIDE DEF w, s
<1>4. /\ m \in Activation /\ Same(m, Me) /\ m.pc = "run" /\ m.hand = hand
      /\ m.vec = Me.vec /\ m.names = Me.names /\ m.held = w /\ m.copies = Me.copies
  BY <1>1, <1>2, <1>3 DEF Activation, Same
<1> HIDE DEF m
<1>5. HeldMap(m, id, s)
  BY <1>1, <1>4 DEF HeldMap
<1>6. \A x, y \in DOMAIN w : w[x].id = w[y].id => x = y
  <2> TAKE x, y \in DOMAIN w
  <2> HAVE w[x].id = w[y].id
  <2>1. s[x] = s[y]
    BY <1>1, <1>2
  <2>2. ~(s[x] < s[y]) /\ ~(s[y] < s[x])
    <3>1. s[x] \in 1 .. Len(Me.held) /\ s[y] \in 1 .. Len(Me.held) /\ Len(Me.held) \in Nat
      BY <1>1, UserRuns
    <3> QED
      BY <2>1, <3>1
  <2>3. ~(x < y) /\ ~(y < x)
    BY <1>1, <2>2
  <2>4. x \in Nat /\ y \in Nat
    <3>1. DOMAIN w = 1 .. Len(w) /\ Len(w) \in Nat
      BY <1>1, LenProperties
    <3> QED
      BY <3>1
  <2> QED
    BY <2>3, <2>4
<1>7. \A x \in DOMAIN w : w[x].id # hand /\ w[x].id # None
  <2> TAKE x \in DOMAIN w
  <2>1. w[x].id # id /\ w[x].id # Me.hand /\ w[x].id \in Values
    BY <1>1, <1>2
  <2> QED
    BY <2>1 DEF Values, None
<1>8. UserVars(m)
  BY <1>2, <1>4, <1>6, <1>7 DEF UserVars
<1>9. Names(m) \subseteq Names(Me)
  <2>1. \A x \in DOMAIN m.held : \E l \in DOMAIN Me.held : m.held[x].id = Me.held[l].id
    BY <1>1, <1>4
  <2>2. m.hand = Me.hand \/ m.hand \in {Me.held[l].id : l \in DOMAIN Me.held}
    BY <1>4
  <2> QED
    BY <1>4, <2>1, <2>2 DEF Names
<1> QED
  BY <1>1, <1>4, <1>5, <1>8, <1>9 DEF m, w, s

LEMMA UserFinishStep == ASSUME BuilderInv, UserFinish PROVE BuilderInv'
<1>1. PICK h \in Range(Me.held) :
         /\ h.builder /\ FrameIsActive(h.id) /\ Newest(h.id)
         /\ pp' = AfterDeinit(h.id).pp /\ frames' = AfterDeinit(h.id).frames
         /\ calls' = Now([Me EXCEPT !.hand = h.id, !.held = Without(h.id)])
  BY DEF UserFinish
<1>2. AtKind("user", "run") /\ taken' = {}
  BY DEF UserFinish, Ready, BuilderInv
<1>3. PICK j \in DOMAIN Me.held : h = Me.held[j]
  BY DEF Range
<1> DEFINE id == Me.held[j].id
           m == [Me EXCEPT !.hand = id, !.held = Without(id)]
<1>4. /\ m \in Activation /\ Same(m, Me) /\ m.pc = "run" /\ UserVars(m)
      /\ HeldMap(m, id, Shift(Len(Me.held), j))
      /\ Names(m) \subseteq Names(Me)
  BY <1>2, HeldDropped
<1>5. /\ Me.held[j].builder /\ FrameIsActive(id) /\ Newest(id)
      /\ calls' = Now(m) /\ pp' = Front(pp) /\ frames' = FramesWithout(id, "result")
  BY <1>1, <1>3 DEF AfterDeinit
<1> HIDE DEF m
<1> QED
  BY <1>2, <1>4, <1>5, DropOpen

LEMMA UserDropStep == ASSUME BuilderInv, UserDrop PROVE BuilderInv'
<1>1. PICK h \in Range(Me.held) :
         /\ (~h.builder \/ FrameIsActive(h.id)) => Newest(h.id)
         /\ pp' = (IF h.builder THEN AfterDeinit(h.id)
                                ELSE [pp |-> Front(pp), frames |-> frames]).pp
         /\ frames' = (IF h.builder THEN AfterDeinit(h.id)
                                    ELSE [pp |-> Front(pp), frames |-> frames]).frames
         /\ calls' = Now([Me EXCEPT !.held = Without(h.id)])
  BY DEF UserDrop
<1>2. AtKind("user", "run") /\ taken' = {}
  BY DEF UserDrop, BuilderInv
<1>3. PICK j \in DOMAIN Me.held : h = Me.held[j]
  BY DEF Range
<1> DEFINE id == Me.held[j].id
           hand == Me.hand
           m == [Me EXCEPT !.hand = hand, !.held = Without(id)]
<1>4. /\ m \in Activation /\ Same(m, Me) /\ m.pc = "run" /\ UserVars(m)
      /\ HeldMap(m, id, Shift(Len(Me.held), j))
      /\ \A x \in DOMAIN m.held : m.held[x].id # id
      /\ Names(m) \subseteq Names(Me)
  BY <1>2, HeldDropped
<1>5. calls' = Now(m)
  <2>1. Me \in Activation
    BY <1>2, UserRuns
  <2>2. [Me EXCEPT !.held = Without(id)] = m
    BY <2>1 DEF Activation
  <2> QED
    BY <1>1, <1>3, <2>2
<1> HIDE DEF m
<1>6. CASE ~h.builder
  <2>1. ~Me.held[j].builder /\ Newest(id) /\ pp' = Front(pp) /\ frames' = frames
    BY <1>1, <1>3, <1>6
  <2> QED
    BY <1>2, <1>4, <1>5, <2>1, DropScoped
<1>7. CASE h.builder /\ FrameIsActive(h.id)
  <2>1. /\ Me.held[j].builder /\ FrameIsActive(id) /\ Newest(id)
        /\ pp' = Front(pp) /\ frames' = FramesWithout(id, "result")
    BY <1>1, <1>3, <1>7 DEF AfterDeinit
  <2> QED
    BY <1>2, <1>4, <1>5, <2>1, DropOpen
<1>8. CASE h.builder /\ ~FrameIsActive(h.id)
  <2>1. Me.held[j].builder /\ ~FrameIsActive(id) /\ pp' = pp /\ frames' = frames
    BY <1>1, <1>3, <1>8 DEF AfterDeinit
  <2> QED
    BY <1>2, <1>4, <1>5, <2>1, DropIdle
<1> QED
  BY <1>6, <1>7, <1>8

-----------------------------------------------------------------------------
(***************************************************************************)
(* Every step.                                                             *)
(***************************************************************************)
LEMMA BeginVecStep == ASSUME BuilderInv, BeginVec PROVE BuilderInv'
BY BeginConversion, BeginUser

LEMMA FillVecStep == ASSUME BuilderInv, FillVec PROVE BuilderInv'
BY FillConversion, FillUser

LEMMA OverflowStep == ASSUME BuilderInv, Overflow PROVE BuilderInv'
<1>1. Raised /\ (At("vec") \/ At("names") \/ At("access"))
  BY DEF Overflow
<1>2. Len(calls) > 0
  BY <1>1, Running
<1> QED
  BY <1>1, <1>2, RaisedStep

LEMMA RaiseStep == ASSUME BuilderInv, Raise PROVE BuilderInv'
<1>1. Raised /\ \E pc \in PCs : At(pc)
  BY DEF Raise, AtKind, Ready, PCs
<1>2. Len(calls) > 0
  BY <1>1, Running
<1> QED
  BY <1>1, <1>2, RaisedStep

LEMMA StutterStep == ASSUME BuilderInv, UNCHANGED vars PROVE BuilderInv'
<1>1. pp' = pp /\ frames' = frames /\ taken' = taken /\ calls' = calls
  BY DEF vars
<1>2. TypeOK' /\ taken' = {}
  BY <1>1 DEF BuilderInv, TypeOK
<1>3. \A k : /\ Bottom(k)' = Bottom(k) /\ Top(k)' = Top(k)
             /\ FrameBottom(k)' = FrameBottom(k) /\ FrameTop(k)' = FrameTop(k)
  BY <1>1 DEF Bottom, Top, FrameBottom, FrameTop
<1>4. StacksOK'
  BY <1>1, <1>3 DEF BuilderInv, StacksOK
<1>5. \A k \in 1 .. Len(calls') :
         Own(calls'[k], pp', Bottom(k)', Top(k)', frames', FrameBottom(k)', FrameTop(k)')
  BY <1>1, <1>3 DEF BuilderInv
<1> QED
  BY <1>1, <1>2, <1>4, <1>5 DEF BuilderInv

LEMMA NextBuilder == BuilderInv /\ [Next]_vars => BuilderInv'
<1> SUFFICES ASSUME BuilderInv, [Next]_vars PROVE BuilderInv'
  OBVIOUS
<1>1. CASE Enter
  BY <1>1, EnterStep
<1>2. CASE BeginVec \/ FillVec \/ BeginNames \/ FillNames
  BY <1>2, BeginVecStep, FillVecStep, BeginNamesStep, FillNamesStep
<1>3. CASE ConvertField \/ SetField \/ SetName \/ SetNames \/ DropNames
  BY <1>3, ConvertFieldStep, SetFieldStep, SetNameStep, SetNamesStep, DropNamesStep
<1>4. CASE SetStrings \/ OpenAccess \/ ReadChunk \/ Finish \/ Close \/ Leave
  BY <1>4, SetStringsStep, OpenAccessStep, ReadChunkStep, FinishStep, CloseStep, LeaveStep
<1>5. CASE UserBegin \/ UserCall \/ UserAllocate \/ UserKeep \/ UserStore
  BY <1>5, UserBeginStep, UserCallStep, UserAllocateStep, UserKeepStep, UserStoreStep
<1>6. CASE UserCopy \/ UserDropCopy \/ UserFinish \/ UserDrop \/ UserReturn
  BY <1>6, UserCopyStep, UserDropCopyStep, UserFinishStep, UserDropStep, UserReturnStep
<1>7. CASE Overflow \/ Raise
  BY <1>7, OverflowStep, RaiseStep
<1>8. CASE UNCHANGED vars
  BY <1>8, StutterStep
<1> QED
  BY <1>1, <1>2, <1>3, <1>4, <1>5, <1>6, <1>7, <1>8 DEF Next

-----------------------------------------------------------------------------
(***************************************************************************)
(* The theorems.                                                           *)
(***************************************************************************)
\* Both stacks are divided among the running activations, and each finds there
\* exactly what its program counter says it has open, after every conversion,
\* finish, deinit and caught error.
THEOREM BuilderAlways == Spec => []BuilderInv
<1>1. Init => BuilderInv
  BY InitBuilder
<1>2. BuilderInv /\ [Next]_vars => BuilderInv'
  BY NextBuilder
<1> QED
  BY <1>1, <1>2, PTL DEF Spec

\* A builder that can still be filled has its vector on R's PROTECT stack
\* (ResultGuard, convert.zig:26 and :54), whoever else finishes, fails or is caught.
THEOREM BuildersAreRootedAlways == Spec => []BuildersAreRooted
<1>1. BuilderInv => BuildersAreRooted
  <2> SUFFICES ASSUME BuilderInv PROVE BuildersAreRooted
    OBVIOUS
  <2>1. TypeOK
    BY DEF BuilderInv
  <2>2. \A f \in Range(frames) : f.protected => f.id \in Range(pp)
    <3> TAKE f \in Range(frames)
    <3> HAVE f.protected
    <3>1. PICK i \in 1 .. Len(frames) : frames[i] = f
      BY StackTypes DEF Range
    <3> QED
      BY <3>1, ProtectedIsRooted
  <2> QED
    BY <2>1, <2>2 DEF BuildersAreRooted
<1> QED
  BY <1>1, BuilderAlways, PTL

\* Nothing that Zig code holds in a variable and goes on to use is collected by an
\* allocation in between (fixedSchemaToSexp, RVector.copy, fromStringSlice).
THEOREM NothingInUseCollectedAlways == Spec => []NothingInUseCollected
<1>1. BuilderInv => NothingInUseCollected
  BY DEF BuilderInv, NothingInUseCollected
<1> QED
  BY <1>1, BuilderAlways, PTL

\* The PROTECT stack that an activation found is still below what it added: no
\* deinit, of a copy or of an original, reaches into the caller's part.
THEOREM CallersProtectedAlways == Spec => []CallersProtected
<1>1. BuilderInv => CallersProtected
  <2> SUFFICES ASSUME BuilderInv, NEW a \in Range(calls) PROVE IsPrefix(a.entry, pp)
    BY DEF CallersProtected
  <2>1. PICK k \in 1 .. Len(calls) : calls[k] = a
    BY StackTypes DEF Range
  <2> DEFINE n == Len(a.entry)
             top == SubSeq(pp, 1, n)
  <2>2. a.entry \in Seq(0..MaxValues) /\ n \in Nat
    BY <2>1, StackTypes, ActivationFacts
  <2>3. /\ n <= Len(pp) /\ \A i \in 1..n : pp[i] = a.entry[i]
    <3>1. /\ Bottom(k) <= Top(k) /\ Top(k) <= Len(pp)
          /\ \A i \in 1 .. Bottom(k) : pp[i] = calls[k].entry[i]
      BY TopInStack DEF BuilderInv, StacksOK
    <3>2. Bottom(k) \in Nat /\ Top(k) \in Nat /\ Len(pp) \in Nat /\ Bottom(k) = n
      BY <2>1, StackTypes DEF Bottom
    <3> QED
      BY <2>1, <3>1, <3>2
  <2> HIDE DEF n
  <2>4. top \in Seq(0..MaxValues) /\ Len(top) = n /\ \A i \in 1..n : top[i] = pp[i]
    BY <2>2, <2>3, StackTypes, StartIs
  <2> HIDE DEF top
  <2>5. a.entry = top
    BY <2>2, <2>3, <2>4, SeqEqual DEF n
  <2> QED
    BY <2>3, <2>5 DEF IsPrefix, n, top
<1> QED
  BY <1>1, BuilderAlways, PTL

\* An activation with nothing left open has both stacks as it found them, whatever
\* it called and whatever errors it caught (RVector.copy, tryCatch).
THEOREM ReturnsBalancedAlways == Spec => []ReturnsBalanced
<1>1. BuilderInv => ReturnsBalanced
  <2> SUFFICES ASSUME BuilderInv, At("run"), Me.held = <<>>
               PROVE  pp = Me.entry /\ Len(frames) = Me.level
    BY DEF ReturnsBalanced
  <2>1. Len(calls) > 0 /\ Me.pc = "run" /\ Me \in Activation
    BY Running
  <2>2. /\ Len(pp) \in Nat /\ Len(frames) \in Nat /\ Len(Me.entry) \in Nat /\ Me.level \in Nat
        /\ Len(Me.entry) <= Len(pp) /\ Me.level <= Len(frames)
    BY <2>1, StackTypes, MyStacks
  <2>3. Len(pp) = Len(Me.entry) /\ Len(frames) = Me.level
    <3>1. CASE Me.kind # "user"
      <4>1. ConversionStacks(Me, pp, Len(Me.entry), Len(pp), frames, Me.level, Len(frames))
        BY <2>1, <3>1, MyConversion
      <4>2. /\ RootsVec(Me) = FALSE /\ RootsNames(Me) = FALSE /\ HoldsVec(Me) = FALSE
            /\ HoldsNames(Me) = FALSE /\ HoldsAccess(Me) = FALSE
        BY <2>1 DEF RootsVec, RootsNames, HoldsVec, HoldsNames, HoldsAccess
      <4>3. Len(pp) = Len(Me.entry) + 0 + 0 /\ Len(frames) = Me.level + 0 + 0 + 0
        BY <4>1, <4>2 DEF ConversionStacks, One
      <4> QED
        BY <2>2, <4>3
    <3>2. CASE Me.kind = "user"
      <4>1. DOMAIN Me.held = {}
        BY EmptySeq
      <4>2. Me.level + 1 .. Len(frames) = {}
        BY <2>1, <3>2, <4>1, MyUser DEF UserFrames
      <4>3. Len(Me.entry) + 1 .. Len(pp) = {}
        BY <2>1, <3>2, <4>1, MyUser DEF UserStack
      <4>4. Len(Me.entry) + 1 \notin Len(Me.entry) + 1 .. Len(pp)
        BY <4>3
      <4>5. Me.level + 1 \notin Me.level + 1 .. Len(frames)
        BY <4>2
      <4>6. Len(pp) = Len(Me.entry)
        BY <2>2, <4>4
      <4>7. Len(frames) = Me.level
        BY <2>2, <4>5
      <4> QED
        BY <4>6, <4>7
    <3> QED
      BY <3>1, <3>2
  <2>4. pp \in Seq(0..MaxValues) /\ Me.entry \in Seq(0..MaxValues)
    BY <2>1, StackTypes, ActivationFacts
  <2>5. \A i \in 1 .. Len(pp) : pp[i] = Me.entry[i]
    <3>1. /\ Me = calls[Len(calls)] /\ Len(calls) \in 1 .. Len(calls)
          /\ Bottom(Len(calls)) = Len(Me.entry)
      BY <2>1, MyStacks
    <3>2. \A i \in 1 .. Bottom(Len(calls)) : pp[i] = calls[Len(calls)].entry[i]
      BY <3>1 DEF BuilderInv, StacksOK
    <3> QED
      BY <2>3, <3>1, <3>2
  <2>6. pp = Me.entry
    BY <2>3, <2>4, <2>5, SeqEqual
  <2> QED
    BY <2>3, <2>6
<1> QED
  BY <1>1, BuilderAlways, PTL
=============================================================================
