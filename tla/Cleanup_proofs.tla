---------------------------- MODULE Cleanup_proofs ----------------------------
(***************************************************************************)
(* Proofs about the cleanup stack, for every capacity, every bound and every *)
(* sequence of calls.  The states first, with two inductive invariants:     *)
(*   TypeInv    types, and R's contexts and zigr's boundaries nested alike.  *)
(*   SafetyInv  where each registration's frame is, and who owns it, when a  *)
(*              callee leaves the frames of its caller alone.                *)
(* Then, on top of them, the steps: what is restored when an error has been *)
(* handled and what a normal return leaves alone (Accounts), that the       *)
(* boundary stack is R's stack of boundary contexts, and that Cleanup       *)
(* implements Ownership (Ages).                                             *)
(***************************************************************************)
EXTENDS Cleanup, FiniteSetTheorems, FunctionTheorems, SequenceTheorems,
        WellFoundedInduction, TLAPS

-----------------------------------------------------------------------------
\* Boundaries open while the activation with context c is the innermost one.
Opened(c) == c.opened + (IF c.kind = "boundary" THEN 1 ELSE 0)

\* boundaries holds, in order, what was saved for the boundary contexts of ctx.
Nesting ==
    /\ ctx = <<>> => Len(boundaries) = 0
    /\ ctx # <<>> => ctx[1].opened = 0 /\ Len(boundaries) = Opened(ctx[Len(ctx)])
    /\ \A i \in 1 .. Len(ctx) - 1 : ctx[i + 1].opened = Opened(ctx[i])
    /\ \A i, j \in 1 .. Len(ctx) : i < j => Opened(ctx[i]) <= ctx[j].opened
    /\ \A i \in 1 .. Len(ctx) :
          ctx[i].kind = "boundary" =>
              boundaries[ctx[i].opened + 1] = [frame_count |-> ctx[i].frames,
                                               protect_depth |-> ctx[i].depth]

TypeInv == TypeOK /\ Nesting

\* The frames in use are ordered by age, none from the future.
FramesByAge ==
    /\ \A s \in 0 .. count - 1 : stack[s].generation < next_generation
    /\ \A s, t \in 0 .. count - 1 : s < t => stack[s].generation < stack[t].generation

\* An armed frame guards a resource that is held and knows the frame's slot.
ArmedIsHeld ==
    \A s \in 0 .. count - 1 : stack[s].armed =>
        guards[stack[s].generation].freed = 0 /\ guards[stack[s].generation].slot = s

HeldIsArmed ==
    \A g \in Unfreed :
        /\ guards[g].slot < count
        /\ stack[guards[g].slot].armed
        /\ stack[guards[g].slot].generation = g

FreedOnce == \A g \in Generations : guards[g].freed \in {0, 1}

\* Of n frames in use in s the first f are kept in place by the newest of them.
Floor(s, n, f) == f <= n /\ (f = 0 \/ s[f - 1].armed)

\* The frames that were on the stack when an activation was entered are there
\* still, the newest of them armed.
Floors ==
    /\ \A i \in 1 .. Len(ctx) : Floor(stack, count, ctx[i].frames)
    /\ \A i, j \in 1 .. Len(ctx) : i < j => ctx[i].frames <= ctx[j].frames
    /\ Unwinding => /\ Floor(stack, count, target.frames)
                    /\ \A i \in 1 .. Len(ctx) : ctx[i].frames <= target.frames
    /\ ~Unwinding => Floor(stack, count, count)

\* Recoveries are called by Zig code, and R code owns no native resource.
Recoveries ==
    \A i \in 1 .. Len(ctx) :
        ctx[i].kind = "recovery" => i > 1 /\ ctx[i - 1].kind # "eval"

\* A resource that is held is owned by an activation that is still there, or its
\* frame is about to fire; a frame below an activation is owned below it, and one
\* above a boundary is owned above it.
Homes ==
    \A g \in Unfreed :
        /\ guards[g].home \in 0 .. Len(ctx)
        /\ guards[g].home = 0 => Unwinding /\ guards[g].slot >= target.frames
        /\ guards[g].home # 0 => ctx[guards[g].home].kind # "eval"
        /\ \A i \in 1 .. Len(ctx) :
              /\ guards[g].slot < ctx[i].frames => guards[g].home < i
              /\ guards[g].slot >= ctx[i].frames /\ ctx[i].kind = "boundary" =>
                    guards[g].home = 0 \/ guards[g].home >= i

SafetyInv ==
    /\ TypeInv
    /\ FramesByAge
    /\ ArmedIsHeld
    /\ HeldIsArmed
    /\ FreedOnce
    /\ Floors
    /\ Recoveries
    /\ Homes

-----------------------------------------------------------------------------
\* discardInactiveFrames stops below the newest armed frame, or at the bottom.
LEMMA DiscardProperties ==
    ASSUME NEW s, NEW n \in Nat
    PROVE  /\ Discard(s, n) \in 0..n
           /\ Discard(s, n) = 0 \/ s[Discard(s, n) - 1].armed
           /\ \A i \in Discard(s, n) .. n - 1 : ~s[i].armed
<1> DEFINE T == {m \in 0..n : \A i \in m .. n - 1 : ~s[i].armed}
<1>1. T \subseteq Nat
  OBVIOUS
<1>2. n \in T
  OBVIOUS
<1>3. PICK m \in T : \A y \in T : ~ (<<y, m>> \in OpToRel(<, Nat))
  <2>1. T # {}
    BY <1>2
  <2> QED
    BY <1>1, <2>1, NatLessThanWellFounded, WFMin
<1>4. \A y \in T : ~(y < m)
  BY <1>1, <1>3 DEF OpToRel
<1>5. m = 0 \/ s[m - 1].armed
  <2> SUFFICES ASSUME m # 0, ~s[m - 1].armed PROVE FALSE
    OBVIOUS
  <2>1. m - 1 \in T
    OBVIOUS
  <2> QED
    BY <2>1, <1>4
<1> QED
  BY <1>5 DEF Discard

\* What remains of a sequence without its last element.
LEMMA FrontProperties ==
    ASSUME NEW S, NEW q \in Seq(S), q # <<>>
    PROVE  /\ Front(q) \in Seq(S)
           /\ Len(Front(q)) = Len(q) - 1
           /\ \A i \in 1 .. Len(q) - 1 : Front(q)[i] = q[i]
           /\ Last(q) \in S
           /\ Last(q) = q[Len(q)]
<1>1. Len(q) \in Nat \ {0}
  BY EmptySeq
<1>2. \A i \in 1 .. Len(q) - 1 : q[i] \in S
  BY <1>1, ElementOfSeq
<1>3. Last(q) \in S /\ Last(q) = q[Len(q)]
  BY <1>1, ElementOfSeq DEF Last
<1>4. /\ SubSeq(q, 1, Len(q) - 1) \in Seq(S)
      /\ Len(SubSeq(q, 1, Len(q) - 1)) = Len(q) - 1
      /\ \A i \in 1 .. Len(q) - 1 : SubSeq(q, 1, Len(q) - 1)[i] = q[i]
  <2> DEFINE k == Len(q) - 1
  <2>1. k \in Nat /\ \A i \in 1 .. k : q[i] \in S
    BY <1>1, <1>2
  <2> HIDE DEF k
  <2>2. /\ SubSeq(q, 1, k) \in Seq(S)
        /\ Len(SubSeq(q, 1, k)) = IF 1 <= k THEN k - 1 + 1 ELSE 0
        /\ \A i \in 1 .. k - 1 + 1 : SubSeq(q, 1, k)[i] = q[1 + i - 1]
    BY <2>1, SubSeqProperties
  <2>3. Len(SubSeq(q, 1, k)) = k /\ \A i \in 1 .. k : SubSeq(q, 1, k)[i] = q[i]
    BY <2>1, <2>2
  <2> QED
    BY <2>2, <2>3 DEF k
<1> QED
  BY <1>3, <1>4 DEF Front

\* The fields of a context, and the number of boundaries open above it.
LEMMA OpenedProperties ==
    ASSUME NEW c \in Context
    PROVE  /\ c.kind \in {"boundary", "recovery", "eval"}
           /\ c.cstacktop \in Int /\ c.depth \in Int
           /\ c.frames \in 0..MAX_NESTING
           /\ c.since \in Nat /\ c.opened \in Nat
           /\ Opened(c) \in Nat /\ Opened(c) >= c.opened
  BY DEF Context, Opened

\* What an activation saves on entry, and a boundary with it, is well typed.
LEMMA SavedState ==
    ASSUME TypeOK, NEW kind \in {"boundary", "recovery", "eval"}, NEW top \in Int
    PROVE  /\ [kind |-> kind, cstacktop |-> top, frames |-> count, depth |-> protect_depth,
               since |-> next_generation, opened |-> Len(boundaries)] \in Context
           /\ [frame_count |-> count, protect_depth |-> protect_depth] \in Boundary
  BY LenProperties DEF TypeOK, Context, Boundary

-----------------------------------------------------------------------------
(* Type correctness. *)

\* Entering an activation keeps contexts and boundaries nested alike.
LEMMA EnterNests ==
    ASSUME TypeInv,
           NEW kind \in {"boundary", "recovery", "eval"}, NEW top \in Int,
           EnterContext(kind, top),
           boundaries' = IF kind = "boundary"
                         THEN Append(boundaries, [frame_count |-> count,
                                                  protect_depth |-> protect_depth])
                         ELSE boundaries
    PROVE  /\ ctx' \in Seq(Context)
           /\ boundaries' \in Seq(Boundary)
           /\ Nesting'
<1> DEFINE new == [kind |-> kind, cstacktop |-> top, frames |-> count,
                   depth |-> protect_depth, since |-> next_generation,
                   opened |-> Len(boundaries)]
           saved == [frame_count |-> count, protect_depth |-> protect_depth]
<1>0. \A i, j \in 1 .. Len(ctx) : i < j => Opened(ctx[i]) <= ctx[j].opened
  BY DEF TypeInv, Nesting
<1>1. ctx \in Seq(Context) /\ boundaries \in Seq(Boundary)
  BY DEF TypeInv, TypeOK
<1>2. new \in Context /\ saved \in Boundary
  BY SavedState DEF TypeInv
<1>3. /\ new.kind = kind /\ new.opened = Len(boundaries)
      /\ new.frames = count /\ new.depth = protect_depth
  OBVIOUS
<1>4. ctx' = Append(ctx, new)
  BY DEF EnterContext
<1>5. boundaries' = IF kind = "boundary" THEN Append(boundaries, saved) ELSE boundaries
  OBVIOUS
<1> HIDE DEF new, saved
<1>6. /\ ctx' \in Seq(Context) /\ ctx' # <<>> /\ Len(ctx) \in Nat
      /\ Len(ctx') = Len(ctx) + 1
      /\ \A i \in 1 .. Len(ctx) : ctx'[i] = ctx[i] /\ ctx[i] \in Context
      /\ ctx'[Len(ctx) + 1] = new
  BY <1>1, <1>2, <1>4, AppendProperties, LenProperties, ElementOfSeq
<1>7. /\ boundaries' \in Seq(Boundary) /\ Len(boundaries) \in Nat
      /\ Len(boundaries') = Len(boundaries) + (IF kind = "boundary" THEN 1 ELSE 0)
      /\ \A i \in 1 .. Len(boundaries) : boundaries'[i] = boundaries[i]
      /\ kind = "boundary" => boundaries'[Len(boundaries) + 1] = saved
  BY <1>1, <1>2, <1>5, AppendProperties, LenProperties
<1>8. ctx = <<>> <=> Len(ctx) = 0
  BY <1>1, EmptySeq
<1>9. \A i \in 1 .. Len(ctx) : Opened(ctx[i]) \in Nat /\ Opened(ctx'[i]) = Opened(ctx[i])
                              /\ Opened(ctx[i]) >= ctx[i].opened /\ ctx[i].opened \in Nat
  BY <1>6, OpenedProperties
<1>10. Opened(ctx'[Len(ctx) + 1]) = Len(boundaries')
  BY <1>3, <1>6, <1>7 DEF Opened
<1>11. \A i \in 1 .. Len(ctx) : Opened(ctx[i]) <= Len(boundaries)
  <2> TAKE i \in 1 .. Len(ctx)
  <2>1. Len(ctx) \in 1 .. Len(ctx) /\ Len(boundaries) = Opened(ctx[Len(ctx)])
    BY <1>6, <1>8 DEF TypeInv, Nesting
  <2>2. CASE i = Len(ctx)
    BY <2>1, <2>2, <1>9
  <2>3. CASE i # Len(ctx)
    <3>1. Opened(ctx[i]) <= ctx[Len(ctx)].opened
      BY <2>1, <2>3, <1>6 DEF TypeInv, Nesting
    <3> QED
      BY <2>1, <3>1, <1>9
  <2> QED
    BY <2>2, <2>3
<1>12. (ctx[1].opened = 0 /\ Len(boundaries) = Opened(ctx[Len(ctx)]))'
  BY <1>3, <1>6, <1>8, <1>10 DEF TypeInv, Nesting
<1>13. \A i \in 1 .. Len(ctx) : ctx'[i + 1].opened = Opened(ctx[i])
  <2> TAKE i \in 1 .. Len(ctx)
  <2>1. CASE i = Len(ctx)
    BY <2>1, <1>3, <1>6, <1>8 DEF TypeInv, Nesting
  <2>2. CASE i # Len(ctx)
    <3>1. i \in 1 .. Len(ctx) - 1 /\ i + 1 \in 1 .. Len(ctx)
      BY <2>2, <1>6
    <3> QED
      BY <3>1, <1>6 DEF TypeInv, Nesting
  <2> QED
    BY <2>1, <2>2
<1>14. \A i, j \in 1 .. Len(ctx) + 1 : i < j => Opened(ctx'[i]) <= ctx'[j].opened
  <2> TAKE i, j \in 1 .. Len(ctx) + 1
  <2> HAVE i < j
  <2>1. CASE j = Len(ctx) + 1
    BY <2>1, <1>3, <1>6, <1>9, <1>11
  <2>2. CASE j # Len(ctx) + 1
    <3>0. Len(ctx) \in Nat
      BY <1>6
    <3>1. i \in 1 .. Len(ctx) /\ j \in 1 .. Len(ctx)
      BY <2>2, <3>0
    <3>2. Opened(ctx[i]) <= ctx[j].opened
      BY <3>1, <1>0
    <3> QED
      BY <3>1, <3>2, <1>6, <1>9
  <2> QED
    BY <2>1, <2>2
<1>15. \A i \in 1 .. Len(ctx) + 1 :
          ctx'[i].kind = "boundary" =>
              boundaries'[ctx'[i].opened + 1] = [frame_count |-> ctx'[i].frames,
                                                 protect_depth |-> ctx'[i].depth]
  <2> TAKE i \in 1 .. Len(ctx) + 1
  <2> HAVE ctx'[i].kind = "boundary"
  <2>1. CASE i = Len(ctx) + 1
    BY <2>1, <1>3, <1>6, <1>7 DEF saved
  <2>2. CASE i # Len(ctx) + 1
    <3>1. i \in 1 .. Len(ctx) /\ ctx'[i] = ctx[i]
      BY <2>2, <1>6
    <3>2. ctx[i].opened + 1 \in 1 .. Len(boundaries)
      BY <3>1, <1>7, <1>9, <1>11 DEF Opened
    <3> QED
      BY <3>1, <3>2, <1>7 DEF TypeInv, Nesting
  <2> QED
    BY <2>1, <2>2
<1>16. /\ (\A i \in 1 .. Len(ctx) - 1 : ctx[i + 1].opened = Opened(ctx[i]))'
       /\ (\A i, j \in 1 .. Len(ctx) : i < j => Opened(ctx[i]) <= ctx[j].opened)'
  BY <1>6, <1>9, <1>13, <1>14
<1>17. ctx' # <<>> /\ Len(ctx') = Len(ctx) + 1
  BY <1>6
<1> QED
  BY <1>6, <1>7, <1>12, <1>15, <1>16, <1>17 DEF Nesting

\* Leaving one does too, and cleanHandler pops what was saved for that activation.
LEMMA LeaveNests ==
    ASSUME TypeInv, ctx # <<>>,
           ctx' = Front(ctx),
           boundaries' = IF Top.kind = "boundary" THEN Front(boundaries) ELSE boundaries
    PROVE  /\ Top \in Context
           /\ ctx' \in Seq(Context)
           /\ boundaries' \in Seq(Boundary)
           /\ Len(boundaries') <= Len(boundaries)
           /\ Nesting'
           /\ Top.kind = "boundary" =>
                 Last(boundaries) = [frame_count |-> Top.frames, protect_depth |-> Top.depth]
<1> DEFINE n == Len(ctx)
<1>1. ctx \in Seq(Context) /\ boundaries \in Seq(Boundary)
  BY DEF TypeInv, TypeOK
<1>2. /\ n \in Nat /\ n >= 1
      /\ ctx' \in Seq(Context) /\ Len(ctx') = n - 1
      /\ \A i \in 1 .. n - 1 : ctx'[i] = ctx[i]
      /\ Top = ctx[n] /\ Top \in Context
      /\ \A i \in 1 .. n : ctx[i] \in Context
  <2>1. n \in Nat \ {0}
    BY <1>1, EmptySeq
  <2>2. /\ Front(ctx) \in Seq(Context)
        /\ Len(Front(ctx)) = n - 1
        /\ \A i \in 1 .. n - 1 : Front(ctx)[i] = ctx[i]
        /\ Last(ctx) \in Context /\ Last(ctx) = ctx[n]
    BY <1>1, FrontProperties
  <2>3. \A i \in 1 .. n : ctx[i] \in Context
    BY <1>1, ElementOfSeq
  <2> QED
    BY <2>1, <2>2, <2>3 DEF Top
<1>3. \A i \in 1 .. n : /\ Opened(ctx[i]) \in Nat /\ ctx[i].opened \in Nat
                        /\ Opened(ctx[i]) >= ctx[i].opened
  BY <1>2, OpenedProperties
<1>4. /\ Len(boundaries) = Opened(ctx[n])
      /\ ctx[1].opened = 0
      /\ \A i \in 1 .. n - 1 : ctx[i + 1].opened = Opened(ctx[i])
      /\ \A i, j \in 1 .. n : i < j => Opened(ctx[i]) <= ctx[j].opened
      /\ \A i \in 1 .. n :
            ctx[i].kind = "boundary" =>
                boundaries[ctx[i].opened + 1] = [frame_count |-> ctx[i].frames,
                                                 protect_depth |-> ctx[i].depth]
  BY DEF TypeInv, Nesting
<1> HIDE DEF n
<1>5. /\ Top.opened \in Nat /\ Len(boundaries) \in Nat
      /\ Top.kind = "boundary" => boundaries # <<>> /\ Len(boundaries) = Top.opened + 1
      /\ Top.kind # "boundary" => Len(boundaries) = Top.opened
  <2>1. n \in 1 .. n
    BY <1>2
  <2>2. Top.opened \in Nat
    BY <2>1, <1>2, <1>3
  <2>3. Top.kind = "boundary" => Len(boundaries) = Top.opened + 1
    BY <1>2, <1>4 DEF Opened
  <2>4. Top.kind # "boundary" => Len(boundaries) = Top.opened
    BY <2>2, <1>2, <1>4 DEF Opened
  <2>5. Len(boundaries) \in Nat /\ (boundaries = <<>> => Len(boundaries) = 0)
    BY <1>1, LenProperties, EmptySeq
  <2> QED
    BY <2>2, <2>3, <2>4, <2>5
<1>6. /\ boundaries' \in Seq(Boundary)
      /\ Len(boundaries) \in Nat
      /\ Len(boundaries') = Top.opened
      /\ Len(boundaries') <= Len(boundaries)
      /\ \A i \in 1 .. Top.opened : boundaries'[i] = boundaries[i]
  <2>1. CASE Top.kind = "boundary"
    <3>1. /\ Front(boundaries) \in Seq(Boundary)
          /\ Len(Front(boundaries)) = Len(boundaries) - 1
          /\ \A i \in 1 .. Len(boundaries) - 1 : Front(boundaries)[i] = boundaries[i]
      BY <2>1, <1>1, <1>5, FrontProperties
    <3> QED
      BY <2>1, <3>1, <1>5
  <2>2. CASE Top.kind # "boundary"
    BY <2>2, <1>1, <1>5
  <2> QED
    BY <2>1, <2>2
<1>7. Top.kind = "boundary" =>
          Last(boundaries) = [frame_count |-> Top.frames, protect_depth |-> Top.depth]
  <2> HAVE Top.kind = "boundary"
  <2>1. Last(boundaries) = boundaries[Top.opened + 1]
    BY <1>1, <1>5, FrontProperties
  <2>2. n \in 1 .. n
    BY <1>2
  <2> QED
    BY <2>1, <2>2, <1>2, <1>4
<1>8. Nesting'
  <2>1. (ctx = <<>> => Len(boundaries) = 0)'
    <3>1. ctx' = <<>> => n = 1
      BY <1>2, EmptySeq
    <3> QED
      BY <3>1, <1>2, <1>4, <1>6
  <2>2. (ctx # <<>> => ctx[1].opened = 0 /\ Len(boundaries) = Opened(ctx[Len(ctx)]))'
    <3> HAVE ctx' # <<>>
    <3>1. n - 1 \in 1 .. n - 1 /\ 1 \in 1 .. n - 1
      BY <1>2, EmptySeq
    <3>2. ctx[n - 1 + 1].opened = Opened(ctx[n - 1])
      BY <3>1, <1>4
    <3> QED
      BY <3>1, <3>2, <1>2, <1>4, <1>6
  <2>3. (\A i \in 1 .. Len(ctx) - 1 : ctx[i + 1].opened = Opened(ctx[i]))'
    BY <1>2, <1>4
  <2>4. \A i, j \in 1 .. Len(ctx') : i < j => Opened(ctx'[i]) <= ctx'[j].opened
    <3> TAKE i, j \in 1 .. Len(ctx')
    <3>1. i \in 1 .. n /\ j \in 1 .. n /\ ctx'[i] = ctx[i] /\ ctx'[j] = ctx[j]
      BY <1>2
    <3> QED
      BY <3>1, <1>4
  <2>5. \A i \in 1 .. Len(ctx') :
           ctx'[i].kind = "boundary" =>
               boundaries'[ctx'[i].opened + 1] = [frame_count |-> ctx'[i].frames,
                                                  protect_depth |-> ctx'[i].depth]
    <3> TAKE i \in 1 .. Len(ctx')
    <3> HAVE ctx'[i].kind = "boundary"
    <3>1. i \in 1 .. n /\ n \in 1 .. n /\ i < n /\ ctx'[i] = ctx[i]
      BY <1>2
    <3>2. Opened(ctx[i]) <= Top.opened /\ Opened(ctx[i]) = ctx[i].opened + 1
      BY <3>1, <1>2, <1>4 DEF Opened
    <3>3. ctx[i].opened + 1 \in 1 .. Top.opened
      BY <3>1, <3>2, <1>2, <1>3
    <3> QED
      BY <3>1, <3>3, <1>4, <1>6
  <2> QED
    BY <2>1, <2>2, <2>3, <2>4, <2>5 DEF Nesting
<1> QED
  BY <1>2, <1>6, <1>7, <1>8

\* Forgetting the owners of activations that are gone keeps guards well typed.
LEMMA AbandonTyped ==
    ASSUME TypeOK, NEW n \in Int
    PROVE  Abandon(n) \in [Generations -> Guard]
<1>1. 0 \in Slots
  BY CleanupAssumption DEF Slots
<1> QED
  BY <1>1 DEF Abandon, TypeOK, Guard

\* The record of a resource that is given back.
LEMMA FreeTyped ==
    ASSUME TypeOK, NEW g
    PROVE  [guards EXCEPT ![g].freed = @ + 1] \in [Generations -> Guard]
<1> DEFINE new == [guards EXCEPT ![g].freed = @ + 1]
<1>1. ASSUME NEW h \in Generations PROVE new[h] \in Guard
  <2>1. guards[h] \in Guard
    BY DEF TypeOK
  <2>2. [guards[h] EXCEPT !.freed = @ + 1] \in Guard
    BY <2>1 DEF Guard
  <2>3. new[h] = IF h = g THEN [guards[h] EXCEPT !.freed = @ + 1] ELSE guards[h]
    BY DEF TypeOK
  <2> QED
    BY <2>1, <2>2, <2>3
<1>2. new = [h \in Generations |-> new[h]]
  BY DEF TypeOK
<1> HIDE DEF new
<1>3. new \in [Generations -> Guard]
  BY <1>1, <1>2
<1> QED
  BY <1>3 DEF new

\* Steps that touch neither contexts nor boundaries keep them nested alike.
LEMMA NestingUnchanged ==
    ASSUME Nesting, UNCHANGED <<ctx, boundaries>>
    PROVE  Nesting'
  BY DEF Nesting

\* The idle interpreter, with no frame and no boundary, satisfies TypeInv.
THEOREM InitTypeInv == Init => TypeInv
<1> SUFFICES ASSUME Init PROVE TypeInv
  OBVIOUS
<1> USE DEF Init
<1>1. stack \in [Slots -> [armed : BOOLEAN, generation : Nat]]
  OBVIOUS
<1>2. guards \in [Generations -> Guard]
  BY CleanupAssumption DEF Guard, Slots
<1>3. target \in Target
  BY CleanupAssumption DEF Target, NoTarget
<1>4. /\ boundaries \in Seq(Boundary) /\ Len(boundaries) = 0
      /\ ctx \in Seq(Context) /\ Len(ctx) = 0
  BY EmptySeq
<1>5. Nesting
  BY <1>4 DEF Nesting
<1>6. /\ count \in 0..MAX_NESTING /\ next_generation \in 0..MaxGeneration
      /\ Len(boundaries) <= MAX_NESTING
  BY <1>4, CleanupAssumption
<1>7. /\ protect_depth \in Int /\ ppTop \in Int
      /\ mode \in {"run", "jump", "boundary", "rollback"}
  OBVIOUS
<1>8. recovering_condition \in BOOLEAN /\ recovering_condition = (mode = "rollback")
  <2>1. recovering_condition = FALSE /\ mode = "run"
    OBVIOUS
  <2>2. (mode = "rollback") = FALSE
    BY <2>1
  <2> QED
    BY <2>1, <2>2
<1> QED
  BY <1>1, <1>2, <1>3, <1>4, <1>5, <1>6, <1>7, <1>8 DEF TypeInv, TypeOK

\* Every call into cleanup.zig, protect.zig and the recovery APIs, every R error
\* and every iteration of an unwind loop preserves TypeInv.
THEOREM NextTypeInv == TypeInv /\ [Next]_vars => TypeInv'
<1> SUFFICES ASSUME TypeInv, [Next]_vars PROVE TypeInv'
  OBVIOUS
<1> USE CleanupAssumption
<1>0. /\ TypeOK /\ Nesting
      /\ Len(boundaries) \in Nat /\ Len(ctx) \in Nat
  BY LenProperties DEF TypeInv, TypeOK
<1>1. CASE UNCHANGED vars
  BY <1>0, <1>1 DEF TypeInv, TypeOK, Nesting, vars, cleanupVars
<1>2. CASE EnterBoundary
  <2>1. EnterContext("boundary", ppTop + 1) /\ ppTop + 1 \in Int
    BY <1>0, <1>2 DEF EnterBoundary, TypeOK
  <2>2. ctx' \in Seq(Context) /\ boundaries' \in Seq(Boundary) /\ Nesting'
    BY <1>2, <2>1, EnterNests DEF EnterBoundary
  <2>3. Len(boundaries') <= MAX_NESTING
    <3>1. Len(boundaries') = Len(boundaries) + 1
      BY <1>0, <1>2, SavedState, AppendProperties DEF EnterBoundary, TypeOK
    <3> QED
      BY <3>1, <1>0, <1>2 DEF EnterBoundary
  <2> QED
    BY <2>2, <2>3, <1>0, <1>2 DEF EnterBoundary, TypeInv, TypeOK
<1>3. CASE BoundaryOverflow
  BY <1>0, <1>3 DEF BoundaryOverflow, ZigRuns, RRuns, Running, TypeInv, TypeOK, Nesting,
                    cleanupVars
<1>4. CASE EnterRecovery
  <2>1. EnterContext("recovery", ppTop) /\ ppTop \in Int
    BY <1>0, <1>4 DEF EnterRecovery, TypeOK
  <2>2. ctx' \in Seq(Context) /\ Nesting'
    BY <1>4, <2>1, EnterNests DEF EnterRecovery, cleanupVars
  <2> QED
    BY <2>2, <1>0, <1>4 DEF EnterRecovery, cleanupVars, TypeInv, TypeOK
<1>5. CASE EnterEval
  <2>1. EnterContext("eval", ppTop) /\ ppTop \in Int
    BY <1>0, <1>5 DEF EnterEval, TypeOK
  <2>2. ctx' \in Seq(Context) /\ Nesting'
    BY <1>5, <2>1, EnterNests DEF EnterEval, cleanupVars
  <2> QED
    BY <2>2, <1>0, <1>5 DEF EnterEval, cleanupVars, TypeInv, TypeOK
<1>6. CASE ReturnBoundary
  <2>1. ctx # <<>> /\ Top.kind = "boundary" /\ ctx' = Front(ctx)
    BY <1>6 DEF ReturnBoundary, Running, LeaveContext
  <2>2. /\ Top \in Context /\ ctx' \in Seq(Context) /\ boundaries' \in Seq(Boundary)
        /\ Len(boundaries') <= Len(boundaries) /\ Nesting'
        /\ Last(boundaries) = [frame_count |-> Top.frames, protect_depth |-> Top.depth]
    BY <1>6, <2>1, LeaveNests DEF ReturnBoundary
  <2>3. guards' \in [Generations -> Guard]
    BY <1>0, <1>6, AbandonTyped DEF ReturnBoundary, LeaveContext
  <2>4. count' \in 0..MAX_NESTING /\ protect_depth' \in Int /\ ppTop' \in Int
    BY <1>0, <1>6, <2>2, OpenedProperties DEF ReturnBoundary, TypeOK
  <2>5. boundaries' \in Seq(Boundary) => Len(boundaries') \in Nat
    BY LenProperties
  <2> QED
    BY <2>2, <2>3, <2>4, <2>5, <1>0, <1>6 DEF ReturnBoundary, TypeInv, TypeOK
<1>7. ASSUME ReturnRecovery \/ ReturnEval PROVE TypeInv'
  <2>1. ctx # <<>> /\ Top.kind # "boundary" /\ LeaveContext
        /\ UNCHANGED <<cleanupVars, ppTop, mode, target>>
    BY <1>7 DEF ReturnRecovery, ReturnEval, Running
  <2>2. ctx' \in Seq(Context) /\ Nesting'
    BY <2>1, LeaveNests DEF LeaveContext, cleanupVars
  <2>3. guards' \in [Generations -> Guard]
    BY <1>0, <2>1, AbandonTyped DEF LeaveContext
  <2> QED
    BY <2>1, <2>2, <2>3, <1>0 DEF TypeInv, TypeOK, cleanupVars
<1>8. CASE PushOverflow \/ Raise
  BY <1>0, <1>8 DEF PushOverflow, Raise, ZigRuns, Running, TypeInv, TypeOK, Nesting,
                    cleanupVars
<1>9. ASSUME NEW home \in InReach, NEW kind \in Kinds, Push(home, kind) PROVE TypeInv'
  <2>1. home \in Nat /\ kind \in {"native", "result"}
    BY <1>0, <1>9 DEF InReach
  <2>2. count \in Slots /\ next_generation \in Generations
    BY <1>0, <1>9 DEF Push, TypeOK, Slots, Generations
  <2>3. stack' \in [Slots -> [armed : BOOLEAN, generation : Nat]]
    BY <2>2, <1>0, <1>9 DEF Push, TypeOK
  <2>4. [slot |-> count, home |-> home, kind |-> kind, freed |-> 0] \in Guard
    BY <2>1, <2>2 DEF Guard
  <2>5. guards' \in [Generations -> Guard]
    BY <2>2, <2>4, <1>0, <1>9 DEF Push, TypeOK
  <2>6. ppTop' \in Int /\ protect_depth' \in Int
    BY <1>0, <1>9 DEF Push, TypeOK
  <2> QED
    BY <2>3, <2>5, <2>6, <1>0, <1>9, NestingUnchanged DEF Push, TypeInv, TypeOK
<1>10. ASSUME NEW g \in Registered, Release(g) PROVE TypeInv'
  <2>1. g \in Generations
    BY DEF Registered
  <2>2. stack' \in [Slots -> [armed : BOOLEAN, generation : Nat]]
    BY <1>0, <1>10 DEF Release, TypeOK
  <2>3. count' \in 0..MAX_NESTING
    <3>1. count' = Discard([stack EXCEPT ![guards[g].slot].armed = FALSE], count)
      BY <1>10 DEF Release
    <3>2. count' \in 0..count
      BY <3>1, <1>0, DiscardProperties DEF TypeOK
    <3> QED
      BY <3>2, <1>0 DEF TypeOK
  <2>4. guards' \in [Generations -> Guard]
    BY <1>0, <1>10, FreeTyped DEF Release
  <2>5. ppTop' \in Int /\ protect_depth' \in Int
    BY <1>0, <1>10 DEF Release, TypeOK, DepthAfter, TopAfter
  <2> QED
    BY <2>2, <2>3, <2>4, <2>5, <1>0, <1>10, NestingUnchanged DEF Release, TypeInv, TypeOK
<1>11. ASSUME NEW g \in Registered, Pop(g) PROVE TypeInv'
  <2>1. g \in Generations
    BY DEF Registered
  <2>2. count' \in 0..MAX_NESTING
    <3>1. CASE count = 0
      BY <3>1, <1>0, <1>11 DEF Pop, TypeOK
    <3>2. CASE count # 0
      <4>1. count - 1 \in Nat /\ count' = Discard(stack, count - 1)
        BY <3>2, <1>0, <1>11 DEF Pop, TypeOK
      <4>2. count' \in 0 .. count - 1
        BY <4>1, DiscardProperties
      <4> QED
        BY <4>2, <1>0 DEF TypeOK
    <3> QED
      BY <3>1, <3>2
  <2>3. guards' \in [Generations -> Guard]
    BY <1>0, <1>11, FreeTyped DEF Pop
  <2> QED
    BY <2>2, <2>3, <1>0, <1>11, NestingUnchanged DEF Pop, TypeInv, TypeOK
<1>12. CASE Protect \/ Unprotect
  <2>1. /\ ppTop' \in Int /\ protect_depth' \in Int
        /\ UNCHANGED <<stack, count, next_generation, boundaries, recovering_condition,
                       ctx, mode, target, guards>>
    BY <1>0, <1>12 DEF Protect, Unprotect, TypeOK
  <2> QED
    BY <2>1, <1>0, NestingUnchanged DEF TypeInv, TypeOK
<1>13. CASE JumpToTopLevel
  BY <1>0, <1>13 DEF JumpToTopLevel, TypeInv, TypeOK, Nesting, cleanupVars
<1>14. CASE JumpToEval
  <2>1. ctx # <<>> /\ Top.kind = "eval" /\ LeaveContext /\ UNCHANGED <<cleanupVars, target>>
        /\ mode = "jump" /\ mode' = "run"
    BY <1>14 DEF JumpToEval, Jumping
  <2>2. Top \in Context /\ ctx' \in Seq(Context) /\ Nesting'
    BY <2>1, LeaveNests DEF LeaveContext, cleanupVars
  <2>3. guards' \in [Generations -> Guard]
    BY <1>0, <2>1, AbandonTyped DEF LeaveContext
  <2>4. ppTop' \in Int
    BY <1>14, <2>2, OpenedProperties DEF JumpToEval
  <2> QED
    BY <2>1, <2>2, <2>3, <2>4, <1>0 DEF TypeInv, TypeOK, cleanupVars
<1>15. CASE JumpToBoundary
  <2>1. /\ ctx # <<>> /\ Top.kind = "boundary" /\ LeaveContext
        /\ mode = "jump" /\ mode' = "boundary" /\ boundaries' = Front(boundaries)
        /\ UNCHANGED <<stack, count, next_generation, protect_depth, recovering_condition>>
    BY <1>15 DEF JumpToBoundary, Jumping
  <2>2. /\ Top \in Context /\ ctx' \in Seq(Context) /\ boundaries' \in Seq(Boundary)
        /\ Len(boundaries') <= Len(boundaries) /\ Nesting'
        /\ Last(boundaries) = [frame_count |-> Top.frames, protect_depth |-> Top.depth]
    BY <2>1, LeaveNests DEF LeaveContext
  <2>3. guards' \in [Generations -> Guard]
    BY <1>0, <2>1, AbandonTyped DEF LeaveContext
  <2>4. target' \in Target /\ ppTop' \in Int
    BY <1>15, <2>2, OpenedProperties DEF JumpToBoundary, Target
  <2>5. Len(boundaries') <= MAX_NESTING
    BY <2>2, <1>0, LenProperties DEF TypeOK
  <2> QED
    BY <2>1, <2>2, <2>3, <2>4, <2>5, <1>0 DEF TypeInv, TypeOK
<1>16. CASE JumpToRecovery
  <2>1. /\ ctx # <<>> /\ Top.kind = "recovery" /\ LeaveContext
        /\ mode' = "rollback" /\ recovering_condition' = TRUE
        /\ UNCHANGED <<stack, count, next_generation, boundaries, protect_depth>>
    BY <1>16 DEF JumpToRecovery, Jumping
  <2>2. Top \in Context /\ ctx' \in Seq(Context) /\ Nesting'
    BY <2>1, LeaveNests DEF LeaveContext
  <2>3. guards' \in [Generations -> Guard]
    BY <1>0, <2>1, AbandonTyped DEF LeaveContext
  <2>4. target' \in Target /\ ppTop' \in Int
    BY <1>16, <2>2, OpenedProperties DEF JumpToRecovery, Target
  <2> QED
    BY <2>1, <2>2, <2>3, <2>4, <1>0 DEF TypeInv, TypeOK
<1>17. CASE Fire
  <2>1. count > target.frames /\ count' = count - 1 /\ target.frames \in Nat
        /\ UNCHANGED <<stack, next_generation, boundaries, recovering_condition, ctx,
                       mode, target>>
    BY <1>0, <1>17 DEF Fire, TypeOK, Target
  <2>2. count' \in 0..MAX_NESTING
    BY <1>0, <2>1 DEF TypeOK
  <2>3. guards' \in [Generations -> Guard] /\ protect_depth' \in Int /\ ppTop' \in Int
    <3> DEFINE g == stack[count - 1].generation
    <3>1. CASE stack[count - 1].armed
      <4>1. /\ guards' = [guards EXCEPT ![g].freed = @ + 1]
            /\ protect_depth' = DepthAfter(g) /\ ppTop' = TopAfter(g)
        BY <1>17, <3>1 DEF Fire
      <4> HIDE DEF g
      <4>2. guards' \in [Generations -> Guard]
        BY <4>1, <1>0, FreeTyped DEF TypeOK
      <4>3. protect_depth \in Int /\ ppTop \in Int
        BY <1>0 DEF TypeOK
      <4>4. protect_depth' \in Int
        BY <4>1, <4>3 DEF DepthAfter
      <4>5. ppTop' \in Int
        BY <4>1, <4>3 DEF TopAfter
      <4> QED
        BY <4>2, <4>4, <4>5
    <3>2. CASE ~stack[count - 1].armed
      BY <1>0, <1>17, <3>2 DEF Fire, TypeOK
    <3> QED
      BY <3>1, <3>2
  <2> QED
    BY <2>1, <2>2, <2>3, <1>0, NestingUnchanged DEF TypeInv, TypeOK
<1>18. CASE FinishUnwind
  <2>1. target.depth \in Int /\ NoTarget \in Target
    BY <1>0 DEF TypeOK, Target, NoTarget
  <2> QED
    BY <2>1, <1>0, <1>18, NestingUnchanged DEF FinishUnwind, Unwinding, TypeInv, TypeOK
<1> QED
  BY <1>1, <1>2, <1>3, <1>4, <1>5, <1>6, <1>7, <1>8, <1>9, <1>10, <1>11, <1>12, <1>13,
     <1>14, <1>15, <1>16, <1>17, <1>18 DEF Next, Unwind

\* Whatever the callers do, the state of cleanup.zig stays well-typed: within
\* their capacity, the stacks overflow into an R error instead.
THEOREM TypeCorrect == Spec => []TypeOK
<1>1. Spec => []TypeInv
  BY InitTypeInv, NextTypeInv, PTL DEF Spec
<1> QED
  BY <1>1, PTL DEF TypeInv

-----------------------------------------------------------------------------
(* Safety, when a callee leaves the frames of its caller alone. *)

\* The ranges of the counters and of what is stored in the frames in use.
LEMMA Basics ==
    ASSUME TypeOK
    PROVE  /\ count \in Nat /\ count <= MAX_NESTING /\ Len(ctx) \in Nat
           /\ next_generation \in Nat /\ next_generation <= MaxGeneration
           /\ MAX_NESTING \in Nat /\ MaxGeneration \in Nat
           /\ ctx = <<>> <=> Len(ctx) = 0
           /\ ctx # <<>> => Top = ctx[Len(ctx)]
           /\ \A i \in 1 .. Len(ctx) : ctx[i] \in Context /\ ctx[i].frames \in Nat
           /\ \A s \in 0 .. count - 1 : s \in Slots /\ stack[s].generation \in Nat
           /\ \A g \in Generations : /\ g \in Nat /\ guards[g].slot \in Nat
                                     /\ guards[g].home \in Nat /\ guards[g].freed \in Nat
           /\ target.frames \in Nat
           /\ Unfreed \subseteq Generations
<1> USE CleanupAssumption
<1>1. /\ count \in Nat /\ count <= MAX_NESTING
      /\ next_generation \in Nat /\ next_generation <= MaxGeneration
      /\ ctx \in Seq(Context)
  BY DEF TypeOK
<1>2. Len(ctx) \in Nat /\ (ctx = <<>> <=> Len(ctx) = 0)
  BY <1>1, EmptySeq, LenProperties
<1>3. ctx # <<>> => Top = ctx[Len(ctx)]
  BY <1>1, FrontProperties DEF Top
<1>4. \A i \in 1 .. Len(ctx) : ctx[i] \in Context /\ ctx[i].frames \in Nat
  <2> TAKE i \in 1 .. Len(ctx)
  <2>1. ctx[i] \in Context
    BY <1>1, ElementOfSeq
  <2> QED
    BY <2>1, OpenedProperties
<1>5. \A s \in 0 .. count - 1 : s \in Slots /\ stack[s].generation \in Nat
  BY <1>1 DEF TypeOK, Slots
<1>6. \A g \in Generations : /\ g \in Nat /\ guards[g].slot \in Nat
                            /\ guards[g].home \in Nat /\ guards[g].freed \in Nat
  <2> TAKE g \in Generations
  <2>1. guards[g] \in Guard
    BY DEF TypeOK
  <2> QED
    BY <2>1 DEF Guard, Slots, Generations
<1>7. target.frames \in Nat
  BY DEF TypeOK, Target
<1>8. Unfreed \subseteq Generations
  BY DEF Unfreed, Registered
<1> QED
  BY <1>1, <1>2, <1>3, <1>4, <1>5, <1>6, <1>7, <1>8

\* Nothing is given back by entering or leaving an activation.
LEMMA AbandonKeeps ==
    ASSUME TypeOK, NEW n \in Nat, guards' = Abandon(n), NEW g \in Generations
    PROVE  /\ guards'[g].freed = guards[g].freed
           /\ guards[g].freed = 0 =>
                 /\ guards'[g].slot = guards[g].slot
                 /\ guards'[g].home = IF guards[g].home \in 1..n THEN guards[g].home ELSE 0
<1>1. guards[g] \in Guard
  BY DEF TypeOK
<1>2. guards'[g] = IF guards[g].home \in 1..n THEN guards[g]
                   ELSE IF guards[g].freed = 0 THEN [guards[g] EXCEPT !.home = 0]
                   ELSE [slot |-> 0, home |-> 0, kind |-> "native", freed |-> guards[g].freed]
  BY DEF Abandon
<1> QED
  BY <1>1, <1>2 DEF Guard

\* The frame invariants depend on frames and on what has been given back alone.
LEMMA SameFrames ==
    ASSUME SafetyInv, UNCHANGED <<stack, count, next_generation>>,
           \A g \in Generations :
               /\ guards'[g].freed = guards[g].freed
               /\ guards[g].freed = 0 => guards'[g].slot = guards[g].slot
    PROVE  /\ Unfreed' = Unfreed
           /\ FramesByAge' /\ ArmedIsHeld' /\ HeldIsArmed' /\ FreedOnce'
<1>1. TypeOK /\ FramesByAge /\ ArmedIsHeld /\ HeldIsArmed /\ FreedOnce
  BY DEF SafetyInv, TypeInv
<1>2. Unfreed' = Unfreed
  BY DEF Unfreed, Registered
<1>3. FramesByAge'
  BY <1>1 DEF FramesByAge
<1>4. \A s \in 0 .. count - 1 : stack[s].generation \in Generations
  BY <1>1, Basics DEF FramesByAge, Generations
<1>5. ArmedIsHeld'
  BY <1>1, <1>4 DEF ArmedIsHeld
<1>6. HeldIsArmed'
  <2>1. \A g \in Unfreed : guards'[g].slot = guards[g].slot
    BY DEF Unfreed, Registered
  <2> QED
    BY <1>1, <1>2, <2>1 DEF HeldIsArmed
<1>7. FreedOnce'
  BY <1>1 DEF FreedOnce
<1> QED
  BY <1>2, <1>3, <1>5, <1>6, <1>7

\* Steps that leave frames, owners and activations alone.
LEMMA StillSafe ==
    ASSUME SafetyInv, TypeInv', ~Unwinding, ~Unwinding',
           UNCHANGED <<stack, count, next_generation, guards, ctx, target>>
    PROVE  SafetyInv'
<1>1. Unfreed' = Unfreed /\ FramesByAge' /\ ArmedIsHeld' /\ HeldIsArmed' /\ FreedOnce'
  BY SameFrames
<1>2. Floors'
  BY DEF SafetyInv, Floors
<1>3. Recoveries'
  BY DEF SafetyInv, Recoveries
<1>4. Homes'
  BY <1>1 DEF SafetyInv, Homes
<1> QED
  BY <1>1, <1>2, <1>3, <1>4 DEF SafetyInv

\* A new activation starts above all frames in use (protectCall, a recovery API,
\* R code that handles its own errors).
LEMMA EnterSafe ==
    ASSUME SafetyInv, TypeInv', mode = "run",
           NEW kind \in {"boundary", "recovery", "eval"}, NEW top \in Int,
           kind = "recovery" => ZigRuns,
           EnterContext(kind, top),
           UNCHANGED <<stack, count, next_generation, mode, target, guards>>
    PROVE  SafetyInv'
<1> DEFINE new == [kind |-> kind, cstacktop |-> top, frames |-> count,
                   depth |-> protect_depth, since |-> next_generation,
                   opened |-> Len(boundaries)]
           n == Len(ctx)
<1>0. TypeOK /\ Floors /\ Recoveries /\ Homes /\ HeldIsArmed
  BY DEF SafetyInv, TypeInv
<1>1. ctx' = Append(ctx, new) /\ new \in Context /\ ctx \in Seq(Context)
  BY <1>0, SavedState DEF EnterContext, TypeOK
<1>2. new.kind = kind /\ new.frames = count
  OBVIOUS
<1> HIDE DEF new
<1>3. /\ n \in Nat /\ Len(ctx') = n + 1
      /\ \A i \in 1 .. n : ctx'[i] = ctx[i]
      /\ ctx'[n + 1] = new
  BY <1>1, AppendProperties, LenProperties
<1> HIDE DEF n
<1>4. Unfreed' = Unfreed /\ FramesByAge' /\ ArmedIsHeld' /\ HeldIsArmed' /\ FreedOnce'
  BY SameFrames
<1>5. ~Unwinding /\ ~Unwinding'
  BY DEF Unwinding
<1>6. Floors'
  <2>1. Floor(stack, count, count) /\ \A i \in 1 .. n : Floor(stack, count, ctx[i].frames)
    BY <1>0, <1>5 DEF Floors, n
  <2>2. \A i, j \in 1 .. n : i < j => ctx[i].frames <= ctx[j].frames
    BY <1>0 DEF Floors, n
  <2>3. \A i \in 1 .. n + 1 : Floor(stack, count, ctx'[i].frames)
    BY <2>1, <1>2, <1>3
  <2>4. \A i \in 1 .. n : ctx[i].frames <= count
    BY <2>1 DEF Floor
  <2>5. \A i, j \in 1 .. n + 1 : i < j => ctx'[i].frames <= ctx'[j].frames
    <3> TAKE i, j \in 1 .. n + 1
    <3> HAVE i < j
    <3>1. i \in 1 .. n
      BY <1>3
    <3>2. CASE j = n + 1
      BY <3>1, <3>2, <2>4, <1>2, <1>3
    <3>3. CASE j # n + 1
      <4>1. j \in 1 .. n
        BY <3>3, <1>3
      <4> QED
        BY <3>1, <4>1, <2>2, <1>3
    <3> QED
      BY <3>2, <3>3
  <2> QED
    BY <2>1, <2>3, <2>5, <1>3, <1>5 DEF Floors
<1>7. Recoveries'
  <2> SUFFICES ASSUME NEW i \in 1 .. n + 1, ctx'[i].kind = "recovery"
               PROVE  i > 1 /\ ctx'[i - 1].kind # "eval"
    BY <1>3 DEF Recoveries
  <2>1. CASE i = n + 1
    <3>1. ctx # <<>> /\ Top.kind # "eval"
      BY <2>1, <1>2, <1>3 DEF ZigRuns, Running
    <3>2. n >= 1 /\ ctx[n].kind # "eval"
      BY <3>1, <1>0, <1>3, Basics DEF n
    <3>3. n \in 1 .. n /\ i - 1 = n
      BY <3>2, <2>1, <1>3
    <3> QED
      BY <3>2, <3>3, <2>1, <1>3
  <2>2. CASE i # n + 1
    <3>1. i \in 1 .. n
      BY <2>2, <1>3
    <3>2. i > 1 /\ ctx[i - 1].kind # "eval"
      BY <3>1, <1>0, <1>3 DEF Recoveries, n
    <3>3. i - 1 \in 1 .. n
      BY <3>1, <3>2, <1>3
    <3> QED
      BY <3>2, <3>3, <1>3
  <2> QED
    BY <2>1, <2>2
<1>8. Homes'
  <2> SUFFICES ASSUME NEW g \in Unfreed
               PROVE  /\ guards[g].home \in 0 .. n + 1
                      /\ guards[g].home # 0
                      /\ ctx'[guards[g].home].kind # "eval"
                      /\ \A i \in 1 .. n + 1 :
                            /\ guards[g].slot < ctx'[i].frames => guards[g].home < i
                            /\ guards[g].slot >= ctx'[i].frames /\ ctx'[i].kind = "boundary" =>
                                  guards[g].home = 0 \/ guards[g].home >= i
    BY <1>3, <1>4 DEF Homes
  <2>1. /\ guards[g].home \in 0 .. n
        /\ guards[g].home # 0
        /\ ctx[guards[g].home].kind # "eval"
        /\ \A i \in 1 .. n :
              /\ guards[g].slot < ctx[i].frames => guards[g].home < i
              /\ guards[g].slot >= ctx[i].frames /\ ctx[i].kind = "boundary" =>
                    guards[g].home = 0 \/ guards[g].home >= i
    BY <1>0, <1>5 DEF Homes, n
  <2>2. guards[g].slot < count /\ guards[g].slot \in Nat /\ count \in Nat
    BY <1>0, Basics DEF HeldIsArmed
  <2>3. guards[g].home \in 1 .. n /\ ctx'[guards[g].home] = ctx[guards[g].home]
    BY <2>1, <1>3
  <2>4. ASSUME NEW i \in 1 .. n + 1
        PROVE  /\ guards[g].slot < ctx'[i].frames => guards[g].home < i
               /\ guards[g].slot >= ctx'[i].frames /\ ctx'[i].kind = "boundary" =>
                     guards[g].home = 0 \/ guards[g].home >= i
    <3>1. CASE i = n + 1
      BY <3>1, <2>2, <2>3, <1>2, <1>3
    <3>2. CASE i # n + 1
      <4>1. i \in 1 .. n
        BY <3>2, <1>3
      <4> QED
        BY <4>1, <2>1, <1>3
    <3> QED
      BY <3>1, <3>2
  <2> QED
    BY <2>1, <2>3, <2>4, <1>3
<1> QED
  BY <1>4, <1>6, <1>7, <1>8 DEF SafetyInv

\* What an activation's end, normal or by a jump, does to owners and contexts.
LEMMA LeaveEffect ==
    ASSUME SafetyInv, ctx # <<>>, LeaveContext, UNCHANGED <<stack, count, next_generation>>
    PROVE  /\ Len(ctx) \in Nat \ {0} /\ Len(ctx') = Len(ctx) - 1
           /\ \A i \in 1 .. Len(ctx) - 1 : ctx'[i] = ctx[i]
           /\ Top = ctx[Len(ctx)]
           /\ Unfreed' = Unfreed
           /\ FramesByAge' /\ ArmedIsHeld' /\ HeldIsArmed' /\ FreedOnce'
           /\ Recoveries'
           /\ \A g \in Unfreed :
                 /\ guards'[g].slot = guards[g].slot
                 /\ guards'[g].home = IF guards[g].home = Len(ctx) THEN 0 ELSE guards[g].home
<1>0. TypeOK /\ Recoveries /\ Homes
  BY DEF SafetyInv, TypeInv
<1>1. ctx \in Seq(Context) /\ ctx' = Front(ctx) /\ guards' = Abandon(Len(ctx) - 1)
  BY <1>0 DEF LeaveContext, TypeOK
<1>2. /\ Len(ctx') = Len(ctx) - 1
      /\ \A i \in 1 .. Len(ctx) - 1 : ctx'[i] = ctx[i]
  BY <1>1, FrontProperties
<1>3. Len(ctx) \in Nat \ {0} /\ Len(ctx) - 1 \in Nat /\ Top = ctx[Len(ctx)]
  BY <1>0, Basics
<1>4. \A g \in Generations :
          /\ guards'[g].freed = guards[g].freed
          /\ guards[g].freed = 0 =>
                /\ guards'[g].slot = guards[g].slot
                /\ guards'[g].home = IF guards[g].home \in 1 .. Len(ctx) - 1
                                     THEN guards[g].home ELSE 0
  BY <1>0, <1>1, <1>3, AbandonKeeps
<1>5. Unfreed' = Unfreed /\ FramesByAge' /\ ArmedIsHeld' /\ HeldIsArmed' /\ FreedOnce'
  BY <1>4, SameFrames
<1>6. \A g \in Unfreed :
          /\ guards'[g].slot = guards[g].slot
          /\ guards'[g].home = IF guards[g].home = Len(ctx) THEN 0 ELSE guards[g].home
  <2> TAKE g \in Unfreed
  <2>1. g \in Generations /\ guards[g].freed = 0
    BY DEF Unfreed, Registered
  <2>2. guards[g].home \in 0 .. Len(ctx)
    BY <1>0 DEF Homes
  <2> QED
    BY <2>1, <2>2, <1>3, <1>4
<1>7. Recoveries'
  <2> SUFFICES ASSUME NEW i \in 1 .. Len(ctx) - 1, ctx'[i].kind = "recovery"
               PROVE  i > 1 /\ ctx'[i - 1].kind # "eval"
    BY <1>2 DEF Recoveries
  <2>1. i > 1 /\ ctx[i - 1].kind # "eval"
    BY <1>0, <1>2, <1>3 DEF Recoveries
  <2> QED
    BY <2>1, <1>2, <1>3
<1> QED
  BY <1>2, <1>3, <1>5, <1>6, <1>7

\* The innermost activation ends and the interpreter goes on: it held nothing.
LEMMA LeaveSafe ==
    ASSUME SafetyInv, TypeInv', ~Unwinding, ~Unwinding', ctx # <<>>,
           LeaveContext, UNCHANGED <<stack, count, next_generation>>,
           \A g \in Unfreed : guards[g].home # Len(ctx)
    PROVE  SafetyInv'
<1> DEFINE n == Len(ctx)
<1>0. TypeOK /\ Floors /\ Homes
  BY DEF SafetyInv, TypeInv
<1>1. /\ n \in Nat \ {0} /\ Len(ctx') = n - 1
      /\ \A i \in 1 .. n - 1 : ctx'[i] = ctx[i]
      /\ Unfreed' = Unfreed
      /\ FramesByAge' /\ ArmedIsHeld' /\ HeldIsArmed' /\ FreedOnce' /\ Recoveries'
  BY LeaveEffect
<1>2. \A g \in Unfreed : guards'[g].slot = guards[g].slot /\ guards'[g].home = guards[g].home
  BY LeaveEffect
<1>3. Floors'
  <2>1. /\ Floor(stack, count, count)
        /\ \A i \in 1 .. n : Floor(stack, count, ctx[i].frames)
        /\ \A i, j \in 1 .. n : i < j => ctx[i].frames <= ctx[j].frames
    BY <1>0 DEF Floors
  <2> HIDE DEF n
  <2>2. /\ \A i \in 1 .. n - 1 : Floor(stack, count, ctx'[i].frames)
        /\ \A i, j \in 1 .. n - 1 : i < j => ctx'[i].frames <= ctx'[j].frames
    BY <2>1, <1>1
  <2> QED
    BY <2>1, <2>2, <1>1 DEF Floors
<1>4. Homes'
  <2> SUFFICES ASSUME NEW g \in Unfreed
               PROVE  /\ guards[g].home \in 0 .. n - 1
                      /\ guards[g].home # 0
                      /\ ctx'[guards[g].home].kind # "eval"
                      /\ \A i \in 1 .. n - 1 :
                            /\ guards[g].slot < ctx'[i].frames => guards[g].home < i
                            /\ guards[g].slot >= ctx'[i].frames /\ ctx'[i].kind = "boundary" =>
                                  guards[g].home = 0 \/ guards[g].home >= i
    BY <1>1, <1>2 DEF Homes
  <2>1. /\ guards[g].home \in 0 .. n /\ guards[g].home # n
        /\ guards[g].home # 0
        /\ ctx[guards[g].home].kind # "eval"
        /\ \A i \in 1 .. n :
              /\ guards[g].slot < ctx[i].frames => guards[g].home < i
              /\ guards[g].slot >= ctx[i].frames /\ ctx[i].kind = "boundary" =>
                    guards[g].home = 0 \/ guards[g].home >= i
    BY <1>0 DEF Homes
  <2> HIDE DEF n
  <2>2. guards[g].home \in 1 .. n - 1
    BY <2>1, <1>1
  <2> QED
    BY <2>1, <2>2, <1>1
<1> QED
  BY <1>1, <1>3, <1>4 DEF SafetyInv

\* A jump leaves the innermost activation; what it held is about to fire.
LEMMA JumpSafe ==
    ASSUME SafetyInv, TypeInv', ~Unwinding, Unwinding', ctx # <<>>,
           LeaveContext, UNCHANGED <<stack, count, next_generation>>,
           target'.frames = Top.frames
    PROVE  SafetyInv'
<1> DEFINE n == Len(ctx)
<1>0. TypeOK /\ Floors /\ Homes
  BY DEF SafetyInv, TypeInv
<1>1. /\ n \in Nat \ {0} /\ Len(ctx') = n - 1 /\ Top = ctx[n]
      /\ \A i \in 1 .. n - 1 : ctx'[i] = ctx[i]
      /\ Unfreed' = Unfreed
      /\ FramesByAge' /\ ArmedIsHeld' /\ HeldIsArmed' /\ FreedOnce' /\ Recoveries'
  BY LeaveEffect
<1>2. \A g \in Unfreed : /\ guards'[g].slot = guards[g].slot
                         /\ guards'[g].home = IF guards[g].home = n THEN 0 ELSE guards[g].home
  BY LeaveEffect
<1>3. \A g \in Unfreed : guards[g].slot \in Nat
  BY <1>0, Basics
<1>4. \A i \in 1 .. n : ctx[i].frames \in Nat
  BY <1>0, Basics
<1>5. Floors'
  <2>1. /\ \A i \in 1 .. n : Floor(stack, count, ctx[i].frames)
        /\ \A i, j \in 1 .. n : i < j => ctx[i].frames <= ctx[j].frames
    BY <1>0 DEF Floors
  <2> HIDE DEF n
  <2>2. /\ \A i \in 1 .. n - 1 : Floor(stack, count, ctx'[i].frames)
        /\ \A i, j \in 1 .. n - 1 : i < j => ctx'[i].frames <= ctx'[j].frames
    BY <2>1, <1>1
  <2>3. Floor(stack, count, target'.frames)
    BY <2>1, <1>1
  <2>4. \A i \in 1 .. n - 1 : ctx'[i].frames <= target'.frames
    BY <2>1, <1>1
  <2> QED
    BY <2>2, <2>3, <2>4, <1>1 DEF Floors
<1>6. Homes'
  <2> SUFFICES ASSUME NEW g \in Unfreed
               PROVE  /\ guards'[g].home \in 0 .. n - 1
                      /\ guards'[g].home = 0 => guards'[g].slot >= target'.frames
                      /\ guards'[g].home # 0 => ctx'[guards'[g].home].kind # "eval"
                      /\ \A i \in 1 .. n - 1 :
                            /\ guards'[g].slot < ctx'[i].frames => guards'[g].home < i
                            /\ guards'[g].slot >= ctx'[i].frames /\ ctx'[i].kind = "boundary" =>
                                  guards'[g].home = 0 \/ guards'[g].home >= i
    BY <1>1 DEF Homes
  <2>1. /\ guards[g].home \in 0 .. n
        /\ guards[g].home # 0
        /\ ctx[guards[g].home].kind # "eval"
        /\ \A i \in 1 .. n :
              /\ guards[g].slot < ctx[i].frames => guards[g].home < i
              /\ guards[g].slot >= ctx[i].frames /\ ctx[i].kind = "boundary" =>
                    guards[g].home = 0 \/ guards[g].home >= i
    BY <1>0 DEF Homes
  <2> HIDE DEF n
  <2>2. CASE guards[g].home = n
    <3>1. guards'[g].home = 0 /\ guards'[g].slot = guards[g].slot
      BY <2>2, <1>2
    <3>2. guards[g].slot >= Top.frames
      BY <2>1, <2>2, <1>1, <1>3, <1>4
    <3> QED
      BY <3>1, <3>2, <1>1
  <2>3. CASE guards[g].home # n
    <3>1. guards'[g].home = guards[g].home /\ guards'[g].slot = guards[g].slot
      BY <2>3, <1>2
    <3>2. guards[g].home \in 1 .. n - 1
      BY <2>1, <2>3, <1>1
    <3> QED
      BY <3>1, <3>2, <2>1, <1>1
  <2> QED
    BY <2>2, <2>3
<1> QED
  BY <1>1, <1>5, <1>6 DEF SafetyInv

\* g is given back; of the other frames only disarmed ones go.
LEMMA GiveBack ==
    ASSUME SafetyInv, NEW g \in Unfreed,
           guards' = [guards EXCEPT ![g].freed = @ + 1],
           next_generation' = next_generation,
           count' \in 0 .. count,
           \A s \in Slots : /\ stack'[s].generation = stack[s].generation
                            /\ s # guards[g].slot => stack'[s] = stack[s],
           \A s \in count' .. count - 1 : s # guards[g].slot => ~stack[s].armed,
           guards[g].slot < count' => ~stack'[guards[g].slot].armed
    PROVE  /\ Unfreed' = Unfreed \ {g}
           /\ \A h \in Unfreed \ {g} : guards'[h] = guards[h]
           /\ FramesByAge' /\ ArmedIsHeld' /\ HeldIsArmed' /\ FreedOnce'
<1>0. TypeOK /\ FramesByAge /\ ArmedIsHeld /\ HeldIsArmed /\ FreedOnce
  BY DEF SafetyInv, TypeInv
<1>1. g \in Generations /\ guards[g].freed = 0
  BY DEF Unfreed, Registered
<1>2. /\ \A h \in Generations : h # g => guards'[h] = guards[h]
      /\ guards'[g].freed = 1
  BY <1>0, <1>1 DEF TypeOK, Guard
<1>3. Unfreed' = Unfreed \ {g}
  BY <1>1, <1>2 DEF Unfreed, Registered
<1>4. \A h \in Unfreed \ {g} : guards'[h] = guards[h]
  BY <1>0, <1>2, Basics
<1>5. count \in Nat /\ \A s \in 0 .. count - 1 : s \in Slots
  BY <1>0, Basics
<1>6. FramesByAge'
  <2>1. \A s \in 0 .. count' - 1 : s \in 0 .. count - 1 /\ stack'[s].generation = stack[s].generation
    BY <1>5
  <2> QED
    BY <2>1, <1>0 DEF FramesByAge
<1>7. guards[g].slot \in Slots /\ guards[g].slot < count /\ stack[guards[g].slot].generation = g
  BY <1>0, <1>1 DEF HeldIsArmed, TypeOK, Guard
<1>8. ArmedIsHeld'
  <2> SUFFICES ASSUME NEW s \in 0 .. count' - 1, stack'[s].armed
               PROVE  /\ guards'[stack'[s].generation].freed = 0
                      /\ guards'[stack'[s].generation].slot = s
    BY DEF ArmedIsHeld
  <2>1. s \in 0 .. count - 1 /\ s \in Slots /\ s < count'
    BY <1>5
  <2>2. s # guards[g].slot
    BY <2>1
  <2>3. stack'[s] = stack[s]
    BY <2>1, <2>2
  <2> DEFINE h == stack[s].generation
  <2>4. guards[h].freed = 0 /\ guards[h].slot = s
    BY <2>1, <2>3, <1>0 DEF ArmedIsHeld
  <2>5. h \in Generations
    <3>1. h < next_generation
      BY <2>1, <1>0 DEF FramesByAge
    <3>2. h \in Nat /\ next_generation \in Nat /\ next_generation <= MaxGeneration
          /\ MaxGeneration \in Nat
      BY <2>1, <1>0, Basics
    <3> HIDE DEF h
    <3> QED
      BY <3>1, <3>2 DEF Generations
  <2>6. h # g
    BY <2>2, <2>4
  <2> QED
    BY <2>3, <2>4, <2>5, <2>6, <1>2
<1>9. HeldIsArmed'
  <2> SUFFICES ASSUME NEW h \in Unfreed, h # g
               PROVE  /\ guards[h].slot < count'
                      /\ stack'[guards[h].slot].armed
                      /\ stack'[guards[h].slot].generation = h
    BY <1>3, <1>4 DEF HeldIsArmed
  <2> DEFINE s == guards[h].slot
  <2>1. s < count /\ stack[s].armed /\ stack[s].generation = h
    BY <1>0 DEF HeldIsArmed
  <2>2. s # guards[g].slot
    BY <2>1, <1>7
  <2>3. s \in Nat
    BY <1>0, Basics
  <2>4. s < count'
    BY <2>1, <2>2, <2>3, <1>5
  <2>5. s \in Slots
    BY <2>1, <2>3, <1>5
  <2> QED
    BY <2>1, <2>2, <2>4, <2>5
<1>10. FreedOnce'
  BY <1>0, <1>1, <1>2 DEF FreedOnce
<1> QED
  BY <1>3, <1>4, <1>6, <1>8, <1>9, <1>10

\* An activation gives back what it owns itself (Release, Pop).
LEMMA RemoveSafe ==
    ASSUME SafetyInv, TypeInv', ~Unwinding, ctx # <<>>,
           NEW g \in Unfreed, guards[g].home = Len(ctx),
           guards' = [guards EXCEPT ![g].freed = @ + 1],
           UNCHANGED <<next_generation, ctx, mode, target>>,
           count' \in 0 .. count,
           Floor(stack', count', count'),
           \A s \in Slots : /\ stack'[s].generation = stack[s].generation
                            /\ s # guards[g].slot => stack'[s] = stack[s],
           \A s \in count' .. count - 1 : s # guards[g].slot => ~stack[s].armed,
           guards[g].slot < count' => ~stack'[guards[g].slot].armed
    PROVE  SafetyInv'
<1> DEFINE n == Len(ctx)
<1>0. TypeOK /\ Floors /\ Homes /\ Recoveries
  BY DEF SafetyInv, TypeInv
<1>1. /\ Unfreed' = Unfreed \ {g}
      /\ \A h \in Unfreed \ {g} : guards'[h] = guards[h]
      /\ FramesByAge' /\ ArmedIsHeld' /\ HeldIsArmed' /\ FreedOnce'
  BY GiveBack
<1>2. n \in Nat \ {0} /\ count \in Nat /\ guards[g].slot \in Nat
      /\ \A i \in 1 .. n : ctx[i].frames \in Nat
      /\ \A s \in 0 .. count - 1 : s \in Slots
  BY <1>0, Basics
<1>3. ~Unwinding'
  BY DEF Unwinding
<1>4. Floors'
  <2>1. /\ \A i \in 1 .. n : Floor(stack, count, ctx[i].frames)
        /\ \A i, j \in 1 .. n : i < j => ctx[i].frames <= ctx[j].frames
    BY <1>0 DEF Floors
  <2>2. guards[g].slot >= ctx[n].frames
    BY <1>0, <1>2 DEF Homes
  <2>3. ASSUME NEW i \in 1 .. n PROVE Floor(stack', count', ctx[i].frames)
    <3> DEFINE f == ctx[i].frames
    <3>1. f \in Nat /\ f <= count /\ (f = 0 \/ stack[f - 1].armed)
      BY <2>1, <1>2 DEF Floor
    <3>2. f <= guards[g].slot
      BY <2>1, <2>2, <1>2
    <3> HIDE DEF f
    <3>3. CASE f = 0
      BY <3>3, <1>2 DEF Floor, f
    <3>4. CASE f # 0
      <4>1. f - 1 \in 0 .. count - 1 /\ f - 1 # guards[g].slot /\ stack[f - 1].armed
        BY <3>1, <3>2, <3>4, <1>2
      <4>2. ~(f - 1 \in count' .. count - 1)
        BY <4>1
      <4>3. f <= count'
        BY <3>1, <4>1, <4>2, <1>2
      <4>4. stack'[f - 1] = stack[f - 1]
        BY <4>1, <1>2
      <4> QED
        BY <4>1, <4>3, <4>4 DEF Floor, f
    <3> QED
      BY <3>3, <3>4
  <2> QED
    BY <2>1, <2>3, <1>3 DEF Floors
<1>5. Recoveries'
  BY <1>0 DEF Recoveries
<1>6. Homes'
  BY <1>0, <1>1, <1>3 DEF Homes
<1> QED
  BY <1>1, <1>4, <1>5, <1>6 DEF SafetyInv

\* releaseFrame by the owner: one frame is disarmed, the holes on top go.
LEMMA ReleaseSafe ==
    ASSUME SafetyInv, TypeInv', CrossRelease = FALSE, NEW g \in Registered, Release(g)
    PROVE  SafetyInv'
<1> DEFINE slot == guards[g].slot
           disarmed == [stack EXCEPT ![slot].armed = FALSE]
<1>0. TypeOK /\ ArmedIsHeld /\ Floors
  BY DEF SafetyInv, TypeInv
<1>1. ctx # <<>> /\ mode = "run" /\ guards[g].home = Len(ctx)
  BY DEF Release, ZigRuns, Running, MayRelease
<1>2. slot < count /\ stack[slot].armed /\ stack[slot].generation = g
  BY DEF Release, Active
<1>3. slot \in Slots /\ count \in Nat /\ slot \in Nat
  BY <1>0, Basics DEF Registered, TypeOK, Guard
<1>4. g \in Unfreed
  BY <1>0, <1>2, <1>3 DEF ArmedIsHeld, Unfreed
<1>5. stack' = disarmed /\ count' = Discard(disarmed, count)
      /\ guards' = [guards EXCEPT ![g].freed = @ + 1]
      /\ UNCHANGED <<next_generation, ctx, mode, target>>
  BY DEF Release
<1>6. /\ \A s \in Slots : /\ disarmed[s].generation = stack[s].generation
                          /\ s # slot => disarmed[s] = stack[s]
      /\ ~disarmed[slot].armed
  BY <1>0, <1>3 DEF TypeOK
<1> HIDE DEF disarmed
<1>7. /\ count' \in 0 .. count
      /\ count' = 0 \/ stack'[count' - 1].armed
      /\ \A i \in count' .. count - 1 : ~stack'[i].armed
  BY <1>3, <1>5, DiscardProperties
<1>8. \A s \in count' .. count - 1 : s # slot => ~stack[s].armed
  BY <1>0, <1>5, <1>6, <1>7, Basics
<1>9. Floor(stack', count', count')
  BY <1>7 DEF Floor
<1>10. ~Unwinding
  BY <1>1 DEF Unwinding
<1> QED
  BY <1>1, <1>4, <1>5, <1>6, <1>7, <1>8, <1>9, <1>10, RemoveSafe

\* popFrame by the owner of the newest frame removes that frame.
LEMMA PopSafe ==
    ASSUME SafetyInv, TypeInv', NEW g \in Registered, Pop(g)
    PROVE  SafetyInv'
<1>0. TypeOK /\ ArmedIsHeld /\ HeldIsArmed /\ FramesByAge /\ Floors
  BY DEF SafetyInv, TypeInv
<1>1. /\ ctx # <<>> /\ mode = "run" /\ guards[g].home = Len(ctx) /\ g \in Unfreed
      /\ \A h \in Unfreed : h <= g
      /\ guards' = [guards EXCEPT ![g].freed = @ + 1]
      /\ UNCHANGED <<stack, next_generation, ctx, mode, target>>
  BY DEF Pop, ZigRuns, Running
<1>2. guards[g].slot \in Nat /\ guards[g].slot < count /\ stack[guards[g].slot].generation = g
  BY <1>0, <1>1, Basics DEF HeldIsArmed
<1>3. count \in Nat /\ count # 0 /\ count - 1 \in Nat
  BY <1>0, <1>2, Basics
<1>4. ~Unwinding
  BY <1>1 DEF Unwinding
<1>5. guards[g].slot = count - 1
  <2> DEFINE h == stack[count - 1].generation
  <2>1. stack[count - 1].armed
    BY <1>0, <1>3, <1>4 DEF Floors, Floor
  <2>2. guards[h].freed = 0 /\ count - 1 \in 0 .. count - 1
    BY <2>1, <1>0, <1>3 DEF ArmedIsHeld
  <2>3. h \in Nat /\ h < next_generation /\ next_generation <= MaxGeneration
        /\ MaxGeneration \in Nat /\ next_generation \in Nat
    BY <2>2, <1>0, Basics DEF FramesByAge
  <2>4. h \in Unfreed
    BY <2>2, <2>3 DEF Unfreed, Registered, Generations
  <2>5. h <= g
    BY <2>4, <1>1
  <2>6. guards[g].slot \in 0 .. count - 1
    BY <1>2, <1>3
  <2>7. guards[g].slot < count - 1 => g < h
    BY <2>2, <2>6, <1>0, <1>2 DEF FramesByAge
  <2>8. g \in Nat
    BY <1>0, <1>1, Basics
  <2> QED
    BY <2>3, <2>5, <2>6, <2>7, <2>8, <1>3
<1>6. count' = Discard(stack, count - 1)
  BY <1>3 DEF Pop
<1>7. /\ count' \in 0 .. count - 1
      /\ count' = 0 \/ stack[count' - 1].armed
      /\ \A i \in count' .. count - 1 - 1 : ~stack[i].armed
  BY <1>3, <1>6, DiscardProperties
<1>8. \A s \in count' .. count - 1 : s # guards[g].slot => ~stack[s].armed
  BY <1>3, <1>5, <1>7
<1>9. Floor(stack', count', count') /\ count' \in 0 .. count
  BY <1>1, <1>3, <1>7 DEF Floor
<1>10. ~(guards[g].slot < count')
  BY <1>3, <1>5, <1>7
<1> QED
  BY <1>1, <1>4, <1>8, <1>9, <1>10, RemoveSafe

\* reserveFrame puts the newest registration on top, owned by the running
\* activation or by one that shares its boundary.
LEMMA PushSafe ==
    ASSUME SafetyInv, TypeInv', NEW home \in InReach, NEW kind \in Kinds, Push(home, kind)
    PROVE  SafetyInv'
<1> DEFINE new == next_generation
           n == Len(ctx)
<1>0. /\ TypeOK /\ FramesByAge /\ ArmedIsHeld /\ HeldIsArmed /\ FreedOnce
      /\ Floors /\ Homes /\ Recoveries
  BY DEF SafetyInv, TypeInv
<1>1. /\ ctx # <<>> /\ mode = "run" /\ Top.kind # "eval"
      /\ new < MaxGeneration /\ count < MAX_NESTING
      /\ stack' = [stack EXCEPT ![count] = [armed |-> TRUE, generation |-> new]]
      /\ count' = count + 1 /\ next_generation' = new + 1
      /\ guards' = [guards EXCEPT ![new] =
                       [slot |-> count, home |-> home, kind |-> kind, freed |-> 0]]
      /\ UNCHANGED <<ctx, mode, target>>
  BY DEF Push, ZigRuns, Running
<1>2. /\ count \in Nat /\ new \in Nat /\ MAX_NESTING \in Nat /\ MaxGeneration \in Nat
      /\ n \in Nat \ {0} /\ Top = ctx[n]
  BY <1>0, <1>1, Basics
<1>3. count \in Slots /\ new \in Generations
  BY <1>1, <1>2 DEF Slots, Generations
<1>4. /\ \A s \in 0 .. count - 1 : stack'[s] = stack[s]
      /\ stack'[count].armed /\ stack'[count].generation = new
  <2>1. \A s \in 0 .. count - 1 : s \in Slots /\ s # count
    BY <1>0, <1>2, Basics
  <2> QED
    BY <2>1, <1>0, <1>1, <1>3 DEF TypeOK
<1>5. /\ \A g \in Generations : g # new => guards'[g] = guards[g]
      /\ guards'[new].slot = count /\ guards'[new].home = home /\ guards'[new].freed = 0
  BY <1>0, <1>1, <1>3 DEF TypeOK
<1>6. \A s \in 0 .. count - 1 :
          /\ stack[s].generation \in Generations /\ stack[s].generation # new
          /\ stack[s].generation \in Nat /\ stack[s].generation < new
  <2> TAKE s \in 0 .. count - 1
  <2>1. stack[s].generation \in Nat /\ stack[s].generation < new
    BY <1>0, Basics DEF FramesByAge
  <2> QED
    BY <2>1, <1>1, <1>2 DEF Generations
<1>7. Unfreed' = Unfreed \cup {new} /\ new \notin Unfreed
  <2>1. Registered' = Registered \cup {new} /\ new \notin Registered
    <3>1. \A g \in Generations : g < new + 1 <=> g < new \/ g = new
      BY <1>2 DEF Generations
    <3>2. ~(new < new)
      BY <1>2
    <3>3. next_generation' = new + 1 /\ new = next_generation
      BY <1>1
    <3> HIDE DEF new
    <3> QED
      BY <3>1, <3>2, <3>3, <1>3 DEF Registered
  <2>2. \A g \in Registered : guards'[g] = guards[g]
    BY <2>1, <1>5 DEF Registered
  <2> HIDE DEF new
  <2> QED
    BY <2>1, <2>2, <1>5 DEF Unfreed
<1>8. \A g \in Unfreed : guards'[g] = guards[g] /\ g \in Generations
  BY <1>0, <1>5, <1>7, Basics
<1>9. ~Unwinding /\ ~Unwinding'
  BY <1>1 DEF Unwinding
<1>10. /\ home \in 1 .. n
       /\ \A i \in home + 1 .. n : ctx[i].kind = "recovery"
  BY DEF InReach
<1> HIDE DEF n, new
<1>11. FramesByAge'
  <2> SUFFICES /\ \A s \in 0 .. count : stack'[s].generation < new + 1
               /\ \A s, t \in 0 .. count :
                     s < t => stack'[s].generation < stack'[t].generation
    BY <1>1, <1>2 DEF FramesByAge
  <2>1. \A s \in 0 .. count : stack'[s].generation < new + 1
    <3> TAKE s \in 0 .. count
    <3>1. CASE s = count
      BY <3>1, <1>2, <1>4
    <3>2. CASE s # count
      BY <3>2, <1>2, <1>4, <1>6
    <3> QED
      BY <3>1, <3>2
  <2>2. \A s, t \in 0 .. count : s < t => stack'[s].generation < stack'[t].generation
    <3> TAKE s, t \in 0 .. count
    <3> HAVE s < t
    <3>1. s \in 0 .. count - 1
      BY <1>2
    <3>2. CASE t = count
      BY <3>1, <3>2, <1>4, <1>6
    <3>3. CASE t # count
      <4>1. t \in 0 .. count - 1
        BY <3>3, <1>2
      <4>2. stack[s].generation < stack[t].generation
        BY <3>1, <4>1, <1>0 DEF FramesByAge
      <4> QED
        BY <3>1, <4>1, <4>2, <1>4
    <3> QED
      BY <3>2, <3>3
  <2> QED
    BY <2>1, <2>2
<1>12. ArmedIsHeld'
  <2> SUFFICES ASSUME NEW s \in 0 .. count, stack'[s].armed
               PROVE  /\ guards'[stack'[s].generation].freed = 0
                      /\ guards'[stack'[s].generation].slot = s
    BY <1>1, <1>2 DEF ArmedIsHeld
  <2>1. CASE s = count
    BY <2>1, <1>4, <1>5
  <2>2. CASE s # count
    <3>1. s \in 0 .. count - 1 /\ stack'[s] = stack[s]
      BY <2>2, <1>2, <1>4
    <3> QED
      BY <3>1, <1>0, <1>5, <1>6 DEF ArmedIsHeld
  <2> QED
    BY <2>1, <2>2
<1>13. HeldIsArmed'
  <2> SUFFICES ASSUME NEW g \in Unfreed \cup {new}
               PROVE  /\ guards'[g].slot < count + 1
                      /\ stack'[guards'[g].slot].armed
                      /\ stack'[guards'[g].slot].generation = g
    BY <1>1, <1>7 DEF HeldIsArmed
  <2>1. CASE g = new
    BY <2>1, <1>2, <1>4, <1>5
  <2>2. CASE g \in Unfreed
    <3>1. /\ guards[g].slot < count /\ guards[g].slot \in Nat
          /\ stack[guards[g].slot].armed /\ stack[guards[g].slot].generation = g
      BY <2>2, <1>0, Basics DEF HeldIsArmed
    <3>2. guards[g].slot \in 0 .. count - 1
      BY <3>1, <1>2
    <3> QED
      BY <2>2, <3>1, <3>2, <1>2, <1>4, <1>8
  <2> QED
    BY <2>1, <2>2
<1>14. FreedOnce'
  BY <1>0, <1>5 DEF FreedOnce
<1>15. Floors'
  <2>1. /\ \A i \in 1 .. n : Floor(stack, count, ctx[i].frames) /\ ctx[i].frames \in Nat
        /\ \A i, j \in 1 .. n : i < j => ctx[i].frames <= ctx[j].frames
    BY <1>0, Basics DEF Floors, n
  <2>2. Floor(stack', count', count')
    BY <1>1, <1>2, <1>4 DEF Floor
  <2>3. ASSUME NEW i \in 1 .. n PROVE Floor(stack', count', ctx[i].frames)
    <3>0. ctx[i].frames <= count /\ ctx[i].frames \in Nat
          /\ (ctx[i].frames = 0 \/ stack[ctx[i].frames - 1].armed)
      BY <2>1 DEF Floor
    <3>1. ctx[i].frames # 0 => ctx[i].frames - 1 \in 0 .. count - 1
      BY <3>0, <1>2
    <3>2. ctx[i].frames # 0 => stack'[ctx[i].frames - 1].armed
      BY <3>0, <3>1, <1>4
    <3>3. ctx[i].frames <= count'
      BY <3>0, <1>1, <1>2
    <3> QED
      BY <3>2, <3>3 DEF Floor
  <2> QED
    BY <2>1, <2>2, <2>3, <1>1, <1>9 DEF Floors, n
<1>16. Recoveries'
  BY <1>0, <1>1 DEF Recoveries
<1>17. Homes'
  <2> SUFFICES ASSUME NEW g \in Unfreed \cup {new}
               PROVE  /\ guards'[g].home \in 0 .. n
                      /\ guards'[g].home # 0
                      /\ ctx[guards'[g].home].kind # "eval"
                      /\ \A i \in 1 .. n :
                            /\ guards'[g].slot < ctx[i].frames => guards'[g].home < i
                            /\ guards'[g].slot >= ctx[i].frames /\ ctx[i].kind = "boundary" =>
                                  guards'[g].home = 0 \/ guards'[g].home >= i
    BY <1>1, <1>7 DEF Homes, n
  <2>1. CASE g = new
    <3>1. guards'[g].home = home /\ guards'[g].slot = count
      BY <2>1, <1>5
    <3>2. ctx[home].kind # "eval"
      <4>1. CASE home = n
        BY <4>1, <1>1, <1>2
      <4>2. CASE home # n
        <5>1. home + 1 \in 1 .. n /\ ctx[home + 1].kind = "recovery"
          BY <4>2, <1>2, <1>10
        <5>2. \A i \in 1 .. n : ctx[i].kind = "recovery" => ctx[i - 1].kind # "eval"
          BY <1>0 DEF Recoveries, n
        <5>3. ctx[home + 1 - 1].kind # "eval" /\ home + 1 - 1 = home
          BY <5>1, <5>2, <1>10
        <5> QED
          BY <5>3
      <4> QED
        BY <4>1, <4>2
    <3>3. \A i \in 1 .. n : ctx[i].frames \in Nat /\ ctx[i].frames <= count
      BY <1>0, Basics DEF Floors, Floor, n
    <3>4. \A i \in 1 .. n : ctx[i].kind = "boundary" => home >= i
      BY <1>2, <1>10
    <3> QED
      BY <3>1, <3>2, <3>3, <3>4, <1>2, <1>10
  <2>2. CASE g \in Unfreed
    BY <2>2, <1>0, <1>8, <1>9 DEF Homes, n
  <2> QED
    BY <2>1, <2>2
<1> QED
  BY <1>11, <1>12, <1>13, <1>14, <1>15, <1>16, <1>17 DEF SafetyInv

\* One iteration of an unwind loop gives back the newest frame's resource.
LEMMA FireSafe ==
    ASSUME SafetyInv, TypeInv', Fire
    PROVE  SafetyInv'
<1> DEFINE top == stack[count - 1]
           g == top.generation
<1>0. /\ TypeOK /\ FramesByAge /\ ArmedIsHeld /\ HeldIsArmed /\ FreedOnce
      /\ Floors /\ Homes /\ Recoveries
  BY DEF SafetyInv, TypeInv
<1>1. /\ Unwinding /\ count > target.frames /\ count' = count - 1
      /\ UNCHANGED <<stack, next_generation, ctx, mode, target>>
      /\ top.armed => guards' = [guards EXCEPT ![g].freed = @ + 1]
      /\ ~top.armed => guards' = guards
  BY DEF Fire
<1>2. /\ count \in Nat /\ target.frames \in Nat /\ count - 1 \in 0 .. count - 1
      /\ count' \in 0 .. count
      /\ \A s \in 0 .. count - 1 : s \in Slots
      /\ \A i \in 1 .. Len(ctx) : ctx[i].frames \in Nat
  BY <1>0, <1>1, Basics
<1>3. Unwinding'
  BY <1>1 DEF Unwinding
<1>4. /\ Unfreed' \subseteq Unfreed
      /\ \A h \in Unfreed' : guards'[h] = guards[h]
      /\ FramesByAge' /\ ArmedIsHeld' /\ HeldIsArmed' /\ FreedOnce'
  <2>1. CASE top.armed
    <3>1. guards[g].freed = 0 /\ guards[g].slot = count - 1
      BY <2>1, <1>0, <1>2 DEF ArmedIsHeld
    <3>2. /\ g \in Nat /\ g < next_generation /\ next_generation <= MaxGeneration
          /\ MaxGeneration \in Nat
      BY <1>0, <1>2, Basics DEF FramesByAge
    <3>3. next_generation \in Nat
      BY <1>0, Basics
    <3>4. g \in Unfreed
      BY <3>1, <3>2, <3>3 DEF Unfreed, Registered, Generations
    <3> HIDE DEF g
    <3>5. /\ \A s \in Slots : /\ stack'[s].generation = stack[s].generation
                             /\ s # guards[g].slot => stack'[s] = stack[s]
          /\ \A s \in count' .. count - 1 : s # guards[g].slot => ~stack[s].armed
          /\ ~(guards[g].slot < count')
      BY <3>1, <1>1, <1>2
    <3> QED
      BY <2>1, <3>4, <3>5, <1>1, <1>2, GiveBack
  <2>2. CASE ~top.armed
    <3>1. UNCHANGED <<stack, guards, next_generation>>
      BY <2>2, <1>1
    <3>2. Unfreed' = Unfreed
      BY <3>1 DEF Unfreed, Registered
    <3>3. \A s \in 0 .. count' - 1 : s \in 0 .. count - 1
      BY <1>1, <1>2
    <3>4. FramesByAge' /\ ArmedIsHeld' /\ FreedOnce'
      BY <3>1, <3>3, <1>0 DEF FramesByAge, ArmedIsHeld, FreedOnce
    <3>5. HeldIsArmed'
      <4> SUFFICES ASSUME NEW h \in Unfreed PROVE guards[h].slot < count'
        BY <3>1, <3>2, <1>0 DEF HeldIsArmed
      <4>1. guards[h].slot < count /\ stack[guards[h].slot].armed /\ guards[h].slot \in Nat
        BY <1>0, Basics DEF HeldIsArmed
      <4>2. guards[h].slot # count - 1
        BY <4>1, <2>2
      <4> QED
        BY <4>1, <4>2, <1>1, <1>2
    <3> QED
      BY <3>1, <3>2, <3>4, <3>5
  <2> QED
    BY <2>1, <2>2
<1>5. Floors'
  <2>1. /\ Floor(stack, count, target.frames)
        /\ \A i \in 1 .. Len(ctx) : /\ Floor(stack, count, ctx[i].frames)
                                    /\ ctx[i].frames <= target.frames
        /\ \A i, j \in 1 .. Len(ctx) : i < j => ctx[i].frames <= ctx[j].frames
    BY <1>0, <1>1 DEF Floors
  <2>2. target.frames <= count'
    BY <1>1, <1>2
  <2>3. Floor(stack, count', target.frames)
    BY <2>1, <2>2 DEF Floor
  <2>4. \A i \in 1 .. Len(ctx) : ctx[i].frames <= count'
    BY <2>1, <2>2, <1>2
  <2>5. \A i \in 1 .. Len(ctx) : Floor(stack, count', ctx[i].frames)
    BY <2>1, <2>4 DEF Floor
  <2> QED
    BY <2>1, <2>3, <2>5, <1>1, <1>3 DEF Floors
<1>6. Recoveries'
  BY <1>0, <1>1 DEF Recoveries
<1>7. Homes'
  BY <1>0, <1>1, <1>3, <1>4 DEF Homes
<1> QED
  BY <1>4, <1>5, <1>6, <1>7 DEF SafetyInv

\* When the loop ends nothing is above the checkpoint, hence nothing is ownerless.
LEMMA FinishSafe ==
    ASSUME SafetyInv, TypeInv', FinishUnwind
    PROVE  SafetyInv'
<1>0. TypeOK /\ Floors /\ Homes /\ Recoveries /\ HeldIsArmed
  BY DEF SafetyInv, TypeInv
<1>1. /\ Unwinding /\ count <= target.frames /\ mode' \in {"jump", "run"}
      /\ UNCHANGED <<stack, count, next_generation, ctx, guards>>
  BY DEF FinishUnwind
<1>2. ~Unwinding'
  BY <1>1 DEF Unwinding
<1>3. Unfreed' = Unfreed /\ FramesByAge' /\ ArmedIsHeld' /\ HeldIsArmed' /\ FreedOnce'
  BY <1>1, SameFrames
<1>4. Floor(stack, count, target.frames) /\ target.frames = count
  <2>1. Floor(stack, count, target.frames) /\ target.frames \in Nat /\ count \in Nat
    BY <1>0, <1>1, Basics DEF Floors
  <2> QED
    BY <2>1, <1>1 DEF Floor
<1>5. Floors'
  BY <1>0, <1>1, <1>2, <1>4 DEF Floors
<1>6. Recoveries'
  BY <1>0, <1>1 DEF Recoveries
<1>7. Homes'
  <2>1. \A g \in Unfreed : guards[g].home # 0
    <3> TAKE g \in Unfreed
    <3>1. guards[g].slot < count /\ guards[g].slot \in Nat /\ count \in Nat
      BY <1>0, Basics DEF HeldIsArmed
    <3> QED
      BY <3>1, <1>0, <1>4 DEF Homes
  <2> QED
    BY <2>1, <1>0, <1>1, <1>3 DEF Homes
<1> QED
  BY <1>3, <1>5, <1>6, <1>7 DEF SafetyInv

\* A boundary that returns settled has exactly its caller's frames below it.
LEMMA ReturnBoundarySafe ==
    ASSUME SafetyInv, TypeInv', ReturnBoundary
    PROVE  count' = count /\ SafetyInv'
<1> DEFINE n == Len(ctx)
<1>0. TypeOK /\ Floors /\ Homes /\ ArmedIsHeld /\ FramesByAge
  BY DEF SafetyInv, TypeInv
<1>1. /\ ctx # <<>> /\ mode = "run" /\ mode' = "run" /\ Top.kind = "boundary"
      /\ \A g \in Unfreed : guards[g].home # n
      /\ count' = Top.frames /\ LeaveContext /\ UNCHANGED <<stack, next_generation>>
  BY DEF ReturnBoundary, Running, Settled
<1>2. /\ n \in Nat \ {0} /\ Top = ctx[n] /\ count \in Nat /\ Top.frames \in Nat
      /\ next_generation \in Nat /\ next_generation <= MaxGeneration /\ MaxGeneration \in Nat
  BY <1>0, <1>1, Basics
<1>3. ~Unwinding /\ ~Unwinding'
  BY <1>1 DEF Unwinding
<1>4. count = Top.frames
  <2> SUFFICES ASSUME count # Top.frames PROVE FALSE
    OBVIOUS
  <2>1. Top.frames <= count /\ Floor(stack, count, count)
    BY <1>0, <1>2, <1>3 DEF Floors, Floor
  <2>2. count - 1 \in 0 .. count - 1 /\ stack[count - 1].armed /\ count - 1 >= Top.frames
    BY <2>1, <1>2 DEF Floor
  <2> DEFINE g == stack[count - 1].generation
  <2>3. guards[g].freed = 0 /\ guards[g].slot = count - 1
    BY <2>2, <1>0 DEF ArmedIsHeld
  <2>4. g \in Nat /\ g < next_generation
    BY <2>2, <1>0, Basics DEF FramesByAge
  <2>5. g \in Unfreed
    BY <2>3, <2>4, <1>2 DEF Unfreed, Registered, Generations
  <2> HIDE DEF g
  <2>6. guards[g].home \in 0 .. n /\ guards[g].home # 0 /\ guards[g].home # n
    BY <2>5, <1>0, <1>1, <1>3 DEF Homes
  <2>7. n \in 1 .. n /\ ctx[n].kind = "boundary" /\ guards[g].slot >= ctx[n].frames
    BY <2>2, <2>3, <1>1, <1>2
  <2>8. guards[g].home = 0 \/ guards[g].home >= n
    BY <2>5, <2>7, <1>0 DEF Homes
  <2> QED
    BY <2>6, <2>8, <1>2
<1>5. UNCHANGED <<stack, count, next_generation>>
  BY <1>1, <1>4
<1> QED
  BY <1>1, <1>3, <1>5, LeaveSafe

\* With nothing registered, every frame invariant holds of the initial state.
THEOREM InitSafetyInv == Init => SafetyInv
<1> SUFFICES ASSUME Init PROVE SafetyInv
  OBVIOUS
<1>1. TypeInv
  BY InitTypeInv
<1>2. /\ count = 0 /\ next_generation = 0 /\ ctx = <<>> /\ mode = "run"
      /\ \A g \in Generations : guards[g].freed = 0
      /\ Len(ctx) = 0
  BY EmptySeq DEF Init
<1>3. Unfreed = {}
  BY <1>2 DEF Unfreed, Registered, Generations
<1>4. FramesByAge /\ ArmedIsHeld /\ HeldIsArmed /\ FreedOnce
  BY <1>2, <1>3 DEF FramesByAge, ArmedIsHeld, HeldIsArmed, FreedOnce
<1>5. Floors /\ Recoveries /\ Homes
  BY <1>2, <1>3 DEF Floors, Floor, Recoveries, Homes, Unwinding
<1> QED
  BY <1>1, <1>4, <1>5 DEF SafetyInv

\* When a callee leaves its caller's frames alone, every step preserves SafetyInv:
\* frames stay ordered by age, armed exactly while the resource is held, and above
\* the checkpoints of the activations that do not own them.
THEOREM NextSafetyInv == CrossRelease = FALSE /\ SafetyInv /\ [Next]_vars => SafetyInv'
<1> SUFFICES ASSUME CrossRelease = FALSE, SafetyInv, [Next]_vars PROVE SafetyInv'
  OBVIOUS
<1>0. TypeInv' /\ TypeOK
  BY NextTypeInv DEF SafetyInv, TypeInv
<1>1. CASE UNCHANGED vars
  <2>1. UNCHANGED <<stack, count, next_generation, guards, ctx, mode, target>>
    BY <1>1 DEF vars, cleanupVars
  <2>2. Unfreed' = Unfreed /\ (Unwinding' <=> Unwinding)
        /\ FramesByAge' /\ ArmedIsHeld' /\ HeldIsArmed' /\ FreedOnce'
    BY <2>1, SameFrames DEF Unwinding
  <2>3. Floors' /\ Recoveries' /\ Homes'
    BY <2>1, <2>2 DEF SafetyInv, Floors, Recoveries, Homes
  <2> QED
    BY <1>0, <2>2, <2>3 DEF SafetyInv
<1>2. CASE EnterBoundary
  <2>1. EnterContext("boundary", ppTop + 1) /\ ppTop + 1 \in Int
        /\ UNCHANGED <<stack, count, next_generation, mode, target, guards>> /\ mode = "run"
    BY <1>0, <1>2 DEF EnterBoundary, ZigRuns, RRuns, Running, TypeOK
  <2> QED
    BY <1>0, <2>1, EnterSafe
<1>3. CASE EnterRecovery
  <2>1. EnterContext("recovery", ppTop) /\ ppTop \in Int /\ ZigRuns
        /\ UNCHANGED <<stack, count, next_generation, mode, target, guards>> /\ mode = "run"
    BY <1>0, <1>3 DEF EnterRecovery, ZigRuns, Running, TypeOK, cleanupVars
  <2> QED
    BY <1>0, <2>1, EnterSafe
<1>4. CASE EnterEval
  <2>1. EnterContext("eval", ppTop) /\ ppTop \in Int
        /\ UNCHANGED <<stack, count, next_generation, mode, target, guards>> /\ mode = "run"
    BY <1>0, <1>4 DEF EnterEval, ZigRuns, Running, TypeOK, cleanupVars
  <2> QED
    BY <1>0, <2>1, EnterSafe
<1>5. CASE ReturnBoundary
  BY <1>0, <1>5, ReturnBoundarySafe
<1>6. CASE ReturnRecovery
  <2>1. /\ ctx # <<>> /\ LeaveContext /\ mode = "run" /\ mode' = "run"
        /\ UNCHANGED <<stack, count, next_generation>>
        /\ \A g \in Unfreed : guards[g].home # Len(ctx)
    BY <1>6 DEF ReturnRecovery, Running, Settled, cleanupVars
  <2>2. ~Unwinding /\ ~Unwinding'
    BY <2>1 DEF Unwinding
  <2> QED
    BY <1>0, <2>1, <2>2, LeaveSafe
<1>7. CASE ReturnEval \/ JumpToEval
  <2>1. /\ ctx # <<>> /\ LeaveContext /\ mode \in {"run", "jump"} /\ mode' = "run"
        /\ UNCHANGED <<stack, count, next_generation>> /\ Top.kind = "eval"
    BY <1>7 DEF ReturnEval, JumpToEval, Running, Jumping, cleanupVars
  <2>2. ~Unwinding /\ ~Unwinding'
    BY <2>1 DEF Unwinding
  <2>3. \A g \in Unfreed : guards[g].home # Len(ctx)
    BY <2>1, <2>2, <1>0, Basics DEF SafetyInv, Homes
  <2> QED
    BY <1>0, <2>1, <2>2, <2>3, LeaveSafe
<1>8. CASE \/ BoundaryOverflow \/ PushOverflow \/ Raise \/ JumpToTopLevel
           \/ Protect \/ Unprotect
  <2>1. /\ mode \in {"run", "jump"} /\ mode' \in {"run", "jump"}
        /\ UNCHANGED <<stack, count, next_generation, guards, ctx, target>>
    BY <1>8 DEF BoundaryOverflow, PushOverflow, Raise, JumpToTopLevel, Protect, Unprotect,
                ZigRuns, RRuns, Running, cleanupVars
  <2>2. ~Unwinding /\ ~Unwinding'
    BY <2>1 DEF Unwinding
  <2> QED
    BY <1>0, <2>1, <2>2, StillSafe
<1>9. CASE JumpToBoundary
  <2>1. /\ ctx # <<>> /\ Top.kind = "boundary" /\ LeaveContext
        /\ mode = "jump" /\ mode' = "boundary" /\ boundaries' = Front(boundaries)
        /\ UNCHANGED <<stack, count, next_generation>>
        /\ target'.frames = Last(boundaries).frame_count
    BY <1>9 DEF JumpToBoundary, Jumping
  <2>2. Last(boundaries) = [frame_count |-> Top.frames, protect_depth |-> Top.depth]
    BY <2>1, LeaveNests DEF SafetyInv, LeaveContext
  <2>3. ~Unwinding /\ Unwinding'
    BY <2>1 DEF Unwinding
  <2>4. target'.frames = Top.frames
    BY <2>1, <2>2
  <2> QED
    BY <1>0, <2>1, <2>3, <2>4, JumpSafe
<1>10. CASE JumpToRecovery
  <2>1. /\ ctx # <<>> /\ LeaveContext
        /\ mode = "jump" /\ mode' = "rollback"
        /\ UNCHANGED <<stack, count, next_generation>>
        /\ target'.frames = Top.frames
    BY <1>10 DEF JumpToRecovery, Jumping
  <2>2. ~Unwinding /\ Unwinding'
    BY <2>1 DEF Unwinding
  <2> QED
    BY <1>0, <2>1, <2>2, JumpSafe
<1>11. ASSUME NEW home \in InReach, NEW kind \in Kinds, Push(home, kind) PROVE SafetyInv'
  BY <1>0, <1>11, PushSafe
<1>12. ASSUME NEW g \in Registered, Release(g) PROVE SafetyInv'
  BY <1>0, <1>12, ReleaseSafe
<1>13. ASSUME NEW g \in Registered, Pop(g) PROVE SafetyInv'
  BY <1>0, <1>13, PopSafe
<1>14. CASE Fire
  BY <1>0, <1>14, FireSafe
<1>15. CASE FinishUnwind
  BY <1>0, <1>15, FinishSafe
<1> QED
  BY <1>1, <1>2, <1>3, <1>4, <1>5, <1>6, <1>7, <1>8, <1>9, <1>10, <1>11, <1>12, <1>13,
     <1>14, <1>15 DEF Next, Unwind

\* Hence SafetyInv holds in every state the program can reach.
LEMMA SafetyInvAlways ==
    ASSUME CrossRelease = FALSE
    PROVE  Spec => []SafetyInv
<1>1. SafetyInv /\ [Next]_vars => SafetyInv'
  BY NextSafetyInv
<1> QED
  BY <1>1, InitSafetyInv, PTL DEF Spec

\* No resource is given back twice, by whatever mixture of owners, stale handles,
\* popFrame, boundary unwinds and rollbacks.
THEOREM FreedAtMostOnceAlways ==
    ASSUME CrossRelease = FALSE
    PROVE  Spec => []FreedAtMostOnce
<1>1. SafetyInv => FreedAtMostOnce
  BY DEF SafetyInv, FreedOnce, FreedAtMostOnce, Registered
<1> QED
  BY <1>1, SafetyInvAlways, PTL

\* After an error has been handled, every resource that is held has its owner.
THEOREM NothingLeakedAlways ==
    ASSUME CrossRelease = FALSE
    PROVE  Spec => []NothingLeaked
<1>1. SafetyInv => NothingLeaked
  <2> SUFFICES ASSUME SafetyInv, mode = "run", NEW g \in Unfreed
               PROVE  guards[g].home \in 1 .. Len(ctx)
    BY DEF NothingLeaked
  <2>1. TypeOK /\ ~Unwinding
    BY DEF SafetyInv, TypeInv, Unwinding
  <2>2. guards[g].home \in 0 .. Len(ctx) /\ guards[g].home # 0
    BY <2>1 DEF SafetyInv, Homes
  <2> QED
    BY <2>2
<1> QED
  BY <1>1, SafetyInvAlways, PTL

\* A resource that is held can always be reached by an unwind, and nothing else is.
THEOREM LiveIffGuardedAlways ==
    ASSUME CrossRelease = FALSE
    PROVE  Spec => []LiveIffGuarded
<1>1. SafetyInv => LiveIffGuarded
  <2> SUFFICES ASSUME SafetyInv PROVE LiveIffGuarded
    OBVIOUS
  <2>0. TypeOK
    BY DEF SafetyInv, TypeInv
  <2>1. \A g \in Unfreed : Active(g)
    BY DEF SafetyInv, HeldIsArmed, Active
  <2>2. ASSUME NEW s \in 0 .. count - 1, stack[s].armed
        PROVE  stack[s].generation \in Unfreed
    <3>1. stack[s].generation \in Nat /\ stack[s].generation < next_generation
      BY <2>0, Basics DEF SafetyInv, FramesByAge
    <3>2. next_generation \in Nat /\ next_generation <= MaxGeneration /\ MaxGeneration \in Nat
      BY <2>0, Basics
    <3>3. guards[stack[s].generation].freed = 0
      BY <2>2 DEF SafetyInv, ArmedIsHeld
    <3> QED
      BY <3>1, <3>2, <3>3 DEF Unfreed, Registered, Generations
  <2> QED
    BY <2>1, <2>2 DEF LiveIffGuarded
<1> QED
  BY <1>1, SafetyInvAlways, PTL

-----------------------------------------------------------------------------
(***************************************************************************)
(* Accounts: what an error restores and a normal return leaves alone.      *)
(***************************************************************************)
\* R's PROTECT stack when the activation of c was called; protectCall has
\* pushed its token before the context is entered.
CalledAt(c) == c.cstacktop - (IF c.kind = "boundary" THEN 1 ELSE 0)

\* What an activation saved against what its caller saved: both depths grew
\* alike, and R code between two activations added nothing.
Links ==
    /\ ctx # <<>> => ctx[1].frames = 0 /\ ctx[1].depth = 0
    /\ \A i \in 1 .. Len(ctx) - 1 :
          /\ ctx[i + 1].depth - ctx[i].depth = CalledAt(ctx[i + 1]) - ctx[i].cstacktop
          /\ ctx[i].kind = "eval" => /\ ctx[i + 1].frames = ctx[i].frames
                                     /\ ctx[i + 1].depth = ctx[i].depth

\* f and d are the frames and the depth that R code starts with.
AtRest(f, d) ==
    /\ ctx = <<>> => f = 0 /\ d = 0
    /\ ctx # <<>> /\ Top.kind = "eval" => f = Top.frames /\ d = Top.depth

\* Since the innermost activation was entered, d has grown as R's stack has.
InStep(d, top) == ctx # <<>> => d - Top.depth = top - Top.cstacktop

Accounts ==
    /\ Links
    /\ ~Unwinding => AtRest(count, protect_depth)
    /\ Unwinding => AtRest(target.frames, target.depth)
    /\ mode = "run" => InStep(protect_depth, ppTop)
    /\ mode = "rollback" => ppTop = target.cont /\ InStep(target.depth, target.cont)

-----------------------------------------------------------------------------
(***************************************************************************)
(* Lemmas about the contexts.                                              *)
(***************************************************************************)
\* The ranges of the depths, and which context is the innermost.
LEMMA Depths ==
    ASSUME TypeOK
    PROVE  /\ Len(ctx) \in Nat
           /\ ctx = <<>> <=> Len(ctx) = 0
           /\ ctx # <<>> => Top = ctx[Len(ctx)] /\ Top \in Context
           /\ count \in Nat /\ protect_depth \in Int /\ ppTop \in Int
           /\ target.frames \in Nat /\ target.depth \in Int /\ target.cont \in Int
           /\ \A i \in 1 .. Len(ctx) :
                 /\ ctx[i] \in Context
                 /\ ctx[i].frames \in Nat /\ ctx[i].depth \in Int /\ ctx[i].cstacktop \in Int
                 /\ CalledAt(ctx[i]) \in Int
           /\ recovering_condition = (mode = "rollback")
<1>1. \A i \in 1 .. Len(ctx) : ctx[i] \in Context /\ ctx[i].frames \in Nat
  BY Basics
<1>2. \A i \in 1 .. Len(ctx) : /\ ctx[i].depth \in Int /\ ctx[i].cstacktop \in Int
                               /\ CalledAt(ctx[i]) \in Int
  BY <1>1, OpenedProperties DEF CalledAt
<1>3. /\ target \in Target /\ protect_depth \in Int /\ ppTop \in Int
      /\ recovering_condition = (mode = "rollback")
  BY DEF TypeOK
<1>4. target.frames \in Nat /\ target.depth \in Int /\ target.cont \in Int
  BY <1>3, Basics DEF Target
<1>5. Len(ctx) \in Nat /\ (ctx = <<>> <=> Len(ctx) = 0) /\ count \in Nat
      /\ (ctx # <<>> => Top = ctx[Len(ctx)])
  BY Basics
<1>6. ctx # <<>> => Top \in Context
  BY <1>1, <1>5
<1> QED
  BY <1>1, <1>2, <1>3, <1>4, <1>5, <1>6

\* What depends on the contexts alone stays as they do.
LEMMA SameContexts ==
    ASSUME UNCHANGED ctx
    PROVE  Top' = Top /\ (Links => Links')
  BY DEF Top, Links

\* An activation saves both depths as they are when it is called.
LEMMA EnterAccounts ==
    ASSUME TypeOK, Accounts, mode = "run", mode' = "run",
           NEW kind \in {"boundary", "recovery", "eval"}, NEW top \in Int,
           top = ppTop + (IF kind = "boundary" THEN 1 ELSE 0),
           EnterContext(kind, top), ppTop' = top, UNCHANGED <<count, protect_depth>>
    PROVE  Accounts'
<1> DEFINE n == Len(ctx)
           new == [kind |-> kind, cstacktop |-> top, frames |-> count,
                   depth |-> protect_depth, since |-> next_generation,
                   opened |-> Len(boundaries)]
<1>1. new \in Context /\ ctx \in Seq(Context) /\ ctx' = Append(ctx, new)
  BY SavedState DEF EnterContext, TypeOK
<1>2. /\ new.kind = kind /\ new.frames = count /\ new.depth = protect_depth
      /\ new.cstacktop = top /\ CalledAt(new) = ppTop
  BY Depths DEF CalledAt
<1> HIDE DEF new
<1>3. /\ n \in Nat /\ Len(ctx') = n + 1 /\ ctx' # <<>>
      /\ \A i \in 1 .. n : ctx'[i] = ctx[i]
      /\ ctx'[n + 1] = new
      /\ ctx' \in Seq(Context)
  BY <1>1, AppendProperties, LenProperties
<1>4. Top' = new
  <2>1. Last(ctx') = ctx'[Len(ctx')]
    BY <1>3, FrontProperties
  <2> QED
    BY <2>1, <1>3 DEF Top
<1>5. ~Unwinding /\ ~Unwinding'
  BY DEF Unwinding
<1>6. Links'
  <2>1. ctx'[1].frames = 0 /\ ctx'[1].depth = 0
    <3>1. CASE ctx = <<>>
      BY <3>1, <1>2, <1>3, <1>5, Depths DEF Accounts, AtRest
    <3>2. CASE ctx # <<>>
      <4>1. ctx[1].frames = 0 /\ ctx[1].depth = 0
        BY <3>2 DEF Accounts, Links
      <4>2. Len(ctx) \in Nat /\ Len(ctx) # 0
        BY <3>2, Depths
      <4>3. 1 \in 1 .. n
        BY <4>2
      <4> QED
        BY <4>1, <4>3, <1>3
    <3> QED
      BY <3>1, <3>2
  <2>2. ASSUME NEW i \in 1 .. n
        PROVE  /\ ctx'[i + 1].depth - ctx'[i].depth = CalledAt(ctx'[i + 1]) - ctx'[i].cstacktop
               /\ ctx'[i].kind = "eval" => /\ ctx'[i + 1].frames = ctx'[i].frames
                                           /\ ctx'[i + 1].depth = ctx'[i].depth
    <3>1. CASE i = n
      <4>1. ctx # <<>> /\ Top = ctx[n] /\ ctx'[i] = Top /\ ctx'[i + 1] = new
        BY <3>1, <1>3, Depths
      <4>2. InStep(protect_depth, ppTop) /\ AtRest(count, protect_depth)
        BY <1>5 DEF Accounts
      <4> QED
        BY <4>1, <4>2, <1>2 DEF InStep, AtRest
    <3>2. CASE i # n
      <4>1. i \in 1 .. n - 1 /\ ctx'[i] = ctx[i] /\ ctx'[i + 1] = ctx[i + 1]
        BY <3>2, <1>3
      <4> QED
        BY <4>1 DEF Accounts, Links
    <3> QED
      BY <3>1, <3>2
  <2>3. Len(ctx') - 1 = n
    BY <1>3
  <2> QED
    BY <2>1, <2>2, <2>3 DEF Links
<1>7. AtRest(count, protect_depth)'
  BY <1>2, <1>3, <1>4 DEF AtRest
<1>8. InStep(protect_depth, ppTop)'
  BY <1>2, <1>4, Depths DEF InStep
<1> QED
  BY <1>5, <1>6, <1>7, <1>8 DEF Accounts

\* The caller's context is the innermost one then.
LEMMA LeaveTop ==
    ASSUME TypeOK, ctx # <<>>, ctx' = Front(ctx)
    PROVE  /\ Len(ctx) \in Nat /\ Len(ctx) >= 1 /\ Top = ctx[Len(ctx)]
           /\ Len(ctx') = Len(ctx) - 1
           /\ \A i \in 1 .. Len(ctx) - 1 : ctx'[i] = ctx[i]
           /\ ctx' = <<>> <=> Len(ctx) = 1
           /\ ctx' # <<>> => Top' = ctx[Len(ctx) - 1]
<1>1. ctx \in Seq(Context)
  BY DEF TypeOK
<1>2. /\ ctx' \in Seq(Context) /\ Len(ctx') = Len(ctx) - 1
      /\ \A i \in 1 .. Len(ctx) - 1 : ctx'[i] = ctx[i]
  BY <1>1, FrontProperties
<1>3. Len(ctx) \in Nat /\ Len(ctx) >= 1 /\ Top = ctx[Len(ctx)]
  BY Depths
<1>4. ctx' = <<>> <=> Len(ctx) = 1
  BY <1>2, <1>3, EmptySeq
<1>5. ASSUME ctx' # <<>> PROVE Top' = ctx[Len(ctx) - 1]
  <2>1. Last(ctx') = ctx'[Len(ctx')]
    BY <1>2, <1>5, FrontProperties
  <2>2. Len(ctx) - 1 \in 1 .. Len(ctx) - 1
    <3> DEFINE n == Len(ctx)
    <3>1. n \in Nat /\ n >= 1 /\ n # 1
      BY <1>3, <1>4, <1>5
    <3> HIDE DEF n
    <3>2. n - 1 \in 1 .. n - 1
      BY <3>1
    <3> QED
      BY <3>2 DEF n
  <2>3. Last(ctx') = ctx[Len(ctx) - 1]
    BY <2>1, <2>2, <1>2
  <2> QED
    BY <2>3 DEF Top
<1> QED
  BY <1>2, <1>3, <1>4, <1>5

\* What the activation that ends had saved is what its caller goes on with.
LEMMA LeaveLinks ==
    ASSUME TypeOK, Links, ctx # <<>>, ctx' = Front(ctx),
           NEW f, NEW d, NEW c, f = Top.frames, d = Top.depth, c = CalledAt(Top)
    PROVE  Links' /\ AtRest(f, d)' /\ InStep(d, c)'
<1> DEFINE n == Len(ctx)
<1>1. /\ n \in Nat /\ n >= 1 /\ Top = ctx[n]
      /\ Len(ctx') = n - 1
      /\ \A i \in 1 .. n - 1 : ctx'[i] = ctx[i]
      /\ ctx' = <<>> <=> n = 1
      /\ ctx' # <<>> => Top' = ctx[n - 1]
  BY LeaveTop
<1>2. /\ ctx[1].frames = 0 /\ ctx[1].depth = 0
      /\ \A i \in 1 .. n - 1 :
            /\ ctx[i + 1].depth - ctx[i].depth = CalledAt(ctx[i + 1]) - ctx[i].cstacktop
            /\ ctx[i].kind = "eval" => /\ ctx[i + 1].frames = ctx[i].frames
                                       /\ ctx[i + 1].depth = ctx[i].depth
  BY DEF Links
<1> HIDE DEF n
<1>4. Links'
  <2>1. ctx' # <<>> => ctx'[1].frames = 0 /\ ctx'[1].depth = 0
    BY <1>1, <1>2
  <2>2. \A i \in 1 .. Len(ctx') - 1 :
            /\ ctx'[i + 1].depth - ctx'[i].depth = CalledAt(ctx'[i + 1]) - ctx'[i].cstacktop
            /\ ctx'[i].kind = "eval" => /\ ctx'[i + 1].frames = ctx'[i].frames
                                        /\ ctx'[i + 1].depth = ctx'[i].depth
    <3> TAKE i \in 1 .. Len(ctx') - 1
    <3>1. i \in 1 .. n - 1 /\ ctx'[i] = ctx[i] /\ ctx'[i + 1] = ctx[i + 1]
      BY <1>1
    <3> QED
      BY <3>1, <1>2
  <2> QED
    BY <2>1, <2>2 DEF Links
<1>5. ctx' = <<>> => f = 0 /\ d = 0
  BY <1>1, <1>2
<1>6. ASSUME ctx' # <<>>
      PROVE  /\ d - Top'.depth = c - Top'.cstacktop
             /\ Top'.kind = "eval" => f = Top'.frames /\ d = Top'.depth
  <2>1. n - 1 \in 1 .. n - 1 /\ n - 1 + 1 = n /\ Top' = ctx[n - 1]
    BY <1>1, <1>6
  <2> QED
    BY <2>1, <1>1, <1>2
<1> QED
  BY <1>4, <1>5, <1>6 DEF AtRest, InStep

\* Recoveries are called by Zig code, not at the prompt and not from R code.
LEMMA BelowRecovery ==
    ASSUME SafetyInv, ctx # <<>>, Top.kind = "recovery", ctx' = Front(ctx)
    PROVE  ctx' # <<>> /\ Top'.kind # "eval"
<1> DEFINE n == Len(ctx)
<1>0. TypeOK
  BY DEF SafetyInv, TypeInv
<1>1. /\ n \in Nat /\ n >= 1 /\ Top = ctx[n]
      /\ Len(ctx') = n - 1
      /\ \A i \in 1 .. n - 1 : ctx'[i] = ctx[i]
      /\ ctx' = <<>> <=> n = 1
      /\ ctx' # <<>> => Top' = ctx[n - 1]
  BY <1>0, LeaveTop
<1>2. n > 1 /\ ctx[n - 1].kind # "eval"
  BY <1>1 DEF SafetyInv, Recoveries
<1> QED
  BY <1>1, <1>2

\* Steps of the innermost activation, which change both depths alike.
LEMMA StayAccounts ==
    ASSUME TypeOK, Accounts, UNCHANGED ctx, ~Unwinding, ~Unwinding',
           mode' = "run" => mode = "run",
           AtRest(count, protect_depth)',
           mode' = "run" => protect_depth' - protect_depth = ppTop' - ppTop
                            /\ protect_depth' \in Int /\ ppTop' \in Int
    PROVE  Accounts'
<1>1. Top' = Top /\ Links'
  BY SameContexts DEF Accounts
<1>2. mode' = "run" => InStep(protect_depth, ppTop)'
  <2> HAVE mode' = "run"
  <2>1. InStep(protect_depth, ppTop)
    BY DEF Accounts
  <2>2. ctx # <<>> => Top.depth \in Int /\ Top.cstacktop \in Int
    BY Depths, OpenedProperties
  <2>3. /\ protect_depth \in Int /\ ppTop \in Int
        /\ protect_depth' \in Int /\ ppTop' \in Int
        /\ protect_depth' - protect_depth = ppTop' - ppTop
    BY Depths
  <2>4. (ctx' # <<>> => protect_depth' - Top'.depth = ppTop' - Top'.cstacktop)
    <3> HAVE ctx' # <<>>
    <3> DEFINE d == Top.depth
               c == Top.cstacktop
    <3>1. ctx # <<>> /\ Top' = Top /\ protect_depth - d = ppTop - c
      BY <1>1, <2>1 DEF InStep
    <3>2. d \in Int /\ c \in Int
      BY <3>1, <2>2
    <3>3. Top'.depth = d /\ Top'.cstacktop = c
      BY <3>1
    <3> HIDE DEF d, c
    <3>4. protect_depth' - d = ppTop' - c
      BY <3>1, <3>2, <2>3
    <3> QED
      BY <3>3, <3>4
  <2> QED
    BY <2>4 DEF InStep
<1>3. mode' # "rollback"
  BY DEF Unwinding
<1> QED
  BY <1>1, <1>2, <1>3 DEF Accounts

-----------------------------------------------------------------------------
(***************************************************************************)
(* One lemma per way in which the accounts change.                         *)
(***************************************************************************)
LEMMA InitAccounts == Init => Accounts
<1> SUFFICES ASSUME Init PROVE Accounts
  OBVIOUS
<1>1. ctx = <<>> /\ Len(ctx) = 0 /\ mode = "run" /\ count = 0 /\ protect_depth = 0
  BY EmptySeq DEF Init
<1> QED
  BY <1>1 DEF Accounts, Links, AtRest, InStep, Unwinding

\* cleanHandler(FALSE): the depths are those that the boundary saved, and the
\* token it stood on is gone.
LEMMA ReturnBoundaryAccounts ==
    ASSUME TypeInv, Accounts, ReturnBoundary
    PROVE  Accounts' /\ protect_depth' = protect_depth
<1>0. TypeOK /\ Links
  BY DEF TypeInv, Accounts
<1>1. /\ ctx # <<>> /\ mode = "run" /\ mode' = "run" /\ Top.kind = "boundary"
      /\ ctx' = Front(ctx) /\ boundaries' = Front(boundaries)
      /\ ppTop = Top.cstacktop /\ ppTop' = ppTop - 1
      /\ count' = Top.frames /\ protect_depth' = Last(boundaries).protect_depth
  BY DEF ReturnBoundary, Running, Settled, LeaveContext
<1>2. Last(boundaries) = [frame_count |-> Top.frames, protect_depth |-> Top.depth]
  BY <1>1, LeaveNests
<1>3. PICK f, d, c : f = Top.frames /\ d = Top.depth /\ c = CalledAt(Top)
  OBVIOUS
<1>4. Links' /\ AtRest(f, d)' /\ InStep(d, c)'
  BY <1>0, <1>1, <1>3, LeaveLinks
<1>5. count' = f /\ protect_depth' = d /\ ppTop' = c
  BY <1>1, <1>2, <1>3 DEF CalledAt
<1>6. AtRest(count, protect_depth)' /\ InStep(protect_depth, ppTop)'
  BY <1>4, <1>5 DEF AtRest, InStep
<1>7. protect_depth' = protect_depth
  <2>1. protect_depth - Top.depth = ppTop - Top.cstacktop
    BY <1>1 DEF Accounts, InStep
  <2>2. /\ protect_depth \in Int /\ ppTop \in Int
        /\ Top.depth \in Int /\ Top.cstacktop \in Int
    BY <1>0, <1>1, Depths, OpenedProperties
  <2> QED
    BY <2>1, <2>2, <1>1, <1>3, <1>5
<1>8. ~Unwinding'
  BY <1>1 DEF Unwinding
<1> QED
  BY <1>1, <1>4, <1>6, <1>7, <1>8 DEF Accounts

\* A recovery that did not fail restores nothing: its body left the PROTECT
\* stack as it was, and therefore protect_depth.
LEMMA ReturnRecoveryAccounts ==
    ASSUME SafetyInv, Accounts, ReturnRecovery
    PROVE  Accounts'
<1>0. TypeOK /\ Links
  BY DEF SafetyInv, TypeInv, Accounts
<1>1. /\ ctx # <<>> /\ mode = "run" /\ mode' = "run" /\ Top.kind = "recovery"
      /\ ctx' = Front(ctx) /\ ppTop = Top.cstacktop
      /\ UNCHANGED <<count, protect_depth, ppTop>>
  BY DEF ReturnRecovery, Running, Settled, LeaveContext, cleanupVars
<1>2. PICK f, d, c : f = Top.frames /\ d = Top.depth /\ c = CalledAt(Top)
  OBVIOUS
<1>3. Links' /\ InStep(d, c)'
  BY <1>0, <1>1, <1>2, LeaveLinks
<1>4. protect_depth = d /\ ppTop = c
  <2>1. protect_depth - Top.depth = ppTop - Top.cstacktop
    BY <1>1 DEF Accounts, InStep
  <2>2. /\ protect_depth \in Int /\ ppTop \in Int
        /\ Top.depth \in Int /\ Top.cstacktop \in Int
    BY <1>0, <1>1, Depths, OpenedProperties
  <2>3. protect_depth = Top.depth
    <3>1. ppTop = Top.cstacktop
      BY <1>1
    <3> QED
      BY <2>1, <2>2, <3>1
  <2>4. c = Top.cstacktop
    <3>1. Top.kind # "boundary"
      BY <1>1
    <3> QED
      BY <2>2, <3>1, <1>2 DEF CalledAt
  <2> QED
    BY <2>3, <2>4, <1>1, <1>2
<1>5. InStep(protect_depth, ppTop)'
  BY <1>1, <1>3, <1>4 DEF InStep
<1>6. AtRest(count, protect_depth)'
  BY <1>1, BelowRecovery DEF AtRest
<1>7. ~Unwinding'
  BY <1>1 DEF Unwinding
<1> QED
  BY <1>1, <1>3, <1>5, <1>6, <1>7 DEF Accounts

\* R code ends, or catches a jump: what it started with is what it saved.
LEMMA EndEvalAccounts ==
    ASSUME TypeOK, Accounts, ctx # <<>>, Top.kind = "eval", mode \in {"run", "jump"},
           mode' = "run", ctx' = Front(ctx), UNCHANGED <<count, protect_depth>>,
           ppTop' = Top.cstacktop
    PROVE  Accounts' /\ count = Top.frames /\ protect_depth = Top.depth
<1>1. PICK f, d, c : f = Top.frames /\ d = Top.depth /\ c = CalledAt(Top)
  OBVIOUS
<1>2. Links' /\ AtRest(f, d)' /\ InStep(d, c)'
  BY <1>1, LeaveLinks DEF Accounts
<1>3. ~Unwinding /\ ~Unwinding'
  BY DEF Unwinding
<1>4. count = f /\ protect_depth = d
  BY <1>1, <1>3 DEF Accounts, AtRest
<1>5. ppTop' = c
  <2>1. Top.cstacktop \in Int
    BY Depths, OpenedProperties
  <2> QED
    BY <2>1, <1>1 DEF CalledAt
<1>6. AtRest(count, protect_depth)' /\ InStep(protect_depth, ppTop)'
  BY <1>2, <1>4, <1>5 DEF AtRest, InStep
<1> QED
  BY <1>1, <1>2, <1>3, <1>4, <1>6 DEF Accounts

\* A jump stops at a boundary or a recovery: what the activation saved becomes
\* the target of the unwind.
LEMMA JumpAccounts ==
    ASSUME SafetyInv, Accounts, ctx # <<>>, ctx' = Front(ctx),
           \/ Top.kind = "boundary" /\ mode' = "boundary"
           \/ Top.kind = "recovery" /\ mode' = "rollback",
           target'.frames = Top.frames, target'.depth = Top.depth,
           target'.cont = Top.cstacktop, ppTop' = Top.cstacktop
    PROVE  Accounts'
<1>0. TypeOK /\ Links
  BY DEF SafetyInv, TypeInv, Accounts
<1>1. PICK f, d, c : f = Top.frames /\ d = Top.depth /\ c = CalledAt(Top)
  OBVIOUS
<1>2. Links' /\ AtRest(f, d)' /\ InStep(d, c)'
  BY <1>0, <1>1, LeaveLinks
<1>3. Unwinding' /\ mode' # "run"
  BY DEF Unwinding
<1>4. AtRest(target.frames, target.depth)'
  BY <1>1, <1>2 DEF AtRest
<1>5. mode' = "rollback" => ppTop' = target'.cont /\ InStep(target.depth, target.cont)'
  <2> HAVE mode' = "rollback"
  <2>1. Top.kind = "recovery" /\ Top.cstacktop \in Int
    BY <1>0, Depths, OpenedProperties
  <2>2. target'.cont = c /\ target'.depth = d
    BY <2>1, <1>1 DEF CalledAt
  <2> QED
    BY <2>2, <1>2 DEF InStep
<1> QED
  BY <1>2, <1>3, <1>4, <1>5 DEF Accounts

\* In a rollback an iteration of the loop leaves R's PROTECT stack alone.
LEMMA FireAccounts ==
    ASSUME TypeOK, Accounts, Fire
    PROVE  Accounts'
<1>1. Unwinding /\ UNCHANGED <<recovering_condition, ctx, mode, target>>
  BY DEF Fire
<1>2. Top' = Top /\ Links' /\ (Unwinding' <=> Unwinding)
  BY <1>1, SameContexts DEF Accounts, Unwinding
<1>3. mode = "rollback" => ppTop' = ppTop
  <2> HAVE mode = "rollback"
  <2>1. recovering_condition
    BY DEF TypeOK
  <2>2. ppTop \in Int
    BY DEF TypeOK
  <2>3. TopAfter(stack[count - 1].generation) = ppTop
    BY <2>1, <2>2 DEF TopAfter
  <2> QED
    BY <2>3 DEF Fire
<1>4. AtRest(target.frames, target.depth)'
  BY <1>1, <1>2 DEF Accounts, AtRest
<1>5. mode = "rollback" => ppTop' = target'.cont /\ InStep(target.depth, target.cont)'
  BY <1>1, <1>2, <1>3 DEF Accounts, InStep
<1>6. mode' = mode /\ mode # "run"
  BY <1>1 DEF Unwinding
<1> QED
  BY <1>1, <1>2, <1>4, <1>5, <1>6 DEF Accounts

\* The loop stops at the frames of the target, never below them.
LEMMA FinishAccounts ==
    ASSUME SafetyInv, Accounts, FinishUnwind
    PROVE  /\ Accounts'
           /\ count' = target.frames /\ protect_depth' = target.depth
           /\ mode = "rollback" => ppTop' = target.cont
<1>0. TypeOK /\ Floors
  BY DEF SafetyInv, TypeInv
<1>1. /\ Unwinding /\ count <= target.frames /\ protect_depth' = target.depth
      /\ mode' = IF mode = "boundary" THEN "jump" ELSE "run"
      /\ UNCHANGED <<count, ctx, ppTop>>
  BY DEF FinishUnwind
<1>2. count = target.frames
  BY <1>0, <1>1, Depths DEF Floors, Floor
<1>3. Top' = Top /\ Links'
  BY <1>1, SameContexts DEF Accounts
<1>4. ~Unwinding' /\ (mode' = "run" => mode = "rollback") /\ mode' # "rollback"
  BY <1>1 DEF Unwinding
<1>5. AtRest(count, protect_depth)'
  BY <1>1, <1>2, <1>3 DEF Accounts, AtRest
<1>6. mode = "rollback" => ppTop' = target.cont /\ InStep(protect_depth, ppTop)'
  BY <1>1, <1>3 DEF Accounts, InStep
<1> QED
  BY <1>1, <1>2, <1>3, <1>4, <1>5, <1>6 DEF Accounts

-----------------------------------------------------------------------------
(***************************************************************************)
(* The theorems.                                                           *)
(***************************************************************************)
\* Every step keeps the accounts.
LEMMA NextAccounts ==
    ASSUME CrossRelease = FALSE, SafetyInv, Accounts, [Next]_vars
    PROVE  Accounts'
<1>0. TypeInv /\ TypeOK /\ TypeOK'
  BY NextTypeInv DEF SafetyInv, TypeInv
<1> DEFINE Ints == protect_depth' \in Int /\ ppTop' \in Int
<1>ints. Ints
  BY <1>0 DEF TypeOK
<1>1. CASE UNCHANGED vars
  <2>1. UNCHANGED <<ctx, count, protect_depth, ppTop, mode, target>>
    BY <1>1 DEF vars, cleanupVars
  <2>2. Top' = Top /\ Links' /\ (Unwinding' <=> Unwinding)
    BY <2>1, SameContexts DEF Accounts, Unwinding
  <2> QED
    BY <2>1, <2>2 DEF Accounts, AtRest, InStep
<1>2. CASE EnterBoundary
  <2>1. /\ mode = "run" /\ mode' = "run" /\ EnterContext("boundary", ppTop + 1)
        /\ ppTop' = ppTop + 1 /\ ppTop + 1 \in Int /\ UNCHANGED <<count, protect_depth>>
    BY <1>0, <1>2, Depths DEF EnterBoundary, ZigRuns, RRuns, Running
  <2> QED
    BY <1>0, <2>1, EnterAccounts
<1>3. ASSUME NEW kind \in {"recovery", "eval"},
             ZigRuns, EnterContext(kind, ppTop), UNCHANGED <<cleanupVars, ppTop, mode>>
      PROVE  Accounts'
  <2>1. /\ mode = "run" /\ mode' = "run" /\ UNCHANGED <<count, protect_depth, ppTop>>
        /\ ppTop \in Int /\ ppTop = ppTop + (IF kind = "boundary" THEN 1 ELSE 0)
    BY <1>0, <1>3, Depths DEF ZigRuns, Running, cleanupVars
  <2> QED
    BY <1>0, <1>3, <2>1, EnterAccounts
<1>4. CASE EnterRecovery \/ EnterEval
  BY <1>3, <1>4 DEF EnterRecovery, EnterEval
<1>5. CASE ReturnBoundary
  BY <1>0, <1>5, ReturnBoundaryAccounts
<1>6. CASE ReturnRecovery
  BY <1>6, ReturnRecoveryAccounts
<1>7. CASE ReturnEval
  <2>1. /\ ctx # <<>> /\ Top.kind = "eval" /\ mode = "run" /\ mode' = "run"
        /\ ctx' = Front(ctx) /\ UNCHANGED <<count, protect_depth, ppTop>>
    BY <1>7 DEF ReturnEval, Running, LeaveContext, cleanupVars
  <2>2. ppTop = Top.cstacktop
    <3>1. protect_depth - Top.depth = ppTop - Top.cstacktop /\ protect_depth = Top.depth
      BY <2>1 DEF Accounts, InStep, AtRest, Unwinding
    <3>2. ppTop \in Int /\ Top.depth \in Int /\ Top.cstacktop \in Int
      BY <1>0, <2>1, Depths, OpenedProperties
    <3> QED
      BY <3>1, <3>2
  <2> QED
    BY <1>0, <2>1, <2>2, EndEvalAccounts
<1>8. CASE JumpToEval
  <2>1. /\ ctx # <<>> /\ Top.kind = "eval" /\ mode = "jump" /\ mode' = "run"
        /\ ctx' = Front(ctx) /\ UNCHANGED <<count, protect_depth>> /\ ppTop' = Top.cstacktop
    BY <1>8 DEF JumpToEval, Jumping, LeaveContext, cleanupVars
  <2> QED
    BY <1>0, <2>1, EndEvalAccounts
<1>9. CASE BoundaryOverflow \/ PushOverflow \/ Raise \/ JumpToTopLevel
  <2>1. /\ UNCHANGED <<ctx, count, protect_depth>>
        /\ ~Unwinding /\ ~Unwinding'
        /\ mode' = "run" => ctx = <<>>
    BY <1>9 DEF BoundaryOverflow, PushOverflow, Raise, JumpToTopLevel, ZigRuns, RRuns,
                Running, Unwinding, cleanupVars
  <2>2. Top' = Top /\ Links'
    BY <2>1, SameContexts DEF Accounts
  <2>3. mode' # "rollback" /\ AtRest(count, protect_depth)'
    BY <2>1, <2>2 DEF Accounts, AtRest, Unwinding
  <2>4. mode' = "run" => InStep(protect_depth, ppTop)'
    BY <2>1 DEF InStep
  <2> QED
    BY <2>1, <2>2, <2>3, <2>4 DEF Accounts
<1>10. ASSUME UNCHANGED <<ctx, mode>>, ZigRuns,
              protect_depth' - protect_depth = ppTop' - ppTop
       PROVE  Accounts'
  <2>1. ctx # <<>> /\ Top.kind # "eval" /\ mode = "run" /\ mode' = "run" /\ Top' = Top
    BY <1>10, SameContexts DEF ZigRuns, Running
  <2>2. AtRest(count, protect_depth)'
    BY <1>10, <2>1 DEF AtRest
  <2>3. ~Unwinding /\ ~Unwinding'
    BY <2>1 DEF Unwinding
  <2> QED
    BY <1>0, <1>10, <1>ints, <2>2, <2>3, StayAccounts
<1>11. ASSUME NEW home \in InReach, NEW kind \in Kinds, Push(home, kind) PROVE Accounts'
  <2>1. protect_depth' - protect_depth = ppTop' - ppTop
    BY <1>0, <1>11, Depths DEF Push
  <2> QED
    BY <1>10, <1>11, <2>1 DEF Push
<1>12. ASSUME NEW g \in Registered, Release(g) PROVE Accounts'
  <2>1. ZigRuns /\ UNCHANGED <<ctx, mode>> /\ mode = "run"
        /\ protect_depth' = DepthAfter(g) /\ ppTop' = TopAfter(g)
    BY <1>12 DEF Release, ZigRuns, Running
  <2>2. ~recovering_condition
    BY <1>0, <2>1 DEF TypeOK
  <2>3. protect_depth' - protect_depth = ppTop' - ppTop
    BY <1>0, <2>1, <2>2, Depths DEF DepthAfter, TopAfter
  <2> QED
    BY <1>10, <2>1, <2>3
<1>13. ASSUME NEW g \in Registered, Pop(g) PROVE Accounts'
  <2>1. protect_depth' - protect_depth = ppTop' - ppTop
    BY <1>0, <1>13, Depths DEF Pop
  <2> QED
    BY <1>10, <1>13, <2>1 DEF Pop
<1>14. CASE Protect \/ Unprotect
  <2>1. protect_depth' - protect_depth = ppTop' - ppTop
    BY <1>0, <1>14, Depths DEF Protect, Unprotect
  <2> QED
    BY <1>10, <1>14, <2>1 DEF Protect, Unprotect
<1>15. CASE JumpToBoundary
  <2>1. /\ ctx # <<>> /\ Top.kind = "boundary" /\ ctx' = Front(ctx) /\ mode' = "boundary"
        /\ boundaries' = Front(boundaries) /\ ppTop' = Top.cstacktop
        /\ target'.frames = Last(boundaries).frame_count
        /\ target'.depth = Last(boundaries).protect_depth /\ target'.cont = Top.cstacktop
    BY <1>15 DEF JumpToBoundary, Jumping, LeaveContext
  <2>2. Last(boundaries) = [frame_count |-> Top.frames, protect_depth |-> Top.depth]
    BY <1>0, <2>1, LeaveNests
  <2>3. target'.frames = Top.frames /\ target'.depth = Top.depth
    BY <2>1, <2>2
  <2> QED
    BY <2>1, <2>3, JumpAccounts
<1>16. CASE JumpToRecovery
  <2>1. /\ ctx # <<>> /\ Top.kind = "recovery" /\ ctx' = Front(ctx) /\ mode' = "rollback"
        /\ ppTop' = Top.cstacktop /\ target'.frames = Top.frames
        /\ target'.depth = Top.depth /\ target'.cont = Top.cstacktop
    BY <1>16 DEF JumpToRecovery, Jumping, LeaveContext
  <2> QED
    BY <2>1, JumpAccounts
<1>17. CASE Fire
  BY <1>0, <1>17, FireAccounts
<1>18. CASE FinishUnwind
  BY <1>18, FinishAccounts
<1> QED
  BY <1>1, <1>2, <1>4, <1>5, <1>6, <1>7, <1>8, <1>9, <1>11, <1>12, <1>13, <1>14, <1>15,
     <1>16, <1>17, <1>18 DEF Next, Unwind

\* Hence both invariants hold of every state the program can reach.
LEMMA AccountsAlways ==
    ASSUME CrossRelease = FALSE
    PROVE  Spec => [](SafetyInv /\ Accounts)
<1>1. SafetyInv /\ Accounts /\ [Next]_vars => SafetyInv' /\ Accounts'
  BY NextSafetyInv, NextAccounts
<1> QED
  BY <1>1, InitSafetyInv, InitAccounts, PTL DEF Spec

\* Where a recovery, R code or the top level handles an error, the frames, the
\* tracked depth and R's PROTECT stack are what they were before.
THEOREM RestoredWhereCaughtAlways ==
    ASSUME CrossRelease = FALSE
    PROVE  Spec => RestoredWhereCaught
<1> DEFINE Restored ==
       /\ mode = "rollback" /\ mode' = "run" =>
             count' = target.frames /\ protect_depth' = target.depth /\ ppTop' = target.cont
       /\ Jumping("eval") /\ mode' = "run" =>
             count' = Top.frames /\ protect_depth' = Top.depth /\ ppTop' = Top.cstacktop
       /\ mode = "jump" /\ ctx = <<>> /\ mode' = "run" =>
             count' = 0 /\ protect_depth' = 0
<1>1. ASSUME SafetyInv, Accounts, Next PROVE Restored
  <2>1. CASE FinishUnwind
    <3>1. Unwinding
      BY <2>1 DEF FinishUnwind
    <3> QED
      BY <1>1, <2>1, <3>1, FinishAccounts DEF Unwinding, Jumping
  <2>2. CASE JumpToEval
    <3>1. /\ ctx # <<>> /\ Top.kind = "eval" /\ mode = "jump" /\ mode' = "run"
          /\ ctx' = Front(ctx) /\ UNCHANGED <<count, protect_depth>> /\ ppTop' = Top.cstacktop
      BY <2>2 DEF JumpToEval, Jumping, LeaveContext, cleanupVars
    <3>2. count = Top.frames /\ protect_depth = Top.depth
      BY <1>1, <3>1, EndEvalAccounts DEF SafetyInv, TypeInv
    <3> QED
      BY <3>1, <3>2
  <2>3. CASE JumpToTopLevel
    <3>1. mode = "jump" /\ ctx = <<>> /\ UNCHANGED <<count, protect_depth>>
      BY <2>3 DEF JumpToTopLevel, cleanupVars
    <3>2. count = 0 /\ protect_depth = 0
      BY <1>1, <3>1 DEF Accounts, AtRest, Unwinding
    <3> QED
      BY <3>1, <3>2 DEF Jumping
  <2>4. CASE \/ EnterBoundary \/ BoundaryOverflow \/ EnterRecovery \/ EnterEval
             \/ ReturnBoundary \/ ReturnRecovery \/ ReturnEval \/ PushOverflow
             \/ Protect \/ Unprotect \/ Raise
             \/ \E home \in InReach, kind \in Kinds : Push(home, kind)
             \/ \E g \in Registered : Release(g) \/ Pop(g)
    <3>1. mode = "run"
      BY <2>4 DEF EnterBoundary, BoundaryOverflow, EnterRecovery, EnterEval, ReturnBoundary,
                  ReturnRecovery, ReturnEval, PushOverflow, Protect, Unprotect, Raise, Push,
                  Release, Pop, ZigRuns, RRuns, Running
    <3> QED
      BY <3>1 DEF Jumping
  <2>5. CASE JumpToBoundary \/ JumpToRecovery
    BY <2>5 DEF JumpToBoundary, JumpToRecovery, Jumping
  <2>6. CASE Fire
    BY <2>6 DEF Fire, Unwinding, Jumping
  <2> QED
    BY <1>1, <2>1, <2>2, <2>3, <2>4, <2>5, <2>6 DEF Next, Unwind
<1>2. SafetyInv /\ Accounts /\ [Next]_vars => [Restored]_vars
  BY <1>1
<1>3. Spec => [][Restored]_vars
  BY <1>2, AccountsAlways, PTL DEF Spec
<1> QED
  BY <1>3 DEF RestoredWhereCaught

\* A boundary that returns leaves its caller's frames and tracked depth alone.
THEOREM ReturnKeepsFramesAlways ==
    ASSUME CrossRelease = FALSE
    PROVE  Spec => ReturnKeepsFrames
<1> DEFINE Kept == boundaries' # boundaries /\ mode = "run" /\ Len(boundaries') < Len(boundaries) =>
                      count' = count /\ protect_depth' = protect_depth
<1>1. ASSUME SafetyInv, Accounts, Next PROVE Kept
  <2> SUFFICES ASSUME boundaries' # boundaries, mode = "run", Len(boundaries') < Len(boundaries)
               PROVE  count' = count /\ protect_depth' = protect_depth
    OBVIOUS
  <2>0. TypeInv /\ TypeInv' /\ boundaries \in Seq(Boundary) /\ Len(boundaries) \in Nat
    BY <1>1, NextTypeInv, LenProperties DEF SafetyInv, TypeInv, TypeOK
  <2>1. EnterBoundary \/ ReturnBoundary
    BY <1>1 DEF Next, Unwind, BoundaryOverflow, EnterRecovery, EnterEval, ReturnRecovery,
                ReturnEval, Push, PushOverflow, Release, Pop, Protect, Unprotect, Raise,
                JumpToTopLevel, JumpToEval, JumpToBoundary, JumpToRecovery, Fire,
                FinishUnwind, Unwinding, Jumping, cleanupVars
  <2>2. ~EnterBoundary
    <3> SUFFICES ASSUME EnterBoundary PROVE FALSE
      OBVIOUS
    <3>1. boundaries' = Append(boundaries, [frame_count |-> count,
                                            protect_depth |-> protect_depth])
      BY DEF EnterBoundary
    <3>2. [frame_count |-> count, protect_depth |-> protect_depth] \in Boundary
      BY <2>0 DEF TypeInv, TypeOK, Boundary
    <3>3. Len(boundaries') = Len(boundaries) + 1
      BY <2>0, <3>1, <3>2, AppendProperties
    <3> QED
      BY <2>0, <3>3
  <2> QED
    BY <1>1, <2>0, <2>1, <2>2, ReturnBoundarySafe, ReturnBoundaryAccounts
<1>2. SafetyInv /\ Accounts /\ [Next]_vars => [Kept]_vars
  BY <1>1
<1>3. Spec => [][Kept]_vars
  BY <1>2, AccountsAlways, PTL DEF Spec
<1> QED
  BY <1>3 DEF ReturnKeepsFrames

-----------------------------------------------------------------------------
(***************************************************************************)
(* The boundary stack and R's contexts.                                    *)
(***************************************************************************)
\* Every saved boundary is some context's.
LEMMA OpenedByContext ==
    ASSUME TypeInv, NEW k \in 1 .. Len(boundaries)
    PROVE  \E i \in 1 .. Len(ctx) : ctx[i].kind = "boundary" /\ ctx[i].opened + 1 = k
<1> DEFINE n == Len(ctx)
           Above == {i \in 1 .. n : ctx[i].opened >= k}
<1>1. /\ n \in Nat /\ (ctx = <<>> <=> n = 0)
      /\ \A i \in 1 .. n : ctx[i].opened \in Nat /\ Opened(ctx[i]) \in Nat
  BY Basics, OpenedProperties DEF TypeInv
<1>2. /\ ctx # <<>> => ctx[1].opened = 0 /\ Len(boundaries) = Opened(ctx[n])
      /\ ctx = <<>> => Len(boundaries) = 0
      /\ \A i \in 1 .. n - 1 : ctx[i + 1].opened = Opened(ctx[i])
  BY DEF TypeInv, Nesting
<1> HIDE DEF n
<1>3. n >= 1 /\ ctx # <<>> /\ k \in Nat /\ k >= 1
  <2>1. Len(boundaries) \in Nat
    BY LenProperties DEF TypeInv, TypeOK
  <2> QED
    BY <2>1, <1>1, <1>2
<1>4. PICK i \in 1 .. n : ctx[i].opened < k /\ Opened(ctx[i]) >= k
  <2>1. CASE Above = {}
    <3>1. n \in 1 .. n /\ ctx[n].opened < k
      BY <2>1, <1>1, <1>3
    <3>2. Opened(ctx[n]) >= k
      BY <1>2, <1>3
    <3> QED
      BY <3>1, <3>2
  <2>2. CASE Above # {}
    <3>1. Above \subseteq Nat
      BY <1>1
    <3>2. PICK m \in Above : \A y \in Above : ~ (<<y, m>> \in OpToRel(<, Nat))
      BY <3>1, <2>2, NatLessThanWellFounded, WFMin
    <3>3. \A y \in Above : ~(y < m)
      BY <3>1, <3>2 DEF OpToRel
    <3>4. m \in 1 .. n /\ ctx[m].opened >= k /\ m # 1
      BY <1>1, <1>2, <1>3
    <3>5. m - 1 \in 1 .. n - 1 /\ m - 1 \in 1 .. n /\ m - 1 < m /\ m - 1 + 1 = m
      BY <3>4, <1>1
    <3>6. ~(ctx[m - 1].opened >= k)
      BY <3>3, <3>5
    <3>7. ctx[m - 1].opened < k
      BY <3>5, <3>6, <1>1, <1>3
    <3>8. Opened(ctx[m - 1]) >= k
      BY <3>4, <3>5, <1>2
    <3> QED
      BY <3>5, <3>7, <3>8
  <2> QED
    BY <2>1, <2>2
<1>5. ctx[i].kind = "boundary" /\ ctx[i].opened + 1 = k
  BY <1>1, <1>3, <1>4 DEF Opened
<1> QED
  BY <1>5 DEF n

\* R's boundary contexts and zigr's saved boundaries are as many, in the same
\* order, whatever callees do with their callers' frames.
THEOREM BoundariesFollowContextsAlways == Spec => []BoundariesFollowContexts
<1>1. ASSUME TypeInv PROVE BoundariesFollowContexts
  <2> DEFINE opened == {i \in DOMAIN ctx : ctx[i].kind = "boundary"}
             m == Len(boundaries)
             place == [i \in opened |-> ctx[i].opened + 1]
  <2>1. m \in Nat /\ DOMAIN ctx = 1 .. Len(ctx)
    BY <1>1, LenProperties DEF TypeInv, TypeOK
  <2>2. /\ Len(ctx) \in Nat
        /\ \A i \in 1 .. Len(ctx) : /\ ctx[i].opened \in Nat /\ Opened(ctx[i]) \in Nat
                                     /\ Opened(ctx[i]) >= ctx[i].opened
    BY <1>1, Basics, OpenedProperties DEF TypeInv
  <2>3. \A i \in opened : ctx[i].opened + 1 \in 1 .. m
    <3> TAKE i \in opened
    <3>1. i \in 1 .. Len(ctx) /\ Opened(ctx[i]) = ctx[i].opened + 1
      BY <2>1 DEF Opened
    <3>2. Len(ctx) \in 1 .. Len(ctx) /\ m = Opened(ctx[Len(ctx)])
      BY <3>1, <2>2, <1>1, Basics DEF TypeInv, Nesting
    <3>3. Opened(ctx[i]) <= m
      <4>1. CASE i = Len(ctx)
        BY <4>1, <3>2, <2>2
      <4>2. CASE i # Len(ctx)
        <5>1. Opened(ctx[i]) <= ctx[Len(ctx)].opened
          BY <4>2, <3>1, <3>2, <2>2, <1>1 DEF TypeInv, Nesting
        <5> QED
          BY <5>1, <3>1, <3>2, <2>2
      <4> QED
        BY <4>1, <4>2
    <3> QED
      BY <3>1, <3>3, <2>1, <2>2
  <2>4. \A i, j \in opened : place[i] = place[j] => i = j
    <3>1. ASSUME NEW i \in opened, NEW j \in opened, i < j
          PROVE  ctx[i].opened < ctx[j].opened
      <4>1. i \in 1 .. Len(ctx) /\ j \in 1 .. Len(ctx) /\ Opened(ctx[i]) = ctx[i].opened + 1
        BY <2>1 DEF Opened
      <4>2. Opened(ctx[i]) <= ctx[j].opened
        BY <4>1, <3>1, <1>1 DEF TypeInv, Nesting
      <4> QED
        BY <4>1, <4>2, <2>2
    <3> SUFFICES ASSUME NEW i \in opened, NEW j \in opened, place[i] = place[j]
                 PROVE  i = j
      OBVIOUS
    <3>2. /\ i \in 1 .. Len(ctx) /\ j \in 1 .. Len(ctx)
          /\ ctx[i].opened + 1 = ctx[j].opened + 1
      BY <2>1
    <3>3. ctx[i].opened = ctx[j].opened /\ ctx[i].opened \in Nat
      BY <3>2, <2>2
    <3>4. ~(i < j) /\ ~(j < i)
      BY <3>1, <3>3
    <3> QED
      BY <3>2, <3>4, <2>2
  <2>5. \A k \in 1 .. m : \E i \in opened : place[i] = k
    <3> TAKE k \in 1 .. m
    <3>1. PICK i \in 1 .. Len(ctx) : ctx[i].kind = "boundary" /\ ctx[i].opened + 1 = k
      BY <1>1, OpenedByContext
    <3> QED
      BY <3>1, <2>1
  <2>6. place \in Bijection(opened, 1 .. m)
    <3>1. place \in [opened -> 1 .. m]
      BY <2>3
    <3> HIDE DEF place, opened, m
    <3> QED
      BY <3>1, <2>4, <2>5, Fun_IsBij, Zenon
  <2>7. Cardinality(opened) = m
    <3> HIDE DEF place, opened, m
    <3>1. ExistsBijection(opened, 1 .. m)
      BY <2>6 DEF ExistsBijection
    <3>2. ExistsBijection(1 .. m, opened)
      BY <3>1, Fun_ExistsBijSymmetric
    <3> QED
      BY <2>1, <3>2, FS_CountingElements
  <2>8. \A i \in opened :
           boundaries[ctx[i].opened + 1] = [frame_count |-> ctx[i].frames,
                                            protect_depth |-> ctx[i].depth]
    BY <2>1, <1>1 DEF TypeInv, Nesting
  <2> QED
    BY <2>7, <2>8 DEF BoundariesFollowContexts
<1>2. Spec => []TypeInv
  BY InitTypeInv, NextTypeInv, PTL DEF Spec
<1> QED
  BY <1>1, <1>2, PTL

-----------------------------------------------------------------------------
(***************************************************************************)
(* Refinement.  A scope of Ownership remembers the next registration when  *)
(* it was entered, an activation of Cleanup the number of frames; Ages says *)
(* that both separate the same resources.                                  *)
(***************************************************************************)
\* Of the frames in use exactly the first f are of registrations before since.
Separates(f, since) ==
    /\ since \in 0 .. next_generation
    /\ \A s \in 0 .. count - 1 : s < f <=> stack[s].generation < since

Ages ==
    /\ \A i \in 1 .. Len(ctx) : Separates(ctx[i].frames, ctx[i].since)
    /\ Unwinding => Separates(target.frames, target.since)

\* The slots of fewer frames are among those of all.
LEMMA Fewer ==
    ASSUME NEW n \in Nat, NEW m \in 0 .. n
    PROVE  \A s \in 0 .. m - 1 : s \in 0 .. n - 1
  OBVIOUS

\* Fewer frames are separated as all of them were.
LEMMA StillSeparates ==
    ASSUME TypeOK, NEW f, NEW since, Separates(f, since), UNCHANGED next_generation,
           count' \in 0 .. count,
           \A s \in 0 .. count' - 1 : stack'[s].generation = stack[s].generation
    PROVE  Separates(f, since)'
<1>1. \A s \in 0 .. count' - 1 : s \in 0 .. count - 1
  BY Depths, Fewer
<1>2. since \in 0 .. next_generation'
  BY DEF Separates
<1>3. ASSUME NEW s \in 0 .. count' - 1
      PROVE  s < f <=> stack'[s].generation < since
  <2>1. s < f <=> stack[s].generation < since
    BY <1>1 DEF Separates
  <2> QED
    BY <2>1
<1> QED
  BY <1>2, <1>3 DEF Separates

LEMMA AgesShrink ==
    ASSUME TypeOK, TypeOK', Ages, UNCHANGED next_generation, count' \in 0 .. count,
           \A s \in 0 .. count' - 1 : stack'[s].generation = stack[s].generation,
           Len(ctx') <= Len(ctx), \A i \in 1 .. Len(ctx') : ctx'[i] = ctx[i],
           Unwinding' => \/ Unwinding /\ target' = target
                         \/ /\ ctx # <<>> /\ target'.frames = Top.frames
                            /\ target'.since = Top.since
    PROVE  Ages'
<1>1. ASSUME NEW i \in 1 .. Len(ctx') PROVE Separates(ctx[i].frames, ctx[i].since)'
  <2>1. i \in 1 .. Len(ctx) /\ ctx'[i] = ctx[i]
    BY Depths
  <2>2. PICK f, since : f = ctx[i].frames /\ since = ctx[i].since
    OBVIOUS
  <2>3. Separates(f, since)'
    BY <2>1, <2>2, StillSeparates DEF Ages
  <2> QED
    BY <2>1, <2>2, <2>3 DEF Separates
<1>2. Unwinding' => Separates(target.frames, target.since)'
  <2> HAVE Unwinding'
  <2>1. PICK f, since : f = target'.frames /\ since = target'.since
    OBVIOUS
  <2>2. Separates(f, since)
    <3>1. CASE Unwinding /\ target' = target
      BY <2>1, <3>1 DEF Ages
    <3>2. CASE ctx # <<>> /\ target'.frames = Top.frames /\ target'.since = Top.since
      <4>1. Top = ctx[Len(ctx)] /\ Len(ctx) \in 1 .. Len(ctx)
        BY <3>2, Depths
      <4> QED
        BY <2>1, <3>2, <4>1 DEF Ages
    <3> QED
      BY <3>1, <3>2
  <2>3. Separates(f, since)'
    BY <2>2, StillSeparates
  <2> QED
    BY <2>1, <2>3 DEF Separates
<1> QED
  BY <1>1, <1>2 DEF Ages

\* An activation is entered above all frames and after all registrations.
LEMMA AgesEnter ==
    ASSUME SafetyInv, Ages, ~Unwinding', NEW kind \in {"boundary", "recovery", "eval"},
           NEW top \in Int, EnterContext(kind, top),
           UNCHANGED <<stack, count, next_generation>>
    PROVE  Ages'
<1> DEFINE n == Len(ctx)
           new == [kind |-> kind, cstacktop |-> top, frames |-> count,
                   depth |-> protect_depth, since |-> next_generation,
                   opened |-> Len(boundaries)]
<1>0. TypeOK /\ FramesByAge
  BY DEF SafetyInv, TypeInv
<1>1. new \in Context /\ ctx \in Seq(Context) /\ ctx' = Append(ctx, new)
  BY <1>0, SavedState DEF EnterContext, TypeOK
<1>2. new.frames = count /\ new.since = next_generation
  OBVIOUS
<1> HIDE DEF new
<1>3. /\ n \in Nat /\ Len(ctx') = n + 1
      /\ \A i \in 1 .. n : ctx'[i] = ctx[i]
      /\ ctx'[n + 1] = new
  BY <1>1, AppendProperties, LenProperties
<1>4. count \in Nat /\ next_generation \in Nat
  BY <1>0, Basics
<1>5. Separates(count, next_generation)
  BY <1>0, <1>4, Basics DEF Separates, FramesByAge
<1>6. ASSUME NEW i \in 1 .. n + 1 PROVE Separates(ctx'[i].frames, ctx'[i].since)
  <2>1. CASE i = n + 1
    BY <2>1, <1>2, <1>3, <1>5
  <2>2. CASE i # n + 1
    BY <2>2, <1>3 DEF Ages
  <2> QED
    BY <2>1, <2>2
<1> QED
  BY <1>3, <1>6 DEF Ages, Separates

\* A new frame is above, and its registration after, all that was saved.
LEMMA AgesPush ==
    ASSUME SafetyInv, Ages, NEW home \in InReach, NEW kind \in Kinds, Push(home, kind)
    PROVE  Ages'
<1>0. TypeOK /\ Floors
  BY DEF SafetyInv, TypeInv
<1>1. /\ mode = "run" /\ mode' = "run" /\ ctx' = ctx
      /\ count' = count + 1 /\ next_generation' = next_generation + 1
      /\ count < MAX_NESTING
      /\ stack' = [stack EXCEPT ![count] = [armed |-> TRUE, generation |-> next_generation]]
  BY DEF Push, ZigRuns, Running
<1>2. count \in Nat /\ next_generation \in Nat /\ MAX_NESTING \in Nat
      /\ \A s \in 0 .. count - 1 : s \in Slots /\ stack[s].generation \in Nat
  BY <1>0, Basics
<1>3. count \in Slots
  BY <1>1, <1>2 DEF Slots
<1>4. /\ stack'[count].generation = next_generation
      /\ \A s \in 0 .. count - 1 : stack'[s].generation = stack[s].generation
  BY <1>0, <1>1, <1>2, <1>3 DEF TypeOK
<1>5. ASSUME NEW i \in 1 .. Len(ctx) PROVE Separates(ctx[i].frames, ctx[i].since)'
  <2>1. ctx[i].frames \in Nat /\ ctx[i].frames <= count /\ Separates(ctx[i].frames, ctx[i].since)
    BY <1>0, Basics DEF Floors, Floor, Ages
  <2>2. ctx[i].since \in 0 .. next_generation /\ ctx'[i] = ctx[i]
    BY <2>1, <1>1 DEF Separates
  <2>3. ASSUME NEW s \in 0 .. count
        PROVE  s < ctx[i].frames <=> stack'[s].generation < ctx[i].since
    <3>1. CASE s = count
      BY <3>1, <2>1, <2>2, <1>2, <1>4
    <3>2. CASE s # count
      <4>1. s \in 0 .. count - 1
        BY <3>2, <1>2
      <4> QED
        BY <4>1, <2>1, <1>4 DEF Separates
    <3> QED
      BY <3>1, <3>2
  <2>4. ctx[i].since \in 0 .. next_generation' /\ count' - 1 = count
    <3>1. count' = count + 1 /\ next_generation' = next_generation + 1
      BY <1>1
    <3>2. count \in Nat /\ next_generation \in Nat
      BY <1>2
    <3> QED
      BY <3>1, <3>2, <2>2
  <2> QED
    BY <2>2, <2>3, <2>4 DEF Separates
<1>6. ~Unwinding'
  BY <1>1 DEF Unwinding
<1> QED
  BY <1>1, <1>5, <1>6 DEF Ages

\* Every step keeps frames and registrations separated alike.
LEMMA NextAges ==
    ASSUME CrossRelease = FALSE, SafetyInv, Ages, [Next]_vars
    PROVE  Ages'
<1>0. TypeInv /\ TypeInv' /\ TypeOK /\ TypeOK' /\ SafetyInv' /\ count \in Nat /\ Len(ctx) \in Nat
  BY NextTypeInv, NextSafetyInv, Depths DEF SafetyInv, TypeInv
<1>1. ASSUME UNCHANGED <<ctx, next_generation>>, count' \in 0 .. count,
             \A s \in 0 .. count' - 1 : stack'[s].generation = stack[s].generation,
             Unwinding' => Unwinding /\ target' = target
      PROVE  Ages'
  <2>1. Len(ctx') <= Len(ctx) /\ \A i \in 1 .. Len(ctx') : ctx'[i] = ctx[i]
    BY <1>0, <1>1
  <2>2. /\ count' \in 0 .. count /\ UNCHANGED next_generation
        /\ \A s \in 0 .. count' - 1 : stack'[s].generation = stack[s].generation
        /\ Unwinding' => Unwinding /\ target' = target
    BY <1>1
  <2> QED
    BY <1>0, <2>1, <2>2, AgesShrink
<1>2. CASE UNCHANGED vars
  <2>1. UNCHANGED <<stack, count, next_generation, ctx, mode, target>>
    BY <1>2 DEF vars, cleanupVars
  <2>2. count' \in 0 .. count /\ (Unwinding' => Unwinding)
    BY <1>0, <2>1 DEF Unwinding
  <2> QED
    BY <1>1, <2>1, <2>2
<1>3. CASE EnterBoundary \/ EnterRecovery \/ EnterEval
  <2>1. PICK kind \in {"boundary", "recovery", "eval"}, top \in Int : EnterContext(kind, top)
    <3>1. ppTop \in Int /\ ppTop + 1 \in Int
      BY <1>0, Depths
    <3> QED
      BY <1>3, <3>1 DEF EnterBoundary, EnterRecovery, EnterEval
  <2>2. ~Unwinding' /\ UNCHANGED <<stack, count, next_generation>>
    BY <1>3 DEF EnterBoundary, EnterRecovery, EnterEval, ZigRuns, RRuns, Running, Unwinding,
                cleanupVars
  <2> QED
    BY <2>1, <2>2, AgesEnter
<1>4. ASSUME ctx # <<>>, ctx' = Front(ctx), UNCHANGED <<stack, count, next_generation>>,
             Unwinding' => target'.frames = Top.frames /\ target'.since = Top.since
      PROVE  Ages'
  <2>1. Len(ctx') = Len(ctx) - 1 /\ \A i \in 1 .. Len(ctx) - 1 : ctx'[i] = ctx[i]
    BY <1>0, <1>4, LeaveTop
  <2>2. Len(ctx') <= Len(ctx) /\ \A i \in 1 .. Len(ctx') : ctx'[i] = ctx[i]
    BY <2>1, <1>0
  <2>3. count' \in 0 .. count
    BY <1>0, <1>4
  <2> QED
    BY <1>0, <1>4, <2>2, <2>3, AgesShrink
<1>5. CASE ReturnBoundary
  <2>1. count' = count
    BY <1>0, <1>5, ReturnBoundarySafe
  <2>2. /\ ctx # <<>> /\ ctx' = Front(ctx) /\ UNCHANGED <<stack, next_generation>>
        /\ ~Unwinding'
    BY <1>5 DEF ReturnBoundary, LeaveContext, Running, Unwinding
  <2> QED
    BY <1>4, <2>1, <2>2
<1>6. CASE ReturnRecovery \/ ReturnEval \/ JumpToEval
  BY <1>4, <1>6 DEF ReturnRecovery, ReturnEval, JumpToEval, LeaveContext, Running, Jumping,
                    Unwinding, cleanupVars
<1>7. CASE BoundaryOverflow \/ PushOverflow \/ Raise \/ JumpToTopLevel \/ Protect \/ Unprotect
  <2>1. UNCHANGED <<stack, count, next_generation, ctx>> /\ ~Unwinding'
    BY <1>7 DEF BoundaryOverflow, PushOverflow, Raise, JumpToTopLevel, Protect, Unprotect,
                ZigRuns, RRuns, Running, Unwinding, cleanupVars
  <2> QED
    BY <1>0, <1>1, <2>1
<1>8. CASE JumpToBoundary
  <2>1. /\ ctx # <<>> /\ Top.kind = "boundary" /\ ctx' = Front(ctx)
        /\ boundaries' = Front(boundaries) /\ UNCHANGED <<stack, count, next_generation>>
        /\ target'.frames = Last(boundaries).frame_count /\ target'.since = Top.since
    BY <1>8 DEF JumpToBoundary, Jumping, LeaveContext
  <2>2. Last(boundaries) = [frame_count |-> Top.frames, protect_depth |-> Top.depth]
    BY <1>0, <2>1, LeaveNests
  <2>3. target'.frames = Top.frames
    BY <2>1, <2>2
  <2> QED
    BY <1>4, <2>1, <2>3
<1>9. CASE JumpToRecovery
  BY <1>4, <1>9 DEF JumpToRecovery, Jumping, LeaveContext
<1>10. ASSUME NEW home \in InReach, NEW kind \in Kinds, Push(home, kind) PROVE Ages'
  BY <1>10, AgesPush
<1>11. ASSUME NEW g \in Registered, Release(g) PROVE Ages'
  <2> DEFINE disarmed == [stack EXCEPT ![guards[g].slot].armed = FALSE]
  <2>1. /\ stack' = disarmed /\ count' = Discard(disarmed, count)
        /\ UNCHANGED <<ctx, next_generation>> /\ ~Unwinding'
    BY <1>11 DEF Release, ZigRuns, Running, Unwinding
  <2>2. \A s \in Slots : disarmed[s].generation = stack[s].generation
    BY <1>0 DEF TypeOK
  <2>3. count' \in 0 .. count
    BY <1>0, <2>1, DiscardProperties
  <2> HIDE DEF disarmed
  <2>4. \A s \in 0 .. count' - 1 : s \in Slots
    <3>1. count \in Nat /\ \A s \in 0 .. count - 1 : s \in Slots
      BY <1>0, Basics
    <3>2. \A s \in 0 .. count' - 1 : s \in 0 .. count - 1
      BY <2>3, <3>1, Fewer
    <3> QED
      BY <3>1, <3>2
  <2> QED
    BY <1>1, <2>1, <2>2, <2>3, <2>4
<1>12. ASSUME NEW g \in Registered, Pop(g) PROVE Ages'
  <2>1. /\ count' = IF count = 0 THEN 0 ELSE Discard(stack, count - 1)
        /\ UNCHANGED <<ctx, next_generation, stack>> /\ ~Unwinding'
    BY <1>12 DEF Pop, ZigRuns, Running, Unwinding
  <2>2. count' \in 0 .. count
    <3>1. CASE count = 0
      BY <3>1, <2>1, <1>0
    <3>2. CASE count # 0
      <4>1. count - 1 \in Nat
        BY <3>2, <1>0
      <4>2. Discard(stack, count - 1) \in 0 .. count - 1
        BY <4>1, DiscardProperties
      <4> QED
        BY <3>2, <4>2, <2>1, <1>0
    <3> QED
      BY <3>1, <3>2
  <2> QED
    BY <1>1, <2>1, <2>2
<1>13. CASE Fire
  <2>1. /\ Unwinding /\ count > target.frames /\ count' = count - 1
        /\ UNCHANGED <<stack, next_generation, ctx, mode, target>>
    BY <1>13 DEF Fire
  <2>2. count' \in 0 .. count
    BY <1>0, <2>1, Depths
  <2> QED
    BY <1>1, <2>1, <2>2
<1>14. CASE FinishUnwind
  <2>1. UNCHANGED <<stack, count, next_generation, ctx>> /\ ~Unwinding'
    BY <1>14 DEF FinishUnwind, Unwinding
  <2> QED
    BY <1>0, <1>1, <2>1
<1> QED
  BY <1>2, <1>3, <1>5, <1>6, <1>7, <1>8, <1>9, <1>10, <1>11, <1>12, <1>13, <1>14
     DEF Next, Unwind

-----------------------------------------------------------------------------
\* The activations as Ownership sees them.
LEMMA ScopesEnter ==
    ASSUME ctx \in Seq(Context), NEW c \in Context, ctx' = Append(ctx, c)
    PROVE  Scopes' = Append(Scopes, ScopeOf(c))
<1> DEFINE n == Len(ctx)
<1>1. /\ n \in Nat /\ Len(ctx') = n + 1
      /\ \A i \in 1 .. n : ctx'[i] = ctx[i]
      /\ ctx'[n + 1] = c
  BY AppendProperties, LenProperties
<1> HIDE DEF n
<1> DEFINE S == {ScopeOf(d) : d \in Context}
           old == [i \in 1 .. n |-> ScopeOf(ctx[i])]
           new == [i \in 1 .. n + 1 |-> ScopeOf(ctx'[i])]
<1>2. \A i \in 1 .. n : ctx[i] \in Context
  BY <1>1, ElementOfSeq DEF n
<1>3. old \in Seq(S) /\ Len(old) = n /\ ScopeOf(c) \in S
  <2>1. \A i \in 1 .. n : ScopeOf(ctx[i]) \in S
    BY <1>2
  <2> HIDE DEF S
  <2>2. old \in [1 .. n -> S]
    BY <2>1
  <2> HIDE DEF old
  <2>3. old \in Seq(S) /\ Len(old) = n
    BY <2>2, <1>1, IsASeq, LenProperties
  <2> QED
    BY <2>3 DEF S
<1>4. new = Append(old, ScopeOf(c))
  <2>1. /\ Append(old, ScopeOf(c)) \in Seq(S)
        /\ Len(Append(old, ScopeOf(c))) = n + 1
        /\ \A i \in 1 .. n : Append(old, ScopeOf(c))[i] = old[i]
        /\ Append(old, ScopeOf(c))[n + 1] = ScopeOf(c)
    <3> HIDE DEF old, S
    <3> QED
      BY <1>3, AppendProperties
  <2>2. \A i \in 1 .. n + 1 : new[i] = Append(old, ScopeOf(c))[i]
    BY <2>1, <1>1
  <2> QED
    BY <2>1, <2>2, <1>1, SeqEqual
<1> QED
  BY <1>1, <1>4 DEF Scopes, n

LEMMA ScopesLeave ==
    ASSUME TypeOK, ctx # <<>>, ctx' = Front(ctx)
    PROVE  /\ Scopes # <<>> /\ Own!Last(Scopes) = ScopeOf(Top)
           /\ Scopes' = Own!Front(Scopes)
<1> DEFINE n == Len(ctx)
           S == {ScopeOf(d) : d \in Context}
           old == [i \in 1 .. n |-> ScopeOf(ctx[i])]
           new == [i \in 1 .. n - 1 |-> ScopeOf(ctx'[i])]
<1>1. /\ n \in Nat /\ n >= 1 /\ Top = ctx[n] /\ Len(ctx') = n - 1
      /\ \A i \in 1 .. n - 1 : ctx'[i] = ctx[i]
      /\ \A i \in 1 .. n : ctx[i] \in Context
  BY LeaveTop, Depths
<1> HIDE DEF n
<1>2. old \in Seq(S) /\ Len(old) = n
  <2>1. \A i \in 1 .. n : ScopeOf(ctx[i]) \in S
    BY <1>1
  <2> HIDE DEF S
  <2>2. old \in [1 .. n -> S]
    BY <2>1
  <2> HIDE DEF old
  <2> QED
    BY <2>2, <1>1, IsASeq, LenProperties
<1>3. old # <<>>
  BY <1>1, <1>2, EmptySeq
<1>4. /\ Front(old) \in Seq(S) /\ Len(Front(old)) = n - 1
      /\ \A i \in 1 .. n - 1 : Front(old)[i] = old[i]
      /\ Last(old) = old[n]
  <2> HIDE DEF old, S
  <2> QED
    BY <1>2, <1>3, FrontProperties
<1>5. new = Front(old)
  <2>1. new \in Seq(S) /\ Len(new) = n - 1
    <3>1. n - 1 \in Nat /\ \A i \in 1 .. n - 1 : ScopeOf(ctx'[i]) \in S
      BY <1>1
    <3> HIDE DEF S
    <3>2. new \in [1 .. n - 1 -> S]
      BY <3>1
    <3> HIDE DEF new
    <3> QED
      BY <3>1, <3>2, IsASeq, LenProperties
  <2>2. \A i \in 1 .. n - 1 : new[i] = Front(old)[i]
    BY <1>1, <1>4
  <2> HIDE DEF new, old, S
  <2> QED
    BY <2>1, <2>2, <1>4, SeqEqual
<1>6. Last(old) = ScopeOf(Top)
  BY <1>1, <1>4
<1>7. Scopes = old /\ Scopes' = new
  BY <1>1 DEF Scopes, n
<1>8. Own!Front(old) = Front(old) /\ Own!Last(old) = Last(old)
  BY DEF Own!Front, Own!Last, Front, Last
<1> QED
  BY <1>3, <1>5, <1>6, <1>7, <1>8

\* What the steps of Ownership look at, in terms of modes and frames.
LEMMA Mapped ==
    ASSUME SafetyInv
    PROVE  /\ mode = "run" => Status = "run"
           /\ mode = "jump" => Status = "failing"
           /\ Unwinding => Status = "freeing"
           /\ ctx = <<>> <=> Scopes = <<>>
           /\ \A g \in Unfreed :
                 /\ guards[g].slot \in 0 .. count - 1
                 /\ stack[guards[g].slot].generation = g
                 /\ g \in Nat
<1>0. TypeOK /\ HeldIsArmed
  BY DEF SafetyInv, TypeInv
<1>1. ctx = <<>> <=> Scopes = <<>>
  <2>1. Len(ctx) \in Nat /\ (ctx = <<>> <=> Len(ctx) = 0)
    BY <1>0, Depths
  <2>2. DOMAIN Scopes = 1 .. Len(ctx)
    BY DEF Scopes
  <2>3. Scopes = <<>> => Len(ctx) = 0
    BY <2>1, <2>2
  <2>4. Len(ctx) = 0 => Scopes = <<>>
    BY <2>1 DEF Scopes
  <2> QED
    BY <2>1, <2>3, <2>4
<1>2. \A g \in Unfreed : /\ guards[g].slot \in 0 .. count - 1
                         /\ stack[guards[g].slot].generation = g
                         /\ g \in Nat
  BY <1>0, Basics DEF HeldIsArmed
<1>3. mode = "run" => Status = "run"
  BY DEF Status
<1>4. mode = "jump" => Status = "failing"
  BY DEF Status
<1>5. Unwinding => Status = "freeing"
  BY DEF Status, Unwinding
<1> QED
  BY <1>1, <1>2, <1>3, <1>4, <1>5

LEMMA StatusAfter ==
    /\ mode' = "run" => Status' = "run"
    /\ mode' = "jump" => Status' = "failing"
    /\ Unwinding' => Status' = "freeing"
<1>1. mode' = "run" => Status' = "run"
  BY DEF Status
<1>2. mode' = "jump" => Status' = "failing"
  BY DEF Status
<1>3. Unwinding' => Status' = "freeing"
  BY DEF Status, Unwinding
<1> QED
  BY <1>1, <1>2, <1>3

\* What is held when an activation ends, a resource is given back, a frame pushed.
LEMMA HeldLeave ==
    ASSUME TypeOK, ctx # <<>>, guards' = Abandon(Len(ctx) - 1), UNCHANGED next_generation
    PROVE  Unfreed' = Unfreed
<1>1. Len(ctx) - 1 \in Nat
  BY Depths
<1>2. \A g \in Generations : guards'[g].freed = guards[g].freed
  BY <1>1, AbandonKeeps
<1> QED
  BY <1>2 DEF Unfreed, Registered

LEMMA HeldLess ==
    ASSUME TypeOK, NEW g \in Unfreed, guards' = [guards EXCEPT ![g].freed = @ + 1],
           UNCHANGED next_generation
    PROVE  Unfreed' = Unfreed \ {g}
<1>1. g \in Generations /\ guards[g].freed = 0
  BY DEF Unfreed, Registered
<1>2. /\ \A h \in Generations : h # g => guards'[h] = guards[h]
      /\ guards'[g].freed = 1
  BY <1>1 DEF TypeOK, Guard
<1> QED
  BY <1>1, <1>2 DEF Unfreed, Registered

LEMMA HeldMore ==
    ASSUME TypeOK, next_generation < MaxGeneration, next_generation' = next_generation + 1,
           NEW new, new.freed = 0, guards' = [guards EXCEPT ![next_generation] = new]
    PROVE  Unfreed' = Unfreed \union {next_generation}
<1>1. /\ next_generation \in Nat /\ next_generation \in Generations
      /\ \A g \in Generations : g \in Nat
  BY Basics DEF Generations
<1>2. /\ \A h \in Generations : h # next_generation => guards'[h] = guards[h]
      /\ guards'[next_generation].freed = 0
  BY <1>1 DEF TypeOK
<1>3. \A g \in Generations : g < next_generation' <=> g < next_generation \/ g = next_generation
  BY <1>1
<1> QED
  BY <1>1, <1>2, <1>3 DEF Unfreed, Registered

\* Nothing that is held is newer than a position without frames above it.
LEMMA NothingNewer ==
    ASSUME SafetyInv, NEW since, Separates(count, since)
    PROVE  Own!Newer(since) = {}
<1> SUFFICES ASSUME NEW g \in Unfreed, g >= since PROVE FALSE
  BY DEF Own!Newer
<1>1. /\ guards[g].slot \in 0 .. count - 1 /\ stack[guards[g].slot].generation = g
      /\ g \in Nat
  BY Mapped
<1>2. guards[g].slot < count /\ since \in Int
  <2>1. count \in Nat /\ next_generation \in Nat
    BY Basics DEF SafetyInv, TypeInv
  <2> QED
    BY <2>1, <1>1 DEF Separates
<1>3. g < since
  BY <1>1, <1>2 DEF Separates
<1> QED
  BY <1>1, <1>2, <1>3

\* An activation is entered.
LEMMA OwnEnter ==
    ASSUME SafetyInv, NEW kind \in {"boundary", "recovery", "eval"}, NEW top \in Int,
           EnterContext(kind, top), mode = "run",
           UNCHANGED <<guards, next_generation, mode, target>>
    PROVE  Own!Next
<1> DEFINE new == [kind |-> kind, cstacktop |-> top, frames |-> count,
                   depth |-> protect_depth, since |-> next_generation,
                   opened |-> Len(boundaries)]
<1>0. TypeOK
  BY DEF SafetyInv, TypeInv
<1>1. new \in Context /\ ctx \in Seq(Context) /\ ctx' = Append(ctx, new)
  BY <1>0, SavedState DEF EnterContext, TypeOK
<1>2. ScopeOf(new) = [since |-> next_generation, sealed |-> kind = "boundary"]
  BY DEF ScopeOf
<1> HIDE DEF new
<1>3. Scopes' = Append(Scopes, ScopeOf(new))
  BY <1>1, ScopesEnter
<1>4. Unfreed' = Unfreed /\ Status' = Status /\ Status = "run"
  <2>1. Unfreed' = Unfreed
    BY DEF Unfreed, Registered
  <2> QED
    BY <2>1, Mapped DEF Status
<1>5. PICK sealed \in BOOLEAN : sealed = (kind = "boundary")
  OBVIOUS
<1>6. Own!Enter(sealed)
  BY <1>2, <1>3, <1>4, <1>5 DEF Own!Enter
<1> QED
  BY <1>6 DEF Own!Next

\* An activation returns.
LEMMA OwnClose ==
    ASSUME SafetyInv, ctx # <<>>, LeaveContext, mode = "run",
           Top.kind = "boundary" => Separates(count, Top.since),
           UNCHANGED <<next_generation, mode, target>>
    PROVE  Own!Next
<1>0. TypeOK
  BY DEF SafetyInv, TypeInv
<1>1. /\ Scopes # <<>> /\ Own!Last(Scopes) = ScopeOf(Top) /\ Scopes' = Own!Front(Scopes)
  BY <1>0, ScopesLeave DEF LeaveContext
<1>2. Unfreed' = Unfreed
  BY <1>0, HeldLeave DEF LeaveContext
<1>3. Status' = Status /\ Status = "run"
  BY Mapped DEF Status
<1>4. Own!Last(Scopes).sealed => Own!Newer(Own!Last(Scopes).since) = {}
  <2> HAVE Own!Last(Scopes).sealed
  <2>1. Own!Last(Scopes).since = Top.since /\ Top.kind = "boundary"
    <3>1. ScopeOf(Top).since = Top.since /\ ScopeOf(Top).sealed = (Top.kind = "boundary")
      BY DEF ScopeOf
    <3>2. ScopeOf(Top).sealed
      BY <1>1
    <3> QED
      BY <3>1, <3>2, <1>1
  <2>2. Own!Newer(Top.since) = {}
    BY <2>1, NothingNewer
  <2> QED
    BY <2>1, <2>2
<1>5. Own!Close
  BY <1>1, <1>2, <1>3, <1>4 DEF Own!Close
<1> QED
  BY <1>5 DEF Own!Next

\* An error leaves an activation that unwinds ...
LEMMA OwnAbort ==
    ASSUME SafetyInv, ctx # <<>>, LeaveContext, mode = "jump", Unwinding',
           target'.since = Top.since, UNCHANGED next_generation
    PROVE  Own!Next
<1>0. TypeOK
  BY DEF SafetyInv, TypeInv
<1>1. /\ Scopes # <<>> /\ Own!Last(Scopes) = ScopeOf(Top) /\ Scopes' = Own!Front(Scopes)
  BY <1>0, ScopesLeave DEF LeaveContext
<1>2. Unfreed' = Unfreed
  BY <1>0, HeldLeave DEF LeaveContext
<1>3. Status = "failing" /\ Status' = "freeing"
  BY Mapped, StatusAfter
<1>4. target'.since = Own!Last(Scopes).since
  BY <1>1 DEF ScopeOf
<1>5. Own!Abort
  BY <1>1, <1>2, <1>3, <1>4 DEF Own!Abort
<1> QED
  BY <1>5 DEF Own!Next

\* ... or is handled by R code or at the top level.
LEMMA OwnHandle ==
    ASSUME SafetyInv, Accounts, Ages, JumpToEval \/ JumpToTopLevel
    PROVE  Own!Next
<1>0. TypeOK
  BY DEF SafetyInv, TypeInv
<1>1. mode = "jump" /\ mode' = "run" /\ UNCHANGED <<next_generation, target>>
  BY DEF JumpToEval, JumpToTopLevel, Jumping, cleanupVars
<1>2. Status = "failing" /\ Status' = "run"
  BY <1>1, Mapped, StatusAfter
<1>3. CASE JumpToTopLevel
  <2>1. ctx = <<>> /\ UNCHANGED <<ctx, guards>>
    BY <1>3 DEF JumpToTopLevel
  <2>2. Unfreed' = Unfreed /\ Scopes' = Scopes
    BY <1>1, <2>1 DEF Unfreed, Registered, Scopes
  <2>3. count = 0
    BY <1>1, <2>1 DEF Accounts, AtRest, Unwinding
  <2>4. Unfreed = {}
    BY <2>3, Mapped
  <2>5. Scopes = <<>>
    BY <2>1, Mapped
  <2>6. Own!Handle
    BY <1>1, <1>2, <2>2, <2>4, <2>5 DEF Own!Handle
  <2> QED
    BY <2>6 DEF Own!Next
<1>4. CASE JumpToEval
  <2>1. /\ ctx # <<>> /\ Top.kind = "eval" /\ LeaveContext
        /\ UNCHANGED <<count, protect_depth>> /\ ppTop' = Top.cstacktop
    BY <1>4 DEF JumpToEval, Jumping, cleanupVars
  <2>2. count = Top.frames
    BY <1>0, <1>1, <2>1, EndEvalAccounts DEF LeaveContext
  <2>3. Separates(count, Top.since)
    <3>1. Top = ctx[Len(ctx)] /\ Len(ctx) \in 1 .. Len(ctx)
      BY <1>0, <2>1, Depths
    <3> QED
      BY <2>2, <3>1 DEF Ages
  <2>4. /\ Scopes # <<>> /\ Own!Last(Scopes) = ScopeOf(Top) /\ Scopes' = Own!Front(Scopes)
    BY <1>0, <2>1, ScopesLeave DEF LeaveContext
  <2>5. Own!Newer(Own!Last(Scopes).since) = {}
    BY <2>3, <2>4, NothingNewer DEF ScopeOf
  <2>6. Unfreed' = Unfreed
    BY <1>0, <1>1, <2>1, HeldLeave DEF LeaveContext
  <2>7. Own!Handle
    BY <1>1, <1>2, <2>4, <2>5, <2>6 DEF Own!Handle
  <2> QED
    BY <2>7 DEF Own!Next
<1> QED
  BY <1>3, <1>4

\* An owner gives back what it holds.
LEMMA OwnSettle ==
    ASSUME SafetyInv, NEW g \in Registered, Release(g) \/ Pop(g)
    PROVE  Own!Next
<1>0. TypeOK /\ ArmedIsHeld
  BY DEF SafetyInv, TypeInv
<1>1. g \in Unfreed
  <2>1. CASE Pop(g)
    BY <2>1 DEF Pop
  <2>2. CASE Release(g)
    <3>1. guards[g].slot < count /\ stack[guards[g].slot].armed
          /\ stack[guards[g].slot].generation = g
      BY <2>2 DEF Release, Active
    <3>2. guards[g].slot \in Nat /\ count \in Nat
      BY <1>0, Basics DEF Registered
    <3>3. guards[g].freed = 0
      BY <3>1, <3>2, <1>0 DEF ArmedIsHeld
    <3> QED
      BY <3>3 DEF Unfreed
  <2> QED
    BY <2>1, <2>2
<1>2. /\ mode = "run" /\ guards' = [guards EXCEPT ![g].freed = @ + 1]
      /\ UNCHANGED <<next_generation, ctx, mode, target>>
  BY DEF Release, Pop, ZigRuns, Running
<1>3. Unfreed' = Unfreed \ {g}
  BY <1>0, <1>1, <1>2, HeldLess
<1>4. Status = "run" /\ Status' = Status /\ Scopes' = Scopes
  BY <1>2, Mapped DEF Status, Scopes
<1>5. Own!Settle(g)
  BY <1>2, <1>3, <1>4 DEF Own!Settle
<1> QED
  BY <1>1, <1>5 DEF Own!Next

\* reserveFrame.
LEMMA OwnAcquire ==
    ASSUME SafetyInv, NEW home \in InReach, NEW kind \in Kinds, Push(home, kind)
    PROVE  Own!Next
<1> DEFINE new == [slot |-> count, home |-> home, kind |-> kind, freed |-> 0]
<1>0. TypeOK
  BY DEF SafetyInv, TypeInv
<1>1. /\ mode = "run" /\ ctx # <<>> /\ next_generation < MaxGeneration
      /\ next_generation' = next_generation + 1
      /\ guards' = [guards EXCEPT ![next_generation] = new]
      /\ UNCHANGED <<ctx, mode, target>>
  BY DEF Push, ZigRuns, Running
<1>2. new.freed = 0
  OBVIOUS
<1> HIDE DEF new
<1>3. Unfreed' = Unfreed \union {next_generation}
  BY <1>0, <1>1, <1>2, HeldMore
<1>4. Status = "run" /\ Status' = Status /\ Scopes' = Scopes /\ Scopes # <<>>
  BY <1>1, Mapped DEF Status, Scopes
<1>5. Own!Acquire
  BY <1>1, <1>3, <1>4 DEF Own!Acquire
<1> QED
  BY <1>5 DEF Own!Next

\* One iteration of an unwind loop: the newest resource, or nothing.
LEMMA OwnFree ==
    ASSUME SafetyInv, Ages, Fire
    PROVE  Own!Next \/ UNCHANGED Own!vars
<1> DEFINE g == stack[count - 1].generation
<1>0. TypeOK /\ FramesByAge /\ ArmedIsHeld
  BY DEF SafetyInv, TypeInv
<1>1. /\ Unwinding /\ count > target.frames
      /\ UNCHANGED <<next_generation, ctx, mode, target>>
      /\ stack[count - 1].armed => guards' = [guards EXCEPT ![g].freed = @ + 1]
      /\ ~stack[count - 1].armed => guards' = guards
  BY DEF Fire
<1>2. /\ count \in Nat /\ target.frames \in Nat /\ count - 1 \in 0 .. count - 1
      /\ next_generation \in Nat /\ next_generation <= MaxGeneration /\ MaxGeneration \in Nat
      /\ \A s \in 0 .. count - 1 : stack[s].generation \in Nat
  BY <1>0, <1>1, Basics
<1>3. Status = "freeing" /\ Status' = Status /\ Scopes' = Scopes
  BY <1>1, Mapped DEF Status, Scopes
<1>4. CASE ~stack[count - 1].armed
  <2>1. Unfreed' = Unfreed
    BY <1>1, <1>4 DEF Unfreed, Registered
  <2> QED
    BY <1>1, <1>3, <2>1 DEF Own!vars
<1>5. CASE stack[count - 1].armed
  <2>1. guards[g].freed = 0 /\ g < next_generation /\ g \in Nat
    BY <1>0, <1>2, <1>5 DEF ArmedIsHeld, FramesByAge
  <2>2. g \in Unfreed
    BY <2>1, <1>2 DEF Unfreed, Registered, Generations
  <2>3. g >= target.since
    <3>1. ~(count - 1 < target.frames)
      BY <1>1, <1>2
    <3>2. target.since \in Nat /\ ~(g < target.since)
      BY <3>1, <1>1, <1>2 DEF Ages, Separates
    <3> QED
      BY <3>2, <2>1
  <2>4. \A h \in Unfreed : h <= g
    <3> TAKE h \in Unfreed
    <3>1. /\ guards[h].slot \in 0 .. count - 1 /\ stack[guards[h].slot].generation = h
          /\ h \in Nat
      BY Mapped
    <3>2. CASE guards[h].slot = count - 1
      BY <3>1, <3>2
    <3>3. CASE guards[h].slot # count - 1
      <4>1. guards[h].slot < count - 1
        BY <3>1, <3>3, <1>2
      <4>2. h < g
        BY <3>1, <4>1, <1>0, <1>2 DEF FramesByAge
      <4> QED
        BY <4>2, <3>1, <2>1
    <3> QED
      BY <3>2, <3>3
  <2> HIDE DEF g
  <2>5. Unfreed' = Unfreed \ {g}
    BY <1>0, <1>1, <1>5, <2>2, HeldLess
  <2>6. Own!FreeNewest
    BY <1>1, <1>3, <2>2, <2>3, <2>4, <2>5 DEF Own!FreeNewest, Own!Newer
  <2> QED
    BY <2>6 DEF Own!Next
<1> QED
  BY <1>4, <1>5

\* The loop is done when it has given back all that is newer.
LEMMA OwnFreed ==
    ASSUME SafetyInv, Accounts, Ages, FinishUnwind
    PROVE  Own!Next
<1>1. /\ Unwinding /\ mode' \in {"run", "jump"} /\ target' = NoTarget
      /\ UNCHANGED <<count, next_generation, ctx, guards>>
  BY DEF FinishUnwind
<1>2. count = target.frames
  BY <1>1, FinishAccounts
<1>3. Own!Newer(target.since) = {}
  BY <1>1, <1>2, NothingNewer DEF Ages
<1>4. Status = "freeing" /\ Status' \in {"run", "failing"}
  BY <1>1, Mapped, StatusAfter
<1>5. Unfreed' = Unfreed /\ Scopes' = Scopes
  BY <1>1 DEF Unfreed, Registered, Scopes
<1>6. target'.since = 0
  BY <1>1 DEF NoTarget
<1>7. Own!Freed
  BY <1>1, <1>3, <1>4, <1>5, <1>6 DEF Own!Freed
<1> QED
  BY <1>7 DEF Own!Next

\* Every step of Cleanup is one of Ownership, or changes nothing it can see.
LEMMA OwnStep ==
    ASSUME CrossRelease = FALSE, SafetyInv, Accounts, Ages, [Next]_vars
    PROVE  Own!Next \/ UNCHANGED Own!vars
<1>0. TypeInv /\ TypeInv' /\ TypeOK
  BY NextTypeInv DEF SafetyInv, TypeInv
<1>1. ASSUME UNCHANGED <<next_generation, ctx, guards, target>>
      PROVE  UNCHANGED <<Unfreed, next_generation, Scopes, target.since>>
  BY <1>1 DEF Unfreed, Registered, Scopes
<1>2. ASSUME UNCHANGED <<next_generation, ctx, guards, target, mode>>
      PROVE  UNCHANGED Own!vars
  BY <1>1, <1>2 DEF Own!vars, Status
<1>3. CASE UNCHANGED vars \/ Protect \/ Unprotect
  BY <1>2, <1>3 DEF vars, cleanupVars, Protect, Unprotect
<1>4. CASE EnterBoundary \/ EnterRecovery \/ EnterEval
  <2>1. PICK kind \in {"boundary", "recovery", "eval"}, top \in Int : EnterContext(kind, top)
    <3>1. ppTop \in Int /\ ppTop + 1 \in Int
      BY <1>0, Depths
    <3> QED
      BY <1>4, <3>1 DEF EnterBoundary, EnterRecovery, EnterEval
  <2>2. mode = "run" /\ UNCHANGED <<guards, next_generation, mode, target>>
    BY <1>4 DEF EnterBoundary, EnterRecovery, EnterEval, ZigRuns, RRuns, Running, cleanupVars
  <2> QED
    BY <2>1, <2>2, OwnEnter
<1>5. CASE ReturnBoundary
  <2>1. /\ ctx # <<>> /\ LeaveContext /\ mode = "run" /\ count' = Top.frames
        /\ UNCHANGED <<next_generation, mode, target>>
    BY <1>5 DEF ReturnBoundary, Running
  <2>2. count' = count
    BY <1>0, <1>5, ReturnBoundarySafe
  <2>3. Separates(count, Top.since)
    <3>1. Top = ctx[Len(ctx)] /\ Len(ctx) \in 1 .. Len(ctx)
      BY <1>0, <2>1, Depths
    <3> QED
      BY <2>1, <2>2, <3>1 DEF Ages
  <2> QED
    BY <2>1, <2>3, OwnClose
<1>6. CASE ReturnRecovery \/ ReturnEval
  <2>1. /\ ctx # <<>> /\ LeaveContext /\ mode = "run" /\ Top.kind # "boundary"
        /\ UNCHANGED <<next_generation, mode, target>>
    BY <1>6 DEF ReturnRecovery, ReturnEval, Running, cleanupVars
  <2> QED
    BY <2>1, OwnClose
<1>7. CASE BoundaryOverflow \/ PushOverflow \/ Raise
  <2>1. mode = "run" /\ mode' = "jump" /\ UNCHANGED <<next_generation, ctx, guards, target>>
    BY <1>7 DEF BoundaryOverflow, PushOverflow, Raise, ZigRuns, RRuns, Running, cleanupVars
  <2>2. Status = "run" /\ Status' = "failing"
    BY <2>1, Mapped, StatusAfter
  <2>3. Own!Fail
    BY <1>1, <2>1, <2>2 DEF Own!Fail
  <2> QED
    BY <2>3 DEF Own!Next
<1>8. CASE JumpToBoundary \/ JumpToRecovery
  <2>1. /\ ctx # <<>> /\ LeaveContext /\ mode = "jump" /\ Unwinding'
        /\ target'.since = Top.since /\ UNCHANGED next_generation
    BY <1>8 DEF JumpToBoundary, JumpToRecovery, Jumping, Unwinding
  <2> QED
    BY <2>1, OwnAbort
<1>9. CASE JumpToEval \/ JumpToTopLevel
  BY <1>9, OwnHandle
<1>10. ASSUME NEW g \in Registered, Release(g) \/ Pop(g) PROVE Own!Next
  BY <1>10, OwnSettle
<1>11. ASSUME NEW home \in InReach, NEW kind \in Kinds, Push(home, kind) PROVE Own!Next
  BY <1>11, OwnAcquire
<1>12. CASE Fire
  BY <1>12, OwnFree
<1>13. CASE FinishUnwind
  BY <1>13, OwnFreed
<1> QED
  BY <1>3, <1>4, <1>5, <1>6, <1>7, <1>8, <1>9, <1>10, <1>11, <1>12, <1>13 DEF Next, Unwind

LEMMA OwnInit == Init => Own!Init
<1> SUFFICES ASSUME Init PROVE Own!Init
  OBVIOUS
<1>1. next_generation = 0 /\ ctx = <<>> /\ Len(ctx) = 0 /\ mode = "run" /\ target = NoTarget
  BY EmptySeq DEF Init
<1>2. Unfreed = {}
  <2>1. \A g \in Generations : g \in Nat
    BY DEF Generations
  <2> QED
    BY <1>1, <2>1 DEF Unfreed, Registered
<1>3. Scopes = <<>>
  BY <1>1 DEF Scopes
<1>4. Status = "run" /\ target.since = 0
  BY <1>1 DEF Status, NoTarget
<1> QED
  BY <1>1, <1>2, <1>3, <1>4 DEF Own!Init

LEMMA InitAges == Init => Ages
<1> SUFFICES ASSUME Init PROVE Ages
  OBVIOUS
<1>1. Len(ctx) = 0 /\ mode = "run"
  BY EmptySeq DEF Init
<1> QED
  BY <1>1 DEF Ages, Unwinding

\* Slots, generations, saved counts and disarmed frames add up to nested scopes
\* that give back what they acquired, newest first, before an error goes on.
THEOREM ImplementsOwnershipAlways ==
    ASSUME CrossRelease = FALSE
    PROVE  Spec => ImplementsOwnership
<1> DEFINE I == SafetyInv /\ Accounts /\ Ages
<1>1. Init => I /\ Own!Init
  BY InitSafetyInv, InitAccounts, InitAges, OwnInit
<1>2. I /\ [Next]_vars => I'
  BY NextSafetyInv, NextAccounts, NextAges
<1>3. I /\ [Next]_vars => [Own!Next]_(Own!vars)
  BY OwnStep
<1> HIDE DEF I
<1> QED
  BY <1>1, <1>2, <1>3, PTL DEF Spec, ImplementsOwnership, Own!Spec

=============================================================================
