------------------------------ MODULE Rng_proofs ------------------------------
(***************************************************************************)
(* Proofs about withRng, for every depth of nesting.                       *)
(***************************************************************************)
EXTENDS Rng, SequenceTheorems, TLAPS

-----------------------------------------------------------------------------
\* An open scope has set the flag, so there is only one.
OneScope ==
    /\ TypeOK
    /\ Scopes # {} => active
    /\ ScopesDoNotNest

\* Unsaved draws belong to a scope that has acquired the state and will save it.
DrawsAreHeld == unsaved => \E i \in DOMAIN ctx : ctx[i].acquired

\* GetRNGstate is one call ahead in a scope that has acquired the state.
Counted ==
    /\ (\E i \in DOMAIN ctx : ctx[i].acquired) => balance = 1
    /\ (\A i \in DOMAIN ctx : ~ctx[i].acquired) => balance = 0

\* Unless a cleanup frame has failed, the scope that set the flag is still open.
RngInv ==
    /\ OneScope
    /\ active => Scopes # {}
    /\ Counted
    /\ DrawsAreHeld

\* What holds whatever fails.
Inductive == OneScope /\ (~putFailed => RngInv)

-----------------------------------------------------------------------------
\* Appending a context: the others are as before.
LEMMA Entered ==
    ASSUME TypeOK, NEW new \in Context, ctx' = Append(ctx, new)
    PROVE  /\ Len(ctx) \in Nat
           /\ DOMAIN ctx = 1 .. Len(ctx) /\ DOMAIN ctx' = 1 .. Len(ctx) + 1
           /\ ctx' \in Seq(Context) /\ Len(ctx') = Len(ctx) + 1
           /\ \A i \in 1 .. Len(ctx) : ctx'[i] = ctx[i]
           /\ ctx'[Len(ctx) + 1] = new
BY AppendProperties, LenProperties DEF TypeOK

\* Leaving the innermost context: the others are as before.
LEMMA Left ==
    ASSUME TypeOK, ctx # <<>>, ctx' = Front(ctx)
    PROVE  /\ Len(ctx) \in Nat \ {0}
           /\ DOMAIN ctx = 1 .. Len(ctx) /\ DOMAIN ctx' = 1 .. Len(ctx) - 1
           /\ ctx' \in Seq(Context) /\ Len(ctx') = Len(ctx) - 1
           /\ \A i \in 1 .. Len(ctx) - 1 : ctx'[i] = ctx[i]
           /\ Last(ctx) = ctx[Len(ctx)] /\ Last(ctx) \in Context
<1>1. ctx \in Seq(Context) /\ Len(ctx) \in Nat \ {0}
  BY EmptySeq, LenProperties DEF TypeOK
<1>2. Front(ctx) = [i \in 1 .. Len(ctx) - 1 |-> ctx[i]]
  BY <1>1 DEF Front
<1>3. ctx' \in Seq(Context) /\ Len(ctx') = Len(ctx) - 1
  BY <1>1, <1>2
<1> QED
  BY <1>1, <1>2, <1>3, LenProperties DEF Last

\* Going on to the next R call: the innermost context changes in place.
LEMMA Advanced ==
    ASSUME TypeOK, ctx # <<>>, NEW at \in {"get", "func", "put"}, NEW acquired \in BOOLEAN,
           ctx' = [ctx EXCEPT ![Len(ctx)].at = at, ![Len(ctx)].acquired = acquired]
    PROVE  /\ Len(ctx) \in Nat \ {0}
           /\ DOMAIN ctx = 1 .. Len(ctx) /\ DOMAIN ctx' = 1 .. Len(ctx)
           /\ ctx' \in Seq(Context) /\ Len(ctx') = Len(ctx)
           /\ \A i \in 1 .. Len(ctx) - 1 : ctx'[i] = ctx[i]
           /\ ctx'[Len(ctx)] = [ctx[Len(ctx)] EXCEPT !.at = at, !.acquired = acquired]
           /\ Last(ctx) = ctx[Len(ctx)] /\ Last(ctx) \in Context
<1>1. ctx \in Seq(Context) /\ Len(ctx) \in Nat \ {0}
  BY EmptySeq, LenProperties DEF TypeOK
<1>2. Last(ctx) = ctx[Len(ctx)] /\ Last(ctx) \in Context
  BY <1>1 DEF Last
<1>3. [ctx[Len(ctx)] EXCEPT !.at = at, !.acquired = acquired] \in Context
  BY <1>2 DEF Context
<1>4. DOMAIN ctx = 1 .. Len(ctx)
  BY <1>1, LenProperties
<1>5. ctx' = [ctx EXCEPT ![Len(ctx)] =
                 [ctx[Len(ctx)] EXCEPT !.at = at, !.acquired = acquired]]
  BY <1>1, <1>2, <1>4 DEF Context
<1>6. ctx' \in Seq(Context) /\ Len(ctx') = Len(ctx)
  BY <1>1, <1>3, <1>5, ExceptSeq
<1> QED
  BY <1>1, <1>2, <1>4, <1>5, <1>6

-----------------------------------------------------------------------------
\* R idle: no scope, no flag.
LEMMA InitRngInv == Init => RngInv
<1> SUFFICES ASSUME Init PROVE RngInv
  OBVIOUS
<1>1. ctx = <<>> /\ DOMAIN ctx = {} /\ ctx \in Seq(Context) /\ Len(ctx) = 0
  BY EmptySeq DEF Init
<1>2. TypeOK
  <2>1. 0 <= MaxContexts
    BY RngAssumption
  <2>2. active \in BOOLEAN /\ unsaved \in BOOLEAN /\ putFailed \in BOOLEAN
    BY Zenon DEF Init
  <2>3. mode \in {"run", "jump"} /\ balance \in Int
    BY DEF Init
  <2> QED
    BY <1>1, <2>1, <2>2, <2>3 DEF TypeOK
<1>3. Scopes = {}
  BY <1>1 DEF Scopes
<1>4. Counted
  BY <1>1 DEF Init, Counted
<1>5. ~active /\ ~unsaved
  BY DEF Init
<1> QED
  BY <1>2, <1>3, <1>4, <1>5 DEF RngInv, OneScope, ScopesDoNotNest, DrawsAreHeld

\* Steps that leave the contexts alone.
LEMMA SameContexts ==
    ASSUME OneScope, UNCHANGED <<ctx, active, balance, putFailed>>,
           mode' \in {"run", "jump"}, unsaved' \in BOOLEAN
    PROVE  OneScope' /\ Scopes' = Scopes /\ (Counted => Counted')
BY DEF OneScope, TypeOK, Scopes, ScopesDoNotNest, Counted

\* Handlers come and go without touching a scope.
LEMMA HandlerKeeps ==
    ASSUME OneScope, EnterHandler \/ LeaveHandler \/ (Caught /\ ctx # <<>>)
    PROVE  OneScope' /\ (RngInv => RngInv')
<1>1. TypeOK /\ Len(ctx) <= MaxContexts
  BY DEF OneScope, TypeOK
<1>2. /\ UNCHANGED <<active, balance, unsaved, putFailed>>
      /\ mode' \in {"run", "jump"}
  BY <1>1 DEF EnterHandler, LeaveHandler, Caught, Running, TypeOK
<1>3. CASE EnterHandler
  <2> DEFINE new == [kind |-> "handler", at |-> "func", acquired |-> FALSE]
  <2>1. new \in Context /\ ctx' = Append(ctx, new) /\ Len(ctx) < MaxContexts
    BY <1>3 DEF EnterHandler, Context
  <2>2. /\ Len(ctx) \in Nat
        /\ DOMAIN ctx = 1 .. Len(ctx) /\ DOMAIN ctx' = 1 .. Len(ctx) + 1
        /\ ctx' \in Seq(Context) /\ Len(ctx') = Len(ctx) + 1
        /\ \A i \in 1 .. Len(ctx) : ctx'[i] = ctx[i]
        /\ ctx'[Len(ctx) + 1] = new
    BY <1>1, <2>1, Entered
  <2>3. Scopes' = Scopes
    BY <2>2 DEF Scopes
  <2>4. TypeOK'
    BY <1>1, <1>2, <2>1, <2>2, RngAssumption DEF TypeOK
  <2>5. (\E i \in DOMAIN ctx' : ctx'[i].acquired) <=> (\E i \in DOMAIN ctx : ctx[i].acquired)
    BY <2>2
  <2>6. \A i \in Scopes : ctx'[i] = ctx[i]
    BY <2>2 DEF Scopes
  <2> QED
    BY <1>2, <2>3, <2>4, <2>5 DEF RngInv, OneScope, ScopesDoNotNest, Counted, DrawsAreHeld
<1>4. CASE LeaveHandler \/ (Caught /\ ctx # <<>>)
  <2>1. ctx # <<>> /\ ctx' = Front(ctx) /\ Last(ctx).kind = "handler"
    BY <1>4 DEF LeaveHandler, Caught, In
  <2>2. /\ Len(ctx) \in Nat \ {0}
        /\ DOMAIN ctx = 1 .. Len(ctx) /\ DOMAIN ctx' = 1 .. Len(ctx) - 1
        /\ ctx' \in Seq(Context) /\ Len(ctx') = Len(ctx) - 1
        /\ \A i \in 1 .. Len(ctx) - 1 : ctx'[i] = ctx[i]
        /\ Last(ctx) = ctx[Len(ctx)]
    BY <1>1, <2>1, Left
  <2>3. Scopes' = Scopes
    BY <2>1, <2>2 DEF Scopes
  <2>4. TypeOK'
    BY <1>1, <1>2, <2>2, RngAssumption DEF TypeOK
  <2>5. ~ctx[Len(ctx)].acquired
    BY <1>1, <2>1, <2>2 DEF TypeOK
  <2>6. (\E i \in DOMAIN ctx' : ctx'[i].acquired) <=> (\E i \in DOMAIN ctx : ctx[i].acquired)
    BY <2>2, <2>5
  <2> QED
    BY <1>2, <2>3, <2>4, <2>6 DEF RngInv, OneScope, ScopesDoNotNest, Counted, DrawsAreHeld
<1> QED
  BY <1>3, <1>4

\* withRng with the flag clear opens the only scope.
LEMMA BeginKeeps ==
    ASSUME OneScope, Begin
    PROVE  OneScope' /\ (RngInv => RngInv')
<1> DEFINE new == [kind |-> "scope", at |-> "get", acquired |-> FALSE]
<1>1. TypeOK /\ ~active /\ Scopes = {}
  BY DEF OneScope, Begin
<1>2. /\ new \in Context /\ ctx' = Append(ctx, new) /\ Len(ctx) < MaxContexts
      /\ active' = TRUE /\ UNCHANGED <<mode, balance, unsaved, putFailed>>
  BY DEF Begin, Context
<1>3. /\ Len(ctx) \in Nat
      /\ DOMAIN ctx = 1 .. Len(ctx) /\ DOMAIN ctx' = 1 .. Len(ctx) + 1
      /\ ctx' \in Seq(Context) /\ Len(ctx') = Len(ctx) + 1
      /\ \A i \in 1 .. Len(ctx) : ctx'[i] = ctx[i]
      /\ ctx'[Len(ctx) + 1] = new
  BY <1>1, <1>2, Entered
<1>4. Scopes' = {Len(ctx) + 1}
  BY <1>1, <1>3 DEF Scopes
<1>5. TypeOK'
  BY <1>1, <1>2, <1>3, RngAssumption DEF TypeOK
<1>6. (\E i \in DOMAIN ctx' : ctx'[i].acquired) <=> (\E i \in DOMAIN ctx : ctx[i].acquired)
  BY <1>3
<1> QED
  BY <1>2, <1>4, <1>5, <1>6 DEF RngInv, OneScope, ScopesDoNotNest, Counted, DrawsAreHeld

\* GetRNGstate returns, or func does: the scope goes on to its next R call.
LEMMA AdvanceKeeps ==
    ASSUME OneScope, Acquired \/ Release
    PROVE  OneScope' /\ (RngInv => RngInv')
<1>1. TypeOK
  BY DEF OneScope
<1>2. /\ ctx # <<>> /\ Last(ctx).kind = "scope" /\ UNCHANGED <<active, mode, putFailed>>
      /\ \E at \in {"func", "put"} :
            ctx' = [ctx EXCEPT ![Len(ctx)].at = at, ![Len(ctx)].acquired = TRUE]
  <2>1. CASE Acquired
    BY <2>1 DEF Acquired, ScopeAt, In
  <2>2. CASE Release
    <3>1. /\ ctx # <<>> /\ Last(ctx).kind = "scope" /\ Last(ctx).at = "func"
          /\ ctx' = [ctx EXCEPT ![Len(ctx)].at = "put"]
          /\ UNCHANGED <<active, mode, putFailed>>
      BY <2>2 DEF Release, ScopeAt, In
    <3>2. /\ ctx \in Seq(Context) /\ Len(ctx) \in Nat \ {0} /\ DOMAIN ctx = 1 .. Len(ctx)
          /\ Last(ctx) = ctx[Len(ctx)] /\ ctx[Len(ctx)] \in Context
      BY <1>1, <3>1, EmptySeq, LenProperties DEF TypeOK, Last
    <3>3. ctx[Len(ctx)].acquired
      BY <1>1, <3>1, <3>2 DEF TypeOK
    <3>4. [ctx[Len(ctx)] EXCEPT !.at = "put", !.acquired = TRUE]
            = [ctx[Len(ctx)] EXCEPT !.at = "put"]
      BY <3>2, <3>3 DEF Context
    <3>5. ctx' = [ctx EXCEPT ![Len(ctx)].at = "put", ![Len(ctx)].acquired = TRUE]
      BY <3>1, <3>2, <3>4
    <3> QED
      BY <3>1, <3>5
  <2> QED
    BY <2>1, <2>2
<1>3. PICK at \in {"func", "put"} :
          ctx' = [ctx EXCEPT ![Len(ctx)].at = at, ![Len(ctx)].acquired = TRUE]
  BY <1>2
<1>4. /\ Len(ctx) \in Nat \ {0}
      /\ DOMAIN ctx = 1 .. Len(ctx) /\ DOMAIN ctx' = 1 .. Len(ctx)
      /\ ctx' \in Seq(Context) /\ Len(ctx') = Len(ctx)
      /\ \A i \in 1 .. Len(ctx) - 1 : ctx'[i] = ctx[i]
      /\ ctx'[Len(ctx)] = [ctx[Len(ctx)] EXCEPT !.at = at, !.acquired = TRUE]
      /\ Last(ctx) = ctx[Len(ctx)] /\ Last(ctx) \in Context
  BY <1>1, <1>2, <1>3, Advanced
<1>5. /\ ctx'[Len(ctx)].kind = "scope" /\ ctx'[Len(ctx)].at = at
      /\ ctx'[Len(ctx)].acquired
  BY <1>2, <1>4 DEF Context
<1>6. Scopes' = Scopes /\ Len(ctx) \in Scopes
  BY <1>2, <1>4, <1>5 DEF Scopes
<1>7. balance' \in Int /\ unsaved' \in BOOLEAN
  <2>1. balance \in Int /\ unsaved \in BOOLEAN
    BY <1>1 DEF TypeOK
  <2>2. CASE Acquired
    <3>1. balance' \in Int
      BY <2>1, <2>2 DEF Acquired
    <3>2. unsaved' \in BOOLEAN
      BY <2>2, Zenon DEF Acquired
    <3> QED
      BY <3>1, <3>2
  <2>3. CASE Release
    BY <2>1, <2>3 DEF Release
  <2> QED
    BY <2>2, <2>3
<1>8. TypeOK'
  BY <1>1, <1>2, <1>4, <1>5, <1>7, RngAssumption DEF TypeOK
<1>9. OneScope'
  BY <1>2, <1>6, <1>8 DEF OneScope, ScopesDoNotNest
<1>10. ASSUME RngInv PROVE Counted'
  <2>1. \A i \in 1 .. Len(ctx) - 1 : ~ctx[i].acquired
    <3> SUFFICES ASSUME NEW i \in 1 .. Len(ctx) - 1, ctx[i].acquired PROVE FALSE
      OBVIOUS
    <3>1. i \in Scopes
      BY <1>1, <1>4 DEF TypeOK, Scopes
    <3> QED
      BY <1>4, <1>6, <3>1 DEF OneScope, ScopesDoNotNest
  <2>2. balance' = 1
    <3>1. CASE Acquired
      <4>1. ~ctx[Len(ctx)].acquired
        BY <1>1, <1>4, <3>1 DEF Acquired, ScopeAt, In, TypeOK
      <4>2. balance = 0
        BY <1>4, <1>10, <2>1, <4>1 DEF RngInv, Counted
      <4> QED
        BY <3>1, <4>2 DEF Acquired
    <3>2. CASE Release
      <4>1. ctx[Len(ctx)].acquired
        BY <1>1, <1>4, <3>2 DEF Release, ScopeAt, In, TypeOK
      <4> QED
        BY <1>4, <1>10, <3>2, <4>1 DEF RngInv, Counted, Release
    <3> QED
      BY <3>1, <3>2
  <2>3. Len(ctx) \in DOMAIN ctx'
    BY <1>4
  <2>4. ~(\A i \in DOMAIN ctx' : ~ctx'[i].acquired)
    BY <1>5, <2>3
  <2> QED
    BY <2>2, <2>4 DEF Counted
<1>11. DrawsAreHeld'
  <2>1. Len(ctx) \in DOMAIN ctx'
    BY <1>4
  <2> QED
    BY <1>5, <2>1 DEF DrawsAreHeld
<1> QED
  BY <1>2, <1>6, <1>9, <1>10, <1>11 DEF RngInv

\* A scope ends: normally, in its frame's function, or in that function's error.
LEMMA EndKeeps ==
    ASSUME OneScope, ctx # <<>>, ctx' = Front(ctx), Last(ctx).kind = "scope",
           mode' \in {"run", "jump"}, active' \in BOOLEAN, balance' \in Int,
           unsaved' \in BOOLEAN, putFailed' \in BOOLEAN
    PROVE  /\ OneScope' /\ Scopes' = {}
           /\ \A i \in DOMAIN ctx' : ~ctx'[i].acquired
           /\ Last(ctx).acquired <=> \E i \in DOMAIN ctx : ctx[i].acquired
<1>1. TypeOK
  BY DEF OneScope
<1>2. /\ Len(ctx) \in Nat \ {0}
      /\ DOMAIN ctx = 1 .. Len(ctx) /\ DOMAIN ctx' = 1 .. Len(ctx) - 1
      /\ ctx' \in Seq(Context) /\ Len(ctx') = Len(ctx) - 1
      /\ \A i \in 1 .. Len(ctx) - 1 : ctx'[i] = ctx[i]
      /\ Last(ctx) = ctx[Len(ctx)]
  BY <1>1, Left
<1>3. Len(ctx) \in Scopes
  BY <1>2 DEF Scopes
<1>4. \A i \in 1 .. Len(ctx) - 1 : i \notin Scopes
  BY <1>2, <1>3 DEF OneScope, ScopesDoNotNest
<1>5. \A i \in 1 .. Len(ctx) - 1 : ~ctx[i].acquired /\ ctx[i].kind # "scope"
  BY <1>1, <1>2, <1>4 DEF TypeOK, Scopes
<1>6. Scopes' = {}
  BY <1>2, <1>5 DEF Scopes
<1>7. TypeOK'
  BY <1>1, <1>2, RngAssumption DEF TypeOK
<1> QED
  BY <1>2, <1>5, <1>6, <1>7 DEF OneScope, ScopesDoNotNest

\* The history variable records exactly the failures of cleanup frames.
LEMMA HistoryKept ==
    ASSUME [Next]_vars
    PROVE  putFailed' = putFailed \/ (putFailed' = TRUE /\ FireFails)
<1>1. CASE Unwind
  BY <1>1 DEF Unwind, Caught, Fire, FireFails
<1>2. CASE ~Unwind
  BY <1>2 DEF Next, vars, EnterHandler, LeaveHandler, Refuse, Begin, Acquired, Draw,
              Release, Released, Raise
<1> QED
  BY <1>1, <1>2

\* Every step preserves OneScope, and RngInv unless a cleanup frame fails.
LEMMA NextRngInv ==
    ASSUME OneScope, [Next]_vars
    PROVE  OneScope' /\ (FireFails \/ (RngInv => RngInv'))
<1>0. TypeOK /\ putFailed' \in BOOLEAN
  <2>1. TypeOK
    BY DEF OneScope
  <2> QED
    BY <2>1, HistoryKept, Zenon DEF TypeOK
<1>1. CASE UNCHANGED vars
  BY <1>0, <1>1, SameContexts DEF vars, RngInv, DrawsAreHeld, TypeOK
<1>2. CASE EnterHandler \/ LeaveHandler \/ (Caught /\ ctx # <<>>)
  BY <1>2, HandlerKeeps
<1>3. CASE Refuse \/ Raise \/ (Caught /\ ctx = <<>>)
  <2>1. UNCHANGED <<ctx, active, balance, unsaved, putFailed>> /\ mode' \in {"run", "jump"}
    BY <1>3 DEF Refuse, Raise, Caught
  <2> QED
    BY <1>0, <2>1, SameContexts DEF RngInv, DrawsAreHeld, TypeOK
<1>4. CASE Begin
  BY <1>4, BeginKeeps
<1>5. CASE Acquired \/ Release
  BY <1>5, AdvanceKeeps
<1>6. CASE Draw
  <2>1. UNCHANGED <<ctx, active, balance, mode, putFailed>> /\ unsaved' = TRUE
      /\ \E i \in Scopes : ctx[i].at = "func"
    BY <1>6 DEF Draw
  <2>2. \E i \in DOMAIN ctx : ctx[i].acquired
    BY <1>0, <2>1 DEF Scopes, TypeOK
  <2>3. DrawsAreHeld'
    BY <2>1, <2>2 DEF DrawsAreHeld
  <2>4. mode' \in {"run", "jump"} /\ unsaved' \in BOOLEAN
    BY <1>0, <2>1 DEF TypeOK
  <2> QED
    BY <2>1, <2>3, <2>4, SameContexts DEF RngInv
<1>7. CASE Released
  <2>1. /\ ctx # <<>> /\ ctx' = Front(ctx) /\ Last(ctx).kind = "scope"
        /\ Last(ctx).at = "put" /\ active' = FALSE /\ unsaved' = FALSE
        /\ balance' = balance - 1 /\ mode' = mode
    BY <1>7 DEF Released, ScopeAt, In
  <2>2. Last(ctx).acquired
    BY <1>0, <2>1, Left DEF TypeOK
  <2>3. /\ OneScope' /\ Scopes' = {}
        /\ \A i \in DOMAIN ctx' : ~ctx'[i].acquired
        /\ \E i \in DOMAIN ctx : ctx[i].acquired
    <3>1. mode' \in {"run", "jump"} /\ active' \in BOOLEAN /\ unsaved' \in BOOLEAN
      BY <1>0, <2>1 DEF TypeOK
    <3>2. balance' \in Int
      BY <1>0, <2>1 DEF TypeOK
    <3> QED
      BY <1>0, <2>1, <2>2, <3>1, <3>2, EndKeeps
  <2>4. ASSUME RngInv PROVE balance' = 0
    BY <2>1, <2>3, <2>4 DEF RngInv, Counted
  <2>5. RngInv => Counted'
    BY <2>3, <2>4 DEF Counted
  <2> QED
    BY <2>1, <2>3, <2>5 DEF RngInv, DrawsAreHeld
<1>8. CASE Fire
  <2>1. /\ ctx # <<>> /\ ctx' = Front(ctx) /\ Last(ctx).kind = "scope"
        /\ active' = FALSE /\ mode' = mode
        /\ Last(ctx).acquired => balance' = balance - 1 /\ unsaved' = FALSE
        /\ ~Last(ctx).acquired => UNCHANGED <<balance, unsaved>>
    BY <1>8 DEF Fire, In
  <2>2. /\ OneScope' /\ Scopes' = {}
        /\ \A i \in DOMAIN ctx' : ~ctx'[i].acquired
        /\ Last(ctx).acquired <=> \E i \in DOMAIN ctx : ctx[i].acquired
    <3>1. balance \in Int /\ unsaved \in BOOLEAN /\ mode \in {"run", "jump"}
      BY <1>0 DEF TypeOK
    <3>2. mode' \in {"run", "jump"} /\ active' \in BOOLEAN
      BY <2>1, <3>1
    <3>3. balance' \in Int /\ unsaved' \in BOOLEAN
      <4>1. CASE Last(ctx).acquired
        <5>1. balance' \in Int
          BY <2>1, <3>1, <4>1
        <5>2. unsaved' \in BOOLEAN
          BY <2>1, <4>1, Zenon
        <5> QED
          BY <5>1, <5>2
      <4>2. CASE ~Last(ctx).acquired
        BY <2>1, <3>1, <4>2
      <4> QED
        BY <4>1, <4>2
    <3> QED
      BY <1>0, <2>1, <3>2, <3>3, EndKeeps
  <2>3. ASSUME RngInv PROVE balance' = 0
    <3>1. CASE Last(ctx).acquired
      BY <2>1, <2>2, <2>3, <3>1 DEF RngInv, Counted
    <3>2. CASE ~Last(ctx).acquired
      <4>1. \A i \in DOMAIN ctx : ~ctx[i].acquired
        BY <2>2, <3>2
      <4> QED
        BY <2>1, <2>3, <3>2, <4>1 DEF RngInv, Counted
    <3> QED
      BY <3>1, <3>2
  <2>4. RngInv => Counted'
    BY <2>2, <2>3 DEF Counted
  <2>5. ASSUME RngInv PROVE ~unsaved'
    BY <2>1, <2>2, <2>5 DEF RngInv, DrawsAreHeld
  <2> QED
    BY <2>1, <2>2, <2>4, <2>5 DEF RngInv, DrawsAreHeld
<1>9. CASE FireFails
  <2>1. /\ ctx # <<>> /\ ctx' = Front(ctx) /\ Last(ctx).kind = "scope"
        /\ putFailed' = TRUE
        /\ UNCHANGED <<active, mode, balance, unsaved>>
    BY <1>9 DEF FireFails, In
  <2> QED
    BY <1>0, <1>9, <2>1, EndKeeps DEF TypeOK
<1> QED
  BY <1>1, <1>2, <1>3, <1>4, <1>5, <1>6, <1>7, <1>8, <1>9 DEF Next, Unwind

-----------------------------------------------------------------------------
\* The invariant of withRng: OneScope always, and all of it until a cleanup frame
\* fails.
LEMMA InductiveAlways == Spec => []Inductive
<1>1. Init => Inductive
  BY InitRngInv DEF Inductive, RngInv
<1>2. Inductive /\ [Next]_vars => Inductive'
  <2> SUFFICES ASSUME Inductive, [Next]_vars PROVE Inductive'
    OBVIOUS
  <2>1. OneScope' /\ (FireFails \/ (RngInv => RngInv'))
    BY NextRngInv DEF Inductive
  <2>2. FireFails => putFailed'
    BY Zenon DEF FireFails
  <2>3. putFailed' = putFailed \/ putFailed' = TRUE
    BY HistoryKept
  <2> QED
    BY <2>1, <2>2, <2>3, Zenon DEF Inductive
<1> QED
  BY <1>1, <1>2, PTL DEF Spec

\* The state of withRng is well-typed, and a scope's frame knows exactly whether
\* GetRNGstate has returned.
THEOREM TypeCorrect == Spec => []TypeOK
<1>1. Inductive => TypeOK
  BY DEF Inductive, OneScope
<1> QED
  BY <1>1, InductiveAlways, PTL

\* Whatever func calls and whichever R call fails, PutRNGstate included, two
\* scopes are never open at once.
THEOREM ScopesDoNotNestAlways == Spec => []ScopesDoNotNest
<1>1. Inductive => ScopesDoNotNest
  BY DEF Inductive, OneScope
<1> QED
  BY <1>1, InductiveAlways, PTL

\* GetRNGstate and PutRNGstate are balanced on every path out of withRng, until
\* PutRNGstate fails in a cleanup frame.
THEOREM BalancedAlways == Spec => []Balanced
<1>1. Inductive => Balanced
  BY DEF Inductive, RngInv, Counted, Balanced
<1> QED
  BY <1>1, InductiveAlways, PTL

\* No draw is lost, however func ends, until PutRNGstate fails in a cleanup frame.
THEOREM DrawsAreSavedAlways == Spec => []DrawsAreSaved
<1>1. Inductive => DrawsAreSaved
  BY DEF Inductive, RngInv, OneScope, TypeOK, Scopes, DrawsAreHeld, DrawsAreSaved
<1> QED
  BY <1>1, InductiveAlways, PTL

\* withRng is refused while a scope is open and at no other time, until
\* PutRNGstate fails in a cleanup frame.
THEOREM RefusedOnlyWhenNestedAlways == Spec => []RefusedOnlyWhenNested
<1>1. Inductive => RefusedOnlyWhenNested
  BY DEF Inductive, RngInv, OneScope, TypeOK, RefusedOnlyWhenNested
<1> QED
  BY <1>1, InductiveAlways, PTL
=============================================================================
