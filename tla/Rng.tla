--------------------------------- MODULE Rng ---------------------------------
(***************************************************************************)
(* rng.withRng: a Zig function runs between GetRNGstate and PutRNGstate, in  *)
(* a boundary of its own with a cleanup frame, so that R errors do not lose *)
(* what was drawn.  A thread-local flag refuses nested scopes.              *)
(*                                                                         *)
(* The function may call anything: recoveries and R code that catch errors, *)
(* and, through them or through finalizers, withRng again.  `ctx` holds the *)
(* scopes and the places where an error is caught, innermost last.          *)
(***************************************************************************)
EXTENDS Integers, Sequences, SequencesExt, FiniteSets

CONSTANT MaxContexts    \* bound: depth of nesting

ASSUME RngAssumption == MaxContexts \in Nat

VARIABLES
    active,     \* the flag
    ctx,        \* scopes of withRng and handlers
    mode,       \* "run", or "jump" while an R error is looking for its handler
    balance,    \* calls of GetRNGstate minus calls of PutRNGstate
    unsaved,    \* draws have been made that .Random.seed does not know of
    putFailed   \* history: PutRNGstate has failed in a cleanup frame

vars == <<active, ctx, mode, balance, unsaved, putFailed>>

\* at: the R call a scope waits for, GetRNGstate, PutRNGstate or one of func's.
Context == [kind : {"scope", "handler"}, at : {"get", "func", "put"}, acquired : BOOLEAN]

TypeOK ==
    /\ active \in BOOLEAN
    /\ ctx \in Seq(Context)
    /\ Len(ctx) <= MaxContexts
    /\ mode \in {"run", "jump"}
    /\ balance \in Int
    /\ unsaved \in BOOLEAN
    /\ putFailed \in BOOLEAN
    /\ \A i \in DOMAIN ctx :
          ctx[i].acquired <=> ctx[i].kind = "scope" /\ ctx[i].at # "get"

Init ==
    /\ active = FALSE
    /\ ctx = <<>>
    /\ mode = "run"
    /\ balance = 0
    /\ unsaved = FALSE
    /\ putFailed = FALSE

-----------------------------------------------------------------------------
Running == mode = "run"
In(kind) == ctx # <<>> /\ Last(ctx).kind = kind
ScopeAt(at) == Running /\ In("scope") /\ Last(ctx).at = at
Scopes == {i \in DOMAIN ctx : ctx[i].kind = "scope"}

\* A recovery API, R's tryCatch, or a finalizer in a collection: in any R call.
EnterHandler ==
    /\ Running
    /\ Len(ctx) < MaxContexts
    /\ ctx' = Append(ctx, [kind |-> "handler", at |-> "func", acquired |-> FALSE])
    /\ UNCHANGED <<active, mode, balance, unsaved, putFailed>>

LeaveHandler ==
    /\ Running
    /\ In("handler")
    /\ ctx' = Front(ctx)
    /\ UNCHANGED <<active, mode, balance, unsaved, putFailed>>

\* Where withRng can be called: from R code, from a handler's body, from func.
CanCall == Running /\ (ctx = <<>> \/ In("handler") \/ ScopeAt("func"))

\* The flag is set: an R error, and a boundary that has no frame to fire.
Refuse ==
    /\ CanCall
    /\ active
    /\ mode' = "jump"
    /\ UNCHANGED <<active, ctx, balance, unsaved, putFailed>>

\* Mutant of Begin: the flag is not looked at.
BeginNested ==
    /\ CanCall
    /\ Len(ctx) < MaxContexts
    /\ active' = TRUE
    /\ ctx' = Append(ctx, [kind |-> "scope", at |-> "get", acquired |-> FALSE])
    /\ UNCHANGED <<mode, balance, unsaved, putFailed>>

\* The frame is pushed and the flag set; GetRNGstate is called.
Begin ==
    /\ CanCall
    /\ ~active
    /\ Len(ctx) < MaxContexts
    /\ active' = TRUE
    /\ ctx' = Append(ctx, [kind |-> "scope", at |-> "get", acquired |-> FALSE])
    /\ UNCHANGED <<mode, balance, unsaved, putFailed>>

\* Mutant of Acquired: the frame is not told.
AcquiredForgets ==
    /\ ScopeAt("get")
    /\ ctx' = [ctx EXCEPT ![Len(ctx)].at = "func"]
    /\ balance' = balance + 1
    /\ unsaved' = FALSE
    /\ UNCHANGED <<active, mode, putFailed>>

\* GetRNGstate returns, with the stream as .Random.seed has it.
Acquired ==
    /\ ScopeAt("get")
    /\ ctx' = [ctx EXCEPT ![Len(ctx)].at = "func", ![Len(ctx)].acquired = TRUE]
    /\ balance' = balance + 1
    /\ unsaved' = FALSE
    /\ UNCHANGED <<active, mode, putFailed>>

\* rng.normal, inside func or inside something it called.
Draw ==
    /\ CanCall
    /\ \E i \in Scopes : ctx[i].at = "func"
    /\ unsaved' = TRUE
    /\ UNCHANGED <<active, ctx, mode, balance, putFailed>>

\* func returns; release() calls PutRNGstate.
Release ==
    /\ ScopeAt("func")
    /\ ctx' = [ctx EXCEPT ![Len(ctx)].at = "put"]
    /\ UNCHANGED <<active, mode, balance, unsaved, putFailed>>

\* PutRNGstate returns: the flag is cleared and the frame popped.
Released ==
    /\ ScopeAt("put")
    /\ balance' = balance - 1
    /\ unsaved' = FALSE
    /\ active' = FALSE
    /\ ctx' = Front(ctx)
    /\ UNCHANGED <<mode, putFailed>>

\* An R error: in GetRNGstate (an invalid .Random.seed), in func, in a handler's
\* body, or in PutRNGstate.
Raise ==
    /\ Running
    /\ ctx # <<>>
    /\ mode' = "jump"
    /\ UNCHANGED <<active, ctx, balance, unsaved, putFailed>>

\* The error reaches a handler, or R's top level.
Caught ==
    /\ mode = "jump"
    /\ ctx = <<>> \/ In("handler")
    /\ mode' = "run"
    /\ ctx' = IF ctx = <<>> THEN ctx ELSE Front(ctx)
    /\ UNCHANGED <<active, balance, unsaved, putFailed>>

\* Mutants of Fire: the flag is forgotten; PutRNGstate is called regardless.
FireKeepsActive ==
    /\ mode = "jump"
    /\ In("scope")
    /\ IF Last(ctx).acquired
       THEN balance' = balance - 1 /\ unsaved' = FALSE
       ELSE UNCHANGED <<balance, unsaved>>
    /\ ctx' = Front(ctx)
    /\ UNCHANGED <<active, mode, putFailed>>
FireAlways ==
    /\ mode = "jump"
    /\ In("scope")
    /\ balance' = balance - 1
    /\ unsaved' = FALSE
    /\ active' = FALSE
    /\ ctx' = Front(ctx)
    /\ UNCHANGED <<mode, putFailed>>
FireNever ==
    /\ mode = "jump"
    /\ In("scope")
    /\ active' = FALSE
    /\ ctx' = Front(ctx)
    /\ UNCHANGED <<mode, balance, unsaved, putFailed>>

\* It reaches the boundary of a scope, which fires RngCleanup.
Fire ==
    /\ mode = "jump"
    /\ In("scope")
    /\ IF Last(ctx).acquired
       THEN balance' = balance - 1 /\ unsaved' = FALSE
       ELSE UNCHANGED <<balance, unsaved>>
    /\ active' = FALSE
    /\ ctx' = Front(ctx)
    /\ UNCHANGED <<mode, putFailed>>

\* PutRNGstate signals another error from inside fire (it allocates, and assigns
\* .Random.seed, whose binding can be locked): the second line of fire is never
\* reached, and the new error goes on from the next context.
FireFails ==
    /\ mode = "jump"
    /\ In("scope")
    /\ Last(ctx).acquired
    /\ ctx' = Front(ctx)
    /\ putFailed' = TRUE
    /\ UNCHANGED <<active, mode, balance, unsaved>>

Unwind == Caught \/ Fire \/ FireFails

Next ==
    \/ EnterHandler \/ LeaveHandler
    \/ Refuse \/ Begin \/ Acquired \/ Draw \/ Release \/ Released
    \/ Raise
    \/ Unwind

Spec == Init /\ [][Next]_vars

-----------------------------------------------------------------------------
\* GetRNGstate and PutRNGstate are balanced as long as no cleanup frame's call of
\* PutRNGstate has failed: GetRNGstate is one call ahead inside a scope that has
\* acquired the state, and nowhere else, however scopes end.
Balanced ==
    ~putFailed =>
        /\ (\E i \in DOMAIN ctx : ctx[i].acquired) => balance = 1
        /\ (\A i \in DOMAIN ctx : ~ctx[i].acquired) => balance = 0

\* Nothing that was drawn is lost: outside scopes R knows the whole stream.
DrawsAreSaved == ~putFailed /\ Scopes = {} => ~unsaved

\* withRng is refused exactly while a scope is open, whoever asks and however
\* the scopes before it ended, even by an error of PutRNGstate in release().
RefusedOnlyWhenNested == ~putFailed => (active <=> Scopes # {})

\* R's random state is not a stack: at no time are two scopes open, even after
\* errors that the cleanup itself could not deal with.
ScopesDoNotNest == \A i, j \in Scopes : i = j
=============================================================================
