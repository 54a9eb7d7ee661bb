------------------------------- MODULE Cleanup -------------------------------
(***************************************************************************)
(* The cleanup stack of src/cleanup.zig, with the R contexts it is driven   *)
(* by.  R errors longjmp over Zig `defer`s, so native resources that must   *)
(* survive an error are registered as frames on a fixed thread-local stack. *)
(* `protectCall` opens a boundary around a piece of Zig code and            *)
(* R_UnwindProtect calls `finishBoundary` when that code returns or is      *)
(* jumped over; the recovery APIs (tryEval, tryCatch, topLevelExec) stop a  *)
(* jump and call `rollbackRecovery` with the checkpoint they took.          *)
(*                                                                         *)
(* One thread runs everything (cleanup.zig lines 3-7), so the state is a    *)
(* stack of activations, `ctx`, and what the innermost one is doing:        *)
(*   "boundary"  Zig code inside protectCall / protectCallData              *)
(*   "recovery"  Zig or R code called by tryEval, tryCatch or topLevelExec  *)
(*   "eval"      R code that catches its own errors: R's tryCatch, or the   *)
(*               top-level context a finalizer runs under during a GC       *)
(* The interpreter's own part (contexts, the PROTECT stack, longjmp) is     *)
(* modelled from how cleanup.zig and protect.zig use it.                    *)
(***************************************************************************)
EXTENDS Integers, Sequences, SequencesExt, FiniteSets

CONSTANTS
    MAX_NESTING,    \* capacity of the frame stack and of the boundary stack
    MaxGeneration,  \* bound: frames registered in one behaviour
    MaxContexts,    \* bound: depth of nested activations
    MaxProtect,     \* bound: entries above R's own on the PROTECT stack
    Kinds,          \* frames in use: "native" frees memory, "result" unprotects
    CrossRelease    \* may a callee release a frame that its caller owns?

ASSUME CleanupAssumption ==
    /\ MAX_NESTING \in Nat \ {0}
    /\ MaxGeneration \in Nat
    /\ MaxContexts \in Nat
    /\ MaxProtect \in Nat
    /\ Kinds \subseteq {"native", "result"}
    /\ CrossRelease \in BOOLEAN

VARIABLES
    stack,                 \* the frame array; entries at and above count are stale
    count,                 \* frames in use
    next_generation,       \* identity of the next registration
    boundaries,            \* boundaries[1..boundary_count]
    protect_depth,         \* zigr's own count of protected values
    recovering_condition,  \* set while rollbackRecovery fires frames
    ctx,                   \* R's context stack, innermost last
    ppTop,                 \* R_PPStackTop, relative to the idle interpreter
    mode,                  \* "run", "jump", "boundary" or "rollback"
    target,                \* what the running unwind loop restores
    guards                 \* the native resource behind each registration

cleanupVars == <<stack, count, next_generation, boundaries, protect_depth,
                 recovering_condition>>
vars == <<cleanupVars, ctx, ppTop, mode, target, guards>>

Slots == 0 .. MAX_NESTING - 1
Generations == 0 .. MaxGeneration - 1

Frame == [armed : BOOLEAN, generation : Generations]
Boundary == [frame_count : 0..MAX_NESTING, protect_depth : Int]

\* cstacktop is what a longjmp into the context restores R_PPStackTop to.
\* frames and depth are the saved_count of a protectCall and the checkpoint of
\* a recovery API; since and opened are history: the registrations and the
\* boundaries that existed when the context was entered.
Context == [kind : {"boundary", "recovery", "eval"}, cstacktop : Int,
            frames : 0..MAX_NESTING, depth : Int,
            since : Nat, opened : Nat]

Target == [frames : 0..MAX_NESTING, depth : Int, since : Nat, cont : Int]
NoTarget == [frames |-> 0, depth |-> 0, since |-> 0, cont |-> 0]

\* home is the depth of the activation whose variable owns the resource, 0 when
\* that activation is gone; freed counts how often the resource was given back.
Guard == [slot : Slots, home : Nat, kind : {"native", "result"}, freed : Nat]

TypeOK ==
    /\ stack \in [Slots -> [armed : BOOLEAN, generation : Nat]]
    /\ count \in 0..MAX_NESTING
    /\ next_generation \in 0..MaxGeneration
    /\ boundaries \in Seq(Boundary)
    /\ Len(boundaries) <= MAX_NESTING
    /\ protect_depth \in Int
    /\ recovering_condition \in BOOLEAN
    /\ recovering_condition = (mode = "rollback")
    /\ ctx \in Seq(Context)
    /\ ppTop \in Int
    /\ mode \in {"run", "jump", "boundary", "rollback"}
    /\ target \in Target
    /\ guards \in [Generations -> Guard]

Init ==
    /\ stack = [s \in Slots |-> [armed |-> FALSE, generation |-> 0]]
    /\ count = 0
    /\ next_generation = 0
    /\ boundaries = <<>>
    /\ protect_depth = 0
    /\ recovering_condition = FALSE
    /\ ctx = <<>>
    /\ ppTop = 0
    /\ mode = "run"
    /\ target = NoTarget
    /\ guards = [g \in Generations |->
                    [slot |-> 0, home |-> 0, kind |-> "native", freed |-> 0]]

-----------------------------------------------------------------------------
(***************************************************************************)
(* Reading the state.                                                      *)
(***************************************************************************)
Top == Last(ctx)
Running(kind) == mode = "run" /\ ctx # <<>> /\ Top.kind = kind

\* Zig code is executing and can call cleanup.zig.
ZigRuns == Running("boundary") \/ Running("recovery")
\* The interpreter is executing R code, at the prompt or under an eval.
RRuns == Running("eval") \/ (mode = "run" /\ ctx = <<>>)

Registered == {g \in Generations : g < next_generation}
Unfreed == {g \in Registered : guards[g].freed = 0}

\* The activations that share the innermost boundary: a variable of any of
\* them is in reach of the running Zig code, through the recovery's data pointer.
InReach == {d \in 1..Len(ctx) : \A i \in d + 1 .. Len(ctx) : ctx[i].kind = "recovery"}

\* Mutant of Active: the slot alone identifies the registration.
ActiveBySlot(g) ==
    LET slot == guards[g].slot
    IN  slot < count /\ stack[slot].armed

\* releaseFrame and frameIsActive: does the handle of g still name an armed frame?
Active(g) ==
    LET slot == guards[g].slot
    IN  slot < count /\ stack[slot].armed /\ stack[slot].generation = g

\* Mutant of Discard: released frames stay where they are.
DiscardNothing(s, n) == n

\* What discardInactiveFrames leaves of the first n frames of s.
Discard(s, n) ==
    CHOOSE m \in 0..n :
        /\ m = 0 \/ s[m - 1].armed
        /\ \A i \in m .. n - 1 : ~s[i].armed

\* Protections the innermost activation made itself and has not undone.
OwnProtections == ppTop - Top.cstacktop
HeldResults == {g \in Unfreed : guards[g].home = Len(ctx) /\ guards[g].kind = "result"}

-----------------------------------------------------------------------------
(***************************************************************************)
(* Entering and leaving activations.                                       *)
(***************************************************************************)
EnterContext(kind, top) ==
    /\ Len(ctx) < MaxContexts
    /\ ctx' = Append(ctx, [kind |-> kind, cstacktop |-> top, frames |-> count,
                           depth |-> protect_depth, since |-> next_generation,
                           opened |-> Len(boundaries)])

\* The variables of activations deeper than n are gone, and with them the
\* handles; of what was given back already nothing else is worth recording.
Abandon(n) ==
    [g \in Generations |->
        IF guards[g].home \in 1..n THEN guards[g]
        ELSE IF guards[g].freed = 0 THEN [guards[g] EXCEPT !.home = 0]
        ELSE [slot |-> 0, home |-> 0, kind |-> "native", freed |-> guards[g].freed]]

LeaveContext ==
    /\ ctx' = Front(ctx)
    /\ guards' = Abandon(Len(ctx) - 1)

\* protectCall: a generated wrapper called from R, or Zig code opening its own
\* boundary.  The continuation token stays protected during the call.
EnterBoundary ==
    /\ ZigRuns \/ RRuns
    /\ ppTop < MaxProtect
    /\ Len(boundaries) < MAX_NESTING
    /\ EnterContext("boundary", ppTop + 1)
    /\ ppTop' = ppTop + 1
    /\ boundaries' = Append(boundaries, [frame_count |-> count,
                                         protect_depth |-> protect_depth])
    /\ UNCHANGED <<stack, count, next_generation, protect_depth,
                   recovering_condition, mode, target, guards>>

\* beginBoundary signals an R error when the boundary stack is full.
BoundaryOverflow ==
    /\ ZigRuns \/ RRuns
    /\ ppTop < MaxProtect
    /\ Len(boundaries) = MAX_NESTING
    /\ ppTop' = ppTop + 1
    /\ mode' = "jump"
    /\ UNCHANGED <<cleanupVars, ctx, target, guards>>

\* recoveryCheckpoint, then R_tryEval, R_tryCatch or R_ToplevelExec.
EnterRecovery ==
    /\ ZigRuns
    /\ EnterContext("recovery", ppTop)
    /\ UNCHANGED <<cleanupVars, ppTop, mode, target, guards>>

\* Zig code evaluates R code that handles its own errors, or a GC inside an
\* allocation runs finalizers.
EnterEval ==
    /\ ZigRuns
    /\ EnterContext("eval", ppTop)
    /\ UNCHANGED <<cleanupVars, ppTop, mode, target, guards>>

\* Every function releases what it registered and unprotects what it
\* protected before it returns normally.
Settled ==
    /\ ppTop = Top.cstacktop
    /\ \A g \in Unfreed : guards[g].home # Len(ctx)

\* Mutant of ReturnBoundary: zigr_on_return's count = 0 instead of the saved count.
ReturnBoundaryClears ==
    /\ Running("boundary")
    /\ Settled
    /\ count' = 0
    /\ protect_depth' = Last(boundaries).protect_depth
    /\ boundaries' = Front(boundaries)
    /\ ppTop' = ppTop - 1
    /\ LeaveContext
    /\ UNCHANGED <<stack, next_generation, recovering_condition, mode, target>>

\* cleanHandler(FALSE), then the tail of protectCall.
ReturnBoundary ==
    /\ Running("boundary")
    /\ Settled
    /\ count' = Top.frames
    /\ protect_depth' = Last(boundaries).protect_depth
    /\ boundaries' = Front(boundaries)
    /\ ppTop' = ppTop - 1
    /\ LeaveContext
    /\ UNCHANGED <<stack, next_generation, recovering_condition, mode, target>>

\* A recovery API whose body did not fail restores nothing.
ReturnRecovery ==
    /\ Running("recovery")
    /\ Settled
    /\ LeaveContext
    /\ UNCHANGED <<cleanupVars, ppTop, mode, target>>

ReturnEval ==
    /\ Running("eval")
    /\ LeaveContext
    /\ UNCHANGED <<cleanupVars, ppTop, mode, target>>

-----------------------------------------------------------------------------
(***************************************************************************)
(* Frames and protections.                                                 *)
(***************************************************************************)
\* reserveFrame, for a resource owned by the activation at depth home: the
\* running one, or one in reach whose arena first allocates now.  A "result"
\* frame (convert.ResultGuard) comes with a protected R vector.
Push(home, kind) ==
    /\ ZigRuns
    /\ next_generation < MaxGeneration
    /\ count < MAX_NESTING
    /\ kind = "result" => home = Len(ctx) /\ ppTop < MaxProtect
    /\ stack' = [stack EXCEPT ![count] = [armed |-> TRUE, generation |-> next_generation]]
    /\ count' = count + 1
    /\ next_generation' = next_generation + 1
    /\ guards' = [guards EXCEPT ![next_generation] =
                    [slot |-> count, home |-> home, kind |-> kind, freed |-> 0]]
    /\ ppTop' = ppTop + (IF kind = "result" THEN 1 ELSE 0)
    /\ protect_depth' = protect_depth + (IF kind = "result" THEN 1 ELSE 0)
    /\ UNCHANGED <<boundaries, recovering_condition, ctx, mode, target>>

\* reserveFrame and requireCapacity signal an R error instead of overflowing.
PushOverflow ==
    /\ ZigRuns
    /\ count = MAX_NESTING
    /\ mode' = "jump"
    /\ UNCHANGED <<cleanupVars, ctx, ppTop, target, guards>>

MayRelease(g) ==
    \/ guards[g].home = Len(ctx)
    \/ CrossRelease /\ guards[g].home \in InReach

\* protect.unprotect(), which leaves R's stack alone during a rollback.
Unprotected(g) == guards[g].kind = "result"
DepthAfter(g) == protect_depth - (IF Unprotected(g) THEN 1 ELSE 0)
\* Mutant of TopAfter: unprotect does not look at recovering_condition.
TopAfterAlways(g) == ppTop - (IF Unprotected(g) THEN 1 ELSE 0)

TopAfter(g) ==
    ppTop - (IF Unprotected(g) /\ ~recovering_condition THEN 1 ELSE 0)

\* deinit of an arena, a view or a builder: releaseFrame(handle), and only when
\* it succeeds the owner frees the resource itself.  The handle may be stale.
Release(g) ==
    /\ ZigRuns
    /\ MayRelease(g)
    /\ Active(g)
    /\ LET disarmed == [stack EXCEPT ![guards[g].slot].armed = FALSE]
       IN  /\ stack' = disarmed
           /\ count' = Discard(disarmed, count)
    /\ guards' = [guards EXCEPT ![g].freed = @ + 1]
    /\ protect_depth' = DepthAfter(g)
    /\ ppTop' = TopAfter(g)
    /\ UNCHANGED <<next_generation, boundaries, recovering_condition, ctx, mode,
                   target>>

\* popFrame: the caller takes back its newest frame without naming it.
Pop(g) ==
    /\ ZigRuns
    /\ guards[g].home = Len(ctx)
    /\ guards[g].kind = "native"
    /\ g \in Unfreed
    /\ \A h \in Unfreed : h <= g
    /\ count' = IF count = 0 THEN 0 ELSE Discard(stack, count - 1)
    /\ guards' = [guards EXCEPT ![g].freed = @ + 1]
    /\ UNCHANGED <<stack, next_generation, boundaries, protect_depth,
                   recovering_condition, ctx, ppTop, mode, target>>

Protect ==
    /\ ZigRuns
    /\ ppTop < MaxProtect
    /\ ppTop' = ppTop + 1
    /\ protect_depth' = protect_depth + 1
    /\ UNCHANGED <<stack, count, next_generation, boundaries,
                   recovering_condition, ctx, mode, target, guards>>

\* ScopedProtect.deinit of a value the running activation protected.
Unprotect ==
    /\ ZigRuns
    /\ OwnProtections > Cardinality(HeldResults)
    /\ ppTop' = ppTop - 1
    /\ protect_depth' = protect_depth - 1
    /\ UNCHANGED <<stack, count, next_generation, boundaries,
                   recovering_condition, ctx, mode, target, guards>>

-----------------------------------------------------------------------------
(***************************************************************************)
(* R errors: err.signal, or any R API call that longjmps.                  *)
(***************************************************************************)
Raise ==
    /\ mode = "run"
    /\ ctx # <<>>
    /\ mode' = "jump"
    /\ UNCHANGED <<cleanupVars, ctx, ppTop, target, guards>>

Jumping(kind) == mode = "jump" /\ ctx # <<>> /\ Top.kind = kind

\* No context is left: R prints the error and resets its PROTECT stack.
JumpToTopLevel ==
    /\ mode = "jump"
    /\ ctx = <<>>
    /\ ppTop' = 0
    /\ mode' = "run"
    /\ UNCHANGED <<cleanupVars, ctx, target, guards>>

JumpToEval ==
    /\ Jumping("eval")
    /\ ppTop' = Top.cstacktop
    /\ LeaveContext
    /\ mode' = "run"
    /\ UNCHANGED <<cleanupVars, target>>

\* Mutant of JumpToBoundary: boundary_count is not decremented on a jump.
JumpToBoundaryKeeps ==
    /\ Jumping("boundary")
    /\ ppTop' = Top.cstacktop
    /\ target' = [frames |-> Last(boundaries).frame_count,
                  depth |-> Last(boundaries).protect_depth,
                  since |-> Top.since, cont |-> Top.cstacktop]
    /\ LeaveContext
    /\ mode' = "boundary"
    /\ UNCHANGED <<stack, count, next_generation, boundaries, protect_depth,
                   recovering_condition>>

\* R restores its PROTECT stack, ends the context, and calls cleanHandler(TRUE).
JumpToBoundary ==
    /\ Jumping("boundary")
    /\ ppTop' = Top.cstacktop
    /\ boundaries' = Front(boundaries)
    /\ target' = [frames |-> Last(boundaries).frame_count,
                  depth |-> Last(boundaries).protect_depth,
                  since |-> Top.since, cont |-> Top.cstacktop]
    /\ LeaveContext
    /\ mode' = "boundary"
    /\ UNCHANGED <<stack, count, next_generation, protect_depth, recovering_condition>>

\* Mutants of JumpToRecovery: a checkpoint taken after the body has run, and one
\* that counts a frame too many.
JumpToRecoveryFrom(frames) ==
    /\ Jumping("recovery")
    /\ ppTop' = Top.cstacktop
    /\ target' = [frames |-> frames, depth |-> Top.depth,
                  since |-> Top.since, cont |-> Top.cstacktop]
    /\ LeaveContext
    /\ mode' = "rollback"
    /\ recovering_condition' = TRUE
    /\ UNCHANGED <<stack, count, next_generation, boundaries, protect_depth>>
JumpToRecoveryLate == JumpToRecoveryFrom(count)

\* R stops the jump in its own C code, which returns to the recovery API.
JumpToRecovery ==
    /\ Jumping("recovery")
    /\ ppTop' = Top.cstacktop
    /\ target' = [frames |-> Top.frames, depth |-> Top.depth,
                  since |-> Top.since, cont |-> Top.cstacktop]
    /\ LeaveContext
    /\ mode' = "rollback"
    /\ recovering_condition' = TRUE
    /\ UNCHANGED <<stack, count, next_generation, boundaries, protect_depth>>

Unwinding == mode \in {"boundary", "rollback"}

\* Mutants of Fire: oldest frame first, and a loop that only counts down when it
\* fires.
FireOldest ==
    /\ Unwinding
    /\ count > target.frames
    /\ LET armed == {s \in target.frames .. count - 1 : stack[s].armed}
       IN  IF armed = {}
           THEN count' = count - 1 /\ UNCHANGED <<stack, guards>>
           ELSE LET s == CHOOSE x \in armed : \A y \in armed : x <= y
                IN  /\ stack' = [stack EXCEPT ![s].armed = FALSE]
                    /\ guards' = [guards EXCEPT ![stack[s].generation].freed = @ + 1]
                    /\ UNCHANGED count
    /\ UNCHANGED <<next_generation, boundaries, protect_depth, recovering_condition,
                   ctx, ppTop, mode, target>>
FireArmedOnly ==
    /\ Unwinding
    /\ count > target.frames
    /\ stack[count - 1].armed
    /\ count' = count - 1
    /\ guards' = [guards EXCEPT ![stack[count - 1].generation].freed = @ + 1]
    /\ UNCHANGED <<stack, next_generation, boundaries, protect_depth,
                   recovering_condition, ctx, ppTop, mode, target>>

\* One iteration of the loop in finishBoundary or rollbackRecovery: the top
\* frame is removed and, if armed, its function gives the resource back.
Fire ==
    /\ Unwinding
    /\ count > target.frames
    /\ count' = count - 1
    /\ LET frame == stack[count - 1]
           g     == frame.generation
       IN  IF frame.armed
           THEN /\ guards' = [guards EXCEPT ![g].freed = @ + 1]
                /\ protect_depth' = DepthAfter(g)
                /\ ppTop' = TopAfter(g)
           ELSE UNCHANGED <<guards, protect_depth, ppTop>>
    /\ UNCHANGED <<stack, next_generation, boundaries, recovering_condition, ctx,
                   mode, target>>

\* Mutant of FinishUnwind: the flag is left set.
FinishUnwindKeepsFlag ==
    /\ Unwinding
    /\ count <= target.frames
    /\ protect_depth' = target.depth
    /\ mode' = IF mode = "boundary" THEN "jump" ELSE "run"
    /\ target' = NoTarget
    /\ UNCHANGED <<stack, count, next_generation, boundaries, recovering_condition,
                   ctx, ppTop, guards>>

\* The loop is done: a boundary hands back to R's jump, a recovery returns.
FinishUnwind ==
    /\ Unwinding
    /\ count <= target.frames
    /\ protect_depth' = target.depth
    /\ mode' = IF mode = "boundary" THEN "jump" ELSE "run"
    /\ recovering_condition' = FALSE
    /\ target' = NoTarget
    /\ UNCHANGED <<stack, count, next_generation, boundaries, ctx, ppTop, guards>>

-----------------------------------------------------------------------------
Unwind ==
    \/ JumpToTopLevel \/ JumpToEval \/ JumpToBoundary \/ JumpToRecovery
    \/ Fire \/ FinishUnwind

Next ==
    \/ EnterBoundary \/ BoundaryOverflow \/ EnterRecovery \/ EnterEval
    \/ ReturnBoundary \/ ReturnRecovery \/ ReturnEval
    \/ \E home \in InReach, kind \in Kinds : Push(home, kind)
    \/ PushOverflow
    \/ \E g \in Registered : Release(g)
    \/ \E g \in Registered : Pop(g)
    \/ Protect \/ Unprotect
    \/ Raise
    \/ Unwind

Spec == Init /\ [][Next]_vars

\* R and the loops of cleanup.zig run on one thread: an unwind that has begun
\* is not suspended.  The client's program is under no obligation.
FairSpec == Spec /\ WF_vars(Unwind)

-----------------------------------------------------------------------------
(***************************************************************************)
(* Correctness.                                                            *)
(***************************************************************************)
\* R keeps its contexts and zigr keeps its boundaries, each on its own stack.
\* They stay in step through every nesting, error and recovery: the boundary
\* that cleanHandler pops is the one opened by the protectCall being left.
BoundariesFollowContexts ==
    LET opened == {i \in DOMAIN ctx : ctx[i].kind = "boundary"}
    IN  /\ Len(boundaries) = Cardinality(opened)
        /\ \A i \in opened :
              boundaries[ctx[i].opened + 1] = [frame_count |-> ctx[i].frames,
                                               protect_depth |-> ctx[i].depth]

\* A resource is given back at most once, whether by its owner's deinit, by
\* popFrame's caller or by the unwinder, whatever stale handles remain in use.
FreedAtMostOnce == \A g \in Registered : guards[g].freed <= 1

\* Once an error has been handled, nothing owned by an activation that is gone
\* is left behind: it was given back before or during the unwind.
NothingLeaked ==
    mode = "run" => \A g \in Unfreed : guards[g].home \in 1..Len(ctx)

\* Until it is given back, a resource keeps an armed frame of its own on the
\* stack, so that any later error still reaches it; and every armed frame
\* in use guards a resource that is still held.
LiveIffGuarded ==
    /\ \A g \in Unfreed : Active(g)
    /\ \A s \in 0 .. count - 1 : stack[s].armed => stack[s].generation \in Unfreed

\* Where a jump stops, zigr's stack, its tracked depth and R's PROTECT stack are
\* what they were when the handling activation was entered.
RestoredWhereCaught ==
    [][/\ mode = "rollback" /\ mode' = "run" =>
             count' = target.frames /\ protect_depth' = target.depth /\ ppTop' = target.cont
       /\ Jumping("eval") /\ mode' = "run" =>
             count' = Top.frames /\ protect_depth' = Top.depth /\ ppTop' = Top.cstacktop
       /\ mode = "jump" /\ ctx = <<>> /\ mode' = "run" =>
             count' = 0 /\ protect_depth' = 0]_vars

\* A boundary that returns normally leaves the caller's frames and depth as they
\* were: setting count to the saved value neither drops nor revives a frame.
ReturnKeepsFrames ==
    [][boundaries' # boundaries /\ mode = "run" /\ Len(boundaries') < Len(boundaries) =>
          count' = count /\ protect_depth' = protect_depth]_vars

\* The frame stack implements ownership in nested scopes: refinement mapping.
ScopeOf(c) == [since |-> c.since, sealed |-> c.kind = "boundary"]
Scopes == [i \in 1..Len(ctx) |-> ScopeOf(ctx[i])]
Status == CASE mode = "run" -> "run"
            [] mode = "jump" -> "failing"
            [] OTHER -> "freeing"

Own == INSTANCE Ownership WITH
    live <- Unfreed, next <- next_generation, scopes <- Scopes, status <- Status,
    limit <- target.since

\* Slots, generations, disarmed frames, boundaries and checkpoints together
\* give every caller what module Ownership promises.
ImplementsOwnership == Own!Spec

\* While a boundary unwinds, R's PROTECT stack still holds the continuation
\* token that protectCall put there for R_ContinueUnwind.
ContinuationRooted == mode = "boundary" => ppTop >= target.cont

\* An error that is raised is handled: every unwind comes to its end.
UnwindEnds == mode # "run" ~> mode = "run"
=============================================================================
