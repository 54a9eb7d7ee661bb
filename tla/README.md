# Verification of zigr

zigr binds Zig to R's C API: `export` generates `.Call` wrappers around Zig
functions, `convert` turns R vectors into slices and back, and around them is
the machinery that keeps native memory, R's PROTECT stack and R's errors
consistent. R signals errors with `longjmp`, which runs no Zig `defer`, and R
allocations may collect garbage, which runs finalizers that may enter zigr
again. Everything below is about code that must be right under those two.

All paths in this file are relative to `src/src/` unless they say otherwise.

## 1. The system

R and all of zigr run on one thread (`cleanup.zig:3-7`, `README.md:115`); the
state is `threadlocal`, and no part of the library starts threads. Concurrency
is re-entrance: control can leave a function forever at any R API call
(longjmp), and other zigr code can run inside any R API call that allocates
(finalizers) or evaluates (R code calling wrappers).

| component | state | operations | correct when |
|---|---|---|---|
| cleanup stack (`cleanup.zig`) | 16 frames with generations, `count`, 16 boundaries, `protect_depth`, `recovering_condition` | `protectCall(Data)`, `pushFrame(Inline)`, `reserveFrame`, `releaseFrame`, `popFrame`, `recoveryCheckpoint`, `rollbackRecovery`, `finishBoundary` | every registered resource is given back exactly once on every exit; nothing else is touched |
| recovery APIs (`trycatch.zig`, `eval.zig`) | a checkpoint per call | `tryEval`, `tryEvalSilent`, `topLevelExec`, `tryCatch`, `tryCatchError`, `withCallingErrorHandler` | zigr's state is what it was at the checkpoint when an error was caught |
| PROTECT helpers (`protect.zig`) | R's PROTECT stack, `protect_depth` | `protect`, `unprotect`, `unprotectN`, `scoped`, `protectWithIndex`, `reprotect` | balanced on return, restored on a jump, nobody pops another's entry |
| result builders (`convert.zig`, `rvector.zig`) | a frame and a protected vector each | `ResultGuard.init`, `get`, `finish`, `deinit`; `fixedSchemaToSexp`, `RVector.copy` | the vector stays protected until `finish`; nobody unprotects another's; the frame is gone afterwards |
| views and conversions (`convert.zig`) | native storage with a cleanup frame, or a borrowed R pointer | `view`, `deinit`, region loops | storage freed once; what is read is what the vector holds |
| summaries (`convert.zig`, `altrep_create.zig`) | an iterator and the kernel's locals | sums, mean, extremes, counts, cumulative sums; the classes' `Sum`, `Min`, `Max`, `No_NA`, `Is_sorted` | the answer does not depend on how the data was cut up |
| call memory (`memory.zig`) | chunks, a lazily registered frame | `UnwindArena`, `TwoTierArena`, `RAllocator`, `CountingAllocator` | spill freed once, also after a rollback took the frame away |
| generated wrappers (`export.zig`) | none of their own | argument conversion, call, result | argument storage outlives the call and is released on both exits |
| owned external pointers (`externalptr.zig`) | address, tag, protected metadata | `create(Typed)`, `makeTyped`, `checkedPointer`, finalizer | the value is destroyed once, by the pending frame or by R |
| ALTREP classes (`altrep_create.zig`, `altrep_complex_shim.c`) | one class per family, native buffers behind vectors, state records in R's hands | `register`, `init`, `Elt`, `Get_region`, `Dataptr`, `Duplicate`, `Serialized_state`, `Unserialize` | R code sees values: reads agree, copies are independent, only valid state is restored |
| symbol cache (`symbols.zig`) | 64 open-addressed slots, `count` | `install` | same answer as `Rf_install`, whatever is installed meanwhile |
| random numbers (`rng.zig`) | `active`, `acquired` | `withRng` | R's RNG state is written back, scopes do not nest |
| weak references (`weakref.zig`) | R's | create, key, value, finalizers | arguments checked before R is called |
| data frames, attributes, factors, S4 | none | construct one R object each | protected while under construction |
| serialization, raw (`serialize.zig`, `raw.zig`) | a growing buffer and a read position | stream callbacks | reads and writes stay inside the buffer |
| calls, embedded code (`lang.zig`, `embed.zig`) | none, one buffer | build and evaluate calls | as above |
| R vectors, SEXP types, errors, interrupts, build glue | none | accessors, `signal` | - |

**How the parts meet.** A `.Call` enters a generated wrapper, which calls
`protectCall`. That protects a continuation token, opens a boundary and calls
`R_UnwindProtect`. Views, arenas, builders, `withRng` and pointer construction
register frames in between. If the body returns, its owners have released
their frames; `finishBoundary(FALSE)` sets `count` back. If R jumps, R restores
its own PROTECT stack to what it was when `R_UnwindProtect` was called, calls
`finishBoundary(TRUE)`, which fires the boundary's frames newest first, and
`R_ContinueUnwind` resumes the jump. A recovery API stops a jump in C: R has
unwound its stacks, zigr's are behind until the API calls `rollbackRecovery`.

**What is hard here**: errors at every R call, boundaries and recoveries
nested through R code and finalizers, handles that outlive their frame, slots
that are reused, fixed capacities whose overflow is itself an R error, and
positions on a stack that are compared long after they were taken. The 'hazards'
list in `PROJECT.json` names each with its line.

## 2. Module map

| module | models |
|---|---|
| `Cleanup` | `cleanup.zig`, the part of `protect.zig`, `trycatch.zig`, `eval.zig`, `error.zig` that moves its state, result-builder frames, arena frames; R's contexts and PROTECT stack as the code uses them |
| `Ownership` | abstract: what `cleanup.zig` promises, resources in nested scopes |
| `MCCleanup` | instances of `Cleanup` for TLC |
| `Cleanup_proofs` | theorems about `Cleanup` for TLAPS: its states, then its steps |
| `OwnedPointer`, `MCOwnedPointer` | `createOwnedInner` and `finalizeOwned` of `externalptr.zig`, `init` and its finalizer of `altrep_create.zig`, with the collector as they use it |
| `OwnedPointer_proofs` | theorems about `OwnedPointer` |
| `SymbolCache`, `MCSymbolCache` | `symbols.zig` |
| `SymbolCache_proofs` | theorems about `SymbolCache` |
| `Rng` | `rng.zig`; its run needs no MC module |
| `Rng_proofs` | theorems about `Rng` |
| `Conversion`, `MCConversion` | one call that converts vectors: views and region loops of `convert.zig`, `UnwindArena` of `memory.zig`, the two-tier arena and argument conversion of `export.zig` |
| `Conversion_proofs` | theorems about `Conversion` |
| `ResultBuilder`, `MCResultBuilder` | `ResultGuard` and the builders and conversions to R of `convert.zig`, `RVector.copy`, `protect.scoped`; R's PROTECT stack with identities, and its collector |
| `ResultBuilder_proofs` | theorems about `ResultBuilder` |
| `Altrep`, `MCAltrep` | the classes of `altrep_create.zig` and the complex shim: who has which buffer, reads, state records |
| `VectorValues` | abstract: vectors as values |
| `Altrep_proofs` | theorems about `Altrep` |
| `Reductions`, `MCReductions` | the kernels of `convert.zig` over regions, the summary methods of `altrep_create.zig` |
| `Reductions_proofs` | theorems about `Reductions` |

`Cleanup` is the foundation. `OwnedPointer` and `Rng` use one fact of it, that a
boundary which is left by an R error fires the frames registered inside it,
newest first, and that a normal return fires none; each models its own frame at
that level and says in an action what the frame's function does. Where a frame
function does not itself return (`PutRNGstate`) or a frame is removed without a
name (`popFrame`) they do not lean on it and model what the code does.
`Conversion` keeps the frames of one call and names each by its owner instead of
by slot and generation, which `FreedAtMostOnce` and `LiveIffGuarded` of
`Cleanup` justify, and `ResultBuilder` does the same. `Cleanup` counts what is
on the PROTECT stack, `ResultBuilder` says what it is. `Altrep` takes from
`OwnedPointer` that building a vector either succeeds or leaves nothing.

## 3. The cleanup stack

### 3.1 State and actions

| model | code |
|---|---|
| `stack`, `count`, `next_generation` | `cleanup.zig:29-31`; a frame is its `armed` flag and its generation, the function pointer and the inline state are the resource in `guards` |
| `boundaries` | `boundaries[0..boundary_count]`, `cleanup.zig:68-74` |
| `protect_depth`, `recovering_condition` | `cleanup.zig:32-33` |
| `ctx` | R's context stack, external: one record per `protectCall` ("boundary"), recovery API call ("recovery"), and piece of R code that handles its own errors, which includes finalizers run by a collection ("eval"); `frames` and `depth` are the `saved_count` or checkpoint held in a local variable of that call |
| `ppTop` | the height of R's PROTECT stack, external |
| `mode`, `target` | where control is: running, in R's longjmp, in the loop of `finishBoundary`, in the loop of `rollbackRecovery`; and what that loop restores |
| `guards` | for each registration its handle's slot, the activation whose variable owns it, and how often the resource was given back |

`EnterBoundary`, `EnterRecovery`, `EnterEval` and the three `Return` actions are
the calls; `Push`, `Release`, `Pop`, `Protect`, `Unprotect` the operations;
`BoundaryOverflow` and `PushOverflow` the R errors the code raises at its own
limits; `Raise` any other R error. `JumpTo...` is one step of R's longjmp,
`Fire` one iteration of a loop, `FinishUnwind` what follows the loop. Handles
of resources that were given back stay in scope and `Release` may be tried
with them: its guard `Active` is `releaseFrame`'s own test.

What the callers do is taken from `src/`: an activation releases what it
registered and undoes its own protections before it returns normally
(`Settled`: every one of them uses `defer` or a matched pair; the one exception
is a generated wrapper, whose view arguments' frames are armed when it returns
and are dropped by the boundary, which `Conversion` models), and
uses `popFrame` only for its newest frame. `Push` with an outer owner is an
arena that was created by an outer function, reached through the data pointer
of `topLevelExec`, and first spills now. `CrossRelease` says whether such a
body may also *release* what its caller owns. Nothing in `src/` does; the data
pointer makes it possible for users. The runs and theorems say which they assume.

### 3.2 Abstract specification

`Ownership` knows no slots, generations or boundaries: resources are acquired
in nested scopes, an error leaves scopes one by one, and a scope that is left
gives back, newest first, all that was acquired since it was entered, before
the error goes on or is handled. The mapping in `Cleanup` takes the resources
not yet given back, the registration counter, a scope per context (sealed when
it is a boundary), and the mode. `Push` is `Acquire`, `Release` and
`Pop` are `Settle`, `Fire` of an armed frame is `FreeNewest`, of a disarmed
one a stutter, `Protect` and `Unprotect` stutter.

### 3.3 Properties and runs

| run | instance | shows |
|---|---|---|
| `cleanup` | 3 slots, 3 registrations, 4 activations, 3 protections, both kinds of frame | `TypeOK`; `BoundariesFollowContexts`; `FreedAtMostOnce`; `NothingLeaked`; `LiveIffGuarded`; `RestoredWhereCaught`; `ReturnKeepsFrames`; `ImplementsOwnership` |
| `cleanup_live` | 2 slots, 3 activations, 3 protections, `CrossRelease` | `UnwindEnds` under weak fairness of `Unwind` |
| `cleanup_token` | 2 slots, 2 activations, both kinds | finding 1 |

That an unwind fires newest first, and that a rollback leaves none of the frames
of the body it ends, are not properties of their own: `Ownership` can take no
other step, so `ImplementsOwnership` says both.

*Bounds.* `MAX_NESTING` is 16 in the code. Three slots and three registrations
give reuse of a slot under a stale handle, a disarmed hole below a live frame
and three frames whose order matters; four activations give every pair of
handlers inside a third (boundary in recovery in boundary, R code
between two boundaries). One boundary more than there is room for needs more
protections than slots and is reached in `cleanup_live`; that nothing leaks then is
what the theorems say, for every bound. The counters `MaxGeneration`,
`MaxContexts` and `MaxProtect` only stop registrations and calls, never an unwind.
CHECK_DEADLOCK stays on.

*Fairness.* Only `Unwind` is fair. R's longjmp and the loops of `cleanup.zig`
run on the one thread without waiting for anybody, so a step that is enabled
happens next. Nothing is assumed of the program that calls zigr.

### 3.4 Finding

1. `cleanup_token`. `ResultCleanup.fire` (`convert.zig:26`) unprotects. That is
   suppressed during a rollback, because "R has already restored its protection
   stack" (`cleanup.zig:203`); the same is true in `finishBoundary(true)`,
   where it is not suppressed, so an R error with a live result builder pops
   the continuation token, and with several builders entries of the caller.
   R itself resets its stack at the handler, so the height recovers
   (`RestoredWhereCaught` holds); between the two, `R_ContinueUnwind` works
   with a token that is no longer protected.

*Why `CrossRelease` is an assumption.* `rollbackRecovery` compares positions. A
body that released its caller's frame and then registered one would put the
new frame below the checkpoint, and the rollback would leave it to the next
enclosing boundary. No function of `src/` releases what its caller registered,
so this is a rule for users and not a finding; `cleanup_live` shows that
unwinding ends even then.

### 3.5 Proofs

`Cleanup_proofs` proves, for every capacity, number of registrations, depth of
nesting and set of kinds (`CleanupAssumption` is the only assumption on
constants besides the one named here):

- `TypeCorrect`: `Spec => []TypeOK`, whether or not callees cross-release.
- `FreedAtMostOnceAlways`, `NothingLeakedAlways`, `LiveIffGuardedAlways`:
  the three invariants, when `CrossRelease = FALSE`.

`TypeOK` alone is not inductive: that `Front(boundaries)` in `finishBoundary`
is defined needs R's contexts and zigr's boundaries to be nested alike
(`Nesting`, which also is `BoundariesFollowContexts` in a form that can be
carried through a step). The safety proofs rest on `SafetyInv`:

- `FramesByAge`, `ArmedIsHeld`, `HeldIsArmed`: generations increase along the
  stack, and armed frames in use correspond one to one to resources held. This
  is what makes the slot plus generation a sufficient name.
- `Floors`: each activation's saved position is at most `count`, and
  the frame just below it is armed, so `discardInactiveFrames` never digs below
  it, and `count = saved` is the exact inverse of what happened since.
  `CrossRelease` breaks this one (section 3.4).
- `Homes`: a resource's frame lies above the positions saved by every
  activation younger than its owner. A jump therefore fires exactly
  the frames of activations that are gone: `NothingLeaked`.
- `Recoveries`: a recovery is always called from Zig code.

Each action is one lemma; those that only enter or leave an activation share
`EnterSafe`, `LeaveSafe` and `JumpSafe`, those that give a resource back share
`GiveBack`. `Discard` is a `CHOOSE`; `DiscardProperties` shows by well-founded
induction on the naturals that what it chooses exists.

The second half of `Cleanup_proofs`, about steps, goes on from there:

- `RestoredWhereCaughtAlways` and `ReturnKeepsFramesAlways` need that the depths
  kept in three places agree. `Accounts` says it: since an activation was
  entered, `protect_depth` has grown as R's PROTECT stack has (`InStep`), what
  an activation saved differs from what its caller saved by the same amount on
  both (`Links`), and R code runs with the frames and the depth it started with
  (`AtRest`). While an error is under way the two depths may differ; they agree
  again where it is caught, which is what the first theorem says.
- `BoundariesFollowContextsAlways`: from `Nesting` alone, so it holds with
  cross-release too. That every saved boundary is some context's takes the least
  context above it (`OpenedByContext`).
- `ImplementsOwnershipAlways`, the refinement of 3.2. A scope of `Ownership`
  remembers the next registration when it was entered, an activation of `Cleanup`
  the number of frames. `Ages` says that both separate the same resources, which
  is why popping frames down to the saved count gives back exactly what is newer
  than the scope.

All but the third are proved for `CrossRelease = FALSE`. *Only model-checked*:
`UnwindEnds`; liveness is out of the prover's reach.

## 4. Native values owned by R

### 4.1 State and actions

An object is one construction, of kind "owned" (`externalptr.create` and
`createTyped`) or "altrep" (`OwnedAltVector.init`). The two differ in what the
code does at three places, and the model branches on `Kind` there: who
destroys the value when native memory runs out, whether the frame learns of the
external pointer (`pending.data1`), and whether an R call follows the
registration of the finalizer.

| model | code |
|---|---|
| `calls` | constructions whose `protectCallData` has not returned, nested through finalizers that run inside their R calls |
| `frames` | their cleanup frames: `PendingOwned.value`, or `PendingWrap.values` / `.wrap` as `holds` and `.data1` as `data1` |
| `stage` | which R call the construction is in; an action runs from one R call's return to the next call |
| `value`, `destroyed` | the native value: still the argument, on the heap, destroyed, and how often |
| `address` | whether `R_ExternalPtrAddr` is still non-null |
| `finalizer`, `reachable`, `quitting` | R's: a registered finalizer that has not run, a reference that protects the pointer, R running exit finalizers |

`Begin` is `pushFrameInline` and the native allocation, `Wrap`
`R_MakeExternalPtr` with its protection, `Register` the finalizer and for
"owned" the `popFrame`, `NewAltrep` the last step of an ALTREP. Every one has
its failure: `BeginFails`, `BeginOutOfMemory`, `ProtectFails`, `Raise`.
`Collect` is a finalizer, possible in any R call, `Close` a method that calls
`finalizeOwned` early, as `tests/r_runtime.zig:8799-8832` does.

### 4.2 Properties and runs

| run | instance | shows |
|---|---|---|
| `owned_pointer` | two owned values and an ALTREP, cleanup stack of 2, three nested constructions | `DestroyedAtMostOnce`; `AddressIsLive`; `HasOwner`; `FramesMatchCalls`, which includes the types; `DestroyedAtExit` |
| `owned_pointer_entry` | the same | finding 2 |

*Bounds.* Each object is constructed once, so the states are finite without a
counter. Two owned values and one ALTREP give each kind inside each, and three
constructions over two slots reach the overflow. *Fairness.* Exit finalizers:
once R is quitting it runs every finalizer registered with `onexit`
(`externalptr.zig:153`, `altrep_create.zig:838`) before it ends. Nothing else
is fair. *Deadlock* is not checked: after its exit finalizers R stops.

### 4.3 Finding

2. `owned_pointer_entry`. "Ownership of `init_val` transfers on entry, including
   when construction raises an R error" (`externalptr.zig:221`). If the
   continuation cannot be allocated or the boundary or cleanup stack is full,
   the error is raised before any code that would run `deinitFn` on it.

### 4.4 Proofs

`OwnedPointer_proofs` proves `DestroyedAtMostOnce`, `AddressIsLive`, `HasOwner`
and `FramesMatchCalls` for every set of constructions of both kinds and every size
of the cleanup stack, from `OwnedPointerAssumption`. None is inductive: whether an
R error destroys a value depends on whose frame it meets. `OwnInv` adds

- `Life`: what the stage of a construction says of its value, its pointer and
  its finalizer. After a failure a destroyed value may leave an address behind,
  but then nothing reaches it.
- `Stacks`: the frames are those of the constructions that have come to theirs,
  each holding its value, in the same order as the constructions. A construction
  has at most one frame; the newest frame therefore is the innermost
  construction's, if that has one (`LastFrame`). This is what makes `popFrame`,
  which names no frame, take the right one.

The proof has one lemma per way the stacks change (`StacksBegin`,
`StacksAdvance`, `StacksPop`, ...) and one per action. `FramesMatchCalls` says of
the frames as a whole what `Stacks` says frame by frame. Only model-checked is
`DestroyedAtExit`, a liveness property.

## 5. The symbol cache

`hashes`, `names` (with `lengths`), `sexps` and `count` are the arrays of
`symbols.zig:14-18`. R's symbol for a name is represented by the name. `calls`
holds the `name` and `idx` of each `install` that is waiting in `Rf_install`,
the one place where others can run. `Probe` is the loop of lines 28-36
including what it leaves in `idx` when the table is full (the home slot again).
`Miss` ends where `Rf_install` is called, `Installed` is everything after it,
`InstallFails` an R error in it.

Run `symbol_cache`: 4 slots for 64, and five names of which two have one hash,
three have one home slot and one wraps around at the end of the table, two
installations at a time. That reaches the full table (one name has no slot),
the slot that is taken while an installation is suspended, and the doubled
installation of one name. `MaxDepth` bounds nesting only. `AnswersAreRs`,
`EveryEntryFound`, `CountIsExact` and the action property `EntriesStay` hold.

*Proofs* (`SymbolCache_proofs`): all four, and the types, for every table size, hash function,
set of names and depth. The invariant adds to them `Entries` (a used slot holds
its name's hash and symbol), `Reachable` (each entry's probe path is occupied
up to it by other names) and `CallsAim` (a suspended call's slot is where
its probe path first was empty, and everything before it on the path is still
occupied by other names, so if that slot is still empty, inserting there is
right). `CallsAim` is why testing `hashes[idx] == 0` after `Rf_install` is
enough and probing again is not needed.

## 6. Random numbers

`active` is `rng.zig:13`. `ctx` holds the scopes of `withRng` and the handlers
that surround or are inside them; a scope records the R call it is in
(`GetRNGstate`, `func`, `PutRNGstate`) and its frame's `acquired`. `balance`
counts `GetRNGstate` minus `PutRNGstate`, `unsaved` says that R's generator has
moved since `.Random.seed` was written; a call of `PutRNGstate` that fails counts in
neither, so `Balanced` does not see that the frame repeats it. `Fire` is
`RngCleanup.fire`, `FireFails`
the same when `PutRNGstate` longjmps out of it, which the history variable
`putFailed` remembers. `PutRNGstate` may also fail in `release()` (`Raise`); the
frame then calls it again.

| run | instance | shows |
|---|---|---|
| `rng` | 6 nested contexts | `TypeOK`; `ScopesDoNotNest`; until `putFailed` also `Balanced`, `DrawsAreSaved`, `RefusedOnlyWhenNested` |

*Bounds.* `MaxContexts` is the only one. Six give handlers around, inside and
between scopes. A cleanup stack that is full is an error before the flag is
set, the same as any error of the caller.

*Proofs* (`Rng_proofs`): all five, for every depth. `OneScope` (an open scope keeps
the flag set, also when cleanup fails) is an invariant by itself and gives
`ScopesDoNotNest`. `RngInv` adds that the flag implies an open scope, the
balance (`Counted`), and that unsaved draws belong to a scope that has acquired
the state (`DrawsAreHeld`); every step but `FireFails` preserves it.

*Why `putFailed`.* `PutRNGstate` allocates and assigns `.Random.seed`, whose
binding can be locked. If it raises inside `fire`, `active = false`
(`rng.zig:18`) is not reached, the draws are not written, and `withRng` is
refused from then on with no scope open. What the repository's README says of
`withRng` (line 127) is about errors in the caller's function, not about
`PutRNGstate` failing while it cleans up. So the three properties say what holds
until then, and `ScopesDoNotNest` what holds even after.

## 7. Conversions and call memory

### 7.1 State and actions

One call of native code, which converts up to `Views` vectors, in a recovery's
body or outside. `allocator` is what it converts with: the heap, an
`UnwindArena` of its own, or a wrapper's two-tier arena. Vectors with a direct
pointer are borrowed and own nothing; the model is about the others.

| model | code |
|---|---|
| `frames`, `base` | the cleanup stack above the call's boundary, and the number of frames below it; a frame is armed or not and belongs to a view or to the arena |
| `views` | one record per conversion: kind, what it is doing, where its storage is, its length and the elements read so far |
| `arena` | `UnwindArena.state != null` |
| `spill`, `destroys` | the `ArenaAllocator` in the frame's inline state: alive or destroyed, and how often |
| `body` | the recovery API the call is in: the checkpoint's position and which conversions are the body's |

`Enter`, `Return`, `EnterRecovery`, `LeaveRecovery` are the activations. `Begin`
is `requireCapacity`, the allocation (with `ensureState` when it spills) and the
registration of the frame. `ReadRegion` is one turn of a region loop,
`ReadElement` one `STRING_ELT`, `ReadFails` a refused count with its two
`errdefer`s, `Finish` the end of the loop: a slice gives up its frame, a
view keeps it, a materialized access replaces it. `NextRegion` is
`VectorAccess.next`, `Deinit` any view's `deinit`. `Refuse` and `OutOfMemory` are
the two ways not to begin. `Raise` may happen at any R call, those of a
conversion included, and then `Fire` and `Unwound` are the boundary's or the
recovery's loop.

The wrapper converts its arguments before it calls its function, so nothing is
allocated from its arena in a recovery (`MayAllocate`), makes no views with
frames of their own (`Kinds`), and does not deinitialize what it converted: on
return the arena is destroyed and the boundary drops the frames.

### 7.2 Properties and runs

| run | instance | shows |
|---|---|---|
| `conversion` | two vectors of length 1 or 3, a stack of 4, region buffer of 2, all allocators | `StorageIsLive`; `FreedOnce`; `NothingLost`; `HoldsSource`; `ReadsBounded` |
| `conversion_empty` | one vector of length 0 or 1 | finding 3 |

`NothingLost` says that storage is guarded by an armed frame wherever R can
jump (`Guarded`), and that nothing is left when the call is over; the types are
part of it. `StorageIsLive` excepts one case: an arena that allocates for the
first time in the body of a recovery registers its frame above the checkpoint,
and if an error leaves the body the rollback destroys it, while `ensureState`
(`memory.zig:168`) returns the pointer it has. No function of `src/` uses an
arena on both sides of a recovery, and `deinit` is right even then
(`FreedOnce`); the history variable `inner` tells these arenas apart.

`HoldsSource` says that a view holds element `i` of the vector at place `i`,
however the region method divided its answers, and that a one-pass consumer has
seen a prefix without gap or repetition. `ReadsBounded` is the termination of
the loops: a method that answers 0 is refused, so there are at most as many
reads as elements.

*Bounds.* Length 3 with a buffer of 2 gives a full, a short and a last region,
and a slice in up to three reads. A stack of 4 holds an arena's frame, two
views' and one hole or spare; `base` takes every value, so every call
also meets a stack that is too full at each of its registrations. One recovery
that is not nested: nesting is `Cleanup`'s subject, and so is a body that
releases what its caller owns (`CrossRelease`), which is excluded here.
*Fairness*: none, there is no liveness property; `ReadsBounded` is a safety
property. Deadlock is checked.

### 7.3 Proofs

`Conversion_proofs` proves all five properties for every set of views, every
set of lengths, every `Chunk` and capacity; `FreedOnce` under the hypothesis that no vector is
empty, without which it is false (7.4). There are two invariants.

`DataInv` gives `HoldsSource` and `ReadsBounded`: the elements a view has been given
are the first `offset` of its vector in their order, it has had no more reads
than elements, and what is open, but for a one-pass access, is complete. The
argument is about sequences: a read that is not refused has a count between 1
and what remains (`Bad`), so appending it to a prefix gives a longer prefix
(`PrefixGrows`, `AdvanceIsGood`). Which frames are on the stack does not matter.

`StoreInv` gives `StorageIsLive`, `NothingLost` and `FreedOnce`, which are not
inductive: what an error frees depends on where the frames are.

- `FramesOK`: an owner, a view or the arena, has at most one armed frame, and
  released frames do not stay on top.
- `ViewOK`: what a view's status, place and frame say of each other; in particular
  storage on the heap that has not been freed has its frame, and a view that is
  filled or open has lost its storage only to an unwind that ends it.
- `BodyOK`: a recovery's mark separates the frames that its body registered from
  those the caller had, and the frame just below the mark is armed. Releasing a
  frame of the body therefore never digs below the mark, and a rollback frees
  exactly what the body's conversions hold.
- `ArenaOK`: the arena lives exactly as long as its frame, is destroyed at most
  once, and early only if its frame belongs to a body (`inner`).
- `ReadingOK`: one vector is read at a time, and a repeated access has kept a slot
  for the frame that replaces the conversion's.

### 7.4 Finding

3. `conversion_empty`. An empty string vector is copied into a view of length 0,
   for which Zig's allocator interface allocates nothing. The frame registered
   for it nevertheless calls `rawFree` when it fires (`convert.zig:87`).
   `deinit` uses `free`, which tests the length. Numeric vectors are not affected:
   empty ones are borrowed (`convert.zig:251`).

## 8. Results for R

`ResultBuilder` is about which value is on R's PROTECT stack when, so values
have identities here; their elements are left out.

### 8.1 State and actions

| model | code |
|---|---|
| `pp` | R's PROTECT stack above the caller's part, external; `None` is the wrapper's continuation token |
| `frames` | the armed cleanup frames: a builder's `ResultCleanup` with its `protected` flag (`convert.zig:20-29`), or the region buffer of an input |
| `calls` | the Zig activations: what each is doing (`pc`), its builders (`vec`, `names`, `held`), a value in a variable that nothing roots (`hand`), copies of its builders |
| `taken` | the values in use that the collector has taken |
| `entry`, `level`, `catch` | history: the stacks as an activation found them, and whether it was called through `tryCatch` |

`Register` and `Fill` are the two halves of `ResultGuard.init`, the R allocation
between them. A struct is converted by `BeginNames`, `ConvertField`, `SetField`,
`SetName`, `SetNames`, `DropNames` (`convert.zig:1620-1640`), where a field that is
a struct, a slice or strings is an activation of its own; `SetStrings` is
`fromStringSlice`, `OpenAccess` and `ReadChunk` are `RVector.copy`, whose builder's
frame lies below its input's and is released first. `User...` is a function of the
package that keeps builders and scoped values, stores into them, copies them,
finishes them, and calls the others. It follows the documented discipline: newest
first (`Newest`), and protect a result before the next R allocation (`Ready`).
Whenever R allocates, it collects everything its stack does not reach
(`Collect`), the behaviour of `gctorture`: a value that survives it survives any
collector. `Raise` may happen at every R call, `Overflow` at every registration.

### 8.2 Properties and run

| run | instance | shows |
|---|---|---|
| `result_builder` | a stack of 6, a struct in a struct with strings, 8 values, 2 activations called by the package, 2 builders each | `BuildersAreRooted`, with the types; `NothingInUseCollected`; `CallersProtected`; `ReturnsBalanced` |

`Rf_unprotect` takes whatever is on top; that every builder still has its own
vector there (`BuildersAreRooted`), that nobody pops below where it began
(`CallersProtected`) and that both stacks end where they began
(`ReturnsBalanced`) are what the order of the `deinit`s is for. The outer struct
has two builders open while the inner one and its strings are converted, which
needs five frames: with six the whole structure fits under one user builder, and
one builder more overflows inside it. Deadlock is checked. There is no fairness.
What happens *during* an unwind, where the builder's `fire` unprotects although
R will restore the height, is finding 1 in `Cleanup`; here an error is one step,
to the state R restores.

### 8.3 Proofs

`ResultBuilder_proofs` proves the four properties for every set of schemas,
structs nested to any depth, every capacity of the cleanup stack and every bound
on values, activations and what a package function holds, from
`BuilderAssumption`. None is inductive: `Rf_unprotect` takes what is on top, so
that it takes the right entry depends on whose entries those are. `BuilderInv`
divides both stacks:

- `StacksOK`: activation `k` owns the entries of `pp` above what it found and
  below what the next activation found, and frames likewise; what it found is
  still there. The segments of two activations are disjoint.
- `Own`: what the owner has in its segment. For a conversion its program counter
  says it exactly (`ConversionStacks`: the vector, the names, in this order, and
  the frames of their builders and of the input). For a package function the
  entries of `pp` are what it has open, in the order of `held` (`UserStack`), and
  its frames are those of its open builders in any order (`UserFrames`), because
  a builder may be finished through a copy.
- `Waiting`: an activation that called another has nothing in hand, so nothing
  that is unrooted outlives a call.
- Names of different activations are different, so nobody's `deinit` finds
  another's frame.

An action changes only the running activation and its segments, which `OwnStep`
shows to be enough; `CutStep` is a caught error, `CallStep` and `ReturnStep` enter
and leave. Each action is a lemma on top of these. The delicate ones are those of
a package function that finishes in the order `Newest`: `OnTop` shows that what
is open and newest is the top of `pp`, and `StackKept` that the rest keeps its
order when one thing is removed from `held`, from the stack and from the frames.
`ProtectedIsRooted` and `CollectsNothing` then give the first two properties at
every allocation, and an empty segment the last two.

`FramesWithout` and `Without` remove the newest entry of a name with `RemoveAt`;
that `Max` of a set of indices exists is `MaxOfSome`, by well-founded induction.
There is nothing that is only model-checked.

## 9. ALTREP vectors

### 9.1 State and actions

| model | code |
|---|---|
| `class`, `classes` | the class variable of each family (`register`), and how many classes R made |
| `object` | R's vectors, ordinary and ALTREP: family, class, and which buffer |
| `buffer` | the elements: native memory, or what an ordinary vector has; `Freed` when there is none |
| `record` | serialized states in the hands of R code, made by a class or by R code itself: form, magic, version, kind, payload |
| `answer` | what the last operation told its caller, for the abstract specification |

`New` is `init` with its check of logical values, `Duplicate`, `SerializedState`
and `Restore` are the class methods (`validateSerializedState` is `Validate`, in
the order of its tests), `Store` is C code through `Dataptr`, which for a
logical vector may store any int, `Drop` the finalizer. `OtherRecord` gives
R code records with one thing wrong. Element reads go through the operators of
the shim by their names: `zigr_altcomplex_elt_parts_impl`, `zigr_altcomplex_elt`,
`zigr_complex_elt_parts`. `Region` is `getRegionImpl` with `regionBounds`.

### 9.2 Abstract specification and properties

`VectorValues` says what R code may assume of vectors: each has a value, a copy
starts with the value of what it was made from, a store changes one vector. It
knows no classes, buffers or records. `Altrep` maps a vector to the elements of
its buffer; `ImplementsValues` would fail if any two shared one.

| run | instance | shows |
|---|---|---|
| `altrep` | logical and complex vectors of length 0 to 2, 3 vectors, 1 record | `ReadsAgree`, `RoundTrip`, `InstancesKeepClass` with the types, `ImplementsValues` |

Logical is the family whose values are checked, complex the one behind the shim,
and the others read their buffer the way logical ones do. Three vectors are a
vector, its snapshot and what is restored from it. `RoundTrip` speaks of payloads
that hold legal values: C code may store any int in a logical vector, and such a
record is refused. Deadlock is checked; there is
no liveness.

### 9.3 Proofs

`Altrep_proofs` proves all four for every set of families, cells, values and
numbers of vectors and records, from `AltrepAssumption`. `AltrepInv` adds to the
types that a vector has the buffer of its own number and that a free number's
buffer is free (`OwnBuffers`), that classes of different families are different
(in `Shape`: without it a vector could pass the test of a foreign class's
`Serialized_state`), and that a record's payload is a vector that is still there,
an ordinary one of the right family if a class made the record (`Payloads`).
`PutKeeps` is the step all makers of vectors share. For the refinement,
`ValIsBuffer` says that under the invariant the mapped value *is* `buffer`; with it
each step is one step of `VectorValues` (`MakeStep`, `CopyStep`, `StoreIntoStep`,
`DropStep`, `OtherStep`). `RegionIsPart` is the arithmetic of region reads for
vectors of every length: the function `Get_region` copies is the subsequence.

## 10. Summaries

### 10.1 State and actions

One call of a kernel of `convert.zig` or of a summary method. `job` is the call:
kernel, direction, `na_rm`, the data, and how the data is given: as one slice,
region by region, or by a class whose region method after the first read returns
nothing or claims too much. `offset` is the iterator, `acc` the kernel's locals,
`pass` which pass of the mean is running, `result` what was returned. `next` is
the iterators' `next`, with `checkedRegionCount`; each kernel's action is one turn
of its loop over a chunk that may be as short as the class likes. Lanes are
modelled: `Body`, `Lane` and `Tail_` cut a chunk as the vectorized loops do. The
mean is three passes, `MeanTotal`, then `MeanScaled` when the total overflowed,
then `realMeanCorrection`.

NA and NaN are two numbers the data uses for nothing else. Doubles are whole
numbers with a largest finite one, so overflow is there and rounding is not; a
sum takes whole numbers of any size, as the code's long double does, and is
compared with `MaxDouble` where the code narrows it (`Double`). `Inf` is a number
that the finite doubles of a call do not add up to, and data for a sum or a mean
has at most one of the two infinities: their sum is NaN, which the model's numbers
do not say. What each kernel is called with is `Cells`.
`sumInt` adds NA as the int it is, as the code does, which leaves NA to its callers.

Each class has its own `Sum`, and its own kernel here: `realSum` narrows a long
double at the end, `integerSum` answers with an R integer or, beyond the ints, with
a double, and `logicalSum` counts. The last two answer with a typed scalar. A
logical vector may hold any int, because C code can store through its `Dataptr`
(9.1): `logicalSum` counts every element that is neither 0 nor NA as one. R would
add the ints of an ordinary vector. That is one difference from R's own sums that
is in the code and so in `Reference`; there are three more:

- An integer sum beyond the ints is a double, where R warns and answers NA
  (`tests/r_runtime.zig:2985` wants the double).
- `integerSum` compares its total with `minInt(i32)` (`altrep_create.zig:463`),
  which is R's NA. The sum of -2147483647 and -1 is therefore an integer NA
  without a missing element and without a warning, while a sum one less is a
  double. The code should compare with the int after it, which is where
  `integerMax` starts its lanes (line 566).
- A logical vector's missing sum is a logical NA, where R's is an integer one.

### 10.2 Properties and run

| run | instance | shows |
|---|---|---|
| `reductions` | every vector up to length 4 over NA, NaN, two values and, for sums, infinity, ints at both ends, and logical values beside 0 and 1; chunks of 3, 2 lanes | `LocalsSummarizePrefix`, with the types; `ResultIsReference`; `MethodIsReference`; `Terminates` |

`Reference` defines each result from the data as a whole, with sets and
quantifiers. Length 4 with chunks of 3 gives two chunks, a full body with a rest,
a body alone, a rest alone, and every way of reading shorter. Sums reach the least
int, pass it and pass the greatest, and sums of doubles pass the largest one; that
a logical vector has more true elements than there are ints takes more elements
than four, and is covered by the theorem alone. *Fairness*:
`WF_vars(Next)`, because a call is one loop of one thread that waits for nobody.
Deadlock is not checked: a call ends.

### 10.3 Proofs

`Reductions_proofs` proves the three invariants for every chunk length, every
number of lanes, vectors of any length and any answers of a class, from
`ReductionsAssumption`: the constants are positive, and each call is what
`JobOK` says, the cells of its kernel and the two conditions on infinities above.
`Terminates` is liveness and stays with TLC.

*The invariant.* `IInv` says that the locals `acc` are the `Summary` of what has
been read, `SubSeq(job.data, 1, offset)`, and that a value returned is the
reference of all the data. `Summary` says more than the properties do, because
`Finish` hides what the next chunk needs:

- `RealSummary`: total, worst missing value, and how many values are not missing.
- `MeanSummary`: which of these the running pass may rely on. The passes after
  the first need that nothing counts as missing and that `count` is the number of
  values of *all* the data; the correction is kept as a multiple of `count`, and
  over all the data it is 0.
- `CumulativeSummary`: every cell written is the reference of its own prefix. A
  running sum that has left the doubles stays there (`FarInfinity`: what follows
  does not bring it back, which is what `Inf > 2 * MaxDouble * Len` says).
- `MinMaxSummary`, `ExtremeSummary`: the best is attained and nothing beats it.
- `FirstSummary`: the index is the first of the places that hold the best.

The methods work on the whole buffer, so for them `IInv` only says that nothing
has happened yet. TLC checked `IInv` on the instance of the run before it was
proved.

*Chunks and lanes.* Every kernel has one lemma that its turn extends the summary
by the chunk (`AddRealChunk` to `AddBestChunk`), and one that its action keeps
`IInv` (`RealSumAccumulatorKeeps` and so on). The lanes are the delicate part:

- `PlacesAre`, `LaneIs`, `TailIs`: each index of a chunk is at one place of one
  lane or in the tail, whatever the remainder of its length.
- `LaneSumIs`: adding lane by lane adds every element once; by induction on rows,
  with `SumAdd` for one row more.
- `MinMaxChunk`: a lane passes over missing values that the chunk has already
  counted, while those of the tail are counted one by one; neither is lost.
- `LaterIs`, `SoonerIs`, `BestOfChunkIs`: a lane sees its places in order, so it
  replaces its candidate only by a better one; combining lanes compares indices
  too, since lanes interleave; the tail comes after all of them.

*Methods.* `PresentSum` and `NonzeroCount` say what the totals of the sum methods
are, the sum of what is present and the number of elements that are not FALSE;
`RealSumIs`, `IntegerSumIs` and `LogicalSumIs` add how each class types its answer.

*Folds.* What a fold computes for a sequence of every length takes induction, and
the library's induction theorems take an operator, which the provers cannot
instantiate. The proofs use well-foundedness instead, where the argument is a set:
`WFMin` with `NatLessThanWellFounded` gives the least element of a set of numbers
(`Least`), and from it `Induction` and `InductionTo` for sets of numbers. The same
way `FoldExists` shows that the recursive function behind `FoldLeft`
exists, and `FoldKeeps` that a property of the steps is one of the result. Each
operator that is folded has its instance (`AddRealFold`, `LaterFold`, and so on).
The operators are named definitions of the model, not `LAMBDA`s, for this reason.

## 11. What is not modelled

- Text and most data: names, error messages, attributes; element values except
  in `Altrep` and `Reductions`.
- Diagnostics: the high-water marks of `cleanup.zig`, counters of the
  allocators, `finalizer_invocations`.
- `zigr_on_unwind` and `zigr_on_return`, which `cleanup.zig` describes as direct
  hooks for tests and the ABI.
- The wrap-around of `usize` generations after 2^64 registrations.
- Frame functions that re-enter the cleanup stack: those in `src/` free memory,
  unprotect, or call `PutRNGstate`.
- Rounding of sums and means.
- Typed external pointers (`checkedPointer`, `typedBacking`, `makeTyped`): tests of
  a pointer's tag, address and backing object in a row, which keep no state.
- `pmin`, `pmax` and structs from R: two views, or one conversion per field, of
  `Conversion`, with one loop.
- Weak references (`weakref.zig`): checks of the arguments and one call into R;
  the life of key and value is the collector's.
- Data frames, attributes, factors, S4 objects (`dataframe.zig`, `attrib.zig`,
  `factor.zig`, `s4.zig`), calls and embedded code (`lang.zig`, `embed.zig`): each
  builds or inspects one R object in a straight line, under protections that
  follow the scheme of `ResultBuilder`.
- Serialization streams (`serialize.zig`, `raw.zig`): bounds checks and copies; the
  format is R's.
- R as a whole: its contexts, collector, finalizers and PROTECT stack appear as
  far as the code depends on them, and are marked external in `PROJECT.json`.
- Several threads: the code forbids R calls off R's thread and shares nothing.
- Build glue, generated bindings and compile-time checks.

## 12. What is proved, and the plan

Every invariant, action property and refinement that the passing runs check is a
theorem, for all values of the constants. `UnwindEnds`, `DestroyedAtExit` and
`Terminates` are liveness, which is out of the prover's reach, and stay with TLC,
as do the three runs that show a finding. Hypotheses beyond the named assumptions
on constants are two: `CrossRelease = FALSE` in most theorems about `Cleanup`
(3.4), and no empty vectors in `FreedOnceAlways`.

Left to do: `TypedPointer`, a model of `makeTyped`, `checkedPointer` and
`typedBacking` over pointers that other code made or cleared, if a property that
relates several of their steps turns up.
