----------------------------- MODULE Conversion -----------------------------
(***************************************************************************)
(* One call of native code that converts R vectors: the views of            *)
(* src/convert.zig, the call-scoped arenas of src/memory.zig and            *)
(* src/export.zig they take storage from, and the cleanup frames that free  *)
(* the storage when R's longjmp skips every `defer`.                        *)
(*                                                                         *)
(* Only vectors without a direct pointer are of interest (the others are    *)
(* borrowed and own nothing).  Reading one calls R: an ALTREP method that   *)
(* may raise an error or return fewer elements than it was asked for.       *)
(*                                                                         *)
(* Cleanup is used by its results: a handle names its own registration and  *)
(* no later one (FreedAtMostOnce, LiveIffGuarded), so a frame is named by   *)
(* the view, or by the arena, that registered it.                           *)
(***************************************************************************)
EXTENDS Integers, Sequences, SequencesExt, FiniteSets

CONSTANTS
    Views,           \* the conversions of one call
    MAX_NESTING,     \* capacity of the cleanup stack
    Lengths,         \* bound: lengths of the vectors
    Chunk,           \* region_chunk_elements
    Allocators       \* of the call: see Kinds

ASSUME ConversionAssumption ==
    /\ "arena" \notin Views
    /\ MAX_NESTING \in Nat \ {0}
    /\ Lengths \subseteq Nat
    /\ Chunk \in Nat \ {0}
    /\ Allocators \subseteq {"heap", "unwind", "two_tier"}

VARIABLES
    mode,       \* "idle", "run", or "unwind": R has jumped, frames are fired
    allocator,  \* what the call's conversions allocate from
    base,       \* frames in use below the call's boundary
    frames,     \* the frames above it, newest last
    views,      \* the conversions and what they hold
    arena,      \* does UnwindArena.state point to an arena state?
    spill,      \* that arena's memory: "none", "live" or "destroyed"
    destroys,   \* how often it was destroyed
    inner,      \* history: its frame was registered in the body of a recovery
                \* that has not returned normally
    body        \* the body of a recovery API the call is in

vars == <<mode, allocator, base, frames, views, arena, spill, destroys, inner, body>>

\* "slice"     toXSlice and the views with an arena owner: guarded while filled
\* "view"      SliceView: the frame stays until deinit
\* "cached"    CachedStringSliceView: the same, read element by element
\* "one_pass"  VectorAccess over regions: a buffer of one chunk
\* "repeated"  VectorAccess, materialized: filled as a slice, then guarded anew
\* A generated wrapper ("two_tier") makes no views with frames of their own.
Kinds(a) == {"one_pass", "repeated"}
              \cup (IF a = "heap" THEN {} ELSE {"slice"})
              \cup (IF a = "two_tier" THEN {} ELSE {"view", "cached"})
Places(a) == CASE a = "heap" -> {"heap"}
               [] a = "unwind" -> {"spill"}
               [] a = "two_tier" -> {"fixed", "spill"}

Frame == [owner : Views \cup {"arena"}, armed : BOOLEAN]

\* offset counts the elements read, and data is which ones they were: what a
\* filled view holds, or what a one-pass kernel has seen.  reads and freed are
\* history.
View == [kind : {"slice", "view", "cached", "one_pass", "repeated"},
         status : {"none", "filling", "open", "stale", "failed", "closed"},
         place : {"none", "heap", "spill", "fixed"},
         len : Nat, offset : Nat, data : Seq(Nat), reads : Nat, freed : Nat]
NoView == [kind |-> "slice", status |-> "none", place |-> "none", len |-> 0,
           offset |-> 0, data |-> <<>>, reads |-> 0, freed |-> 0]
NoBody == [active |-> FALSE, mark |-> 0, fresh |-> {}]

TypeOK ==
    /\ mode \in {"idle", "run", "unwind"}
    /\ allocator \in {"heap", "unwind", "two_tier"}
    /\ base \in 0..MAX_NESTING
    /\ frames \in Seq(Frame)
    /\ base + Len(frames) <= MAX_NESTING
    /\ views \in [Views -> View]
    /\ \A v \in Views : views[v].offset <= views[v].len
    /\ arena \in BOOLEAN
    /\ spill \in {"none", "live", "destroyed"}
    /\ destroys \in Nat
    /\ inner \in BOOLEAN
    /\ body \in [active : BOOLEAN, mark : Nat, fresh : SUBSET Views]

Init ==
    /\ mode = "idle"
    /\ allocator = "heap"
    /\ base = 0
    /\ frames = <<>>
    /\ views = [v \in Views |-> NoView]
    /\ arena = FALSE
    /\ spill = "none"
    /\ destroys = 0
    /\ inner = FALSE
    /\ body = NoBody

-----------------------------------------------------------------------------
(***************************************************************************)
(* Frames and storage.                                                     *)
(***************************************************************************)
\* requireCapacity does not refuse n more frames.
Room(n) == base + Len(frames) + n <= MAX_NESTING

Armed(owner) == [owner |-> owner, armed |-> TRUE]

\* Mutant of Active: deinit frees whatever releaseFrame says.
ActiveAssumed(owner) == TRUE

\* releaseFrame succeeds for the frame that owner registered.
Active(owner) == Contains(frames, Armed(owner))

\* Mutant of Release: popFrame, which names no frame.
ReleaseTop(owner) == IF frames = <<>> THEN <<>> ELSE Front(frames)

\* The frames after releaseFrame: disarmed ones go when nothing is above them.
Release(owner) ==
    LET disarmed == [i \in DOMAIN frames |->
                        IF frames[i].owner = owner THEN [frames[i] EXCEPT !.armed = FALSE]
                        ELSE frames[i]]
        keep     == {i \in DOMAIN frames : disarmed[i].armed}
    IN  SubSeq(disarmed, 1, IF keep = {} THEN 0 ELSE Max(keep))

\* Mutant of Required: the check is missing.
RequiredNone(kind) == 0

\* requireCapacity's argument: the arena's frame, the view's, and for a
\* materialized access one to spare.
Required(kind) == IF kind = "repeated" THEN 3 ELSE 2

Retained(kind) == kind # "slice"
Filling == \E v \in Views : views[v].status = "filling"

\* A step of the call: nothing below happens while a conversion reads.
Runs == mode = "run" /\ ~Filling

\* ensureState: the arena's first allocation, of len elements, registers it.
Spills(place, len) == place = "spill" /\ len > 0 /\ ~arena
FramesWith(place, len) ==
    IF Spills(place, len) THEN Append(frames, Armed("arena")) ELSE frames
Allocate(place, len) ==
    /\ arena' = (arena \/ Spills(place, len))
    /\ spill' = IF Spills(place, len) THEN "live" ELSE spill
    /\ inner' = (inner \/ (Spills(place, len) /\ body.active))

Jump == mode' = "unwind"

-----------------------------------------------------------------------------
(***************************************************************************)
(* The call, and recoveries inside it.                                     *)
(***************************************************************************)
\* protectCall, with n frames of the callers on the stack.
Enter(a, n) ==
    /\ mode = "idle"
    /\ mode' = "run"
    /\ allocator' = a
    /\ base' = n
    /\ frames' = <<>>
    /\ views' = [v \in Views |-> NoView]
    /\ arena' = FALSE
    /\ spill' = "none"
    /\ destroys' = 0
    /\ inner' = FALSE
    /\ body' = NoBody

\* The end of the body: the arena's deinit, then protectCall drops what is left
\* above its boundary.  Views on the heap have been deinitialized; those in an
\* arena need not have been, and a wrapper's arguments never are.
Return ==
    /\ Runs
    /\ ~body.active
    /\ allocator = "heap" => \A v \in Views : views[v].status # "open"
    /\ mode' = "idle"
    /\ frames' = <<>>
    /\ arena' = FALSE
    /\ IF arena /\ Active("arena")
       THEN spill' = "destroyed" /\ destroys' = destroys + 1
       ELSE UNCHANGED <<spill, destroys>>
    /\ UNCHANGED <<allocator, base, views, inner, body>>

\* recoveryCheckpoint; the body reaches the call's views and arena through its
\* data pointer.  fresh: the conversions it makes itself.
EnterRecovery ==
    /\ Runs
    /\ ~body.active
    /\ body' = [active |-> TRUE, mark |-> Len(frames),
                fresh |-> {v \in Views : views[v].status = "none"}]
    /\ UNCHANGED <<mode, allocator, base, frames, views, arena, spill, destroys, inner>>

LeaveRecovery ==
    /\ Runs
    /\ body.active
    /\ body' = NoBody
    /\ inner' = (inner /\ spill # "live")
    /\ UNCHANGED <<mode, allocator, base, frames, views, arena, spill, destroys>>

\* Any R call longjmps, an ALTREP method called by a conversion included.
Raise ==
    /\ mode = "run"
    /\ Jump
    /\ UNCHANGED <<allocator, base, frames, views, arena, spill, destroys, inner, body>>

\* Mutant of Goal: the recovery unwinds to the boundary.
GoalOfBoundary == 0

\* Where the loop of finishBoundary, or of rollbackRecovery, stops.
Goal == IF body.active THEN body.mark ELSE 0

\* One iteration: AllocSliceCleanup.fire frees on the heap and is a no-op in an
\* arena; UnwindArena.State.fire destroys the arena.
Fire ==
    /\ mode = "unwind"
    /\ Len(frames) > Goal
    /\ frames' = Front(frames)
    /\ LET top == Last(frames)
       IN  IF ~top.armed
           THEN UNCHANGED <<views, spill, destroys>>
           ELSE IF top.owner = "arena"
           THEN /\ spill' = "destroyed"
                /\ destroys' = destroys + 1
                /\ UNCHANGED views
           ELSE /\ views' = [views EXCEPT ![top.owner].freed =
                                IF allocator = "heap" THEN @ + 1 ELSE @]
                /\ UNCHANGED <<spill, destroys>>
    /\ UNCHANGED <<mode, allocator, base, arena, inner, body>>

\* The jump leaves the call for good, or stops in the recovery API.  What the
\* abandoned body converted is gone for its caller, who may still hold handles.
Unwound ==
    /\ mode = "unwind"
    /\ Len(frames) <= Goal
    /\ mode' = IF body.active THEN "run" ELSE "idle"
    /\ views' = [v \in Views |->
                    IF views[v].status \in {"filling", "open"}
                          /\ (body.active => v \in body.fresh)
                    THEN [views[v] EXCEPT !.status = "stale"] ELSE views[v]]
    /\ body' = NoBody
    /\ UNCHANGED <<allocator, base, frames, arena, spill, destroys, inner>>

-----------------------------------------------------------------------------
(***************************************************************************)
(* Conversions.                                                            *)
(***************************************************************************)
\* Only string vectors are copied when they are empty: numeric ones are borrowed.
Convertible(kind, len) ==
    /\ kind \in Kinds(allocator)
    /\ len \in Lengths
    /\ len > 0 \/ kind = "cached"

\* A wrapper has converted its arguments before the function it wraps can enter
\* a recovery.
MayAllocate(place, len) ==
    /\ place \in Places(allocator)
    /\ body.active => allocator # "two_tier"

Requested(kind, len) ==
    /\ Runs
    /\ Convertible(kind, len)

\* The cleanup stack is too full: an R error before anything is allocated.
Refuse(kind) ==
    /\ Runs
    /\ kind \in Kinds(allocator)
    /\ ~Room(Required(kind))
    /\ Jump
    /\ UNCHANGED <<allocator, base, frames, views, arena, spill, destroys, inner, body>>

\* No memory: a Zig error.  The arena's frame, if it was new, stays.
OutOfMemory(v, kind, len, place) ==
    /\ Requested(kind, len)
    /\ len > 0
    /\ views[v].status = "none"
    /\ MayAllocate(place, len)
    /\ place # "fixed"
    /\ Room(Required(kind))
    /\ Allocate(place, len)
    /\ frames' = FramesWith(place, len)
    /\ views' = [views EXCEPT ![v].status = "failed"]
    /\ UNCHANGED <<mode, allocator, base, destroys, body>>

Opened(kind, len, place, status) ==
    [NoView EXCEPT !.kind = kind, !.status = status, !.len = len,
                   !.place = IF len = 0 THEN "none" ELSE place]

\* The storage, then the frame that guards it.  Nothing between the two calls R
\* unless the stack is full, which requireCapacity has excluded.
Begin(v, kind, len, place) ==
    /\ Requested(kind, len)
    /\ views[v].status = "none"
    /\ MayAllocate(place, len)
    /\ Room(Required(kind))
    /\ Allocate(place, len)
    /\ views' = [views EXCEPT ![v] =
                    Opened(kind, len, place, IF kind = "one_pass" THEN "open" ELSE "filling")]
    /\ LET allocated == FramesWith(place, len)
       IN  IF base + Len(allocated) < MAX_NESTING
           THEN frames' = Append(allocated, Armed(v)) /\ UNCHANGED mode
           ELSE frames' = SubSeq(allocated, 1, MAX_NESTING - base) /\ Jump
    /\ UNCHANGED <<allocator, base, destroys, body>>

\* Mutant of Bad: an empty read is accepted.
BadAcceptsZero(got, requested) == got < 0 \/ got > requested

\* checkedRegionCount refuses what a region method returned.
Bad(got, requested) == got <= 0 \/ got > requested

\* Mutant of Advance: as if the method had returned all it was asked for.
AdvanceFully(view, got, requested) ==
    [view EXCEPT !.offset = @ + requested, !.reads = @ + 1,
                 !.data = @ \o [i \in 1..got |-> view.offset + i]]

\* The method wrote got elements, from offset on, and the loop goes on after them.
Advance(view, got, requested) ==
    [view EXCEPT !.offset = @ + got, !.reads = @ + 1,
                 !.data = @ \o [i \in 1..got |-> view.offset + i]]

\* toXSliceWithRepresentation: one call of the region method, or a single copy
\* when a direct pointer has appeared.
ReadRegion(v, got) ==
    LET view      == views[v]
        remaining == view.len - view.offset
    IN  /\ mode = "run"
        /\ view.status = "filling"
        /\ view.kind # "cached"
        /\ remaining > 0
        /\ ~Bad(got, remaining)
        /\ views' = [views EXCEPT ![v] = Advance(view, got, remaining)]
        /\ UNCHANGED <<mode, allocator, base, frames, arena, spill, destroys, inner, body>>

\* AltRepRegionRead: the errdefers release the frame, then free the storage.
ReadFails(v, got) ==
    LET view == views[v]
    IN  /\ mode = "run"
        /\ view.status = "filling"
        /\ view.kind # "cached"
        /\ view.offset < view.len
        /\ Bad(got, view.len - view.offset)
        /\ frames' = Release(v)
        /\ views' = [views EXCEPT ![v].status = "failed",
                                  ![v].freed = IF allocator = "heap" THEN @ + 1 ELSE @]
        /\ UNCHANGED <<mode, allocator, base, arena, spill, destroys, inner, body>>

\* STRING_ELT of the next element.
ReadElement(v) ==
    LET view == views[v]
    IN  /\ mode = "run"
        /\ view.status = "filling"
        /\ view.kind = "cached"
        /\ view.offset < view.len
        /\ views' = [views EXCEPT ![v] = Advance(view, 1, 1)]
        /\ UNCHANGED <<mode, allocator, base, frames, arena, spill, destroys, inner, body>>

\* Everything is read.  A slice gives its frame up and a view keeps it; a
\* materialized access gives it up and registers one of its own.
Finish(v) ==
    LET view == views[v]
    IN  /\ mode = "run"
        /\ view.status = "filling"
        /\ view.offset >= view.len
        /\ views' = [views EXCEPT ![v].status = "open"]
        /\ frames' = CASE view.kind = "slice" -> Release(v)
                       [] view.kind = "repeated" -> Append(Release(v), Armed(v))
                       [] OTHER -> frames
        /\ UNCHANGED <<mode, allocator, base, arena, spill, destroys, inner, body>>

\* VectorAccess.next over regions: at most a buffer full.  A count that is
\* refused changes nothing.
NextRegion(v, got) ==
    LET view      == views[v]
        requested == Min({view.len - view.offset, Min({view.len, Chunk})})
    IN  /\ Runs
        /\ view.status = "open"
        /\ view.kind = "one_pass"
        /\ view.offset < view.len
        /\ ~Bad(got, requested)
        /\ views' = [views EXCEPT ![v] = Advance(view, got, requested)]
        /\ UNCHANGED <<mode, allocator, base, frames, arena, spill, destroys, inner, body>>

\* deinit, in any order; of a view whose frame has been fired it does nothing.
\* That a body may release what its caller owns is the question of Cleanup's
\* CrossRelease, and not asked here again.
Deinit(v) ==
    /\ Runs
    /\ views[v].status \in {"open", "stale"}
    /\ Retained(views[v].kind)
    /\ body.active => v \in body.fresh
    /\ frames' = IF Active(v) THEN Release(v) ELSE frames
    /\ views' = [views EXCEPT ![v].status = "closed",
                    ![v].freed = IF Active(v) /\ views[v].place = "heap" THEN @ + 1 ELSE @]
    /\ UNCHANGED <<mode, allocator, base, arena, spill, destroys, inner, body>>

Next ==
    \/ \E a \in Allocators, n \in 0..MAX_NESTING : Enter(a, n)
    \/ Return \/ EnterRecovery \/ LeaveRecovery
    \/ Raise \/ Fire \/ Unwound
    \/ \E kind \in Kinds(allocator) : Refuse(kind)
    \/ \E v \in Views, kind \in Kinds(allocator), len \in Lengths,
          place \in Places(allocator) :
          OutOfMemory(v, kind, len, place) \/ Begin(v, kind, len, place)
    \/ \E v \in Views :
          \/ \E got \in -1 .. views[v].len + 1 :
                ReadRegion(v, got) \/ ReadFails(v, got) \/ NextRegion(v, got)
          \/ ReadElement(v)
          \/ Finish(v)
          \/ Deinit(v)

Spec == Init /\ [][Next]_vars

-----------------------------------------------------------------------------
(***************************************************************************)
(* Correctness.                                                            *)
(***************************************************************************)
\* What a view that is filled or open refers to has not been freed: no frame
\* fires early, and an arena is destroyed under its views only by the rollback
\* of a recovery in whose body it allocated first.
StorageIsLive ==
    mode = "run" =>
        \A v \in Views : views[v].status \in {"filling", "open"} =>
            /\ views[v].freed = 0
            /\ views[v].place = "spill" /\ ~inner => spill = "live"

\* No block is freed twice, or freed though it was never allocated, by deinit, by
\* the errdefers or by the unwinder; nor is the arena.
FreedOnce ==
    /\ \A v \in Views : views[v].freed <= IF views[v].place = "heap" THEN 1 ELSE 0
    /\ destroys <= IF spill = "none" THEN 0 ELSE 1

\* Wherever R may raise an error, each block on the heap has its own armed frame,
\* and so does the arena.
Guarded ==
    mode = "run" =>
        /\ \A v \in Views : views[v].place = "heap" /\ views[v].freed = 0 => Active(v)
        /\ spill = "live" => Active("arena")

\* No memory is lost: what the call took is guarded as long as it runs, and given
\* back when it has ended, however it ended.  The type invariant is part of it.
NothingLost ==
    /\ TypeOK
    /\ Guarded
    /\ mode = "idle" =>
          /\ \A v \in Views : views[v].place = "heap" => views[v].freed = 1
          /\ spill # "live"

\* An open view holds the vector's elements in their order, and a one-pass
\* kernel has been given a prefix of them, however short the reads were.
HoldsSource ==
    \A v \in Views : views[v].status = "open" =>
        /\ views[v].kind # "one_pass" => views[v].offset = views[v].len
        /\ views[v].data = [i \in 1 .. views[v].offset |-> i]

\* Reading ends: no vector is asked for more regions than it has elements.
ReadsBounded == \A v \in Views : views[v].reads <= views[v].len
=============================================================================
