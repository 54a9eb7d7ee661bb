----------------------------- MODULE OwnedPointer -----------------------------
(***************************************************************************)
(* Native values that R owns through an external pointer with a finalizer:  *)
(* externalptr.create and createTyped ("owned") and the native copy behind  *)
(* an ALTREP vector, altrep_create.init ("altrep").                        *)
(*                                                                         *)
(* While a value is handed over, a cleanup frame holds it; afterwards R's   *)
(* finalizer does.  Every R call on the way may signal an R error, or       *)
(* collect garbage and run finalizers, which may construct values of their  *)
(* own.  An action runs from the return of one R call to the next R call.   *)
(***************************************************************************)
EXTENDS Integers, Sequences, SequencesExt, FiniteSets

CONSTANTS
    Objects,        \* one for each construction
    Kind,           \* Kind[o]: "owned" or "altrep"
    MAX_NESTING,    \* capacity of the cleanup stack
    MaxCalls        \* bound: constructions in progress at once

ASSUME OwnedPointerAssumption ==
    /\ Kind \in [Objects -> {"owned", "altrep"}]
    /\ MAX_NESTING \in Nat \ {0}
    /\ MaxCalls \in Nat

VARIABLES
    calls,      \* constructions in progress, innermost last
    frames,     \* their cleanup frames: what each pending record holds
    stage,      \* the R call that a construction waits for
    value,      \* where the native value is
    destroyed,  \* how often it was destroyed
    address,    \* does the external pointer hold the address?
    finalizer,  \* does R still have to run its finalizer?
    reachable,  \* is the external pointer protected, or in use by R code?
    quitting    \* R is running its exit finalizers

vars == <<calls, frames, stage, value, destroyed, address, finalizer, reachable,
          quitting>>

\* pending.value, or pending.values and pending.wrap; and pending.data1.
Pending == [object : Objects, holds : BOOLEAN, data1 : BOOLEAN]

Stages == {"unused", "continuation", "pointer", "finalizer", "vector", "done", "failed"}

TypeOK ==
    /\ calls \in Seq(Objects)
    /\ Len(calls) <= MaxCalls
    /\ frames \in Seq(Pending)
    /\ Len(frames) <= MAX_NESTING
    /\ stage \in [Objects -> Stages]
    /\ value \in [Objects -> {"none", "argument", "heap", "destroyed"}]
    /\ destroyed \in [Objects -> Nat]
    /\ address \in [Objects -> BOOLEAN]
    /\ finalizer \in [Objects -> BOOLEAN]
    /\ reachable \in [Objects -> BOOLEAN]
    /\ quitting \in BOOLEAN

Init ==
    /\ calls = <<>>
    /\ frames = <<>>
    /\ stage = [o \in Objects |-> "unused"]
    /\ value = [o \in Objects |-> "none"]
    /\ destroyed = [o \in Objects |-> 0]
    /\ address = [o \in Objects |-> FALSE]
    /\ finalizer = [o \in Objects |-> FALSE]
    /\ reachable = [o \in Objects |-> FALSE]
    /\ quitting = FALSE

-----------------------------------------------------------------------------
Waits(o, s) == calls # <<>> /\ Last(calls) = o /\ stage[o] = s

Destroy(o) ==
    /\ value' = [value EXCEPT ![o] = "destroyed"]
    /\ destroyed' = [destroyed EXCEPT ![o] = @ + 1]

\* The construction of o ends in an R error; its boundary has unwound.
Fail(o) ==
    /\ calls' = Front(calls)
    /\ stage' = [stage EXCEPT ![o] = "failed"]
    /\ reachable' = [reachable EXCEPT ![o] = FALSE]
    /\ UNCHANGED quitting

\* The constructor is called, by R code or by a finalizer that runs inside an R
\* call of another construction.  It owns init_val; an ALTREP copies its slice.
Enter(o) ==
    /\ stage[o] = "unused"
    /\ ~quitting
    /\ Len(calls) < MaxCalls
    /\ calls' = Append(calls, o)
    /\ stage' = [stage EXCEPT ![o] = "continuation"]
    /\ value' = [value EXCEPT ![o] = IF Kind[o] = "owned" THEN "argument" ELSE "none"]
    /\ UNCHANGED <<frames, destroyed, address, finalizer, reachable, quitting>>

\* protectCall cannot make its continuation, or a stack of cleanup.zig is full.
BeginFails(o) ==
    /\ Waits(o, "continuation")
    /\ Fail(o)
    /\ UNCHANGED <<frames, value, destroyed, address, finalizer>>

\* The frame is there but native memory is not: create runs deinitFn on its
\* argument, makeWrap leaves what it has to the frame, which then fires.
BeginOutOfMemory(o) ==
    /\ Waits(o, "continuation")
    /\ Len(frames) < MAX_NESTING
    /\ Fail(o)
    /\ IF Kind[o] = "owned" THEN Destroy(o) ELSE UNCHANGED <<value, destroyed>>
    /\ UNCHANGED <<frames, address, finalizer>>

\* pushFrameInline, and the native copy, which the frame holds from now on.  The
\* type tag, the metadata and the pointer itself are R calls of one kind.
Begin(o) ==
    /\ Waits(o, "continuation")
    /\ Len(frames) < MAX_NESTING
    /\ frames' = Append(frames, [object |-> o, holds |-> TRUE, data1 |-> FALSE])
    /\ value' = [value EXCEPT ![o] = "heap"]
    /\ stage' = [stage EXCEPT ![o] = "pointer"]
    /\ UNCHANGED <<calls, destroyed, address, finalizer, reachable, quitting>>

\* R_MakeExternalPtr returns and its result is protected; init also tells its
\* frame about it.
WrapRecords(o, record) ==
    /\ Waits(o, "pointer")
    /\ address' = [address EXCEPT ![o] = TRUE]
    /\ reachable' = [reachable EXCEPT ![o] = TRUE]
    /\ frames' = [frames EXCEPT ![Len(frames)].data1 = record]
    /\ stage' = [stage EXCEPT ![o] = "finalizer"]
    /\ UNCHANGED <<calls, value, destroyed, finalizer, quitting>>
\* Mutant of Wrap: the frame is not told.
WrapForgets(o) == WrapRecords(o, FALSE)
Wrap(o) == WrapRecords(o, Kind[o] = "altrep")

\* Mutant of PopFrame: the bottom of the stack is taken for its top.
PopOldest == frames' = Tail(frames)

\* popFrame: the newest frame goes, whoever registered it.
PopFrame == frames' = Front(frames)

\* Mutant of Register: the frame is popped before R owns the value.
RegisterLate(o) ==
    \/ /\ Waits(o, "finalizer")
       /\ Len(frames) = Len(calls)
       /\ PopFrame
       /\ UNCHANGED <<calls, stage, value, destroyed, address, finalizer, reachable, quitting>>
    \/ /\ Waits(o, "finalizer")
       /\ Len(frames) < Len(calls)
       /\ finalizer' = [finalizer EXCEPT ![o] = TRUE]
       /\ IF Kind[o] = "owned"
          THEN stage' = [stage EXCEPT ![o] = "done"] /\ calls' = Front(calls)
          ELSE stage' = [stage EXCEPT ![o] = "vector"] /\ UNCHANGED calls
       /\ UNCHANGED <<frames, value, destroyed, address, reachable, quitting>>

\* R_RegisterCFinalizerEx returns.  create pops its frame and is done; init has
\* the ALTREP object still to make.
Register(o) ==
    /\ Waits(o, "finalizer")
    /\ finalizer' = [finalizer EXCEPT ![o] = TRUE]
    /\ IF Kind[o] = "owned"
       THEN /\ PopFrame
            /\ stage' = [stage EXCEPT ![o] = "done"]
            /\ calls' = Front(calls)
       ELSE /\ stage' = [stage EXCEPT ![o] = "vector"]
            /\ UNCHANGED <<frames, calls>>
    /\ UNCHANGED <<value, destroyed, address, reachable, quitting>>

\* R_new_altrep returns.
NewAltrep(o) ==
    /\ Waits(o, "vector")
    /\ PopFrame
    /\ stage' = [stage EXCEPT ![o] = "done"]
    /\ calls' = Front(calls)
    /\ UNCHANGED <<value, destroyed, address, finalizer, reachable, quitting>>

\* PendingOwned.fire and PendingWrap.fire.
Fire(pending) ==
    /\ address' = IF pending.data1 THEN [address EXCEPT ![pending.object] = FALSE] ELSE address
    /\ IF pending.holds THEN Destroy(pending.object) ELSE UNCHANGED <<value, destroyed>>

\* An R call of the construction signals an error: R drops what it protected and
\* the boundary fires its frame.
Raise(o) ==
    /\ \E s \in {"pointer", "finalizer", "vector"} : Waits(o, s)
    /\ Fire(Last(frames))
    /\ PopFrame
    /\ Fail(o)
    /\ UNCHANGED finalizer

\* R made the external pointer but its PROTECT stack is full.
ProtectFails(o) ==
    /\ Waits(o, "pointer")
    /\ Destroy(o)
    /\ address' = [address EXCEPT ![o] = TRUE]
    /\ PopFrame
    /\ Fail(o)
    /\ UNCHANGED finalizer

-----------------------------------------------------------------------------
\* finalizeOwned and freeWrapImpl: clear the address, destroy what it led to.
\* Mutant of FinalizeOwned: the address is not cleared.
FinalizeKeepsAddress(o) ==
    /\ IF address[o] THEN Destroy(o) ELSE UNCHANGED <<value, destroyed>>
    /\ UNCHANGED address

FinalizeOwned(o) ==
    /\ address' = [address EXCEPT ![o] = FALSE]
    /\ IF address[o] THEN Destroy(o) ELSE UNCHANGED <<value, destroyed>>

\* A method of the value's own calls finalizeOwned ahead of the collector.
Close(o) ==
    /\ Kind[o] = "owned"
    /\ stage[o] = "done"
    /\ reachable[o]
    /\ ~quitting
    /\ FinalizeOwned(o)
    /\ UNCHANGED <<calls, frames, stage, finalizer, reachable, quitting>>

\* R code loses the last reference.
Drop(o) ==
    /\ stage[o] = "done"
    /\ reachable[o]
    /\ reachable' = [reachable EXCEPT ![o] = FALSE]
    /\ UNCHANGED <<calls, frames, stage, value, destroyed, address, finalizer, quitting>>

Quit ==
    /\ calls = <<>>
    /\ ~quitting
    /\ quitting' = TRUE
    /\ UNCHANGED <<calls, frames, stage, value, destroyed, address, finalizer, reachable>>

\* Mutant of Due: the finalizer is registered without onexit.
DueUnreachable(o) == finalizer[o] /\ ~reachable[o]

\* R runs a finalizer once: for an unreachable pointer, and, as both are
\* registered with onexit, for every pointer that is left at exit.
Due(o) == finalizer[o] /\ (quitting \/ ~reachable[o])

Collect(o) ==
    /\ Due(o)
    /\ finalizer' = [finalizer EXCEPT ![o] = FALSE]
    /\ FinalizeOwned(o)
    /\ UNCHANGED <<calls, frames, stage, reachable, quitting>>

Construct(o) ==
    \/ Enter(o) \/ BeginFails(o) \/ BeginOutOfMemory(o) \/ Begin(o)
    \/ Wrap(o) \/ ProtectFails(o) \/ Register(o) \/ NewAltrep(o) \/ Raise(o)

Next ==
    \/ \E o \in Objects : Construct(o) \/ Close(o) \/ Drop(o) \/ Collect(o)
    \/ Quit

Spec == Init /\ [][Next]_vars

\* At exit R runs every finalizer that is due before it ends.
FairSpec == Spec /\ WF_vars(quitting /\ \E o \in Objects : Collect(o))

-----------------------------------------------------------------------------
\* However construction ends and whoever comes first, the pending frame, an
\* explicit finalizeOwned or the collector, a value is destroyed at most once.
DestroyedAtMostOnce == \A o \in Objects : destroyed[o] <= 1

\* The address in a pointer that R code, a method or a finalizer can still get
\* hold of leads to a live value.
AddressIsLive ==
    \A o \in Objects : address[o] /\ (reachable[o] \/ finalizer[o]) => value[o] = "heap"

\* A value on the heap always has somebody who will destroy it: a frame that
\* the next R error fires, or R's finalizer, through an address it still holds.
HasOwner ==
    \A o \in Objects : value[o] = "heap" =>
        \/ \E i \in DOMAIN frames : frames[i].object = o /\ frames[i].holds
        \/ finalizer[o] /\ address[o]

\* popFrame names no frame: with constructions nested through finalizers and
\* failing at any step, the newest frame is still the innermost construction's.
\* The type invariant is part of this one.
FramesMatchCalls ==
    /\ TypeOK
    /\ \A o \in Objects : stage[o] \in {"pointer", "finalizer", "vector"} =>
          o \in Range(calls) /\ \E i \in DOMAIN frames : frames[i].object = o
    /\ \A i \in DOMAIN frames : stage[frames[i].object] \in {"pointer", "finalizer", "vector"}
    /\ \A i, j \in DOMAIN frames, p, q \in DOMAIN calls :
          calls[p] = frames[i].object /\ calls[q] = frames[j].object => (i < j <=> p < q)

\* create says that it owns its argument from the moment it is called, also
\* when construction raises an R error: once it has ended, the argument has
\* been destroyed or R owns its copy.
OwnedOnEntry ==
    \A o \in Objects : stage[o] \in {"done", "failed"} => value[o] # "argument"

\* When R quits, every value that was ever handed to it is destroyed.
DestroyedAtExit == quitting ~> \A o \in Objects : value[o] # "heap"
=============================================================================
