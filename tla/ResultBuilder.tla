---------------------------- MODULE ResultBuilder ----------------------------
(***************************************************************************)
(* Building R results: convert.ResultGuard and the builders around it, and  *)
(* the functions of src that use them: fixedSchemaToSexp, with two builders *)
(* open while it converts the fields of a struct, nested structs included;  *)
(* fromRealSlice and its like; fromStringSlice; RVector.copy, whose builder *)
(* is finished below the frame of the input it reads; and a function of the *)
(* package ("user") that keeps builders and scoped values, copies builders, *)
(* and calls the others, directly or through tryCatch.                      *)
(*                                                                         *)
(* A value is a number; a builder and its cleanup frame have the number of  *)
(* the vector they are for.  The PROTECT stack is the sequence of the       *)
(* values on it.  Whenever R allocates it collects what is not reachable    *)
(* from that stack (as under gctorture: what survives this survives a       *)
(* collector that waits), and whenever it is called it may raise an error.  *)
(* Module Cleanup has the slots, generations and boundaries of the frame    *)
(* stack and what happens while an error unwinds; here a frame is its       *)
(* handle, and an error is one step to the place that catches it.           *)
(***************************************************************************)
EXTENDS Integers, Sequences, SequencesExt, FiniteSets, FiniteSetsExt

CONSTANTS
    MAX_NESTING,  \* capacity of the cleanup stack
    Schemas,      \* struct type -> the kinds of its fields, in order
    Kinds,        \* what the package's function converts: fields of these kinds
    MaxValues,    \* numbers: enough for the values alive or named at one time
    MaxCalls,     \* bound: nested activations
    MaxHeld       \* bound: builders and scoped values of one package function

\* The kinds of a field that are not themselves schemas.
Leaves == {"null", "scalar", "slice", "strings", "copy"}

ASSUME BuilderAssumption ==
    /\ MAX_NESTING \in Nat \ {0}
    /\ \A s \in DOMAIN Schemas :
          Schemas[s] \in Seq((Leaves \ {"copy"}) \union DOMAIN Schemas)
    /\ DOMAIN Schemas \cap (Leaves \union {"user"}) = {}
    /\ Kinds \subseteq (Leaves \union DOMAIN Schemas \union {"user"})
    /\ MaxValues \in Nat /\ MaxCalls \in Nat /\ MaxHeld \in Nat

VARIABLES
    pp,       \* R's PROTECT stack above the caller's part, oldest first
    frames,   \* armed cleanup frames, oldest first
    taken,    \* values in use that the collector has taken
    calls     \* the Zig activations, innermost last

vars == <<pp, frames, taken, calls>>

None == 0                \* no value, R_NilValue, or the continuation token on pp
Values == 1..MaxValues

\* protected is ResultCleanup's flag; a "native" frame guards a region buffer.
Frame == [id : Values, kind : {"result", "native"}, protected : BOOLEAN]

\* hand is a value in a local variable that nothing roots; once it is stored in a
\* vector it shares that vector's fate.  held is what a package function has
\* open, in the order it protected them; copies are builders it also has in
\* another variable.  catch: called through tryCatch.
\* entry and level are history: the stacks as the activation found them.
Held == [id : Values, builder : BOOLEAN]
Activation == [kind : Leaves \union DOMAIN Schemas \union {"user"},
               pc : {"vec", "vecAlloc", "names", "namesAlloc", "field", "set",
                     "name", "attr", "dropNames", "access", "read", "finish",
                     "close", "run"},
               vec : 0..MaxValues, names : 0..MaxValues, i : Nat,
               hand : 0..MaxValues, held : Seq(Held), copies : SUBSET Values,
               catch : BOOLEAN, entry : Seq(0..MaxValues), level : Nat]

TypeOK ==
    /\ pp \in Seq(0..MaxValues)
    /\ frames \in Seq(Frame)
    /\ Len(frames) <= MAX_NESTING
    /\ taken \subseteq Values
    /\ calls \in Seq(Activation)

Init == pp = <<>> /\ frames = <<>> /\ taken = {} /\ calls = <<>>

\* The call from R is over.
Reset == pp' = <<>> /\ frames' = <<>> /\ taken' = {} /\ calls' = <<>>

-----------------------------------------------------------------------------
(***************************************************************************)
(* Activations.                                                            *)
(***************************************************************************)
Me == Last(calls)
At(pc) == calls # <<>> /\ Me.pc = pc
AtKind(kind, pc) == At(pc) /\ Me.kind = kind
InSchema(pc) == At(pc) /\ Me.kind \in DOMAIN Schemas
Fields == Schemas[Me.kind]

\* calls with the running activation changed to m.
Now(m) == [calls EXCEPT ![Len(calls)] = m]
Goto(pc) == calls' = Now([Me EXCEPT !.pc = pc])

Activate(kind, catch, top) ==
    [kind |-> kind, pc |-> IF kind = "user" THEN "run" ELSE "vec",
     vec |-> None, names |-> None, i |-> 1, hand |-> None, held |-> <<>>,
     copies |-> {}, catch |-> catch, entry |-> top, level |-> Len(frames)]

\* protectCall by a generated wrapper: its continuation token is on the stack.
Enter ==
    /\ calls = <<>>
    /\ \E kind \in Kinds \ {"null", "scalar"} :
          calls' = <<Activate(kind, FALSE, <<None>>)>>
    /\ pp' = <<None>>
    /\ UNCHANGED <<frames, taken>>

\* The activation returns what it has in hand; the outermost one also leaves the
\* boundary.
Return ==
    IF Len(calls) = 1
    THEN Reset
    ELSE LET caller == calls[Len(calls) - 1]
         IN  /\ calls' = Append(Front(Front(calls)), [caller EXCEPT !.hand = Me.hand])
             /\ UNCHANGED <<pp, frames, taken>>

-----------------------------------------------------------------------------
(***************************************************************************)
(* The collector: what an allocation may leave of the heap.                *)
(***************************************************************************)
Rooted == Range(pp) \ {None}

\* The values an activation goes on to use: those in its variables.
Uses(a) ==
    ({a.hand} \union {h.id : h \in {x \in Range(a.held) : ~x.builder}}
      \union {v \in {a.vec, a.names} \union {h.id : h \in Range(a.held)} :
                \E f \in Range(frames) : f.id = v /\ f.protected}) \ {None}
InUse == UNION {Uses(a) : a \in Range(calls)}

\* Free numbers: of no value that stays, and named by no variable or frame.
Named == {f.id : f \in Range(frames)}
         \union UNION {{a.vec, a.names, a.hand} \union {h.id : h \in Range(a.held)}
                         \union a.copies : a \in Range(calls)}
Unused == Values \ (Rooted \union Named)
New == Min(Unused)

\* R allocates, and takes what its stack does not reach.
Collect == taken' = taken \union (InUse \ Rooted)

-----------------------------------------------------------------------------
(***************************************************************************)
(* ResultGuard.                                                            *)
(***************************************************************************)
FrameIsActive(v) == \E f \in Range(frames) : f.id = v /\ f.kind = "result"
FramesWithout(v, kind) ==
    LET its == {k \in DOMAIN frames : frames[k].id = v /\ frames[k].kind = kind}
    IN  IF its = {} THEN frames ELSE RemoveAt(frames, Max(its))

\* Mutant of AfterDeinit: the frame is not looked at, so a copy of a finished
\* builder unprotects once more.
AfterDeinitBlind(v) == [pp |-> Front(pp), frames |-> FramesWithout(v, "result")]

\* ResultGuard.deinit through a handle that is still marked active: Rf_unprotect
\* takes whatever is on top of R's stack.
AfterDeinit(v) == IF FrameIsActive(v)
                  THEN [pp |-> Front(pp), frames |-> FramesWithout(v, "result")]
                  ELSE [pp |-> pp, frames |-> frames]

\* First half of ResultGuard.init: the frame is registered before the vector exists.
Register(next) ==
    /\ Unused # {}
    /\ Len(frames) < MAX_NESTING
    /\ frames' = Append(frames, [id |-> New, kind |-> "result", protected |-> FALSE])
    /\ calls' = Now(next)
    /\ UNCHANGED <<pp, taken>>

\* Second half: Rf_allocVector, protect, and the flag.
Fill(v, next) ==
    /\ Collect
    /\ pp' = Append(pp, v)
    /\ frames' = [k \in DOMAIN frames |->
                    IF frames[k].id = v THEN [frames[k] EXCEPT !.protected = TRUE]
                                        ELSE frames[k]]
    /\ calls' = Now(next)

BeginVec ==
    /\ At("vec")
    /\ Register([Me EXCEPT !.pc = "vecAlloc", !.vec = New])

FillVec ==
    /\ At("vecAlloc")
    /\ Fill(Me.vec, [Me EXCEPT !.pc =
                CASE Me.kind \in DOMAIN Schemas -> "names"
                  [] Me.kind = "strings" -> "set"
                  [] Me.kind = "copy" -> "access"
                  [] Me.kind = "user" -> "run"
                  [] OTHER -> "finish",
             !.vec = IF Me.kind = "user" THEN None ELSE @,
             !.held = IF Me.kind = "user"
                      THEN Append(@, [id |-> Me.vec, builder |-> TRUE]) ELSE @])

-----------------------------------------------------------------------------
(***************************************************************************)
(* fixedSchemaToSexp.                                                      *)
(***************************************************************************)
BeginNames ==
    /\ InSchema("names")
    /\ Register([Me EXCEPT !.pc = "namesAlloc", !.names = New])

FillNames ==
    /\ InSchema("namesAlloc")
    /\ Fill(Me.names, [Me EXCEPT !.pc = IF Fields = <<>> THEN "attr" ELSE "field"])

\* zigToSexp of the next field: a null or a scalar here, anything else by a call
\* whose result comes back unprotected.
ConvertField ==
    /\ InSchema("field")
    /\ LET kind == Fields[Me.i]
       IN  \/ /\ kind = "null"
              /\ Goto("set")
              /\ UNCHANGED <<pp, frames, taken>>
           \/ /\ kind = "scalar"
              /\ Unused # {}
              /\ Collect
              /\ calls' = Now([Me EXCEPT !.pc = "set", !.hand = New])
              /\ UNCHANGED <<pp, frames>>
           \/ /\ kind \notin {"null", "scalar"}
              /\ calls' = Append(Now([Me EXCEPT !.pc = "set"]), Activate(kind, FALSE, pp))
              /\ UNCHANGED <<pp, frames, taken>>

NextField(m) == [m EXCEPT !.pc = IF m.i = Len(Schemas[m.kind]) THEN "attr" ELSE "field",
                          !.i = @ + 1]

\* Mutant of SetField: the field's name is made before the element is stored.
SetFieldAfterName ==
    /\ InSchema("set")
    /\ Collect
    /\ calls' = Now([Me EXCEPT !.pc = "name", !.hand = None])
    /\ UNCHANGED <<pp, frames>>

\* vec.set(i, elt): SET_VECTOR_ELT allocates nothing.
SetField ==
    /\ InSchema("set")
    /\ calls' = Now([Me EXCEPT !.pc = "name", !.hand = None])
    /\ UNCHANGED <<pp, frames, taken>>

\* names.set(i, field.name): Rf_mkCharLenCE, at once put into the vector of names.
SetName ==
    /\ InSchema("name")
    /\ Collect
    /\ calls' = Now(NextField(Me))
    /\ UNCHANGED <<pp, frames>>

\* Rf_namesgets(vec.get(), names.get()) stores the names as an attribute.
SetNames ==
    /\ InSchema("attr")
    /\ Collect
    /\ Goto("dropNames")
    /\ UNCHANGED <<pp, frames>>

\* Mutant of DropNames: names is never deinitialized.
DropNamesLate ==
    /\ InSchema("dropNames")
    /\ Goto("finish")
    /\ UNCHANGED <<pp, frames, taken>>

\* names.deinit(), before vec.finish(): the deferred deinit of both is idle then.
DropNames ==
    /\ InSchema("dropNames")
    /\ LET after == AfterDeinit(Me.names)
       IN  pp' = after.pp /\ frames' = after.frames
    /\ Goto("finish")
    /\ UNCHANGED taken

-----------------------------------------------------------------------------
(***************************************************************************)
(* fromStringSlice, RVector.copy, and the end of every conversion.         *)
(***************************************************************************)
\* StringResultBuilder.set for each element.
SetStrings ==
    /\ AtKind("strings", "set")
    /\ Collect
    /\ \E pc \in {"set", "finish"} : Goto(pc)
    /\ UNCHANGED <<pp, frames>>

\* toVectorAccess registers the frame of its region buffer above the builder's.
OpenAccess ==
    /\ AtKind("copy", "access")
    /\ Len(frames) < MAX_NESTING
    /\ frames' = Append(frames, [id |-> Me.vec, kind |-> "native", protected |-> FALSE])
    /\ Goto("read")
    /\ UNCHANGED <<pp, taken>>

\* input.next() and @memcpy into the builder's storage; the region method of
\* an ALTREP class is R code, and may allocate.
ReadChunk ==
    /\ AtKind("copy", "read")
    /\ Collect
    /\ \E pc \in {"read", "finish"} : Goto(pc)
    /\ UNCHANGED <<pp, frames>>

\* finish: the vector leaves the builder unprotected.  In RVector.copy the
\* deferred deinit of the input runs after it.
Finish ==
    /\ At("finish")
    /\ FrameIsActive(Me.vec)
    /\ LET after == AfterDeinit(Me.vec)
       IN  /\ pp' = after.pp /\ frames' = after.frames
           /\ calls' = Now([Me EXCEPT !.pc = "close", !.hand = Me.vec])
    /\ UNCHANGED taken

Close ==
    /\ At("close")
    /\ frames' = FramesWithout(Me.vec, "native")
    /\ calls' = Now([Me EXCEPT !.pc = "run", !.vec = None, !.names = None])
    /\ UNCHANGED <<pp, taken>>

Leave ==
    /\ At("run")
    /\ Me.kind # "user"
    /\ Return

-----------------------------------------------------------------------------
(***************************************************************************)
(* A function of the package.  It follows the documented discipline: it     *)
(* protects a result before the next R allocation, and gives back what it   *)
(* protected newest first.                                                  *)
(***************************************************************************)
Ready == AtKind("user", "run") /\ Me.hand = None

UserBegin ==
    /\ Ready
    /\ Len(Me.held) < MaxHeld
    /\ Goto("vec")
    /\ UNCHANGED <<pp, frames, taken>>

\* A conversion, or the body of a tryCatch that makes one.
UserCall ==
    /\ Ready
    /\ Len(calls) < MaxCalls
    /\ \E kind \in Kinds \ {"null", "scalar"}, catch \in BOOLEAN :
          /\ kind = "user" => catch
          /\ calls' = Append(calls, Activate(kind, catch, pp))
    /\ UNCHANGED <<pp, frames, taken>>

UserAllocate ==
    /\ Ready
    /\ "scalar" \in Kinds
    /\ Unused # {}
    /\ Collect
    /\ calls' = Now([Me EXCEPT !.hand = New])
    /\ UNCHANGED <<pp, frames>>

\* protect.scoped(value).
UserKeep ==
    /\ AtKind("user", "run")
    /\ Me.hand # None
    /\ Len(Me.held) < MaxHeld
    /\ pp' = Append(pp, Me.hand)
    /\ calls' = Now([Me EXCEPT !.hand = None,
                               !.held = Append(@, [id |-> Me.hand, builder |-> FALSE])])
    /\ UNCHANGED <<frames, taken>>

\* list.set(i, value) into one of its open builders.
UserStore ==
    /\ AtKind("user", "run")
    /\ Me.hand # None
    /\ \E h \in Range(Me.held) : h.builder /\ FrameIsActive(h.id)
    /\ calls' = Now([Me EXCEPT !.hand = None])
    /\ UNCHANGED <<pp, frames, taken>>

\* A builder is a value: the copy has its own `active` flags.  One at a time.
UserCopy ==
    /\ Ready
    /\ Me.copies = {}
    /\ \E h \in Range(Me.held) :
          /\ h.builder
          /\ calls' = Now([Me EXCEPT !.copies = @ \union {h.id}])
    /\ UNCHANGED <<pp, frames, taken>>

\* Mutant of Newest: results are finished in any order.
NewestOrNot(id) == TRUE

\* Nothing that is still protected was protected after id.
Newest(id) ==
    \A j \in DOMAIN Me.held :
       (\E k \in 1 .. j - 1 : Me.held[k].id = id)
          => Me.held[j].builder /\ ~FrameIsActive(Me.held[j].id)

\* deinit of a copy: idle when the builder has been finished meanwhile.
UserDropCopy ==
    /\ AtKind("user", "run")
    /\ \E id \in Me.copies :
          /\ FrameIsActive(id) => Newest(id)
          /\ LET after == AfterDeinit(id)
             IN  pp' = after.pp /\ frames' = after.frames
          /\ calls' = Now([Me EXCEPT !.copies = @ \ {id}])
    /\ UNCHANGED taken

Without(id) ==
    LET its == {j \in DOMAIN Me.held : Me.held[j].id = id}
    IN  IF its = {} THEN Me.held ELSE RemoveAt(Me.held, Max(its))

\* finish of a builder: get() panics unless its frame is active.
UserFinish ==
    /\ Ready
    /\ \E h \in Range(Me.held) :
          /\ h.builder /\ FrameIsActive(h.id) /\ Newest(h.id)
          /\ LET after == AfterDeinit(h.id)
             IN  pp' = after.pp /\ frames' = after.frames
          /\ calls' = Now([Me EXCEPT !.hand = h.id, !.held = Without(h.id)])
    /\ UNCHANGED taken

\* deinit of a builder or of a scoped value; `defer` runs it with the result in hand.
UserDrop ==
    /\ AtKind("user", "run")
    /\ \E h \in Range(Me.held) :
          /\ (~h.builder \/ FrameIsActive(h.id)) => Newest(h.id)
          /\ LET after == IF h.builder THEN AfterDeinit(h.id)
                                       ELSE [pp |-> Front(pp), frames |-> frames]
             IN  pp' = after.pp /\ frames' = after.frames
          /\ calls' = Now([Me EXCEPT !.held = Without(h.id)])
    /\ UNCHANGED taken

UserReturn ==
    /\ AtKind("user", "run")
    /\ Me.held = <<>> /\ Me.copies = {}
    /\ Return

-----------------------------------------------------------------------------
(***************************************************************************)
(* R errors.                                                               *)
(***************************************************************************)
Catching == {k \in DOMAIN calls : calls[k].catch}

\* Mutant of AfterFire: protect.unprotect does not ask for recovering_condition.
AfterFireUnprotects(stack, fired) ==
    SubSeq(stack, 1, Len(stack) - Cardinality({k \in DOMAIN fired : fired[k].protected}))

\* rollbackRecovery fires the frames with recovering_condition set: the PROTECT
\* stack, which R has restored, is left alone.
AfterFire(stack, fired) == stack

\* R restores the height of its stack where tryCatch was called and the frames
\* registered since are fired; without a tryCatch the error leaves the boundary.
Raised ==
    IF Catching = {}
    THEN Reset
    ELSE LET k == Max(Catching)
             height == Len(calls[k].entry)
         IN  /\ pp' = AfterFire(SubSeq(pp, 1, height),
                                SubSeq(frames, calls[k].level + 1, Len(frames)))
             /\ frames' = SubSeq(frames, 1, calls[k].level)
             /\ calls' = SubSeq(calls, 1, k - 1)
             /\ UNCHANGED taken

\* The cleanup stack is full: pushFrameInlineWithHandle and requireCapacity.
Overflow ==
    /\ Len(frames) = MAX_NESTING
    /\ At("vec") \/ At("names") \/ At("access")
    /\ Raised

\* Rf_allocVector and Rf_protect in a builder's init, Rf_Scalar*, mkCharLenCE,
\* namesgets, a region method, or the package's own error.
Raise ==
    /\ \/ At("vecAlloc") \/ At("namesAlloc") \/ At("field") \/ At("name")
       \/ At("attr") \/ At("read") \/ AtKind("strings", "set") \/ Ready
    /\ Raised

Next ==
    \/ Enter
    \/ BeginVec \/ FillVec \/ BeginNames \/ FillNames
    \/ ConvertField \/ SetField \/ SetName \/ SetNames \/ DropNames
    \/ SetStrings \/ OpenAccess \/ ReadChunk \/ Finish \/ Close \/ Leave
    \/ UserBegin \/ UserCall \/ UserAllocate \/ UserKeep \/ UserStore
    \/ UserCopy \/ UserDropCopy \/ UserFinish \/ UserDrop \/ UserReturn
    \/ Overflow \/ Raise

Spec == Init /\ [][Next]_vars

-----------------------------------------------------------------------------
(***************************************************************************)
(* Properties.                                                             *)
(***************************************************************************)
\* Whoever finishes, fails or is caught in between, a builder that can still be
\* filled has its own vector on R's PROTECT stack: no deinit, finish or rollback
\* of another builder has unprotected it (convert.zig:26, :54).  The type
\* invariant is part of this one.
BuildersAreRooted ==
    /\ TypeOK
    /\ \A f \in Range(frames) : f.protected => f.id \in Range(pp)

\* Every value that Zig code holds in a variable and goes on to use is still
\* there, whatever the allocations since may have collected (convert.zig:1629).
NothingInUseCollected == taken = {}

\* No activation takes anything off the PROTECT stack that was there when it
\* began: its callers' values and the continuation token stay (convert.zig:50).
CallersProtected == \A a \in Range(calls) : IsPrefix(a.entry, pp)

\* An activation with nothing left open leaves both stacks as it found them,
\* whatever it called and whatever errors it caught (convert.zig:1634).
ReturnsBalanced ==
    At("run") /\ Me.held = <<>> => pp = Me.entry /\ Len(frames) = Me.level
=============================================================================
