-------------------------------- MODULE Altrep --------------------------------
(***************************************************************************)
(* Vectors of the ALTREP classes of src/altrep_create.zig: their data is    *)
(* native, or for strings an R vector behind data1, and R reaches it only   *)
(* through the class's methods: Elt (for complex vectors through the C shim *)
(* altrep_complex_shim.c), Get_region, Dataptr and Dataptr_or_null,         *)
(* Duplicate, Serialized_state and Unserialize.                             *)
(*                                                                         *)
(* An object is an ordinary or an ALTREP vector; its elements are in a      *)
(* buffer.  R code stores through the pointer it gets, keeps state records  *)
(* and hands records of any origin back.  How an ALTREP vector is built and *)
(* finalized, with an error at every step, is in module OwnedPointer; the   *)
(* summary methods are in module Reductions.  Sharing is what matters       *)
(* here: who has which buffer.                                              *)
(***************************************************************************)
EXTENDS Integers, Sequences, SequencesExt, FiniteSets, FiniteSetsExt

CONSTANTS
    Kinds,        \* the families in use
    Cells,        \* family -> what C code can store in an element, a tuple of words
    MaxObjects,   \* bound: vectors at one time
    MaxRecords,   \* bound: state records at one time
    Values        \* bound: family -> the values new vectors have

AllKinds == {"real", "integer", "logical", "raw", "complex", "string"}
NA == <<-1>>      \* R_NaInt, in a logical vector

ASSUME AltrepAssumption ==
    /\ Kinds \subseteq AllKinds
    /\ \A k \in Kinds : Cells[k] # {}
    /\ \A k \in Kinds \ {"complex"} : \A c \in Cells[k] : Len(c) = 1
    /\ "complex" \in Kinds => Cells["complex"] \subseteq Int \X Int
    /\ MaxObjects \in Nat /\ MaxRecords \in Nat
    /\ \A k \in Kinds : Values[k] \subseteq Seq(Cells[k])

VARIABLES
    class,     \* family -> its registered class, 0 before register
    classes,   \* classes R has made so far
    object,    \* the vectors, by number
    buffer,    \* their elements
    record,    \* the state records R code holds
    answer     \* what the last operation told its caller

vars == <<class, classes, object, buffer, record, answer>>

Objects == 1..MaxObjects
Buffers == Objects
Records == 1..MaxRecords
Absent == [alt |-> FALSE, kind |-> "none", class |-> 0, buf |-> 0]
NoRecord == [form |-> "none", magic |-> FALSE, version |-> 0, kind |-> "none",
             payload |-> 0, of |-> "none"]

NoCell == <<>>       \* what is beyond a buffer
Freed == <<NoCell>>  \* a buffer that is not allocated

OWNED_ALTREP_STATE_VERSION == 1

AllCells == UNION {Cells[k] : k \in Kinds}
Stored(k) == UNION {[DOMAIN s -> Cells[k]] : s \in Values[k]}

\* of is history: the family of the class whose serializedState made the record,
\* "none" when R code made it up.
TypeOK ==
    /\ class \in [Kinds -> 0..classes]
    /\ classes \in Nat
    /\ object \in [Objects -> [alt : BOOLEAN, kind : Kinds \union {"none"},
                               class : 0..classes, buf : 0..MaxObjects]]
    /\ \A b \in Buffers : buffer[b] = Freed \/ \E k \in Kinds : buffer[b] \in Stored(k)
    /\ record \in [Records -> [form : {"none", "list", "short", "altrep"}, magic : BOOLEAN,
                               version : 0..2, kind : Kinds \union {"none"},
                               payload : 0..MaxObjects, of : Kinds \union {"none"}]]

Init ==
    /\ class = [k \in Kinds |-> 0]
    /\ classes = 0
    /\ object = [o \in Objects |-> Absent]
    /\ buffer = [b \in Buffers |-> Freed]
    /\ record = [r \in Records |-> NoRecord]
    /\ answer = [op |-> "none"]

Live == {o \in Objects : object[o] # Absent}
Elements(o) == buffer[object[o].buf]

\* What the interpreter regards as a value of the family.
Legal(k, s) == k = "logical" => \A i \in DOMAIN s : s[i] \in {<<0>>, <<1>>, NA}

-----------------------------------------------------------------------------
(***************************************************************************)
(* Classes and vectors.                                                    *)
(***************************************************************************)
MakeClass(k) == class' = [class EXCEPT ![k] = classes + 1] /\ classes' = classes + 1

\* Mutant of Register: it makes the class again.
RegisterAgain(k) ==
    /\ MakeClass(k)
    /\ answer' = [op |-> "none"]
    /\ UNCHANGED <<object, buffer, record>>

\* register: a package initializer may run it more than once.
Register(k) ==
    /\ IF class[k] # 0 THEN UNCHANGED <<class, classes>> ELSE MakeClass(k)
    /\ answer' = [op |-> "none"]
    /\ UNCHANGED <<object, buffer, record>>

\* A new vector with a buffer of its own, the one of its number.
Free == {o \in Objects : o \notin Live}
Put(o, alt, k, s) ==
    /\ object' = [object EXCEPT ![o] = [alt |-> alt, kind |-> k, buf |-> o,
                                        class |-> IF alt THEN class[k] ELSE 0]]
    /\ buffer' = [buffer EXCEPT ![o] = s]

Refuse == answer' = [op |-> "none"] /\ UNCHANGED <<object, buffer>>

\* init of a class that is registered, told what `reply` says when it succeeds.
InitVector(o, k, s, reply) ==
    IF Legal(k, s) THEN Put(o, TRUE, k, s) /\ answer' = reply ELSE Refuse

New(k) ==
    /\ Free # {}
    /\ \E s \in Values[k] :
          IF class[k] = 0 THEN Refuse
          ELSE InitVector(Min(Free), k, s, [op |-> "made"])
    /\ UNCHANGED <<class, classes, record>>

\* R makes an ordinary vector.
NewOrdinary(k) ==
    /\ Free # {}
    /\ \E s \in Values[k] : Legal(k, s) /\ Put(Min(Free), FALSE, k, s)
    /\ answer' = [op |-> "made"]
    /\ UNCHANGED <<class, classes, record>>

\* Mutant of Duplicate: the copy shares the original's buffer.
DuplicateShares(o) ==
    /\ Free # {}
    /\ object' = [object EXCEPT ![Min(Free)] = [alt |-> FALSE, kind |-> object[o].kind,
                                                class |-> 0, buf |-> object[o].buf]]
    /\ answer' = [op |-> "copied", of |-> o]
    /\ UNCHANGED <<class, classes, buffer, record>>

\* duplicateImpl and duplicateString: an ordinary vector.
Duplicate(o) ==
    /\ Free # {}
    /\ Put(Min(Free), FALSE, object[o].kind, Elements(o))
    /\ answer' = [op |-> "copied", of |-> o]
    /\ UNCHANGED <<class, classes, record>>

\* C code stores through Dataptr, of a logical vector any int; a string vector
\* of these classes has no method to store an element.
Store(o) ==
    /\ object[o].alt => object[o].kind # "string"
    /\ \E i \in DOMAIN Elements(o), c \in Cells[object[o].kind] :
          buffer' = [buffer EXCEPT ![object[o].buf][i] = c]
    /\ answer' = [op |-> "none"]
    /\ UNCHANGED <<class, classes, object, record>>

\* The collector takes a vector: the finalizer, or R, frees its buffer.
Drop(o) ==
    /\ \A r \in Records : record[r].payload # o
    /\ object' = [object EXCEPT ![o] = Absent]
    /\ buffer' = [buffer EXCEPT ![object[o].buf] = Freed]
    /\ answer' = [op |-> "none"]
    /\ UNCHANGED <<class, classes, record>>

-----------------------------------------------------------------------------
(***************************************************************************)
(* Reading.  Indices count from 0, as in R's C interface.                   *)
(***************************************************************************)
\* Zig cannot see into Rcomplex, a union: r_imports.h passes a complex value to
\* and from it as two doubles.
Parts(real, imaginary) == [real |-> real, imaginary |-> imaginary]

\* Mutant of zigr_altcomplex_elt_parts_impl: the out-parameters are swapped.
PartsSwapped(s, i) == Parts(s[i + 1][2], s[i + 1][1])

zigr_altcomplex_elt_parts_impl(s, i) == Parts(s[i + 1][1], s[i + 1][2])

\* The shim's Elt method puts the parts together ...
zigr_altcomplex_elt(s, i) ==
    LET value == zigr_altcomplex_elt_parts_impl(s, i) IN <<value.real, value.imaginary>>

\* ... and is the method of the class: every other family reads its buffer.
zigr_set_altcomplex_elt_method(k, s, i) ==
    IF k = "complex" THEN zigr_altcomplex_elt(s, i) ELSE s[i + 1]

\* R's own X_ELT(x, i).
Elt(o, i) == IF object[o].alt THEN zigr_set_altcomplex_elt_method(object[o].kind, Elements(o), i)
                              ELSE Elements(o)[i + 1]

\* What Zig code gets of an element of any complex vector, taken apart by the shim.
zigr_complex_elt_parts(o, i) == LET value == Elt(o, i) IN Parts(value[1], value[2])

EltRead(o, i) ==
    IF object[o].kind = "complex"
    THEN LET parts == zigr_complex_elt_parts(o, i) IN <<parts.real, parts.imaginary>>
    ELSE Elt(o, i)

\* Mutant of regionBounds: the count is bounded by the length of the vector.
RegionBoundsWide(len, i, n) ==
    IF i < 0 \/ n <= 0 \/ i >= len THEN 0 ELSE Min({n, len})

\* regionBounds: how many elements are copied; 0 for a request it turns down.
regionBounds(len, i, n) ==
    IF i < 0 \/ n <= 0 \/ i >= len THEN 0 ELSE Min({n, len - i})

\* The memcpy of getRegionImpl; reading past the buffer is not a value.
Region(s, i, n) ==
    [j \in 1 .. regionBounds(Len(s), i, n) |-> IF i + j <= Len(s) THEN s[i + j] ELSE NoCell]

-----------------------------------------------------------------------------
(***************************************************************************)
(* Serialized state.                                                       *)
(***************************************************************************)
FreeRecords == {r \in Records : record[r] = NoRecord}

\* Mutant of MakeState: the record has the vector itself, not a snapshot.
MakeStateShares(o, k) ==
    /\ record' = [record EXCEPT ![Min(FreeRecords)] =
                    [form |-> "list", magic |-> TRUE, version |-> OWNED_ALTREP_STATE_VERSION,
                     kind |-> k, payload |-> o, of |-> k]]
    /\ UNCHANGED <<object, buffer>>

\* serializedStateImpl and serializedStringState, with makeSerializedState.
MakeState(o, k) ==
    /\ Put(Min(Free), FALSE, k, Elements(o))
    /\ record' = [record EXCEPT ![Min(FreeRecords)] =
                    [form |-> "list", magic |-> TRUE, version |-> OWNED_ALTREP_STATE_VERSION,
                     kind |-> k, payload |-> Min(Free), of |-> k]]

\* serializedStateChecked of the class of family k.
SerializedState(o, k) ==
    /\ IF class[k] = 0 THEN Refuse /\ UNCHANGED record
       ELSE IF ~object[o].alt \/ object[o].class # class[k]
            THEN Refuse /\ UNCHANGED record
       ELSE /\ Free # {} /\ FreeRecords # {}
            /\ MakeState(o, k)
            /\ answer' = [op |-> "copied", of |-> o]
    /\ UNCHANGED <<class, classes>>

\* Bound: how many of these fields of a record are not what they should be.
Defects(form, magic, version) ==
    Cardinality({f \in {"form", "magic", "version"} :
        CASE f = "form" -> form # "list" [] f = "magic" -> ~magic [] f = "version" -> version # 1})

\* R code makes a record of its own, from a vector it has.
OtherRecord(o) ==
    /\ FreeRecords # {}
    /\ \E form \in {"list", "short", "altrep"}, magic \in BOOLEAN, version \in 1..2, k \in Kinds :
          /\ Defects(form, magic, version) <= 1
          /\ record' = [record EXCEPT ![Min(FreeRecords)] =
                       [form |-> form, magic |-> magic, version |-> version, kind |-> k,
                        payload |-> o, of |-> "none"]]
    /\ answer' = [op |-> "none"]
    /\ UNCHANGED <<class, classes, object, buffer>>

DropRecord(r) ==
    /\ record' = [record EXCEPT ![r] = NoRecord]
    /\ answer' = [op |-> "none"]
    /\ UNCHANGED <<class, classes, object, buffer>>

\* validateSerializedState for family k.
Validate(state, k) ==
    LET payload == object[state.payload]
    IN  CASE state.form = "altrep" -> "ExpectedRecord"
          [] state.form = "short" -> "WrongFieldCount"
          [] ~state.magic -> "InvalidMagic"
          [] state.version # OWNED_ALTREP_STATE_VERSION -> "InvalidVersion"
          [] state.kind # k -> "WrongKind"
          [] payload.kind # k -> "WrongPayloadType"
          [] payload.alt -> "NestedAltrepPayload"
          [] ~Legal(k, buffer[payload.buf]) -> "InvalidLogicalValue"
          [] OTHER -> "ok"

\* restoreSerializedStateChecked of the class of family k.
Restore(r, k) ==
    /\ record[r] # NoRecord
    /\ Free # {}
    /\ LET verdict == Validate(record[r], k)
           source == record[r].payload
       IN  IF class[k] = 0 THEN Refuse
           ELSE IF verdict # "ok" THEN Refuse
           ELSE InitVector(Min(Free), k, Elements(source),
                           [op |-> "copied", of |-> source])
    /\ UNCHANGED <<class, classes, record>>

Next ==
    \/ \E k \in Kinds : Register(k) \/ New(k) \/ NewOrdinary(k)
    \/ \E o \in Live : Duplicate(o) \/ Store(o) \/ Drop(o) \/ OtherRecord(o)
    \/ \E o \in Live, k \in Kinds : SerializedState(o, k)
    \/ \E r \in Records : record[r] # NoRecord /\ DropRecord(r)
    \/ \E r \in Records, k \in Kinds : Restore(r, k)

Spec == Init /\ [][Next]_vars

-----------------------------------------------------------------------------
(***************************************************************************)
(* Properties.                                                             *)
(***************************************************************************)
\* Every way of reading an ALTREP vector gives its value, for a region the part
\* of it that exists, and no way goes beyond its buffer (altrep_create.zig:352).
ReadsAgree ==
    \A o \in Live : LET s == Elements(o) IN
       object[o].alt =>
          /\ \A i \in 0 .. Len(s) - 1 : EltRead(o, i) = s[i + 1]
          /\ \A i \in -1 .. Len(s) + 1, n \in -1 .. Len(s) + 1 :
                Region(s, i, n) =
                   IF i < 0 THEN <<>> ELSE SubSeq(s, i + 1, Min({Len(s), i + n}))

\* Whatever vectors of these classes are made of, R code sees values: a
\* duplicate, a snapshot and a restored vector start with the value of what they
\* were made from and are independent of it ever after (altrep_create.zig:288,
\* :309, :798).
Values_ == INSTANCE VectorValues WITH
    Cells <- AllCells, Absent <- Freed,
    val <- [o \in Objects |-> IF o \in Live THEN Elements(o) ELSE Freed]
ImplementsValues == Values_!Spec

\* A record that a class made is accepted by the class of its own family and by
\* no other, unless C code stored into the payload, or into the vector before it
\* was saved, what init refuses (altrep_create.zig:130, :173, :814).
RoundTrip ==
    \A r \in Records : LET state == record[r] IN
       state.of # "none" /\ Legal(state.of, Elements(state.payload)) =>
          \A k \in Kinds : Validate(state, k) = "ok" <=> k = state.of

\* A vector of a family is an instance of the class the family has now, however
\* often the package initializer has run: its state can always be taken
\* (altrep_create.zig:742).  The type invariant is part of this one.
InstancesKeepClass ==
    /\ TypeOK
    /\ \A o \in Live : object[o].alt =>
          object[o].class = class[object[o].kind] /\ class[object[o].kind] # 0
=============================================================================
