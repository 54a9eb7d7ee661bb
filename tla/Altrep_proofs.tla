---------------------------- MODULE Altrep_proofs ----------------------------
(***************************************************************************)
(* Theorems about Altrep: reading an ALTREP vector gives its value and stays *)
(* in its buffer, instances keep their class, a record goes back to the     *)
(* class that made it, and vectors are values (module VectorValues), for     *)
(* all families, cells, values and numbers of vectors and records.           *)
(*                                                                         *)
(* What the invariant adds to the types is that a buffer belongs to one      *)
(* vector, and that a record's payload is a vector which is still there.     *)
(***************************************************************************)
EXTENDS Altrep, SequenceTheorems, WellFoundedInduction, TLAPS

-----------------------------------------------------------------------------
(***************************************************************************)
(* The invariant.                                                          *)
(***************************************************************************)
\* A vector has the buffer of its own number, with elements of its family; an
\* ALTREP vector has its family's class, and there is one.
Vector(o) ==
    /\ object[o].kind \in Kinds
    /\ object[o].buf = o
    /\ buffer[o] \in Stored(object[o].kind)
    /\ object[o].class = IF object[o].alt THEN class[object[o].kind] ELSE 0
    /\ object[o].alt => class[object[o].kind] # 0

OwnBuffers ==
    \A o \in Objects : IF object[o] = Absent THEN buffer[o] = Freed ELSE Vector(o)

\* The payload of a record is a vector; that of a record made by a class is an
\* ordinary one of the class's family, and the other fields are as they should be.
Snapshot(r) ==
    /\ record[r].form = "list" /\ record[r].magic
    /\ record[r].version = OWNED_ALTREP_STATE_VERSION
    /\ record[r].kind = record[r].of
    /\ object[record[r].payload].kind = record[r].of
    /\ ~object[record[r].payload].alt

Payloads ==
    \A r \in Records : record[r] # NoRecord =>
        record[r].payload \in Live /\ (record[r].of # "none" => Snapshot(r))

ObjectType == [alt : BOOLEAN, kind : Kinds \union {"none"}, class : Nat, buf : Nat]
RecordType == [form : {"none", "list", "short", "altrep"}, magic : BOOLEAN,
               version : 0..2, kind : Kinds \union {"none"},
               payload : 0..MaxObjects, of : Kinds \union {"none"}]

Shape ==
    /\ class \in [Kinds -> Nat] /\ classes \in Nat
    /\ \A k \in Kinds : class[k] <= classes
    /\ \A k, l \in Kinds : class[k] = class[l] /\ class[k] # 0 => k = l
    /\ object \in [Objects -> ObjectType]
    /\ buffer = [b \in Buffers |-> buffer[b]]
    /\ record \in [Records -> RecordType]

AltrepInv == Shape /\ OwnBuffers /\ Payloads

-----------------------------------------------------------------------------
(***************************************************************************)
(* Lemmas about the operators.                                             *)
(***************************************************************************)
\* What the families are.
LEMMA KindFacts == "none" \notin Kinds
BY AltrepAssumption DEF AllKinds

\* A cell is not empty.
LEMMA CellFacts ==
    ASSUME NEW k \in Kinds, NEW c \in Cells[k]
    PROVE  c # NoCell /\ (k = "complex" => c \in Int \X Int)
<1>1. CASE k = "complex"
  <2>1. c \in Int \X Int
    BY <1>1, AltrepAssumption
  <2>2. PICK a \in Int, b \in Int : c = <<a, b>>
    BY <2>1
  <2>3. Len(c) = 2 /\ Len(NoCell) = 0
    BY <2>2 DEF NoCell
  <2> QED
    BY <2>1, <2>3
<1>2. CASE k # "complex"
  <2>1. Len(c) = 1
    BY <1>2, AltrepAssumption
  <2> QED
    BY <1>2, <2>1, EmptySeq DEF NoCell
<1> QED
  BY <1>1, <1>2

\* What is stored is a sequence of cells, and is not a freed buffer.
LEMMA StoredFacts ==
    ASSUME NEW k \in Kinds, NEW s \in Stored(k)
    PROVE  s \in Seq(Cells[k]) /\ s # Freed /\ s \in Seq(AllCells)
<1>1. PICK t \in Values[k] : s \in [DOMAIN t -> Cells[k]]
  BY DEF Stored
<1>2. t \in Seq(Cells[k])
  BY AltrepAssumption
<1>3. s \in Seq(Cells[k])
  BY <1>1, <1>2
<1>4. s # Freed
  <2> SUFFICES ASSUME s = Freed PROVE FALSE
    OBVIOUS
  <2>1. Len(s) = 1 /\ s[1] = NoCell
    BY DEF Freed
  <2>2. s[1] \in Cells[k]
    <3>1. 1 \in 1..Len(s)
      BY <2>1
    <3> QED
      BY <3>1, <1>3, ElementOfSeq
  <2>3. \A c \in Cells[k] : c # NoCell
    BY CellFacts
  <2> QED
    BY <2>1, <2>2, <2>3
<1>5. Cells[k] \subseteq AllCells
  BY DEF AllCells
<1> QED
  BY <1>3, <1>4, <1>5

\* The values that vectors are made with are stored values, and so is what a
\* store into one of its elements leaves.
LEMMA ValuesStored ==
    ASSUME NEW k \in Kinds, NEW s \in Values[k]
    PROVE  s \in Stored(k)
<1>1. s \in Seq(Cells[k])
  BY AltrepAssumption
<1>2. s \in [DOMAIN s -> Cells[k]]
  BY <1>1
<1> QED
  BY <1>2 DEF Stored

LEMMA StoreStored ==
    ASSUME NEW k \in Kinds, NEW s \in Stored(k), NEW i \in DOMAIN s, NEW c \in Cells[k]
    PROVE  [s EXCEPT ![i] = c] \in Stored(k)
<1>1. PICK t \in Values[k] : s \in [DOMAIN t -> Cells[k]]
  BY DEF Stored
<1>2. [s EXCEPT ![i] = c] \in [DOMAIN t -> Cells[k]]
  BY <1>1
<1> QED
  BY <1>2 DEF Stored

\* The least member of a set of numbers is a member.
LEMMA LeastIn ==
    ASSUME NEW S, S \subseteq Nat, S # {}
    PROVE  Min(S) \in S /\ \A x \in S : Min(S) <= x
<1>1. PICK m \in S : \A y \in S : ~(<<y, m>> \in OpToRel(<, Nat))
  BY NatLessThanWellFounded, WFMin
<1>2. \A y \in S : ~(y < m)
  BY <1>1 DEF OpToRel
<1>3. \A y \in S : m <= y
  BY <1>2
<1> QED
  BY <1>3 DEF Min

LEMMA NewObject ==
    ASSUME Free # {}
    PROVE  Min(Free) \in Objects /\ object[Min(Free)] = Absent
<1>1. Free \subseteq Nat
  BY DEF Free, Objects
<1> QED
  BY <1>1, LeastIn DEF Free, Live

LEMMA NewRecord ==
    ASSUME FreeRecords # {}
    PROVE  Min(FreeRecords) \in Records /\ record[Min(FreeRecords)] = NoRecord
<1>1. FreeRecords \subseteq Nat
  BY DEF FreeRecords, Records
<1> QED
  BY <1>1, LeastIn DEF FreeRecords

-----------------------------------------------------------------------------
(***************************************************************************)
(* The invariant holds.                                                    *)
(***************************************************************************)
\* A step that makes a vector of a value keeps the part of the invariant that is
\* about vectors, and changes no other vector.
LEMMA PutKeeps ==
    ASSUME AltrepInv, Free # {}, NEW k \in Kinds, NEW s \in Stored(k), NEW alt \in BOOLEAN,
           alt => class[k] # 0, Put(Min(Free), alt, k, s), UNCHANGED <<class, classes>>
    PROVE  /\ object' \in [Objects -> ObjectType]
           /\ buffer' = [b \in Buffers |-> buffer'[b]]
           /\ OwnBuffers'
           /\ \A o \in Live : object'[o] = object[o] /\ buffer'[o] = buffer[o]
           /\ object'[Min(Free)] = [alt |-> alt, kind |-> k, buf |-> Min(Free),
                                    class |-> IF alt THEN class[k] ELSE 0]
           /\ buffer'[Min(Free)] = s
           /\ Live' = Live \union {Min(Free)}
<1> DEFINE n == Min(Free)
           new == [alt |-> alt, kind |-> k, buf |-> n, class |-> IF alt THEN class[k] ELSE 0]
<1>1. n \in Objects /\ object[n] = Absent /\ n \in Nat
  BY NewObject DEF Objects
<1> HIDE DEF n
<1>2. object' = [object EXCEPT ![n] = new] /\ buffer' = [buffer EXCEPT ![n] = s]
  BY DEF Put, n
<1>3. new \in ObjectType /\ new # Absent
  <2>1. class[k] \in Nat
    BY DEF AltrepInv, Shape
  <2> QED
    BY <2>1, <1>1, KindFacts DEF ObjectType, Absent
<1>4. object \in [Objects -> ObjectType] /\ buffer = [b \in Objects |-> buffer[b]]
  BY DEF AltrepInv, Shape, Buffers
<1>5. /\ object'[n] = new /\ buffer'[n] = s
      /\ \A o \in Objects \ {n} : object'[o] = object[o] /\ buffer'[o] = buffer[o]
  BY <1>1, <1>2, <1>4
<1>6. object' \in [Objects -> ObjectType] /\ buffer' = [b \in Buffers |-> buffer'[b]]
  BY <1>2, <1>3, <1>4 DEF Buffers
<1>7. ASSUME NEW o \in Objects
      PROVE  IF object'[o] = Absent THEN buffer'[o] = Freed ELSE Vector(o)'
  <2>1. CASE o = n
    BY <2>1, <1>3, <1>5 DEF Vector
  <2>2. CASE o # n
    BY <2>2, <1>5 DEF AltrepInv, OwnBuffers, Vector
  <2> QED
    BY <2>1, <2>2
<1>8. n \notin Live
  BY <1>1 DEF Live
<1>9. Live' = Live \union {n}
  BY <1>1, <1>3, <1>5 DEF Live
<1> QED
  BY <1>5, <1>6, <1>7, <1>8, <1>9 DEF OwnBuffers, Live, n, new

\* Records are as good as before while vectors stay as they are.
LEMMA PayloadsKeep ==
    ASSUME Payloads, Live \subseteq Live', \A o \in Live : object'[o] = object[o],
           UNCHANGED record
    PROVE  Payloads'
BY DEF Payloads, Snapshot

\* The value of a vector.
LEMMA ElementsStored ==
    ASSUME AltrepInv, NEW o \in Live
    PROVE  /\ o \in Objects /\ object[o].kind \in Kinds /\ object[o].buf = o
           /\ Elements(o) = buffer[o] /\ buffer[o] \in Stored(object[o].kind)
           /\ o \in Nat
BY DEF AltrepInv, OwnBuffers, Vector, Live, Elements, Objects

LEMMA InvInit == Init => AltrepInv
<1> SUFFICES ASSUME Init PROVE AltrepInv
  OBVIOUS
<1>1. Shape
  <2>1. Absent \in ObjectType
    BY DEF ObjectType, Absent
  <2>2. NoRecord \in RecordType
    BY AltrepAssumption DEF RecordType, NoRecord
  <2> QED
    BY <2>1, <2>2 DEF Init, Shape
<1>2. OwnBuffers
  BY DEF Init, OwnBuffers, Buffers
<1>3. Payloads
  BY DEF Init, Payloads
<1> QED
  BY <1>1, <1>2, <1>3 DEF AltrepInv

\* A refusal, or a step that is about no vector, changes nothing here.
LEMMA InvStutter ==
    ASSUME AltrepInv, UNCHANGED <<class, classes, object, buffer, record>>
    PROVE  AltrepInv'
BY DEF AltrepInv, Shape, OwnBuffers, Vector, Payloads, Snapshot, Live

LEMMA InvRegister ==
    ASSUME AltrepInv, NEW k \in Kinds, Register(k)
    PROVE  AltrepInv'
<1>1. CASE class[k] # 0
  BY <1>1, InvStutter DEF Register
<1>2. CASE class[k] = 0
  <2>1. /\ class' = [class EXCEPT ![k] = classes + 1] /\ classes' = classes + 1
        /\ UNCHANGED <<object, buffer, record>>
    BY <1>2 DEF Register, MakeClass
  <2>2. Shape'
    BY <2>1 DEF AltrepInv, Shape
  <2>3. \A l \in Kinds : class[l] # 0 => class'[l] = class[l]
    BY <1>2, <2>1 DEF AltrepInv, Shape
  <2>4. ASSUME NEW o \in Objects
        PROVE  IF object'[o] = Absent THEN buffer'[o] = Freed ELSE Vector(o)'
    BY <2>1, <2>3 DEF AltrepInv, OwnBuffers, Vector
  <2>5. Payloads'
    BY <2>1 DEF AltrepInv, Payloads, Snapshot, Live
  <2> QED
    BY <2>2, <2>4, <2>5 DEF AltrepInv, OwnBuffers
<1> QED
  BY <1>1, <1>2

\* The new vector, ALTREP or ordinary, of one of the steps that make one.
LEMMA InvPut ==
    ASSUME AltrepInv, Free # {}, NEW k \in Kinds, NEW s \in Stored(k), NEW alt \in BOOLEAN,
           alt => class[k] # 0, Put(Min(Free), alt, k, s),
           UNCHANGED <<class, classes, record>>
    PROVE  AltrepInv'
<1>1. /\ object' \in [Objects -> ObjectType] /\ buffer' = [b \in Buffers |-> buffer'[b]]
      /\ OwnBuffers' /\ Live \subseteq Live'
      /\ \A o \in Live : object'[o] = object[o]
  BY PutKeeps
<1>2. Payloads'
  BY <1>1, PayloadsKeep DEF AltrepInv
<1>3. Shape'
  BY <1>1 DEF AltrepInv, Shape
<1> QED
  BY <1>1, <1>2, <1>3 DEF AltrepInv

\* Whatever the verdict of init is.
LEMMA InvInitVector ==
    ASSUME AltrepInv, Free # {}, NEW k \in Kinds, NEW s \in Stored(k), NEW reply,
           class[k] # 0, InitVector(Min(Free), k, s, reply),
           UNCHANGED <<class, classes, record>>
    PROVE  AltrepInv'
<1>1. CASE Legal(k, s)
  BY <1>1, InvPut DEF InitVector
<1>2. CASE ~Legal(k, s)
  BY <1>2, InvStutter DEF InitVector, Refuse
<1> QED
  BY <1>1, <1>2

LEMMA InvNew ==
    ASSUME AltrepInv, NEW k \in Kinds, New(k)
    PROVE  AltrepInv'
<1>1. PICK s \in Values[k] : IF class[k] = 0 THEN Refuse
                             ELSE InitVector(Min(Free), k, s, [op |-> "made"])
  BY DEF New
<1>2. Free # {} /\ UNCHANGED <<class, classes, record>> /\ s \in Stored(k)
  BY ValuesStored DEF New
<1>3. CASE class[k] = 0
  BY <1>1, <1>2, <1>3, InvStutter DEF Refuse
<1>4. CASE class[k] # 0
  BY <1>1, <1>2, <1>4, InvInitVector
<1> QED
  BY <1>3, <1>4

LEMMA InvNewOrdinary ==
    ASSUME AltrepInv, NEW k \in Kinds, NewOrdinary(k)
    PROVE  AltrepInv'
<1>1. PICK s \in Values[k] : Put(Min(Free), FALSE, k, s)
  BY DEF NewOrdinary
<1> QED
  BY <1>1, ValuesStored, InvPut DEF NewOrdinary

LEMMA InvDuplicate ==
    ASSUME AltrepInv, NEW o \in Live, Duplicate(o)
    PROVE  AltrepInv'
<1>1. object[o].kind \in Kinds /\ Elements(o) \in Stored(object[o].kind)
  BY ElementsStored
<1> QED
  BY <1>1, InvPut DEF Duplicate

\* A store changes one buffer, to one of the same length.
LEMMA StoreStep ==
    ASSUME AltrepInv, NEW o \in Live, Store(o)
    PROVE  \E i \in DOMAIN buffer[o], c \in Cells[object[o].kind] :
              /\ buffer' = [buffer EXCEPT ![o] = [buffer[o] EXCEPT ![i] = c]]
              /\ [buffer[o] EXCEPT ![i] = c] \in Stored(object[o].kind)
<1>1. /\ o \in Objects /\ object[o].kind \in Kinds /\ object[o].buf = o
      /\ Elements(o) = buffer[o] /\ buffer[o] \in Stored(object[o].kind)
  BY ElementsStored
<1>2. PICK i \in DOMAIN buffer[o], c \in Cells[object[o].kind] :
         buffer' = [buffer EXCEPT ![o][i] = c]
  BY <1>1 DEF Store
<1>3. [buffer[o] EXCEPT ![i] = c] \in Stored(object[o].kind)
  BY <1>1, StoreStored
<1> QED
  BY <1>2, <1>3

LEMMA InvStore ==
    ASSUME AltrepInv, NEW o \in Live, Store(o)
    PROVE  AltrepInv'
<1>1. PICK t \in Stored(object[o].kind) : buffer' = [buffer EXCEPT ![o] = t]
  BY StoreStep
<1>2. UNCHANGED <<class, classes, object, record>>
  BY DEF Store
<1>3. o \in Objects /\ object[o] # Absent
  BY DEF Live
<1>4. \A p \in Objects : buffer'[p] = IF p = o THEN t ELSE buffer[p]
  BY <1>1, <1>3 DEF AltrepInv, Shape, Buffers
<1>5. Shape'
  BY <1>1, <1>2 DEF AltrepInv, Shape, Buffers
<1>6. OwnBuffers'
  BY <1>2, <1>3, <1>4 DEF AltrepInv, OwnBuffers, Vector
<1>7. Payloads'
  BY <1>2 DEF AltrepInv, Payloads, Snapshot, Live
<1> QED
  BY <1>5, <1>6, <1>7 DEF AltrepInv

\* A vector that goes: nothing has its buffer, and no record has it.
LEMMA InvDrop ==
    ASSUME AltrepInv, NEW o \in Live, Drop(o)
    PROVE  AltrepInv'
<1>1. o \in Objects /\ object[o].buf = o
  BY ElementsStored
<1>2. /\ object' = [object EXCEPT ![o] = Absent] /\ buffer' = [buffer EXCEPT ![o] = Freed]
      /\ UNCHANGED <<class, classes, record>>
      /\ \A r \in Records : record[r].payload # o
  BY <1>1 DEF Drop
<1>3. Absent \in ObjectType
  BY DEF Absent, ObjectType
<1>4. \A p \in Objects : /\ object'[p] = IF p = o THEN Absent ELSE object[p]
                         /\ buffer'[p] = IF p = o THEN Freed ELSE buffer[p]
  BY <1>1, <1>2 DEF AltrepInv, Shape, Buffers
<1>5. Shape'
  BY <1>2, <1>3 DEF AltrepInv, Shape, Buffers
<1>6. OwnBuffers'
  BY <1>2, <1>4 DEF AltrepInv, OwnBuffers, Vector
<1>7. Payloads'
  BY <1>2, <1>4 DEF AltrepInv, Payloads, Snapshot, Live
<1> QED
  BY <1>5, <1>6, <1>7 DEF AltrepInv

\* Steps that change one record.
LEMMA InvRecord ==
    ASSUME AltrepInv, NEW r \in Records, NEW new \in RecordType,
           record' = [record EXCEPT ![r] = new],
           new # NoRecord => new.payload \in Live /\ new.of = "none",
           UNCHANGED <<class, classes, object, buffer>>
    PROVE  AltrepInv'
<1>1. \A q \in Records : record'[q] = IF q = r THEN new ELSE record[q]
  BY DEF AltrepInv, Shape
<1>2. Shape'
  BY DEF AltrepInv, Shape
<1>3. OwnBuffers'
  BY DEF AltrepInv, OwnBuffers, Vector
<1>4. Payloads'
  BY <1>1 DEF AltrepInv, Payloads, Snapshot, Live
<1> QED
  BY <1>2, <1>3, <1>4 DEF AltrepInv

LEMMA InvOtherRecord ==
    ASSUME AltrepInv, NEW o \in Live, OtherRecord(o)
    PROVE  AltrepInv'
<1>1. PICK form \in {"list", "short", "altrep"}, magic \in BOOLEAN, version \in 1..2, k \in Kinds :
         record' = [record EXCEPT ![Min(FreeRecords)] =
                      [form |-> form, magic |-> magic, version |-> version, kind |-> k,
                       payload |-> o, of |-> "none"]]
  BY DEF OtherRecord
<1>2. Min(FreeRecords) \in Records /\ UNCHANGED <<class, classes, object, buffer>>
  BY NewRecord DEF OtherRecord
<1>3. o \in 0..MaxObjects
  BY DEF Live, Objects
<1>4. [form |-> form, magic |-> magic, version |-> version, kind |-> k,
       payload |-> o, of |-> "none"] \in RecordType
  BY <1>3 DEF RecordType
<1> QED
  BY <1>1, <1>2, <1>4, InvRecord

LEMMA InvDropRecord ==
    ASSUME AltrepInv, NEW r \in Records, DropRecord(r)
    PROVE  AltrepInv'
<1>1. NoRecord \in RecordType
  BY AltrepAssumption DEF NoRecord, RecordType
<1> QED
  BY <1>1, InvRecord DEF DropRecord

\* A snapshot: the new record's payload is the new vector.
LEMMA InvSerializedState ==
    ASSUME AltrepInv, NEW o \in Live, NEW k \in Kinds, SerializedState(o, k)
    PROVE  AltrepInv'
<1> DEFINE made == class[k] # 0 /\ object[o].alt /\ object[o].class = class[k]
<1>1. CASE ~made
  BY <1>1, InvStutter DEF SerializedState, Refuse
<1>2. CASE made
  <2> DEFINE n == Min(Free)
             r == Min(FreeRecords)
             new == [form |-> "list", magic |-> TRUE, version |-> OWNED_ALTREP_STATE_VERSION,
                     kind |-> k, payload |-> n, of |-> k]
  <2>1. /\ Free # {} /\ FreeRecords # {} /\ UNCHANGED <<class, classes>>
        /\ Put(n, FALSE, k, Elements(o)) /\ record' = [record EXCEPT ![r] = new]
    BY <1>2 DEF SerializedState, MakeState
  <2>2. object[o].kind = k /\ Elements(o) \in Stored(k)
    <3>1. object[o].kind \in Kinds /\ Elements(o) \in Stored(object[o].kind)
      BY ElementsStored
    <3>2. object[o].class = class[object[o].kind]
      BY <1>2 DEF AltrepInv, OwnBuffers, Vector, Live
    <3>3. object[o].kind = k
      BY <1>2, <3>1, <3>2 DEF AltrepInv, Shape
    <3> QED
      BY <3>1, <3>3
  <2>3. /\ object' \in [Objects -> ObjectType] /\ buffer' = [b \in Buffers |-> buffer'[b]]
        /\ OwnBuffers' /\ Live' = Live \union {n}
        /\ \A p \in Live : object'[p] = object[p]
        /\ object'[n] = [alt |-> FALSE, kind |-> k, buf |-> n, class |-> 0]
    BY <2>1, <2>2, PutKeeps
  <2>4. n \in Objects /\ r \in Records
    BY <2>1, NewObject, NewRecord
  <2> HIDE DEF n, r
  <2>5. new \in RecordType
    BY <2>4 DEF RecordType, OWNED_ALTREP_STATE_VERSION, Objects
  <2>6. Shape'
    BY <2>1, <2>3, <2>5 DEF AltrepInv, Shape
  <2>7. \A q \in Records : record'[q] = IF q = r THEN new ELSE record[q]
    BY <2>1, <2>4 DEF AltrepInv, Shape
  <2>8. ASSUME NEW q \in Records, record'[q] # NoRecord
        PROVE  record'[q].payload \in Live' /\ (record'[q].of # "none" => Snapshot(q)')
    <3>1. CASE q = r
      BY <3>1, <2>3, <2>7 DEF Snapshot
    <3>2. CASE q # r
      BY <3>2, <2>3, <2>7, <2>8 DEF AltrepInv, Payloads, Snapshot
    <3> QED
      BY <3>1, <3>2
  <2> QED
    BY <2>3, <2>6, <2>8 DEF AltrepInv, Payloads
<1> QED
  BY <1>1, <1>2

LEMMA InvRestore ==
    ASSUME AltrepInv, NEW r \in Records, NEW k \in Kinds, Restore(r, k)
    PROVE  AltrepInv'
<1> DEFINE state == record[r]
           made == class[k] # 0 /\ Validate(state, k) = "ok"
<1>1. UNCHANGED <<class, classes, record>> /\ Free # {} /\ record[r] # NoRecord
  BY DEF Restore
<1>2. CASE ~made
  BY <1>1, <1>2, InvStutter DEF Restore, Refuse
<1>3. CASE made
  <2>1. InitVector(Min(Free), k, Elements(state.payload), [op |-> "copied", of |-> state.payload])
    BY <1>3 DEF Restore
  <2>2. state.payload \in Live
    BY <1>1 DEF AltrepInv, Payloads
  <2>3. object[state.payload].kind = k
    BY <1>3 DEF Validate
  <2>4. Elements(state.payload) \in Stored(k)
    BY <2>2, <2>3, ElementsStored
  <2> QED
    BY <1>1, <1>3, <2>1, <2>4, InvInitVector
<1> QED
  BY <1>2, <1>3

LEMMA InvNext == AltrepInv /\ [Next]_vars => AltrepInv'
<1> SUFFICES ASSUME AltrepInv, [Next]_vars PROVE AltrepInv'
  OBVIOUS
<1>1. CASE UNCHANGED vars
  BY <1>1, InvStutter DEF vars
<1>2. CASE \E k \in Kinds : Register(k) \/ New(k) \/ NewOrdinary(k)
  BY <1>2, InvRegister, InvNew, InvNewOrdinary
<1>3. CASE \E o \in Live : Duplicate(o) \/ Store(o) \/ Drop(o) \/ OtherRecord(o)
  BY <1>3, InvDuplicate, InvStore, InvDrop, InvOtherRecord
<1>4. CASE \E o \in Live, k \in Kinds : SerializedState(o, k)
  BY <1>4, InvSerializedState
<1>5. CASE \E r \in Records : record[r] # NoRecord /\ DropRecord(r)
  BY <1>5, InvDropRecord
<1>6. CASE \E r \in Records, k \in Kinds : Restore(r, k)
  BY <1>6, InvRestore
<1> QED
  BY <1>1, <1>2, <1>3, <1>4, <1>5, <1>6 DEF Next

\* The strengthened invariant.
THEOREM Invariant == Spec => []AltrepInv
<1>1. Init => AltrepInv
  BY InvInit
<1>2. AltrepInv /\ [Next]_vars => AltrepInv'
  BY InvNext
<1> QED
  BY <1>1, <1>2, PTL DEF Spec

-----------------------------------------------------------------------------
(***************************************************************************)
(* The properties.                                                         *)
(***************************************************************************)
\* An instance of a class stays one of the class its family has, whatever is
\* registered, copied, restored or collected in between.
THEOREM InstancesKeepClassAlways == Spec => []InstancesKeepClass
<1>1. AltrepInv => InstancesKeepClass
  <2> SUFFICES ASSUME AltrepInv PROVE InstancesKeepClass
    OBVIOUS
  <2>1. class \in [Kinds -> 0..classes] /\ classes \in Nat
    BY DEF AltrepInv, Shape
  <2>2. ASSUME NEW o \in Objects
        PROVE  object[o] \in [alt : BOOLEAN, kind : Kinds \union {"none"},
                              class : 0..classes, buf : 0..MaxObjects]
    <3>1. CASE object[o] = Absent
      BY <2>1, <3>1, AltrepAssumption DEF Absent
    <3>2. CASE object[o] # Absent
      <4>1. Vector(o)
        BY <3>2 DEF AltrepInv, OwnBuffers
      <4>2. object[o] \in ObjectType
        BY DEF AltrepInv, Shape
      <4>3. object[o].class \in 0..classes
        BY <2>1, <4>1 DEF Vector
      <4>4. object[o].buf \in 0..MaxObjects
        BY <4>1 DEF Vector, Objects
      <4> QED
        BY <4>2, <4>3, <4>4 DEF ObjectType
    <3> QED
      BY <3>1, <3>2
  <2>3. object \in [Objects -> [alt : BOOLEAN, kind : Kinds \union {"none"},
                                class : 0..classes, buf : 0..MaxObjects]]
    BY <2>2 DEF AltrepInv, Shape
  <2>4. \A b \in Buffers : buffer[b] = Freed \/ \E k \in Kinds : buffer[b] \in Stored(k)
    BY DEF AltrepInv, OwnBuffers, Vector, Buffers
  <2>5. record \in [Records -> RecordType]
    BY DEF AltrepInv, Shape
  <2>6. TypeOK
    BY <2>1, <2>3, <2>4, <2>5 DEF TypeOK, RecordType
  <2>7. \A o \in Live : object[o].alt =>
           object[o].class = class[object[o].kind] /\ class[object[o].kind] # 0
    BY DEF AltrepInv, OwnBuffers, Vector, Live
  <2> QED
    BY <2>6, <2>7 DEF InstancesKeepClass
<1> QED
  BY <1>1, Invariant, PTL

\* What a class has saved is restored by that class and refused by all others,
\* unless C code stored an int that is no logical value.
THEOREM RoundTripAlways == Spec => []RoundTrip
<1>1. AltrepInv => RoundTrip
  <2> SUFFICES ASSUME AltrepInv, NEW r \in Records, record[r].of # "none",
                      Legal(record[r].of, Elements(record[r].payload)), NEW k \in Kinds
               PROVE  Validate(record[r], k) = "ok" <=> k = record[r].of
    BY DEF RoundTrip
  <2>1. record[r] # NoRecord
    BY DEF NoRecord
  <2>2. Snapshot(r)
    BY <2>1 DEF AltrepInv, Payloads
  <2>3. CASE k = record[r].of
    BY <2>2, <2>3 DEF Validate, Snapshot, Elements
  <2>4. CASE k # record[r].of
    BY <2>2, <2>4 DEF Validate, Snapshot
  <2> QED
    BY <2>3, <2>4
<1> QED
  BY <1>1, Invariant, PTL

-----------------------------------------------------------------------------
(***************************************************************************)
(* Vectors are values.                                                     *)
(***************************************************************************)
\* The value that a vector has for VectorValues is what its own buffer has.
Val == [o \in Objects |-> IF o \in Live THEN Elements(o) ELSE Freed]

LEMMA ValIsBuffer == AltrepInv => Val = buffer
<1> SUFFICES ASSUME AltrepInv PROVE Val = buffer
  OBVIOUS
<1>1. ASSUME NEW o \in Objects
      PROVE  buffer[o] = IF o \in Live THEN Elements(o) ELSE Freed
  BY ElementsStored DEF AltrepInv, OwnBuffers, Live
<1>2. buffer = [o \in Objects |-> buffer[o]]
  BY DEF AltrepInv, Shape, Buffers
<1> QED
  BY <1>1, <1>2 DEF Val

LEMMA ValIsBufferNext == (AltrepInv => Val = buffer)'
BY ValIsBuffer, PTL

\* A vector exists when its buffer is not free.
LEMMA LiveBuffers ==
    ASSUME AltrepInv, NEW o \in Objects
    PROVE  o \in Live <=> buffer[o] # Freed
<1>1. CASE o \in Live
  BY <1>1, ElementsStored, StoredFacts
<1>2. CASE o \notin Live
  BY <1>2 DEF AltrepInv, OwnBuffers, Live
<1> QED
  BY <1>1, <1>2

\* The steps of VectorValues, in terms of the buffers.
LEMMA MakeStep ==
    ASSUME Val = buffer, Val' = buffer', NEW o \in Objects, buffer[o] = Freed,
           NEW s \in Seq(AllCells), s # Freed, buffer' = [buffer EXCEPT ![o] = s],
           buffer'[o] = s, answer' = [op |-> "made"]
    PROVE  Values_!Next
<1>1. s \in {Val'[o]} \ {Freed}
  OBVIOUS
<1>2. Values_!Make(o, s)
  BY DEF Values_!Make, Values_!Exists, Values_!Made, Val
<1> QED
  BY <1>1, <1>2 DEF Values_!Next, Val

LEMMA CopyStep ==
    ASSUME Val = buffer, Val' = buffer', NEW o \in Objects, NEW p \in Objects,
           buffer[o] # Freed, buffer[p] = Freed, buffer' = [buffer EXCEPT ![p] = buffer[o]],
           answer' = [op |-> "copied", of |-> o]
    PROVE  Values_!Next
<1>1. Values_!Copy(o, p)
  BY DEF Values_!Copy, Values_!Exists, Values_!Copied, Val
<1> QED
  BY <1>1 DEF Values_!Next

LEMMA StoreIntoStep ==
    ASSUME Val = buffer, Val' = buffer', NEW o \in Objects, buffer[o] # Freed,
           NEW i \in 1..Len(buffer[o]), NEW c \in AllCells,
           buffer' = [buffer EXCEPT ![o] = [buffer[o] EXCEPT ![i] = c]],
           answer' = [op |-> "none"]
    PROVE  Values_!Next
<1>1. Values_!Store(o, i, c)
  BY DEF Values_!Store, Values_!Exists, Values_!Nothing, Val
<1>2. Values_!Exists(o) /\ i \in 1..Len(Val[o])
  BY DEF Values_!Exists, Val
<1> QED
  BY <1>1, <1>2 DEF Values_!Next, Val

LEMMA DropStep ==
    ASSUME Val = buffer, Val' = buffer', NEW o \in Objects, buffer[o] # Freed,
           buffer' = [buffer EXCEPT ![o] = Freed], answer' = [op |-> "none"]
    PROVE  Values_!Next
<1>1. Values_!Drop(o)
  BY DEF Values_!Drop, Values_!Exists, Values_!Nothing, Val
<1> QED
  BY <1>1 DEF Values_!Next

LEMMA OtherStep ==
    ASSUME Val = buffer, Val' = buffer', buffer' = buffer, answer' = [op |-> "none"]
    PROVE  Values_!Next
<1>1. Values_!Other
  BY DEF Values_!Other, Values_!Nothing, Val
<1> QED
  BY <1>1 DEF Values_!Next

\* The vector of a step that makes one did not exist.
LEMMA FreshBuffer ==
    ASSUME AltrepInv, Free # {}, NEW k \in Kinds, NEW s \in Stored(k), NEW alt \in BOOLEAN,
           alt => class[k] # 0, Put(Min(Free), alt, k, s), UNCHANGED <<class, classes>>
    PROVE  /\ Min(Free) \in Objects /\ buffer[Min(Free)] = Freed
           /\ buffer' = [buffer EXCEPT ![Min(Free)] = s] /\ buffer'[Min(Free)] = s
           /\ s \in Seq(AllCells) /\ s # Freed
<1>1. Min(Free) \in Objects /\ object[Min(Free)] = Absent
  BY NewObject
<1>2. buffer[Min(Free)] = Freed
  BY <1>1 DEF AltrepInv, OwnBuffers
<1>3. buffer'[Min(Free)] = s
  BY PutKeeps
<1> QED
  BY <1>1, <1>2, <1>3, StoredFacts DEF Put

LEMMA ValuesPut ==
    ASSUME AltrepInv, AltrepInv', Free # {}, NEW k \in Kinds, NEW s \in Stored(k),
           NEW alt \in BOOLEAN, alt => class[k] # 0,
           Put(Min(Free), alt, k, s), UNCHANGED <<class, classes>>,
           \/ answer' = [op |-> "made"]
           \/ \E o \in Live : s = Elements(o) /\ answer' = [op |-> "copied", of |-> o]
    PROVE  Values_!Next
<1>1. Val = buffer /\ Val' = buffer'
  BY ValIsBuffer, ValIsBufferNext
<1>2. /\ Min(Free) \in Objects /\ buffer[Min(Free)] = Freed
      /\ buffer' = [buffer EXCEPT ![Min(Free)] = s] /\ buffer'[Min(Free)] = s
      /\ s \in Seq(AllCells) /\ s # Freed
  BY FreshBuffer
<1>3. CASE answer' = [op |-> "made"]
  BY <1>1, <1>2, <1>3, MakeStep
<1>4. ASSUME NEW o \in Live, s = Elements(o), answer' = [op |-> "copied", of |-> o]
      PROVE  Values_!Next
  <2>1. o \in Objects /\ s = buffer[o] /\ buffer[o] # Freed
    BY <1>4, ElementsStored, LiveBuffers
  <2> QED
    BY <1>1, <1>2, <1>4, <2>1, CopyStep
<1> QED
  BY <1>3, <1>4

LEMMA ValuesRefuse ==
    ASSUME AltrepInv, AltrepInv', Refuse
    PROVE  Values_!Next
BY ValIsBuffer, ValIsBufferNext, OtherStep DEF Refuse

LEMMA ValuesInitVector ==
    ASSUME AltrepInv, AltrepInv', Free # {}, NEW k \in Kinds, NEW s \in Stored(k), NEW reply,
           class[k] # 0, InitVector(Min(Free), k, s, reply), UNCHANGED <<class, classes>>,
           \/ reply = [op |-> "made"]
           \/ \E o \in Live : s = Elements(o) /\ reply = [op |-> "copied", of |-> o]
    PROVE  Values_!Next
<1>1. CASE Legal(k, s)
  BY <1>1, ValuesPut DEF InitVector
<1>2. CASE ~Legal(k, s)
  BY <1>2, ValuesRefuse DEF InitVector
<1> QED
  BY <1>1, <1>2

LEMMA ValuesNew ==
    ASSUME AltrepInv, AltrepInv', NEW k \in Kinds, New(k)
    PROVE  Values_!Next
<1>1. PICK s \in Values[k] : IF class[k] = 0 THEN Refuse
                             ELSE InitVector(Min(Free), k, s, [op |-> "made"])
  BY DEF New
<1>2. Free # {} /\ UNCHANGED <<class, classes>> /\ s \in Stored(k)
  BY ValuesStored DEF New
<1> QED
  BY <1>1, <1>2, ValuesRefuse, ValuesInitVector

LEMMA ValuesNewOrdinary ==
    ASSUME AltrepInv, AltrepInv', NEW k \in Kinds, NewOrdinary(k)
    PROVE  Values_!Next
<1>1. PICK s \in Values[k] : Put(Min(Free), FALSE, k, s)
  BY DEF NewOrdinary
<1> QED
  BY <1>1, ValuesStored, ValuesPut DEF NewOrdinary

LEMMA ValuesDuplicate ==
    ASSUME AltrepInv, AltrepInv', NEW o \in Live, Duplicate(o)
    PROVE  Values_!Next
<1>1. object[o].kind \in Kinds /\ Elements(o) \in Stored(object[o].kind)
  BY ElementsStored
<1> QED
  BY <1>1, ValuesPut DEF Duplicate

LEMMA ValuesStore ==
    ASSUME AltrepInv, AltrepInv', NEW o \in Live, Store(o)
    PROVE  Values_!Next
<1>1. PICK i \in DOMAIN buffer[o], c \in Cells[object[o].kind] :
         buffer' = [buffer EXCEPT ![o] = [buffer[o] EXCEPT ![i] = c]]
  BY StoreStep
<1>2. o \in Objects /\ object[o].kind \in Kinds /\ buffer[o] \in Seq(AllCells) /\ buffer[o] # Freed
  BY ElementsStored, StoredFacts
<1>3. i \in 1..Len(buffer[o]) /\ c \in AllCells
  BY <1>2 DEF AllCells
<1>4. answer' = [op |-> "none"]
  BY DEF Store
<1> QED
  BY <1>1, <1>2, <1>3, <1>4, ValIsBuffer, ValIsBufferNext, StoreIntoStep

LEMMA ValuesDrop ==
    ASSUME AltrepInv, AltrepInv', NEW o \in Live, Drop(o)
    PROVE  Values_!Next
<1>1. o \in Objects /\ object[o].buf = o /\ buffer[o] # Freed
  BY ElementsStored, StoredFacts
<1>2. buffer' = [buffer EXCEPT ![o] = Freed] /\ answer' = [op |-> "none"]
  BY <1>1 DEF Drop
<1> QED
  BY <1>1, <1>2, ValIsBuffer, ValIsBufferNext, DropStep

LEMMA ValuesSerializedState ==
    ASSUME AltrepInv, AltrepInv', NEW o \in Live, NEW k \in Kinds, SerializedState(o, k)
    PROVE  Values_!Next
<1> DEFINE made == class[k] # 0 /\ object[o].alt /\ object[o].class = class[k]
<1>1. CASE ~made
  BY <1>1, ValuesRefuse DEF SerializedState
<1>2. CASE made
  <2>1. /\ Free # {} /\ UNCHANGED <<class, classes>> /\ Put(Min(Free), FALSE, k, Elements(o))
        /\ answer' = [op |-> "copied", of |-> o]
    BY <1>2 DEF SerializedState, MakeState
  <2>2. object[o].kind \in Kinds /\ Elements(o) \in Stored(object[o].kind)
    BY ElementsStored
  <2>3. object[o].class = class[object[o].kind]
    BY <1>2 DEF AltrepInv, OwnBuffers, Vector, Live
  <2>4. object[o].kind = k
    <3>1. \A j, l \in Kinds : class[j] = class[l] /\ class[j] # 0 => j = l
      BY DEF AltrepInv, Shape
    <3> QED
      BY <1>2, <2>2, <2>3, <3>1
  <2> QED
    BY <2>1, <2>2, <2>4, ValuesPut
<1> QED
  BY <1>1, <1>2

LEMMA ValuesRestore ==
    ASSUME AltrepInv, AltrepInv', NEW r \in Records, NEW k \in Kinds, Restore(r, k)
    PROVE  Values_!Next
<1> DEFINE state == record[r]
           made == class[k] # 0 /\ Validate(state, k) = "ok"
<1>1. UNCHANGED <<class, classes>> /\ Free # {} /\ record[r] # NoRecord
  BY DEF Restore
<1>2. CASE ~made
  BY <1>2, ValuesRefuse DEF Restore
<1>3. CASE made
  <2>1. InitVector(Min(Free), k, Elements(state.payload), [op |-> "copied", of |-> state.payload])
    BY <1>3 DEF Restore
  <2>2. state.payload \in Live
    BY <1>1 DEF AltrepInv, Payloads
  <2>3. object[state.payload].kind = k
    BY <1>3 DEF Validate
  <2>4. Elements(state.payload) \in Stored(k)
    BY <2>2, <2>3, ElementsStored
  <2> QED
    BY <1>1, <1>3, <2>1, <2>2, <2>4, ValuesInitVector
<1> QED
  BY <1>2, <1>3

\* What leaves the vectors alone.
LEMMA ValuesOther ==
    ASSUME AltrepInv, AltrepInv', buffer' = buffer, answer' = [op |-> "none"]
    PROVE  Values_!Next
BY ValIsBuffer, ValIsBufferNext, OtherStep

LEMMA ValuesStep == AltrepInv /\ AltrepInv' /\ [Next]_vars => [Values_!Next]_<<Val, answer>>
<1> SUFFICES ASSUME AltrepInv, AltrepInv', [Next]_vars
             PROVE  Values_!Next \/ UNCHANGED <<Val, answer>>
  OBVIOUS
<1>1. CASE UNCHANGED vars
  BY <1>1, ValIsBuffer, ValIsBufferNext DEF vars
<1>2. CASE \E k \in Kinds : Register(k) \/ New(k) \/ NewOrdinary(k)
  BY <1>2, ValuesOther, ValuesNew, ValuesNewOrdinary DEF Register
<1>3. CASE \E o \in Live : Duplicate(o) \/ Store(o) \/ Drop(o) \/ OtherRecord(o)
  BY <1>3, ValuesDuplicate, ValuesStore, ValuesDrop, ValuesOther DEF OtherRecord
<1>4. CASE \E o \in Live, k \in Kinds : SerializedState(o, k)
  BY <1>4, ValuesSerializedState
<1>5. CASE \E r \in Records : record[r] # NoRecord /\ DropRecord(r)
  BY <1>5, ValuesOther DEF DropRecord
<1>6. CASE \E r \in Records, k \in Kinds : Restore(r, k)
  BY <1>6, ValuesRestore
<1> QED
  BY <1>1, <1>2, <1>3, <1>4, <1>5, <1>6 DEF Next

LEMMA ValuesInit == Init => Values_!Init
<1> SUFFICES ASSUME Init PROVE Values_!Init
  OBVIOUS
<1>1. Val = buffer
  BY InvInit, ValIsBuffer
<1>2. buffer = [o \in Objects |-> Freed] /\ answer = [op |-> "none"]
  BY DEF Init, Buffers
<1> QED
  BY <1>1, <1>2 DEF Values_!Init, Values_!Nothing, Val

\* Whatever a vector is made of, R code sees a value: every step of the classes
\* is one of VectorValues, which knows neither classes nor buffers nor records.
THEOREM ImplementsValuesAlways == Spec => ImplementsValues
<1>1. Init => Values_!Init
  BY ValuesInit
<1>2. AltrepInv /\ AltrepInv' /\ [Next]_vars => [Values_!Next]_<<Val, answer>>
  BY ValuesStep
<1>3. Spec => []AltrepInv
  BY Invariant
<1> QED
  BY <1>1, <1>2, <1>3, PTL DEF Spec, ImplementsValues, Values_!Spec, Val

-----------------------------------------------------------------------------
(***************************************************************************)
(* Reading.                                                                *)
(***************************************************************************)
LEMMA MinOfTwo ==
    ASSUME NEW a \in Int, NEW b \in Int
    PROVE  Min({a, b}) = IF a <= b THEN a ELSE b
BY DEF Min

\* The elements that Get_region copies exist: the count it copies ends where the
\* vector does.
LEMMA RegionWithin ==
    ASSUME NEW len \in Nat, NEW i \in Int, NEW n \in Int
    PROVE  \A j \in 1 .. regionBounds(len, i, n) : i + j <= len
BY MinOfTwo DEF regionBounds

LEMMA SubSeqFunction ==
    ASSUME NEW S, NEW s \in Seq(S), NEW m \in Int, NEW n \in Int
    PROVE  SubSeq(s, m, n) = [j \in 1 .. 1 + n - m |-> s[j + m - 1]]
OBVIOUS

LEMMA RegionFunction ==
    ASSUME NEW S, NEW s \in Seq(S), NEW i \in Int, NEW n \in Int
    PROVE  Region(s, i, n) = [j \in 1 .. regionBounds(Len(s), i, n) |-> s[i + j]]
<1> DEFINE got == regionBounds(Len(s), i, n)
<1>1. \A j \in 1..got : i + j <= Len(s)
  <2>1. Len(s) \in Nat
    OBVIOUS
  <2> QED
    BY <2>1, RegionWithin
<1>2. Region(s, i, n) = [j \in 1..got |-> IF i + j <= Len(s) THEN s[i + j] ELSE NoCell]
  BY DEF Region
<1> HIDE DEF got
<1>3. Region(s, i, n) = [j \in 1..got |-> s[i + j]]
  BY <1>1, <1>2
<1> QED
  BY <1>3 DEF got

\* How many elements there are from i on, at most n.
LEMMA RegionLength ==
    ASSUME NEW len \in Nat, NEW i \in Nat, NEW n \in Int, -1 <= n, i <= len + 1
    PROVE  1 .. regionBounds(len, i, n) = 1 .. 1 + Min({len, i + n}) - (i + 1)
<1>1. Min({len, i + n}) = IF len <= i + n THEN len ELSE i + n
  BY MinOfTwo
<1>2. CASE n <= 0 \/ i >= len
  <2>1. regionBounds(len, i, n) = 0
    BY <1>2 DEF regionBounds
  <2>2. 1 + Min({len, i + n}) - (i + 1) <= 0 /\ Min({len, i + n}) \in Int
    BY <1>1, <1>2
  <2> QED
    BY <2>1, <2>2
<1>3. CASE n > 0 /\ i < len
  <2>1. regionBounds(len, i, n) = Min({n, len - i})
    BY <1>3 DEF regionBounds
  <2>2. Min({n, len - i}) = IF n <= len - i THEN n ELSE len - i
    BY MinOfTwo
  <2> QED
    BY <1>1, <2>1, <2>2
<1> QED
  BY <1>2, <1>3

LEMMA RegionIsPart ==
    ASSUME NEW S, NEW s \in Seq(S), NEW i \in Int, NEW n \in Int, -1 <= n, i <= Len(s) + 1
    PROVE  Region(s, i, n) = IF i < 0 THEN <<>> ELSE SubSeq(s, i + 1, Min({Len(s), i + n}))
<1> DEFINE got == regionBounds(Len(s), i, n)
           last == Min({Len(s), i + n})
<1>1. Region(s, i, n) = [j \in 1..got |-> s[i + j]]
  BY RegionFunction
<1>2. CASE i < 0
  <2>1. got = 0
    BY <1>2 DEF regionBounds
  <2> HIDE DEF got
  <2>2. Region(s, i, n) = <<>>
    BY <1>1, <2>1
  <2> QED
    BY <1>2, <2>2
<1>3. CASE i >= 0
  <2>1. last \in Int
    BY MinOfTwo
  <2>2. 1..got = 1 .. 1 + last - (i + 1)
    BY <1>3, RegionLength
  <2> HIDE DEF got, last
  <2>3. SubSeq(s, i + 1, last) = [j \in 1 .. 1 + last - (i + 1) |-> s[j + (i + 1) - 1]]
    BY <2>1, SubSeqFunction
  <2>4. \A j \in 1..got : j + (i + 1) - 1 = i + j
    OBVIOUS
  <2>5. Region(s, i, n) = SubSeq(s, i + 1, last)
    BY <1>1, <2>2, <2>3, <2>4
  <2>6. ~(i < 0)
    BY <1>3
  <2> QED
    BY <2>5, <2>6 DEF last
<1>4. i < 0 \/ i >= 0
  OBVIOUS
<1> QED
  BY <1>2, <1>3, <1>4

\* An element of a complex vector survives being taken apart by the shim.
LEMMA EltIsElement ==
    ASSUME AltrepInv, NEW o \in Live, NEW i \in 0 .. Len(Elements(o)) - 1
    PROVE  EltRead(o, i) = Elements(o)[i + 1]
<1> DEFINE k == object[o].kind
           s == Elements(o)
<1>1. k \in Kinds /\ s \in Seq(Cells[k])
  BY ElementsStored, StoredFacts
<1>2. CASE k # "complex"
  BY <1>2 DEF EltRead, Elt, zigr_set_altcomplex_elt_method
<1>3. CASE k = "complex"
  <2>1. i + 1 \in 1..Len(s)
    OBVIOUS
  <2>2. s[i + 1] \in Int \X Int
    BY <1>1, <1>3, <2>1, ElementOfSeq, CellFacts
  <2>3. <<s[i + 1][1], s[i + 1][2]>> = s[i + 1]
    BY <2>2
  <2> QED
    BY <1>3, <2>3 DEF EltRead, Elt, zigr_set_altcomplex_elt_method, zigr_altcomplex_elt,
       zigr_altcomplex_elt_parts_impl, zigr_complex_elt_parts, Parts
<1> QED
  BY <1>2, <1>3

\* Every way of reading gives the value, and none goes beyond the buffer.
THEOREM ReadsAgreeAlways == Spec => []ReadsAgree
<1>1. AltrepInv => ReadsAgree
  <2> SUFFICES ASSUME AltrepInv, NEW o \in Live PROVE
        /\ \A i \in 0 .. Len(Elements(o)) - 1 : EltRead(o, i) = Elements(o)[i + 1]
        /\ \A i \in -1 .. Len(Elements(o)) + 1, n \in -1 .. Len(Elements(o)) + 1 :
              Region(Elements(o), i, n) =
                 IF i < 0 THEN <<>> ELSE SubSeq(Elements(o), i + 1, Min({Len(Elements(o)), i + n}))
    BY DEF ReadsAgree
  <2>1. Elements(o) \in Seq(AllCells)
    BY ElementsStored, StoredFacts
  <2>2. \A i \in 0 .. Len(Elements(o)) - 1 : EltRead(o, i) = Elements(o)[i + 1]
    BY EltIsElement
  <2>3. ASSUME NEW i \in -1 .. Len(Elements(o)) + 1, NEW n \in -1 .. Len(Elements(o)) + 1
        PROVE  Region(Elements(o), i, n) =
                 IF i < 0 THEN <<>> ELSE SubSeq(Elements(o), i + 1, Min({Len(Elements(o)), i + n}))
    <3>1. i \in Int /\ n \in Int /\ -1 <= n /\ i <= Len(Elements(o)) + 1
      BY <2>1
    <3> QED
      BY <2>1, <3>1, RegionIsPart
  <2> QED
    BY <2>2, <2>3
<1> QED
  BY <1>1, Invariant, PTL
=============================================================================
