------------------------- MODULE OwnedPointer_proofs -------------------------
(***************************************************************************)
(* Theorems about OwnedPointer: a native value is destroyed at most once,   *)
(* an address that can still be used leads to a live value, and a value on  *)
(* the heap has somebody who will destroy it, for all numbers of            *)
(* constructions, nested to any depth over a cleanup stack of any size.     *)
(*                                                                         *)
(* The invariant says how far each construction is (Life), and that the     *)
(* frames are those of the constructions that have one, in the same order   *)
(* (Stacks), which is why popFrame, which names nobody, takes the right one.*)
(***************************************************************************)
EXTENDS OwnedPointer, SequenceTheorems, TLAPS

-----------------------------------------------------------------------------
(***************************************************************************)
(* The invariant.                                                          *)
(***************************************************************************)
Framed == {"pointer", "finalizer", "vector"}

\* A frame is of a construction in progress that has come to it, and holds its
\* value; that of an ALTREP knows the pointer once there is one.
FrameOK(i) ==
    /\ stage[frames[i].object] \in Framed
    /\ frames[i].holds
    /\ \E p \in DOMAIN calls : calls[p] = frames[i].object
    /\ stage[frames[i].object] = "vector" => frames[i].data1
    /\ stage[frames[i].object] = "finalizer" /\ Kind[frames[i].object] = "altrep"
          => frames[i].data1

Stacks ==
    /\ calls \in Seq(Objects) /\ frames \in Seq(Pending) /\ stage \in [Objects -> Stages]
    /\ \A p, q \in DOMAIN calls : calls[p] = calls[q] => p = q
    /\ \A p \in DOMAIN calls : stage[calls[p]] \in Framed \union {"continuation"}
    /\ \A i \in DOMAIN frames : FrameOK(i)
    /\ \A o \in Objects : stage[o] \in Framed => \E i \in DOMAIN frames : frames[i].object = o
    /\ \A i, j \in DOMAIN frames, p, q \in DOMAIN calls :
          i < j /\ calls[p] = frames[i].object /\ calls[q] = frames[j].object => p < q

\* What a construction's stage says of its value and its pointer.
Fresh(o) == destroyed[o] = 0 /\ ~address[o] /\ ~finalizer[o] /\ ~reachable[o]
Pointed(o) == value[o] = "heap" /\ destroyed[o] = 0 /\ address[o] /\ reachable[o]

Life(o) ==
    /\ stage[o] \in {"unused", "continuation"} => Fresh(o) /\ value[o] \in {"none", "argument"}
    /\ stage[o] = "pointer" => Fresh(o) /\ value[o] = "heap"
    /\ stage[o] = "finalizer" => Pointed(o) /\ ~finalizer[o]
    /\ stage[o] = "vector" => Pointed(o) /\ finalizer[o] /\ Kind[o] = "altrep"
    /\ stage[o] = "done" =>
          \/ address[o] /\ finalizer[o] /\ value[o] = "heap" /\ destroyed[o] = 0
          \/ ~address[o] /\ value[o] = "destroyed" /\ destroyed[o] = 1
    /\ stage[o] = "failed" =>
          /\ value[o] # "heap" /\ destroyed[o] \in {0, 1}
          /\ address[o] => ~finalizer[o]
          /\ ~reachable[o]

Fields ==
    /\ value \in [Objects -> {"none", "argument", "heap", "destroyed"}]
    /\ destroyed \in [Objects -> Nat]
    /\ address \in [Objects -> BOOLEAN]
    /\ finalizer \in [Objects -> BOOLEAN]
    /\ reachable \in [Objects -> BOOLEAN]
    /\ quitting \in BOOLEAN

OwnInv ==
    /\ Stacks
    /\ Fields
    /\ \A o \in Objects : Life(o)
    /\ quitting => calls = <<>>

-----------------------------------------------------------------------------
(***************************************************************************)
(* Lemmas about the two stacks.                                            *)
(***************************************************************************)
\* The part of a sequence before its last element, and that element.
LEMMA FrontProperties ==
    ASSUME NEW S, NEW q \in Seq(S), q # <<>>
    PROVE  /\ Front(q) \in Seq(S)
           /\ Len(Front(q)) = Len(q) - 1
           /\ \A i \in 1 .. Len(q) - 1 : Front(q)[i] = q[i]
           /\ Last(q) \in S
           /\ Last(q) = q[Len(q)]
<1>1. Len(q) \in Nat \ {0}
  BY EmptySeq
<1>2. \A i \in 1 .. Len(q) - 1 : q[i] \in S
  BY <1>1, ElementOfSeq
<1>3. Last(q) \in S /\ Last(q) = q[Len(q)]
  BY <1>1, ElementOfSeq DEF Last
<1>4. /\ SubSeq(q, 1, Len(q) - 1) \in Seq(S)
      /\ Len(SubSeq(q, 1, Len(q) - 1)) = Len(q) - 1
      /\ \A i \in 1 .. Len(q) - 1 : SubSeq(q, 1, Len(q) - 1)[i] = q[i]
  <2> DEFINE k == Len(q) - 1
  <2>1. k \in Nat /\ \A i \in 1 .. k : q[i] \in S
    BY <1>1, <1>2
  <2> HIDE DEF k
  <2>2. /\ SubSeq(q, 1, k) \in Seq(S)
        /\ Len(SubSeq(q, 1, k)) = IF 1 <= k THEN k - 1 + 1 ELSE 0
        /\ \A i \in 1 .. k - 1 + 1 : SubSeq(q, 1, k)[i] = q[1 + i - 1]
    BY <2>1, SubSeqProperties
  <2>3. Len(SubSeq(q, 1, k)) = k /\ \A i \in 1 .. k : SubSeq(q, 1, k)[i] = q[i]
    BY <2>1, <2>2
  <2> QED
    BY <2>2, <2>3 DEF k
<1> QED
  BY <1>3, <1>4 DEF Front

\* Where a construction that waits is.
LEMMA WaitsIsLast ==
    ASSUME Stacks, NEW o \in Objects, NEW s, Waits(o, s)
    PROVE  /\ calls # <<>> /\ Len(calls) \in Nat \ {0} /\ Len(calls) \in DOMAIN calls
           /\ calls[Len(calls)] = o /\ stage[o] = s
           /\ Front(calls) \in Seq(Objects) /\ Len(Front(calls)) = Len(calls) - 1
           /\ \A p \in 1 .. Len(calls) - 1 : Front(calls)[p] = calls[p] /\ calls[p] # o
<1>1. calls # <<>> /\ Last(calls) = o /\ stage[o] = s /\ calls \in Seq(Objects)
  BY DEF Waits, Stacks
<1>2. Len(calls) \in Nat \ {0} /\ DOMAIN calls = 1..Len(calls)
  BY <1>1, EmptySeq
<1>3. calls[Len(calls)] = o
  BY <1>1, FrontProperties
<1>4. \A p, q \in DOMAIN calls : calls[p] = calls[q] => p = q
  BY DEF Stacks
<1>5. \A p \in 1 .. Len(calls) - 1 : calls[p] # o
  <2> DEFINE n == Len(calls)
  <2>1. n \in Nat \ {0} /\ DOMAIN calls = 1..n /\ calls[n] = o
    BY <1>2, <1>3
  <2> HIDE DEF n
  <2>2. \A p \in 1 .. n - 1 : p \in DOMAIN calls /\ n \in DOMAIN calls /\ p # n
    BY <2>1
  <2>3. \A p \in 1 .. n - 1 : calls[p] # o
    BY <1>4, <2>1, <2>2
  <2> QED
    BY <2>3 DEF n
<1>6. /\ Front(calls) \in Seq(Objects) /\ Len(Front(calls)) = Len(calls) - 1
      /\ \A p \in 1 .. Len(calls) - 1 : Front(calls)[p] = calls[p]
  BY <1>1, FrontProperties
<1> QED
  BY <1>1, <1>2, <1>3, <1>5, <1>6

\* The newest frame is the innermost construction's, if that has one.
LEMMA LastFrame ==
    ASSUME Stacks, NEW o \in Objects, NEW s \in Framed, Waits(o, s)
    PROVE  /\ frames # <<>> /\ Len(frames) \in Nat \ {0} /\ Len(frames) \in DOMAIN frames
           /\ frames[Len(frames)].object = o /\ Last(frames) = frames[Len(frames)]
           /\ Front(frames) \in Seq(Pending) /\ Len(Front(frames)) = Len(frames) - 1
           /\ \A i \in 1 .. Len(frames) - 1 :
                 Front(frames)[i] = frames[i] /\ frames[i].object # o
<1>1. PICK i \in DOMAIN frames : frames[i].object = o
  BY WaitsIsLast DEF Stacks
<1>2. frames \in Seq(Pending) /\ DOMAIN frames = 1..Len(frames) /\ Len(frames) \in Nat
  BY DEF Stacks
<1>3. frames # <<>> /\ Len(frames) \in DOMAIN frames
  BY <1>1, <1>2
<1>4. DOMAIN calls = 1..Len(calls) /\ Len(calls) \in DOMAIN calls /\ calls[Len(calls)] = o
  BY WaitsIsLast DEF Stacks
<1>5. \A j \in DOMAIN frames : i < j => FALSE
  <2> SUFFICES ASSUME NEW j \in DOMAIN frames, i < j PROVE FALSE
    OBVIOUS
  <2>1. PICK q \in DOMAIN calls : calls[q] = frames[j].object
    BY DEF Stacks, FrameOK
  <2>2. Len(calls) < q
    BY <1>1, <1>4, <2>1 DEF Stacks
  <2> QED
    BY <1>4, <2>1, <2>2
<1>6. i = Len(frames)
  BY <1>2, <1>3, <1>5
<1>7. \A j \in 1 .. Len(frames) - 1 : frames[j].object # o
  <2> SUFFICES ASSUME NEW j \in 1 .. Len(frames) - 1, frames[j].object = o PROVE FALSE
    OBVIOUS
  <2>1. j \in DOMAIN frames /\ j < i
    BY <1>2, <1>6
  <2>2. Len(calls) < Len(calls)
    BY <1>1, <1>4, <2>1 DEF Stacks
  <2> QED
    BY <1>4, <2>2
<1>8. Len(frames) \in Nat \ {0}
  BY <1>2, <1>3
<1>9. /\ Front(frames) \in Seq(Pending) /\ Len(Front(frames)) = Len(frames) - 1
      /\ \A j \in 1 .. Len(frames) - 1 : Front(frames)[j] = frames[j]
      /\ Last(frames) = frames[Len(frames)]
  BY <1>2, <1>3, FrontProperties
<1> QED
  BY <1>1, <1>3, <1>6, <1>7, <1>8, <1>9

\* Steps that leave the stacks alone, and the stage of what is on them.
LEMMA StacksKeep ==
    ASSUME Stacks, UNCHANGED <<calls, frames, stage>>
    PROVE  Stacks'
BY DEF Stacks, FrameOK

LEMMA StacksEnter ==
    ASSUME Stacks, NEW o \in Objects, stage[o] = "unused", calls' = Append(calls, o),
           stage' = [stage EXCEPT ![o] = "continuation"], UNCHANGED frames
    PROVE  Stacks'
<1>1. /\ calls' \in Seq(Objects) /\ Len(calls') = Len(calls) + 1 /\ calls'[Len(calls) + 1] = o
      /\ DOMAIN calls = 1..Len(calls) /\ DOMAIN calls' = 1 .. Len(calls) + 1
      /\ Len(calls) \in Nat /\ \A p \in DOMAIN calls : calls'[p] = calls[p]
  BY DEF Stacks
<1>2. stage' \in [Objects -> Stages] /\ stage'[o] = "continuation"
      /\ \A x \in Objects \ {o} : stage'[x] = stage[x]
  BY DEF Stacks, Stages
<1>3. \A p \in DOMAIN calls : calls[p] # o
  BY DEF Stacks, Framed
<1>4. \A i \in DOMAIN frames : frames[i].object \in Objects \ {o}
  <2>1. \A i \in DOMAIN frames : frames[i] \in Pending
    BY DEF Stacks
  <2>2. \A i \in DOMAIN frames : frames[i].object \in Objects
    BY <2>1 DEF Pending
  <2> QED
    BY <2>2 DEF Stacks, FrameOK, Framed
<1>5. \A p, q \in DOMAIN calls' : calls'[p] = calls'[q] => p = q
  BY <1>1, <1>3 DEF Stacks
<1>6. \A p \in DOMAIN calls' : stage'[calls'[p]] \in Framed \union {"continuation"}
  <2>1. \A p \in DOMAIN calls : calls[p] \in Objects \ {o}
    BY <1>3 DEF Stacks
  <2> QED
    BY <1>1, <1>2, <2>1 DEF Stacks
<1>7. \A i \in DOMAIN frames' : FrameOK(i)'
  BY <1>1, <1>2, <1>4 DEF Stacks, FrameOK
<1>8. \A x \in Objects : stage'[x] \in Framed => \E i \in DOMAIN frames' : frames'[i].object = x
  BY <1>2 DEF Stacks, Framed
<1>9. \A i, j \in DOMAIN frames', p, q \in DOMAIN calls' :
         i < j /\ calls'[p] = frames'[i].object /\ calls'[q] = frames'[j].object => p < q
  BY <1>1, <1>4 DEF Stacks
<1> QED
  BY <1>1, <1>2, <1>5, <1>6, <1>7, <1>8, <1>9 DEF Stacks

\* What a sequence of frames has in it.
LEMMA FrameFacts ==
    ASSUME Stacks
    PROVE  /\ DOMAIN frames = 1..Len(frames) /\ Len(frames) \in Nat
           /\ DOMAIN calls = 1..Len(calls) /\ Len(calls) \in Nat
           /\ \A i \in DOMAIN frames : frames[i] \in Pending /\ frames[i].object \in Objects
           /\ \A p \in DOMAIN calls : calls[p] \in Objects
<1>1. \A i \in DOMAIN frames : frames[i] \in Pending
  BY DEF Stacks
<1>2. \A i \in DOMAIN frames : frames[i].object \in Objects
  BY <1>1 DEF Pending
<1> QED
  BY <1>1, <1>2 DEF Stacks

\* What is left when the last element goes.
LEMMA CallsFront ==
    ASSUME Stacks, NEW o \in Objects, NEW s, Waits(o, s), calls' = Front(calls)
    PROVE  /\ Len(calls) \in Nat \ {0} /\ DOMAIN calls = 1 .. Len(calls) /\ calls[Len(calls)] = o
           /\ calls' \in Seq(Objects) /\ DOMAIN calls' = 1 .. Len(calls) - 1
           /\ \A p \in 1 .. Len(calls) - 1 : calls'[p] = calls[p] /\ calls[p] \in Objects \ {o}
<1>1. /\ Len(calls) \in Nat \ {0} /\ DOMAIN calls = 1..Len(calls) /\ calls[Len(calls)] = o
  BY WaitsIsLast, FrameFacts
<1>2. calls' \in Seq(Objects) /\ Len(calls') = Len(calls) - 1
  BY WaitsIsLast
<1>3. DOMAIN calls' = 1 .. Len(calls) - 1
  BY <1>2
<1>4. \A p \in 1 .. Len(calls) - 1 : calls'[p] = calls[p] /\ calls[p] # o
  BY WaitsIsLast
<1>5. \A p \in 1 .. Len(calls) - 1 : p \in 1..Len(calls)
  BY <1>1
<1> QED
  BY <1>1, <1>2, <1>3, <1>4, <1>5, FrameFacts

LEMMA FramesFront ==
    ASSUME Stacks, NEW o \in Objects, NEW s \in Framed, Waits(o, s), frames' = Front(frames)
    PROVE  /\ Len(frames) \in Nat \ {0} /\ DOMAIN frames = 1 .. Len(frames)
           /\ frames[Len(frames)].object = o
           /\ frames' \in Seq(Pending) /\ DOMAIN frames' = 1 .. Len(frames) - 1
           /\ \A i \in 1 .. Len(frames) - 1 :
                 frames'[i] = frames[i] /\ frames[i].object \in Objects \ {o}
<1>1. /\ Len(frames) \in Nat \ {0} /\ DOMAIN frames = 1..Len(frames)
      /\ frames[Len(frames)].object = o
  BY LastFrame, FrameFacts
<1>2. frames' \in Seq(Pending) /\ Len(frames') = Len(frames) - 1
  BY LastFrame
<1>3. DOMAIN frames' = 1 .. Len(frames) - 1
  BY <1>2
<1>4. \A i \in 1 .. Len(frames) - 1 : frames'[i] = frames[i] /\ frames[i].object # o
  BY LastFrame
<1>5. \A i \in 1 .. Len(frames) - 1 : i \in 1..Len(frames)
  BY <1>1
<1> QED
  BY <1>1, <1>2, <1>3, <1>4, <1>5, FrameFacts

\* The innermost construction goes with its frame.
LEMMA StacksPop ==
    ASSUME Stacks, NEW o \in Objects, NEW s \in Framed, Waits(o, s),
           NEW t \in {"done", "failed"}, stage' = [stage EXCEPT ![o] = t],
           calls' = Front(calls), frames' = Front(frames)
    PROVE  Stacks'
<1> DEFINE n == Len(calls)
           m == Len(frames)
<1>1. /\ n \in Nat \ {0} /\ DOMAIN calls = 1..n /\ calls[n] = o
      /\ calls' \in Seq(Objects) /\ DOMAIN calls' = 1 .. n - 1
      /\ \A p \in 1 .. n - 1 : calls'[p] = calls[p] /\ calls[p] \in Objects \ {o}
  BY CallsFront
<1>2. /\ m \in Nat \ {0} /\ DOMAIN frames = 1..m /\ frames[m].object = o
      /\ frames' \in Seq(Pending) /\ DOMAIN frames' = 1 .. m - 1
      /\ \A i \in 1 .. m - 1 : frames'[i] = frames[i] /\ frames[i].object \in Objects \ {o}
  BY FramesFront
<1>3. /\ stage' \in [Objects -> Stages] /\ stage'[o] = t
      /\ \A x \in Objects \ {o} : stage'[x] = stage[x]
  BY DEF Stacks, Stages
<1> HIDE DEF n, m
<1>4. \A p, q \in DOMAIN calls' : calls'[p] = calls'[q] => p = q
  BY <1>1 DEF Stacks
<1>5. \A p \in DOMAIN calls' : stage'[calls'[p]] \in Framed \union {"continuation"}
  BY <1>1, <1>3 DEF Stacks
<1>6. ASSUME NEW i \in DOMAIN frames' PROVE FrameOK(i)'
  <2>1. i \in DOMAIN frames /\ frames'[i] = frames[i] /\ frames[i].object \in Objects \ {o}
    BY <1>2
  <2>2. FrameOK(i) /\ stage'[frames[i].object] = stage[frames[i].object]
    BY <1>3, <2>1 DEF Stacks
  <2>3. PICK p \in DOMAIN calls : calls[p] = frames[i].object
    BY <2>2 DEF FrameOK
  <2>4. p # n /\ p \in DOMAIN calls' /\ calls'[p] = frames'[i].object
    BY <1>1, <2>1, <2>3
  <2> QED
    BY <2>1, <2>2, <2>4 DEF FrameOK
<1>7. ASSUME NEW x \in Objects, stage'[x] \in Framed
      PROVE  \E i \in DOMAIN frames' : frames'[i].object = x
  <2>1. x # o /\ stage[x] \in Framed
    BY <1>3, <1>7 DEF Framed
  <2>2. PICK i \in DOMAIN frames : frames[i].object = x
    BY <2>1 DEF Stacks
  <2>3. i \in DOMAIN frames'
    BY <1>2, <2>1, <2>2
  <2> QED
    BY <1>2, <2>2, <2>3
<1>8. \A i, j \in DOMAIN frames', p, q \in DOMAIN calls' :
         i < j /\ calls'[p] = frames'[i].object /\ calls'[q] = frames'[j].object => p < q
  <2> TAKE i, j \in DOMAIN frames', p, q \in DOMAIN calls'
  <2>1. i \in DOMAIN frames /\ j \in DOMAIN frames /\ p \in DOMAIN calls /\ q \in DOMAIN calls
    BY <1>1, <1>2
  <2>2. /\ frames'[i] = frames[i] /\ frames'[j] = frames[j]
        /\ calls'[p] = calls[p] /\ calls'[q] = calls[q]
    BY <1>1, <1>2
  <2>3. \A k, l \in DOMAIN frames, a, b \in DOMAIN calls :
           k < l /\ calls[a] = frames[k].object /\ calls[b] = frames[l].object => a < b
    BY DEF Stacks
  <2> QED
    BY <2>1, <2>2, <2>3
<1> QED
  BY <1>1, <1>2, <1>3, <1>4, <1>5, <1>6, <1>7, <1>8 DEF Stacks

\* The innermost construction goes before it has a frame.
LEMMA StacksPopCall ==
    ASSUME Stacks, NEW o \in Objects, Waits(o, "continuation"),
           stage' = [stage EXCEPT ![o] = "failed"], calls' = Front(calls), UNCHANGED frames
    PROVE  Stacks'
<1> DEFINE n == Len(calls)
<1>1. /\ n \in Nat \ {0} /\ DOMAIN calls = 1..n /\ calls[n] = o
      /\ calls' \in Seq(Objects) /\ DOMAIN calls' = 1 .. n - 1
      /\ \A p \in 1 .. n - 1 : calls'[p] = calls[p] /\ calls[p] \in Objects \ {o}
  BY CallsFront
<1>2. \A i \in DOMAIN frames : frames[i].object \in Objects \ {o}
  <2>1. stage[o] \notin Framed
    BY WaitsIsLast DEF Framed
  <2> QED
    BY <2>1, FrameFacts DEF Stacks, FrameOK
<1>3. /\ stage' \in [Objects -> Stages] /\ stage'[o] = "failed" /\ stage[o] = "continuation"
      /\ \A x \in Objects \ {o} : stage'[x] = stage[x]
  BY WaitsIsLast DEF Stacks, Stages
<1> HIDE DEF n
<1>4. \A p, q \in DOMAIN calls' : calls'[p] = calls'[q] => p = q
  BY <1>1 DEF Stacks
<1>5. \A p \in DOMAIN calls' : stage'[calls'[p]] \in Framed \union {"continuation"}
  BY <1>1, <1>3 DEF Stacks
<1>6. ASSUME NEW i \in DOMAIN frames PROVE FrameOK(i)'
  <2>1. FrameOK(i) /\ frames[i].object \in Objects \ {o}
    BY <1>2 DEF Stacks
  <2>2. PICK p \in DOMAIN calls : calls[p] = frames[i].object
    BY <2>1 DEF FrameOK
  <2>3. p \in DOMAIN calls' /\ calls'[p] = frames[i].object
    BY <1>1, <2>1, <2>2
  <2> QED
    BY <1>3, <2>1, <2>3 DEF FrameOK
<1>7. \A x \in Objects : stage'[x] \in Framed => \E i \in DOMAIN frames : frames[i].object = x
  BY <1>3 DEF Stacks, Framed
<1>8. \A i, j \in DOMAIN frames, p, q \in DOMAIN calls' :
         i < j /\ calls'[p] = frames[i].object /\ calls'[q] = frames[j].object => p < q
  BY <1>1 DEF Stacks
<1> QED
  BY <1>1, <1>3, <1>4, <1>5, <1>6, <1>7, <1>8 DEF Stacks

\* pushFrameInline.
LEMMA StacksBegin ==
    ASSUME Stacks, NEW o \in Objects, Waits(o, "continuation"),
           stage' = [stage EXCEPT ![o] = "pointer"], UNCHANGED calls,
           frames' = Append(frames, [object |-> o, holds |-> TRUE, data1 |-> FALSE])
    PROVE  Stacks'
<1> DEFINE n == Len(calls)
           m == Len(frames)
           new == [object |-> o, holds |-> TRUE, data1 |-> FALSE]
<1>1. n \in Nat /\ DOMAIN calls = 1..n /\ n \in DOMAIN calls /\ calls[n] = o
  BY WaitsIsLast, FrameFacts
<1>2. \A i \in DOMAIN frames : frames[i].object \in Objects \ {o}
  <2>1. stage[o] \notin Framed
    BY WaitsIsLast DEF Framed
  <2> QED
    BY <2>1, FrameFacts DEF Stacks, FrameOK
<1>3. /\ stage' \in [Objects -> Stages] /\ stage'[o] = "pointer"
      /\ \A x \in Objects \ {o} : stage'[x] = stage[x]
  BY DEF Stacks, Stages
<1>4. new \in Pending
  BY DEF Pending
<1>5. /\ frames' \in Seq(Pending) /\ DOMAIN frames' = 1 .. m + 1 /\ frames'[m + 1] = new
      /\ m \in Nat /\ DOMAIN frames = 1..m /\ \A i \in 1..m : frames'[i] = frames[i]
  BY <1>4 DEF Stacks
<1> HIDE DEF n, m
<1>6. \A p \in DOMAIN calls : stage'[calls[p]] \in Framed \union {"continuation"}
  BY <1>3, FrameFacts DEF Stacks, Framed
<1>7. ASSUME NEW i \in DOMAIN frames' PROVE FrameOK(i)'
  <2>1. CASE i = m + 1
    BY <1>1, <1>3, <1>5, <2>1 DEF FrameOK, Framed
  <2>2. CASE i \in 1..m
    BY <1>2, <1>3, <1>5, <2>2 DEF Stacks, FrameOK
  <2> QED
    BY <1>5, <2>1, <2>2
<1>8. ASSUME NEW x \in Objects, stage'[x] \in Framed
      PROVE  \E i \in DOMAIN frames' : frames'[i].object = x
  <2>1. CASE x = o
    BY <1>5, <2>1
  <2>2. CASE x # o
    <3>1. PICK i \in DOMAIN frames : frames[i].object = x
      BY <1>3, <1>8, <2>2 DEF Stacks
    <3> QED
      BY <1>5, <3>1
  <2> QED
    BY <2>1, <2>2
<1>9. ASSUME NEW i \in DOMAIN frames', NEW j \in DOMAIN frames', i < j,
             NEW p \in DOMAIN calls, NEW q \in DOMAIN calls,
             calls[p] = frames'[i].object, calls[q] = frames'[j].object
      PROVE  p < q
  <2>1. i \in 1..m
    BY <1>5, <1>9
  <2>2. CASE j = m + 1
    <3>0. frames'[j] = new /\ new.object = o
      BY <1>5, <2>2
    <3>1. calls[q] = o /\ q = n
      BY <1>1, <1>9, <3>0 DEF Stacks
    <3>2. p # n
      BY <1>1, <1>2, <1>5, <1>9, <2>1
    <3> QED
      BY <1>1, <3>1, <3>2
  <2>3. CASE j \in 1..m
    BY <1>5, <1>9, <2>1, <2>3 DEF Stacks
  <2> QED
    BY <1>5, <2>2, <2>3
<1> QED
  BY <1>3, <1>5, <1>6, <1>7, <1>8, <1>9 DEF Stacks

\* A step to a later stage of the innermost construction, whose frame may have
\* been told of the pointer.
LEMMA StacksAdvance ==
    ASSUME Stacks, NEW o \in Objects, NEW s \in Framed, Waits(o, s), NEW t \in Framed,
           stage' = [stage EXCEPT ![o] = t], UNCHANGED calls,
           NEW told \in BOOLEAN,
           frames' = [frames EXCEPT ![Len(frames)].data1 = told],
           t = "vector" \/ Kind[o] = "altrep" => told
    PROVE  Stacks'
<1> DEFINE m == Len(frames)
<1>1. /\ m \in Nat \ {0} /\ DOMAIN frames = 1..m /\ m \in DOMAIN frames
      /\ frames \in Seq(Pending) /\ frames[m].object = o
      /\ \A i \in 1 .. m - 1 : frames[i].object \in Objects \ {o}
  BY LastFrame, FrameFacts DEF Stacks
<1>2. /\ stage' \in [Objects -> Stages] /\ stage'[o] = t /\ stage[o] = s
      /\ \A x \in Objects \ {o} : stage'[x] = stage[x]
  BY WaitsIsLast DEF Stacks, Stages, Framed
<1>3. DOMAIN calls = 1..Len(calls) /\ \A p \in DOMAIN calls : calls[p] \in Objects
  BY FrameFacts
<1> HIDE DEF m
<1>4. frames[m] \in Pending
  BY <1>1, FrameFacts
<1>5. [frames[m] EXCEPT !.data1 = told] \in Pending
  BY <1>4 DEF Pending
<1>6. frames' = [frames EXCEPT ![m] = [frames[m] EXCEPT !.data1 = told]]
  BY DEF m
<1>7. frames' \in Seq(Pending) /\ DOMAIN frames' = 1..m
  BY <1>1, <1>5, <1>6
<1>8. /\ \A i \in 1 .. m : frames'[i].object = frames[i].object
      /\ \A i \in 1 .. m : frames'[i].holds = frames[i].holds
      /\ \A i \in 1 .. m - 1 : frames'[i].data1 = frames[i].data1
      /\ frames'[m].data1 = told
  BY <1>1, <1>4, <1>6 DEF Pending
<1>9. \A p \in DOMAIN calls : stage'[calls[p]] \in Framed \union {"continuation"}
  BY <1>2, <1>3 DEF Stacks
<1>10. ASSUME NEW i \in 1..m PROVE FrameOK(i)'
  <2>1. FrameOK(i)
    BY <1>1 DEF Stacks
  <2>2. CASE i = m
    BY <1>1, <1>2, <1>8, <2>1, <2>2 DEF FrameOK
  <2>3. CASE i \in 1 .. m - 1
    BY <1>1, <1>2, <1>8, <2>1, <2>3 DEF FrameOK
  <2> QED
    BY <1>1, <2>2, <2>3
<1>11. ASSUME NEW x \in Objects, stage'[x] \in Framed
       PROVE  \E i \in 1..m : frames'[i].object = x
  <2>1. stage[x] \in Framed
    BY <1>2, <1>11
  <2>2. PICK i \in DOMAIN frames : frames[i].object = x
    BY <2>1 DEF Stacks
  <2> QED
    BY <1>1, <1>8, <2>2
<1>12. \A i, j \in 1..m, p, q \in DOMAIN calls :
          i < j /\ calls[p] = frames'[i].object /\ calls[q] = frames'[j].object => p < q
  BY <1>1, <1>8 DEF Stacks
<1> QED
  BY <1>2, <1>7, <1>9, <1>10, <1>11, <1>12 DEF Stacks

-----------------------------------------------------------------------------
(***************************************************************************)
(* The invariant holds.                                                    *)
(***************************************************************************)
LEMMA InvInit == Init => OwnInv
<1> SUFFICES ASSUME Init PROVE OwnInv
  OBVIOUS
<1>1. Stacks
  BY DEF Init, Stacks, Stages, Framed
<1>2. Fields
  BY DEF Init, Fields
<1>3. \A o \in Objects : Life(o)
  BY DEF Init, Life, Fresh
<1> QED
  BY <1>1, <1>2, <1>3 DEF Init, OwnInv

\* A construction that does not take part stays as it is.
LEMMA LifeKeeps ==
    ASSUME NEW x \in Objects, Life(x), stage'[x] = stage[x], value'[x] = value[x],
           destroyed'[x] = destroyed[x], address'[x] = address[x],
           finalizer'[x] = finalizer[x], reachable'[x] = reachable[x]
    PROVE  Life(x)'
BY DEF Life, Fresh, Pointed

LEMMA InvEnter ==
    ASSUME OwnInv, NEW o \in Objects, Enter(o)
    PROVE  OwnInv'
<1>1. Stacks'
  BY StacksEnter DEF OwnInv, Enter
<1>2. Fields'
  BY DEF OwnInv, Enter, Fields
<1>3. Life(o)'
  BY DEF OwnInv, Enter, Life, Fresh, Fields, Stacks
<1>4. ASSUME NEW x \in Objects \ {o} PROVE Life(x)'
  BY LifeKeeps DEF OwnInv, Enter, Fields, Stacks
<1> QED
  BY <1>1, <1>2, <1>3, <1>4 DEF OwnInv, Enter

LEMMA InvBeginFails ==
    ASSUME OwnInv, NEW o \in Objects, BeginFails(o)
    PROVE  OwnInv'
<1>1. Stacks'
  BY StacksPopCall DEF OwnInv, BeginFails, Fail
<1>2. Fields'
  BY DEF OwnInv, BeginFails, Fail, Fields
<1>3. Life(o)'
  BY DEF OwnInv, BeginFails, Fail, Waits, Life, Fresh, Fields, Stacks
<1>4. ASSUME NEW x \in Objects \ {o} PROVE Life(x)'
  BY LifeKeeps DEF OwnInv, BeginFails, Fail, Fields, Stacks
<1>5. quitting' => calls' = <<>>
  BY DEF OwnInv, BeginFails, Fail, Waits
<1> QED
  BY <1>1, <1>2, <1>3, <1>4, <1>5 DEF OwnInv

LEMMA InvBeginOutOfMemory ==
    ASSUME OwnInv, NEW o \in Objects, BeginOutOfMemory(o)
    PROVE  OwnInv'
<1>1. Stacks'
  BY StacksPopCall DEF OwnInv, BeginOutOfMemory, Fail
<1>2. Fields' /\ Life(o)'
  <2>1. /\ Fields /\ Life(o) /\ stage[o] = "continuation" /\ stage'[o] = "failed"
        /\ reachable' = [reachable EXCEPT ![o] = FALSE]
        /\ UNCHANGED <<address, finalizer, quitting>>
    BY DEF OwnInv, BeginOutOfMemory, Fail, Waits, Stacks
  <2>2. CASE Kind[o] = "owned"
    <3>1. Destroy(o)
      BY <2>2 DEF BeginOutOfMemory
    <3> QED
      BY <2>1, <3>1 DEF Destroy, Fields, Life, Fresh
  <2>3. CASE Kind[o] # "owned"
    <3>1. UNCHANGED <<value, destroyed>>
      BY <2>3 DEF BeginOutOfMemory
    <3> QED
      BY <2>1, <3>1 DEF Fields, Life, Fresh
  <2> QED
    BY <2>2, <2>3
<1>3. ASSUME NEW x \in Objects \ {o} PROVE Life(x)'
  BY LifeKeeps DEF OwnInv, BeginOutOfMemory, Fail, Destroy, Fields, Stacks
<1>4. quitting' => calls' = <<>>
  BY DEF OwnInv, BeginOutOfMemory, Fail, Waits
<1> QED
  BY <1>1, <1>2, <1>3, <1>4 DEF OwnInv

LEMMA InvBegin ==
    ASSUME OwnInv, NEW o \in Objects, Begin(o)
    PROVE  OwnInv'
<1>1. Stacks'
  BY StacksBegin DEF OwnInv, Begin
<1>2. Fields'
  BY DEF OwnInv, Begin, Fields
<1>3. Life(o)'
  BY DEF OwnInv, Begin, Waits, Life, Fresh, Fields, Stacks
<1>4. ASSUME NEW x \in Objects \ {o} PROVE Life(x)'
  BY LifeKeeps DEF OwnInv, Begin, Fields, Stacks
<1> QED
  BY <1>1, <1>2, <1>3, <1>4 DEF OwnInv, Begin

LEMMA InvWrap ==
    ASSUME OwnInv, NEW o \in Objects, Wrap(o)
    PROVE  OwnInv'
<1>1. Stacks'
  <2>1. "pointer" \in Framed /\ "finalizer" \in Framed /\ (Kind[o] = "altrep") \in BOOLEAN
    BY DEF Framed
  <2> QED
    BY <2>1, StacksAdvance DEF OwnInv, Wrap, WrapRecords
<1>2. Fields'
  BY DEF OwnInv, Wrap, WrapRecords, Fields
<1>3. Life(o)'
  BY DEF OwnInv, Wrap, WrapRecords, Waits, Life, Fresh, Pointed, Fields, Stacks
<1>4. ASSUME NEW x \in Objects \ {o} PROVE Life(x)'
  BY LifeKeeps DEF OwnInv, Wrap, WrapRecords, Fields, Stacks
<1> QED
  BY <1>1, <1>2, <1>3, <1>4 DEF OwnInv, Wrap, WrapRecords

LEMMA InvRegister ==
    ASSUME OwnInv, NEW o \in Objects, Register(o)
    PROVE  OwnInv'
<1>1. /\ Waits(o, "finalizer") /\ stage[o] = "finalizer" /\ o \in Objects
      /\ finalizer' = [finalizer EXCEPT ![o] = TRUE]
      /\ UNCHANGED <<value, destroyed, address, reachable, quitting>>
      /\ Stacks /\ Fields /\ Life(o) /\ ~quitting /\ "finalizer" \in Framed
  BY DEF Register, OwnInv, Waits, Framed
<1>2. Fields'
  BY <1>1 DEF Fields
<1>3. CASE Kind[o] = "owned"
  <2>1. /\ frames' = Front(frames) /\ calls' = Front(calls)
        /\ stage' = [stage EXCEPT ![o] = "done"]
    BY <1>3 DEF Register, PopFrame
  <2>2. Stacks'
    BY <1>1, <2>1, StacksPop
  <2>3. stage'[o] = "done" /\ \A x \in Objects \ {o} : stage'[x] = stage[x]
    BY <1>1, <2>1 DEF Stacks
  <2>4. Life(o)'
    BY <1>1, <2>3 DEF Life, Pointed, Fields
  <2>5. \A x \in Objects \ {o} : Life(x)'
    BY <1>1, <2>3, LifeKeeps DEF OwnInv, Fields
  <2> QED
    BY <1>1, <1>2, <2>2, <2>4, <2>5 DEF OwnInv
<1>4. CASE Kind[o] # "owned"
  <2>1. UNCHANGED <<frames, calls>> /\ stage' = [stage EXCEPT ![o] = "vector"]
    BY <1>4 DEF Register
  <2>2. Kind[o] = "altrep"
    BY <1>4, OwnedPointerAssumption
  <2>3. Len(frames) \in DOMAIN frames /\ FrameOK(Len(frames)) /\ frames[Len(frames)].object = o
    BY <1>1, LastFrame DEF Stacks
  <2>4. frames[Len(frames)].data1 /\ frames[Len(frames)] \in Pending
    BY <1>1, <2>2, <2>3, FrameFacts DEF FrameOK
  <2>5. frames' = [frames EXCEPT ![Len(frames)].data1 = TRUE]
    <3>1. [frames[Len(frames)] EXCEPT !.data1 = TRUE] = frames[Len(frames)]
      BY <2>4 DEF Pending
    <3>2. [frames EXCEPT ![Len(frames)] = frames[Len(frames)]] = frames
      BY <1>1, <2>3 DEF Stacks
    <3> QED
      BY <2>1, <3>1, <3>2
  <2>6. Stacks'
    BY <1>1, <2>1, <2>5, StacksAdvance DEF Framed
  <2>7. stage'[o] = "vector" /\ \A x \in Objects \ {o} : stage'[x] = stage[x]
    BY <1>1, <2>1 DEF Stacks
  <2>8. Life(o)'
    BY <1>1, <2>2, <2>7 DEF Life, Pointed, Fields
  <2>9. \A x \in Objects \ {o} : Life(x)'
    BY <1>1, <2>7, LifeKeeps DEF OwnInv, Fields
  <2> QED
    BY <1>1, <1>2, <2>6, <2>8, <2>9 DEF OwnInv
<1> QED
  BY <1>3, <1>4

LEMMA InvNewAltrep ==
    ASSUME OwnInv, NEW o \in Objects, NewAltrep(o)
    PROVE  OwnInv'
<1>1. Stacks'
  <2>1. "vector" \in Framed
    BY DEF Framed
  <2> QED
    BY <2>1, StacksPop DEF OwnInv, NewAltrep, PopFrame
<1>2. Fields'
  BY DEF OwnInv, NewAltrep, Fields
<1>3. Life(o)'
  BY DEF OwnInv, NewAltrep, Waits, Life, Pointed, Fields, Stacks
<1>4. ASSUME NEW x \in Objects \ {o} PROVE Life(x)'
  BY LifeKeeps DEF OwnInv, NewAltrep, Fields, Stacks
<1>5. quitting' => calls' = <<>>
  BY DEF OwnInv, NewAltrep, Waits
<1> QED
  BY <1>1, <1>2, <1>3, <1>4, <1>5 DEF OwnInv

\* An error: the frame that fires is the construction's, and it holds the value.
LEMMA InvRaise ==
    ASSUME OwnInv, NEW o \in Objects, Raise(o)
    PROVE  OwnInv'
<1>1. PICK s \in Framed : Waits(o, s)
  BY DEF Raise, Framed
<1>2. /\ Last(frames).object = o /\ Last(frames) = frames[Len(frames)]
      /\ Len(frames) \in DOMAIN frames /\ frames[Len(frames)].object = o /\ stage[o] = s
  BY <1>1, LastFrame, WaitsIsLast DEF OwnInv
<1>3. FrameOK(Len(frames)) /\ Life(o) /\ Fields /\ ~quitting
  BY <1>1, <1>2 DEF OwnInv, Stacks, Waits
<1>4. Last(frames).holds /\ (s = "vector" => Last(frames).data1)
  BY <1>2, <1>3 DEF FrameOK
<1>5. /\ value' = [value EXCEPT ![o] = "destroyed"]
      /\ destroyed' = [destroyed EXCEPT ![o] = destroyed[o] + 1]
      /\ address' = IF Last(frames).data1 THEN [address EXCEPT ![o] = FALSE] ELSE address
      /\ stage' = [stage EXCEPT ![o] = "failed"]
      /\ reachable' = [reachable EXCEPT ![o] = FALSE]
      /\ UNCHANGED <<finalizer, quitting>>
  BY <1>2, <1>4 DEF Raise, Fire, Fail, Destroy
<1>6. Stacks'
  BY <1>1, StacksPop DEF OwnInv, Raise, Fail, PopFrame
<1>7. stage'[o] = "failed" /\ \A x \in Objects \ {o} : stage'[x] = stage[x]
  BY <1>5 DEF OwnInv, Stacks
<1>8. Fields'
  BY <1>3, <1>5 DEF Fields
<1>9. destroyed[o] = 0 /\ (s # "vector" => ~finalizer[o])
  BY <1>2, <1>3 DEF Life, Fresh, Pointed, Framed
<1>10. /\ value'[o] = "destroyed" /\ destroyed'[o] = 1 /\ ~reachable'[o]
       /\ address'[o] => ~finalizer'[o]
  BY <1>3, <1>4, <1>5, <1>9 DEF Fields
<1>11. Life(o)'
  BY <1>7, <1>10 DEF Life
<1>12. ASSUME NEW x \in Objects \ {o} PROVE Life(x)'
  BY <1>3, <1>5, <1>7, LifeKeeps DEF OwnInv, Fields
<1> QED
  BY <1>3, <1>5, <1>6, <1>8, <1>11, <1>12 DEF OwnInv

LEMMA InvProtectFails ==
    ASSUME OwnInv, NEW o \in Objects, ProtectFails(o)
    PROVE  OwnInv'
<1>1. Stacks'
  <2>1. "pointer" \in Framed
    BY DEF Framed
  <2> QED
    BY <2>1, StacksPop DEF OwnInv, ProtectFails, Fail, PopFrame
<1>2. Fields'
  BY DEF OwnInv, ProtectFails, Destroy, Fail, Fields
<1>3. Life(o)'
  BY DEF OwnInv, ProtectFails, Destroy, Fail, Waits, Life, Fresh, Fields, Stacks
<1>4. ASSUME NEW x \in Objects \ {o} PROVE Life(x)'
  BY LifeKeeps DEF OwnInv, ProtectFails, Destroy, Fail, Fields, Stacks
<1>5. quitting' => calls' = <<>>
  BY DEF OwnInv, ProtectFails, Fail, Waits
<1> QED
  BY <1>1, <1>2, <1>3, <1>4, <1>5 DEF OwnInv

\* finalizeOwned, whoever calls it, of a pointer whose construction has ended: it
\* destroys what a live address leads to, and nothing the second time.
LEMMA LifeFinalized ==
    ASSUME OwnInv, NEW o \in Objects, FinalizeOwned(o), stage[o] \in {"done", "failed"},
           address[o] => stage[o] = "done", UNCHANGED <<stage, reachable>>,
           finalizer'[o] \in BOOLEAN
    PROVE  Life(o)'
<1>1. /\ Life(o) /\ stage'[o] = stage[o] /\ reachable'[o] = reachable[o]
      /\ address' = [address EXCEPT ![o] = FALSE] /\ Fields
  BY DEF OwnInv, FinalizeOwned
<1>2. CASE address[o]
  <2>1. /\ value' = [value EXCEPT ![o] = "destroyed"]
        /\ destroyed' = [destroyed EXCEPT ![o] = destroyed[o] + 1]
    BY <1>2 DEF FinalizeOwned, Destroy
  <2>2. stage[o] = "done" /\ destroyed[o] = 0
    BY <1>1, <1>2 DEF Life
  <2> QED
    BY <1>1, <2>1, <2>2 DEF Life, Fields
<1>3. CASE ~address[o]
  <2>1. UNCHANGED <<value, destroyed>>
    BY <1>3 DEF FinalizeOwned
  <2> QED
    BY <1>1, <1>3, <2>1 DEF Life, Fields
<1> QED
  BY <1>2, <1>3

LEMMA FieldsFinalized ==
    ASSUME Fields, NEW o \in Objects, FinalizeOwned(o)
    PROVE  /\ value' \in [Objects -> {"none", "argument", "heap", "destroyed"}]
           /\ destroyed' \in [Objects -> Nat] /\ address' \in [Objects -> BOOLEAN]
           /\ \A x \in Objects \ {o} : /\ value'[x] = value[x] /\ destroyed'[x] = destroyed[x]
                                       /\ address'[x] = address[x]
<1>1. CASE address[o]
  BY <1>1 DEF FinalizeOwned, Destroy, Fields
<1>2. CASE ~address[o]
  BY <1>2 DEF FinalizeOwned, Fields
<1> QED
  BY <1>1, <1>2

LEMMA InvClose ==
    ASSUME OwnInv, NEW o \in Objects, Close(o)
    PROVE  OwnInv'
<1>1. /\ FinalizeOwned(o) /\ stage[o] = "done" /\ Fields /\ Stacks
      /\ UNCHANGED <<calls, frames, stage, finalizer, reachable, quitting>>
  BY DEF OwnInv, Close
<1>2. Stacks'
  BY <1>1, StacksKeep
<1>3. Fields'
  BY <1>1, FieldsFinalized DEF Fields
<1>4. Life(o)'
  BY <1>1, LifeFinalized DEF Fields
<1>5. ASSUME NEW x \in Objects \ {o} PROVE Life(x)'
  BY <1>1, FieldsFinalized, LifeKeeps DEF OwnInv
<1> QED
  BY <1>1, <1>2, <1>3, <1>4, <1>5 DEF OwnInv

\* R runs no finalizer of a construction in progress.
LEMMA InvCollect ==
    ASSUME OwnInv, NEW o \in Objects, Collect(o)
    PROVE  OwnInv'
<1>1. /\ FinalizeOwned(o) /\ Fields /\ Stacks /\ Life(o)
      /\ finalizer[o] /\ (quitting \/ ~reachable[o]) /\ (quitting => calls = <<>>)
      /\ finalizer' = [finalizer EXCEPT ![o] = FALSE]
      /\ UNCHANGED <<calls, frames, stage, reachable, quitting>>
  BY DEF OwnInv, Collect, Due
<1>2. stage[o] # "vector"
  <2> SUFFICES ASSUME stage[o] = "vector" PROVE FALSE
    OBVIOUS
  <2>1. calls = <<>>
    BY <1>1 DEF Life, Pointed
  <2>2. PICK i \in DOMAIN frames : frames[i].object = o
    BY <1>1 DEF Stacks, Framed
  <2>3. \E p \in DOMAIN calls : calls[p] = o
    BY <1>1, <2>2 DEF Stacks, FrameOK
  <2> QED
    BY <2>1, <2>3
<1>3. stage[o] \in {"done", "failed"} /\ (address[o] => stage[o] = "done")
  BY <1>1, <1>2 DEF Stacks, Stages, Life, Fresh
<1>4. Stacks'
  BY <1>1, StacksKeep
<1>5. Fields'
  BY <1>1, FieldsFinalized DEF Fields
<1>6. Life(o)'
  BY <1>1, <1>3, <1>5, LifeFinalized DEF Fields
<1>7. ASSUME NEW x \in Objects \ {o} PROVE Life(x)'
  <2>1. finalizer'[x] = finalizer[x]
    BY <1>1 DEF Fields
  <2> QED
    BY <1>1, <2>1, FieldsFinalized, LifeKeeps DEF OwnInv
<1> QED
  BY <1>1, <1>4, <1>5, <1>6, <1>7 DEF OwnInv

LEMMA InvDrop ==
    ASSUME OwnInv, NEW o \in Objects, Drop(o)
    PROVE  OwnInv'
<1>1. Stacks'
  BY StacksKeep DEF OwnInv, Drop
<1>2. Fields'
  BY DEF OwnInv, Drop, Fields
<1>3. Life(o)'
  BY DEF OwnInv, Drop, Life
<1>4. ASSUME NEW x \in Objects \ {o} PROVE Life(x)'
  BY LifeKeeps DEF OwnInv, Drop, Fields
<1> QED
  BY <1>1, <1>2, <1>3, <1>4 DEF OwnInv, Drop

LEMMA InvQuit == OwnInv /\ Quit => OwnInv'
<1> SUFFICES ASSUME OwnInv, Quit PROVE OwnInv'
  OBVIOUS
<1>1. Stacks'
  BY StacksKeep DEF OwnInv, Quit
<1>2. Fields'
  BY DEF OwnInv, Quit, Fields
<1>3. \A x \in Objects : Life(x)'
  BY LifeKeeps DEF OwnInv, Quit
<1> QED
  BY <1>1, <1>2, <1>3 DEF OwnInv, Quit

LEMMA InvNext == OwnInv /\ [Next]_vars => OwnInv'
<1> SUFFICES ASSUME OwnInv, [Next]_vars PROVE OwnInv'
  OBVIOUS
<1>1. CASE UNCHANGED vars
  <2>1. Stacks' /\ Fields' /\ \A x \in Objects : Life(x)'
    BY <1>1, StacksKeep, LifeKeeps DEF OwnInv, Fields, vars
  <2> QED
    BY <1>1, <2>1 DEF OwnInv, vars
<1>2. ASSUME NEW o \in Objects, Construct(o) PROVE OwnInv'
  BY <1>2, InvEnter, InvBeginFails, InvBeginOutOfMemory, InvBegin, InvWrap, InvProtectFails,
     InvRegister, InvNewAltrep, InvRaise DEF Construct
<1>3. ASSUME NEW o \in Objects, Close(o) \/ Drop(o) \/ Collect(o) PROVE OwnInv'
  BY <1>3, InvClose, InvDrop, InvCollect
<1>4. CASE Quit
  BY <1>4, InvQuit
<1> QED
  BY <1>1, <1>2, <1>3, <1>4 DEF Next

\* The strengthened invariant.
THEOREM Invariant == Spec => []OwnInv
<1>1. Init => OwnInv
  BY InvInit
<1>2. OwnInv /\ [Next]_vars => OwnInv'
  BY InvNext
<1> QED
  BY <1>1, <1>2, PTL DEF Spec

-----------------------------------------------------------------------------
(***************************************************************************)
(* The properties.                                                         *)
(***************************************************************************)
\* No value is destroyed twice, however its construction and its use end.
THEOREM DestroyedAtMostOnceAlways == Spec => []DestroyedAtMostOnce
<1>1. OwnInv => DestroyedAtMostOnce
  <2> SUFFICES ASSUME OwnInv, NEW o \in Objects PROVE destroyed[o] <= 1
    BY DEF DestroyedAtMostOnce
  <2>1. destroyed[o] \in {0, 1}
    BY DEF OwnInv, Stacks, Stages, Life, Fresh, Pointed
  <2> QED
    BY <2>1
<1> QED
  BY <1>1, Invariant, PTL

\* An address that anybody can still get hold of leads to a live value.
THEOREM AddressIsLiveAlways == Spec => []AddressIsLive
<1>1. OwnInv => AddressIsLive
  BY DEF OwnInv, Stacks, Stages, Life, Fresh, Pointed, AddressIsLive
<1> QED
  BY <1>1, Invariant, PTL

\* A value on the heap is in its construction's frame or has R's finalizer.
THEOREM HasOwnerAlways == Spec => []HasOwner
<1>1. OwnInv => HasOwner
  <2> SUFFICES ASSUME OwnInv, NEW o \in Objects, value[o] = "heap"
               PROVE  \/ \E i \in DOMAIN frames : frames[i].object = o /\ frames[i].holds
                      \/ finalizer[o] /\ address[o]
    BY DEF HasOwner
  <2>1. CASE stage[o] \in Framed
    <3>1. PICK i \in DOMAIN frames : frames[i].object = o
      BY <2>1 DEF OwnInv, Stacks
    <3> QED
      BY <3>1 DEF OwnInv, Stacks, FrameOK
  <2>2. CASE stage[o] \notin Framed
    BY <2>2 DEF OwnInv, Stacks, Stages, Framed, Life
  <2> QED
    BY <2>1, <2>2
<1> QED
  BY <1>1, Invariant, PTL

\* The bounds of the two stacks, which the type invariant states too.
Bounds == Len(calls) <= MaxCalls /\ Len(frames) <= MAX_NESTING

LEMMA BoundsNext == OwnInv /\ Bounds /\ [Next]_vars => Bounds'
<1> SUFFICES ASSUME OwnInv, Bounds, [Next]_vars PROVE Bounds'
  OBVIOUS
<1> USE OwnedPointerAssumption
<1>0. Stacks /\ Len(calls) \in Nat /\ Len(frames) \in Nat
  BY FrameFacts DEF OwnInv
<1>1. ASSUME NEW o \in Objects, NEW s, Waits(o, s), calls' = Front(calls)
      PROVE  Len(calls') <= MaxCalls
  <2>1. Len(calls') = Len(calls) - 1
    BY <1>0, <1>1, WaitsIsLast
  <2> QED
    BY <1>0, <2>1 DEF Bounds
<1>2. ASSUME NEW o \in Objects, NEW s \in Framed, Waits(o, s), frames' = Front(frames)
      PROVE  Len(frames') <= MAX_NESTING
  <2>1. Len(frames') = Len(frames) - 1
    BY <1>0, <1>2, LastFrame
  <2> QED
    BY <1>0, <2>1 DEF Bounds
<1>3. CASE UNCHANGED <<calls, frames>>
  BY <1>3 DEF Bounds
<1>4. ASSUME NEW o \in Objects, Enter(o) PROVE Bounds'
  <2>1. /\ calls' = Append(calls, o) /\ frames' = frames /\ Len(calls) < MaxCalls
        /\ calls \in Seq(Objects)
    BY <1>0, <1>4 DEF Enter, Stacks
  <2>2. Len(calls') = Len(calls) + 1
    BY <2>1, AppendProperties
  <2> QED
    BY <1>0, <2>1, <2>2 DEF Bounds
<1>5. ASSUME NEW o \in Objects, BeginFails(o) \/ BeginOutOfMemory(o) PROVE Bounds'
  <2>1. Waits(o, "continuation") /\ calls' = Front(calls) /\ frames' = frames
    BY <1>5 DEF BeginFails, BeginOutOfMemory, Fail
  <2> QED
    BY <1>1, <2>1 DEF Bounds
<1>6. ASSUME NEW o \in Objects, Begin(o) PROVE Bounds'
  <2> DEFINE new == [object |-> o, holds |-> TRUE, data1 |-> FALSE]
  <2>1. /\ new \in Pending /\ frames \in Seq(Pending) /\ frames' = Append(frames, new)
        /\ calls' = calls /\ Len(frames) < MAX_NESTING
    BY <1>0, <1>6 DEF Begin, Stacks, Pending
  <2> HIDE DEF new
  <2>2. Len(frames') = Len(frames) + 1
    BY <2>1, AppendProperties
  <2> QED
    BY <1>0, <2>1, <2>2 DEF Bounds
<1>7. ASSUME NEW o \in Objects, Wrap(o) PROVE Bounds'
  <2> DEFINE f == [frames EXCEPT ![Len(frames)].data1 = (Kind[o] = "altrep")]
  <2>1. frames' = f /\ calls' = calls
    BY <1>7 DEF Wrap, WrapRecords
  <2>2. DOMAIN f = 1..Len(frames)
    BY <1>0, FrameFacts
  <2> HIDE DEF f
  <2>3. frames' \in Seq(Pending)
    BY <1>7, InvNext DEF OwnInv, Stacks, Next, Construct
  <2>4. Len(frames') = Len(frames)
    BY <1>0, <2>1, <2>2, <2>3, LenProperties
  <2> QED
    BY <2>1, <2>4 DEF Bounds
<1>8. ASSUME NEW o \in Objects, Register(o) \/ NewAltrep(o) PROVE Bounds'
  <2>1. PICK s \in Framed : Waits(o, s)
    BY <1>8 DEF Register, NewAltrep, Framed
  <2>2. /\ frames' = Front(frames) /\ calls' = Front(calls)
        \/ UNCHANGED <<calls, frames>>
    BY <1>8 DEF Register, NewAltrep, PopFrame
  <2> QED
    BY <1>1, <1>2, <1>3, <2>1, <2>2 DEF Bounds
<1>9. ASSUME NEW o \in Objects, Raise(o) \/ ProtectFails(o) PROVE Bounds'
  <2>1. PICK s \in Framed : Waits(o, s)
    BY <1>9 DEF Raise, ProtectFails, Framed
  <2>2. frames' = Front(frames) /\ calls' = Front(calls)
    BY <1>9 DEF Raise, ProtectFails, PopFrame, Fail
  <2> QED
    BY <1>1, <1>2, <2>1, <2>2 DEF Bounds
<1>10. ASSUME NEW o \in Objects, Close(o) \/ Drop(o) \/ Collect(o) PROVE Bounds'
  BY <1>3, <1>10 DEF Close, Drop, Collect
<1>11. CASE Quit \/ UNCHANGED vars
  BY <1>3, <1>11 DEF Quit, vars
<1> QED
  BY <1>4, <1>5, <1>6, <1>7, <1>8, <1>9, <1>10, <1>11 DEF Next, Construct

\* With constructions nested to any depth and failing at any step, the frames are
\* those of the constructions that have one, in their order: popFrame, which
\* names no frame, takes the innermost construction's.
THEOREM FramesMatchCallsAlways == Spec => []FramesMatchCalls
<1>1. Init => Bounds
  BY EmptySeq, OwnedPointerAssumption DEF Init, Bounds
<1>2. OwnInv /\ Bounds => FramesMatchCalls
  <2> SUFFICES ASSUME OwnInv, Bounds PROVE FramesMatchCalls
    OBVIOUS
  <2>1. Stacks /\ TypeOK
    BY DEF OwnInv, Bounds, Stacks, Fields, TypeOK
  <2>2. ASSUME NEW o \in Objects, stage[o] \in Framed
        PROVE  o \in Range(calls) /\ \E i \in DOMAIN frames : frames[i].object = o
    BY <2>1, <2>2 DEF Stacks, FrameOK, Range
  <2>3. ASSUME NEW i \in DOMAIN frames, NEW j \in DOMAIN frames,
               NEW p \in DOMAIN calls, NEW q \in DOMAIN calls,
               calls[p] = frames[i].object, calls[q] = frames[j].object
        PROVE  i < j <=> p < q
    <3>1. i \in Nat /\ j \in Nat /\ p \in Nat /\ q \in Nat
      BY <2>1, FrameFacts
    <3>2. i < j => p < q
      BY <2>1, <2>3 DEF Stacks
    <3>3. j < i => q < p
      BY <2>1, <2>3 DEF Stacks
    <3>4. i = j => p = q
      BY <2>1, <2>3 DEF Stacks
    <3> QED
      BY <3>1, <3>2, <3>3, <3>4
  <2>4. \A i \in DOMAIN frames : stage[frames[i].object] \in Framed
    BY <2>1 DEF Stacks, FrameOK
  <2> QED
    BY <2>1, <2>2, <2>3, <2>4 DEF FramesMatchCalls, Framed
<1> QED
  BY <1>1, <1>2, BoundsNext, Invariant, PTL DEF Spec

=============================================================================
