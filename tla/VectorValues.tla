----------------------------- MODULE VectorValues -----------------------------
(***************************************************************************)
(* What R code may assume of vectors, whatever they are made of: each one   *)
(* has a value of its own, a copy has the value the original had, and a     *)
(* store into one changes no other.                                         *)
(***************************************************************************)
EXTENDS Integers, Sequences, SequencesExt

CONSTANTS
    Objects,   \* identities of vectors
    Cells,     \* what an element can be
    Absent     \* no vector

VARIABLES
    val,       \* the value of each vector
    answer     \* what the last operation told its caller

Nothing == [op |-> "none"]
Made == [op |-> "made"]
Copied(o) == [op |-> "copied", of |-> o]

Init == val = [o \in Objects |-> Absent] /\ answer = Nothing

Exists(o) == val[o] # Absent

Make(o, s) ==
    /\ ~Exists(o)
    /\ s \in Seq(Cells)
    /\ val' = [val EXCEPT ![o] = s]
    /\ answer' = Made

Copy(o, p) ==
    /\ Exists(o) /\ ~Exists(p)
    /\ val' = [val EXCEPT ![p] = val[o]]
    /\ answer' = Copied(o)

Store(o, i, c) ==
    /\ Exists(o)
    /\ i \in 1..Len(val[o]) /\ c \in Cells
    /\ val' = [val EXCEPT ![o][i] = c]
    /\ answer' = Nothing

Drop(o) ==
    /\ Exists(o)
    /\ val' = [val EXCEPT ![o] = Absent]
    /\ answer' = Nothing

\* An operation that is refused, or that is about no vector's value.
Other == answer' = Nothing /\ UNCHANGED val

Next ==
    \/ \E o \in Objects :
          \/ \E s \in {val'[o]} \ {Absent} : Make(o, s)
          \/ \E p \in Objects : Copy(o, p)
          \/ Exists(o) /\ \E i \in 1..Len(val[o]) : \E c \in Cells : Store(o, i, c)
          \/ Drop(o)
    \/ Other

Spec == Init /\ [][Next]_<<val, answer>>
=============================================================================
