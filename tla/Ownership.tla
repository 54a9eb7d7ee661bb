------------------------------ MODULE Ownership ------------------------------
(***************************************************************************)
(* What cleanup.zig promises its callers, without slots, generations or     *)
(* boundaries: native resources are acquired inside nested scopes; an error *)
(* leaves scopes one at a time, and before it goes on, or is handled, every *)
(* resource acquired since the scope was entered is given back, newest      *)
(* first.  Nothing is acquired while an error is under way, and nothing that *)
(* is older than the abandoned scope is touched.                            *)
(***************************************************************************)
EXTENDS Integers, Sequences, SequencesExt

VARIABLES
    live,      \* the resources held, named by the order of their acquisition
    next,      \* the name of the next one
    scopes,    \* the nested scopes, innermost last
    status,    \* "run", "failing" (an error is under way) or "freeing"
    limit      \* while freeing: the oldest name to give back

vars == <<live, next, scopes, status, limit>>

\* A sealed scope must give back everything it acquired before it closes; an
\* open one may leave it to the scope around it.
Scope == [since : Nat, sealed : BOOLEAN]

TypeOK ==
    /\ live \subseteq 0 .. next - 1
    /\ next \in Nat
    /\ scopes \in Seq(Scope)
    /\ status \in {"run", "failing", "freeing"}
    /\ limit \in Nat

Init ==
    /\ live = {}
    /\ next = 0
    /\ scopes = <<>>
    /\ status = "run"
    /\ limit = 0

Newer(n) == {r \in live : r >= n}

Enter(sealed) ==
    /\ status = "run"
    /\ scopes' = Append(scopes, [since |-> next, sealed |-> sealed])
    /\ UNCHANGED <<live, next, status, limit>>

Close ==
    /\ status = "run"
    /\ scopes # <<>>
    /\ Last(scopes).sealed => Newer(Last(scopes).since) = {}
    /\ scopes' = Front(scopes)
    /\ UNCHANGED <<live, next, status, limit>>

Acquire ==
    /\ status = "run"
    /\ scopes # <<>>
    /\ live' = live \cup {next}
    /\ next' = next + 1
    /\ UNCHANGED <<scopes, status, limit>>

\* The owner gives a resource back itself, in any order.
Settle(r) ==
    /\ status = "run"
    /\ live' = live \ {r}
    /\ UNCHANGED <<next, scopes, status, limit>>

Fail ==
    /\ status = "run"
    /\ status' = "failing"
    /\ UNCHANGED <<live, next, scopes, limit>>

\* The error leaves the innermost scope, which cleans up ...
Abort ==
    /\ status = "failing"
    /\ scopes # <<>>
    /\ scopes' = Front(scopes)
    /\ status' = "freeing"
    /\ limit' = Last(scopes).since
    /\ UNCHANGED <<live, next>>

\* ... or which has nothing to clean up and handles the error.
Handle ==
    /\ status = "failing"
    /\ IF scopes = <<>> THEN /\ live = {}
                             /\ scopes' = scopes
                        ELSE /\ Newer(Last(scopes).since) = {}
                             /\ scopes' = Front(scopes)
    /\ status' = "run"
    /\ UNCHANGED <<live, next, limit>>

FreeNewest ==
    /\ status = "freeing"
    /\ \E r \in Newer(limit) :
          /\ \A s \in live : s <= r
          /\ live' = live \ {r}
    /\ UNCHANGED <<next, scopes, status, limit>>

Freed ==
    /\ status = "freeing"
    /\ Newer(limit) = {}
    /\ status' \in {"run", "failing"}
    /\ limit' = 0
    /\ UNCHANGED <<live, next, scopes>>

Next ==
    \/ \E sealed \in BOOLEAN : Enter(sealed)
    \/ Close \/ Acquire
    \/ \E r \in live : Settle(r)
    \/ Fail \/ Abort \/ Handle \/ FreeNewest \/ Freed

Spec == Init /\ [][Next]_vars
=============================================================================
