----------------------------- MODULE SymbolCache -----------------------------
(***************************************************************************)
(* The symbol cache of src/symbols.zig: an open-addressing table in front of *)
(* Rf_install.  The table is probed, then R is called, then the symbol is   *)
(* stored at the slot that was found.  In between, R may collect garbage and *)
(* run finalizers that install symbols themselves, so calls nest.           *)
(*                                                                         *)
(* R interns symbols, one for each name and for ever, so a symbol is        *)
(* represented by its name.                                                 *)
(***************************************************************************)
EXTENDS Integers, Sequences, SequencesExt, FiniteSets

CONSTANTS
    Names,      \* the names that are asked for
    Valid,      \* those shorter than max_name_len and without a NUL byte
    Hash,       \* Wyhash | 1
    cap,        \* slots in the table
    NoName,     \* what an empty slot holds
    MaxDepth    \* bound: calls in progress at once

ASSUME SymbolCacheAssumption ==
    /\ Valid \subseteq Names
    /\ Hash \in [Names -> Nat \ {0}]
    /\ cap \in Nat \ {0}
    /\ NoName \notin Names
    /\ MaxDepth \in Nat

VARIABLES
    hashes,     \* 0 where the slot is empty
    names,      \* with lengths: what is stored; undefined where empty
    sexps,
    count,
    calls,      \* calls of install that wait for Rf_install, innermost last
    answer      \* what the last call that ended returned

vars == <<hashes, names, sexps, count, calls, answer>>

Slots == 0 .. cap - 1
\* What the caller gets when install signals an R error instead of returning.
Error == NoName

Call == [name : Valid, idx : Slots]

TypeOK ==
    /\ hashes \in [Slots -> Nat]
    /\ names \in [Slots -> Names \cup {NoName}]
    /\ sexps \in [Slots -> Names \cup {NoName}]
    /\ count \in 0..cap
    /\ calls \in Seq(Call)
    /\ answer \in [name : Names \cup {NoName}, sexp : Names \cup {Error}]

Init ==
    /\ hashes = [i \in Slots |-> 0]
    /\ names = [i \in Slots |-> NoName]
    /\ sexps = [i \in Slots |-> NoName]
    /\ count = 0
    /\ calls = <<>>
    /\ answer = [name |-> NoName, sexp |-> Error]

Used == {i \in Slots : hashes[i] # 0}

\* Mutant of Matches: equal hashes are taken for equal names.
MatchesHash(n, i) == hashes[i] = Hash[n]

Matches(n, i) == hashes[i] = Hash[n] /\ names[i] = n

\* The k-th slot on the way from the home slot of n.
At(n, k) == ((Hash[n] % cap) + k) % cap

Stops(n, i) == hashes[i] = 0 \/ Matches(n, i)
FirstStop(n, k) == Stops(n, At(n, k)) /\ \A j \in 0 .. k - 1 : ~Stops(n, At(n, j))

\* Where the loop of install leaves idx: after cap steps it is back home.
Probe(n) ==
    IF \E k \in Slots : FirstStop(n, k)
    THEN At(n, CHOOSE k \in Slots : FirstStop(n, k))
    ELSE At(n, 0)

\* A name that the table cannot hold is refused before anything else happens.
Reject(n) ==
    /\ n \notin Valid
    /\ answer' = [name |-> n, sexp |-> Error]
    /\ UNCHANGED <<hashes, names, sexps, count, calls>>

Hit(n) ==
    /\ n \in Valid
    /\ Matches(n, Probe(n))
    /\ answer' = [name |-> n, sexp |-> sexps[Probe(n)]]
    /\ UNCHANGED <<hashes, names, sexps, count, calls>>

Miss(n) ==
    /\ n \in Valid
    /\ ~Matches(n, Probe(n))
    /\ Len(calls) < MaxDepth
    /\ calls' = Append(calls, [name |-> n, idx |-> Probe(n)])
    /\ UNCHANGED <<hashes, names, sexps, count, answer>>

\* Rf_install signals an error: the call is abandoned.  An error in a finalizer
\* ends there, so the calls below go on.
InstallFails ==
    /\ calls # <<>>
    /\ answer' = [name |-> Last(calls).name, sexp |-> Error]
    /\ calls' = Front(calls)
    /\ UNCHANGED <<hashes, names, sexps, count>>

\* Mutants of Insert: nothing is looked at again after R was called; a slot
\* that was taken meanwhile is left for the next one; the entry is counted as if
\* it were always stored.
InsertBlindly(n, idx) ==
    /\ hashes' = [hashes EXCEPT ![idx] = Hash[n]]
    /\ names' = [names EXCEPT ![idx] = n]
    /\ sexps' = [sexps EXCEPT ![idx] = n]
    /\ count' = count + 1
InsertNext(n, idx) ==
    LET i == IF hashes[idx] = 0 THEN idx ELSE (idx + 1) % cap
    IN  IF count < cap /\ hashes[i] = 0
        THEN /\ hashes' = [hashes EXCEPT ![i] = Hash[n]]
             /\ names' = [names EXCEPT ![i] = n]
             /\ sexps' = [sexps EXCEPT ![i] = n]
             /\ count' = count + 1
        ELSE UNCHANGED <<hashes, names, sexps, count>>
InsertCounts(n, idx) ==
    /\ IF count < cap /\ hashes[idx] = 0
       THEN /\ hashes' = [hashes EXCEPT ![idx] = Hash[n]]
            /\ names' = [names EXCEPT ![idx] = n]
            /\ sexps' = [sexps EXCEPT ![idx] = n]
       ELSE UNCHANGED <<hashes, names, sexps>>
    /\ count' = IF count < cap THEN count + 1 ELSE count

Insert(n, idx) ==
    IF count < cap /\ hashes[idx] = 0
    THEN /\ hashes' = [hashes EXCEPT ![idx] = Hash[n]]
         /\ names' = [names EXCEPT ![idx] = n]
         /\ sexps' = [sexps EXCEPT ![idx] = n]
         /\ count' = count + 1
    ELSE UNCHANGED <<hashes, names, sexps, count>>

\* Rf_install returns.
Installed ==
    /\ calls # <<>>
    /\ Insert(Last(calls).name, Last(calls).idx)
    /\ answer' = [name |-> Last(calls).name, sexp |-> Last(calls).name]
    /\ calls' = Front(calls)

Next ==
    \/ \E n \in Names : Reject(n) \/ Hit(n) \/ Miss(n)
    \/ InstallFails
    \/ Installed

Spec == Init /\ [][Next]_vars

-----------------------------------------------------------------------------
\* install returns R's symbol for the name it was given, or no symbol at all:
\* never the symbol of another name that hashes alike.
AnswersAreRs == answer.sexp \in {answer.name, Error}

\* Every entry is where a later lookup of its name stops, although the slot was
\* chosen before R was called: probe sequences have no gaps, no name is stored
\* twice, and a full table still answers.
EveryEntryFound == \A i \in Used : Probe(names[i]) = i

\* count is what its guard takes it for, the number of slots in use.
CountIsExact == count = Cardinality(Used)

\* An entry is never moved, replaced or forgotten by an installation that
\* started before it was made.
EntriesStay ==
    [][\A i \in Used : /\ hashes'[i] = hashes[i]
                       /\ names'[i] = names[i]
                       /\ sexps'[i] = sexps[i]]_vars
=============================================================================
